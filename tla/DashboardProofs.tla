--------------------------- MODULE DashboardProofs ---------------------------
(***************************************************************************)
(* What the page shows and what the server signals, proved for any number  *)
(* of requests, polls, processes and other clients.                        *)
(***************************************************************************)
EXTENDS Dashboard, TLAPS

PidOrNull == Nat \cup {NULL}

(* The signal a served request led to is the one it asked for, or the one  *)
(* that the beginning of it asks for.                                      *)
RightlyKilled(pid, sig, token, whole, killed) ==
    /\ token = "right" /\ killed.pid > 1 /\ killed.pid <= PID_MAX
    /\ IF whole
       THEN killed = [pid |-> pid, sig |-> signal_parse_name(sig)]
       ELSE \/ /\ killed.pid = pid /\ sig.number # NULL
               /\ killed.sig \in Beginnings(sig.number)
            \/ /\ killed.pid \in {pid} \cup Beginnings(pid)
               /\ killed.sig = 15

(* A status of success comes with a signal. *)
TrueOutcome(o) == (o.status # NULL /\ o.status = "success") => o.killed # NULL

(* A request under way: what it was served, what its message says, and     *)
(* that it is for the process of the dialog as long as that has not        *)
(* changed.                                                                *)
UnderWay(q) ==
    /\ q = [at |-> q.at, pid |-> q.pid, sig |-> q.sig, token |-> q.token,
            page |-> q.page, moved |-> q.moved, outcome |-> q.outcome,
            whole |-> q.whole, text |-> q.text, named |-> q.named]
    /\ q.at \in {"sent", "answered", "alert"}
    /\ q.pid \in PidOrNull /\ IsField(q.sig)
    /\ q.at = "answered" =>
          /\ TrueOutcome(q.outcome)
          /\ q.outcome.killed # NULL =>
              RightlyKilled(q.pid, q.sig, q.token, q.whole, q.outcome.killed)
    /\ (q.at = "alert" /\ q.text = "success") =>
          /\ q.outcome.killed # NULL
          /\ q.whole => q.outcome.killed = [pid |-> q.pid, sig |-> signal_parse_name(q.sig)]
          /\ ~q.moved => q.named = q.pid
    /\ (q.at # "alert" /\ q.page /\ ~q.moved) => selectedPid = q.pid

(* The inductive invariant. *)
IInv ==
    /\ selectedPid \in PidOrNull
    /\ request = [r \in Requests |-> request[r]]
    /\ \A r \in Requests : request[r] = Idle \/ UnderWay(request[r])

-----------------------------------------------------------------------------
(* The server *)

(* The numbers of a request and their beginnings are natural numbers. *)
LEMMA NumberFacts ==
    Numbers \subseteq Nat
  BY SMT DEF Numbers

LEMMA BeginningFacts ==
    \A n \in Nat : Beginnings(n) \subseteq Nat
  BY SMT DEF Beginnings, PowersOfTen

(* What is read of a request has its token, its number and its text, or a  *)
(* beginning of them, and the text is missing when the number is cut.      *)
LEMMA ChunkFacts ==
    ASSUME NEW q, q.pid \in PidOrNull, IsField(q.sig),
           NEW c \in Chunks(q), c.blank
    PROVE  /\ c.token = q.token /\ c.pid \in PidOrNull
           /\ \/ c.pid = q.pid /\ (c.sig = q.sig \/ c.sig \in CutField(q.sig))
              \/ c.sig = Empty /\ c.pid = NULL
              \/ /\ c.sig = Empty /\ q.pid # NULL
                 /\ c.pid \in Beginnings(q.pid)
  <1>. DEFINE whole == [route |-> TRUE, token |-> q.token, blank |-> TRUE,
                        pid |-> q.pid, sig |-> q.sig]
              noBody == [whole EXCEPT !.sig = Empty, !.pid = NULL, !.blank = FALSE]
              noHeader == [noBody EXCEPT !.token = ""]
              noRoute == [noHeader EXCEPT !.route = FALSE]
              digits == IF q.pid = NULL THEN {} ELSE Beginnings(q.pid)
  <1>1. \/ c \in {whole, noBody, noHeader, noRoute}
        \/ \E f \in CutField(q.sig) : c = [whole EXCEPT !.sig = f]
        \/ \E n \in digits \cup {NULL} : c = [whole EXCEPT !.sig = Empty, !.pid = n]
    BY Zenon DEF Chunks
  <1>2. CASE c = whole
    BY <1>2
  <1>3. CASE c \in {noBody, noHeader, noRoute}
    <2>1. c.blank = FALSE
      BY <1>3
    <2>. QED
      BY <2>1
  <1>4. ASSUME NEW f \in CutField(q.sig), c = [whole EXCEPT !.sig = f]
        PROVE  c.token = q.token /\ c.pid = q.pid /\ c.sig = f
    BY <1>4
  <1>5. ASSUME NEW n \in digits \cup {NULL}, c = [whole EXCEPT !.sig = Empty, !.pid = n]
        PROVE  c.token = q.token /\ c.pid = n /\ c.sig = Empty
    BY <1>5
  <1>6. ASSUME NEW n \in digits
        PROVE  q.pid # NULL /\ n \in Beginnings(q.pid)
    BY <1>6
  <1>7. ASSUME NEW n \in digits PROVE n \in Nat
    BY <1>6, <1>7, BeginningFacts DEF PidOrNull
  <1>. HIDE DEF whole, noBody, noHeader, noRoute, digits
  <1>. QED
    BY <1>1, <1>2, <1>3, <1>4, <1>5, <1>6, <1>7 DEF PidOrNull

(* signal_parse_name: nothing is SIGTERM, part of a name is no signal, a   *)
(* number is itself or none.                                               *)
LEMMA ParseFacts ==
    /\ signal_parse_name(Empty) = 15
    /\ signal_parse_name(Named("SIG")) = -1
    /\ \A n \in Nat : signal_parse_name(Numbered(n)) \in {n, -1}
    /\ \A name : signal_parse_name(Named(name)) \in Int
  <1>1. signal_parse_name(Empty) = 15
    <2>1. Empty.number = NULL /\ Empty.name = ""
      BY DEF Empty, Named
    <2>. QED
      BY <2>1 DEF signal_parse_name
  <1>2. ASSUME NEW name
        PROVE  /\ signal_parse_name(Named(name)) \in Int
               /\ name = "SIG" => signal_parse_name(Named(name)) = -1
    <2>1. PICK f : f = Named(name)
      OBVIOUS
    <2>2. f.number = NULL /\ f.name = name
      BY <2>1 DEF Named
    <2>3. signal_parse_name(f) \in Int
      BY <2>2 DEF signal_parse_name
    <2>4. name = "SIG" => signal_parse_name(f) = -1
      BY <2>2 DEF signal_parse_name
    <2>. QED
      BY <2>1, <2>3, <2>4, Zenon
  <1>3. ASSUME NEW n \in Nat
        PROVE  signal_parse_name(Numbered(n)) \in {n, -1}
    <2>1. PICK f : f = Numbered(n)
      OBVIOUS
    <2>2. f.number = n /\ n # NULL
      BY <2>1, DashboardAssumption DEF Numbered
    <2>3. f.number # NULL
      BY <2>2, Zenon
    <2>4. signal_parse_name(f) = IF f.number <= 31 THEN f.number ELSE -1
      BY <2>3 DEF signal_parse_name
    <2>5. signal_parse_name(f) \in {f.number, -1}
      BY <2>4, Zenon
    <2>. QED
      BY <2>1, <2>2, <2>5, Zenon
  <1>. QED
    BY <1>1, <1>2, <1>3

(* What is read of a signal field is parsed as the field is, unless the    *)
(* field is a number, as SIGTERM or not at all.                            *)
LEMMA CutFacts ==
    ASSUME NEW sig, IsField(sig), NEW f, f = sig \/ f \in CutField(sig)
    PROVE  /\ signal_parse_name(f) \in Int
           /\ (f # sig /\ signal_parse_name(f) >= 0) =>
                 \/ signal_parse_name(f) = 15
                 \/ sig.number # NULL /\ signal_parse_name(f) \in Beginnings(sig.number)
  <1>1. CASE f = sig
    <2>1. CASE sig = Empty \/ \E name \in Names : sig = Named(name)
      BY <1>1, <2>1, ParseFacts DEF Empty
    <2>2. CASE sig.number \in Numbers /\ sig = Numbered(sig.number)
      <3>1. PICK n : n = sig.number
        OBVIOUS
      <3>2. n \in Nat /\ f = Numbered(n)
        BY <1>1, <2>2, <3>1, NumberFacts
      <3>3. signal_parse_name(Numbered(n)) \in {n, -1}
        BY <3>2, ParseFacts
      <3>. QED
        BY <1>1, <3>2, <3>3
    <2>. QED
      BY <1>1, <2>1, <2>2 DEF IsField
  <1>2. CASE f = Empty
    BY <1>2, ParseFacts
  <1>3. CASE f = Named("SIG")
    BY <1>3, ParseFacts
  <1>4. ASSUME NEW n \in Beginnings(sig.number), sig.number # NULL, f = Numbered(n)
        PROVE  /\ signal_parse_name(f) \in Int
               /\ signal_parse_name(f) >= 0 => signal_parse_name(f) \in Beginnings(sig.number)
    <2>1. sig.number \in Nat
      <3>1. \A name : Named(name).number = NULL
        BY DEF Named
      <3>2. sig # Empty /\ \A name : sig # Named(name)
        BY <1>4, <3>1, Zenon DEF Empty
      <3>. QED
        BY <3>2, NumberFacts, Zenon DEF IsField
    <2>2. n \in Nat
      BY <2>1, BeginningFacts
    <2>. QED
      BY <1>4, <2>2, ParseFacts
  <1>5. \/ f = sig \/ f = Empty \/ f = Named("SIG")
        \/ sig.number # NULL /\ \E n \in Beginnings(sig.number) : f = Numbered(n)
    <2>1. CASE sig = Empty
      BY <2>1 DEF CutField
    <2>2. CASE sig # Empty /\ sig.number = NULL
      BY <2>2 DEF CutField
    <2>3. CASE sig # Empty /\ sig.number # NULL
      BY <2>3 DEF CutField
    <2>. QED
      BY <2>1, <2>2, <2>3
  <1>. QED
    BY <1>1, <1>2, <1>3, <1>4, <1>5

LEMMA OutcomeFacts ==
    ASSUME NEW c, NEW status
    PROVE  /\ Outcome(c, status, TRUE).status = status
           /\ Outcome(c, status, FALSE).status = status
           /\ Outcome(c, status, TRUE).killed = [pid |-> c.pid, sig |-> signal_parse_name(c.sig)]
           /\ Outcome(c, status, FALSE).killed = NULL
  BY DEF Outcome

(* handle_process_signal reports success only when it sent a signal, and   *)
(* sends one only as the request or a beginning of it asks.                *)
LEMMA ServedRight ==
    ASSUME NEW q, q.pid \in PidOrNull, IsField(q.sig),
           NEW c \in Chunks(q), NEW o \in handle_process_signal(c)
    PROVE  /\ TrueOutcome(o)
           /\ o.killed # NULL =>
                 RightlyKilled(q.pid, q.sig, q.token,
                               c.pid = q.pid /\ c.sig = q.sig, o.killed)
  <1>1. CASE ~Accepted(c)
    <2>1. o = Outcome(c, NULL, FALSE)
      BY <1>1, Zenon DEF handle_process_signal
    <2>2. o.killed = NULL /\ o.status = NULL
      BY <2>1, OutcomeFacts, Zenon
    <2>. QED
      BY <2>2 DEF TrueOutcome
  <1>2. CASE Accepted(c)
    <2>. DEFINE killed == [pid |-> c.pid, sig |-> signal_parse_name(c.sig)]
    <2>1. \/ o.status = "error" /\ o.killed = NULL
          \/ o.status = "success" /\ o.killed = killed
      <3>1. o = Outcome(c, "success", TRUE) \/ o = Outcome(c, "error", FALSE)
        BY <1>2, Zenon DEF handle_process_signal
      <3>. QED
        <4>1. CASE o = Outcome(c, "success", TRUE)
          <5>1. o.status = "success"
            BY <4>1, OutcomeFacts, Zenon
          <5>2. o.killed = killed
            BY <4>1, OutcomeFacts
          <5>. QED
            BY <5>1, <5>2, Zenon
        <4>2. CASE o = Outcome(c, "error", FALSE)
          BY <4>2, OutcomeFacts, Zenon
        <4>. QED
          BY <3>1, <4>1, <4>2, Zenon
    <2>2. /\ c.blank /\ c.token = "right" /\ c.pid # NULL
          /\ c.pid > 1 /\ c.pid <= PID_MAX /\ signal_parse_name(c.sig) >= 0
      BY <1>2 DEF Accepted, check_auth
    <2>3. /\ c.token = q.token /\ c.pid \in Nat
          /\ \/ c.pid = q.pid /\ (c.sig = q.sig \/ c.sig \in CutField(q.sig))
             \/ c.sig = Empty /\ c.pid \in Beginnings(q.pid)
      BY <2>2, ChunkFacts DEF PidOrNull
    <2>3a. signal_parse_name(c.sig) \in Int
      BY <2>3, CutFacts, ParseFacts
    <2>4. /\ killed.pid = c.pid /\ killed.sig = signal_parse_name(c.sig)
          /\ killed = [pid |-> c.pid, sig |-> signal_parse_name(c.sig)]
      OBVIOUS
    <2>5. killed # NULL
      <3>1. killed \in [pid : Nat, sig : Int]
        BY <2>3, <2>3a
      <3>. QED
        BY <3>1, DashboardAssumption, Zenon
    <2>. HIDE DEF killed
    <2>6. CASE c.pid = q.pid /\ c.sig = q.sig
      BY <2>1, <2>2, <2>3, <2>4, <2>5, <2>6 DEF RightlyKilled, TrueOutcome
    <2>7. CASE c.pid = q.pid /\ c.sig # q.sig
      <3>1. \/ signal_parse_name(c.sig) = 15
            \/ q.sig.number # NULL /\ signal_parse_name(c.sig) \in Beginnings(q.sig.number)
        BY <2>2, <2>3, <2>7, CutFacts, ParseFacts
      <3>. QED
        BY <2>1, <2>2, <2>3, <2>4, <2>5, <2>7, <3>1 DEF RightlyKilled, TrueOutcome
    <2>8. CASE c.pid # q.pid
      <3>1. signal_parse_name(c.sig) = 15
        BY <2>3, <2>8, ParseFacts
      <3>. QED
        BY <2>1, <2>2, <2>3, <2>4, <2>5, <2>8, <3>1 DEF RightlyKilled, TrueOutcome
    <2>. QED
      BY <2>6, <2>7, <2>8
  <1>. QED
    BY <1>1, <1>2

-----------------------------------------------------------------------------
(* Requests *)

(* A step that changes one request and leaves the dialog alone. *)
LEMMA OneRequest ==
    ASSUME IInv, NEW r \in Requests, NEW q, q = Idle \/ UnderWay(q),
           request' = [request EXCEPT ![r] = q], selectedPid' = selectedPid
    PROVE  IInv'
  <1>1. ASSUME NEW u \in Requests PROVE request'[u] = Idle \/ UnderWay(request'[u])
    BY <1>1 DEF IInv
  <1>2. ASSUME NEW x, UnderWay(x) PROVE UnderWay(x)'
    BY <1>2 DEF UnderWay
  <1>3. request' = [u \in Requests |-> request'[u]]
    BY DEF IInv
  <1>. QED
    BY <1>1, <1>2, <1>3 DEF IInv

(* The dialog changes: the requests under way know it. *)
LEMMA MovedRight ==
    ASSUME IInv, selectedPid' \in PidOrNull, NEW Ended \in SUBSET Requests,
           request' = [u \in Requests |-> IF u \in Ended THEN Idle ELSE Moved[u]]
    PROVE  IInv'
  <1>1. ASSUME NEW u \in Requests, request[u] # Idle, u \notin Ended
        PROVE  UnderWay(request[u])'
    <2>1. PICK s : s = request[u]
      OBVIOUS
    <2>2. UnderWay(s)
      BY <1>1, <2>1 DEF IInv
    <2>3. s.at # "idle"
      BY <2>2 DEF UnderWay
    <2>4. request'[u] = [s EXCEPT !.moved = TRUE]
      BY <1>1, <2>1, <2>3 DEF Moved
    <2>5. PICK q : q = request'[u]
      OBVIOUS
    <2>6. q = [at |-> s.at, pid |-> s.pid, sig |-> s.sig, token |-> s.token,
               page |-> s.page, moved |-> TRUE, outcome |-> s.outcome,
               whole |-> s.whole, text |-> s.text, named |-> s.named]
      BY <2>2, <2>4, <2>5 DEF UnderWay
    <2>7. /\ q.at = s.at /\ q.pid = s.pid /\ q.sig = s.sig /\ q.token = s.token
          /\ q.page = s.page /\ q.outcome = s.outcome
          /\ q.whole = s.whole /\ q.text = s.text /\ q.named = s.named
      BY <2>6
    <2>8. q.moved = TRUE
      BY <2>6
    <2>9. q = [at |-> q.at, pid |-> q.pid, sig |-> q.sig, token |-> q.token,
               page |-> q.page, moved |-> q.moved, outcome |-> q.outcome,
               whole |-> q.whole, text |-> q.text, named |-> q.named]
      BY <2>6
    <2>. QED
      BY <2>2, <2>5, <2>7, <2>8, <2>9, Zenon DEF UnderWay
  <1>2. ASSUME NEW u \in Requests, request[u] = Idle \/ u \in Ended
        PROVE  request'[u] = Idle
    BY <1>2 DEF Moved, Idle
  <1>. QED
    BY <1>1, <1>2 DEF IInv

(* client_thread_worker serves a request from what it read of it. *)
LEMMA ServeKeepsRequests ==
    ASSUME IInv, NEW r \in Requests, Serve(r)
    PROVE  IInv'
  <1>1. PICK s : s = request[r]
    OBVIOUS
  <1>2. s.at = "sent"
    BY <1>1 DEF Serve
  <1>3. UnderWay(s)
    BY <1>1, <1>2 DEF IInv, Idle
  <1>4. PICK c \in Chunks(s) : \E o \in handle_process_signal(c) :
           request' = [request EXCEPT ![r].at = "answered", ![r].outcome = o,
                                      ![r].whole = (c.pid = s.pid /\ c.sig = s.sig)]
    BY <1>1 DEF Serve
  <1>5. PICK o \in handle_process_signal(c) :
           request' = [request EXCEPT ![r].at = "answered", ![r].outcome = o,
                                      ![r].whole = (c.pid = s.pid /\ c.sig = s.sig)]
    BY <1>4
  <1>. DEFINE q == [at |-> "answered", pid |-> s.pid, sig |-> s.sig, token |-> s.token,
                    page |-> s.page, moved |-> s.moved, outcome |-> o,
                    whole |-> (c.pid = s.pid /\ c.sig = s.sig),
                    text |-> s.text, named |-> s.named]
  <1>6. request' = [request EXCEPT ![r] = q]
    <2>1. DOMAIN request = Requests
      BY DEF IInv
    <2>2. request' = [request EXCEPT ![r] =
                        [[[s EXCEPT !.at = "answered"] EXCEPT !.outcome = o]
                             EXCEPT !.whole = (c.pid = s.pid /\ c.sig = s.sig)]]
      BY <1>1, <1>5, <2>1
    <2>3. q = [[[s EXCEPT !.at = "answered"] EXCEPT !.outcome = o]
                  EXCEPT !.whole = (c.pid = s.pid /\ c.sig = s.sig)]
      <3>1. s = [at |-> s.at, pid |-> s.pid, sig |-> s.sig, token |-> s.token,
                 page |-> s.page, moved |-> s.moved, outcome |-> s.outcome,
                 whole |-> s.whole, text |-> s.text, named |-> s.named]
        BY <1>3 DEF UnderWay
      <3>2. PICK a : a = [s EXCEPT !.at = "answered"]
        OBVIOUS
      <3>3. a =
              [at |-> "answered", pid |-> s.pid, sig |-> s.sig, token |-> s.token,
               page |-> s.page, moved |-> s.moved, outcome |-> s.outcome,
               whole |-> s.whole, text |-> s.text, named |-> s.named]
        BY <3>1, <3>2
      <3>4. PICK b : b = [a EXCEPT !.outcome = o]
        OBVIOUS
      <3>5. b =
              [at |-> "answered", pid |-> s.pid, sig |-> s.sig, token |-> s.token,
               page |-> s.page, moved |-> s.moved, outcome |-> o,
               whole |-> s.whole, text |-> s.text, named |-> s.named]
        BY <3>3, <3>4
      <3>6. q = [b EXCEPT !.whole = (c.pid = s.pid /\ c.sig = s.sig)]
        BY <3>5
      <3>. QED
        BY <3>2, <3>4, <3>6, Zenon
    <2>. QED
      BY <2>2, <2>3, Zenon
  <1>7. /\ q.at = "answered" /\ q.pid = s.pid /\ q.sig = s.sig /\ q.token = s.token
        /\ q.page = s.page /\ q.moved = s.moved /\ q.outcome = o
    OBVIOUS
  <1>8. q.whole = (c.pid = s.pid /\ c.sig = s.sig)
    OBVIOUS
  <1>9. q = [at |-> q.at, pid |-> q.pid, sig |-> q.sig, token |-> q.token,
             page |-> q.page, moved |-> q.moved, outcome |-> q.outcome,
             whole |-> q.whole, text |-> q.text, named |-> q.named]
    OBVIOUS
  <1>10. /\ TrueOutcome(o)
         /\ o.killed # NULL =>
               RightlyKilled(s.pid, s.sig, s.token,
                             c.pid = s.pid /\ c.sig = s.sig, o.killed)
    BY <1>3, ServedRight DEF UnderWay
  <1>. HIDE DEF q
  <1>11. UnderWay(q)
    <2>1. q.outcome.killed # NULL =>
             RightlyKilled(q.pid, q.sig, q.token, q.whole, q.outcome.killed)
      BY <1>7, <1>8, <1>10, Zenon
    <2>2. "answered" # "alert"
      OBVIOUS
    <2>. QED
      BY <1>2, <1>3, <1>7, <1>9, <1>10, <2>1, <2>2 DEF UnderWay
  <1>. QED
    BY <1>6, <1>11, OneRequest DEF Serve

(* sendSignal sends a request for the process of the dialog; others send   *)
(* what they like.                                                         *)
LEMMA PostKeepsRequests ==
    ASSUME IInv, NEW r \in Requests,
           NEW pid \in PidOrNull, NEW sig, IsField(sig), NEW token, NEW page,
           Post(r, pid, sig, token, page), selectedPid' = selectedPid,
           page => selectedPid = pid
    PROVE  IInv'
  <1>. DEFINE q == [at |-> "sent", pid |-> pid, sig |-> sig, token |-> token,
                    page |-> page, moved |-> FALSE, outcome |-> NULL,
                    whole |-> FALSE, text |-> NULL, named |-> NULL]
  <1>1. request' = [request EXCEPT ![r] = q]
    BY DEF Post
  <1>2. q.at = "sent" /\ q.pid = pid /\ q.sig = sig /\ q.page = page
    OBVIOUS
  <1>3. q = [at |-> q.at, pid |-> q.pid, sig |-> q.sig, token |-> q.token,
             page |-> q.page, moved |-> q.moved, outcome |-> q.outcome,
             whole |-> q.whole, text |-> q.text, named |-> q.named]
    OBVIOUS
  <1>. HIDE DEF q
  <1>4. UnderWay(q)
    BY <1>2, <1>3 DEF UnderWay
  <1>. QED
    BY <1>1, <1>4, OneRequest

(* alert shows a message; a message of success follows a status of success. *)
LEMMA AlertKeepsRequests ==
    ASSUME IInv, NEW r \in Requests, NEW text, Alert(r, text),
           selectedPid' = selectedPid, request[r].at \in {"sent", "answered"},
           request[r].page,
           text = "success" => /\ request[r].at = "answered"
                               /\ request[r].outcome.killed # NULL
    PROVE  IInv'
  <1>1. PICK s : s = request[r]
    OBVIOUS
  <1>2. UnderWay(s)
    BY <1>1 DEF IInv, Idle
  <1>. DEFINE q == [at |-> "alert", pid |-> s.pid, sig |-> s.sig, token |-> s.token,
                    page |-> s.page, moved |-> s.moved, outcome |-> s.outcome,
                    whole |-> s.whole, text |-> text, named |-> selectedPid]
  <1>3. request' = [request EXCEPT ![r] = q]
    <2>1. DOMAIN request = Requests
      BY DEF IInv
    <2>2. request' = [request EXCEPT ![r] =
                        [[[s EXCEPT !.at = "alert"] EXCEPT !.text = text]
                             EXCEPT !.named = selectedPid]]
      BY <1>1, <2>1 DEF Alert
    <2>3. q = [[[s EXCEPT !.at = "alert"] EXCEPT !.text = text]
                  EXCEPT !.named = selectedPid]
      <3>1. s = [at |-> s.at, pid |-> s.pid, sig |-> s.sig, token |-> s.token,
                 page |-> s.page, moved |-> s.moved, outcome |-> s.outcome,
                 whole |-> s.whole, text |-> s.text, named |-> s.named]
        BY <1>2 DEF UnderWay
      <3>2. PICK a : a = [s EXCEPT !.at = "alert"]
        OBVIOUS
      <3>3. a =
              [at |-> "alert", pid |-> s.pid, sig |-> s.sig, token |-> s.token,
               page |-> s.page, moved |-> s.moved, outcome |-> s.outcome,
               whole |-> s.whole, text |-> s.text, named |-> s.named]
        BY <3>1, <3>2
      <3>4. PICK b : b = [a EXCEPT !.text = text]
        OBVIOUS
      <3>5. b =
              [at |-> "alert", pid |-> s.pid, sig |-> s.sig, token |-> s.token,
               page |-> s.page, moved |-> s.moved, outcome |-> s.outcome,
               whole |-> s.whole, text |-> text, named |-> s.named]
        BY <3>3, <3>4
      <3>6. q = [b EXCEPT !.named = selectedPid]
        BY <3>5
      <3>. QED
        BY <3>2, <3>4, <3>6, Zenon
    <2>. QED
      BY <2>2, <2>3, Zenon
  <1>4. /\ q.at = "alert" /\ q.pid = s.pid /\ q.sig = s.sig /\ q.moved = s.moved
        /\ q.outcome = s.outcome /\ q.text = text /\ q.named = selectedPid
        /\ q.whole = s.whole
    OBVIOUS
  <1>5. q = [at |-> q.at, pid |-> q.pid, sig |-> q.sig, token |-> q.token,
             page |-> q.page, moved |-> q.moved, outcome |-> q.outcome,
             whole |-> q.whole, text |-> q.text, named |-> q.named]
    OBVIOUS
  <1>. HIDE DEF q
  <1>6. UnderWay(q)
    <2>1. s.at # "alert"
      BY <1>1
    <2>2. selectedPid = s.pid \/ s.moved
      BY <1>1, <1>2, <2>1, Zenon DEF UnderWay
    <2>3. "alert" # "answered"
      OBVIOUS
    <2>4. text = "success" =>
             /\ s.outcome.killed # NULL
             /\ s.whole => s.outcome.killed = [pid |-> s.pid, sig |-> signal_parse_name(s.sig)]
      <3>. SUFFICES ASSUME text = "success"
                    PROVE  /\ s.outcome.killed # NULL
                           /\ s.whole => s.outcome.killed =
                                            [pid |-> s.pid, sig |-> signal_parse_name(s.sig)]
        OBVIOUS
      <3>1. s.at = "answered" /\ s.outcome.killed # NULL
        BY <1>1
      <3>2. RightlyKilled(s.pid, s.sig, s.token, s.whole, s.outcome.killed)
        BY <1>2, <3>1, Zenon DEF UnderWay
      <3>. QED
        BY <3>1, <3>2, Zenon DEF RightlyKilled
    <2>5. text = "success" =>
             /\ q.outcome.killed # NULL
             /\ q.whole => q.outcome.killed = [pid |-> q.pid, sig |-> signal_parse_name(q.sig)]
             /\ ~q.moved => q.named = q.pid
      BY <1>4, <2>2, <2>4, Zenon
    <2>6. q.pid \in PidOrNull /\ IsField(q.sig)
      BY <1>2, <1>4, Zenon DEF UnderWay
    <2>. QED
      BY <1>4, <1>5, <2>3, <2>5, <2>6, Zenon DEF UnderWay
  <1>. QED
    BY <1>3, <1>6, OneRequest

(* A step that touches neither the requests nor the dialog. *)
LEMMA RequestsUnchanged ==
    ASSUME IInv, UNCHANGED <<selectedPid, request>>
    PROVE  IInv'
  BY DEF IInv, UnderWay

(* The message is read: the request ends, and after an answer the dialog   *)
(* closes (sendSignal).                                                    *)
LEMMA DismissKeepsIInv ==
    ASSUME IInv, NEW r \in Requests, Dismiss(r)
    PROVE  IInv'
  <1>1. CASE request[r].text = "failed"
    <2>1. request' = [request EXCEPT ![r] = Idle] /\ UNCHANGED selectedPid
      BY <1>1 DEF Dismiss
    <2>. QED
      BY <2>1, OneRequest
  <1>2. CASE request[r].text # "failed"
    <2>1. request' = [Moved EXCEPT ![r] = Idle] /\ selectedPid' = NULL
      BY <1>2 DEF Dismiss
    <2>2. request' = [u \in Requests |-> IF u \in {r} THEN Idle ELSE Moved[u]]
      BY <2>1 DEF Moved
    <2>. QED
      BY <2>1, <2>2, MovedRight DEF PidOrNull
  <1>. QED
    BY <1>1, <1>2

-----------------------------------------------------------------------------
LEMMA InitIInv == Init => IInv
  BY DEF Init, IInv, PidOrNull

(* Every step of the page, the server and the operator preserves the       *)
(* invariant (app.js, gui_server.c).                                       *)
THEOREM NextKeepsIInv == IInv /\ [Next]_vars => IInv'
  <1>. SUFFICES ASSUME IInv, [Next]_vars PROVE IInv'
    OBVIOUS
  <1>1. CASE UNCHANGED vars
    BY <1>1, RequestsUnchanged DEF vars
  <1>2. CASE Publish
    BY <1>2, RequestsUnchanged DEF Publish
  <1>3. ASSUME NEW p \in Polls,
               fetchMetrics(p) \/ ServeMetrics(p) \/ updateDashboard(p) \/ PollFails(p)
        PROVE  IInv'
    <2>1. UNCHANGED <<selectedPid, request>>
      BY <1>3 DEF fetchMetrics, ServeMetrics, updateDashboard, PollFails
    <2>. QED
      BY <2>1, RequestsUnchanged
  <1>4. ASSUME closeModal \/ \E pid \in Pids : openSignalModal(pid) PROVE IInv'
    <2>1. request' = Moved /\ selectedPid' \in PidOrNull
      BY <1>4, DashboardAssumption, NumberFacts DEF closeModal, openSignalModal, PidOrNull
    <2>2. PICK Ended \in SUBSET Requests : Ended = {}
      OBVIOUS
    <2>3. request' = [u \in Requests |-> IF u \in Ended THEN Idle ELSE Moved[u]]
      BY <2>1, <2>2 DEF Moved
    <2>. QED
      BY <2>1, <2>3, MovedRight
  <1>5. ASSUME NEW token \in Tokens, EnterToken(token) PROVE IInv'
    BY <1>5, RequestsUnchanged DEF EnterToken
  <1>6. ASSUME NEW r \in Requests, NEW sig \in Buttons, sendSignal(r, sig) PROVE IInv'
    <2>1. IsField(Named(sig))
      BY DashboardAssumption DEF IsField
    <2>2. /\ Post(r, selectedPid, Named(sig), apiToken, TRUE) /\ selectedPid' = selectedPid
          /\ selectedPid \in PidOrNull
      BY <1>6 DEF sendSignal, IInv
    <2>. QED
      BY <2>1, <2>2, PostKeepsRequests
  <1>7. ASSUME NEW r \in Requests, PostOther(r) PROVE IInv'
    <2>1. PICK f \in Others : Post(r, f.pid, f.sig, f.token, FALSE)
      BY <1>7 DEF PostOther
    <2>2. f.pid \in PidOrNull /\ IsField(f.sig)
      BY DashboardAssumption, NumberFacts DEF PidOrNull
    <2>3. UNCHANGED selectedPid
      BY <1>7 DEF PostOther
    <2>. QED
      BY <2>1, <2>2, <2>3, PostKeepsRequests
  <1>8. ASSUME NEW r \in Requests, Serve(r) PROVE IInv'
    BY <1>8, ServeKeepsRequests
  <1>9. ASSUME NEW r \in Requests, OtherEnds(r) PROVE IInv'
    BY <1>9, OneRequest DEF OtherEnds
  <1>10. ASSUME NEW r \in Requests, SignalAnswered(r) PROVE IInv'
    <2>. DEFINE status == request[r].outcome.status
                text == IF status = NULL THEN "OK" ELSE status
    <2>1. /\ Alert(r, text) /\ request[r].at = "answered" /\ request[r].page
          /\ UNCHANGED selectedPid
      BY <1>10 DEF SignalAnswered
    <2>2. TrueOutcome(request[r].outcome)
      <3>1. request[r] # Idle
        BY <2>1 DEF Idle
      <3>. QED
        BY <2>1, <3>1, Zenon DEF IInv, UnderWay
    <2>3. text = "success" => request[r].outcome.killed # NULL
      BY <2>2 DEF TrueOutcome
    <2>. HIDE DEF text
    <2>. QED
      BY <2>1, <2>3, AlertKeepsRequests
  <1>11. ASSUME NEW r \in Requests, SignalFails(r) PROVE IInv'
    BY <1>11, AlertKeepsRequests DEF SignalFails
  <1>12. ASSUME NEW r \in Requests, Dismiss(r) PROVE IInv'
    BY <1>12, DismissKeepsIInv
  <1>. QED
    BY <1>1, <1>2, <1>3, <1>4, <1>5, <1>6, <1>7, <1>8, <1>9, <1>10, <1>11, <1>12
       DEF Next

(* The invariant holds in every state the page and the server reach        *)
(* (app.js, gui_server.c).                                                 *)
THEOREM DashboardCorrect == Spec => []IInv
  BY InitIInv, NextKeepsIInv, PTL DEF Spec

(* gui_server.c, handle_process_signal: whatever part of a request recv    *)
(* returns, a signal goes out only with the token, and to the process and  *)
(* with the signal that the request names, or that the part of it that was *)
(* read names: a number cut short, or SIGTERM for a signal that is missing. *)
THEOREM SignalsFollowRequests == Spec => []SignalledAsAsked
  <1>1. IInv => SignalledAsAsked
    <2>. SUFFICES ASSUME IInv, NEW r \in Requests,
                         request[r].at = "answered", request[r].outcome.killed # NULL
                  PROVE  RightlyKilled(request[r].pid, request[r].sig, request[r].token,
                                       request[r].whole, request[r].outcome.killed)
      BY DEF SignalledAsAsked, RightlyKilled
    <2>1. UnderWay(request[r])
      BY DEF IInv, Idle
    <2>. QED
      BY <2>1 DEF UnderWay
  <1>. QED
    BY DashboardCorrect, <1>1, PTL

(* app.js, sendSignal: a message of success follows a signal that went     *)
(* out; it names the signal and the process that it went to, unless the    *)
(* request was cut or the dialog changed while the answer was awaited.     *)
THEOREM SuccessMessagesTrue == Spec => []SuccessTrue
  <1>1. IInv => SuccessTrue
    <2>. SUFFICES ASSUME IInv, NEW r \in Requests,
                         request[r].at = "alert", request[r].text = "success"
                  PROVE  LET q == request[r]
                         IN  /\ q.outcome.killed # NULL
                             /\ q.whole => q.outcome.killed =
                                              [pid |-> q.pid, sig |-> signal_parse_name(q.sig)]
                             /\ ~q.moved => q.named = q.pid
      BY DEF SuccessTrue
    <2>1. UnderWay(request[r])
      BY DEF IInv, Idle
    <2>. QED
      BY <2>1, Zenon DEF UnderWay
  <1>. QED
    BY DashboardCorrect, <1>1, PTL
=============================================================================
