------------------------------ MODULE Dashboard ------------------------------
(***************************************************************************)
(* The web dashboard (web/app.js) and the requests it makes of the server  *)
(* (gui_server.c): the process table is polled, and a signal is sent from  *)
(* a dialog through POST /api/process/signal.                              *)
(*                                                                         *)
(* The page waits for its answers while the operator goes on using it, so  *)
(* polls overlap and the dialog changes under a request.  The server reads *)
(* a request with one recv, which returns any beginning of it.             *)
(***************************************************************************)
EXTENDS Integers, FiniteSetsExt

CONSTANTS
    Requests,      \* signal requests that may be under way at a time
    Polls,         \* polls that may be
    Pids,          \* processes in the table
    Buttons,       \* the signals the dialog offers
    Others,        \* requests of clients other than the page
    PID_MAX,       \* 4194304
    MaxVersion,    \* bound: snapshots published in a run
    NULL

Tokens == {"", "right", "wrong"}

(* What a number is divided by when its last digits are cut off, of a      *)
(* number that has at most seven.                                          *)
PowersOfTen == {10, 100, 1000, 10000, 100000, 1000000}
Numbers == {n \in Nat : n \div 1000000 < 10}

(* The signal field: a name, a number or nothing. *)
Names == {"SIGKILL", "SIGTERM", "SIGSTOP", "SIGCONT", "SIGINT"}
Named(name) == [name |-> name, number |-> NULL]
Numbered(n) == [name |-> "", number |-> n]
Empty == Named("")
IsField(f) ==
    \/ f = Empty \/ \E name \in Names : f = Named(name)
    \/ f.number \in Numbers /\ f = Numbered(f.number)

ASSUME DashboardAssumption ==
    /\ IsFiniteSet(Requests) /\ IsFiniteSet(Polls)
    /\ \A pid \in Pids : pid \in Numbers /\ pid > 0
    /\ NULL \notin Nat /\ NULL \notin [pid : Nat, sig : Int]
    /\ Buttons \subseteq Names
    /\ \A r \in Others :
          (r.pid = NULL \/ r.pid \in Numbers) /\ IsField(r.sig) /\ r.token \in Tokens
    /\ PID_MAX \in Nat /\ MaxVersion \in Nat

VARIABLES
    version,       \* the snapshot the server has
    poll,          \* each poll: how far it is, and its answer
    table,         \* the snapshot the page shows
    selectedPid,   \* the process of the dialog, or NULL when it is hidden
    apiToken,      \* the token entered in the page
    request        \* each signal request: see Idle and Post

pollVars == <<version, poll, table>>
vars == <<pollVars, selectedPid, apiToken, request>>

-----------------------------------------------------------------------------
(* The server's part: client_thread_worker, handle_process_signal *)

(* What is left of a number without its last digits. *)
Beginnings(n) == {n \div d : d \in PowersOfTen} \ {0}

(* What is left of a signal field; SIG is any part of a name. *)
CutField(sig) ==
    {Empty} \cup CASE sig = Empty        -> {}
                   [] sig.number = NULL  -> {Named("SIG")}
                   [] OTHER              -> {Numbered(n) : n \in Beginnings(sig.number)}

(* What one recv may return of a request, in the order the page writes it: *)
(* request line, headers, empty line, pid, signal.                         *)
Chunks(r) ==
    LET whole    == [route |-> TRUE, token |-> r.token, blank |-> TRUE,
                     pid |-> r.pid, sig |-> r.sig]
        digits   == IF r.pid = NULL THEN {} ELSE Beginnings(r.pid)
        noBody   == [whole EXCEPT !.sig = Empty, !.pid = NULL, !.blank = FALSE]
        noHeader == [noBody EXCEPT !.token = ""]
    IN  {whole, noBody, noHeader, [noHeader EXCEPT !.route = FALSE]}
        \cup {[whole EXCEPT !.sig = f] : f \in CutField(r.sig)}
        \cup {[whole EXCEPT !.sig = Empty, !.pid = n] : n \in digits \cup {NULL}}

(* An empty field means SIGTERM; -1 is no signal. *)
signal_parse_name(sig) ==
    IF sig.number # NULL
    THEN IF sig.number <= 31 THEN sig.number ELSE -1
    ELSE CASE sig.name = "SIGKILL"         -> 9
           [] sig.name \in {"", "SIGTERM"} -> 15
           [] sig.name = "SIGSTOP"         -> 19
           [] sig.name = "SIGCONT"         -> 18
           [] sig.name = "SIGINT"          -> 2
           [] OTHER                        -> -1

check_auth(c) == c.token = "right"

(* Mutant: the token is not looked at. *)
AcceptedUnchecked(c) ==
    /\ c.route /\ c.blank
    /\ c.pid # NULL /\ c.pid > 1 /\ c.pid <= PID_MAX
    /\ signal_parse_name(c.sig) >= 0
(* The conditions under which handle_process_signal calls kill; any other  *)
(* request is answered with an error that has no status field.             *)
Accepted(c) ==
    /\ c.route /\ check_auth(c) /\ c.blank
    /\ c.pid # NULL /\ c.pid > 1 /\ c.pid <= PID_MAX
    /\ signal_parse_name(c.sig) >= 0

(* What becomes of a request: the status in the answer and the signal sent. *)
Outcome(c, status, killed) ==
    [status |-> status,
     killed |-> IF killed THEN [pid |-> c.pid, sig |-> signal_parse_name(c.sig)]
                          ELSE NULL]

(* Mutant: kill's result is not looked at. *)
handle_process_signal_unverified(c) ==
    IF Accepted(c)
    THEN {Outcome(c, "success", TRUE), Outcome(c, "success", FALSE)}
    ELSE {Outcome(c, NULL, FALSE)}
(* kill may fail. *)
handle_process_signal(c) ==
    IF Accepted(c)
    THEN {Outcome(c, "success", TRUE), Outcome(c, "error", FALSE)}
    ELSE {Outcome(c, NULL, FALSE)}

(* A request that is not under way. *)
Idle == [at |-> "idle"]

(* client_thread_worker reads the request and answers it. *)
Serve(r) ==
    /\ request[r].at = "sent"
    /\ \E c \in Chunks(request[r]) : \E outcome \in handle_process_signal(c) :
          request' = [request EXCEPT ![r].at = "answered", ![r].outcome = outcome,
                                     ![r].whole = (c.pid = request[r].pid /\ c.sig = request[r].sig)]
    /\ UNCHANGED <<pollVars, selectedPid, apiToken>>

(* The main loop gives the server a new snapshot. *)
Publish ==
    /\ version < MaxVersion
    /\ version' = version + 1
    /\ UNCHANGED <<poll, table, selectedPid, apiToken, request>>

(* serve_metrics_json. *)
ServeMetrics(p) ==
    /\ poll[p].at = "sent"
    /\ poll' = [poll EXCEPT ![p].at = "answered", ![p].got = version]
    /\ UNCHANGED <<version, table, selectedPid, apiToken, request>>

-----------------------------------------------------------------------------
(* The page's part: app.js *)

(* alert() stops the page until the operator has read the message. *)
Responsive == \A r \in Requests : request[r].at # "alert"

(* fetchMetrics, called by the timer, after a signal or by the operator:   *)
(* the polls before it may still be under way.                             *)
Asked(p) == [poll EXCEPT ![p] = [at |-> "sent", got |-> NULL]]

fetchMetrics(p) ==
    /\ Responsive /\ poll[p].at = "idle"
    /\ poll' = Asked(p)
    /\ UNCHANGED <<version, table, selectedPid, apiToken, request>>

NoPoll == [at |-> "idle", got |-> NULL]

(* Mutant: the table stays while the dialog is open. *)
updateDashboardUnlessOpen(p) ==
    /\ Responsive /\ poll[p].at = "answered"
    /\ table' = IF selectedPid = NULL THEN poll[p].got ELSE table
    /\ poll' = [poll EXCEPT ![p] = NoPoll]
    /\ UNCHANGED <<version, selectedPid, apiToken, request>>
(* An answer arrives and is shown, in whatever order answers arrive. *)
updateDashboard(p) ==
    /\ Responsive /\ poll[p].at = "answered"
    /\ table' = poll[p].got
    /\ poll' = [poll EXCEPT ![p] = NoPoll]
    /\ UNCHANGED <<version, selectedPid, apiToken, request>>

(* The connection breaks; the page waits for the next poll. *)
PollFails(p) ==
    /\ Responsive /\ poll[p].at # "idle"
    /\ poll' = [poll EXCEPT ![p] = NoPoll]
    /\ UNCHANGED <<version, table, selectedPid, apiToken, request>>

(* The dialog changes under the requests that are under way. *)
Moved == [r \in Requests |-> IF request[r].at = "idle" THEN Idle
                             ELSE [request[r] EXCEPT !.moved = TRUE]]

openSignalModal(pid) ==
    /\ Responsive /\ selectedPid # pid
    /\ selectedPid' = pid
    /\ request' = Moved
    /\ UNCHANGED <<pollVars, apiToken>>

closeModal ==
    /\ Responsive /\ selectedPid # NULL
    /\ selectedPid' = NULL
    /\ request' = Moved
    /\ UNCHANGED <<pollVars, apiToken>>

EnterToken(token) ==
    /\ Responsive /\ token # apiToken
    /\ apiToken' = token
    /\ UNCHANGED <<pollVars, selectedPid, request>>

Post(r, pid, sig, token, page) ==
    /\ request[r].at = "idle"
    /\ request' = [request EXCEPT ![r] =
                      [at |-> "sent", pid |-> pid, sig |-> sig, token |-> token,
                       page |-> page, moved |-> FALSE, outcome |-> NULL,
                       whole |-> FALSE, text |-> NULL, named |-> NULL]]

(* A button of the dialog; without a token nothing is sent. *)
sendSignal(r, sig) ==
    /\ Responsive /\ selectedPid # NULL /\ apiToken # ""
    /\ Post(r, selectedPid, Named(sig), apiToken, TRUE)
    /\ UNCHANGED <<pollVars, selectedPid, apiToken>>

(* Another client of the server: the request, and the end of the answer. *)
PostOther(r) ==
    /\ \E f \in Others : Post(r, f.pid, f.sig, f.token, FALSE)
    /\ UNCHANGED <<pollVars, selectedPid, apiToken>>

OtherEnds(r) ==
    /\ request[r].at = "answered" /\ ~request[r].page
    /\ request' = [request EXCEPT ![r] = Idle]
    /\ UNCHANGED <<pollVars, selectedPid, apiToken>>

(* alert: the message, and the process it names, which is that of the      *)
(* dialog by then; the signal it names is that of the request.             *)
Alert(r, text) ==
    request' = [request EXCEPT ![r].at = "alert", ![r].text = text,
                               ![r].named = selectedPid]

(* The answer has arrived; a status that is missing reads OK. *)
SignalAnswered(r) ==
    /\ Responsive /\ request[r].at = "answered" /\ request[r].page
    /\ Alert(r, IF request[r].outcome.status = NULL THEN "OK" ELSE request[r].outcome.status)
    /\ UNCHANGED <<pollVars, selectedPid, apiToken>>

(* The connection breaks, before or after the request was served. *)
SignalFails(r) ==
    /\ Responsive /\ request[r].at \in {"sent", "answered"} /\ request[r].page
    /\ Alert(r, "failed")
    /\ UNCHANGED <<pollVars, selectedPid, apiToken>>

(* The message is read.  After an answer closeModal and fetchMetrics       *)
(* follow, the latter if the bound on polls has room for it.               *)
Dismiss(r) ==
    /\ request[r].at = "alert"
    /\ IF request[r].text = "failed"
       THEN /\ request' = [request EXCEPT ![r] = Idle]
            /\ UNCHANGED <<poll, selectedPid>>
       ELSE /\ request' = [Moved EXCEPT ![r] = Idle]
            /\ selectedPid' = NULL
            /\ LET free == {p \in Polls : poll[p].at = "idle"}
               IN  IF free = {} THEN UNCHANGED poll ELSE \E p \in free : poll' = Asked(p)
    /\ UNCHANGED <<version, table, apiToken>>

-----------------------------------------------------------------------------
Init ==
    /\ version = 0 /\ table = 0 /\ poll = [p \in Polls |-> NoPoll]
    /\ selectedPid = NULL /\ apiToken = ""
    /\ request = [r \in Requests |-> Idle]

Next ==
    \/ Publish
    \/ \E p \in Polls : fetchMetrics(p) \/ ServeMetrics(p) \/ updateDashboard(p) \/ PollFails(p)
    \/ \E pid \in Pids : openSignalModal(pid)
    \/ closeModal
    \/ \E token \in Tokens : EnterToken(token)
    \/ \E r \in Requests :
          \/ \E sig \in Buttons : sendSignal(r, sig)
          \/ PostOther(r) \/ Serve(r) \/ OtherEnds(r)
          \/ SignalAnswered(r) \/ SignalFails(r) \/ Dismiss(r)

(* The timer goes on polling, the server answers what it has read, not     *)
(* every connection breaks, and the operator reads messages.               *)
Fairness ==
    /\ \A p \in Polls : /\ SF_vars(fetchMetrics(p))
                        /\ SF_vars(ServeMetrics(p)) /\ SF_vars(updateDashboard(p))
    /\ \A r \in Requests : WF_vars(Dismiss(r))

Spec == Init /\ [][Next]_vars /\ Fairness

-----------------------------------------------------------------------------
(* Properties *)

(* A signal is sent only for a request with the token, and to the process  *)
(* and with the signal that the request names - unless what was read of it *)
(* ends inside the two fields.  Then the process number, or a signal given *)
(* by number, may be cut short, and SIGTERM is sent for want of a signal;  *)
(* both do not happen at once, and a signal given by name becomes no other *)
(* than SIGTERM.  A beginning without the token, the empty line or a       *)
(* process number sends nothing (client_thread_worker,                     *)
(* handle_process_signal).                                                 *)
SignalledAsAsked ==
    \A r \in Requests :
        LET q == request[r]
        IN  (q.at = "answered" /\ q.outcome.killed # NULL) =>
              LET killed == q.outcome.killed
              IN  /\ q.token = "right" /\ killed.pid > 1 /\ killed.pid <= PID_MAX
                  /\ IF q.whole
                     THEN killed = [pid |-> q.pid, sig |-> signal_parse_name(q.sig)]
                     ELSE \/ /\ killed.pid = q.pid /\ q.sig.number # NULL
                             /\ killed.sig \in Beginnings(q.sig.number)
                          \/ /\ killed.pid \in {q.pid} \cup Beginnings(q.pid)
                             /\ killed.sig = 15

(* A message of success is true: a signal went out for the request, and if *)
(* the server read the whole request and the dialog did not change while   *)
(* the answer was awaited it is the signal the message names, to the       *)
(* process the message names.  Each exception alters only its own part: a  *)
(* changed dialog the process that is named, a cut request the signal that *)
(* went out (sendSignal, handle_process_signal).                           *)
SuccessTrue ==
    \A r \in Requests :
        LET q == request[r]
        IN  (q.at = "alert" /\ q.text = "success") =>
              /\ q.outcome.killed # NULL
              /\ q.whole => q.outcome.killed = [pid |-> q.pid, sig |-> signal_parse_name(q.sig)]
              /\ ~q.moved => q.named = q.pid

(* The page ends up with the last snapshot, although a late answer may put *)
(* an older one back (fetchMetrics, setInterval).                          *)
EventuallyCurrent == <>[](table = version)
=============================================================================
