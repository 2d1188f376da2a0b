--------------------------- MODULE GuiServerProofs ---------------------------
(***************************************************************************)
(* Proofs about GuiServer, for every finite number of connections, every   *)
(* limit on the workers and clients of any behaviour.                      *)
(***************************************************************************)
EXTENDS GuiServer, FiniteSetTheorems, TLAPS

(* The main thread is in the sampling loop. *)
Serving == {"loop", "wrlock", "copy", "copy2"}

(* A worker that still holds its connection. *)
Connected == {"recv", "rdlock", "read", "read2", "send", "close"}

(* The workers that exist. *)
Workers == {c \in Conns : worker[c] # "none"}

(* The types of what TypeOK leaves open. *)
Shape ==
    /\ TypeOK
    /\ acceptor \in [at : {"none", "check", "call", "accept", "admit", "spawn",
                           "unadmit", "exited"}, fd : Conns \cup {NULL}]
    /\ seen = [c \in Conns |-> seen[c]]

(* What the phase of the main thread says of the accept thread, the        *)
(* listening socket and the counter.                                       *)
LifeCycle ==
    /\ locks <=> (main \notin {"init", "done"})
    /\ main \in {"init", "start"} => acceptor.at = "none"
    /\ main \in Serving => is_running
    /\ is_running => main \in Serving \cup {"stop"}
    /\ main = "stop" /\ ~is_running => acceptor.at = "none"
    /\ main \in {"wait", "asleep", "destroy", "done"} => acceptor.at \in {"none", "exited"}
    /\ listening => main \in Serving \cup {"stop", "unlisten"}
    /\ acceptor.at = "none" => active_workers = 0 /\ ~listening
    /\ main \in {"destroy", "done"} => active_workers = 0

(* Every socket has one owner: the listening queue, the accept thread or a *)
(* worker.                                                                 *)
Sockets ==
    /\ acceptor.at \in {"admit", "spawn"} =>
          /\ acceptor.fd \in Conns
          /\ conn[acceptor.fd] = "open"
          /\ worker[acceptor.fd] = "none"
    /\ \A c \in Conns :
          /\ conn[c] = "queued" => listening \/ acceptor.at = "accept"
          /\ conn[c] = "open" => \/ acceptor.at \in {"admit", "spawn"} /\ acceptor.fd = c
                                 \/ worker[c] \in Connected
          /\ worker[c] \in Connected => conn[c] = "open"
          /\ worker[c] = "leave" => conn[c] = "closed"

(* snapshot_lock excludes the writer from the readers, so that what a      *)
(* reader has serialised is the first half of the snapshot that is there.  *)
SnapshotLock ==
    /\ readers = {c \in Conns : worker[c] \in {"read", "read2"}}
    /\ writer <=> (main \in {"copy", "copy2"})
    /\ writer => readers = {}
    /\ main \notin {"init", "done"} =>
          /\ latest_snapshot \in [totals : {0, 1}, procs : {0, 1}]
          /\ main # "copy2" => latest_snapshot.totals = latest_snapshot.procs
    /\ \A c \in Conns :
          /\ worker[c] \notin {"read2", "send"} => seen[c] = NULL
          /\ worker[c] = "read2" =>
                seen[c] = [totals |-> latest_snapshot.totals, procs |-> NULL]
          /\ worker[c] = "send" =>
                \/ seen[c] = NULL
                \/ \E v \in {0, 1} : seen[c] = [totals |-> v, procs |-> v]

(* The inductive invariant. *)
IInv == Shape /\ WorkersCounted /\ LifeCycle /\ Sockets /\ SnapshotLock

-----------------------------------------------------------------------------
(* A finite number of workers exist, and an existing worker, or one that is *)
(* about to be created, is counted in active_workers.                       *)
LEMMA CountFacts ==
    ASSUME Shape, WorkersCounted
    PROVE  /\ IsFiniteSet(Workers)
           /\ Cardinality(Workers) \in Nat
           /\ active_workers = Cardinality(Workers)
                               + (IF acceptor.at \in {"spawn", "unadmit"} THEN 1 ELSE 0)
           /\ \A c \in Conns : worker[c] # "none" => active_workers > 0
           /\ acceptor.at \in {"spawn", "unadmit"} => active_workers > 0
  <1>1. IsFiniteSet(Workers) /\ Cardinality(Workers) \in Nat
    <2>1. Workers \in SUBSET Conns
      BY DEF Workers
    <2>. QED
      BY <2>1, GuiAssumption, FS_Subset, FS_CardinalityType
  <1>2. active_workers = Cardinality(Workers)
                         + (IF acceptor.at \in {"spawn", "unadmit"} THEN 1 ELSE 0)
    BY DEF WorkersCounted, Workers
  <1>3. ASSUME NEW c \in Conns, worker[c] # "none"
        PROVE  active_workers > 0
    <2>1. c \in Workers
      BY <1>3 DEF Workers
    <2>2. Cardinality(Workers) # 0
      BY <1>1, <2>1, FS_EmptySet
    <2>. QED
      BY <1>1, <1>2, <2>2
  <1>. QED
    BY <1>1, <1>2, <1>3

(* The initial state. *)
LEMMA InitIInv ==
    Init => IInv
  <1> SUFFICES ASSUME Init PROVE IInv
    OBVIOUS
  <1>1. Shape
    <2>1. reading \in [Conns -> BOOLEAN]
      BY Zenon DEF Init
    <2>2. seen = [c \in Conns |-> seen[c]]
      BY DEF Init
    <2>3. g_running \in BOOLEAN /\ initialized \in BOOLEAN /\ is_running \in BOOLEAN
      BY Zenon DEF Init
    <2>4. listening \in BOOLEAN /\ locks \in BOOLEAN /\ writer \in BOOLEAN
      BY Zenon DEF Init
    <2>. QED
      BY <2>1, <2>2, <2>3, <2>4, GuiAssumption DEF Init, Shape, TypeOK, At
  <1>2. WorkersCounted
    <2>1. Workers = {}
      BY DEF Init, Workers
    <2>. QED
      BY <2>1, FS_EmptySet DEF Init, WorkersCounted, Workers, At
  <1>3. LifeCycle
    BY DEF Init, LifeCycle, Serving, At
  <1>4. Sockets
    BY DEF Init, Sockets, Connected, At
  <1>5. SnapshotLock
    BY DEF Init, SnapshotLock
  <1>. QED
    BY <1>1, <1>2, <1>3, <1>4, <1>5 DEF IInv

(* Types are kept; the counter stays within its limit because the accept   *)
(* thread alone raises it and what lowers it was counted before.           *)
LEMMA ShapeKept ==
    ASSUME IInv, Next
    PROVE  Shape'
  <1>. USE GuiAssumption DEF IInv, Shape, TypeOK, serverVars, snapVars, clientVars, At
  <1>1. CASE Interrupt
    <2>1. g_running' \in BOOLEAN
      BY <1>1, Zenon DEF Interrupt
    <2>. QED
      BY <1>1, <2>1 DEF Interrupt
  <1>2. CASE Main
    <2>1. CASE gui_server_init
      <3>1. locks' \in BOOLEAN /\ initialized' \in BOOLEAN
        BY <2>1, Zenon DEF gui_server_init
      <3>. QED
        BY <2>1, <3>1 DEF gui_server_init
    <2>2. CASE gui_server_start
      <3>1. is_running' \in BOOLEAN /\ listening' \in BOOLEAN
        BY <2>2, Zenon DEF gui_server_start
      <3>. QED
        BY <2>2, <3>1 DEF gui_server_start
    <2>3. CASE Sample BY <2>3 DEF Sample
    <2>4. CASE WriteLock
      <3>1. writer' \in BOOLEAN
        BY <2>4, Zenon DEF WriteLock
      <3>. QED
        BY <2>4, <3>1 DEF WriteLock
    <2>5. CASE CopyTotals BY <2>5 DEF CopyTotals
    <2>6. CASE CopyProcs
      <3>1. writer' \in BOOLEAN
        BY <2>6, Zenon DEF CopyProcs
      <3>. QED
        BY <2>6, <3>1 DEF CopyProcs
    <2>7. CASE StopRunning
      <3>1. is_running' \in BOOLEAN
        BY <2>7, Zenon DEF StopRunning
      <3>2. main' \in {"unlisten", "destroy"}
        BY <2>7 DEF StopRunning
      <3>. QED
        BY <2>7, <3>1, <3>2 DEF StopRunning
    <2>8. CASE CloseServer
      <3>1. listening' \in BOOLEAN
        BY <2>8, Zenon DEF CloseServer
      <3>. QED
        BY <2>8, <3>1 DEF CloseServer
    <2>9. CASE Join BY <2>9 DEF Join
    <2>10. CASE WaitWorkers BY <2>10 DEF WaitWorkers
    <2>11. CASE Destroy
      <3>1. locks' \in BOOLEAN /\ initialized' \in BOOLEAN
        BY <2>11, Zenon DEF Destroy
      <3>. QED
        BY <2>11, <3>1 DEF Destroy
    <2>. QED
      BY <1>2, <2>1, <2>2, <2>3, <2>4, <2>5, <2>6, <2>7, <2>8, <2>9, <2>10, <2>11 DEF Main
  <1>3. CASE Acceptor
    <2>1. CASE CheckRunning BY <2>1 DEF CheckRunning
    <2>2. CASE CallAccept BY <2>2 DEF CallAccept
    <2>3. CASE Accept BY <2>3 DEF Accept
    <2>4. CASE Admit BY <2>4 DEF Admit
    <2>5. CASE Spawn BY <2>5 DEF Spawn, Goto, Sockets
    <2>6. CASE Unadmit
      <3>1. active_workers > 0
        BY <2>6, CountFacts DEF Unadmit
      <3>. QED
        BY <2>6, <3>1 DEF Unadmit, Discount
    <2>. QED
      BY <1>3, <2>1, <2>2, <2>3, <2>4, <2>5, <2>6 DEF Acceptor
  <1>4. ASSUME NEW c \in Conns, Worker(c)
        PROVE  Shape'
    <2>1. CASE Recv(c) BY <2>1 DEF Recv, Goto
    <2>2. CASE ReadLock(c) BY <2>2 DEF ReadLock, Goto
    <2>3. CASE ReadTotals(c) BY <2>3 DEF ReadTotals, Goto
    <2>4. CASE ReadProcs(c)
      <3>1. PICK v : seen' = [seen EXCEPT ![c] = v]
        BY <2>4 DEF ReadProcs
      <3>2. seen' = [d \in Conns |-> seen'[d]]
        BY <3>1
      <3>. QED
        BY <2>4, <3>2 DEF ReadProcs, Goto
    <2>5. CASE Send(c)
      <3>1. seen' = [d \in Conns |-> seen'[d]]
        BY <2>5 DEF Send
      <3>. QED
        BY <2>5, <3>1 DEF Send, Goto
    <2>6. CASE CloseClient(c) BY <2>6 DEF CloseClient, Goto
    <2>7. CASE Leave(c)
      <3>1. active_workers > 0
        BY <2>7, CountFacts DEF Leave
      <3>. QED
        BY <2>7, <3>1 DEF Leave, Goto, Discount
    <2>. QED
      BY <1>4, <2>1, <2>2, <2>3, <2>4, <2>5, <2>6, <2>7 DEF Worker
  <1>5. ASSUME NEW c \in Conns, Client(c)
        PROVE  Shape'
    <2>1. CASE Connect(c) BY <2>1 DEF Connect
    <2>2. CASE Stall(c) BY <2>2 DEF Stall
    <2>3. CASE Resume(c) BY <2>3 DEF Resume
    <2>4. CASE Gone(c) BY <2>4 DEF Gone
    <2>5. ASSUME NEW r \in Routes, SendRequest(c, r)
          PROVE  Shape'
      BY <2>5 DEF SendRequest
    <2>. QED
      BY <1>5, <2>1, <2>2, <2>3, <2>4, <2>5 DEF Client
  <1>. QED
    BY <1>1, <1>2, <1>3, <1>4, <1>5 DEF Next

(* The counter follows the workers: Admit counts one that Spawn then       *)
(* creates or Unadmit discounts, and Leave discounts the one that ends.    *)
LEMMA WorkersCountedKept ==
    ASSUME IInv, Next
    PROVE  WorkersCounted'
  <1>. USE DEF IInv
  <1>0. /\ IsFiniteSet(Workers)
        /\ Cardinality(Workers) \in Nat
        /\ active_workers = Cardinality(Workers)
                            + (IF acceptor.at \in {"spawn", "unadmit"} THEN 1 ELSE 0)
    BY CountFacts
  <1>1. SUFFICES active_workers' = Cardinality(Workers')
                     + (IF acceptor'.at \in {"spawn", "unadmit"} THEN 1 ELSE 0)
    BY DEF WorkersCounted, Workers
  <1>2. ASSUME worker' = worker PROVE Workers' = Workers
    BY <1>2 DEF Workers
  <1>3. ASSUME NEW c \in Conns, NEW l, Goto(c, l), worker[c] # "none", l # "none"
        PROVE  Workers' = Workers
    BY <1>3 DEF Workers, Goto, Shape, TypeOK
  <1>4. CASE Interrupt \/ Main
    <2>1. worker' = worker /\ active_workers' = active_workers
      BY <1>4 DEF Interrupt, Main, gui_server_init, gui_server_start, Sample,
             WriteLock, CopyTotals, CopyProcs, StopRunning, CloseServer, Join, WaitWorkers,
             Destroy, serverVars
    <2>2. acceptor' = acceptor \/ (acceptor' = At("check") /\ acceptor.at = "none")
      <3>1. CASE gui_server_start
        BY <3>1 DEF gui_server_start, LifeCycle
      <3>2. CASE ~gui_server_start
        BY <1>4, <3>2 DEF Interrupt, Main, gui_server_init, Sample, WriteLock, CopyTotals,
               CopyProcs, StopRunning, CloseServer, Join, WaitWorkers, Destroy
      <3>. QED
        BY <3>1, <3>2
    <2>. QED
      BY <1>0, <1>2, <2>1, <2>2 DEF At
  <1>5. CASE Acceptor
    <2>1. CASE CheckRunning \/ CallAccept \/ Accept \/ Admit
      BY <1>0, <1>2, <2>1 DEF CheckRunning, CallAccept, Accept, Admit, At, Shape,
             serverVars, snapVars, clientVars
    <2>2. CASE Spawn
      <3>1. CASE worker' = worker
        BY <1>0, <1>2, <2>2, <3>1 DEF Spawn, At, Goto, Shape, TypeOK, Sockets,
               serverVars, snapVars, clientVars
      <3>2. CASE Goto(acceptor.fd, "recv") /\ acceptor' = At("check")
        <4>1. acceptor.fd \in Conns /\ acceptor.fd \notin Workers
          BY <2>2 DEF Spawn, Sockets, Workers
        <4>2. Workers' = Workers \cup {acceptor.fd}
          BY <3>2, <4>1 DEF Workers, Goto, Shape, TypeOK
        <4>3. Cardinality(Workers') = Cardinality(Workers) + 1
          BY <1>0, <4>1, <4>2, FS_AddElement
        <4>. QED
          BY <1>0, <2>2, <3>2, <4>3 DEF Spawn, At, serverVars
      <3>. QED
        BY <2>2, <3>1, <3>2 DEF Spawn
    <2>3. CASE Unadmit
      BY <1>0, <1>2, <2>3 DEF Unadmit, Discount, At
    <2>. QED
      BY <1>5, <2>1, <2>2, <2>3 DEF Acceptor
  <1>6. ASSUME NEW c \in Conns, Worker(c)
        PROVE  active_workers' = Cardinality(Workers')
                     + (IF acceptor'.at \in {"spawn", "unadmit"} THEN 1 ELSE 0)
    <2>1. CASE Leave(c)
      <3>1. c \in Workers
        BY <2>1 DEF Leave, Workers
      <3>2. Workers' = Workers \ {c}
        BY <2>1 DEF Leave, Workers, Goto, Shape, TypeOK
      <3>3. Cardinality(Workers') = Cardinality(Workers) - 1
        BY <1>0, <3>1, <3>2, FS_RemoveElement
      <3>. QED
        BY <1>0, <2>1, <3>3 DEF Leave, Discount
    <2>2. CASE ~Leave(c)
      <3>1. /\ active_workers' = active_workers /\ acceptor' = acceptor
            /\ worker[c] # "none"
            /\ \E l \in Connected \cup {"leave"} : Goto(c, l)
        BY <1>6, <2>2 DEF Worker, Recv, ReadLock, ReadTotals, ReadProcs, Send,
               CloseClient, Connected, serverVars
      <3>2. Workers' = Workers
        BY <1>3, <3>1 DEF Connected
      <3>. QED
        BY <1>0, <3>1, <3>2
    <2>. QED
      BY <2>1, <2>2
  <1>7. ASSUME NEW c \in Conns, Client(c)
        PROVE  active_workers' = Cardinality(Workers')
                     + (IF acceptor'.at \in {"spawn", "unadmit"} THEN 1 ELSE 0)
    BY <1>0, <1>2, <1>7 DEF Client, Connect, Stall, Resume, Gone, SendRequest, serverVars
  <1>. QED
    BY <1>4, <1>5, <1>6, <1>7 DEF Next

(* A step of a client changes nothing but the sockets and what travels on  *)
(* them.                                                                   *)
LEMMA ClientFrame ==
    ASSUME NEW c \in Conns, Client(c)
    PROVE  /\ main' = main /\ acceptor' = acceptor /\ worker' = worker
           /\ serverVars' = serverVars /\ snapVars' = snapVars
           /\ \/ conn' = conn
              \/ /\ conn[c] = "none" /\ (listening \/ acceptor.at = "accept")
                 /\ conn' = [conn EXCEPT ![c] = "queued"]
              \/ /\ conn[c] = "closed" /\ worker[c] = "none"
                 /\ conn' = [conn EXCEPT ![c] = "none"]
  <1>1. CASE Connect(c) BY <1>1 DEF Connect
  <1>2. CASE Stall(c) BY <1>2 DEF Stall
  <1>3. CASE Resume(c) BY <1>3 DEF Resume
  <1>4. CASE Gone(c) BY <1>4 DEF Gone
  <1>5. ASSUME NEW r \in Routes, SendRequest(c, r)
        PROVE  /\ main' = main /\ acceptor' = acceptor /\ worker' = worker
               /\ serverVars' = serverVars /\ snapVars' = snapVars
               /\ conn' = conn
    BY <1>5 DEF SendRequest
  <1>. QED
    BY <1>1, <1>2, <1>3, <1>4, <1>5 DEF Client

(* The phases are kept: the main thread leaves "join" only when the accept *)
(* thread has ended, and "wait" only when no worker is counted.            *)
LEMMA LifeCycleKept ==
    ASSUME IInv, Next
    PROVE  LifeCycle'
  <1>. USE DEF IInv, LifeCycle, Serving, serverVars, snapVars, clientVars, At
  <1>1. CASE Interrupt
    BY <1>1 DEF Interrupt
  <1>2. CASE Main
    <2>1. CASE gui_server_init BY <2>1 DEF gui_server_init
    <2>2. CASE gui_server_start BY <2>2 DEF gui_server_start
    <2>3. CASE Sample BY <2>3 DEF Sample
    <2>4. CASE WriteLock BY <2>4 DEF WriteLock
    <2>5. CASE CopyTotals BY <2>5 DEF CopyTotals
    <2>6. CASE CopyProcs BY <2>6 DEF CopyProcs
    <2>7. CASE StopRunning BY <2>7 DEF StopRunning
    <2>8. CASE CloseServer BY <2>8 DEF CloseServer
    <2>9. CASE Join BY <2>9 DEF Join
    <2>10. CASE WaitWorkers BY <2>10 DEF WaitWorkers, Shape, TypeOK
    <2>11. CASE Destroy BY <2>11 DEF Destroy
    <2>. QED
      BY <1>2, <2>1, <2>2, <2>3, <2>4, <2>5, <2>6, <2>7, <2>8, <2>9, <2>10, <2>11 DEF Main
  <1>3. CASE Acceptor
    <2>1. CASE CheckRunning BY <2>1 DEF CheckRunning
    <2>2. CASE CallAccept BY <2>2 DEF CallAccept
    <2>3. CASE Accept BY <2>3 DEF Accept
    <2>4. CASE Admit BY <2>4 DEF Admit, Shape, TypeOK
    <2>5. CASE Spawn BY <2>5 DEF Spawn
    <2>6. CASE Unadmit BY <2>6, CountFacts DEF Unadmit, Discount, Shape, TypeOK
    <2>. QED
      BY <1>3, <2>1, <2>2, <2>3, <2>4, <2>5, <2>6 DEF Acceptor
  <1>4. ASSUME NEW c \in Conns, Worker(c)
        PROVE  LifeCycle'
    <2>1. CASE Leave(c)
      BY <2>1, CountFacts DEF Leave, Discount
    <2>2. CASE ~Leave(c)
      BY <1>4, <2>2 DEF Worker, Recv, ReadLock, ReadTotals, ReadProcs, Send, CloseClient
    <2>. QED
      BY <2>1, <2>2
  <1>5. ASSUME NEW c \in Conns, Client(c)
        PROVE  LifeCycle'
    BY <1>5, ClientFrame
  <1>. QED
    BY <1>1, <1>2, <1>3, <1>4, <1>5 DEF Next

(* Sockets change hands without being lost: from the queue to the accept   *)
(* thread, from there to a worker, which closes its own.                   *)
LEMMA SocketsKept ==
    ASSUME IInv, Next
    PROVE  Sockets'
  <1>. USE DEF IInv, Sockets, Connected, Shape, TypeOK, serverVars, snapVars, clientVars, At
  <1>1. CASE Interrupt
    BY <1>1 DEF Interrupt
  <1>2. CASE Main
    <2>1. CASE gui_server_init BY <2>1 DEF gui_server_init
    <2>2. CASE gui_server_start BY <2>2 DEF gui_server_start, LifeCycle
    <2>3. CASE Sample BY <2>3 DEF Sample
    <2>4. CASE WriteLock BY <2>4 DEF WriteLock
    <2>5. CASE CopyTotals BY <2>5 DEF CopyTotals
    <2>6. CASE CopyProcs BY <2>6 DEF CopyProcs
    <2>7. CASE StopRunning BY <2>7 DEF StopRunning
    <2>8. CASE CloseServer BY <2>8 DEF CloseServer
    <2>9. CASE Join BY <2>9 DEF Join
    <2>10. CASE WaitWorkers BY <2>10 DEF WaitWorkers
    <2>11. CASE Destroy BY <2>11 DEF Destroy
    <2>. QED
      BY <1>2, <2>1, <2>2, <2>3, <2>4, <2>5, <2>6, <2>7, <2>8, <2>9, <2>10, <2>11 DEF Main
  <1>3. CASE Acceptor
    <2>1. CASE CheckRunning BY <2>1 DEF CheckRunning
    <2>2. CASE CallAccept BY <2>2 DEF CallAccept
    <2>3. CASE Accept
      <3>1. worker' = worker /\ listening' = listening
        BY <2>3 DEF Accept
      <3>2. ASSUME NEW c \in Conns, conn[c] = "queued",
                   conn' = [d \in Conns |-> IF d = c THEN "open"
                                            ELSE IF conn[d] = "queued" /\ ~listening
                                            THEN "closed" ELSE conn[d]],
                   acceptor' = [at |-> "admit", fd |-> c]
            PROVE  Sockets'
        <4>1. worker[c] \notin Connected
          BY <3>2
        <4>2. \A d \in Conns : conn[d] = "open" => worker[d] \in Connected
          BY <2>3 DEF Accept
        <4>3. acceptor'.fd = c /\ conn'[c] = "open" /\ worker'[c] = "none"
          BY <3>1, <3>2, <4>1
        <4>. QED
          BY <3>1, <3>2, <4>1, <4>2, <4>3
      <3>3. ASSUME acceptor' = At("check"),
                   conn' = [d \in Conns |-> IF conn[d] = "queued" /\ ~listening
                                            THEN "closed" ELSE conn[d]]
            PROVE  Sockets'
        BY <2>3, <3>1, <3>3 DEF Accept
      <3>. QED
        BY <2>3, <3>2, <3>3 DEF Accept
    <2>4. CASE Admit BY <2>4 DEF Admit
    <2>5. CASE Spawn
      <3>1. CASE Goto(acceptor.fd, "recv") /\ acceptor' = At("check") /\ conn' = conn
        BY <2>5, <3>1 DEF Spawn, Goto
      <3>2. CASE /\ conn' = [conn EXCEPT ![acceptor.fd] = "closed"]
                 /\ acceptor' = At("unadmit") /\ worker' = worker
        BY <2>5, <3>2 DEF Spawn
      <3>. QED
        BY <2>5, <3>1, <3>2 DEF Spawn
    <2>6. CASE Unadmit BY <2>6 DEF Unadmit
    <2>. QED
      BY <1>3, <2>1, <2>2, <2>3, <2>4, <2>5, <2>6 DEF Acceptor
  <1>4. ASSUME NEW c \in Conns, Worker(c)
        PROVE  Sockets'
    <2>1. CASE Recv(c) BY <2>1 DEF Recv, Goto
    <2>2. CASE ReadLock(c) BY <2>2 DEF ReadLock, Goto
    <2>3. CASE ReadTotals(c) BY <2>3 DEF ReadTotals, Goto
    <2>4. CASE ReadProcs(c) BY <2>4 DEF ReadProcs, Goto
    <2>5. CASE Send(c) BY <2>5 DEF Send, Goto
    <2>6. CASE CloseClient(c) BY <2>6 DEF CloseClient, Goto
    <2>7. CASE Leave(c) BY <2>7 DEF Leave, Goto
    <2>. QED
      BY <1>4, <2>1, <2>2, <2>3, <2>4, <2>5, <2>6, <2>7 DEF Worker
  <1>5. ASSUME NEW c \in Conns, Client(c)
        PROVE  Sockets'
    BY <1>5, ClientFrame
  <1>. QED
    BY <1>1, <1>2, <1>3, <1>4, <1>5 DEF Next

(* snapshot_lock does its work: the halves change only while no worker is *)
(* between reading one and reading the other.                              *)
LEMMA SnapshotLockKept ==
    ASSUME IInv, Next
    PROVE  SnapshotLock'
  <1>0. /\ SnapshotLock
        /\ readers \subseteq Conns /\ seen = [c \in Conns |-> seen[c]]
        /\ worker = [c \in Conns |-> worker[c]]
    BY DEF IInv, Shape, TypeOK
  <1>. USE <1>0 DEF SnapshotLock, serverVars, snapVars, clientVars
  <1>1. CASE Interrupt
    BY <1>1 DEF Interrupt
  <1>2. CASE Main
    <2>1. CASE gui_server_init
      <3>0. active_workers = 0
        BY <2>1 DEF gui_server_init, IInv, LifeCycle
      <3>1. \A c \in Conns : worker[c] = "none"
        BY <3>0, CountFacts DEF IInv
      <3>. QED
        BY <2>1, <3>1 DEF gui_server_init
    <2>2. CASE gui_server_start BY <2>2 DEF gui_server_start
    <2>3. CASE Sample BY <2>3 DEF Sample
    <2>4. CASE WriteLock BY <2>4 DEF WriteLock
    <2>5. CASE CopyTotals BY <2>5 DEF CopyTotals
    <2>6. CASE CopyProcs BY <2>6 DEF CopyProcs
    <2>7. CASE StopRunning BY <2>7 DEF StopRunning
    <2>8. CASE CloseServer BY <2>8 DEF CloseServer
    <2>9. CASE Join BY <2>9 DEF Join
    <2>10. CASE WaitWorkers BY <2>10 DEF WaitWorkers
    <2>11. CASE Destroy
      <3>0. active_workers = 0
        BY <2>11 DEF Destroy, IInv, LifeCycle
      <3>1. \A c \in Conns : worker[c] = "none"
        BY <3>0, CountFacts DEF IInv
      <3>. QED
        BY <2>11, <3>1 DEF Destroy
    <2>. QED
      BY <1>2, <2>1, <2>2, <2>3, <2>4, <2>5, <2>6, <2>7, <2>8, <2>9, <2>10, <2>11 DEF Main
  <1>3. CASE Acceptor
    <2>1. CASE Spawn
      <3>1. acceptor.fd \in Conns /\ worker[acceptor.fd] = "none"
        BY <2>1 DEF Spawn, IInv, Sockets
      <3>. QED
        BY <2>1, <3>1 DEF Spawn, Goto
    <2>2. CASE Unadmit
      <3>1. main \notin {"copy", "copy2", "init", "done"} \/ main' = main
        BY <2>2 DEF Unadmit, Discount
      <3>. QED
        BY <2>2, <3>1 DEF Unadmit, Discount
    <2>3. CASE CheckRunning \/ CallAccept \/ Accept \/ Admit
      <3>1. main' = main /\ worker' = worker /\ snapVars' = snapVars
        BY <2>3 DEF CheckRunning, CallAccept, Accept, Admit
      <3>. QED
        BY <3>1
    <2>. QED
      BY <1>3, <2>1, <2>2, <2>3 DEF Acceptor
  <1>4. ASSUME NEW c \in Conns, Worker(c)
        PROVE  SnapshotLock'
    <2>0. main \notin {"init", "done"}
      <3>1. worker[c] # "none"
        BY <1>4 DEF Worker, Recv, ReadLock, ReadTotals, ReadProcs, Send, CloseClient, Leave
      <3>2. active_workers > 0
        BY <3>1, CountFacts DEF IInv
      <3>. QED
        BY <3>2 DEF IInv, LifeCycle
    <2>1. CASE Recv(c) BY <2>1 DEF Recv, Goto
    <2>2. CASE ReadLock(c) BY <2>2 DEF ReadLock, Goto
    <2>3. CASE ReadTotals(c) BY <2>0, <2>3 DEF ReadTotals, Goto
    <2>4. CASE ReadProcs(c)
      <3>1. PICK v : seen' = [seen EXCEPT ![c] = v]
                     /\ (v = [seen[c] EXCEPT !.procs = latest_snapshot.procs] \/ v = NULL)
        BY <2>4 DEF ReadProcs
      <3>2. v = NULL \/ \E w \in {0, 1} : v = [totals |-> w, procs |-> w]
        BY <2>0, <2>4, <3>1 DEF ReadProcs
      <3>. QED
        BY <2>0, <2>4, <3>1, <3>2 DEF ReadProcs, Goto
    <2>5. CASE Send(c) BY <2>5 DEF Send, Goto
    <2>6. CASE CloseClient(c) BY <2>6 DEF CloseClient, Goto
    <2>7. CASE Leave(c) BY <2>7 DEF Leave, Goto, Discount
    <2>. QED
      BY <1>4, <2>1, <2>2, <2>3, <2>4, <2>5, <2>6, <2>7 DEF Worker
  <1>5. ASSUME NEW c \in Conns, Client(c)
        PROVE  SnapshotLock'
    <2>1. /\ main' = main /\ worker' = worker /\ latest_snapshot' = latest_snapshot
          /\ readers' = readers /\ writer' = writer /\ seen' = seen
      BY <1>5, ClientFrame
    <2>. QED
      BY <2>1
  <1>. QED
    BY <1>1, <1>2, <1>3, <1>4, <1>5 DEF Next

(* Every step of every thread and client preserves the invariant. *)
THEOREM NextKeepsIInv ==
    IInv /\ [Next]_vars => IInv'
  <1>1. ASSUME IInv, Next PROVE IInv'
    BY <1>1, ShapeKept, WorkersCountedKept, LifeCycleKept, SocketsKept, SnapshotLockKept
       DEF IInv
  <1>2. ASSUME IInv, UNCHANGED vars PROVE IInv'
    <2>. USE <1>2 DEF IInv, vars, serverVars, snapVars, clientVars
    <2>1. Shape'
      BY DEF Shape, TypeOK
    <2>2. WorkersCounted'
      BY DEF WorkersCounted
    <2>3. LifeCycle'
      BY DEF LifeCycle
    <2>4. Sockets'
      BY DEF Sockets
    <2>5. SnapshotLock'
      BY DEF SnapshotLock
    <2>. QED
      BY <2>1, <2>2, <2>3, <2>4, <2>5
  <1>. QED
    BY <1>1, <1>2

(* The invariant says what matters of the server. *)
LEMMA IInvImplies ==
    IInv => /\ TypeOK /\ NoUseAfterDestroy /\ WorkersCounted
            /\ MetricsConsistent /\ SocketsClosed
  <1>. SUFFICES ASSUME IInv
                PROVE  /\ TypeOK /\ NoUseAfterDestroy /\ WorkersCounted
                       /\ MetricsConsistent /\ SocketsClosed
    OBVIOUS
  <1>. USE DEF IInv
  <1>1. NoUseAfterDestroy
    BY CountFacts DEF NoUseAfterDestroy, LifeCycle
  <1>2. MetricsConsistent
    BY DEF MetricsConsistent, SnapshotLock
  <1>3. SocketsClosed
    <2>. SUFFICES ASSUME main = "done", NEW c \in Conns
                  PROVE  conn[c] \in {"none", "closed"}
      BY DEF SocketsClosed
    <2>1. worker[c] = "none"
      BY CountFacts DEF LifeCycle
    <2>2. ~listening /\ acceptor.at \in {"none", "exited"}
      BY DEF LifeCycle, Serving
    <2>3. conn[c] \in {"none", "queued", "open", "closed"}
      BY DEF Shape, TypeOK
    <2>. QED
      BY <2>1, <2>2, <2>3 DEF Sockets, Connected
  <1>. QED
    BY <1>1, <1>2, <1>3 DEF Shape

(* The whole invariant holds throughout. *)
THEOREM ServerCorrect ==
    Spec => []IInv
  BY InitIInv, NextKeepsIInv, PTL DEF Spec

(* Every field of the server keeps its type, and active_workers stays      *)
(* between 0 and MAX_CLIENT_WORKERS whatever fails (Admit, Discount).      *)
THEOREM CounterStaysInRange ==
    Spec => []TypeOK
  BY ServerCorrect, IInvImplies, PTL

(* gui_server_stop destroys the locks and the snapshot only when no thread *)
(* is left that could use them, for any number of connections and any      *)
(* limit on the workers.                                                   *)
THEOREM LocksOutliveThreads ==
    Spec => []NoUseAfterDestroy
  BY ServerCorrect, IInvImplies, PTL

(* active_workers is the number of workers, through every failure. *)
THEOREM CounterIsExact ==
    Spec => []WorkersCounted
  BY ServerCorrect, IInvImplies, PTL

(* A metrics answer never mixes two snapshots. *)
THEOREM AnswersAreConsistent ==
    Spec => []MetricsConsistent
  BY ServerCorrect, IInvImplies, PTL

(* No socket is left open when gui_server_stop has returned. *)
THEOREM NoSocketLeaks ==
    Spec => []SocketsClosed
  BY ServerCorrect, IInvImplies, PTL
=============================================================================
