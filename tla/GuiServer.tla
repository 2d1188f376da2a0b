------------------------------ MODULE GuiServer ------------------------------
(***************************************************************************)
(* The embedded HTTP server of the monitor, gui_server.c, with the main    *)
(* thread that drives it (main.c): initialisation, start, the sampling     *)
(* loop that publishes snapshots, and the shutdown that joins the accept   *)
(* thread and waits for the client workers.                                *)
(*                                                                         *)
(* Each connection is served by a detached worker thread of its own, so    *)
(* workers are named by their connection.  A critical section under        *)
(* worker_mutex is one step.  The snapshot is copied and serialised in two *)
(* halves, each a step, so that snapshot_lock has something to protect.    *)
(***************************************************************************)
EXTENDS Integers, FiniteSets

CONSTANTS
    Conns,               \* the connections that can exist at a time
    MAX_CLIENT_WORKERS,
    Polite,              \* the clients that go on reading until they disconnect
    NULL

ASSUME GuiAssumption ==
    /\ IsFiniteSet(Conns)
    /\ MAX_CLIENT_WORKERS \in Nat \ {0}
    /\ Polite \subseteq Conns
    /\ NULL \notin Conns

VARIABLES
    g_running,         \* FALSE once SIGINT or SIGTERM was handled
    main,              \* where the main thread is
    initialized, is_running, active_workers,     \* fields of gui_server_t
    listening,         \* whether server_fd is an open listening socket
    locks,             \* whether the mutex, the condition and the rwlock exist
    latest_snapshot,   \* the two halves of the snapshot, or NULL
    readers, writer,   \* the holders of snapshot_lock
    acceptor,          \* where the accept thread is, and the socket it holds
    conn,              \* each connection: none, queued, open or closed
    worker,            \* where each connection's worker is
    request,           \* the request that has arrived on each connection
    seen,              \* the halves of the snapshot a worker has serialised
    reading            \* whether the client takes what is sent to it

serverVars == <<initialized, is_running, active_workers, listening, locks>>
snapVars   == <<latest_snapshot, readers, writer, seen>>
clientVars == <<conn, request, reading>>
vars == <<g_running, main, serverVars, snapVars, acceptor, worker, clientVars>>

(* The kinds of request client_thread_worker tells apart. *)
Routes == {"metrics", "other"}

Goto(c, l) == worker' = [worker EXCEPT ![c] = l]
At(l) == [at |-> l, fd |-> NULL]

-----------------------------------------------------------------------------
(* The clients and the kernel's side of their sockets *)

(* A connection is queued as long as the listening socket exists, which a *)
(* blocked accept keeps alive.                                            *)
Connect(c) ==
    /\ conn[c] = "none"
    /\ listening \/ acceptor.at = "accept"
    /\ conn' = [conn EXCEPT ![c] = "queued"]
    /\ reading' = [reading EXCEPT ![c] = TRUE]
    /\ UNCHANGED <<g_running, main, serverVars, snapVars, acceptor, worker, request>>

SendRequest(c, r) ==
    /\ conn[c] \in {"queued", "open"}
    /\ request[c] = NULL
    /\ request' = [request EXCEPT ![c] = r]
    /\ UNCHANGED <<g_running, main, serverVars, snapVars, acceptor, worker, conn, reading>>

(* The client stops taking the answer: send runs into SO_SNDTIMEO. *)
Stall(c) ==
    /\ c \notin Polite
    /\ worker[c] = "send"
    /\ reading[c]
    /\ reading' = [reading EXCEPT ![c] = FALSE]
    /\ UNCHANGED <<g_running, main, serverVars, snapVars, acceptor, worker, conn, request>>

(* It takes data again or disconnects: either way send does not block. *)
Resume(c) ==
    /\ ~reading[c]
    /\ reading' = [reading EXCEPT ![c] = TRUE]
    /\ UNCHANGED <<g_running, main, serverVars, snapVars, acceptor, worker, conn, request>>

(* A closed connection's place can be taken by a new client. *)
Gone(c) ==
    /\ conn[c] = "closed"
    /\ worker[c] = "none"
    /\ conn' = [conn EXCEPT ![c] = "none"]
    /\ request' = [request EXCEPT ![c] = NULL]
    /\ reading' = [reading EXCEPT ![c] = TRUE]
    /\ UNCHANGED <<g_running, main, serverVars, snapVars, acceptor, worker>>

-----------------------------------------------------------------------------
(* worker_mutex and worker_cond *)

(* Mutant: nobody is woken. *)
DiscountNoBroadcast ==
    /\ active_workers' = active_workers - 1
    /\ UNCHANGED main

(* Mutant: the main thread does not look at the counter again once woken. *)
DiscountNoRecheck ==
    /\ active_workers' = active_workers - 1
    /\ main' = IF main = "asleep" THEN "destroy" ELSE main

(* A worker is discounted; the broadcast wakes the main thread if it waits. *)
Discount ==
    /\ active_workers' = active_workers - 1
    /\ main' = IF main = "asleep" THEN "wait" ELSE main

-----------------------------------------------------------------------------
(* client_thread_worker *)

(* Mutant: recv waits for a request without end. *)
RecvNoTimeout(c) ==
    /\ worker[c] = "recv"
    /\ \/ request[c] = "metrics" /\ Goto(c, "rdlock")
       \/ request[c] = "other" /\ Goto(c, "send")
    /\ UNCHANGED <<g_running, main, serverVars, snapVars, acceptor, clientVars>>

(* recv returns a request, or nothing: the 5 seconds of SO_RCVTIMEO are *)
(* over, or the client has gone.                                        *)
Recv(c) ==
    /\ worker[c] = "recv"
    /\ \/ request[c] = "metrics" /\ Goto(c, "rdlock")
       \/ request[c] = "other" /\ Goto(c, "send")
       \/ request[c] = NULL /\ Goto(c, "close")
    /\ UNCHANGED <<g_running, main, serverVars, snapVars, acceptor, clientVars>>

(* Mutant: the snapshot is read without its lock. *)
ReadUnlocked(c) ==
    /\ worker[c] = "rdlock"
    /\ Goto(c, "read")
    /\ UNCHANGED <<g_running, main, serverVars, snapVars, acceptor, clientVars>>

(* serve_metrics_json takes the lock for reading; a reader is let in while *)
(* a writer waits.                                                         *)
ReadLock(c) ==
    /\ worker[c] = "rdlock"
    /\ ~writer
    /\ readers' = readers \cup {c}
    /\ Goto(c, "read")
    /\ UNCHANGED <<g_running, main, serverVars, latest_snapshot, writer, seen,
                   acceptor, clientVars>>

(* The totals are serialised, unless there is no memory. *)
ReadTotals(c) ==
    /\ worker[c] = "read"
    /\ \/ /\ seen' = [seen EXCEPT ![c] = [totals |-> latest_snapshot.totals, procs |-> NULL]]
          /\ Goto(c, "read2")
          /\ UNCHANGED readers
       \/ /\ readers' = readers \ {c}
          /\ Goto(c, "send")
          /\ UNCHANGED seen
    /\ UNCHANGED <<g_running, main, serverVars, latest_snapshot, writer, acceptor, clientVars>>

(* The processes are serialised and the lock is released; when the buffer *)
(* cannot grow the answer is an error.                                    *)
ReadProcs(c) ==
    /\ worker[c] = "read2"
    /\ \/ seen' = [seen EXCEPT ![c].procs = latest_snapshot.procs]
       \/ seen' = [seen EXCEPT ![c] = NULL]
    /\ readers' = readers \ {c}
    /\ Goto(c, "send")
    /\ UNCHANGED <<g_running, main, serverVars, latest_snapshot, writer, acceptor, clientVars>>

(* send_all comes to an end only when the client takes the data or is gone: *)
(* it tries again whenever SO_SNDTIMEO runs out.                            *)
Send(c) ==
    /\ worker[c] = "send"
    /\ reading[c]
    /\ Goto(c, "close")
    /\ seen' = [seen EXCEPT ![c] = NULL]
    /\ UNCHANGED <<g_running, main, serverVars, latest_snapshot, readers, writer,
                   acceptor, clientVars>>

CloseClient(c) ==
    /\ worker[c] = "close"
    /\ conn' = [conn EXCEPT ![c] = "closed"]
    /\ Goto(c, "leave")
    /\ UNCHANGED <<g_running, main, serverVars, snapVars, acceptor, request, reading>>

Leave(c) ==
    /\ worker[c] = "leave"
    /\ Discount
    /\ Goto(c, "none")
    /\ UNCHANGED <<g_running, initialized, is_running, listening, locks, snapVars,
                   acceptor, clientVars>>

Worker(c) ==
    \/ Recv(c) \/ ReadLock(c) \/ ReadTotals(c) \/ ReadProcs(c)
    \/ Send(c) \/ CloseClient(c) \/ Leave(c)

-----------------------------------------------------------------------------
(* gui_server_worker *)

CheckRunning ==
    /\ acceptor.at = "check"
    /\ acceptor' = At(IF is_running THEN "call" ELSE "exited")
    /\ UNCHANGED <<g_running, main, serverVars, snapVars, worker, clientVars>>

(* accept is called: on a socket that has been closed it fails. *)
CallAccept ==
    /\ acceptor.at = "call"
    /\ acceptor' = At(IF listening THEN "accept"
                      ELSE IF is_running THEN "check" ELSE "exited")
    /\ UNCHANGED <<g_running, main, serverVars, snapVars, worker, clientVars>>

(* accept returns a connection, or nothing after the second of SO_RCVTIMEO. *)
(* What is still queued on a socket that is closed by then is reset.        *)
Accept ==
    /\ acceptor.at = "accept"
    /\ \/ \E c \in Conns :
             /\ conn[c] = "queued"
             /\ conn' = [d \in Conns |-> IF d = c THEN "open"
                                         ELSE IF conn[d] = "queued" /\ ~listening
                                         THEN "closed" ELSE conn[d]]
             /\ acceptor' = [at |-> "admit", fd |-> c]
       \/ /\ acceptor' = At("check")
          /\ conn' = [d \in Conns |-> IF conn[d] = "queued" /\ ~listening
                                      THEN "closed" ELSE conn[d]]
    /\ UNCHANGED <<g_running, main, serverVars, snapVars, worker, request, reading>>

(* Mutant: the limit is off by one. *)
AdmitOneMore ==
    /\ acceptor.at = "admit"
    /\ IF active_workers > MAX_CLIENT_WORKERS
       THEN /\ conn' = [conn EXCEPT ![acceptor.fd] = "closed"]
            /\ acceptor' = At("check")
            /\ UNCHANGED active_workers
       ELSE /\ active_workers' = active_workers + 1
            /\ acceptor' = [acceptor EXCEPT !.at = "spawn"]
            /\ UNCHANGED conn
    /\ UNCHANGED <<g_running, main, initialized, is_running, listening, locks, snapVars,
                   worker, request, reading>>

(* The connection is counted in, or answered with 503 and closed. *)
Admit ==
    /\ acceptor.at = "admit"
    /\ IF active_workers >= MAX_CLIENT_WORKERS
       THEN /\ conn' = [conn EXCEPT ![acceptor.fd] = "closed"]
            /\ acceptor' = At("check")
            /\ UNCHANGED active_workers
       ELSE /\ active_workers' = active_workers + 1
            /\ acceptor' = [acceptor EXCEPT !.at = "spawn"]
            /\ UNCHANGED conn
    /\ UNCHANGED <<g_running, main, initialized, is_running, listening, locks, snapVars,
                   worker, request, reading>>

(* Mutant: the socket is not closed when no worker can be created. *)
SpawnLeaksSocket ==
    /\ acceptor.at = "spawn"
    /\ \/ Goto(acceptor.fd, "recv") /\ acceptor' = At("check")
       \/ acceptor' = At("unadmit") /\ UNCHANGED worker
    /\ UNCHANGED <<g_running, main, serverVars, snapVars, clientVars>>

(* The worker is created, or for want of memory or threads it is not. *)
Spawn ==
    /\ acceptor.at = "spawn"
    /\ \/ /\ Goto(acceptor.fd, "recv")
          /\ acceptor' = At("check")
          /\ UNCHANGED conn
       \/ /\ conn' = [conn EXCEPT ![acceptor.fd] = "closed"]
          /\ acceptor' = At("unadmit")
          /\ UNCHANGED worker
    /\ UNCHANGED <<g_running, main, serverVars, snapVars, request, reading>>

(* Mutant: a worker that was not created stays counted. *)
UnadmitUncounted ==
    /\ acceptor.at = "unadmit"
    /\ acceptor' = At("check")
    /\ UNCHANGED <<g_running, main, serverVars, snapVars, worker, clientVars>>

Unadmit ==
    /\ acceptor.at = "unadmit"
    /\ Discount
    /\ acceptor' = At("check")
    /\ UNCHANGED <<g_running, initialized, is_running, listening, locks, snapVars,
                   worker, clientVars>>

Acceptor == CheckRunning \/ CallAccept \/ Accept \/ Admit \/ Spawn \/ Unadmit

-----------------------------------------------------------------------------
(* The main thread: gui_server_init, gui_server_start, the sampling loop, *)
(* gui_server_update_snapshot and gui_server_stop                         *)

(* SIGINT or SIGTERM. *)
Interrupt ==
    /\ g_running
    /\ g_running' = FALSE
    /\ UNCHANGED <<main, serverVars, snapVars, acceptor, worker, clientVars>>

(* gui_server_init: on failure everything obtained so far is given back. *)
gui_server_init ==
    /\ main = "init"
    /\ \/ /\ main' = "start"
          /\ locks' = TRUE
          /\ initialized' = TRUE
          /\ latest_snapshot' = [totals |-> 0, procs |-> 0]
       \/ /\ main' = "done"
          /\ UNCHANGED <<locks, initialized, latest_snapshot>>
    /\ UNCHANGED <<g_running, is_running, active_workers, listening, readers, writer,
                   seen, acceptor, worker, clientVars>>

(* gui_server_start: when the socket or the thread cannot be had, the socket *)
(* is closed again and main stops the server it could not start.             *)
gui_server_start ==
    /\ main = "start"
    /\ \/ /\ main' = "loop"
          /\ is_running' = TRUE
          /\ listening' = TRUE
          /\ acceptor' = At("check")
       \/ /\ main' = "stop"
          /\ UNCHANGED <<is_running, listening, acceptor>>
    /\ UNCHANGED <<g_running, initialized, active_workers, locks, snapVars, worker,
                   clientVars>>

(* One turn of the loop: a snapshot is taken, or that fails; or the program *)
(* is to end, by a signal or by the user's 'q'.                             *)
Sample ==
    /\ main = "loop"
    /\ \/ g_running /\ main' = "wrlock"
       \/ main' = "stop"
    /\ UNCHANGED <<g_running, serverVars, snapVars, acceptor, worker, clientVars>>

WriteLock ==
    /\ main = "wrlock"
    /\ readers = {} /\ ~writer
    /\ writer' = TRUE
    /\ main' = "copy"
    /\ UNCHANGED <<g_running, serverVars, latest_snapshot, readers, seen, acceptor, worker,
                   clientVars>>

(* The memcpy: its first half, then its second half and the unlock. *)
CopyTotals ==
    /\ main = "copy"
    /\ latest_snapshot' = [latest_snapshot EXCEPT !.totals = 1 - @]
    /\ main' = "copy2"
    /\ UNCHANGED <<g_running, serverVars, readers, writer, seen, acceptor, worker, clientVars>>

CopyProcs ==
    /\ main = "copy2"
    /\ latest_snapshot' = [latest_snapshot EXCEPT !.procs = latest_snapshot.totals]
    /\ writer' = FALSE
    /\ main' = "loop"
    /\ UNCHANGED <<g_running, serverVars, readers, seen, acceptor, worker, clientVars>>

(* gui_server_stop.  A server that does not run is only destroyed. *)
StopRunning ==
    /\ main = "stop"
    /\ is_running' = FALSE
    /\ main' = IF is_running THEN "unlisten" ELSE "destroy"
    /\ UNCHANGED <<g_running, initialized, active_workers, listening, locks, snapVars,
                   acceptor, worker, clientVars>>

(* The queue goes with the socket, unless a blocked accept keeps it. *)
CloseServer ==
    /\ main = "unlisten"
    /\ listening' = FALSE
    /\ conn' = [c \in Conns |-> IF conn[c] = "queued" /\ acceptor.at # "accept"
                                THEN "closed" ELSE conn[c]]
    /\ main' = "join"
    /\ UNCHANGED <<g_running, initialized, is_running, active_workers, locks, snapVars,
                   acceptor, worker, request, reading>>

Join ==
    /\ main = "join"
    /\ acceptor.at = "exited"
    /\ main' = "wait"
    /\ UNCHANGED <<g_running, serverVars, snapVars, acceptor, worker, clientVars>>

(* One turn of the loop around pthread_cond_wait. *)
WaitWorkers ==
    /\ main = "wait"
    /\ main' = IF active_workers > 0 THEN "asleep" ELSE "destroy"
    /\ UNCHANGED <<g_running, serverVars, snapVars, acceptor, worker, clientVars>>

Destroy ==
    /\ main = "destroy"
    /\ locks' = FALSE
    /\ latest_snapshot' = NULL
    /\ initialized' = FALSE
    /\ main' = "done"
    /\ UNCHANGED <<g_running, is_running, active_workers, listening, readers, writer, seen,
                   acceptor, worker, clientVars>>

Main == \/ gui_server_init \/ gui_server_start \/ Sample
        \/ WriteLock \/ CopyTotals \/ CopyProcs
        \/ StopRunning \/ CloseServer \/ Join \/ WaitWorkers \/ Destroy

Init ==
    /\ g_running = TRUE
    /\ main = "init"
    /\ initialized = FALSE /\ is_running = FALSE /\ active_workers = 0
    /\ listening = FALSE /\ locks = FALSE
    /\ latest_snapshot = NULL /\ readers = {} /\ writer = FALSE
    /\ seen = [c \in Conns |-> NULL]
    /\ acceptor = At("none")
    /\ conn = [c \in Conns |-> "none"]
    /\ worker = [c \in Conns |-> "none"]
    /\ request = [c \in Conns |-> NULL]
    /\ reading = [c \in Conns |-> TRUE]

Client(c) ==
    \/ Connect(c) \/ Stall(c) \/ Resume(c) \/ Gone(c)
    \/ \E r \in Routes : SendRequest(c, r)

Next == \/ Interrupt \/ Main \/ Acceptor
        \/ \E c \in Conns : Worker(c) \/ Client(c)

(* The kernel schedules every thread that can run.  A thread that waits for  *)
(* snapshot_lock gets it when the lock is free again and again, because the  *)
(* last holder hands it over; send_all ends when its client reads again and  *)
(* again.                                                                    *)
Fairness ==
    /\ WF_vars(Main) /\ SF_vars(WriteLock)
    /\ WF_vars(Acceptor)
    /\ \A c \in Conns : WF_vars(Worker(c)) /\ SF_vars(ReadLock(c))
    /\ \A c \in Conns \ Polite : SF_vars(Send(c))

Spec == Init /\ [][Next]_vars /\ Fairness

-----------------------------------------------------------------------------

(* The variables have their types. *)
TypeOK ==
    /\ main \in {"init", "start", "loop", "wrlock", "copy", "copy2", "stop", "unlisten",
                 "join", "wait", "asleep", "destroy", "done"}
    /\ g_running \in BOOLEAN /\ initialized \in BOOLEAN /\ is_running \in BOOLEAN
    /\ listening \in BOOLEAN /\ locks \in BOOLEAN /\ writer \in BOOLEAN
    /\ active_workers \in 0..MAX_CLIENT_WORKERS
    /\ readers \subseteq Conns
    /\ acceptor.at \in {"none", "check", "call", "accept", "admit", "spawn", "unadmit", "exited"}
    /\ acceptor.fd \in Conns \cup {NULL}
    /\ conn \in [Conns -> {"none", "queued", "open", "closed"}]
    /\ worker \in [Conns -> {"none", "recv", "rdlock", "read", "read2", "send", "close", "leave"}]
    /\ request \in [Conns -> Routes \cup {NULL}]
    /\ reading \in [Conns -> BOOLEAN]

(* gui_server_stop takes the locks and the snapshot away only when neither *)
(* the accept thread nor any detached worker can still use them.           *)
NoUseAfterDestroy ==
    ~locks => /\ acceptor.at \in {"none", "exited"}
              /\ \A c \in Conns : worker[c] = "none"

(* active_workers counts exactly the workers that exist or are about to be *)
(* created, through every failure of malloc or pthread_create.             *)
WorkersCounted ==
    active_workers =
        Cardinality({c \in Conns : worker[c] # "none"})
        + (IF acceptor.at \in {"spawn", "unadmit"} THEN 1 ELSE 0)

(* A metrics answer is one snapshot: its totals and its processes come from *)
(* the same gui_server_update_snapshot.                                     *)
MetricsConsistent ==
    \A c \in Conns : worker[c] = "send" /\ seen[c] # NULL => seen[c].totals = seen[c].procs

(* Once gui_server_stop has returned no connection is left open or queued, *)
(* whatever the accept thread and the workers were doing when it began.    *)
SocketsClosed == main = "done" => \A c \in Conns : conn[c] \in {"none", "closed"}

(* gui_server_stop returns: the accept thread notices, every worker comes to *)
(* its end and the broadcast of the last one reaches the main thread.        *)
StopCompletes == main = "stop" ~> main = "done"

(* Every worker ends: client_thread_worker does not wait for ever for its *)
(* client's request, for snapshot_lock or for a polite client's reading.  *)
ConnectionsEnd == \A c \in Conns : worker[c] = "recv" ~> worker[c] = "none"
=============================================================================
