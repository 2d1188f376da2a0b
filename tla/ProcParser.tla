----------------------------- MODULE ProcParser ------------------------------
(***************************************************************************)
(* proc_parser.c: system and per-process CPU shares from /proc, sampled by *)
(* the main loop (main.c) while processes run, start and end.              *)
(*                                                                         *)
(* A snapshot is not atomic: /proc/stat, /proc/meminfo and the entry of    *)
(* each process are read one after the other, the kernel moves on in       *)
(* between, and every read can fail.  A share is the difference to the     *)
(* reading before it, of which there are two: prev_cpu_jiffies, renewed by *)
(* every reading of /proc/stat, and prev_processes, renewed by every       *)
(* snapshot that succeeds.                                                 *)
(***************************************************************************)
EXTENDS Integers, FiniteSets, Functions

CONSTANTS
    Pids,          \* the process numbers the kernel gives out
    Boot,          \* those in use at the start
    MAX_PROCS,     \* rows in a snapshot (2048)
    MemReadings,   \* what /proc/meminfo may say: <<MemTotal, MemAvailable>>
    MaxJiffies,    \* bound: CPU time that passes in a run
    MaxForks       \* bound: processes that start in a run

ASSUME ProcAssumption ==
    /\ Pids \subseteq Nat \ {0} /\ IsFiniteSet(Pids) /\ Boot \subseteq Pids
    /\ MAX_PROCS \in Nat \ {0}
    /\ MemReadings \subseteq Nat \X Nat
    /\ MaxJiffies \in Nat /\ MaxForks \in Nat

VARIABLES
    jiffies,         \* the kernel's counters: user, idle and iowait
    live,            \* the processes: pid -> its start time and CPU time
    forks,           \* how many have started
    prev_cpu_jiffies,
    last_system_jiffies_delta,
    prev_processes,  \* pid -> CPU time (and, unread, start time) when last seen
    pc,              \* where take_snapshot is
    cursor,          \* the entry of /proc that readdir returned last
    snapshot,        \* the snapshot being filled
    published,       \* the snapshot the server was last given: its rows, truncated
    witness          \* for the properties: see Witness

kernelVars == <<jiffies, live, forks>>
parserVars == <<prev_cpu_jiffies, last_system_jiffies_delta, prev_processes>>
vars == <<kernelVars, parserVars, pc, cursor, snapshot, published, witness>>

(* f with the value v for k. *)
With(f, k, v) == [x \in DOMAIN f \cup {k} |-> IF x = k THEN v ELSE f[x]]

-----------------------------------------------------------------------------
(* The kernel *)

total(j) == j.user + j.idle + j.iowait

Run(p) ==
    /\ p \in DOMAIN live /\ total(jiffies) < MaxJiffies
    /\ live' = [live EXCEPT ![p].time = @ + 1]
    /\ jiffies' = [jiffies EXCEPT !.user = @ + 1]
    /\ UNCHANGED <<forks, parserVars, pc, cursor, snapshot, published, witness>>

(* The iowait counter may also go back. *)
Wait ==
    /\ \/ /\ total(jiffies) < MaxJiffies
          /\ \/ jiffies' = [jiffies EXCEPT !.idle = @ + 1]
             \/ jiffies' = [jiffies EXCEPT !.iowait = @ + 1]
       \/ /\ jiffies.iowait > 0
          /\ jiffies' = [jiffies EXCEPT !.iowait = @ - 1]
    /\ UNCHANGED <<live, forks, parserVars, pc, cursor, snapshot, published, witness>>

(* A process starts, under a number that may have been used before. *)
Fork(p) ==
    /\ p \notin DOMAIN live /\ forks < MaxForks
    /\ forks' = forks + 1
    /\ live' = With(live, p, [start |-> forks + 1, time |-> 0])
    /\ UNCHANGED <<jiffies, parserVars, pc, cursor, snapshot, published, witness>>

Exit(p) ==
    /\ p \in DOMAIN live
    /\ live' = Restrict(live, DOMAIN live \ {p})
    /\ witness' = [witness EXCEPT !.due = @ \ {p}]
    /\ UNCHANGED <<jiffies, forks, parserVars, pc, cursor, snapshot, published>>

-----------------------------------------------------------------------------
(* proc_parser_read_cpu *)

(* The growth of a counter; none when it went back. *)
Since(now, before) == IF now >= before THEN now - before ELSE 0

Cpu(busy, user, idle, of) == [busy |-> busy, user |-> user, idle |-> idle, of |-> of]

(* Mutant: busy time is what the idle time leaves, whatever the counters did. *)
cpu_metrics_unguarded(curr, prev) ==
    LET delta_total == Since(total(curr), total(prev))
        delta_idle  == Since(curr.idle, prev.idle)
    IN  IF delta_total > 0
        THEN Cpu((delta_total - delta_idle) % 256, Since(curr.user, prev.user),
                 delta_idle, delta_total)
        ELSE Cpu(0, 0, 1, 1)
(* The shares of the CPU's time, as parts of delta_total; an interval in   *)
(* which no time passed is all idle.                                       *)
cpu_metrics(curr, prev) ==
    LET delta_total == Since(total(curr), total(prev))
        delta_idle  == Since(curr.idle, prev.idle)
        busy        == IF delta_total > delta_idle THEN delta_total - delta_idle ELSE 0
    IN  IF delta_total > 0
        THEN Cpu(busy, Since(curr.user, prev.user), delta_idle, delta_total)
        ELSE Cpu(0, 0, 1, 1)

mem_usage_pct(reading) ==
    LET used == IF reading[1] > reading[2] THEN reading[1] - reading[2] ELSE 0
    IN  IF reading[1] > 0 THEN (used * 100) \div reading[1] ELSE 0

(* The snapshot after memset. *)
Zeroed == [cpu |-> Cpu(0, 0, 0, 0), mem |-> 0, procs |-> <<>>, truncated |-> FALSE]

(* Kept for the properties: the counters when the last snapshot that       *)
(* succeeded read /proc/stat; whether one has failed since; whether iowait *)
(* went back between the last two readings; the processes the snapshot     *)
(* owes a row: they have lived since the scan of /proc began and no read   *)
(* of them failed.                                                         *)
Witness == [cpu |-> jiffies, failed |-> FALSE, back |-> FALSE, due |-> {}]

(* proc_parser_init: the first reading of /proc/stat, and no history. *)
Init ==
    /\ jiffies = [user |-> 0, idle |-> 0, iowait |-> 0]
    /\ live = [p \in Boot |-> [start |-> 0, time |-> 0]]
    /\ forks = 0
    /\ prev_cpu_jiffies = jiffies
    /\ last_system_jiffies_delta = 0
    /\ prev_processes = <<>>
    /\ pc = "idle" /\ cursor = 0
    /\ snapshot = Zeroed /\ published = [procs |-> {}, truncated |-> FALSE]
    /\ witness = Witness

-----------------------------------------------------------------------------
(* proc_parser_take_snapshot, one read of /proc at a time *)

(* The snapshot fails: the main loop keeps what the server has. *)
Fail ==
    /\ pc' = "idle"
    /\ witness' = [witness EXCEPT !.failed = TRUE]
    /\ UNCHANGED <<kernelVars, prev_processes, cursor, published>>

(* proc_parser_read_cpu, on a zeroed snapshot. *)
ReadCpu ==
    /\ pc = "idle"
    /\ pc' = "mem"
    /\ snapshot' = [Zeroed EXCEPT !.cpu = cpu_metrics(jiffies, prev_cpu_jiffies)]
    /\ last_system_jiffies_delta' = Since(total(jiffies), total(prev_cpu_jiffies))
    /\ prev_cpu_jiffies' = jiffies
    /\ witness' = [witness EXCEPT !.back = jiffies.iowait < prev_cpu_jiffies.iowait]
    /\ UNCHANGED <<kernelVars, prev_processes, cursor, published>>

(* /proc/stat cannot be read. *)
ReadCpuFails ==
    /\ pc = "idle"
    /\ snapshot' = Zeroed
    /\ UNCHANGED <<prev_cpu_jiffies, last_system_jiffies_delta>>
    /\ Fail

(* proc_parser_read_mem. *)
ReadMem ==
    /\ pc = "mem"
    /\ \E reading \in MemReadings :
          snapshot' = [snapshot EXCEPT !.mem = mem_usage_pct(reading)]
    /\ pc' = "open"
    /\ UNCHANGED <<kernelVars, parserVars, cursor, published, witness>>

(* /proc/meminfo cannot be read, or /proc cannot be opened. *)
ReadMemOrOpenFails ==
    /\ pc \in {"mem", "open"}
    /\ UNCHANGED <<prev_cpu_jiffies, last_system_jiffies_delta, snapshot>>
    /\ Fail

OpenDir ==
    /\ pc = "open"
    /\ pc' = "scan" /\ cursor' = 0
    /\ witness' = [witness EXCEPT !.due = DOMAIN live]
    /\ UNCHANGED <<kernelVars, parserVars, snapshot, published>>

(* The entries readdir has yet to return: it goes up the process numbers   *)
(* that are in use when it is called.                                      *)
Entries == {p \in DOMAIN live : p > cursor}

(* No room for another row. *)
Full == Cardinality(DOMAIN snapshot.procs) >= MAX_PROCS

(* Mutant: the difference of unsigned numbers, whichever is larger. *)
RowWrapping(p) ==
    LET time  == live[p].time
        known == last_system_jiffies_delta > 0 /\ p \in DOMAIN prev_processes
    IN  [time |-> time, start |-> live[p].start,
         num |-> IF known THEN (time - prev_processes[p].time) % 256 ELSE 0,
         den |-> IF known THEN last_system_jiffies_delta ELSE 0]
(* The row of process p: its CPU time, and the process's part (num) of the *)
(* time that passed (den), when both are known.                            *)
Row(p) ==
    LET time  == live[p].time
        known == last_system_jiffies_delta > 0 /\ p \in DOMAIN prev_processes
    IN  [time |-> time, start |-> live[p].start,
         num |-> IF known THEN Since(time, prev_processes[p].time) ELSE 0,
         den |-> IF known THEN last_system_jiffies_delta ELSE 0]

(* The next entry, unless the table is full. *)
NextEntry ==
    /\ pc = "scan" /\ ~Full
    /\ cursor' \in {p \in Entries : \A q \in Entries : p <= q}

(* One entry is read.  A process that ended after readdir named it is      *)
(* passed over, which is the order in which it ends first.                 *)
ReadEntry ==
    /\ NextEntry
    /\ snapshot' = [snapshot EXCEPT !.procs = With(@, cursor', Row(cursor'))]
    /\ UNCHANGED <<kernelVars, parserVars, pc, published, witness>>

(* The stat file of a process that lives cannot be opened, read or parsed: *)
(* it gets no row, and the snapshot does not say so.                       *)
SkipEntry ==
    /\ NextEntry
    /\ witness' = [witness EXCEPT !.due = @ \ {cursor'}]
    /\ UNCHANGED <<kernelVars, parserVars, pc, snapshot, published>>

(* readdir fails, which looks like the end of the directory. *)
ReaddirFails ==
    /\ pc = "scan" /\ Entries # {}
    /\ cursor' \in {p \in Pids : \A q \in Pids : q <= p}
    /\ witness' = [witness EXCEPT !.due = @ \ Entries]
    /\ UNCHANGED <<kernelVars, parserVars, pc, snapshot, published>>

(* Mutant: the scan of a full snapshot ends as if it were complete. *)
TruncatedUnsaid == FALSE
(* The scan stops early when an entry is left that finds no room. *)
Truncated == Entries # {}

(* Mutant: a process that is in the history keeps its first entry. *)
BaselineOnce ==
    [p \in DOMAIN snapshot.procs |->
        IF p \in DOMAIN prev_processes THEN prev_processes[p]
        ELSE [time |-> snapshot.procs[p].time, start |-> snapshot.procs[p].start]]
(* current_processes: the times of the rows. *)
Baseline ==
    [p \in DOMAIN snapshot.procs |->
        [time |-> snapshot.procs[p].time, start |-> snapshot.procs[p].start]]

(* The scan ends; the times read become the history, and the main loop     *)
(* gives the snapshot to the server.                                       *)
Finish ==
    /\ pc = "scan" /\ (Entries # {} => Full)
    /\ snapshot' = [snapshot EXCEPT !.truncated = Truncated]
    /\ prev_processes' = Baseline
    /\ published' = [procs |-> DOMAIN snapshot.procs, truncated |-> Truncated]
    /\ pc' = "idle" /\ cursor' = 0
    /\ witness' = [witness EXCEPT !.cpu = prev_cpu_jiffies, !.failed = FALSE, !.due = {}]
    /\ UNCHANGED <<kernelVars, prev_cpu_jiffies, last_system_jiffies_delta>>

Next ==
    \/ \E p \in Pids : Run(p) \/ Fork(p) \/ Exit(p)
    \/ Wait
    \/ ReadCpu \/ ReadCpuFails
    \/ ReadMem \/ ReadMemOrOpenFails
    \/ OpenDir \/ ReadEntry \/ SkipEntry \/ ReaddirFails \/ Finish

Spec == Init /\ [][Next]_vars

-----------------------------------------------------------------------------
(* Properties *)

(* The usage that is shown is never more than the time that passed, also   *)
(* when the kernel took back iowait time it had counted.  If it did not,   *)
(* busy and idle time make up the whole and user time is part of the busy  *)
(* time.  Memory in use is at most 100 percent (proc_parser_read_cpu,      *)
(* proc_parser_read_mem).                                                  *)
UsageWithin ==
    LET cpu == snapshot.cpu
    IN  /\ cpu.busy <= cpu.of
        /\ ~witness.back => cpu.busy + cpu.idle = cpu.of /\ cpu.user <= cpu.busy
        /\ snapshot.mem \in 0..100

(* What a row charges to a process it has used itself: all it used since   *)
(* the history recorded it, and, when its number was another process's     *)
(* then, no more than it used since it started - a reused number must not  *)
(* make the difference wrap around (proc_parser_take_snapshot).            *)
ChargedWhatItUsed ==
    pc = "scan" =>
        \A p \in DOMAIN snapshot.procs :
            LET row == snapshot.procs[p]
            IN  /\ row.num <= row.time
                /\ (p \in DOMAIN prev_processes /\ prev_processes[p].start = row.start)
                      => row.num = IF row.den > 0 THEN row.time - prev_processes[p].time
                                                  ELSE 0

(* The two numbers whose quotient is a process's share are counted from    *)
(* the same reading of /proc/stat, that of the last snapshot the server    *)
(* was given.  Work from before it is never charged again, whatever failed *)
(* since and whoever had the number then; and while no snapshot fails the  *)
(* time it is divided by is the time since that reading.  A share above    *)
(* the whole is therefore what passed during the scan.  After a failed     *)
(* snapshot only the first that succeeds divides by less                   *)
(* (proc_parser_take_snapshot: prev_cpu_jiffies, prev_processes).          *)
SameInterval ==
    pc = "scan" =>
        \A p \in DOMAIN snapshot.procs :
            LET row == snapshot.procs[p]
            IN  /\ row.num <= jiffies.user - witness.cpu.user
                /\ row.den > 0 /\ ~witness.failed
                      => row.den = Since(total(prev_cpu_jiffies), total(witness.cpu))

(* A snapshot is given to the server only if it says that it is truncated, *)
(* or has a row for every process that lived as long as the scan took and  *)
(* whose entry could be read - whatever starts and ends during the scan,   *)
(* and whatever snapshots failed before (proc_parser_take_snapshot, main). *)
PublishedComplete ==
    [][published' # published =>
          (published'.truncated \/ witness.due \subseteq published'.procs)]_vars
=============================================================================
