-------------------------- MODULE ProcParserProofs ---------------------------
(***************************************************************************)
(* Proofs about ProcParser, for any processes, any room in the table, any  *)
(* readings of /proc/meminfo and a run of any length.                      *)
(***************************************************************************)
EXTENDS ProcParser, FiniteSetTheorems, TLAPS

Counters == [user : Nat, idle : Nat, iowait : Nat]
Times    == [start : Nat, time : Nat]
Rows     == [time : Nat, start : Nat, num : Nat, den : Nat]
Shares   == [busy : Nat, user : Nat, idle : Nat, of : Nat]
Witnesses == [cpu : Counters, failed : BOOLEAN, back : BOOLEAN, due : SUBSET Pids]

(* f is a table of processes with values in S. *)
IsTable(f, S) == DOMAIN f \subseteq Pids /\ f \in [DOMAIN f -> S]

(* The state of the kernel and of the parser is well formed. *)
Typed ==
    /\ jiffies \in Counters /\ prev_cpu_jiffies \in Counters
    /\ IsTable(live, Times) /\ IsTable(prev_processes, Times)
    /\ forks \in Nat /\ last_system_jiffies_delta \in Nat /\ cursor \in Nat
    /\ snapshot = [cpu |-> snapshot.cpu, mem |-> snapshot.mem, procs |-> snapshot.procs,
                   truncated |-> snapshot.truncated]
    /\ snapshot.cpu \in Shares /\ IsTable(snapshot.procs, Rows)
    /\ witness \in Witnesses

(* A table has room for its rows. *)
RowsFit ==
    /\ IsFiniteSet(DOMAIN snapshot.procs)
    /\ Cardinality(DOMAIN snapshot.procs) <= MAX_PROCS

(* An entry with CPU time and start time was read from a process that was  *)
(* there; while that process lives its CPU time only grows.                *)
Recorded(p, entry) ==
    /\ entry.start <= forks
    /\ p \in DOMAIN live /\ live[p].start = entry.start => entry.time <= live[p].time

History ==
    /\ \A p \in DOMAIN live : live[p].start <= forks
    /\ \A p \in DOMAIN prev_processes : Recorded(p, prev_processes[p])
    /\ pc \in {"mem", "open"} => DOMAIN snapshot.procs = {}
    /\ \A p \in DOMAIN snapshot.procs : Recorded(p, snapshot.procs[p])

(* What process p has used since the entry was recorded, or since it began *)
(* if the entry is of another, it used after the reading base.             *)
UsedSince(p, entry, base) ==
    p \in DOMAIN live =>
        (IF live[p].start = entry.start THEN live[p].time - entry.time ELSE live[p].time)
            <= jiffies.user - base.user

(* The history of the processes is no older than the last published        *)
(* snapshot's reading of /proc/stat, the rows no older than the last       *)
(* reading; unless a snapshot failed, the former reading was the one       *)
(* before the latter.                                                      *)
Together ==
    /\ witness.cpu.user <= prev_cpu_jiffies.user
    /\ prev_cpu_jiffies.user <= jiffies.user /\ prev_cpu_jiffies.idle <= jiffies.idle
    /\ \A p \in DOMAIN prev_processes : UsedSince(p, prev_processes[p], witness.cpu)
    /\ pc = "scan" =>
          \A p \in DOMAIN snapshot.procs :
              /\ UsedSince(p, snapshot.procs[p], prev_cpu_jiffies)
              /\ snapshot.procs[p].den \in {0, last_system_jiffies_delta}
    /\ ~witness.failed =>
          IF pc = "idle" THEN prev_cpu_jiffies = witness.cpu
          ELSE last_system_jiffies_delta = Since(total(prev_cpu_jiffies), total(witness.cpu))

(* The scan has a row for every process it has passed that was there when  *)
(* it began, still is and could be read.                                   *)
Passed ==
    pc = "scan" =>
        /\ witness.due \subseteq DOMAIN live
        /\ \A p \in witness.due : p <= cursor => p \in DOMAIN snapshot.procs

(* The inductive invariant. *)
IInv ==
    /\ Typed /\ RowsFit /\ History /\ Together /\ Passed
    /\ UsageWithin /\ ChargedWhatItUsed /\ SameInterval

-----------------------------------------------------------------------------
(* What With does to a table. *)
LEMMA WithFacts ==
    ASSUME NEW f, NEW S, IsTable(f, S), NEW k \in Pids, NEW v \in S
    PROVE  /\ IsTable(With(f, k, v), S)
           /\ DOMAIN With(f, k, v) = DOMAIN f \cup {k}
           /\ With(f, k, v)[k] = v
           /\ \A x \in DOMAIN f : x # k => With(f, k, v)[x] = f[x]
  BY DEF With, IsTable

(* A set grows by at most one with one more element. *)
LEMMA OneMore ==
    ASSUME NEW D, IsFiniteSet(D), NEW x
    PROVE  /\ IsFiniteSet(D \cup {x})
           /\ Cardinality(D \cup {x}) <= Cardinality(D) + 1
  <1>1. Cardinality(D) \in Nat
    BY FS_CardinalityType
  <1>2. /\ IsFiniteSet(D \cup {x})
        /\ Cardinality(D \cup {x}) = IF x \in D THEN Cardinality(D) ELSE Cardinality(D) + 1
    BY FS_AddElement
  <1>. QED
    BY <1>1, <1>2

(* The growth of a counter is a natural number, and no more than its value. *)
LEMMA SinceFacts ==
    \A m, n \in Nat : Since(m, n) \in Nat /\ Since(m, n) <= m
  BY DEF Since

(* A share of memory is a percentage. *)
LEMMA PercentFacts ==
    \A reading \in MemReadings : mem_usage_pct(reading) \in 0..100
  <1>. SUFFICES ASSUME NEW reading \in MemReadings
                PROVE  mem_usage_pct(reading) \in 0..100
    OBVIOUS
  <1>. DEFINE whole == reading[1]
              part  == IF reading[1] > reading[2] THEN reading[1] - reading[2] ELSE 0
  <1>1. whole \in Nat /\ part \in Nat /\ part <= whole
    BY ProcAssumption
  <1>2. mem_usage_pct(reading) = IF whole > 0 THEN (part * 100) \div whole ELSE 0
    BY DEF mem_usage_pct
  <1>. HIDE DEF whole, part
  <1>3. CASE whole > 0
    <2>1. part * 100 <= whole * 100
      BY <1>1
    <2>2. (part * 100) \div whole \in Nat
      BY <1>1, <1>3
    <2>3. (part * 100) \div whole <= 100
      BY <1>1, <1>3, <2>1, <2>2
    <2>. QED
      BY <1>2, <1>3, <2>2, <2>3
  <1>4. CASE ~(whole > 0)
    BY <1>2, <1>4
  <1>. QED
    BY <1>3, <1>4

(* The shares of the CPU's time: no more is busy than there is, and, if no *)
(* counter went back, busy and idle make up the whole and user is busy.    *)
LEMMA ShareFacts ==
    ASSUME NEW curr \in Counters, NEW prev \in Counters
    PROVE  LET cpu == cpu_metrics(curr, prev)
           IN  /\ cpu \in Shares
               /\ cpu.busy <= cpu.of
               /\ prev.user <= curr.user /\ prev.idle <= curr.idle
                     /\ prev.iowait <= curr.iowait
                     => cpu.busy + cpu.idle = cpu.of /\ cpu.user <= cpu.busy
  <1>1. total(curr) \in Nat /\ total(prev) \in Nat
    BY DEF total, Counters
  <1>2. /\ Since(total(curr), total(prev)) \in Nat
        /\ Since(curr.idle, prev.idle) \in Nat
        /\ Since(curr.user, prev.user) \in Nat
    BY <1>1, SinceFacts DEF Counters
  <1>3. cpu_metrics(curr, prev) \in Shares /\ cpu_metrics(curr, prev).busy <= cpu_metrics(curr, prev).of
    BY <1>2 DEF cpu_metrics, Cpu, Shares
  <1>4. ASSUME prev.user <= curr.user, prev.idle <= curr.idle, prev.iowait <= curr.iowait
        PROVE  LET cpu == cpu_metrics(curr, prev)
               IN  cpu.busy + cpu.idle = cpu.of /\ cpu.user <= cpu.busy
    <2>1. /\ Since(curr.idle, prev.idle) + Since(curr.user, prev.user)
                <= Since(total(curr), total(prev))
      BY <1>4 DEF Since, total, Counters
    <2>. QED
      BY <1>2, <2>1 DEF cpu_metrics, Cpu
  <1>. QED
    BY <1>3, <1>4

-----------------------------------------------------------------------------
(* The initial state. *)
LEMMA InitIInv ==
    Init => IInv
  <1>. SUFFICES ASSUME Init PROVE IInv
    OBVIOUS
  <1>. USE DEF Init, Zeroed, Cpu, Witness
  <1>1. Typed
    BY ProcAssumption DEF Typed, IsTable, Counters, Times, Rows, Shares, Witnesses
  <1>2. RowsFit
    BY ProcAssumption, FS_EmptySet DEF RowsFit
  <1>3. History /\ Together /\ Passed
    BY DEF History, Recorded, Together, UsedSince, Passed
  <1>4. UsageWithin /\ ChargedWhatItUsed /\ SameInterval
    BY DEF UsageWithin, ChargedWhatItUsed, SameInterval
  <1>. QED
    BY <1>1, <1>2, <1>3, <1>4 DEF IInv

(* What every step of the kernel does: a process goes on, with the same    *)
(* start time and more CPU time, which the counters show, or it is a new   *)
(* one, that starts later than all that have been seen.                    *)
KernelMovesOn ==
    /\ jiffies' \in Counters
    /\ jiffies'.user >= jiffies.user /\ jiffies'.idle >= jiffies.idle
    /\ forks' \in Nat /\ forks' >= forks
    /\ IsTable(live', Times)
    /\ \A p \in DOMAIN live' :
          \/ /\ p \in DOMAIN live
             /\ live'[p].start = live[p].start /\ live'[p].time >= live[p].time
             /\ live'[p].time - live[p].time <= jiffies'.user - jiffies.user
          \/ live'[p].start = forks + 1 /\ live'[p].time = 0 /\ forks' = forks + 1
    /\ witness' \in Witnesses /\ witness'.cpu = witness.cpu
    /\ witness'.failed = witness.failed /\ witness'.back = witness.back
    /\ witness'.due \subseteq witness.due
    /\ witness.due \subseteq DOMAIN live => witness'.due \subseteq DOMAIN live'
    /\ UNCHANGED <<parserVars, pc, cursor, snapshot, published>>

(* The steps of the kernel. *)
LEMMA KernelSteps ==
    ASSUME Typed, \/ Wait
                  \/ \E p \in Pids : Run(p) \/ Fork(p) \/ Exit(p)
    PROVE  KernelMovesOn
  <1>. USE DEF Typed, kernelVars
  <1>1. CASE Wait
    <2>1. /\ jiffies' \in Counters
          /\ jiffies'.user = jiffies.user /\ jiffies'.idle >= jiffies.idle
      BY <1>1 DEF Wait, Counters
    <2>2. \A q \in DOMAIN live : live[q].time - live[q].time <= 0 /\ live[q].time >= live[q].time
      BY DEF IsTable, Times
    <2>3. jiffies'.user - jiffies.user = 0 /\ jiffies'.user >= jiffies.user
      BY <2>1 DEF Counters
    <2>. QED
      BY <1>1, <2>1, <2>2, <2>3 DEF Wait, KernelMovesOn
  <1>2. ASSUME NEW p \in Pids, Run(p)
        PROVE  KernelMovesOn
    <2>1. /\ jiffies' \in Counters
          /\ jiffies'.user = jiffies.user + 1 /\ jiffies'.idle = jiffies.idle
      BY <1>2 DEF Run, Counters
    <2>2. /\ p \in DOMAIN live /\ live[p] \in Times
          /\ live' = [live EXCEPT ![p] = [live[p] EXCEPT !.time = @ + 1]]
      BY <1>2 DEF Run, IsTable
    <2>3. IsTable(live', Times) /\ DOMAIN live' = DOMAIN live
      BY <2>2 DEF IsTable, Times
    <2>4. \A q \in DOMAIN live : /\ live'[q].start = live[q].start
                                 /\ live'[q].time >= live[q].time
                                 /\ live'[q].time - live[q].time <= 1
      BY <2>2 DEF IsTable, Times
    <2>5. /\ forks' = forks /\ witness' = witness
          /\ UNCHANGED <<parserVars, pc, cursor, snapshot, published>>
      BY <1>2 DEF Run
    <2>. QED
      BY <2>1, <2>3, <2>4, <2>5 DEF KernelMovesOn, Counters
  <1>3. ASSUME NEW p \in Pids, Fork(p)
        PROVE  KernelMovesOn
    <2>. DEFINE new == [start |-> forks + 1, time |-> 0]
    <2>1. new \in Times /\ live' = With(live, p, new) /\ p \notin DOMAIN live
      BY <1>3 DEF Fork, Times
    <2>2. /\ IsTable(live', Times)
          /\ DOMAIN live' = DOMAIN live \cup {p}
          /\ live'[p] = new
          /\ \A x \in DOMAIN live : live'[x] = live[x] /\ live[x] \in Times
      <3>1. IsTable(live, Times) /\ \A x \in DOMAIN live : live[x] \in Times
        BY DEF IsTable
      <3>. HIDE DEF new, Typed
      <3>2. /\ IsTable(With(live, p, new), Times)
            /\ DOMAIN With(live, p, new) = DOMAIN live \cup {p}
            /\ With(live, p, new)[p] = new
            /\ \A x \in DOMAIN live : x # p => With(live, p, new)[x] = live[x]
        BY <2>1, <3>1, WithFacts
      <3>. QED
        BY <2>1, <3>1, <3>2
    <2>3. \A q \in DOMAIN live' :
             \/ /\ q \in DOMAIN live
                /\ live'[q].start = live[q].start /\ live'[q].time >= live[q].time
                /\ live'[q].time - live[q].time <= 0
             \/ live'[q].start = forks + 1 /\ live'[q].time = 0
      BY <2>2 DEF Times
    <2>4. jiffies' = jiffies /\ jiffies.user \in Nat /\ jiffies.idle \in Nat
      BY <1>3 DEF Fork, Counters
    <2>. QED
      BY <1>3, <2>2, <2>3, <2>4 DEF Fork, KernelMovesOn
  <1>4. ASSUME NEW p \in Pids, Exit(p)
        PROVE  KernelMovesOn
    <2>1. /\ IsTable(live', Times)
          /\ DOMAIN live' = DOMAIN live \ {p}
          /\ \A q \in DOMAIN live' : live'[q] = live[q] /\ live[q] \in Times
      BY <1>4 DEF Exit, IsTable, Restrict
    <2>2. \A q \in DOMAIN live' : /\ q \in DOMAIN live
                                  /\ live'[q].start = live[q].start
                                  /\ live'[q].time >= live[q].time
                                  /\ live'[q].time - live[q].time <= 0
      BY <2>1 DEF Times
    <2>3. /\ witness' \in Witnesses /\ witness'.cpu = witness.cpu
          /\ witness'.failed = witness.failed /\ witness'.back = witness.back
          /\ witness'.due = witness.due \ {p}
      BY <1>4 DEF Exit, Witnesses
    <2>4. /\ jiffies' = jiffies /\ forks' = forks
          /\ UNCHANGED <<parserVars, pc, cursor, snapshot, published>>
      BY <1>4 DEF Exit
    <2>. QED
      BY <2>1, <2>2, <2>3, <2>4 DEF KernelMovesOn, Counters
  <1>. QED
    BY <1>1, <1>2, <1>3, <1>4

(* The kernel disturbs nothing, whatever it does while /proc is read. *)
LEMMA KernelKeepsIInv ==
    ASSUME IInv, KernelMovesOn
    PROVE  IInv'
  <1>. USE DEF IInv, KernelMovesOn, parserVars
  <1>0. /\ witness'.cpu = witness.cpu /\ witness'.failed = witness.failed
        /\ witness'.back = witness.back
        /\ witness' \in Witnesses
    OBVIOUS
  <1>1. RowsFit' /\ UsageWithin' /\ ChargedWhatItUsed'
    BY <1>0 DEF RowsFit, UsageWithin, ChargedWhatItUsed
  <1>2. Typed'
    BY <1>0 DEF Typed
  <1>3. ASSUME NEW p, NEW entry, entry.start \in Nat, entry.time \in Nat, Recorded(p, entry)
        PROVE  /\ entry.start <= forks'
               /\ p \in DOMAIN live' /\ live'[p].start = entry.start
                     => entry.time <= live'[p].time
    BY <1>3 DEF Recorded, Typed, IsTable, Times
  <1>4. History'
    <2>1. \A p \in DOMAIN live' : live'[p].start <= forks'
      BY DEF History, Typed, IsTable, Times
    <2>2. \A p \in DOMAIN prev_processes : Recorded(p, prev_processes[p])'
      BY <1>3 DEF History, Recorded, Typed, IsTable, Times
    <2>3. \A p \in DOMAIN snapshot.procs : Recorded(p, snapshot.procs[p])'
      BY <1>3 DEF History, Recorded, Typed, IsTable, Rows
    <2>. QED
      BY <2>1, <2>2, <2>3 DEF History
  <1>5. Passed'
    BY DEF Passed
  <1>6. /\ jiffies.user \in Nat /\ jiffies'.user \in Nat /\ jiffies.idle \in Nat
        /\ jiffies'.idle \in Nat /\ witness.cpu.user \in Nat
        /\ prev_cpu_jiffies.user \in Nat /\ prev_cpu_jiffies.idle \in Nat
    BY DEF Typed, Counters, Witnesses
  <1>7. ASSUME NEW p, NEW entry, entry.start \in Nat, entry.time \in Nat, Recorded(p, entry),
               NEW base, base.user \in Nat, base.user <= jiffies.user,
               UsedSince(p, entry, base)
        PROVE  p \in DOMAIN live' =>
                 (IF live'[p].start = entry.start THEN live'[p].time - entry.time
                                                  ELSE live'[p].time)
                     <= jiffies'.user - base.user
    <2>. SUFFICES ASSUME p \in DOMAIN live'
                  PROVE  (IF live'[p].start = entry.start THEN live'[p].time - entry.time
                                                          ELSE live'[p].time)
                             <= jiffies'.user - base.user
      OBVIOUS
    <2>0. live'[p].time \in Nat /\ live'[p].start \in Nat /\ forks \in Nat
      BY DEF Typed, IsTable, Times
    <2>1. CASE /\ p \in DOMAIN live
               /\ live'[p].start = live[p].start /\ live'[p].time >= live[p].time
               /\ live'[p].time - live[p].time <= jiffies'.user - jiffies.user
      <3>1. live[p].time \in Nat
        BY <2>1 DEF Typed, IsTable, Times
      <3>. QED
        BY <1>6, <1>7, <2>0, <2>1, <3>1 DEF UsedSince
    <2>2. CASE live'[p].start = forks + 1 /\ live'[p].time = 0
      BY <1>6, <1>7, <2>0, <2>2 DEF Recorded
    <2>. QED
      BY <2>1, <2>2
  <1>8. Together'
    <2>1. /\ witness'.cpu.user <= prev_cpu_jiffies'.user
          /\ prev_cpu_jiffies'.user <= jiffies'.user /\ prev_cpu_jiffies'.idle <= jiffies'.idle
      BY <1>0, <1>6 DEF Together
    <2>2. \A p \in DOMAIN prev_processes' : UsedSince(p, prev_processes[p], witness.cpu)'
      <3>. SUFFICES ASSUME NEW p \in DOMAIN prev_processes
                    PROVE  UsedSince(p, prev_processes[p], witness.cpu)'
        OBVIOUS
      <3>1. prev_processes[p].start \in Nat /\ prev_processes[p].time \in Nat
        BY DEF Typed, IsTable, Times
      <3>2. Recorded(p, prev_processes[p]) /\ UsedSince(p, prev_processes[p], witness.cpu)
            /\ witness.cpu.user <= jiffies.user
        BY <1>6 DEF History, Together
      <3>3. p \in DOMAIN live' =>
              (IF live'[p].start = prev_processes[p].start
               THEN live'[p].time - prev_processes[p].time ELSE live'[p].time)
                 <= jiffies'.user - witness.cpu.user
        BY <1>6, <1>7, <3>1, <3>2
      <3>. QED
        BY <1>0, <3>3 DEF UsedSince
    <2>3. ASSUME pc' = "scan", NEW p \in DOMAIN snapshot'.procs
          PROVE  /\ UsedSince(p, snapshot.procs[p], prev_cpu_jiffies)'
                 /\ snapshot'.procs[p].den \in {0, last_system_jiffies_delta'}
      <3>1. snapshot.procs[p].start \in Nat /\ snapshot.procs[p].time \in Nat
        BY <2>3 DEF Typed, IsTable, Rows
      <3>2. /\ Recorded(p, snapshot.procs[p])
            /\ UsedSince(p, snapshot.procs[p], prev_cpu_jiffies)
            /\ snapshot.procs[p].den \in {0, last_system_jiffies_delta}
        BY <2>3 DEF History, Together
      <3>3. p \in DOMAIN live' =>
              (IF live'[p].start = snapshot.procs[p].start
               THEN live'[p].time - snapshot.procs[p].time ELSE live'[p].time)
                 <= jiffies'.user - prev_cpu_jiffies.user
        BY <1>6, <1>7, <3>1, <3>2 DEF Together
      <3>. QED
        BY <3>2, <3>3 DEF UsedSince
    <2>. QED
      BY <1>0, <2>1, <2>2, <2>3 DEF Together
  <1>9. SameInterval'
    <2>1. ASSUME pc = "scan", NEW p \in DOMAIN snapshot.procs
          PROVE  snapshot.procs[p].num <= jiffies'.user - witness.cpu.user
      <3>1. /\ snapshot.procs[p].num \in Nat
            /\ snapshot.procs[p].num <= jiffies.user - witness.cpu.user
        BY <2>1 DEF SameInterval, Typed, IsTable, Rows
      <3>. QED
        BY <1>6, <3>1
    <2>. QED
      BY <1>0, <2>1 DEF SameInterval
  <1>. QED
    BY <1>1, <1>2, <1>4, <1>5, <1>8, <1>9

-----------------------------------------------------------------------------
(* The snapshot after memset. *)
LEMMA ZeroedFacts ==
    /\ Zeroed.cpu \in Shares /\ Zeroed.mem = 0
    /\ Zeroed.cpu.busy + Zeroed.cpu.idle = Zeroed.cpu.of
    /\ Zeroed.cpu.busy <= Zeroed.cpu.of /\ Zeroed.cpu.user <= Zeroed.cpu.busy
    /\ IsTable(Zeroed.procs, Rows) /\ DOMAIN Zeroed.procs = {}
    /\ Zeroed = [cpu |-> Zeroed.cpu, mem |-> Zeroed.mem, procs |-> Zeroed.procs,
                 truncated |-> Zeroed.truncated]
  BY DEF Zeroed, Cpu, Shares, IsTable, Rows

(* Reading /proc/stat, or failing to. *)
LEMMA ReadCpuKeepsIInv ==
    IInv /\ (ReadCpu \/ ReadCpuFails) => IInv'
  <1>. SUFFICES ASSUME IInv, ReadCpu \/ ReadCpuFails PROVE IInv'
    OBVIOUS
  <1>. USE DEF IInv, kernelVars
  <1>1. CASE ReadCpu
    <2>. DEFINE cpu  == cpu_metrics(jiffies, prev_cpu_jiffies)
                back == jiffies.iowait < prev_cpu_jiffies.iowait
    <2>1. /\ cpu \in Shares /\ cpu.busy <= cpu.of /\ back \in BOOLEAN
          /\ ~back => cpu.busy + cpu.idle = cpu.of /\ cpu.user <= cpu.busy
      <3>1. /\ jiffies \in Counters /\ prev_cpu_jiffies \in Counters
            /\ jiffies.iowait \in Nat /\ prev_cpu_jiffies.iowait \in Nat
            /\ prev_cpu_jiffies.user <= jiffies.user /\ prev_cpu_jiffies.idle <= jiffies.idle
        BY DEF Typed, Counters, Together
      <3>. QED
        BY <3>1, ShareFacts
    <2>1a. witness' = [witness EXCEPT !.back = back]
      BY <1>1 DEF ReadCpu
    <2>. HIDE DEF cpu, back
    <2>2. /\ snapshot' = [Zeroed EXCEPT !.cpu = cpu]
          /\ last_system_jiffies_delta' = Since(total(jiffies), total(prev_cpu_jiffies))
          /\ prev_cpu_jiffies' = jiffies /\ pc = "idle" /\ pc' = "mem"
          /\ UNCHANGED <<kernelVars, prev_processes, cursor, published>>
      BY <1>1 DEF ReadCpu, cpu
    <2>2a. /\ witness' \in Witnesses /\ witness'.cpu = witness.cpu
           /\ witness'.failed = witness.failed
           /\ witness'.back = back
      BY <2>1, <2>1a DEF Typed, Witnesses
    <2>3. /\ snapshot'.cpu = cpu /\ snapshot'.mem = 0
          /\ IsTable(snapshot'.procs, Rows) /\ DOMAIN snapshot'.procs = {}
          /\ snapshot' = [cpu |-> snapshot'.cpu, mem |-> snapshot'.mem,
                          procs |-> snapshot'.procs, truncated |-> snapshot'.truncated]
      BY <2>2, ZeroedFacts
    <2>4. last_system_jiffies_delta' \in Nat
      <3>1. total(jiffies) \in Nat /\ total(prev_cpu_jiffies) \in Nat
        BY DEF Typed, Counters, total
      <3>. QED
        BY <2>2, <3>1, SinceFacts
    <2>5. Typed'
      BY <2>1, <2>2, <2>2a, <2>3, <2>4 DEF Typed
    <2>6. RowsFit' /\ History' /\ Together' /\ Passed'
      <3>1. RowsFit'
        BY <2>3, FS_EmptySet, ProcAssumption DEF RowsFit
      <3>2. History' /\ Passed'
        BY <2>2, <2>3 DEF History, Recorded, Passed
      <3>3. /\ witness.cpu.user \in Nat /\ prev_cpu_jiffies.user \in Nat
            /\ jiffies.user \in Nat /\ jiffies.idle \in Nat
        BY DEF Typed, Counters, Witnesses
      <3>4. \A p \in DOMAIN prev_processes' : UsedSince(p, prev_processes[p], witness.cpu)'
        BY <2>2, <2>2a DEF Together, UsedSince
      <3>5. Together'
        BY <2>2, <2>2a, <3>3, <3>4 DEF Together
      <3>. QED
        BY <3>1, <3>2, <3>5
    <2>7. UsageWithin' /\ ChargedWhatItUsed' /\ SameInterval'
      BY <2>1, <2>2, <2>2a, <2>3 DEF UsageWithin, ChargedWhatItUsed, SameInterval
    <2>. QED
      BY <2>5, <2>6, <2>7
  <1>2. CASE ReadCpuFails
    <2>1. /\ snapshot' = Zeroed /\ pc' = "idle"
          /\ witness' = [witness EXCEPT !.failed = TRUE]
          /\ UNCHANGED <<kernelVars, prev_cpu_jiffies, last_system_jiffies_delta,
                         prev_processes, cursor, published>>
      BY <1>2 DEF ReadCpuFails, Fail
    <2>2. /\ witness'.failed /\ witness'.cpu = witness.cpu
          /\ witness' \in Witnesses
      BY <2>1 DEF Typed, Witnesses
    <2>3. Typed'
      BY <2>1, <2>2, ZeroedFacts DEF Typed
    <2>4. RowsFit' /\ History' /\ Passed'
      BY <2>1, <2>2, ZeroedFacts, FS_EmptySet, ProcAssumption
         DEF RowsFit, History, Recorded, Passed
    <2>4a. Together'
      BY <2>1, <2>2 DEF Together, UsedSince
    <2>5. UsageWithin' /\ ChargedWhatItUsed' /\ SameInterval'
      BY <2>1, ZeroedFacts DEF UsageWithin, ChargedWhatItUsed, SameInterval
    <2>. QED
      BY <2>3, <2>4, <2>4a, <2>5
  <1>. QED
    BY <1>1, <1>2

(* Reading /proc/meminfo and opening /proc, or failing to. *)
LEMMA MemAndOpenKeepIInv ==
    IInv /\ (ReadMem \/ ReadMemOrOpenFails \/ OpenDir) => IInv'
  <1>. SUFFICES ASSUME IInv, ReadMem \/ ReadMemOrOpenFails \/ OpenDir PROVE IInv'
    OBVIOUS
  <1>. USE DEF IInv, kernelVars, parserVars
  <1>1. CASE ReadMem
    <2>1. PICK reading \in MemReadings :
              snapshot' = [snapshot EXCEPT !.mem = mem_usage_pct(reading)]
      BY <1>1 DEF ReadMem
    <2>2. /\ snapshot'.mem \in 0..100
          /\ snapshot'.cpu = snapshot.cpu /\ snapshot'.procs = snapshot.procs
          /\ snapshot' = [cpu |-> snapshot'.cpu, mem |-> snapshot'.mem,
                          procs |-> snapshot'.procs, truncated |-> snapshot'.truncated]
      BY <2>1, PercentFacts DEF Typed
    <2>3. Typed'
      BY <1>1, <2>2 DEF ReadMem, Typed
    <2>4. RowsFit' /\ History' /\ Together' /\ Passed'
      BY <1>1, <2>2 DEF ReadMem, RowsFit, History, Recorded, Together, UsedSince, Passed
    <2>5. UsageWithin' /\ ChargedWhatItUsed' /\ SameInterval'
      BY <1>1, <2>2 DEF ReadMem, UsageWithin, ChargedWhatItUsed, SameInterval
    <2>. QED
      BY <2>3, <2>4, <2>5
  <1>2. CASE ReadMemOrOpenFails
    <2>1. /\ pc' = "idle" /\ witness'.failed
          /\ witness'.cpu = witness.cpu /\ witness'.back = witness.back
          /\ witness' \in Witnesses
      BY <1>2 DEF ReadMemOrOpenFails, Fail, Typed, Witnesses
    <2>2. Typed'
      BY <1>2, <2>1 DEF ReadMemOrOpenFails, Fail, Typed
    <2>3. RowsFit' /\ History' /\ Together' /\ Passed'
      BY <1>2, <2>1
         DEF ReadMemOrOpenFails, Fail, RowsFit, History, Recorded, Together, UsedSince,
             Passed
    <2>4. UsageWithin' /\ ChargedWhatItUsed' /\ SameInterval'
      BY <1>2, <2>1
         DEF ReadMemOrOpenFails, Fail, UsageWithin, ChargedWhatItUsed, SameInterval
    <2>. QED
      BY <2>2, <2>3, <2>4
  <1>3. CASE OpenDir
    <2>1. /\ witness'.due = DOMAIN live
          /\ witness'.cpu = witness.cpu /\ witness'.failed = witness.failed
          /\ witness'.back = witness.back
          /\ witness' \in Witnesses
      BY <1>3 DEF OpenDir, Typed, IsTable, Witnesses
    <2>2. Typed'
      BY <1>3, <2>1 DEF OpenDir, Typed
    <2>3. RowsFit' /\ History' /\ Together'
      BY <1>3, <2>1 DEF OpenDir, RowsFit, History, Recorded, Together, UsedSince
    <2>4. Passed'
      BY <1>3, <2>1, ProcAssumption DEF OpenDir, Passed, Typed, IsTable
    <2>5. UsageWithin' /\ ChargedWhatItUsed' /\ SameInterval'
      BY <1>3, <2>1 DEF OpenDir, History, UsageWithin, ChargedWhatItUsed, SameInterval
    <2>. QED
      BY <2>2, <2>3, <2>4, <2>5
  <1>. QED
    BY <1>1, <1>2, <1>3

(* A row is added: it charges the process with what it used, and the scan  *)
(* has passed no process that was there all the time without one.          *)
LEMMA ReadEntryKeepsIInv ==
    IInv /\ ReadEntry => IInv'
  <1>. SUFFICES ASSUME IInv, ReadEntry PROVE IInv'
    OBVIOUS
  <1>. USE DEF IInv, kernelVars, parserVars
  <1>0. PICK p \in Entries :
            /\ cursor' = p
            /\ \A q \in Entries : p <= q
    BY DEF ReadEntry, NextEntry
  <1>. DEFINE row == Row(p)
  <1>1. /\ p \in DOMAIN live /\ p \in Pids /\ p \in Nat /\ p > cursor
        /\ \A q \in DOMAIN live : q > cursor => p <= q
        /\ live[p] \in Times
    BY <1>0, ProcAssumption DEF Entries, Typed, IsTable
  <1>2. p \in DOMAIN prev_processes => prev_processes[p] \in Times
    BY DEF Typed, IsTable
  <1>3. /\ row \in Rows
        /\ row.time = live[p].time /\ row.start = live[p].start
        /\ row.num <= row.time
        /\ p \in DOMAIN prev_processes /\ prev_processes[p].start = row.start
              => row.num = IF row.den > 0 THEN row.time - prev_processes[p].time ELSE 0
        /\ row.den \in {0, last_system_jiffies_delta}
        /\ row.num <= jiffies.user - witness.cpu.user
    <2>1. p \in DOMAIN prev_processes /\ prev_processes[p].start = live[p].start
              => prev_processes[p].time <= live[p].time
      BY <1>1 DEF History, Recorded
    <2>2. /\ row \in Rows
          /\ row.time = live[p].time /\ row.start = live[p].start
          /\ row.num <= row.time
          /\ p \in DOMAIN prev_processes /\ prev_processes[p].start = row.start
                => row.num = IF row.den > 0 THEN row.time - prev_processes[p].time ELSE 0
          /\ row.den \in {0, last_system_jiffies_delta}
          /\ p \notin DOMAIN prev_processes => row.num = 0
      BY <1>1, <1>2, <2>1 DEF Row, Rows, Since, Times, Typed
    <2>. HIDE DEF row
    <2>3. /\ jiffies.user \in Nat /\ witness.cpu.user \in Nat /\ prev_cpu_jiffies.user \in Nat
          /\ witness.cpu.user <= jiffies.user
      BY DEF Typed, Counters, Witnesses, Together
    <2>4. row.num \in Nat /\ row.time \in Nat
      BY <2>2 DEF Rows
    <2>5. row.num <= jiffies.user - witness.cpu.user
      <3>1. CASE p \notin DOMAIN prev_processes
        BY <2>2, <2>3, <3>1
      <3>2. CASE p \in DOMAIN prev_processes
        <4>1. /\ prev_processes[p].time \in Nat
              /\ (IF live[p].start = prev_processes[p].start
                  THEN live[p].time - prev_processes[p].time ELSE live[p].time)
                    <= jiffies.user - witness.cpu.user
          BY <1>1, <1>2, <3>2 DEF Together, UsedSince, Times
        <4>. QED
          BY <2>2, <2>3, <2>4, <3>2, <4>1
      <3>. QED
        BY <3>1, <3>2
    <2>. QED
      BY <2>2, <2>5
  <1>4. /\ snapshot'.procs = With(snapshot.procs, p, row)
        /\ snapshot'.cpu = snapshot.cpu /\ snapshot'.mem = snapshot.mem
        /\ snapshot' = [cpu |-> snapshot'.cpu, mem |-> snapshot'.mem,
                        procs |-> snapshot'.procs, truncated |-> snapshot'.truncated]
        /\ UNCHANGED <<kernelVars, parserVars, pc, published, witness>>
        /\ pc = "scan"
    BY <1>0 DEF ReadEntry, NextEntry, Typed
  <1>5. ~Full
    BY DEF ReadEntry, NextEntry
  <1>. HIDE DEF row
  <1>6. /\ IsTable(snapshot'.procs, Rows)
        /\ DOMAIN snapshot'.procs = DOMAIN snapshot.procs \cup {p}
        /\ snapshot'.procs[p] = row
        /\ \A q \in DOMAIN snapshot.procs : q # p => snapshot'.procs[q] = snapshot.procs[q]
    <2>. DEFINE old == snapshot.procs
                new == snapshot'.procs
    <2>1. /\ IsTable(old, Rows) /\ p \in Pids /\ row \in Rows
          /\ new = With(old, p, row)
      BY <1>1, <1>3, <1>4 DEF Typed
    <2>. HIDE DEF old, new
    <2>2. /\ IsTable(new, Rows)
          /\ DOMAIN new = DOMAIN old \cup {p}
          /\ new[p] = row
          /\ \A q \in DOMAIN old : q # p => new[q] = old[q]
      BY <2>1 DEF With, IsTable
    <2>. QED
      BY <2>2 DEF old, new
  <1>7. Typed'
    BY <1>0, <1>1, <1>4, <1>6 DEF Typed
  <1>8. RowsFit'
    <2>1. /\ IsFiniteSet(DOMAIN snapshot.procs \cup {p})
          /\ Cardinality(DOMAIN snapshot.procs \cup {p}) <= Cardinality(DOMAIN snapshot.procs) + 1
      BY OneMore DEF RowsFit
    <2>2. Cardinality(DOMAIN snapshot.procs) + 1 <= MAX_PROCS
      BY <1>5, ProcAssumption, FS_CardinalityType DEF Full, RowsFit
    <2>3. Cardinality(DOMAIN snapshot.procs \cup {p}) \in Nat
          /\ Cardinality(DOMAIN snapshot.procs) \in Nat
      BY <2>1, FS_CardinalityType DEF RowsFit
    <2>. QED
      BY <1>6, <2>1, <2>2, <2>3, ProcAssumption DEF RowsFit
  <1>9. History'
    BY <1>1, <1>3, <1>4, <1>6 DEF History, Recorded, Times
  <1>10. Together' /\ SameInterval' /\ UsageWithin'
    <2>1. UsageWithin'
      BY <1>4 DEF UsageWithin
    <2>2. \A q \in DOMAIN prev_processes' : UsedSince(q, prev_processes[q], witness.cpu)'
      BY <1>4 DEF Together, UsedSince
    <2>3. UsedSince(p, snapshot.procs[p], prev_cpu_jiffies)'
      <3>1. /\ jiffies.user \in Nat /\ prev_cpu_jiffies.user \in Nat
            /\ prev_cpu_jiffies.user <= jiffies.user /\ live[p].time \in Nat
        BY <1>1 DEF Typed, Counters, Together, Times
      <3>. QED
        BY <1>3, <1>4, <1>6, <3>1 DEF UsedSince
    <2>4. \A q \in DOMAIN snapshot'.procs :
              /\ UsedSince(q, snapshot.procs[q], prev_cpu_jiffies)'
              /\ snapshot'.procs[q].den \in {0, last_system_jiffies_delta'}
      <3>. SUFFICES ASSUME NEW q \in DOMAIN snapshot'.procs, q # p
                    PROVE  /\ UsedSince(q, snapshot.procs[q], prev_cpu_jiffies)'
                           /\ snapshot'.procs[q].den \in {0, last_system_jiffies_delta'}
        BY <1>3, <1>4, <1>6, <2>3
      <3>1. /\ q \in DOMAIN snapshot.procs /\ snapshot'.procs[q] = snapshot.procs[q]
            /\ UsedSince(q, snapshot.procs[q], prev_cpu_jiffies)
            /\ snapshot.procs[q].den \in {0, last_system_jiffies_delta}
        BY <1>4, <1>6 DEF Together
      <3>. QED
        BY <1>4, <3>1 DEF UsedSince
    <2>5. Together'
      BY <1>4, <2>2, <2>4 DEF Together
    <2>6. ~witness.failed =>
              last_system_jiffies_delta = Since(total(prev_cpu_jiffies), total(witness.cpu))
      BY <1>4 DEF Together
    <2>7. SameInterval'
      BY <1>3, <1>4, <1>6, <2>4, <2>6 DEF SameInterval
    <2>. QED
      BY <2>1, <2>5, <2>7
  <1>11. Passed'
    BY <1>0, <1>1, <1>4, <1>6, ProcAssumption DEF Passed, Typed, IsTable
  <1>12. ChargedWhatItUsed'
    BY <1>3, <1>4, <1>6 DEF ChargedWhatItUsed
  <1>. QED
    BY <1>7, <1>8, <1>9, <1>10, <1>11, <1>12

(* An entry, or the rest of them, is left out. *)
LEMMA LeftOutKeepsIInv ==
    IInv /\ (SkipEntry \/ ReaddirFails) => IInv'
  <1>. SUFFICES ASSUME IInv, SkipEntry \/ ReaddirFails PROVE IInv'
    OBVIOUS
  <1>. USE DEF IInv, kernelVars, parserVars
  <1>1. /\ pc = "scan" /\ cursor' \in Nat
        /\ UNCHANGED <<kernelVars, parserVars, pc, snapshot, published>>
        /\ witness'.cpu = witness.cpu /\ witness'.failed = witness.failed
        /\ witness'.back = witness.back /\ witness' \in Witnesses
        /\ witness'.due \subseteq witness.due
    BY ProcAssumption
       DEF SkipEntry, ReaddirFails, NextEntry, Entries, Typed, IsTable, Witnesses
  <1>2. \A p \in witness'.due : p <= cursor' => p <= cursor
    <2>1. \A p \in witness.due : p \in DOMAIN live /\ p \in Nat
      BY <1>1, ProcAssumption DEF Passed, Typed, IsTable
    <2>2. CASE SkipEntry
      <3>1. /\ \A q \in Entries : cursor' <= q
            /\ witness'.due = witness.due \ {cursor'}
        BY <2>2 DEF SkipEntry, NextEntry, Typed, Witnesses
      <3>. QED
        BY <1>1, <2>1, <3>1 DEF Entries, Typed
    <2>3. CASE ReaddirFails
      <3>1. witness'.due = witness.due \ Entries
        BY <2>3 DEF ReaddirFails, Typed, Witnesses
      <3>. QED
        BY <1>1, <2>1, <3>1 DEF Entries, Typed
    <2>. QED
      BY <2>2, <2>3
  <1>3. Typed' /\ RowsFit' /\ History'
    BY <1>1 DEF Typed, RowsFit, History, Recorded
  <1>4. Together' /\ Passed'
    BY <1>1, <1>2 DEF Together, UsedSince, Passed
  <1>5. UsageWithin' /\ ChargedWhatItUsed' /\ SameInterval'
    BY <1>1 DEF UsageWithin, ChargedWhatItUsed, SameInterval
  <1>. QED
    BY <1>3, <1>4, <1>5

(* The times read become the history. *)
LEMMA FinishKeepsIInv ==
    IInv /\ Finish => IInv'
  <1>. SUFFICES ASSUME IInv, Finish PROVE IInv'
    OBVIOUS
  <1>. USE DEF IInv, kernelVars
  <1>1. /\ snapshot'.procs = snapshot.procs
        /\ snapshot'.cpu = snapshot.cpu /\ snapshot'.mem = snapshot.mem
        /\ snapshot' = [cpu |-> snapshot'.cpu, mem |-> snapshot'.mem,
                        procs |-> snapshot'.procs, truncated |-> snapshot'.truncated]
        /\ pc = "scan" /\ pc' = "idle" /\ cursor' = 0
        /\ UNCHANGED <<kernelVars, prev_cpu_jiffies, last_system_jiffies_delta>>
    BY DEF Finish, Typed
  <1>2. /\ DOMAIN prev_processes' = DOMAIN snapshot.procs
        /\ \A p \in DOMAIN snapshot.procs :
              prev_processes'[p] = [time |-> snapshot.procs[p].time,
                                    start |-> snapshot.procs[p].start]
    BY DEF Finish, Baseline
  <1>2a. prev_processes' = [p \in DOMAIN prev_processes' |-> prev_processes'[p]]
    BY DEF Finish, Baseline
  <1>3. \A p \in DOMAIN snapshot.procs : snapshot.procs[p] \in Rows
    BY DEF Typed, IsTable
  <1>4. IsTable(prev_processes', Times)
    BY <1>2, <1>2a, <1>3 DEF IsTable, Typed, Times, Rows
  <1>5. witness' \in Witnesses
        /\ witness'.cpu = prev_cpu_jiffies /\ witness'.back = witness.back
        /\ witness'.failed = FALSE
    BY DEF Finish, Typed, Witnesses
  <1>6. Typed'
    BY <1>1, <1>4, <1>5 DEF Typed
  <1>6a. \A p \in DOMAIN snapshot.procs :
            /\ prev_processes'[p].time = snapshot.procs[p].time
            /\ prev_processes'[p].start = snapshot.procs[p].start
    <2>. TAKE p \in DOMAIN snapshot.procs
    <2>1. prev_processes'[p] = [time |-> snapshot.procs[p].time,
                                start |-> snapshot.procs[p].start]
      BY <1>2
    <2>. QED
      BY <2>1
  <1>7. RowsFit' /\ Together' /\ Passed'
    <2>1. RowsFit' /\ Passed'
      BY <1>1 DEF RowsFit, Passed
    <2>2. \A p \in DOMAIN prev_processes' : UsedSince(p, prev_processes[p], witness.cpu)'
      <3>1. \A p \in DOMAIN snapshot.procs : UsedSince(p, snapshot.procs[p], prev_cpu_jiffies)
        BY <1>1 DEF Together
      <3>. QED
        BY <1>1, <1>2, <1>5, <1>6a, <3>1 DEF UsedSince
    <2>3. prev_cpu_jiffies.user \in Nat
      BY DEF Typed, Counters
    <2>. QED
      BY <1>1, <1>5, <2>1, <2>2, <2>3 DEF Together
  <1>8. History'
    <2>2. \A p \in DOMAIN live : live[p].start <= forks
      BY DEF History
    <2>3. \A p \in DOMAIN snapshot.procs : Recorded(p, snapshot.procs[p])
      BY DEF History
    <2>4. \A p \in DOMAIN prev_processes' : Recorded(p, prev_processes[p])'
      BY <1>1, <1>2, <1>6a, <2>3 DEF Recorded
    <2>5. \A p \in DOMAIN snapshot'.procs : Recorded(p, snapshot.procs[p])'
      <3>1. snapshot'.procs = snapshot.procs /\ live' = live /\ forks' = forks
        BY <1>1
      <3>. QED
        BY <2>3, <3>1 DEF Recorded
    <2>. QED
      BY <1>1, <2>2, <2>4, <2>5 DEF History
  <1>9. UsageWithin' /\ ChargedWhatItUsed' /\ SameInterval'
    BY <1>1, <1>5 DEF UsageWithin, ChargedWhatItUsed, SameInterval
  <1>. QED
    BY <1>6, <1>7, <1>8, <1>9

(* Every step of the kernel and of the parser preserves the invariant. *)
THEOREM NextKeepsIInv ==
    IInv /\ [Next]_vars => IInv'
  <1>. SUFFICES ASSUME IInv, [Next]_vars PROVE IInv'
    OBVIOUS
  <1>1. CASE Wait \/ \E p \in Pids : Run(p) \/ Fork(p) \/ Exit(p)
    BY <1>1, KernelSteps, KernelKeepsIInv DEF IInv
  <1>2. CASE ReadCpu \/ ReadCpuFails
    BY <1>2, ReadCpuKeepsIInv
  <1>3. CASE ReadMem \/ ReadMemOrOpenFails \/ OpenDir
    BY <1>3, MemAndOpenKeepIInv
  <1>4. CASE ReadEntry
    BY <1>4, ReadEntryKeepsIInv
  <1>4a. CASE SkipEntry \/ ReaddirFails
    BY <1>4a, LeftOutKeepsIInv
  <1>5. CASE Finish
    BY <1>5, FinishKeepsIInv
  <1>6. CASE UNCHANGED vars
    BY <1>6 DEF vars, kernelVars, parserVars, IInv, Typed, RowsFit, History, Recorded,
           Together, UsedSince, Passed, UsageWithin, ChargedWhatItUsed, SameInterval
  <1>. QED
    BY <1>1, <1>2, <1>3, <1>4, <1>4a, <1>5, <1>6 DEF Next

(* The invariant holds throughout. *)
THEOREM ParserCorrect ==
    Spec => []IInv
  BY InitIInv, NextKeepsIInv, PTL DEF Spec

(* No more than MAX_PROCS rows are stored, and so kept as history. *)
THEOREM RowsAlwaysFit ==
    Spec => []RowsFit
  <1>1. IInv => RowsFit
    BY DEF IInv
  <1>. QED
    BY <1>1, ParserCorrect, PTL

(* A process is charged with what it used itself, however numbers are      *)
(* reused and snapshots fail.                                              *)
THEOREM ChargesAreRight ==
    Spec => []ChargedWhatItUsed
  <1>1. IInv => ChargedWhatItUsed
    BY DEF IInv
  <1>. QED
    BY <1>1, ParserCorrect, PTL

(* The usage of the CPU and of memory is never above the whole, and unless *)
(* iowait went back the CPU's shares add up.                               *)
THEOREM SharesAreRight ==
    Spec => []UsageWithin
  <1>1. IInv => UsageWithin
    BY DEF IInv
  <1>. QED
    BY <1>1, ParserCorrect, PTL

(* No work from before the last published reading of /proc/stat is charged *)
(* to a process, and while snapshots succeed the time it is divided by is  *)
(* counted from the same reading.                                          *)
THEOREM IntervalsAgree ==
    Spec => []SameInterval
  <1>1. IInv => SameInterval
    BY DEF IInv
  <1>. QED
    BY <1>1, ParserCorrect, PTL

(* A step that publishes a snapshot without a process that it owes a row   *)
(* says so.                                                                *)
LEMMA PublishesComplete ==
    IInv /\ [Next]_vars =>
        (published' # published =>
            (published'.truncated \/ witness.due \subseteq published'.procs))
  <1>. SUFFICES ASSUME IInv, [Next]_vars, published' # published
                PROVE  published'.truncated \/ witness.due \subseteq published'.procs
    OBVIOUS
  <1>1. Finish
    BY DEF Next, Run, Fork, Exit, Wait, ReadCpu, ReadCpuFails, ReadMem, ReadMemOrOpenFails,
           OpenDir, ReadEntry, SkipEntry, ReaddirFails, Fail, vars
  <1>2. published' = [procs |-> DOMAIN snapshot.procs, truncated |-> Truncated] /\ pc = "scan"
    BY <1>1 DEF Finish
  <1>3. CASE Truncated
    BY <1>2, <1>3
  <1>4. CASE ~Truncated
    <2>1. \A p \in DOMAIN live : p \in Nat /\ cursor \in Nat /\ ~(p > cursor)
      BY <1>4, ProcAssumption DEF Truncated, Entries, IInv, Typed, IsTable
    <2>2. \A p \in witness.due : p \in DOMAIN live /\ p <= cursor
      BY <1>2, <2>1 DEF IInv, Passed
    <2>3. witness.due \subseteq DOMAIN snapshot.procs
      BY <1>2, <2>2 DEF IInv, Passed
    <2>. QED
      BY <1>2, <2>3
  <1>. QED
    BY <1>3, <1>4

(* Every snapshot the server is given has a row for each process that      *)
(* lived throughout the scan and could be read, or says it is truncated.   *)
THEOREM SnapshotsAreComplete ==
    Spec => PublishedComplete
  <1>1. IInv /\ [Next]_vars =>
            [published' # published =>
                (published'.truncated \/ witness.due \subseteq published'.procs)]_vars
    BY PublishesComplete
  <1>. QED
    BY <1>1, ParserCorrect, PTL DEF Spec, PublishedComplete
=============================================================================
