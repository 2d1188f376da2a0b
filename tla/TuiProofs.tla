------------------------------ MODULE TuiProofs ------------------------------
(***************************************************************************)
(* Proofs about Tui, for any processes, any use of the system, any heights *)
(* of the terminal and any durations of messages and questions.            *)
(***************************************************************************)
EXTENDS Tui, FiniteSetTheorems, TLAPS

PidOrNull == Pids \cup {NULL}

(* The state of the interface is well formed. *)
Typed ==
    /\ state \in [is_running : BOOLEAN, selected_index : Nat, scroll_offset : Nat,
                  sort_mode : {"cpu", "mem"}, message : PidOrNull, remaining : Nat,
                  confirm_pending : BOOLEAN, pending_kill_pid : PidOrNull]
    /\ procs \in Seq(Pids)

(* While a key is awaited the screen shows what the key acts on, where the *)
(* terminal has room for it, and nothing else, and nothing has been sent   *)
(* since it was drawn.                                                     *)
OnScreen ==
    pc = "input" =>
        /\ sent = NULL /\ screen.rows \in Nat
        /\ procs # <<>> =>
              LET selected == procs[state.selected_index + 1]
              IN  /\ state.selected_index < Len(procs)
                  /\ screen.highlighted \in {selected, NULL}
                  /\ screen.rows >= 9 => screen.highlighted = selected
        /\ state.confirm_pending /\ state.remaining > 0 /\ screen.rows >= 2 =>
              screen.prompt = state.pending_kill_pid

(* The message of an open question names the process it is about. *)
QuestionNamed == state.confirm_pending => state.message = state.pending_kill_pid

(* The inductive invariant. *)
IInv == Typed /\ OnScreen /\ QuestionNamed /\ SignalledAsShown

-----------------------------------------------------------------------------
(* Every table a frame may show is a sequence of process numbers. *)
LEMMA TablesAreSequences ==
    \A mode \in {"cpu", "mem"} : Tables[mode] \subseteq Seq(Pids)
  <1>. SUFFICES ASSUME NEW mode \in {"cpu", "mem"}, NEW table \in Tables[mode]
                PROVE  table \in Seq(Pids)
    OBVIOUS
  <1>1. PICK listed \in SUBSET Pids :
            \E usage \in [listed -> [cpu : Usage, rss : Usage]] : table \in Sorted(mode, usage)
    BY DEF Tables
  <1>2. table \in SetToSeqs(listed)
    BY <1>1 DEF Sorted
  <1>3. table \in [1..Cardinality(listed) -> listed] /\ Cardinality(listed) \in Nat
    BY <1>2, TuiAssumption, FS_Subset, FS_CardinalityType DEF SetToSeqs
  <1>. QED
    BY <1>3

(* At least one row is drawn, however low the terminal, and no more than   *)
(* there is room for if it has nine lines.                                 *)
LEMMA SomeRows ==
    \A rows \in Nat : /\ max_rows(rows) \in Nat \ {0}
                      /\ rows >= 9 => max_rows(rows) = rows - 8
  <1>. SUFFICES ASSUME NEW rows \in Nat
                PROVE  /\ max_rows(rows) \in Nat \ {0}
                       /\ rows >= 9 => max_rows(rows) = rows - 8
    OBVIOUS
  <1>. DEFINE S == {rows - 5 - 3, 1}
  <1>1. \E x \in S : \A y \in S : x >= y
    OBVIOUS
  <1>2. Max(S) \in S /\ \A y \in S : Max(S) >= y
    BY <1>1 DEF Max
  <1>. QED
    BY <1>2 DEF max_rows

(* The selection is brought into the table and the view to the selection,  *)
(* so that the selected row is among the rows drawn, and its line is not   *)
(* written over if the terminal has nine lines.                            *)
LEMMA SelectionDrawn ==
    ASSUME NEW table \in Seq(Pids), NEW index \in Nat, NEW top \in Nat,
           NEW rows \in Nat, NEW said \in BOOLEAN
    PROVE  LET selected == Selected(index, Len(table))
               offset   == Scrolled(top, selected, max_rows(rows))
               shown    == Highlighted(table, selected, offset, rows, said)
           IN  /\ selected \in Nat /\ offset \in Nat
               /\ table # <<>> =>
                     /\ selected < Len(table)
                     /\ shown \in {table[selected + 1], NULL}
                     /\ rows >= 9 => shown = table[selected + 1]
  <1>. DEFINE height   == max_rows(rows)
              selected == Selected(index, Len(table))
              offset   == Scrolled(top, selected, height)
              shown    == Highlighted(table, selected, offset, rows, said)
  <1>0. height \in Nat \ {0} /\ (rows >= 9 => height = rows - 8)
    BY SomeRows
  <1>. HIDE DEF height
  <1>1. selected \in Nat /\ (table # <<>> => selected < Len(table))
    BY DEF Selected
  <1>2. offset \in Nat /\ offset <= selected /\ selected < offset + height
    BY <1>0, <1>1 DEF Scrolled
  <1>. HIDE DEF selected, offset
  <1>3. shown \in {table[selected + 1], NULL}
    BY DEF Highlighted
  <1>4. ASSUME table # <<>>, rows >= 9
        PROVE  shown = table[selected + 1]
    <2>1. /\ selected \in {i \in offset .. offset + max_rows(rows) - 1 : i < Len(table)}
          /\ Line(selected, offset) < rows - (IF said THEN 2 ELSE 1)
      BY <1>0, <1>1, <1>2, <1>4 DEF Line, height
    <2>. QED
      BY <2>1 DEF Highlighted
  <1>. QED
    BY <1>1, <1>2, <1>3, <1>4 DEF height, selected, offset, shown

(* The initial state. *)
LEMMA InitIInv ==
    Init => IInv
  <1>. SUFFICES ASSUME Init PROVE IInv
    OBVIOUS
  <1>1. Typed
    BY DEF Init, Typed, PidOrNull
  <1>2. OnScreen /\ QuestionNamed /\ SignalledAsShown
    BY DEF Init, OnScreen, QuestionNamed, SignalledAsShown
  <1>. QED
    BY <1>1, <1>2 DEF IInv

(* A frame puts on the screen what the next key acts on. *)
LEMMA FrameKeepsIInv ==
    IInv /\ Frame => IInv'
  <1>. SUFFICES ASSUME IInv, Frame PROVE IInv'
    OBVIOUS
  <1>. USE DEF IInv
  <1>1. procs' \in Seq(Pids)
    BY TablesAreSequences DEF Frame, Typed
  <1>2. PICK rows \in TermRows : Draw(procs', rows)
    BY DEF Frame
  <1>. DEFINE selected == Selected(state.selected_index, Len(procs'))
              top      == IF Len(procs') = 0 THEN 0 ELSE state.scroll_offset
              offset   == Scrolled(top, selected, max_rows(rows))
              said     == state.remaining > 0
              shown    == Highlighted(procs', selected, offset, rows, said)
  <1>3. rows \in Nat
    BY TuiAssumption
  <1>4. state.selected_index \in Nat /\ top \in Nat /\ said \in BOOLEAN
    BY DEF Typed
  <1>5. /\ selected \in Nat /\ offset \in Nat
        /\ procs' # <<>> =>
              /\ selected < Len(procs')
              /\ shown \in {procs'[selected + 1], NULL}
              /\ rows >= 9 => shown = procs'[selected + 1]
    <2>. HIDE DEF top, said
    <2>. QED
      BY <1>1, <1>3, <1>4, SelectionDrawn
  <1>6. /\ state' = [state EXCEPT !.selected_index = selected, !.scroll_offset = offset]
        /\ screen' = [highlighted |-> shown, prompt |-> Prompt(state, rows), rows |-> rows]
    BY <1>2 DEF Draw
  <1>. HIDE DEF selected, top, offset, said, shown
  <1>7. Typed'
    BY <1>1, <1>5, <1>6 DEF Typed
  <1>8. OnScreen'
    BY <1>3, <1>5, <1>6 DEF OnScreen, Typed, Frame, QuestionNamed, Prompt
  <1>9. QuestionNamed'
    BY <1>6 DEF QuestionNamed, Typed
  <1>10. SignalledAsShown'
    BY DEF SignalledAsShown, Frame
  <1>. QED
    BY <1>7, <1>8, <1>9, <1>10

(* A key acts on what the screen shows. *)
LEMMA InputKeepsIInv ==
    IInv /\ tui_handle_input => IInv'
  <1>. SUFFICES ASSUME IInv, tui_handle_input PROVE IInv'
    OBVIOUS
  <1>. USE TuiAssumption DEF IInv, tui_handle_input
  <1>0. OnScreen' /\ procs' \in Seq(Pids) /\ sent = NULL
    BY DEF OnScreen, Typed
  <1>1. CASE state.confirm_pending /\ ~Expired(state)
    <2>1. Answer(key)
      BY <1>1
    <2>2. Typed' /\ QuestionNamed'
      BY <1>0, <2>1 DEF Answer, Disarmed, Say, Typed, PidOrNull, QuestionNamed
    <2>3. SignalledAsShown'
      <3>1. state.remaining > 0
        BY <1>1 DEF Expired, Typed
      <3>2. screen.rows \in Nat /\ (screen.rows >= 2 => screen.prompt = state.pending_kill_pid)
        BY <1>1, <3>1 DEF OnScreen
      <3>. QED
        BY <1>0, <2>1, <3>2 DEF Answer, signal_send_to_process, SignalledAsShown, OnScreen
    <2>. QED
      BY <1>0, <2>2, <2>3
  <1>2. CASE ~(state.confirm_pending /\ ~Expired(state))
    <2>. DEFINE s == IF state.confirm_pending THEN Disarmed(Say(state, NULL, StatusTime))
                                             ELSE state
    <2>1. /\ CASE key = "s" -> SignalSelected(s, "SIGSTOP")
               [] key = "c" -> SignalSelected(s, "SIGCONT")
               [] OTHER     -> state' = Keyed(s, key) /\ UNCHANGED sent
      BY <1>2 DEF Command
    <2>2. /\ s \in [is_running : BOOLEAN, selected_index : Nat, scroll_offset : Nat,
                    sort_mode : {"cpu", "mem"}, message : PidOrNull, remaining : Nat,
                    confirm_pending : BOOLEAN, pending_kill_pid : PidOrNull]
          /\ s.selected_index = state.selected_index
          /\ ~s.confirm_pending
      BY DEF Disarmed, Say, Typed, PidOrNull
    <2>. HIDE DEF s
    <2>3. CASE key \in {"s", "c"}
      <3>1. PICK sig \in {"SIGSTOP", "SIGCONT"} : SignalSelected(s, sig)
        BY <2>1, <2>3
      <3>2. Typed' /\ QuestionNamed'
        <4>1. state' = s \/ state' = Say(s, NULL, StatusTime)
          BY <3>1 DEF SignalSelected
        <4>2. CASE state' = s
          BY <1>0, <2>2, <4>2 DEF Typed, QuestionNamed
        <4>3. CASE state' = Say(s, NULL, StatusTime)
          <5>1. /\ state'.is_running = s.is_running
                /\ state'.confirm_pending = s.confirm_pending
            BY <2>2, <4>3 DEF Say
          <5>2. state' \in [is_running : BOOLEAN, selected_index : Nat, scroll_offset : Nat,
                            sort_mode : {"cpu", "mem"}, message : PidOrNull, remaining : Nat,
                            confirm_pending : BOOLEAN, pending_kill_pid : PidOrNull]
            BY <2>2, <4>3 DEF Say, PidOrNull
          <5>. QED
            BY <1>0, <2>2, <5>1, <5>2 DEF Typed, QuestionNamed
        <4>. QED
          BY <4>1, <4>2, <4>3
      <3>3. SignalledAsShown'
        <4>1. CASE sent' = NULL
          BY <4>1 DEF SignalledAsShown
        <4>2. CASE sent' # NULL
          <5>1. /\ s.selected_index < Len(procs)
                /\ sent' = [pid |-> procs[s.selected_index + 1], sig |-> sig]
                /\ procs[s.selected_index + 1] > 1
            BY <1>0, <3>1, <4>2 DEF SignalSelected, signal_send_to_process
          <5>2. /\ procs # <<>> /\ screen.rows \in Nat
                /\ screen.highlighted \in {procs[state.selected_index + 1], NULL}
                /\ screen.rows >= 9 =>
                      screen.highlighted = procs[state.selected_index + 1]
            BY <2>2, <5>1 DEF OnScreen, Typed
          <5>. QED
            BY <1>0, <2>2, <5>1, <5>2 DEF SignalledAsShown
        <4>. QED
          BY <4>1, <4>2
      <3>. QED
        BY <1>0, <3>2, <3>3
    <2>4. CASE key \notin {"s", "c"}
      <3>1. state' = Keyed(s, key) /\ sent' = NULL
        BY <1>0, <2>1, <2>4
      <3>2. Typed' /\ QuestionNamed'
        <4>1. CASE key = "K"
          <5>1. state' = Arm(s)
            BY <3>1, <4>1 DEF Keyed
          <5>2. s.selected_index < Len(procs) => procs[s.selected_index + 1] \in Pids
            BY <1>0, <2>2
          <5>. QED
            BY <1>0, <2>2, <5>1, <5>2 DEF Arm, Say, Typed, PidOrNull, QuestionNamed
        <4>2. CASE key # "K"
          <5>1. CASE key = "q"
            <6>1. state' = [s EXCEPT !.is_running = FALSE]
              BY <3>1, <5>1 DEF Keyed
            <6>. QED
              BY <1>0, <2>2, <6>1 DEF Typed, QuestionNamed
          <5>2. CASE key \in {"j", "k"}
            <6>. DEFINE n == s.selected_index
                        i == IF key = "j" THEN IF n < Len(procs) - 1 THEN n + 1 ELSE n
                                          ELSE IF n > 0 THEN n - 1 ELSE n
            <6>1. state' = [s EXCEPT !.selected_index = i]
              BY <3>1, <5>2 DEF Keyed
            <6>2. i \in Nat
              BY <2>2
            <6>. HIDE DEF i
            <6>. QED
              BY <1>0, <2>2, <6>1, <6>2 DEF Typed, QuestionNamed
          <5>3. CASE key \in {"p", "m"}
            <6>1. PICK mode \in {"cpu", "mem"} :
                      state' = [Say(s, NULL, StatusTime) EXCEPT !.sort_mode = mode]
              BY <3>1, <5>3 DEF Keyed
            <6>. QED
              BY <1>0, <2>2, <6>1 DEF Say, Typed, PidOrNull, QuestionNamed
          <5>4. CASE key \notin {"q", "j", "k", "p", "m"}
            <6>1. state' = s
              BY <3>1, <4>2, <5>4 DEF Keyed
            <6>. QED
              BY <1>0, <2>2, <6>1 DEF Typed, QuestionNamed
          <5>. QED
            BY <5>1, <5>2, <5>3, <5>4
        <4>. QED
          BY <4>1, <4>2
      <3>. QED
        BY <1>0, <3>1, <3>2 DEF SignalledAsShown
    <2>. QED
      BY <2>3, <2>4
  <1>. QED
    BY <1>1, <1>2

(* Every step preserves the invariant. *)
THEOREM NextKeepsIInv ==
    IInv /\ [Next]_vars => IInv'
  <1>. SUFFICES ASSUME IInv, [Next]_vars PROVE IInv'
    OBVIOUS
  <1>. USE DEF IInv, Typed, OnScreen, QuestionNamed, SignalledAsShown
  <1>1. CASE Frame
    BY <1>1, FrameKeepsIInv
  <1>2. CASE tui_handle_input
    BY <1>2, InputKeepsIInv
  <1>3. CASE NoKey
    BY <1>3 DEF NoKey
  <1>4. CASE Leave
    BY <1>4 DEF Leave
  <1>5. ASSUME NEW ch \in Keys, Type(ch)
        PROVE  IInv'
    BY <1>5 DEF Type
  <1>6. CASE Tick
    BY <1>6 DEF Tick
  <1>7. CASE sigint_handler
    BY <1>7 DEF sigint_handler
  <1>8. CASE FrameFails \/ Done \/ UNCHANGED vars
    BY <1>8 DEF FrameFails, Done, vars
  <1>. QED
    BY <1>1, <1>2, <1>3, <1>4, <1>5, <1>6, <1>7, <1>8 DEF Next, MainLoop

(* The invariant holds throughout. *)
THEOREM InterfaceCorrect ==
    Spec => []IInv
  BY InitIInv, NextKeepsIInv, PTL DEF Spec

(* A signal goes to the process the screen shows as its target when the    *)
(* key is read, whatever the table, the selection and the clock did since; *)
(* only on a terminal too low to show it can it go to a process that is    *)
(* not shown (tui_handle_input).                                           *)
THEOREM SignalsFollowTheScreen ==
    Spec => []SignalledAsShown
  <1>1. IInv => SignalledAsShown
    BY DEF IInv
  <1>. QED
    BY <1>1, InterfaceCorrect, PTL

(* On a terminal of nine lines or more the selected row can always be seen *)
(* (tui_render).                                                           *)
THEOREM SelectionStaysShown ==
    Spec => []SelectionShown
  <1>1. IInv => SelectionShown
    <2>1. \A i \in DOMAIN procs : IInv => procs[i] # NULL
      BY TuiAssumption DEF IInv, Typed
    <2>. QED
      BY <2>1 DEF IInv, Typed, OnScreen, SelectionShown
  <1>. QED
    BY <1>1, InterfaceCorrect, PTL
=============================================================================
