-------------------------------- MODULE Tui ----------------------------------
(***************************************************************************)
(* The terminal interface (tui.c) in the main loop (main.c): every frame   *)
(* samples the processes, sorts and draws them, and handles one key.       *)
(*                                                                         *)
(* The operator decides on what the screen shows, which in a low terminal  *)
(* is not all that was drawn; the program acts on its own state, which the *)
(* next sample has reordered, at a time at which a question may have       *)
(* lapsed.  Keys may be typed ahead; time passes between any two steps.    *)
(***************************************************************************)
EXTENDS Integers, Sequences, FiniteSetsExt, SequencesExt

CONSTANTS
    Pids,          \* processes that may be listed
    Usage,         \* values of a row's CPU share and resident size
    TermRows,      \* heights of the terminal
    StatusTime,    \* how long a message is shown (3 s)
    PromptTime,    \* how long a confirmation is awaited (10 s)
    NULL

ASSUME TuiAssumption ==
    /\ Pids \subseteq Nat \ {0} /\ IsFiniteSet(Pids) /\ NULL \notin Pids
    /\ Usage \subseteq Nat /\ TermRows \subseteq Nat
    /\ StatusTime \in Nat \ {0} /\ PromptTime \in Nat \ {0}

VARIABLES
    pc,              \* the main loop: "frame", "input" or "done"
    g_running,       \* cleared by the handler of SIGINT and SIGTERM
    state,           \* tui_state_t: see Init
    procs,           \* the process numbers of the snapshot, in table order
    screen,          \* what the operator sees
    key,             \* the key getch will return, first of those not yet read
    sent             \* the signal sent since the frame was drawn

vars == <<pc, g_running, state, procs, screen, key, sent>>

(* A key without a meaning acts as y when no question is open, and as any  *)
(* other key when one is.                                                  *)
Keys == {"q", "j", "k", "p", "m", "s", "c", "K", "y"}

-----------------------------------------------------------------------------
(* tui_render *)

(* Row a may stand above row b. *)
compare_procs(mode, a, b) ==
    IF mode = "cpu" THEN a.cpu >= b.cpu ELSE a.rss >= b.rss

(* The tables qsort_r may leave: rows that compare equal stand anyhow. *)
Sorted(mode, rows) ==
    {table \in SetToSeqs(DOMAIN rows) :
        \A i, j \in DOMAIN table :
            i < j => compare_procs(mode, rows[table[i]], rows[table[j]])}

(* The tables a frame may show: any processes, with any use of the system. *)
Tables ==
    [mode \in {"cpu", "mem"} |->
        UNION {Sorted(mode, usage) :
                  usage \in UNION {[listed -> [cpu : Usage, rss : Usage]] :
                                      listed \in SUBSET Pids}}]

max_rows(rows) == Max({rows - 5 - 3, 1})

(* The selection, brought back into the table.  Indices count from 0. *)
Selected(index, count) ==
    IF count <= 0 THEN 0 ELSE IF index >= count THEN count - 1 ELSE index

(* Mutant: the view follows the selection one row late. *)
ScrolledLate(offset, selected, height) ==
    IF selected < offset THEN selected
    ELSE IF selected > offset + height THEN selected - height + 1
    ELSE offset
(* The view follows the selection. *)
Scrolled(offset, selected, height) ==
    IF selected < offset THEN selected
    ELSE IF selected >= offset + height THEN selected - height + 1
    ELSE offset

(* The line of the terminal for row i of the table. *)
Line(i, offset) == 5 + 1 + i - offset

(* The process whose highlighted row can be seen: the loop draws it, on a  *)
(* line of the terminal, and neither the footer on the last line nor a     *)
(* message on the last but one is written over it.                         *)
Highlighted(table, selected, offset, rows, said) ==
    LET drawn == {i \in offset .. offset + max_rows(rows) - 1 : i < Len(table)}
        seen  == {i \in drawn : Line(i, offset) < rows - (IF said THEN 2 ELSE 1)}
    IN  IF selected \in seen THEN table[selected + 1] ELSE NULL

(* A message is on the status line while it lasts, if there is such a      *)
(* line.  It is the process a confirmation asks about; any other is NULL.  *)
Prompt(s, rows) == IF s.remaining > 0 /\ rows >= 2 THEN s.message ELSE NULL

Draw(table, rows) ==
    LET selected == Selected(state.selected_index, Len(table))
        top      == IF Len(table) = 0 THEN 0 ELSE state.scroll_offset
        offset   == Scrolled(top, selected, max_rows(rows))
    IN  /\ state' = [state EXCEPT !.selected_index = selected, !.scroll_offset = offset]
        /\ screen' = [highlighted |-> Highlighted(table, selected, offset, rows,
                                                  state.remaining > 0),
                      prompt |-> Prompt(state, rows), rows |-> rows]

-----------------------------------------------------------------------------
(* tui_handle_input *)

(* A message is set, to be shown for some time.  remaining is the time     *)
(* left until status_message_expiry.                                       *)
Say(s, message, time) == [s EXCEPT !.message = message, !.remaining = time]
Disarmed(s) == [s EXCEPT !.confirm_pending = FALSE, !.pending_kill_pid = NULL]

(* signal_send_to_process: a process number of at most 1 is refused; kill  *)
(* may fail.  Either way the operator is told.                             *)
signal_send_to_process(pid, sig) ==
    \/ pid > 1 /\ sent' = [pid |-> pid, sig |-> sig]
    \/ UNCHANGED sent

(* Mutant: the question never lapses. *)
ExpiredNever(s) == FALSE
(* The time of the confirmation is up. *)
Expired(s) == s.remaining = 0

(* The answer to a question that has not lapsed; the process must still be *)
(* listed.                                                                 *)
Answer(ch) ==
    /\ IF ch = "y" /\ state.pending_kill_pid \in Range(procs)
       THEN signal_send_to_process(state.pending_kill_pid, "SIGKILL")
       ELSE UNCHANGED sent
    /\ state' = Disarmed(Say(state, NULL, StatusTime))

(* s and c: a signal to the selected process, if there is one. *)
SignalSelected(s, sig) ==
    IF s.selected_index < Len(procs)
    THEN /\ signal_send_to_process(procs[s.selected_index + 1], sig)
         /\ state' = Say(s, NULL, StatusTime)
    ELSE /\ state' = s
         /\ UNCHANGED sent

(* K: ask before the selected process is killed. *)
Arm(s) ==
    IF s.selected_index < Len(procs)
    THEN LET pid == procs[s.selected_index + 1]
         IN  [Say(s, pid, PromptTime) EXCEPT !.confirm_pending = TRUE,
                                             !.pending_kill_pid = pid]
    ELSE s

(* The keys that change the state only. *)
Keyed(s, ch) ==
    CASE ch = "q" -> [s EXCEPT !.is_running = FALSE]
      [] ch = "j" -> [s EXCEPT !.selected_index =
                                   IF @ < Len(procs) - 1 THEN @ + 1 ELSE @]
      [] ch = "k" -> [s EXCEPT !.selected_index = IF @ > 0 THEN @ - 1 ELSE @]
      [] ch = "p" -> [Say(s, NULL, StatusTime) EXCEPT !.sort_mode = "cpu"]
      [] ch = "m" -> [Say(s, NULL, StatusTime) EXCEPT !.sort_mode = "mem"]
      [] ch = "K" -> Arm(s)
      [] OTHER    -> s

(* The key when no question is open; one that has lapsed is closed first,  *)
(* and the key keeps its meaning.                                          *)
Command(ch) ==
    LET s == IF state.confirm_pending THEN Disarmed(Say(state, NULL, StatusTime))
                                      ELSE state
    IN  CASE ch = "s" -> SignalSelected(s, "SIGSTOP")
          [] ch = "c" -> SignalSelected(s, "SIGCONT")
          [] OTHER    -> state' = Keyed(s, ch) /\ UNCHANGED sent

-----------------------------------------------------------------------------
(* main *)

Init ==
    /\ pc = "frame" /\ g_running = TRUE
    /\ state = [is_running |-> TRUE, selected_index |-> 0, scroll_offset |-> 0,
                sort_mode |-> "cpu", message |-> NULL, remaining |-> 0,
                confirm_pending |-> FALSE, pending_kill_pid |-> NULL]
    /\ procs = <<>>
    /\ screen = [highlighted |-> NULL, prompt |-> NULL, rows |-> 0]
    /\ key = NULL /\ sent = NULL

(* Mutant: only the key q is looked at. *)
RunningUntilKey == state.is_running
(* The condition of the loop. *)
Running == g_running /\ state.is_running

Looping == pc = "frame" /\ Running

(* A snapshot succeeds and is drawn. *)
Frame ==
    /\ Looping
    /\ procs' \in Tables[state.sort_mode]
    /\ \E rows \in TermRows : Draw(procs', rows)
    /\ sent' = NULL
    /\ pc' = "input"
    /\ UNCHANGED <<g_running, key>>

(* A snapshot fails: the frame is skipped, its key is not read. *)
FrameFails == Looping /\ UNCHANGED vars

(* getch finds no key. *)
NoKey ==
    /\ pc = "input" /\ key = NULL
    /\ pc' = "frame"
    /\ UNCHANGED <<g_running, state, procs, screen, key, sent>>

tui_handle_input ==
    /\ pc = "input" /\ key # NULL
    /\ IF state.confirm_pending /\ ~Expired(state) THEN Answer(key) ELSE Command(key)
    /\ key' = NULL
    /\ pc' = "frame"
    /\ UNCHANGED <<g_running, procs, screen>>

(* The loop ends and the terminal is restored. *)
Leave ==
    /\ pc = "frame" /\ ~Running
    /\ pc' = "done"
    /\ UNCHANGED <<g_running, state, procs, screen, key, sent>>

(* A key is next to be read: it is typed now, or was typed ahead, in any   *)
(* earlier frame, and the one before it has been read.                     *)
Type(ch) ==
    /\ pc # "done" /\ key = NULL
    /\ key' = ch
    /\ UNCHANGED <<pc, g_running, state, procs, screen, sent>>

(* Time passes. *)
Tick ==
    /\ pc # "done" /\ state.remaining > 0
    /\ state' = [state EXCEPT !.remaining = @ - 1]
    /\ UNCHANGED <<pc, g_running, procs, screen, key, sent>>

(* SIGINT or SIGTERM arrives. *)
sigint_handler ==
    /\ pc # "done" /\ g_running
    /\ g_running' = FALSE
    /\ UNCHANGED <<pc, state, procs, screen, key, sent>>

Done == pc = "done" /\ UNCHANGED vars

MainLoop == Frame \/ NoKey \/ tui_handle_input \/ Leave

Next ==
    \/ MainLoop \/ FrameFails
    \/ \E ch \in Keys : Type(ch)
    \/ Tick \/ sigint_handler \/ Done

(* The main loop runs on, and snapshots do not fail for ever.  Every step  *)
(* of the loop stays enabled until it is taken or the next one is.         *)
Fairness == WF_vars(MainLoop)

Spec == Init /\ [][Next]_vars /\ Fairness

-----------------------------------------------------------------------------
(* Properties *)

(* The selected row can be seen in every frame that is drawn on a terminal *)
(* of at least nine lines, however the table shrinks, the terminal is      *)
(* resized and the selection moves in between, and whatever the status     *)
(* line says (tui_render; ADR-003 section 3).                              *)
SelectionShown ==
    (pc = "input" /\ procs # <<>> /\ screen.rows >= 9) => screen.highlighted # NULL

(* A signal goes where the frame on the screen says when the key is read:  *)
(* SIGSTOP and SIGCONT to the process whose highlighted row can be seen,   *)
(* SIGKILL to the process the question on the status line names, which is  *)
(* still listed; no question that has left the screen can be answered,     *)
(* whenever its time ran out.  Only where the terminal is too low for the  *)
(* row, or for the question, can a signal go to a process that is not      *)
(* shown, and never while another is (tui_handle_input; ADR-003 sections 4 *)
(* and 5).                                                                 *)
SignalledAsShown ==
    sent # NULL =>
        /\ sent.pid > 1
        /\ IF sent.sig = "SIGKILL"
           THEN /\ sent.pid \in Range(procs)
                /\ sent.pid = screen.prompt \/ screen.rows < 2
           ELSE \/ sent.pid = screen.highlighted
                \/ screen.highlighted = NULL /\ screen.rows < 9

(* The program ends once SIGINT or SIGTERM has arrived, wherever the loop  *)
(* is then and even if no further snapshot succeeds; and after the key q,  *)
(* when it is next to be read and no question is open, although frames     *)
(* whose snapshot fails do not read it.  A q that was typed ahead of the   *)
(* question, behind K, answers it (main, sigint_handler,                   *)
(* tui_handle_input).                                                      *)
SessionEnds ==
    /\ ~g_running ~> pc = "done"
    /\ (key = "q" /\ ~state.confirm_pending) ~> pc = "done"
=============================================================================
