----------------------------- MODULE MCDashboard -----------------------------
(* Dashboard with a process number of two digits and one of a single digit. *)
EXTENDS Dashboard

(* Requests by hand: no process number, one above the bound, a number for  *)
(* the signal, a number that is no signal.                                 *)
MCOthers ==
    {[pid |-> NULL, sig |-> Named("SIGINT"), token |-> "right"],
     [pid |-> 70, sig |-> Empty, token |-> "right"],
     [pid |-> 23, sig |-> Numbered(15), token |-> "right"],
     [pid |-> 23, sig |-> Numbered(32), token |-> "right"]}
=============================================================================
