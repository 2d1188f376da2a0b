---------------------------- MODULE MCProcParser -----------------------------
(* ProcParser with two process numbers and room for one row. *)
EXTENDS ProcParser

(* Half the memory in use, and an estimate of what is free above the total. *)
MCMemReadings == {<<2, 1>>, <<2, 3>>}
=============================================================================
