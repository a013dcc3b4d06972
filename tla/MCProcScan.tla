----------------------------- MODULE MCProcScan -----------------------------
(* ProcScan for TLC: flash processes; programs that may come between them  *)
(* and the browser; and others started without a sandbox, in whose name a  *)
(* space is followed by a number that is or will be another's, or their    *)
(* own.                                                                    *)
EXTENDS ProcScan

MCPrograms ==
  {[spaced |-> FALSE, digits |-> 0, tagged |-> TRUE, mapped |-> TRUE],
   [spaced |-> FALSE, digits |-> 0, tagged |-> FALSE, mapped |-> FALSE],
   [spaced |-> TRUE, digits |-> 5, tagged |-> TRUE, mapped |-> FALSE]}
=============================================================================
