------------------------------ MODULE MCReaders ------------------------------
(* For TLC: the search in memory and the reader of byte code, side by      *)
(* side.  They share nothing, so that one of the two runs and the other    *)
(* rests.                                                                  *)
EXTENDS MemorySearch, AbcReader

(* Three regions, one after the other: of four bytes, of three of which    *)
(* two can be read, and one the library skips.                             *)
MCWild == 7
MCGone == 8
MCMemories ==
  {0 :> a @@ 4 :> Append(b, MCGone) @@ 7 :> <<0, 1>> :
     a \in [1..4 -> {0, 1}], b \in [1..2 -> {0, 1}]}
MCQueries == {<<>>, <<0>>, <<0, 1>>, <<MCWild, 1>>, <<1, 0, 0>>}

(* Numbers of one byte, of two, and of five; every kind of operand.        *)
AnInstruction(op, args) == [op |-> op, args |-> args]
MCInstructions ==
  {AnInstruction(\h87, <<>>), AnInstruction(\h24, <<200>>),
   AnInstruction(\h60, <<127>>), AnInstruction(\h60, <<128>>), AnInstruction(\h2D, <<16384>>),
   AnInstruction(\h2D, <<1073741823>>), AnInstruction(\h80, <<2097151>>),
   AnInstruction(\h10, <<-5>>), AnInstruction(\h11, <<70000>>),
   AnInstruction(\h1B, <<-1, 300>>), AnInstruction(\h1B, <<4, -70000, 9>>),
   AnInstruction(\hEF, <<1, 300, 2, 7>>), AnInstruction(\h46, <<2, 1>>),
   AnInstruction(\hB2, <<6>>), AnInstruction(\h43, <<1, 2>>)}
MCPrograms == UNION {[1..n -> MCInstructions] : n \in 0..2}
MCErrors == -1..1
MCTails == {<<>>, <<\h02, 0>>, <<\h60, 3>>}

ATrait(kind, name, a, b, metadata) ==
  [kind |-> kind, name |-> name, a |-> a, b |-> b, metadata |-> metadata]
MCTraits ==
  {ATrait(0, 3, 0, 5, <<>>), ATrait(0, 200, 8, 0, <<4>>), ATrait(6, 12, 130, 2, <<>>),
   ATrait(1, 20, 300, 0, <<>>), ATrait(2, 5, 1, 0, <<1, 200>>), ATrait(4, 2, 6, 0, <<>>),
   ATrait(5, 9, 2, 0, <<>>)}
MCClasses ==
  [flags : {0, 8}, interfaces : {<<>>, <<130, 2>>},
   traits : UNION {[1..n -> MCTraits] : n \in 0..2}]
MCParams == UNION {[1..n -> {1, 128, 20000}] : n \in 0..2}

vars == <<searchVars, readVars>>

SearchRests ==
  /\ side = "client" /\ query = <<>> /\ amount = 0 /\ mem = <<>> /\ changes = 0
  /\ spc = "done" /\ pages = <<>> /\ page = -1 /\ buf = <<>> /\ i = 0 /\ out = <<>>
  /\ held = {} /\ kept = {}

ReaderRests ==
  /\ input = [what |-> "params", types |-> <<>>] /\ data = InputBytes(input)
  /\ position = 0 /\ end = 0 /\ result = <<>> /\ rpc = "end"

Init == \/ SearchInit /\ ReaderRests
        \/ SearchRests /\ ReadInit

Next == \/ SearchNext /\ UNCHANGED readVars
        \/ ReadNext /\ UNCHANGED searchVars

Spec == Init /\ [][Next]_vars

(* The invariants of the search and of the reader.                         *)
IInv == SearchInv /\ ReadInv
=============================================================================
