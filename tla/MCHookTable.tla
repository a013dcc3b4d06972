----------------------------- MODULE MCHookTable -----------------------------
(* HookTable for TLC: a method install hangs on is in two files; that of   *)
(* the first has two environments, that of the second the number of the    *)
(* gui timer of the first.  The first and its environments have a chunk    *)
(* each, which is named by what is in it; the others share theirs.         *)
EXTENDS HookTable, TLC

CONSTANTS auto1, auto2, timer1, ea1, eb1, ea2, et1, pool1, pool2, page1, page2

MCMethods == {auto1, auto2, timer1}
MCEnvs == {ea1, eb1, ea2, et1}
MCMethodOf == ea1 :> auto1 @@ eb1 :> auto1 @@ ea2 :> auto2 @@ et1 :> timer1
MCId == auto1 :> 1 @@ auto2 :> 2 @@ timer1 :> 2
MCPoolOf == auto1 :> pool1 @@ timer1 :> pool1 @@ auto2 :> pool2
MCTimerOf == auto1 :> timer1 @@ auto2 :> timer1
MCChunkOf == ea1 :> ea1 @@ eb1 :> eb1 @@ auto1 :> auto1 @@
             ea2 :> page1 @@ et1 :> page1 @@ auto2 :> page2 @@ timer1 :> page2

(* The two environments of the one method are alike.                       *)
MCSymmetry == Permutations({ea1, eb1})
==============================================================================
