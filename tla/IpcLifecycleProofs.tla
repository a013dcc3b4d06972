-------------------------- MODULE IpcLifecycleProofs --------------------------
(***************************************************************************)
(* Proofs about IpcLifecycle, for any number of installs and of commands,  *)
(* whichever calls of Ipc::Init may fail, and whether tasks free code or   *)
(* not.                                                                    *)
(***************************************************************************)
EXTENDS IpcLifecycle, TLAPS

USE LifecycleAssumption
USE DEF TypeOK, KernelType, HeldType, ThreadType, ClientType, SemaphoreSets,
        Created, objectVars, kernelVars, runnerVars, holdVars, installVars,
        gameVars, serverVars, heldVars, clientVars, otherVars, None, Bad

(***************************************************************************)
(* Initially.                                                              *)
(***************************************************************************)

LEMMA InitInv == Init => IInv
<1> SUFFICES ASSUME Init PROVE IInv
    OBVIOUS
<1>1. TypeOK
  <2>1. text \in [Objects -> 0..MaxSends]
      BY DEF Init
  <2>2. set \in [Objects -> SemaphoreSets]
      BY DEF Init
  <2>3. HeldType
      BY DEF Init
  <2>4. ThreadType
      BY DEF Init
  <2>5. ClientType
      BY DEF Init
  <2>6. QED
      BY <2>1, <2>2, <2>3, <2>4, <2>5 DEF Init
<1>2. Created /\ Paired /\ Counted
    BY DEF Init, SegmentsCreated, SetsCreated, Paired, Counted, There, Missing,
           Objects
<1>3. Threads /\ Installed /\ FirstObjects
    BY DEF Init, Threads, Installed, FirstObjects, Alive, Resting, Serving,
           Objects
<1>4. QED
    BY <1>1, <1>2, <1>3 DEF IInv

(***************************************************************************)
(* What shmget and semget do.                                              *)
(***************************************************************************)

(* There is room for the next object of each sort.                         *)
LEMMA Room ==
  ASSUME IInv
  PROVE  /\ segKey = None => nsegs + 1 \in Objects
         /\ setKey = None => nsets + 1 \in Objects
<1>1. TypeOK /\ Counted
    BY DEF IInv
<1>2. /\ segKey = None => nsegs <= MaxInstalls
      /\ setKey = None => nsets <= MaxInstalls
    BY <1>1 DEF Counted, Missing
<1>3. QED
    BY <1>1, <1>2 DEF Objects

LEMMA GetSegmentEffect ==
  ASSUME IInv, GetSegment
  PROVE  /\ segKey' \in Objects /\ nsegs' \in Nat
         /\ nsegs' = nsegs + Missing(segKey)
         /\ segKey' = IF segKey = None THEN nsegs' ELSE segKey
         /\ segKey' <= nsegs' /\ nsegs <= nsegs'
BY Room DEF GetSegment, IInv, SegmentsCreated, SetsCreated, Missing, Objects

LEMMA GetSetEffect ==
  ASSUME IInv, GetSet
  PROVE  /\ setKey' \in Objects /\ nsets' \in Nat
         /\ nsets' = nsets + Missing(setKey)
         /\ setKey' = IF setKey = None THEN nsets' ELSE setKey
         /\ setKey' <= nsets' /\ nsets <= nsets'
         /\ set' \in [Objects -> SemaphoreSets]
         /\ \A g \in Objects :
              /\ set'[g].v0 = set[g].v0 /\ set'[g].v1 = set[g].v1
              /\ set'[g].there <=> set[g].there \/ g = setKey'
<1>1. TypeOK /\ Created
    BY DEF IInv
<1>2. CASE setKey = None
  <2>1. nsets + 1 \in Objects
      BY <1>2, Room
  <2>2. set' = [set EXCEPT ![nsets + 1].there = TRUE]
      BY <1>2 DEF GetSet
  <2>3. set' = [set EXCEPT ![nsets + 1] = [@ EXCEPT !.there = TRUE]]
      BY <2>2
  <2>4. set' \in [Objects -> SemaphoreSets]
      BY <1>1, <2>1, <2>3
  <2>5. QED
      BY <1>1, <1>2, <2>1, <2>3, <2>4 DEF GetSet, Missing
<1>3. CASE setKey # None
    BY <1>1, <1>3 DEF GetSet, SegmentsCreated, SetsCreated, Missing, There
<1>4. QED
    BY <1>2, <1>3

(***************************************************************************)
(* Type correctness.                                                       *)
(***************************************************************************)

LEMMA KernelTypeStep == ASSUME IInv, Next PROVE KernelType'
<1>0. TypeOK /\ Created /\ Threads
    BY DEF IInv
<1>1. CASE InitObjects
  <2>1. CASE running
      BY <1>0, <1>1, <2>1 DEF InitObjects
  <2>2. CASE ~running
      BY <1>0, <1>1, <2>2, GetSegmentEffect, GetSetEffect DEF InitObjects
  <2>3. QED
      BY <2>1, <2>2
<1>2. ASSUME NEW call \in Failing, InitFails(call) PROVE KernelType'
    BY <1>0, <1>2, GetSegmentEffect, GetSetEffect DEF InitFails
<1>3. CASE SetVal0 \/ SetVal1
    BY <1>0, <1>3 DEF SetVal0, SetVal1
<1>4. CASE RemoveSegment
    BY <1>0, <1>4 DEF RemoveSegment
<1>5. CASE RemoveSet
  <2>1. ASSUME NEW r \in SemaphoreSets, NEW b
        PROVE  [r EXCEPT !.there = @ /\ b] \in SemaphoreSets
      OBVIOUS
  <2>2. QED
      BY <1>0, <1>5, <2>1 DEF RemoveSet
<1>6. CASE PickUp \/ Post
  <2>1. sem \in Objects
      BY <1>0, <1>6 DEF PickUp, Post, Threads, Alive, Resting
  <2>2. set[sem].v1 = IF rpc = "post" THEN 1 ELSE 0
      BY <1>0, <1>6 DEF PickUp, Post, Threads, Alive, Resting, Serving
  <2>3. rpc = "post" => set[sem].v0 = 0
      BY <1>0, <1>6 DEF PickUp, Post, Threads, Alive, Serving
  <2>4. CASE PickUp
      BY <1>0, <2>1, <2>2, <2>4 DEF PickUp
  <2>5. CASE Post
    <3>1. set' = [set EXCEPT ![sem] = [@ EXCEPT !.v0 = 1, !.v1 = 0]]
        BY <1>0, <2>1, <2>2, <2>3, <2>5 DEF Post
    <3>2. QED
        BY <1>0, <2>1, <2>5, <3>1 DEF Post
  <2>6. QED
      BY <1>6, <2>4, <2>5
<1>7. CASE Attach
    BY <1>0, <1>7, GetSegmentEffect DEF Attach
<1>8. CASE ClientGetSet
    BY <1>0, <1>8, GetSetEffect DEF ClientGetSet
<1>9. CASE Copy
    BY <1>0, <1>9 DEF Copy
<1>10. CASE Ring
  <2>1. cset \in Objects /\ set[cset].v0 = 1
      BY <1>0, <1>10 DEF Ring, SegmentsCreated, SetsCreated
  <2>2. set' = [set EXCEPT ![cset] = [@ EXCEPT !.v0 = 0]]
      BY <1>0, <1>10, <2>1 DEF Ring
  <2>3. QED
      BY <1>0, <1>10, <2>1, <2>2 DEF Ring
<1>11. CASE \/ Run \/ Timer \/ RunTask \/ Unlock
            \/ Uninstall \/ Exit \/ Check \/ Join
    BY <1>0, <1>11 DEF Run, Timer, RunTask, Unlock, Uninstall, Exit, Check, Join
<1>12. CASE \/ Loop \/ Dispatch \/ CallSync \/ Answer \/ AnswerTimeout
            \/ SemopFails \/ RingFails \/ Wait
    BY <1>0, <1>12 DEF Loop, Dispatch, CallSync, Answer, AnswerTimeout,
                       SemopFails, RingFails, Wait
<1>13. QED
    BY <1>1, <1>2, <1>3, <1>4, <1>6, <1>7, <1>8, <1>9, <1>10, <1>11, <1>12,
       <1>5
    DEF Next, GameStep, RunnerStep, ClientStep

LEMMA HeldTypeStep == ASSUME IInv, Next PROVE HeldType'
<1>0. TypeOK
    BY DEF IInv
<1>1. CASE InitObjects
    BY <1>0, <1>1, GetSegmentEffect, GetSetEffect DEF InitObjects
<1>2. ASSUME NEW call \in Failing, InitFails(call) PROVE HeldType'
    BY <1>0, <1>2, GetSegmentEffect, GetSetEffect DEF InitFails
<1>3. CASE Run \/ Check \/ Join
    BY <1>0, <1>3 DEF Run, Check, Join
<1>4. CASE RemoveSegment \/ RemoveSet
    BY <1>0, <1>4 DEF RemoveSegment, RemoveSet
<1>5. CASE \/ SetVal0 \/ SetVal1 \/ Timer \/ RunTask \/ Unlock
           \/ Uninstall \/ Exit \/ SemopFails
    BY <1>0, <1>5 DEF SetVal0, SetVal1, Timer, RunTask, Unlock, Uninstall,
                      Exit, SemopFails
<1>6. CASE \/ Loop \/ PickUp \/ Dispatch \/ CallSync \/ Answer \/ AnswerTimeout
           \/ Post \/ Attach \/ ClientStep
    BY <1>0, <1>6 DEF Loop, PickUp, Dispatch, CallSync, Answer, AnswerTimeout,
                      Post, Attach, ClientStep, ClientGetSet, Copy, Ring,
                      RingFails, Wait
<1>7. QED
    BY <1>1, <1>2, <1>3, <1>4, <1>5, <1>6 DEF Next, GameStep, RunnerStep

LEMMA ThreadTypeStep == ASSUME IInv, Next PROVE ThreadType'
<1>0. TypeOK
    BY DEF IInv
<1>1. CASE InitObjects
    BY <1>0, <1>1 DEF InitObjects
<1>2. CASE SetVal0 \/ SetVal1 \/ Run \/ Timer \/ Unlock
    BY <1>0, <1>2 DEF SetVal0, SetVal1, Run, Timer, Unlock
<1>3. ASSUME NEW call \in Failing, InitFails(call) PROVE ThreadType'
    BY <1>0, <1>3 DEF InitFails
<1>4. CASE RunTask
    BY <1>0, <1>4 DEF RunTask
<1>5. CASE Uninstall \/ Exit \/ RemoveSegment \/ RemoveSet \/ Check \/ Join
    BY <1>0, <1>5 DEF Uninstall, Exit, RemoveSegment, RemoveSet, Check, Join,
                      Done
<1>6. CASE Loop \/ PickUp \/ Dispatch \/ CallSync
    BY <1>0, <1>6 DEF Loop, PickUp, Dispatch, CallSync
<1>7. CASE Answer \/ AnswerTimeout \/ Post \/ SemopFails
    BY <1>0, <1>7 DEF Answer, AnswerTimeout, Post, SemopFails
<1>8. CASE Attach \/ ClientStep
    BY <1>0, <1>8 DEF Attach, ClientStep, ClientGetSet, Copy, Ring, RingFails,
                      Wait
<1>9. QED
    BY <1>1, <1>2, <1>3, <1>4, <1>5, <1>6, <1>7, <1>8
    DEF Next, GameStep, RunnerStep

LEMMA ClientTypeStep == ASSUME IInv, Next PROVE ClientType'
<1>0. TypeOK
    BY DEF IInv
<1>1. CASE Attach
    BY <1>0, <1>1, GetSegmentEffect DEF Attach
<1>2. CASE ClientGetSet
    BY <1>0, <1>2, GetSetEffect DEF ClientGetSet
<1>3. CASE Copy \/ Ring \/ RingFails \/ Wait
    BY <1>0, <1>3 DEF Copy, Ring, RingFails, Wait
<1>4. ASSUME GameStep \/ RunnerStep PROVE UNCHANGED clientVars
    BY <1>4 DEF GameStep, InitObjects, SetVal0, SetVal1, Run, InitFails, Timer,
                RunTask, Unlock, Uninstall, Exit, RemoveSegment, RemoveSet,
                Check, Join, RunnerStep, Loop, PickUp, Dispatch, CallSync,
                Answer, AnswerTimeout, Post, SemopFails
<1>5. QED
    BY <1>0, <1>1, <1>2, <1>3, <1>4 DEF Next, ClientStep

(***************************************************************************)
(* The objects: what is kept, in pairs, and how many there are.            *)
(***************************************************************************)

LEMMA CreatedStep == ASSUME IInv, Next PROVE Created'
<1> USE DEF SegmentsCreated, SetsCreated, There
<1>0. TypeOK /\ Created
    BY DEF IInv
<1>1. CASE InitObjects
  <2>1. CASE running
      BY <1>0, <1>1, <2>1 DEF InitObjects
  <2>2. CASE ~running
    <3>1. GetSegment /\ GetSet
        BY <1>1, <2>2 DEF InitObjects
    <3>2. SegmentsCreated'
        BY <1>0, <1>1, <2>2, <3>1, GetSegmentEffect DEF InitObjects, Objects
    <3>3. SetsCreated'
        BY <1>0, <1>1, <2>2, <3>1, GetSetEffect DEF InitObjects, Objects
    <3>4. QED
        BY <3>2, <3>3
  <2>3. QED
      BY <2>1, <2>2
<1>2. ASSUME NEW call \in Failing, InitFails(call) PROVE Created'
  <2>1. SegmentsCreated'
      BY <1>0, <1>2, GetSegmentEffect DEF InitFails, Objects
  <2>2. SetsCreated'
    <3>0. UNCHANGED <<cpc, cset>>
        BY <1>2 DEF InitFails
    <3>1. CASE GetSet /\ sem' = setKey'
        BY <1>0, <3>0, <3>1, GetSetEffect DEF Objects
    <3>2. CASE UNCHANGED <<setKey, nsets, set>> /\ sem' \in {None, sem}
        BY <1>0, <3>0, <3>2 DEF Objects
    <3>3. QED
        BY <1>2, <3>1, <3>2 DEF InitFails
  <2>3. QED
      BY <2>1, <2>2
<1>3. CASE SetVal0 \/ SetVal1 \/ Run \/ Timer \/ RunTask \/ Unlock
    BY <1>0, <1>3 DEF SetVal0, SetVal1, Run, Timer, RunTask, Unlock
<1>4. CASE Uninstall \/ Exit \/ RemoveSegment \/ RemoveSet \/ Check \/ Join
    BY <1>0, <1>4 DEF Uninstall, Exit, RemoveSegment, RemoveSet, Check, Join
<1>5. CASE Loop \/ PickUp \/ Dispatch \/ CallSync
    BY <1>0, <1>5 DEF Loop, PickUp, Dispatch, CallSync
<1>6. CASE Answer \/ AnswerTimeout \/ Post \/ SemopFails
    BY <1>0, <1>6 DEF Answer, AnswerTimeout, Post, SemopFails
<1>7. CASE Attach
  <2>1. SegmentsCreated'
      BY <1>0, <1>7, GetSegmentEffect DEF Attach, Objects
  <2>2. SetsCreated'
      BY <1>0, <1>7 DEF Attach
  <2>3. QED
      BY <2>1, <2>2
<1>8. CASE ClientGetSet
  <2>1. SegmentsCreated'
      BY <1>0, <1>8 DEF ClientGetSet
  <2>2. SetsCreated'
      BY <1>0, <1>8, GetSetEffect DEF ClientGetSet, Objects
  <2>3. QED
      BY <2>1, <2>2
<1>9. CASE Copy \/ Ring \/ RingFails \/ Wait
    BY <1>0, <1>9 DEF Copy, Ring, RingFails, Wait
<1>10. QED
    BY <1>1, <1>2, <1>3, <1>4, <1>5, <1>6, <1>7, <1>8, <1>9
    DEF Next, GameStep, RunnerStep, ClientStep

LEMMA PairedStep == ASSUME IInv, Next PROVE Paired'
<1> USE DEF Paired, There
<1>0. TypeOK /\ Created /\ Paired
    BY DEF IInv
<1>1. CASE InitObjects
  <2>1. CASE running
      BY <1>0, <1>1, <2>1 DEF InitObjects
  <2>2. CASE ~running
      BY <1>0, <1>1, <2>2, GetSetEffect DEF InitObjects
  <2>3. QED
      BY <2>1, <2>2
<1>2. ASSUME NEW call \in Failing, InitFails(call) PROVE Paired'
    BY <1>0, <1>2, GetSetEffect DEF InitFails
<1>3. CASE SetVal0 \/ SetVal1 \/ Run \/ Timer \/ RunTask \/ Unlock
    BY <1>0, <1>3 DEF SetVal0, SetVal1, Run, Timer, RunTask, Unlock
<1>4. CASE Uninstall \/ Exit \/ RemoveSegment \/ RemoveSet \/ Check \/ Join
    BY <1>0, <1>4 DEF Uninstall, Exit, RemoveSegment, RemoveSet, Check, Join,
                      Done
<1>5. CASE Loop \/ PickUp \/ Dispatch \/ CallSync
    BY <1>0, <1>5 DEF Loop, PickUp, Dispatch, CallSync
<1>6. CASE Answer \/ AnswerTimeout \/ Post \/ SemopFails
    BY <1>0, <1>6 DEF Answer, AnswerTimeout, Post, SemopFails
<1>7. CASE Attach
    BY <1>0, <1>7, GetSegmentEffect DEF Attach, SegmentsCreated, Missing,
                                        Objects
<1>8. CASE ClientGetSet
    BY <1>0, <1>8, GetSetEffect DEF ClientGetSet
<1>9. CASE Copy \/ Ring \/ RingFails \/ Wait
    BY <1>0, <1>9 DEF Copy, Ring, RingFails, Wait
<1>10. QED
    BY <1>1, <1>2, <1>3, <1>4, <1>5, <1>6, <1>7, <1>8, <1>9
    DEF Next, GameStep, RunnerStep, ClientStep

LEMMA CountedStep == ASSUME IInv, Next PROVE Counted'
<1> USE DEF Counted, There, Missing
<1>0. TypeOK /\ Created /\ Paired /\ Counted
    BY DEF IInv
<1>1. CASE InitObjects
  <2>1. CASE running
      BY <1>0, <1>1, <2>1 DEF InitObjects
  <2>2. CASE ~running
      BY <1>0, <1>1, <2>2, GetSegmentEffect, GetSetEffect
      DEF InitObjects, Objects
  <2>3. QED
      BY <2>1, <2>2
<1>2. ASSUME NEW call \in Failing, InitFails(call) PROVE Counted'
  <2>1. removes' = removes /\ removes < MaxInstalls /\ gpc = "out" /\ gpc' = gpc
      BY <1>2 DEF InitFails
  <2>2. \/ setKey' = setKey /\ nsets' = nsets
        \/ setKey' # None /\ nsets' = nsets + Missing(setKey)
      BY <1>2, GetSetEffect DEF InitFails, Objects
  <2>3. \/ segKey' = segKey /\ nsegs' = nsegs
        \/ segKey' # None /\ nsegs' = nsegs + Missing(segKey)
      BY <1>2, GetSegmentEffect DEF InitFails, Objects
  <2>4. QED
      BY <1>0, <2>1, <2>2, <2>3
<1>3. CASE SetVal0 \/ SetVal1 \/ Run \/ Timer \/ RunTask \/ Unlock
    BY <1>0, <1>3 DEF SetVal0, SetVal1, Run, Timer, RunTask, Unlock
<1>4. CASE Uninstall \/ Exit \/ Check \/ Join
    BY <1>0, <1>4 DEF Uninstall, Exit, Check, Join, Done
<1>5. CASE RemoveSegment
    BY <1>0, <1>5 DEF RemoveSegment, Paired
<1>6. CASE RemoveSet
  <2>1. /\ removes' = IF There(sem) THEN removes + 1 ELSE removes
        /\ ~(sem # None /\ set'[sem].there)
    <3>1. sem # None => (set' # set <=> set[sem].there)
        BY <1>0, <1>6 DEF RemoveSet
    <3>2. sem = None => set' = set
      <4> SUFFICES ASSUME sem = None PROVE set' = set
          OBVIOUS
      <4>1. ASSUME NEW r \in SemaphoreSets, NEW b, b
            PROVE  [r EXCEPT !.there = @ /\ b] = r
          BY <4>1
      <4>2. \A g \in Objects : g # sem
          BY DEF Objects
      <4>3. \A g \in Objects : set'[g] = set[g]
          BY <1>0, <1>6, <4>1, <4>2 DEF RemoveSet
      <4>4. QED
          BY <1>0, <1>6, <4>3 DEF RemoveSet
    <3>3. sem # None => ~set'[sem].there
        BY <1>0, <1>6 DEF RemoveSet
    <3>4. QED
        BY <1>6, <3>1, <3>2, <3>3 DEF RemoveSet
  <2>2. setKey' = None => setKey = None \/ There(sem)
      BY <1>0, <1>6 DEF RemoveSet, SetsCreated
  <2>3. ~(shmid # None /\ segKey = shmid)
      BY <1>0, <1>6 DEF RemoveSet, Paired
  <2>4. QED
      BY <1>0, <1>6, <2>1, <2>2, <2>3 DEF RemoveSet
<1>7. CASE \/ Loop \/ PickUp \/ Dispatch \/ CallSync
           \/ Answer \/ AnswerTimeout \/ Post \/ SemopFails
    BY <1>0, <1>7 DEF Loop, PickUp, Dispatch, CallSync, Answer, AnswerTimeout,
                      Post, SemopFails
<1>8. CASE Attach
    BY <1>0, <1>8, GetSegmentEffect DEF Attach, SegmentsCreated, Objects
<1>9. CASE ClientGetSet
  <2>1. \/ setKey' = setKey /\ nsets' = nsets
        \/ setKey' # None /\ nsets' = nsets + Missing(setKey)
      BY <1>9, GetSetEffect DEF ClientGetSet, Objects
  <2>2. sem # None => (set'[sem].there <=> set[sem].there)
    <3>1. CASE UNCHANGED set
        BY <3>1
    <3>2. CASE setKey = None /\ GetSet
        BY <1>0, <3>2, GetSetEffect DEF SetsCreated, Objects
    <3>3. CASE setKey # None /\ GetSet
        BY <3>3 DEF GetSet
    <3>4. QED
        BY <1>9, <3>1, <3>2, <3>3 DEF ClientGetSet
  <2>3. QED
      BY <1>0, <1>9, <2>1, <2>2 DEF ClientGetSet
<1>10. CASE Copy \/ Ring \/ RingFails \/ Wait
    BY <1>0, <1>10 DEF Copy, Ring, RingFails, Wait
<1>11. QED
    BY <1>1, <1>2, <1>3, <1>4, <1>5, <1>6, <1>7, <1>8, <1>9, <1>10
    DEF Next, GameStep, RunnerStep, ClientStep

(***************************************************************************)
(* The threads, and what is installed.                                     *)
(***************************************************************************)

LEMMA ThreadsStep == ASSUME IInv, Next PROVE Threads'
<1> USE DEF Threads, Alive, Resting, Serving
<1>0. TypeOK /\ Created /\ Threads /\ Installed
    BY DEF IInv
<1>1. CASE InitObjects
    BY <1>0, <1>1, GetSetEffect DEF InitObjects
<1>2. ASSUME NEW call \in Failing, InitFails(call) PROVE Threads'
    BY <1>0, <1>2, GetSetEffect DEF InitFails
<1>3. CASE SetVal0
    BY <1>0, <1>3 DEF SetVal0
<1>4. CASE Run
    BY <1>0, <1>4 DEF Run, Installed, Reachable, Objects
<1>5. CASE SetVal1
    BY <1>0, <1>5 DEF SetVal1, Installed, Reachable, Objects
<1>6. CASE Timer \/ RunTask \/ Unlock
    BY <1>0, <1>6 DEF Timer, RunTask, Unlock
<1>7. CASE Uninstall \/ Exit \/ RemoveSegment
    BY <1>0, <1>7 DEF Uninstall, Exit, RemoveSegment
<1>8. CASE RemoveSet
    BY <1>0, <1>8 DEF RemoveSet
<1>9. CASE Check \/ Join
    BY <1>0, <1>9 DEF Check, Join, Done
<1>10. CASE Loop \/ PickUp \/ Dispatch \/ CallSync
    BY <1>0, <1>10 DEF Loop, PickUp, Dispatch, CallSync
<1>11. CASE Answer \/ AnswerTimeout \/ Post \/ SemopFails
    BY <1>0, <1>11 DEF Answer, AnswerTimeout, Post, SemopFails
<1>12. CASE Attach
    BY <1>0, <1>12 DEF Attach
<1>13. CASE ClientGetSet
  <2>1. \A g \in Objects : set'[g].v0 = set[g].v0 /\ set'[g].v1 = set[g].v1
      BY <1>13, GetSetEffect DEF ClientGetSet
  <2>2. gpc \in {"setval0", "setval1", "run"} => sem \in Objects
      BY <1>0 DEF Installed, Reachable
  <2>3. QED
      BY <1>0, <1>13, <2>1, <2>2 DEF ClientGetSet
<1>14. CASE Copy \/ RingFails \/ Wait
    BY <1>0, <1>14 DEF Copy, RingFails, Wait
<1>15. CASE Ring
    BY <1>0, <1>15 DEF Ring
<1>16. QED
    BY <1>1, <1>2, <1>3, <1>6, <1>7, <1>8, <1>9, <1>10, <1>11, <1>12, <1>13,
       <1>14, <1>15, <1>5, <1>4
    DEF Next, GameStep, RunnerStep, ClientStep

LEMMA InstalledStep == ASSUME IInv, Next PROVE Installed'
<1> USE DEF Installed, Reachable, InitFailed
<1>0. TypeOK /\ Created /\ Threads /\ Installed
    BY DEF IInv
<1>1. CASE InitObjects
    BY <1>0, <1>1, Room DEF InitObjects, GetSegment, GetSet, Objects
<1>2. ASSUME NEW call \in Failing, InitFails(call) PROVE Installed'
    BY <1>0, <1>2 DEF InitFails
<1>3. CASE SetVal0 \/ SetVal1 \/ Run
    BY <1>0, <1>3 DEF SetVal0, SetVal1, Run
<1>4. CASE Timer \/ RunTask \/ Unlock
    BY <1>0, <1>4 DEF Timer, RunTask, Unlock
<1>5. CASE Uninstall \/ Exit \/ RemoveSegment \/ RemoveSet
    BY <1>0, <1>5 DEF Uninstall, Exit, RemoveSegment, RemoveSet
<1>6. CASE Check \/ Join
    BY <1>0, <1>6 DEF Check, Join, Done, Threads, Alive
<1>7. CASE \/ Loop \/ PickUp \/ Dispatch \/ CallSync
           \/ Answer \/ AnswerTimeout \/ Post
    BY <1>0, <1>7 DEF Loop, PickUp, Dispatch, CallSync, Answer, AnswerTimeout,
                      Post
<1>8. CASE SemopFails
    BY <1>0, <1>8 DEF SemopFails, Threads, Alive, Resting, SegmentsCreated,
                      SetsCreated, There
<1>9. CASE Attach
    BY <1>0, <1>9 DEF Attach, GetSegment
<1>10. CASE ClientGetSet
    BY <1>0, <1>10 DEF ClientGetSet, GetSet
<1>11. CASE Copy \/ Ring \/ RingFails \/ Wait
    BY <1>0, <1>11 DEF Copy, Ring, RingFails, Wait
<1>12. QED
    BY <1>1, <1>2, <1>3, <1>4, <1>5, <1>6, <1>7, <1>8, <1>9, <1>10, <1>11
    DEF Next, GameStep, RunnerStep, ClientStep

LEMMA FirstObjectsStep == ASSUME IInv, Next PROVE FirstObjects'
<1> USE DEF FirstObjects
<1>0. TypeOK /\ Created /\ FirstObjects
    BY DEF IInv
<1>1. CASE InitObjects
    BY <1>0, <1>1, Room DEF InitObjects, GetSegment, GetSet, Objects
<1>2. ASSUME NEW call \in Failing, InitFails(call) PROVE FirstObjects'
    BY <1>0, <1>2, GetSegmentEffect, GetSetEffect DEF InitFails, Objects
<1>3. CASE SetVal0 \/ SetVal1 \/ Run \/ Timer \/ RunTask \/ Unlock
    BY <1>0, <1>3 DEF SetVal0, SetVal1, Run, Timer, RunTask, Unlock
<1>4. CASE Uninstall \/ Exit \/ Check \/ Join
    BY <1>0, <1>4 DEF Uninstall, Exit, Check, Join, Done
<1>5. CASE RemoveSegment
    BY <1>0, <1>5 DEF RemoveSegment, Objects
<1>6. CASE RemoveSet
  <2>1. ASSUME removes' = 0 PROVE removes = 0 /\ sem = None
    <3>1. removes = 0 /\ set' = set
        BY <1>0, <1>6, <2>1 DEF RemoveSet
    <3>2. sem # None => setKey = sem /\ set[sem].there
        BY <1>0, <3>1 DEF SetsCreated, There
    <3>3. sem # None => set'[sem].there = FALSE
        BY <1>0, <1>6 DEF RemoveSet
    <3>4. QED
        BY <3>1, <3>2, <3>3
  <2>2. QED
      BY <1>0, <1>6, <2>1 DEF RemoveSet, Objects
<1>7. CASE \/ Loop \/ PickUp \/ Dispatch \/ CallSync
           \/ Answer \/ AnswerTimeout \/ Post \/ SemopFails
    BY <1>0, <1>7 DEF Loop, PickUp, Dispatch, CallSync, Answer, AnswerTimeout,
                      Post, SemopFails
<1>8. CASE Attach
    BY <1>0, <1>8, GetSegmentEffect DEF Attach, Objects
<1>9. CASE ClientGetSet
    BY <1>0, <1>9, GetSetEffect DEF ClientGetSet, Objects
<1>10. CASE Copy \/ Ring \/ RingFails \/ Wait
    BY <1>0, <1>10 DEF Copy, Ring, RingFails, Wait
<1>11. QED
    BY <1>1, <1>2, <1>3, <1>4, <1>5, <1>6, <1>7, <1>8, <1>9, <1>10
    DEF Next, GameStep, RunnerStep, ClientStep

(***************************************************************************)
(* The theorems.                                                           *)
(***************************************************************************)

(* The inductive invariant: the objects are kept in pairs and counted, the *)
(* runner's place follows from m_running and the semaphores, and what is   *)
(* installed is under the key (ipc.cpp:131-190, darkorbit.cpp:425-451).    *)
THEOREM Inductive == Spec => []IInv
<1>1. Init => IInv
    BY InitInv
<1>2. IInv /\ [Next]_vars => IInv'
  <2> SUFFICES ASSUME IInv, [Next]_vars PROVE IInv'
      OBVIOUS
  <2>1. CASE Next
      BY <2>1, KernelTypeStep, HeldTypeStep, ThreadTypeStep, ClientTypeStep,
         CreatedStep, PairedStep, CountedStep, ThreadsStep, InstalledStep,
         FirstObjectsStep
      DEF IInv
  <2>2. CASE UNCHANGED vars
      BY <2>2 DEF vars, IInv, SegmentsCreated, SetsCreated, Paired, Counted,
                  There, Missing, Threads, Alive, Resting, Serving, Installed,
                  Reachable, InitFailed, FirstObjects
  <2>3. QED
      BY <2>1, <2>2
<1>3. QED
    BY <1>1, <1>2, PTL DEF Spec

(* After uninstall the runner is done with the segment, the queue and the  *)
(* memory of the process, joined or not (darkorbit.cpp:451, ipc.cpp:178-187). *)
THEOREM QuietAfterUninstall == Spec => []RunnerQuiet
<1>1. IInv => RunnerQuiet
    BY DEF IInv, Installed, Threads, Alive, Resting, RunnerQuiet
<1>2. QED
    BY <1>1, Inductive, PTL

(* An installed server waits on the objects a new client finds, after any  *)
(* number of installs, failed ones too, and of removals                    *)
(* (darkorbit.cpp:425-434, ipc.cpp:135-153).                               *)
THEOREM InstalledIsReached == Spec => []InstalledServes
<1>1. IInv => InstalledServes
  <2> SUFFICES ASSUME IInv, gpc = "out", installed PROVE InstalledServes
      BY DEF InstalledServes
  <2>1. CASE running
      BY <2>1 DEF IInv, Installed, Reachable, Threads, Alive, Resting,
                  SegmentsCreated, SetsCreated, There, InstalledServes
  <2>2. CASE ~running
      BY <2>2 DEF IInv, Installed, InstalledServes
  <2>3. QED
      BY <2>1, <2>2
<1>2. QED
    BY <1>1, Inductive, PTL

(* Before the first removal client and server have found the same segment  *)
(* and the same set, whichever of them created it (ipc.cpp:135-141,        *)
(* bot_client.cpp:289-307).                                                *)
THEOREM FirstMeeting == Spec => []MeetFirst
<1>1. IInv => MeetFirst
    BY DEF IInv, FirstObjects, MeetFirst
<1>2. QED
    BY <1>1, Inductive, PTL

================================================================================
