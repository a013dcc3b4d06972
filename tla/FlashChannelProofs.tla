-------------------------- MODULE FlashChannelProofs --------------------------
(***************************************************************************)
(* Proofs about FlashChannel, for every set of callers, every set of       *)
(* message types and every number of commands.                             *)
(***************************************************************************)
EXTENDS FlashChannel, SequenceTheorems, TLAPS

USE KindsAssumption, BoundAssumption, CallersAssumption

(***************************************************************************)
(* Type correctness.                                                       *)
(***************************************************************************)

LEMMA BlankType == Blank \in Requests
BY DEF Blank, Requests, AllKinds

LEMMA TypeInit == Init => TypeOK
<1> SUFFICES ASSUME Init PROVE TypeOK
    OBVIOUS
<1>1. [of |-> Blank, how |-> "request"] \in Answers
      /\ [of |-> Blank, how |-> "unread"] \in Answers
    BY BlankType DEF Answers
<1>2. shm \in [type : AllKinds \cup {"RESULT"}, args : Requests, ans : Answers]
    BY <1>1, BlankType DEF Init, AllKinds
<1>3. /\ job \in [kind : AllKinds, args : Requests]
      /\ promise \in [id : Nat, ready : BOOLEAN, of : Requests]
    BY BlankType DEF Init, NoJob, NoPromise, AllKinds
<1>4. /\ cur \in [Callers -> Requests]
      /\ got \in [Callers -> Answers]
    BY <1>1, BlankType DEF Init
<1>5. /\ queue \in Seq(Tasks)
      /\ log \in Seq([id : Nat, kind : AllKinds, took : Requests, used : Requests])
    BY DEF Init
<1>6. QED
    BY <1>2, <1>3, <1>4, <1>5 DEF Init, TypeOK

LEMMA BeginSendType ==
  ASSUME TypeOK, NEW c \in Callers, BeginSend(c)
  PROVE  TypeOK'
<1>1. PICK k \in Kinds, bad \in BOOLEAN :
        LET r == [n |-> nsent + 1, kind |-> k, bad |-> bad] IN
        /\ cur' = [cur EXCEPT ![c] = r]
        /\ got' = [got EXCEPT ![c] = [of |-> r, how |-> "unread"]]
    BY DEF BeginSend
<1> DEFINE r == [n |-> nsent + 1, kind |-> k, bad |-> bad]
<1>2. nsent + 1 \in 0..MaxSends
    BY DEF BeginSend, TypeOK
<1>3. r \in Requests
    BY <1>2 DEF Requests
<1>4. [of |-> r, how |-> "unread"] \in Answers
    BY <1>3 DEF Answers
<1>5. cur' \in [Callers -> Requests] /\ got' \in [Callers -> Answers]
    BY <1>1, <1>3, <1>4 DEF TypeOK
<1>6. QED
    BY <1>2, <1>5 DEF BeginSend, Goto, TypeOK, runnerVars, gameVars

LEMMA CallerStepType ==
  ASSUME TypeOK, NEW c \in Callers, CallerStep(c)
  PROVE  TypeOK'
<1>1. CASE Copy(c)
  <2>1. PICK part \in todo[c] :
          /\ shm' = IF part = "type"
                    THEN [shm EXCEPT !.type = cur[c].kind]
                    ELSE [shm EXCEPT !.args = cur[c],
                                  !.ans = [of |-> cur[c], how |-> "request"]]
          /\ todo' = [todo EXCEPT ![c] = @ \ {part}]
      BY <1>1 DEF Copy
  <2>2. [of |-> cur[c], how |-> "request"] \in Answers
      BY DEF TypeOK, Answers
  <2>3. shm' \in [type : AllKinds \cup {"RESULT"}, args : Requests, ans : Answers]
      BY <2>1, <2>2 DEF TypeOK, Requests
  <2>4. QED
      BY <1>1, <2>1, <2>3 DEF Copy, Goto, TypeOK, runnerVars, gameVars
<1>2. CASE Ring(c)
    BY <1>2 DEF Ring, Goto, TypeOK, runnerVars, gameVars
<1>3. CASE RingTimeout(c)
    BY <1>3 DEF RingTimeout, Goto, TypeOK, runnerVars, gameVars
<1>4. CASE WaitDone(c)
    BY <1>4 DEF WaitDone, Goto, TypeOK, runnerVars, gameVars
<1>5. CASE WaitTimeout(c)
    BY <1>5 DEF WaitTimeout, Goto, TypeOK, runnerVars, gameVars
<1>6. CASE Take(c)
    BY <1>6 DEF Take, Goto, TypeOK, runnerVars, gameVars
<1>7. QED
    BY <1>1, <1>2, <1>3, <1>4, <1>5, <1>6 DEF CallerStep

LEMMA OverwrittenType ==
  ASSUME NEW a \in Requests
  PROVE  /\ UnderErrorFlag(a) \in Requests
         /\ \A b \in UnderValue(a) : b \in Requests
<1>1. 0 \in 0..MaxSends
    BY BoundAssumption
<1>2. UnderErrorFlag(a) \in Requests
    BY <1>1 DEF UnderErrorFlag, Requests
<1>3. ASSUME NEW b \in UnderValue(a) PROVE b \in Requests
  <2>1. PICK null \in BOOLEAN : b = [a EXCEPT !.n = 0, !.bad = null]
      BY <1>3 DEF UnderValue, Requests
  <2>2. QED
      BY <1>1, <2>1 DEF Requests
<1>4. QED
    BY <1>2, <1>3

LEMMA RunnerStepType ==
  ASSUME TypeOK, Handover, RunnerStep
  PROVE  TypeOK'
<1> USE DEF TypeOK
<1>a. \A a \in Requests : /\ [of |-> a, how |-> "error"] \in Answers
                          /\ [of |-> a, how |-> "value"] \in Answers
    BY DEF Answers
<1>1. CASE PickUp
    BY <1>1 DEF PickUp, Handover, ServerOwnsSegment, callerVars, gameVars
<1>2. CASE Dispatch
  <2>1. shm.args \in Requests /\ shm.args.n \in 0..MaxSends
      BY DEF Requests
  <2>2. handled' \in [0..MaxSends -> Nat]
      BY <1>2, <2>1 DEF Dispatch
  <2>3. shm' \in [type : AllKinds \cup {"RESULT"}, args : Requests, ans : Answers]
    <3>1. CASE shm' = [type |-> "RESULT", args |-> UnderErrorFlag(shm.args),
                       ans |-> [of |-> shm.args, how |-> "error"]]
        BY <3>1, <1>a, <2>1, OverwrittenType
    <3>2. CASE UNCHANGED shm
        BY <3>2
    <3>3. QED
        BY <1>2, <3>1, <3>2 DEF Dispatch
  <2>4. job' \in [kind : AllKinds, args : Requests]
      BY <1>2, <2>1 DEF Dispatch
  <2>5. QED
      BY <1>2, <2>2, <2>3, <2>4 DEF Dispatch, callerVars, gameVars
<1>3. CASE CallSync
  <2>1. [id |-> ntasks + 1, kind |-> job.kind, args |-> job.args] \in Tasks
      BY DEF Tasks
  <2>2. queue' \in Seq(Tasks)
      BY <1>3, <2>1, AppendProperties DEF CallSync
  <2>3. promise' \in [id : Nat, ready : BOOLEAN, of : Requests]
      BY <1>3, BlankType DEF CallSync
  <2>4. QED
      BY <1>3, <2>2, <2>3 DEF CallSync, callerVars, gameVars
<1>4. CASE Answer
  <2>1. promise' \in [id : Nat, ready : BOOLEAN, of : Requests]
      BY <1>4, BlankType DEF Answer, NoPromise
  <2>2. shm' \in [type : AllKinds \cup {"RESULT"}, args : Requests, ans : Answers]
    <3> DEFINE answer == [of |-> promise.of, how |-> "value"]
    <3>1. answer \in Answers
        BY <1>a
    <3>2. CASE job.kind = "CALL"
      <4>1. PICK a \in UnderValue(shm.args) :
              shm' = [type |-> "RESULT", args |-> a, ans |-> answer]
          BY <1>4, <3>2 DEF Answer
      <4>2. a \in Requests
          BY OverwrittenType
      <4>3. QED
          BY <3>1, <4>1, <4>2
    <3>3. CASE job.kind = "CHECK_SIGNATURE"
      <4>1. shm' = [shm EXCEPT !.ans = answer]
          BY <1>4, <3>3 DEF Answer
      <4>2. QED
          BY <3>1, <4>1
    <3>4. CASE job.kind \notin Answered
        BY <1>4, <3>4 DEF Answer, Answered
    <3>5. QED
        BY <3>2, <3>3, <3>4 DEF Answered
  <2>3. QED
      BY <1>4, <2>1, <2>2 DEF Answer, callerVars, gameVars
<1>5. CASE AnswerTimeout
  <2>1. promise' \in [id : Nat, ready : BOOLEAN, of : Requests]
      BY <1>5, BlankType DEF AnswerTimeout, NoPromise
  <2>2. shm' \in [type : AllKinds \cup {"RESULT"}, args : Requests, ans : Answers]
    <3> DEFINE answer == [of |-> job.args, how |-> "error"]
    <3>1. answer \in Answers
        BY <1>a
    <3>2. \/ shm' = [shm EXCEPT !.ans = answer]
          \/ shm' = [type |-> "RESULT", args |-> UnderErrorFlag(shm.args),
                     ans |-> answer]
        BY <1>5 DEF AnswerTimeout
    <3>3. UnderErrorFlag(shm.args) \in Requests
        BY OverwrittenType
    <3>4. CASE shm' = [shm EXCEPT !.ans = answer]
        BY <3>1, <3>4
    <3>5. CASE shm' = [type |-> "RESULT", args |-> UnderErrorFlag(shm.args),
                       ans |-> answer]
        BY <3>1, <3>3, <3>5
    <3>6. QED
        BY <3>2, <3>4, <3>5
  <2>3. QED
      BY <1>5, <2>1, <2>2 DEF AnswerTimeout, callerVars, gameVars
<1>6. CASE Post
  <2>1. sem1 = 1 /\ sem0 = 0
      BY <1>6 DEF Post, Handover, ServerOwnsSegment
  <2>2. job' \in [kind : AllKinds, args : Requests]
      BY <1>6, BlankType DEF Post, NoJob, AllKinds
  <2>3. QED
      BY <1>6, <2>1, <2>2 DEF Post, callerVars, gameVars
<1>7. QED
    BY <1>1, <1>2, <1>3, <1>4, <1>5, <1>6 DEF RunnerStep

LEMMA GameStepType ==
  ASSUME TypeOK, Handover, GameStep
  PROVE  TypeOK'
<1> USE DEF TypeOK
<1>1. CASE InitSem0
    BY <1>1 DEF InitSem0, callerVars, runnerVars
<1>2. CASE InitSem1
    BY <1>2 DEF InitSem1, callerVars, runnerVars
<1>3. CASE Run
    BY <1>3 DEF Run, callerVars
<1>4. CASE Timer
    BY <1>4 DEF Timer, callerVars, runnerVars
<1>5. CASE RunTask
  <2>1. queue[gi] \in Tasks
      BY <1>5 DEF RunTask
  <2>2. Used(queue[gi]) \in Requests
      BY <2>1 DEF Used, Tasks
  <2>3. promise' \in [id : Nat, ready : BOOLEAN, of : Requests]
      BY <1>5, <2>2 DEF RunTask, Fulfil
  <2>4. log' \in Seq([id : Nat, kind : AllKinds, took : Requests, used : Requests])
    <3> DEFINE Entries == [id : Nat, kind : AllKinds, took : Requests, used : Requests]
               entry == [id |-> queue[gi].id, kind |-> queue[gi].kind,
                         took |-> queue[gi].args, used |-> Used(queue[gi])]
    <3>1. entry \in Entries
        BY <2>1, <2>2 DEF Tasks
    <3>2. log \in Seq(Entries) /\ log' = Append(log, entry)
        BY <1>5 DEF RunTask
    <3> HIDE DEF Entries, entry
    <3>3. log' \in Seq(Entries)
        BY <3>1, <3>2, AppendProperties
    <3>4. QED
        BY <3>3 DEF Entries
  <2>5. QED
      BY <1>5, <2>3, <2>4 DEF RunTask, callerVars, runnerVars
<1>6. CASE Unlock
    BY <1>6 DEF Unlock, callerVars, runnerVars
<1>7. QED
    BY <1>1, <1>2, <1>3, <1>4, <1>5, <1>6 DEF GameStep

(***************************************************************************)
(* The handover of the segment.                                            *)
(***************************************************************************)

LEMMA HandoverInit == Init => Handover
BY DEF Init, Handover, ServerOwnsSegment

LEMMA HandoverStep ==
  ASSUME TypeOK, Handover, [Next]_vars
  PROVE  Handover'
<1> USE DEF TypeOK, Handover, ServerOwnsSegment
<1>1. ASSUME NEW c \in Callers, BeginSend(c) PROVE Handover'
    BY <1>1 DEF BeginSend, runnerVars, gameVars
<1>2. ASSUME NEW c \in Callers, CallerStep(c) PROVE Handover'
  <2>1. UNCHANGED <<rpc, gpc, sem1>> /\ sem0' \in 0..sem0
      BY <1>2 DEF CallerStep, Copy, Ring, RingTimeout, WaitDone, WaitTimeout,
                  Take, runnerVars, gameVars
  <2>2. QED
      BY <2>1
<1>3. CASE RunnerStep
    BY <1>3 DEF RunnerStep, PickUp, Dispatch, CallSync, Answer, AnswerTimeout,
                Post, gameVars
<1>4. CASE GameStep
    BY <1>4 DEF GameStep, InitSem0, InitSem1, Run, Timer, RunTask, Unlock,
                runnerVars
<1>5. CASE UNCHANGED vars
    BY <1>5 DEF vars, runnerVars, gameVars
<1>6. QED
    BY <1>1, <1>2, <1>3, <1>4, <1>5 DEF Next

LEMMA TypeStep ==
  ASSUME TypeOK, Handover, [Next]_vars
  PROVE  TypeOK'
<1>1. CASE UNCHANGED vars
    BY <1>1 DEF vars, callerVars, runnerVars, gameVars, TypeOK
<1>2. QED
    BY <1>1, BeginSendType, CallerStepType, RunnerStepType, GameStepType DEF Next

(* The variables of FlashChannel keep their types, and only the holder of  *)
(* semaphore 1 has the segment (ipc.cpp:365-389).                          *)
THEOREM TypeCorrect == Spec => [](TypeOK /\ Handover)
<1>1. Init => TypeOK /\ Handover
    BY TypeInit, HandoverInit
<1>2. TypeOK /\ Handover /\ [Next]_vars => (TypeOK /\ Handover)'
    BY TypeStep, HandoverStep
<1>3. QED
    BY <1>1, <1>2, PTL DEF Spec

(* The server owns the segment from its pick-up to its second semop.       *)
THEOREM Ownership == Spec => []ServerOwnsSegment
<1>1. TypeOK /\ Handover => ServerOwnsSegment
    BY DEF Handover
<1>2. QED
    BY <1>1, TypeCorrect, PTL

(***************************************************************************)
(* The semaphores implement the bell: every step is a step of Doorbell, or *)
(* leaves its phase as it is.                                              *)
(***************************************************************************)

(* No ring is lost, doubled or begun before the previous one was served.   *)
THEOREM BellImplemented == Spec => BellSafety
<1> DEFINE phase == CASE gpc = "init0"                          -> "off"
             [] gpc # "init0" /\ sem0 = 1              -> "idle"
             [] gpc # "init0" /\ sem0 # 1 /\ sem1 = 0  -> "rung"
             [] gpc # "init0" /\ sem0 # 1 /\ sem1 # 0  -> "serving"
<1> USE DEF Bell!Move
<1>1. Init => Bell!Init
    BY DEF Init, Bell!Init
<1>2. TypeOK /\ Handover /\ [Next]_vars => [Bell!Next]_phase
  <2> SUFFICES ASSUME TypeOK, Handover, [Next]_vars PROVE [Bell!Next]_phase
      OBVIOUS
  <2> USE DEF TypeOK, Handover, ServerOwnsSegment
  <2>1. CASE UNCHANGED <<gpc, sem0, sem1>> \/ (UNCHANGED <<sem0, sem1>>
               /\ gpc # "init0" /\ gpc' # "init0")
    <3>1. phase' = phase
        BY <2>1
    <3>2. QED
        BY <3>1
  <2>2. ASSUME NEW c \in Callers, Ring(c) PROVE Bell!Ring
      BY <2>2 DEF Ring, Bell!Ring, gameVars, runnerVars
  <2>3. ASSUME PickUp PROVE Bell!PickUp
      BY <2>3 DEF PickUp, Bell!PickUp, gameVars
  <2>4. ASSUME Post PROVE Bell!Finish
      BY <2>4 DEF Post, Bell!Finish, gameVars
  <2>5. ASSUME InitSem0 PROVE Bell!SwitchOn
      BY <2>5 DEF InitSem0, Bell!SwitchOn, runnerVars
  <2>6. CASE InitSem1
    <3>1. rpc = "off" /\ sem1 = 0
        BY <2>6 DEF InitSem1
    <3>2. UNCHANGED <<sem0, sem1>> /\ gpc # "init0" /\ gpc' # "init0"
        BY <2>6, <3>1 DEF InitSem1
    <3>3. QED
        BY <2>1, <3>2
  <2>7. QED
    <3>1. ASSUME NEW c \in Callers, BeginSend(c) PROVE UNCHANGED <<gpc, sem0, sem1>>
        BY <3>1 DEF BeginSend, gameVars
    <3>2. ASSUME NEW c \in Callers, CallerStep(c), ~Ring(c)
          PROVE  UNCHANGED <<gpc, sem0, sem1>>
        BY <3>2 DEF CallerStep, Copy, RingTimeout, WaitDone, WaitTimeout, Take,
                    gameVars
    <3>3. CASE Dispatch \/ CallSync \/ Answer \/ AnswerTimeout
        BY <2>1, <3>3 DEF Dispatch, CallSync, Answer, AnswerTimeout, gameVars
    <3>4. CASE Run \/ Timer \/ RunTask \/ Unlock
        BY <2>1, <3>4 DEF Run, Timer, RunTask, Unlock
    <3>5. CASE UNCHANGED vars
        BY <2>1, <3>5 DEF vars, gameVars
    <3> HIDE DEF phase
    <3>6. QED
        BY <2>1, <2>2, <2>3, <2>4, <2>5, <2>6, <3>1, <3>2, <3>3, <3>4, <3>5
        DEF Next, RunnerStep, GameStep, Bell!Next
<1>3. QED
    BY <1>1, <1>2, TypeCorrect, PTL DEF Spec, BellSafety, Bell!SafetySpec

(***************************************************************************)
(* The parts of the inductive invariant, one lemma each.                   *)
(***************************************************************************)

LEMMA InvInit == Init => Numbered /\ Copying /\ Promised /\ InOrder /\ CleanStage
BY DEF Init, Blank, NoPromise, Numbered, Copying, Promised, InOrder,
       TasksOnceInOrder, CleanStage

LEMMA OverwrittenNumber ==
  ASSUME NEW a \in Requests
  PROVE  /\ UnderErrorFlag(a).n \in {0, a.n}
         /\ \A b \in UnderValue(a) : b.n = 0
<1>1. UnderErrorFlag(a).n \in {0, a.n}
    BY DEF UnderErrorFlag, Requests
<1>2. ASSUME NEW b \in UnderValue(a) PROVE b.n = 0
  <2>1. PICK null \in BOOLEAN : b = [a EXCEPT !.n = 0, !.bad = null]
      BY <1>2 DEF UnderValue, Requests
  <2>2. QED
      BY <2>1 DEF Requests
<1>3. QED
    BY <1>1, <1>2

LEMMA NumberedStep ==
  ASSUME TypeOK, Numbered, [Next]_vars
  PROVE  Numbered'
<1> USE DEF TypeOK, Numbered
<1>a. /\ shm.args \in Requests /\ shm.args.n \in 0..MaxSends
      /\ \A d \in Callers : cur[d] \in Requests /\ cur[d].n \in 0..MaxSends
    BY DEF Requests
<1>1. ASSUME NEW c \in Callers, BeginSend(c) PROVE Numbered'
  <2>1. /\ nsent' = nsent + 1 /\ UNCHANGED <<shm, handled>>
        /\ \A d \in Callers : cur'[d].n \in {cur[d].n, nsent + 1}
      BY <1>1 DEF BeginSend, runnerVars
  <2>2. ASSUME NEW d \in Callers PROVE cur'[d].n <= nsent'
    <3>1. cur[d].n <= nsent /\ cur[d].n \in Nat /\ nsent \in Nat
        BY <1>a
    <3>2. CASE cur'[d].n = cur[d].n
        BY <2>1, <3>1, <3>2
    <3>3. CASE cur'[d].n = nsent + 1
        BY <2>1, <3>1, <3>3
    <3>4. QED
        BY <2>1, <3>2, <3>3
  <2>3. shm'.args.n <= nsent'
      BY <1>a, <2>1
  <2>4. \A n \in 0..MaxSends : n > nsent' => handled'[n] = 0
      BY <2>1
  <2>5. QED
      BY <2>2, <2>3, <2>4
<1>2. ASSUME NEW c \in Callers, CallerStep(c) PROVE Numbered'
  <2>1. /\ UNCHANGED <<nsent, cur, handled>>
        /\ shm'.args.n \in {shm.args.n, cur[c].n}
    <3>1. CASE Copy(c)
      <4>1. UNCHANGED <<nsent, cur, handled>>
          BY <3>1 DEF Copy, runnerVars
      <4>2. PICK part \in todo[c] :
              shm' = IF part = "type"
                     THEN [shm EXCEPT !.type = cur[c].kind]
                     ELSE [shm EXCEPT !.args = cur[c],
                                   !.ans = [of |-> cur[c], how |-> "request"]]
          BY <3>1 DEF Copy
      <4>3. QED
          BY <4>1, <4>2
    <3>2. CASE ~Copy(c)
        BY <1>2, <3>2 DEF CallerStep, Ring, RingTimeout, WaitDone, WaitTimeout,
                          Take, runnerVars
    <3>3. QED
        BY <3>1, <3>2
  <2>2. QED
      BY <1>a, <2>1
<1>3. CASE Dispatch
  <2>1. shm'.args.n \in {0, shm.args.n}
    <3>1. CASE shm' = [type |-> "RESULT", args |-> UnderErrorFlag(shm.args),
                       ans |-> [of |-> shm.args, how |-> "error"]]
        BY <1>a, <3>1, OverwrittenNumber
    <3>2. CASE UNCHANGED shm
        BY <3>2
    <3>3. QED
        BY <1>3, <3>1, <3>2 DEF Dispatch
  <2>2. /\ UNCHANGED <<nsent, cur>>
        /\ handled' = [handled EXCEPT ![shm.args.n] = @ + 1]
      BY <1>3 DEF Dispatch, callerVars
  <2>3. QED
      BY <1>a, <2>1, <2>2
<1>4. CASE Answer \/ AnswerTimeout
  <2>1. shm'.args.n \in {0, shm.args.n}
    <3>1. CASE shm'.args = shm.args
        BY <3>1
    <3>2. CASE shm'.args = UnderErrorFlag(shm.args)
        BY <1>a, <3>2, OverwrittenNumber
    <3>3. CASE \E a \in UnderValue(shm.args) : shm'.args = a
        BY <1>a, <3>3, OverwrittenNumber
    <3>4. CASE Answer
        BY <3>1, <3>3, <3>4 DEF Answer
    <3>5. CASE AnswerTimeout
        BY <3>1, <3>2, <3>5 DEF AnswerTimeout
    <3>6. QED
        BY <1>4, <3>4, <3>5
  <2>2. UNCHANGED <<nsent, cur, handled>>
      BY <1>4 DEF Answer, AnswerTimeout, callerVars
  <2>3. QED
      BY <1>a, <2>1, <2>2
<1>5. CASE UNCHANGED <<nsent, cur, handled, shm>>
    BY <1>5
<1>6. CASE PickUp \/ CallSync \/ Post \/ GameStep \/ UNCHANGED vars
    BY <1>5, <1>6 DEF PickUp, CallSync, Post, GameStep, InitSem0, InitSem1, Run,
       Timer, RunTask, Unlock, vars, callerVars, runnerVars
<1>7. QED
    BY <1>1, <1>2, <1>3, <1>4, <1>6 DEF Next, RunnerStep

LEMMA CopyingStep ==
  ASSUME TypeOK, Copying, [Next]_vars
  PROVE  Copying'
<1> USE DEF TypeOK, Copying
<1>1. ASSUME NEW c \in Callers, BeginSend(c) PROVE Copying'
    BY <1>1 DEF BeginSend, Goto
<1>2. ASSUME NEW c \in Callers, CallerStep(c) PROVE Copying'
  <2>1. CASE Copy(c)
    <3>1. /\ \E part \in todo[c] : todo' = [todo EXCEPT ![c] = @ \ {part}]
          /\ pc' = [pc EXCEPT ![c] = IF todo'[c] = {} THEN "ring" ELSE "copy"]
        BY <2>1 DEF Copy, Goto
    <3>2. QED
        BY <3>1
  <2>2. CASE ~Copy(c)
      BY <1>2, <2>2 DEF CallerStep, Ring, RingTimeout, WaitDone, WaitTimeout,
                        Take, Goto
  <2>3. QED
      BY <2>1, <2>2
<1>3. CASE UNCHANGED <<pc, todo>>
    BY <1>3
<1>4. CASE RunnerStep \/ GameStep \/ UNCHANGED vars
    BY <1>3, <1>4 DEF RunnerStep, PickUp, Dispatch, CallSync, Answer,
       AnswerTimeout, Post, GameStep, InitSem0, InitSem1, Run, Timer, RunTask,
       Unlock, vars, callerVars
<1>5. QED
    BY <1>1, <1>2, <1>4 DEF Next

LEMMA PromisedStep ==
  ASSUME TypeOK, Handover, Promised, InOrder, [Next]_vars
  PROVE  Promised'
<1> USE DEF TypeOK
<1>a. /\ \A i \in DOMAIN queue : queue[i].id \in 1..ntasks
      /\ NoPromise.id = 0
    BY DEF InOrder, NoPromise
<1>1. CASE Dispatch
  <2>1. promise = NoPromise /\ rpc' # "await" /\ UNCHANGED <<promise, queue, ntasks>>
      BY <1>1 DEF Dispatch, Promised
  <2>2. QED
      BY <1>a, <2>1 DEF Promised
<1>2. CASE CallSync
  <2>1. queue \in Seq(Tasks)
        /\ queue' = Append(queue, [id |-> ntasks + 1, kind |-> job.kind,
                                   args |-> job.args])
      BY <1>2 DEF CallSync
  <2>2. \A i \in DOMAIN queue' :
          queue'[i].id = ntasks + 1 => queue'[i].args = job.args
      BY <1>a, <2>1
  <2>3. QED
      BY <1>2, <2>2 DEF CallSync, Promised
<1>3. CASE Answer \/ AnswerTimeout
  <2>1. promise' = NoPromise /\ rpc' # "await" /\ UNCHANGED <<queue, ntasks>>
      BY <1>3 DEF Answer, AnswerTimeout
  <2>2. QED
      BY <1>a, <2>1 DEF Promised
<1>4. CASE Post
  <2>1. promise = NoPromise /\ rpc' # "await" /\ UNCHANGED <<promise, queue, ntasks>>
      BY <1>4 DEF Post, Promised
  <2>2. QED
      BY <1>a, <2>1 DEF Promised
<1>5. CASE PickUp
  <2>1. promise = NoPromise /\ rpc' # "await" /\ UNCHANGED <<promise, queue, ntasks>>
      BY <1>5 DEF PickUp, Promised
  <2>2. QED
      BY <1>a, <2>1 DEF Promised
<1>6. CASE RunTask
  <2>1. /\ UNCHANGED <<rpc, job, ntasks, queue>>
        /\ promise'.id = promise.id
        /\ promise # NoPromise \/ UNCHANGED promise
    <3>1. gi \in DOMAIN queue
        BY <1>6 DEF RunTask
    <3>2. promise = NoPromise => queue[gi].id # promise.id
        BY <1>a, <3>1
    <3>3. QED
        BY <1>6, <3>2 DEF RunTask, Fulfil, runnerVars
  <2>2. QED
      BY <2>1 DEF Promised
<1>7. CASE Unlock
    BY <1>7 DEF Unlock, runnerVars, Promised
<1>8. CASE Run
  <2>1. rpc # "await"
      BY <1>8 DEF Run, Handover, ServerOwnsSegment
  <2>2. rpc' # "await" /\ UNCHANGED <<job, ntasks, promise, queue>>
      BY <1>8 DEF Run
  <2>3. QED
      BY <2>1, <2>2 DEF Promised
<1>9. CASE UNCHANGED <<rpc, job, ntasks, promise, queue>>
    BY <1>9 DEF Promised
<1>10. ASSUME NEW c \in Callers, BeginSend(c) \/ CallerStep(c)
       PROVE  UNCHANGED <<rpc, job, ntasks, promise, queue>>
    BY <1>10 DEF BeginSend, CallerStep, Copy, Ring, RingTimeout, WaitDone,
       WaitTimeout, Take, runnerVars
<1>11. CASE InitSem0 \/ InitSem1 \/ Timer \/ UNCHANGED vars
    BY <1>9, <1>11 DEF InitSem0, InitSem1, Timer, vars, runnerVars
<1>12. QED
    BY <1>1, <1>2, <1>3, <1>4, <1>5, <1>6, <1>7, <1>8, <1>9, <1>10, <1>11
    DEF Next, RunnerStep, GameStep

LEMMA InOrderStep ==
  ASSUME TypeOK, InOrder, [Next]_vars
  PROVE  InOrder'
<1> DEFINE Entries == [id : Nat, kind : AllKinds, took : Requests, used : Requests]
<1>a. /\ ntasks \in Nat /\ gi \in Nat
      /\ queue \in Seq(Tasks) /\ log \in Seq(Entries)
      /\ \A t \in Tasks : t.id \in Nat
      /\ \A e \in Entries : e.id \in Nat
    BY DEF TypeOK, Tasks
<1> HIDE DEF Entries
<1>b. /\ gi \in 1..Len(queue) + 1
      /\ gpc # "run" => gi = 1
      /\ \A i \in 1..Len(queue) : queue[i].id \in 1..ntasks
      /\ \A i, j \in 1..Len(queue) : i < j => queue[i].id < queue[j].id
      /\ \A i \in 1..Len(log) : log[i].id \in Nat /\ log[i].id <= ntasks
      /\ \A i \in 1..Len(log), j \in gi..Len(queue) : log[i].id < queue[j].id
      /\ \A i, j \in 1..Len(log) : i < j => log[i].id < log[j].id
      /\ Len(queue) \in Nat /\ Len(log) \in Nat
    BY <1>a DEF InOrder, TasksOnceInOrder
<1>1. CASE CallSync
  <2> DEFINE task == [id |-> ntasks + 1, kind |-> job.kind, args |-> job.args]
  <2>1. /\ queue' = Append(queue, task) /\ ntasks' = ntasks + 1
        /\ gi = 1 /\ gpc # "run" /\ UNCHANGED <<gi, gpc, log>>
      BY <1>b, <1>1 DEF CallSync, gameVars
  <2>2. /\ DOMAIN queue' = 1..Len(queue) + 1
        /\ Len(queue') = Len(queue) + 1
        /\ \A i \in 1..Len(queue) : queue'[i] = queue[i]
        /\ queue'[Len(queue) + 1].id = ntasks + 1
      BY <1>a, <2>1
  <2>3. \A i \in DOMAIN queue' : queue'[i].id \in 1..ntasks'
    <3>1. ASSUME NEW i \in 1..Len(queue) PROVE queue'[i].id \in 1..ntasks'
        BY <1>a, <1>b, <2>1, <2>2
    <3>2. queue'[Len(queue) + 1].id \in 1..ntasks'
        BY <1>a, <2>1, <2>2
    <3>3. QED
        BY <1>b, <2>2, <3>1, <3>2
  <2>4. ASSUME NEW i \in DOMAIN queue', NEW j \in DOMAIN queue', i < j
        PROVE  queue'[i].id < queue'[j].id
    <3>1. i \in 1..Len(queue) /\ queue[i].id \in 1..ntasks
        BY <1>b, <2>2, <2>4
    <3>2. CASE j \in 1..Len(queue)
        BY <1>b, <2>2, <2>4, <3>1, <3>2
    <3>3. CASE j = Len(queue) + 1
        BY <1>a, <2>2, <3>1, <3>3
    <3>4. QED
        BY <1>b, <2>2, <3>2, <3>3
  <2>5. ASSUME NEW i \in DOMAIN log, NEW j \in 1..Len(queue')
        PROVE  log[i].id < queue'[j].id
    <3>1. i \in 1..Len(log) /\ log[i].id <= ntasks /\ log[i].id \in Nat
        BY <1>a, <1>b
    <3>2. CASE j \in 1..Len(queue)
        BY <1>b, <2>1, <2>2, <3>1, <3>2
    <3>3. CASE j = Len(queue) + 1
        BY <1>a, <2>2, <3>1, <3>3
    <3>4. QED
        BY <1>b, <2>2, <3>2, <3>3
  <2>6. \A i \in DOMAIN log : log[i].id <= ntasks'
    <3>1. ASSUME NEW i \in DOMAIN log PROVE log[i].id <= ntasks + 1
      <4>1. i \in 1..Len(log)
          BY <1>a
      <4>2. log[i].id \in Nat /\ log[i].id <= ntasks
          BY <1>b, <4>1
      <4>3. QED
          BY <1>a, <4>2
    <3>2. QED
        BY <2>1, <3>1
  <2>7. gi' \in 1..Len(queue') + 1
      BY <1>b, <2>1, <2>2
  <2>8. TasksOnceInOrder'
      BY <1>a, <1>b, <2>1 DEF TasksOnceInOrder
  <2>9. QED
      BY <2>1, <2>3, <2>4, <2>5, <2>6, <2>7, <2>8 DEF InOrder
<1>2. CASE RunTask
  <2> DEFINE entry == [id |-> queue[gi].id, kind |-> queue[gi].kind,
                       took |-> queue[gi].args, used |-> Used(queue[gi])]
  <2>1. /\ log' = Append(log, entry) /\ gi' = gi + 1
        /\ gi \in 1..Len(queue) /\ UNCHANGED <<gpc, queue, ntasks>>
        /\ gpc = "run"
      BY <1>a, <1>b, <1>2 DEF RunTask, runnerVars
  <2>2. /\ DOMAIN log' = 1..Len(log) + 1
        /\ \A i \in 1..Len(log) : log'[i] = log[i]
        /\ log'[Len(log) + 1].id = queue[gi].id
        /\ queue[gi].id \in 1..ntasks
      BY <1>a, <1>b, <2>1
  <2>3. \A i \in DOMAIN log' : log'[i].id <= ntasks'
    <3>1. ASSUME NEW i \in 1..Len(log) PROVE log'[i].id <= ntasks'
        BY <1>b, <2>1, <2>2
    <3>2. log'[Len(log) + 1].id <= ntasks'
        BY <1>a, <2>1, <2>2
    <3>3. QED
        BY <1>b, <2>2, <3>1, <3>2
  <2>4. ASSUME NEW i \in DOMAIN log', NEW j \in DOMAIN log', i < j
        PROVE  log'[i].id < log'[j].id
    <3>1. i \in 1..Len(log)
        BY <1>b, <2>2, <2>4
    <3>2. CASE j \in 1..Len(log)
        BY <1>b, <2>2, <2>4, <3>1, <3>2
    <3>3. CASE j = Len(log) + 1
      <4>1. log[i].id < queue[gi].id
          BY <1>b, <2>1, <3>1
      <4>2. QED
          BY <2>2, <3>1, <3>3, <4>1
    <3>4. QED
        BY <1>b, <2>2, <3>2, <3>3
  <2>5. ASSUME NEW i \in DOMAIN log', NEW j \in gi'..Len(queue')
        PROVE  log'[i].id < queue'[j].id
    <3>1. j \in gi..Len(queue) /\ gi < j /\ j \in 1..Len(queue)
        BY <1>a, <1>b, <2>1
    <3>2. CASE i \in 1..Len(log)
        BY <1>b, <2>1, <2>2, <3>1, <3>2
    <3>3. CASE i = Len(log) + 1
      <4>1. queue[gi].id < queue[j].id
          BY <1>b, <2>1, <3>1
      <4>2. QED
          BY <2>1, <2>2, <3>3, <4>1
    <3>4. QED
        BY <1>b, <2>2, <3>2, <3>3
  <2>6. gi' \in 1..Len(queue') + 1
      BY <1>b, <2>1
  <2>7. /\ \A i \in DOMAIN queue' : queue'[i].id \in 1..ntasks'
        /\ \A i, j \in DOMAIN queue' : i < j => queue'[i].id < queue'[j].id
      BY <2>1 DEF InOrder
  <2>8. TasksOnceInOrder'
      BY <2>4 DEF TasksOnceInOrder
  <2>9. QED
      BY <2>1, <2>3, <2>5, <2>6, <2>7, <2>8 DEF InOrder
<1>3. CASE Unlock
  <2>1. /\ queue' = <<>> /\ gi' = 1 /\ UNCHANGED <<log, ntasks>>
      BY <1>3 DEF Unlock, runnerVars
  <2>2. TasksOnceInOrder'
      BY <2>1 DEF InOrder, TasksOnceInOrder
  <2>3. QED
      BY <2>1, <2>2 DEF InOrder
<1>4. CASE UNCHANGED <<gpc, gi, log, queue, ntasks>>
    BY <1>4 DEF InOrder, TasksOnceInOrder
<1>5. CASE InitSem0 \/ InitSem1 \/ Run \/ Timer
  <2>1. gi = 1 /\ UNCHANGED <<gi, log, queue, ntasks>>
      BY <1>5 DEF InitSem0, InitSem1, Run, Timer, runnerVars, InOrder
  <2>2. QED
      BY <2>1 DEF InOrder, TasksOnceInOrder
<1>6. ASSUME NEW c \in Callers, BeginSend(c) \/ CallerStep(c)
      PROVE  UNCHANGED <<gpc, gi, log, queue, ntasks>>
    BY <1>6 DEF BeginSend, CallerStep, Copy, Ring, RingTimeout, WaitDone,
       WaitTimeout, Take, runnerVars, gameVars
<1>7. CASE PickUp \/ Dispatch \/ Answer \/ AnswerTimeout \/ Post \/ UNCHANGED vars
    BY <1>4, <1>7 DEF PickUp, Dispatch, Answer, AnswerTimeout, Post, vars,
       runnerVars, gameVars
<1>8. QED
    BY <1>1, <1>2, <1>3, <1>4, <1>5, <1>6, <1>7 DEF Next, RunnerStep, GameStep

(* Nothing is claimed while nobody's send is clean.                        *)
LEMMA CleanStageNobody ==
  ASSUME clean' = Nobody
  PROVE  CleanStage'
BY DEF CleanStage

LEMMA CleanStageCaller ==
  ASSUME TypeOK, Handover, Numbered, Copying, Promised, CleanStage,
         NEW c \in Callers, BeginSend(c) \/ CallerStep(c)
  PROVE  CleanStage'
<1> USE DEF TypeOK
<1>1. CASE BeginSend(c)
  <2>1. CASE clean' = Nobody
      BY <2>1, CleanStageNobody
  <2>2. CASE clean' # Nobody
    <3>1. /\ clean' = c /\ Idle /\ \A d \in Callers : pc[d] = "out"
          /\ nsent' = nsent + 1 /\ nsent' \in 0..MaxSends
          /\ UNCHANGED <<sem0, rpc, job, handled, promise>>
        BY <1>1, <2>2 DEF BeginSend, runnerVars
    <3>2. /\ pc' = [pc EXCEPT ![c] = "copy"]
          /\ todo'[c] = {"type", "args"}
          /\ cur'[c].n = nsent'
          /\ got'[c].of = cur'[c]
        BY <1>1 DEF BeginSend, Goto
    <3>3. handled[nsent'] = 0
        BY <3>1 DEF Numbered
    <3>4. promise.ready = FALSE
        BY <3>1 DEF Idle, Promised, NoPromise
    <3>5. QED
        BY <3>1, <3>2, <3>3, <3>4 DEF CleanStage, Idle
  <2>3. QED
      BY <2>1, <2>2
<1>2. CASE CallerStep(c)
  <2>1. UNCHANGED <<cur, nsent, clean, sem1, runnerVars, gameVars, promise>>
      BY <1>2 DEF CallerStep, Copy, Ring, RingTimeout, WaitDone, WaitTimeout, Take
  <2>2. CASE clean = Nobody
      BY <2>1, <2>2, CleanStageNobody
  <2>3. CASE clean # Nobody
    <3>1. c = clean
        BY <1>2, <2>3 DEF CleanStage, CallerStep, Copy, Ring, RingTimeout,
                          WaitDone, WaitTimeout, Take
    <3> USE DEF Goto, runnerVars, gameVars
    <3>2. CASE Copy(c)
      <4>1. /\ pc[c] = "copy" /\ UNCHANGED <<sem0, got>>
            /\ pc' = [pc EXCEPT ![c] = IF todo'[c] = {} THEN "ring" ELSE "copy"]
          BY <3>2 DEF Copy
      <4>2. /\ Idle /\ handled[nsent] = 0
          BY <2>3, <3>1, <4>1 DEF CleanStage
      <4>3. PICK part \in todo[c] :
              /\ shm' = IF part = "type"
                        THEN [shm EXCEPT !.type = cur[c].kind]
                        ELSE [shm EXCEPT !.args = cur[c],
                                      !.ans = [of |-> cur[c], how |-> "request"]]
              /\ todo' = [todo EXCEPT ![c] = @ \ {part}]
          BY <3>2 DEF Copy
      <4>4. "type" \notin todo'[c] => shm'.type = cur[c].kind
          BY <2>3, <3>1, <4>2, <4>3 DEF CleanStage
      <4>5. "args" \notin todo'[c] => shm'.args = cur[c] /\ shm'.ans.of = cur[c]
        <5>1. CASE part = "type"
            BY <2>3, <3>1, <4>2, <4>3, <5>1 DEF CleanStage
        <5>2. CASE part = "args"
            BY <4>3, <5>2
        <5>3. QED
            BY <4>3, <5>1, <5>2
      <4>6. QED
          BY <2>1, <2>3, <3>1, <4>1, <4>2, <4>4, <4>5 DEF CleanStage, Idle
    <3>3. CASE Ring(c)
      <4>1. pc[c] = "ring" /\ Idle /\ handled[nsent] = 0
          BY <2>3, <3>1, <3>3 DEF Ring, CleanStage
      <4>2. /\ sem0' = 0 /\ UNCHANGED <<shm, todo, got>>
            /\ pc' = [pc EXCEPT ![c] = "wait"]
          BY <3>3, <4>1 DEF Ring, Idle
      <4>3. QED
          BY <2>1, <2>3, <3>1, <4>1, <4>2 DEF CleanStage, Idle
    <3>4. CASE RingTimeout(c)
        BY <2>3, <3>1, <3>4 DEF RingTimeout, CleanStage, Idle
    <3>5. CASE WaitDone(c) \/ WaitTimeout(c)
      <4>1. /\ pc[c] = "wait" /\ UNCHANGED <<sem0, shm, todo, got>>
            /\ \E to \in {"out", "take"} : pc' = [pc EXCEPT ![c] = to]
          BY <3>5 DEF WaitDone, WaitTimeout
      <4>2. QED
          BY <2>1, <2>3, <3>1, <4>1 DEF CleanStage, Idle
    <3>6. CASE Take(c)
      <4>1. /\ pc[c] = "take" /\ UNCHANGED <<sem0, shm, todo>>
            /\ got' = [got EXCEPT ![c] = shm.ans]
            /\ pc' = [pc EXCEPT ![c] = "out"]
          BY <3>6 DEF Take
      <4>2. "args" \notin todo[c]
          BY <4>1 DEF Copying
      <4>3. got'[c].of = cur[c]
          BY <2>3, <3>1, <4>1, <4>2 DEF CleanStage
      <4>4. QED
          BY <2>1, <2>3, <3>1, <4>1, <4>3 DEF CleanStage, Idle
    <3>7. QED
        BY <1>2, <3>2, <3>3, <3>4, <3>5, <3>6 DEF CallerStep
  <2>4. QED
      BY <2>2, <2>3
<1>3. QED
    BY <1>1, <1>2

LEMMA CleanStageRunner ==
  ASSUME TypeOK, Handover, Copying, Promised, CleanStage, RunnerStep
  PROVE  CleanStage'
<1>1. UNCHANGED callerVars
    BY DEF RunnerStep, PickUp, Dispatch, CallSync, Answer, AnswerTimeout, Post
<1>2. CASE clean = Nobody
    BY <1>1, <1>2, CleanStageNobody DEF callerVars
<1>3. CASE clean # Nobody
  <2> USE DEF TypeOK, callerVars, gameVars
  <2>a. /\ clean \in Callers
        /\ UNCHANGED <<pc, todo, cur, got, nsent, clean>>
      BY <1>1, <1>3
  <2>b. ~Idle => pc[clean] \notin {"copy", "ring"} /\ todo[clean] = {}
      BY <1>3, <2>a DEF CleanStage, Copying
  <2>1. CASE PickUp
    <3>1. /\ rpc = "idle" /\ sem0 = 0 /\ rpc' = "dispatch"
          /\ UNCHANGED <<sem0, shm, job, handled, promise>>
        BY <2>1 DEF PickUp
    <3>2. handled[nsent] = 0 /\ ~Idle
        BY <1>3, <3>1 DEF CleanStage, Idle
    <3>3. QED
        BY <1>3, <2>a, <2>b, <3>1, <3>2 DEF CleanStage, Idle
  <2>2. CASE Dispatch
    <3>1. /\ rpc = "dispatch" /\ UNCHANGED <<sem0, promise>>
          /\ handled' = [handled EXCEPT ![shm.args.n] = @ + 1]
        BY <2>2 DEF Dispatch
    <3>2. /\ todo[clean] = {} /\ pc[clean] \notin {"copy", "ring"}
          /\ handled[nsent] = 0
        BY <1>3, <2>b, <3>1 DEF CleanStage, Idle
    <3>3. /\ shm.args = cur[clean] /\ shm.ans.of = cur[clean]
          /\ cur[clean].n = nsent
        BY <1>3, <3>2 DEF CleanStage
    <3>4. handled'[nsent] = 1
        BY <3>1, <3>2, <3>3
    <3>5. /\ rpc' \in {"call", "post"}
          /\ rpc' = "call" => UNCHANGED shm /\ job'.args = cur[clean]
          /\ shm'.ans.of = cur[clean]
        BY <2>2, <3>3 DEF Dispatch
    <3>6. QED
        BY <1>3, <2>a, <3>1, <3>2, <3>3, <3>4, <3>5 DEF CleanStage, Idle
  <2>3. CASE CallSync
    <3>1. /\ rpc = "call" /\ rpc' = "await" /\ promise'.ready = FALSE
          /\ UNCHANGED <<sem0, shm, job, handled>>
        BY <2>3 DEF CallSync
    <3>2. QED
        BY <1>3, <2>a, <2>b, <3>1 DEF CleanStage, Idle
  <2>4. CASE Answer \/ AnswerTimeout
    <3>1. /\ rpc = "await" /\ rpc' = "post"
          /\ promise' = NoPromise /\ UNCHANGED <<sem0, job, handled>>
        BY <2>4 DEF Answer, AnswerTimeout
    <3>2. /\ todo[clean] = {} /\ pc[clean] \notin {"copy", "ring"}
          /\ handled[nsent] = 1 /\ shm.ans.of = cur[clean]
          /\ job.args = cur[clean]
          /\ promise.ready => promise.of = cur[clean]
        BY <1>3, <2>b, <3>1 DEF CleanStage, Idle
    <3>3. shm'.ans.of = cur[clean]
      <4>1. CASE Answer
        <5>1. \/ shm' = shm
              \/ shm' = [shm EXCEPT !.ans = [of |-> promise.of, how |-> "value"]]
              \/ \E a \in UnderValue(shm.args) :
                   shm' = [type |-> "RESULT", args |-> a,
                           ans |-> [of |-> promise.of, how |-> "value"]]
            BY <4>1 DEF Answer
        <5>2. promise.of = cur[clean]
            BY <3>2, <4>1 DEF Answer
        <5>3. QED
            BY <3>2, <5>1, <5>2
      <4>2. CASE AnswerTimeout
        <5>1. \/ shm' = [shm EXCEPT !.ans = [of |-> job.args, how |-> "error"]]
              \/ shm' = [type |-> "RESULT", args |-> UnderErrorFlag(shm.args),
                         ans |-> [of |-> job.args, how |-> "error"]]
            BY <4>2 DEF AnswerTimeout
        <5>2. QED
            BY <3>2, <5>1
      <4>3. QED
          BY <2>4, <4>1, <4>2
    <3>4. promise'.ready = FALSE
        BY <3>1 DEF NoPromise
    <3>5. QED
        BY <1>3, <2>a, <3>1, <3>2, <3>3, <3>4 DEF CleanStage, Idle
  <2>5. CASE Post
    <3>1. /\ rpc = "post" /\ rpc' = "idle" /\ sem0 = 0 /\ sem0' = 1
          /\ UNCHANGED <<shm, handled, promise>>
        BY <2>5 DEF Post, Handover, ServerOwnsSegment
    <3>2. /\ todo[clean] = {} /\ pc[clean] \notin {"copy", "ring"}
          /\ handled[nsent] = 1 /\ shm.ans.of = cur[clean]
        BY <1>3, <2>b, <3>1 DEF CleanStage, Idle
    <3>3. promise.ready = FALSE
        BY <3>1 DEF Promised, NoPromise
    <3>4. QED
        BY <1>3, <2>a, <3>1, <3>2, <3>3 DEF CleanStage, Idle
  <2>6. QED
      BY <2>1, <2>2, <2>3, <2>4, <2>5 DEF RunnerStep
<1>4. QED
    BY <1>2, <1>3

LEMMA CleanStageGame ==
  ASSUME TypeOK, Handover, Copying, Promised, InOrder, CleanStage, GameStep
  PROVE  CleanStage'
<1>1. UNCHANGED callerVars
    BY DEF GameStep, InitSem0, InitSem1, Run, Timer, RunTask, Unlock
<1>2. CASE clean = Nobody
    BY <1>1, <1>2, CleanStageNobody DEF callerVars
<1>3. CASE clean # Nobody
  <2> USE DEF TypeOK, callerVars, runnerVars
  <2>1. CASE InitSem0 \/ InitSem1 \/ Run
    <3>1. rpc = "off"
        BY <2>1 DEF InitSem0, InitSem1, Run, Handover, ServerOwnsSegment
    <3>2. QED
        BY <1>3, <3>1 DEF CleanStage
  <2>2. CASE Timer \/ Unlock
    <3>1. UNCHANGED <<sem0, shm, rpc, job, handled, promise>>
        BY <2>2 DEF Timer, Unlock
    <3>2. QED
        BY <1>1, <1>3, <3>1 DEF CleanStage, Idle
  <2>3. CASE RunTask
    <3>1. UNCHANGED <<sem0, shm, rpc, job, handled>>
        BY <2>3 DEF RunTask
    <3>2. gi \in DOMAIN queue /\ queue[gi].id \in 1..ntasks
        BY <2>3 DEF RunTask, InOrder
    <3>3. promise'.ready => promise'.of = cur[clean]
      <4>1. CASE queue[gi].id # promise.id
          BY <1>3, <2>3, <4>1 DEF RunTask, Fulfil, CleanStage
      <4>2. CASE queue[gi].id = promise.id
        <5>1. rpc = "await" /\ queue[gi].args = job.args
            BY <3>2, <4>2 DEF Promised, NoPromise
        <5>2. todo[clean] = {}
            BY <1>3, <5>1 DEF CleanStage, Idle, Copying
        <5>3. job.args = cur[clean] /\ shm.args = cur[clean]
            BY <1>3, <5>1, <5>2 DEF CleanStage
        <5>4. Used(queue[gi]) = cur[clean]
            BY <5>1, <5>3 DEF Used
        <5>5. QED
            BY <2>3, <4>2, <5>4 DEF RunTask, Fulfil
      <4>3. QED
          BY <4>1, <4>2
    <3>4. QED
        BY <1>1, <1>3, <3>1, <3>3 DEF CleanStage, Idle
  <2>4. QED
      BY <2>1, <2>2, <2>3 DEF GameStep
<1>4. QED
    BY <1>2, <1>3

(***************************************************************************)
(* The inductive invariant, and what follows from it.                      *)
(***************************************************************************)

(* IInv is inductive: it holds at the start and every step preserves it.   *)
THEOREM Inductive == Spec => []IInv
<1>1. Init => IInv
    BY TypeInit, HandoverInit, InvInit DEF IInv
<1>2. IInv /\ [Next]_vars => IInv'
  <2> SUFFICES ASSUME IInv, [Next]_vars PROVE IInv'
      OBVIOUS
  <2> USE DEF IInv
  <2>1. TypeOK' /\ Handover'
      BY TypeStep, HandoverStep
  <2>2. Numbered' /\ Copying' /\ Promised' /\ InOrder'
      BY NumberedStep, CopyingStep, PromisedStep, InOrderStep
  <2>3. CleanStage'
    <3>1. CASE UNCHANGED vars
        BY <3>1 DEF vars, callerVars, runnerVars, gameVars, CleanStage, Idle
    <3>2. QED
        BY <3>1, CleanStageCaller, CleanStageRunner, CleanStageGame DEF Next
  <2>4. QED
      BY <2>1, <2>2, <2>3
<1>3. QED
    BY <1>1, <1>2, PTL DEF Spec

(* Every queued task is run at most once, and in the order of call_sync.   *)
THEOREM TaskOrder == Spec => []TasksOnceInOrder
<1>1. IInv => TasksOnceInOrder
    BY DEF IInv, InOrder
<1>2. QED
    BY <1>1, Inductive, PTL

(* A command sent while the server was idle and nobody else was sending is *)
(* dispatched as it was sent.                                              *)
THEOREM Intact == Spec => []IntactDispatch
<1>1. IInv => IntactDispatch
  <2> SUFFICES ASSUME IInv, clean # Nobody, rpc = "dispatch"
               PROVE  shm.type = cur[clean].kind /\ shm.args = cur[clean]
      BY DEF IntactDispatch
  <2>1. todo[clean] = {}
      BY DEF IInv, TypeOK, CleanStage, Copying, Idle
  <2>2. QED
      BY <2>1 DEF IInv, CleanStage
<1>2. QED
    BY <1>1, Inductive, PTL

(* ... once, and exactly once when its caller is out and the server idle.  *)
THEOREM HandledOnce == Spec => []CleanHandledOnce
<1>1. IInv => CleanHandledOnce
  <2> SUFFICES ASSUME IInv, clean # Nobody
               PROVE  /\ handled[cur[clean].n] <= 1
                      /\ pc[clean] = "out" /\ Idle => handled[cur[clean].n] = 1
      BY DEF CleanHandledOnce
  <2>1. cur[clean].n = nsent
      BY DEF IInv, CleanStage
  <2>2. handled[nsent] \in {0, 1}
      BY DEF IInv, TypeOK, CleanStage, Idle
  <2>3. QED
      BY <2>1, <2>2 DEF IInv, CleanStage
<1>2. QED
    BY <1>1, Inductive, PTL

(* ... and the answer its caller is given is never another command's.      *)
THEOREM NotMisanswered == Spec => []CleanNotMisanswered
<1>1. IInv => CleanNotMisanswered
    BY DEF IInv, CleanStage, CleanNotMisanswered
<1>2. QED
    BY <1>1, Inductive, PTL

===============================================================================
