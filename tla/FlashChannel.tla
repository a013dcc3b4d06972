----------------------------- MODULE FlashChannel -----------------------------
(***************************************************************************)
(* The command channel between the bot client (client/bot_client.cpp,      *)
(* SendFlashCommand) and the library loaded in the flash process           *)
(* (do_lib/ipc.cpp, class Ipc, and the call queue of do_lib/darkorbit.cpp).*)
(*                                                                         *)
(* One shared segment holds one message; two semaphores hand it over:      *)
(*   - a caller copies its message in, takes semaphore 0 (the bell) and    *)
(*     waits, one second at most, for semaphore 1 to be zero;              *)
(*   - the runner thread of the flash process waits for semaphore 0 to be  *)
(*     zero, raises semaphore 1, handles the message in place, then raises *)
(*     semaphore 0 and lowers semaphore 1;                                 *)
(*   - handling a message queues a task for the game thread, which runs    *)
(*     the queue from a hooked timer method, and waits for the task five   *)
(*     seconds at most.                                                    *)
(* Time is abstracted: an operation that is blocked may time out at any    *)
(* moment (a preempted thread makes one second longer than five).          *)
(***************************************************************************)
EXTENDS Naturals, Sequences

CONSTANTS
  Callers,    \* threads of the bot process that call into the one BotClient
  Kinds,      \* the message types the callers send
  MaxSends    \* bound on the number of commands sent

AllKinds == {"CALL", "SEND_NOTIFICATION", "REFINE", "USE_ITEM", "KEY_CLICK",
             "MOUSE_CLICK", "CHECK_SIGNATURE"}

ASSUME KindsAssumption == Kinds \subseteq AllKinds
ASSUME BoundAssumption == MaxSends \in Nat

Nobody == "nobody"
ASSUME CallersAssumption == Nobody \notin Callers

(* The handlers whose task keeps a pointer into the segment and reads its  *)
(* arguments when it runs; the others copy the arguments into the task.    *)
ByPointer == {"CALL", "MOUSE_CLICK", "CHECK_SIGNATURE"}

(* The commands whose caller reads an answer back out of the segment.      *)
Answered == {"CALL", "CHECK_SIGNATURE"}

(* The commands the handler validates first: a null object, argc too big.  *)
Checked == {"CALL", "SEND_NOTIFICATION"}

(* The commands with an argument in the bytes of the error flag of the     *)
(* answer; all have one in the bytes of its value.                         *)
UnderError == {"SEND_NOTIFICATION", "USE_ITEM", "KEY_CLICK", "MOUSE_CLICK"}

(* A command; n tells the commands apart (0: arguments that are nobody's), *)
(* bad: it would fail validation.                                          *)
Requests == [n : 0..MaxSends, kind : AllKinds, bad : BOOLEAN]

(* What a fresh, zeroed segment reads as: type 0 is CALL, on a null object *)
Blank == [n |-> 0, kind |-> "CALL", bad |-> TRUE]

(* The bytes an answer is read from.  how: what was written there last, of *)
(* which command; "unread" if the caller's own buffer was never filled.    *)
Answers == [of : Requests, how : {"unread", "request", "value", "error"}]

(* The answer is written over the arguments.  A value may be null, and then *)
(* reads as a null object.                                                 *)
UnderErrorFlag(a) == IF a.kind \in UnderError THEN [a EXCEPT !.n = 0] ELSE a

UnderValue(a) ==
  {[a EXCEPT !.n = 0, !.bad = b] : b \in IF a.kind = "CALL" THEN BOOLEAN ELSE {a.bad}}

VARIABLES
  sem0, sem1, \* the semaphore values
  shm,        \* the segment: message type, argument bytes, answer bytes
  pc,         \* pc[c]: where caller c is in SendFlashCommand
  todo,       \* todo[c]: the parts of the message c has still to copy
  cur,        \* cur[c]: the command c is sending, or sent last
  got,        \* got[c]: the answer c's last command was given
  nsent,      \* number of commands begun
  rpc,        \* where the runner thread is
  job,        \* the runner's locals: the message type and arguments captured
  promise,    \* the shared state of the future the runner waits on
  gpc, gi,    \* where the game thread is, and its index in the queue
  queue,      \* m_async_calls
  ntasks,     \* number of tasks created
  log,        \* history: the tasks run, with what they captured and used
  handled,    \* history: how often each command was dispatched
  clean       \* history: the caller whose send overlapped no other, if any

callerVars == <<pc, todo, cur, got, nsent, clean>>
runnerVars == <<rpc, job, ntasks, handled>>
gameVars   == <<gpc, gi, log>>
vars == <<sem0, sem1, shm, callerVars, runnerVars, gameVars, promise, queue>>

NoJob == [kind |-> "CALL", args |-> Blank]
NoPromise == [id |-> 0, ready |-> FALSE, of |-> Blank]
Tasks == [id : Nat, kind : AllKinds, args : Requests]

(* The runner sleeps on semaphore 0 and nobody has taken it.               *)
Idle == rpc = "idle" /\ sem0 = 1

Init ==
  /\ sem0 = 0 /\ sem1 = 0
  /\ shm = [type |-> "CALL", args |-> Blank,
            ans |-> [of |-> Blank, how |-> "request"]]
  /\ pc = [c \in Callers |-> "out"]
  /\ todo = [c \in Callers |-> {}]
  /\ cur = [c \in Callers |-> Blank]
  /\ got = [c \in Callers |-> [of |-> Blank, how |-> "unread"]]
  /\ nsent = 0
  /\ rpc = "off"
  /\ job = NoJob
  /\ promise = NoPromise
  /\ gpc = "init0" /\ gi = 1
  /\ queue = <<>>
  /\ ntasks = 0
  /\ log = <<>>
  /\ handled = [n \in 0..MaxSends |-> 0]
  /\ clean = Nobody

-----------------------------------------------------------------------------
(* The callers: BotClient::SendFlashCommand and the methods built on it.   *)

Goto(c, where) == pc' = [pc EXCEPT ![c] = where]

(* The message is built; IsValid, shmget, shmat and semget have succeeded. *)
BeginSend(c) ==
  /\ pc[c] = "out"
  /\ nsent < MaxSends
  /\ \E k \in Kinds, bad \in BOOLEAN :
       /\ bad => k \in Checked
       /\ LET r == [n |-> nsent + 1, kind |-> k, bad |-> bad] IN
          /\ cur' = [cur EXCEPT ![c] = r]
          /\ got' = [got EXCEPT ![c] = [of |-> r, how |-> "unread"]]
  /\ nsent' = nsent + 1
  /\ todo' = [todo EXCEPT ![c] = {"type", "args"}]
  /\ Goto(c, "copy")
  /\ clean' = IF Idle /\ \A d \in Callers : pc[d] = "out" THEN c ELSE Nobody
  /\ UNCHANGED <<sem0, sem1, shm, runnerVars, gameVars, promise, queue>>

(* The struct copy into the segment is not atomic, and nothing guards it:  *)
(* its parts are stored one after the other, in either order.              *)
Copy(c) ==
  /\ pc[c] = "copy"
  /\ \E part \in todo[c] :
       /\ shm' = IF part = "type"
                 THEN [shm EXCEPT !.type = cur[c].kind]
                 ELSE [shm EXCEPT !.args = cur[c],
                                  !.ans = [of |-> cur[c], how |-> "request"]]
       /\ todo' = [todo EXCEPT ![c] = @ \ {part}]
  /\ Goto(c, IF todo'[c] = {} THEN "ring" ELSE "copy")
  /\ UNCHANGED <<sem0, sem1, cur, got, nsent, clean, runnerVars, gameVars,
                 promise, queue>>

(* A fault: the bell is not taken, only waited for.                        *)
RingLeavesSem0(c) ==
  /\ pc[c] = "ring"
  /\ sem0 >= 1
  /\ Goto(c, "wait")
  /\ UNCHANGED <<sem0, sem1, shm, todo, cur, got, nsent, clean, runnerVars,
                 gameVars, promise, queue>>

(* "Notify": semaphore 0 is lowered, at once or when the server raises it. *)
Ring(c) ==
  /\ pc[c] = "ring"
  /\ sem0 >= 1
  /\ sem0' = sem0 - 1
  /\ Goto(c, "wait")
  /\ UNCHANGED <<sem1, shm, todo, cur, got, nsent, clean, runnerVars, gameVars,
                 promise, queue>>

(* A fault: the notification waits for ever.                               *)
NoRingTimeout(c) == FALSE

(* ... or the second passes (or a signal arrives) while it is zero.        *)
RingTimeout(c) ==
  /\ pc[c] = "ring"
  /\ sem0 = 0
  /\ Goto(c, "out")
  /\ UNCHANGED <<sem0, sem1, shm, todo, cur, got, nsent, clean, runnerVars,
                 gameVars, promise, queue>>

(* "Wait": semaphore 1 is zero.                                            *)
WaitDone(c) ==
  /\ pc[c] = "wait"
  /\ sem1 = 0
  /\ Goto(c, IF cur[c].kind \in Answered THEN "take" ELSE "out")
  /\ UNCHANGED <<sem0, sem1, shm, todo, cur, got, nsent, clean, runnerVars,
                 gameVars, promise, queue>>

WaitTimeout(c) ==
  /\ pc[c] = "wait"
  /\ sem1 # 0
  /\ Goto(c, "out")
  /\ UNCHANGED <<sem0, sem1, shm, todo, cur, got, nsent, clean, runnerVars,
                 gameVars, promise, queue>>

(* The response is copied out; neither its type nor its error is examined. *)
Take(c) ==
  /\ pc[c] = "take"
  /\ got' = [got EXCEPT ![c] = shm.ans]
  /\ Goto(c, "out")
  /\ UNCHANGED <<sem0, sem1, shm, todo, cur, nsent, clean, runnerVars, gameVars,
                 promise, queue>>

CallerStep(c) ==
  \/ Copy(c) \/ Ring(c) \/ RingTimeout(c)
  \/ WaitDone(c) \/ WaitTimeout(c) \/ Take(c)

-----------------------------------------------------------------------------
(* The runner thread: Ipc::runner and Ipc::handle_message.                 *)

(* A fault: the runner does not wait for semaphore 0 to be zero.           *)
PickUpUnrung ==
  /\ rpc = "idle"
  /\ sem1' = sem1 + 1
  /\ rpc' = "dispatch"
  /\ UNCHANGED <<sem0, shm, callerVars, job, ntasks, handled, gameVars,
                 promise, queue>>

(* One semop: wait for semaphore 0 to be zero and raise semaphore 1.       *)
PickUp ==
  /\ rpc = "idle"
  /\ sem0 = 0
  /\ sem1' = sem1 + 1
  /\ rpc' = "dispatch"
  /\ UNCHANGED <<sem0, shm, callerVars, job, ntasks, handled, gameVars,
                 promise, queue>>

(* The switch on the message type, the validation of the arguments, and    *)
(* the capture of what the task needs.  A RESULT or NONE is not handled.   *)
Dispatch ==
  /\ rpc = "dispatch"
  /\ handled' = [handled EXCEPT ![shm.args.n] = @ + 1]
  /\ \/ /\ shm.type \notin AllKinds
        /\ rpc' = "post"
        /\ UNCHANGED <<shm, job>>
     \/ /\ shm.type \in Checked /\ shm.args.bad
        /\ shm' = [type |-> "RESULT", args |-> UnderErrorFlag(shm.args),
                   ans |-> [of |-> shm.args, how |-> "error"]]
        /\ rpc' = "post"
        /\ UNCHANGED job
     \/ /\ shm.type \in AllKinds
        /\ ~(shm.type \in Checked /\ shm.args.bad)
        /\ job' = [kind |-> shm.type, args |-> shm.args]
        /\ rpc' = "call"
        /\ UNCHANGED shm
  /\ UNCHANGED <<sem0, sem1, callerVars, ntasks, gameVars, promise, queue>>

(* A fault: the newest task is put in front of those that wait.            *)
CallSyncInFront ==
  /\ rpc = "call"
  /\ gpc # "run"
  /\ ntasks' = ntasks + 1
  /\ queue' = <<[id |-> ntasks + 1, kind |-> job.kind, args |-> job.args]>> \o queue
  /\ promise' = [id |-> ntasks + 1, ready |-> FALSE, of |-> Blank]
  /\ rpc' = "await"
  /\ UNCHANGED <<sem0, sem1, shm, callerVars, job, handled, gameVars>>

(* Darkorbit::call_sync, under m_call_mut, which the game thread holds for *)
(* as long as it is running tasks.                                         *)
CallSync ==
  /\ rpc = "call"
  /\ gpc # "run"
  /\ ntasks' = ntasks + 1
  /\ queue' = Append(queue, [id |-> ntasks + 1, kind |-> job.kind,
                             args |-> job.args])
  /\ promise' = [id |-> ntasks + 1, ready |-> FALSE, of |-> Blank]
  /\ rpc' = "await"
  /\ UNCHANGED <<sem0, sem1, shm, callerVars, job, handled, gameVars>>

(* The task has run: only two handlers write its value into the segment.   *)
Answer ==
  /\ rpc = "await"
  /\ promise.ready
  /\ LET answer == [of |-> promise.of, how |-> "value"] IN
     CASE job.kind = "CALL" ->
            \E a \in UnderValue(shm.args) :
              shm' = [type |-> "RESULT", args |-> a, ans |-> answer]
       [] job.kind = "CHECK_SIGNATURE" -> shm' = [shm EXCEPT !.ans = answer]
       [] OTHER -> shm' = shm
  /\ promise' = NoPromise
  /\ rpc' = "post"
  /\ UNCHANGED <<sem0, sem1, callerVars, job, ntasks, handled, gameVars, queue>>

(* A fault: the handler waits for its task without a limit.                *)
NoAnswerTimeout == FALSE

(* Five seconds have passed and it has not; the task stays in the queue.   *)
AnswerTimeout ==
  /\ rpc = "await"
  /\ ~promise.ready
  /\ LET answer == [of |-> job.args, how |-> "error"] IN
     shm' = IF job.kind = "CHECK_SIGNATURE" THEN [shm EXCEPT !.ans = answer]
            ELSE [type |-> "RESULT", args |-> UnderErrorFlag(shm.args),
                  ans |-> answer]
  /\ promise' = NoPromise
  /\ rpc' = "post"
  /\ UNCHANGED <<sem0, sem1, callerVars, job, ntasks, handled, gameVars, queue>>

(* A fault: the second semop forgets to lower semaphore 1.                 *)
PostLeavesSem1 ==
  /\ rpc = "post"
  /\ sem1 >= 1
  /\ sem0' = sem0 + 1
  /\ rpc' = "idle"
  /\ job' = NoJob
  /\ UNCHANGED <<sem1, shm, callerVars, ntasks, handled, gameVars, promise,
                 queue>>

(* The second semop: raise semaphore 0 and lower semaphore 1.              *)
Post ==
  /\ rpc = "post"
  /\ sem1 >= 1
  /\ sem0' = sem0 + 1
  /\ sem1' = sem1 - 1
  /\ rpc' = "idle"
  /\ job' = NoJob
  /\ UNCHANGED <<shm, callerVars, ntasks, handled, gameVars, promise, queue>>

RunnerStep == PickUp \/ Dispatch \/ CallSync \/ Answer \/ AnswerTimeout \/ Post

-----------------------------------------------------------------------------
(* The game thread: it installs the server (Ipc::Init, Ipc::Run), then     *)
(* runs the queue whenever the hooked timer method is called.              *)

InitSem0 ==
  /\ gpc = "init0"
  /\ sem0' = 1
  /\ gpc' = "init1"
  /\ UNCHANGED <<sem1, shm, callerVars, runnerVars, gi, log, promise, queue>>

InitSem1 ==
  /\ gpc = "init1"
  /\ sem1' = 0
  /\ gpc' = "start"
  /\ UNCHANGED <<sem0, shm, callerVars, runnerVars, gi, log, promise, queue>>

Run ==
  /\ gpc = "start"
  /\ rpc' = "idle"
  /\ gpc' = "out"
  /\ UNCHANGED <<sem0, sem1, shm, callerVars, job, ntasks, handled, gi, log,
                 promise, queue>>

(* Darkorbit::handle_async_calls: lock, run every task, clear, unlock.     *)
Timer ==
  /\ gpc = "out"
  /\ gpc' = "run"
  /\ UNCHANGED <<sem0, sem1, shm, callerVars, runnerVars, gi, log, promise,
                 queue>>

(* The arguments task k runs with.                                         *)
Used(k) == IF k.kind \in ByPointer THEN shm.args ELSE k.args

(* A fault: one result slot for all tasks, whichever of them has run.      *)
FulfilAny(k) ==
  promise' = IF rpc = "await"
             THEN [promise EXCEPT !.ready = TRUE, !.of = Used(k)]
             ELSE promise

(* Running the task fulfils its own promise, if the runner still waits.    *)
Fulfil(k) ==
  promise' = IF k.id = promise.id
             THEN [promise EXCEPT !.ready = TRUE, !.of = Used(k)]
             ELSE promise

RunTask ==
  /\ gpc = "run"
  /\ gi <= Len(queue)
  /\ log' = Append(log, [id |-> queue[gi].id, kind |-> queue[gi].kind,
                         took |-> queue[gi].args, used |-> Used(queue[gi])])
  /\ Fulfil(queue[gi])
  /\ gi' = gi + 1
  /\ UNCHANGED <<sem0, sem1, shm, callerVars, runnerVars, gpc, queue>>

(* A fault: the queue is not cleared after its tasks have run.             *)
UnlockKeepsQueue ==
  /\ gpc = "run"
  /\ gi > Len(queue)
  /\ gpc' = "out" /\ gi' = 1
  /\ UNCHANGED <<sem0, sem1, shm, callerVars, runnerVars, log, promise, queue>>

Unlock ==
  /\ gpc = "run"
  /\ gi > Len(queue)
  /\ queue' = <<>>
  /\ gpc' = "out" /\ gi' = 1
  /\ UNCHANGED <<sem0, sem1, shm, callerVars, runnerVars, log, promise>>

GameStep == InitSem0 \/ InitSem1 \/ Run \/ Timer \/ RunTask \/ Unlock

Next ==
  \/ \E c \in Callers : BeginSend(c) \/ CallerStep(c)
  \/ RunnerStep
  \/ GameStep

Spec == Init /\ [][Next]_vars

(***************************************************************************)
(* A caller that has begun a send goes on, the runner goes on, and the     *)
(* game thread ends what it has begun: nobody has to send, the game need   *)
(* not ever install the server or call its timer method.  The mutex is     *)
(* taken again and again by the timer, so that the runner's wait for it is *)
(* only strongly fair: it is free between two frames of the game.          *)
(***************************************************************************)
Fairness ==
  /\ \A c \in Callers : WF_vars(CallerStep(c))
  /\ WF_vars(RunnerStep) /\ SF_vars(CallSync)
  /\ WF_vars(InitSem1 \/ Run \/ RunTask \/ Unlock)

FairSpec == Spec /\ Fairness

-----------------------------------------------------------------------------
TypeOK ==
  /\ sem0 \in {0, 1} /\ sem1 \in {0, 1}
  /\ shm \in [type : AllKinds \cup {"RESULT"}, args : Requests, ans : Answers]
  /\ pc \in [Callers -> {"out", "copy", "ring", "wait", "take"}]
  /\ todo \in [Callers -> SUBSET {"type", "args"}]
  /\ cur \in [Callers -> Requests]
  /\ got \in [Callers -> Answers]
  /\ nsent \in 0..MaxSends
  /\ rpc \in {"off", "idle", "dispatch", "call", "await", "post"}
  /\ job \in [kind : AllKinds, args : Requests]
  /\ promise \in [id : Nat, ready : BOOLEAN, of : Requests]
  /\ gpc \in {"init0", "init1", "start", "out", "run"} /\ gi \in Nat \ {0}
  /\ queue \in Seq(Tasks)
  /\ ntasks \in Nat
  /\ log \in Seq([id : Nat, kind : AllKinds, took : Requests, used : Requests])
  /\ handled \in [0..MaxSends -> Nat]
  /\ clean \in Callers \cup {Nobody}


-----------------------------------------------------------------------------
(* The server owns the segment exactly while semaphore 1 is up: from its   *)
(* pick-up to its second semop (ipc.cpp:365-389) semaphore 0 is down, so   *)
(* no caller can ring, and the second semop never has to block.            *)
ServerOwnsSegment ==
  /\ rpc \in {"dispatch", "call", "await", "post"} <=> sem1 = 1
  /\ sem1 = 1 => sem0 = 0
  /\ rpc = "off" <=> gpc \in {"init0", "init1", "start"}

(* A command sent while the server was idle and nobody else was sending is *)
(* what the server dispatches: neither torn, nor overwritten by the answer *)
(* to an earlier command, nor replaced by a stale one (bot_client.cpp:316, *)
(* ipc.cpp:199).                                                           *)
IntactDispatch ==
  clean # Nobody /\ rpc = "dispatch" =>
    shm.type = cur[clean].kind /\ shm.args = cur[clean]

(* Such a command is dispatched at most once, and once exactly when its    *)
(* caller has left and the server is idle again, even if the caller gave   *)
(* up early: it is neither lost nor repeated (ipc.cpp:365-389).            *)
CleanHandledOnce ==
  clean # Nobody =>
    /\ handled[cur[clean].n] <= 1
    /\ pc[clean] = "out" /\ Idle => handled[cur[clean].n] = 1

(* The answer such a command is given is its own, however late the tasks   *)
(* of earlier commands run: what the caller reads is its own result, its   *)
(* own error, or its own request unanswered, never another command's       *)
(* (bot_client.cpp:347, ipc.cpp:225-236 and 343-351).                      *)
CleanNotMisanswered ==
  clean # Nobody => got[clean].of = cur[clean]

(* The game thread runs every queued task once, in the order of call_sync, *)
(* although it empties the queue only after the last (darkorbit.cpp:157):  *)
(* a packaged_task invoked a second time would throw.                      *)
TasksOnceInOrder ==
  \A i, j \in DOMAIN log : i < j => log[i].id < log[j].id

(* The two semaphores implement the abstract bell.                         *)
Bell == INSTANCE Doorbell WITH
  phase <- CASE gpc = "init0"                          -> "off"
             [] gpc # "init0" /\ sem0 = 1              -> "idle"
             [] gpc # "init0" /\ sem0 # 1 /\ sem1 = 0  -> "rung"
             [] gpc # "init0" /\ sem0 # 1 /\ sem1 # 0  -> "serving"

(* No ring is lost, doubled, or begun before the previous one has been     *)
(* served (bot_client.cpp:322, ipc.cpp:369 and 384).                       *)
BellSafety == Bell!SafetySpec

(* Every ring is picked up and every service ends, although the game       *)
(* thread may never run the task: the handler's wait is bounded.           *)
BellLiveness == Bell!Spec

(* SendFlashCommand always returns, whether or not there is a server on    *)
(* the other side: both of its waits are bounded (bot_client.cpp:323, 336).*)
SendReturns == \A c \in Callers : pc[c] # "out" ~> pc[c] = "out"

(* What the code says and does not do.  "Notify", then "Wait", says the    *)
(* client (bot_client.cpp:321 and 334): a caller told that the wait is     *)
(* over, and about to read its answer, was served, at least if the server  *)
(* was idle and nobody else was sending when it began.                     *)
WaitMeansHandled ==
  clean # Nobody /\ pc[clean] = "take" => handled[cur[clean].n] = 1

(* The handler refuses a call on a "null object" (ipc.cpp:205-211): no     *)
(* method is ever called on one.                                           *)
NullObjectRejected ==
  \A i \in DOMAIN log :
    log[i].kind = "CALL" /\ log[i].used.kind = "CALL" => ~log[i].used.bad

-----------------------------------------------------------------------------
(* The inductive invariant behind the safety properties, part by part.     *)

(* The server is given the segment by a ring, and keeps it to the end.     *)
Handover == ServerOwnsSegment /\ (gpc = "init0" => sem0 = 0)

(* Commands are numbered as they are begun; a later one was not dispatched.*)
Numbered ==
  /\ shm.args.n <= nsent
  /\ \A c \in Callers : cur[c].n <= nsent
  /\ \A n \in 0..MaxSends : n > nsent => handled[n] = 0

(* A part of a message is still to be copied exactly while copying.        *)
Copying == \A c \in Callers : pc[c] = "copy" <=> todo[c] # {}

(* The runner waits for nothing but the task it created last.              *)
Promised ==
  /\ rpc # "await" => promise = NoPromise
  /\ rpc = "await" => promise.id = ntasks
  /\ \A i \in DOMAIN queue : queue[i].id = promise.id => queue[i].args = job.args

(* Tasks wait in the order of their creation, behind those that have run.  *)
InOrder ==
  /\ gi \in 1..Len(queue) + 1
  /\ gpc # "run" => gi = 1
  /\ \A i \in DOMAIN queue : queue[i].id \in 1..ntasks
  /\ \A i, j \in DOMAIN queue : i < j => queue[i].id < queue[j].id
  /\ \A i \in DOMAIN log : log[i].id <= ntasks
  /\ \A i \in DOMAIN log, j \in gi..Len(queue) : log[i].id < queue[j].id
  /\ TasksOnceInOrder

(* How far the command of the clean caller has come.                       *)
CleanStage ==
  clean # Nobody =>
    /\ cur[clean].n = nsent
    /\ \A d \in Callers \ {clean} : pc[d] = "out"
    /\ rpc # "off"
    /\ got[clean].of = cur[clean]
    /\ pc[clean] \in {"copy", "ring"} => Idle /\ handled[nsent] = 0
    /\ "type" \notin todo[clean] /\ handled[nsent] = 0 => shm.type = cur[clean].kind
    /\ "args" \notin todo[clean] => shm.ans.of = cur[clean]
    /\ "args" \notin todo[clean] /\ (handled[nsent] = 0 \/ rpc \in {"call", "await"})
         => shm.args = cur[clean]
    /\ rpc = "dispatch" \/ (rpc = "idle" /\ sem0 = 0) => handled[nsent] = 0
    /\ rpc \in {"call", "await", "post"} => handled[nsent] = 1
    /\ pc[clean] \notin {"copy", "ring"} /\ Idle => handled[nsent] = 1
    /\ rpc \in {"call", "await"} => job.args = cur[clean]
    /\ promise.ready => promise.of = cur[clean]

IInv ==
  /\ TypeOK
  /\ Handover
  /\ Numbered
  /\ Copying
  /\ Promised
  /\ InOrder
  /\ CleanStage

===============================================================================
