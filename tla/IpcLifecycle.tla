----------------------------- MODULE IpcLifecycle -----------------------------
(***************************************************************************)
(* Installing, removing and installing again the server in a flash process *)
(* that lives on, or exits: Darkorbit::install and uninstall (do_lib/darkorbit.cpp), *)
(* Ipc::Init, Run, Remove and runner (do_lib/ipc.cpp), and one client that *)
(* finds, keeps and uses the shared objects (client/bot_client.cpp,        *)
(* SendFlashCommand).                                                      *)
(*                                                                         *)
(* The segment and the semaphore set are kernel objects found by a key,    *)
(* the pid of the flash process.  IPC_RMID takes the object off its key:   *)
(* the next shmget or semget creates another one.  A removed set is gone   *)
(* at once (every operation on it fails, blocked ones too); a removed      *)
(* segment lives on for those who have it attached.                        *)
(*                                                                         *)
(* What a message says is left to FlashChannel; here a segment holds at    *)
(* most the number of the last command copied into it.                     *)
(***************************************************************************)
EXTENDS Integers

CONSTANTS
  MaxInstalls,  \* bound on the number of installs
  MaxSends,     \* bound on the number of commands sent
  FreeInTask,   \* may a task run by the game free the code of a hooked method
  Failing       \* the calls of Ipc::Init that may fail

ASSUME LifecycleAssumption ==
  /\ MaxInstalls \in Nat /\ MaxSends \in Nat /\ FreeInTask \in BOOLEAN
  /\ Failing \subseteq {"shmget", "semget", "shmat"}

(* Every install creates at most one object of each sort, and the client   *)
(* at most one of each sort between two installs and after the last.       *)
Objects == 1..2 * MaxInstalls + 1
None == 0     \* also -1 where an id is kept
Bad == -1     \* (Message *)-1

VARIABLES
  segKey, setKey,   \* the segment and the set under the key, or None
  nsegs, nsets,     \* how many of each were ever created
  text,             \* text[g]: the last command copied into segment g
  set,              \* set[g]: the two semaphores of set g, and is it there
  installed,        \* m_installed
  running,          \* m_running
  shmid, sem,       \* m_shmid and m_sem: the server's segment and set
  shared,           \* m_shared: the segment attached
  rpc,              \* where the runner thread is, "none" if never started
  joinable,         \* m_runner_thread.joinable()
  pending,          \* the runner's task waits in m_async_calls
  ready,            \* the future the runner waits on
  gpc,              \* where the game thread is
  locked,           \* the game thread holds m_call_mut
  removes,          \* how many times the objects were removed
  leaving,          \* the process exits
  cpc,              \* where the client is in SendFlashCommand
  att, cset,        \* m_shared_mem_flash and m_flash_sem, None if unset
  nsent             \* number of commands begun

objectVars  == <<segKey, setKey, nsegs, nsets>>
kernelVars  == <<objectVars, text, set>>
runnerVars  == <<rpc, pending, ready>>
holdVars    == <<shmid, sem, shared>>
installVars == <<installed, holdVars, joinable, removes>>
gameVars    == <<installVars, gpc, locked, leaving>>
serverVars  == <<runnerVars, gameVars, running>>
heldVars    == <<att, cset, nsent>>
clientVars  == <<cpc, heldVars>>
otherVars   == <<runnerVars, clientVars, running>>   \* than the game's
vars == <<kernelVars, serverVars, clientVars>>

Init ==
  /\ segKey = None /\ setKey = None /\ nsegs = 0 /\ nsets = 0
  /\ text = [g \in Objects |-> 0]
  /\ set = [g \in Objects |-> [v0 |-> 0, v1 |-> 0, there |-> FALSE]]
  /\ installed = FALSE /\ running = FALSE
  /\ shmid = None /\ sem = None /\ shared = None
  /\ rpc = "none" /\ joinable = FALSE
  /\ pending = FALSE /\ ready = FALSE
  /\ gpc = "out" /\ locked = FALSE /\ removes = 0 /\ leaving = FALSE
  /\ cpc = "out" /\ att = None /\ cset = None /\ nsent = 0

(* shmget and semget with IPC_CREAT: the object under the key, or a new    *)
(* one.                                                                    *)
GetSegment ==
  /\ segKey' = IF segKey = None THEN nsegs + 1 ELSE segKey
  /\ nsegs' = IF segKey = None THEN nsegs + 1 ELSE nsegs

(* A fault: a set of one's own (IPC_PRIVATE), whatever is under the key.   *)
GetOwnSet ==
  /\ setKey' = nsets + 1
  /\ nsets' = nsets + 1
  /\ set' = [set EXCEPT ![nsets + 1].there = TRUE]

GetSet ==
  /\ setKey' = IF setKey = None THEN nsets + 1 ELSE setKey
  /\ nsets' = IF setKey = None THEN nsets + 1 ELSE nsets
  /\ set' = IF setKey = None THEN [set EXCEPT ![nsets + 1].there = TRUE] ELSE set

-----------------------------------------------------------------------------
(* The game thread: Darkorbit::install, in the hook of a method of the     *)
(* application (notify_jit), and Darkorbit::uninstall.                     *)

(* A fault: the segment of the last install is kept, as the client does.   *)
InitKeepsSegment ==
  /\ gpc = "out" /\ ~locked
  /\ removes < MaxInstalls
  /\ IF running
     THEN /\ installed' = TRUE
          /\ UNCHANGED <<kernelVars, holdVars, gpc>>
     ELSE /\ GetSegment /\ GetSet
          /\ shmid' = segKey' /\ sem' = setKey'
          /\ shared' = IF shared = None THEN segKey' ELSE shared
          /\ gpc' = "setval0"
          /\ UNCHANGED <<text, installed>>
  /\ UNCHANGED <<otherVars, joinable, locked, removes, leaving>>

(* Ipc::Init unless a runner is running, up to shmat.  The method install  *)
(* is hooked into may be called again and again.                           *)
InitObjects ==
  /\ gpc = "out" /\ ~locked
  /\ removes < MaxInstalls
  /\ IF running
     THEN /\ installed' = TRUE
          /\ UNCHANGED <<kernelVars, holdVars, gpc>>
     ELSE /\ GetSegment /\ GetSet
          /\ shmid' = segKey' /\ sem' = setKey' /\ shared' = segKey'
          /\ gpc' = "setval0"
          /\ UNCHANGED <<text, installed>>
  /\ UNCHANGED <<otherVars, joinable, locked, removes, leaving>>

(* One of its calls fails: install says that it has succeeded all the same. *)
InitFails(call) ==
  /\ gpc = "out" /\ ~locked
  /\ removes < MaxInstalls
  /\ ~running
  /\ installed' = TRUE
  /\ \/ /\ call = "shmget"
        /\ shmid' = None
        /\ UNCHANGED <<objectVars, set, sem, shared>>
     \/ /\ call = "semget"
        /\ GetSegment
        /\ shmid' = segKey' /\ sem' = None
        /\ UNCHANGED <<setKey, nsets, set, shared>>
     \/ /\ call = "shmat"
        /\ GetSegment /\ GetSet
        /\ shmid' = segKey' /\ sem' = setKey' /\ shared' = Bad
  /\ UNCHANGED <<otherVars, text, joinable, gpc, locked, removes, leaving>>

SetVal0 ==
  /\ gpc = "setval0"
  /\ set' = [set EXCEPT ![sem].v0 = 1]
  /\ gpc' = "setval1"
  /\ UNCHANGED <<objectVars, installVars, otherVars, text, locked, leaving>>

SetVal1 ==
  /\ gpc = "setval1"
  /\ set' = [set EXCEPT ![sem].v1 = 0]
  /\ gpc' = "run"
  /\ UNCHANGED <<objectVars, installVars, otherVars, text, locked, leaving>>

(* Ipc::Run.  Assigning to a std::thread that was not joined terminates    *)
(* the process.                                                            *)
Run ==
  /\ gpc = "run"
  /\ running' = TRUE
  /\ \/ /\ joinable
        /\ gpc' = "terminated"
        /\ UNCHANGED <<rpc, joinable, installed>>
     \/ /\ ~joinable
        /\ rpc' = "loop" /\ joinable' = TRUE /\ installed' = TRUE
        /\ gpc' = "out"
  /\ UNCHANGED <<kernelVars, clientVars, pending, ready, holdVars, locked,
                 removes, leaving>>

(* The hooked timer method: the tasks are run under m_call_mut.            *)
Timer ==
  /\ gpc = "out" /\ installed
  /\ ~locked
  /\ locked' = TRUE
  /\ UNCHANGED <<kernelVars, installVars, otherVars, gpc, leaving>>

RunTask ==
  /\ gpc = "out" /\ locked
  /\ pending
  /\ pending' = FALSE
  /\ ready' = (rpc = "await")
  /\ UNCHANGED <<kernelVars, gameVars, clientVars, rpc, running>>

Unlock ==
  /\ gpc = "out" /\ locked
  /\ ~pending
  /\ locked' = FALSE
  /\ UNCHANGED <<kernelVars, installVars, otherVars, gpc, leaving>>

(* Darkorbit::uninstall, when the code of a hooked method is freed: the    *)
(* hooks are taken out, then Ipc::Remove runs.  A method is hooked before  *)
(* the first install already, the one that install is called from.         *)
Uninstall ==
  /\ gpc = "out"
  /\ locked => FreeInTask
  /\ gpc' = IF shared # None THEN "rmseg" ELSE "check"
  /\ UNCHANGED <<kernelVars, installVars, otherVars, locked, leaving>>

(* lib_dtor: the process exits, and the library uninstalls everything; what *)
(* ~Ipc then removes is gone already.                                      *)
Exit ==
  /\ gpc = "out" /\ ~locked
  /\ leaving' = TRUE
  /\ gpc' = IF shared # None THEN "rmseg" ELSE "check"
  /\ UNCHANGED <<kernelVars, installVars, otherVars, locked>>

Done == IF leaving THEN "terminated" ELSE "out"

(* shmctl and semctl with IPC_RMID, by identifier: without effect on an    *)
(* object that was removed before, or was never there.                     *)
RemoveSegment ==
  /\ gpc = "rmseg"
  /\ segKey' = IF segKey = shmid THEN None ELSE segKey
  /\ removes' = IF segKey' # segKey /\ sem = None THEN removes + 1 ELSE removes
  /\ gpc' = "rmset"
  /\ UNCHANGED <<otherVars, setKey, nsegs, nsets, text, set, installed, holdVars,
                 joinable, locked, leaving>>

RemoveSet ==
  /\ gpc = "rmset"
  /\ setKey' = IF setKey = sem THEN None ELSE setKey
  /\ set' = [g \in Objects |-> [set[g] EXCEPT !.there = @ /\ g # sem]]
  /\ removes' = IF set' # set THEN removes + 1 ELSE removes
  /\ gpc' = "check"
  /\ UNCHANGED <<otherVars, segKey, nsegs, nsets, text, installed, holdVars,
                 joinable, locked, leaving>>

(* A fault: the runner is left alone.                                      *)
CheckWithoutJoin ==
  /\ gpc = "check"
  /\ running' = FALSE
  /\ gpc' = Done /\ installed' = FALSE
  /\ UNCHANGED <<kernelVars, runnerVars, clientVars, holdVars, joinable, locked,
                 removes, leaving>>

(* m_running is read after the runner has been woken: it may have cleared  *)
(* the flag itself, and then nobody joins it.                              *)
Check ==
  /\ gpc = "check"
  /\ IF running
     THEN /\ running' = FALSE
          /\ gpc' = IF joinable THEN "join" ELSE Done
     ELSE gpc' = Done /\ UNCHANGED running
  /\ installed' = (gpc' = "join")
  /\ UNCHANGED <<kernelVars, runnerVars, clientVars, holdVars, joinable, locked,
                 removes, leaving>>

Join ==
  /\ gpc = "join"
  /\ rpc = "done"
  /\ joinable' = FALSE
  /\ installed' = FALSE
  /\ gpc' = Done
  /\ UNCHANGED <<kernelVars, otherVars, holdVars, locked, removes, leaving>>

GameStep ==
  \/ InitObjects \/ SetVal0 \/ SetVal1 \/ Run
  \/ \E call \in Failing : InitFails(call)
  \/ Timer \/ RunTask \/ Unlock
  \/ Uninstall \/ Exit \/ RemoveSegment \/ RemoveSet \/ Check \/ Join

-----------------------------------------------------------------------------
(* The runner thread: Ipc::runner.  It dies with the process.              *)

Alive == gpc # "terminated"

Loop ==
  /\ rpc = "loop" /\ Alive
  /\ rpc' = IF running THEN "idle" ELSE "done"
  /\ UNCHANGED <<kernelVars, gameVars, clientVars, pending, ready, running>>

PickUp ==
  /\ rpc = "idle" /\ Alive
  /\ set[sem].there /\ set[sem].v0 = 0
  /\ set' = [set EXCEPT ![sem].v1 = @ + 1]
  /\ rpc' = "dispatch"
  /\ UNCHANGED <<objectVars, gameVars, clientVars, text, pending, ready,
                 running>>

(* A message that is refused or unknown needs no task.                     *)
Dispatch ==
  /\ rpc = "dispatch" /\ Alive
  /\ rpc' \in IF text[shared] = 0 THEN {"post"} ELSE {"call", "post"}
  /\ UNCHANGED <<kernelVars, gameVars, clientVars, pending, ready, running>>

(* call_sync needs m_call_mut.                                             *)
CallSync ==
  /\ rpc = "call" /\ Alive
  /\ ~locked
  /\ pending' = TRUE /\ ready' = FALSE
  /\ rpc' = "await"
  /\ UNCHANGED <<kernelVars, gameVars, clientVars, running>>

Answer ==
  /\ rpc = "await" /\ Alive
  /\ ready
  /\ rpc' = "post"
  /\ UNCHANGED <<kernelVars, gameVars, clientVars, pending, ready, running>>

(* A fault: the handler waits for its task without a limit.                *)
NoAnswerTimeout == FALSE

AnswerTimeout ==
  /\ rpc = "await" /\ Alive
  /\ ~ready
  /\ rpc' = "post"
  /\ UNCHANGED <<kernelVars, gameVars, clientVars, pending, ready, running>>

(* A fault: the second semop forgets to lower semaphore 1.                 *)
PostLeavesSem1 ==
  /\ rpc = "post" /\ Alive
  /\ set[sem].there /\ set[sem].v1 >= 1
  /\ set' = [set EXCEPT ![sem].v0 = @ + 1]
  /\ rpc' = "loop"
  /\ UNCHANGED <<objectVars, gameVars, clientVars, text, pending, ready,
                 running>>

Post ==
  /\ rpc = "post" /\ Alive
  /\ set[sem].there /\ set[sem].v1 >= 1
  /\ set' = [set EXCEPT ![sem].v0 = @ + 1, ![sem].v1 = @ - 1]
  /\ rpc' = "loop"
  /\ UNCHANGED <<objectVars, gameVars, clientVars, text, pending, ready,
                 running>>

(* Either semop fails once the set is removed, a blocked one included.     *)
SemopFails ==
  /\ rpc \in {"idle", "post"} /\ Alive
  /\ ~set[sem].there
  /\ running' = FALSE
  /\ rpc' = "done"
  /\ UNCHANGED <<kernelVars, gameVars, clientVars, pending, ready>>

RunnerStep ==
  \/ Loop \/ PickUp \/ Dispatch \/ CallSync \/ Answer \/ AnswerTimeout
  \/ Post \/ SemopFails

-----------------------------------------------------------------------------
(* The client: BotClient::SendFlashCommand.  IsValid has found the flash   *)
(* process, which it does as soon as the player is mapped into it: before  *)
(* the first install, maybe.                                               *)

Attach ==
  /\ cpc = "out" /\ Alive
  /\ nsent < MaxSends
  /\ nsent' = nsent + 1
  /\ GetSegment
  /\ att' = IF att = None THEN segKey' ELSE att
  /\ cpc' = "getset"
  /\ UNCHANGED <<serverVars, setKey, nsets, text, set, cset>>

ClientGetSet ==
  /\ cpc = "getset"
  /\ IF cset = None THEN GetSet /\ cset' = setKey'
                    ELSE UNCHANGED <<setKey, nsets, set, cset>>
  /\ cpc' = "copy"
  /\ UNCHANGED <<serverVars, segKey, nsegs, text, att, nsent>>

Copy ==
  /\ cpc = "copy"
  /\ text' = [text EXCEPT ![att] = nsent]
  /\ cpc' = "ring"
  /\ UNCHANGED <<objectVars, serverVars, heldVars, set>>

Ring ==
  /\ cpc = "ring"
  /\ set[cset].there /\ set[cset].v0 >= 1
  /\ set' = [set EXCEPT ![cset].v0 = @ - 1]
  /\ cpc' = "wait"
  /\ UNCHANGED <<objectVars, serverVars, heldVars, text>>

(* A timeout, or the failure of an operation on a removed set; what was    *)
(* attached stays attached, what was found is not looked for again.        *)
RingFails ==
  /\ cpc = "ring"
  /\ set[cset].there => set[cset].v0 = 0
  /\ cpc' = "out"
  /\ UNCHANGED <<kernelVars, serverVars, heldVars>>

Wait ==
  /\ cpc = "wait"
  /\ cpc' = "out"
  /\ UNCHANGED <<kernelVars, serverVars, heldVars>>

ClientStep == ClientGetSet \/ Copy \/ Ring \/ RingFails \/ Wait

Next == GameStep \/ RunnerStep \/ Attach \/ ClientStep

Spec == Init /\ [][Next]_vars

(* The steps the game thread takes once it has begun to install, to remove *)
(* or to run tasks; what begins those (a method called, a chunk freed) is  *)
(* up to the game.                                                         *)
GameGoesOn ==
  \/ SetVal0 \/ SetVal1 \/ Run \/ RunTask \/ Unlock
  \/ RemoveSegment \/ RemoveSet \/ Check \/ Join

(* The mutex is free between two runs of the queue: whoever waits for it   *)
(* gets it if it is freed again and again.                                 *)
FairSpec ==
  /\ Spec
  /\ WF_vars(GameGoesOn)
  /\ WF_vars(RunnerStep) /\ SF_vars(CallSync)
  /\ WF_vars(ClientStep)

-----------------------------------------------------------------------------
SemaphoreSets == [v0 : {0, 1}, v1 : {0, 1}, there : BOOLEAN]

KernelType ==
  /\ segKey \in Objects \cup {None} /\ setKey \in Objects \cup {None}
  /\ nsegs \in Nat /\ nsets \in Nat
  /\ text \in [Objects -> 0..MaxSends]
  /\ set \in [Objects -> SemaphoreSets]

HeldType ==
  /\ installed \in BOOLEAN /\ running \in BOOLEAN /\ joinable \in BOOLEAN
  /\ shmid \in Objects \cup {None} /\ sem \in Objects \cup {None}
  /\ shared \in Objects \cup {None, Bad}
  /\ removes \in Nat

ThreadType ==
  /\ rpc \in {"none", "loop", "idle", "dispatch", "call", "await", "post", "done"}
  /\ gpc \in {"out", "setval0", "setval1", "run", "rmseg", "rmset", "check",
              "join", "terminated"}
  /\ pending \in BOOLEAN /\ ready \in BOOLEAN
  /\ locked \in BOOLEAN /\ leaving \in BOOLEAN

ClientType ==
  /\ cpc \in {"out", "getset", "copy", "ring", "wait"}
  /\ att \in Objects \cup {None} /\ cset \in Objects \cup {None}
  /\ nsent \in 0..MaxSends

TypeOK == KernelType /\ HeldType /\ ThreadType /\ ClientType

-----------------------------------------------------------------------------
(* The parts of the inductive invariant.                                   *)
There(g) == g # None /\ set[g].there
Missing(key) == IF key = None THEN 1 ELSE 0

(* What is kept was created before, and the set under the key is there.    *)
SegmentsCreated ==
  /\ \A g \in {segKey, shmid, shared, att} : g <= nsegs
  /\ cpc \in {"getset", "copy", "ring", "wait"} => att # None

SetsCreated ==
  /\ \A g \in {setKey, sem, cset} : g <= nsets
  /\ \A g \in Objects : set[g].there => g <= nsets
  /\ setKey # None => There(setKey)
  /\ cpc \in {"copy", "ring", "wait"} => cset # None

Created == SegmentsCreated /\ SetsCreated

(* The server holds on to objects that are under the key in pairs: between *)
(* the removal of the segment and of the set, that of the set is to come.  *)
Paired ==
  /\ shmid # None /\ segKey = shmid /\ sem # None => There(sem)
  /\ gpc = "rmset" /\ shmid # None => segKey # shmid

(* One object at most for each removal, and one more; removals come after  *)
(* installs.                                                               *)
Counted ==
  /\ removes <= MaxInstalls
  /\ There(sem) \/ (shmid # None /\ segKey = shmid) => removes < MaxInstalls
  /\ nsets + Missing(setKey) <= removes + 1
  /\ nsegs + Missing(segKey) <=
       removes + 1 + IF gpc = "rmset" /\ There(sem) THEN 1 ELSE 0

(* The runner is at work while m_running is set, and only then or while it *)
(* is joined; what it is at, the semaphores tell.                          *)
Resting == rpc \in {"none", "done"}
Serving == rpc \in {"dispatch", "call", "await", "post"}

Threads ==
  Alive =>
    /\ running => ~Resting
    /\ ~Resting => running \/ gpc = "join"
    /\ running \/ gpc = "join" => joinable /\ sem # None
    /\ gpc = "join" => ~running
    /\ gpc \in {"setval0", "setval1", "run"} => ~running
    /\ ~Resting => set[sem].v1 = IF Serving THEN 1 ELSE 0
    /\ Serving => set[sem].v0 = 0
    /\ gpc = "run" => set[sem].v1 = 0

(* What is installed, or being installed, is under the key.                *)
Reachable ==
  /\ shmid # None /\ shared = shmid /\ segKey = shmid
  /\ sem # None /\ setKey = sem

(* A call of the last Init failed.                                         *)
InitFailed == shmid = None \/ sem = None \/ shared = Bad

Installed ==
  /\ gpc \in {"setval0", "setval1", "run"} => Reachable
  /\ gpc \in {"out", "rmseg"} /\ running => Reachable
  /\ gpc = "out" /\ running => installed
  /\ gpc = "out" /\ installed /\ ~running => InitFailed

(* Before the first removal everything found is what is under the key.     *)
FirstObjects ==
  removes = 0 =>
    /\ \A g \in {sem, cset} : g # None => setKey = g
    /\ (gpc = "rmset" => sem = None) =>
         \A g \in {shared, att} : g \in Objects => segKey = g

IInv ==
  /\ TypeOK /\ Created /\ Paired /\ Counted
  /\ Threads /\ Installed /\ FirstObjects

-----------------------------------------------------------------------------
(* When uninstall has returned, the runner is done with the segment, the   *)
(* queue and the process' memory, whether it was joined or not             *)
(* (darkorbit.cpp:451, ipc.cpp:178-187).                                   *)
RunnerQuiet == gpc = "out" /\ ~installed => rpc \in {"none", "done"}

(* An installed server is one a new client reaches: a runner waits on the  *)
(* very objects that are under the key, whoever created them, and however  *)
(* often they were removed before, or half made: unless a call of the last *)
(* Init failed, which install does not tell (darkorbit.cpp:425-434,        *)
(* ipc.cpp:135-153).                                                       *)
InstalledServes ==
  gpc = "out" /\ installed =>
    \/ InitFailed /\ ~running
    \/ /\ running /\ joinable /\ rpc \notin {"none", "done"}
       /\ shared = shmid /\ segKey = shmid /\ setKey = sem /\ set[sem].there

(* Until the first removal begins, client and server share one segment and *)
(* one set, in whichever order they looked them up and created them        *)
(* (ipc.cpp:135-141, bot_client.cpp:289-307).                              *)
MeetFirst ==
  removes = 0 /\ gpc # "rmset" =>
    /\ att # None /\ shared \in Objects => att = shared
    /\ cset # None /\ sem # None => cset = sem

(* Uninstalling outside the call queue, or to exit, returns: the runner it *)
(* waits for is not waiting for the game thread in turn, or only as long   *)
(* as the future's five seconds (ipc.cpp:178-187 and 225).                 *)
Removing == gpc \in {"rmseg", "rmset", "check", "join"}

RemoveReturns == Removing /\ ~locked ~> gpc \in {"out", "terminated"}

(* "[Ipc::Remove] waiting for runner thread to stop" (ipc.cpp:180): it     *)
(* stops, and uninstall returns, wherever it was called from.              *)
RemoveAlwaysReturns == Removing ~> gpc \in {"out", "terminated"}

(* "[Ipc::Remove] waiting for runner thread to stop" (ipc.cpp:180): after  *)
(* uninstall there is no thread left to join.                              *)
RunnerJoined == gpc = "out" /\ ~installed => ~joinable

===============================================================================
