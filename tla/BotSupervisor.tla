----------------------------- MODULE BotSupervisor -----------------------------
(***************************************************************************)
(* The client as the keeper of processes (client/bot_client.cpp: IsValid,  *)
(* LaunchBrowser, SendBrowserCommand, find_flash_process, reset, and what  *)
(* SendFlashCommand looks up; client/sock_ipc.cpp).  It launches a browser *)
(* and finds the flash process the browser has started; both may end at    *)
(* any time, and what the client keeps of them, their pids, the browser's  *)
(* socket, the attached segment and the set, must follow.                  *)
(*                                                                         *)
(* Segments and sets are named by their key, the pid of a flash process.   *)
(* They outlive it, so that a command can be sent to a process that is no  *)
(* more.  The server's side of them is in IpcLifecycle.                    *)
(***************************************************************************)
EXTENDS Naturals, FiniteSets

CONSTANTS
  MaxCreates,  \* bound on the calls of createWindow
  MaxDeaths,   \* bound on the browsers that end by themselves
  MaxFlash,    \* bound on the flash processes ever started
  Failing      \* the system calls that fail, once each

ASSUME SupervisorAssumption ==
  /\ MaxCreates \in Nat /\ MaxDeaths \in Nat /\ MaxFlash \in Nat
  /\ Failing \subseteq {"fork", "shmget", "shmat", "semget"}

(* Pids, not used again.  A browser is launched for each createWindow, and *)
(* for each browser that has ended.                                        *)
Browsers == 1..MaxCreates + MaxDeaths
FlashPids == MaxCreates + MaxDeaths + 1..MaxCreates + MaxDeaths + MaxFlash
None == 0

(* Of a process: not yet there, running (and, for a flash process, with    *)
(* the player mapped), ended but not waited for, and waited for.           *)
Life == {"none", "up", "zombie", "gone"}

VARIABLES
  browser,   \* the life of each browser
  nb,        \* the last browser launched
  flash,     \* the life of each flash process
  parent,    \* the browser each flash process descends from
  handler,   \* sigchld_handler is installed
  sigchld,   \* SIGCHLD is pending
  bpid,      \* m_browser_pid
  fpid,      \* m_flash_pid
  peer,      \* the browser m_browser_ipc is connected to
  att,       \* m_shared_mem_flash, by the pid that is its key
  cset,      \* m_flash_sem, likewise
  pc,        \* where the client is
  op,        \* the method the bot has called
  creates,   \* how often createWindow was called
  failed,    \* the system calls that have failed
  missed,    \* history: a browser's end raised no SIGCHLD of its own
  mapped,    \* history: segments attached and not detached
  made,      \* history: sets looked up and not removed
  forgot     \* history: m_flash_pid was dropped without a reset since

worldVars  == <<browser, nb, flash, parent, sigchld, missed>>
shmVars    == <<att, cset, mapped, made>>
keptVars   == <<handler, bpid, fpid, peer>>
countVars  == <<creates, failed, forgot>>
clientVars == <<shmVars, keptVars, pc, op, countVars>>
vars == <<worldVars, clientVars>>

Init ==
  /\ browser = [b \in Browsers |-> "none"] /\ nb = 0
  /\ flash = [f \in FlashPids |-> "none"]
  /\ parent = [f \in FlashPids |-> None]
  /\ handler = FALSE /\ sigchld = FALSE /\ missed = FALSE
  /\ bpid = None /\ fpid = None /\ peer = None /\ att = None /\ cset = None
  /\ pc = "out" /\ op = "none" /\ creates = 0 /\ failed = {}
  /\ mapped = {} /\ made = {} /\ forgot = FALSE

(* ProcessExists: there is a /proc/<pid>, and there is one for a zombie.   *)
BrowserLost == bpid # None /\ browser[bpid] = "gone"
FlashLost == flash[fpid] = "gone"

Up == {b \in Browsers : browser[b] = "up"}
Ended == {b \in Browsers : browser[b] \in {"zombie", "gone"}}

MayFail(call) == call \in Failing \ failed
Fails(call) == MayFail(call) /\ failed' = failed \cup {call}

-----------------------------------------------------------------------------
(* The processes.                                                          *)

SpawnFlash(f, b) ==
  /\ flash[f] = "none"
  /\ f - 1 \in FlashPids => flash[f - 1] # "none"
  /\ browser[b] = "up"
  /\ flash' = [flash EXCEPT ![f] = "up"]
  /\ parent' = [parent EXCEPT ![f] = b]
  /\ UNCHANGED <<clientVars, browser, nb, sigchld, missed>>

FlashEnds(f) ==
  /\ flash[f] = "up"
  /\ flash' = [flash EXCEPT ![f] = "zombie"]
  /\ UNCHANGED <<clientVars, browser, nb, parent, sigchld, missed>>

(* Its parent in the browser, or init, waits for it.                       *)
FlashReaped(f) ==
  /\ flash[f] = "zombie"
  /\ flash' = [flash EXCEPT ![f] = "gone"]
  /\ UNCHANGED <<clientVars, browser, nb, parent, sigchld, missed>>

(* The browser is the bot's child: its end raises SIGCHLD, which is        *)
(* discarded as long as there is no handler, and is kept once at most.     *)
BrowserEnds(b) ==
  /\ browser[b] = "up"
  /\ Cardinality(Ended) < MaxDeaths
  /\ pc # "exited"
  /\ browser' = [browser EXCEPT ![b] = "zombie"]
  /\ sigchld' = (sigchld \/ handler)
  /\ missed' = (missed \/ sigchld \/ ~handler)
  /\ UNCHANGED <<clientVars, nb, flash, parent>>

Zombies == {b \in Browsers : browser[b] = "zombie"}

(* A fault: the handler looks at the status of the signal only.            *)
HandlerWaitsForNone ==
  /\ sigchld /\ pc # "exited"
  /\ sigchld' = FALSE
  /\ UNCHANGED <<clientVars, browser, nb, flash, parent, missed>>

(* sigchld_handler waits for one child, whichever it is, however many have *)
(* ended; there is one, the one whose end raised the signal.               *)
SigchldHandler ==
  /\ sigchld /\ pc # "exited"
  /\ sigchld' = FALSE
  /\ \E b \in Zombies : browser' = [browser EXCEPT ![b] = "gone"]
  /\ UNCHANGED <<clientVars, nb, flash, parent, missed>>

World ==
  \/ \E f \in FlashPids : FlashEnds(f) \/ FlashReaped(f)
  \/ \E f \in FlashPids, b \in Browsers : SpawnFlash(f, b)
  \/ \E b \in Browsers : BrowserEnds(b)
  \/ SigchldHandler

-----------------------------------------------------------------------------
(* The bot calls a method: createWindow; isValid; one that sends the       *)
(* browser a command; one that sends the flash process a command; one that *)
(* searches its memory.                                                    *)

CreateWindow ==
  /\ pc = "out"
  /\ creates < MaxCreates
  /\ creates' = creates + 1
  /\ op' = "create" /\ pc' = "launch"
  /\ UNCHANGED <<worldVars, shmVars, keptVars, failed, forgot>>

CallIsValid ==
  /\ pc = "out"
  /\ op' = "isValid" /\ pc' = "isValid"
  /\ UNCHANGED <<worldVars, shmVars, keptVars, countVars>>

CallFlash ==
  /\ pc = "out"
  /\ op' = "flash" /\ pc' = "isValid"
  /\ UNCHANGED <<worldVars, shmVars, keptVars, countVars>>

CallBrowser ==
  /\ pc = "out"
  /\ op' = "browser" /\ pc' = "command"
  /\ UNCHANGED <<worldVars, shmVars, keptVars, countVars>>

QueryMemory ==
  /\ pc = "out"
  /\ fpid = None
  /\ op' = "query" /\ pc' = "find"
  /\ UNCHANGED <<worldVars, shmVars, keptVars, countVars>>

(* The static client is destroyed with the bot.                            *)
Exit ==
  /\ pc = "out"
  /\ browser' = IF bpid # None /\ browser[bpid] = "up"
                THEN [browser EXCEPT ![bpid] = "zombie"] ELSE browser
  /\ pc' = "exited"
  /\ UNCHANGED <<shmVars, keptVars, countVars, nb, flash, parent, sigchld,
                 missed, op>>

-----------------------------------------------------------------------------
(* LaunchBrowser: "launch" from createWindow and IsValid, "restart" from   *)
(* SendBrowserCommand, which then drops the flash pid.                     *)

(* SendBrowserCommand returns to the bot, or to IsValid.                   *)
CommandReturns == pc' = IF op = "browser" THEN "out" ELSE "reset"

(* A fault: half a reset.                                                  *)
LaunchReturnsDetached(restart) ==
  IF restart THEN /\ fpid' = None /\ forgot' = TRUE
                  /\ att' = None /\ mapped' = {}
                  /\ CommandReturns
                  /\ UNCHANGED <<cset, made>>
             ELSE pc' = "out" /\ UNCHANGED <<shmVars, fpid, forgot>>

LaunchReturns(restart) ==
  /\ IF restart THEN fpid' = None /\ forgot' = TRUE /\ CommandReturns
                ELSE pc' = "out" /\ UNCHANGED <<fpid, forgot>>
  /\ UNCHANGED shmVars

Fork ==
  /\ pc \in {"launch", "restart"}
  /\ nb' = nb + 1
  /\ browser' = [browser EXCEPT ![nb + 1] = "up"]
  /\ pc' = IF pc = "launch" THEN "launched" ELSE "restarted"
  /\ UNCHANGED <<shmVars, keptVars, countVars, flash, parent, sigchld, missed,
                 op>>

ForkFails ==
  /\ pc \in {"launch", "restart"}
  /\ Fails("fork")
  /\ LaunchReturns(pc = "restart")
  /\ UNCHANGED <<worldVars, handler, bpid, peer, op, creates>>

(* The parent installs the handler, and only then.                         *)
Launched ==
  /\ pc \in {"launched", "restarted"}
  /\ handler' = TRUE
  /\ bpid' = nb
  /\ LaunchReturns(pc = "restarted")
  /\ UNCHANGED <<worldVars, peer, op, creates, failed>>

-----------------------------------------------------------------------------
(* IsValid.                                                                *)

(* It is true: the method goes on.                                         *)
Valid == pc' = IF op = "flash" THEN "attach" ELSE "out"

CheckBrowser ==
  /\ pc = "isValid"
  /\ pc' = IF BrowserLost THEN "launch"
           ELSE IF fpid = None THEN "find" ELSE "checkFlash"
  /\ UNCHANGED <<worldVars, shmVars, keptVars, countVars, op>>

(* Descendants of the browser that are running: the children of a process  *)
(* that has ended are init's.                                              *)
Candidates ==
  {f \in FlashPids : /\ flash[f] = "up"
                     /\ parent[f] = bpid /\ bpid # None /\ browser[bpid] = "up"}

Players == {f \in FlashPids : flash[f] = "up"}

(* find_flash_process, as far as it ends: it takes the first process of    *)
(* /proc that is one of the browser's, or one that IsChildOf takes for it  *)
(* after it has read a number that is nobody's parent (ProcScan).          *)
Find ==
  /\ pc = "find"
  /\ \/ /\ Candidates = {}
        /\ pc' = "out" /\ UNCHANGED fpid
     \/ /\ fpid' \in Players
        /\ Valid
  /\ UNCHANGED <<worldVars, shmVars, countVars, handler, bpid, peer, op>>

(* IsChildOf goes round for ever; ProcScan's FindEnds says when.           *)
FindSpins ==
  /\ pc = "find"
  /\ pc' = "searching"
  /\ UNCHANGED <<worldVars, shmVars, keptVars, countVars, op>>

(* A fault: any process that is there is refreshed.                        *)
CheckFlashAlways ==
  /\ pc = "checkFlash"
  /\ pc' = "command"
  /\ UNCHANGED <<worldVars, shmVars, keptVars, countVars, op>>

CheckFlash ==
  /\ pc = "checkFlash"
  /\ IF FlashLost THEN pc' = "command" ELSE Valid
  /\ UNCHANGED <<worldVars, shmVars, keptVars, countVars, op>>

(* Faults: the set is kept, forgotten without a removal, the pid kept.     *)
ResetKeepsSet ==
  /\ pc = "reset"
  /\ att' = None /\ mapped' = mapped \ {att}
  /\ fpid' = None /\ forgot' = FALSE
  /\ pc' = "out"
  /\ UNCHANGED <<worldVars, cset, made, handler, bpid, peer, op, creates,
                 failed>>

ResetLeavesSet ==
  /\ pc = "reset"
  /\ att' = None /\ mapped' = mapped \ {att}
  /\ cset' = None
  /\ fpid' = None /\ forgot' = FALSE
  /\ pc' = "out"
  /\ UNCHANGED <<worldVars, made, handler, bpid, peer, op, creates, failed>>

ResetKeepsPid ==
  /\ pc = "reset"
  /\ att' = None /\ mapped' = mapped \ {att}
  /\ cset' = None /\ made' = made \ {cset}
  /\ forgot' = FALSE
  /\ pc' = "out"
  /\ UNCHANGED <<worldVars, keptVars, op, creates, failed>>

(* reset detaches the segment and removes the set; IsValid is false.       *)
Reset ==
  /\ pc = "reset"
  /\ att' = None /\ mapped' = mapped \ {att}
  /\ cset' = None /\ made' = made \ {cset}
  /\ fpid' = None /\ forgot' = FALSE
  /\ pc' = "out"
  /\ UNCHANGED <<worldVars, handler, bpid, peer, op, creates, failed>>

-----------------------------------------------------------------------------
(* SendBrowserCommand.                                                     *)

Command ==
  /\ pc = "command"
  /\ \/ BrowserLost /\ pc' = "restart"
     \/ ~BrowserLost /\ peer # None /\ pc' = "write"
     \/ ~BrowserLost /\ peer = None /\ bpid # None /\ pc' = "connect"
     \/ ~BrowserLost /\ peer = None /\ bpid = None /\ CommandReturns
  /\ UNCHANGED <<worldVars, shmVars, keptVars, countVars, op>>

Connect ==
  /\ pc = "connect"
  /\ browser[bpid] = "up"
  /\ peer' = bpid
  /\ pc' = "write"
  /\ UNCHANGED <<worldVars, shmVars, countVars, handler, bpid, fpid, op>>

(* A fault: a browser that does not answer is launched again.              *)
ConnectFailsRestarts ==
  /\ pc = "connect"
  /\ nb < MaxCreates + MaxDeaths
  /\ pc' = "restart"
  /\ UNCHANGED <<worldVars, shmVars, keptVars, countVars, op>>

(* The browser has ended, or does not listen yet.                          *)
ConnectFails ==
  /\ pc = "connect"
  /\ CommandReturns
  /\ UNCHANGED <<worldVars, shmVars, keptVars, countVars, op>>

(* SockIpc::Send: nothing is told of a peer that has ended.                *)
Write ==
  /\ pc = "write"
  /\ CommandReturns
  /\ UNCHANGED <<worldVars, shmVars, keptVars, countVars, op>>

-----------------------------------------------------------------------------
(* SendFlashCommand, after IsValid.  shmget is called each time, and used  *)
(* only if nothing is attached.                                            *)

(* A fault: the objects are looked up under the browser's pid.             *)
AttachByBrowser ==
  /\ pc = "attach"
  /\ att' = IF att = None THEN bpid ELSE att
  /\ mapped' = IF att = None THEN mapped \cup {bpid} ELSE mapped
  /\ pc' = "getset"
  /\ UNCHANGED <<worldVars, keptVars, countVars, cset, made, op>>

Attach ==
  /\ pc = "attach"
  /\ att' = IF att = None THEN fpid ELSE att
  /\ mapped' = IF att = None THEN mapped \cup {fpid} ELSE mapped
  /\ pc' = "getset"
  /\ UNCHANGED <<worldVars, keptVars, countVars, cset, made, op>>

(* After a failed shmat the pointer is -1, which counts as nothing         *)
(* attached; the segment that shmget may have created remains.             *)
AttachFails ==
  /\ pc = "attach"
  /\ Fails("shmget") \/ (att = None /\ Fails("shmat"))
  /\ pc' = "out"
  /\ UNCHANGED <<worldVars, shmVars, keptVars, op, creates, forgot>>

GetSet ==
  /\ pc = "getset"
  /\ cset' = IF cset = None THEN fpid ELSE cset
  /\ made' = IF cset = None THEN made \cup {fpid} ELSE made
  /\ pc' = "ring"
  /\ UNCHANGED <<worldVars, keptVars, countVars, att, mapped, op>>

GetSetFails ==
  /\ pc = "getset"
  /\ cset = None
  /\ Fails("semget")
  /\ fpid' = None /\ forgot' = TRUE
  /\ pc' = "out"
  /\ UNCHANGED <<worldVars, shmVars, handler, bpid, peer, op, creates>>

(* The copy into att, the semaphores of cset: FlashChannel's.              *)
Ring ==
  /\ pc = "ring"
  /\ pc' = "out"
  /\ UNCHANGED <<worldVars, shmVars, keptVars, countVars, op>>

Calls == CreateWindow \/ CallIsValid \/ CallFlash \/ CallBrowser \/ QueryMemory

BotStep ==
  \/ Fork \/ ForkFails \/ Launched
  \/ CheckBrowser \/ Find \/ FindSpins \/ CheckFlash \/ Reset
  \/ Command \/ Connect \/ ConnectFails \/ Write
  \/ Attach \/ AttachFails \/ GetSet \/ GetSetFails \/ Ring

Next == World \/ Calls \/ BotStep \/ Exit

Spec == Init /\ [][Next]_vars

(* The bot asks again and again whether its window is valid; a signal is   *)
(* delivered, a child of the browser or of init is waited for.             *)
FairSpec ==
  /\ Spec
  /\ WF_vars(BotStep)
  /\ SF_vars(CallIsValid)
  /\ WF_vars(SigchldHandler)
  /\ \A f \in FlashPids : WF_vars(FlashReaped(f))

-----------------------------------------------------------------------------
WorldType ==
  /\ browser \in [Browsers -> Life] /\ nb \in Browsers \cup {0}
  /\ flash \in [FlashPids -> Life]
  /\ parent \in [FlashPids -> Browsers \cup {None}]
  /\ sigchld \in BOOLEAN /\ missed \in BOOLEAN

KeptType ==
  /\ bpid \in Browsers \cup {None} /\ peer \in Browsers \cup {None}
  /\ fpid \in FlashPids \cup {None}
  /\ att \in FlashPids \cup {None} /\ cset \in FlashPids \cup {None}
  /\ mapped \subseteq FlashPids /\ made \subseteq FlashPids
  /\ failed \subseteq Failing

PlaceType ==
  /\ pc \in {"out", "isValid", "launch", "launched", "restart", "restarted",
             "find", "searching", "checkFlash", "command", "connect", "write",
             "reset", "attach", "getset", "ring", "exited"}
  /\ op \in {"none", "create", "isValid", "flash", "browser", "query"}
  /\ creates \in 0..MaxCreates
  /\ handler \in BOOLEAN /\ forgot \in BOOLEAN

TypeOK == WorldType /\ KeptType /\ PlaceType

(* What the client has attached and looked up is the flash process' whose  *)
(* pid it keeps, unless that pid was dropped without a reset: by a restart *)
(* in SendBrowserCommand or a failed semget (bot_client.cpp:199, 309, 241).*)
KeptBelongs == ~forgot => att \in {None, fpid} /\ cset \in {None, fpid}

(* Even then a command is never copied for one process and announced to    *)
(* another, unless semget has failed (bot_client.cpp:296-316).             *)
RingsWhatItCopied == pc = "ring" /\ "semget" \notin failed => att = cset

(* However often processes end and calls fail, whatever was attached or    *)
(* looked up is still kept or was given back (bot_client.cpp:241-253).     *)
NothingLeaks == mapped = {att} \ {None} /\ made = {cset} \ {None}

RemovesDeadOnly ==
  \A f \in made \ made' :
    \/ flash[f] = "gone"
    \/ forgot /\ (creates <= 1 => browser[parent[f]] = "gone")

(* The client removes the set of a flash process that has ended.  Only if  *)
(* a pid was dropped without a reset since may it remove the set of one    *)
(* that still runs, and cut off its server: one whose browser has ended,   *)
(* or any, if createWindow was called more than once                       *)
(* (bot_client.cpp:199, 245, 271-275, 309).                                *)
ServerNotCut == [][RemovesDeadOnly]_vars

(* Each createWindow gives one running browser at most, however often it   *)
(* is replaced, and a bot that has called it once leaves none behind       *)
(* (bot_client.cpp:128-134, 195-199, 258-262).                             *)
BrowsersSupervised ==
  /\ Cardinality(Up) <= creates
  /\ pc = "exited" /\ creates <= 1 => Up = {}

(* The parts of the inductive invariant.                                   *)

(* What was launched or found was; of the browsers no more than the bound  *)
(* have ended before the bot does.                                         *)
Lives ==
  /\ \A b \in Browsers : browser[b] # "none" <=> b <= nb
  /\ pc # "exited" => Cardinality(Ended) <= MaxDeaths
  /\ \A f \in FlashPids :
       flash[f] # "none" => parent[f] \in Browsers /\ browser[parent[f]] # "none"
  /\ \A f \in {fpid, cset} \ {None} : flash[f] # "none"

(* What the client knows where it is: it searches if it keeps no pid,      *)
(* looks objects up if it does, launches for createWindow or because its   *)
(* browser is lost, and resets because the flash process is.               *)
Launching == pc \in {"launch", "restart"}

Places ==
  /\ pc = "isValid" => op # "create"
  /\ pc = "find" => fpid = None
  /\ pc \in {"checkFlash", "attach", "getset"} => fpid # None
  /\ pc \in {"restart", "restarted"} => BrowserLost
  /\ pc \in {"launch", "launched"} => op = "create" \/ BrowserLost
  /\ pc \in {"launched", "restarted"} => nb # 0
  /\ pc \in {"command", "connect", "write", "restart", "restarted", "reset"} =>
       op = "browser" \/ fpid = None \/ flash[fpid] = "gone"
  /\ pc = "reset" => op # "browser"

(* Segment and set are looked up together.                                 *)
Together ==
  "semget" \notin failed =>
    IF pc = "getset"
    THEN att # None /\ (cset = att \/ (cset = None /\ att = fpid))
    ELSE cset = att

(* All browsers that run but the newest were each given up for a call of   *)
(* createWindow; one is launched only if there is room for it.             *)
Newest == IF pc \in {"launched", "restarted"} THEN nb ELSE bpid

Supervised ==
  /\ Launching => Cardinality(Up) + 1 <= creates
  /\ ~Launching => \/ Cardinality(Up \ {Newest}) + 1 <= creates
                   \/ creates = 0 /\ Up = {} /\ Newest = None
  /\ pc = "exited" /\ creates <= 1 => Up = {}

(* A bot that has called createWindow once has no browser but the newest.  *)
Alone ==
  creates <= 1 => \A b \in Browsers \ {Newest} : browser[b] \in {"none", "gone"}

(* A bot that has called createWindow once keeps a flash process of its    *)
(* browser, or of one that has ended; and the set of that process, or of   *)
(* one that is no more.                                                    *)
Cuttable ==
  creates <= 1 =>
    /\ pc \in {"launch", "launched"} /\ op = "create" => bpid = None
    /\ fpid # None => parent[fpid] = bpid \/ browser[parent[fpid]] = "gone"
    /\ cset # None => \/ cset = fpid
                      \/ flash[cset] = "gone"
                      \/ browser[parent[cset]] = "gone"

IInv ==
  /\ TypeOK /\ Lives /\ Places /\ KeptBelongs /\ Together /\ NothingLeaks
  /\ Supervised /\ Alone /\ Cuttable

(* A flash process that has ended is let go, whatever becomes of the       *)
(* browser in the meantime (bot_client.cpp:271-276).                       *)
FlashForgotten ==
  \A f \in FlashPids :
    (fpid = f /\ flash[f] = "gone") ~> (fpid # f \/ pc = "exited")

(* If there is a flash process to be found from some time on, the client   *)
(* has one that runs from some time on, but if the search for it goes      *)
(* round for ever (bot_client.cpp:227-239, 266-279, proc_util.cpp:14-31).  *)
FlashFound ==
  <>[](Candidates # {}) =>
    <>[](pc \in {"exited", "searching"} \/ (fpid # None /\ flash[fpid] = "up"))

(* A browser that has ended is replaced, or stays for ever as a zombie, a  *)
(* process that exists, because the end of one raised no signal of its     *)
(* own: it came before the handler was installed, or while the signal of   *)
(* another was pending.  Or the search goes round for ever                 *)
(* (bot_client.cpp:136-140, 185, 258-262, proc_util.cpp:14-31).            *)
BrowserReplaced ==
  \A b \in Browsers :
    (bpid = b /\ browser[b] \in {"zombie", "gone"})
      ~> \/ bpid # b \/ pc \in {"exited", "searching"}
         \/ [](browser[b] = "zombie" /\ missed)

(* "Not a great name since it has side-effects like refreshgin or          *)
(* restarting the browser" (bot_client.cpp:255): the refresh that IsValid  *)
(* sends goes to the browser that is kept (bot_client.cpp:273-274,         *)
(* sock_ipc.cpp:37).                                                       *)
BrowserRefreshed == pc = "write" /\ op # "browser" => peer = bpid

===============================================================================
