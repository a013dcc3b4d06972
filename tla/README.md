# Verification of do_lib

`do_lib` lets a bot drive a Flash game. It has two halves that talk through
System V shared memory and semaphores:

* **the client** (`client/`, a JNI library loaded by the bot): launches the
  browser, finds the flash process, reads its memory and sends it commands;
* **the library** (`do_lib/`, preloaded into the flash process): hooks the player
  and the game's ActionScript methods, and runs the client's commands on the game
  thread.

This directory holds TLA+ models of the parts where these halves, the threads
inside them, and the programs they look into (the player, the kernel's process table,
the memory and the byte code of the game) can get out of step; TLC configurations that
check them on small instances; and TLAPS proofs, for all values of the constants, of the
safety properties of every module.

## 1. Inventory

| component | state | operations | hard behaviour | what makes it correct |
|---|---|---|---|---|
| **Flash command channel** (`client/bot_client.cpp` SendFlashCommand and its users; `do_lib/ipc.cpp` runner, handle_message; `do_lib/darkorbit.cpp` call_sync, handle_async_calls) | one shared message, two semaphores, the runner thread, the queue of tasks and its mutex, one future | copy, notify, wait, take the answer; pick up, dispatch, wait for the task, answer, post; lock, run tasks, clear | two processes and a game thread; timeouts of 1 s and 5 s; tasks that outlive their handler; arguments read through a pointer; an unguarded copy | the semaphores exclude; a command is handled once, as sent; an answer belongs to its command; tasks run once, in order; nobody hangs |
| **Server lifecycle** (`Ipc::Init`, `Run`, `Remove`; `Darkorbit::install`, `uninstall`) | kernel objects under a key, `m_running`, the thread handle, the ids the client keeps | install, remove, install again; look up or create | removal while the other side is blocked, attached or half-way; the runner and Remove both write `m_running`; joining from a task | a removed server is quiet; an installed one is reachable; removal returns |
| **Hook table** (`hook_proxy`, `hook_flash_function`, `notify_jit`, `notify_freechunk`, `flash_stuff::install`, `dlopen`) | `m_hooks` by method id; three code pointers per method; the two patched functions | hook, proxy a call, restore, late hooks, uninstall | re-entrant calls, hooks added or cleared while a proxy runs, several environments of one method, JIT replacing code pointers | after uninstall no pointer leads to the proxy; the original runs once per call |
| **Bot supervisor** (`BotClient::IsValid`, `LaunchBrowser`, `SendBrowserCommand`, `reset`; `SockIpc`) | pids of browser and flash process, attached segment, set id, socket | launch, check, find, refresh, reset, send | processes that die at any time, signals, half-done restarts | what is kept belongs to the process that is alive; a dead one is replaced |
| **Process scan** (`ProcUtil::FindProcsByName`, `IsChildOf`, `GetPages`) | none; `/proc` changes under it | walk the parents | processes vanish between two reads | ends, and says yes only for descendants |
| **Memory search** (`QueryMemory`, `FindPattern`; `memory_*.cpp`) | none | search pages for a masked pattern | boundaries | finds the occurrences there are |
| **Bytecode reader** (`BinaryStream`, `Disassembler`, `Traits::parse_traits`) | a cursor | variable-length integers, instruction walk, trait tables | cursor running past the end | inverse of the encoding; stays within the body |
| **Game commands** (rest of `darkorbit.cpp`) | the names `refine_ore` and `use_item` looked up | call into the player, inside a task | names kept across installations | the names belong to the pool they are used with |
| **Player objects, JNI glue, helpers** (rest of `avm.h`, `eu_darkbot_*`, `utils.h`) | none | reads at offsets, conversions | none of their own | not modelled, but for what other parts use of them |
| **Message-queue transport** (`client/ipc.*`) | | | | not in the build; not modelled |

The client calls the library only through the channel; the channel relies on the
lifecycle for its objects and threads, on the hook table for the game thread's
visits (the timer hook runs the queue), and on the supervisor for the pid that is
the key of the objects, which the supervisor gets from the process scan. Some of the hooked
methods are found with the bytecode reader. `PROJECT.json` lists every hazard with its line.

## 2. Plan

Done:

1. `Doorbell` - what the two semaphores promise.
2. `FlashChannel` - the command channel; implements `Doorbell`.
3. `FlashChannelProofs` - its invariants and the refinement, proved.
4. `IpcLifecycle` - install and removal with a client in between; installs that fail
   half-way; the exit of the process.
5. `BotSupervisor` - browser, flash processes and socket, processes that end at any
   time, and what the client keeps of them.
6. `HookTable` - methods, environments and code pointers; proxied calls on a stack.
7. `ProcScan` - the walk over a process table that changes.
8. `MemorySearch`; `BinaryStream` and `AbcReader`, which extends it - searches in changing
   memory; the readers of byte code, against what a compiler writes. `MCReaders` puts them into one state machine for TLC.
9. `IpcLifecycleProofs`, `BotSupervisorProofs`, `HookTableProofs`, `ProcScanProofs`,
   `MemorySearchProofs` - the inductive invariant of each, and from it every safety
   property the runs check of the module.
10. `BinaryStreamProofs` - reading numbers, any sequence of them, inverts writing them.
    `AbcReaderProofs` - so it does for instructions and traits, and the reader's inductive
    invariant, with its three properties.

Not done: a specification of the channel as remote calls, one for each command that meets
no other, at most once and with an answer that may be absent. What it would say of such a
command is said by `CleanHandledOnce`, `IntactDispatch`, `TasksOnceInOrder` and
`CleanNotMisanswered`, each proved by itself.

## 3. The modules

### Doorbell

Four phases: `off`, `idle`, `rung`, `serving`. A ring cannot be lost, doubled, or
begin before the last one has been served. `Spec` adds that rings are picked up and
services end.

### FlashChannel

State. `sem0`, `sem1` are the semaphores; `shm` the segment, as its type word, its
argument bytes and its answer bytes. The three overlap in memory: writing an error
flag or a value over the arguments is modelled by `UnderErrorFlag` and `UnderValue`,
which turn the arguments that share those bytes into nobody's (`n = 0`). The one
overlap left out is `CheckSignatureMessage::result` with the 33rd and later words of
a CALL's arguments. `job` and `promise` are the runner's locals and the future;
`queue`, `gi` the vector of tasks and the iterator; `todo`, `cur`, `got` the callers'
locals. `log`, `handled` and `clean` are history: what ran, how often each command
was dispatched, and which caller, if any, began its send while the server was idle and
everybody else was out.

Actions. A caller: `BeginSend`, `Copy` (twice: type word and the rest, in either order,
so that torn messages exist), `Ring` or `RingTimeout`, `WaitDone` or `WaitTimeout`,
`Take`. The runner: `PickUp`, `Dispatch`, `CallSync`, `Answer` or `AnswerTimeout`,
`Post`. The game thread: `InitSem0`, `InitSem1`, `Run` (the server's installation),
`Timer`, `RunTask`, `Unlock`. The handlers of the seven messages are one `Dispatch`
with the sets `Checked`, `ByPointer`, `Answered`, `UnderError`: whether a handler
validates, keeps a pointer, writes a result, or shares bytes with the error flag.

Time. A blocked operation with a limit may time out at any moment it is blocked. That
covers every ratio of the 1 s and 5 s limits, a preempted thread included.

Not in the model: callers are threads of one bot process; the SendFlashCommand exits
before the copy (no flash process, no segment) change nothing here and belong to
`IpcLifecycle` and the supervisor. `UPGRADE`, `RESULT` and `NONE` are never sent.

### IpcLifecycle

State. The objects under the key (`segKey`, `setKey`), every object ever created, the
server's (`shmid`, `sem`, and `shared` for `m_shared`) and the client's (`att`, `cset`)
hold on them, `m_running`
(`running`), `m_installed` (`installed`), the runner thread and whether it is
joinable, and whether the game thread holds the call mutex (`locked`).
`leaving` says that the process exits. `removes` counts removals and bounds them.

Actions. `InitObjects`, `InitFails`, `SetVal0`, `SetVal1`, `Run`; `Uninstall`, `Exit`,
`RemoveSegment`, `RemoveSet`, `Check`, `Join`, one per system call, because the other process
and the runner see each of them; the runner as above plus `SemopFails` (a removed set fails even
blocked operations); the client's `Attach`, `ClientGetSet`, `Copy`, `Ring`, `RingFails`, `Wait`.
`FreeInTask` says whether a task may free the code of a hooked method, which makes uninstall run
inside the task. Assigning to a joinable `std::thread` ends the flash process: `gpc =
"terminated"`. `Failing` are the calls of `Ipc::Init` that may fail; `install` reports success
all the same.

Not in the model: a flash process that is killed, and `BotClient::reset` (the
supervisor's); what messages say (`FlashChannel`'s); `semctl(SETVAL)`, which fails only
for a set somebody else removes.

In both modules a thread that waits for a semaphore acts when it is scheduled and finds
the value it waits for. The kernel would complete the operation at the moment the value
is set, so the models allow a little more: a waiter may miss a value that is there for
a moment only.

### BotSupervisor

State. The life of every browser and flash process (`none`, `up`, `zombie`, `gone`),
the signal handler and the pending signal; the client's `m_browser_pid` (`bpid`),
`m_flash_pid` (`fpid`), socket (`peer`, the browser `m_browser_ipc` is connected to),
segment and set (`att`, `cset`, named by the pid that is their key). `mapped`, `made`,
`forgot` (a pid was dropped without a reset) and `missed` (a browser's end raised no signal
of its own) are history.

Actions. The bot calls a method (`CreateWindow`, `CallIsValid`, `CallFlash`,
`CallBrowser`, `QueryMemory`) or exits; the method then goes step by step, each step
one look at a process or one system call, with the processes free to end in between:
`CheckBrowser`, `Find`, `FindSpins`, `CheckFlash`, `Reset` (IsValid), `Fork`, `ForkFails`,
`Launched` (LaunchBrowser), `Command`, `Connect`, `ConnectFails`, `Write`
(SendBrowserCommand), `Attach`, `GetSet`, their failures and `Ring` (SendFlashCommand).
`SigchldHandler` runs whenever a signal is pending. `op` is the method called and tells
SendBrowserCommand whether to return to the bot or to IsValid. What `ProcScan` says of the
search is taken over: `Find` may take any running flash process, as `IsChildOf` may say yes
of one that is not the browser's, and `FindSpins` is a search that never comes back
(`pc = "searching"`). When a browser or a flash
process starts and ends, and who waits for the latter, is external.

Not in the model: several threads in the client, pids used again, a search that ends
without a process that is there (`NotMissed` says when it cannot), segments of which nobody
has an attachment, a child whose `execle` fails and goes on as
a second bot (to the client it is a browser that does not listen), and the server's own
uninstalls (`IpcLifecycle`'s).

### HookTable

State. `mem` holds the code pointers, `env[e]` of an environment, `proc[m]` and
`invoker[m]` of a method, each leading to a stub, to compiled code or to the proxy, and
`table`, which is `m_hooks`: for a method number the pointers to put back and the
environment that called last (`by`). `stack` are the calls of `hook_proxy` in progress,
each in its handler, about to call the original, or in the original; `ref` says whether
the entry it holds a reference to is still there, and `tasks` which of the two handlers
the entry had when the call began. `main` is the method install was last called from, which
gives `m_const_pool` (`Pool`) and the other objects install keeps; `cache`, `installed`,
`patched` are the names kept, `m_installed`, and whether the player is loaded and
patched. `freed` are the environments and methods whose memory is something else's,
`released` the 4K chunks given back; `ChunkOf` says what lies in which chunk. `stray`,
`spoiled` and `replaced` are history and name the exceptions of the properties.

Actions. `Load` (dlopen and `flash_stuff::install`), `Call` and `FirstCall` (a call that
meets the proxy, or a stub: verify_jit, `notify_jit`), `TasksDone`, and `Take` and `Install`
(the two handlers; install takes its objects, runs the game's code, and then hooks the timer
of whatever objects were taken last, or finds no menu; `InstallElsewhere` is install called
with an object of the wrong class, by way of an entry another method with the number left),
`CallOriginal`, `Return`, `Reuse` (the memory of a freed object becomes something else's in a
chunk that stays, of which the code hears nothing), `FreeChunk` (`notify_freechunk`, which
uninstalls if the last caller of a hooked method lies in the chunk), `Unload`, `LookUp`.
All of it runs on one thread; what interleaves is the calls inside calls. The player's
side (when it calls, compiles, frees) is external. A dangling reference and the loop over the
emptied table are choices between going on and ending (`died`). An entry whose last caller
was freed restores through what lies there now: the method's own pointers are then not put
back (`Astray`). What a write to freed memory does to its new owner is not modelled; `stray`
records which objects were written to.

### ProcScan

State. `procs` is what `/proc` shows; `pc`, `at`, `list`, `pid` are the search's locals;
`below`, `guessed` and `steady` are history: who descended from the browser when `IsChildOf`
was called, whether it has gone on from what was no parent's number, and which flash
processes were there all along, with no space in a name above them. The descendants of a process are
the least set that holds its children and theirs (`Under`).

Actions. `Fork`, `End`, `Reap` of any process at any moment; `Begin`, `List`, `ListEnds`
(`FindProcsByName`, an entry of `/proc` at a time), `NextCandidate`, `NoneLeft`, `OpenStat`
and `ReadStat` (a round of `IsChildOf`, which opens the file and then reads it), `Maps`
(`GetPages`). If the process is waited for in between, nothing is read, and `parent`, which
has no value yet, may be any number. Of a name with a space what follows the space is read for
a number: 0, or the digits there (`ParentRead`).

Not in the model: process numbers used again, subreapers, `GetMemoryUsage`.

### MemorySearch

State. `mem` is the memory: the bytes of each region, a region being known by the address it
starts at, or `Gone` where nothing can be read. The game changes it while it is searched: it
writes, maps in again, and gives back any part of a region. `pages` (the size each region was
listed with), `page` (the region looked at last), `buf`, `i`, `out` are the search's locals;
`held` (which byte was where) and `kept` (the matches never disturbed, as region and position,
in a region that could be read up to the byte after them) are history. One variable, `side`,
tells the client's search (`ReadByte` up to `ReadEnds`, then `Compare` a position at a time)
from the library's, which compares in place (`LookAtByte`) and stops at the first match. Both go
through `NextRegion`, in the order of the addresses, and `RegionEnds`. The client's copy ends
before the first byte it cannot read; a look of the library at such a byte ends the process
(`LookAtGone`).

### BinaryStream and AbcReader

State. `input` is what was written, `data` its bytes, and `position`, `end`, `result`,
`rpc` the reader's. `BinaryStream` has `data`, `position` and the numbers: `U32At`, `S24At`
and `ByteAt` are the code's, `NumbersAt` reads one after the other; `U30Bytes`, `S24Bytes`
and `Written` are a compiler's. Numbers have 30 bits, as the format allows. In `AbcReader`
the section "The format" writes instructions, traits and parameters as a compiler does. It
does not use the library's table: `Format` has the operands of the virtual machine's own
instructions, and `TableAgrees` proves where the table (`Operands`) is the same. The
reader (`Operands`, `ArgsAt`, `InstructionAt`, `GetXrefs`, `SlotAt`, `MethodAt`, `TraitAt`)
is the code's. `ListsProgram` and `ReadsBack` say that reading inverts writing. What there
is to read is any program, class or list of parameters whose numbers fit the format
(`ProgramsAssumption`, `ClassesAssumption`, `ParamsAssumption`); the length given for a
program may be wrong by `off`, and anything may follow it.

Actions. `StartCode`, `ReadInstruction`, `MeetUnknown`, `EndCode` (`Disassemble`: a byte
that is no instruction empties the listing); `StartTraits`, `ReadTrait`, `EndTraits`
(`parse_traits`); `ReadParams`. `data` is the memory that is described; a reader that comes
to its end without having met the end of the code goes on in memory nobody described, and
the model leaves it there (`rpc = "beyond"`).

## 4. What is checked

| run | instance | shows |
|---|---|---|
| `channel` | 2 callers, 2 commands, two kinds, fair | `ServerOwnsSegment`, `TasksOnceInOrder`, `CleanNotMisanswered`, `IntactDispatch`, `CleanHandledOnce`; `IInv`, the invariant of the proofs, which includes `TypeOK`; `BellSafety`, `BellLiveness`; `SendReturns` |
| `lifecycle` | 3 removals, 2 commands, uninstall in tasks, every call of `Init` may fail, fair | `IInv`, `RunnerQuiet`, `InstalledServes`, `MeetFirst`, `RemoveReturns` |
| `supervisor` | 1 createWindow, 2 browsers ending, 2 flash processes, one failed shmat, one failed semget, fair | `IInv`, `KeptBelongs`, `RingsWhatItCopied`, `NothingLeaks`, `ServerNotCut`, `FlashForgotten`, `FlashFound` |
| `supervisor_windows` | 2 createWindow, 2 browsers ending, 1 flash process, one failed fork, fair | `BrowsersSupervised`, `BrowserReplaced` |
| `hooks` | 3 methods in 2 files with the same numbering, 4 environments, 5 chunks, calls 2 deep, 1 object freed or chunk given back | `IInv`, `KeptAreOriginals`, `HookedStaysHooked`, `NothingLeft`, `ProxyHasHandler`, `FreedEnvsUntouched`, `CachesFollowPool` |
| `scan` | init, bot, browser and 3 more processes of 3 sorts, fair | `IInv`, `YesWasDescendant`, `NotMissed`, `FindEnds` |
| `readers` | 3 regions of 2 to 4 bytes, one after the other, one of which the library skips and one that can be read in part; 5 queries, 1 change, of a byte or of any part of a region; 0 to 2 of 15 instructions, of 7 traits, or 3 parameters | `IInv`, `ReportedWasThere`, `NoneMissed`, `ListsProgram`, `NothingMadeUp`, `ReadsBack` |

`IInv` is in each run the invariant that the proofs use, which includes the types; in
`readers` the two of them, `SearchInv` and `ReadInv`.

Bounds. Two callers with a command each give every overlap of two sends; one caller with two
gives a command that meets the late task or the late answer of the one before it. The two kinds
are a call that is validated, keeps a pointer into the segment and is answered, and a command
that is passed by value and has no answer. All seven kinds are in the proofs, which remove these
and the following bounds for the safety properties. Three removals let the objects be created by
either side before, between and after installs, and an install that failed be followed by a
removal and by one that succeeds; two commands are one sent before a removal and one sent with
what was kept.

Two methods with one number, two environments of one method, and a method that install hooks in
addition are the confusions the table allows; a call inside a call is what can change an entry
that is in use. The two environments of one method are alike, and TLC takes
them as symmetric. With one object freed, the chunks that can go are those with a single object in
them: the two environments of one method, which have one each, and the method; an environment or
a method freed in a chunk that stays is the other case. Three processes are a candidate, its
parent below the browser, and one that starts or ends next to them; the sorts of
program are a flash process, one that may come between it and the browser, and a candidate
with a space in its name and, behind it, the number of a process that is or will be there. Four bytes give a query at the start, in the middle and at the very end of a region;
two instructions or traits show where the second one is looked for. The operands take one, two,
three and five bytes.

Two browsers that end are one that ends while another one is being replaced, or, with two
windows, two that end while one signal is pending; two flash
processes are the one that is kept and the one it can be confused with; a call that
fails twice does what it did the first time.

Five runs end in a violation, each of something the code says of itself:

* `channel_wait` (`WaitMeansHandled`): right after the ring semaphore 1 is still zero,
  so the client's wait for zero can pass before the runner has picked the command up;
  the client reads its own request as the answer.
* `channel_null` (`NullObjectRejected`): the null check is made when the message is
  dispatched, the object is read when the task runs; a client that has given up copies
  its next message over it in between.
* `lifecycle_join` (`RemoveAlwaysReturns`): uninstall inside a task joins a runner that
  waits for the mutex the task runs under. `RemoveReturns`, which leaves this case out,
  passes.
* `lifecycle_joined` (`RunnerJoined`): removing the semaphores wakes the runner, which
  clears `m_running` before `Remove` tests it and is not joined; the next install
  assigns to the joinable thread.
* `supervisor_refreshed` (`BrowserRefreshed`): the socket is connected once; after a
  browser has been replaced, the refresh of IsValid goes to the one that ended.

The properties of the supervisor name their exceptions, and these are the code's:
`KeptBelongs` fails after a flash pid was dropped without a reset (a restart in
SendBrowserCommand, a failed semget), and the client then sends commands through the
objects of a process that is gone; `RingsWhatItCopied` fails after a failed semget;
`ServerNotCut` allows the set of a flash process that runs to be removed after a pid was dropped
without a reset: then the set of one process is kept with the pid of another, and goes when
that other ends. If createWindow was called once, it is at least a process whose browser has
ended; with several windows it may be any process, which the run with one does not show and the
theorem allows. `BrowserReplaced` fails for a browser that ends before the signal handler is installed,
or while the signal of another one's end is pending, as the handler waits for one child:
it stays a zombie and counts as existing. That one and `FlashFound` leave out a search that
goes round for ever.

So do the others:

* `InstalledServes` leaves out an installation whose `Ipc::Init` failed: there is then no
  runner, and nothing tries again until the game calls the hooked method once more.
* `KeptAreOriginals`, `HookedStaysHooked`, `NothingLeft` and `ProxyHasHandler` are about `Plain`
  methods. That leaves out the numbers in `spoiled`: of methods hooked, entered or uninstalled
  again while being called; compiled when hooked already; called through the entry of another
  method with the same number; not put back because their last caller's memory was reused.
  For these the model has runs in which the property fails, that is, `hook_proxy` kept as the
  original, a hooked method that no longer leads to it, or a pointer that leads to it after
  uninstall, where the next call finds no handler. `NothingLeft` and `ProxyHasHandler` leave
  out the second environment of a method as well: only the one that called last is restored.
* `FreedEnvsUntouched` is about chunks that were given back, which is what the code is told of. An
  environment that was freed in a chunk that stays is written to (`stray` has it as
  "reused"), and so is a method whose chunk is gone.
* `CachesFollowPool` leaves out one installation that follows another and an uninstall inside a
  task.
* `YesWasDescendant` leaves out a walk that went on from the number in a name, or from a parent
  that was never read because the process was waited for meanwhile: it may end with yes for
  any process. `NotMissed` leaves out flash processes with a space in a name above them.
* `FindEnds` leaves out a process on the way up that has vanished, one of a number that was never
  a parent's, and a name with a space: `IsChildOf` then looks for it for ever. If no name has
  a space, only the first two are left out.
* `NoneMissed` leaves out a match at the very end of a region, as the last position is never
  compared, by neither search, and one behind a part of its region that cannot be read, as
  the client's copy ends there.
* `ListsProgram` and `NothingMadeUp` leave out methods with `istype` or `callmethod`, of whose
  operands the table lacks one (`instructions.h:369`, `:269`): the next instruction is then
  looked for in the operand. `ReadsBack` leaves out classes with a trait of kind 5, whose body
  is not skipped.

`CleanNotMisanswered` is deliberately weaker than "the answer is the result": because of
`channel_wait` a caller may read its own request. What holds, and is proved, is that
it never reads another command's answer, however late that one is.

### Fairness

A caller inside SendFlashCommand, the runner, and the game thread inside an
installation, a removal or a run of the queue are scheduled (weak fairness). Nothing
obliges anybody to send, the game to call its timer method, or to install the server.
`std::mutex` gives no order to those who wait: `CallSync` is strongly fair, which says
only that a thread gets a mutex that is free again and again, as it is between two
frames. Waits that are bounded in the code end, and only those: `Ring` with no server,
`Answer` with a stopped game. The search of `ProcScan` is scheduled; processes need not end.

The client of `BotSupervisor` goes on inside a method, a pending signal is delivered, and
a flash process that has ended is waited for. A search may always spin, and fairness does not
keep it from doing so. `CallIsValid` is strongly fair: the
liveness properties are about a bot that asks again and again whether its window is
valid, whatever else it calls. That is the bot's doing and outside this repository; a
bot that does not ask learns nothing. Processes need not end and browsers need not start
flash processes; `FlashFound` assumes one that lasts.

Deadlock is checked for the channel. In `IpcLifecycle` the process may end and the
commands run out, in `BotSupervisor` the bot may exit, in the others the
process ends or a search is over, so that stopping is normal (`CHECK_DEADLOCK FALSE`).

## 5. What is proved

Eight modules hold the proofs. In each, but `BinaryStreamProofs`, a theorem (`Inductive`,
`ReadInductive`) states that the invariant (`IInv`, `SearchInv`, `ReadInv`) holds in every
reachable state: it holds initially, and there are lemmas for its parts saying that every
action preserves them. The properties follow from it. Fairness is not used. Every safety
property that a passing run checks is proved; `IInv` of `MCReaders` only joins two
invariants, which are proved apart, each of its own machine.

### FlashChannelProofs

For every set of callers, every set of message types and every bound on the commands
(`KindsAssumption`, `BoundAssumption`, `CallersAssumption`):

* `TypeCorrect`, `Ownership`: types, and semaphore 1 is up exactly while the server has
  the segment. The types of the semaphores are not inductive alone (`Post` raises
  semaphore 0), so they are proved together with `Handover`.
* `BellImplemented`: the channel refines `Doorbell!SafetySpec`. `Ring`, `PickUp`, `Post`
  and `InitSem0` map to the bell's four actions, every other step to a stutter.
* `TaskOrder`, `Intact`, `HandledOnce`, `NotMisanswered`.

Parts: `Handover`; `Numbered` (a later command has not been dispatched), `Copying`,
`Promised` (the runner waits for no task but its last, and a task with that number has the
runner's arguments), `InOrder` (numbers grow along the log, then along the rest of the
queue), `CleanStage` (how far the clean command has come, in terms of the semaphores and the
runner). `CleanStage` needs `Promised` for a task that runs while the runner waits,
`Numbered` for a send that begins, `Copying` for an answer that is taken.

### IpcLifecycleProofs

For every bound on removals and commands, every choice of the calls that may fail, with and
without uninstalls inside tasks (`LifecycleAssumption`): `QuietAfterUninstall` (`RunnerQuiet`),
`InstalledIsReached` (`InstalledServes`), `FirstMeeting` (`MeetFirst`).

Parts: `Created` and `Counted` say which objects there are; the numbers of objects are
bounded, and that a new one can always be created has to be shown from the number of
removals. `Paired`: the server's segment and set are under the key both, or on the way out
both. `Threads` ties the runner to `m_running`, to the joinable thread and to the values of
the semaphores: it is why a woken runner has no server to come back to. `Installed` follows an
installation from one system call to the next; `FirstObjects` is `MeetFirst` for what is
looked up later.

### BotSupervisorProofs

For every number of createWindow calls, ended processes and flash processes, and every choice
of failing calls (`SupervisorAssumption`): `KeptObjectsBelong` (`KeptBelongs`),
`CommandsGoTogether` (`RingsWhatItCopied`), `GivesBack` (`NothingLeaks`), `OneBrowserEach`
(`BrowsersSupervised`) and the action property `CutsNoServer` (`ServerNotCut`).

Parts: `Lives`; `Places`, what the client knows of its processes at each point of its
methods; `Together`, that segment and set were looked up for one pid; `Supervised`, which
counts the running browsers against the calls of createWindow (lemmas on the cardinality of
the sets come first); `Cuttable`, without which `ServerNotCut` could not exclude that the set
reset removes is of a process whose browser still runs, if createWindow was called once (`Alone`:
all browsers but the newest are then gone). `KeptBelongs` and `NothingLeaks` are inductive
together with these.

### HookTableProofs

For all methods, environments, layouts of them in chunks, pools and numbers that differ within a
pool, every depth of calls and any number of frees (`HookAssumption`): `OriginalsAreCalled`
(`KeptAreOriginals`), `StaysHooked` (`HookedStaysHooked`), `LeavesNothing` (`NothingLeft`),
`HandlerBehindProxy` (`ProxyHasHandler`), `NoEnvWrittenAfterFree` (`FreedEnvsUntouched`),
`NamesOfThePool` (`CachesFollowPool`).

`Sound` is the heart: a method the entry under its number does not belong to has the player's
pointers; one it belongs to leads to the proxy, and its entry holds the player's pointers, if it
is not being called, and the other way round if it is. It holds of methods nothing unusual was
done to (`Plain`). The operators that change pointers (`Hook`, `Verify`, `Keep`, `Reinstall`,
`Restore`, `RestoreAll`) each have a lemma, in the first half of the module, saying what they do
to a `Sound` method and that they leave the others alone; the actions combine these. `Once` (a
plain method is called once at a time, by the environment its entry names) and `Referred` are
for the return of a call; `InUse` for frees: no entry names an environment of a chunk that was
given back, because that chunk's going emptied the table; `Installed` for the names.

### ProcScanProofs

For every number of processes and all sorts of programs (`ScanAssumption`):
`OnlyDescendants` (`YesWasDescendant`), `NoneOverlooked` (`NotMissed`).

Each step of the walk up reads a `/proc` of its own. `Tree`: parents are alive and older than
their children; an orphan is init's, so below the browser nothing new comes in from outside.
`WalkedUp`: as far as the walk has got, who descends from the browser now did so when it began;
nothing is said of a walk once it has `guessed`. `StillAhead`: a flash process that stays is
ahead in `/proc`, in the list, or is being looked at with the walk between it and the browser.
Descendants are a least set, so that what is said of all of them is shown for a set with the
same closure (`UnderLeast`), without induction.

### MemorySearchProofs

For all memories of regions that do not overlap, queries, amounts of room and numbers of
changes (`SearchAssumption`): `WasThereOnce` (`ReportedWasThere`), `MissesNone` (`NoneMissed`).
The theorems are about `SearchSpec`, whose steps `MCReaders` runs.

Parts: `Listed` (what there still is of the regions is as it was listed), `WasThere` (what is
in `buf` was at its place), `Behind` (what was found is before the position compared, so that
a match there is no room for is after all that were found), `NoneOverlooked` (a match that
stays is found or ahead, and what has been read of it fits). All that a change of the memory
does is described by one lemma (`GameRemains`), for writes and parts given back alike.

### BinaryStreamProofs

A number that lies in `data` is read back, and the position behind it is known:
`U30ReadsBack` for every number of 30 bits (of 1 to 5 bytes), `S24ReadsBack` for every offset
of 24 bits with its sign, `NumbersReadBack` for every sequence of numbers of the three kinds,
however long. TLC reads only the numbers that the instructions of the run name.
A number is the sum of its digits to the base 128 (`Digits`); the reader takes as many as were
written, as only the last byte is below 128 (`ReadsToTheLast`), and those it does not
take are 0.

How many numbers there are is up to the data, and so these are inductions. The induction
theorems of the library take an operator, which the provers cannot instantiate; that the
order of the natural numbers is well-founded is about a set. So a set of naturals that has
no least element is empty (`Least`, `Induction`), and the set is that of the counterexamples.
The recursive functions, `from` of `NumbersAt` and that of `FlattenSeq`, are shown to exist
in the same way before what they compute is (`Before` is where the k-th part of a flattened
sequence begins).

### AbcReaderProofs

For all programs, wrong lengths, bytes behind a program, classes, lists of parameters and
sizes of the pool (`ProgramsAssumption`, `ClassesAssumption`, `ParamsAssumption`):

* `TableAgrees`: the library's table has every instruction of the machine, with the operands of
  the format, but for the two in `WrongRows`; the switch, whose operands have no fixed number, apart.
* `InstructionReadsBack`, `TraitReadsBack`: one instruction with every operand, a switch
  with any number of cases included, and one trait of every kind with any metadata, is read
  as it was written, wherever it lies, and so is where the next begins. Left out are those
  that the code reads wrongly: `istype`, `callmethod` and traits of kind 5.
* `ReadInductive`, and from it `ListsEveryProgram` (`ListsProgram`), `ListsNothingElse`
  (`NothingMadeUp`), `ReadsEveryClassBack` (`ReadsBack`).

Parts: `ListedSoFar` (the listing is the program up to the position, which is where the next
instruction begins; or the reader has gone past the program, which a right length does not
let it) and `ReadSoFar` (the traits read are the first ones, and as many bytes are ahead as
the others take). Instructions take at least one byte, so that places grow, and no two of
them begin at one place: this is why the loop, which compares with the end only by `!=`,
meets a right end when the whole program is listed and not before. If the end is given too
early, the reader stops at a boundary and has a prefix, or misses it; if too late, it has
the program and more. `MeetUnknown` is not met inside a program.

That bytes of the code of a method are only read inside it is not said: the code does not
check it.

### Only model-checked

* Liveness: `BellLiveness`, `SendReturns`, `RemoveReturns`, `FindEnds`, `FlashForgotten`,
  `FlashFound`, `BrowserReplaced`. Fairness and ENABLED are outside what TLAPS proves.
* The five violations, which TLC shows by a behaviour each.

## 6. Not modelled

* Object layouts (`avm.h`), formatting and logging, the JNI conversions, the transport
  that is not built (`client/ipc.*`) and the vendored patching library, which is not in
  the tree: no state whose order could go wrong.
* What the game's methods do when a command calls them; `finddef`, and the text that
  `check_method_signature` compares.
* Exceptions of ActionScript, which leave `hook_proxy` and a running task by longjmp; the
  repository does not show where they are caught.
* `hook_flash_function(MethodEnv)`, which has no caller; a second `dlopen` of the player,
  whose effect depends on the patching library; what a write to reused memory does to what
  lies there now.
* Several threads of the bot in one `BotClient` other than in overlapping sends; the second
  bot that a failed `execle` makes.
* Single reads and writes of memory, the name filters of `get_pages` and `FindPattern`
  (the latter ignores its argument), the search for Windows, `GetMemoryUsage`.
