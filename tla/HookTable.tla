------------------------------ MODULE HookTable ------------------------------
(***************************************************************************)
(* The hooks the library puts on methods of the game: Darkorbit::m_hooks,  *)
(* hook_proxy, hook_flash_function, notify_jit, notify_freechunk, install  *)
(* and uninstall (do_lib/darkorbit.cpp), FlashHook (darkorbit.h) and the   *)
(* two functions of the player that are patched (flash_stuff.cpp).         *)
(*                                                                         *)
(* A method is called through the pointer of an environment (MethodEnv),   *)
(* or through the invoker of the method itself (MethodInfo).  The player   *)
(* lets all of them lead to a stub at first; the first call compiles the   *)
(* method, sets the method's two pointers, and copies the first into the   *)
(* environment called.  Hooking a method overwrites the pointers with the  *)
(* proxy; the proxy puts them back for as long as the call lasts.          *)
(*                                                                         *)
(* All of it runs on the game's thread: what makes it hard is that, while  *)
(* a handler or an original method runs, the game may call, compile and    *)
(* free other methods, hooked ones too.                                    *)
(***************************************************************************)
EXTENDS Naturals, Sequences, FiniteSets

CONSTANTS
  Methods, Envs,  \* the methods of interest and their environments
  MethodOf,       \* MethodOf[e]: env->method_info
  Id,             \* Id[m]: MethodInfo::id, unique within a pool only
  PoolOf,         \* PoolOf[m]: the constant pool of the file m comes from
  TimerOf,        \* TimerOf[m]: for each autoStartEnabled method, the method
                  \* of the gui timer that install hooks; others absent
  ChunkOf,        \* ChunkOf[o]: the 4K chunk environment or method o lies in
  None,
  Names,          \* the names commands look up once: of refine_ore, of use_item
  MaxDepth,       \* bound on proxied calls in progress
  MaxFrees        \* bound on the environments and methods freed

Autos == DOMAIN TimerOf
Timers == {TimerOf[a] : a \in Autos}
Objects == Envs \cup Methods
In(c) == {o \in Objects : ChunkOf[o] = c}

ASSUME HookAssumption ==
  /\ MethodOf \in [Envs -> Methods]
  /\ DOMAIN Id = Methods /\ DOMAIN PoolOf = Methods
  /\ Autos \subseteq Methods /\ Timers \subseteq Methods \ Autos
  /\ \A m, n \in Methods : m # n /\ PoolOf[m] = PoolOf[n] => Id[m] # Id[n]
  /\ Methods \cap Envs = {}
  /\ DOMAIN ChunkOf = Objects /\ IsFiniteSet(Objects)
  /\ None \notin Objects \cup {PoolOf[m] : m \in Methods}
  /\ MaxDepth \in Nat /\ MaxFrees \in Nat

VARIABLES
  mem,        \* the pointers (env, proc, invoker) and m_hooks (table)
  compiled,   \* the methods compiled so far
  stack,      \* the proxied calls in progress, the innermost last
  installed,  \* m_installed
  main,       \* the method install was last called from: whose objects and
              \* pool m_screen_manager, m_const_pool ... are; None at first
  cache,      \* m_refine_multiname, m_item_prop_mn: the pool each is from
  patched,    \* the player is loaded and its two functions patched
  freed,      \* the environments and methods whose memory is something else's
  released,   \* the chunks given back
  died,       \* why the process ended: <<reason, method>>, or None
  stray,      \* history: <<o, "reused">> or <<o, "released">>: o was written
              \* to when it was freed, its chunk still there or given back
  spoiled,    \* history: numbers of methods, see Plain
  replaced    \* history: a pool followed another without uninstall, or
              \* uninstall ran inside a task

history == <<stray, spoiled, replaced>>
vars == <<mem, compiled, stack, installed, main, cache, patched, freed, released, died,
          history>>

Code == {"stub", "jit", "proxy"}

Init ==
  /\ mem = [env |-> [e \in Envs |-> "stub"], proc |-> [m \in Methods |-> "stub"],
            invoker |-> [m \in Methods |-> "stub"], table |-> <<>>]
  /\ compiled = {} /\ stack = <<>> /\ installed = FALSE
  /\ main = None /\ cache = [n \in Names |-> None]
  /\ patched = FALSE /\ freed = {} /\ released = {} /\ died = None
  /\ stray = {} /\ spoiled = {} /\ replaced = FALSE

Pool == IF main = None THEN None ELSE PoolOf[main]    \* m_const_pool

Top == stack[Len(stack)]
Busy == {Id[MethodOf[stack[k].e]] : k \in 1..Len(stack)}

-----------------------------------------------------------------------------
(* What the calls of the code do to a memory s.                            *)

(* The method an entry's restore() writes to.                              *)
Target(h) == IF h.by # None THEN MethodOf[h.by] ELSE h.m

(* The environment that called last was freed: restore() takes a method    *)
(* from what lies there now, and writes through that.                      *)
Astray(h) == h.by \in freed

(* FlashHook::restore: the environment that called last, if any did.       *)
Restore(s, h) ==
  [s EXCEPT !.proc[Target(h)] = h.proc, !.invoker[Target(h)] = h.invoker,
            !.env = IF h.by # None THEN [s.env EXCEPT ![h.by] = h.env] ELSE s.env]

(* A fault: what is hooked already is hooked over.                         *)
HookOver(s, m) ==
  LET h == [env |-> s.proc[m], proc |-> s.proc[m], invoker |-> s.invoker[m],
            by |-> None, m |-> m]
  IN [s EXCEPT !.proc[m] = "proxy", !.invoker[m] = "proxy",
               !.table = [i \in DOMAIN @ \cup {Id[m]} |-> IF i = Id[m] THEN h ELSE @[i]]]

(* hook_flash_function(MethodInfo).  A method hooked before is restored,   *)
(* or rather the one that is in the table under its number.                *)
Hook(s, m) ==
  LET r == IF Id[m] \in DOMAIN s.table /\ ~Astray(s.table[Id[m]])
           THEN Restore(s, s.table[Id[m]]) ELSE s
      h == [env |-> r.proc[m], proc |-> r.proc[m], invoker |-> r.invoker[m],
            by |-> None, m |-> m]
  IN [r EXCEPT !.proc[m] = "proxy", !.invoker[m] = "proxy",
               !.table = [i \in DOMAIN @ \cup {Id[m]} |-> IF i = Id[m] THEN h ELSE @[i]]]

(* A stub is called: the player compiles the method unless that is done,   *)
(* verify_jit sees it if it is patched in, and notify_jit hooks the method *)
(* install is to be called from.                                           *)
Notified(m) == patched /\ m \in Autos /\ ~installed

Verify(s, e) ==
  LET m == MethodOf[e]
      j == [s EXCEPT !.proc[m] = "jit", !.invoker[m] = "jit"]
      n == IF m \in compiled THEN s ELSE IF Notified(m) THEN Hook(j, m) ELSE j
  IN [n EXCEPT !.env[e] = n.proc[m]]

(* What a call reaches, through the environment or the method's invoker.   *)
Reached(s, e, via) == IF via = "env" THEN s.env[e] ELSE s.invoker[MethodOf[e]]

(* What hook_proxy does to the entry and the pointers when the original    *)
(* has returned: it keeps pointers that were changed, and puts itself back.*)
KeepOld(s, e) == s
Keep(s, e) ==
  [s EXCEPT !.table[Id[MethodOf[e]]].env = s.env[e],
            !.table[Id[MethodOf[e]]].proc = s.proc[MethodOf[e]],
            !.table[Id[MethodOf[e]]].invoker = s.invoker[MethodOf[e]]]

ReinstallPointer(s, e) == [s EXCEPT !.env[e] = "proxy", !.proc[MethodOf[e]] = "proxy"]
Reinstall(s, e) ==
  [s EXCEPT !.env[e] = "proxy",
            !.proc[MethodOf[e]] = "proxy", !.invoker[MethodOf[e]] = "proxy"]

(* uninstall's loop over the entries, and the memory it writes to.  At     *)
(* fault, it forgets the environments.                                     *)
RestoreMethods(s) ==
  LET hit(m) == /\ Id[m] \in DOMAIN s.table /\ ~Astray(s.table[Id[m]])
                /\ Target(s.table[Id[m]]) = m
      old(m) == s.table[Id[m]]
  IN [env     |-> s.env,
      proc    |-> [m \in Methods |-> IF hit(m) THEN old(m).proc ELSE s.proc[m]],
      invoker |-> [m \in Methods |-> IF hit(m) THEN old(m).invoker ELSE s.invoker[m]],
      table   |-> <<>>]

RestoreAll(s) ==
  LET called == {s.table[i].by : i \in DOMAIN s.table} \ freed
  IN [RestoreMethods(s) EXCEPT !.env =
       [e \in Envs |-> IF e \in called THEN s.table[Id[MethodOf[e]]].env ELSE s.env[e]]]

-----------------------------------------------------------------------------
(* History, common to the actions below.                                   *)
Spoil(ids) == spoiled' = spoiled \cup ids

(* The freed memory a restore of the entries ids writes to; and those of   *)
(* the entries whose own pointers it does not put back.                    *)
Written(ids) ==
  LET held == {mem.table[i] : i \in ids \cap DOMAIN mem.table}
      objects == {h.by : h \in held} \cup {Target(h) : h \in {x \in held : ~Astray(x)}}
  IN {<<o, IF ChunkOf[o] \in released THEN "released" ELSE "reused">> : o \in objects \cap freed}

Lost(ids) == {i \in ids \cap DOMAIN mem.table : Astray(mem.table[i])}

(* A fault: one place for the hook that is being called, whichever it is.  *)
EnterAny(s, st, e, lost) ==
  LET i == CHOOSE j \in DOMAIN s.table : TRUE
      h == [s.table[i] EXCEPT !.by = e]
  IN /\ mem' = Restore([s EXCEPT !.table[i] = h], h)
     /\ stack' = Append(st, [e |-> e, at |-> "handler",
                            tasks |-> h.m \in Timers, ref |-> TRUE])
     /\ UNCHANGED <<died, spoiled>>

(* hook_proxy up to the handler: the entry is looked up, and made, empty,  *)
(* if it is not there; an empty handler ends the process.  The handler is  *)
(* the entry's, that of the method it was made for.                        *)
Enter(s, st, e, lost) ==
  LET m == MethodOf[e]
      h == [s.table[Id[m]] EXCEPT !.by = e]
  IN IF Id[m] \notin DOMAIN s.table
     THEN /\ died' = <<"empty", m>>
          /\ mem' = s
          /\ UNCHANGED <<stack, spoiled>>
     ELSE /\ mem' = Restore([s EXCEPT !.table[Id[m]] = h], h)
          /\ stack' = Append(st, [e |-> e, at |-> "handler",
                                 tasks |-> h.m \in Timers, ref |-> TRUE])
          /\ Spoil({i \in {Id[m]} : i \in Busy \/ Target(s.table[i]) # m} \cup lost)
          /\ UNCHANGED died

(* The player's code runs, once it is loaded: below all proxied calls, in  *)
(* the original of the innermost, or called from its handler.              *)
PlayerRuns ==
  /\ died = None /\ patched
  /\ stack # <<>> => Top.at \in {"handler", "taken", "original"}

(* dlopen of the player, and flash_stuff::install.                         *)
Load ==
  /\ ~patched
  /\ died = None
  /\ patched' = TRUE
  /\ UNCHANGED <<mem, compiled, stack, installed, main, cache, freed, released, died, history>>

(* A proxied call: the pointer it goes through leads to the proxy.         *)
Call(e, via) ==
  /\ PlayerRuns /\ {e, MethodOf[e]} \cap freed = {}
  /\ Len(stack) < MaxDepth
  /\ Reached(mem, e, via) = "proxy"
  /\ Enter(mem, stack, e, {})
  /\ UNCHANGED <<compiled, installed, main, cache, patched, freed, released, stray,
                 replaced>>

(* A call that reaches a stub, and goes where the pointer leads then.      *)
FirstCall(e, via) ==
  LET m == MethodOf[e]
      s == Verify(mem, e)
      new == m \notin compiled
      over == IF new /\ Notified(m) THEN {Id[m]} ELSE {}
  IN /\ PlayerRuns /\ {e, m} \cap freed = {}
     /\ Len(stack) < MaxDepth
     /\ Reached(mem, e, via) = "stub"
     /\ compiled' = compiled \cup {m}
     /\ stray' = stray \cup Written(over)
     /\ IF Reached(s, e, via) = "proxy"
        THEN Enter(s, stack, e, Lost(over))
        ELSE /\ mem' = s
             /\ Spoil(IF new /\ mem.proc[m] = "proxy" THEN {Id[m]} ELSE {})
             /\ UNCHANGED <<stack, died>>
     /\ UNCHANGED <<installed, main, cache, patched, freed, released, replaced>>

InTask(f) == f.at = "handler" /\ f.tasks
InInstall(f) == f.at = "handler" /\ ~f.tasks

(* The handler of the gui timer, handle_async_calls, has run its tasks.    *)
TasksDone ==
  /\ died = None /\ stack # <<>>
  /\ InTask(Top)
  /\ stack' = [stack EXCEPT ![Len(stack)].at = "calling"]
  /\ UNCHANGED <<mem, compiled, installed, main, cache, patched, freed, released, died, history>>

(* The handler of an autoStartEnabled method, install: the objects of the  *)
(* game and their pool are taken anew, whether it succeeds or not.         *)
Take ==
  LET a == MethodOf[Top.e] IN
  /\ died = None /\ stack # <<>>
  /\ InInstall(Top) /\ a \in Autos
  /\ main' = a
  /\ replaced' = (replaced \/ (installed /\ Pool # PoolOf[a]))
  /\ stack' = [stack EXCEPT ![Len(stack)].at = "taken"]
  /\ UNCHANGED <<mem, compiled, installed, cache, patched, freed, released, died, stray, spoiled>>

(* The game has run finddef and a constructor; then the timer of the       *)
(* objects taken last is hooked.                                           *)
Install(found) ==
  LET t == TimerOf[main] IN
  /\ died = None /\ stack # <<>>
  /\ Top.at = "taken" /\ main # None
  /\ found => t \notin freed
  /\ stack' = [stack EXCEPT ![Len(stack)].at = "calling"]
  /\ IF found
     THEN /\ mem' = Hook(mem, t)
          /\ installed' = TRUE
          /\ Spoil(({Id[t]} \cap Busy) \cup Lost({Id[t]}))
          /\ stray' = stray \cup Written({Id[t]})
     ELSE UNCHANGED <<mem, installed, spoiled, stray>>
  /\ UNCHANGED <<compiled, main, cache, patched, freed, released, died, replaced>>

(* install is called with an object of another class, whose method has the *)
(* number: it takes what lies at the offsets of main for its objects.      *)
InstallElsewhere ==
  /\ died = None /\ stack # <<>>
  /\ InInstall(Top) /\ MethodOf[Top.e] \notin Autos
  /\ died' = <<"wrong object", MethodOf[Top.e]>>
  /\ UNCHANGED <<mem, compiled, stack, installed, main, cache, patched, freed, released, history>>

(* hook_proxy calls the original, through the pointer of the method that   *)
(* the tag of argv[0] asks for; a stub compiles it first, and a pointer    *)
(* that leads to the proxy handles the call once more.                     *)
CallOriginal(pointer) ==
  LET e == Top.e
      m == MethodOf[e]
      stub == mem[pointer][m] = "stub"
      s == IF stub THEN Verify(mem, e) ELSE mem
      over == IF stub /\ m \notin compiled /\ Notified(m) THEN {Id[m]} ELSE {}
      called == [stack EXCEPT ![Len(stack)].at = "original"]
  IN /\ died = None /\ stack # <<>> /\ Top.at = "calling"
     /\ compiled' = IF stub THEN compiled \cup {m} ELSE compiled
     /\ IF s[pointer][m] = "proxy"
        THEN Len(stack) < MaxDepth /\ Enter(s, called, e, Lost(over))
        ELSE mem' = s /\ stack' = called /\ UNCHANGED <<died, spoiled>>
     /\ stray' = stray \cup Written(over)
     /\ UNCHANGED <<installed, main, cache, patched, freed, released, replaced>>

(* The original has returned: pointers it has changed are kept, and the    *)
(* proxy goes in again.  The entry may be gone (ref), and what is read and *)
(* written then is freed memory.                                           *)
Return ==
  /\ died = None /\ stack # <<>> /\ Top.at = "original"
  /\ \/ died' = None
     \/ ~Top.ref /\ died' = <<"dangling", MethodOf[Top.e]>>
  /\ mem' = Reinstall(IF Top.ref THEN Keep(mem, Top.e) ELSE mem, Top.e)
  /\ stack' = SubSeq(stack, 1, Len(stack) - 1)
  /\ UNCHANGED <<compiled, installed, main, cache, patched, freed, released, history>>

-----------------------------------------------------------------------------
(* Darkorbit::uninstall; what Ipc::Remove does is IpcLifecycle's.  At      *)
(* fault, it keeps the names looked up.                                    *)
UninstallKeepsNames ==
  /\ mem' = RestoreAll(mem)
  /\ installed' = FALSE
  /\ stack' = [k \in 1..Len(stack) |-> [stack[k] EXCEPT !.ref = FALSE]]
  /\ stray' = stray \cup Written(DOMAIN mem.table)
  /\ Spoil(Busy \cup Lost(DOMAIN mem.table))
  /\ replaced' = (replaced \/ \E k \in 1..Len(stack) : InTask(stack[k]))
  /\ UNCHANGED cache

Uninstall ==
  /\ mem' = RestoreAll(mem)
  /\ cache' = [n \in Names |-> None]
  /\ installed' = FALSE
  /\ stack' = [k \in 1..Len(stack) |-> [stack[k] EXCEPT !.ref = FALSE]]
  /\ stray' = stray \cup Written(DOMAIN mem.table)
  /\ Spoil(Busy \cup Lost(DOMAIN mem.table))
  /\ replaced' = (replaced \/ \E k \in 1..Len(stack) : InTask(stack[k]))

(* notify_freechunk: the environment that called a hooked method last lies *)
(* in the chunk.  At fault, none does.                                     *)
NeverHooked(c) == FALSE
Hooked(c) == \E i \in DOMAIN mem.table : mem.table[i].by \in In(c)

(* Nothing uses an object any more: an environment is never called again,  *)
(* all environments of a method are gone.                                  *)
Unused(o) ==
  \A k \in 1..Len(stack) : o \notin {stack[k].e, MethodOf[stack[k].e]}

(* Its memory is used for something else, in a chunk that stays: the code  *)
(* hears nothing of it.                                                    *)
Reuse(o) ==
  /\ PlayerRuns /\ Unused(o)
  /\ o \notin freed /\ Cardinality(freed) < MaxFrees
  /\ freed' = freed \cup {o}
  /\ UNCHANGED <<mem, compiled, stack, installed, main, cache, patched, released, died, history>>

(* The player gives back a chunk nothing in it uses any more.              *)
(* notify_freechunk goes on over the table that uninstall has emptied: the *)
(* loop stops, or the process ends.                                        *)
FreeChunk(c) ==
  /\ PlayerRuns /\ \A o \in In(c) : Unused(o)
  /\ c \notin released /\ Cardinality(freed \cup In(c)) <= MaxFrees
  /\ freed' = freed \cup In(c)
  /\ released' = released \cup {c}
  /\ IF Hooked(c)
     THEN /\ Uninstall
          /\ died' \in {None, <<"freed table", None>>}
     ELSE UNCHANGED <<mem, cache, installed, stack, died, history>>
  /\ UNCHANGED <<compiled, main, patched>>

(* The library is unloaded, at the end of the process.                     *)
Unload ==
  /\ PlayerRuns
  /\ Uninstall
  /\ patched' = FALSE
  /\ died' = <<"unloaded", None>>
  /\ UNCHANGED <<compiled, main, freed, released>>

-----------------------------------------------------------------------------
(* refine_ore and use_item look a name up once and keep its number in the  *)
(* pool.  They run as tasks; a name that is not found is looked for again. *)
LookUp(n) ==
  /\ died = None /\ stack # <<>> /\ InTask(Top)
  /\ cache[n] = None
  /\ cache' = [cache EXCEPT ![n] = Pool]
  /\ UNCHANGED <<mem, compiled, stack, installed, main, patched, freed, released, died, history>>

Next ==
  \/ Load \/ TasksDone \/ Take \/ InstallElsewhere \/ Return \/ Unload
  \/ \E n \in Names : LookUp(n)
  \/ \E pointer \in {"proc", "invoker"} : CallOriginal(pointer)
  \/ \E e \in Envs, via \in {"env", "invoker"} : Call(e, via) \/ FirstCall(e, via)
  \/ \E found \in BOOLEAN : Install(found)
  \/ \E o \in Objects : Reuse(o) \/ FreeChunk(ChunkOf[o])

Spec == Init /\ [][Next]_vars

-----------------------------------------------------------------------------
Ids == {Id[m] : m \in Methods}
Pools == {PoolOf[m] : m \in Methods} \cup {None}
Pointers == [env : Code, proc : Code, invoker : Code,
             by : Envs \cup {None}, m : Methods]
Frames == [e : Envs, at : {"handler", "taken", "calling", "original"},
           tasks : BOOLEAN, ref : BOOLEAN]

Memory(s) ==
  /\ s = [env |-> s.env, proc |-> s.proc, invoker |-> s.invoker, table |-> s.table]
  /\ s.env \in [Envs -> Code]
  /\ s.proc \in [Methods -> Code] /\ s.invoker \in [Methods -> Code]
  /\ DOMAIN s.table \subseteq Ids /\ s.table \in [DOMAIN s.table -> Pointers]
  /\ \A i \in DOMAIN s.table : Id[Target(s.table[i])] = i

StackType == stack \in Seq(Frames) /\ Len(stack) <= MaxDepth
PlayerType ==
  /\ compiled \subseteq Methods /\ installed \in BOOLEAN
  /\ main \in Autos \cup {None} /\ cache \in [Names -> Pools]
  /\ patched \in BOOLEAN
  /\ freed \subseteq Objects /\ released \subseteq {ChunkOf[o] : o \in Objects}
HistoryType ==
  /\ stray \subseteq freed \X {"reused", "released"}
  /\ spoiled \subseteq Ids /\ replaced \in BOOLEAN

TypeOK == Memory(mem) /\ StackType /\ PlayerType /\ HistoryType

(* The methods that none of this happened to, nor to one of their number:  *)
(* it was hooked or called through the proxy again, or everything was      *)
(* uninstalled, while it was being called; it was compiled when it was     *)
(* hooked already; a call of another method was taken for one of its; the  *)
(* environment that called it last was freed, its memory reused, and then  *)
(* its pointers were not put back when they should have been.              *)
Plain == {m \in Methods : Id[m] \notin spoiled}
Alone(e) == \A x \in Envs : MethodOf[x] = MethodOf[e] => x = e

(* Of a plain method, the pointers that are kept to be put back never lead *)
(* to the proxy, and so the original is what a proxied call calls.  What   *)
(* makes a method not plain can break it (darkorbit.cpp:26-52, 66-74).     *)
KeptAreOriginals ==
  /\ \A i \in DOMAIN mem.table :
       LET h == mem.table[i] IN
       Target(h) \in Plain => "proxy" \notin {h.env, h.proc, h.invoker}
  /\ stack # <<>> /\ Top.at = "calling" /\ MethodOf[Top.e] \in Plain =>
       "proxy" \notin {mem.proc[MethodOf[Top.e]], mem.invoker[MethodOf[Top.e]]}

(* A plain method that is hooked stays so, whatever is done to the others, *)
(* except while it is being called.  One that is compiled when it is       *)
(* hooked, or whose entry a method of the same number is called through,   *)
(* need not (darkorbit.cpp:54-57, 103-104).                                *)
HookedStaysHooked ==
  \A i \in DOMAIN mem.table :
    LET m == Target(mem.table[i]) IN
    Id[m] \notin spoiled \cup Busy => mem.proc[m] = "proxy" /\ mem.invoker[m] = "proxy"

(* Once everything is uninstalled, the pointers of a plain method are what *)
(* the player last made them; an environment's too, if the method has no   *)
(* other (darkorbit.cpp:441-445, darkorbit.h:93-107).                      *)
NothingLeft ==
  mem.table = <<>> =>
    LET own(m) == IF m \in compiled THEN "jit" ELSE "stub" IN
    /\ \A m \in Plain : mem.proc[m] = own(m) /\ mem.invoker[m] = own(m)
    /\ \A e \in Envs : MethodOf[e] \in Plain /\ Alone(e) => mem.env[e] # "proxy"

(* "Proxy flash calls to our handlers" (darkorbit.cpp:14): no call of a    *)
(* plain method that has a single environment arrives at a proxy without   *)
(* an entry.  One that was left with the proxy, for another environment or *)
(* for what makes a method not plain, may.                                 *)
ProxyHasHandler ==
  died # None /\ died[1] = "empty" =>
    \/ died[2] \notin Plain
    \/ \E e \in Envs : MethodOf[e] = died[2] /\ ~Alone(e)

(* An environment is not written to after its chunk was given back: before *)
(* that, everything is uninstalled if the environment was the last to call *)
(* a hooked method (darkorbit.cpp:121-129).  One that was freed in a chunk *)
(* that stays is written to, and whatever took its place.                  *)
FreedEnvsUntouched == \A e \in Envs : <<e, "released">> \notin stray

(* The names looked up belong to the pool they are used with, unless one   *)
(* installation followed another, or an uninstall happened inside a task   *)
(* and the next task of the same run looked its name up again              *)
(* (darkorbit.cpp:220, 268, 447-448).                                      *)
CachesFollowPool ==
  \A n \in Names : cache[n] \in {Pool, None} \/ replaced

-----------------------------------------------------------------------------
(* The inductive invariant.  c stands for the methods compiled, busy for   *)
(* the numbers of those being called.                                      *)
Own(m, c) == IF m \in c THEN "jit" ELSE "stub"
Holds(s, m) == Id[m] \in DOMAIN s.table /\ Target(s.table[Id[m]]) = m

Clean(s, m, c) == s.proc[m] = Own(m, c) /\ s.invoker[m] = Own(m, c)
Unproxied(s, m) == \A e \in Envs : MethodOf[e] = m /\ Alone(e) => s.env[e] # "proxy"

(* The entry of a method keeps what the player made the pointers; they     *)
(* lead to the proxy if, and only if, the method is not being called.      *)
Entry(s, m, c, busy) ==
  LET h == s.table[Id[m]] IN
  /\ m \in Autos => m \in c
  /\ h.env # "proxy" /\ h.proc # "proxy" /\ h.invoker # "proxy"
  /\ Id[m] \in busy =>
       Clean(s, m, c) /\ h.by # None /\ s.env[h.by] # "proxy"
  /\ Id[m] \notin busy =>
       /\ s.proc[m] = "proxy" /\ s.invoker[m] = "proxy"
       /\ h.proc = Own(m, c) /\ h.invoker = Own(m, c)
       /\ h.by = None => Unproxied(s, m)

Sound(s, m, c, busy) ==
  /\ ~Holds(s, m) => Clean(s, m, c) /\ Unproxied(s, m)
  /\ Holds(s, m) => Entry(s, m, c, busy)

Sounds == \A m \in Plain : Sound(mem, m, compiled, Busy)

(* A plain method is being called once, by the environment its entry names.*)
Once ==
  \A k \in 1..Len(stack) :
    LET m == MethodOf[stack[k].e] IN
    m \in Plain =>
      /\ stack[k].ref
      /\ Holds(mem, m) /\ mem.table[Id[m]].by = stack[k].e
      /\ \A j \in 1..Len(stack) : Id[MethodOf[stack[j].e]] = Id[m] => j = k

(* A reference to an entry, unless uninstall left it dangling, is to one    *)
(* that is in the table.                                                   *)
Referred ==
  \A k \in 1..Len(stack) :
    stack[k].ref => Id[MethodOf[stack[k].e]] \in DOMAIN mem.table

(* Nothing that was freed is being called; no entry names an environment   *)
(* in a chunk that was given back.                                         *)
InUse ==
  /\ \A k \in 1..Len(stack) : {stack[k].e, MethodOf[stack[k].e]} \cap freed = {}
  /\ \A o \in Objects : ChunkOf[o] \in released => o \in freed
  /\ \A i \in DOMAIN mem.table :
       mem.table[i].by # None => ChunkOf[mem.table[i].by] \notin released

(* Tasks run, and names are looked up, while the library is installed.     *)
Installed ==
  /\ \A i \in DOMAIN mem.table : mem.table[i].m \in Timers => installed
  /\ \A k \in 1..Len(stack) : InTask(stack[k]) => installed \/ replaced
  /\ installed \/ replaced \/ \A n \in Names : cache[n] = None

IInv ==
  /\ TypeOK /\ Referred /\ Sounds /\ Once /\ InUse /\ Installed
  /\ ProxyHasHandler /\ FreedEnvsUntouched /\ CachesFollowPool
=============================================================================
