--------------------------- MODULE HookTableProofs ---------------------------
(***************************************************************************)
(* Proofs about HookTable, for every set of methods and environments,      *)
(* every numbering, every depth of calls and any number of frees.  The     *)
(* first part are lemmas about memories: what each thing the code does to  *)
(* one keeps, and for which methods nothing is changed at all.  The second *)
(* are the invariants of the program, one action after the other.          *)
(***************************************************************************)
EXTENDS HookTable, TLAPS

(* Nothing of s that belongs to n differs in t.                            *)
Same(s, t, n) ==
  /\ t.proc[n] = s.proc[n] /\ t.invoker[n] = s.invoker[n]
  /\ Id[n] \in DOMAIN t.table <=> Id[n] \in DOMAIN s.table
  /\ Id[n] \in DOMAIN s.table => t.table[Id[n]] = s.table[Id[n]]
  /\ \A e \in Envs : MethodOf[e] = n => t.env[e] = s.env[e]

LEMMA Constants ==
  /\ \A e \in Envs : MethodOf[e] \in Methods
  /\ \A e \in Envs : e # None /\ e \notin Methods
  /\ \A m \in Methods : Id[m] \in Ids /\ m # None
  /\ MaxDepth \in Nat
BY HookAssumption DEF HookAssumption, Objects, Ids

LEMMA TargetType ==
  ASSUME NEW h \in Pointers
  PROVE  /\ Target(h) \in Methods
         /\ h.by # None => h.by \in Envs /\ Target(h) = MethodOf[h.by]
         /\ h.by = None => Target(h) = h.m
         /\ h.env \in Code /\ h.proc \in Code /\ h.invoker \in Code
BY Constants DEF Pointers, Target

-----------------------------------------------------------------------------
(* The memories the code makes of a memory s, one step each.               *)
Put(s, i, h) == [s EXCEPT !.table[i] = h]
Point(s, e, code) == [s EXCEPT !.env[e] = code]
Jitted(s, m) == [s EXCEPT !.proc[m] = "jit", !.invoker[m] = "jit"]
Restored(s, m) ==
  IF Id[m] \in DOMAIN s.table /\ ~Astray(s.table[Id[m]])
  THEN Restore(s, s.table[Id[m]]) ELSE s
Linked(s, m) ==
  IF m \in compiled THEN s
  ELSE IF Notified(m) THEN Hook(Jitted(s, m), m) ELSE Jitted(s, m)
CalledBy(s, e) == [s.table[Id[MethodOf[e]]] EXCEPT !.by = e]
Called(s, e) ==
  Restore(Put(s, Id[MethodOf[e]], CalledBy(s, e)), CalledBy(s, e))
Kept(s, e) == [s.table[Id[MethodOf[e]]] EXCEPT
                 !.env = s.env[e], !.proc = s.proc[MethodOf[e]],
                 !.invoker = s.invoker[MethodOf[e]]]

(* What the entry under the number of m is put back by is not freed.       *)
Attached(s, m) == Id[m] \in DOMAIN s.table => ~Astray(s.table[Id[m]])
Restorable(s, m) == Holds(s, m) /\ ~Astray(s.table[Id[m]])

LEMMA MemoryRecord ==
  ASSUME NEW s, NEW env, NEW proc, NEW invoker, NEW table,
         s = [env |-> env, proc |-> proc, invoker |-> invoker, table |-> table],
         env \in [Envs -> Code],
         proc \in [Methods -> Code], invoker \in [Methods -> Code],
         DOMAIN table \subseteq Ids, table \in [DOMAIN table -> Pointers],
         \A i \in DOMAIN table : Id[Target(table[i])] = i
  PROVE  /\ Memory(s) /\ s.env = env /\ s.proc = proc /\ s.invoker = invoker
         /\ s.table = table
BY DEF Memory

LEMMA MemoryFields ==
  ASSUME NEW s, Memory(s)
  PROVE  s = [env |-> s.env, proc |-> s.proc, invoker |-> s.invoker,
              table |-> s.table]
BY DEF Memory

LEMMA PutFields ==
  ASSUME NEW s, Memory(s), NEW i \in DOMAIN s.table, NEW h \in Pointers,
         Id[Target(h)] = i
  PROVE  /\ Memory(Put(s, i, h))
         /\ Put(s, i, h).table = [s.table EXCEPT ![i] = h]
         /\ Put(s, i, h).env = s.env
         /\ Put(s, i, h).proc = s.proc /\ Put(s, i, h).invoker = s.invoker
<1> DEFINE table == [s.table EXCEPT ![i] = h]
<1>1. Put(s, i, h) = [s EXCEPT !.table = table]
  BY DEF Put
<1>2. /\ table \in [DOMAIN table -> Pointers] /\ DOMAIN table \subseteq Ids
      /\ \A j \in DOMAIN table : Id[Target(table[j])] = j
  BY DEF Memory
<1> HIDE DEF table
<1>3. Put(s, i, h) = [env |-> s.env, proc |-> s.proc, invoker |-> s.invoker,
                      table |-> table]
  BY <1>1, MemoryFields
<1>4. /\ s.env \in [Envs -> Code] /\ s.proc \in [Methods -> Code]
      /\ s.invoker \in [Methods -> Code]
  BY DEF Memory
<1> QED BY <1>2, <1>3, <1>4, MemoryRecord DEF table

LEMMA PointFields ==
  ASSUME NEW s, Memory(s), NEW e \in Envs, NEW code \in Code
  PROVE  /\ Memory(Point(s, e, code))
         /\ Point(s, e, code).table = s.table
         /\ Point(s, e, code).env = [s.env EXCEPT ![e] = code]
         /\ Point(s, e, code).proc = s.proc
         /\ Point(s, e, code).invoker = s.invoker
<1> DEFINE env == [s.env EXCEPT ![e] = code]
<1>1. Point(s, e, code) = [s EXCEPT !.env = env]
  BY DEF Point
<1>2. env \in [Envs -> Code]
  BY DEF Memory
<1> HIDE DEF env
<1>3. Point(s, e, code) = [env |-> env, proc |-> s.proc,
                           invoker |-> s.invoker, table |-> s.table]
  BY <1>1, MemoryFields
<1>4. /\ s.proc \in [Methods -> Code] /\ s.invoker \in [Methods -> Code]
      /\ DOMAIN s.table \subseteq Ids /\ s.table \in [DOMAIN s.table -> Pointers]
      /\ \A i \in DOMAIN s.table : Id[Target(s.table[i])] = i
  BY DEF Memory
<1> QED BY <1>2, <1>3, <1>4, MemoryRecord DEF env

LEMMA JittedFields ==
  ASSUME NEW s, Memory(s), NEW m \in Methods
  PROVE  /\ Memory(Jitted(s, m))
         /\ Jitted(s, m).table = s.table /\ Jitted(s, m).env = s.env
         /\ Jitted(s, m).proc = [s.proc EXCEPT ![m] = "jit"]
         /\ Jitted(s, m).invoker = [s.invoker EXCEPT ![m] = "jit"]
<1> DEFINE proc == [s.proc EXCEPT ![m] = "jit"]
           invoker == [s.invoker EXCEPT ![m] = "jit"]
<1>1. Jitted(s, m) = [s EXCEPT !.proc = proc, !.invoker = invoker]
  BY DEF Jitted
<1>2. proc \in [Methods -> Code] /\ invoker \in [Methods -> Code]
  BY DEF Memory, Code
<1> HIDE DEF proc, invoker
<1>3. Jitted(s, m) = [env |-> s.env, proc |-> proc, invoker |-> invoker,
                      table |-> s.table]
  BY <1>1, MemoryFields
<1>4. /\ s.env \in [Envs -> Code]
      /\ DOMAIN s.table \subseteq Ids /\ s.table \in [DOMAIN s.table -> Pointers]
      /\ \A i \in DOMAIN s.table : Id[Target(s.table[i])] = i
  BY DEF Memory
<1> QED BY <1>2, <1>3, <1>4, MemoryRecord DEF proc, invoker

LEMMA RestoreFields ==
  ASSUME NEW s, Memory(s), NEW h \in Pointers
  PROVE  /\ Memory(Restore(s, h))
         /\ Restore(s, h).table = s.table
         /\ Restore(s, h).proc = [s.proc EXCEPT ![Target(h)] = h.proc]
         /\ Restore(s, h).invoker = [s.invoker EXCEPT ![Target(h)] = h.invoker]
         /\ Restore(s, h).env =
              IF h.by # None THEN [s.env EXCEPT ![h.by] = h.env] ELSE s.env
<1> DEFINE env == IF h.by # None THEN [s.env EXCEPT ![h.by] = h.env] ELSE s.env
           proc == [s.proc EXCEPT ![Target(h)] = h.proc]
           invoker == [s.invoker EXCEPT ![Target(h)] = h.invoker]
<1>1. Restore(s, h) = [s EXCEPT !.proc = proc, !.invoker = invoker, !.env = env]
  BY DEF Restore
<1>2. env \in [Envs -> Code] /\ proc \in [Methods -> Code]
        /\ invoker \in [Methods -> Code]
  BY TargetType DEF Memory
<1> HIDE DEF env, proc, invoker
<1>3. Restore(s, h) = [env |-> env, proc |-> proc, invoker |-> invoker,
                       table |-> s.table]
  BY <1>1, MemoryFields
<1>4. /\ DOMAIN s.table \subseteq Ids /\ s.table \in [DOMAIN s.table -> Pointers]
      /\ \A i \in DOMAIN s.table : Id[Target(s.table[i])] = i
  BY DEF Memory
<1>5. /\ Memory(Restore(s, h)) /\ Restore(s, h).table = s.table
      /\ Restore(s, h).proc = proc /\ Restore(s, h).invoker = invoker
      /\ Restore(s, h).env = env
  BY <1>2, <1>3, <1>4, MemoryRecord
<1> QED BY <1>5 DEF env, proc, invoker

LEMMA RestoredMemory ==
  ASSUME NEW s, Memory(s), NEW m \in Methods
  PROVE  Memory(Restored(s, m)) /\ Restored(s, m).table = s.table
BY RestoreFields DEF Memory, Restored

(* t is s with m hooked, r what the entry that was there left of s.         *)
Hooks(s, m, r, t) ==
  /\ t.env = r.env
  /\ t.proc = [r.proc EXCEPT ![m] = "proxy"]
  /\ t.invoker = [r.invoker EXCEPT ![m] = "proxy"]
  /\ DOMAIN t.table = DOMAIN s.table \cup {Id[m]}
  /\ \A i \in DOMAIN s.table \ {Id[m]} : t.table[i] = s.table[i]
  /\ Target(t.table[Id[m]]) = m
  /\ t.table[Id[m]].env = r.proc[m] /\ t.table[Id[m]].proc = r.proc[m]
  /\ t.table[Id[m]].invoker = r.invoker[m]
  /\ t.table[Id[m]].by = None /\ t.table[Id[m]].m = m

LEMMA HookFields ==
  ASSUME NEW s, Memory(s), NEW m \in Methods
  PROVE  Memory(Hook(s, m)) /\ Hooks(s, m, Restored(s, m), Hook(s, m))
<1> DEFINE r == Restored(s, m)
           h == [env |-> r.proc[m], proc |-> r.proc[m],
                 invoker |-> r.invoker[m], by |-> None, m |-> m]
           proc == [r.proc EXCEPT ![m] = "proxy"]
           invoker == [r.invoker EXCEPT ![m] = "proxy"]
           table == [i \in DOMAIN r.table \cup {Id[m]} |->
                       IF i = Id[m] THEN h ELSE r.table[i]]
<1>1. Memory(r) /\ r.table = s.table
  BY RestoredMemory
<1>2. Hook(s, m) = [r EXCEPT !.proc = proc, !.invoker = invoker,
                             !.table = table]
  BY DEF Hook, Restored
<1> HIDE DEF r
<1>3. h \in Pointers /\ Target(h) = m
  <2>1. r.proc[m] \in Code /\ r.invoker[m] \in Code
    BY <1>1 DEF Memory
  <2> QED BY <2>1 DEF Pointers, Target
<1>12. /\ h.env = r.proc[m] /\ h.proc = r.proc[m] /\ h.invoker = r.invoker[m]
       /\ h.by = None /\ h.m = m
  OBVIOUS
<1> HIDE DEF h
<1>4. /\ DOMAIN table = DOMAIN s.table \cup {Id[m]}
      /\ table[Id[m]] = h
      /\ \A i \in DOMAIN s.table \ {Id[m]} : table[i] = s.table[i]
  BY <1>1
<1>5. table \in [DOMAIN table -> Pointers]
  BY <1>1, <1>3 DEF Memory
<1>6. \A i \in DOMAIN table : Id[Target(table[i])] = i
  BY <1>1, <1>3, <1>4 DEF Memory
<1>7. DOMAIN table \subseteq Ids
  BY <1>1, <1>4, Constants DEF Memory
<1>8. /\ proc \in [Methods -> Code] /\ invoker \in [Methods -> Code]
      /\ r.env \in [Envs -> Code]
  BY <1>1 DEF Memory, Code
<1> HIDE DEF proc, invoker, table
<1>9. Hook(s, m) = [env |-> r.env, proc |-> proc, invoker |-> invoker,
                    table |-> table]
  BY <1>1, <1>2 DEF Memory
<1>10. /\ Memory(Hook(s, m)) /\ Hook(s, m).env = r.env
       /\ Hook(s, m).proc = proc /\ Hook(s, m).invoker = invoker
       /\ Hook(s, m).table = table
  BY <1>5, <1>6, <1>7, <1>8, <1>9, MemoryRecord
<1>11. Target(Hook(s, m).table[Id[m]]) = m
  BY <1>3, <1>4, <1>10
<1> QED BY <1>4, <1>10, <1>11, <1>12 DEF r, proc, invoker, Hooks

LEMMA HookMemory ==
  ASSUME NEW s, Memory(s), NEW m \in Methods
  PROVE  Memory(Hook(s, m))
BY HookFields

LEMMA LinkedMemory ==
  ASSUME NEW s, Memory(s), NEW m \in Methods
  PROVE  Memory(Linked(s, m))
BY JittedFields, HookMemory DEF Linked

(* t is k with the environment e led where the method leads.               *)
Leads(k, e, t) ==
  /\ t.table = k.table /\ t.proc = k.proc /\ t.invoker = k.invoker
  /\ t.env = [k.env EXCEPT ![e] = k.proc[MethodOf[e]]]

LEMMA VerifyFields ==
  ASSUME NEW s, Memory(s), NEW e \in Envs, NEW m, m = MethodOf[e]
  PROVE  Memory(Verify(s, e)) /\ Leads(Linked(s, m), e, Verify(s, e))
<1> DEFINE k == Linked(s, m)
<1>1. Verify(s, e) = Point(k, e, k.proc[m])
  BY DEF Verify, Linked, Jitted, Point
<1>2. Memory(k) /\ m \in Methods
  BY Constants, LinkedMemory
<1>3. k.proc[m] \in Code
  BY <1>2 DEF Memory
<1> QED BY <1>1, <1>2, <1>3, PointFields DEF Leads

LEMMA VerifyMemory ==
  ASSUME NEW s, Memory(s), NEW e \in Envs
  PROVE  Memory(Verify(s, e))
BY VerifyFields

(* The table of t is that of s, but for the caller the entry names.        *)
NamesCaller(s, e, t) ==
  /\ DOMAIN t.table = DOMAIN s.table
  /\ \A i \in DOMAIN s.table :
       /\ t.table[i].m = s.table[i].m
       /\ t.table[i].by = IF i = Id[MethodOf[e]] THEN e ELSE s.table[i].by

LEMMA CalledFields ==
  ASSUME NEW s, Memory(s), NEW e \in Envs, NEW m, m = MethodOf[e],
         Id[m] \in DOMAIN s.table
  PROVE  /\ Memory(Called(s, e))
         /\ DOMAIN Called(s, e).table = DOMAIN s.table
         /\ \A i \in DOMAIN s.table \ {Id[m]} : Called(s, e).table[i] = s.table[i]
         /\ Called(s, e).table[Id[m]] \in Pointers
         /\ Called(s, e).table[Id[m]].env = s.table[Id[m]].env
         /\ Called(s, e).table[Id[m]].proc = s.table[Id[m]].proc
         /\ Called(s, e).table[Id[m]].invoker = s.table[Id[m]].invoker
         /\ Called(s, e).table[Id[m]].m = s.table[Id[m]].m
         /\ Called(s, e).table[Id[m]].by = e
         /\ Target(Called(s, e).table[Id[m]]) = m
         /\ Called(s, e).proc = [s.proc EXCEPT ![m] = s.table[Id[m]].proc]
         /\ Called(s, e).invoker = [s.invoker EXCEPT ![m] = s.table[Id[m]].invoker]
         /\ Called(s, e).env = [s.env EXCEPT ![e] = s.table[Id[m]].env]
         /\ NamesCaller(s, e, Called(s, e))
<1> DEFINE g == s.table[Id[m]]
           h == CalledBy(s, e)
           r == Put(s, Id[m], h)
<1>1. g \in Pointers
  BY DEF Memory
<1>2. /\ h \in Pointers /\ h.by = e /\ h.env = g.env /\ h.proc = g.proc
      /\ h.invoker = g.invoker /\ h.m = g.m
  BY <1>1 DEF Pointers, CalledBy
<1>3. Called(s, e) = Restore(r, h)
  BY DEF Called
<1> HIDE DEF h
<1>4. Target(h) = m /\ e # None
  BY <1>2, Constants DEF Target
<1>5. /\ Memory(r) /\ r.table = [s.table EXCEPT ![Id[m]] = h]
      /\ r.env = s.env /\ r.proc = s.proc /\ r.invoker = s.invoker
  BY <1>2, <1>4, PutFields
<1> HIDE DEF r, g
<1>6. /\ Memory(Called(s, e))
      /\ Called(s, e).table = [s.table EXCEPT ![Id[m]] = h]
      /\ Called(s, e).proc = [s.proc EXCEPT ![m] = g.proc]
      /\ Called(s, e).invoker = [s.invoker EXCEPT ![m] = g.invoker]
      /\ Called(s, e).env = [s.env EXCEPT ![e] = g.env]
  BY <1>2, <1>3, <1>4, <1>5, RestoreFields
<1>7. NamesCaller(s, e, Called(s, e))
  BY <1>2, <1>6 DEF NamesCaller, g
<1> QED BY <1>2, <1>4, <1>6, <1>7 DEF g

LEMMA CalledNames ==
  ASSUME NEW s, Memory(s), NEW e \in Envs, NEW m, m = MethodOf[e],
         Id[m] \in DOMAIN s.table
  PROVE  NamesCaller(s, e, Called(s, e))
BY CalledFields

LEMMA KeepFields ==
  ASSUME NEW s, Memory(s), NEW e \in Envs, NEW m, m = MethodOf[e],
         Id[m] \in DOMAIN s.table
  PROVE  /\ Memory(Keep(s, e))
         /\ Keep(s, e).env = s.env /\ Keep(s, e).proc = s.proc
         /\ Keep(s, e).invoker = s.invoker
         /\ DOMAIN Keep(s, e).table = DOMAIN s.table
         /\ \A i \in DOMAIN s.table \ {Id[m]} : Keep(s, e).table[i] = s.table[i]
         /\ Keep(s, e).table[Id[m]].env = s.env[e]
         /\ Keep(s, e).table[Id[m]].proc = s.proc[m]
         /\ Keep(s, e).table[Id[m]].invoker = s.invoker[m]
         /\ Keep(s, e).table[Id[m]].m = s.table[Id[m]].m
         /\ Keep(s, e).table[Id[m]].by = s.table[Id[m]].by
         /\ Target(Keep(s, e).table[Id[m]]) = Target(s.table[Id[m]])
<1> DEFINE g == s.table[Id[m]]
           h == Kept(s, e)
           r == Put(s, Id[m], h)
<1>1. g \in Pointers /\ Id[Target(g)] = Id[m]
  BY DEF Memory
<1>2. /\ h \in Pointers /\ h.by = g.by /\ h.env = s.env[e]
      /\ h.proc = s.proc[m] /\ h.invoker = s.invoker[m] /\ h.m = g.m
  BY <1>1, Constants DEF Pointers, Memory, Kept
<1>3. Keep(s, e) = r
  <2>1. s = [env |-> s.env, proc |-> s.proc, invoker |-> s.invoker,
             table |-> s.table]
    BY DEF Memory
  <2>2. s.table \in [DOMAIN s.table -> Pointers]
    BY DEF Memory
  <2> QED BY <1>1, <2>1, <2>2 DEF Keep, Put, Kept, Pointers
<1> HIDE DEF h
<1>4. Target(h) = Target(g)
  BY <1>2 DEF Target
<1>5. /\ Memory(r) /\ r.table = [s.table EXCEPT ![Id[m]] = h]
      /\ r.env = s.env /\ r.proc = s.proc /\ r.invoker = s.invoker
  BY <1>1, <1>2, <1>4, PutFields
<1> HIDE DEF r
<1> QED BY <1>2, <1>3, <1>4, <1>5

LEMMA ReinstallFields ==
  ASSUME NEW s, Memory(s), NEW e \in Envs, NEW m, m = MethodOf[e]
  PROVE  /\ Memory(Reinstall(s, e)) /\ Reinstall(s, e).table = s.table
         /\ Reinstall(s, e).env = [s.env EXCEPT ![e] = "proxy"]
         /\ Reinstall(s, e).proc = [s.proc EXCEPT ![m] = "proxy"]
         /\ Reinstall(s, e).invoker = [s.invoker EXCEPT ![m] = "proxy"]
<1> DEFINE env == [s.env EXCEPT ![e] = "proxy"]
           proc == [s.proc EXCEPT ![m] = "proxy"]
           invoker == [s.invoker EXCEPT ![m] = "proxy"]
<1>1. Reinstall(s, e) =
        [s EXCEPT !.env = env, !.proc = proc, !.invoker = invoker]
  BY DEF Reinstall
<1>2. /\ proc \in [Methods -> Code] /\ invoker \in [Methods -> Code]
      /\ env \in [Envs -> Code]
  BY DEF Memory, Code
<1> HIDE DEF env, proc, invoker
<1>3. Reinstall(s, e) = [env |-> env, proc |-> proc, invoker |-> invoker,
                         table |-> s.table]
  BY <1>1, MemoryFields
<1>4. /\ DOMAIN s.table \subseteq Ids /\ s.table \in [DOMAIN s.table -> Pointers]
      /\ \A i \in DOMAIN s.table : Id[Target(s.table[i])] = i
  BY DEF Memory
<1> QED BY <1>2, <1>3, <1>4, MemoryRecord DEF env, proc, invoker

LEMMA RestoreAllFields ==
  ASSUME NEW s, Memory(s)
  PROVE  /\ Memory(RestoreAll(s)) /\ DOMAIN RestoreAll(s).table = {}
         /\ \A m \in Methods :
              /\ RestoreAll(s).proc[m] =
                   IF Restorable(s, m) THEN s.table[Id[m]].proc ELSE s.proc[m]
              /\ RestoreAll(s).invoker[m] =
                   IF Restorable(s, m) THEN s.table[Id[m]].invoker ELSE s.invoker[m]
         /\ \A e \in Envs :
              RestoreAll(s).env[e] =
                IF e \notin freed /\ \E i \in DOMAIN s.table : s.table[i].by = e
                THEN s.table[Id[MethodOf[e]]].env ELSE s.env[e]
<1> DEFINE proc == [m \in Methods |-> IF Restorable(s, m) THEN s.table[Id[m]].proc
                                                    ELSE s.proc[m]]
           invoker == [m \in Methods |-> IF Restorable(s, m)
                                         THEN s.table[Id[m]].invoker
                                         ELSE s.invoker[m]]
           called == {s.table[i].by : i \in DOMAIN s.table} \ freed
           env == [e \in Envs |-> IF e \in called
                                  THEN s.table[Id[MethodOf[e]]].env ELSE s.env[e]]
           t == RestoreAll(s)
<1>1. RestoreMethods(s) = [env |-> s.env, proc |-> proc, invoker |-> invoker,
                           table |-> <<>>]
  BY DEF RestoreMethods, Restorable, Holds
<1>2. \A e \in Envs : e \in called => Id[MethodOf[e]] \in DOMAIN s.table
  <2> SUFFICES ASSUME NEW e \in Envs, NEW i \in DOMAIN s.table,
                      s.table[i].by = e
               PROVE  Id[MethodOf[e]] \in DOMAIN s.table
    OBVIOUS
  <2> QED BY Constants DEF Memory, Target
<1>3. proc \in [Methods -> Code] /\ invoker \in [Methods -> Code]
  BY TargetType DEF Memory, Restorable, Holds
<1>4. env \in [Envs -> Code]
  BY <1>2, TargetType DEF Memory
<1>5. t = [RestoreMethods(s) EXCEPT !.env = env]
  BY DEF RestoreAll
<1> HIDE DEF proc, invoker, env, t
<1>6. t = [env |-> env, proc |-> proc, invoker |-> invoker, table |-> <<>>]
  BY <1>1, <1>5
<1>7. /\ t.env = env /\ t.proc = proc /\ t.invoker = invoker
      /\ t.table = <<>>
  BY <1>6
<1>8. DOMAIN t.table = {} /\ t.table \in [DOMAIN t.table -> Pointers]
  BY <1>7
<1>9. Memory(t)
  BY <1>3, <1>4, <1>6, <1>7, <1>8 DEF Memory
<1> QED BY <1>7, <1>8, <1>9 DEF proc, invoker, env, t

-----------------------------------------------------------------------------
(* A method whose number differs from that of the one that is hooked,      *)
(* compiled, called or returned from is left as it was.                    *)
LEMMA SameSound ==
  ASSUME NEW s, NEW t, Memory(s), Memory(t), NEW n \in Methods, Same(s, t, n),
         NEW c, NEW d, n \in c <=> n \in d,
         NEW b, NEW busy, Id[n] \in b <=> Id[n] \in busy,
         Sound(s, n, c, b)
  PROVE  Sound(t, n, d, busy)
<1> DEFINE h == s.table[Id[n]]
<1>1. Own(n, c) = Own(n, d)
  BY DEF Own
<1>2. Holds(s, n) <=> Holds(t, n)
  BY DEF Same, Holds
<1>3. CASE ~Holds(s, n)
  BY <1>1, <1>2, <1>3 DEF Sound, Same, Clean, Unproxied
<1>4. CASE Holds(s, n)
  <2>1. h \in Pointers /\ t.table[Id[n]] = h /\ Target(h) = n
    BY <1>4 DEF Memory, Holds, Same
  <2>2. h.by # None => t.env[h.by] = s.env[h.by]
    BY <2>1, TargetType DEF Same
  <2>3. Entry(s, n, c, b)
    BY <1>4 DEF Sound
  <2>4. Entry(t, n, d, busy)
    BY <1>1, <2>1, <2>2, <2>3 DEF Entry, Same, Clean, Unproxied
  <2> QED BY <1>2, <1>4, <2>4 DEF Sound
<1> QED BY <1>3, <1>4

LEMMA RestoredElsewhere ==
  ASSUME NEW s, Memory(s), NEW m \in Methods, NEW n \in Methods, Id[n] # Id[m]
  PROVE  Same(s, Restored(s, m), n)
<1> DEFINE h == s.table[Id[m]]
<1>1. CASE Id[m] \in DOMAIN s.table /\ ~Astray(h)
  <2>1. h \in Pointers /\ Id[Target(h)] = Id[m] /\ Target(h) # n
    BY <1>1 DEF Memory
  <2>2. h.by # None => MethodOf[h.by] # n
    BY <2>1, TargetType
  <2>3. Restored(s, m) = Restore(s, h)
    BY <1>1 DEF Restored
  <2> DEFINE r == Restored(s, m)
  <2>4. /\ r.table = s.table
        /\ r.proc = [s.proc EXCEPT ![Target(h)] = h.proc]
        /\ r.invoker = [s.invoker EXCEPT ![Target(h)] = h.invoker]
        /\ r.env = IF h.by # None THEN [s.env EXCEPT ![h.by] = h.env] ELSE s.env
    BY <2>1, <2>3, RestoreFields
  <2> HIDE DEF h, r
  <2>5. Same(s, r, n)
    BY <2>1, <2>2, <2>4 DEF Same, Memory
  <2> QED BY <2>5 DEF r
<1>2. CASE ~(Id[m] \in DOMAIN s.table /\ ~Astray(h))
  BY <1>2 DEF Same, Restored
<1> QED BY <1>1, <1>2

LEMMA HookElsewhere ==
  ASSUME NEW s, Memory(s), NEW m \in Methods, NEW n \in Methods, Id[n] # Id[m]
  PROVE  Same(s, Hook(s, m), n)
<1> DEFINE r == Restored(s, m)
           t == Hook(s, m)
<1>1. Memory(r) /\ r.table = s.table /\ Same(s, r, n)
  BY RestoredMemory, RestoredElsewhere
<1>2. /\ t.env = r.env /\ t.proc = [r.proc EXCEPT ![m] = "proxy"]
      /\ t.invoker = [r.invoker EXCEPT ![m] = "proxy"]
      /\ DOMAIN t.table = DOMAIN s.table \cup {Id[m]}
      /\ \A i \in DOMAIN s.table \ {Id[m]} : t.table[i] = s.table[i]
  <2>1. Hooks(s, m, r, t)
    BY HookFields
  <2> HIDE DEF t, r
  <2> QED BY <2>1 DEF Hooks
<1>3. n # m
  OBVIOUS
<1> HIDE DEF r, t
<1>4. Same(r, t, n)
  BY <1>1, <1>2, <1>3 DEF Same, Memory
<1> QED BY <1>1, <1>4 DEF Same, t

LEMMA CalledElsewhere ==
  ASSUME NEW s, Memory(s), NEW e \in Envs, Id[MethodOf[e]] \in DOMAIN s.table,
         NEW n \in Methods, Id[n] # Id[MethodOf[e]]
  PROVE  Same(s, Called(s, e), n)
<1> DEFINE m == MethodOf[e]
           t == Called(s, e)
<1>1. m \in Methods /\ Id[m] \in DOMAIN s.table /\ m # n
  BY Constants
<1> HIDE DEF m
<1>2. /\ DOMAIN t.table = DOMAIN s.table
      /\ \A i \in DOMAIN s.table \ {Id[m]} : t.table[i] = s.table[i]
      /\ t.proc = [s.proc EXCEPT ![m] = s.table[Id[m]].proc]
      /\ t.invoker = [s.invoker EXCEPT ![m] = s.table[Id[m]].invoker]
      /\ t.env = [s.env EXCEPT ![e] = s.table[Id[m]].env]
  BY <1>1, CalledFields DEF m
<1> HIDE DEF t
<1>3. MethodOf[e] # n /\ Id[n] # Id[m]
  BY DEF m
<1>4. Same(s, t, n)
  BY <1>1, <1>2, <1>3 DEF Same, Memory
<1> QED BY <1>4 DEF t

LEMMA VerifyElsewhere ==
  ASSUME NEW s, Memory(s), NEW e \in Envs,
         NEW n \in Methods, Id[n] # Id[MethodOf[e]]
  PROVE  Same(s, Verify(s, e), n)
<1> DEFINE m == MethodOf[e]
           j == Jitted(s, m)
           k == Linked(s, m)
<1>1. m \in Methods /\ m # n
  BY Constants
<1>2. Memory(j) /\ Same(s, j, n)
  <2>1. /\ Memory(j) /\ j.table = s.table /\ j.env = s.env
        /\ j.proc = [s.proc EXCEPT ![m] = "jit"]
        /\ j.invoker = [s.invoker EXCEPT ![m] = "jit"]
    BY <1>1, JittedFields
  <2> HIDE DEF j
  <2> QED BY <1>1, <2>1 DEF Same, Memory
<1>3. Same(j, Hook(j, m), n)
  BY <1>1, <1>2, HookElsewhere
<1>4. Same(s, k, n) /\ Memory(k)
  BY <1>1, <1>2, <1>3, LinkedMemory DEF Same, Linked
<1>5. Same(k, Verify(s, e), n)
  <2> DEFINE t == Verify(s, e)
  <2>1. /\ t.table = k.table /\ t.proc = k.proc /\ t.invoker = k.invoker
        /\ t.env = [k.env EXCEPT ![e] = k.proc[m]]
    BY VerifyFields DEF Leads
  <2> HIDE DEF k, t
  <2>2. Same(k, t, n)
    BY <1>1, <1>4, <2>1 DEF Same, Memory
  <2> QED BY <2>2 DEF t
<1> QED BY <1>4, <1>5 DEF Same

LEMMA ReinstallElsewhere ==
  ASSUME NEW s, Memory(s), NEW e \in Envs,
         NEW n \in Methods, Id[n] # Id[MethodOf[e]]
  PROVE  Same(s, Reinstall(s, e), n)
<1> DEFINE m == MethodOf[e]
           t == Reinstall(s, e)
<1>1. /\ t.table = s.table
      /\ t.env = [s.env EXCEPT ![e] = "proxy"]
      /\ t.proc = [s.proc EXCEPT ![m] = "proxy"]
      /\ t.invoker = [s.invoker EXCEPT ![m] = "proxy"]
  BY ReinstallFields
<1> HIDE DEF t
<1>2. m \in Methods /\ m # n
  BY Constants
<1>3. Same(s, t, n)
  BY <1>1, <1>2 DEF Same, Memory
<1> QED BY <1>3 DEF t

LEMMA KeepElsewhere ==
  ASSUME NEW s, Memory(s), NEW e \in Envs, Id[MethodOf[e]] \in DOMAIN s.table,
         NEW n \in Methods, Id[n] # Id[MethodOf[e]]
  PROVE  Same(s, Keep(s, e), n)
BY KeepFields, Constants DEF Same, Memory

-----------------------------------------------------------------------------
(* What is done to a method, and to others of its number, while it is not  *)
(* being called.                                                           *)
LEMMA OwnCode == \A m, c : Own(m, c) \in {"stub", "jit"}
BY DEF Own

LEMMA RestoredHome ==
  ASSUME NEW s, Memory(s), NEW m \in Methods, NEW c, NEW b, Id[m] \notin b,
         Attached(s, m), NEW n \in Methods, Id[n] = Id[m], Sound(s, n, c, b)
  PROVE  Clean(Restored(s, m), n, c) /\ Unproxied(Restored(s, m), n)
<1> DEFINE h == s.table[Id[m]]
           r == Restored(s, m)
<1>1. CASE Id[m] \notin DOMAIN s.table
  BY <1>1 DEF Sound, Holds, Restored
<1>2. CASE Id[m] \in DOMAIN s.table
  <2>1. h \in Pointers /\ r = Restore(s, h)
    BY <1>2 DEF Memory, Restored, Attached
  <2>2. /\ r.proc = [s.proc EXCEPT ![Target(h)] = h.proc]
        /\ r.invoker = [s.invoker EXCEPT ![Target(h)] = h.invoker]
        /\ r.env = IF h.by # None THEN [s.env EXCEPT ![h.by] = h.env] ELSE s.env
    BY <2>1, RestoreFields
  <2>3. CASE Target(h) = n
    <3>1. Entry(s, n, c, b)
      BY <1>2, <2>3 DEF Sound, Holds
    <3>2. /\ h.proc = Own(n, c) /\ h.invoker = Own(n, c) /\ h.env # "proxy"
          /\ h.by = None => Unproxied(s, n)
      BY <3>1 DEF Entry
    <3> HIDE DEF h, r
    <3>3. Clean(r, n, c)
      BY <2>2, <2>3, <3>2 DEF Clean, Memory
    <3>4. ASSUME NEW e \in Envs, MethodOf[e] = n, Alone(e)
          PROVE  r.env[e] # "proxy"
      <4>1. CASE h.by = None
        BY <2>2, <3>2, <3>4, <4>1 DEF Unproxied
      <4>2. CASE h.by # None
        <5>1. h.by \in Envs /\ MethodOf[h.by] = n
          BY <2>1, <2>3, <4>2, TargetType
        <5>2. h.by = e
          BY <3>4, <5>1 DEF Alone
        <5> QED BY <2>2, <3>2, <4>2, <5>2 DEF Memory
      <4> QED BY <4>1, <4>2
    <3> QED BY <3>3, <3>4 DEF Unproxied, r
  <2>4. CASE Target(h) # n
    <3>1. Clean(s, n, c) /\ Unproxied(s, n)
      BY <1>2, <2>4 DEF Sound, Holds
    <3>2. h.by # None => h.by \in Envs /\ MethodOf[h.by] # n
      BY <2>1, <2>4, TargetType
    <3> HIDE DEF h, r
    <3>3. Clean(r, n, c)
      BY <2>2, <2>4, <3>1 DEF Clean, Memory
    <3>4. Unproxied(r, n)
      BY <2>2, <3>1, <3>2 DEF Unproxied, Memory
    <3> QED BY <3>3, <3>4 DEF r
  <2> QED BY <2>3, <2>4
<1> QED BY <1>1, <1>2

LEMMA HookHome ==
  ASSUME NEW s, Memory(s), NEW m \in Methods, NEW c, NEW b, Id[m] \notin b,
         m \in Autos => m \in c, Attached(s, m),
         NEW n \in Methods, Id[n] = Id[m], Sound(s, n, c, b), Sound(s, m, c, b)
  PROVE  Sound(Hook(s, m), n, c, b)
<1> DEFINE r == Restored(s, m)
           t == Hook(s, m)
           h == t.table[Id[m]]
<1>1. Clean(r, n, c) /\ Unproxied(r, n) /\ Clean(r, m, c) /\ Unproxied(r, m)
  BY RestoredHome
<1>2. /\ Memory(r)
      /\ h.env = r.proc[m] /\ h.proc = r.proc[m] /\ h.invoker = r.invoker[m]
      /\ h.by = None
      /\ Target(h) = m
      /\ t.env = r.env
      /\ t.proc = [r.proc EXCEPT ![m] = "proxy"]
      /\ t.invoker = [r.invoker EXCEPT ![m] = "proxy"]
      /\ Id[m] \in DOMAIN t.table
  <2>1. Hooks(s, m, r, t) /\ Memory(r)
    BY HookFields, RestoredMemory
  <2> HIDE DEF t, r
  <2> QED BY <2>1 DEF Hooks
<1> HIDE DEF t, r
<1>3. CASE n = m
  <2>1. Entry(t, m, c, b)
    BY <1>1, <1>2, OwnCode DEF Entry, Clean, Unproxied, Memory
  <2> QED BY <1>2, <1>3, <2>1 DEF Sound, Holds, t
<1>4. CASE n # m
  <2>1. ~Holds(t, n)
    BY <1>2, <1>4 DEF Holds
  <2> QED BY <1>1, <1>2, <1>4, <2>1 DEF Sound, Clean, Unproxied, Memory, t
<1> QED BY <1>3, <1>4

LEMMA CalledHome ==
  ASSUME NEW s, Memory(s), NEW e \in Envs, NEW m, m = MethodOf[e],
         NEW c, NEW b, NEW busy, Id[m] \notin b, Id[m] \in busy, Holds(s, m),
         NEW n \in Methods, Id[n] = Id[m], Sound(s, n, c, b)
  PROVE  Sound(Called(s, e), n, c, busy)
<1> DEFINE t == Called(s, e)
           h == t.table[Id[m]]
           g == s.table[Id[m]]
<1>1. /\ Id[m] \in DOMAIN t.table /\ h.env = g.env /\ h.proc = g.proc
      /\ h.invoker = g.invoker /\ h.by = e /\ Target(h) = m
      /\ t.proc = [s.proc EXCEPT ![m] = g.proc]
      /\ t.invoker = [s.invoker EXCEPT ![m] = g.invoker]
      /\ t.env = [s.env EXCEPT ![e] = g.env]
  BY CalledFields DEF Holds
<1> HIDE DEF t
<1>2. CASE n = m
  <2>1. Entry(s, m, c, b)
    BY <1>2 DEF Sound
  <2>2. Entry(t, m, c, busy)
    BY <1>1, <2>1, Constants DEF Entry, Clean, Memory
  <2> QED BY <1>1, <1>2, <2>2 DEF Sound, Holds, t
<1>3. CASE n # m
  <2>1. ~Holds(t, n) /\ ~Holds(s, n)
    BY <1>1, <1>3 DEF Holds
  <2> QED BY <1>1, <1>3, <2>1 DEF Sound, Clean, Unproxied, Memory, t
<1> QED BY <1>2, <1>3

LEMMA VerifyPlain ==
  ASSUME NEW s, Memory(s), NEW e \in Envs, NEW m, m = MethodOf[e],
         m \in compiled \/ ~Notified(m), s.proc[m] # "proxy",
         NEW n \in Methods, Id[n] = Id[m], NEW b,
         Sound(s, n, compiled, b)
  PROVE  Sound(Verify(s, e), n, compiled \cup {m}, b)
<1> DEFINE k == Linked(s, m)
           t == Verify(s, e)
           d == compiled \cup {m}
<1>1. /\ m \in Methods /\ Memory(k) /\ k.table = s.table /\ k.env = s.env
      /\ \A x \in Methods \ {m} :
           k.proc[x] = s.proc[x] /\ k.invoker[x] = s.invoker[x]
      /\ m \notin compiled => k.proc[m] = "jit" /\ k.invoker[m] = "jit"
      /\ m \in compiled => k = s
  <2>1. m \in Methods
    BY Constants
  <2>2. CASE m \in compiled
    BY <2>1, <2>2 DEF Linked
  <2>3. CASE m \notin compiled
    <3>1. k = Jitted(s, m)
      BY <2>3 DEF Linked
    <3> HIDE DEF k
    <3>2. /\ Memory(k) /\ k.table = s.table /\ k.env = s.env
          /\ k.proc = [s.proc EXCEPT ![m] = "jit"]
          /\ k.invoker = [s.invoker EXCEPT ![m] = "jit"]
      BY <2>1, <3>1, JittedFields
    <3> QED BY <2>1, <2>3, <3>2 DEF Memory
  <2> QED BY <2>2, <2>3
<1>2. /\ t.table = k.table /\ t.proc = k.proc /\ t.invoker = k.invoker
      /\ t.env = [k.env EXCEPT ![e] = k.proc[m]]
      /\ Memory(t)
  BY VerifyFields DEF Leads
<1> HIDE DEF k, t
<1>3. Holds(t, n) <=> Holds(s, n)
  BY <1>1, <1>2 DEF Holds
<1>4. CASE n = m
  <2>1. /\ Holds(s, m) => Id[m] \in b
        /\ Clean(s, m, compiled)
    BY <1>4 DEF Sound, Entry
  <2>2. Clean(t, m, d) /\ t.env[e] = "jit"
    <3>1. t.proc[m] = "jit" /\ t.invoker[m] = "jit"
      BY <1>1, <1>2, <2>1 DEF Clean, Own
    <3> QED BY <1>1, <1>2, <3>1 DEF Clean, Own, Memory
  <2>3. ASSUME NEW x \in Envs, s.env[x] # "proxy"
        PROVE  t.env[x] # "proxy"
    BY <1>1, <1>2, <2>2, <2>3 DEF Memory
  <2>4. CASE ~Holds(s, m)
    BY <1>3, <1>4, <2>2, <2>3, <2>4 DEF Sound, Unproxied, t
  <2>5. CASE Holds(s, m)
    <3>1. Entry(s, m, compiled, b)
      BY <1>4, <2>5 DEF Sound
    <3>2. s.table[Id[m]] \in Pointers
      BY <2>5 DEF Memory, Holds
    <3>3. Entry(t, m, d, b)
      BY <1>1, <1>2, <2>1, <2>2, <2>3, <2>5, <3>1, <3>2, TargetType DEF Entry
    <3> QED BY <1>3, <1>4, <2>5, <3>3 DEF Sound, t
  <2> QED BY <2>4, <2>5
<1>5. CASE n # m
  <2>1. Same(s, t, n)
    BY <1>1, <1>2, <1>5 DEF Same, Memory
  <2>2. n \in compiled <=> n \in d
    BY <1>5
  <2> QED BY <1>2, <2>1, <2>2, SameSound DEF t
<1> QED BY <1>4, <1>5

LEMMA VerifyNotified ==
  ASSUME NEW s, Memory(s), NEW m \in Methods, m \notin compiled, m \in Autos,
         Attached(s, m), NEW n \in Methods, Id[n] = Id[m], NEW b, Id[m] \notin b,
         Sound(s, n, compiled, b), Sound(s, m, compiled, b)
  PROVE  Sound(Hook(Jitted(s, m), m), n, compiled \cup {m}, b)
<1> DEFINE j == Jitted(s, m)
           d == compiled \cup {m}
<1>1. /\ Memory(j) /\ j.table = s.table /\ j.env = s.env
      /\ j.proc = [s.proc EXCEPT ![m] = "jit"]
      /\ j.invoker = [s.invoker EXCEPT ![m] = "jit"]
  BY JittedFields
<1> HIDE DEF j
<1>2. ~Holds(s, m)
  BY DEF Sound, Entry
<1>3. Sound(j, m, d, b)
  <2>1. ~Holds(j, m) /\ Unproxied(j, m)
    BY <1>1, <1>2 DEF Sound, Holds, Unproxied
  <2>2. Clean(j, m, d)
    BY <1>1 DEF Clean, Own, Memory
  <2> QED BY <2>1, <2>2 DEF Sound
<1>4. n # m => Same(s, j, n)
  BY <1>1 DEF Same, Memory
<1>5. Sound(j, n, d, b)
  <2>1. CASE n = m
    BY <1>3, <2>1
  <2>2. CASE n # m
    <3>1. n \in compiled <=> n \in d
      BY <2>2
    <3> QED BY <1>1, <1>4, <2>2, <3>1, SameSound
  <2> QED BY <2>1, <2>2
<1>6. Sound(Hook(j, m), n, d, b)
  <2>1. Attached(j, m) /\ m \in d
    BY <1>1 DEF Attached
  <2> QED BY <1>1, <1>3, <1>5, <2>1, HookHome
<1> QED BY <1>6 DEF j

(* The environment called is put back where the entry says, wherever the   *)
(* player led it when it compiled the method.                              *)
LEMMA CalledLinked ==
  ASSUME NEW k, Memory(k), NEW s, Memory(s), NEW e \in Envs, NEW m,
         m = MethodOf[e], Leads(k, e, s), Id[m] \in DOMAIN k.table,
         NEW n \in Methods
  PROVE  Same(Called(k, e), Called(s, e), n)
<1> DEFINE t == Called(k, e)
           u == Called(s, e)
<1>1. /\ s.table = k.table /\ s.proc = k.proc /\ s.invoker = k.invoker
      /\ s.env = [k.env EXCEPT ![e] = k.proc[m]]
  BY DEF Leads
<1>2. CalledBy(s, e) = CalledBy(k, e)
  BY <1>1 DEF CalledBy
<1> DEFINE h == CalledBy(k, e)
<1>3. h \in Pointers /\ h.by = e /\ e # None /\ Id[Target(h)] = Id[m]
  <2>1. k.table[Id[m]] \in Pointers /\ e # None
    BY Constants DEF Memory
  <2>2. h \in Pointers /\ h.by = e
    BY <2>1 DEF CalledBy, Pointers
  <2> QED BY <2>1, <2>2 DEF Target
<1> DEFINE p == Put(k, Id[m], h)
           q == Put(s, Id[m], h)
<1>4. /\ t = Restore(p, h) /\ u = Restore(q, h)
      /\ Id[m] \in DOMAIN s.table
  BY <1>1, <1>2 DEF Called
<1> HIDE DEF h, t, u
<1>5. /\ Memory(p) /\ p.table = [k.table EXCEPT ![Id[m]] = h]
      /\ p.env = k.env /\ p.proc = k.proc /\ p.invoker = k.invoker
  BY <1>3, PutFields
<1>6. /\ Memory(q) /\ q.table = [s.table EXCEPT ![Id[m]] = h]
      /\ q.env = s.env /\ q.proc = s.proc /\ q.invoker = s.invoker
  BY <1>3, <1>4, PutFields
<1> HIDE DEF p, q
<1>7. /\ t.table = p.table
      /\ t.proc = [p.proc EXCEPT ![Target(h)] = h.proc]
      /\ t.invoker = [p.invoker EXCEPT ![Target(h)] = h.invoker]
      /\ t.env = [p.env EXCEPT ![e] = h.env]
  BY <1>3, <1>4, <1>5, RestoreFields
<1>8. /\ u.table = q.table
      /\ u.proc = [q.proc EXCEPT ![Target(h)] = h.proc]
      /\ u.invoker = [q.invoker EXCEPT ![Target(h)] = h.invoker]
      /\ u.env = [q.env EXCEPT ![e] = h.env]
  BY <1>3, <1>4, <1>6, RestoreFields
<1>9. t.table = u.table /\ t.proc = u.proc /\ t.invoker = u.invoker
  BY <1>1, <1>5, <1>6, <1>7, <1>8
<1>10. \A x \in Envs : t.env[x] = u.env[x]
  BY <1>1, <1>5, <1>6, <1>7, <1>8 DEF Memory
<1>11. Same(t, u, n)
  BY <1>9, <1>10 DEF Same
<1> QED BY <1>11 DEF t, u

LEMMA ReturnHome ==
  ASSUME NEW s, Memory(s), NEW e \in Envs, NEW m, m = MethodOf[e],
         NEW c, NEW b, NEW busy, Id[m] \in b, Id[m] \notin busy,
         Holds(s, m), s.table[Id[m]].by = e, Sound(s, m, c, b),
         NEW n \in Methods, Id[n] = Id[m], Sound(s, n, c, b)
  PROVE  Sound(Reinstall(Keep(s, e), e), n, c, busy)
<1> DEFINE k == Keep(s, e)
           t == Reinstall(k, e)
           h == t.table[Id[m]]
<1>1. /\ Memory(k) /\ k.env = s.env /\ k.proc = s.proc
      /\ k.invoker = s.invoker /\ DOMAIN k.table = DOMAIN s.table
      /\ k.table[Id[m]].env = s.env[e] /\ k.table[Id[m]].proc = s.proc[m]
      /\ k.table[Id[m]].invoker = s.invoker[m]
      /\ k.table[Id[m]].by = e /\ Target(k.table[Id[m]]) = m
  BY KeepFields DEF Holds
<1> HIDE DEF k
<1>2. /\ t.table = k.table
      /\ t.env = [s.env EXCEPT ![e] = "proxy"]
      /\ t.proc = [s.proc EXCEPT ![m] = "proxy"]
      /\ t.invoker = [s.invoker EXCEPT ![m] = "proxy"]
  <2>1. Memory(k)
    BY <1>1
  <2>2. /\ Reinstall(k, e).table = k.table
        /\ Reinstall(k, e).env = [k.env EXCEPT ![e] = "proxy"]
        /\ Reinstall(k, e).proc = [k.proc EXCEPT ![m] = "proxy"]
        /\ Reinstall(k, e).invoker = [k.invoker EXCEPT ![m] = "proxy"]
    <3> HIDE DEF t, h
    <3> QED BY <2>1, ReinstallFields, SMTT(30)
  <2>3. /\ t.table = k.table
        /\ t.env = [k.env EXCEPT ![e] = "proxy"]
        /\ t.proc = [k.proc EXCEPT ![m] = "proxy"]
        /\ t.invoker = [k.invoker EXCEPT ![m] = "proxy"]
    BY <2>2
  <2> HIDE DEF t
  <2> QED BY <1>1, <2>3
<1> HIDE DEF t
<1>3. Id[m] \in DOMAIN t.table /\ m \in Methods /\ e # None
  BY <1>1, <1>2, Constants DEF Holds
<1>4. CASE n = m
  <2>1. Entry(s, m, c, b)
    BY DEF Sound
  <2>2. Clean(s, m, c) /\ s.env[e] # "proxy" /\ (m \in Autos => m \in c)
    BY <2>1 DEF Entry
  <2>3. t.proc[m] = "proxy" /\ t.invoker[m] = "proxy"
    BY <1>2, <1>3 DEF Memory
  <2>4. Entry(t, m, c, busy)
    BY <1>1, <1>2, <1>3, <2>2, <2>3, OwnCode DEF Entry, Clean
  <2> QED BY <1>1, <1>2, <1>3, <1>4, <2>4 DEF Sound, Holds, t, k
<1>5. CASE n # m
  <2>1. ~Holds(t, n) /\ ~Holds(s, n)
    BY <1>1, <1>2, <1>5 DEF Holds
  <2> QED BY <1>2, <1>5, <2>1 DEF Sound, Clean, Unproxied, Memory, t, k
<1> QED BY <1>4, <1>5

LEMMA RestoreAllHome ==
  ASSUME NEW s, Memory(s), NEW n \in Methods, NEW c, NEW b, Id[n] \notin b,
         Attached(s, n), Sound(s, n, c, b), NEW busy
  PROVE  Sound(RestoreAll(s), n, c, busy)
<1> DEFINE t == RestoreAll(s)
           h == s.table[Id[n]]
<1>1. /\ DOMAIN t.table = {}
      /\ t.proc[n] = IF Holds(s, n) THEN h.proc ELSE s.proc[n]
      /\ t.invoker[n] = IF Holds(s, n) THEN h.invoker ELSE s.invoker[n]
      /\ \A e \in Envs : MethodOf[e] = n =>
           t.env[e] = IF e \notin freed /\ \E i \in DOMAIN s.table : s.table[i].by = e
                      THEN h.env ELSE s.env[e]
  BY RestoreAllFields DEF Attached, Restorable, Holds
<1> HIDE DEF t
<1>2. ~Holds(t, n)
  BY <1>1 DEF Holds
<1>3. Clean(t, n, c)
  BY <1>1 DEF Sound, Entry, Clean
<1>4. ASSUME NEW e \in Envs, MethodOf[e] = n, Alone(e)
      PROVE  t.env[e] # "proxy"
  <2>1. ASSUME NEW i \in DOMAIN s.table, s.table[i].by = e
        PROVE  i = Id[n] /\ Holds(s, n)
    <3>1. Target(s.table[i]) = n /\ Id[Target(s.table[i])] = i
      BY <1>4, <2>1, Constants DEF Memory, Target
    <3> QED BY <3>1 DEF Holds
  <2>2. CASE \E i \in DOMAIN s.table : s.table[i].by = e
    <3>1. Holds(s, n) /\ h.by = e
      BY <2>1, <2>2
    <3>2. e \notin freed
      BY <3>1 DEF Attached, Astray, Holds
    <3> QED BY <1>1, <1>4, <2>2, <3>1, <3>2 DEF Sound, Entry
  <2>3. CASE \A i \in DOMAIN s.table : s.table[i].by # e
    <3>1. t.env[e] = s.env[e]
      BY <1>1, <1>4, <2>3
    <3>2. CASE ~Holds(s, n)
      BY <1>4, <3>1, <3>2 DEF Sound, Unproxied
    <3>3. CASE Holds(s, n)
      <4>1. h \in Pointers /\ Target(h) = n /\ h.by # e
        BY <2>3, <3>3 DEF Memory, Holds
      <4>2. h.by = None
        BY <1>4, <4>1, TargetType DEF Alone
      <4> QED BY <1>4, <3>1, <3>3, <4>2 DEF Sound, Entry, Unproxied
    <3> QED BY <3>2, <3>3
  <2> QED BY <2>2, <2>3
<1> QED BY <1>2, <1>3, <1>4 DEF Sound, Unproxied, t

-----------------------------------------------------------------------------
(* The stack: a frame's step, a call, a return, and uninstall.             *)
(* u is st with the innermost frame a step on.                             *)
Steps(st, u, at) ==
  /\ u \in Seq(Frames) /\ Len(u) = Len(st)
  /\ \A k \in 1..Len(st) :
       u[k].e = st[k].e /\ u[k].ref = st[k].ref /\ u[k].tasks = st[k].tasks
  /\ \A k \in 1..Len(st) : k # Len(st) => u[k] = st[k]
  /\ u[Len(st)].at = at

LEMMA Stepped ==
  ASSUME NEW st \in Seq(Frames), st # <<>>,
         NEW at \in {"handler", "taken", "calling", "original"}
  PROVE  Steps(st, [st EXCEPT ![Len(st)].at = at], at)
<1> DEFINE f == [st[Len(st)] EXCEPT !.at = at]
           u == [st EXCEPT ![Len(st)].at = at]
<1>1. /\ Len(st) \in 1..Len(st) /\ DOMAIN st = 1..Len(st)
      /\ \A k \in 1..Len(st) : st[k] \in Frames
  OBVIOUS
<1>2. /\ f \in Frames /\ f.at = at /\ f.e = st[Len(st)].e
      /\ f.ref = st[Len(st)].ref /\ f.tasks = st[Len(st)].tasks
  BY <1>1 DEF Frames
<1>3. u = [st EXCEPT ![Len(st)] = f]
  OBVIOUS
<1> HIDE DEF f, u
<1>4. u \in Seq(Frames) /\ Len(u) = Len(st)
  BY <1>1, <1>2, <1>3
<1>5. u[Len(st)] = f /\ \A k \in 1..Len(st) : k # Len(st) => u[k] = st[k]
  BY <1>1, <1>3
<1> QED BY <1>1, <1>2, <1>4, <1>5 DEF u, Steps

LEMMA Relabelled ==
  ASSUME NEW st \in Seq(Frames), st # <<>>,
         NEW at \in {"handler", "taken", "calling", "original"}
  PROVE  LET u == [st EXCEPT ![Len(st)].at = at] IN
         /\ u \in Seq(Frames) /\ Len(u) = Len(st) /\ Len(st) \in 1..Len(st)
         /\ \A k \in 1..Len(st) :
              u[k].e = st[k].e /\ u[k].ref = st[k].ref /\ u[k].tasks = st[k].tasks
         /\ \A k \in 1..Len(st) : k # Len(st) => u[k] = st[k]
         /\ u[Len(st)].at = at
<1>1. Steps(st, [st EXCEPT ![Len(st)].at = at], at)
  BY Stepped
<1>2. Len(st) \in 1..Len(st)
  OBVIOUS
<1> QED BY <1>1, <1>2 DEF Steps

LEMMA Pushed ==
  ASSUME NEW st \in Seq(Frames), NEW f \in Frames
  PROVE  LET u == Append(st, f) IN
         /\ u \in Seq(Frames) /\ Len(u) = Len(st) + 1 /\ u[Len(st) + 1] = f
         /\ \A k \in 1..Len(st) : u[k] = st[k]
OBVIOUS

LEMMA Popped ==
  ASSUME NEW st \in Seq(Frames), st # <<>>
  PROVE  LET u == SubSeq(st, 1, Len(st) - 1) IN
         /\ u \in Seq(Frames) /\ Len(u) = Len(st) - 1
         /\ \A k \in 1..Len(u) : u[k] = st[k]
         /\ Len(st) \in 1..Len(st)
<1> DEFINE u == SubSeq(st, 1, Len(st) - 1)
<1>1. Len(st) \in Nat /\ Len(st) # 0 /\ \A k \in 1..Len(st) : st[k] \in Frames
  OBVIOUS
<1>2. u = [k \in 1..(Len(st) - 1) |-> st[k]]
  BY <1>1
<1> HIDE DEF u
<1>3. \A k \in 1..(Len(st) - 1) : st[k] \in Frames
  BY <1>1
<1>4. u \in Seq(Frames) /\ Len(u) = Len(st) - 1
  BY <1>1, <1>2, <1>3
<1>5. \A k \in 1..Len(u) : u[k] = st[k]
  BY <1>1, <1>2, <1>4
<1> QED BY <1>1, <1>4, <1>5 DEF u

LEMMA Unreferred ==
  ASSUME NEW st \in Seq(Frames)
  PROVE  LET u == [k \in 1..Len(st) |-> [st[k] EXCEPT !.ref = FALSE]] IN
         /\ u \in Seq(Frames) /\ Len(u) = Len(st)
         /\ \A k \in 1..Len(st) :
              u[k].e = st[k].e /\ u[k].at = st[k].at /\ u[k].tasks = st[k].tasks
<1> DEFINE f(k) == [st[k] EXCEPT !.ref = FALSE]
           u == [k \in 1..Len(st) |-> f(k)]
<1>1. Len(st) \in Nat /\ \A k \in 1..Len(st) : st[k] \in Frames
  OBVIOUS
<1>2. \A k \in 1..Len(st) :
        f(k) \in Frames /\ f(k).e = st[k].e /\ f(k).at = st[k].at
          /\ f(k).tasks = st[k].tasks
  BY <1>1 DEF Frames
<1> HIDE DEF f
<1>3. u \in Seq(Frames) /\ Len(u) = Len(st)
  BY <1>1, <1>2
<1>4. \A k \in 1..Len(st) : u[k] = f(k)
  OBVIOUS
<1> HIDE DEF u
<1>5. /\ u \in Seq(Frames) /\ Len(u) = Len(st)
      /\ \A k \in 1..Len(st) :
           u[k].e = st[k].e /\ u[k].at = st[k].at /\ u[k].tasks = st[k].tasks
  BY <1>2, <1>3, <1>4
<1> QED BY <1>5 DEF u, f

LEMMA FrameType ==
  ASSUME NEW st \in Seq(Frames), NEW k \in 1..Len(st)
  PROVE  st[k] \in Frames /\ st[k].e \in Envs /\ MethodOf[st[k].e] \in Methods
<1>1. st[k] \in Frames
  OBVIOUS
<1> QED BY <1>1, Constants DEF Frames

LEMMA TopFrame ==
  ASSUME stack \in Seq(Frames), stack # <<>>
  PROVE  /\ Len(stack) \in 1..Len(stack) /\ Top = stack[Len(stack)]
         /\ Top \in Frames /\ Top.e \in Envs /\ MethodOf[Top.e] \in Methods
         /\ Id[MethodOf[Top.e]] \in Busy
<1>1. Len(stack) \in 1..Len(stack) /\ Top = stack[Len(stack)]
  BY DEF Top
<1>2. Top \in Frames
  BY <1>1
<1>4. Top.e \in Envs
  BY <1>2 DEF Frames
<1>3. Id[MethodOf[Top.e]] \in Busy
  BY <1>1 DEF Busy
<1> QED BY <1>1, <1>2, <1>3, <1>4, Constants

-----------------------------------------------------------------------------
(* Types.                                                                  *)
LEMMA KeepMemory ==
  ASSUME NEW s, Memory(s), NEW e \in Envs, Id[MethodOf[e]] \in DOMAIN s.table
  PROVE  Memory(Keep(s, e))
BY KeepFields

LEMMA ReinstallMemory ==
  ASSUME NEW s, Memory(s), NEW e \in Envs
  PROVE  Memory(Reinstall(s, e))
BY ReinstallFields

LEMMA EnterType ==
  ASSUME TypeOK, NEW STATE s, Memory(s), NEW STATE st, st \in Seq(Frames),
         Len(st) < MaxDepth, NEW e \in Envs, NEW STATE lost, lost \subseteq Ids,
         Enter(s, st, e, lost)
  PROVE  Memory(mem)' /\ StackType' /\ spoiled' \subseteq Ids
<1> DEFINE m == MethodOf[e]
<1>0. m \in Methods /\ Id[m] \in Ids /\ MaxDepth \in Nat
  BY Constants
<1>1. CASE Id[m] \in DOMAIN s.table
  <2> DEFINE f == [e |-> e, at |-> "handler",
                   tasks |-> CalledBy(s, e).m \in Timers, ref |-> TRUE]
  <2>1. mem' = Called(s, e) /\ stack' = Append(st, f)
    BY <1>1 DEF Enter, Called, CalledBy, Put
  <2>2. f \in Frames
    BY DEF Frames
  <2>3. Memory(Called(s, e))
    BY <1>0, <1>1, CalledFields
  <2>4. StackType'
    <3> HIDE DEF f
    <3> QED BY <1>0, <2>1, <2>2, Pushed DEF StackType
  <2>5. spoiled' \subseteq Ids
    BY <1>0, <1>1 DEF Enter, Spoil, TypeOK, HistoryType
  <2> QED BY <2>1, <2>3, <2>4, <2>5
<1>2. CASE Id[m] \notin DOMAIN s.table
  BY <1>2 DEF Enter, TypeOK, StackType, HistoryType
<1> QED BY <1>1, <1>2

LEMMA LostType ==
  ASSUME Memory(mem), NEW ids
  PROVE  Lost(ids) \subseteq Ids
BY DEF Lost, Memory

LEMMA WrittenType ==
  ASSUME NEW ids
  PROVE  Written(ids) \subseteq freed \X {"reused", "released"}
BY DEF Written

LEMMA UninstallType ==
  ASSUME TypeOK, Uninstall
  PROVE  Memory(mem)' /\ StackType' /\ spoiled' \subseteq Ids
         /\ cache' \in [Names -> Pools] /\ installed' \in BOOLEAN
         /\ replaced' \in BOOLEAN /\ stray' \subseteq freed \X {"reused", "released"}
<1>1. Memory(mem)'
  BY RestoreAllFields DEF Uninstall, TypeOK
<1>2. StackType'
  BY Unreferred DEF Uninstall, TypeOK, StackType
<1>3. Busy \subseteq Ids
  <2>1. ASSUME NEW k \in 1..Len(stack)
        PROVE  Id[MethodOf[stack[k].e]] \in Ids
    BY FrameType, Constants DEF TypeOK, StackType
  <2> QED BY <2>1 DEF Busy
<1>4. Lost(DOMAIN mem.table) \subseteq Ids
  BY LostType DEF TypeOK
<1> QED BY <1>1, <1>2, <1>3, <1>4, WrittenType
        DEF Uninstall, Spoil, TypeOK, PlayerType, HistoryType, Pools

LEMMA FirstType ==
  ASSUME Init
  PROVE  TypeOK
<1>1. Memory(mem)
  BY DEF Init, Memory, Code, Pointers
<1>2. StackType
  BY Constants DEF Init, StackType
<1> QED BY <1>1, <1>2 DEF Init, TypeOK, PlayerType, HistoryType, Pools, history

LEMMA NextType ==
  ASSUME TypeOK, Referred, [Next]_vars
  PROVE  TypeOK'
<1> USE DEF TypeOK
<1>1. CASE Load
  BY <1>1 DEF Load, history, StackType, PlayerType, HistoryType
<1>2. CASE TasksDone
  <2>1. StackType'
    BY <1>2, Relabelled DEF TasksDone, StackType
  <2> QED BY <1>2, <2>1 DEF TasksDone, history, PlayerType, HistoryType
<1>3. CASE InstallElsewhere
  BY <1>3 DEF InstallElsewhere, history, StackType, PlayerType, HistoryType
<1>4. CASE Return
  <2> DEFINE e == Top.e
             s == IF Top.ref THEN Keep(mem, e) ELSE mem
  <2>2. /\ e \in Envs
        /\ Top.ref => Id[MethodOf[e]] \in DOMAIN mem.table
    BY <1>4, TopFrame DEF Return, StackType, Referred
  <2>3. Memory(s)
    BY <2>2, KeepMemory
  <2>4. Memory(mem)'
    <3>1. mem' = Reinstall(s, e)
      BY <1>4 DEF Return
    <3> HIDE DEF s, e
    <3> QED BY <2>2, <2>3, <3>1, ReinstallMemory
  <2>1. StackType'
    <3>1. Len(stack) \in Nat /\ Len(stack) <= MaxDepth /\ MaxDepth \in Nat
      BY Constants DEF StackType
    <3> QED BY <1>4, <3>1, Popped DEF Return, StackType
  <2> QED BY <1>4, <2>1, <2>4 DEF Return, history, PlayerType, HistoryType
<1>5. CASE Unload
  BY <1>5, UninstallType DEF Unload, PlayerType, HistoryType
<1>6. ASSUME NEW n \in Names, LookUp(n)
      PROVE  TypeOK'
  <2>1. Pool \in Pools
    BY HookAssumption DEF HookAssumption, Pool, Pools, PlayerType
  <2> QED BY <1>6, <2>1 DEF LookUp, history, StackType, PlayerType, HistoryType
<1>7. ASSUME NEW pointer \in {"proc", "invoker"}, CallOriginal(pointer)
      PROVE  TypeOK'
  <2> DEFINE e == Top.e
             m == MethodOf[e]
             s == IF mem[pointer][m] = "stub" THEN Verify(mem, e) ELSE mem
             called == [stack EXCEPT ![Len(stack)].at = "original"]
  <2>1. e \in Envs /\ m \in Methods
    BY <1>7, TopFrame DEF CallOriginal, StackType
  <2>2. Memory(s)
    BY <2>1, VerifyFields
  <2>3. called \in Seq(Frames) /\ Len(called) = Len(stack)
    BY <1>7, Relabelled DEF CallOriginal, StackType
  <2>4. Memory(mem)' /\ StackType' /\ spoiled' \subseteq Ids
    <3>1. CASE s[pointer][m] = "proxy"
      <4> DEFINE over == IF mem[pointer][m] = "stub" /\ m \notin compiled /\ Notified(m)
                         THEN {Id[m]} ELSE {}
      <4>1. Len(stack) < MaxDepth /\ Enter(s, called, e, Lost(over))
        BY <1>7, <3>1 DEF CallOriginal
      <4>2. Lost(over) \subseteq Ids
        BY LostType
      <4> HIDE DEF s, called, e, over
      <4> QED BY <2>1, <2>2, <2>3, <4>1, <4>2, EnterType
    <3>2. CASE s[pointer][m] # "proxy"
      <4>1. mem' = s /\ stack' = called /\ spoiled' = spoiled
        BY <1>7, <3>2 DEF CallOriginal
      <4> HIDE DEF s, called
      <4> QED BY <2>2, <2>3, <4>1 DEF StackType, HistoryType
    <3> QED BY <3>1, <3>2
  <2>5. PlayerType'
    BY <1>7, <2>1 DEF CallOriginal, PlayerType
  <2>6. stray' \subseteq (freed \X {"reused", "released"})'
    BY <1>7, WrittenType DEF CallOriginal, HistoryType
  <2> QED BY <1>7, <2>4, <2>5, <2>6 DEF CallOriginal, HistoryType
<1>8. ASSUME NEW e \in Envs, NEW via \in {"env", "invoker"}, Call(e, via)
      PROVE  TypeOK'
  <2>1. Memory(mem)' /\ StackType' /\ spoiled' \subseteq Ids
    BY <1>8, EnterType DEF Call, StackType
  <2> QED BY <1>8, <2>1 DEF Call, PlayerType, HistoryType
<1>9. ASSUME NEW e \in Envs, NEW via \in {"env", "invoker"}, FirstCall(e, via)
      PROVE  TypeOK'
  <2> DEFINE m == MethodOf[e]
             s == Verify(mem, e)
  <2>1. m \in Methods /\ Memory(s)
    BY VerifyFields, Constants
  <2>2. Memory(mem)' /\ StackType' /\ spoiled' \subseteq Ids
    <3>1. CASE Reached(s, e, via) = "proxy"
      <4> DEFINE over == IF m \notin compiled /\ Notified(m) THEN {Id[m]} ELSE {}
      <4>1. Enter(s, stack, e, Lost(over)) /\ Len(stack) < MaxDepth
        BY <1>9, <3>1 DEF FirstCall
      <4>2. Lost(over) \subseteq Ids
        BY LostType
      <4> HIDE DEF s, over
      <4> QED BY <2>1, <4>1, <4>2, EnterType DEF StackType
    <3>2. CASE Reached(s, e, via) # "proxy"
      <4>1. mem' = s /\ stack' = stack /\ spoiled' \subseteq spoiled \cup {Id[m]}
        BY <1>9, <3>2 DEF FirstCall, Spoil
      <4> HIDE DEF s
      <4> QED BY <2>1, <4>1, Constants DEF StackType, HistoryType
    <3> QED BY <3>1, <3>2
  <2>3. PlayerType'
    BY <1>9, <2>1 DEF FirstCall, PlayerType
  <2>4. stray' \subseteq (freed \X {"reused", "released"})'
    BY <1>9, WrittenType DEF FirstCall, HistoryType
  <2> QED BY <1>9, <2>2, <2>3, <2>4 DEF FirstCall, HistoryType
<1>10. ASSUME NEW found \in BOOLEAN, Install(found)
       PROVE  TypeOK'
  <2> DEFINE t == TimerOf[main]
  <2>1. t \in Methods /\ Id[t] \in Ids
    BY <1>10, Constants, HookAssumption DEF Install, HookAssumption, Timers, PlayerType
  <2>2. StackType'
    BY <1>10, Relabelled DEF Install, StackType
  <2>3. Memory(mem)'
    BY <1>10, <2>1, HookMemory DEF Install
  <2>4. /\ stray' \subseteq (freed \X {"reused", "released"})'
        /\ spoiled' \subseteq Ids /\ replaced' \in BOOLEAN
    BY <1>10, <2>1, WrittenType, LostType DEF Install, HistoryType, Spoil
  <2>5. PlayerType'
    BY <1>10, <2>1 DEF Install, PlayerType
  <2> QED BY <2>2, <2>3, <2>4, <2>5 DEF HistoryType
<1>11. CASE Take
  <2>1. StackType'
    BY <1>11, Relabelled DEF Take, StackType
  <2> QED BY <1>11, <2>1 DEF Take, PlayerType, HistoryType
<1>13. ASSUME NEW o \in Objects, Reuse(o)
       PROVE  TypeOK'
  BY <1>13 DEF Reuse, history, StackType, PlayerType, HistoryType
<1>14. ASSUME NEW o \in Objects, FreeChunk(ChunkOf[o])
       PROVE  TypeOK'
  <2>1. /\ freed \subseteq freed' /\ freed' \subseteq Objects
        /\ released' \subseteq {ChunkOf[x] : x \in Objects}
        /\ UNCHANGED <<compiled, main, patched>>
    BY <1>14 DEF FreeChunk, In, PlayerType
  <2>2. CASE Hooked(ChunkOf[o])
    <3>1. Uninstall
      BY <1>14, <2>2 DEF FreeChunk
    <3> QED BY <2>1, <3>1, UninstallType DEF PlayerType, HistoryType
  <2>3. CASE ~Hooked(ChunkOf[o])
    <3>1. UNCHANGED <<mem, cache, installed, stack, died, history>>
      BY <1>14, <2>3 DEF FreeChunk
    <3> QED BY <2>1, <3>1 DEF history, StackType, PlayerType, HistoryType
  <2> QED BY <2>2, <2>3
<1>12. CASE UNCHANGED vars
  BY <1>12 DEF vars, history, StackType, PlayerType, HistoryType
<1> QED
  BY <1>1, <1>2, <1>3, <1>4, <1>5, <1>6, <1>7, <1>8, <1>9, <1>10, <1>11, <1>12,
     <1>13, <1>14
  DEF Next

-----------------------------------------------------------------------------
(* What the steps do to the table and the stack.                           *)
Grown(s, t, m) ==
  /\ DOMAIN s.table \subseteq DOMAIN t.table
  /\ \A i \in DOMAIN t.table :
       \/ i \in DOMAIN s.table /\ t.table[i] = s.table[i]
       \/ t.table[i].by = None /\ t.table[i].m = m

LEMMA HookGrown ==
  ASSUME NEW s, Memory(s), NEW m \in Methods
  PROVE  Grown(s, Hook(s, m), m)
<1> DEFINE t == Hook(s, m)
           r == Restored(s, m)
<1>1. Hooks(s, m, r, t)
  BY HookFields
<1> HIDE DEF t, r
<1>2. Grown(s, t, m)
  BY <1>1 DEF Hooks, Grown
<1> QED BY <1>2 DEF t

LEMMA VerifyGrown ==
  ASSUME NEW s, Memory(s), NEW e \in Envs, NEW m, m = MethodOf[e]
  PROVE  /\ Grown(s, Verify(s, e), m)
         /\ m \in compiled \/ ~Notified(m) => Verify(s, e).table = s.table
<1> DEFINE j == Jitted(s, m)
           k == Linked(s, m)
           t == Verify(s, e)
<1>1. m \in Methods
  BY Constants
<1>2. t.table = k.table
  <2>1. Leads(k, e, t)
    BY VerifyFields
  <2> QED BY <2>1 DEF Leads
<1>3. Memory(j) /\ j.table = s.table
  BY <1>1, JittedFields
<1>4. Grown(j, Hook(j, m), m)
  BY <1>1, <1>3, HookGrown
<1> HIDE DEF j, t
<1>5. Grown(s, k, m) /\ (m \in compiled \/ ~Notified(m) => k.table = s.table)
  BY <1>3, <1>4 DEF Linked, Grown, j
<1> HIDE DEF k
<1> QED BY <1>2, <1>5 DEF Grown, t

(* The two outcomes of Enter.                                              *)
Entered(s, st, e) ==
  LET i == Id[MethodOf[e]] IN
  /\ i \in DOMAIN s.table
  /\ mem' = Called(s, e)
  /\ stack' \in Seq(Frames) /\ Len(stack') = Len(st) + 1
  /\ \A k \in 1..Len(st) : stack'[k] = st[k]
  /\ stack'[Len(st) + 1] =
       [e |-> e, at |-> "handler", tasks |-> s.table[i].m \in Timers, ref |-> TRUE]
  /\ spoiled \cup {j \in {i} : j \in Busy \/ Target(s.table[j]) # MethodOf[e]}
       \subseteq spoiled'
  /\ died' = died

Emptied(s, e) ==
  /\ Id[MethodOf[e]] \notin DOMAIN s.table
  /\ mem' = s /\ stack' = stack /\ spoiled' = spoiled
  /\ died' = <<"empty", MethodOf[e]>>

LEMMA EnterOutcome ==
  ASSUME NEW STATE s, Memory(s), NEW STATE st, st \in Seq(Frames),
         NEW e \in Envs, NEW STATE lost, Enter(s, st, e, lost)
  PROVE  (Entered(s, st, e) /\ lost \subseteq spoiled') \/ Emptied(s, e)
<1> DEFINE m == MethodOf[e]
           i == Id[m]
<1>1. CASE i \in DOMAIN s.table
  <2> DEFINE f == [e |-> e, at |-> "handler",
                   tasks |-> s.table[i].m \in Timers, ref |-> TRUE]
  <2>1. CalledBy(s, e).m = s.table[i].m
    BY <1>1 DEF CalledBy, Memory, Pointers
  <2>2. mem' = Called(s, e)
    BY <1>1 DEF Enter, Called, CalledBy, Put
  <2>3. stack' = Append(st, [e |-> e, at |-> "handler",
                             tasks |-> CalledBy(s, e).m \in Timers, ref |-> TRUE])
    BY <1>1 DEF Enter, CalledBy
  <2>4. stack' = Append(st, f)
    BY <2>1, <2>3
  <2>5. f \in Frames
    BY DEF Frames
  <2>6. /\ spoiled' = spoiled \cup
             ({j \in {i} : j \in Busy \/ Target(s.table[j]) # m} \cup lost)
        /\ died' = died
    BY <1>1 DEF Enter, Spoil
  <2>7. /\ stack' \in Seq(Frames) /\ Len(stack') = Len(st) + 1
        /\ stack'[Len(st) + 1] = f
        /\ \A k \in 1..Len(st) : stack'[k] = st[k]
    <3> HIDE DEF f
    <3> QED BY <2>4, <2>5, Pushed
  <2> QED BY <1>1, <2>2, <2>6, <2>7 DEF Entered
<1>2. CASE i \notin DOMAIN s.table
  BY <1>2 DEF Enter, Emptied
<1> QED BY <1>1, <1>2

(* No step but uninstall takes an entry away or a reference back.          *)
LEMMA EnteredReferred ==
  ASSUME TypeOK, NEW STATE s, Memory(s), NEW STATE st, NEW e \in Envs,
         Len(st) = Len(stack), Len(stack) \in Nat,
         \A k \in 1..Len(st) : st[k].e = stack[k].e /\ st[k].ref = stack[k].ref,
         DOMAIN mem.table \subseteq DOMAIN s.table, Referred,
         Entered(s, st, e) \/ Emptied(s, e)
  PROVE  Referred'
<1>1. CASE Entered(s, st, e)
  <2>1. DOMAIN (mem.table)' = DOMAIN s.table
    BY <1>1, CalledFields DEF Entered
  <2>2. ASSUME NEW k \in 1..Len(stack')
        PROVE  stack'[k].ref => Id[MethodOf[stack'[k].e]] \in DOMAIN (mem.table)'
    <3>1. CASE k = Len(st) + 1
      BY <1>1, <2>1, <3>1 DEF Entered
    <3>2. CASE k \in 1..Len(st)
      BY <1>1, <2>1, <3>2 DEF Entered, Referred
    <3> QED BY <1>1, <2>2, <3>1, <3>2 DEF Entered
  <2> QED BY <2>2 DEF Referred
<1>2. CASE Emptied(s, e)
  BY <1>2 DEF Emptied, Referred
<1> QED BY <1>1, <1>2

LEMMA OriginalCalled ==
  ASSUME TypeOK, NEW pointer \in {"proc", "invoker"}, CallOriginal(pointer)
  PROVE  LET e == Top.e
             m == MethodOf[e]
             s == IF mem[pointer][m] = "stub" THEN Verify(mem, e) ELSE mem
             called == [stack EXCEPT ![Len(stack)].at = "original"]
         IN /\ e \in Envs /\ m \in Methods /\ Id[m] \in Busy /\ Memory(s)
            /\ Grown(mem, s, m) /\ Len(stack) \in 1..Len(stack)
            /\ called \in Seq(Frames) /\ Len(called) = Len(stack)
            /\ \A k \in 1..Len(stack) :
                 /\ called[k].e = stack[k].e /\ called[k].ref = stack[k].ref
                 /\ called[k].tasks = stack[k].tasks
                 /\ called[k].at = "handler" => stack[k].at = "handler"
            /\ \/ /\ s[pointer][m] = "proxy"
                  /\ Entered(s, called, e) \/ Emptied(s, e)
               \/ /\ s[pointer][m] # "proxy"
                  /\ mem' = s /\ stack' = called
                  /\ died' = died /\ spoiled' = spoiled
<1> DEFINE e == Top.e
           m == MethodOf[e]
           s == IF mem[pointer][m] = "stub" THEN Verify(mem, e) ELSE mem
           called == [stack EXCEPT ![Len(stack)].at = "original"]
<1>1. e \in Envs /\ m \in Methods /\ Id[m] \in Busy /\ Len(stack) \in 1..Len(stack)
  BY TopFrame DEF CallOriginal, TypeOK, StackType
<1>2. Memory(s) /\ Grown(mem, s, m)
  <2>1. Memory(mem) /\ Grown(mem, mem, m)
    BY DEF TypeOK, Grown
  <2>2. Memory(Verify(mem, e))
    BY <1>1, <2>1, VerifyMemory
  <2>3. Grown(mem, Verify(mem, e), m)
    BY <1>1, <2>1, VerifyGrown
  <2> QED BY <2>1, <2>2, <2>3
<1>3. /\ called \in Seq(Frames) /\ Len(called) = Len(stack)
      /\ \A k \in 1..Len(stack) :
           /\ called[k].e = stack[k].e /\ called[k].ref = stack[k].ref
           /\ called[k].tasks = stack[k].tasks
           /\ called[k].at = "handler" => stack[k].at = "handler"
  <2>1. stack \in Seq(Frames) /\ stack # <<>>
    BY DEF CallOriginal, TypeOK, StackType
  <2>2. Steps(stack, called, "original")
    BY <2>1, Stepped
  <2> HIDE DEF called
  <2> QED BY <2>2 DEF Steps
<1> DEFINE over == IF mem[pointer][m] = "stub" /\ m \notin compiled /\ Notified(m)
                   THEN {Id[m]} ELSE {}
<1>4. \/ s[pointer][m] = "proxy" /\ Enter(s, called, e, Lost(over))
      \/ /\ s[pointer][m] # "proxy"
         /\ mem' = s /\ stack' = called /\ died' = died /\ spoiled' = spoiled
  BY DEF CallOriginal
<1> HIDE DEF s, called, e, over
<1>5. Enter(s, called, e, Lost(over)) => Entered(s, called, e) \/ Emptied(s, e)
  BY <1>1, <1>2, <1>3, EnterOutcome
<1> QED BY <1>1, <1>2, <1>3, <1>4, <1>5 DEF s, called, e

LEMMA FirstCalled ==
  ASSUME TypeOK, NEW e \in Envs, NEW via \in {"env", "invoker"}, FirstCall(e, via)
  PROVE  LET m == MethodOf[e]
             s == Verify(mem, e)
         IN /\ m \in Methods /\ Memory(s) /\ Grown(mem, s, m)
            /\ Len(stack) \in Nat /\ stack \in Seq(Frames)
            /\ \/ /\ Reached(s, e, via) = "proxy"
                  /\ \/ /\ Entered(s, stack, e)
                        /\ m \notin compiled /\ Notified(m) => Lost({Id[m]}) \subseteq spoiled'
                     \/ Emptied(s, e)
               \/ /\ Reached(s, e, via) # "proxy"
                  /\ mem' = s /\ stack' = stack /\ died' = died
                  /\ spoiled' = spoiled \cup
                       (IF m \notin compiled /\ mem.proc[m] = "proxy"
                        THEN {Id[m]} ELSE {})
<1> DEFINE m == MethodOf[e]
           s == Verify(mem, e)
<1>1. m \in Methods /\ Memory(mem)
  BY Constants DEF TypeOK
<1>2. Memory(s) /\ Grown(mem, s, m)
  BY <1>1, VerifyMemory, VerifyGrown
<1>3. stack \in Seq(Frames) /\ Len(stack) \in Nat
  BY DEF TypeOK, StackType
<1> DEFINE over == IF m \notin compiled /\ Notified(m) THEN {Id[m]} ELSE {}
<1>4. \/ Reached(s, e, via) = "proxy" /\ Enter(s, stack, e, Lost(over))
      \/ /\ Reached(s, e, via) # "proxy"
         /\ mem' = s /\ stack' = stack /\ died' = died
         /\ spoiled' = spoiled \cup
              (IF m \notin compiled /\ mem.proc[m] = "proxy" THEN {Id[m]} ELSE {})
  BY DEF FirstCall, Spoil
<1>6. m \notin compiled /\ Notified(m) => over = {Id[m]}
  OBVIOUS
<1> HIDE DEF s, over
<1>5. Enter(s, stack, e, Lost(over)) =>
        (Entered(s, stack, e) /\ Lost(over) \subseteq spoiled') \/ Emptied(s, e)
  BY <1>2, <1>3, EnterOutcome
<1> QED BY <1>1, <1>2, <1>3, <1>4, <1>5, <1>6 DEF s

LEMMA WasCalled ==
  ASSUME TypeOK, NEW e \in Envs, NEW via \in {"env", "invoker"}, Call(e, via)
  PROVE  /\ Memory(mem) /\ Len(stack) \in Nat /\ stack \in Seq(Frames)
         /\ Entered(mem, stack, e) \/ Emptied(mem, e)
BY EnterOutcome DEF Call, TypeOK, StackType

(* Return: s is the memory before the proxy goes in again.                 *)
Returned(s, e) ==
  /\ e \in Envs /\ MethodOf[e] \in Methods /\ Memory(s)
  /\ stack # <<>> /\ Top = stack[Len(stack)] /\ e = Top.e
  /\ Len(stack) \in 1..Len(stack)
  /\ mem' = Reinstall(s, e) /\ (mem.table)' = s.table
  /\ IF Top.ref THEN Id[MethodOf[e]] \in DOMAIN mem.table /\ s = Keep(mem, e)
     ELSE s = mem
  /\ DOMAIN s.table = DOMAIN mem.table
  /\ \A i \in DOMAIN mem.table :
       s.table[i].by = mem.table[i].by /\ s.table[i].m = mem.table[i].m
  /\ stack' \in Seq(Frames) /\ Len(stack') = Len(stack) - 1
  /\ \A k \in 1..Len(stack') : k \in 1..Len(stack) /\ stack'[k] = stack[k]

LEMMA HasReturned ==
  ASSUME TypeOK, Referred, Return
  PROVE  \E s, e : Returned(s, e)
<1> DEFINE e == Top.e
           m == MethodOf[e]
           s == IF Top.ref THEN Keep(mem, e) ELSE mem
<1>1. /\ e \in Envs /\ m \in Methods /\ Memory(mem) /\ stack # <<>>
      /\ Top = stack[Len(stack)] /\ Len(stack) \in 1..Len(stack)
      /\ Top.ref => Id[m] \in DOMAIN mem.table
  BY TopFrame DEF Return, TypeOK, StackType, Referred
<1>2. Memory(s) /\ DOMAIN s.table = DOMAIN mem.table
      /\ \A i \in DOMAIN mem.table :
           s.table[i].by = mem.table[i].by /\ s.table[i].m = mem.table[i].m
  <2>1. CASE ~Top.ref
    BY <1>1, <2>1
  <2>2. CASE Top.ref
    <3> DEFINE t == Keep(mem, e)
    <3>1. /\ DOMAIN t.table = DOMAIN mem.table
          /\ \A i \in DOMAIN mem.table \ {Id[m]} : t.table[i] = mem.table[i]
          /\ t.table[Id[m]].m = mem.table[Id[m]].m
          /\ t.table[Id[m]].by = mem.table[Id[m]].by
          /\ Memory(t)
      BY <1>1, <2>2, KeepFields
    <3> HIDE DEF t
    <3>2. \A i \in DOMAIN mem.table :
            t.table[i].by = mem.table[i].by /\ t.table[i].m = mem.table[i].m
      BY <3>1
    <3> QED BY <2>2, <3>1, <3>2 DEF t
  <2> QED BY <2>1, <2>2
<1>3. mem' = Reinstall(s, e) /\ stack' = SubSeq(stack, 1, Len(stack) - 1)
  BY DEF Return
<1>4. Top.ref => s = Keep(mem, e)
  OBVIOUS
<1>5. ~Top.ref => s = mem
  OBVIOUS
<1> HIDE DEF s, e
<1>6. Reinstall(s, e).table = s.table
  BY <1>1, <1>2, ReinstallFields
<1>7. /\ stack' \in Seq(Frames) /\ Len(stack') = Len(stack) - 1
      /\ \A k \in 1..Len(stack') : k \in 1..Len(stack) /\ stack'[k] = stack[k]
  BY <1>1, <1>3, Popped DEF TypeOK, StackType
<1>8. Returned(s, e)
  BY <1>1, <1>2, <1>3, <1>4, <1>5, <1>6, <1>7 DEF Returned, e
<1> QED BY <1>8

(* The two steps of the install handler.                                   *)
LEMMA InstallHooks ==
  ASSUME TypeOK, NEW found \in BOOLEAN, Install(found)
  PROVE  LET t == TimerOf[main] IN
         /\ t \in Methods /\ t \in Timers /\ t \notin Autos
         /\ IF found THEN mem' = Hook(mem, t) /\ Grown(mem, mem', t) ELSE mem' = mem
         /\ Memory(mem) /\ stack # <<>> /\ Len(stack) \in 1..Len(stack)
         /\ Steps(stack, stack', "calling")
<1>1. /\ Memory(mem) /\ stack \in Seq(Frames) /\ stack # <<>>
      /\ main \in Autos
      /\ stack' = [stack EXCEPT ![Len(stack)].at = "calling"]
      /\ found => mem' = Hook(mem, TimerOf[main])
      /\ ~found => mem' = mem
  BY DEF Install, TypeOK, StackType, PlayerType
<1>2. Len(stack) \in 1..Len(stack)
  BY <1>1, TopFrame
<1>3. TimerOf[main] \in Timers
  BY <1>1 DEF Timers
<1>4. TimerOf[main] \in Methods \ Autos
  BY <1>3, HookAssumption DEF HookAssumption
<1>5. Steps(stack, stack', "calling")
  BY <1>1, Stepped
<1>6. found => Grown(mem, mem', TimerOf[main])
  BY <1>1, <1>4, HookGrown
<1> QED BY <1>1, <1>2, <1>3, <1>4, <1>5, <1>6

LEMMA TakeSteps ==
  ASSUME TypeOK, Take
  PROVE  Steps(stack, stack', "taken") /\ Len(stack) \in 1..Len(stack)
<1>1. /\ stack \in Seq(Frames) /\ stack # <<>>
      /\ stack' = [stack EXCEPT ![Len(stack)].at = "taken"]
  BY DEF Take, TypeOK, StackType
<1>2. Len(stack) \in 1..Len(stack)
  BY <1>1
<1>3. Steps(stack, stack', "taken")
  BY <1>1, Stepped
<1> QED BY <1>2, <1>3

LEMMA TasksSteps ==
  ASSUME TypeOK, TasksDone
  PROVE  Steps(stack, stack', "calling") /\ Len(stack) \in 1..Len(stack)
<1>1. /\ stack \in Seq(Frames) /\ stack # <<>>
      /\ stack' = [stack EXCEPT ![Len(stack)].at = "calling"]
  BY DEF TasksDone, TypeOK, StackType
<1>2. Len(stack) \in 1..Len(stack)
  BY <1>1
<1>3. Steps(stack, stack', "calling")
  BY <1>1, Stepped
<1> QED BY <1>2, <1>3

(* uninstall.                                                              *)
Emptying ==
  /\ Memory(mem) /\ Memory(mem') /\ mem' = RestoreAll(mem)
  /\ DOMAIN (mem.table)' = {}
  /\ cache' = [n \in Names |-> None] /\ installed' = FALSE
  /\ stack' \in Seq(Frames) /\ Len(stack') = Len(stack)
  /\ \A k \in 1..Len(stack) :
       /\ stack'[k].e = stack[k].e /\ stack'[k].at = stack[k].at
       /\ stack'[k].tasks = stack[k].tasks /\ stack'[k].ref = FALSE
  /\ stray' = stray \cup Written(DOMAIN mem.table)
  /\ spoiled' = spoiled \cup (Busy \cup Lost(DOMAIN mem.table))
  /\ replaced' = (replaced \/ \E k \in 1..Len(stack) : InTask(stack[k]))

LEMMA UninstallEmpties ==
  ASSUME TypeOK, Uninstall
  PROVE  Emptying
<1>1. Memory(mem) /\ stack \in Seq(Frames)
  BY DEF TypeOK, StackType
<1>2. Memory(RestoreAll(mem)) /\ DOMAIN RestoreAll(mem).table = {}
  BY <1>1, RestoreAllFields
<1>3. /\ stack' \in Seq(Frames) /\ Len(stack') = Len(stack)
      /\ \A k \in 1..Len(stack) :
           /\ stack'[k].e = stack[k].e /\ stack'[k].at = stack[k].at
           /\ stack'[k].tasks = stack[k].tasks
  BY <1>1, Unreferred DEF Uninstall
<1>4. \A k \in 1..Len(stack) : stack'[k].ref = FALSE
  <2>1. stack' = [k \in 1..Len(stack) |-> [stack[k] EXCEPT !.ref = FALSE]]
    BY DEF Uninstall
  <2>2. \A k \in 1..Len(stack) : stack[k] \in Frames
    BY <1>1
  <2> QED BY <2>1, <2>2 DEF Frames
<1> QED BY <1>1, <1>2, <1>3, <1>4 DEF Uninstall, Spoil, Emptying

-----------------------------------------------------------------------------
(* References to entries.                                                  *)
LEMMA StillReferred ==
  ASSUME Referred, DOMAIN mem.table \subseteq DOMAIN (mem.table)',
         Len(stack') = Len(stack),
         \A k \in 1..Len(stack) :
           stack'[k].e = stack[k].e /\ (stack'[k].ref => stack[k].ref)
  PROVE  Referred'
BY DEF Referred

LEMMA NextReferred ==
  ASSUME TypeOK, Referred, [Next]_vars
  PROVE  Referred'
<1>1. CASE TasksDone
  <2>1. Steps(stack, stack', "calling") /\ mem' = mem
    BY <1>1, TasksSteps DEF TasksDone
  <2> QED BY <2>1, StillReferred DEF Steps
<1>2. CASE Return
  <2>1. PICK s, e : Returned(s, e)
    BY <1>2, HasReturned
  <2>2. /\ DOMAIN (mem.table)' = DOMAIN mem.table
        /\ \A k \in 1..Len(stack') : k \in 1..Len(stack) /\ stack'[k] = stack[k]
    BY <2>1 DEF Returned
  <2> QED BY <2>2 DEF Referred
<1>3. CASE Uninstall
  <2>1. Emptying
    BY <1>3, UninstallEmpties
  <2> QED BY <2>1 DEF Emptying, Referred
<1>4. ASSUME NEW pointer \in {"proc", "invoker"}, CallOriginal(pointer)
      PROVE  Referred'
  <2> DEFINE e == Top.e
             m == MethodOf[e]
             s == IF mem[pointer][m] = "stub" THEN Verify(mem, e) ELSE mem
             called == [stack EXCEPT ![Len(stack)].at = "original"]
  <2>1. /\ e \in Envs /\ Memory(s) /\ Grown(mem, s, m)
        /\ Len(called) = Len(stack) /\ Len(stack) \in 1..Len(stack)
        /\ \A k \in 1..Len(stack) :
             called[k].e = stack[k].e /\ called[k].ref = stack[k].ref
        /\ \/ Entered(s, called, e) \/ Emptied(s, e)
           \/ mem' = s /\ stack' = called
    BY <1>4, OriginalCalled
  <2> HIDE DEF s, called, e, m
  <2>2. DOMAIN mem.table \subseteq DOMAIN s.table
    BY <2>1 DEF Grown
  <2>3. Entered(s, called, e) \/ Emptied(s, e) => Referred'
    BY <2>1, <2>2, EnteredReferred
  <2>4. mem' = s /\ stack' = called => Referred'
    BY <2>1, <2>2, StillReferred
  <2> QED BY <2>1, <2>3, <2>4
<1>5. ASSUME NEW e \in Envs, NEW via \in {"env", "invoker"}, FirstCall(e, via)
      PROVE  Referred'
  <2> DEFINE s == Verify(mem, e)
             m == MethodOf[e]
  <2>1. /\ Memory(s) /\ Grown(mem, s, m) /\ Len(stack) \in Nat
        /\ \/ Entered(s, stack, e) \/ Emptied(s, e)
           \/ mem' = s /\ stack' = stack
    BY <1>5, FirstCalled
  <2> HIDE DEF s, m
  <2>2. DOMAIN mem.table \subseteq DOMAIN s.table
    BY <2>1 DEF Grown
  <2>3. Entered(s, stack, e) \/ Emptied(s, e) => Referred'
    BY <2>1, <2>2, EnteredReferred
  <2>4. mem' = s /\ stack' = stack => Referred'
    BY <2>1, <2>2, StillReferred
  <2> QED BY <2>1, <2>3, <2>4
<1>6. ASSUME NEW e \in Envs, NEW via \in {"env", "invoker"}, Call(e, via)
      PROVE  Referred'
  BY <1>6, WasCalled, EnteredReferred
<1>7. ASSUME NEW found \in BOOLEAN, Install(found)
      PROVE  Referred'
  <2>1. /\ Steps(stack, stack', "calling")
        /\ DOMAIN mem.table \subseteq DOMAIN (mem.table)'
    BY <1>7, InstallHooks DEF Grown
  <2> QED BY <2>1, StillReferred DEF Steps
<1>8. (mem' = mem /\ stack' = stack) => Referred'
  BY DEF Referred
<1>9. ASSUME NEW c, FreeChunk(c)
      PROVE  Referred'
  BY <1>3, <1>8, <1>9 DEF FreeChunk
<1>10. CASE Take
  <2>1. Steps(stack, stack', "taken") /\ mem' = mem
    BY <1>10, TakeSteps DEF Take
  <2> QED BY <2>1, StillReferred DEF Steps
<1> QED
  BY <1>1, <1>2, <1>3, <1>4, <1>5, <1>6, <1>7, <1>8, <1>9, <1>10
  DEF Next, Load, InstallElsewhere, Unload, LookUp, Reuse, vars

-----------------------------------------------------------------------------
(* Memory that is freed.                                                   *)
Lasting(s) ==
  \A i \in DOMAIN s.table :
    s.table[i].by # None => ChunkOf[s.table[i].by] \notin released

LEMMA GrownInUse ==
  ASSUME InUse, NEW s, NEW m, Grown(mem, s, m)
  PROVE  Lasting(s)
BY DEF InUse, Grown, Lasting

LEMMA EnteredInUse ==
  ASSUME InUse, UNCHANGED <<freed, released>>, NEW STATE s, Memory(s), NEW STATE st,
         NEW e \in Envs, {e, MethodOf[e]} \cap freed = {},
         Len(st) = Len(stack), Len(stack) \in Nat,
         \A k \in 1..Len(st) : st[k].e = stack[k].e,
         Lasting(s),
         Entered(s, st, e) \/ Emptied(s, e)
  PROVE  InUse'
<1>1. CASE Entered(s, st, e)
  <2> DEFINE t == Called(s, e)
  <2>1. Id[MethodOf[e]] \in DOMAIN s.table /\ mem' = t
    BY <1>1 DEF Entered
  <2>4. NamesCaller(s, e, t)
    BY <2>1, CalledNames
  <2> HIDE DEF t
  <2>5. ChunkOf[e] \notin released
    BY DEF InUse, Objects
  <2>2. \A i \in DOMAIN (mem.table)' :
          (mem.table)'[i].by # None => ChunkOf[(mem.table)'[i].by] \notin released'
    BY <2>1, <2>4, <2>5 DEF NamesCaller, Lasting
  <2>3. ASSUME NEW k \in 1..Len(stack')
        PROVE  {stack'[k].e, MethodOf[stack'[k].e]} \cap freed' = {}
    <3>1. CASE k = Len(st) + 1
      BY <1>1, <3>1 DEF Entered
    <3>2. CASE k \in 1..Len(st)
      BY <1>1, <3>2 DEF Entered, InUse
    <3> QED BY <1>1, <2>3, <3>1, <3>2 DEF Entered
  <2> QED BY <2>2, <2>3 DEF InUse
<1>2. CASE Emptied(s, e)
  BY <1>2 DEF Emptied, InUse, Lasting
<1> QED BY <1>1, <1>2

LEMMA NextInUse ==
  ASSUME TypeOK, Referred, InUse, [Next]_vars
  PROVE  InUse'
<1>1. CASE TasksDone
  <2>1. Steps(stack, stack', "calling") /\ mem' = mem /\ UNCHANGED <<freed, released>>
    BY <1>1, TasksSteps DEF TasksDone
  <2> QED BY <2>1 DEF Steps, InUse
<1>2. CASE Return
  <2>1. PICK s, e : Returned(s, e)
    BY <1>2, HasReturned
  <2>2. /\ DOMAIN (mem.table)' = DOMAIN mem.table
        /\ \A i \in DOMAIN mem.table : (mem.table)'[i].by = mem.table[i].by
        /\ \A k \in 1..Len(stack') : k \in 1..Len(stack) /\ stack'[k] = stack[k]
    BY <2>1 DEF Returned
  <2>3. UNCHANGED <<freed, released>>
    BY <1>2 DEF Return
  <2> QED BY <2>2, <2>3 DEF InUse
<1>3. CASE Uninstall /\ UNCHANGED <<freed, released>>
  <2>1. Emptying
    BY <1>3, UninstallEmpties
  <2> QED BY <1>3, <2>1 DEF Emptying, InUse
<1>4. ASSUME NEW pointer \in {"proc", "invoker"}, CallOriginal(pointer)
      PROVE  InUse'
  <2> DEFINE e == Top.e
             m == MethodOf[e]
             s == IF mem[pointer][m] = "stub" THEN Verify(mem, e) ELSE mem
             called == [stack EXCEPT ![Len(stack)].at = "original"]
  <2>1. /\ e \in Envs /\ Memory(s) /\ Grown(mem, s, m)
        /\ Len(called) = Len(stack) /\ Len(stack) \in 1..Len(stack)
        /\ \A k \in 1..Len(stack) : called[k].e = stack[k].e
        /\ \/ Entered(s, called, e) \/ Emptied(s, e)
           \/ mem' = s /\ stack' = called
    BY <1>4, OriginalCalled
  <2>2. UNCHANGED <<freed, released>>
    BY <1>4 DEF CallOriginal
  <2>3. {e, MethodOf[e]} \cap freed = {}
    BY <2>1 DEF InUse, Top
  <2> HIDE DEF s, called, e, m
  <2>4. Lasting(s)
    BY <2>1, GrownInUse
  <2>5. Entered(s, called, e) \/ Emptied(s, e) => InUse'
    BY <2>1, <2>2, <2>3, <2>4, EnteredInUse
  <2>6. mem' = s /\ stack' = called => InUse'
    BY <2>1, <2>2, <2>4 DEF InUse, Lasting
  <2> QED BY <2>1, <2>5, <2>6
<1>5. ASSUME NEW e \in Envs, NEW via \in {"env", "invoker"}, FirstCall(e, via)
      PROVE  InUse'
  <2> DEFINE s == Verify(mem, e)
             m == MethodOf[e]
  <2>1. /\ Memory(s) /\ Grown(mem, s, m) /\ Len(stack) \in Nat
        /\ \/ Entered(s, stack, e) \/ Emptied(s, e)
           \/ mem' = s /\ stack' = stack
    BY <1>5, FirstCalled
  <2>2. {e, MethodOf[e]} \cap freed = {} /\ UNCHANGED <<freed, released>>
    BY <1>5 DEF FirstCall
  <2> HIDE DEF s, m
  <2>3. Lasting(s)
    BY <2>1, GrownInUse
  <2>4. Entered(s, stack, e) \/ Emptied(s, e) => InUse'
    BY <2>1, <2>2, <2>3, EnteredInUse
  <2>5. mem' = s /\ stack' = stack => InUse'
    BY <2>2, <2>3 DEF InUse, Lasting
  <2> QED BY <2>1, <2>4, <2>5
<1>6. ASSUME NEW e \in Envs, NEW via \in {"env", "invoker"}, Call(e, via)
      PROVE  InUse'
  <2>1. {e, MethodOf[e]} \cap freed = {} /\ UNCHANGED <<freed, released>>
    BY <1>6 DEF Call
  <2>2. Lasting(mem)
    BY DEF InUse, Lasting
  <2> QED BY <1>6, <2>1, <2>2, WasCalled, EnteredInUse
<1>7. ASSUME NEW found \in BOOLEAN, Install(found)
      PROVE  InUse'
  <2> DEFINE t == TimerOf[main]
  <2>1. /\ Steps(stack, stack', "calling")
        /\ Grown(mem, mem', t) \/ mem' = mem
    BY <1>7, InstallHooks
  <2>2. UNCHANGED <<freed, released>>
    BY <1>7 DEF Install
  <2>3. Lasting(mem')
    BY <2>1, GrownInUse DEF InUse, Lasting
  <2> QED BY <2>1, <2>2, <2>3 DEF Steps, InUse, Lasting
<1>8. (mem' = mem /\ stack' = stack /\ UNCHANGED <<freed, released>>) => InUse'
  BY DEF InUse
<1>9. ASSUME NEW o \in Objects, Reuse(o)
      PROVE  InUse'
  <2>1. /\ freed' = freed \cup {o} /\ UNCHANGED <<mem, stack, released>>
        /\ \A k \in 1..Len(stack) : o \notin {stack[k].e, MethodOf[stack[k].e]}
    BY <1>9 DEF Reuse, Unused
  <2> QED BY <2>1 DEF InUse
<1>10. ASSUME NEW o \in Objects, FreeChunk(ChunkOf[o])
       PROVE  InUse'
  <2> DEFINE c == ChunkOf[o]
  <2>1. /\ freed' = freed \cup In(c) /\ released' = released \cup {c}
        /\ \A k \in 1..Len(stack) : {stack[k].e, MethodOf[stack[k].e]} \cap In(c) = {}
    BY <1>10 DEF FreeChunk, Unused
  <2>2. \A k \in 1..Len(stack) : {stack[k].e, MethodOf[stack[k].e]} \cap freed' = {}
    BY <2>1 DEF InUse
  <2>3. \A x \in Objects : ChunkOf[x] \in released' => x \in freed'
    BY <2>1 DEF InUse, In
  <2>4. CASE Hooked(c)
    <3>1. Emptying
      BY <1>10, <2>4, UninstallEmpties DEF FreeChunk
    <3> QED BY <2>2, <2>3, <3>1 DEF Emptying, InUse
  <2>5. CASE ~Hooked(c)
    <3>1. mem' = mem /\ stack' = stack
      BY <1>10, <2>5 DEF FreeChunk
    <3>2. ASSUME NEW i \in DOMAIN mem.table, mem.table[i].by # None
          PROVE  ChunkOf[mem.table[i].by] # c
      <4>1. mem.table[i].by \in Envs
        BY <3>2, TargetType DEF TypeOK, Memory
      <4>2. mem.table[i].by \notin In(c)
        BY <2>5 DEF Hooked
      <4> QED BY <4>1, <4>2 DEF In, Objects
    <3>3. \A i \in DOMAIN mem.table :
            mem.table[i].by # None => ChunkOf[mem.table[i].by] \notin released'
      BY <2>1, <3>2 DEF InUse
    <3> QED BY <2>2, <2>3, <3>1, <3>3 DEF InUse
  <2> QED BY <2>4, <2>5
<1>11. CASE Take
  <2>1. Steps(stack, stack', "taken") /\ UNCHANGED <<mem, freed, released>>
    BY <1>11, TakeSteps DEF Take
  <2> QED BY <2>1 DEF Steps, InUse
<1> QED
  BY <1>1, <1>2, <1>3, <1>4, <1>5, <1>6, <1>7, <1>8, <1>9, <1>10, <1>11
  DEF Next, Load, InstallElsewhere, Unload, LookUp, vars

-----------------------------------------------------------------------------
(* The methods whose handler runs the tasks.                               *)
Tasked(s) == \A i \in DOMAIN s.table : s.table[i].m \in Timers => installed

LEMMA EnteredInstalled ==
  ASSUME Installed, UNCHANGED <<installed, replaced, cache>>,
         NEW STATE s, Memory(s), Tasked(s), NEW STATE st, NEW e \in Envs,
         Len(st) = Len(stack), Len(stack) \in Nat,
         \A k \in 1..Len(st) : InTask(st[k]) => InTask(stack[k]),
         Entered(s, st, e) \/ Emptied(s, e)
  PROVE  Installed'
<1>1. CASE Entered(s, st, e)
  <2> DEFINE t == Called(s, e)
  <2>1. Id[MethodOf[e]] \in DOMAIN s.table /\ mem' = t
    BY <1>1 DEF Entered
  <2>2. NamesCaller(s, e, t)
    BY <2>1, CalledNames
  <2> HIDE DEF t
  <2>3. \A i \in DOMAIN (mem.table)' : (mem.table)'[i].m \in Timers => installed'
    BY <2>1, <2>2 DEF NamesCaller, Tasked
  <2>4. ASSUME NEW k \in 1..Len(stack'), InTask(stack'[k])
        PROVE  installed' \/ replaced'
    <3>1. CASE k = Len(st) + 1
      <4> DEFINE i == Id[MethodOf[e]]
                 tasks == s.table[i].m \in Timers
      <4>1. /\ i \in DOMAIN s.table
            /\ stack'[k] =
                 [e |-> e, at |-> "handler", tasks |-> tasks, ref |-> TRUE]
        BY <1>1, <3>1 DEF Entered
      <4>2. stack'[k].tasks
        BY <2>4 DEF InTask
      <4> HIDE DEF tasks
      <4>3. tasks
        BY <4>1, <4>2
      <4> QED BY <4>1, <4>3 DEF Tasked, tasks
    <3>2. CASE k \in 1..Len(st)
      BY <1>1, <2>4, <3>2 DEF Entered, Installed
    <3> QED BY <1>1, <2>4, <3>1, <3>2 DEF Entered
  <2> QED BY <2>3, <2>4 DEF Installed
<1>2. CASE Emptied(s, e)
  BY <1>2 DEF Emptied, Installed, Tasked
<1> QED BY <1>1, <1>2

LEMMA VerifyTasked ==
  ASSUME TypeOK, Installed, NEW e \in Envs
  PROVE  Tasked(Verify(mem, e))
<1> DEFINE m == MethodOf[e]
           s == Verify(mem, e)
<1>1. Memory(mem) /\ Tasked(mem)
  BY DEF TypeOK, Installed, Tasked
<1>2. /\ Grown(mem, s, m)
      /\ m \in compiled \/ ~Notified(m) => s.table = mem.table
  BY <1>1, VerifyGrown
<1>3. Notified(m) => m \notin Timers
  BY HookAssumption DEF Notified, HookAssumption
<1> HIDE DEF m, s
<1>4. Tasked(s)
  BY <1>1, <1>2, <1>3 DEF Tasked, Grown
<1> QED BY <1>4 DEF s

LEMMA NextInstalled ==
  ASSUME TypeOK, Referred, Installed, [Next]_vars
  PROVE  Installed'
<1>1. CASE TasksDone
  <2>1. /\ Steps(stack, stack', "calling") /\ Len(stack) \in 1..Len(stack)
        /\ UNCHANGED <<mem, installed, replaced, cache>>
    BY <1>1, TasksSteps DEF TasksDone, history
  <2>2. ASSUME NEW k \in 1..Len(stack'), InTask(stack'[k])
        PROVE  InTask(stack[k]) /\ k \in 1..Len(stack)
    BY <2>1, <2>2 DEF Steps, InTask
  <2> QED BY <2>1, <2>2 DEF Installed
<1>2. CASE Return
  <2>1. PICK s, e : Returned(s, e)
    BY <1>2, HasReturned
  <2>2. /\ DOMAIN (mem.table)' = DOMAIN mem.table
        /\ \A i \in DOMAIN mem.table : (mem.table)'[i].m = mem.table[i].m
        /\ \A k \in 1..Len(stack') : k \in 1..Len(stack) /\ stack'[k] = stack[k]
    BY <2>1 DEF Returned
  <2>3. UNCHANGED <<installed, replaced, cache>>
    BY <1>2 DEF Return, history
  <2> QED BY <2>2, <2>3 DEF Installed
<1>3. CASE Uninstall
  <2>1. Emptying
    BY <1>3, UninstallEmpties
  <2> QED BY <2>1 DEF Emptying, Installed, InTask
<1>4. ASSUME NEW pointer \in {"proc", "invoker"}, CallOriginal(pointer)
      PROVE  Installed'
  <2> DEFINE e == Top.e
             m == MethodOf[e]
             s == IF mem[pointer][m] = "stub" THEN Verify(mem, e) ELSE mem
             called == [stack EXCEPT ![Len(stack)].at = "original"]
  <2>1. /\ e \in Envs /\ Memory(s) /\ Len(stack) \in 1..Len(stack)
        /\ Len(called) = Len(stack)
        /\ \A k \in 1..Len(stack) :
             /\ called[k].tasks = stack[k].tasks
             /\ called[k].at = "handler" => stack[k].at = "handler"
        /\ \/ Entered(s, called, e) \/ Emptied(s, e)
           \/ mem' = s /\ stack' = called
    BY <1>4, OriginalCalled
  <2>2. UNCHANGED <<installed, replaced, cache>>
    BY <1>4 DEF CallOriginal
  <2>3. Tasked(s)
    BY <2>1, VerifyTasked DEF Tasked, Installed
  <2> HIDE DEF s, called, e, m
  <2>4. \A k \in 1..Len(stack) : InTask(called[k]) => InTask(stack[k])
    BY <2>1 DEF InTask
  <2>5. Entered(s, called, e) \/ Emptied(s, e) => Installed'
    BY <2>1, <2>2, <2>3, <2>4, EnteredInstalled
  <2>6. mem' = s /\ stack' = called => Installed'
    BY <2>1, <2>2, <2>3, <2>4 DEF Installed, Tasked
  <2> QED BY <2>1, <2>5, <2>6
<1>5. ASSUME NEW e \in Envs, NEW via \in {"env", "invoker"}, FirstCall(e, via)
      PROVE  Installed'
  <2> DEFINE s == Verify(mem, e)
  <2>1. /\ Memory(s) /\ Len(stack) \in Nat
        /\ \/ Entered(s, stack, e) \/ Emptied(s, e)
           \/ mem' = s /\ stack' = stack
    BY <1>5, FirstCalled
  <2>2. UNCHANGED <<installed, replaced, cache>>
    BY <1>5 DEF FirstCall
  <2>3. Tasked(s)
    BY VerifyTasked
  <2> HIDE DEF s
  <2>4. Entered(s, stack, e) \/ Emptied(s, e) => Installed'
    BY <2>1, <2>2, <2>3, EnteredInstalled
  <2>5. mem' = s /\ stack' = stack => Installed'
    BY <2>2, <2>3 DEF Installed, Tasked
  <2> QED BY <2>1, <2>4, <2>5
<1>6. ASSUME NEW e \in Envs, NEW via \in {"env", "invoker"}, Call(e, via)
      PROVE  Installed'
  <2>1. UNCHANGED <<installed, replaced, cache>> /\ Tasked(mem)
    BY <1>6 DEF Call, Installed, Tasked
  <2> QED BY <1>6, <2>1, WasCalled, EnteredInstalled
<1>7. ASSUME NEW found \in BOOLEAN, Install(found)
      PROVE  Installed'
  <2>1. /\ Steps(stack, stack', "calling") /\ Len(stack) \in 1..Len(stack)
        /\ ~found => mem' = mem
    BY <1>7, InstallHooks
  <2>2. /\ IF found THEN installed' ELSE installed' = installed
        /\ replaced => replaced'
        /\ cache' = cache
    BY <1>7 DEF Install
  <2>3. ASSUME NEW k \in 1..Len(stack'), InTask(stack'[k])
        PROVE  InTask(stack[k]) /\ k \in 1..Len(stack)
    BY <2>1, <2>3 DEF Steps, InTask
  <2> QED BY <2>1, <2>2, <2>3 DEF Installed
<1>8. (UNCHANGED <<mem, stack, installed, replaced, cache>>) => Installed'
  BY DEF Installed
<1>9. ASSUME NEW n \in Names, LookUp(n)
      PROVE  Installed'
  <2>1. /\ InTask(Top) /\ stack # <<>> /\ stack \in Seq(Frames)
        /\ UNCHANGED <<mem, stack, installed, replaced>>
    BY <1>9 DEF LookUp, history, TypeOK, StackType
  <2>2. Len(stack) \in 1..Len(stack) /\ Top = stack[Len(stack)]
    BY <2>1, TopFrame
  <2>3. installed \/ replaced
    BY <2>1, <2>2 DEF Installed
  <2> QED BY <2>1, <2>3 DEF Installed
<1>10. ASSUME NEW c, FreeChunk(c)
       PROVE  Installed'
  BY <1>3, <1>8, <1>10 DEF FreeChunk, history
<1>11. CASE Take
  <2>1. /\ Steps(stack, stack', "taken") /\ Len(stack) \in 1..Len(stack)
        /\ UNCHANGED <<mem, installed, cache>> /\ (replaced => replaced')
    BY <1>11, TakeSteps DEF Take
  <2>2. ASSUME NEW k \in 1..Len(stack'), InTask(stack'[k])
        PROVE  InTask(stack[k]) /\ k \in 1..Len(stack)
    BY <2>1, <2>2 DEF Steps, InTask
  <2> QED BY <2>1, <2>2 DEF Installed
<1> QED
  BY <1>1, <1>2, <1>3, <1>4, <1>5, <1>6, <1>7, <1>8, <1>9, <1>10, <1>11
  DEF Next, Load, InstallElsewhere, Unload, Reuse, history, vars

LEMMA NextFollows ==
  ASSUME TypeOK, Installed, CachesFollowPool, [Next]_vars
  PROVE  CachesFollowPool'
<1>1. CASE Uninstall
  BY <1>1 DEF Uninstall, CachesFollowPool
<1>2. ASSUME NEW n \in Names, LookUp(n)
      PROVE  CachesFollowPool'
  BY <1>2 DEF LookUp, history, CachesFollowPool, TypeOK, PlayerType, Pool
<1>3. CASE Take
  <2> DEFINE a == MethodOf[Top.e]
  <2>1. /\ a \in Autos /\ main' = a /\ cache' = cache
        /\ replaced' = (replaced \/ (installed /\ Pool # PoolOf[a]))
    BY <1>3 DEF Take
  <2>2. a # None
    BY <2>1, HookAssumption DEF HookAssumption, Objects
  <2>3. Pool' = PoolOf[a]
    BY <2>1, <2>2 DEF Pool
  <2> QED BY <2>1, <2>3 DEF CachesFollowPool, Installed
<1>4. (UNCHANGED <<cache, main, replaced>>) => CachesFollowPool'
  BY DEF CachesFollowPool, Pool
<1>5. ASSUME NEW c, FreeChunk(c)
      PROVE  CachesFollowPool'
  BY <1>1, <1>4, <1>5 DEF FreeChunk, history
<1> QED
  BY <1>1, <1>2, <1>3, <1>4, <1>5 DEF Next, Load, TasksDone, Install, InstallElsewhere,
                                      Return, Unload, CallOriginal, Call,
                                      FirstCall, Reuse, history, vars

(* What is written to is in a chunk that stays, or is a method.            *)
LEMMA NextUntouched ==
  ASSUME TypeOK, InUse, FreedEnvsUntouched, [Next]_vars
  PROVE  FreedEnvsUntouched'
<1>1. ASSUME NEW ids, NEW e \in Envs
      PROVE  <<e, "released">> \notin Written(ids)
  <2>1. ASSUME NEW i \in DOMAIN mem.table
        PROVE  /\ Target(mem.table[i]) # e
               /\ mem.table[i].by = e => ChunkOf[e] \notin released
    <3>1. mem.table[i] \in Pointers
      BY DEF TypeOK, Memory
    <3> QED BY <3>1, TargetType, Constants DEF InUse
  <2> QED BY <2>1 DEF Written
<1>2. ASSUME NEW ids, stray' = stray \cup Written(ids)
      PROVE  FreedEnvsUntouched'
  BY <1>1, <1>2 DEF FreedEnvsUntouched
<1>3. stray' = stray => FreedEnvsUntouched'
  BY DEF FreedEnvsUntouched
<1>4. CASE Uninstall
  BY <1>2, <1>4 DEF Uninstall
<1>5. ASSUME NEW e \in Envs, NEW via \in {"env", "invoker"}, FirstCall(e, via)
      PROVE  FreedEnvsUntouched'
  BY <1>2, <1>5 DEF FirstCall
<1>6. ASSUME NEW pointer \in {"proc", "invoker"}, CallOriginal(pointer)
      PROVE  FreedEnvsUntouched'
  BY <1>2, <1>6 DEF CallOriginal
<1>7. ASSUME NEW found \in BOOLEAN, Install(found)
      PROVE  FreedEnvsUntouched'
  BY <1>2, <1>3, <1>7 DEF Install
<1>8. ASSUME NEW c, FreeChunk(c)
      PROVE  FreedEnvsUntouched'
  BY <1>3, <1>4, <1>8 DEF FreeChunk, history
<1> QED
  BY <1>3, <1>4, <1>5, <1>6, <1>7, <1>8
  DEF Next, Load, TasksDone, Take, InstallElsewhere, Return, Unload, Call,
      LookUp, Reuse, history, vars

-----------------------------------------------------------------------------
(* The pointers and the entries: a step acts on the methods of one number. *)
LEMMA OthersSound ==
  ASSUME Memory(mem), Memory(mem'), Sounds, spoiled \subseteq spoiled', NEW i,
         \A n \in Methods : Id[n] # i =>
           /\ Same(mem, mem', n)
           /\ n \in compiled <=> n \in compiled'
           /\ Id[n] \in Busy <=> Id[n] \in Busy',
         \A n \in Methods : Id[n] = i /\ Id[n] \notin spoiled' =>
           Sound(mem', n, compiled', Busy')
  PROVE  Sounds'
<1> SUFFICES ASSUME NEW n \in Methods, Id[n] \notin spoiled'
             PROVE  Sound(mem', n, compiled', Busy')
  BY DEF Sounds, Plain
<1>1. CASE Id[n] = i
  BY <1>1
<1>2. CASE Id[n] # i
  <2>1. Sound(mem, n, compiled, Busy)
    BY DEF Sounds, Plain
  <2>2. /\ Same(mem, mem', n)
        /\ n \in compiled <=> n \in compiled'
        /\ Id[n] \in Busy <=> Id[n] \in Busy'
    BY <1>2
  <2> QED BY <2>1, <2>2, SameSound
<1> QED BY <1>1, <1>2

LEMMA BusySame ==
  ASSUME Len(stack') = Len(stack),
         \A k \in 1..Len(stack) : stack'[k].e = stack[k].e
  PROVE  Busy' = Busy
BY DEF Busy

LEMMA BusyEntered ==
  ASSUME NEW s, NEW STATE st, NEW e, Entered(s, st, e),
         Len(st) = Len(stack), Len(stack) \in Nat,
         \A k \in 1..Len(stack) : st[k].e = stack[k].e
  PROVE  Busy' = Busy \cup {Id[MethodOf[e]]}
<1>1. /\ Len(stack') = Len(stack) + 1
      /\ \A k \in 1..Len(stack) : stack'[k].e = stack[k].e
      /\ stack'[Len(stack) + 1].e = e
  BY DEF Entered
<1>2. 1..(Len(stack) + 1) = 1..Len(stack) \cup {Len(stack) + 1}
  OBVIOUS
<1> QED BY <1>1, <1>2 DEF Busy

LEMMA BusyReturned ==
  ASSUME NEW s, NEW e, Returned(s, e)
  PROVE  \A i : i # Id[MethodOf[e]] => (i \in Busy <=> i \in Busy')
<1>1. /\ Len(stack) \in 1..Len(stack) /\ Len(stack') = Len(stack) - 1
      /\ e = stack[Len(stack)].e
      /\ \A k \in 1..Len(stack') : k \in 1..Len(stack) /\ stack'[k] = stack[k]
  BY DEF Returned
<1>2. \A k \in 1..Len(stack) : k # Len(stack) => k \in 1..Len(stack')
  BY <1>1
<1> QED BY <1>1, <1>2 DEF Busy

(* The plain methods being called are so once, by their entry's caller.    *)
LEMMA PlainFrame ==
  ASSUME TypeOK, Once, NEW k \in 1..Len(stack), NEW n \in Methods, n \in Plain,
         Id[MethodOf[stack[k].e]] = Id[n]
  PROVE  LET m == MethodOf[stack[k].e] IN
         /\ m \in Plain /\ stack[k].ref
         /\ Holds(mem, m) /\ mem.table[Id[m]].by = stack[k].e
         /\ \A j \in 1..Len(stack) : Id[MethodOf[stack[j].e]] = Id[m] => j = k
<1>1. MethodOf[stack[k].e] \in Plain
  BY FrameType DEF TypeOK, StackType, Plain
<1> QED BY <1>1 DEF Once

LEMMA SameHolds ==
  ASSUME NEW s, NEW t, NEW n \in Methods, Same(s, t, n), Holds(s, n)
  PROVE  Holds(t, n) /\ t.table[Id[n]].by = s.table[Id[n]].by
BY DEF Same, Holds

LEMMA StillOnce ==
  ASSUME TypeOK, Once, spoiled \subseteq spoiled',
         Len(stack') = Len(stack),
         \A k \in 1..Len(stack) :
           /\ stack'[k].e = stack[k].e /\ stack'[k].ref = stack[k].ref
           /\ Id[MethodOf[stack[k].e]] \notin spoiled' =>
                LET m == MethodOf[stack[k].e] IN
                Same(mem, mem', m) \/ (mem.table)' = mem.table
  PROVE  Once'
<1> SUFFICES ASSUME NEW k \in 1..Len(stack),
                    Id[MethodOf[stack[k].e]] \notin spoiled'
             PROVE  LET m == MethodOf[stack[k].e] IN
                    /\ stack'[k].ref
                    /\ Holds(mem', m) /\ (mem.table)'[Id[m]].by = stack[k].e
                    /\ \A j \in 1..Len(stack) :
                         Id[MethodOf[stack[j].e]] = Id[m] => j = k
  BY DEF Once, Plain
<1> DEFINE m == MethodOf[stack[k].e]
<1>1. m \in Methods /\ m \in Plain
  BY FrameType DEF TypeOK, StackType, Plain
<1>2. /\ stack[k].ref /\ Holds(mem, m) /\ mem.table[Id[m]].by = stack[k].e
      /\ \A j \in 1..Len(stack) : Id[MethodOf[stack[j].e]] = Id[m] => j = k
  BY <1>1, PlainFrame
<1>3. Holds(mem', m) /\ (mem.table)'[Id[m]].by = mem.table[Id[m]].by
  <2>1. CASE Same(mem, mem', m)
    BY <1>1, <1>2, <2>1, SameHolds
  <2>2. CASE (mem.table)' = mem.table
    BY <1>2, <2>2 DEF Holds
  <2> QED BY <2>1, <2>2
<1> QED BY <1>2, <1>3

(* A call of a method that is being called, or whose number another has    *)
(* the entry of, spoils it: the others are in order if it is not.          *)
LEMMA EnteredUnspoiled ==
  ASSUME NEW s, NEW STATE st, NEW e, Entered(s, st, e),
         Id[MethodOf[e]] \notin spoiled'
  PROVE  Id[MethodOf[e]] \notin Busy /\ Holds(s, MethodOf[e])
<1> DEFINE i == Id[MethodOf[e]]
<1>1. /\ i \in DOMAIN s.table
      /\ {j \in {i} : j \in Busy \/ Target(s.table[j]) # MethodOf[e]}
           \subseteq spoiled'
  BY DEF Entered
<1> QED BY <1>1 DEF Holds

LEMMA EnteredSounds ==
  ASSUME TypeOK, Memory(mem'), Sounds, NEW STATE s, Memory(s), NEW STATE st,
         NEW e \in Envs, Entered(s, st, e),
         Len(st) = Len(stack), Len(stack) \in Nat,
         \A k \in 1..Len(stack) : st[k].e = stack[k].e,
         \A n \in Methods : Id[n] # Id[MethodOf[e]] =>
           Same(mem, s, n) /\ (n \in compiled <=> n \in compiled'),
         Id[MethodOf[e]] \notin Busy /\ Holds(s, MethodOf[e]) =>
           \A n \in Methods :
             Id[n] = Id[MethodOf[e]] /\ Id[n] \notin spoiled' =>
               Sound(Called(s, e), n, compiled', Busy')
  PROVE  Sounds'
<1> DEFINE i == Id[MethodOf[e]]
<1>1. /\ mem' = Called(s, e) /\ spoiled \subseteq spoiled'
      /\ i \in DOMAIN s.table /\ Memory(mem)
  BY DEF Entered, TypeOK
<1>2. Busy' = Busy \cup {i}
  BY BusyEntered
<1>3. ASSUME NEW n \in Methods, Id[n] # i
      PROVE  /\ Same(mem, mem', n)
             /\ n \in compiled <=> n \in compiled'
             /\ Id[n] \in Busy <=> Id[n] \in Busy'
  <2>1. Same(mem, s, n) /\ Same(s, mem', n)
    BY <1>1, <1>3, CalledElsewhere
  <2>2. Same(mem, mem', n)
    BY <2>1 DEF Same
  <2> QED BY <1>2, <1>3, <2>2
<1>4. ASSUME NEW n \in Methods, Id[n] = i, Id[n] \notin spoiled'
      PROVE  Sound(mem', n, compiled', Busy')
  <2>1. i \notin Busy /\ Holds(s, MethodOf[e])
    BY <1>4, EnteredUnspoiled
  <2> QED BY <1>1, <1>4, <2>1
<1> HIDE DEF i
<1> QED BY <1>1, <1>3, <1>4, OthersSound

LEMMA EnteredOnce ==
  ASSUME TypeOK, Once, NEW STATE s, Memory(s), NEW STATE st,
         NEW e \in Envs, Entered(s, st, e),
         Len(st) = Len(stack), Len(stack) \in Nat,
         \A k \in 1..Len(stack) : st[k].e = stack[k].e /\ st[k].ref = stack[k].ref,
         \A n \in Methods : Id[n] # Id[MethodOf[e]] => Same(mem, s, n)
  PROVE  Once'
<1> DEFINE i == Id[MethodOf[e]]
<1>1. /\ mem' = Called(s, e) /\ i \in DOMAIN s.table /\ Memory(mem)
      /\ spoiled \subseteq spoiled' /\ MethodOf[e] \in Methods
  BY Constants DEF Entered, TypeOK
<1>2. /\ Len(stack') = Len(stack) + 1
      /\ \A k \in 1..Len(stack) :
           stack'[k].e = stack[k].e /\ stack'[k].ref = stack[k].ref
      /\ stack'[Len(stack) + 1].e = e /\ stack'[Len(stack) + 1].ref
  BY DEF Entered
<1>3. \A k \in 1..Len(stack) : Id[MethodOf[stack[k].e]] = i => i \in Busy
  BY DEF Busy
<1>4. i \notin spoiled' => i \notin Busy
  BY EnteredUnspoiled
<1> SUFFICES ASSUME NEW k \in 1..Len(stack'),
                    Id[MethodOf[stack'[k].e]] \notin spoiled'
             PROVE  LET m == MethodOf[stack'[k].e] IN
                    /\ stack'[k].ref
                    /\ Holds(mem', m) /\ (mem.table)'[Id[m]].by = stack'[k].e
                    /\ \A j \in 1..Len(stack') :
                         Id[MethodOf[stack'[j].e]] = Id[m] => j = k
  BY DEF Once, Plain
<1> HIDE DEF i
<1>5. CASE k = Len(stack) + 1
  <2>1. Holds(s, MethodOf[e]) /\ i \notin Busy
    BY <1>2, <1>5, EnteredUnspoiled DEF i
  <2>2. Holds(mem', MethodOf[e]) /\ (mem.table)'[i].by = e
    <3> DEFINE t == Called(s, e)
    <3>1. /\ NamesCaller(s, e, t) /\ i \in DOMAIN s.table
      BY <1>1, CalledNames DEF i
    <3> HIDE DEF t
    <3>2. i \in DOMAIN t.table /\ t.table[i].by = e
      BY <3>1 DEF NamesCaller, i
    <3>3. Holds(t, MethodOf[e]) /\ t.table[i].by = e
      BY <3>2, Constants DEF Holds, Target, i
    <3> QED BY <1>1, <3>3 DEF t
  <2>3. \A j \in 1..Len(stack') : Id[MethodOf[stack'[j].e]] = i => j = k
    BY <1>2, <1>3, <1>5, <2>1
  <2> QED BY <1>2, <1>5, <2>2, <2>3 DEF i
<1>6. CASE k \in 1..Len(stack)
  <2> DEFINE m == MethodOf[stack[k].e]
  <2>1. stack'[k].e = stack[k].e /\ stack'[k].ref = stack[k].ref
    BY <1>2, <1>6
  <2>2. m \in Methods /\ m \in Plain
    BY <1>1, <1>6, <2>1, FrameType DEF TypeOK, StackType, Plain
  <2>3. /\ stack[k].ref /\ Holds(mem, m) /\ mem.table[Id[m]].by = stack[k].e
        /\ \A j \in 1..Len(stack) : Id[MethodOf[stack[j].e]] = Id[m] => j = k
    BY <1>6, <2>2, PlainFrame
  <2>4. Id[m] # i
    BY <1>3, <1>4, <1>6, <2>1
  <2>5. Same(mem, s, m) /\ Same(s, mem', m)
    BY <1>1, <2>2, <2>4, CalledElsewhere DEF i
  <2>6. Holds(mem', m) /\ (mem.table)'[Id[m]].by = stack[k].e
    BY <2>2, <2>3, <2>5, SameHolds
  <2>7. \A j \in 1..Len(stack') : Id[MethodOf[stack'[j].e]] = Id[m] => j = k
    BY <1>2, <2>3, <2>4 DEF i
  <2> QED BY <2>1, <2>3, <2>6, <2>7
<1> QED BY <1>2, <1>5, <1>6

-----------------------------------------------------------------------------
(* Where a pointer that led to a stub leads then.                          *)
Resolved(s, e, m, t) ==
  /\ m \in compiled =>
       /\ t.proc[m] = s.proc[m] /\ t.invoker[m] = s.invoker[m]
       /\ t.env[e] = s.proc[m] /\ t.table = s.table
  /\ m \notin compiled /\ ~Notified(m) =>
       /\ t.proc[m] = "jit" /\ t.invoker[m] = "jit" /\ t.env[e] = "jit"
       /\ t.table = s.table
  /\ m \notin compiled /\ Notified(m) =>
       /\ t.proc[m] = "proxy" /\ t.invoker[m] = "proxy" /\ t.env[e] = "proxy"
       /\ Id[m] \in DOMAIN t.table

LEMMA VerifyResolved ==
  ASSUME NEW s, Memory(s), NEW e \in Envs, NEW m, m = MethodOf[e]
  PROVE  Resolved(s, e, m, Verify(s, e))
<1> DEFINE k == Linked(s, m)
           t == Verify(s, e)
           j == Jitted(s, m)
<1>1. m \in Methods /\ Memory(k)
  BY Constants, LinkedMemory
<1>2. Leads(k, e, t)
  BY VerifyFields
<1>3. /\ Memory(j) /\ j.table = s.table
      /\ j.proc = [s.proc EXCEPT ![m] = "jit"]
      /\ j.invoker = [s.invoker EXCEPT ![m] = "jit"]
  BY <1>1, JittedFields
<1>4. Hooks(j, m, Restored(j, m), Hook(j, m)) /\ Memory(Restored(j, m))
  BY <1>1, <1>3, HookFields, RestoredMemory
<1>5. /\ m \in compiled => k = s
      /\ m \notin compiled /\ ~Notified(m) => k = j
      /\ m \notin compiled /\ Notified(m) => k = Hook(j, m)
  BY DEF Linked
<1> HIDE DEF k, t, j
<1>6. /\ t.env[e] = k.proc[m] /\ t.proc = k.proc /\ t.invoker = k.invoker
      /\ t.table = k.table
  BY <1>1, <1>2 DEF Leads, Memory
<1>7. /\ Hook(j, m).proc[m] = "proxy" /\ Hook(j, m).invoker[m] = "proxy"
      /\ Id[m] \in DOMAIN Hook(j, m).table
  BY <1>1, <1>4 DEF Hooks, Memory
<1>8. j.proc[m] = "jit" /\ j.invoker[m] = "jit"
  BY <1>1, <1>3 DEF Memory
<1>9. Resolved(s, e, m, t)
  <2>1. CASE m \in compiled
    BY <1>5, <1>6, <2>1 DEF Resolved
  <2>2. CASE m \notin compiled /\ ~Notified(m)
    <3>1. k = j
      BY <1>5, <2>2
    <3> QED BY <1>3, <1>6, <1>8, <2>2, <3>1 DEF Resolved
  <2>3. CASE m \notin compiled /\ Notified(m)
    <3>1. k = Hook(j, m)
      BY <1>5, <2>3
    <3> QED BY <1>6, <1>7, <2>3, <3>1 DEF Resolved
  <2> QED BY <2>1, <2>2, <2>3
<1> QED BY <1>9 DEF t

(* The first call of a plain method, through a stub: it compiles it unless *)
(* it goes through an environment, and comes to the proxy only if the      *)
(* method is hooked.                                                       *)
LEMMA FirstReached ==
  ASSUME NEW e \in Envs, NEW m, m = MethodOf[e], NEW via \in {"env", "invoker"},
         NEW b, Memory(mem), Sound(mem, m, compiled, b),
         Reached(mem, e, via) = "stub"
  PROVE  LET t == Verify(mem, e)
             plain == /\ m \in compiled \/ ~Notified(m)
                      /\ mem.proc[m] # "proxy"
         IN /\ Reached(t, e, via) # "proxy" =>
                 plain \/ (m \notin compiled /\ mem.proc[m] = "proxy")
            /\ Reached(t, e, via) = "proxy" => m \in compiled \/ Notified(m)
            /\ Id[m] \notin DOMAIN t.table => plain
<1> DEFINE t == Verify(mem, e)
<1>1. Resolved(mem, e, m, t)
  BY VerifyResolved
<1>2. m \in compiled => mem.invoker[m] # "stub"
  BY DEF Sound, Entry, Clean, Own
<1>3. via = "env" \/ via = "invoker"
  OBVIOUS
<1>4. Id[m] \notin DOMAIN mem.table => mem.proc[m] # "proxy"
  BY OwnCode DEF Sound, Holds, Clean
<1> HIDE DEF t
<1>5. Reached(t, e, via) = IF via = "env" THEN t.env[e] ELSE t.invoker[m]
  BY DEF Reached
<1>6. via = "invoker" => mem.invoker[m] = "stub"
  BY DEF Reached
<1>7. CASE m \in compiled
  <2>1. t.env[e] = mem.proc[m] /\ t.table = mem.table
    BY <1>1, <1>7 DEF Resolved
  <2> QED BY <1>2, <1>3, <1>4, <1>5, <1>6, <1>7, <2>1 DEF t
<1>8. CASE m \notin compiled /\ ~Notified(m)
  <2>1. t.env[e] = "jit" /\ t.invoker[m] = "jit" /\ t.table = mem.table
    BY <1>1, <1>8 DEF Resolved
  <2> QED BY <1>4, <1>5, <1>8, <2>1 DEF t
<1>9. CASE m \notin compiled /\ Notified(m)
  <2>1. t.env[e] = "proxy" /\ t.invoker[m] = "proxy" /\ Id[m] \in DOMAIN t.table
    BY <1>1, <1>9 DEF Resolved
  <2> QED BY <1>5, <1>9, <2>1 DEF t
<1> QED BY <1>7, <1>8, <1>9

(* A proxy that has no entry is that of an environment, one of several.    *)
LEMMA EmptyAlone ==
  ASSUME NEW s, NEW e \in Envs, NEW m, m = MethodOf[e], NEW via,
         NEW c, NEW b, Sound(s, m, c, b), Id[m] \notin DOMAIN s.table,
         Reached(s, e, via) = "proxy"
  PROVE  ~Alone(e)
<1>1. Clean(s, m, c) /\ Unproxied(s, m)
  BY DEF Sound, Holds
<1> QED BY <1>1, OwnCode DEF Clean, Unproxied, Reached

LEMMA VerifySounds ==
  ASSUME TypeOK, Memory(mem'), Sounds, Once, NEW e \in Envs,
         mem' = Verify(mem, e), compiled' = compiled \cup {MethodOf[e]},
         spoiled \subseteq spoiled', Len(stack') = Len(stack),
         \A k \in 1..Len(stack) :
           stack'[k].e = stack[k].e /\ stack'[k].ref = stack[k].ref,
         Id[MethodOf[e]] \notin spoiled' =>
           /\ MethodOf[e] \in compiled \/ ~Notified(MethodOf[e])
           /\ mem.proc[MethodOf[e]] # "proxy"
  PROVE  Sounds' /\ Once'
<1> DEFINE m == MethodOf[e]
           i == Id[m]
           s == Verify(mem, e)
<1>1. Memory(mem) /\ Busy' = Busy
  BY BusySame DEF TypeOK
<1>2. ASSUME NEW n \in Methods, Id[n] # i
      PROVE  Same(mem, s, n) /\ (n \in compiled <=> n \in compiled')
  BY <1>1, <1>2, VerifyElsewhere
<1>3. ASSUME NEW n \in Methods, Id[n] = i, Id[n] \notin spoiled'
      PROVE  Sound(s, n, compiled', Busy')
  <2>1. Sound(mem, n, compiled, Busy)
    BY <1>3 DEF Sounds, Plain
  <2>2. (m \in compiled \/ ~Notified(m)) /\ mem.proc[m] # "proxy"
    BY <1>3
  <2> QED BY <1>1, <1>3, <2>1, <2>2, VerifyPlain
<1>4. i \notin spoiled' => s.table = mem.table
  BY <1>1, VerifyGrown
<1>5. mem' = s
  OBVIOUS
<1> HIDE DEF s
<1>6. Sounds'
  <2>1. ASSUME NEW n \in Methods, Id[n] # i
        PROVE  /\ Same(mem, mem', n)
               /\ n \in compiled <=> n \in compiled'
               /\ Id[n] \in Busy <=> Id[n] \in Busy'
    BY <1>1, <1>2, <1>5, <2>1
  <2>2. ASSUME NEW n \in Methods, Id[n] = i, Id[n] \notin spoiled'
        PROVE  Sound(mem', n, compiled', Busy')
    BY <1>3, <1>5, <2>2
  <2> HIDE DEF i
  <2> QED BY <1>1, <2>1, <2>2, OthersSound
<1>7. ASSUME NEW k \in 1..Len(stack), Id[MethodOf[stack[k].e]] \notin spoiled'
      PROVE  Same(mem, mem', MethodOf[stack[k].e]) \/ (mem.table)' = mem.table
  <2>1. MethodOf[stack[k].e] \in Methods
    BY FrameType DEF TypeOK, StackType
  <2> QED BY <1>2, <1>4, <1>5, <1>7, <2>1
<1>8. Once'
  BY <1>7, StillOnce
<1> QED BY <1>6, <1>8

LEMMA FirstCalledHome ==
  ASSUME Memory(mem), NEW e \in Envs, NEW m, m = MethodOf[e],
         NEW via \in {"env", "invoker"}, Reached(mem, e, via) = "stub",
         Reached(Verify(mem, e), e, via) = "proxy", Holds(Verify(mem, e), m),
         NEW b, Id[m] \notin b, NEW busy, Id[m] \in busy,
         Sound(mem, m, compiled, b),
         m \notin compiled /\ Notified(m) => Attached(mem, m),
         NEW n \in Methods, Id[n] = Id[m], Sound(mem, n, compiled, b)
  PROVE  Sound(Called(Verify(mem, e), e), n, compiled \cup {m}, busy)
<1> DEFINE s == Verify(mem, e)
           k == Linked(mem, m)
           d == compiled \cup {m}
<1>1. /\ m \in Methods /\ Memory(k) /\ Memory(s) /\ Leads(k, e, s)
      /\ s.table = k.table
  BY Constants, LinkedMemory, VerifyFields DEF Leads
<1>2. m \in compiled \/ Notified(m)
  BY FirstReached
<1>3. Sound(k, n, d, b)
  <2>1. CASE m \in compiled
    <3>1. k = mem /\ d = compiled
      BY <2>1 DEF Linked
    <3> QED BY <3>1
  <2>2. CASE m \notin compiled /\ Notified(m)
    <3>1. k = Hook(Jitted(mem, m), m)
      BY <2>2 DEF Linked
    <3>2. m \in Autos
      BY <2>2 DEF Notified
    <3> QED BY <1>1, <2>2, <3>1, <3>2, VerifyNotified
  <2> QED BY <1>2, <2>1, <2>2
<1>4. Holds(k, m)
  BY <1>1 DEF Holds
<1> HIDE DEF k, s
<1>5. Sound(Called(k, e), n, d, busy)
  BY <1>1, <1>3, <1>4, CalledHome
<1>6. Same(Called(k, e), Called(s, e), n)
  BY <1>1, <1>4, CalledLinked DEF Holds
<1>7. Memory(Called(k, e)) /\ Memory(Called(s, e))
  <2>1. Id[m] \in DOMAIN k.table /\ Id[m] \in DOMAIN s.table
    BY <1>1, <1>4 DEF Holds
  <2>2. Memory(Called(k, e))
    BY <1>1, <2>1, CalledFields
  <2>3. Memory(Called(s, e))
    BY <1>1, <2>1, CalledFields
  <2> QED BY <2>2, <2>3
<1> QED BY <1>5, <1>6, <1>7, SameSound DEF s

LEMMA FirstCallSounds ==
  ASSUME TypeOK, Memory(mem'), Sounds, Once, NEW e \in Envs,
         NEW via \in {"env", "invoker"}, FirstCall(e, via)
  PROVE  Sounds' /\ Once' /\ ProxyHasHandler'
<1> DEFINE m == MethodOf[e]
           i == Id[m]
           s == Verify(mem, e)
<1>1. /\ m \in Methods /\ Memory(s) /\ Memory(mem)
      /\ Len(stack) \in Nat /\ stack \in Seq(Frames)
  BY FirstCalled DEF TypeOK
<1>2. \/ /\ Reached(s, e, via) = "proxy" /\ Entered(s, stack, e)
         /\ m \notin compiled /\ Notified(m) => Lost({i}) \subseteq spoiled'
      \/ Reached(s, e, via) = "proxy" /\ Emptied(s, e)
      \/ /\ Reached(s, e, via) # "proxy"
         /\ mem' = s /\ stack' = stack /\ died' = died
         /\ spoiled' = spoiled \cup
              (IF m \notin compiled /\ mem.proc[m] = "proxy" THEN {i} ELSE {})
  BY FirstCalled
<1>3. /\ compiled' = compiled \cup {m} /\ died = None
      /\ Reached(mem, e, via) = "stub"
  BY DEF FirstCall, PlayerRuns
<1>4. ASSUME NEW n \in Methods, Id[n] = i, i \notin spoiled
      PROVE  Sound(mem, n, compiled, Busy)
  BY <1>4 DEF Sounds, Plain
<1>5. ASSUME NEW n \in Methods, Id[n] # i
      PROVE  Same(mem, s, n) /\ (n \in compiled <=> n \in compiled')
  BY <1>1, <1>3, <1>5, VerifyElsewhere
<1>6. died' = died => ProxyHasHandler'
  BY <1>3 DEF ProxyHasHandler
<1>7. CASE /\ Reached(s, e, via) = "proxy" /\ Entered(s, stack, e)
           /\ m \notin compiled /\ Notified(m) => Lost({i}) \subseteq spoiled'
  <2>1. Busy' = Busy \cup {i} /\ spoiled \subseteq spoiled' /\ died' = died
    BY <1>1, <1>7, BusyEntered DEF Entered
  <2>2. ASSUME i \notin Busy, Holds(s, m), NEW n \in Methods, Id[n] = i,
               i \notin spoiled'
        PROVE  Sound(Called(s, e), n, compiled', Busy')
    <3>1. i \notin spoiled /\ i \in Busy'
      BY <2>1, <2>2
    <3>2. Sound(mem, n, compiled, Busy) /\ Sound(mem, m, compiled, Busy)
      BY <1>1, <1>4, <2>2, <3>1
    <3>3. m \notin compiled /\ Notified(m) => Attached(mem, m)
      BY <1>7, <2>2 DEF Lost, Attached
    <3> QED BY <1>1, <1>3, <1>7, <2>2, <3>1, <3>2, <3>3, FirstCalledHome
  <2> HIDE DEF s
  <2>3. Sounds'
    BY <1>1, <1>5, <1>7, <2>2, EnteredSounds
  <2>4. Once'
    BY <1>1, <1>5, <1>7, EnteredOnce
  <2> QED BY <1>6, <2>1, <2>3, <2>4
<1>8. CASE Reached(s, e, via) = "proxy" /\ Emptied(s, e)
  <2>1. /\ mem' = s /\ stack' = stack /\ spoiled' = spoiled
        /\ i \notin DOMAIN s.table /\ died' = <<"empty", m>>
    BY <1>8 DEF Emptied
  <2>2. ASSUME i \notin spoiled'
        PROVE  (m \in compiled \/ ~Notified(m)) /\ mem.proc[m] # "proxy"
    <3>1. Sound(mem, m, compiled, Busy)
      BY <1>1, <1>4, <2>1, <2>2
    <3> QED BY <1>1, <1>3, <2>1, <3>1, FirstReached
  <2>3. Sounds' /\ Once'
    BY <1>3, <2>1, <2>2, VerifySounds
  <2>4. ASSUME i \notin spoiled'
        PROVE  ~Alone(e)
    <3>1. Sound(mem', m, compiled', Busy')
      BY <1>1, <2>3, <2>4 DEF Sounds, Plain
    <3> QED BY <1>8, <2>1, <3>1, EmptyAlone
  <2>5. ProxyHasHandler'
    BY <2>1, <2>4 DEF ProxyHasHandler, Plain
  <2> QED BY <2>3, <2>5
<1>9. CASE /\ Reached(s, e, via) # "proxy"
           /\ mem' = s /\ stack' = stack /\ died' = died
           /\ spoiled' = spoiled \cup
                (IF m \notin compiled /\ mem.proc[m] = "proxy" THEN {i} ELSE {})
  <2>1. ASSUME i \notin spoiled'
        PROVE  (m \in compiled \/ ~Notified(m)) /\ mem.proc[m] # "proxy"
    <3>1. ~(m \notin compiled /\ mem.proc[m] = "proxy") /\ i \notin spoiled
      BY <1>9, <2>1
    <3>2. Sound(mem, m, compiled, Busy)
      BY <1>1, <1>4, <3>1
    <3> QED BY <1>1, <1>3, <1>9, <3>1, <3>2, FirstReached
  <2>2. Sounds' /\ Once'
    BY <1>3, <1>9, <2>1, VerifySounds
  <2> QED BY <1>6, <1>9, <2>2
<1> QED BY <1>2, <1>7, <1>8, <1>9

LEMMA CallSounds ==
  ASSUME TypeOK, Memory(mem'), Sounds, Once, NEW e \in Envs,
         NEW via \in {"env", "invoker"}, Call(e, via)
  PROVE  Sounds' /\ Once' /\ ProxyHasHandler'
<1> DEFINE m == MethodOf[e]
           i == Id[m]
<1>1. /\ m \in Methods /\ Memory(mem)
      /\ Len(stack) \in Nat /\ stack \in Seq(Frames)
      /\ Entered(mem, stack, e) \/ Emptied(mem, e)
  BY WasCalled, Constants
<1>2. compiled' = compiled /\ died = None /\ Reached(mem, e, via) = "proxy"
  BY DEF Call, PlayerRuns
<1>3. ASSUME NEW n \in Methods, Id[n] = i, i \notin spoiled
      PROVE  Sound(mem, n, compiled, Busy)
  BY <1>3 DEF Sounds, Plain
<1>4. CASE Entered(mem, stack, e)
  <2>1. Busy' = Busy \cup {i} /\ spoiled \subseteq spoiled' /\ died' = died
    BY <1>1, <1>4, BusyEntered DEF Entered
  <2>2. \A n \in Methods : Same(mem, mem, n)
    BY DEF Same
  <2>3. ASSUME i \notin Busy, Holds(mem, m), NEW n \in Methods, Id[n] = i,
               i \notin spoiled'
        PROVE  Sound(Called(mem, e), n, compiled', Busy')
    <3>1. i \notin spoiled /\ i \in Busy'
      BY <2>1, <2>3
    <3> QED BY <1>1, <1>2, <1>3, <2>3, <3>1, CalledHome
  <2>4. Sounds'
    BY <1>1, <1>2, <1>4, <2>2, <2>3, EnteredSounds
  <2>5. Once'
    BY <1>1, <1>4, <2>2, EnteredOnce
  <2> QED BY <1>2, <2>1, <2>4, <2>5 DEF ProxyHasHandler
<1>5. CASE Emptied(mem, e)
  <2>1. /\ mem' = mem /\ stack' = stack /\ spoiled' = spoiled
        /\ i \notin DOMAIN mem.table /\ died' = <<"empty", m>>
    BY <1>5 DEF Emptied
  <2>2. Sounds' /\ Once'
    BY <1>2, <2>1 DEF Sounds, Once, Plain, Busy
  <2>3. i \notin spoiled => ~Alone(e)
    BY <1>1, <1>2, <1>3, <2>1, EmptyAlone
  <2> QED BY <2>1, <2>2, <2>3 DEF ProxyHasHandler, Plain
<1> QED BY <1>1, <1>4, <1>5

(* The original of a plain method is called with the pointers as they were.*)
LEMMA OriginalReached ==
  ASSUME TypeOK, Sounds, Once, stack # <<>>, Id[MethodOf[Top.e]] \notin spoiled
  PROVE  LET m == MethodOf[Top.e] IN
         /\ Holds(mem, m) /\ Id[m] \in DOMAIN mem.table
         /\ Clean(mem, m, compiled) /\ mem.proc[m] # "proxy"
         /\ m \in compiled \/ ~Notified(m)
<1> DEFINE m == MethodOf[Top.e]
<1>1. /\ Len(stack) \in 1..Len(stack) /\ Top = stack[Len(stack)]
      /\ m \in Methods /\ Id[m] \in Busy /\ m \in Plain
  BY TopFrame DEF TypeOK, StackType, Plain
<1>2. Holds(mem, m)
  BY <1>1, PlainFrame
<1>3. Entry(mem, m, compiled, Busy)
  BY <1>1, <1>2 DEF Sounds, Sound
<1>4. Clean(mem, m, compiled) /\ (m \in Autos => m \in compiled)
  BY <1>1, <1>3 DEF Entry
<1> QED BY <1>2, <1>4, OwnCode DEF Holds, Clean, Notified

LEMMA CallOriginalSounds ==
  ASSUME TypeOK, Memory(mem'), Sounds, Once, NEW pointer \in {"proc", "invoker"},
         CallOriginal(pointer)
  PROVE  Sounds' /\ Once' /\ ProxyHasHandler'
<1> DEFINE e == Top.e
           m == MethodOf[e]
           i == Id[m]
           stub == mem[pointer][m] = "stub"
           s == IF stub THEN Verify(mem, e) ELSE mem
           called == [stack EXCEPT ![Len(stack)].at = "original"]
<1>1. /\ e \in Envs /\ m \in Methods /\ i \in Busy /\ Memory(s)
      /\ Grown(mem, s, m) /\ Len(stack) \in 1..Len(stack)
      /\ called \in Seq(Frames) /\ Len(called) = Len(stack)
      /\ \A k \in 1..Len(stack) :
           called[k].e = stack[k].e /\ called[k].ref = stack[k].ref
      /\ \/ Entered(s, called, e) \/ Emptied(s, e)
         \/ /\ mem' = s /\ stack' = called
            /\ died' = died /\ spoiled' = spoiled
  BY OriginalCalled
<1>2. /\ compiled' = IF stub THEN compiled \cup {m} ELSE compiled
      /\ died = None /\ stack # <<>>
  BY DEF CallOriginal
<1>3. i \notin spoiled =>
        /\ Holds(mem, m) /\ i \in DOMAIN mem.table
        /\ mem.proc[m] # "proxy" /\ (m \in compiled \/ ~Notified(m))
  BY <1>2, OriginalReached
<1>4. ASSUME NEW n \in Methods, Id[n] # i
      PROVE  Same(mem, s, n) /\ (n \in compiled <=> n \in compiled')
  <2>1. Same(mem, mem, n)
    BY DEF Same
  <2>2. Same(mem, Verify(mem, e), n)
    BY <1>1, <1>4, VerifyElsewhere DEF TypeOK
  <2> QED BY <1>2, <1>4, <2>1, <2>2
<1>5. died' = died => ProxyHasHandler'
  BY <1>2 DEF ProxyHasHandler
<1>6. CASE Entered(s, called, e)
  <2>1. died' = died
    BY <1>6 DEF Entered
  <2> HIDE DEF s, called, e
  <2>2. Sounds'
    BY <1>1, <1>4, <1>6, EnteredSounds
  <2>3. Once'
    BY <1>1, <1>4, <1>6, EnteredOnce
  <2> QED BY <1>5, <2>1, <2>2, <2>3
<1>7. ASSUME mem' = s, spoiled' = spoiled, Len(stack') = Len(stack),
             \A k \in 1..Len(stack) :
               stack'[k].e = stack[k].e /\ stack'[k].ref = stack[k].ref
      PROVE  Sounds' /\ Once'
  <2>1. CASE stub
    <3>1. mem' = Verify(mem, e) /\ compiled' = compiled \cup {m}
      BY <1>2, <1>7, <2>1
    <3> HIDE DEF s, stub, called, e
    <3> QED BY <1>1, <1>3, <1>7, <3>1, VerifySounds
  <2>2. CASE ~stub
    <3>1. mem' = mem /\ compiled' = compiled
      BY <1>2, <1>7, <2>2
    <3> HIDE DEF s, stub, called, e
    <3>2. Busy' = Busy
      BY <1>7, BusySame
    <3>3. Once'
      BY <1>7, <3>1, StillOnce
    <3> QED BY <1>7, <3>1, <3>2, <3>3 DEF Sounds, Plain
  <2> QED BY <2>1, <2>2
<1>8. CASE Emptied(s, e)
  <2>1. /\ mem' = s /\ stack' = stack /\ spoiled' = spoiled
        /\ i \notin DOMAIN s.table /\ died' = <<"empty", m>>
    BY <1>8 DEF Emptied
  <2>2. i \in spoiled
    BY <1>1, <1>3, <2>1 DEF Grown
  <2>3. Sounds' /\ Once'
    BY <1>7, <2>1
  <2> QED BY <2>1, <2>2, <2>3 DEF ProxyHasHandler, Plain
<1>9. CASE /\ mem' = s /\ stack' = called
           /\ died' = died /\ spoiled' = spoiled
  BY <1>1, <1>5, <1>7, <1>9
<1> QED BY <1>1, <1>6, <1>8, <1>9

LEMMA ReturnSounds ==
  ASSUME TypeOK, Memory(mem'), Referred, Sounds, Once, Return
  PROVE  Sounds' /\ Once'
<1>1. PICK s, e : Returned(s, e)
  BY HasReturned
<1> DEFINE m == MethodOf[e]
           i == Id[m]
<1>2. /\ e \in Envs /\ m \in Methods /\ Memory(s) /\ Memory(mem)
      /\ e = stack[Len(stack)].e /\ Len(stack) \in 1..Len(stack)
      /\ mem' = Reinstall(s, e) /\ Len(stack') = Len(stack) - 1
      /\ \A k \in 1..Len(stack') : k \in 1..Len(stack) /\ stack'[k] = stack[k]
      /\ IF stack[Len(stack)].ref
         THEN i \in DOMAIN mem.table /\ s = Keep(mem, e)
         ELSE s = mem
  BY <1>1 DEF Returned, TypeOK
<1>3. compiled' = compiled /\ spoiled' = spoiled
  BY DEF Return, history
<1>4. ASSUME NEW n \in Methods, Id[n] # i
      PROVE  Same(mem, mem', n)
  <2>1. Same(mem, s, n)
    <3>1. Same(mem, mem, n)
      BY DEF Same
    <3>2. i \in DOMAIN mem.table => Same(mem, Keep(mem, e), n)
      BY <1>2, <1>4, KeepElsewhere
    <3> QED BY <1>2, <3>1, <3>2
  <2>2. Same(s, mem', n)
    BY <1>2, <1>4, ReinstallElsewhere
  <2> QED BY <2>1, <2>2 DEF Same
<1>5. ASSUME NEW n \in Methods, Id[n] = i, Id[n] \notin spoiled
      PROVE  Sound(mem', n, compiled, Busy')
  <2>1. n \in Plain /\ m \in Plain
    BY <1>2, <1>5 DEF Plain
  <2>2. /\ stack[Len(stack)].ref
        /\ Holds(mem, m) /\ mem.table[Id[m]].by = e
        /\ \A j \in 1..Len(stack) :
             Id[MethodOf[stack[j].e]] = Id[m] => j = Len(stack)
    BY <1>2, <2>1, PlainFrame
  <2>3. i \notin Busy'
    <3>1. ASSUME NEW k \in 1..Len(stack'), Id[MethodOf[stack'[k].e]] = i
          PROVE  FALSE
      BY <1>2, <2>2, <3>1
    <3> HIDE DEF i
    <3> QED BY <3>1 DEF Busy
  <2>4. i \in Busy
    BY <1>2 DEF Busy
  <2>5. Sound(mem, n, compiled, Busy) /\ Sound(mem, m, compiled, Busy)
    BY <2>1 DEF Sounds
  <2>6. mem' = Reinstall(Keep(mem, e), e)
    BY <1>2, <2>2
  <2> HIDE DEF i
  <2>7. Sound(Reinstall(Keep(mem, e), e), n, compiled, Busy')
    BY <1>2, <1>5, <2>2, <2>3, <2>4, <2>5, ReturnHome DEF i
  <2> QED BY <2>6, <2>7
<1>6. \A x : x # i => (x \in Busy <=> x \in Busy')
  BY <1>1, BusyReturned
<1>7. Sounds'
  <2>1. ASSUME NEW n \in Methods, Id[n] # i
        PROVE  /\ Same(mem, mem', n)
               /\ n \in compiled <=> n \in compiled'
               /\ Id[n] \in Busy <=> Id[n] \in Busy'
    BY <1>3, <1>4, <1>6, <2>1
  <2>2. ASSUME NEW n \in Methods, Id[n] = i, Id[n] \notin spoiled'
        PROVE  Sound(mem', n, compiled', Busy')
    BY <1>3, <1>5, <2>2
  <2> HIDE DEF i
  <2> QED BY <1>2, <1>3, <2>1, <2>2, OthersSound
<1>8. ASSUME NEW k \in 1..Len(stack'), MethodOf[stack'[k].e] \in Plain'
      PROVE  LET n == MethodOf[stack'[k].e] IN
             /\ stack'[k].ref
             /\ Holds(mem', n) /\ (mem.table)'[Id[n]].by = stack'[k].e
             /\ \A j \in 1..Len(stack') :
                  Id[MethodOf[stack'[j].e]] = Id[n] => j = k
  <2> DEFINE n == MethodOf[stack[k].e]
  <2>1. k \in 1..Len(stack) /\ stack'[k] = stack[k] /\ k # Len(stack)
    BY <1>2
  <2>2. n \in Methods /\ n \in Plain
    BY <1>3, <1>8, <2>1 DEF Plain
  <2>3. /\ stack[k].ref /\ Holds(mem, n) /\ mem.table[Id[n]].by = stack[k].e
        /\ \A j \in 1..Len(stack) : Id[MethodOf[stack[j].e]] = Id[n] => j = k
    BY <2>1, <2>2, PlainFrame
  <2>4. Id[n] # i
    BY <1>2, <2>1, <2>3
  <2>5. Same(mem, mem', n)
    BY <1>4, <2>2, <2>4
  <2>6. Holds(mem', n) /\ (mem.table)'[Id[n]].by = stack[k].e
    BY <2>2, <2>3, <2>5, SameHolds
  <2> QED BY <1>2, <2>1, <2>3, <2>6
<1> QED BY <1>7, <1>8 DEF Once

LEMMA InstallSounds ==
  ASSUME TypeOK, Memory(mem'), Sounds, Once, NEW found \in BOOLEAN, Install(found)
  PROVE  Sounds' /\ Once'
<1> DEFINE t == TimerOf[main]
           i == Id[t]
<1>1. /\ t \in Methods /\ t \notin Autos /\ Memory(mem)
      /\ found => mem' = Hook(mem, t)
      /\ ~found => mem' = mem
      /\ Steps(stack, stack', "calling")
  BY InstallHooks
<1>2. /\ compiled' = compiled
      /\ spoiled' = IF found THEN spoiled \cup (({i} \cap Busy) \cup Lost({i})) ELSE spoiled
  BY DEF Install, Spoil, history
<1>3. /\ Len(stack') = Len(stack)
      /\ \A k \in 1..Len(stack) :
           stack'[k].e = stack[k].e /\ stack'[k].ref = stack[k].ref
  BY <1>1 DEF Steps
<1>4. Busy' = Busy
  BY <1>3, BusySame
<1>5. CASE ~found
  <2>1. mem' = mem /\ spoiled' = spoiled
    BY <1>1, <1>2, <1>5
  <2>2. Once'
    BY <1>3, <2>1, StillOnce
  <2> QED BY <1>2, <1>4, <2>1, <2>2 DEF Sounds, Plain
<1>6. CASE found
  <2>1. mem' = Hook(mem, t) /\ spoiled' = spoiled \cup (({i} \cap Busy) \cup Lost({i}))
    BY <1>1, <1>2, <1>6
  <2>2. ASSUME NEW n \in Methods, Id[n] # i
        PROVE  /\ Same(mem, mem', n)
               /\ n \in compiled <=> n \in compiled'
               /\ Id[n] \in Busy <=> Id[n] \in Busy'
    BY <1>1, <1>2, <1>4, <2>1, <2>2, HookElsewhere
  <2>3. ASSUME NEW n \in Methods, Id[n] = i, Id[n] \notin spoiled'
        PROVE  Sound(mem', n, compiled', Busy')
    <3>1. i \notin Busy /\ i \notin spoiled
      BY <2>1, <2>3
    <3>2. Sound(mem, n, compiled, Busy) /\ Sound(mem, t, compiled, Busy)
      BY <1>1, <2>3, <3>1 DEF Sounds, Plain
    <3>4. Attached(mem, t)
      BY <2>1, <2>3 DEF Lost, Attached
    <3>3. Sound(Hook(mem, t), n, compiled, Busy)
      BY <1>1, <2>3, <3>1, <3>2, <3>4, HookHome
    <3> QED BY <1>2, <1>4, <2>1, <3>3
  <2> HIDE DEF i, t
  <2>4. Sounds'
    BY <1>1, <2>1, <2>2, <2>3, OthersSound
  <2>5. ASSUME NEW k \in 1..Len(stack),
               Id[MethodOf[stack[k].e]] \notin spoiled'
        PROVE  Same(mem, mem', MethodOf[stack[k].e])
    <3>1. Id[MethodOf[stack[k].e]] \in Busy
      BY DEF Busy
    <3>2. MethodOf[stack[k].e] \in Methods
      BY FrameType DEF TypeOK, StackType
    <3> QED BY <2>1, <2>2, <2>5, <3>1, <3>2
  <2>6. Once'
    BY <1>3, <2>1, <2>5, StillOnce
  <2> QED BY <2>4, <2>6
<1> QED BY <1>5, <1>6

LEMMA UninstallSounds ==
  ASSUME TypeOK, Sounds, Uninstall, compiled' = compiled
  PROVE  Sounds' /\ Once'
<1>1. /\ Memory(mem) /\ mem' = RestoreAll(mem)
      /\ Len(stack') = Len(stack) /\ stack \in Seq(Frames)
      /\ \A k \in 1..Len(stack) : stack'[k].e = stack[k].e
      /\ spoiled' = spoiled \cup (Busy \cup Lost(DOMAIN mem.table))
  BY UninstallEmpties DEF Emptying, TypeOK, StackType
<1>2. ASSUME NEW n \in Methods, Id[n] \notin spoiled'
      PROVE  Sound(mem', n, compiled', Busy')
  <2>1. Id[n] \notin Busy /\ Sound(mem, n, compiled, Busy)
    BY <1>1, <1>2 DEF Sounds, Plain
  <2>2. Attached(mem, n)
    BY <1>1, <1>2 DEF Lost, Attached
  <2> QED BY <1>1, <2>1, <2>2, RestoreAllHome
<1>3. \A k \in 1..Len(stack) : Id[MethodOf[stack[k].e]] \in spoiled'
  BY <1>1 DEF Busy
<1> QED BY <1>1, <1>2, <1>3 DEF Sounds, Once, Plain

LEMMA NextSounds ==
  ASSUME TypeOK, TypeOK', Referred, Sounds, Once, ProxyHasHandler, [Next]_vars
  PROVE  Sounds' /\ Once' /\ ProxyHasHandler'
<1>1. Memory(mem')
  BY DEF TypeOK
<1>2. spoiled \subseteq spoiled' /\ died' = died => ProxyHasHandler'
  BY DEF ProxyHasHandler, Plain
<1>4. ASSUME UNCHANGED <<mem, compiled, spoiled>>, Len(stack') = Len(stack),
             \A k \in 1..Len(stack) :
               stack'[k].e = stack[k].e /\ stack'[k].ref = stack[k].ref
      PROVE  Sounds' /\ Once'
  <2>1. Busy' = Busy
    BY <1>4, BusySame
  <2>2. Once'
    BY <1>4, StillOnce
  <2> QED BY <1>4, <2>1, <2>2 DEF Sounds, Plain
<1>5. CASE Load \/ (\E n \in Names : LookUp(n)) \/ (\E o \in Objects : Reuse(o))
  BY <1>2, <1>4, <1>5 DEF Load, LookUp, Reuse, history
<1>6. CASE TasksDone \/ Take
  <2>1. \E at : Steps(stack, stack', at)
    BY <1>6, TasksSteps, TakeSteps
  <2>2. UNCHANGED <<mem, compiled, spoiled, died>>
    BY <1>6 DEF TasksDone, Take, history
  <2> QED BY <1>2, <1>4, <2>1, <2>2 DEF Steps
<1>7. CASE InstallElsewhere
  <2>1. died' = <<"wrong object", MethodOf[Top.e]>>
    BY <1>7 DEF InstallElsewhere
  <2>2. ProxyHasHandler'
    BY <2>1 DEF ProxyHasHandler
  <2> QED BY <1>4, <1>7, <2>2 DEF InstallElsewhere, history
<1>8. CASE Return
  <2>1. ProxyHasHandler'
    BY <1>8 DEF Return, ProxyHasHandler
  <2> QED BY <1>1, <1>8, <2>1, ReturnSounds
<1>9. CASE Unload
  <2>1. ProxyHasHandler'
    BY <1>9 DEF Unload, ProxyHasHandler
  <2> QED BY <1>9, <2>1, UninstallSounds DEF Unload
<1>10. ASSUME NEW pointer \in {"proc", "invoker"}, CallOriginal(pointer)
       PROVE  Sounds' /\ Once' /\ ProxyHasHandler'
  BY <1>1, <1>10, CallOriginalSounds
<1>11. ASSUME NEW e \in Envs, NEW via \in {"env", "invoker"}, Call(e, via)
       PROVE  Sounds' /\ Once' /\ ProxyHasHandler'
  BY <1>1, <1>11, CallSounds
<1>12. ASSUME NEW e \in Envs, NEW via \in {"env", "invoker"}, FirstCall(e, via)
       PROVE  Sounds' /\ Once' /\ ProxyHasHandler'
  BY <1>1, <1>12, FirstCallSounds
<1>13. ASSUME NEW found \in BOOLEAN, Install(found)
       PROVE  Sounds' /\ Once' /\ ProxyHasHandler'
  <2>1. died' = died /\ spoiled \subseteq spoiled'
    BY <1>13 DEF Install, Spoil, history
  <2> QED BY <1>1, <1>2, <1>13, <2>1, InstallSounds
<1>14. ASSUME NEW c, FreeChunk(c)
       PROVE  Sounds' /\ Once' /\ ProxyHasHandler'
  <2>1. compiled' = compiled
    BY <1>14 DEF FreeChunk
  <2>2. CASE Hooked(c)
    <3>1. Uninstall /\ died' \in {None, <<"freed table", None>>}
      BY <1>14, <2>2 DEF FreeChunk
    <3>2. died' = None => ProxyHasHandler'
      BY DEF ProxyHasHandler
    <3>3. ASSUME died' = <<"freed table", None>>
          PROVE  ProxyHasHandler'
      <4>1. died'[1] = "freed table"
        BY <3>3
      <4>2. died'[1] # "empty"
        BY <4>1
      <4> QED BY <4>2 DEF ProxyHasHandler
    <3> QED BY <2>1, <3>1, <3>2, <3>3, UninstallSounds
  <2>3. CASE ~Hooked(c)
    BY <1>2, <1>4, <1>14, <2>3 DEF FreeChunk, history
  <2> QED BY <2>2, <2>3
<1>15. CASE UNCHANGED vars
  BY <1>2, <1>4, <1>15 DEF vars, history
<1> QED
  BY <1>5, <1>6, <1>7, <1>8, <1>9, <1>10, <1>11, <1>12, <1>13, <1>14, <1>15
  DEF Next

-----------------------------------------------------------------------------
LEMMA FirstInv ==
  ASSUME Init
  PROVE  IInv
<1>1. TypeOK
  BY FirstType
<1>2. /\ mem.table = <<>> /\ DOMAIN mem.table = {} /\ Len(stack) = 0
      /\ mem.proc = [m \in Methods |-> "stub"]
      /\ mem.invoker = [m \in Methods |-> "stub"]
      /\ mem.env = [e \in Envs |-> "stub"] /\ compiled = {}
  BY DEF Init
<1>3. ASSUME NEW m \in Methods
      PROVE  Sound(mem, m, compiled, Busy)
  BY <1>2 DEF Sound, Holds, Clean, Unproxied, Own
<1>4. Sounds
  BY <1>3 DEF Sounds, Plain
<1>5. Referred /\ Once
  BY <1>2 DEF Referred, Once
<1>6. InUse /\ Installed
  BY <1>2 DEF Init, InUse, Installed
<1>7. ProxyHasHandler /\ FreedEnvsUntouched /\ CachesFollowPool
  BY DEF Init, ProxyHasHandler, FreedEnvsUntouched, CachesFollowPool
<1> QED BY <1>1, <1>4, <1>5, <1>6, <1>7 DEF IInv

LEMMA NextInv ==
  ASSUME IInv, [Next]_vars
  PROVE  IInv'
<1>1. /\ TypeOK /\ Referred /\ Sounds /\ Once /\ InUse /\ Installed
      /\ ProxyHasHandler /\ FreedEnvsUntouched /\ CachesFollowPool
  BY DEF IInv
<1>2. TypeOK'
  BY <1>1, NextType
<1>3. Referred'
  BY <1>1, NextReferred
<1>4. Sounds' /\ Once' /\ ProxyHasHandler'
  BY <1>1, <1>2, NextSounds
<1>5. InUse'
  BY <1>1, NextInUse
<1>6. Installed'
  BY <1>1, NextInstalled
<1>7. FreedEnvsUntouched' /\ CachesFollowPool'
  BY <1>1, NextUntouched, NextFollows
<1> QED BY <1>2, <1>3, <1>4, <1>5, <1>6, <1>7 DEF IInv

(* In every reachable state the pointers, the table and the calls in       *)
(* progress are of their types; the entry of a plain method keeps what the *)
(* player made its pointers, and they lead to the proxy exactly while it   *)
(* is not being called; nothing freed is being called, and no entry names  *)
(* an environment of a chunk that was given back (darkorbit.cpp:14-116,    *)
(* 121-129, 433-449).                                                      *)
THEOREM Inductive == Spec => []IInv
<1>1. Init => IInv
  BY FirstInv
<1>2. IInv /\ [Next]_vars => IInv'
  BY NextInv
<1> QED BY <1>1, <1>2, PTL DEF Spec

(* Of a plain method, what is kept to be put back is never the proxy, so   *)
(* that a handler's call of the original does not come back to the         *)
(* handler.  Nothing is said of the methods Plain leaves out: hooked,      *)
(* called or uninstalled again during a call of their own, compiled when   *)
(* hooked, mistaken for one another by their number, or not put back       *)
(* because the last caller's memory was reused (darkorbit.cpp:26-52,       *)
(* 66-74).                                                                 *)
THEOREM OriginalsAreCalled == Spec => []KeptAreOriginals
<1>1. IInv => KeptAreOriginals
  <2> SUFFICES ASSUME IInv
               PROVE  KeptAreOriginals
    OBVIOUS
  <2>1. TypeOK /\ Sounds /\ Once
    BY DEF IInv
  <2>2. ASSUME NEW i \in DOMAIN mem.table, Target(mem.table[i]) \in Plain
        PROVE  LET h == mem.table[i] IN "proxy" \notin {h.env, h.proc, h.invoker}
    <3> DEFINE m == Target(mem.table[i])
    <3>1. Id[m] = i
      BY <2>1 DEF TypeOK, Memory
    <3>2. Holds(mem, m)
      BY <3>1 DEF Holds
    <3>3. Entry(mem, m, compiled, Busy)
      BY <2>1, <2>2, <3>2 DEF Sounds, Sound
    <3> QED BY <3>1, <3>3 DEF Entry
  <2>3. ASSUME stack # <<>>, MethodOf[Top.e] \in Plain
        PROVE  "proxy" \notin {mem.proc[MethodOf[Top.e]], mem.invoker[MethodOf[Top.e]]}
    <3>1. Clean(mem, MethodOf[Top.e], compiled)
      BY <2>1, <2>3, OriginalReached DEF Plain
    <3> QED BY <3>1, OwnCode DEF Clean
  <2> QED BY <2>2, <2>3 DEF KeptAreOriginals
<1> QED BY <1>1, Inductive, PTL

(* A plain method that is hooked and not being called goes through the     *)
(* proxy, whatever the player compiles, calls and frees of the others; one *)
(* that is compiled when it is hooked is not plain (darkorbit.cpp:54-57,   *)
(* 103-104).                                                               *)
THEOREM StaysHooked == Spec => []HookedStaysHooked
<1>1. IInv => HookedStaysHooked
  <2> SUFFICES ASSUME IInv, NEW i \in DOMAIN mem.table,
                      Id[Target(mem.table[i])] \notin spoiled \cup Busy
               PROVE  LET m == Target(mem.table[i]) IN
                      mem.proc[m] = "proxy" /\ mem.invoker[m] = "proxy"
    BY DEF HookedStaysHooked
  <2> DEFINE m == Target(mem.table[i])
  <2>1. TypeOK /\ Sounds
    BY DEF IInv
  <2>2. Id[m] = i /\ mem.table[i] \in Pointers
    BY <2>1 DEF TypeOK, Memory
  <2>3. Holds(mem, m) /\ m \in Plain
    BY <2>2, TargetType DEF Holds, Plain
  <2>4. Entry(mem, m, compiled, Busy)
    BY <2>1, <2>3 DEF Sounds, Sound
  <2> QED BY <2>4 DEF Entry
<1> QED BY <1>1, Inductive, PTL

(* uninstall leaves a plain method the pointers the player made, and no    *)
(* environment of one led to the proxy, but one of several of a method     *)
(* (darkorbit.cpp:441-445, darkorbit.h:93-107).                            *)
THEOREM LeavesNothing == Spec => []NothingLeft
<1>1. IInv => NothingLeft
  <2> SUFFICES ASSUME IInv, mem.table = <<>>
               PROVE  /\ \A m \in Plain : Clean(mem, m, compiled)
                      /\ \A e \in Envs : MethodOf[e] \in Plain /\ Alone(e) =>
                           mem.env[e] # "proxy"
    BY DEF NothingLeft, Clean, Own
  <2>1. Sounds /\ DOMAIN mem.table = {}
    BY DEF IInv
  <2>2. ASSUME NEW m \in Plain
        PROVE  Clean(mem, m, compiled) /\ Unproxied(mem, m)
    BY <2>1 DEF Sounds, Sound, Holds
  <2> QED BY <2>2 DEF Unproxied
<1> QED BY <1>1, Inductive, PTL

(* A call of a plain method that has one environment never meets the proxy *)
(* without an entry (darkorbit.cpp:14-24).                                 *)
THEOREM HandlerBehindProxy == Spec => []ProxyHasHandler
<1>1. IInv => ProxyHasHandler
  BY DEF IInv
<1> QED BY <1>1, Inductive, PTL

(* No environment is written to after its chunk was given back; in a chunk *)
(* that stays, one that was freed may be (darkorbit.cpp:121-129, 441-445). *)
THEOREM NoEnvWrittenAfterFree == Spec => []FreedEnvsUntouched
<1>1. IInv => FreedEnvsUntouched
  BY DEF IInv
<1> QED BY <1>1, Inductive, PTL

(* The numbers of names that commands keep are those of the pool they are  *)
(* used with, until one installation replaces another (darkorbit.cpp:220,  *)
(* 268, 447-448).                                                          *)
THEOREM NamesOfThePool == Spec => []CachesFollowPool
<1>1. IInv => CachesFollowPool
  BY DEF IInv
<1> QED BY <1>1, Inductive, PTL
==============================================================================
