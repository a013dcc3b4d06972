--------------------------- MODULE ProcScanProofs ---------------------------
(***************************************************************************)
(* Proofs about ProcScan, for any number of processes and any programs:    *)
(* the search takes descendants of the browser only, and misses no flash   *)
(* process that stays.                                                     *)
(*                                                                         *)
(* Descendants are the least set with the children of a process and of     *)
(* their own; so what is said of all of them is shown for a set of that    *)
(* kind (UnderLeast), and no walk need be followed to its end.             *)
(***************************************************************************)
EXTENDS ProcScan, SequenceTheorems, TLAPS

-----------------------------------------------------------------------------
(* Descendants.                                                            *)

(* Parents are older than their children.                                  *)
Ordered(t) ==
  /\ DOMAIN t \subseteq Nat
  /\ \A q \in DOMAIN t : t[q].parent \in Nat /\ t[q].parent < q

(* The set S has the children of p, and of its members, among t.           *)
ClosedIn(t, p, S) == \A r \in DOMAIN t : t[r].parent \in {p} \cup S => r \in S

LEMMA UnderSubset ==
  ASSUME NEW t, NEW p
  PROVE  Under(t, p) \subseteq {q \in DOMAIN t : q > p}
BY DEF Under

(* The descendants of p are in every set that is closed in this way.       *)
LEMMA UnderLeast ==
  ASSUME NEW t, NEW p \in Nat, Ordered(t), NEW S, ClosedIn(t, p, S)
  PROVE  Under(t, p) \subseteq S
<1> DEFINE D == {q \in DOMAIN t : q > p}
           T == S \cap D
<1>1. T \in SUBSET D
  OBVIOUS
<1>2. ASSUME NEW r \in DOMAIN t, t[r].parent \in {p} \cup T
      PROVE  r \in T
  <2>1. r \in S
    BY <1>2 DEF ClosedIn
  <2>2. r > p
    BY <1>2 DEF Ordered
  <2> QED BY <2>1, <2>2
<1> QED BY <1>1, <1>2 DEF Under

(* A child of p, or of a descendant of p, is a descendant of p.            *)
LEMMA UnderClosed ==
  ASSUME NEW t, NEW p \in Nat, Ordered(t)
  PROVE  ClosedIn(t, p, Under(t, p))
<1> DEFINE D == {q \in DOMAIN t : q > p}
<1> SUFFICES ASSUME NEW r \in DOMAIN t, t[r].parent \in {p} \cup Under(t, p)
             PROVE  r \in Under(t, p)
  BY DEF ClosedIn
<1>1. r \in D
  BY UnderSubset DEF Ordered
<1>2. ASSUME NEW S \in SUBSET D, ClosedIn(t, p, S)
      PROVE  r \in S
  <2>1. Under(t, p) \subseteq S
    BY <1>2, UnderLeast
  <2> QED BY <1>2, <2>1 DEF ClosedIn
<1> QED BY <1>1, <1>2 DEF Under, ClosedIn

(* A descendant of p is a child of p or of a descendant.                   *)
LEMMA UnderStep ==
  ASSUME NEW t, NEW p \in Nat, Ordered(t), NEW q \in Under(t, p)
  PROVE  t[q].parent \in {p} \cup Under(t, p)
<1> DEFINE S == {r \in Under(t, p) : t[r].parent \in {p} \cup Under(t, p)}
<1>1. ClosedIn(t, p, S)
  BY UnderClosed DEF ClosedIn
<1>2. Under(t, p) \subseteq S
  <2> HIDE DEF S
  <2> QED BY <1>1, UnderLeast
<1> QED BY <1>2

(* Descendants of a descendant are descendants.                            *)
LEMMA UnderTransitive ==
  ASSUME NEW t, NEW p \in Nat, Ordered(t), NEW q \in Under(t, p)
  PROVE  Under(t, q) \subseteq Under(t, p)
<1>1. q \in Nat
  BY UnderSubset DEF Ordered
<1>2. ClosedIn(t, q, Under(t, p))
  BY UnderClosed DEF ClosedIn
<1> QED BY <1>1, <1>2, UnderLeast

(* Processes that start, and processes without children that go, leave the *)
(* others the descendants they were.                                       *)
LEMMA UnderGrows ==
  ASSUME NEW t, NEW u, NEW p \in Nat, Ordered(t), Ordered(u),
         DOMAIN t \subseteq DOMAIN u,
         \A r \in DOMAIN t : u[r].parent = t[r].parent
  PROVE  Under(t, p) \subseteq Under(u, p)
<1>1. ClosedIn(t, p, Under(u, p))
  BY UnderClosed DEF ClosedIn
<1> QED BY <1>1, UnderLeast

LEMMA UnderWithout ==
  ASSUME NEW t, NEW u, NEW p \in Nat, NEW x, Ordered(t), Ordered(u),
         DOMAIN u = DOMAIN t \ {x},
         \A r \in DOMAIN u : u[r].parent = t[r].parent,
         \A r \in DOMAIN t : t[r].parent # x
  PROVE  Under(t, p) \subseteq Under(u, p) \cup {x}
<1> DEFINE S == Under(u, p) \cup {x}
<1>1. ClosedIn(t, p, S)
  <2> SUFFICES ASSUME NEW r \in DOMAIN t, t[r].parent \in {p} \cup S, r # x
               PROVE  r \in Under(u, p)
    BY DEF ClosedIn
  <2>1. u[r].parent \in {p} \cup Under(u, p)
    OBVIOUS
  <2> QED BY <2>1, UnderClosed DEF ClosedIn
<1>2. Under(t, p) \subseteq S
  <2> HIDE DEF S
  <2> QED BY <1>1, UnderLeast
<1> QED BY <1>2

-----------------------------------------------------------------------------
(* What the descendants of the browser are when a process has ended, its   *)
(* children handed to init.                                                *)

(* The processes u are processes of t, each the child of its parent there  *)
(* or of init.                                                             *)
Cut(t, u) ==
  /\ DOMAIN u \subseteq DOMAIN t
  /\ \A r \in DOMAIN u : u[r].parent \in {t[r].parent, Root}

(* Who is still below p and was below x, itself below p, is below x still, *)
(* and so is x below p: the way up leads past x as it did.                 *)
LEMMA CutBetween ==
  ASSUME NEW t, NEW u, NEW p \in Nat, NEW x \in Nat, NEW q, Cut(t, u),
         Ordered(t), Ordered(u), p > Root, x > p,
         q \in Under(u, p), q \in {x} \cup Under(t, x)
  PROVE  x \in Under(u, p) /\ q \in {x} \cup Under(u, x)
<1> DEFINE S == {r \in Under(u, p) : r \in {x} \cup Under(t, x) =>
                    x \in Under(u, p) /\ r \in {x} \cup Under(u, x)}
<1>1. \A r \in Under(t, x) : r > x
  BY UnderSubset
<1>2. \A r \in Under(u, p) : r \in Nat /\ r > p
  BY UnderSubset DEF Ordered
<1>3. ClosedIn(u, p, S)
  <2> SUFFICES ASSUME NEW r \in DOMAIN u, u[r].parent \in {p} \cup S
               PROVE  r \in S
    BY DEF ClosedIn
  <2>1. r \in Under(u, p)
    BY UnderClosed DEF ClosedIn
  <2> SUFFICES ASSUME r \in Under(t, x), r # x
               PROVE  x \in Under(u, p) /\ r \in Under(u, x)
    BY <2>1
  <2>2. t[r].parent = u[r].parent
    BY <1>2 DEF Cut, Root
  <2>3. t[r].parent \in {x} \cup Under(t, x)
    BY UnderStep
  <2>4. u[r].parent # p
    BY <1>1, <2>2, <2>3
  <2>5. u[r].parent \in S
    BY <2>4
  <2>6. x \in Under(u, p) /\ u[r].parent \in {x} \cup Under(u, x)
    BY <2>2, <2>3, <2>5
  <2> QED BY <2>6, UnderClosed DEF ClosedIn
<1>4. Under(u, p) \subseteq S
  <2> HIDE DEF S
  <2> QED BY <1>3, UnderLeast
<1> QED BY <1>4

-----------------------------------------------------------------------------
(* Types and the tree.                                                     *)

Kernel == \/ \E p \in DOMAIN procs, program \in Programs : Fork(p, program)
          \/ \E p \in DOMAIN procs : End(p) \/ Reap(p)

(* What makes a process table one: the types and the tree.                 *)
Table == ProcsType /\ Tree

LEMMA TableFacts ==
  ASSUME Table
  PROVE  /\ Ordered(procs)
         /\ DOMAIN procs \subseteq Nat /\ last \in Nat /\ last < last + 1
         /\ \A q \in DOMAIN procs :
              procs[q].parent \in Nat /\ procs[q].parent < q
         /\ last + 1 \notin DOMAIN procs
BY ScanAssumption DEF Table, ProcsType, Tree, Process, Root, Browser, Ordered

LEMMA TableOrderedNext ==
  ASSUME Table'
  PROVE  Ordered(procs')
BY ScanAssumption DEF Table, ProcsType, Tree, Process, Root, Browser, Ordered

LEMMA ForkTable ==
  ASSUME Table, NEW p \in DOMAIN procs, NEW program \in Programs,
         Fork(p, program)
  PROVE  Table'
<1>1. last' \in Browser..MaxPid /\ DOMAIN procs' = DOMAIN procs \cup {last + 1}
  BY ScanAssumption DEF Fork, Table, ProcsType, Browser
<1>2. DOMAIN procs' \subseteq Root..last'
  BY <1>1, ScanAssumption DEF Fork, Table, ProcsType, Browser, Root
<1>3. New(p, program) \in Process
  BY ScanAssumption DEF New, Process, Table, ProcsType, Root, Browser
<1>4. procs' \in [DOMAIN procs' -> Process]
  BY <1>1, <1>3 DEF Fork, Table, ProcsType
<1>5. \A q \in DOMAIN procs : procs'[q] = procs[q]
  BY <1>1, TableFacts DEF Fork
<1>6. procs'[last + 1] = New(p, program)
  BY <1>1 DEF Fork
<1>7. Tree'
  <2>1. Root \in DOMAIN procs' /\ procs'[Root].parent = 0 /\ procs'[Root].alive
    BY <1>1, <1>5 DEF Table, Tree
  <2>2. ASSUME NEW q \in DOMAIN procs' \ {Root}
        PROVE  /\ procs'[q].parent \in DOMAIN procs' /\ procs'[q].parent < q
               /\ procs'[procs'[q].parent].alive
    <3>1. CASE q = last + 1
      <4>1. procs'[q].parent = p /\ procs[p].alive
        BY <3>1, <1>6 DEF New, Fork
      <4>2. p < last + 1
        BY ScanAssumption DEF Table, ProcsType, Root, Browser
      <4> QED BY <3>1, <4>1, <4>2, <1>1, <1>5
    <3>2. CASE q \in DOMAIN procs
      BY <3>2, <1>1, <1>5 DEF Table, Tree
    <3> QED BY <3>1, <3>2, <1>1
  <2> QED BY <2>1, <2>2 DEF Tree
<1>8. \A q \in DOMAIN procs' \cap {Root, Client} : procs'[q].runs = Plain
  <2>1. last + 1 \notin {Root, Client}
    BY ScanAssumption DEF Table, ProcsType, Root, Client, Browser
  <2> QED BY <2>1, <1>1, <1>5 DEF Table, ProcsType
<1> QED BY <1>1, <1>2, <1>4, <1>7, <1>8 DEF Table, ProcsType

LEMMA EndLinks ==
  ASSUME Table, NEW p \in DOMAIN procs, End(p)
  PROVE  /\ DOMAIN procs' \subseteq DOMAIN procs
         /\ \A q \in DOMAIN procs' :
              procs'[q] =
                IF procs[q].parent = p THEN [procs[q] EXCEPT !.parent = Root]
                ELSE IF q = p THEN [procs[q] EXCEPT !.alive = FALSE]
                ELSE procs[q]
         /\ \A q \in DOMAIN procs :
              q # p /\ procs[q].alive => q \in DOMAIN procs'
<1> DEFINE orphans == {q \in DOMAIN procs : procs[q].parent = p}
           waited == {q \in orphans : ~procs[q].alive}
                       \cup IF procs[p].parent = Root THEN {p} ELSE {}
<1>1. procs' = [q \in DOMAIN procs \ waited |->
                  IF q \in orphans THEN [procs[q] EXCEPT !.parent = Root]
                  ELSE IF q = p THEN [procs[q] EXCEPT !.alive = FALSE]
                  ELSE procs[q]]
  BY DEF End
<1>2. DOMAIN procs' = DOMAIN procs \ waited
  BY <1>1
<1>3. ASSUME NEW q \in DOMAIN procs, q # p, procs[q].alive
      PROVE  q \notin waited
  BY <1>3
<1> QED BY <1>1, <1>2, <1>3

(* What a process is when another, or it itself, has ended.                *)
LEMMA EndProcess ==
  ASSUME Table, NEW p \in DOMAIN procs, End(p), NEW q \in DOMAIN procs'
  PROVE  /\ procs'[q].parent =
              IF procs[q].parent = p THEN Root ELSE procs[q].parent
         /\ procs'[q].alive <=> procs[q].alive /\ q # p
         /\ procs'[q].runs = procs[q].runs
         /\ procs'[q] \in Process
<1>1. q \in DOMAIN procs /\ procs[q] \in Process
  BY EndLinks DEF Table, ProcsType
<1>2. procs[q].parent = p => q # p
  BY <1>1, TableFacts
<1>3. [procs[q] EXCEPT !.parent = Root] \in Process
  BY <1>1, ScanAssumption DEF Process, Root, Browser
<1>4. [procs[q] EXCEPT !.alive = FALSE] \in Process
  BY <1>1 DEF Process
<1>5. CASE procs[q].parent = p
  BY <1>1, <1>2, <1>3, <1>5, EndLinks DEF Process
<1>6. CASE procs[q].parent # p /\ q = p
  <2>1. procs'[q] = [procs[q] EXCEPT !.alive = FALSE]
    BY <1>6, EndLinks
  <2>2. procs[q] = [parent |-> procs[q].parent, alive |-> procs[q].alive,
                    runs |-> procs[q].runs]
    BY <1>1 DEF Process
  <2>3. procs'[q] = [parent |-> procs[q].parent, alive |-> FALSE,
                     runs |-> procs[q].runs]
    BY <2>1, <2>2
  <2>4. ~procs'[q].alive /\ procs'[q].parent = procs[q].parent
        /\ procs'[q].runs = procs[q].runs
    BY <2>3
  <2> QED BY <1>4, <1>6, <2>1, <2>4
<1>7. CASE procs[q].parent # p /\ q # p
  BY <1>1, <1>7, EndLinks DEF Process
<1> QED BY <1>5, <1>6, <1>7

LEMMA EndTable ==
  ASSUME Table, NEW p \in DOMAIN procs, End(p)
  PROVE  Table'
<1>1. DOMAIN procs' \subseteq Root..last' /\ last' \in Browser..MaxPid
  BY EndLinks DEF End, Table, ProcsType
<1>2. procs' \in [DOMAIN procs' -> Process]
  <2>1. procs' = [q \in DOMAIN procs' |-> procs'[q]]
    BY DEF End
  <2> QED BY <2>1, EndProcess
<1>3. Root \in DOMAIN procs' /\ procs'[Root].parent = 0 /\ procs'[Root].alive
  <2>1. Root # p /\ procs[Root].parent # p
    BY TableFacts DEF End, Table, Tree, Root
  <2> QED BY <2>1, EndLinks, EndProcess DEF Table, Tree
<1>4. ASSUME NEW q \in DOMAIN procs' \ {Root}
      PROVE  /\ procs'[q].parent \in DOMAIN procs' /\ procs'[q].parent < q
             /\ procs'[procs'[q].parent].alive
  <2>1. q \in DOMAIN procs \ {Root} /\ q \in Nat /\ Root < q
    BY EndLinks DEF Table, ProcsType, Root
  <2>2. CASE procs[q].parent = p
    BY <2>1, <2>2, <1>3, EndLinks, EndProcess
  <2>3. CASE procs[q].parent # p
    <3> DEFINE r == procs[q].parent
    <3>1. procs'[q].parent = r /\ r \in DOMAIN procs /\ r < q /\ procs[r].alive
      BY <2>1, <2>3, EndLinks, EndProcess DEF Table, Tree
    <3>2. r \in DOMAIN procs'
      BY <2>3, <3>1, EndLinks, EndProcess
    <3>3. procs'[r].alive
      BY <2>3, <3>1, <3>2, EndLinks, EndProcess
    <3> QED BY <3>1, <3>2, <3>3
  <2> QED BY <2>2, <2>3
<1>5. \A q \in DOMAIN procs' \cap {Root, Client} : procs'[q].runs = Plain
  BY EndLinks, EndProcess DEF Table, ProcsType
<1> QED BY <1>1, <1>2, <1>3, <1>4, <1>5 DEF Table, ProcsType, Tree

LEMMA ReapTable ==
  ASSUME Table, NEW p \in DOMAIN procs, Reap(p)
  PROVE  Table'
<1>1. DOMAIN procs' = DOMAIN procs \ {p} /\ UNCHANGED last
  BY DEF Reap
<1>2. \A q \in DOMAIN procs' : procs'[q] = procs[q]
  BY DEF Reap
<1>3. ProcsType'
  <2>1. procs' \in [DOMAIN procs' -> Process]
    BY DEF Reap, Table, ProcsType
  <2> QED BY <1>1, <1>2, <2>1 DEF Table, ProcsType
<1>4. \A q \in DOMAIN procs \ {Root} : procs[q].parent # p
  BY DEF Reap, Table, Tree
<1>5. p # Root
  BY DEF Reap, Table, Tree
<1> QED BY <1>1, <1>2, <1>3, <1>4, <1>5 DEF Table, Tree

LEMMA KernelTable ==
  ASSUME Table, KernelStep
  PROVE  /\ Table' /\ UNCHANGED <<clientVars, guessed, below>>
         /\ last' \in {last, last + 1}
BY ForkTable, EndTable, ReapTable 
   DEF KernelStep, Fork, End, Reap, walkVars

LEMMA ClientTable ==
  ASSUME Table, Begin \/ ClientStep
  PROVE  Table' /\ UNCHANGED kernelVars
<1>1. UNCHANGED kernelVars
  BY DEF Begin, ClientStep, List, ListEnds, NextCandidate, NoneLeft, OpenStat,
         ReadStat, Maps
<1> QED BY <1>1 DEF Table, ProcsType, Tree, kernelVars

LEMMA DescendantsType ==
  ASSUME Table
  PROVE  /\ Descendants(procs) \subseteq Browser+1..last
         /\ Root \notin Descendants(procs)
<1>1. \A q \in Under(procs, Browser) : q > Browser
  BY TableFacts, UnderSubset DEF Browser
<1>2. Under(procs, Browser) \subseteq Root..last
  BY UnderSubset DEF Table, ProcsType
<1> QED BY <1>1, <1>2, TableFacts DEF Descendants, Browser, Root

LEMMA KernelSearch ==
  ASSUME Table, SearchType, KernelStep
  PROVE  SearchType'
<1>1. UNCHANGED <<pc, at, list, pid, guessed, below>> /\ last' \in Nat /\ last <= last'
  BY KernelTable, TableFacts DEF clientVars
<1>2. list' \in Seq(Browser..last')
  <2>1. Browser..last \subseteq Browser..last'
    BY <1>1, TableFacts DEF Browser
  <2>2. list \in Seq(Browser..last)
    BY DEF SearchType
  <2> QED BY <1>1, <2>1, <2>2, SeqMonotonic
<1>3. at' \in 0..last' /\ pid' \in 0..MaxPid /\ below' \subseteq Browser+1..last'
  BY <1>1, TableFacts DEF SearchType, Browser
<1> QED BY <1>1, <1>2, <1>3 DEF SearchType

LEMMA ClientSearch ==
  ASSUME Table, SearchType, Begin \/ ClientStep
  PROVE  SearchType'
<1> DEFINE P == Browser..last
<1>1. last' = last
  BY ClientTable DEF kernelVars
<1>2. /\ 0 \in 0..last /\ 0..last \subseteq 0..MaxPid
      /\ \A p \in DOMAIN procs : p \in 0..last /\ ParentRead(p) \in 0..MaxPid
  <2>1. 0..last \subseteq 0..MaxPid
    BY ScanAssumption DEF Table, ProcsType, Browser
  <2>2. \A p \in DOMAIN procs : ParentRead(p) \in 0..MaxPid
    BY ScanAssumption
       DEF Table, ProcsType, Process, Plain, ParentRead
  <2> QED BY <2>1, <2>2, TableFacts DEF Table, ProcsType, Root, Browser
<1> USE DEF walkVars
<1>3. CASE Begin
  BY <1>1, <1>2, <1>3 DEF Begin, SearchType
<1>4. CASE ListEnds
  BY <1>1, <1>4 DEF ListEnds, SearchType
<1>5. CASE NextCandidate
  <2>1. Head(list) \in P
    BY <1>5, HeadTailProperties DEF NextCandidate, SearchType
  <2>2. pid' \in 0..MaxPid
    BY <1>2, <1>5, <2>1, TableFacts DEF NextCandidate, Browser
  <2> QED BY <1>1, <1>5, <2>2, DescendantsType DEF NextCandidate, SearchType
<1>6. CASE NoneLeft
  BY <1>1, <1>6 DEF NoneLeft, SearchType
<1>7. CASE OpenStat
  BY <1>1, <1>7 DEF OpenStat, SearchType
<1>10. CASE ReadStat
  <2>1. PICK parent \in 0..MaxPid : Follow(parent)
    BY <1>2, <1>10 DEF ReadStat
  <2>2. list' \in Seq(P) /\ pid' \in 0..MaxPid
    BY <1>10, <2>1, HeadTailProperties DEF ReadStat, Follow, SearchType
  <2>3. /\ pc' \in {"maps", "next", "walk"}
        /\ pc' \in {"walk", "maps"} => UNCHANGED list
    BY <2>1 DEF Follow
  <2>4. guessed' \in BOOLEAN
    BY <1>10 DEF ReadStat, SearchType
  <2> QED BY <1>1, <1>10, <2>2, <2>3, <2>4 DEF ReadStat, SearchType
<1>8. CASE Maps
  <2>1. list' \in Seq(P)
    BY <1>8, HeadTailProperties DEF Maps, SearchType
  <2> QED BY <1>1, <1>8, <2>1 DEF Maps, SearchType
<1>9. ASSUME NEW p \in DOMAIN procs, List(p)
      PROVE  SearchType'
  <2>1. list' \in Seq(P)
    <3>1. CASE Tagged(p)
      <4>1. p \in P
        <5>1. procs[p].runs.tagged /\ ~Plain.tagged
          BY <3>1 DEF Tagged, Plain
        <5>2. p # Root /\ p # Client
          BY <5>1 DEF Table, ProcsType
        <5> QED BY <5>2, TableFacts DEF Table, ProcsType, Root, Client, Browser
      <4> QED BY <3>1, <4>1, <1>9 DEF List, SearchType
    <3>2. CASE ~Tagged(p)
      BY <3>2, <1>9 DEF List, SearchType
    <3> QED BY <3>1, <3>2
  <2> QED BY <1>1, <1>2, <1>9, <2>1 DEF List, SearchType
<1> QED BY <1>3, <1>4, <1>5, <1>6, <1>7, <1>8, <1>9, <1>10 DEF ClientStep

-----------------------------------------------------------------------------
(* A yes is of a descendant.                                               *)

LEMMA KernelWalkedUp ==
  ASSUME Table, SearchType, WalkedUp, KernelStep
  PROVE  WalkedUp'
<1> SUFFICES ASSUME Walking, ~guessed
             PROVE  \A q \in DOMAIN procs' :
                      /\ q <= pid
                      /\ procs'[q].parent \in {Browser} \cup below
                      => q \in below
  <2>1. /\ UNCHANGED <<pc, pid, list, guessed, below>>
        /\ last \in Nat /\ last' \in {last, last + 1}
    BY KernelTable, TableFacts DEF clientVars
  <2>2. pid <= last => pid <= last'
    BY <2>1 DEF SearchType
  <2> QED BY <2>1, <2>2 DEF WalkedUp, Walking
<1>1. Root \notin {Browser} \cup below
  BY TableFacts DEF SearchType, Root, Browser
<1>2. ASSUME NEW p \in DOMAIN procs, NEW program \in Programs, Fork(p, program),
             NEW q \in DOMAIN procs', q <= pid,
             procs'[q].parent \in {Browser} \cup below
      PROVE  q \in below
  <2>1. q # last + 1
    BY <1>2, TableFacts DEF SearchType, WalkedUp
  <2>2. q \in DOMAIN procs /\ procs'[q] = procs[q]
    BY <1>2, <2>1 DEF Fork
  <2> QED BY <1>2, <2>2 DEF WalkedUp
<1>3. ASSUME NEW p \in DOMAIN procs, End(p),
             NEW q \in DOMAIN procs', q <= pid,
             procs'[q].parent \in {Browser} \cup below
      PROVE  q \in below
  <2>1. q \in DOMAIN procs /\ procs'[q].parent = procs[q].parent
    BY <1>1, <1>3, EndLinks, EndProcess
  <2> QED BY <1>3, <2>1 DEF WalkedUp
<1>4. ASSUME NEW p \in DOMAIN procs, Reap(p),
             NEW q \in DOMAIN procs', q <= pid,
             procs'[q].parent \in {Browser} \cup below
      PROVE  q \in below
  BY <1>4 DEF Reap, WalkedUp
<1> QED BY <1>2, <1>3, <1>4 DEF KernelStep

(* A round of the walk in which the parent is read.                        *)
LEMMA WalkParent ==
  ASSUME Table, SearchType, ReadStat, ~guessed'
  PROVE  /\ pid \in DOMAIN procs /\ pid \in Nat
         /\ procs[pid].parent \in Nat /\ procs[pid].parent < pid
         /\ ~guessed /\ Follow(procs[pid].parent)
<1>1. /\ pid \in DOMAIN procs /\ ~guessed /\ ~procs[pid].runs.spaced
      /\ Follow(ParentRead(pid))
  BY DEF ReadStat
<1>2. ParentRead(pid) = procs[pid].parent
  BY <1>1 DEF ParentRead
<1> QED BY <1>1, <1>2, TableFacts

LEMMA ClientWalkedUp ==
  ASSUME Table, SearchType, WalkedUp, YesWasDescendant, Begin \/ ClientStep
  PROVE  WalkedUp' /\ YesWasDescendant'
<1> USE DEF Walking, walkVars
<1>1. UNCHANGED kernelVars
  BY ClientTable
<1>2. CASE Begin
  BY <1>2 DEF Begin, WalkedUp, YesWasDescendant
<1>3. CASE ListEnds
  BY <1>3 DEF ListEnds, WalkedUp, YesWasDescendant
<1>4. CASE NextCandidate
  <2>1. \A q \in DOMAIN procs :
          procs[q].parent \in {Browser} \cup Descendants(procs)
            => q \in Descendants(procs)
    BY TableFacts, UnderClosed DEF ClosedIn, Descendants, Browser
  <2>2. Head(list) <= last
    BY <1>4, HeadTailProperties, TableFacts DEF NextCandidate, SearchType, Browser
  <2> QED BY <1>1, <1>4, <2>1, <2>2
          DEF NextCandidate, WalkedUp, YesWasDescendant, kernelVars
<1>5. CASE NoneLeft
  BY <1>5 DEF NoneLeft, WalkedUp, YesWasDescendant
<1>6. CASE OpenStat
  BY <1>1, <1>6 DEF OpenStat, WalkedUp, YesWasDescendant, kernelVars
<1>9. CASE ReadStat
  <2> SUFFICES ASSUME ~guessed'
               PROVE  WalkedUp' /\ YesWasDescendant'
    BY DEF WalkedUp, YesWasDescendant
  <2> DEFINE parent == procs[pid].parent
  <2>1. /\ pid \in DOMAIN procs /\ pid \in Nat /\ parent \in Nat /\ parent < pid
        /\ ~guessed /\ Follow(parent)
    BY <1>9, WalkParent
  <2>2. /\ pc = "read" /\ UNCHANGED <<procs, last, below>>
        /\ \A q \in DOMAIN procs :
             q <= pid /\ procs[q].parent \in {Browser} \cup below => q \in below
        /\ pid <= last
        /\ pid \in below => Head(list) \in below
    BY <1>9, <2>1 DEF ReadStat, WalkedUp, kernelVars
  <2>3. CASE parent = Browser
    <3>1. Head(list) \in below
      BY <2>1, <2>2, <2>3
    <3> QED BY <2>1, <2>2, <2>3, <3>1 DEF Follow, WalkedUp, YesWasDescendant
  <2>4. CASE parent # Browser /\ parent = Root
    BY <2>1, <2>4 DEF Follow, WalkedUp, YesWasDescendant
  <2>5. CASE parent \notin {Browser, Root}
    <3>1. pc' = "walk" /\ pid' = parent /\ UNCHANGED list
      BY <2>1, <2>5 DEF Follow
    <3>2. parent \in below => Head(list) \in below
      BY <2>1, <2>2
    <3>3. \A q \in DOMAIN procs : q <= parent => q <= pid
      BY <2>1, TableFacts
    <3>4. parent <= last
      BY <2>1, <2>2, TableFacts
    <3> QED BY <2>2, <3>1, <3>2, <3>3, <3>4 DEF WalkedUp, YesWasDescendant
  <2> QED BY <2>3, <2>4, <2>5
<1>7. CASE Maps
  BY <1>7 DEF Maps, WalkedUp, YesWasDescendant
<1>8. ASSUME NEW p \in DOMAIN procs, List(p)
      PROVE  WalkedUp' /\ YesWasDescendant'
  BY <1>8 DEF List, WalkedUp, YesWasDescendant
<1> QED BY <1>2, <1>3, <1>4, <1>5, <1>6, <1>7, <1>8, <1>9 DEF ClientStep

-----------------------------------------------------------------------------
(* A flash process that stays is not missed.                               *)

Listed(q) == \E k \in 1..Len(list) : list[k] = q
Between == /\ pid \in Descendants(procs)
           /\ Head(list) \in {pid} \cup Under(procs, pid)

LEMMA TailHasRest ==
  ASSUME NEW S, NEW s \in Seq(S), s # <<>>, NEW q, q # Head(s),
         NEW k \in 1..Len(s), s[k] = q
  PROVE  \E j \in 1..Len(Tail(s)) : Tail(s)[j] = q
<1>1. /\ Len(Tail(s)) = Len(s) - 1
      /\ \A j \in 1..Len(Tail(s)) : Tail(s)[j] = s[j+1]
  BY HeadTailProperties
<1>2. k # 1
  OBVIOUS
<1>3. k - 1 \in 1..Len(Tail(s)) /\ (k - 1) + 1 = k
  BY <1>1, <1>2
<1> QED BY <1>1, <1>3

LEMMA ForkAhead ==
  ASSUME Table, SearchType, StillAhead,
         NEW p \in DOMAIN procs, NEW program \in Programs, Fork(p, program)
  PROVE  StillAhead'
<1>1. /\ DOMAIN procs \subseteq DOMAIN procs'
      /\ \A q \in DOMAIN procs : procs'[q] = procs[q]
  BY TableFacts DEF Fork
<1>2. \A x \in Nat : Under(procs, x) \subseteq Under(procs', x)
  <2>1. Ordered(procs) /\ Ordered(procs')
    BY ForkTable, TableFacts, TableOrderedNext
  <2> QED BY <1>1, <2>1, UnderGrows
<1>3. steady' \subseteq steady \cap PlainFlash'
  BY DEF Fork, Stay
<1>4. Between => Between'
  <2>1. pid \in Nat
    BY DEF SearchType
  <2> QED BY <1>2, <2>1 DEF Between, Descendants, Fork, clientVars, Browser
<1> QED BY <1>3, <1>4 DEF StillAhead, Between, Fork, clientVars, Walking

LEMMA ReapAhead ==
  ASSUME Table, SearchType, StillAhead, NEW p \in DOMAIN procs, Reap(p)
  PROVE  StillAhead'
<1>1. /\ DOMAIN procs' = DOMAIN procs \ {p}
      /\ \A q \in DOMAIN procs' : procs'[q] = procs[q]
  BY DEF Reap
<1>2. \A q \in DOMAIN procs : procs[q].parent # p
  <2>1. p # Root /\ p # 0
    BY TableFacts DEF Reap, Table, Tree, ProcsType, Root
  <2> QED BY <2>1 DEF Reap, Table, Tree
<1>3. \A x \in Nat : Under(procs, x) \subseteq Under(procs', x) \cup {p}
  <2>1. Ordered(procs) /\ Ordered(procs')
    BY ReapTable, TableFacts, TableOrderedNext
  <2> QED BY <1>1, <1>2, <2>1, UnderWithout
<1>4. p \notin Flash
  BY DEF Flash, Tagged, Reap
<1>5. steady' \subseteq steady \cap PlainFlash'
  BY DEF Reap, Stay
<1>6. ASSUME Between, Head(list) \in steady
      PROVE  Between'
  <2>1. Head(list) # p
    BY <1>4, <1>6 DEF StillAhead, PlainFlash
  <2>2. pid # p
    <3>1. ClosedIn(procs, p, {})
      BY <1>2 DEF ClosedIn
    <3>2. Under(procs, p) \subseteq {}
      BY <3>1, UnderLeast, TableFacts
    <3> QED BY <1>6, <2>1, <3>2 DEF Between
  <2>3. pid \in Nat
    BY DEF SearchType
  <2> QED BY <1>3, <1>6, <2>1, <2>2, <2>3
          DEF Between, Descendants, Reap, clientVars, Browser
<1> QED BY <1>5, <1>6 DEF StillAhead, Between, Reap, clientVars, Walking

LEMMA EndAhead ==
  ASSUME Table, SearchType, StillAhead, NEW p \in DOMAIN procs, End(p)
  PROVE  StillAhead'
<1>1. Cut(procs, procs')
  BY EndLinks, EndProcess DEF Cut
<1>2. /\ steady' \subseteq PlainFlash' /\ steady' \subseteq steady
      /\ UNCHANGED clientVars
  BY DEF End, Stay
<1>3. ASSUME Between, Head(list) \in steady'
      PROVE  Between'
  <2>1. /\ pid \in Under(procs, Browser)
        /\ Head(list) \in {pid} \cup Under(procs, pid)
    BY <1>3 DEF Between, Descendants
  <2>2. Head(list) \in Under(procs', Browser)
    BY <1>2, <1>3 DEF PlainFlash, Flash, Descendants
  <2>3. pid \in Nat /\ pid > Browser
    BY <2>1, DescendantsType, TableFacts DEF Descendants, Browser
  <2>4. Browser \in Nat /\ Browser > Root
    BY DEF Browser, Root
  <2>5. Ordered(procs) /\ Ordered(procs')
    BY EndTable, TableFacts, TableOrderedNext
  <2>6. /\ pid \in Under(procs', Browser)
        /\ Head(list) \in {pid} \cup Under(procs', pid)
    BY <1>1, <2>1, <2>2, <2>3, <2>4, <2>5, CutBetween
  <2> QED BY <1>2, <2>6 DEF Between, Descendants, clientVars
<1> QED BY <1>2, <1>3 DEF StillAhead, Between, clientVars, Walking

LEMMA ClientAhead ==
  ASSUME Table, SearchType, StillAhead, Begin \/ ClientStep
  PROVE  StillAhead'
<1> USE DEF Walking, walkVars
<1>1. /\ PlainFlash' = PlainFlash /\ UNCHANGED procs
      /\ Descendants(procs)' = Descendants(procs)
  BY ClientTable DEF kernelVars, PlainFlash, Flash, Tagged, Mapped
<1>0. PlainFlash \subseteq Flash /\ steady \subseteq Flash
  BY DEF PlainFlash, StillAhead
<1>2. CASE Begin
  <2>1. \A q \in Flash : q > 0
    BY DescendantsType, TableFacts DEF Flash, Browser
  <2> QED BY <1>0, <1>1, <1>2, <2>1 DEF Begin, StillAhead
<1>3. CASE ListEnds
  <2>1. \A q \in steady : ~(q > at)
    BY <1>0, <1>3, DescendantsType, TableFacts
       DEF ListEnds, StillAhead, Flash, SearchType, Browser, Descendants, Under
  <2> QED BY <1>1, <1>3, <2>1 DEF ListEnds, StillAhead
<1>4. CASE NextCandidate
  <2>1. Head(list) \in steady => Head(list) \in Descendants(procs)
    BY <1>0 DEF Flash
  <2> QED BY <1>1, <1>4, <2>1 DEF NextCandidate, StillAhead
<1>5. CASE NoneLeft
  BY <1>1, <1>5 DEF NoneLeft, StillAhead
<1>6. CASE OpenStat
  BY <1>1, <1>6 DEF OpenStat, StillAhead
<1>9. CASE ReadStat
  <2> DEFINE parent == procs[pid].parent
  <2>1. /\ pc = "read" /\ UNCHANGED steady
        /\ list \in Seq(Browser..last) /\ list # <<>>
    BY <1>9 DEF ReadStat, SearchType
  <2>2. CASE Head(list) \in steady
    <3>1. /\ pid \in Under(procs, Browser)
          /\ Head(list) \in {pid} \cup Under(procs, pid)
      BY <2>1, <2>2 DEF StillAhead, Descendants
    <3>2. pid \in DOMAIN procs /\ pid \in Nat /\ parent \in Nat
      BY <3>1, UnderSubset, TableFacts
    <3>3. ~procs[pid].runs.spaced
      BY <2>2, <3>1 DEF StillAhead, PlainFlash, Descendants
    <3>4. Follow(parent)
      BY <1>9, <3>2, <3>3 DEF ReadStat, ParentRead
    <3>5. parent \in {Browser} \cup Under(procs, Browser)
      BY <3>1, UnderStep, TableFacts DEF Browser
    <3>6. CASE parent = Browser
      BY <1>1, <2>1, <3>4, <3>6 DEF Follow, StillAhead
    <3>7. CASE parent # Browser
      <4>1. parent \in Under(procs, Browser) /\ parent # Root
        BY <3>5, <3>7, DescendantsType DEF Descendants
      <4>2. pc' = "walk" /\ pid' = parent /\ UNCHANGED list
        BY <3>4, <3>7, <4>1 DEF Follow
      <4>3. pid \in Under(procs, parent)
        BY <3>2, UnderClosed, TableFacts DEF ClosedIn
      <4>4. Under(procs, pid) \subseteq Under(procs, parent)
        BY <3>2, <4>3, UnderTransitive, TableFacts
      <4>5. Between'
        BY <1>1, <3>1, <4>1, <4>2, <4>3, <4>4 DEF Between, Descendants
      <4> QED BY <1>1, <2>1, <4>2, <4>5 DEF StillAhead, Between
    <3> QED BY <3>6, <3>7
  <2>3. CASE Head(list) \notin steady
    <3>1. \/ UNCHANGED list /\ pc' \in {"maps", "walk"}
          \/ list' = Tail(list) /\ pc' = "next"
      BY <1>9 DEF ReadStat, Follow
    <3>2. CASE UNCHANGED list /\ pc' \in {"maps", "walk"}
      BY <1>1, <2>1, <2>3, <3>2 DEF StillAhead
    <3>3. CASE list' = Tail(list) /\ pc' = "next"
      <4>1. \A q \in steady : Listed(q)'
        BY <2>1, <2>3, <3>3, TailHasRest DEF StillAhead, Listed
      <4> QED BY <1>1, <2>1, <3>3, <4>1 DEF StillAhead, Listed
    <3> QED BY <3>1, <3>2, <3>3
  <2> QED BY <2>2, <2>3
<1>7. CASE Maps
  <2>1. CASE Head(list) \in steady
    BY <1>0, <1>1, <1>7, <2>1, UnderSubset DEF Maps, StillAhead, Flash, Descendants
  <2>2. CASE Head(list) \notin steady
    <3>1. list \in Seq(Browser..last) /\ list # <<>>
      BY <1>7 DEF Maps, SearchType
    <3>2. CASE list' = Tail(list)
      <4>1. \A q \in steady : Listed(q)'
        BY <1>7, <2>2, <3>1, <3>2, TailHasRest DEF StillAhead, Maps, Listed
      <4> QED BY <1>1, <1>7, <4>1 DEF Maps, StillAhead, Listed
    <3>3. CASE UNCHANGED list
      BY <1>1, <1>7, <3>3 DEF Maps, StillAhead
    <3> QED BY <1>7, <3>2, <3>3 DEF Maps
  <2> QED BY <2>1, <2>2
<1>8. ASSUME NEW p \in DOMAIN procs, List(p)
      PROVE  StillAhead'
  <2>1. list \in Seq(Browser..last) /\ Len(list) \in Nat
    BY DEF SearchType
  <2>2. \A q \in steady : Listed(q) => Listed(q)'
    <3>1. \A k \in 1..Len(list) : k \in 1..Len(list') /\ list'[k] = list[k]
      BY <1>8, <2>1 DEF List
    <3> QED BY <3>1 DEF Listed
  <2>3. \A q \in steady : q > at => q > p \/ q = p
    BY <1>0, <1>8, DescendantsType, TableFacts, UnderSubset
       DEF List, StillAhead, Flash, Descendants
  <2>4. p \in steady => Listed(p)'
    <3>1. p \in steady => list' = Append(list, p)
      BY <1>0, <1>8 DEF List, Flash
    <3>2. list' = Append(list, p) =>
            Len(list') = Len(list) + 1 /\ list'[Len(list')] = p
      BY <2>1
    <3> QED BY <2>1, <3>1, <3>2 DEF Listed
  <2> QED BY <1>1, <1>8, <2>2, <2>3, <2>4 DEF List, StillAhead, Listed
<1> QED BY <1>2, <1>3, <1>4, <1>5, <1>6, <1>7, <1>8, <1>9 DEF ClientStep

-----------------------------------------------------------------------------
(* The invariant, and what follows from it.                                *)

LEMMA InitHolds == Init => IInv
<1> SUFFICES ASSUME Init PROVE IInv
  OBVIOUS
<1>1. /\ DOMAIN procs = {1, 2, 3} /\ last = 3
      /\ \A q \in {1, 2, 3} :
           procs[q] = [parent |-> q - 1, alive |-> TRUE, runs |-> Plain]
  BY DEF Init, New, Root, Client, Browser
<1>2. ProcsType
  <2>1. \A q \in {1, 2, 3} : procs[q] \in Process
    <3>1. \A q \in {1, 2, 3} : q - 1 \in 0..MaxPid
      BY ScanAssumption DEF Browser
    <3>2. ASSUME NEW n \in 0..MaxPid
          PROVE  [parent |-> n, alive |-> TRUE, runs |-> Plain] \in Process
      BY DEF Process
    <3> QED BY <1>1, <3>1, <3>2
  <2>2. procs = [q \in DOMAIN procs |-> procs[q]]
    BY DEF Init
  <2> QED BY <1>1, <2>1, <2>2, ScanAssumption
          DEF ProcsType, Root, Client, Browser
<1>3. Tree
  BY <1>1 DEF Tree, Root
<1>4. SearchType
  <2>1. at \in 0..last /\ pid \in 0..MaxPid
    BY <1>1, ScanAssumption DEF Init, Browser
  <2>2. list \in Seq(Browser..last) /\ below \subseteq Browser+1..last
    BY EmptySeq DEF Init
  <2> QED BY <2>1, <2>2 DEF Init, SearchType
<1> QED BY <1>2, <1>3, <1>4
        DEF Init, IInv, TypeOK, WalkedUp, YesWasDescendant, StillAhead, Walking

LEMMA NextHolds ==
  ASSUME IInv, [Next]_vars
  PROVE  IInv'
<1>1. Table /\ SearchType /\ WalkedUp /\ YesWasDescendant /\ StillAhead
  BY DEF IInv, TypeOK, Table
<1>2. CASE Begin \/ ClientStep
  BY <1>1, <1>2, ClientTable, ClientSearch, ClientWalkedUp, ClientAhead
     DEF IInv, TypeOK, Table
<1>3. CASE KernelStep
  <2>1. Table' /\ SearchType' /\ WalkedUp'
    BY <1>1, <1>3, KernelTable, KernelSearch, KernelWalkedUp
  <2>2. YesWasDescendant'
    BY <1>1, <1>3, KernelTable DEF YesWasDescendant, clientVars
  <2>3. StillAhead'
    BY <1>1, <1>3, ForkAhead, EndAhead, ReapAhead DEF KernelStep
  <2> QED BY <2>1, <2>2, <2>3 DEF IInv, TypeOK, Table
<1>4. CASE UNCHANGED vars
  BY <1>1, <1>4
     DEF vars, kernelVars, clientVars, walkVars, IInv, TypeOK, ProcsType,
         SearchType, Tree, WalkedUp, YesWasDescendant, StillAhead, Walking,
         PlainFlash, Flash, Tagged, Mapped
<1> QED BY <1>2, <1>3, <1>4 DEF Next

(* The processes are a tree, the search is where the walk has got to, and  *)
(* flash processes that stay are ahead of it, in every reachable state.    *)
THEOREM Inductive == Spec => []IInv
<1>1. Init => IInv
  BY InitHolds
<1>2. IInv /\ [Next]_vars => IInv'
  BY NextHolds
<1> QED BY <1>1, <1>2, PTL DEF Spec

(* IsChildOf says yes of descendants of the browser only, whatever starts  *)
(* and ends while it walks, as long as it goes on from parents: from the   *)
(* number in a name, or a parent not read because the process was waited   *)
(* for meanwhile, it may say yes of any (proc_util.cpp:11-33).             *)
THEOREM OnlyDescendants == Spec => []YesWasDescendant
<1>1. IInv => YesWasDescendant
  BY DEF IInv
<1> QED BY <1>1, Inductive, PTL

(* A flash process that was there all along, with no space in a name above *)
(* it, is found, or the search goes on (bot_client.cpp:227-239).           *)
THEOREM NoneOverlooked == Spec => []NotMissed
<1>1. IInv => NotMissed
  <2> SUFFICES ASSUME IInv, pc = "none", NEW q \in steady
               PROVE  FALSE
    BY DEF NotMissed
  <2>1. list = <<>> /\ Len(list) = 0
    BY DEF IInv, TypeOK, SearchType
  <2>2. \E k \in 1..Len(list) : list[k] = q
    BY DEF IInv, StillAhead
  <2> QED BY <2>1, <2>2
<1> QED BY <1>1, Inductive, PTL

=============================================================================
