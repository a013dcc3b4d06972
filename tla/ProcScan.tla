------------------------------ MODULE ProcScan ------------------------------
(***************************************************************************)
(* How the client finds the flash process: BotClient::find_flash_process   *)
(* (client/bot_client.cpp) and the functions of client/proc_util.cpp it    *)
(* calls.  Each looks at /proc while processes start, end and are handed   *)
(* over to init, so that what they see never existed at any one moment.    *)
(*                                                                         *)
(* Process numbers go up and are not used again.  Orphans go to init, who  *)
(* waits for them at once.                                                 *)
(***************************************************************************)
EXTENDS Naturals, Sequences

CONSTANTS
  MaxPid,     \* bound on the process numbers
  Programs    \* what processes run: spaced: there is a space in the name;
              \* digits: the number it has there, 0 if none; tagged:
              \* "no-sandbox" is in the command line; mapped:
              \* "libpepflashplayer" is in the maps

Root == 1     \* init
Client == 2
Browser == 3  \* m_browser_pid

ASSUME ScanAssumption ==
  /\ MaxPid \in Nat /\ MaxPid >= Browser
  /\ Programs \subseteq [spaced : BOOLEAN, digits : 0..MaxPid,
                          tagged : BOOLEAN, mapped : BOOLEAN]

VARIABLES
  procs,      \* the processes /proc shows
  last,       \* the highest process number used so far
  pc,         \* where find_flash_process is
  at,         \* the entry of /proc looked at last
  list,       \* procs, the result of FindProcsByName, from proc_pid on
  pid,        \* the process IsChildOf has got to
  guessed,    \* history: IsChildOf went on from what was no parent's number
  below,      \* history: the browser's descendants as IsChildOf was called
  steady      \* history: the plain flash processes there all along

kernelVars == <<procs, last>>
clientVars == <<pc, at, list, pid>>
walkVars == <<guessed, below>>
vars == <<kernelVars, clientVars, walkVars, steady>>

(* A process that ended has neither command line nor maps, but is there    *)
(* until its parent waits for it.                                          *)
Plain == [spaced |-> FALSE, digits |-> 0, tagged |-> FALSE, mapped |-> FALSE]
Process == [parent : 0..MaxPid, alive : BOOLEAN, runs : Programs \cup {Plain}]
New(p, program) == [parent |-> p, alive |-> TRUE, runs |-> program]

Tagged(q) == procs[q].alive /\ procs[q].runs.tagged
Mapped(q) == procs[q].alive /\ procs[q].runs.mapped

(* The descendants of p among the processes t, which are all younger than  *)
(* p: what is in every set that has the children of p and of its members.  *)
Under(t, p) ==
  LET D == {q \in DOMAIN t : q > p} IN
  {q \in D : \A S \in SUBSET D :
     (\A r \in DOMAIN t : t[r].parent \in {p} \cup S => r \in S) => q \in S}

Descendants(t) == Under(t, Browser)

Flash == {q \in Descendants(procs) : Tagged(q) /\ Mapped(q)}

(* Those without a space in a name on their way up to the browser.         *)
PlainFlash ==
  {q \in Flash : \A r \in Descendants(procs) :
     q \in {r} \cup Under(procs, r) => ~procs[r].runs.spaced}

Stay == steady' = steady \cap PlainFlash'

Init ==
  /\ procs = [p \in {Root, Client, Browser} |-> New(p - 1, Plain)]
  /\ last = Browser
  /\ pc = "out" /\ at = 0 /\ list = <<>> /\ pid = 0
  /\ guessed = FALSE /\ below = {} /\ steady = {}

-----------------------------------------------------------------------------
(* The processes of the system.                                            *)

(* The client starts browsers only, and waits while it searches.           *)
Fork(p, program) ==
  /\ p # Client /\ procs[p].alive /\ last < MaxPid
  /\ last' = last + 1
  /\ procs' = [q \in DOMAIN procs \cup {last + 1} |->
       IF q = last + 1 THEN New(p, program) ELSE procs[q]]
  /\ Stay
  /\ UNCHANGED <<clientVars, walkVars>>

End(p) ==
  LET orphans == {q \in DOMAIN procs : procs[q].parent = p}
      waited == {q \in orphans : ~procs[q].alive}
                  \cup IF procs[p].parent = Root THEN {p} ELSE {}
  IN /\ p \notin {Root, Client}
     /\ procs[p].alive
     /\ procs' = [q \in DOMAIN procs \ waited |->
          IF q \in orphans THEN [procs[q] EXCEPT !.parent = Root]
          ELSE IF q = p THEN [procs[q] EXCEPT !.alive = FALSE]
          ELSE procs[q]]
     /\ Stay
     /\ UNCHANGED <<last, clientVars, walkVars>>

Reap(p) ==
  /\ ~procs[p].alive
  /\ procs' = [q \in DOMAIN procs \ {p} |-> procs[q]]
  /\ Stay
  /\ UNCHANGED <<last, clientVars, walkVars>>

-----------------------------------------------------------------------------
(* find_flash_process.                                                     *)

Begin ==
  /\ pc = "out"
  /\ pc' = "list" /\ at' = 0 /\ list' = <<>>
  /\ steady' = PlainFlash
  /\ UNCHANGED <<kernelVars, pid, walkVars>>

(* A fault: every process is listed.                                       *)
ListAny(p) ==
  /\ pc = "list"
  /\ p > at /\ \A q \in DOMAIN procs : q > at => q >= p
  /\ at' = p /\ list' = Append(list, p)
  /\ UNCHANGED <<kernelVars, pc, pid, walkVars, steady>>

(* FindProcsByName: the next entry of /proc, in the order of the numbers.  *)
List(p) ==
  /\ pc = "list"
  /\ p > at /\ \A q \in DOMAIN procs : q > at => q >= p
  /\ at' = p
  /\ list' = IF Tagged(p) THEN Append(list, p) ELSE list
  /\ UNCHANGED <<kernelVars, pc, pid, walkVars, steady>>

ListEnds ==
  /\ pc = "list" /\ \A q \in DOMAIN procs : q <= at
  /\ pc' = "next"
  /\ UNCHANGED <<kernelVars, at, list, pid, walkVars, steady>>

NextCandidate ==
  /\ pc = "next" /\ list # <<>>
  /\ pc' = "walk" /\ pid' = Head(list)
  /\ guessed' = FALSE /\ below' = Descendants(procs)
  /\ UNCHANGED <<kernelVars, at, list, steady>>

NoneLeft ==
  /\ pc = "next" /\ list = <<>>
  /\ pc' = "none"
  /\ UNCHANGED <<kernelVars, at, list, pid, walkVars, steady>>

(* IsChildOf.  A process that is not there is looked for again, for ever.  *)
OpenStat ==
  /\ pc = "walk" /\ pid \in DOMAIN procs
  /\ pc' = "read"
  /\ UNCHANGED <<kernelVars, at, list, pid, walkVars, steady>>

(* What the fourth field of /proc/p/stat is read as: the name is read up   *)
(* to a space, and what follows but for a character is then read for a     *)
(* number.                                                                 *)
ParentRead(p) ==
  IF procs[p].runs.spaced THEN procs[p].runs.digits ELSE procs[p].parent

(* Faults: what is no child of the root is a child of the browser, the     *)
(* walk ends after one step, the root is not looked out for.               *)
FollowOrphans(parent) ==
  /\ IF parent \notin {Browser, Root}
     THEN pid' = parent /\ pc' = IF parent \in DOMAIN procs THEN "walk" ELSE "maps"
     ELSE pc' = "maps" /\ UNCHANGED pid
  /\ UNCHANGED list

FollowOnce(parent) ==
  /\ IF parent = Browser
     THEN pc' = "maps" /\ UNCHANGED list
     ELSE pc' = "next" /\ list' = Tail(list)
  /\ UNCHANGED pid

FollowPastRoot(parent) ==
  /\ IF parent = Browser
     THEN pc' = "maps" /\ UNCHANGED pid
     ELSE pc' = "walk" /\ pid' = parent
  /\ UNCHANGED list

(* The rest of a round of its loop.                                        *)
Follow(parent) ==
  \/ /\ parent = Browser
     /\ pc' = "maps"
     /\ UNCHANGED <<list, pid>>
  \/ /\ parent # Browser /\ parent = Root
     /\ pc' = "next" /\ list' = Tail(list)
     /\ UNCHANGED pid
  \/ /\ parent \notin {Browser, Root}
     /\ pc' = "walk" /\ pid' = parent
     /\ UNCHANGED list

(* If the process has been waited for since the file was opened, nothing   *)
(* is read and parent, which has no value yet, may be any number.          *)
ReadStat ==
  /\ pc = "read"
  /\ \/ /\ pid \in DOMAIN procs
        /\ Follow(ParentRead(pid))
        /\ guessed' = (guessed \/ procs[pid].runs.spaced)
     \/ /\ pid \notin DOMAIN procs
        /\ \E parent \in 0..MaxPid : Follow(parent)
        /\ guessed' = TRUE
  /\ UNCHANGED <<kernelVars, at, below, steady>>

(* GetPages, with the name of the player's library.                        *)
Maps ==
  /\ pc = "maps"
  /\ IF Head(list) \in DOMAIN procs /\ Mapped(Head(list))
     THEN pc' = "found" /\ UNCHANGED list
     ELSE pc' = "next" /\ list' = Tail(list)
  /\ UNCHANGED <<kernelVars, at, pid, walkVars, steady>>

ClientStep ==
  \/ ListEnds \/ NextCandidate \/ NoneLeft \/ OpenStat \/ ReadStat \/ Maps
  \/ \E p \in DOMAIN procs : List(p)

(* A bound: what happens after the search is left out.                     *)
Ended == pc \in {"found", "none"}

KernelStep ==
  /\ ~Ended
  /\ \/ \E p \in DOMAIN procs, program \in Programs : Fork(p, program)
     \/ \E p \in DOMAIN procs : End(p) \/ Reap(p)

Next == Begin \/ ClientStep \/ KernelStep

Spec == Init /\ [][Next]_vars
FairSpec == Spec /\ WF_vars(ClientStep)

-----------------------------------------------------------------------------
ProcsType ==
  /\ last \in Browser..MaxPid
  /\ DOMAIN procs \subseteq Root..last
  /\ procs \in [DOMAIN procs -> Process]
  /\ \A q \in DOMAIN procs \cap {Root, Client} : procs[q].runs = Plain

SearchType ==
  /\ pc \in {"out", "list", "next", "walk", "read", "maps", "found", "none"}
  /\ at \in 0..last /\ pid \in 0..MaxPid /\ guessed \in BOOLEAN
  /\ list \in Seq(Browser..last)
  /\ pc \in {"walk", "read", "maps", "found"} => list # <<>>
  /\ pc = "none" => list = <<>>
  /\ below \subseteq Browser+1..last

TypeOK == ProcsType /\ SearchType

(* IsChildOf says yes of a descendant of the browser only: it was one when *)
(* the walk began, although the steps of the walk were seen at different   *)
(* moments; unless the walk went on from the number in a name, or from a   *)
(* parent never read: then it may say yes of any process                   *)
(* (proc_util.cpp:11-33).                                                  *)
YesWasDescendant ==
  pc \in {"maps", "found"} => Head(list) \in below \/ guessed

(* A flash process that was there all along, with no space in a name above *)
(* it, is not missed, whatever ended or started around it                  *)
(* (bot_client.cpp:227-239).                                               *)
NotMissed == pc = "none" => steady = {}

(* The search comes to an end, or looks from some time on for a process    *)
(* that is not there: one on the way up that has ended since it was seen,  *)
(* or one whose number was never a parent's; or else a name with a space   *)
(* keeps the walk where it is (proc_util.cpp:14-31).                       *)
Walking == pc \in {"walk", "read"}
Vanished ==
  pc = "walk" /\ pid \notin DOMAIN procs /\ (pid \in 1..last \/ guessed)
AllPlain == \A q \in DOMAIN procs : ~procs[q].runs.spaced

FindEnds ==
  /\ pc = "list" ~> Ended \/ []Vanished \/ [](Walking /\ guessed)
  /\ []AllPlain => (pc = "list" ~> Ended \/ []Vanished)

-----------------------------------------------------------------------------
(* The inductive invariant.                                                *)

(* Parents are alive, and older than their children.                       *)
Tree ==
  /\ Root \in DOMAIN procs /\ procs[Root].parent = 0 /\ procs[Root].alive
  /\ \A q \in DOMAIN procs \ {Root} :
       /\ procs[q].parent \in DOMAIN procs /\ procs[q].parent < q
       /\ procs[procs[q].parent].alive

(* As far up as the walk has got, parents are what they were when it began,*)
(* or init; and it began below what it has got to.                         *)
WalkedUp ==
  Walking /\ ~guessed =>
    /\ pid <= last
    /\ \A q \in DOMAIN procs :
         q <= pid /\ procs[q].parent \in {Browser} \cup below => q \in below
    /\ pid \in below => Head(list) \in below

(* A flash process that stays is still to be listed, or to be looked at;   *)
(* while it is being looked at, the walk is between it and the browser.    *)
StillAhead ==
  /\ steady \subseteq PlainFlash
  /\ pc # "out" => \A q \in steady :
       (pc = "list" /\ q > at) \/ \E k \in 1..Len(list) : list[k] = q
  /\ Walking /\ Head(list) \in steady =>
       /\ pid \in Descendants(procs)
       /\ Head(list) \in {pid} \cup Under(procs, pid)

IInv == TypeOK /\ Tree /\ WalkedUp /\ YesWasDescendant /\ StillAhead
=============================================================================
