---------------------------- MODULE MemorySearch ----------------------------
(***************************************************************************)
(* Looking for bytes in the memory of the flash process while the game     *)
(* goes on changing it: by the client, from outside (QueryMemory and       *)
(* FindPattern of client/proc_util.cpp, BotClient::QueryMemory of          *)
(* client/bot_client.h), or by the library, from inside (query_memory and  *)
(* find_pattern of do_lib/memory_linux.cpp).                               *)
(*                                                                         *)
(* A region is known by the address it starts at; a match lies in one      *)
(* region.  Each byte is read at a moment of its own, if it can be read    *)
(* then: the game may take away any part of a region.                      *)
(***************************************************************************)
EXTENDS Integers, Sequences

CONSTANTS
  Memories,   \* what may be in memory at first: the bytes of each region
  Bytes, Wild,
  Gone,       \* what is where nothing can be read
  Queries,    \* sequences of bytes, or of Wild where the mask has a '?'
  Amounts,    \* how many addresses the client has room for
  Skipped,    \* the regions the library skips: unreadable, "[vvar]", and
              \* the one its query is in
  MaxChanges  \* bound on what the game changes during a search

Cells == Bytes \cup {Gone}

(* The bytes of a region are m[r][1], m[r][2], ..., at r, r + 1, ...;      *)
(* regions do not overlap.                                                 *)
ASSUME SearchAssumption ==
  /\ Gone \notin Bytes \cup {Wild}
  /\ \A m \in Memories :
       /\ DOMAIN m \subseteq Nat
       /\ \A r \in DOMAIN m : m[r] \in Seq(Cells)
       /\ \A r, s \in DOMAIN m : r < s => r + Len(m[r]) <= s
  /\ Queries \subseteq Seq(Bytes \cup {Wild})
  /\ Amounts \subseteq Nat /\ MaxChanges \in Nat

VARIABLES
  side,       \* who searches: "client" or "library"
  query, amount,
  mem,        \* the memory of the flash process, by region
  changes,    \* the changes made to it so far
  spc,        \* where the search is
  pages,      \* the regions listed, and the size of each
  page,       \* the region looked at last
  buf,        \* the bytes of the region, or of the match, read so far
  i,          \* the position compared, from 0 on
  out,        \* the addresses found
  held,       \* history: <<a, b>>: b was at address a at some time
  kept        \* history: <<r, x>>: a match, x bytes into region r, that was
              \* never disturbed, and could always be reached

inputVars == <<side, query, amount>>
searchVars == <<inputVars, mem, changes, spc, pages, page, buf, i, out, held, kept>>

Goal == Len(query)

Fits(b, q) == q \in {b, Wild}

(* The bytes of a memory; and where in it the query is, if all bytes of    *)
(* the region up to the one after it can be read.                          *)
Held(m) == UNION {{<<r + k - 1, m[r][k]>> : k \in DOMAIN m[r]} : r \in DOMAIN m}
Reaches(s, n) == n <= Len(s) /\ \A k \in 1..n : s[k] # Gone
Hits(m) ==
  UNION {{<<r, x>> : x \in {y \in 0..Len(m[r]) :
            /\ Reaches(m[r], y + Goal + 1)
            /\ \A j \in 1..Goal : Fits(m[r][y + j], query[j])}} : r \in DOMAIN m}

SearchInit ==
  /\ side \in {"client", "library"}
  /\ query \in Queries /\ (side = "library" => query # <<>>)
  /\ amount \in IF side = "client" THEN Amounts ELSE {1}
  /\ mem \in Memories /\ changes = 0
  /\ spc = "out" /\ pages = <<>> /\ page = -1 /\ buf = <<>> /\ i = 0 /\ out = <<>>
  /\ held = {} /\ kept = {}

-----------------------------------------------------------------------------
(* The game, while the search goes on.                                     *)
Changed(m) ==
  /\ spc \in {"next", "read", "compare"} /\ changes < MaxChanges
  /\ mem' = m /\ changes' = changes + 1
  /\ held' = held \cup Held(m)
  /\ kept' = kept \cap Hits(m)
  /\ UNCHANGED <<inputVars, spc, pages, page, buf, i, out>>

(* It writes a byte, or maps one in again; or it gives back, or protects,   *)
(* a part of a region or all of it.                                        *)
GameWrites == \E r \in DOMAIN mem, b \in Bytes : \E k \in DOMAIN mem[r] :
                Changed([mem EXCEPT ![r][k] = b])

Without(s, first, last) ==
  [k \in 1..Len(s) |-> IF k \in first..last THEN Gone ELSE s[k]]

GameUnmaps == \E r \in DOMAIN mem : \E first, last \in DOMAIN mem[r] :
                /\ first <= last
                /\ Changed([mem EXCEPT ![r] = Without(mem[r], first, last)])

-----------------------------------------------------------------------------
(* GetPages, or get_pages: the regions, as they are when it is called.     *)
Start ==
  /\ spc = "out"
  /\ spc' = "next" /\ page' = -1
  /\ pages' = [r \in DOMAIN mem |-> Len(mem[r])]
  /\ held' = Held(mem) /\ kept' = Hits(mem)
  /\ UNCHANGED <<inputVars, mem, changes, buf, i, out>>

Skip(r) == (side = "library" /\ r \in Skipped) \/ Goal > pages[r]

(* The regions are searched in the order of their addresses.               *)
NextRegion(r) ==
  /\ spc = "next"
  /\ r > page /\ \A s \in DOMAIN pages : s > page => s >= r
  /\ page' = r
  /\ IF Skip(r) THEN UNCHANGED spc ELSE spc' = "read"
  /\ buf' = <<>> /\ i' = 0
  /\ UNCHANGED <<inputVars, mem, changes, pages, out, held, kept>>

SearchEnds ==
  /\ spc = "next" /\ \A r \in DOMAIN pages : r <= page
  /\ spc' = "done"
  /\ UNCHANGED <<inputVars, mem, changes, pages, page, buf, i, out, held, kept>>

-----------------------------------------------------------------------------
(* The client: process_vm_readv, a byte at a time, up to one it cannot     *)
(* read, and the comparison of what it got.                                *)
Readable == Len(buf) < pages[page] /\ mem[page][Len(buf) + 1] # Gone

ReadByte ==
  /\ side = "client" /\ spc = "read" /\ Readable
  /\ buf' = Append(buf, mem[page][Len(buf) + 1])
  /\ UNCHANGED <<inputVars, mem, changes, spc, pages, page, i, out, held, kept>>

ReadEnds ==
  /\ side = "client" /\ spc = "read" /\ ~Readable
  /\ spc' = "compare"
  /\ UNCHANGED <<inputVars, mem, changes, pages, page, buf, i, out, held, kept>>

(* A fault: the comparison looks at the first byte only.                   *)
FitsFirst(x) == Goal > 0 => Fits(buf[x + 1], query[1])

FitsAt(x) == \A j \in 1..Goal : Fits(buf[x + j], query[j])

(* The positions that are compared: the last one of what was read is not.  *)
Comparing ==
  /\ side = "client" /\ spc = "compare"
  /\ Len(out) # amount /\ i < Len(buf) - Goal

(* A fault: positions are taken to be aligned.                             *)
CompareAligned ==
  /\ Comparing
  /\ out' = IF FitsAt(i) THEN Append(out, page + i) ELSE out
  /\ i' = i + 2
  /\ UNCHANGED <<inputVars, mem, changes, spc, pages, page, buf, held, kept>>

Compare ==
  /\ Comparing
  /\ out' = IF FitsAt(i) THEN Append(out, page + i) ELSE out
  /\ i' = i + 1
  /\ UNCHANGED <<inputVars, mem, changes, spc, pages, page, buf, held, kept>>

-----------------------------------------------------------------------------
(* The library compares the memory itself, and ends with the first match;  *)
(* a look at a byte that is no longer there ends the process.              *)
Looking == side = "library" /\ spc = "read" /\ i < pages[page] - Goal
Looked == mem[page][i + Len(buf) + 1]

LookAtByte ==
  /\ Looking /\ Looked # Gone
  /\ LET b == Looked IN
     \/ /\ ~Fits(b, query[Len(buf) + 1])
        /\ i' = i + 1 /\ buf' = <<>>
        /\ UNCHANGED <<spc, out>>
     \/ /\ Fits(b, query[Len(buf) + 1]) /\ Len(buf) + 1 < Goal
        /\ buf' = Append(buf, b)
        /\ UNCHANGED <<spc, i, out>>
     \/ /\ Fits(b, query[Len(buf) + 1]) /\ Len(buf) + 1 = Goal
        /\ out' = <<page + i>> /\ spc' = "done"
        /\ UNCHANGED <<i, buf>>
  /\ UNCHANGED <<inputVars, mem, changes, pages, page, held, kept>>

LookAtGone ==
  /\ Looking /\ Looked = Gone
  /\ spc' = "crashed"
  /\ UNCHANGED <<inputVars, mem, changes, pages, page, buf, i, out, held, kept>>

RegionEnds ==
  /\ \/ spc = "compare" /\ ~Comparing
     \/ spc = "read" /\ side = "library" /\ ~Looking
  /\ spc' = "next"
  /\ UNCHANGED <<inputVars, mem, changes, pages, page, buf, i, out, held, kept>>

SearchNext ==
  \/ GameWrites \/ GameUnmaps
  \/ Start \/ SearchEnds \/ \E r \in DOMAIN pages : NextRegion(r)
  \/ ReadByte \/ ReadEnds \/ Compare
  \/ LookAtByte \/ LookAtGone \/ RegionEnds

SearchSpec == SearchInit /\ [][SearchNext]_searchVars

-----------------------------------------------------------------------------
Searching == spc \in {"read", "compare"}

InputType ==
  /\ side \in {"client", "library"} /\ query \in Seq(Bytes \cup {Wild})
  /\ amount \in Nat /\ changes \in 0..MaxChanges
  /\ side = "library" => query # <<>> /\ amount = 1

MemType ==
  /\ DOMAIN mem \subseteq Nat /\ \A r \in DOMAIN mem : mem[r] \in Seq(Cells)
  /\ \A r, s \in DOMAIN mem : r < s => r + Len(mem[r]) <= s

PlaceType ==
  /\ spc \in {"out", "next", "read", "compare", "done", "crashed"}
  /\ DOMAIN pages \subseteq Nat /\ \A r \in DOMAIN pages : pages[r] \in Nat
  /\ page \in DOMAIN pages \cup {-1} /\ (Searching => page \in DOMAIN pages)
  /\ buf \in Seq(Bytes) /\ i \in Nat
  /\ out \in Seq(Nat) /\ Len(out) <= amount

SearchTypeOK == InputType /\ MemType /\ PlaceType

(* Every byte of a match was in its place at some time during the search,  *)
(* if not all of them at once (proc_util.cpp:165-179, memory_linux.cpp:    *)
(* 68-86).                                                                 *)
ReportedWasThere ==
  \A n \in DOMAIN out, j \in 1..Goal :
    query[j] = Wild \/ <<out[n] + j - 1, query[j]>> \in held

(* A match that stays where it is is found if there is room for it, and if *)
(* all bytes of its region, up to the one after it, can be read all the    *)
(* while.  One behind a part that was given back, or at the very end of    *)
(* the region or of what can be read, is missed: a read ends early, and    *)
(* the last position is not compared (proc_util.cpp:166-171,               *)
(* memory_linux.cpp:68).                                                   *)
Searched(r) == side = "library" => r \notin Skipped
Found(a) ==
  \/ \E n \in DOMAIN out : out[n] = a
  \/ Len(out) = amount /\ \A n \in DOMAIN out : out[n] < a

NoneMissed ==
  spc = "done" => \A h \in kept : Searched(h[1]) => Found(h[1] + h[2])

-----------------------------------------------------------------------------
(* The inductive invariant of the search.                                  *)

(* The regions listed are those there were.                                *)
Listed ==
  spc # "out" =>
    /\ DOMAIN mem = DOMAIN pages /\ \A r \in DOMAIN mem : Len(mem[r]) = pages[r]
    /\ \A r, s \in DOMAIN pages : r < s => r + pages[r] <= s
    /\ Held(mem) \subseteq held /\ kept \subseteq Hits(mem)

(* What was read was there: by the client from the start of the region on, *)
(* by the library from the position compared on.                           *)
WasThere ==
  Searching =>
    /\ Goal <= pages[page]
    /\ side = "client" =>
         /\ Len(buf) <= pages[page] /\ i <= Len(buf) /\ (spc = "read" => i = 0)
         /\ \A k \in 1..Len(buf) : <<page + k - 1, buf[k]>> \in held
    /\ side = "library" =>
         /\ spc = "read" /\ Len(buf) < Goal /\ i <= pages[page] - Goal
         /\ \A k \in 1..Len(buf) :
              <<page + i + k - 1, buf[k]>> \in held /\ Fits(buf[k], query[k])

(* What was found is behind.                                               *)
Behind ==
  /\ \A m, n \in DOMAIN out : m < n => out[m] < out[n]
  /\ spc = "out" \/ page = -1 => out = <<>>
  /\ spc = "next" /\ page # -1 => \A n \in DOMAIN out : out[n] < page + pages[page]
  /\ Searching => \A n \in DOMAIN out : out[n] < page + i
  /\ side = "library" /\ spc # "done" => out = <<>>

(* A match that stays is found, or still ahead; and what the client has    *)
(* read of it fits.                                                        *)
Ahead(r, x) ==
  \/ r > page
  \/ /\ r = page /\ Searching /\ x >= i
     /\ side = "client" =>
          /\ \A j \in 1..Goal : x + j <= Len(buf) => Fits(buf[x + j], query[j])
          /\ spc = "compare" => Len(buf) > x + Goal

NoneOverlooked ==
  spc \notin {"out", "crashed"} =>
    \A h \in kept :
      Searched(h[1]) => Found(h[1] + h[2]) \/ (spc # "done" /\ Ahead(h[1], h[2]))

SearchInv ==
  SearchTypeOK /\ Listed /\ WasThere /\ ReportedWasThere /\ Behind /\ NoneOverlooked

=============================================================================
