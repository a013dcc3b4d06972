------------------------- MODULE MemorySearchProofs -------------------------
(***************************************************************************)
(* Proofs about MemorySearch, for any memory, query, number of changes and *)
(* amount of results: what is reported was there, byte by byte, and what   *)
(* stays, and can be reached, is found.                                    *)
(***************************************************************************)
EXTENDS MemorySearch, SequenceTheorems, TLAPS

-----------------------------------------------------------------------------
(* Memories.                                                               *)

Memory(m) ==
  /\ DOMAIN m \subseteq Nat /\ \A r \in DOMAIN m : m[r] \in Seq(Cells)
  /\ \A r, s \in DOMAIN m : r < s => r + Len(m[r]) <= s

(* What the game does to a memory: m is what mem becomes.                  *)
Remains(m) ==
  /\ Memory(m) /\ DOMAIN m = DOMAIN mem
  /\ \A r \in DOMAIN m : Len(m[r]) = Len(mem[r])

Game == \E m : Remains(m) /\ Changed(m)

LEMMA RegionRemains ==
  ASSUME MemType, NEW r \in DOMAIN mem, NEW s \in Seq(Cells), Len(s) = Len(mem[r])
  PROVE  Remains([mem EXCEPT ![r] = s])
<1> DEFINE m == [mem EXCEPT ![r] = s]
<1>1. DOMAIN m = DOMAIN mem
  OBVIOUS
<1>2. ASSUME NEW q \in DOMAIN mem
      PROVE  m[q] \in Seq(Cells) /\ Len(m[q]) = Len(mem[q])
  BY DEF MemType
<1> HIDE DEF m
<1> QED BY <1>1, <1>2 DEF Remains, Memory, MemType

LEMMA WriteRemains ==
  ASSUME MemType, NEW r \in DOMAIN mem, NEW b \in Bytes, NEW k \in DOMAIN mem[r]
  PROVE  Remains([mem EXCEPT ![r][k] = b])
<1> DEFINE s == [mem[r] EXCEPT ![k] = b]
<1>1. mem[r] \in Seq(Cells) /\ k \in 1..Len(mem[r]) /\ b \in Cells
  BY DEF MemType, Cells
<1>2. s \in Seq(Cells) /\ Len(s) = Len(mem[r])
  BY <1>1, ExceptSeq
<1>3. [mem EXCEPT ![r][k] = b] = [mem EXCEPT ![r] = s]
  OBVIOUS
<1> HIDE DEF s
<1> QED BY <1>2, <1>3, RegionRemains

LEMMA IsASequence ==
  ASSUME NEW S, NEW n \in Nat, NEW s \in [1..n -> S]
  PROVE  s \in Seq(S) /\ Len(s) = n
OBVIOUS

LEMMA UnmapRemains ==
  ASSUME MemType, NEW r \in DOMAIN mem, NEW first, NEW last
  PROVE  Remains([mem EXCEPT ![r] = Without(mem[r], first, last)])
<1> DEFINE s == Without(mem[r], first, last)
<1>1. mem[r] \in Seq(Cells) /\ Len(mem[r]) \in Nat
  BY DEF MemType
<1>2. \A k \in 1..Len(mem[r]) : mem[r][k] \in Cells /\ Gone \in Cells
  BY <1>1 DEF Cells
<1>3. s \in [1..Len(mem[r]) -> Cells]
  BY <1>2, Zenon DEF Without
<1> HIDE DEF s
<1>4. s \in Seq(Cells) /\ Len(s) = Len(mem[r])
  BY <1>1, <1>3, IsASequence
<1> QED BY <1>4, RegionRemains DEF s

LEMMA GameRemains ==
  ASSUME MemType, GameWrites \/ GameUnmaps
  PROVE  Game
<1>1. CASE GameWrites
  <2>1. PICK r \in DOMAIN mem, b \in Bytes :
          \E k \in DOMAIN mem[r] : Changed([mem EXCEPT ![r][k] = b])
    BY <1>1 DEF GameWrites
  <2>2. PICK k \in DOMAIN mem[r] : Changed([mem EXCEPT ![r][k] = b])
    BY <2>1
  <2> QED BY <2>2, WriteRemains DEF Game
<1>2. CASE GameUnmaps
  <2>1. PICK r \in DOMAIN mem : \E first, last \in DOMAIN mem[r] :
          first <= last /\ Changed([mem EXCEPT ![r] = Without(mem[r], first, last)])
    BY <1>2 DEF GameUnmaps
  <2>2. PICK first, last \in DOMAIN mem[r] :
          Changed([mem EXCEPT ![r] = Without(mem[r], first, last)])
    BY <2>1
  <2> QED BY <2>2, UnmapRemains DEF Game
<1> QED BY <1>1, <1>2

(* The byte k of the region r was there.                                   *)
LEMMA ByteHeld ==
  ASSUME NEW m, NEW r \in DOMAIN m, NEW k \in DOMAIN m[r]
  PROVE  <<r + k - 1, m[r][k]>> \in Held(m)
BY DEF Held

(* What it means to be a match.                                            *)
LEMMA HitFits ==
  ASSUME NEW m, NEW h \in Hits(m)
  PROVE  /\ h = <<h[1], h[2]>> /\ h[1] \in DOMAIN m /\ h[2] \in 0..Len(m[h[1]])
         /\ Reaches(m[h[1]], h[2] + Goal + 1)
         /\ \A j \in 1..Goal : Fits(m[h[1]][h[2] + j], query[j])
BY DEF Hits

-----------------------------------------------------------------------------
(* Types.                                                                  *)

LEMMA InitTypes == SearchInit => SearchTypeOK
<1> SUFFICES ASSUME SearchInit PROVE SearchTypeOK
  OBVIOUS
<1>1. InputType
  BY SearchAssumption DEF SearchInit, InputType
<1>2. MemType
  BY SearchAssumption DEF SearchInit, MemType
<1>3. PlaceType
  <2>1. buf \in Seq(Bytes) /\ out \in Seq(Nat) /\ Len(out) = 0
    BY EmptySeq DEF SearchInit
  <2>2. DOMAIN pages = {}
    BY DEF SearchInit
  <2> QED BY <1>1, <2>1, <2>2 DEF SearchInit, PlaceType, Searching, InputType
<1> QED BY <1>1, <1>2, <1>3 DEF SearchTypeOK

LEMMA GameTypes ==
  ASSUME SearchTypeOK, Game
  PROVE  SearchTypeOK'
<1> PICK m : Remains(m) /\ Changed(m)
  BY DEF Game
<1>1. MemType'
  BY DEF Changed, Remains, Memory, MemType
<1>2. InputType'
  BY SearchAssumption DEF Changed, inputVars, SearchTypeOK, InputType
<1>3. PlaceType'
  BY DEF Changed, inputVars, SearchTypeOK, PlaceType, Searching
<1> QED BY <1>1, <1>2, <1>3 DEF SearchTypeOK

Step ==
  \/ Start \/ SearchEnds \/ \E r \in DOMAIN pages : NextRegion(r)
  \/ ReadByte \/ ReadEnds \/ Compare
  \/ LookAtByte \/ LookAtGone \/ RegionEnds

LEMMA StepInputs ==
  ASSUME Step
  PROVE  /\ UNCHANGED <<side, query, amount, mem, changes>>
         /\ Start \/ UNCHANGED <<pages, held, kept>>
BY DEF Step, Start, SearchEnds, NextRegion, ReadByte, ReadEnds, Compare,
       LookAtByte, LookAtGone, RegionEnds, inputVars

LEMMA SearchFacts ==
  ASSUME SearchInv
  PROVE  /\ SearchTypeOK /\ InputType /\ MemType /\ PlaceType /\ Listed
         /\ WasThere /\ ReportedWasThere /\ Behind /\ NoneOverlooked
         /\ Goal \in Nat /\ Len(buf) \in Nat /\ i \in Nat /\ Len(out) \in Nat
         /\ page \in Int /\ \A r \in DOMAIN pages : r \in Nat /\ pages[r] \in Nat
         /\ \A r \in DOMAIN mem : Len(mem[r]) \in Nat
         /\ \A n \in DOMAIN out : out[n] \in Nat
         /\ DOMAIN out = 1..Len(out)
<1>1. InputType /\ MemType /\ PlaceType
  BY DEF SearchInv, SearchTypeOK
<1>2. Goal \in Nat
  BY <1>1 DEF InputType, Goal
<1>3. Len(buf) \in Nat /\ Len(out) \in Nat /\ DOMAIN out = 1..Len(out)
      /\ \A n \in DOMAIN out : out[n] \in Nat
  BY <1>1 DEF PlaceType
<1>4. page \in Int /\ i \in Nat
  BY <1>1 DEF PlaceType
<1>5. \A r \in DOMAIN mem : Len(mem[r]) \in Nat
  BY <1>1 DEF MemType
<1> QED BY <1>1, <1>2, <1>3, <1>4, <1>5 DEF SearchInv, PlaceType

(* What the region searched is, as long as it is there.                    *)
LEMMA PageFacts ==
  ASSUME SearchInv, Searching
  PROVE  /\ page \in DOMAIN pages /\ page \in Nat /\ pages[page] \in Nat
         /\ page \in DOMAIN mem /\ Len(mem[page]) = pages[page]
         /\ \A k \in 1..pages[page] :
              /\ <<page + k - 1, mem[page][k]>> \in held
              /\ mem[page][k] # Gone => mem[page][k] \in Bytes
<1>1. page \in DOMAIN pages /\ page \in Nat /\ pages[page] \in Nat
  BY SearchFacts DEF PlaceType
<1>2. /\ page \in DOMAIN mem
      /\ mem[page] \in Seq(Cells) /\ Len(mem[page]) = pages[page]
      /\ Held(mem) \subseteq held
  BY <1>1, SearchFacts DEF MemType, Listed, Searching
<1>3. ASSUME NEW k \in 1..pages[page]
      PROVE  /\ <<page + k - 1, mem[page][k]>> \in held
             /\ mem[page][k] # Gone => mem[page][k] \in Bytes
  <2>1. k \in DOMAIN mem[page] /\ mem[page][k] \in Cells
    BY <1>2, <1>3
  <2> QED BY <1>2, <1>3, <2>1, ByteHeld DEF Cells
<1> QED BY <1>1, <1>2, <1>3

(* The byte the library looks at.                                          *)
LEMMA LookFacts ==
  ASSUME SearchInv, Looking
  PROVE  /\ Searching /\ Len(buf) < Goal
         /\ i + Len(buf) + 1 \in 1..pages[page]
         /\ i + 1 <= pages[page] - Goal
<1>1. Searching
  BY DEF Looking, Searching
<1>2. Len(buf) < Goal /\ i < pages[page] - Goal
  BY <1>1, SearchFacts DEF WasThere, Looking
<1> QED BY <1>1, <1>2, SearchFacts, PageFacts

LEMMA StepTypes ==
  ASSUME SearchInv, Step
  PROVE  SearchTypeOK'
<1>1. InputType' /\ MemType'
  BY StepInputs, SearchFacts DEF InputType, MemType
<1>2. UNCHANGED amount
  BY StepInputs
<1>3. CASE Start
  <2>1. DOMAIN pages' \subseteq Nat /\ \A r \in DOMAIN pages' : pages'[r] \in Nat
    BY <1>3, SearchFacts DEF Start, MemType
  <2> QED BY <1>1, <1>2, <1>3, <2>1, SearchFacts DEF Start, PlaceType, Searching, SearchTypeOK
<1>4. CASE SearchEnds
  BY <1>1, <1>2, <1>4, SearchFacts DEF SearchEnds, PlaceType, Searching, SearchTypeOK
<1>5. ASSUME NEW r \in DOMAIN pages, NextRegion(r)
      PROVE  SearchTypeOK'
  <2>1. buf' \in Seq(Bytes)
    BY <1>5, EmptySeq DEF NextRegion
  <2> QED BY <1>1, <1>2, <1>5, <2>1, SearchFacts
          DEF NextRegion, PlaceType, Searching, SearchTypeOK
<1>6. CASE ReadByte
  <2>1. mem[page][Len(buf) + 1] \in Bytes
    <3>1. Len(buf) + 1 \in 1..pages[page] /\ mem[page][Len(buf) + 1] # Gone
      BY <1>6, SearchFacts, PageFacts DEF ReadByte, Readable, Searching
    <3> QED BY <1>6, <3>1, PageFacts DEF ReadByte, Searching
  <2>2. buf' \in Seq(Bytes)
    BY <1>6, <2>1, SearchFacts DEF ReadByte, PlaceType
  <2> QED BY <1>1, <1>2, <1>6, <2>2, SearchFacts
          DEF ReadByte, PlaceType, Searching, SearchTypeOK
<1>7. CASE ReadEnds
  BY <1>1, <1>2, <1>7, SearchFacts DEF ReadEnds, PlaceType, Searching, SearchTypeOK
<1>8. CASE Compare
  <2>1. page + i \in Nat /\ Len(out) + 1 <= amount
    BY <1>8, SearchFacts, PageFacts
       DEF Compare, Comparing, PlaceType, Searching, InputType
  <2>2. out' \in Seq(Nat) /\ Len(out') <= amount
    BY <1>8, <2>1, SearchFacts DEF Compare, PlaceType
  <2> QED BY <1>1, <1>2, <1>8, <2>2, SearchFacts
          DEF Compare, PlaceType, Searching, SearchTypeOK
<1>9. CASE LookAtByte
  <2>1. Searching /\ page + i \in Nat /\ Looked \in Bytes
    <3>1. Looking /\ Looked # Gone
      BY <1>9 DEF LookAtByte
    <3>2. Searching /\ i + Len(buf) + 1 \in 1..pages[page]
      BY <3>1, LookFacts
    <3>3. page + i \in Nat
      BY <3>2, PageFacts, SearchFacts
    <3> QED BY <3>1, <3>2, <3>3, PageFacts DEF Looked
  <2>2. buf' \in Seq(Bytes)
    <3>1. CASE UNCHANGED buf
      BY <3>1, SearchFacts DEF PlaceType
    <3>2. CASE buf' = <<>>
      BY <3>2, EmptySeq
    <3>3. CASE buf' = Append(buf, Looked)
      BY <2>1, <3>3, SearchFacts DEF PlaceType
    <3> QED BY <1>9, <3>1, <3>2, <3>3 DEF LookAtByte
  <2>3. amount = 1
    BY <1>9, SearchFacts DEF LookAtByte, Looking, InputType
  <2>4. out' \in Seq(Nat) /\ Len(out') <= amount
    <3>1. CASE UNCHANGED out
      BY <3>1, SearchFacts DEF PlaceType
    <3>2. CASE out' = <<page + i>>
      BY <2>1, <2>3, <3>2
    <3> QED BY <1>9, <3>1, <3>2 DEF LookAtByte
  <2>5. i' \in Nat /\ spc' \in {"read", "done"} /\ UNCHANGED <<pages, page>>
    BY <1>9, SearchFacts DEF LookAtByte, Looking
  <2> QED BY <1>1, <1>2, <2>1, <2>2, <2>4, <2>5, SearchFacts
          DEF PlaceType, Searching, SearchTypeOK
<1>10. CASE LookAtGone
  BY <1>1, <1>2, <1>10, SearchFacts DEF LookAtGone, PlaceType, Searching, SearchTypeOK
<1>11. CASE RegionEnds
  BY <1>1, <1>2, <1>11, SearchFacts DEF RegionEnds, PlaceType, Searching, SearchTypeOK
<1> QED BY <1>3, <1>4, <1>5, <1>6, <1>7, <1>8, <1>9, <1>10, <1>11 DEF Step

-----------------------------------------------------------------------------
(* What the game does.                                                     *)

LEMMA GameListed ==
  ASSUME SearchInv, Game
  PROVE  Listed'
<1> PICK m : Remains(m) /\ Changed(m)
  BY DEF Game
<1>1. /\ spc # "out" /\ UNCHANGED <<spc, pages, query>> /\ mem' = m
      /\ held' = held \cup Held(m) /\ kept' = kept \cap Hits(m)
  BY DEF Changed, inputVars
<1>2. Hits(m)' = Hits(m)
  BY <1>1 DEF Hits, Reaches, Goal, Fits
<1>3. Held(mem)' = Held(m) /\ Hits(mem)' = Hits(m)
  BY <1>1 DEF Hits, Reaches, Goal, Fits, Held
<1>4. DOMAIN m = DOMAIN mem /\ \A r \in DOMAIN m : Len(m[r]) = Len(mem[r])
  BY DEF Remains
<1>5. Listed
  BY SearchFacts
<1> QED BY <1>1, <1>3, <1>4, <1>5 DEF Listed

LEMMA GameRest ==
  ASSUME SearchInv, Game
  PROVE  WasThere' /\ ReportedWasThere' /\ Behind' /\ NoneOverlooked'
<1> PICK m : Remains(m) /\ Changed(m)
  BY DEF Game
<1>1. /\ UNCHANGED <<side, query, amount, spc, pages, page, buf, i, out>>
      /\ held \subseteq held' /\ kept' \subseteq kept
  BY DEF Changed, inputVars
<1>2. WasThere'
  BY <1>1, SearchFacts DEF WasThere, Searching, Goal, Fits
<1>3. ReportedWasThere'
  BY <1>1, SearchFacts DEF ReportedWasThere, Goal
<1>4. Behind'
  BY <1>1, SearchFacts DEF Behind, Searching
<1>5. NoneOverlooked'
  BY <1>1, SearchFacts
     DEF NoneOverlooked, Found, Ahead, Searched, Searching, Goal, Fits
<1> QED BY <1>2, <1>3, <1>4, <1>5

-----------------------------------------------------------------------------
(* What the search does.                                                   *)

LEMMA StepListed ==
  ASSUME SearchInv, Step
  PROVE  Listed'
<1>1. UNCHANGED <<query, mem>>
  BY StepInputs
<1>2. Held(mem)' = Held(mem) /\ Hits(mem)' = Hits(mem)
  BY <1>1 DEF Hits, Reaches, Goal, Fits, Held
<1>3. CASE Start
  <2>1. /\ pages' = [r \in DOMAIN mem |-> Len(mem[r])]
        /\ held' = Held(mem) /\ kept' = Hits(mem)
    BY <1>3 DEF Start
  <2>2. MemType
    BY SearchFacts
  <2> QED BY <1>1, <1>2, <2>1, <2>2 DEF Listed, MemType
<1>4. CASE ~Start
  <2>1. spc # "out"
    BY <1>4, SearchFacts DEF Step, SearchEnds, NextRegion, ReadByte, ReadEnds, Compare,
       LookAtByte, LookAtGone, RegionEnds, Comparing, Looking
  <2>2. UNCHANGED <<pages, held, kept>>
    BY <1>4, StepInputs
  <2> QED BY <1>1, <1>2, <2>1, <2>2, SearchFacts DEF Listed
<1> QED BY <1>3, <1>4

LEMMA StepWasThere ==
  ASSUME SearchInv, Step
  PROVE  WasThere'
<1>1. UNCHANGED <<side, query, mem>>
  BY StepInputs
<1>2. CASE Start \/ SearchEnds \/ LookAtGone \/ RegionEnds
  BY <1>2 DEF Start, SearchEnds, LookAtGone, RegionEnds, WasThere, Searching
<1>3. ASSUME NEW r \in DOMAIN pages, NextRegion(r)
      PROVE  WasThere'
  <2>1. /\ page' = r /\ UNCHANGED pages /\ buf' = <<>> /\ i' = 0 /\ Len(buf') = 0
        /\ Searching' => spc' = "read" /\ ~Skip(r)
    BY <1>3 DEF NextRegion, Searching
  <2>2. r \in Nat /\ pages[r] \in Nat
    BY SearchFacts
  <2>3. Searching' => Goal <= pages[r] /\ (side = "library" => Goal > 0)
    BY <2>1, <2>2, SearchFacts DEF Skip, InputType, Goal
  <2> QED BY <1>1, <2>1, <2>2, <2>3, SearchFacts DEF WasThere, Goal
<1>4. CASE ReadByte
  <2>1. /\ mem[page][Len(buf) + 1] # Gone /\ Searching /\ side = "client" /\ spc = "read"
        /\ UNCHANGED <<spc, pages, page, i, held>>
        /\ buf' = Append(buf, mem[page][Len(buf) + 1])
    BY <1>4 DEF ReadByte, Readable, Searching
  <2>2. Len(buf) + 1 \in 1..pages[page]
    BY <1>4, <2>1, SearchFacts, PageFacts DEF ReadByte, Readable
  <2>3. /\ Len(buf') = Len(buf) + 1
        /\ \A k \in 1..Len(buf) : buf'[k] = buf[k]
        /\ buf'[Len(buf) + 1] = mem[page][Len(buf) + 1]
    <3>1. mem[page][Len(buf) + 1] \in Bytes
      BY <2>1, <2>2, PageFacts
    <3> QED BY <2>1, <3>1, SearchFacts DEF PlaceType
  <2>4. <<page + (Len(buf) + 1) - 1, mem[page][Len(buf) + 1]>> \in held
    BY <2>1, <2>2, PageFacts
  <2>5. ASSUME NEW k \in 1..Len(buf')
        PROVE  <<page + k - 1, buf'[k]>> \in held
    <3>1. CASE k \in 1..Len(buf)
      BY <2>1, <2>3, <3>1, SearchFacts DEF WasThere
    <3>2. CASE k = Len(buf) + 1
      BY <2>3, <2>4, <3>2
    <3> QED BY <2>3, <2>5, <3>1, <3>2, SearchFacts
  <2> QED BY <1>1, <2>1, <2>2, <2>3, <2>5, SearchFacts DEF WasThere, Goal
<1>5. CASE ReadEnds
  BY <1>1, <1>5, SearchFacts DEF ReadEnds, WasThere, Searching, Goal
<1>6. CASE Compare
  <2>1. /\ Searching /\ side = "client" /\ spc = "compare" /\ i < Len(buf) - Goal
        /\ UNCHANGED <<spc, pages, page, buf, held>> /\ i' = i + 1
    BY <1>6 DEF Compare, Comparing, Searching
  <2> QED BY <1>1, <2>1, SearchFacts DEF WasThere, Goal
<1>7. CASE LookAtByte
  <2> DEFINE b == Looked
  <2>1. /\ Looking /\ Looked # Gone /\ side = "library" /\ spc = "read"
        /\ UNCHANGED <<pages, page, held>>
    BY <1>7 DEF LookAtByte, Looking
  <2>2. /\ Searching /\ Len(buf) < Goal /\ i + Len(buf) + 1 \in 1..pages[page]
        /\ i + 1 <= pages[page] - Goal
    BY <2>1, LookFacts
  <2>3. b \in Bytes /\ <<page + (i + Len(buf) + 1) - 1, b>> \in held
    BY <2>1, <2>2, PageFacts DEF Looked
  <2>4. CASE i' = i + 1 /\ buf' = <<>> /\ UNCHANGED spc
    <3>1. Len(buf') = 0
      BY <2>4
    <3> QED BY <1>1, <2>1, <2>2, <2>4, <3>1, SearchFacts DEF WasThere, Goal
  <2>5. CASE /\ Fits(b, query[Len(buf) + 1]) /\ Len(buf) + 1 < Goal
             /\ buf' = Append(buf, b) /\ UNCHANGED <<spc, i>>
    <3>1. /\ Len(buf') = Len(buf) + 1 /\ buf'[Len(buf) + 1] = b
          /\ \A k \in 1..Len(buf) : buf'[k] = buf[k]
      BY <2>3, <2>5, SearchFacts DEF PlaceType
    <3>2. ASSUME NEW k \in 1..Len(buf')
          PROVE  <<page + i + k - 1, buf'[k]>> \in held /\ Fits(buf'[k], query[k])
      <4>1. CASE k \in 1..Len(buf)
        BY <2>1, <2>2, <3>1, <4>1, SearchFacts DEF WasThere
      <4>2. CASE k = Len(buf) + 1
        <5>1. page + i + k - 1 = page + (i + Len(buf) + 1) - 1
          BY <4>2, <2>2, SearchFacts, PageFacts
        <5> QED BY <2>3, <2>5, <3>1, <4>2, <5>1
      <4> QED BY <3>1, <3>2, <4>1, <4>2, SearchFacts
    <3> HIDE DEF b
    <3>3. \A k \in 1..Len(buf') :
            <<page' + i' + k - 1, buf'[k]>> \in held' /\ Fits(buf'[k], query'[k])
      BY <1>1, <2>1, <2>5, <3>2
    <3> QED BY <1>1, <2>1, <2>2, <2>5, <3>1, <3>3, SearchFacts DEF WasThere, Goal, Fits
  <2>6. CASE spc' = "done"
    BY <2>6 DEF WasThere, Searching
  <2> QED BY <1>7, <2>4, <2>5, <2>6 DEF LookAtByte
<1> QED BY <1>2, <1>3, <1>4, <1>5, <1>6, <1>7 DEF Step

(* An address the client appends to what it found.                         *)
LEMMA Appended ==
  ASSUME NEW s \in Seq(Nat), NEW a \in Nat
  PROVE  /\ DOMAIN Append(s, a) = 1..Len(s) + 1 /\ DOMAIN s = 1..Len(s)
         /\ Len(s) \in Nat /\ Len(Append(s, a)) = Len(s) + 1
         /\ \A n \in 1..Len(s) : Append(s, a)[n] = s[n]
         /\ Append(s, a)[Len(s) + 1] = a
OBVIOUS

(* What the comparison does to the addresses found.                        *)
LEMMA CompareFacts ==
  ASSUME SearchInv, Compare
  PROVE  /\ Searching /\ side = "client" /\ spc = "compare"
         /\ i < Len(buf) - Goal /\ Len(buf) <= pages[page] /\ Len(out) # amount
         /\ i' = i + 1 /\ UNCHANGED <<spc, pages, page, buf>>
         /\ page + i \in Nat
         /\ out' = IF FitsAt(i) THEN Append(out, page + i) ELSE out
<1>1. Searching /\ side = "client" /\ spc = "compare"
  BY DEF Compare, Comparing, Searching
<1>2. page + i \in Nat /\ Len(buf) <= pages[page]
  BY <1>1, SearchFacts, PageFacts DEF WasThere
<1> QED BY <1>1, <1>2 DEF Compare, Comparing

(* What the library does with a byte.                                      *)
LEMMA LookAtCases ==
  ASSUME SearchInv, LookAtByte,
         NEW b, b = Looked
  PROVE  /\ side = "library" /\ spc = "read" /\ out = <<>> /\ amount = 1
         /\ page + i \in Nat
         /\ UNCHANGED <<pages, page>>
         /\ <<page + i + (Len(buf) + 1) - 1, b>> \in held
         /\ \/ ~Fits(b, query[Len(buf) + 1]) /\ i' = i + 1 /\ UNCHANGED <<spc, out>>
            \/ /\ Fits(b, query[Len(buf) + 1]) /\ Len(buf) + 1 < Goal
               /\ UNCHANGED <<spc, i, out>>
            \/ /\ Fits(b, query[Len(buf) + 1]) /\ Len(buf) + 1 = Goal
               /\ out' = <<page + i>> /\ spc' = "done" /\ UNCHANGED i
<1>1. Looking /\ side = "library" /\ spc = "read"
  BY DEF LookAtByte, Looking
<1>2. Searching /\ i + Len(buf) + 1 \in 1..pages[page]
  BY <1>1, LookFacts
<1>3. page + i \in Nat /\ out = <<>> /\ amount = 1
  BY <1>1, <1>2, SearchFacts, PageFacts DEF Behind, InputType
<1>4. <<page + i + (Len(buf) + 1) - 1, b>> \in held
  <2>1. <<page + (i + Len(buf) + 1) - 1, b>> \in held
    BY <1>1, <1>2, PageFacts DEF Looked
  <2>2. page + i + (Len(buf) + 1) - 1 = page + (i + Len(buf) + 1) - 1
    BY <1>2, SearchFacts, PageFacts
  <2> QED BY <2>1, <2>2
<1> QED BY <1>1, <1>3, <1>4 DEF LookAtByte

LEMMA StepReported ==
  ASSUME SearchInv, Step
  PROVE  ReportedWasThere'
<1>1. UNCHANGED <<side, query, mem>> /\ Goal' = Goal
  BY StepInputs DEF Goal
<1>2. CASE Start
  <2>1. DOMAIN out' = {}
    BY <1>2, SearchFacts DEF Start, Behind
  <2> QED BY <2>1 DEF ReportedWasThere
<1>3. CASE UNCHANGED <<out, held>>
  BY <1>1, <1>3, SearchFacts DEF ReportedWasThere
<1>4. CASE Compare /\ FitsAt(i)
  <2>1. /\ out \in Seq(Nat) /\ out' = Append(out, page + i) /\ UNCHANGED held
    BY <1>4, CompareFacts, SearchFacts DEF PlaceType, Compare
  <2>2. page + i \in Nat
    BY <1>4, CompareFacts
  <2>3. ASSUME NEW j \in 1..Goal
        PROVE  query[j] = Wild \/ <<page + i + j - 1, query[j]>> \in held
    <3>1. i + j \in 1..Len(buf) /\ i + j \in Int
      BY <1>4, CompareFacts, SearchFacts
    <3>2. <<page + (i + j) - 1, buf[i + j]>> \in held
      BY <1>4, <3>1, CompareFacts, SearchFacts DEF WasThere
    <3>3. page + (i + j) - 1 = page + i + j - 1
      BY <3>1, SearchFacts, CompareFacts
    <3>4. query[j] \in {buf[i + j], Wild}
      BY <1>4 DEF FitsAt, Fits
    <3> QED BY <3>2, <3>3, <3>4
  <2>4. ASSUME NEW n \in DOMAIN out', NEW j \in 1..Goal
        PROVE  query[j] = Wild \/ <<out'[n] + j - 1, query[j]>> \in held
    <3>1. CASE n \in DOMAIN out
      <4>1. out'[n] = out[n]
        BY <2>1, <2>2, <3>1, Appended
      <4> QED BY <3>1, <4>1, SearchFacts DEF ReportedWasThere
    <3>2. CASE n = Len(out) + 1
      <4>1. out'[n] = page + i
        BY <2>1, <2>2, <3>2, Appended
      <4> QED BY <2>3, <4>1
    <3>3. DOMAIN out' = 1..Len(out) + 1
      BY <2>1, <2>2, Appended
    <3> QED BY <2>4, <3>1, <3>2, <3>3, SearchFacts
  <2> QED BY <1>1, <2>1, <2>4 DEF ReportedWasThere
<1>5. CASE LookAtByte
  <2> DEFINE b == Looked
  <2>1. /\ UNCHANGED held
        /\ \/ UNCHANGED out
           \/ /\ Fits(b, query[Len(buf) + 1]) /\ Len(buf) + 1 = Goal
              /\ out' = <<page + i>>
    BY <1>5 DEF LookAtByte
  <2>2. CASE /\ Fits(b, query[Len(buf) + 1]) /\ Len(buf) + 1 = Goal
             /\ out' = <<page + i>>
    <3>1. <<page + i + (Len(buf) + 1) - 1, b>> \in held
      BY <1>5, LookAtCases
    <3>2. Searching /\ side = "library"
      BY <1>5, LookAtCases DEF Searching
    <3> HIDE DEF b
    <3>3. ASSUME NEW j \in 1..Goal
          PROVE  query[j] = Wild \/ <<page + i + j - 1, query[j]>> \in held
      <4>1. CASE j \in 1..Len(buf)
        <5>1. <<page + i + j - 1, buf[j]>> \in held /\ Fits(buf[j], query[j])
          BY <3>2, <4>1, SearchFacts DEF WasThere
        <5> QED BY <5>1 DEF Fits
      <4>2. CASE j = Len(buf) + 1
        BY <2>2, <3>1, <4>2 DEF Fits
      <4> QED BY <2>2, <3>3, <4>1, <4>2, SearchFacts
    <3>4. ASSUME NEW n \in DOMAIN out'
          PROVE  out'[n] = page + i
      BY <2>2, <3>4
    <3> QED BY <1>1, <2>1, <3>3, <3>4 DEF ReportedWasThere
  <2> QED BY <1>3, <2>1, <2>2
<1> QED BY <1>2, <1>3, <1>4, <1>5
     DEF Step, SearchEnds, NextRegion, ReadByte, ReadEnds, Compare, LookAtGone, RegionEnds

LEMMA StepBehind ==
  ASSUME SearchInv, Step
  PROVE  Behind'
<1>1. UNCHANGED <<side, query, mem, amount>>
  BY StepInputs
<1>2. CASE Start
  <2>1. out' = <<>> /\ DOMAIN out' = {}
    BY <1>2, SearchFacts DEF Start, Behind
  <2> QED BY <2>1 DEF Behind
<1>3. CASE SearchEnds \/ LookAtGone \/ ReadByte \/ ReadEnds
  <2>1. /\ UNCHANGED <<pages, page, i, out>> /\ spc' # "out" /\ (spc' = "next" => spc = "next")
        /\ (Searching' => Searching) /\ (side = "library" /\ spc' # "done" => spc # "done")
    BY <1>3 DEF SearchEnds, LookAtGone, ReadByte, ReadEnds, Looking, Searching
  <2> QED BY <1>1, <2>1, SearchFacts DEF Behind
<1>4. ASSUME NEW r \in DOMAIN pages, NextRegion(r)
      PROVE  Behind'
  <2>1. /\ page' = r /\ UNCHANGED <<pages, out>> /\ i' = 0 /\ r > page /\ spc = "next"
        /\ spc' # "done" /\ page \in DOMAIN pages \cup {-1}
    BY <1>4, SearchFacts DEF NextRegion, PlaceType
  <2>2. r \in Nat /\ pages[r] \in Nat
    BY SearchFacts
  <2>3. ASSUME NEW n \in DOMAIN out
        PROVE  out[n] < r
    <3>1. page # -1
      BY SearchFacts DEF Behind
    <3>2. out[n] < page + pages[page]
      BY <2>1, <3>1, SearchFacts DEF Behind
    <3>3. page + pages[page] <= r
      BY <2>1, <3>1, SearchFacts DEF Listed
    <3> QED BY <2>1, <2>2, <3>1, <3>2, <3>3, SearchFacts
  <2>4. \A n \in DOMAIN out' : out'[n] < page' + pages'[page'] /\ out'[n] < page' + i'
    BY <2>1, <2>2, <2>3, SearchFacts
  <2>5. page' # -1 /\ spc' # "out"
    BY <1>4, <2>1, <2>2 DEF NextRegion
  <2>6. side = "library" => out = <<>>
    BY <2>1, SearchFacts DEF Behind
  <2> QED BY <1>1, <2>1, <2>4, <2>5, <2>6, SearchFacts DEF Behind
<1>5. CASE Compare
  <2>1. /\ Searching /\ side = "client" /\ UNCHANGED <<spc, page>> /\ i' = i + 1
        /\ spc = "compare" /\ page + i \in Nat /\ page \in Nat
        /\ \A n \in DOMAIN out : out[n] < page + i
    BY <1>5, CompareFacts, PageFacts, SearchFacts DEF Behind
  <2>2. CASE UNCHANGED out
    BY <1>1, <2>1, <2>2, SearchFacts DEF Behind, Searching
  <2>3. CASE out' = Append(out, page + i)
    <3>1. out \in Seq(Nat)
      BY SearchFacts DEF PlaceType
    <3>2. DOMAIN out' = 1..Len(out) + 1
      BY <2>1, <2>3, <3>1, Appended
    <3>3. ASSUME NEW n \in DOMAIN out'
          PROVE  IF n \in DOMAIN out THEN out'[n] = out[n]
                 ELSE n = Len(out) + 1 /\ out'[n] = page + i
      BY <2>1, <2>3, <3>1, <3>2, Appended
    <3>4. \A n \in DOMAIN out' : out'[n] < page' + i'
      BY <2>1, <3>3, SearchFacts
    <3>5. \A m, n \in DOMAIN out' : m < n => out'[m] < out'[n]
      BY <2>1, <3>2, <3>3, SearchFacts DEF Behind
    <3> QED BY <1>1, <2>1, <3>4, <3>5 DEF Behind, Searching
  <2> QED BY <1>5, <2>2, <2>3, CompareFacts
<1>6. CASE LookAtByte
  <2>1. /\ side = "library" /\ out = <<>> /\ page \in Nat /\ UNCHANGED page
        /\ \/ UNCHANGED <<spc, out>>
           \/ spc' = "done" /\ out' = <<page + i>>
    BY <1>6, LookAtCases, PageFacts DEF Searching
  <2>2. CASE UNCHANGED <<spc, out>>
    <3>1. DOMAIN out' = {}
      BY <2>1, <2>2
    <3> QED BY <2>1, <2>2, <3>1 DEF Behind
  <2>3. CASE spc' = "done" /\ out' = <<page + i>>
    <3>1. DOMAIN out' = {1}
      BY <2>3
    <3> QED BY <2>1, <2>3, <3>1 DEF Behind, Searching
  <2> QED BY <2>1, <2>2, <2>3
<1>7. CASE RegionEnds
  <2>1. Searching /\ spc' = "next" /\ UNCHANGED <<page, pages, out>>
    BY <1>7 DEF RegionEnds, Searching
  <2>2. page + i <= page + pages[page] /\ page \in Nat /\ page + i \in Nat
    <3>1. side \in {"client", "library"}
      BY SearchFacts DEF InputType
    <3> QED BY <2>1, <3>1, SearchFacts, PageFacts DEF WasThere
  <2>3. \A n \in DOMAIN out : out[n] < page + pages[page]
    BY <2>1, <2>2, SearchFacts, PageFacts DEF Behind
  <2>4. side = "library" => out = <<>>
    BY <2>1, SearchFacts DEF Behind, Searching
  <2> QED BY <1>1, <2>1, <2>2, <2>3, <2>4, SearchFacts DEF Behind, Searching
<1> QED BY <1>2, <1>3, <1>4, <1>5, <1>6, <1>7 DEF Step

-----------------------------------------------------------------------------
(* What stays: no action leaves a match behind.                            *)

(* A match that stays where it is and that the search may come to.         *)
Stays(r, x) ==
  /\ spc \notin {"out", "crashed"} /\ <<r, x>> \in kept
  /\ Searched(r)

FoundOrAhead(r, x) == Found(r + x) \/ (spc # "done" /\ Ahead(r, x))

LEMMA StaysFacts ==
  ASSUME SearchInv, NEW r, NEW x, Stays(r, x)
  PROVE  /\ r \in DOMAIN mem /\ r \in DOMAIN pages /\ r \in Nat /\ pages[r] \in Nat
         /\ x \in Nat /\ x < pages[r] - Goal
         /\ \A k \in 1..x + Goal + 1 : mem[r][k] # Gone
         /\ \A j \in 1..Goal : Fits(mem[r][x + j], query[j])
         /\ FoundOrAhead(r, x)
<1> DEFINE h == <<r, x>>
<1>1. h \in kept /\ h \in Hits(mem) /\ h[1] = r /\ h[2] = x
  BY SearchFacts DEF Stays, Listed
<1>2. /\ r \in DOMAIN mem /\ x \in 0..Len(mem[r]) /\ Reaches(mem[r], x + Goal + 1)
      /\ \A j \in 1..Goal : Fits(mem[r][x + j], query[j])
  BY <1>1, HitFits
<1>3. r \in DOMAIN pages /\ Len(mem[r]) = pages[r]
  BY <1>2, SearchFacts DEF Stays, Listed
<1>4. FoundOrAhead(r, x)
  BY <1>1, SearchFacts DEF NoneOverlooked, Stays, FoundOrAhead
<1>5. r \in Nat /\ pages[r] \in Nat /\ Goal \in Nat
  BY <1>3, SearchFacts
<1>6. x < pages[r] - Goal /\ \A k \in 1..x + Goal + 1 : mem[r][k] # Gone
  BY <1>2, <1>3, <1>5 DEF Reaches
<1> HIDE DEF h
<1> QED BY <1>2, <1>3, <1>4, <1>5, <1>6

LEMMA FoundStays ==
  ASSUME SearchInv, Step, NEW a, Found(a)
  PROVE  Found(a)'
<1>1. UNCHANGED amount
  BY StepInputs
<1>2. CASE UNCHANGED out
  BY <1>1, <1>2 DEF Found
<1>3. CASE Compare /\ out' = Append(out, page + i)
  <2>1. out \in Seq(Nat) /\ page + i \in Nat /\ Len(out) # amount
    BY <1>3, CompareFacts, SearchFacts DEF PlaceType
  <2>2. PICK n \in DOMAIN out : out[n] = a
    BY <2>1 DEF Found
  <2>3. n \in DOMAIN out' /\ out'[n] = a
    BY <1>3, <2>1, <2>2, Appended
  <2> QED BY <2>3 DEF Found
<1>4. CASE LookAtByte
  <2>1. out = <<>> /\ amount = 1
    BY <1>4, LookAtCases
  <2> QED BY <2>1 DEF Found
<1> QED BY <1>2, <1>3, <1>4
     DEF Step, Start, SearchEnds, NextRegion, ReadByte, ReadEnds, Compare, LookAtGone, RegionEnds

LEMMA NextOverlooksNone ==
  ASSUME SearchInv, NEW q \in DOMAIN pages, NextRegion(q),
         NEW r, NEW x, Stays(r, x), Ahead(r, x)
  PROVE  FoundOrAhead(r, x)'
<1>1. /\ spc = "next" /\ page' = q /\ q > page /\ UNCHANGED <<side, query>>
      /\ \A s \in DOMAIN pages : s > page => s >= q
      /\ buf' = <<>> /\ i' = 0 /\ spc' # "done" /\ Len(buf') = 0
      /\ Skip(q) \/ spc' = "read"
  BY DEF NextRegion, inputVars
<1>2. q \in Nat /\ r >= q
  BY <1>1, StaysFacts, SearchFacts DEF Ahead, Searching
<1>3. CASE r > q
  BY <1>1, <1>3 DEF FoundOrAhead, Ahead
<1>4. CASE r = q
  <2>1. ~Skip(q)
    BY <1>4, StaysFacts, SearchFacts DEF Skip, Stays, Searched
  <2>2. \A j \in 1..Goal : ~(x + j <= 0)
    BY StaysFacts, SearchFacts
  <2> QED BY <1>1, <1>4, <2>1, <2>2, StaysFacts DEF FoundOrAhead, Ahead, Searching, Goal
<1> QED BY <1>2, <1>3, <1>4, StaysFacts

LEMMA ReadOverlooksNone ==
  ASSUME SearchInv, ReadByte, NEW r, NEW x, Stays(r, x), Ahead(r, x)
  PROVE  FoundOrAhead(r, x)'
<1>1. /\ spc = "read" /\ mem[page][Len(buf) + 1] # Gone /\ Searching
      /\ UNCHANGED <<side, query, spc, page, i>>
      /\ buf' = Append(buf, mem[page][Len(buf) + 1])
  BY DEF ReadByte, Readable, inputVars, Searching
<1>2. CASE r > page
  BY <1>1, <1>2 DEF FoundOrAhead, Ahead
<1>3. CASE r = page /\ x >= i
  <2>1. mem[page][Len(buf) + 1] \in Bytes
    <3>1. Len(buf) + 1 \in 1..pages[page]
      BY <1>1, SearchFacts, PageFacts DEF ReadByte, Readable
    <3> QED BY <1>1, <3>1, PageFacts
  <2>2. /\ Len(buf') = Len(buf) + 1
        /\ \A k \in 1..Len(buf) : buf'[k] = buf[k]
        /\ buf'[Len(buf) + 1] = mem[page][Len(buf) + 1]
    BY <1>1, <2>1, SearchFacts DEF PlaceType
  <2>3. ASSUME NEW j \in 1..Goal, x + j <= Len(buf')
        PROVE  Fits(buf'[x + j], query[j])
    <3>1. CASE x + j <= Len(buf)
      <4>1. x + j \in 1..Len(buf) /\ side = "client" /\ ~(r > page)
        BY <1>3, <3>1, StaysFacts, SearchFacts, PageFacts, <1>1 DEF ReadByte
      <4> QED BY <2>2, <3>1, <4>1 DEF Ahead
    <3>2. CASE x + j = Len(buf) + 1
      BY <1>3, <2>2, <3>2, StaysFacts
    <3>3. x + j \in Nat /\ Len(buf) \in Nat
      BY StaysFacts, SearchFacts
    <3> QED BY <2>2, <2>3, <3>1, <3>2, <3>3
  <2>4. \A j \in 1..Goal' : x + j <= Len(buf') => Fits(buf'[x + j], query'[j])
    BY <1>1, <2>3 DEF Goal
  <2>5. spc' = "read" /\ page' = page /\ i' = i
    BY <1>1
  <2> QED BY <1>3, <2>4, <2>5 DEF FoundOrAhead, Ahead, Searching, Fits
<1> QED BY <1>2, <1>3 DEF Ahead

LEMMA EndOfReadOverlooksNone ==
  ASSUME SearchInv, ReadEnds, NEW r, NEW x, Stays(r, x), Ahead(r, x)
  PROVE  FoundOrAhead(r, x)'
<1>1. /\ side = "client" /\ ~Readable /\ spc' = "compare" /\ Searching
      /\ UNCHANGED <<side, query, pages, page, buf, i>>
  BY DEF ReadEnds, inputVars, Searching
<1>2. CASE r > page
  BY <1>1, <1>2 DEF FoundOrAhead, Ahead
<1>3. CASE r = page
  <2>1. Len(buf) > x + Goal
    <3>1. CASE Len(buf) >= pages[r]
      BY <3>1, StaysFacts, SearchFacts
    <3>2. CASE mem[r][Len(buf) + 1] = Gone
      <4>1. Len(buf) + 1 \notin 1..x + Goal + 1
        BY <3>2, StaysFacts
      <4> QED BY <4>1, StaysFacts, SearchFacts
    <3> QED BY <1>1, <1>3, <3>1, <3>2, StaysFacts, SearchFacts DEF Readable
  <2>2. Goal' = Goal
    BY <1>1 DEF Goal
  <2>3. ~(r > page)
    BY <1>3, SearchFacts
  <2> QED BY <1>1, <1>3, <2>1, <2>2, <2>3 DEF FoundOrAhead, Ahead, Searching, Goal, Fits
<1> QED BY <1>2, <1>3 DEF Ahead

LEMMA CompareOverlooksNone ==
  ASSUME SearchInv, Compare, NEW r, NEW x, Stays(r, x), Ahead(r, x)
  PROVE  FoundOrAhead(r, x)'
<1>1. /\ spc = "compare" /\ side = "client" /\ Searching /\ i' = i + 1
      /\ UNCHANGED <<side, query, spc, pages, page, buf>>
  BY CompareFacts DEF Compare, inputVars
<1>2. CASE r > page
  BY <1>1, <1>2 DEF FoundOrAhead, Ahead
<1>3. CASE r = page /\ x = i
  <2>1. /\ Len(buf) > x + Goal
        /\ \A j \in 1..Goal : x + j <= Len(buf) => Fits(buf[x + j], query[j])
    BY <1>1, <1>3, SearchFacts DEF Ahead
  <2>2. FitsAt(i)
    BY <1>3, <2>1, StaysFacts, SearchFacts DEF FitsAt
  <2>3. out' = Append(out, page + i) /\ out \in Seq(Nat) /\ page + i \in Nat
    BY <2>2, CompareFacts, SearchFacts DEF PlaceType
  <2>4. Len(out) + 1 \in DOMAIN out' /\ out'[Len(out) + 1] = r + x
    BY <1>3, <2>3, Appended
  <2> QED BY <2>4 DEF FoundOrAhead, Found
<1>4. CASE r = page /\ x >= i /\ x # i
  <2>1. x >= i + 1 /\ ~(r > page)
    BY <1>4, StaysFacts, SearchFacts
  <2>2. Goal' = Goal
    BY <1>1 DEF Goal
  <2> QED BY <1>1, <1>4, <2>1, <2>2 DEF FoundOrAhead, Ahead, Searching, Goal, Fits
<1> QED BY <1>2, <1>3, <1>4 DEF Ahead

LEMMA LookOverlooksNone ==
  ASSUME SearchInv, LookAtByte, NEW r, NEW x, Stays(r, x), Ahead(r, x)
  PROVE  FoundOrAhead(r, x)'
<1> DEFINE b == Looked
<1>1. /\ Looking /\ Searching /\ Len(buf) < Goal /\ i + 1 <= pages[page] - Goal
      /\ UNCHANGED <<side, query, amount>>
  BY LookFacts DEF LookAtByte, inputVars
<1>2. /\ side = "library" /\ spc = "read" /\ page \in Nat /\ amount = 1 /\ UNCHANGED page
      /\ \/ ~Fits(b, query[Len(buf) + 1]) /\ i' = i + 1 /\ UNCHANGED <<spc, out>>
         \/ UNCHANGED <<spc, i, out>>
         \/ /\ Fits(b, query[Len(buf) + 1]) /\ Len(buf) + 1 = Goal
            /\ out' = <<page + i>> /\ spc' = "done"
  BY <1>1, LookAtCases, PageFacts
<1>3. CASE UNCHANGED <<spc, i, out>>
  BY <1>1, <1>2, <1>3 DEF FoundOrAhead, Ahead, Searching
<1>4. CASE ~Fits(b, query[Len(buf) + 1]) /\ i' = i + 1 /\ UNCHANGED <<spc, out>>
  <2>1. CASE r > page
    BY <1>2, <1>4, <2>1 DEF FoundOrAhead, Ahead
  <2>2. CASE r = page /\ x >= i
    <3>1. x # i
      <4> SUFFICES ASSUME x = i PROVE FALSE
        OBVIOUS
      <4>1. Len(buf) + 1 \in 1..Goal /\ x + (Len(buf) + 1) = i + Len(buf) + 1
        BY <1>1, SearchFacts
      <4>2. Fits(mem[r][x + (Len(buf) + 1)], query[Len(buf) + 1])
        BY <4>1, StaysFacts
      <4> QED BY <1>4, <2>2, <4>1, <4>2 DEF Looked
    <3>2. x >= i + 1
      BY <2>2, <3>1, StaysFacts, SearchFacts
    <3> HIDE DEF b
    <3> QED BY <1>1, <1>2, <1>4, <2>2, <3>2 DEF FoundOrAhead, Ahead, Searching
  <2> QED BY <2>1, <2>2 DEF Ahead
<1>5. CASE out' = <<page + i>> /\ spc' = "done"
  <2>1. Len(out') = 1 /\ DOMAIN out' = {1} /\ out'[1] = page + i
    BY <1>5
  <2>2. page + i = r + x \/ page + i < r + x
    <3>1. CASE r > page
      <4>1. page + pages[page] <= r
        BY <1>1, <3>1, StaysFacts, PageFacts, SearchFacts DEF Listed, Stays
      <4> QED BY <1>1, <4>1, StaysFacts, PageFacts, SearchFacts
    <3>2. CASE r = page /\ x >= i
      BY <1>2, <3>2, StaysFacts, SearchFacts
    <3> QED BY <3>1, <3>2 DEF Ahead
  <2> QED BY <1>1, <1>2, <2>1, <2>2 DEF FoundOrAhead, Found
<1> HIDE DEF b
<1> QED BY <1>2, <1>3, <1>4, <1>5

LEMMA EndOfRegionOverlooksNone ==
  ASSUME SearchInv, RegionEnds, NEW r, NEW x, Stays(r, x), Ahead(r, x)
  PROVE  FoundOrAhead(r, x)'
<1>1. /\ Searching /\ spc' = "next" /\ UNCHANGED <<side, query, amount, page, out>>
      /\ \/ spc = "compare" /\ ~Comparing
         \/ spc = "read" /\ side = "library" /\ ~Looking
  BY DEF RegionEnds, inputVars, Searching
<1>2. CASE r > page
  BY <1>1, <1>2 DEF FoundOrAhead, Ahead
<1>3. CASE r = page /\ x >= i
  <2>1. side \in {"client", "library"} /\ (side = "library" => spc = "read")
    BY <1>1, SearchFacts DEF InputType, WasThere
  <2>2. CASE side = "library"
    <3>1. i >= pages[page] - Goal
      BY <1>1, <2>1, <2>2, PageFacts, SearchFacts DEF Looking
    <3> QED BY <1>3, <3>1, StaysFacts, SearchFacts
  <2>3. CASE side = "client"
    <3>1. spc = "compare" /\ (Len(out) = amount \/ i >= Len(buf) - Goal)
      BY <1>1, <2>3, SearchFacts DEF Comparing
    <3>2. Len(buf) > x + Goal
      BY <1>3, <2>3, <3>1, PageFacts, <1>1 DEF Ahead
    <3>3. Len(out) = amount
      BY <1>3, <3>1, <3>2, StaysFacts, SearchFacts
    <3>4. \A n \in DOMAIN out : out[n] < r + x
      BY <1>1, <1>3, StaysFacts, SearchFacts DEF Behind
    <3> QED BY <1>1, <3>3, <3>4 DEF FoundOrAhead, Found
  <2> QED BY <2>1, <2>2, <2>3
<1> QED BY <1>2, <1>3 DEF Ahead

LEMMA StepOverlooked ==
  ASSUME SearchInv, Step
  PROVE  NoneOverlooked'
<1>1. UNCHANGED <<side, query, mem>>
  BY StepInputs
<1>2. CASE Start
  <2>1. /\ page' = -1 /\ spc' = "next" /\ kept' = Hits(mem)
    BY <1>2 DEF Start
  <2>2. \A h \in kept' : h[1] \in Nat
    BY <2>1, HitFits, SearchFacts DEF MemType
  <2> QED BY <2>1, <2>2 DEF NoneOverlooked, Ahead
<1>3. CASE ~Start
  <2> SUFFICES ASSUME spc' \notin {"out", "crashed"}, NEW h \in kept',
                      Searched(h[1])'
               PROVE  FoundOrAhead(h[1], h[2])'
    BY DEF NoneOverlooked, FoundOrAhead
  <2>1. UNCHANGED <<pages, kept>>
    BY <1>3, StepInputs
  <2>2. h \in kept /\ Searched(h[1])
    BY <1>1, <2>1 DEF Searched
  <2>3. spc \in {"next", "read", "compare"} /\ ~LookAtGone
    BY <1>3 DEF Step, SearchEnds, NextRegion, ReadByte, ReadEnds, Compare, LookAtByte,
                LookAtGone, RegionEnds, Comparing, Looking
  <2>4. h = <<h[1], h[2]>>
    BY <2>2, <2>3, SearchFacts, HitFits DEF Listed
  <2>5. Stays(h[1], h[2])
    BY <2>2, <2>3, <2>4 DEF Stays
  <2>6. CASE Found(h[1] + h[2])
    BY <2>6, FoundStays DEF FoundOrAhead
  <2>7. CASE Ahead(h[1], h[2])
    <3>1. ~SearchEnds
      BY <2>5, <2>7, StaysFacts, SearchFacts DEF SearchEnds, Ahead, Searching
    <3> QED BY <1>3, <2>3, <2>5, <2>7, <3>1, NextOverlooksNone, ReadOverlooksNone,
               EndOfReadOverlooksNone, CompareOverlooksNone, LookOverlooksNone,
               EndOfRegionOverlooksNone DEF Step
  <2> QED BY <2>5, <2>6, <2>7, StaysFacts DEF FoundOrAhead
<1> QED BY <1>2, <1>3

-----------------------------------------------------------------------------
(* The theorems.                                                           *)

LEMMA InitHolds == SearchInit => SearchInv
<1> SUFFICES ASSUME SearchInit PROVE SearchInv
  OBVIOUS
<1>1. spc = "out" /\ out = <<>> /\ DOMAIN out = {}
  BY DEF SearchInit
<1> QED BY <1>1, InitTypes
        DEF SearchInv, Listed, WasThere, Searching, ReportedWasThere, Behind, NoneOverlooked

LEMMA NextHolds == SearchInv /\ [SearchNext]_searchVars => SearchInv'
<1> SUFFICES ASSUME SearchInv, [SearchNext]_searchVars PROVE SearchInv'
  OBVIOUS
<1>1. CASE GameWrites \/ GameUnmaps
  <2>1. Game
    BY <1>1, GameRemains, SearchFacts
  <2> QED BY <2>1, GameTypes, GameListed, GameRest, SearchFacts DEF SearchInv
<1>2. CASE Step
  BY <1>2, StepTypes, StepListed, StepWasThere, StepReported, StepBehind, StepOverlooked
     DEF SearchInv
<1>3. CASE UNCHANGED searchVars
  <2>1. SearchTypeOK'
    BY <1>3, SearchFacts
       DEF searchVars, inputVars, SearchTypeOK, InputType, MemType, PlaceType, Searching
  <2>2. Held(mem)' = Held(mem) /\ Hits(mem)' = Hits(mem)
    BY <1>3 DEF searchVars, inputVars, Held, Hits, Reaches, Goal, Fits
  <2>3. Listed'
    BY <1>3, <2>2, SearchFacts DEF searchVars, Listed
  <2>4. WasThere' /\ ReportedWasThere'
    BY <1>3, SearchFacts
       DEF searchVars, inputVars, WasThere, ReportedWasThere, Searching, Goal, Fits
  <2>5. Behind' /\ NoneOverlooked'
    BY <1>3, SearchFacts DEF searchVars, inputVars, Behind, NoneOverlooked, Searching,
       Ahead, Found, Searched, Goal, Fits
  <2> QED BY <2>1, <2>3, <2>4, <2>5 DEF SearchInv
<1> QED BY <1>1, <1>2, <1>3 DEF SearchNext, Step

(* The invariant, its types included, holds of every search.               *)
THEOREM Inductive == SearchSpec => []SearchInv
BY InitHolds, NextHolds, PTL DEF SearchSpec

(* Every byte of a reported match was in its place at some time during the *)
(* search (proc_util.cpp:165-179, memory_linux.cpp:68-86).                 *)
THEOREM WasThereOnce == SearchSpec => []ReportedWasThere
<1>1. SearchInv => ReportedWasThere
  BY DEF SearchInv
<1> QED BY <1>1, Inductive, PTL

(* A match that stays where it is, in memory that is searched, is found    *)
(* when there is room for it, if every byte of its region up to the one    *)
(* after it can be read all the while; the game may take away or protect   *)
(* any other part of memory (proc_util.cpp:166-171, memory_linux.cpp:68).  *)
THEOREM MissesNone == SearchSpec => []NoneMissed
<1>1. SearchInv => NoneMissed
  BY SearchFacts DEF NoneOverlooked, NoneMissed
<1> QED BY <1>1, Inductive, PTL

=============================================================================
