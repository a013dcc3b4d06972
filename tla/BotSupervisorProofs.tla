-------------------------- MODULE BotSupervisorProofs --------------------------
(***************************************************************************)
(* Proofs about BotSupervisor, for any number of calls of createWindow, of *)
(* processes that end, of flash processes, and for any failing calls.      *)
(***************************************************************************)
EXTENDS BotSupervisor, FiniteSetTheorems, TLAPS

USE SupervisorAssumption
USE DEF TypeOK, WorldType, KeptType, PlaceType, worldVars, shmVars, keptVars,
        countVars, clientVars, None

(***************************************************************************)
(* Counting browsers.                                                      *)
(***************************************************************************)

LEMMA Finite ==
  ASSUME NEW S \in SUBSET Browsers
  PROVE  IsFiniteSet(S) /\ Cardinality(S) \in Nat
<1>1. IsFiniteSet(Browsers)
    BY FS_Interval DEF Browsers
<1>2. QED
    BY <1>1, FS_Subset, FS_CardinalityType

LEMMA Fewer ==
  ASSUME NEW S \in SUBSET Browsers, NEW T \in SUBSET S
  PROVE  Cardinality(T) <= Cardinality(S)
BY Finite, FS_Subset

LEMMA AllButOne ==
  ASSUME NEW S \in SUBSET Browsers, NEW b
  PROVE  /\ Cardinality(S \ {b}) \in Nat /\ Cardinality(S) \in Nat
         /\ Cardinality(S \ {b}) <= Cardinality(S)
         /\ Cardinality(S) <= Cardinality(S \ {b}) + 1
BY Finite, FS_RemoveElement

(* There is a browser left to launch: the ones launched run or have ended. *)
LEMMA Room ==
  ASSUME TypeOK, Lives, Supervised, Launching
  PROVE  nb + 1 \in Browsers
<1>1. Up \cup Ended = 1..nb
    BY DEF Lives, Up, Ended, Life, Browsers
<1>2. IsFiniteSet(Up) /\ IsFiniteSet(Ended)
    BY Finite DEF Up, Ended
<1>3. /\ Cardinality(1..nb) = nb
      /\ Cardinality(Up \cap Ended) \in Nat
  <2>1. nb \in Nat
      BY DEF Browsers
  <2>2. Up \cap Ended \in SUBSET Browsers
      BY DEF Up
  <2>3. Cardinality(1..nb) = IF 1 > nb THEN 0 ELSE nb - 1 + 1
      BY <2>1, FS_Interval
  <2>4. QED
      BY <2>1, <2>2, <2>3, Finite
<1>4. nb <= Cardinality(Up) + Cardinality(Ended)
  <2>1. Cardinality(Up) \in Nat /\ Cardinality(Ended) \in Nat
      BY <1>2, FS_CardinalityType
  <2>2. Cardinality(Up \cup Ended)
          = Cardinality(Up) + Cardinality(Ended) - Cardinality(Up \cap Ended)
      BY <1>2, FS_Union
  <2>3. nb \in Nat
      BY DEF Browsers
  <2>4. nb = Cardinality(Up) + Cardinality(Ended) - Cardinality(Up \cap Ended)
      BY <1>1, <1>3, <2>2
  <2>5. QED
      BY <1>3, <2>1, <2>3, <2>4
<1>5. Cardinality(Up) + 1 <= MaxCreates /\ Cardinality(Ended) <= MaxDeaths
    BY <1>2, FS_CardinalityType DEF Supervised, Lives, Launching
<1>6. QED
    BY <1>2, <1>4, <1>5, FS_CardinalityType DEF Browsers

(***************************************************************************)
(* Initially.                                                              *)
(***************************************************************************)

LEMMA InitInv == Init => IInv
<1> SUFFICES ASSUME Init PROVE IInv
    OBVIOUS
<1>1. TypeOK
  <2>1. WorldType
      BY DEF Init, Life
  <2>2. KeptType
      BY DEF Init
  <2>3. PlaceType
    <3>1. creates \in 0..MaxCreates
        BY DEF Init
    <3>2. QED
        BY <3>1 DEF Init
  <2>4. QED
      BY <2>1, <2>2, <2>3
<1>2. Up = {} /\ Ended = {}
    BY DEF Init, Up, Ended
<1>3. Lives /\ Supervised
    BY <1>2, FS_EmptySet DEF Init, Lives, Supervised, Launching, Newest,
                             Browsers, FlashPids
<1>4. Places /\ KeptBelongs /\ Together /\ NothingLeaks /\ Alone /\ Cuttable
    BY DEF Init, Places, KeptBelongs, Together, NothingLeaks, Alone, Cuttable
<1>5. QED
    BY <1>1, <1>3, <1>4 DEF IInv

(***************************************************************************)
(* Type correctness.                                                       *)
(***************************************************************************)

LEMMA WorldTypeStep == ASSUME IInv, Next PROVE WorldType'
<1> USE DEF Life
<1>0. TypeOK
    BY DEF IInv
<1>1. ASSUME NEW f \in FlashPids, NEW b \in Browsers, SpawnFlash(f, b)
      PROVE  WorldType'
    BY <1>0, <1>1 DEF SpawnFlash
<1>2. ASSUME NEW f \in FlashPids, FlashEnds(f) \/ FlashReaped(f) PROVE WorldType'
    BY <1>0, <1>2 DEF FlashEnds, FlashReaped
<1>3. ASSUME NEW b \in Browsers, BrowserEnds(b) PROVE WorldType'
    BY <1>0, <1>3 DEF BrowserEnds
<1>4. CASE SigchldHandler
    BY <1>0, <1>4 DEF SigchldHandler, Zombies
<1>5. CASE Exit
    BY <1>0, <1>5 DEF Exit
<1>6. CASE Fork
  <2>1. nb + 1 \in Browsers
      BY <1>6, Room DEF Fork, Launching, IInv
  <2>2. QED
      BY <1>0, <1>6, <2>1 DEF Fork
<1>7. CASE Calls
    BY <1>0, <1>7 DEF Calls, CreateWindow, CallIsValid, CallFlash, CallBrowser,
                      QueryMemory
<1>8. CASE \/ ForkFails \/ Launched \/ CheckBrowser \/ Find \/ FindSpins
           \/ CheckFlash \/ Reset
           \/ Command \/ Connect \/ ConnectFails \/ Write
           \/ Attach \/ AttachFails \/ GetSet \/ GetSetFails \/ Ring
    BY <1>0, <1>8 DEF ForkFails, Launched, CheckBrowser, Find, FindSpins,
                      CheckFlash, Reset, Command, Connect, ConnectFails, Write, Attach,
                      AttachFails, GetSet, GetSetFails, Ring
<1>9. QED
    BY <1>1, <1>2, <1>3, <1>4, <1>5, <1>6, <1>7, <1>8 DEF Next, World, BotStep

LEMMA KeptTypeStep == ASSUME IInv, Next PROVE KeptType'
<1>0. TypeOK /\ Places
    BY DEF IInv
<1>1. CASE World
    BY <1>0, <1>1 DEF World, SpawnFlash, FlashEnds, FlashReaped, BrowserEnds,
                      SigchldHandler
<1>2. CASE Calls \/ Exit
    BY <1>0, <1>2 DEF Calls, CreateWindow, CallIsValid, CallFlash, CallBrowser,
                      QueryMemory, Exit
<1>3. CASE \/ Fork \/ CheckBrowser \/ FindSpins \/ CheckFlash
           \/ Command \/ ConnectFails \/ Write \/ Ring
    BY <1>0, <1>3 DEF Fork, CheckBrowser, FindSpins, CheckFlash, Command,
                      ConnectFails, Write, Ring
<1>4. CASE ForkFails
    BY <1>0, <1>4 DEF ForkFails, LaunchReturns, Fails, MayFail
<1>5. CASE Launched
    BY <1>0, <1>5 DEF Launched, LaunchReturns, Places
<1>6. CASE Find
    BY <1>0, <1>6 DEF Find, Players
<1>7. CASE Reset
    BY <1>0, <1>7 DEF Reset
<1>8. CASE Connect
    BY <1>0, <1>8 DEF Connect
<1>9. CASE Attach \/ GetSet
    BY <1>0, <1>9 DEF Attach, GetSet, Places
<1>10. CASE AttachFails \/ GetSetFails
    BY <1>0, <1>10 DEF AttachFails, GetSetFails, Fails, MayFail
<1>11. QED
    BY <1>1, <1>2, <1>3, <1>4, <1>5, <1>6, <1>7, <1>8, <1>9, <1>10
    DEF Next, BotStep

LEMMA PlaceTypeStep == ASSUME IInv, Next PROVE PlaceType'
<1>0. TypeOK
    BY DEF IInv
<1>1. CASE World
    BY <1>0, <1>1 DEF World, SpawnFlash, FlashEnds, FlashReaped, BrowserEnds,
                      SigchldHandler
<1>2. CASE CreateWindow
    BY <1>0, <1>2 DEF CreateWindow
<1>3. CASE CallIsValid \/ CallFlash \/ CallBrowser \/ QueryMemory \/ Exit
    BY <1>0, <1>3 DEF CallIsValid, CallFlash, CallBrowser, QueryMemory, Exit
<1>4. CASE Fork \/ ForkFails \/ Launched
    BY <1>0, <1>4 DEF Fork, ForkFails, Launched, LaunchReturns, CommandReturns
<1>5. CASE CheckBrowser \/ Find \/ FindSpins \/ CheckFlash \/ Reset
    BY <1>0, <1>5 DEF CheckBrowser, Find, FindSpins, CheckFlash, Reset, Valid
<1>6. CASE Command \/ Connect \/ ConnectFails \/ Write
    BY <1>0, <1>6 DEF Command, Connect, ConnectFails, Write, CommandReturns
<1>7. CASE Attach \/ AttachFails \/ GetSet \/ GetSetFails \/ Ring
    BY <1>0, <1>7 DEF Attach, AttachFails, GetSet, GetSetFails, Ring
<1>8. QED
    BY <1>1, <1>2, <1>3, <1>4, <1>5, <1>6, <1>7 DEF Next, Calls, BotStep

(***************************************************************************)
(* The processes, and where the client is.                                 *)
(***************************************************************************)

LEMMA LivesStep == ASSUME IInv, Next PROVE Lives'
<1> USE DEF Lives, Life
<1>0. TypeOK /\ Lives /\ Places
    BY DEF IInv
<1>1. ASSUME NEW f \in FlashPids, NEW b \in Browsers, SpawnFlash(f, b)
      PROVE  Lives'
    BY <1>0, <1>1 DEF SpawnFlash, Ended, FlashPids
<1>2. ASSUME NEW f \in FlashPids, FlashEnds(f) PROVE Lives'
    BY <1>0, <1>2 DEF FlashEnds, Ended, FlashPids
<1>3. ASSUME NEW f \in FlashPids, FlashReaped(f) PROVE Lives'
    BY <1>0, <1>3 DEF FlashReaped, Ended, FlashPids
<1>4. ASSUME NEW b \in Browsers, BrowserEnds(b) PROVE Lives'
  <2>1. Ended' = Ended \cup {b}
      BY <1>0, <1>4 DEF BrowserEnds, Ended
  <2>2. Ended \in SUBSET Browsers
      BY DEF Ended
  <2>3. Cardinality(Ended') <= MaxDeaths
      BY <1>4, <2>1, <2>2, Finite, FS_AddElement DEF BrowserEnds
  <2>4. QED
      BY <1>0, <1>4, <2>3 DEF BrowserEnds
<1>5. CASE SigchldHandler
    BY <1>0, <1>5 DEF SigchldHandler, Zombies, Ended
<1>6. CASE Exit
    BY <1>0, <1>6 DEF Exit
<1>7. CASE Fork
  <2>1. nb + 1 \in Browsers
      BY <1>7, Room DEF Fork, Launching, IInv
  <2>2. Ended' = Ended
      BY <1>0, <1>7, <2>1 DEF Fork, Ended, Browsers
  <2>3. \A b \in Browsers : browser'[b] # "none" <=> b <= nb'
      BY <1>0, <1>7, <2>1 DEF Fork, Browsers
  <2>4. QED
      BY <1>0, <1>7, <2>2, <2>3 DEF Fork
<1>8. CASE Calls
    BY <1>0, <1>8 DEF Calls, CreateWindow, CallIsValid, CallFlash, CallBrowser,
                      QueryMemory, Ended
<1>9. CASE ForkFails \/ Launched
    BY <1>0, <1>9 DEF ForkFails, Launched, LaunchReturns, CommandReturns, Ended
<1>10. CASE Find
    BY <1>0, <1>10 DEF Find, Players, Valid, Ended
<1>11. CASE CheckBrowser \/ FindSpins \/ CheckFlash \/ Reset
    BY <1>0, <1>11 DEF CheckBrowser, FindSpins, CheckFlash, Reset, Valid, Ended
<1>12. CASE Command \/ Connect \/ ConnectFails \/ Write
    BY <1>0, <1>12 DEF Command, Connect, ConnectFails, Write, CommandReturns,
                       Ended
<1>13. CASE Attach \/ AttachFails \/ GetSet \/ GetSetFails \/ Ring
    BY <1>0, <1>13 DEF Attach, AttachFails, GetSet, GetSetFails, Ring, Ended
<1>14. QED
    BY <1>1, <1>2, <1>3, <1>4, <1>5, <1>6, <1>7, <1>8, <1>9, <1>10, <1>11,
       <1>12, <1>13
    DEF Next, World, BotStep

LEMMA PlacesStep == ASSUME IInv, Next PROVE Places'
<1> USE DEF Places, BrowserLost
<1>0. TypeOK /\ Lives /\ Places
    BY DEF IInv
<1>1. ASSUME NEW f \in FlashPids, NEW b \in Browsers, SpawnFlash(f, b)
      PROVE  Places'
    BY <1>0, <1>1 DEF SpawnFlash
<1>2. ASSUME NEW f \in FlashPids, FlashEnds(f) \/ FlashReaped(f) PROVE Places'
    BY <1>0, <1>2 DEF FlashEnds, FlashReaped
<1>3. ASSUME NEW b \in Browsers, BrowserEnds(b) PROVE Places'
    BY <1>0, <1>3 DEF BrowserEnds
<1>4. CASE SigchldHandler
    BY <1>0, <1>4 DEF SigchldHandler, Zombies
<1>5. CASE Calls \/ Exit
    BY <1>0, <1>5 DEF Calls, CreateWindow, CallIsValid, CallFlash, CallBrowser,
                      QueryMemory, Exit
<1>6. CASE Fork
  <2>1. nb + 1 \in Browsers
      BY <1>6, Room DEF Fork, Launching, IInv
  <2>2. QED
      BY <1>0, <1>6, <2>1 DEF Fork, Lives, Browsers
<1>7. CASE ForkFails \/ Launched
    BY <1>0, <1>7 DEF ForkFails, Launched, LaunchReturns, CommandReturns
<1>8. CASE CheckBrowser \/ Find \/ FindSpins
    BY <1>0, <1>8 DEF CheckBrowser, Find, FindSpins, Players, FlashPids, Valid
<1>9. CASE CheckFlash \/ Reset
    BY <1>0, <1>9 DEF CheckFlash, Reset, FlashLost, Valid
<1>10. CASE Command \/ Connect \/ ConnectFails \/ Write
    BY <1>0, <1>10 DEF Command, Connect, ConnectFails, Write, CommandReturns
<1>11. CASE Attach \/ AttachFails \/ GetSet \/ GetSetFails \/ Ring
    BY <1>0, <1>11 DEF Attach, AttachFails, GetSet, GetSetFails, Ring
<1>12. QED
    BY <1>1, <1>2, <1>3, <1>4, <1>5, <1>6, <1>7, <1>8, <1>9, <1>10, <1>11
    DEF Next, World, BotStep

(***************************************************************************)
(* What is kept of the flash process.                                      *)
(***************************************************************************)

(* Steps that leave segment, set and pid alone.                            *)
LEMMA OthersKeep ==
  ASSUME \/ World \/ Exit \/ Fork \/ CheckBrowser \/ FindSpins \/ CheckFlash
         \/ Command \/ Connect \/ ConnectFails \/ Write \/ Ring \/ Calls
  PROVE  /\ UNCHANGED <<shmVars, fpid, failed, forgot>>
         /\ pc' = "getset" <=> pc = "getset"
BY DEF World, SpawnFlash, FlashEnds, FlashReaped, BrowserEnds, SigchldHandler,
       Calls, CreateWindow, CallIsValid, CallFlash, CallBrowser, QueryMemory,
       Exit, Fork, CheckBrowser, FindSpins, CheckFlash, Command, Connect,
       ConnectFails, Write, Ring, CommandReturns, Valid

LEMMA KeptBelongsStep == ASSUME IInv, Next PROVE KeptBelongs'
<1> USE DEF KeptBelongs
<1>0. TypeOK /\ Places /\ KeptBelongs
    BY DEF IInv
<1>1. CASE \/ World \/ Exit \/ Fork \/ CheckBrowser \/ FindSpins \/ CheckFlash
           \/ Command \/ Connect \/ ConnectFails \/ Write \/ Ring \/ Calls
    BY <1>0, <1>1, OthersKeep
<1>2. CASE ForkFails \/ Launched
    BY <1>0, <1>2 DEF ForkFails, Launched, LaunchReturns
<1>3. CASE Find \/ Reset
    BY <1>0, <1>3 DEF Find, Reset, Places
<1>4. CASE Attach \/ AttachFails \/ GetSet \/ GetSetFails
    BY <1>0, <1>4 DEF Attach, AttachFails, GetSet, GetSetFails
<1>5. QED
    BY <1>1, <1>2, <1>3, <1>4 DEF Next, BotStep

LEMMA TogetherStep == ASSUME IInv, Next PROVE Together'
<1> USE DEF Together
<1>0. TypeOK /\ Places /\ Together
    BY DEF IInv
<1>1. CASE \/ World \/ Exit \/ Fork \/ CheckBrowser \/ FindSpins \/ CheckFlash
           \/ Command \/ Connect \/ ConnectFails \/ Write \/ Ring \/ Calls
    BY <1>0, <1>1, OthersKeep
<1>2. CASE ForkFails \/ Launched
    BY <1>0, <1>2 DEF ForkFails, Launched, LaunchReturns, CommandReturns, Fails
<1>3. CASE Find \/ Reset
    BY <1>0, <1>3 DEF Find, Reset, Valid
<1>4. CASE Attach \/ AttachFails
    BY <1>0, <1>4 DEF Attach, AttachFails, Fails, Places
<1>5. CASE GetSet \/ GetSetFails
    BY <1>0, <1>5 DEF GetSet, GetSetFails, Fails
<1>6. QED
    BY <1>1, <1>2, <1>3, <1>4, <1>5 DEF Next, BotStep

LEMMA NothingLeaksStep == ASSUME IInv, Next PROVE NothingLeaks'
<1> USE DEF NothingLeaks
<1>0. TypeOK /\ Places /\ NothingLeaks
    BY DEF IInv
<1>1. CASE \/ World \/ Exit \/ Fork \/ CheckBrowser \/ FindSpins \/ CheckFlash
           \/ Command \/ Connect \/ ConnectFails \/ Write \/ Ring \/ Calls
    BY <1>0, <1>1, OthersKeep
<1>2. CASE ForkFails \/ Launched \/ Find
    BY <1>0, <1>2 DEF ForkFails, Launched, LaunchReturns, Find
<1>3. CASE Reset
    BY <1>0, <1>3 DEF Reset
<1>4. CASE Attach \/ AttachFails \/ GetSet \/ GetSetFails
    BY <1>0, <1>4 DEF Attach, AttachFails, GetSet, GetSetFails, Places
<1>5. QED
    BY <1>1, <1>2, <1>3, <1>4 DEF Next, BotStep

(***************************************************************************)
(* The browsers.                                                           *)
(***************************************************************************)

LEMMA SupervisedStep == ASSUME IInv, Next PROVE Supervised'
<1> USE DEF Supervised, Launching, Newest
<1>0. TypeOK /\ Lives /\ Places /\ Supervised
    BY DEF IInv
<1>1. Up \in SUBSET Browsers
    BY DEF Up
<1>2. /\ Cardinality(Up) \in Nat
      /\ Cardinality(Up \ {Newest}) \in Nat /\ Cardinality(Up \ {bpid}) \in Nat
      /\ Cardinality(Up) <= Cardinality(Up \ {Newest}) + 1
      /\ Cardinality(Up \ {bpid}) <= Cardinality(Up)
    BY <1>1, AllButOne
<1>3. ASSUME NEW f \in FlashPids, NEW b \in Browsers, SpawnFlash(f, b)
      PROVE  Supervised'
    BY <1>0, <1>3 DEF SpawnFlash, Up
<1>4. ASSUME NEW f \in FlashPids, FlashEnds(f) PROVE Supervised'
    BY <1>0, <1>4 DEF FlashEnds, Up
<1>5. ASSUME NEW f \in FlashPids, FlashReaped(f) PROVE Supervised'
    BY <1>0, <1>5 DEF FlashReaped, Up
<1>6. ASSUME NEW b \in Browsers, BrowserEnds(b) PROVE Supervised'
  <2>1. Up' = Up \ {b} /\ UNCHANGED <<pc, nb, bpid, creates>>
      BY <1>0, <1>6 DEF BrowserEnds, Up, Life
  <2>2. Cardinality(Up') <= Cardinality(Up) /\ Cardinality(Up') \in Nat
      BY <1>1, <2>1, AllButOne
  <2>3. Cardinality((Up \ {b}) \ {Newest}) <= Cardinality(Up \ {Newest})
        /\ Cardinality((Up \ {b}) \ {Newest}) \in Nat
    <3>1. Up \ {Newest} \in SUBSET Browsers
        BY <1>1
    <3>2. (Up \ {b}) \ {Newest} \in SUBSET (Up \ {Newest})
        OBVIOUS
    <3>3. QED
        BY <3>1, <3>2, Fewer, Finite
  <2>4. Newest' = Newest /\ Launching' = Launching
      BY <2>1
  <2>5. (Up = {} => Up' = {}) /\ (pc' = "exited" <=> pc = "exited")
      BY <2>1
  <2>6. QED
      BY <1>0, <1>2, <2>1, <2>2, <2>3, <2>4, <2>5
<1>7. CASE SigchldHandler
  <2>1. Up' = Up
      BY <1>0, <1>7 DEF SigchldHandler, Zombies, Up
  <2>2. QED
      BY <1>0, <1>7, <2>1 DEF SigchldHandler
<1>8. CASE CreateWindow
  <2>1. Up' = Up
      BY <1>8 DEF CreateWindow, Up
  <2>2. Cardinality(Up) <= creates
    <3>1. Up = {} => Cardinality(Up) = 0
        BY FS_EmptySet
    <3>2. QED
        BY <1>0, <1>2, <1>8, <3>1 DEF CreateWindow
  <2>3. QED
      BY <1>0, <1>2, <1>8, <2>1, <2>2 DEF CreateWindow
<1>9. CASE CallIsValid \/ CallFlash \/ CallBrowser \/ QueryMemory
    BY <1>0, <1>9 DEF CallIsValid, CallFlash, CallBrowser, QueryMemory, Up
<1>10. CASE Exit
  <2>1. Up' = Up \ {bpid}
      BY <1>0, <1>10 DEF Exit, Up, Life, Browsers
  <2>2. bpid' = bpid /\ creates' = creates /\ pc = "out" /\ pc' = "exited"
      BY <1>10 DEF Exit
  <2>3. (Up \ {bpid}) \ {bpid} = Up \ {bpid}
      OBVIOUS
  <2>4. IsFiniteSet(Up \ {bpid}) /\ Cardinality(Up \ {bpid}) \in Nat
      BY <1>1, Finite
  <2>5. creates <= 1 => Up \ {bpid} = {}
      BY <1>0, <2>2, <2>4, FS_EmptySet
  <2>6. QED
      BY <1>0, <2>1, <2>2, <2>3, <2>5
<1>11. CASE Fork
  <2>1. nb + 1 \in Browsers
      BY <1>11, Room DEF Fork, IInv
  <2>2. nb + 1 \notin Up
      BY <1>0, <2>1 DEF Lives, Up, Browsers
  <2>3. Up' = Up \cup {nb + 1}
      BY <1>0, <1>11, <2>1 DEF Fork, Up
  <2>4. Up' \ {nb + 1} = Up
      BY <2>2, <2>3
  <2>5. QED
      BY <1>0, <1>11, <2>4 DEF Fork
<1>12. CASE ForkFails
  <2>1. Up' = Up
      BY <1>12 DEF ForkFails, Up
  <2>2. Launching /\ pc' \in {"out", "reset"} /\ UNCHANGED <<bpid, creates>>
      BY <1>12 DEF ForkFails, LaunchReturns, CommandReturns
  <2>3. Newest' = bpid
      BY <2>2
  <2>4. Cardinality(Up \ {bpid}) + 1 <= creates
      BY <1>0, <1>2, <2>2
  <2>5. QED
      BY <2>1, <2>2, <2>3, <2>4
<1>13. CASE Launched
  <2>1. Up' = Up
      BY <1>13 DEF Launched, Up
  <2>2. QED
      BY <1>0, <1>13, <2>1 DEF Launched, LaunchReturns, CommandReturns, Places
<1>14. CASE CheckBrowser \/ Command
  <2>1. Up' = Up /\ UNCHANGED <<bpid, nb, creates>> /\ ~Launching
      BY <1>14 DEF CheckBrowser, Command, Up
  <2>2. BrowserLost => Up \ {Newest} = Up /\ Newest # None
      BY <1>14 DEF CheckBrowser, Command, BrowserLost, Up
  <2>3. Launching' => BrowserLost
      BY <1>14 DEF CheckBrowser, Command, CommandReturns
  <2>4. Newest' = Newest /\ pc' # "exited"
      BY <1>14 DEF CheckBrowser, Command, CommandReturns
  <2>5. QED
      BY <1>0, <2>1, <2>2, <2>3, <2>4
<1>15. CASE Find \/ FindSpins \/ CheckFlash \/ Reset
    BY <1>0, <1>15 DEF Find, FindSpins, CheckFlash, Reset, Valid, Up
<1>16. CASE Connect \/ ConnectFails \/ Write
    BY <1>0, <1>16 DEF Connect, ConnectFails, Write, CommandReturns, Up
<1>17. CASE Attach \/ AttachFails \/ GetSet \/ GetSetFails \/ Ring
    BY <1>0, <1>17 DEF Attach, AttachFails, GetSet, GetSetFails, Ring, Up
<1>18. QED
    BY <1>3, <1>4, <1>5, <1>6, <1>7, <1>8, <1>9, <1>10, <1>11, <1>12, <1>13,
       <1>14, <1>15, <1>16, <1>17
    DEF Next, World, Calls, BotStep

LEMMA AloneStep == ASSUME IInv, Next PROVE Alone'
<1> USE DEF Alone, Newest, Lives
<1>0. TypeOK /\ Lives /\ Places /\ Alone /\ Cuttable
    BY DEF IInv
<1>1. ASSUME NEW f \in FlashPids, NEW b \in Browsers, SpawnFlash(f, b)
      PROVE  Alone'
    BY <1>0, <1>1 DEF SpawnFlash
<1>2. ASSUME NEW f \in FlashPids, FlashEnds(f) \/ FlashReaped(f) PROVE Alone'
    BY <1>0, <1>2 DEF FlashEnds, FlashReaped
<1>3. ASSUME NEW b \in Browsers, BrowserEnds(b) PROVE Alone'
    BY <1>0, <1>3 DEF BrowserEnds
<1>4. CASE SigchldHandler
    BY <1>0, <1>4 DEF SigchldHandler, Zombies
<1>5. CASE CreateWindow
    BY <1>0, <1>5 DEF CreateWindow
<1>6. CASE CallIsValid \/ CallFlash \/ CallBrowser \/ QueryMemory
    BY <1>0, <1>6 DEF CallIsValid, CallFlash, CallBrowser, QueryMemory
<1>7. CASE Exit
    BY <1>0, <1>7 DEF Exit
<1>8. CASE Fork
  <2>1. nb + 1 \in Browsers
      BY <1>8, Room DEF Fork, Launching, IInv
  <2>2. creates <= 1 => bpid = None \/ browser[bpid] = "gone"
      BY <1>0, <1>8 DEF Fork, Places, Cuttable, BrowserLost
  <2>3. Newest = bpid /\ Newest' = nb + 1 /\ creates' = creates
      BY <1>8 DEF Fork
  <2>4. \A b \in Browsers \ {nb + 1} : browser'[b] = browser[b]
      BY <1>0, <1>8 DEF Fork
  <2>5. creates <= 1 => \A b \in Browsers \ {bpid} : browser[b] \in {"none", "gone"}
      BY <1>0, <2>3 DEF Alone
  <2>6. creates <= 1 => \A b \in Browsers \ {nb + 1} : browser[b] \in {"none", "gone"}
      BY <2>2, <2>5 DEF Browsers
  <2>7. QED
      BY <2>3, <2>4, <2>6
<1>9. CASE ForkFails
    BY <1>0, <1>9 DEF ForkFails, LaunchReturns, CommandReturns
<1>10. CASE Launched
    BY <1>0, <1>10 DEF Launched, LaunchReturns, CommandReturns
<1>11. CASE CheckBrowser \/ Find \/ FindSpins \/ CheckFlash \/ Reset
    BY <1>0, <1>11 DEF CheckBrowser, Find, FindSpins, CheckFlash, Reset, Valid
<1>12. CASE Command \/ Connect \/ ConnectFails \/ Write
    BY <1>0, <1>12 DEF Command, Connect, ConnectFails, Write, CommandReturns
<1>13. CASE Attach \/ AttachFails \/ GetSet \/ GetSetFails \/ Ring
    BY <1>0, <1>13 DEF Attach, AttachFails, GetSet, GetSetFails, Ring
<1>14. QED
    BY <1>1, <1>2, <1>3, <1>4, <1>5, <1>6, <1>7, <1>8, <1>9, <1>10, <1>11,
       <1>12, <1>13
    DEF Next, World, Calls, BotStep

LEMMA CuttableStep == ASSUME IInv, Next PROVE Cuttable'
<1> USE DEF Cuttable, Lives
<1>0. TypeOK /\ Lives /\ Places /\ KeptBelongs /\ Supervised /\ Cuttable
    BY DEF IInv
<1>1. ASSUME NEW f \in FlashPids, NEW b \in Browsers, SpawnFlash(f, b)
      PROVE  Cuttable'
    BY <1>0, <1>1 DEF SpawnFlash
<1>2. ASSUME NEW f \in FlashPids, FlashEnds(f) \/ FlashReaped(f) PROVE Cuttable'
    BY <1>0, <1>2 DEF FlashEnds, FlashReaped
<1>3. ASSUME NEW b \in Browsers, BrowserEnds(b) PROVE Cuttable'
    BY <1>0, <1>3 DEF BrowserEnds
<1>4. CASE SigchldHandler
    BY <1>0, <1>4 DEF SigchldHandler, Zombies
<1>5. CASE CreateWindow
  <2>1. creates = 0 => bpid = None
    <3>1. Up \in SUBSET Browsers
        BY DEF Up
    <3>2. Cardinality(Up \ {bpid}) \in Nat
        BY <3>1, AllButOne
    <3>3. QED
        BY <1>0, <1>5, <3>2 DEF CreateWindow, Supervised, Launching, Newest
  <2>2. QED
      BY <1>0, <1>5, <2>1 DEF CreateWindow
<1>6. CASE CallIsValid \/ CallFlash \/ CallBrowser \/ QueryMemory
    BY <1>0, <1>6 DEF CallIsValid, CallFlash, CallBrowser, QueryMemory
<1>7. CASE Exit
    BY <1>0, <1>7 DEF Exit
<1>8. CASE Fork
  <2>1. nb + 1 \in Browsers /\ browser[nb + 1] = "none"
      BY <1>0, <1>8, Room DEF Fork, Launching, IInv, Browsers
  <2>2. QED
      BY <1>0, <1>8, <2>1 DEF Fork
<1>9. CASE ForkFails
    BY <1>0, <1>9 DEF ForkFails, LaunchReturns, CommandReturns, Places,
                      BrowserLost
<1>10. CASE Launched
  <2> SUFFICES ASSUME creates <= 1 PROVE Cuttable'
      BY <1>10 DEF Launched
  <2>1. ASSUME fpid # None PROVE browser[parent[fpid]] = "gone"
    <3>1. parent[fpid] # None
        BY <1>0, <2>1 DEF Browsers
    <3>2. bpid = None \/ browser[bpid] = "gone"
        BY <1>0, <1>10 DEF Launched, Places, BrowserLost
    <3>3. QED
        BY <1>0, <2>1, <3>1, <3>2
  <2>2. CASE pc = "launched"
      BY <1>0, <1>10, <2>1, <2>2 DEF Launched, LaunchReturns
  <2>3. CASE pc = "restarted"
      BY <1>0, <1>10, <2>1, <2>3 DEF Launched, LaunchReturns, CommandReturns
  <2>4. QED
      BY <1>10, <2>2, <2>3 DEF Launched
<1>11. CASE CheckBrowser \/ FindSpins \/ CheckFlash
    BY <1>0, <1>11 DEF CheckBrowser, FindSpins, CheckFlash, Valid, Places
<1>12. CASE Find
  <2>1. \A f \in Players : parent[f] \in Browsers /\ browser[parent[f]] # "none"
      BY <1>0 DEF Players, Life
  <2>2. Newest = bpid /\ UNCHANGED <<browser, parent, bpid, creates>>
      BY <1>12 DEF Find, Newest
  <2>3. creates <= 1 => \A f \in Players :
          parent[f] = bpid \/ browser[parent[f]] = "gone"
      BY <1>0, <2>1, <2>2 DEF IInv, Alone
  <2>4. QED
      BY <1>0, <1>12, <2>2, <2>3 DEF Find, Valid, Places
<1>13. CASE Reset
    BY <1>0, <1>13 DEF Reset
<1>14. CASE Command \/ Connect \/ ConnectFails \/ Write
    BY <1>0, <1>14 DEF Command, Connect, ConnectFails, Write, CommandReturns
<1>15. CASE Attach \/ AttachFails \/ GetSet \/ GetSetFails \/ Ring
    BY <1>0, <1>15 DEF Attach, AttachFails, GetSet, GetSetFails, Ring
<1>16. QED
    BY <1>1, <1>2, <1>3, <1>4, <1>5, <1>6, <1>7, <1>8, <1>9, <1>10, <1>11,
       <1>12, <1>13, <1>14, <1>15
    DEF Next, World, Calls, BotStep

(***************************************************************************)
(* The theorems.                                                           *)
(***************************************************************************)

(* The inductive invariant: which processes there are, what the client     *)
(* knows where it is, and how what it keeps of them belongs together       *)
(* (bot_client.cpp:124-316).                                               *)
THEOREM Inductive == Spec => []IInv
<1>1. Init => IInv
    BY InitInv
<1>2. IInv /\ [Next]_vars => IInv'
  <2> SUFFICES ASSUME IInv, [Next]_vars PROVE IInv'
      OBVIOUS
  <2>1. CASE Next
      BY <2>1, WorldTypeStep, KeptTypeStep, PlaceTypeStep, LivesStep,
         PlacesStep, KeptBelongsStep, TogetherStep, NothingLeaksStep,
         SupervisedStep, AloneStep, CuttableStep
      DEF IInv
  <2>2. CASE UNCHANGED vars
      BY <2>2 DEF vars, IInv, Lives, Places, KeptBelongs, Together,
                  NothingLeaks, Supervised, Alone, Cuttable, Up, Ended, BrowserLost,
                  Launching, Newest
  <2>3. QED
      BY <2>1, <2>2
<1>3. QED
    BY <1>1, <1>2, PTL DEF Spec

(* The client keeps the objects of the flash process whose pid it keeps,   *)
(* as long as that pid was not dropped without a reset                     *)
(* (bot_client.cpp:199, 241, 309).                                         *)
THEOREM KeptObjectsBelong == Spec => []KeptBelongs
BY Inductive, PTL DEF IInv

(* A command is announced to the process it was copied for, unless semget  *)
(* has failed (bot_client.cpp:296-316).                                    *)
THEOREM CommandsGoTogether == Spec => []RingsWhatItCopied
<1>1. IInv => RingsWhatItCopied
    BY DEF IInv, Together, RingsWhatItCopied
<1>2. QED
    BY <1>1, Inductive, PTL

(* What was attached or looked up is kept or was given back, however often *)
(* processes end and calls fail (bot_client.cpp:241-253).                  *)
THEOREM GivesBack == Spec => []NothingLeaks
BY Inductive, PTL DEF IInv

(* One browser at most runs for each createWindow, and a bot that called   *)
(* it once leaves none behind (bot_client.cpp:128-134, 195-199, 258-262).  *)
THEOREM OneBrowserEach == Spec => []BrowsersSupervised
<1>1. IInv => BrowsersSupervised
  <2> SUFFICES ASSUME IInv PROVE BrowsersSupervised
      OBVIOUS
  <2>1. Up \in SUBSET Browsers
      BY DEF Up
  <2>2. /\ Cardinality(Up) \in Nat /\ Cardinality(Up \ {Newest}) \in Nat
        /\ Cardinality(Up) <= Cardinality(Up \ {Newest}) + 1
      BY <2>1, AllButOne
  <2>3. QED
    <3>1. Supervised /\ creates \in Nat
        BY DEF IInv
    <3>2. Cardinality({}) = 0
        BY FS_EmptySet
    <3>3. Up = {} => Cardinality(Up) = 0
        BY <3>2
    <3>4. Cardinality(Up) <= creates
        BY <2>2, <3>1, <3>3 DEF Supervised
    <3>5. QED
        BY <3>1, <3>4 DEF Supervised, BrowsersSupervised
<1>2. QED
    BY <1>1, Inductive, PTL

(* The client removes the set of a process that has ended; that of one     *)
(* that still runs only if a pid was dropped without a reset, and, if      *)
(* createWindow was called once, only if the browser of that process has   *)
(* ended (bot_client.cpp:199, 245, 271-275, 309).                          *)
THEOREM CutsNoServer == Spec => ServerNotCut
<1>1. IInv /\ [Next]_vars => RemovesDeadOnly
  <2> SUFFICES ASSUME IInv, [Next]_vars PROVE RemovesDeadOnly
      OBVIOUS
  <2>1. CASE Reset
    <3>1. made \ made' \subseteq {cset} \ {None}
        BY <2>1 DEF Reset, IInv, NothingLeaks
    <3>2. cset # None /\ cset = fpid => flash[fpid] = "gone"
        BY <2>1 DEF Reset, IInv, Places
    <3>3. QED
        BY <3>1, <3>2 DEF IInv, KeptBelongs, Cuttable, RemovesDeadOnly
  <2>2. CASE Next /\ ~Reset
    <3>1. made \subseteq made'
        BY <2>2, OthersKeep DEF Next, BotStep, ForkFails, Launched,
                                LaunchReturns, Find, Attach, AttachFails,
                                GetSet, GetSetFails
    <3>2. QED
        BY <3>1 DEF RemovesDeadOnly
  <2>3. CASE UNCHANGED vars
      BY <2>3 DEF vars, RemovesDeadOnly
  <2>4. QED
      BY <2>1, <2>2, <2>3
<1>2. QED
    BY <1>1, Inductive, PTL DEF Spec, ServerNotCut

================================================================================
