------------------------------- MODULE Doorbell -------------------------------
(***************************************************************************)
(* What the two System V semaphores shared by the bot client and the flash *)
(* process promise, whatever is in the shared segment: a bell that is rung *)
(* at most once before it is picked up, and that can be rung again only    *)
(* after the server has finished with the previous ring.                   *)
(*                                                                         *)
(* phase is "off" until the server has set its semaphores, "idle" while    *)
(* the bell may be rung, "rung" between a client's notification and the    *)
(* server's pick-up, and "serving" while the server owns the segment.      *)
(***************************************************************************)

VARIABLE phase

TypeOK == phase \in {"off", "idle", "rung", "serving"}

Move(from, to) == phase = from /\ phase' = to

Init == phase = "off"

SwitchOn == Move("off", "idle")
Ring     == Move("idle", "rung")
PickUp   == Move("rung", "serving")
Finish   == Move("serving", "idle")

Next == SwitchOn \/ Ring \/ PickUp \/ Finish

SafetySpec == Init /\ [][Next]_phase

(***************************************************************************)
(* A ring is always picked up and the server always finishes; nothing      *)
(* forces anybody to switch the bell on or to ring it.                     *)
(***************************************************************************)
Spec == SafetySpec /\ WF_phase(PickUp) /\ WF_phase(Finish)

===============================================================================
