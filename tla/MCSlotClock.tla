---------------------------- MODULE MCSlotClock ----------------------------
(* Devices switched on together, a moment apart, or long after each other. *)
EXTENDS SlotClock

MCDevices == {1, 2}
=============================================================================
