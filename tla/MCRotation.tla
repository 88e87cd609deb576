------------------------------ MODULE MCRotation ------------------------------
(* Instances of RefreshRotation for TLC. *)
EXTENDS RotationProperties

CONSTANTS d1, d2, alice

OneUser  == [d \in Devices |-> alice]
=============================================================================
