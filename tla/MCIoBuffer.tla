----------------------------- MODULE MCIoBuffer -----------------------------
(***************************************************************************)
(* Instances of IoBuffer for TLC.                                          *)
(***************************************************************************)
EXTENDS IoBuffer

AllOutcomes == OutcomeKinds
PartialOnly == {"partial"}

=============================================================================
