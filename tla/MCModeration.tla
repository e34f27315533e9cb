---------------------------- MODULE MCModeration ----------------------------
(* Moderation on a small instance: an administrator, a seller and another   *)
(* user, any of whom may report.                                           *)
EXTENDS ModerationProofs

CONSTANTS adm, bob, carl, bike

MCSeller == [p \in Products |-> bob]
=============================================================================
