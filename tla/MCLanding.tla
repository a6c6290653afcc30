------------------------------ MODULE MCLanding ------------------------------
(* One instance: created, then changed once, by people and by others. *)
EXTENDS Landing

MCKinds == <<{"edit", "scale", "deploy", "remove", "other"}>>
=============================================================================
