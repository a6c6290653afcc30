------------------------------ MODULE MCNotify ------------------------------
(***************************************************************************)
(* Instances of Notify for TLC, and the promise it implements.             *)
(***************************************************************************)
EXTENDS Notify, TLC

Promise == INSTANCE CopyPromise WITH
  owed <- Range(stored.pending), until <- stored.seen

KeepsPromise == Promise!Spec

Symmetry == Permutations(Handlers) \cup Permutations(RequestKeys)
=============================================================================
