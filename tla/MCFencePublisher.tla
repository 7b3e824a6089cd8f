--------------------------- MODULE MCFencePublisher ---------------------------
(***************************************************************************)
(* FencePublisher on small instances.                                       *)
(***************************************************************************)
EXTENDS FencePublisher, TLC

\* Callers run the same code, and so do callbacks.
PublisherSymmetry == Permutations(Callers) \union Permutations(Callbacks)
=============================================================================
