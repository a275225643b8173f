------------------------- MODULE MCRenderPassCache -------------------------
(* RenderPassCache on a small instance. *)
EXTENDS RenderPassCache, TLC

Symmetric == Permutations(Threads) \cup Permutations(Pass)
=============================================================================
