----------------------------- MODULE MCRefCount -----------------------------
(* Four handles; those the creator does not keep can change places.        *)
EXTENDS RefCount, TLC

CONSTANTS h1, h2, h3, h4

McHandles  == {h1, h2, h3, h4}
McSymmetry == Permutations(McHandles \ {h1})
=============================================================================
