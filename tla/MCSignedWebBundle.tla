-------------------------- MODULE MCSignedWebBundle -------------------------
(* Two signing calls at a time on one object, with two keys, an ID and an *)
(* empty one; each call has one strategy, or two of which the second       *)
(* answers with the key that the other call may be using.                  *)
EXTENDS SignedWebBundle, TLC

CONSTANTS k1, k2

MCStrategyLists == {<<k2>>, <<k1, k2>>}

Symmetry == Permutations(Callers)
=============================================================================
