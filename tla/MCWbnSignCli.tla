---------------------------- MODULE MCWbnSignCli ----------------------------
(* Two keys, two IDs and two files: commands that write in place, and      *)
(* commands that write to another file, which may be a signed bundle too.  *)
EXTENDS WbnSignCli, TLC

MCKeyLists == {<<k>> : k \in Keys} \union {<<k, l>> : k \in Keys, l \in Keys}

Symmetry == Permutations(Keys) \union Permutations(Paths)
=============================================================================
