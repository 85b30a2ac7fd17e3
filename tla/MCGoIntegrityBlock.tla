-------------------------- MODULE MCGoIntegrityBlock --------------------------
(* Instances of GoIntegrityBlock. *)
EXTENDS GoIntegrityBlock

File(blocks, body, len, stated) ==
  [blocks |-> blocks, torn |-> 0, body |-> body, len |-> len, stated |-> stated]

(* A bundle, one whose end states too much, a part of one that states less.*)
MCBundles == {Empty, File(<<>>, "b", 3, 3), File(<<>>, "b", 3, 4),
              File(<<>>, "b", 2, 1)}

(* Two of the three names are names of one file. *)
MCPaths == {"a.wbn", "./a.wbn", "b.wbn"}
MCFileOf == [p \in MCPaths |-> IF p = "b.wbn" THEN p ELSE "a.wbn"]

(* Two key pairs, and a private key with the public key of the other.      *)
MCStrategies == {[priv |-> "k1", pub |-> "k1"], [priv |-> "k2", pub |-> "k2"],
                 [priv |-> "k1", pub |-> "k2"]}
TwoExtras == {"none", "hello"}

=============================================================================
