-------------------------------- MODULE MCAccess --------------------------------
(***************************************************************************)
(* PermissionInteractive for TLC: two requests of a page, over a chain of  *)
(* the wallet, e, and one that pages suggest, x, with two kinds of         *)
(* providers.                                                              *)
(***************************************************************************)
EXTENDS PermissionInteractive, TLC

CONSTANTS e, x

AllDefaultToE == [k \in Kinds |-> e]

AskedSets == {{}, {x}, {e, x}}

Symmetry == Permutations(Requests)
=============================================================================
