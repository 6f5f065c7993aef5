----------------------------- MODULE MCKeyFile ------------------------------
(***************************************************************************)
(* Instances of KeyFile for TLC.                                           *)
(***************************************************************************)
EXTENDS KeyFile, TLC

\* A shorter key replaces a longer one.
Sizes == <<2, 1>>

OneKey == <<"keyring">>

Symmetry == Permutations(Handlers)
=============================================================================
