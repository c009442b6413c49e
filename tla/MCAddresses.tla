---------------------------- MODULE MCAddresses ----------------------------
(* Instances of Addresses for TLC. *)
EXTENDS Addresses, TLC

Symmetric == Permutations(Tasks)

(* The first address may be used. *)
FirstOnly == {<<"main", 0>>}

(* Used addresses with a hole, so that a scan has to look beyond it, and one on
   the other branch. *)
Scattered == {<<"main", 0>>, <<"main", 2>>, <<"change", 0>>}
=============================================================================
