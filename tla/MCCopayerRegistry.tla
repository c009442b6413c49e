------------------------- MODULE MCCopayerRegistry -------------------------
(* Instances of CopayerRegistry for TLC. *)
EXTENDS CopayerRegistry, TLC

Symmetric == Permutations(Tasks) \cup Permutations(Wallets)
               \cup Permutations(Copayers)
=============================================================================
