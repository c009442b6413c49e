---------------------------- MODULE MCProposals ----------------------------
(* Instances of Proposals for TLC. *)
EXTENDS Proposals, TLC

(* Votes come one at a time. *)
VotesApart == Voting \X Voting

(* ... and removals on their own. *)
Removals == {"remove", "removeOld"}
RemovalsApart == VotesApart \cup (Removals \X Requests) \cup (Requests \X Removals)

Symmetric == Permutations(Tasks) \cup Permutations(Copayers)
               \cup Permutations(Ids) \cup Permutations(Utxos)
=============================================================================
