-------------------------- MODULE MCHeightMonitor --------------------------
(* Instances of HeightMonitor for TLC. *)
EXTENDS HeightMonitor, TLC

CONSTANTS w1, w2, a, b, t1, t2, alice

OwnerOf == a :> w1 @@ b :> w2

Transfer(hash, index, from, to) == [hash |-> hash, index |-> index, from |-> from, to |-> to]

(* A payment to a, and one from a. *)
Blocks == << {Transfer(t1, 0, None, a)},
             {Transfer(t2, 0, a, None)} >>

(* A transaction that transfers twice. *)
Batch == << {}, {Transfer(t1, 1, None, a), Transfer(t1, 2, None, b)},
            {Transfer(t2, 1, a, None)} >>

ChainEvents == Heights \X (Transfers \cup {None})
OneWaits == {<<alice, t1>>}
=============================================================================
