--------------------------- MODULE MCCoinSelection ---------------------------
(* Instances of CoinSelection for TLC. *)
EXTENDS CoinSelection

(* Coins of the kinds below, in order of their kinds. *)
Kind(satoshis, confirmations, locked) ==
  [satoshis |-> satoshis, confirmations |-> confirmations, locked |-> locked]

(* One that is not worth its fee; some that pay for a part; one that may pay
   alone, and a large one. *)
Kinds == << Kind(1400, 6, FALSE), Kind(3500, 6, FALSE), Kind(8900, 6, FALSE),
            Kind(12500, 6, FALSE), Kind(60000, 6, FALSE), Kind(3500, 1, FALSE),
            Kind(12500, 1, FALSE), Kind(8900, 0, FALSE), Kind(60000, 0, FALSE),
            Kind(12500, 6, TRUE) >>

WalletsOf(n) ==
  {[i \in 1..n |-> Kinds[f[i]]] : f \in {g \in [1..n -> 1..Len(Kinds)] :
                                            \A i \in 1..(n - 1) : g[i] <= g[i + 1]}}
FewCoins == UNION {WalletsOf(n) : n \in 0..4}

(* Five small coins and up to two others: more than fit in a transaction. *)
ManyCoins == {[i \in 1..5 |-> Kinds[2]] \o few : few \in UNION {WalletsOf(n) : n \in 0..2}}
SomeCoins == FewCoins \cup ManyCoins

(* A payment at a given fee per kB. *)
Payment(amount, feePerKb) ==
  [coin |-> "btc", amount |-> amount, sendMax |-> FALSE, feeLevel |-> Absent,
   feePerKb |-> feePerKb, fee |-> Absent, inputs |-> {}, exclude |-> {},
   confirmed |-> FALSE, rejected |-> 0, ago |-> 0]
AtLevel(level) == [Payment(10000, Absent) EXCEPT !.feeLevel = level]
AllOf(options) == [options EXCEPT !.sendMax = TRUE, !.amount = Absent]

Questions ==
  {[Payment(10000, 10000) EXCEPT !.rejected = 4, !.ago = 600],
   [Payment(10000, 10000) EXCEPT !.rejected = 4, !.ago = 601],
   Payment(10000, 10000), Payment(6000, 10000), Payment(12000, 10000),
   Payment(15000, 1001), Payment(4000, 10000),
   [Payment(10000, 10000) EXCEPT !.confirmed = TRUE],
   [Payment(10000, 10000) EXCEPT !.exclude = {1}],
   [Payment(10000, 10000) EXCEPT !.fee = 2000],
   [Payment(10000, Absent) EXCEPT !.fee = 2000, !.inputs = {1}],
   [Payment(10000, 1) EXCEPT !.coin = "eth"],
   AllOf(Payment(0, 10000)), AllOf(Payment(0, 1001)),
   AllOf([Payment(0, 10000) EXCEPT !.confirmed = TRUE]),
   [AtLevel(1) EXCEPT !.coin = "eth"], AtLevel(1), AllOf(AtLevel(2)), AllOf(AtLevel(1))}

(* Two levels of two and three blocks; samples without a value for some blocks. *)
TwoLevels == << [name |-> "priority", nbBlocks |-> 2, multiplier |-> <<3, 2>>,
                 defaultValue |-> 10000],
                [name |-> "normal", nbBlocks |-> 3, multiplier |-> <<1, 1>>,
                 defaultValue |-> 8000] >>
Sample(two, three, four) == [k \in 2..4 |-> CASE k = 2 -> two [] k = 3 -> three [] k = 4 -> four]
SomeSamples == {Sample(4000, 9000, 3000), Sample(-1, 5001, -1), Sample(4000, -1, -1)}
=============================================================================
