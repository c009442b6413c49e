------------------------ MODULE TxHistoryCacheProofs ------------------------
(***************************************************************************)
(* Proofs about what a client of a wallet is told and what is made of its  *)
(* coins, in four parts.                                                   *)
(*                                                                         *)
(* TxHistoryCache, for any number of requests and transactions, any pages  *)
(* and any hidden addresses.                                               *)
(*                                                                         *)
(* The other cache of a wallet, WalletBalance.                             *)
(*                                                                         *)
(* CoinSelection, for any wallet, any options of a client and any limits.  *)
(* First sums: Value is a fold over a set of coins. An induction over the  *)
(* size of a set shows that one function adds up the coins, that the fold  *)
(* is this function, and from it the laws that are cited later: the value  *)
(* of no coins, of one, of one coin less and of fewer coins. Then          *)
(* SelectionInv: until createTx answers, what it has chosen so far pays    *)
(* (ProposalsPay). Then why the greatest coins send the most: any other    *)
(* choice is compared with as many of the greatest, coin by coin, and a    *)
(* coin adds more than its fee exactly when getSendMaxInfo looks at it;    *)
(* the estimated sizes are rounded, which is the margin of MaxIsMost       *)
(* (MaxSent). At last why funds are found: more of the coins worth their   *)
(* fee leave more, so that no choice would do when all of them do not; no  *)
(* other coins, no more of them, leave more than the greatest, so that     *)
(* where the search stops without enough, or with too many, coins that fit *)
(* have been tried; and beside a big coin it stops after a few small ones, *)
(* since each of them is a share of the amount and adds no high fee        *)
(* (FundsAreFound).                                                        *)
(*                                                                         *)
(* HistoryItems, for any transactions and any number of requests: what the *)
(* outputs of a transaction hold goes to others, to the wallet or back to  *)
(* it, and the height that is kept counts from the question                *)
(* (ItemsAreTrue).                                                         *)
(***************************************************************************)
EXTENDS TxHistoryCache, WalletBalance, CoinSelection, HistoryItems, FiniteSetTheorems,
        SequenceTheorems, WellFoundedInduction, TLAPS

Fields == {"at", "from", "known", "total", "page", "left", "ok"}

(* What a request knows is not more than what is stored, and what it counted is not
   more than what there is. *)
ReqOK(req, n, done) ==
  /\ DOMAIN req = Fields
  /\ req.at \in {"idle", "status", "rows", "explorer", "store", "done"}
  /\ req.from \in Nat
  /\ req.known \in BOOLEAN /\ (req.known => done)
  /\ req.total \in 0..n
  /\ req.left \subseteq Positions
  /\ req.at = "store" => \E m \in 0..n : req.total = Number(m, req.known)

(* A page that is made of rows, and one of the history. *)
RowPage(positions, row) == InOrder(positions, row)
HistoryPage(positions, whole) == InOrder(positions, [k \in positions |-> At(k, whole)])

(* That as of m transactions, of all addresses or of those known before the scan. *)
PageAsOf(m, whole, from) == HistoryPage(PageOf(Number(m, whole), from), whole)

(* What holds until a request from before the scan stores something: a total read
   from the status is one of the wallet, and so is a page. *)
Honest(req, n, done) ==
  /\ req.at = "rows" /\ ~done => \E m \in 0..n : req.total = Number(m, FALSE)
  /\ req.at \in {"store", "done"} =>
       \E m \in 0..n, whole \in {req.known, done} : req.page = PageAsOf(m, whole, req.from)

Basic ==
  /\ tip \in 0..MaxTx
  /\ scanned \in BOOLEAN /\ mixed \in BOOLEAN
  /\ scan \in {"no", "rows", "status", "addresses"}
  /\ scan # "no" => ~scanned
  /\ status \in 0..tip \cup {None}
  /\ DOMAIN rows = Positions
  /\ DOMAIN reqs = Requests
  /\ \A r \in Requests : ReqOK(reqs[r], tip, scanned)

(* While a scan goes on after it has cleared the rows, there are none. *)
Clean ==
  /\ scan \in {"status", "addresses"} => \A k \in Positions : rows[k] = None
  /\ \A k \in Positions : rows[k] # None => rows[k] = At(k, scanned)
  /\ status # None /\ ~scanned => \E m \in 0..tip : status = Number(m, FALSE)
  /\ \A r \in Requests : Honest(reqs[r], tip, scanned)

Inv == Basic /\ (mixed \/ Clean)

-----------------------------------------------------------------------------
(* Counting: with all addresses known every transaction counts. *)
LEMMA NumberBound ==
  ASSUME NEW n \in Nat, NEW whole \in BOOLEAN
  PROVE  /\ Number(n, whole) \in 0..n
         /\ whole => Number(n, whole) = n
<1> DEFINE S == {tx \in 1..n : IsOf(whole, tx)}
<1>1. IsFiniteSet(1..n) /\ Cardinality(1..n) = n
  BY FS_Interval
<1>2. S \in SUBSET (1..n)
  OBVIOUS
<1>3. whole => S = 1..n
  BY DEF IsOf
<1>4. Number(n, whole) = Cardinality(S)
  BY DEF Number
<1> HIDE DEF S
<1>5. IsFiniteSet(S) /\ Cardinality(S) <= n
  BY <1>1, <1>2, FS_Subset
<1>6. Cardinality(S) \in Nat
  BY <1>5, FS_CardinalityType
<1> QED
  BY <1>1, <1>3, <1>4, <1>5, <1>6

LEMMA PageIsInterval ==
  ASSUME NEW total \in Nat, NEW from \in Nat
  PROVE  \E a \in Nat, b \in Int : b < total /\ PageOf(total, from) = a..b
<1>1. FwdIndex(total, from + Limit) \in Nat
  BY TxHistoryCacheAssumption DEF FwdIndex
<1>2. End(total, from) - 1 \in Int /\ End(total, from) - 1 < total
  BY DEF End
<1> QED
  BY <1>1, <1>2 DEF PageOf

(* Rows that are in their places make the page that the history has there. *)
LEMMA SamePage ==
  ASSUME NEW a \in Nat, NEW b \in Int, NEW row, NEW whole,
         \A k \in a..b : row[k] = At(k, whole)
  PROVE  RowPage(a..b, row) = HistoryPage(a..b, whole)
<1> DEFINE n == Cardinality(a..b)
           top == CHOOSE k \in a..b : \A l \in a..b : l <= k
           page == [k \in a..b |-> At(k, whole)]
<1>1. n = IF a > b THEN 0 ELSE b - a + 1
  BY FS_Interval
<1>2. a <= b => top = b
  <2> SUFFICES ASSUME a <= b PROVE top = b
    OBVIOUS
  <2>1. b \in a..b /\ \A l \in a..b : l <= b
    OBVIOUS
  <2>2. top \in a..b /\ \A l \in a..b : l <= top
    BY <2>1
  <2> QED
    BY <2>1, <2>2
<1>3. /\ RowPage(a..b, row) = [i \in 1..n |-> row[top - (i - 1)]]
      /\ HistoryPage(a..b, whole) = [i \in 1..n |-> page[top - (i - 1)]]
  BY DEF RowPage, HistoryPage, InOrder
<1> HIDE DEF n, top
<1>4. ASSUME NEW i \in 1..n PROVE row[top - (i - 1)] = page[top - (i - 1)]
  <2>1. n \in Nat /\ a <= b /\ n = b - a + 1
    BY <1>1, <1>4
  <2>2. top - (i - 1) \in a..b
    BY <1>2, <2>1
  <2> QED
    BY <2>2
<1> HIDE DEF page
<1> QED
  BY <1>3, <1>4

-----------------------------------------------------------------------------
LEMMA InitInv == Init => Inv
<1> SUFFICES ASSUME Init PROVE Inv
  OBVIOUS
<1>1. ReqOK(Idle, tip, scanned) /\ Honest(Idle, tip, scanned)
  <2>1. DOMAIN Idle = Fields
    BY DEF Idle, Fields
  <2>2. /\ Idle.at = "idle" /\ Idle.from = 0 /\ Idle.total = 0 /\ Idle.left = {}
        /\ Idle.known \in BOOLEAN /\ ~Idle.known
    BY DEF Idle
  <2>3. tip \in Nat
    BY TxHistoryCacheAssumption DEF Init
  <2> QED
    BY <2>1, <2>2, <2>3 DEF ReqOK, Honest
<1>2. Basic
  BY <1>1, TxHistoryCacheAssumption DEF Init, Basic
<1>3. Clean
  BY <1>1 DEF Init, Clean
<1> QED
  BY <1>2, <1>3 DEF Inv

(* More transactions, and addresses that become known, leave what is so. *)
LEMMA ReqGrows ==
  ASSUME NEW req, NEW n \in Nat, NEW m \in Nat, n <= m, NEW done \in BOOLEAN,
         NEW after \in BOOLEAN, done => after, ReqOK(req, n, done)
  PROVE  /\ ReqOK(req, m, after)
         /\ Honest(req, n, done) => Honest(req, m, after)
<1>1. 0..n \subseteq 0..m
  OBVIOUS
<1>2. ReqOK(req, m, after)
  BY <1>1 DEF ReqOK
<1>3. ASSUME Honest(req, n, done) PROVE Honest(req, m, after)
  <2>1. ASSUME req.at \in {"store", "done"}
        PROVE  \E i \in 0..m, whole \in {req.known, after} :
                 req.page = PageAsOf(i, whole, req.from)
    <3>1. PICK i \in 0..n, whole \in {req.known, done} :
                 req.page = PageAsOf(i, whole, req.from)
      BY <1>3, <2>1 DEF Honest
    <3>2. whole \in {req.known, after}
      BY <3>1 DEF ReqOK
    <3> QED
      BY <1>1, <3>1, <3>2
  <2>2. req.at = "rows" /\ ~after => \E i \in 0..m : req.total = Number(i, FALSE)
    BY <1>1, <1>3 DEF Honest
  <2> QED
    BY <2>1, <2>2 DEF Honest
<1> QED
  BY <1>2, <1>3

-----------------------------------------------------------------------------
(* A step of one request, which leaves the world and the cache alone. *)
LEMMA OneRequest ==
  ASSUME Inv, NEW r \in Requests, NEW req, UNCHANGED <<world, cache, mixed>>, Become(r, req),
         ReqOK(req, tip, scanned), mixed \/ Honest(req, tip, scanned)
  PROVE  Inv'
<1>1. DOMAIN reqs' = Requests
      /\ \A q \in Requests : reqs'[q] = IF q = r THEN req ELSE reqs[q]
  BY DEF Become, Inv, Basic
<1>2. Basic'
  BY <1>1 DEF Inv, Basic, world, cache
<1>3. ~mixed => Clean'
  BY <1>1 DEF Inv, Clean, world, cache
<1> QED
  BY <1>2, <1>3 DEF Inv

(* A request that has got no page and counted nothing. *)
LEMMA FreshKeeps ==
  ASSUME Inv, NEW r \in Requests, NEW req, UNCHANGED <<world, cache, mixed>>, Become(r, req),
         DOMAIN req = Fields, req.at \in {"idle", "status", "explorer"},
         req.from \in Nat, req.known \in BOOLEAN, req.known => scanned,
         req.total \in 0..tip, req.left \subseteq Positions
  PROVE  Inv'
<1>1. ReqOK(req, tip, scanned) /\ Honest(req, tip, scanned)
  BY DEF ReqOK, Honest
<1> QED
  BY <1>1, OneRequest

LEMMA IdleKeeps ==
  ASSUME Inv, NEW r \in Requests, UNCHANGED <<world, cache, mixed>>, Become(r, Idle)
  PROVE  Inv'
<1>1. DOMAIN Idle = Fields
  BY DEF Idle, Fields
<1>2. /\ Idle.at = "idle" /\ Idle.from = 0 /\ Idle.total = 0 /\ Idle.left = {}
      /\ Idle.known \in BOOLEAN /\ ~Idle.known
  BY DEF Idle
<1>3. tip \in Nat
  BY TxHistoryCacheAssumption DEF Inv, Basic
<1> QED
  BY <1>1, <1>2, <1>3, FreshKeeps

LEMMA GetKeeps ==
  ASSUME Inv, NEW r \in Requests, NEW from \in 0..MaxTx, GetTxHistory(r, from)
  PROVE  Inv'
<1> DEFINE req == [Idle EXCEPT !.at = "status", !.from = from, !.known = scanned]
<1>1. /\ DOMAIN req = Fields /\ req.at = "status" /\ req.from = from /\ req.known = scanned
      /\ req.total = 0 /\ req.left = {}
  BY DEF Idle, Fields
<1>2. Become(r, req) /\ UNCHANGED <<world, cache, mixed>>
  BY DEF GetTxHistory, ReadOnly
<1> HIDE DEF req
<1>3. tip \in Nat /\ scanned \in BOOLEAN /\ from \in Nat
  BY TxHistoryCacheAssumption DEF Inv, Basic
<1> QED
  BY <1>1, <1>2, <1>3, FreshKeeps

LEMMA ReadStatusKeeps ==
  ASSUME Inv, NEW r \in Requests, ReadStatus(r)
  PROVE  Inv'
<1>1. ReqOK(reqs[r], tip, scanned) /\ UNCHANGED <<world, cache, mixed>>
  BY DEF Inv, Basic, ReadStatus, ReadOnly
<1>2. CASE status = None \/ PageOf(status, reqs[r].from) = {}
  <2> DEFINE req == [reqs[r] EXCEPT !.at = "explorer"]
  <2>1. Become(r, req)
    BY <1>2 DEF ReadStatus
  <2>2. /\ DOMAIN req = Fields /\ req.at = "explorer" /\ req.from = reqs[r].from
        /\ req.known = reqs[r].known /\ req.total = reqs[r].total /\ req.left = reqs[r].left
    BY <1>1 DEF ReqOK, Fields
  <2> HIDE DEF req
  <2> QED
    BY <1>1, <2>1, <2>2, FreshKeeps DEF ReqOK
<1>3. CASE ~(status = None \/ PageOf(status, reqs[r].from) = {})
  <2> DEFINE req == [reqs[r] EXCEPT !.at = "rows", !.total = status]
  <2>1. Become(r, req)
    BY <1>3 DEF ReadStatus
  <2>2. /\ DOMAIN req = Fields /\ req.at = "rows" /\ req.from = reqs[r].from
        /\ req.known = reqs[r].known /\ req.total = status /\ req.left = reqs[r].left
    BY <1>1 DEF ReqOK, Fields
  <2> HIDE DEF req
  <2>3. status \in 0..tip
    BY <1>3 DEF Inv, Basic
  <2>4. ReqOK(req, tip, scanned)
    BY <1>1, <2>2, <2>3 DEF ReqOK
  <2>5. mixed \/ Honest(req, tip, scanned)
    BY <1>3, <2>2 DEF Honest, Inv, Clean
  <2> QED
    BY <1>1, <2>1, <2>4, <2>5, OneRequest
<1> QED
  BY <1>2, <1>3

(* The page of the rows is one of the history, although the total may be from before
   the scan and the rows from after it. *)
LEMMA ReadRowsKeeps ==
  ASSUME Inv, NEW r \in Requests, ReadRows(r)
  PROVE  Inv'
<1> DEFINE page == PageOf(reqs[r].total, reqs[r].from)
<1>1. ReqOK(reqs[r], tip, scanned) /\ UNCHANGED <<world, cache, mixed>>
  BY DEF Inv, Basic, ReadRows, ReadOnly
<1>2. CASE Cached(page) # page
  <2> DEFINE req == [reqs[r] EXCEPT !.at = "explorer"]
  <2>1. Become(r, req)
    BY <1>2 DEF ReadRows
  <2>2. /\ DOMAIN req = Fields /\ req.at = "explorer" /\ req.from = reqs[r].from
        /\ req.known = reqs[r].known /\ req.total = reqs[r].total /\ req.left = reqs[r].left
    BY <1>1 DEF ReqOK, Fields
  <2> HIDE DEF req
  <2> QED
    BY <1>1, <2>1, <2>2, FreshKeeps DEF ReqOK
<1>3. CASE Cached(page) = page
  <2> DEFINE req == [reqs[r] EXCEPT !.at = "done", !.page = RowPage(page, rows)]
  <2>1. Become(r, req)
    BY <1>3 DEF ReadRows, RowPage
  <2>2. /\ DOMAIN req = Fields /\ req.at = "done" /\ req.from = reqs[r].from
        /\ req.known = reqs[r].known /\ req.total = reqs[r].total /\ req.left = reqs[r].left
        /\ req.page = RowPage(page, rows)
    BY <1>1 DEF ReqOK, Fields
  <2> HIDE DEF req
  <2>3. ReqOK(req, tip, scanned)
    BY <1>1, <2>2 DEF ReqOK
  <2>4. ASSUME ~mixed PROVE Honest(req, tip, scanned)
    <3>1. /\ tip \in 0..MaxTx /\ scanned \in BOOLEAN /\ MaxTx \in Nat
          /\ reqs[r].total \in 0..tip /\ reqs[r].total \in Nat /\ reqs[r].from \in Nat
      BY <1>1, TxHistoryCacheAssumption DEF Inv, Basic, ReqOK
    <3>2. PICK m \in 0..tip : reqs[r].total = Number(m, scanned)
      <4>1. CASE scanned
        <5>1. Number(reqs[r].total, scanned) = reqs[r].total
          BY <3>1, <4>1, NumberBound
        <5> QED
          BY <3>1, <5>1
      <4>2. CASE ~scanned
        <5>1. Honest(reqs[r], tip, scanned) /\ reqs[r].at = "rows"
          BY <2>4 DEF Inv, Clean, ReadRows
        <5> QED
          BY <3>1, <4>2, <5>1 DEF Honest
      <4> QED
        BY <3>1, <4>1, <4>2
    <3>3. PICK a \in Nat, b \in Int : b < reqs[r].total /\ page = a..b
      BY <3>1, PageIsInterval
    <3>4. \A k \in a..b : rows[k] = At(k, scanned)
      <4>1. SUFFICES ASSUME NEW k \in page PROVE rows[k] = At(k, scanned)
        BY <3>3
      <4>2. rows[k] # None
        BY <1>3, <4>1 DEF Cached
      <4>3. k \in Positions
        BY <3>1, <3>3, <4>1 DEF Positions
      <4> QED
        BY <2>4, <4>2, <4>3 DEF Inv, Clean
    <3>5. RowPage(a..b, rows) = HistoryPage(a..b, scanned)
      BY <3>4, SamePage
    <3>6. req.page = PageAsOf(m, scanned, req.from)
      BY <2>2, <3>2, <3>3, <3>5 DEF PageAsOf
    <3> QED
      BY <2>2, <3>2, <3>6 DEF Honest
  <2> QED
    BY <1>1, <2>1, <2>3, <2>4, OneRequest
<1> QED
  BY <1>2, <1>3

(* The page and the total of the explorer are those of one moment. *)
LEMMA QueryKeeps ==
  ASSUME Inv, NEW r \in Requests, Query(r)
  PROVE  Inv'
<1> DEFINE whole == reqs[r].known
           total == Number(tip, whole)
           page == PageOf(total, reqs[r].from)
           old == {k \in page : At(k, whole) <= deep}
           at == IF old = {} THEN "done" ELSE "store"
           req == [reqs[r] EXCEPT !.at = at, !.total = total,
                                  !.page = HistoryPage(page, whole), !.left = old]
<1>1. ReqOK(reqs[r], tip, scanned) /\ UNCHANGED <<world, cache, mixed>>
  BY DEF Inv, Basic, Query, ReadOnly
<1>2. Become(r, req)
  BY DEF Query, HistoryPage
<1>3. at \in {"done", "store"}
  OBVIOUS
<1>4. /\ tip \in 0..MaxTx /\ MaxTx \in Nat /\ tip \in Nat
      /\ whole \in BOOLEAN /\ (whole => scanned) /\ reqs[r].from \in Nat
  BY <1>1, TxHistoryCacheAssumption DEF Inv, Basic, ReqOK
<1>5. total \in 0..tip /\ total \in Nat
  <2>1. total \in 0..tip
    BY <1>4, NumberBound
  <2> QED
    BY <1>4, <2>1
<1>6. old \subseteq Positions
  <2> HIDE DEF total
  <2>1. PICK a \in Nat, b \in Int : b < total /\ page = a..b
    BY <1>4, <1>5, PageIsInterval
  <2> QED
    BY <1>4, <1>5, <2>1 DEF Positions
<1> HIDE DEF old, at
<1>7. /\ DOMAIN req = Fields /\ req.at = at /\ req.from = reqs[r].from
      /\ req.known = whole /\ req.total = total /\ req.left = old
      /\ req.page = HistoryPage(page, whole)
  BY <1>1 DEF ReqOK, Fields
<1> HIDE DEF req
<1>8. ReqOK(req, tip, scanned)
  BY <1>3, <1>4, <1>5, <1>6, <1>7 DEF ReqOK
<1>9. Honest(req, tip, scanned)
  <2>1. req.page = PageAsOf(tip, req.known, req.from)
    BY <1>7 DEF PageAsOf
  <2>2. tip \in 0..tip /\ req.known \in {req.known, scanned}
    BY <1>4
  <2>3. \E m \in 0..tip, k \in {req.known, scanned} : req.page = PageAsOf(m, k, req.from)
    BY <2>1, <2>2, Zenon
  <2>4. req.at # "rows"
    BY <1>3, <1>7
  <2> QED
    BY <2>3, <2>4 DEF Honest
<1> QED
  BY <1>1, <1>2, <1>8, <1>9, OneRequest

(* A row is stored; unless the request is from before the scan, it is the one of its
   place. *)
LEMMA StoreRowKeeps ==
  ASSUME Inv, NEW r \in Requests, NEW k \in Positions, StoreRow(r, k)
  PROVE  Inv'
<1> DEFINE req == [reqs[r] EXCEPT !.left = reqs[r].left \ {k}]
<1>1. /\ UNCHANGED <<world, status>> /\ Become(r, req)
      /\ rows' = [rows EXCEPT ![k] = At(k, reqs[r].known)]
      /\ mixed' = (mixed \/ Mixes(r))
      /\ ReqOK(reqs[r], tip, scanned)
  BY DEF Inv, Basic, StoreRow
<1>2. /\ DOMAIN req = Fields /\ req.at = reqs[r].at /\ req.from = reqs[r].from
      /\ req.known = reqs[r].known /\ req.total = reqs[r].total
      /\ req.left = reqs[r].left \ {k} /\ req.page = reqs[r].page
  BY <1>1 DEF ReqOK, Fields
<1> HIDE DEF req
<1>3. ReqOK(req, tip, scanned) /\ (Honest(reqs[r], tip, scanned) => Honest(req, tip, scanned))
  BY <1>1, <1>2 DEF ReqOK, Honest
<1>4. DOMAIN reqs' = Requests
      /\ \A q \in Requests : reqs'[q] = IF q = r THEN req ELSE reqs[q]
  BY <1>1 DEF Become, Inv, Basic
<1>5. Basic'
  BY <1>1, <1>3, <1>4 DEF Inv, Basic, world, Mixes
<1>6. ASSUME ~mixed' PROVE Clean'
  <2>1. ~mixed /\ ~Mixes(r) /\ Clean
    BY <1>1, <1>6 DEF Inv
  <2>2. scan = "no" /\ (reqs[r].known <=> scanned)
    BY <1>1, <2>1 DEF Mixes, ReqOK, Inv, Basic
  <2>3. At(k, reqs[r].known) = At(k, scanned)
    <3>1. CASE scanned
      BY <2>2, <3>1, Zenon DEF At, IsOf, PositionOf, Number
    <3>2. CASE ~scanned
      BY <2>2, <3>2, Zenon DEF At, IsOf, PositionOf, Number
    <3> QED
      BY <3>1, <3>2
  <2>4. \A l \in Positions : rows'[l] = IF l = k THEN At(k, scanned) ELSE rows[l]
    BY <1>1, <2>3 DEF Inv, Basic
  <2>5. \A q \in Requests : Honest(reqs'[q], tip, scanned)
    BY <1>3, <1>4, <2>1 DEF Clean
  <2> QED
    BY <1>1, <2>1, <2>2, <2>4, <2>5 DEF Clean, world
<1> QED
  BY <1>5, <1>6 DEF Inv

LEMMA StoreStatusKeeps ==
  ASSUME Inv, NEW r \in Requests, StoreStatus(r)
  PROVE  Inv'
<1> DEFINE req == [reqs[r] EXCEPT !.at = "done"]
<1>1. /\ UNCHANGED <<world, rows>> /\ Become(r, req)
      /\ status' \in {status, reqs[r].total}
      /\ mixed' = (mixed \/ Mixes(r))
      /\ ReqOK(reqs[r], tip, scanned) /\ reqs[r].at = "store"
  BY DEF Inv, Basic, StoreStatus
<1>2. /\ DOMAIN req = Fields /\ req.at = "done" /\ req.from = reqs[r].from
      /\ req.known = reqs[r].known /\ req.total = reqs[r].total
      /\ req.left = reqs[r].left /\ req.page = reqs[r].page
  BY <1>1 DEF ReqOK, Fields
<1> HIDE DEF req
<1>3. ReqOK(req, tip, scanned) /\ (Honest(reqs[r], tip, scanned) => Honest(req, tip, scanned))
  BY <1>1, <1>2 DEF ReqOK, Honest
<1>4. DOMAIN reqs' = Requests
      /\ \A q \in Requests : reqs'[q] = IF q = r THEN req ELSE reqs[q]
  BY <1>1 DEF Become, Inv, Basic
<1>5. Basic'
  BY <1>1, <1>3, <1>4 DEF Inv, Basic, world, Mixes, ReqOK
<1>6. ASSUME ~mixed' PROVE Clean'
  <2>1. ~mixed /\ ~Mixes(r) /\ Clean
    BY <1>1, <1>6 DEF Inv
  <2>2. \A q \in Requests : Honest(reqs'[q], tip, scanned)
    BY <1>3, <1>4, <2>1 DEF Clean
  <2>3. ASSUME status' # None, ~scanned PROVE \E m \in 0..tip : status' = Number(m, FALSE)
    <3>1. CASE status' = status
      BY <2>1, <2>3, <3>1 DEF Clean
    <3>2. CASE status' = reqs[r].total
      <4>1. PICK m \in 0..tip : reqs[r].total = Number(m, reqs[r].known)
        BY <1>1 DEF ReqOK
      <4>2. reqs[r].known \in BOOLEAN /\ ~reqs[r].known
        BY <1>1, <2>3 DEF ReqOK
      <4>3. Number(m, reqs[r].known) = Number(m, FALSE)
        BY <4>2, Zenon DEF Number, IsOf
      <4> QED
        BY <3>2, <4>1, <4>3
    <3> QED
      BY <1>1, <3>1, <3>2
  <2> QED
    BY <1>1, <2>1, <2>2, <2>3 DEF Clean, world
<1> QED
  BY <1>5, <1>6 DEF Inv

(* What the world does. *)
LEMMA NewTxKeeps == ASSUME Inv, NewTx \/ Confirm PROVE Inv'
<1>1. /\ tip \in 0..MaxTx /\ tip' \in 0..MaxTx /\ tip \in Nat /\ tip' \in Nat /\ tip <= tip'
      /\ UNCHANGED <<scan, scanned, cache, reqs, mixed>>
      /\ scanned \in BOOLEAN
  BY TxHistoryCacheAssumption DEF Inv, Basic, NewTx, Confirm
<1>2. 0..tip \subseteq 0..tip'
  BY <1>1
<1>3. \A r \in Requests : /\ ReqOK(reqs[r], tip', scanned)
                          /\ Honest(reqs[r], tip, scanned) => Honest(reqs[r], tip', scanned)
  BY <1>1, ReqGrows DEF Inv, Basic
<1>4. Basic'
  BY <1>1, <1>2, <1>3 DEF Inv, Basic, cache
<1>5. ASSUME ~mixed PROVE Clean'
  <2>1. Clean
    BY <1>5 DEF Inv
  <2> QED
    BY <1>1, <1>2, <1>3, <2>1 DEF Clean, cache
<1> QED
  BY <1>1, <1>4, <1>5 DEF Inv

LEMMA ClearKeeps == ASSUME Inv, SoftReset \/ StartScan \/ ClearRows \/ ClearStatus PROVE Inv'
<1>1. Basic'
  BY DEF Inv, Basic, SoftReset, StartScan, ClearRows, ClearStatus, ScanOnly, cache
<1>2. ASSUME ~mixed PROVE Clean'
  <2>1. Clean /\ DOMAIN rows = Positions
    BY <1>2 DEF Inv, Basic
  <2>2. CASE SoftReset \/ StartScan \/ ClearStatus
    BY <2>1, <2>2 DEF Clean, SoftReset, StartScan, ClearStatus, ScanOnly, cache
  <2>3. CASE ClearRows
    BY <2>1, <2>3 DEF Clean, ClearRows, ScanOnly
  <2> QED
    BY <2>2, <2>3
<1>3. mixed' = mixed
  BY DEF SoftReset, StartScan, ClearRows, ClearStatus, ScanOnly
<1> QED
  BY <1>1, <1>2, <1>3 DEF Inv

(* The addresses the scan has found shift the places of the rows: there are none. *)
LEMMA StoreAddressesKeeps == ASSUME Inv, StoreAddresses PROVE Inv'
<1>1. /\ scan = "addresses" /\ scan' = "no" /\ scanned' = TRUE
      /\ UNCHANGED <<tip, reqs, mixed, status, rows>>
      /\ tip \in Nat /\ scanned \in BOOLEAN
  BY TxHistoryCacheAssumption DEF Inv, Basic, StoreAddresses, ScanOnly, cache
<1>2. ASSUME NEW r \in Requests
      PROVE  /\ ReqOK(reqs[r], tip, scanned')
             /\ Honest(reqs[r], tip, scanned) => Honest(reqs[r], tip, scanned')
  <2>1. ReqOK(reqs[r], tip, scanned) /\ tip <= tip
    BY <1>1 DEF Inv, Basic
  <2>2. scanned' \in BOOLEAN /\ (scanned => scanned')
    BY <1>1
  <2> QED
    BY <1>1, <2>1, <2>2, ReqGrows
<1>3. Basic'
  BY <1>1, <1>2 DEF Inv, Basic
<1>4. ASSUME ~mixed PROVE Clean'
  <2>1. Clean
    BY <1>4 DEF Inv
  <2> QED
    BY <1>1, <1>2, <2>1 DEF Clean
<1> QED
  BY <1>1, <1>3, <1>4 DEF Inv

LEMMA RowFailsKeeps ==
  ASSUME Inv, NEW r \in Requests, NEW k \in Positions, RowFails(r, k)
  PROVE  Inv'
<1> DEFINE req == [reqs[r] EXCEPT !.left = reqs[r].left \ {k}, !.ok = FALSE]
<1>1. UNCHANGED <<world, cache, mixed>> /\ Become(r, req) /\ ReqOK(reqs[r], tip, scanned)
  BY DEF Inv, Basic, RowFails
<1>2. /\ DOMAIN req = Fields /\ req.at = reqs[r].at /\ req.from = reqs[r].from
      /\ req.known = reqs[r].known /\ req.total = reqs[r].total
      /\ req.left = reqs[r].left \ {k} /\ req.page = reqs[r].page
  BY <1>1 DEF ReqOK, Fields
<1> HIDE DEF req
<1>3. ReqOK(req, tip, scanned) /\ (Honest(reqs[r], tip, scanned) => Honest(req, tip, scanned))
  BY <1>1, <1>2 DEF ReqOK, Honest
<1>4. mixed \/ Honest(reqs[r], tip, scanned)
  BY DEF Inv, Clean
<1> QED
  BY <1>1, <1>3, <1>4, OneRequest

LEMMA CrashKeeps == ASSUME Inv, Crash PROVE Inv'
<1>1. /\ UNCHANGED <<world, cache, mixed>> /\ DOMAIN reqs' = Requests
      /\ \A r \in Requests : reqs'[r] = Idle
  BY DEF Crash
<1>2. ReqOK(Idle, tip, scanned) /\ Honest(Idle, tip, scanned)
  <2>1. DOMAIN Idle = Fields
    BY DEF Idle, Fields
  <2>2. /\ Idle.at = "idle" /\ Idle.from = 0 /\ Idle.total = 0 /\ Idle.left = {}
        /\ Idle.known \in BOOLEAN /\ ~Idle.known
    BY DEF Idle
  <2>3. tip \in Nat
    BY TxHistoryCacheAssumption DEF Inv, Basic
  <2> QED
    BY <2>1, <2>2, <2>3 DEF ReqOK, Honest
<1>3. Basic'
  BY <1>1, <1>2 DEF Inv, Basic, world, cache
<1>4. ~mixed => Clean'
  BY <1>1, <1>2 DEF Inv, Clean, world, cache
<1> QED
  BY <1>1, <1>3, <1>4 DEF Inv

LEMMA NextInv == Inv /\ [Next]_vars => Inv'
<1> SUFFICES ASSUME Inv, [Next]_vars PROVE Inv'
  OBVIOUS
<1>1. CASE NewTx \/ Confirm
  BY <1>1, NewTxKeeps
<1>2. CASE SoftReset \/ StartScan \/ ClearRows \/ ClearStatus
  BY <1>2, ClearKeeps
<1>3. CASE StoreAddresses
  BY <1>3, StoreAddressesKeeps
<1>4. ASSUME NEW r \in Requests, NEW from \in 0..MaxTx, GetTxHistory(r, from) PROVE Inv'
  BY <1>4, GetKeeps
<1>5. ASSUME NEW r \in Requests, NEW k \in Positions, StoreRow(r, k) \/ RowFails(r, k)
      PROVE  Inv'
  BY <1>5, StoreRowKeeps, RowFailsKeeps
<1>6. ASSUME NEW r \in Requests,
             ReadStatus(r) \/ ReadRows(r) \/ Query(r) \/ StoreStatus(r)
      PROVE  Inv'
  BY <1>6, ReadStatusKeeps, ReadRowsKeeps, QueryKeeps, StoreStatusKeeps
<1>7. ASSUME NEW r \in Requests, Answered(r) \/ Fails(r) PROVE Inv'
  BY <1>7, IdleKeeps DEF Answered, Fails, ReadOnly
<1>8. CASE Crash
  BY <1>8, CrashKeeps
<1>9. CASE UNCHANGED vars
  BY <1>9 DEF Inv, Basic, Clean, vars, world, cache
<1> QED
  BY <1>1, <1>2, <1>3, <1>4, <1>5, <1>6, <1>7, <1>8, <1>9 DEF Next

-----------------------------------------------------------------------------
(* What requests know, count and store is honest in every state. *)
THEOREM Invariance == Spec => []Inv
BY InitInv, NextInv, PTL DEF Spec

(* Whoever stores a row and whatever total it was counted with, it is that of its
   place in the history. *)
THEOREM RowsStayInPlace == Spec => []RowsInPlace
<1>1. Inv => RowsInPlace
  BY DEF Inv, Clean, RowsInPlace
<1> QED
  BY <1>1, Invariance, PTL

(* Every answer, of the explorer or of rows that several requests have stored, is one
   page of the history at one time. *)
THEOREM AnswersArePages == Spec => []AnswerIsPage
<1>1. Inv => AnswerIsPage
  <2> SUFFICES ASSUME Inv, ~mixed, NEW r \in Requests, reqs[r].at = "done"
               PROVE  IsPage(reqs[r])
    BY DEF AnswerIsPage
  <2>1. \E m \in 0..tip, whole \in {reqs[r].known, scanned} :
          reqs[r].page = PageAsOf(m, whole, reqs[r].from)
    BY DEF Inv, Clean, Honest
  <2> QED
    BY <2>1 DEF IsPage, PageAsOf, HistoryPage
<1> QED
  BY <1>1, Invariance, PTL
-----------------------------------------------------------------------------
(***************************************************************************)
(* WalletBalance, for any addresses and any number of requests.  The       *)
(* inductive invariant dates what is kept: an entry of the cache is a      *)
(* balance of a moment within its age, an answer is one of a moment since  *)
(* the request came, or since the age the request may take from the cache. *)
(***************************************************************************)

(* The balance of an entry of the cache was that of its addresses within its age, and
   that of an answer since the request came; what an answer of the explorer is stored
   with is not ten seconds old. *)
EntryTrue(b, p, m) ==
  \E k \in m[b.age + 1]..Len(p) : b.result = p[k] \cap b.of

AskTrue(ask, p, m) ==
  /\ ask.since <= Len(p)
  /\ ask.fast > 0 => ask.since <= m[ask.fast]
  /\ Has(ask) =>
       \E k \in ask.since..Len(p) : /\ ask.found = p[k] \cap ask.list
                                    /\ ask.at = "store" => k >= m[1]

TimesOK ==
  /\ funded = past[Len(past)]
  /\ marks[2] <= marks[1]

BalanceInv ==
  /\ BalanceTypeOK
  /\ TimesOK
  /\ \A b \in balances : EntryTrue(b, past, marks)
  /\ \A r \in Askers : AskTrue(asks[r], past, marks)

Entry == [of : SUBSET Held, result : SUBSET Held, age : Ages]

(* What was true stays true when there is more of the past, and when time goes on. *)
LEMMA StaysTrue ==
  ASSUME NEW p \in Seq(SUBSET Held), NEW q \in Seq(SUBSET Held), Len(p) <= Len(q),
         \A k \in 1..Len(p) : q[k] = p[k],
         NEW m \in [1..2 -> Nat \ {0}], NEW n \in [1..2 -> Nat \ {0}],
         m[1] <= n[1], m[2] <= n[2]
  PROVE  /\ \A b \in Entry : m = n /\ EntryTrue(b, p, m) => EntryTrue(b, q, n)
         /\ \A ask \in Ask : AskTrue(ask, p, m) /\ (ask.at = "store" => n = m)
              => AskTrue(ask, q, n)
<1>0. Len(p) \in Nat /\ Len(q) \in Nat
  BY LenProperties
<1>1. ASSUME NEW b \in Entry, m = n, EntryTrue(b, p, m)
      PROVE  EntryTrue(b, q, n)
  <2>1. PICK k \in m[b.age + 1]..Len(p) : b.result = p[k] \cap b.of
    BY <1>1 DEF EntryTrue
  <2>2. b.age + 1 \in 1..2
    BY DEF Entry, Ages
  <2>3. m[b.age + 1] \in Nat \ {0}
    BY <2>2
  <2>4. k \in 1..Len(p) /\ k \in n[b.age + 1]..Len(q)
    BY <1>0, <1>1, <2>3
  <2> QED
    BY <2>1, <2>4 DEF EntryTrue
<1>2. ASSUME NEW ask \in Ask, AskTrue(ask, p, m), ask.at = "store" => n = m
      PROVE  AskTrue(ask, q, n)
  <2>0. ask.since \in Nat \ {0} /\ ask.fast \in 0..2
    BY DEF Ask, Old
  <2>1. ask.since <= Len(q)
    BY <1>0, <1>2, <2>0 DEF AskTrue
  <2>2. ask.fast > 0 => ask.since <= n[ask.fast]
    BY <1>2, <2>0 DEF AskTrue
  <2>3. ASSUME Has(ask)
        PROVE  \E k \in ask.since..Len(q) : /\ ask.found = q[k] \cap ask.list
                                            /\ ask.at = "store" => k >= n[1]
    <3>1. PICK k \in ask.since..Len(p) : /\ ask.found = p[k] \cap ask.list
                                         /\ ask.at = "store" => k >= m[1]
      BY <1>2, <2>3 DEF AskTrue
    <3>2. k \in 1..Len(p) /\ k \in ask.since..Len(q)
      BY <1>0, <2>0
    <3> QED
      BY <1>2, <3>1, <3>2
  <2> QED
    BY <2>1, <2>2, <2>3 DEF AskTrue
<1> QED
  BY <1>1, <1>2

LEMMA BalanceBasics ==
  ASSUME BalanceInv
  PROVE  /\ past \in Seq(SUBSET Held) /\ Len(past) \in Nat \ {0}
         /\ marks \in [1..2 -> Nat \ {0}] /\ marks[1] <= Len(past) /\ marks[2] <= Len(past)
         /\ marks[2] <= marks[1]
         /\ \A r \in Askers : asks[r] \in Ask
         /\ balances \subseteq Entry
BY LenProperties DEF BalanceInv, BalanceTypeOK, TimesOK, Entry

(* The variables of a request: it goes on with one that is true. *)
LEMMA AskMoves ==
  ASSUME BalanceInv, NEW r \in Askers, NEW ask \in Ask, AskTrue(ask, past, marks),
         asks' = [asks EXCEPT ![r] = ask], UNCHANGED <<past, marks>>
  PROVE  /\ asks' \in [Askers -> Ask]
         /\ \A s \in Askers : AskTrue(asks'[s], past', marks')
BY DEF BalanceInv, BalanceTypeOK

-----------------------------------------------------------------------------
LEMMA BalanceStarts == BalanceInit => BalanceInv
<1> SUFFICES ASSUME BalanceInit PROVE BalanceInv
  OBVIOUS
<1>1. past \in Seq(SUBSET Held) /\ Len(past) = 1 /\ past[1] = funded
  BY DEF BalanceInit
<1>2. Free \in Ask
  BY WalletBalanceAssumption DEF Free, Ask, Old
<1>3. marks \in [1..2 -> 1..1] /\ marks[1] = 1 /\ marks[2] = 1
  BY DEF BalanceInit
<1>4. BalanceTypeOK
  BY <1>1, <1>2, <1>3, WalletBalanceAssumption DEF BalanceInit, BalanceTypeOK
<1>5. AskTrue(Free, past, marks)
  BY <1>1 DEF AskTrue, Free, Has
<1> QED
  BY <1>1, <1>3, <1>4, <1>5 DEF BalanceInv, TimesOK, BalanceInit

(* The world: coins move, the monitor notes, time goes on. *)
LEMMA CoinsMove ==
  ASSUME BalanceInv, NEW to \in SUBSET Held, Move(to), WorldOnly,
         noting' \subseteq [address : Held, wrote : BOOLEAN, list : SUBSET Held],
         upsets' \in 0..MaxUpsets
  PROVE  BalanceInv'
<1> USE BalanceBasics
<1>1. /\ past' \in Seq(SUBSET Held) /\ Len(past') = Len(past) + 1
      /\ \A k \in 1..Len(past) : past'[k] = past[k]
      /\ past'[Len(past')] = to
  BY AppendProperties DEF Move
<1>2. marks' = marks /\ asks' = asks /\ balances' = balances
  BY DEF WorldOnly
<1>3. Len(past') \in 1..(MaxChanges + 1) /\ marks \in [1..2 -> 1..Len(past')]
  BY <1>1, WalletBalanceAssumption DEF Move
<1>4. BalanceTypeOK'
  <2>1. funded' = to /\ UNCHANGED <<listed, twoStep, balances, asks, locker, known, marks>>
    BY DEF Move, WorldOnly
  <2>2. BalanceTypeOK
    BY DEF BalanceInv
  <2> QED
    BY <1>1, <1>3, <2>1, <2>2 DEF BalanceTypeOK
<1>a. /\ \A b \in Entry : EntryTrue(b, past, marks) => EntryTrue(b, past', marks)
      /\ \A ask \in Ask : AskTrue(ask, past, marks) => AskTrue(ask, past', marks)
  <2>1. past \in Seq(SUBSET Held) /\ past' \in Seq(SUBSET Held) /\ Len(past) <= Len(past')
        /\ marks \in [1..2 -> Nat \ {0}]
    BY <1>1
  <2> QED
    BY <1>1, <2>1, StaysTrue
<1>b. /\ balances \subseteq Entry /\ \A b \in balances : EntryTrue(b, past, marks)
      /\ \A r \in Askers : asks[r] \in Ask /\ AskTrue(asks[r], past, marks)
  BY DEF BalanceInv
<1>5. \A b \in balances' : EntryTrue(b, past', marks')
  BY <1>2, <1>a, <1>b
<1>6. \A r \in Askers : AskTrue(asks'[r], past', marks')
  BY <1>2, <1>a, <1>b
<1>7. TimesOK'
  <2>1. funded' = to /\ marks[2] <= marks[1]
    BY DEF Move
  <2> QED
    BY <1>1, <1>2, <2>1 DEF TimesOK
<1> QED
  BY <1>4, <1>5, <1>6, <1>7 DEF BalanceInv

LEMMA WorldSteps ==
  ASSUME BalanceInv,
         \/ \E x \in Held : Receive(x) \/ Spend(x)
         \/ \E n \in noting : NoteRead(n) \/ NoteWrite(n)
  PROVE  BalanceInv'
<1> DEFINE Noting == [address : Held, wrote : BOOLEAN, list : SUBSET Held]
<1>0. noting \subseteq Noting /\ listed \subseteq Held /\ funded \subseteq Held
      /\ upsets \in 0..MaxUpsets /\ MaxUpsets \in Nat
  BY WalletBalanceAssumption DEF BalanceInv, BalanceTypeOK
<1>1. ASSUME NEW x \in Held, Receive(x)
      PROVE  BalanceInv'
  <2>1. Move(funded \cup {x}) /\ WorldOnly
    BY <1>1 DEF Receive
  <2>2. noting' \subseteq Noting
    <3>1. [address |-> x, wrote |-> FALSE, list |-> {}] \in Noting
      OBVIOUS
    <3> QED
      BY <1>0, <1>1, <3>1, Zenon DEF Receive
  <2>3. upsets' \in 0..MaxUpsets
    <3>1. upsets' = upsets \/ (upsets < MaxUpsets /\ upsets' = upsets + 1)
      BY <1>1, Zenon DEF Receive, Upset
    <3> QED
      BY <1>0, <3>1
  <2> QED
    BY <1>0, <2>1, <2>2, <2>3, CoinsMove
<1>2. ASSUME NEW x \in Held, Spend(x)
      PROVE  BalanceInv'
  BY <1>0, <1>2, CoinsMove DEF Spend
<1>3. ASSUME NEW n \in noting, NoteRead(n) \/ NoteWrite(n)
      PROVE  BalanceInv'
  <2>1. noting' \subseteq Noting /\ listed' \subseteq Held
    <3>1. CASE NoteRead(n)
      <4>1. [n EXCEPT !.wrote = TRUE, !.list = listed] \in Noting
        BY <1>0
      <4> QED
        BY <1>0, <3>1, <4>1 DEF NoteRead, WorldOnly
    <3>2. CASE NoteWrite(n)
      BY <1>0, <3>2 DEF NoteWrite
    <3> QED
      BY <1>3, <3>1, <3>2
  <2>2. UNCHANGED <<funded, twoStep, balances, asks, locker, known, past, marks, upsets>>
    BY <1>3 DEF NoteRead, NoteWrite, WorldOnly
  <2> QED
    BY <2>1, <2>2 DEF BalanceInv, BalanceTypeOK, TimesOK
<1> QED
  BY <1>1, <1>2, <1>3

LEMMA TimePasses ==
  ASSUME BalanceInv, TenSeconds \/ AnHour
  PROVE  BalanceInv'
<1> USE BalanceBasics
<1>1. CASE AnHour
  <2>1. twoStep' \in [counted : BOOLEAN, empty : BOOLEAN]
    BY <1>1 DEF AnHour, BalanceInv, BalanceTypeOK
  <2> QED
    BY <1>1, <2>1 DEF AnHour, BalanceInv, BalanceTypeOK, TimesOK
<1>2. CASE TenSeconds
  <2>0. PICK n : n = <<Len(past), marks[1]>>
    OBVIOUS
  <2>1. /\ marks' = n /\ n \in [1..2 -> Nat \ {0}] /\ n \in [1..2 -> 1..Len(past)]
        /\ n[1] = Len(past) /\ n[2] = marks[1] /\ marks[1] <= n[1] /\ marks[2] <= n[2]
    BY <1>2, <2>0 DEF TenSeconds
  <2>2. \A b \in balances' : b \in Entry /\ EntryTrue(b, past, n)
    <3> SUFFICES ASSUME NEW b \in balances' PROVE b \in Entry /\ EntryTrue(b, past, n)
      OBVIOUS
    <3>1. PICK c \in balances : c.age + 1 \in Ages /\ b = [c EXCEPT !.age = @ + 1]
      BY <1>2, Zenon DEF TenSeconds
    <3>2. c \in Entry /\ c.age = 0
      BY <3>1 DEF Entry, Ages
    <3>3. b \in Entry /\ b.age = 1 /\ b.of = c.of /\ b.result = c.result
      BY <3>1, <3>2 DEF Entry, Ages
    <3>4. EntryTrue(c, past, marks)
      BY DEF BalanceInv
    <3> QED
      BY <2>1, <3>2, <3>3, <3>4 DEF EntryTrue
  <2>3. \A r \in Askers : AskTrue(asks'[r], past, n)
    <3>1. \A ask \in Ask : AskTrue(ask, past, marks) /\ (ask.at = "store" => n = marks)
            => AskTrue(ask, past, n)
      BY <2>1, StaysTrue
    <3>2. asks' = asks /\ \A r \in Askers : asks[r].at # "store"
      BY <1>2 DEF TenSeconds
    <3> QED
      BY <3>1, <3>2 DEF BalanceInv
  <2>4. BalanceTypeOK'
    BY <1>2, <2>1, <2>2, Zenon DEF TenSeconds, BalanceInv, BalanceTypeOK, Entry
  <2>5. TimesOK'
    BY <1>2, <2>1 DEF TenSeconds, BalanceInv, TimesOK
  <2> QED
    BY <1>2, <2>1, <2>2, <2>3, <2>4, <2>5 DEF TenSeconds, BalanceInv
<1> QED
  BY <1>1, <1>2

-----------------------------------------------------------------------------
(* A step of a request: what it leaves to prove. *)
LEMMA AskSteps ==
  ASSUME BalanceInv, NEW r \in Askers, NEW ask \in Ask, AskTrue(ask, past, marks),
         Now(r, ask), Outside,
         listed' \subseteq Held, known' \subseteq Held,
         twoStep' \in [counted : BOOLEAN, empty : BOOLEAN],
         balances' \subseteq Entry,
         \A b \in balances' : EntryTrue(b, past, marks),
         locker' \in Askers \cup {Nobody}, upsets' \in 0..MaxUpsets
  PROVE  BalanceInv'
<1>1. asks' = [asks EXCEPT ![r] = ask] /\ UNCHANGED <<funded, noting, past, marks>>
  BY DEF Now, Outside
<1>2. asks' \in [Askers -> Ask] /\ \A s \in Askers : AskTrue(asks'[s], past', marks')
  BY <1>1, AskMoves
<1>3. BalanceTypeOK'
  BY <1>1, <1>2 DEF BalanceInv, BalanceTypeOK, Entry
<1>4. TimesOK'
  BY <1>1 DEF BalanceInv, TimesOK
<1> QED
  BY <1>1, <1>2, <1>3, <1>4 DEF BalanceInv

(* The data a request is made of. *)
LEMMA AskTyped ==
  ASSUME BalanceInv, NEW r \in Askers
  PROVE  /\ asks[r] \in Ask /\ AskTrue(asks[r], past, marks)
         /\ asks[r].since \in Nat \ {0} /\ asks[r].since <= Len(past)
         /\ asks[r].fast \in 0..2 /\ asks[r].list \subseteq Held
         /\ asks[r].found \subseteq Held /\ asks[r].part \in {"all", "active", "rest"}
BY BalanceBasics DEF BalanceInv, AskTrue, Ask, Old

LEMMA OthersTyped ==
  ASSUME BalanceInv
  PROVE  /\ funded \subseteq Held /\ listed \subseteq Held /\ known \subseteq Held
         /\ twoStep \in [counted : BOOLEAN, empty : BOOLEAN]
         /\ twoStep.counted \in BOOLEAN /\ twoStep.empty \in BOOLEAN
         /\ balances \subseteq Entry /\ \A b \in balances : EntryTrue(b, past, marks)
         /\ locker \in Askers \cup {Nobody}
         /\ upsets \in 0..MaxUpsets
         /\ Upset => upsets' \in 0..MaxUpsets
BY WalletBalanceAssumption DEF BalanceInv, BalanceTypeOK, Entry, Upset

LEMMA FreeTrue == BalanceInv => Free \in Ask /\ AskTrue(Free, past, marks)
BY BalanceBasics, WalletBalanceAssumption DEF Free, Ask, AskTrue, Has, Old

(* A request that goes on without a balance is true if it may use the cache no more
   than it did. *)
LEMMA StillAsking ==
  ASSUME BalanceInv, NEW r \in Askers, NEW ask \in Ask, ~Has(ask),
         ask.since = asks[r].since, ask.fast = asks[r].fast
  PROVE  AskTrue(ask, past, marks)
BY AskTyped DEF AskTrue

LEMMA AskPrepares ==
  ASSUME BalanceInv, NEW r \in Askers,
         ReadTwoStep(r) \/ StoreCount(r) \/ FetchActive(r) \/ FetchAddresses(r) \/ TakeLock(r)
  PROVE  BalanceInv'
<1> USE AskTyped, OthersTyped, FreeTrue
<1>1. CASE ReadTwoStep(r)
  <2>1. PICK ask : ask = [asks[r] EXCEPT !.counted = twoStep.counted, !.empty = twoStep.empty,
                            !.at = IF twoStep.counted THEN "list" ELSE "count"]
    OBVIOUS
  <2>2. ask \in Ask /\ ~Has(ask) /\ ask.since = asks[r].since /\ ask.fast = asks[r].fast
    BY <2>1 DEF Ask, Has
  <2>3. AskTrue(ask, past, marks)
    BY <2>2, StillAsking
  <2> QED
    BY <1>1, <2>1, <2>2, <2>3, AskSteps DEF ReadTwoStep
<1>2. CASE StoreCount(r)
  <2>1. PICK ask : ask = [asks[r] EXCEPT !.counted = TRUE, !.at = "list"]
    OBVIOUS
  <2>2. ask \in Ask /\ ~Has(ask) /\ ask.since = asks[r].since /\ ask.fast = asks[r].fast
    BY <2>1 DEF Ask, Has
  <2>3. AskTrue(ask, past, marks)
    BY <2>2, StillAsking
  <2>4. twoStep' \in [counted : BOOLEAN, empty : BOOLEAN]
    BY <1>2 DEF StoreCount, Ask
  <2> QED
    BY <1>2, <2>1, <2>2, <2>3, <2>4, AskSteps DEF StoreCount
<1>3. CASE FetchActive(r)
  <2>1. PICK ask \in {[asks[r] EXCEPT !.part = "active", !.list = ActiveAddresses, !.at = "lock"],
                      [asks[r] EXCEPT !.at = "addresses"]} :
          Now(r, ask) /\ upsets' \in 0..MaxUpsets
    BY <1>3 DEF FetchActive
  <2>2. ActiveAddresses \subseteq Held
    BY WalletBalanceAssumption DEF ActiveAddresses
  <2>3. ask \in Ask /\ ~Has(ask) /\ ask.since = asks[r].since /\ ask.fast = asks[r].fast
    <3>1. CASE ask = [asks[r] EXCEPT !.part = "active", !.list = ActiveAddresses, !.at = "lock"]
      BY <2>2, <3>1 DEF Ask, Has
    <3>2. CASE ask = [asks[r] EXCEPT !.at = "addresses"]
      BY <3>2 DEF Ask, Has
    <3> QED
      BY <2>1, <3>1, <3>2
  <2>4. AskTrue(ask, past, marks)
    BY <2>3, StillAsking
  <2>5. Outside /\ UNCHANGED <<listed, twoStep, balances, locker, known>>
    BY <1>3 DEF FetchActive
  <2> QED
    BY <2>1, <2>3, <2>4, <2>5, AskSteps
<1>4. CASE FetchAddresses(r)
  <2>1. PICK ask \in {Free, [asks[r] EXCEPT !.list = Held, !.at = "lock"]} : Now(r, ask)
    BY <1>4 DEF FetchAddresses
  <2>2. ask # Free => /\ ask \in Ask /\ ~Has(ask)
                      /\ ask.since = asks[r].since /\ ask.fast = asks[r].fast
    BY <2>1 DEF Ask, Has
  <2>3. ask \in Ask /\ AskTrue(ask, past, marks)
    BY <2>2, StillAsking
  <2>4. Outside /\ UNCHANGED <<listed, twoStep, balances, locker, known, upsets>>
    BY <1>4 DEF FetchAddresses
  <2> QED
    BY <2>1, <2>3, <2>4, AskSteps
<1>5. CASE TakeLock(r)
  <2>1. PICK ask : ask = [asks[r] EXCEPT !.at = "cache"]
    OBVIOUS
  <2>2. ask \in Ask /\ ~Has(ask) /\ ask.since = asks[r].since /\ ask.fast = asks[r].fast
    BY <2>1 DEF Ask, Has
  <2>3. AskTrue(ask, past, marks)
    BY <2>2, StillAsking
  <2> QED
    BY <1>5, <2>1, <2>2, <2>3, AskSteps DEF TakeLock
<1> QED
  BY <1>1, <1>2, <1>3, <1>4, <1>5

LEMMA AskBegins ==
  ASSUME BalanceInv, NEW r \in Askers, NEW steps \in 1..2, GetBalance(r, steps)
  PROVE  BalanceInv'
<1> USE BalanceBasics, OthersTyped
<1>1. marks[2] \in 1..(MaxChanges + 1) /\ Len(past) \in 1..(MaxChanges + 1)
  BY WalletBalanceAssumption DEF BalanceInv, BalanceTypeOK
<1>2. CASE steps = 1
  <2>1. PICK ask : ask = [Free EXCEPT !.at = "addresses", !.fast = Old, !.since = marks[2]]
    OBVIOUS
  <2>2. ask \in Ask /\ ~Has(ask) /\ ask.since = marks[2] /\ ask.fast = 2
    <3>1. ask = [at |-> "addresses", part |-> "all", fast |-> 2, counted |-> FALSE,
                 empty |-> FALSE, list |-> {}, found |-> {}, first |-> {},
                 cached |-> FALSE, since |-> marks[2]]
      BY <2>1 DEF Free, Old
    <3> QED
      BY <1>1, <3>1 DEF Ask, Has, Old
  <2>3. AskTrue(ask, past, marks)
    BY <2>2 DEF AskTrue
  <2> QED
    BY <1>2, <2>1, <2>2, <2>3, AskSteps DEF GetBalance
<1>3. CASE steps # 1
  <2>1. PICK ask : ask = [Free EXCEPT !.at = "twoStep", !.since = Len(past)]
    OBVIOUS
  <2>2. ask \in Ask /\ ~Has(ask) /\ ask.since = Len(past) /\ ask.fast = 0
    BY <1>1, <2>1, FreeTrue DEF Ask, Has, Free, Old
  <2>3. AskTrue(ask, past, marks)
    BY <2>2 DEF AskTrue
  <2> QED
    BY <1>3, <2>1, <2>2, <2>3, AskSteps DEF GetBalance
<1> QED
  BY <1>2, <1>3

(* A step that comes by a balance: from the cache, or from the explorer. *)
LEMMA AskFinds ==
  ASSUME BalanceInv, NEW r \in Askers, CheckCache(r) \/ QueryUtxos(r)
  PROVE  BalanceInv'
<1>0. /\ past \in Seq(SUBSET Held) /\ Len(past) \in Nat \ {0}
      /\ marks \in [1..2 -> Nat \ {0}] /\ marks[1] <= Len(past) /\ marks[2] <= marks[1]
      /\ asks[r] \in Ask /\ asks[r].since \in Nat \ {0} /\ asks[r].since <= Len(past)
      /\ asks[r].fast \in 0..2 /\ asks[r].list \subseteq Held
      /\ asks[r].cached \in BOOLEAN
  BY BalanceBasics, AskTyped DEF Ask
<1>a. AskTrue(asks[r], past, marks)
  BY AskTyped
<1>b. /\ funded \subseteq Held /\ listed \subseteq Held /\ known \subseteq Held
      /\ twoStep \in [counted : BOOLEAN, empty : BOOLEAN]
      /\ balances \subseteq Entry /\ \A b \in balances : EntryTrue(b, past, marks)
      /\ locker \in Askers \cup {Nobody} /\ upsets \in 0..MaxUpsets
  BY OthersTyped
<1>1. ASSUME NEW found \in SUBSET Held, NEW cached \in BOOLEAN,
             NEW k \in asks[r].since..Len(past), found = past[k] \cap asks[r].list,
             NEW at \in {"store", "answer", "listing"}, at = "store" => k >= marks[1],
             NEW ask, ask = [asks[r] EXCEPT !.found = found, !.cached = cached, !.at = at]
      PROVE  ask \in Ask /\ AskTrue(ask, past, marks)
  <2>1. ask \in Ask /\ ask.found = found /\ ask.list = asks[r].list /\ ask.at = at
        /\ ask.since = asks[r].since /\ ask.fast = asks[r].fast
    BY <1>0, <1>1 DEF Ask
  <2>2. AskTrue(asks[r], past, marks)
    BY <1>a
  <2>3. ask.since <= Len(past) /\ (ask.fast > 0 => ask.since <= marks[ask.fast])
    BY <1>0, <2>1, <2>2 DEF AskTrue
  <2>4. /\ k \in ask.since..Len(past) /\ ask.found = past[k] \cap ask.list
        /\ ask.at = "store" => k >= marks[1]
    BY <1>0, <1>1, <2>1
  <2>5. \E j \in ask.since..Len(past) : /\ ask.found = past[j] \cap ask.list
                                        /\ ask.at = "store" => j >= marks[1]
   BY <2>4
  <2> QED
    BY <2>1, <2>3, <2>5 DEF AskTrue
<1>2. CASE QueryUtxos(r)
  <2>1. PICK found : found = funded \cap asks[r].list
    OBVIOUS
  <2>2. found \in SUBSET Held /\ found = past[Len(past)] \cap asks[r].list
        /\ Len(past) \in asks[r].since..Len(past) /\ Len(past) >= marks[1]
    <3>1. past[Len(past)] = funded
      BY <1>0 DEF BalanceInv, TimesOK
    <3> QED
      BY <1>0, <2>1, <3>1
  <2>3. PICK ask : ask = [asks[r] EXCEPT !.found = found]
    OBVIOUS
  <2>4. ask \in Ask /\ ask.cached \in BOOLEAN /\ ask.cached = asks[r].cached
        /\ ask.list = asks[r].list /\ ask.part = asks[r].part
    BY <1>0, <2>2, <2>3 DEF Ask
  <2>5. PICK at \in {"store", "answer", "listing"} :
          Now(r, [ask EXCEPT !.at = at]) /\ locker' \in {locker, Nobody}
    <3>1. CASE Cacheable(ask.list)
      <4>1. Now(r, [ask EXCEPT !.at = "store"]) /\ locker' = locker
        BY <1>2, <2>1, <2>3, <3>1, Zenon DEF QueryUtxos
      <4> QED
        BY <4>1
    <3>2. CASE ~Cacheable(ask.list)
      <4>1. Now(r, [ask EXCEPT !.at = IF ask.part = "active" THEN "answer" ELSE "listing"])
            /\ locker' = Nobody
        BY <1>2, <2>1, <2>3, <3>2, Zenon DEF QueryUtxos, Unlocked
      <4> QED
        BY <4>1
    <3> QED
      BY <3>1, <3>2
  <2>a. PICK next : next = [ask EXCEPT !.at = at]
    OBVIOUS
  <2>b. Now(r, next) /\ locker' \in Askers \cup {Nobody}
    BY <1>b, <2>5, <2>a
  <2>6. next = [asks[r] EXCEPT !.found = found, !.cached = asks[r].cached, !.at = at]
    BY <1>0, <2>3, <2>4, <2>a DEF Ask
  <2>7. next \in Ask /\ AskTrue(next, past, marks)
    BY <1>0, <1>1, <2>2, <2>4, <2>6
  <2> QED
    BY <1>2, <2>b, <2>7, <1>b, AskSteps DEF QueryUtxos
<1>3. CASE CheckCache(r)
  <2>1. PICK entries : entries = IF Cacheable(asks[r].list) /\ asks[r].fast > 0
                                 THEN CacheFor(asks[r].list) ELSE {}
    OBVIOUS
  <2>2. CASE \E b \in {c \in entries : c.age < asks[r].fast} :
               /\ Unlocked(r, [asks[r] EXCEPT !.found = b.result, !.cached = TRUE])
               /\ UNCHANGED balances
    <3>1. PICK b \in {c \in entries : c.age < asks[r].fast} :
               /\ Unlocked(r, [asks[r] EXCEPT !.found = b.result, !.cached = TRUE])
               /\ UNCHANGED balances
      BY <1>0, <2>2
    <3>2. b \in balances /\ b.of = asks[r].list /\ b.age < asks[r].fast /\ asks[r].fast > 0
      BY <1>0, <2>1, <3>1 DEF CacheFor
    <3>3. b.result \in SUBSET Held /\ b.age \in 0..1 /\ EntryTrue(b, past, marks)
      BY <1>b, <3>2 DEF Entry, Ages
    <3>4. PICK k \in marks[b.age + 1]..Len(past) : b.result = past[k] \cap b.of
      BY <1>0, <3>3 DEF EntryTrue
    <3>5. asks[r].since <= marks[asks[r].fast]
      BY <1>a, <3>2 DEF AskTrue
    <3>6. asks[r].fast \in 1..2 /\ b.age + 1 \in 1..asks[r].fast
      BY <1>0, <3>2, <3>3
    <3>7. marks[asks[r].fast] <= marks[b.age + 1]
      BY <1>0, <3>6
    <3>8. k \in asks[r].since..Len(past)
      <4>1. marks[asks[r].fast] \in Nat /\ marks[b.age + 1] \in Nat /\ asks[r].since \in Nat
        BY <1>0, <3>6
      <4>2. k \in Int /\ marks[b.age + 1] <= k /\ k <= Len(past)
        BY <1>0, <3>4, <4>1
      <4> QED
        BY <1>0, <3>5, <3>7, <4>1, <4>2
    <3>9. PICK at \in {"answer", "listing"} :
            Now(r, [[asks[r] EXCEPT !.found = b.result, !.cached = TRUE] EXCEPT !.at = at])
      BY <1>0, <3>1 DEF Unlocked
    <3>10. PICK next : next = [asks[r] EXCEPT !.found = b.result, !.cached = TRUE, !.at = at]
      OBVIOUS
    <3>11. Now(r, next)
      BY <1>0, <3>9, <3>10
    <3>12. next \in Ask /\ AskTrue(next, past, marks)
      BY <1>0, <1>1, <3>2, <3>3, <3>4, <3>8, <3>10
    <3>13. locker' = Nobody /\ balances' = balances
      BY <1>0, <3>1 DEF Unlocked
    <3> QED
      BY <1>0, <1>3, <3>11, <3>12, <3>13, <1>b, AskSteps DEF CheckCache
  <2>3. CASE /\ Now(r, [asks[r] EXCEPT !.at = "utxos"])
             /\ balances' = balances \ entries
             /\ UNCHANGED locker
    <3>1. PICK ask : ask = [asks[r] EXCEPT !.at = "utxos"]
      OBVIOUS
    <3>2. ask \in Ask /\ ~Has(ask) /\ ask.since = asks[r].since /\ ask.fast = asks[r].fast
      BY <1>0, <3>1 DEF Ask, Has
    <3>3. AskTrue(ask, past, marks)
      BY <1>0, <3>2, StillAsking
    <3>4. balances' \subseteq Entry /\ \A b \in balances' : EntryTrue(b, past, marks)
      BY <1>b, <2>3
    <3> QED
      BY <1>0, <1>3, <2>3, <3>1, <3>2, <3>3, <3>4, <1>b, AskSteps DEF CheckCache
  <2> QED
    BY <1>0, <1>3, <2>1, <2>2, <2>3 DEF CheckCache
<1> QED
  BY <1>0, <1>2, <1>3

(* A request that keeps its balance until it is answered and compared. *)
LEMMA KeepsFound ==
  ASSUME BalanceInv, NEW r \in Askers, Has(asks[r]),
         NEW at \in {"listing", "answer", "compare"},
         NEW ask, ask = [asks[r] EXCEPT !.at = at]
  PROVE  ask \in Ask /\ AskTrue(ask, past, marks)
<1> USE AskTyped, BalanceBasics
<1>1. /\ ask \in Ask /\ ask.found = asks[r].found /\ ask.list = asks[r].list /\ ask.at = at
      /\ ask.since = asks[r].since /\ ask.fast = asks[r].fast
  BY DEF Ask
<1>2. \E k \in asks[r].since..Len(past) : asks[r].found = past[k] \cap asks[r].list
  BY DEF AskTrue
<1> QED
  BY <1>1, <1>2 DEF AskTrue

LEMMA AskStores ==
  ASSUME BalanceInv, NEW r \in Askers, StoreBalanceCache(r)
  PROVE  BalanceInv'
<1> USE AskTyped, OthersTyped, BalanceBasics
<1>1. asks[r].at = "store" /\ Has(asks[r])
  BY DEF StoreBalanceCache, Has
<1>2. PICK at \in {"answer", "listing"} : Now(r, [asks[r] EXCEPT !.at = at])
  BY DEF StoreBalanceCache, Unlocked
<1>3. PICK ask : ask = [asks[r] EXCEPT !.at = at]
  OBVIOUS
<1>4. ask \in Ask /\ AskTrue(ask, past, marks)
  BY <1>1, <1>3, KeepsFound
<1>5. PICK e : e = [of |-> asks[r].list, result |-> asks[r].found, age |-> 0]
  OBVIOUS
<1>6. e \in Entry /\ e.of = asks[r].list /\ e.result = asks[r].found /\ e.age = 0
  BY <1>5 DEF Entry, Ages
<1>7. EntryTrue(e, past, marks)
  <2>1. PICK k \in asks[r].since..Len(past) : /\ asks[r].found = past[k] \cap asks[r].list
                                              /\ k >= marks[1]
    BY <1>1 DEF AskTrue
  <2> QED
    BY <1>6, <2>1 DEF EntryTrue
<1>8. balances' \subseteq balances \cup {e}
  BY <1>5 DEF StoreBalanceCache
<1>9. balances' \subseteq Entry /\ \A b \in balances' : EntryTrue(b, past, marks)
  BY <1>6, <1>7, <1>8
<1>10. upsets' \in 0..MaxUpsets /\ locker' = Nobody
  BY DEF StoreBalanceCache, Unlocked
<1> QED
  BY <1>2, <1>3, <1>4, <1>9, <1>10, AskSteps DEF StoreBalanceCache

LEMMA AskLists ==
  ASSUME BalanceInv, NEW r \in Askers, StoreListed(r)
  PROVE  BalanceInv'
<1> USE AskTyped, OthersTyped
<1>1. asks[r].at = "listing" /\ Has(asks[r])
  BY DEF StoreListed, Has
<1>2. PICK at \in {"answer", "compare"} : Now(r, [asks[r] EXCEPT !.at = at])
  BY DEF StoreListed
<1>3. PICK ask : ask = [asks[r] EXCEPT !.at = at]
  OBVIOUS
<1>4. ask \in Ask /\ AskTrue(ask, past, marks)
  BY <1>1, <1>3, KeepsFound
<1>5. listed' \subseteq Held /\ upsets' \in 0..MaxUpsets
  BY DEF StoreListed
<1> QED
  BY <1>2, <1>3, <1>4, <1>5, AskSteps DEF StoreListed

(* After the balance of the active addresses, that of the others is asked for: it may
   come from the cache of ten seconds. *)
LEMMA AskAnswers ==
  ASSUME BalanceInv, NEW r \in Askers, AnswerBalance(r)
  PROVE  BalanceInv'
<1> USE AskTyped, OthersTyped, BalanceBasics, FreeTrue
<1>1. PICK rest : rest = [asks[r] EXCEPT !.part = "rest", !.fast = 1, !.first = asks[r].found,
                                         !.since = marks[1], !.at = "addresses"]
  OBVIOUS
<1>2. marks[1] \in 1..(MaxChanges + 1)
  BY WalletBalanceAssumption DEF BalanceInv, BalanceTypeOK
<1>3. rest \in Ask /\ ~Has(rest) /\ rest.fast = 1 /\ rest.since = marks[1]
  <2>1. rest = [at |-> "addresses", part |-> "rest", fast |-> 1, counted |-> asks[r].counted,
                empty |-> asks[r].empty, list |-> asks[r].list, found |-> asks[r].found,
                first |-> asks[r].found, cached |-> asks[r].cached, since |-> marks[1]]
    BY <1>1 DEF Ask
  <2> QED
    BY <1>2, <2>1 DEF Ask, Has, Old
<1>4. AskTrue(rest, past, marks)
  BY <1>3 DEF AskTrue
<1>5. PICK ask \in {Free, rest} : Now(r, ask)
  BY <1>1 DEF AnswerBalance
<1>6. known' \subseteq Held
  BY DEF AnswerBalance
<1> QED
  BY <1>3, <1>4, <1>5, <1>6, AskSteps DEF AnswerBalance

LEMMA AskEnds ==
  ASSUME BalanceInv, NEW r \in Askers, CompareBalances(r) \/ AskFails(r)
  PROVE  BalanceInv'
<1> USE AskTyped, OthersTyped, FreeTrue
<1>1. CASE CompareBalances(r)
  <2>1. known' \subseteq Held /\ upsets' \in 0..MaxUpsets
    BY <1>1 DEF CompareBalances
  <2>2. asks[r].counted \in BOOLEAN
    BY DEF Ask
  <2>3. twoStep' \in {twoStep, [counted |-> asks[r].counted, empty |-> TRUE]}
    BY <1>1, Zenon DEF CompareBalances
  <2>4. twoStep' \in [counted : BOOLEAN, empty : BOOLEAN]
    <3>1. [counted |-> asks[r].counted, empty |-> TRUE] \in [counted : BOOLEAN, empty : BOOLEAN]
      BY <2>2
    <3>2. twoStep \in [counted : BOOLEAN, empty : BOOLEAN]
      BY OthersTyped
    <3> QED
      BY <2>3, <3>1, <3>2, Zenon
  <2> QED
    BY <1>1, <2>1, <2>4, AskSteps DEF CompareBalances
<1>2. CASE AskFails(r)
  <2>1. locker' \in Askers \cup {Nobody} /\ upsets' \in 0..MaxUpsets
    BY <1>2 DEF AskFails
  <2> QED
    BY <1>2, <2>1, AskSteps DEF AskFails
<1> QED
  BY <1>1, <1>2

LEMMA AllDie ==
  ASSUME BalanceInv, AskersDie
  PROVE  BalanceInv'
<1>1. /\ asks' = [r \in Askers |-> Free]
      /\ UNCHANGED <<funded, noting, past, marks, listed, twoStep, balances, known>>
  BY DEF AskersDie, Outside
<1>2. locker' = Nobody /\ upsets' \in 0..MaxUpsets
  BY OthersTyped DEF AskersDie
<1>3. BalanceTypeOK'
  BY <1>1, <1>2, FreeTrue DEF BalanceInv, BalanceTypeOK
<1>4. \A r \in Askers : AskTrue(asks'[r], past', marks')
  BY <1>1, FreeTrue
<1> QED
  BY <1>1, <1>3, <1>4 DEF BalanceInv, TimesOK

-----------------------------------------------------------------------------
LEMMA BalanceStep ==
  ASSUME BalanceInv, [BalanceNext]_balanceVars
  PROVE  BalanceInv'
<1>1. CASE BalanceNext
  BY <1>1, WorldSteps, TimePasses, AskBegins, AskPrepares, AskFinds, AskStores, AskLists,
     AskAnswers, AskEnds, AllDie DEF BalanceNext, Proceed
<1>2. CASE UNCHANGED balanceVars
  <2>1. UNCHANGED <<funded, listed, twoStep, balances, asks, locker, noting, known, past,
                    marks, upsets>>
    BY <1>2 DEF balanceVars
  <2> QED
    BY <2>1 DEF BalanceInv, BalanceTypeOK, TimesOK
<1> QED
  BY <1>1, <1>2

(* The state of the requests for a balance, of the cache and of the lists stays of its
   type. *)
THEOREM BalanceTyped == BalanceSpec => []BalanceTypeOK
<1>1. BalanceInv => BalanceTypeOK
  BY DEF BalanceInv
<1> QED
  BY <1>1, BalanceStarts, BalanceStep, PTL DEF BalanceSpec

(* BalanceWasTrue: a balance getBalance answers, stores or compares is that of all the
   addresses it was asked for at one moment, after the request came or, where the
   cache may serve it, within the time the cache allows. *)
THEOREM BalancesWereTrue == BalanceSpec => []BalanceWasTrue
<1>1. ASSUME BalanceInv PROVE BalanceWasTrue
  <2>1. ASSUME NEW r \in Askers, Has(asks[r])
        PROVE  \E k \in asks[r].since..Len(past) : asks[r].found = past[k] \cap asks[r].list
    BY <1>1, <2>1 DEF BalanceInv, AskTrue
  <2> QED
    BY <2>1 DEF BalanceWasTrue
<1> QED
  BY <1>1, BalanceStarts, BalanceStep, PTL DEF BalanceSpec

-----------------------------------------------------------------------------
(* CoinSelection: sums. *)

(* Induction over naturals and over finite sets, for sets of numbers and of sets. *)
LEMMA Induction ==
  ASSUME NEW P, 0 \in P, \A n \in Nat : n \in P => n + 1 \in P
  PROVE  Nat \subseteq P
<1> DEFINE less == {pair \in Nat \X Nat : pair[1] < pair[2]}
           others == Nat \ P
<1>1. IsWellFoundedOn(less, Nat)
  BY NatLessThanWellFounded DEF OpToRel
<1>2. SUFFICES ASSUME others # {}
               PROVE  FALSE
  OBVIOUS
<1>3. PICK x \in others : \A y \in others : ~(<<y, x>> \in less)
  <2>1. others \subseteq Nat
    OBVIOUS
  <2> HIDE DEF less, others
  <2> QED
    BY <1>1, <1>2, <2>1, WFMin
<1>4. x \in Nat /\ x # 0 /\ x - 1 \in Nat /\ x = (x - 1) + 1
  BY <1>3
<1>5. x - 1 \in P
  <2>1. \A y \in Nat : y < x => y \in P
    BY <1>3, <1>4
  <2> QED
    BY <1>4, <2>1
<1> QED
  BY <1>3, <1>4, <1>5

(* The subsets of a finite set are finite, and one fewer without a member. *)
LEMMA Sizes ==
  ASSUME NEW D, IsFiniteSet(D)
  PROVE  /\ \A S \in SUBSET D : /\ IsFiniteSet(S) /\ Cardinality(S) \in Nat
                                /\ Cardinality(S) <= Cardinality(D)
                                /\ Cardinality(S) = 0 <=> S = {}
         /\ \A S \in SUBSET D : \A x \in S : Cardinality(S \ {x}) = Cardinality(S) - 1
<1>1. ASSUME NEW S \in SUBSET D
      PROVE  /\ IsFiniteSet(S) /\ Cardinality(S) \in Nat
             /\ Cardinality(S) <= Cardinality(D)
             /\ Cardinality(S) = 0 <=> S = {}
  BY FS_Subset, FS_CardinalityType, FS_EmptySet
<1>2. ASSUME NEW S \in SUBSET D, NEW x \in S
      PROVE  Cardinality(S \ {x}) = Cardinality(S) - 1
  <2>1. Cardinality(S \ {x}) = IF x \in S THEN Cardinality(S) - 1 ELSE Cardinality(S)
    BY <1>1, FS_RemoveElement, Zenon
  <2> QED
    BY <2>1
<1> QED
  BY <1>1, <1>2

(* What holds for {} and for one member more holds for every subset. *)
LEMMA SetInduction ==
  ASSUME NEW D, IsFiniteSet(D), NEW Q, {} \in Q,
         \A S \in SUBSET D : \A x \in D \ S : S \in Q => S \cup {x} \in Q
  PROVE  SUBSET D \subseteq Q
<1> DEFINE P == {n \in Nat : \A S \in SUBSET D : Cardinality(S) = n => S \in Q}
<1>1. 0 \in P
  BY FS_EmptySet, FS_Subset
<1>2. ASSUME NEW n \in Nat, n \in P
      PROVE  n + 1 \in P
  <2>1. ASSUME NEW S \in SUBSET D, Cardinality(S) = n + 1
        PROVE  S \in Q
    <3>2. PICK x \in S : TRUE
      BY <2>1, Sizes
    <3>3. S \ {x} \in SUBSET D /\ x \in D \ (S \ {x}) /\ (S \ {x}) \cup {x} = S
      OBVIOUS
    <3>4. Cardinality(S \ {x}) = n
      BY <2>1, Sizes
    <3> QED
      BY <1>2, <3>3, <3>4
  <2> QED
    BY <2>1
<1>3. Nat \subseteq P
  <2> HIDE DEF P
  <2> QED
    BY <1>1, <1>2, Induction
<1>4. ASSUME NEW S \in SUBSET D
      PROVE  S \in Q
  <2>1. Cardinality(S) \in Nat
    BY FS_Subset, FS_CardinalityType
  <2> QED
    BY <1>3, <2>1
<1> QED
  BY <1>4

-----------------------------------------------------------------------------
(* F gives the sum of v over each subset of D. *)
IsSum(F, D, v) ==
  /\ IsFiniteSet(D) /\ v \in [D -> Nat]
  /\ F \in [SUBSET D -> Nat]
  /\ F[{}] = 0
  /\ \A S \in SUBSET D : \A i \in S : F[S] = v[i] + F[S \ {i}]

UpTo(D, n) == {S \in SUBSET D : Cardinality(S) <= n}

IsSumUpTo(f, D, v, n) ==
  /\ f \in [UpTo(D, n) -> Nat]
  /\ f[{}] = 0
  /\ \A S \in UpTo(D, n) : \A i \in S : f[S] = v[i] + f[S \ {i}]

(* One element more. *)
LEMMA SumStep ==
  ASSUME NEW D, IsFiniteSet(D), NEW v \in [D -> Nat], NEW n \in Nat,
         NEW f, IsSumUpTo(f, D, v, n)
  PROVE  \E g : IsSumUpTo(g, D, v, n + 1)
<1>1. ASSUME NEW S \in UpTo(D, n + 1), NEW i \in S
      PROVE  /\ S \ {i} \in UpTo(D, n) /\ S \ {i} \in UpTo(D, n + 1)
             /\ Cardinality(S \ {i}) <= n /\ v[i] \in Nat /\ f[S \ {i}] \in Nat
  <2>1. S \in SUBSET D /\ S \ {i} \in SUBSET D /\ i \in D
    BY DEF UpTo
  <2>2. Cardinality(S \ {i}) = Cardinality(S) - 1 /\ Cardinality(S) \in Nat
    BY <2>1, Sizes
  <2>3. S \ {i} \in UpTo(D, n) /\ S \ {i} \in UpTo(D, n + 1) /\ Cardinality(S \ {i}) <= n
    BY <2>1, <2>2 DEF UpTo
  <2> QED
    BY <2>1, <2>3 DEF IsSumUpTo
<1>2. PICK g : g = [S \in UpTo(D, n + 1) |->
                     IF Cardinality(S) <= n THEN f[S]
                     ELSE v[CHOOSE x \in S : TRUE] + f[S \ {CHOOSE x \in S : TRUE}]]
  OBVIOUS
<1>3. ASSUME NEW S \in UpTo(D, n + 1), Cardinality(S) <= n
      PROVE  S \in UpTo(D, n) /\ g[S] = f[S] /\ g[S] \in Nat
  BY <1>2, <1>3 DEF UpTo, IsSumUpTo
<1>4. ASSUME NEW S \in UpTo(D, n + 1), NEW i \in S
      PROVE  g[S \ {i}] = f[S \ {i}]
  BY <1>1, <1>3
<1>5. ASSUME NEW S \in UpTo(D, n + 1), ~(Cardinality(S) <= n)
      PROVE  \E x \in S : g[S] = v[x] + f[S \ {x}]
  <2>1. S # {}
    BY <1>5, Sizes DEF UpTo
  <2>2. PICK x \in S : x = CHOOSE y \in S : TRUE
    BY <2>1
  <2> QED
    BY <1>2, <1>5, <2>2
<1>6. ASSUME NEW S \in UpTo(D, n + 1)
      PROVE  g[S] \in Nat
  <2>1. CASE ~(Cardinality(S) <= n)
    <3>1. PICK x \in S : g[S] = v[x] + f[S \ {x}]
      BY <1>5, <2>1
    <3>2. v[x] \in Nat /\ f[S \ {x}] \in Nat
      BY <1>1
    <3> QED
      BY <3>1, <3>2
  <2> QED
    BY <2>1, <1>3
<1>7. g[{}] = 0
  <2>1. {} \in UpTo(D, n + 1) /\ Cardinality({}) <= n
    BY FS_EmptySet DEF UpTo
  <2> QED
    BY <2>1, <1>3 DEF IsSumUpTo
<1>8. ASSUME NEW S \in UpTo(D, n + 1), NEW i \in S
      PROVE  g[S] = v[i] + g[S \ {i}]
  <2>1. CASE Cardinality(S) <= n
    BY <1>3, <1>4, <2>1 DEF IsSumUpTo
  <2>2. CASE ~(Cardinality(S) <= n)
    <3>1. PICK x \in S : g[S] = v[x] + f[S \ {x}]
      BY <1>5, <2>2
    <3>2. CASE x = i
      BY <3>1, <3>2, <1>4
    <3>3. CASE x # i
      <4>1. i \in S \ {x} /\ x \in S \ {i} /\ (S \ {x}) \ {i} = (S \ {i}) \ {x}
        BY <3>3
      <4>2. S \ {x} \in UpTo(D, n) /\ S \ {i} \in UpTo(D, n) /\ S \ {i} \in UpTo(D, n + 1)
        BY <1>1
      <4>3. f[S \ {x}] = v[i] + f[(S \ {x}) \ {i}] /\ f[S \ {i}] = v[x] + f[(S \ {i}) \ {x}]
        BY <4>1, <4>2 DEF IsSumUpTo
      <4>4. f[(S \ {i}) \ {x}] \in Nat /\ v[x] \in Nat /\ v[i] \in Nat
        BY <1>1, <4>1, <4>2
      <4>5. g[S \ {i}] = f[S \ {i}]
        BY <1>4
      <4> QED
        BY <3>1, <4>1, <4>3, <4>4, <4>5
    <3> QED
      BY <3>2, <3>3
  <2> QED
    BY <2>1, <2>2
<1>9. g \in [UpTo(D, n + 1) -> Nat]
  BY <1>2, <1>6
<1> QED
  BY <1>7, <1>8, <1>9 DEF IsSumUpTo

(* There is a function that adds up the values of every subset. *)
LEMMA SumExists ==
  ASSUME NEW D, IsFiniteSet(D), NEW v \in [D -> Nat]
  PROVE  \E F : IsSum(F, D, v)
<1> DEFINE P == {n \in Nat : \E f : IsSumUpTo(f, D, v, n)}
<1>1. 0 \in P
  <2> DEFINE f == [S \in UpTo(D, 0) |-> 0]
  <2>1. UpTo(D, 0) = {{}}
    <3>1. {} \in UpTo(D, 0)
      BY FS_EmptySet DEF UpTo
    <3>2. ASSUME NEW S \in UpTo(D, 0) PROVE S = {}
      BY Sizes DEF UpTo
    <3> QED
      BY <3>1, <3>2
  <2>2. IsSumUpTo(f, D, v, 0)
    BY <2>1 DEF IsSumUpTo
  <2> QED
    BY <2>2
<1>2. ASSUME NEW n \in Nat, n \in P
      PROVE  n + 1 \in P
  BY <1>2, SumStep
<1>3. Nat \subseteq P
  <2> HIDE DEF P
  <2> QED
    BY <1>1, <1>2, Induction
<1>4. Cardinality(D) \in Nat /\ UpTo(D, Cardinality(D)) = SUBSET D
  BY Sizes DEF UpTo
<1>5. PICK F : IsSumUpTo(F, D, v, Cardinality(D))
  BY <1>3, <1>4
<1>6. IsSum(F, D, v)
  BY <1>4, <1>5 DEF IsSum, IsSumUpTo
<1> QED
  BY <1>6

(* g adds up v over the subsets of T in the order of MapThenSumSet. *)
Adds(g, T, v) ==
  g = [s \in SUBSET T |->
         IF s = {} THEN 0 ELSE v[CHOOSE x \in s : TRUE] + g[s \ {CHOOSE x \in s : TRUE}]]

(* The recursion of MapThenSumSet has one solution, which is that sum. *)
LEMMA SumIsOnly ==
  ASSUME NEW D, NEW v, NEW F, IsSum(F, D, v), NEW T \in SUBSET D, NEW g, Adds(g, T, v)
  PROVE  \A s \in SUBSET T : g[s] = F[s]
<1> DEFINE Q == {s \in SUBSET T : g[s] = F[s]}
           P == {n \in Nat : {s \in SUBSET T : Cardinality(s) = n} \subseteq Q}
<1>0. /\ IsFiniteSet(T)
      /\ \A s \in SUBSET T : Cardinality(s) \in Nat /\ (Cardinality(s) = 0 <=> s = {})
      /\ \A s \in SUBSET T : \A x \in s : Cardinality(s \ {x}) = Cardinality(s) - 1
  <2>1. IsFiniteSet(T)
    BY Sizes DEF IsSum
  <2> QED
    BY <2>1, Sizes
<1>1. 0 \in P
  <2>1. g[{}] = F[{}]
    BY DEF IsSum, Adds
  <2> QED
    BY <1>0, <2>1
<1>2. ASSUME NEW n \in Nat, n \in P
      PROVE  n + 1 \in P
  <2>1. ASSUME NEW s \in SUBSET T, Cardinality(s) = n + 1
        PROVE  s \in Q
    <3>1. s # {}
      BY <1>0, <2>1
    <3>2. PICK x \in s : x = CHOOSE y \in s : TRUE
      BY <3>1
    <3>3. g[s] = v[x] + g[s \ {x}]
      BY <3>1, <3>2 DEF Adds
    <3>4. Cardinality(s \ {x}) = n /\ s \ {x} \in SUBSET T
      BY <1>0, <2>1
    <3>5. g[s \ {x}] = F[s \ {x}]
      BY <1>2, <3>4
    <3>6. s \in SUBSET D
      OBVIOUS
    <3>7. F[s] = v[x] + F[s \ {x}]
      BY <3>6 DEF IsSum
    <3> QED
      BY <3>3, <3>5, <3>7
  <2>2. n + 1 \in Nat /\ {s \in SUBSET T : Cardinality(s) = n + 1} \subseteq Q
    <3> HIDE DEF Q
    <3> QED
      BY <2>1
  <2> QED
    BY <2>2
<1>3. Nat \subseteq P
  <2> HIDE DEF P
  <2> QED
    BY <1>1, <1>2, Induction
<1> QED
  BY <1>0, <1>3

(* It solves the equation of the fold. *)
LEMMA SumSolves ==
  ASSUME NEW D, NEW v, NEW F, IsSum(F, D, v), NEW T \in SUBSET D, NEW g,
         g = [s \in SUBSET T |-> F[s]]
  PROVE  Adds(g, T, v)
<1>1. ASSUME NEW s \in SUBSET T
      PROVE  g[s] = IF s = {} THEN 0
                    ELSE v[CHOOSE x \in s : TRUE] + g[s \ {CHOOSE x \in s : TRUE}]
  <2>1. CASE s = {}
    BY <2>1 DEF IsSum
  <2>2. CASE s # {}
    <3>1. PICK x \in s : x = CHOOSE y \in s : TRUE
      BY <2>2
    <3>2. F[s] = v[x] + F[s \ {x}]
      BY <3>1 DEF IsSum
    <3>3. g[s] = F[s] /\ g[s \ {x}] = F[s \ {x}]
      OBVIOUS
    <3>4. g[s] = v[x] + g[s \ {x}]
      BY <3>2, <3>3
    <3> QED
      BY <3>1, <3>4, <2>2
  <2> QED
    BY <2>1, <2>2
<1> QED
  BY <1>1 DEF Adds
-----------------------------------------------------------------------------
Places == 1..Len(utxos)
Satoshis == [i \in Places |-> utxos[i].satoshis]

(* The places of the coins, and what the coins are worth. *)
LEMMA CoinsTyped ==
  ASSUME utxos \in Seq(Coin)
  PROVE  /\ IsFiniteSet(Places) /\ Places \subseteq Nat
         /\ Satoshis \in [Places -> Nat \ {0}]
         /\ \A i \in Places : utxos[i] \in Coin /\ Satoshis[i] = utxos[i].satoshis
<1>1. Len(utxos) \in Nat /\ \A i \in Places : utxos[i] \in Coin
  BY DEF Places
<1>2. IsFiniteSet(Places)
  BY <1>1, FS_Interval DEF Places
<1> QED
  BY <1>1, <1>2 DEF Places, Satoshis, Coin

(* The fold of Value is that function. *)
LEMMA ValueIsSum ==
  ASSUME utxos \in Seq(Coin), NEW F, IsSum(F, Places, Satoshis), NEW S \in SUBSET Places
  PROVE  Value(S) = F[S]
<1> DEFINE Solves(g) == g = [s \in SUBSET S |->
                               IF s = {} THEN 0
                               ELSE utxos[CHOOSE x \in s : TRUE].satoshis
                                      + g[s \ {CHOOSE x \in s : TRUE}]]
<1>1. ASSUME NEW g
      PROVE  Solves(g) <=> Adds(g, S, Satoshis)
  <2>1. ASSUME NEW s \in SUBSET S, s # {}
        PROVE  utxos[CHOOSE x \in s : TRUE].satoshis = Satoshis[CHOOSE x \in s : TRUE]
    <3>1. PICK x \in s : x = CHOOSE y \in s : TRUE
      BY <2>1
    <3>2. Satoshis[x] = utxos[x].satoshis
      BY DEF Satoshis
    <3> QED
      BY <3>1, <3>2
  <2> QED
    BY <2>1 DEF Adds
<1>2. PICK h : h = [s \in SUBSET S |-> F[s]]
  OBVIOUS
<1>3. Adds(h, S, Satoshis)
  BY <1>2, SumSolves
<1>4. PICK c : c = CHOOSE g : Solves(g)
  OBVIOUS
<1>5. Adds(c, S, Satoshis)
  <2> HIDE DEF Solves
  <2>1. Solves(h)
    BY <1>1, <1>3
  <2>2. Solves(c)
    BY <1>4, <2>1
  <2> QED
    BY <1>1, <2>2
<1>6. c[S] = F[S]
  <2>2. \A s \in SUBSET S : c[s] = F[s]
    BY <1>5, SumIsOnly
  <2> QED
    BY <2>2
<1>7. Value(S) = c[S]
  BY <1>4 DEF Value, MapThenSumSet, MapThenFoldSet
<1> QED
  BY <1>6, <1>7

(* ... and so is Value. *)
LEMMA Values ==
  ASSUME utxos \in Seq(Coin)
  PROVE  \E F : /\ IsSum(F, Places, Satoshis)
               /\ \A S \in SUBSET Places : Value(S) = F[S]
<1>1. IsFiniteSet(Places) /\ Satoshis \in [Places -> Nat]
  BY CoinsTyped
<1>2. PICK F : IsSum(F, Places, Satoshis)
  BY <1>1, SumExists
<1>3. \A S \in SUBSET Places : Value(S) = F[S]
  BY <1>2, ValueIsSum
<1> QED
  BY <1>2, <1>3

(* What Value is: nothing for no coins, and one coin more. *)
LEMMA ValueLaws ==
  ASSUME utxos \in Seq(Coin)
  PROVE  /\ Value({}) = 0
         /\ \A S \in SUBSET Places : Value(S) \in Nat
         /\ \A S \in SUBSET Places : \A i \in S : Value(S) = utxos[i].satoshis + Value(S \ {i})
         /\ \A i \in Places : Value({i}) = utxos[i].satoshis
<1>1. PICK F : /\ IsSum(F, Places, Satoshis)
               /\ \A S \in SUBSET Places : Value(S) = F[S]
  BY Values
<1>2. Value({}) = 0
  <2>1. PICK e \in SUBSET Places : e = {}
    OBVIOUS
  <2>2. Value(e) = F[e] /\ F[e] = 0
    BY <1>1, <2>1 DEF IsSum
  <2> QED
    BY <2>1, <2>2
<1>3. ASSUME NEW S \in SUBSET Places
      PROVE  Value(S) \in Nat
  BY <1>1 DEF IsSum
<1>4. ASSUME NEW S \in SUBSET Places, NEW i \in S
      PROVE  Value(S) = utxos[i].satoshis + Value(S \ {i})
  <2>1. PICK T \in SUBSET Places : T = S \ {i}
    OBVIOUS
  <2>2. Value(S) = F[S] /\ Value(T) = F[T] /\ F[S] = Satoshis[i] + F[T]
    BY <1>1, <2>1 DEF IsSum
  <2>3. Satoshis[i] = utxos[i].satoshis
    BY CoinsTyped
  <2> QED
    BY <2>1, <2>2, <2>3
<1>5. ASSUME NEW i \in Places
      PROVE  Value({i}) = utxos[i].satoshis
  <2>1. PICK S \in SUBSET Places : S = {i}
    OBVIOUS
  <2>2. S \ {i} = {} /\ i \in S
    BY <2>1
  <2>3. Value(S) = utxos[i].satoshis + 0
    BY <1>2, <1>4, <2>2
  <2>4. utxos[i].satoshis \in Nat
    BY CoinsTyped DEF Coin
  <2> QED
    BY <2>1, <2>3, <2>4
<1> QED
  BY <1>2, <1>3, <1>4, <1>5

(* More coins are worth no less. *)
LEMMA SumGrows ==
  ASSUME NEW D, NEW v, NEW F, IsSum(F, D, v)
  PROVE  \A B \in SUBSET D : \A A \in SUBSET B : F[A] <= F[B]
<1> DEFINE Q == {B \in SUBSET D : \A A \in SUBSET B : F[A] <= F[B]}
<1>0. \A A \in SUBSET D : F[A] \in Nat
  BY DEF IsSum
<1>1. {} \in Q
  <2>1. ASSUME NEW A \in SUBSET {} PROVE A = {}
    OBVIOUS
  <2>2. F[{}] = 0
    BY DEF IsSum
  <2>3. \A A \in SUBSET {} : F[A] <= F[{}]
    BY <2>1, <2>2
  <2> QED
    BY <2>3
<1>2. ASSUME NEW B \in SUBSET D, NEW x \in D \ B, B \in Q
      PROVE  B \cup {x} \in Q
  <2>1. PICK C \in SUBSET D : C = B \cup {x}
    OBVIOUS
  <2>2. F[C] = v[x] + F[B] /\ v[x] \in Nat
    <3>1. C \ {x} = B /\ x \in C
      BY <2>1
    <3> QED
      BY <2>1, <3>1 DEF IsSum
  <2>3. ASSUME NEW A \in SUBSET C
        PROVE  F[A] <= F[C]
    <3>1. CASE x \in A
      <4>1. PICK E \in SUBSET B : E = A \ {x}
        BY <2>1
      <4>2. F[A] = v[x] + F[E]
        BY <3>1, <4>1 DEF IsSum
      <4>3. F[E] <= F[B]
        BY <1>2
      <4> QED
        BY <2>2, <4>2, <4>3, <1>0
    <3>2. CASE x \notin A
      <4>1. A \in SUBSET B
        BY <2>1, <3>2
      <4>2. F[A] <= F[B]
        BY <1>2, <4>1
      <4> QED
        BY <2>2, <4>2, <1>0
    <3> QED
      BY <3>1, <3>2
  <2> QED
    BY <2>1, <2>3
<1>3. IsFiniteSet(D)
  BY DEF IsSum
<1>4. SUBSET D \subseteq Q
  <2> HIDE DEF Q
  <2> QED
    BY <1>1, <1>2, <1>3, SetInduction
<1> QED
  BY <1>4

(* A set of naturals has a least member, and a greatest one if it is bounded. *)
LEMMA MinOf ==
  ASSUME NEW S \in SUBSET Nat, S # {}
  PROVE  Min(S) \in S /\ \A y \in S : Min(S) <= y
<1> DEFINE P == {n \in Nat : (\E k \in S : k <= n) => \E x \in S : \A y \in S : x <= y}
<1>1. 0 \in P
  OBVIOUS
<1>2. ASSUME NEW n \in Nat, n \in P
      PROVE  n + 1 \in P
  <2>1. CASE \E k \in S : k <= n
    BY <1>2, <2>1
  <2>2. CASE ~\E k \in S : k <= n
    <3>1. ASSUME NEW k \in S, k <= n + 1
          PROVE  \A y \in S : k <= y
      BY <2>2, <3>1
    <3> QED
      BY <3>1
  <2> QED
    BY <2>1, <2>2
<1>3. Nat \subseteq P
  <2> HIDE DEF P
  <2> QED
    BY <1>1, <1>2, Induction
<1>4. \E x \in S : \A y \in S : x <= y
  <2>1. PICK n \in S : TRUE
    OBVIOUS
  <2>2. n \in Nat /\ n <= n /\ n \in P
    BY <1>3
  <2> QED
    BY <2>2
<1> QED
  BY <1>4 DEF Min

(* The greatest of numbers that have a bound. *)
LEMMA MaxOf ==
  ASSUME NEW S \in SUBSET Nat, S # {}, NEW b \in Nat, \A y \in S : y <= b
  PROVE  Max(S) \in S /\ \A y \in S : Max(S) >= y
<1> DEFINE T == {n \in Nat : \A y \in S : y <= n}
<1>1. T \in SUBSET Nat /\ T # {}
  OBVIOUS
<1>2. Min(T) \in T /\ \A n \in T : Min(T) <= n
  <2> HIDE DEF T
  <2> QED
    BY <1>1, MinOf
<1>3. Min(T) \in S
  <2>1. SUFFICES ASSUME Min(T) \notin S
                 PROVE  FALSE
    OBVIOUS
  <2>2. PICK m \in T : m = Min(T)
    BY <1>2
  <2>3. \A y \in S : y <= m - 1
    BY <2>1, <2>2
  <2>4. m \in Nat /\ m - 1 \in Nat
    <3>1. PICK y \in S : y \in Nat /\ y <= m - 1
      BY <2>3
    <3> QED
      BY <3>1
  <2>5. m - 1 \in T
    BY <2>3, <2>4
  <2> QED
    BY <1>2, <2>2, <2>4, <2>5
<1>4. \E x \in S : \A y \in S : x >= y
  BY <1>2, <1>3
<1> QED
  BY <1>4 DEF Max

-----------------------------------------------------------------------------
(* Sizes and fees are naturals. *)
LEMMA SizesTyped ==
  /\ InputSize \in Nat /\ InputSize >= 100
  /\ BaseSize = 96
  /\ DustThreshold \in Nat /\ DustThreshold >= DustAmount /\ DustThreshold >= MinOutput
  /\ MinOutput \in Nat /\ DustAmount \in Nat /\ MaxTxSize \in Nat /\ MaxTxFee \in Nat
<1>1. /\ RequiredSignatures \in Nat \ {0} /\ WalletN \in Nat \ {0}
      /\ MinOutput \in Nat /\ DustAmount \in Nat /\ MaxTxSize \in Nat /\ MaxTxFee \in Nat
  BY CoinSelectionAssumption
<1>2. InputSize \in Nat /\ InputSize >= 100
  BY <1>1 DEF InputSize
<1>3. BaseSize = 96
  <2>1. InputSize * 0 = 0
    BY <1>2
  <2>2. BaseSize = ((26 + 0 + 34 * 2) * 102 + 50) \div 100
    BY <2>1 DEF BaseSize, EstimatedSize
  <2> QED
    BY <2>2
<1> QED
  BY <1>1, <1>2, <1>3 DEF DustThreshold

(* An estimated size is that of the inputs and the rest, and a margin: none takes
   less, and a fiftieth of the inputs' size with the rest of the division is all it adds. *)
LEMMA EstimatedSizes ==
  ASSUME NEW n \in Nat
  PROVE  /\ InputSize * n \in Nat
         /\ EstimatedSize(n) \in Nat
         /\ EstimatedSize(n) = 96 + InputSize * n + ((38 + 2 * (InputSize * n)) \div 100)
         /\ EstimatedSize(n) >= SizeOf(n)
         /\ SizeOf(n) = 96 + InputSize * n
<1>1. PICK a \in Nat : a = InputSize * n
  BY SizesTyped
<1>2. EstimatedSize(n) = ((26 + a + 34 * 2) * 102 + 50) \div 100
  BY <1>1 DEF EstimatedSize
<1>3. SizeOf(n) = 96 + a
  BY <1>1, SizesTyped DEF SizeOf
<1>4. EstimatedSize(n) = 96 + a + ((38 + 2 * a) \div 100)
  BY <1>2
<1> QED
  BY <1>1, <1>3, <1>4

(* Fees are integers. *)
LEMMA FeesTyped ==
  ASSUME NEW n \in Nat, txp.feePerKb \in Int
  PROVE  /\ FeePerInput \in Int /\ FeeOf(n) \in Int /\ Round(FeeOf(n)) \in Int
         /\ EstimatedFee(n, txp.feePerKb) \in Int
<1>1. FeePerInput \in Int
  BY SizesTyped DEF FeePerInput
<1>2. FeeOf(n) \in Int
  BY <1>1, SizesTyped DEF FeeOf
<1>3. EstimatedSize(n) * txp.feePerKb \in Int
  BY EstimatedSizes
<1> QED
  BY <1>1, <1>2, <1>3 DEF Round, EstimatedFee

(* There is a level "normal" (CoinSelectionAssumption). *)
LEMMA NormalIsLevel ==
  NormalLevel \in 1..Len(FeeLevels)
BY CoinSelectionAssumption DEF NormalLevel

(* A quotient of naturals is one. *)
LEMMA Quotient ==
  ASSUME NEW a \in Nat, NEW b \in Nat \ {0}
  PROVE  a \div b \in Nat
OBVIOUS

(* The fields of the fee levels. *)
LEMMA LevelTyped ==
  /\ Len(FeeLevels) \in Nat /\ Fallback \in Nat
  /\ \A level \in 1..Len(FeeLevels) : /\ FeeLevels[level].defaultValue \in Nat
                                      /\ FeeLevels[level].nbBlocks \in Nat
                                      /\ FeeLevels[level].multiplier[1] \in Nat \ {0}
                                      /\ FeeLevels[level].multiplier[2] \in Nat \ {0}
<1> DEFINE Level == [name : STRING, nbBlocks : Nat,
                     multiplier : (Nat \ {0}) \X (Nat \ {0}), defaultValue : Nat]
<1>1. FeeLevels \in Seq(Level) /\ Fallback \in Nat
  BY Zenon, CoinSelectionAssumption
<1>2. \A level \in 1..Len(FeeLevels) : FeeLevels[level] \in Level
  <2> HIDE DEF Level
  <2> QED
    BY <1>1
<1>3. ASSUME NEW one \in Level
      PROVE  /\ one.defaultValue \in Nat /\ one.nbBlocks \in Nat
             /\ one.multiplier[1] \in Nat \ {0} /\ one.multiplier[2] \in Nat \ {0}
  OBVIOUS
<1>4. Len(FeeLevels) \in Nat
  <2> HIDE DEF Level
  <2> QED
    BY <1>1
<1> HIDE DEF Level
<1> QED
  BY <1>1, <1>2, <1>3, <1>4

(* Levels for each of FeeLevels. *)
LevelsFit(found) == found \in Seq(Nat) /\ Len(found) = Len(FeeLevels)

(* The default values are levels. *)
LEMMA DefaultsFit ==
  LevelsFit(DefaultLevels)
BY LevelTyped DEF DefaultLevels, LevelsFit

(* So is what is made of a sample: none of its fees is negative. *)
LEMMA SamplesFit ==
  ASSUME NEW sample \in Samples
  PROVE  LevelsFit(LevelsOf(sample))
<1> DEFINE Levels == 1..Len(FeeLevels)
           Fee(level) == (SampleOf(sample, level) * FeeLevels[level].multiplier[1]
                            + FeeLevels[level].multiplier[2] \div 2)
                         \div FeeLevels[level].multiplier[2]
<1>1. /\ Len(FeeLevels) \in Nat /\ Fallback \in Nat
      /\ \A level \in Levels : /\ FeeLevels[level].defaultValue \in Nat
                               /\ FeeLevels[level].nbBlocks \in Nat
                               /\ FeeLevels[level].multiplier[1] \in Nat \ {0}
                               /\ FeeLevels[level].multiplier[2] \in Nat \ {0}
  BY LevelTyped
<1>2. ASSUME NEW level \in Levels
      PROVE  SampleOf(sample, level) \in Nat
  <2> DEFINE n == FeeLevels[level].nbBlocks
             answered == {k \in n..(n + Fallback) : sample[k] >= 0}
  <2>1. \A k \in n..(n + Fallback) : sample[k] \in Int
    BY CoinSelectionAssumption
  <2>2. answered \in SUBSET Nat
    BY <1>1
  <2>3. CASE answered = {}
    BY <1>1, <2>3 DEF SampleOf
  <2>4. CASE answered # {}
    <3>1. Min(answered) \in answered
      <4> HIDE DEF answered
      <4> QED
        BY <2>2, <2>4, MinOf
    <3>2. PICK k \in answered : k = Min(answered)
      BY <3>1
    <3>3. sample[k] \in Nat
      BY <2>1, <3>2
    <3>4. SampleOf(sample, level) = sample[k]
      BY <2>4, <3>2 DEF SampleOf
    <3> QED
      BY <3>3, <3>4
  <2> QED
    BY <2>3, <2>4
<1>3. ASSUME NEW level \in Levels
      PROVE  Fee(level) \in Nat
  <2>1. PICK s \in Nat, up \in Nat \ {0}, down \in Nat \ {0} :
          /\ s = SampleOf(sample, level)
          /\ up = FeeLevels[level].multiplier[1]
          /\ down = FeeLevels[level].multiplier[2]
    BY <1>1, <1>2
  <2>2. PICK product \in Nat, half \in Nat : product = s * up /\ half = down \div 2
    BY Quotient
  <2>3. (product + half) \div down \in Nat
    BY Quotient
  <2>4. Fee(level) = (product + half) \div down
    BY <2>1, <2>2, Zenon
  <2> QED
    BY <2>3, <2>4
<1>4. ASSUME NEW level \in Levels
      PROVE  Min({Fee(k) : k \in 1..level}) \in Nat
  <2> DEFINE fees == {Fee(k) : k \in 1..level}
  <2>1. \A k \in 1..level : k \in Levels
    BY <1>1
  <2>2. fees \in SUBSET Nat
    <3> HIDE DEF Fee
    <3> QED
      BY <1>3, <2>1
  <2>3. fees # {}
    <3>1. 1 \in 1..level
      BY <1>1
    <3> QED
      BY <3>1
  <2> HIDE DEF fees
  <2>4. Min(fees) \in fees
    BY <2>2, <2>3, MinOf
  <2>5. Min(fees) \in Nat
    BY <2>2, <2>4
  <2> QED
    BY <2>5 DEF fees
<1> DEFINE Lowest(level) == Min({Fee(k) : k \in 1..level})
<1>5. LevelsOf(sample) = [level \in Levels |-> Lowest(level)]
  BY DEF LevelsOf
<1>6. \A level \in Levels : Lowest(level) \in Nat
  BY <1>4
<1> HIDE DEF Lowest
<1> QED
  BY <1>1, <1>5, <1>6 DEF LevelsFit

(* Whatever GetFeeLevels finds is a level for each of FeeLevels, and so is what it
   leaves in the cache. *)
LEMMA FoundLevels ==
  ASSUME NEW found, GetFeeLevels(found), levels = <<>> \/ LevelsFit(levels)
  PROVE  LevelsFit(found) /\ (levels' = <<>> \/ LevelsFit(levels'))
<1>1. CASE found = DefaultLevels /\ UNCHANGED levels
  BY <1>1, DefaultsFit
<1>2. CASE levels # <<>> /\ found = levels /\ UNCHANGED levels
  BY <1>2
<1>3. CASE found \in {LevelsOf(sample) : sample \in Samples} \cup {DefaultLevels} /\ levels' = found
  <2>1. LevelsFit(found)
    BY <1>3, DefaultsFit, SamplesFit
  <2> QED
    BY <1>3, <2>1
<1> QED
  BY <1>1, <1>2, <1>3 DEF GetFeeLevels

-----------------------------------------------------------------------------
(* What a selection of coins makes sure of, of some coins and a fee. *)
ChosenOf(coins, fee) ==
  /\ coins # {} /\ coins \subseteq Eligible
  /\ fee \in Round(FeeOf(Cardinality(coins)))..(Round(FeeOf(Cardinality(coins))) + DustThreshold)
  /\ Big(Eligible) = {} => \/ TooBig(Cardinality(coins))
                          \/ Value(coins) - txp.amount - fee \notin 1..DustThreshold

Chosen == ChosenOf(txp.inputs, txp.fee)

CoinsKnown ==
  /\ utxos \in Seq(Coin)
  /\ txp.amount \in Int /\ txp.feePerKb \in Int /\ txp.fee \in Int

(* A set of coins is finite. *)
LEMMA PlacesSized ==
  ASSUME utxos \in Seq(Coin), NEW S \in SUBSET Places
  PROVE  IsFiniteSet(S) /\ Cardinality(S) \in Nat /\ (Cardinality(S) = 0 <=> S = {})
<1>1. IsFiniteSet(Places)
  BY CoinsTyped
<1> QED
  BY <1>1, Sizes

(* The coins of the selection are coins of the wallet. *)
LEMMA EligibleIn ==
  Eligible \subseteq Places
BY DEF Eligible, Spendable, FreeCoins, Places

(* The fee of the coins taken, and what is left with it. *)
LEMMA FeeForTaken ==
  ASSUME CoinsKnown, NEW taken \in SUBSET Places, NEW big
  PROVE  LET fee == Round(FeeOf(Cardinality(taken))) IN
         /\ FeeFor(taken, big) \in fee..(fee + DustThreshold)
         /\ big = {} => \/ TooBig(Cardinality(taken))
                       \/ Value(taken) - txp.amount - FeeFor(taken, big) \notin 1..DustThreshold
<1> DEFINE k == Cardinality(taken)
           fee == Round(FeeOf(k))
           change == Value(taken) - txp.amount - fee
           stopped == TooBig(k) \/ (big # {} /\ Wasteful(taken, k))
<1>1. k \in Nat /\ fee \in Int /\ Value(taken) \in Nat /\ txp.amount \in Int /\ DustThreshold \in Nat
  BY PlacesSized, FeesTyped, ValueLaws, SizesTyped DEF CoinsKnown
<1>2. FeeFor(taken, big) = IF ~stopped /\ change \in 1..DustThreshold THEN fee + change ELSE fee
  BY DEF FeeFor
<1>3. big = {} /\ ~TooBig(k) => ~stopped
  OBVIOUS
<1>4. PICK f \in Int, c \in Int, w \in Nat :
        f = fee /\ c = change /\ w = Value(taken) /\ c = w - txp.amount - f
  BY <1>1
<1>5. PICK paid : paid = FeeFor(taken, big)
  OBVIOUS
<1>6. paid = IF ~stopped /\ c \in 1..DustThreshold THEN f + c ELSE f
  BY <1>2, <1>4, <1>5
<1> HIDE DEF stopped
<1>7. paid \in f..(f + DustThreshold)
  BY <1>1, <1>4, <1>6
<1>8. ~stopped => w - txp.amount - paid \notin 1..DustThreshold
  BY <1>1, <1>4, <1>6
<1> HIDE DEF change, fee
<1>9. big = {} => \/ TooBig(k)
                 \/ Value(taken) - txp.amount - paid \notin 1..DustThreshold
  BY <1>3, <1>4, <1>8
<1> QED
  BY <1>4, <1>5, <1>7, <1>9 DEF fee

(* The least of the big coins is one of them. *)
LEMMA Least ==
  ASSUME utxos \in Seq(Coin), NEW big \in SUBSET Places, big # {}
  PROVE  (CHOOSE i \in big : \A j \in big : utxos[i].satoshis <= utxos[j].satoshis) \in big
<1> DEFINE worths == {utxos[i].satoshis : i \in big}
<1>1. worths \in SUBSET Nat /\ worths # {}
  BY CoinsTyped DEF Coin
<1>2. Min(worths) \in worths /\ \A y \in worths : Min(worths) <= y
  <2> HIDE DEF worths
  <2> QED
    BY <1>1, MinOf
<1>3. PICK i \in big : utxos[i].satoshis = Min(worths)
  BY <1>2
<1>4. \A j \in big : utxos[i].satoshis <= utxos[j].satoshis
  BY <1>2, <1>3
<1> QED
  BY <1>4

(* A group of coins has no big coin if there is none at all. *)
LEMMA BigGrows ==
  ASSUME NEW coins, coins \subseteq Eligible, Big(Eligible) = {}
  PROVE  Big(coins) = {}
BY DEF Big

(* The coins taken are small ones. *)
LEMMA TakenIn ==
  ASSUME NEW coins, NEW big
  PROVE  Taken(coins, big) \subseteq coins \ big
BY DEF Taken, Greatest

(* The outcome of a selection: coins that pay, with their fee, or an error. *)
LEMMA Selects ==
  ASSUME CoinsKnown, NEW coins, coins \subseteq Eligible
  PROVE  /\ Select(coins).inputs \in SUBSET coins /\ Select(coins).fee \in Int
         /\ Select(coins).inputs = {} => Select(coins).error \in Errors
         /\ Select(coins).inputs # {} =>
              Select(coins).error = "none" /\ ChosenOf(Select(coins).inputs, Select(coins).fee)
<1> DEFINE big == Big(coins)
           taken == Taken(coins, big)
           least == CHOOSE i \in big : \A j \in big : utxos[i].satoshis <= utxos[j].satoshis
<1>0. coins \in SUBSET Places /\ utxos \in Seq(Coin)
  BY EligibleIn DEF CoinsKnown
<1>1. taken \in SUBSET coins /\ taken \in SUBSET Places
  BY TakenIn, <1>0
<1>2. /\ FeeFor(taken, big) \in Int
      /\ taken # {} => ChosenOf(taken, FeeFor(taken, big))
  <2>1. LET fee == Round(FeeOf(Cardinality(taken))) IN
        /\ FeeFor(taken, big) \in fee..(fee + DustThreshold)
        /\ big = {} => \/ TooBig(Cardinality(taken))
                      \/ Value(taken) - txp.amount - FeeFor(taken, big) \notin 1..DustThreshold
    <3> HIDE DEF big, taken
    <3> QED
      BY FeeForTaken, <1>1
  <2>2. Big(Eligible) = {} => big = {}
    BY BigGrows
  <2>3. Round(FeeOf(Cardinality(taken))) \in Int /\ DustThreshold \in Nat
    <3> HIDE DEF taken
    <3> QED
      BY FeesTyped, PlacesSized, SizesTyped, <1>0, <1>1 DEF CoinsKnown
  <2> HIDE DEF big, taken
  <2>4. FeeFor(taken, big) \in Int
    BY <2>1, <2>3
  <2> QED
    BY <2>1, <2>2, <2>4, <1>1 DEF ChosenOf
<1>3. big # {} => least \in coins /\ Round(FeeOf(1)) \in Int /\ ChosenOf({least}, Round(FeeOf(1)))
  <2>1. SUFFICES ASSUME big # {}
                 PROVE  least \in coins /\ Round(FeeOf(1)) \in Int /\ ChosenOf({least}, Round(FeeOf(1)))
    OBVIOUS
  <2>2. big \in SUBSET coins
    BY DEF Big
  <2>3. least \in big
    <3> HIDE DEF big
    <3> QED
      BY Least, <1>0, <2>1, <2>2
  <2>4. Cardinality({least}) = 1
    BY FS_Singleton
  <2>5. Round(FeeOf(1)) \in Int /\ DustThreshold \in Nat
    BY FeesTyped, SizesTyped DEF CoinsKnown
  <2>6. Big(Eligible) # {}
    BY <2>1, BigGrows
  <2> HIDE DEF big, least
  <2> QED
    BY <2>2, <2>3, <2>4, <2>5, <2>6 DEF ChosenOf
<1>4. txp.fee \in Int
  BY DEF CoinsKnown
<1>5. PICK found : found = Select(coins)
  OBVIOUS
<1>6. \/ found.inputs = {} /\ found.fee = txp.fee /\ found.error \in Errors
      \/ taken # {} /\ found = [inputs |-> taken, fee |-> FeeFor(taken, big), error |-> "none"]
      \/ big # {} /\ found = [inputs |-> {least}, fee |-> Round(FeeOf(1)), error |-> "none"]
  <2>1. found = IF Value(coins) < txp.amount
                THEN [inputs |-> {}, fee |-> txp.fee, error |-> "INSUFFICIENT_FUNDS"]
                ELSE IF ~Enough(coins)
                THEN [inputs |-> {}, fee |-> txp.fee, error |-> "INSUFFICIENT_FUNDS_FOR_FEE"]
                ELSE IF taken # {} /\ Enough(taken)
                THEN [inputs |-> taken, fee |-> FeeFor(taken, big), error |-> "none"]
                ELSE IF big # {}
                THEN [inputs |-> {least}, fee |-> Round(FeeOf(1)), error |-> "none"]
                ELSE [inputs |-> {}, fee |-> txp.fee,
                      error |-> IF TooBig(Cardinality(taken)) THEN "TX_MAX_SIZE_EXCEEDED"
                                ELSE "INSUFFICIENT_FUNDS_FOR_FEE"]
    BY <1>5, Zenon DEF Select
  <2> DEFINE poor == Value(coins) < txp.amount
             short == ~Enough(coins)
             enough == Enough(taken)
             large == TooBig(Cardinality(taken))
  <2> HIDE DEF big, taken, least, poor, short, enough, large
  <2> QED
    BY <2>1 DEF Errors, poor, short, enough, large
<1> HIDE DEF big, taken, least
<1>7. CASE found.inputs = {} /\ found.fee = txp.fee /\ found.error \in Errors
  BY <1>7, <1>4, <1>5
<1>8. CASE taken # {} /\ found = [inputs |-> taken, fee |-> FeeFor(taken, big), error |-> "none"]
  <2>1. /\ found.inputs = taken /\ found.fee = FeeFor(taken, big) /\ found.error = "none"
        /\ taken # {}
    BY <1>8
  <2> QED
    BY <2>1, <1>1, <1>2, <1>5, Zenon
<1>9. CASE big # {} /\ found = [inputs |-> {least}, fee |-> Round(FeeOf(1)), error |-> "none"]
  <2>1. /\ found.inputs = {least} /\ found.fee = Round(FeeOf(1)) /\ found.error = "none"
        /\ big # {} /\ {least} # {}
    BY <1>9
  <2>2. {least} \in SUBSET coins
    BY <1>3, <1>9
  <2> QED
    BY <2>1, <2>2, <1>3, <1>5, Zenon
<1> QED
  BY <1>6, <1>7, <1>8, <1>9

Early == {"validate", "maxFee", "outputs", "backoff", "fee", "inputs"}

LevelsCached == levels = <<>> \/ LevelsFit(levels)

(* Until the inputs are looked for, they are what the client gave. *)
NothingYet ==
  /\ error = "none"
  /\ group = [tried |-> 0, length |-> Absent]
  /\ ~opts.sendMax => txp.inputs = opts.inputs

(* Between the groups: nothing was looked for, or nothing found, or coins that pay. *)
Grouping ==
  IF txp.inputs = {} THEN (group.tried = 0 /\ group.length = Absent) \/ error \in Errors
  ELSE Chosen

SelectionInv ==
  /\ SelectionTypeOK
  /\ LevelsCached
  /\ opts.inputs \subseteq Places
  /\ step \notin {"validate", "done"} => OptionsAllowed
  /\ step = "maxFee" => opts.sendMax
  /\ step \in Early => NothingYet
  /\ step = "group" => Grouping
  /\ step = "check" /\ Selected => Chosen
  /\ ProposalPays

(* What depends on the coins, the options, the amount and the fee per kB only. *)
LEMMA Steady ==
  ASSUME utxos' = utxos, opts' = opts,
         txp'.feePerKb = txp.feePerKb, txp'.amount = txp.amount,
         NEW S, NEW fee, NEW n
  PROVE  /\ ChosenOf(S, fee)' <=> ChosenOf(S, fee)
         /\ Value(S)' = Value(S) /\ FeeOf(n)' = FeeOf(n)
         /\ Eligible' = Eligible /\ Big(S)' = Big(S)
<1>1. Value(S)' = Value(S)
  BY DEF Value, MapThenSumSet, MapThenFoldSet
<1>2. FeePerInput' = FeePerInput
  BY DEF FeePerInput
<1>3. \A m : FeeOf(m)' = FeeOf(m)
  BY <1>2 DEF FeeOf
<1>4. Eligible' = Eligible
  BY <1>2 DEF Eligible, Spendable, FreeCoins
<1>5. \A T : Big(T)' = Big(T)
  BY <1>3 DEF Big
<1>6. ChosenOf(S, fee)' <=> ChosenOf(S, fee)
  <2>1. Big(Eligible)' = Big(Eligible)
    BY <1>3, <1>4 DEF Big
  <2>2. FeeOf(Cardinality(S))' = FeeOf(Cardinality(S))
    BY <1>3
  <2> QED
    BY <1>1, <1>4, <2>1, <2>2 DEF ChosenOf, Round, TooBig, SizeOf, BaseSize, EstimatedSize
<1> QED
  BY <1>1, <1>3, <1>4, <1>5, <1>6

(* What is chosen depends on nothing but the coins, the options and the proposal. *)
LEMMA ChosenStays ==
  ASSUME UNCHANGED <<utxos, opts, txp>>
  PROVE  /\ Chosen' <=> Chosen
         /\ Selected' <=> Selected
         /\ OptionsAllowed' <=> OptionsAllowed
         /\ Places' = Places
<1>1. PICK S, fee : S = txp.inputs /\ fee = txp.fee
  OBVIOUS
<1>2. ChosenOf(S, fee)' <=> ChosenOf(S, fee)
  BY Steady
<1>3. (Chosen <=> ChosenOf(S, fee)) /\ (Chosen' <=> ChosenOf(S, fee)')
  BY <1>1 DEF Chosen
<1> QED
  BY <1>2, <1>3 DEF Selected, OptionsAllowed, Places

(* ProposalPays, but for the answer. *)
Pays ==
  /\ Left >= 0
  /\ opts.coin = "btc" => Left = 0 \/ Left >= DustAmount
  /\ Selected =>
       /\ txp.inputs \subseteq Eligible
       /\ LET fee == Round(FeeOf(Cardinality(txp.inputs)))
          IN txp.fee \in fee..(fee + DustThreshold)
       /\ Big(Eligible) = {} => Left = 0 \/ Left > DustThreshold

(* So does whether it pays. *)
LEMMA PaysStay ==
  ASSUME UNCHANGED <<utxos, opts, txp>>
  PROVE  Pays' <=> Pays
<1>1. PICK S, n : S = txp.inputs /\ n = Cardinality(txp.inputs)
  OBVIOUS
<1>2. /\ Value(S)' = Value(S) /\ FeeOf(n)' = FeeOf(n) /\ Eligible' = Eligible
  BY Steady
<1>3. Left' = Left
  BY <1>1, <1>2 DEF Left
<1>4. Big(Eligible)' = Big(Eligible)
  BY <1>2 DEF Big, FeeOf, BaseSize, EstimatedSize, FeePerInput
<1>5. FeeOf(Cardinality(txp.inputs))' = FeeOf(Cardinality(txp.inputs))
  BY <1>1, <1>2
<1>6. Selected' <=> Selected
  BY ChosenStays
<1> QED
  BY <1>2, <1>3, <1>4, <1>5, <1>6 DEF Pays, Round

(* What is allowed depends on nothing but the coins and the options. *)
LEMMA OptionsStay ==
  ASSUME UNCHANGED <<utxos, opts>>
  PROVE  /\ Selected' <=> Selected
         /\ OptionsAllowed' <=> OptionsAllowed
         /\ Places' = Places
BY DEF Selected, OptionsAllowed, Places

(* Cached levels are naturals. *)
LEMMA CachedTyped ==
  ASSUME NEW found, found = <<>> \/ LevelsFit(found)
  PROVE  found \in Seq(Nat)
<1>1. <<>> \in Seq(Nat)
  OBVIOUS
<1> QED
  BY <1>1 DEF LevelsFit

(* The invariant holds at first. *)
LEMMA SelectionBegins ==
  ASSUME SelectionInit
  PROVE  SelectionInv
<1>1. utxos \in Seq(Coin) /\ opts \in Options /\ opts.inputs \subseteq Places
  BY CoinSelectionAssumption DEF SelectionInit, Places
<1>2. SelectionTypeOK
  BY <1>1 DEF SelectionInit, SelectionTypeOK, Options, Absent, Places
<1>3. LevelsCached /\ step = "validate" /\ NothingYet
  BY DEF SelectionInit, LevelsCached, NothingYet
<1>4. ~Made
  BY <1>3 DEF Made
<1> QED
  BY <1>1, <1>2, <1>3, <1>4 DEF SelectionInv, ProposalPays

(* What a step leaves alone that does not touch the coins, the options or the
   transaction, and ends with an answer or goes on. *)
LEMMA Refused ==
  ASSUME SelectionInv, UNCHANGED <<utxos, opts, txp, group, levels>>, NEW what \in Errors, Refuse(what)
  PROVE  SelectionInv'
<1>1. step' = "done" /\ error' \in Errors
  BY DEF Refuse
<1>2. SelectionTypeOK' /\ LevelsCached'
  BY <1>1 DEF SelectionInv, SelectionTypeOK, LevelsCached
<1>3. (opts.inputs \subseteq Places)'
  BY OptionsStay DEF SelectionInv
<1>4. ~Made'
  BY <1>1 DEF Made, Errors
<1> QED
  BY <1>1, <1>2, <1>3, <1>4 DEF SelectionInv, ProposalPays, Early

(* It is kept when a check is passed, before any input is looked for. *)
LEMMA GoesOn ==
  ASSUME SelectionInv, UNCHANGED <<utxos, opts, txp, group, levels>>, OptionsAllowed,
         step \in Early, NEW place \in (Early \ {"validate"}) \cup {"group"}, Go(place),
         place = "group" => txp.inputs = {}, place = "maxFee" => opts.sendMax
  PROVE  SelectionInv'
<1>1. step' = place /\ error' = error
  BY DEF Go
<1>2. SelectionTypeOK' /\ LevelsCached'
  BY <1>1 DEF SelectionInv, SelectionTypeOK, LevelsCached, Early
<1>3. (opts.inputs \subseteq Places)' /\ OptionsAllowed'
  BY OptionsStay DEF SelectionInv
<1>4. NothingYet /\ NothingYet'
  BY <1>1 DEF SelectionInv, NothingYet
<1>5. place = "group" => Grouping'
  BY <1>4 DEF Grouping, NothingYet
<1>6. ~Made' /\ step' # "check" /\ (step' = "maxFee" => opts'.sendMax)
  BY <1>1 DEF Made, Early
<1> QED
  BY <1>1, <1>2, <1>3, <1>4, <1>5, <1>6 DEF SelectionInv, ProposalPays

(* It is kept when the cached levels expire, *)
LEMMA InvLevelsExpire ==
  ASSUME SelectionInv, LevelsExpire \/ UNCHANGED selectionVars
  PROVE  SelectionInv'
<1>1. UNCHANGED <<utxos, opts, step, txp, group, error>> /\ (levels' = <<>> \/ levels' = levels)
  BY DEF LevelsExpire, selectionVars
<1>2. SelectionTypeOK' /\ LevelsCached'
  <2>1. LevelsCached'
    BY <1>1, Zenon DEF SelectionInv, LevelsCached, LevelsFit
  <2>2. levels' \in Seq(Nat)
    BY <2>1, CachedTyped DEF LevelsCached
  <2> QED
    BY <1>1, <2>1, <2>2 DEF SelectionInv, SelectionTypeOK
<1>3. /\ Chosen' <=> Chosen
      /\ Selected' <=> Selected
      /\ OptionsAllowed' <=> OptionsAllowed
      /\ Places' = Places
  BY <1>1, ChosenStays
<1>4. /\ NothingYet' <=> NothingYet
      /\ Grouping' <=> Grouping
  BY <1>1, <1>3 DEF NothingYet, Grouping
<1>5. ProposalPays' <=> ProposalPays
  BY <1>1, PaysStay, Zenon DEF ProposalPays, Pays, Made
<1> QED
  BY <1>1, <1>2, <1>3, <1>4, <1>5 DEF SelectionInv

(* ... by the validation of the options, *)
LEMMA InvValidate ==
  ASSUME SelectionInv, Validate
  PROVE  SelectionInv'
<1>0. UNCHANGED <<utxos, opts, txp, group, levels>> /\ step \in Early
  BY DEF Validate, Keep, Turn, Early
<1>1. CASE ~OptionsAllowed
  <2>1. Refuse("OPTIONS") /\ "OPTIONS" \in Errors
    BY <1>1 DEF Validate, Errors
  <2> QED
    BY <1>0, <2>1, Refused
<1>2. CASE OptionsAllowed
  <2>1. PICK place : place = IF opts.sendMax THEN "maxFee" ELSE "outputs"
    OBVIOUS
  <2>2. /\ Go(place) /\ place \in (Early \ {"validate"}) \cup {"group"} /\ place # "group"
        /\ place = "maxFee" => opts.sendMax
    BY <1>2, <2>1 DEF Validate, Early
  <2> QED
    BY <1>0, <1>2, <2>2, GoesOn
<1> QED
  BY <1>1, <1>2

(* ... by that of the outputs, *)
LEMMA InvValidateOutputs ==
  ASSUME SelectionInv, ValidateOutputs
  PROVE  SelectionInv'
<1>0. /\ UNCHANGED <<utxos, opts, txp, group, levels>> /\ step \in Early
      /\ OptionsAllowed
  BY DEF ValidateOutputs, Keep, Turn, Early, SelectionInv
<1>1. Refuse("AMOUNT") \/ Refuse("DUST_AMOUNT") \/ Go("backoff")
  BY DEF ValidateOutputs
<1>2. /\ {"AMOUNT", "DUST_AMOUNT"} \subseteq Errors
      /\ "backoff" \in (Early \ {"validate"}) \cup {"group"} /\ "backoff" # "group"
  BY DEF Errors, Early
<1> QED
  BY <1>0, <1>1, <1>2, Refused, GoesOn

(* ... by the check of the last rejections, *)
LEMMA InvCanCreateTx ==
  ASSUME SelectionInv, CanCreateTx
  PROVE  SelectionInv'
<1>0. /\ UNCHANGED <<utxos, opts, txp, group, levels>> /\ step \in Early
      /\ OptionsAllowed
  BY DEF CanCreateTx, Keep, Turn, Early, SelectionInv
<1>1. Refuse("TX_CANNOT_CREATE") \/ Go("fee")
  BY DEF CanCreateTx
<1>2. /\ "TX_CANNOT_CREATE" \in Errors
      /\ "fee" \in (Early \ {"validate"}) \cup {"group"} /\ "fee" # "group"
  BY DEF Errors, Early
<1> QED
  BY <1>0, <1>1, <1>2, Refused, GoesOn

(* ... and by that of the balance. *)
LEMMA InvCheckFunds ==
  ASSUME SelectionInv, CheckFunds
  PROVE  SelectionInv'
<1>0. /\ UNCHANGED <<utxos, opts, txp, group, levels>> /\ step \in Early
      /\ OptionsAllowed /\ txp.inputs = {}
  BY DEF CheckFunds, Keep, Turn, Early, SelectionInv
<1>1. Refuse("INSUFFICIENT_FUNDS") \/ Refuse("LOCKED_FUNDS") \/ Go("group")
  BY Zenon DEF CheckFunds
<1>2. /\ {"INSUFFICIENT_FUNDS", "LOCKED_FUNDS"} \subseteq Errors
      /\ "group" \in (Early \ {"validate"}) \cup {"group"}
  BY DEF Errors, Early
<1> QED
  BY <1>0, <1>1, <1>2, Refused, GoesOn

(* The greatest coins of a set are in it. *)
LEMMA MaxCoinsIn ==
  ASSUME NEW S
  PROVE  MaxCoins(S) \subseteq S
BY DEF MaxCoins, Greatest

(* When all is sent, the inputs that are found are coins of the wallet. *)
LEMMA InvSendMax ==
  ASSUME SelectionInv, SendMax
  PROVE  SelectionInv'
<1>1. PICK found : /\ IF Given(opts.feePerKb) THEN UNCHANGED levels ELSE GetFeeLevels(found)
                   /\ LET info == SendMaxInfo(IF Given(opts.feePerKb) THEN opts.feePerKb
                                              ELSE found[NormalLevel])
                      IN txp' = [txp EXCEPT !.amount = info.amount, !.inputs = info.inputs]
  BY Zenon DEF SendMax
<1>2. /\ step = "maxFee" /\ step' = "outputs" /\ UNCHANGED <<utxos, opts, group, error>>
      /\ OptionsAllowed /\ NothingYet
  BY DEF SendMax, Turn, Go, Keep, SelectionInv, Early
<1>3. LevelsCached' /\ (Given(opts.feePerKb) \/ LevelsFit(found))
  BY <1>1, FoundLevels DEF SelectionInv, LevelsCached
<1>4. PICK feePerKb : feePerKb = IF Given(opts.feePerKb) THEN opts.feePerKb ELSE found[NormalLevel]
  OBVIOUS
<1>5. feePerKb \in Nat
  <2>1. CASE Given(opts.feePerKb)
    BY <1>4, <2>1 DEF SelectionInv, SelectionTypeOK, Options, Given
  <2>2. CASE ~Given(opts.feePerKb)
    BY <1>3, <1>4, <2>2, NormalIsLevel DEF LevelsFit
  <2> QED
    BY <2>1, <2>2
<1>6. PICK info : info = SendMaxInfo(feePerKb)
  OBVIOUS
<1>7. txp' = [txp EXCEPT !.amount = info.amount, !.inputs = info.inputs]
  BY <1>1, <1>4, <1>6
<1>8. info.amount \in Int /\ info.inputs \in SUBSET Places
  <2> DEFINE worth == {i \in Spendable(opts.confirmed) :
                         utxos[i].satoshis * 1000 > InputSize * feePerKb}
             inputs == MaxCoins(worth)
             amount == Value(inputs) - EstimatedFee(Cardinality(inputs), feePerKb)
  <2>1. info = IF inputs = {} \/ amount < MinOutput THEN [amount |-> 0, inputs |-> {}]
               ELSE [amount |-> amount, inputs |-> inputs]
    BY <1>6, Zenon DEF SendMaxInfo
  <2>2. inputs \in SUBSET Places
    <3>1. worth \subseteq Places
      BY DEF Spendable, FreeCoins, Places
    <3> HIDE DEF worth
    <3> QED
      BY <3>1, MaxCoinsIn
  <2> HIDE DEF inputs
  <2>3. Value(inputs) \in Nat /\ Cardinality(inputs) \in Nat
    BY <2>2, ValueLaws, PlacesSized DEF SelectionInv, SelectionTypeOK
  <2>4. EstimatedFee(Cardinality(inputs), feePerKb) \in Int
    <3>1. EstimatedSize(Cardinality(inputs)) \in Nat
      BY <2>3, EstimatedSizes
    <3>2. EstimatedSize(Cardinality(inputs)) * feePerKb \in Int
      BY <3>1, <1>5
    <3> QED
      BY <3>2 DEF EstimatedFee, Round
  <2>5. amount \in Int
    BY <2>3, <2>4
  <2> HIDE DEF amount
  <2> QED
    BY <2>1, <2>2, <2>5
<1>9. SelectionTypeOK'
  <2>1. levels' \in Seq(Nat)
    BY <1>3, CachedTyped DEF LevelsCached
  <2> QED
    BY <1>2, <1>7, <1>8, <2>1 DEF SelectionInv, SelectionTypeOK, Places
<1>10. OptionsAllowed' /\ (opts.inputs \subseteq Places)'
  BY <1>2, OptionsStay DEF SelectionInv
<1>11. opts.sendMax
  BY <1>2 DEF SelectionInv
<1>12. NothingYet'
  BY <1>2, <1>11 DEF NothingYet
<1> QED
  BY <1>2, <1>3, <1>9, <1>10, <1>12 DEF SelectionInv, ProposalPays, Made

(* The fee per kB that is found is a natural; nothing else changes. *)
LEMMA InvGetFeePerKb ==
  ASSUME SelectionInv, GetFeePerKb
  PROVE  SelectionInv'
<1>1. /\ step = "fee" /\ step' = "inputs" /\ UNCHANGED <<utxos, opts, group, error>>
      /\ OptionsAllowed /\ NothingYet
  BY DEF GetFeePerKb, Turn, Go, Keep, SelectionInv, Early
<1>2. /\ levels' \in Seq(Nat) /\ LevelsCached'
      /\ txp' = txp \/ \E feePerKb \in Nat : txp' = [txp EXCEPT !.feePerKb = feePerKb]
  <2>1. CASE UNCHANGED <<levels, txp>>
    BY <2>1 DEF SelectionInv, SelectionTypeOK, LevelsCached, LevelsFit
  <2>2. CASE ~UNCHANGED <<levels, txp>>
    <3>1. PICK found : /\ GetFeeLevels(found)
                       /\ txp' = [txp EXCEPT !.feePerKb =
                                    found[IF Given(opts.feeLevel) THEN opts.feeLevel ELSE NormalLevel]]
      BY <2>2, Zenon DEF GetFeePerKb
    <3>2. LevelsCached' /\ LevelsFit(found)
      BY <3>1, FoundLevels DEF SelectionInv, LevelsCached
    <3>3. PICK level \in 1..Len(FeeLevels) :
            level = IF Given(opts.feeLevel) THEN opts.feeLevel ELSE NormalLevel
      BY <1>1, NormalIsLevel DEF OptionsAllowed
    <3>4. found[level] \in Nat
      BY <3>2 DEF LevelsFit
    <3> QED
      BY <3>1, <3>2, <3>3, <3>4, CachedTyped DEF LevelsCached
  <2> QED
    BY <2>1, <2>2
<1>3. SelectionTypeOK' /\ txp'.inputs = txp.inputs
  <2>1. /\ txp' \in [amount : Int, feePerKb : Int, inputs : SUBSET (1..Len(utxos)), fee : Int]
        /\ txp'.inputs = txp.inputs
    <3>1. txp \in [amount : Int, feePerKb : Int, inputs : SUBSET (1..Len(utxos)), fee : Int]
      BY DEF SelectionInv, SelectionTypeOK
    <3>2. ASSUME NEW feePerKb \in Nat, txp' = [txp EXCEPT !.feePerKb = feePerKb]
          PROVE  /\ txp' \in [amount : Int, feePerKb : Int, inputs : SUBSET (1..Len(utxos)), fee : Int]
                 /\ txp'.inputs = txp.inputs
      BY <3>1, <3>2
    <3> QED
      BY <1>2, <3>1, <3>2
  <2> QED
    BY <1>1, <1>2, <2>1 DEF SelectionInv, SelectionTypeOK
<1>4. OptionsAllowed' /\ (opts.inputs \subseteq Places)'
  BY <1>1, OptionsStay DEF SelectionInv
<1>5. NothingYet'
  BY <1>1, <1>3 DEF NothingYet
<1> QED
  BY <1>1, <1>2, <1>3, <1>4, <1>5 DEF SelectionInv, ProposalPays, Made

(* Given inputs get the fee of their size, unless it is given. *)
LEMMA InvTakeInputs ==
  ASSUME SelectionInv, TakeInputs
  PROVE  SelectionInv'
<1>1. /\ step = "inputs" /\ step' = "check" /\ UNCHANGED <<utxos, opts, group, error, levels>>
      /\ OptionsAllowed /\ NothingYet /\ txp.inputs # {}
  BY DEF TakeInputs, Turn, Go, Keep, SelectionInv, Early
<1>2. PICK fee : /\ fee = IF Given(txp.fee) THEN txp.fee
                          ELSE EstimatedFee(Cardinality(txp.inputs), txp.feePerKb)
                 /\ txp' = [txp EXCEPT !.fee = fee]
  BY Zenon DEF TakeInputs
<1>3. fee \in Int
  <2>1. txp.feePerKb \in Int /\ txp.fee \in Int
    BY DEF SelectionInv, SelectionTypeOK
  <2>2. Cardinality(txp.inputs) \in Nat
    BY PlacesSized DEF SelectionInv, SelectionTypeOK, Places
  <2>3. EstimatedFee(Cardinality(txp.inputs), txp.feePerKb) \in Int
    BY <2>1, <2>2, FeesTyped
  <2> QED
    BY <1>2, <2>1, <2>3
<1>4. SelectionTypeOK' /\ LevelsCached'
  BY <1>1, <1>2, <1>3 DEF SelectionInv, SelectionTypeOK, LevelsCached
<1>5. OptionsAllowed' /\ (opts.inputs \subseteq Places)' /\ ~Selected'
  <2>1. ~Selected
    BY <1>1 DEF NothingYet, Selected
  <2> QED
    BY <1>1, <2>1, OptionsStay DEF SelectionInv
<1> QED
  BY <1>1, <1>4, <1>5 DEF SelectionInv, ProposalPays, Made, Early

(* The address that is taken holds more than the amount and the gas. *)
LEMMA InvTakeAddress ==
  ASSUME SelectionInv, TakeAddress
  PROVE  SelectionInv'
<1> DEFINE gas == txp.feePerKb * 21000
           sources == {i \in Places : utxos[i].satoshis > txp.amount + gas}
<1>1. /\ step = "inputs" /\ opts.coin = "eth" /\ UNCHANGED <<utxos, opts, group, levels>>
      /\ utxos \in Seq(Coin) /\ txp.amount \in Int /\ txp.feePerKb \in Int
  BY DEF TakeAddress, Turn, Keep, SelectionInv, SelectionTypeOK
<1>2. CASE sources = {}
  <2>1. Refuse("INSUFFICIENT_FUNDS") /\ UNCHANGED txp
    BY <1>2 DEF TakeAddress, Places
  <2>2. "INSUFFICIENT_FUNDS" \in Errors
    BY DEF Errors
  <2> QED
    BY <1>1, <2>1, <2>2, Refused
<1>3. CASE sources # {}
  <2>1. /\ txp' = [txp EXCEPT !.inputs = {Min(sources)}, !.fee = gas]
        /\ step' = "done" /\ UNCHANGED error
    BY <1>3 DEF TakeAddress, Places
  <2>2. PICK m \in sources : m = Min(sources)
    <3>1. sources \in SUBSET Nat
      BY CoinsTyped, <1>1
    <3> HIDE DEF sources
    <3> QED
      BY <1>3, <3>1, MinOf
  <2>3. gas \in Int /\ m \in Places /\ utxos[m].satoshis > txp.amount + gas
        /\ utxos[m].satoshis \in Nat
    BY <1>1, <2>2, CoinsTyped DEF Coin
  <2>4. txp' = [txp EXCEPT !.inputs = {m}, !.fee = gas]
    BY <2>1, <2>2
  <2> HIDE DEF gas, sources
  <2>5. SelectionTypeOK' /\ LevelsCached'
    <3>1. {m} \in SUBSET (1..Len(utxos))
      BY <2>3 DEF Places
    <3>2. txp' \in [amount : Int, feePerKb : Int, inputs : SUBSET (1..Len(utxos)), fee : Int]
      BY <2>3, <2>4, <3>1 DEF SelectionInv, SelectionTypeOK
    <3> QED
      BY <1>1, <2>1, <3>2 DEF SelectionInv, SelectionTypeOK, LevelsCached
  <2>6. (opts.inputs \subseteq Places)' /\ ~Selected'
    <3>1. ~Selected
      BY <1>1 DEF Selected
    <3> QED
      BY <1>1, <3>1, OptionsStay DEF SelectionInv
  <2>7. Left' = utxos[m].satoshis - txp.amount - gas
    <3>1. PICK S : S = {m}
      OBVIOUS
    <3>2. Value(S) = utxos[m].satoshis
      BY <1>1, <2>3, <3>1, ValueLaws
    <3>3. /\ txp'.inputs = S /\ txp'.amount = txp.amount /\ txp'.fee = gas
          /\ txp'.feePerKb = txp.feePerKb
      BY <2>4, <3>1 DEF SelectionInv, SelectionTypeOK
    <3>4. Value(S)' = Value(S)
      BY <1>1, <3>3, Steady
    <3> QED
      BY <3>2, <3>3, <3>4 DEF Left
  <2>8. ProposalPays'
    BY <1>1, <2>3, <2>6, <2>7 DEF ProposalPays
  <2> QED
    BY <2>1, <2>5, <2>6, <2>8 DEF SelectionInv, Early
<1> QED
  BY <1>2, <1>3

(* A group of coins is selected as Selects says; without an error, what is left is
   what ChosenOf says of it. *)
LEMMA InvSelectGroup ==
  ASSUME SelectionInv, SelectGroup
  PROVE  SelectionInv'
<1> DEFINE candidates == {i \in Eligible : utxos[i].confirmations >= Groups[group.tried + 1]}
           n == Cardinality(candidates)
           found == Select(candidates)
<1>1. /\ step = "group" /\ UNCHANGED <<utxos, opts, levels, step>> /\ txp.inputs = {}
      /\ group.tried < Len(Groups) /\ Grouping /\ OptionsAllowed
  BY DEF SelectGroup, Turn, SelectionInv
<1>2. candidates \subseteq Eligible /\ candidates \in SUBSET Places
  BY EligibleIn
<1>3. n \in Nat /\ CoinsKnown
  <2>1. CoinsKnown
    BY DEF SelectionInv, SelectionTypeOK, CoinsKnown
  <2> HIDE DEF candidates
  <2> QED
    BY <1>2, <2>1, PlacesSized DEF CoinsKnown
<1>4. Len(Groups) \in 0..3 /\ group.tried \in Nat /\ group.tried + 1 \in 0..3
  <2>1. Len(Groups) \in 0..3
    BY DEF Groups
  <2>2. PICK tried \in 0..3, most \in 0..3 : tried = group.tried /\ most = Len(Groups)
    BY <2>1 DEF SelectionInv, SelectionTypeOK
  <2>3. tried < most
    BY <1>1, <2>2
  <2>4. tried \in Nat /\ tried + 1 \in 0..3
    BY <2>3
  <2> QED
    BY <2>1, <2>2, <2>4
<1>5. (opts.inputs \subseteq Places)' /\ OptionsAllowed'
  BY <1>1, OptionsStay DEF SelectionInv
<1>6. CASE n = group.length
  <2>1. group' = [group EXCEPT !.tried = @ + 1] /\ UNCHANGED <<txp, error>>
    BY <1>6 DEF SelectGroup
  <2>2. SelectionTypeOK' /\ LevelsCached'
    BY <1>1, <1>4, <2>1 DEF SelectionInv, SelectionTypeOK, LevelsCached
  <2>3. error \in Errors
    BY <1>1, <1>3, <1>6 DEF Grouping, Absent
  <2>4. Grouping'
    BY <1>1, <2>1, <2>3 DEF Grouping
  <2> QED
    BY <1>1, <1>5, <2>2, <2>4 DEF SelectionInv, Early, ProposalPays, Made
<1>7. CASE n # group.length
  <2>1. /\ group' = [tried |-> group.tried + 1, length |-> n]
        /\ txp' = [txp EXCEPT !.inputs = found.inputs, !.fee = found.fee]
        /\ error' = found.error
    BY <1>7, Zenon DEF SelectGroup
  <2>2. PICK one : one = found
    OBVIOUS
  <2>3. /\ one.inputs \in SUBSET candidates /\ one.fee \in Int
        /\ one.inputs = {} => one.error \in Errors
        /\ one.inputs # {} => one.error = "none" /\ ChosenOf(one.inputs, one.fee)
    <3> HIDE DEF candidates
    <3> QED
      BY <1>2, <1>3, <2>2, Selects, Zenon
  <2>4. PICK S, fee : S = one.inputs /\ fee = one.fee
    OBVIOUS
  <2> HIDE DEF candidates, n, found
  <2>5. S \in SUBSET Places
    BY <1>2, <2>3, <2>4
  <2>6. txp' = [txp EXCEPT !.inputs = S, !.fee = fee] /\ error' = one.error
    BY <2>1, <2>2, <2>4
  <2>7. SelectionTypeOK' /\ LevelsCached'
    BY <1>1, <1>3, <1>4, <2>1, <2>3, <2>4, <2>5, <2>6
       DEF SelectionInv, SelectionTypeOK, LevelsCached, Places
  <2>8. /\ txp'.inputs = S /\ txp'.fee = fee
        /\ txp'.amount = txp.amount /\ txp'.feePerKb = txp.feePerKb
    BY <2>6 DEF SelectionInv, SelectionTypeOK
  <2>9. S # {} => Chosen'
    <3>1. ChosenOf(S, fee)' <=> ChosenOf(S, fee)
      BY <1>1, <2>8, Steady
    <3>2. Chosen' <=> ChosenOf(S, fee)'
      BY <2>8, Zenon DEF Chosen, ChosenOf
    <3> QED
      BY <2>3, <2>4, <3>1, <3>2, Zenon
  <2>10. Grouping'
    BY <2>3, <2>4, <2>6, <2>8, <2>9 DEF Grouping
  <2> QED
    BY <1>1, <1>5, <2>7, <2>10 DEF SelectionInv, Early, ProposalPays, Made
<1> QED
  BY <1>6, <1>7

(* With inputs the selection ends well, and without inputs in an error. *)
LEMMA InvEndSelection ==
  ASSUME SelectionInv, EndSelection
  PROVE  SelectionInv'
<1>1. /\ step = "group" /\ UNCHANGED <<utxos, opts, levels, txp, group, error>>
      /\ Grouping /\ OptionsAllowed
      /\ txp.inputs # {} \/ group.tried = Len(Groups)
      /\ step' = IF txp.inputs = {} THEN "done" ELSE "check"
  BY DEF EndSelection, Turn, Keep, SelectionInv
<1>2. SelectionTypeOK' /\ LevelsCached'
  BY <1>1 DEF SelectionInv, SelectionTypeOK, LevelsCached
<1>3. (opts.inputs \subseteq Places)' /\ OptionsAllowed'
  BY <1>1, OptionsStay DEF SelectionInv
<1>4. txp.inputs = {} => error' \in Errors
  <2>1. Len(Groups) # 0
    BY DEF Groups
  <2> QED
    BY <1>1, <2>1 DEF Grouping
<1>5. txp.inputs # {} => Chosen'
  BY <1>1, ChosenStays DEF Grouping
<1>6. ~Made'
  BY <1>1, <1>4 DEF Made, Errors
<1> QED
  BY <1>1, <1>2, <1>3, <1>5, <1>6 DEF SelectionInv, Early, ProposalPays

(* Bitcore lets nothing pass that does not pay, or whose change is dust. *)
LEMMA InvCheckTx ==
  ASSUME SelectionInv, CheckTx
  PROVE  SelectionInv'
<1>1. /\ step = "check" /\ UNCHANGED <<utxos, opts, levels, txp, group>> /\ step' = "done"
      /\ Selected => Chosen
  BY DEF CheckTx, Turn, Keep, SelectionInv, Refuse
<1>2. /\ error' \in Errors \cup {"none"}
      /\ error' = "none" => /\ EstimatedSize(Cardinality(txp.inputs)) <= MaxTxSize
                           /\ BitcoreError = "none"
  BY DEF CheckTx, Refuse, BitcoreError, Errors
<1>3. SelectionTypeOK' /\ LevelsCached'
  BY <1>1, <1>2 DEF SelectionInv, SelectionTypeOK, LevelsCached
<1>4. (opts.inputs \subseteq Places)'
  BY <1>1, OptionsStay DEF SelectionInv
<1>5. error' = "none" => Pays
  <2>1. SUFFICES ASSUME error' = "none"
                 PROVE  Pays
    OBVIOUS
  <2>2. PICK k : k = Cardinality(txp.inputs)
    OBVIOUS
  <2>3. k \in Nat /\ Left \in Int /\ DustThreshold \in Nat /\ DustAmount \in Nat
        /\ MaxTxSize \in Nat
    <3>1. /\ utxos \in Seq(Coin) /\ txp.inputs \in SUBSET Places
          /\ txp.amount \in Int /\ txp.fee \in Int
      BY DEF SelectionInv, SelectionTypeOK, Places
    <3>2. k \in Nat
      BY <2>2, <3>1, PlacesSized
    <3>3. Value(txp.inputs) \in Nat
      BY <3>1, ValueLaws
    <3>4. Left \in Int
      BY <3>1, <3>3 DEF Left
    <3> QED
      BY <3>2, <3>4, SizesTyped
  <2>4. Left >= 0 /\ Left \notin 1..(DustAmount - 1)
    BY <1>2, <2>1, <2>3 DEF BitcoreError
  <2>5. ~TooBig(k)
    BY <1>2, <2>1, <2>2, <2>3, EstimatedSizes DEF TooBig
  <2>6. Left = 0 \/ Left >= DustAmount
    BY <2>3, <2>4
  <2>7. Selected => /\ txp.inputs \subseteq Eligible
                    /\ txp.fee \in Round(FeeOf(k))..(Round(FeeOf(k)) + DustThreshold)
                    /\ Big(Eligible) = {} => Left \notin 1..DustThreshold
    BY <1>1, <2>2, <2>5, Zenon DEF Chosen, ChosenOf, Left
  <2>8. Left \notin 1..DustThreshold => Left = 0 \/ Left > DustThreshold
    BY <2>3, <2>4
  <2> QED
    BY <2>2, <2>4, <2>6, <2>7, <2>8, Zenon DEF Pays
<1>6. ProposalPays'
  BY <1>1, <1>5, PaysStay, Zenon DEF ProposalPays, Pays, Made
<1> QED
  BY <1>1, <1>3, <1>4, <1>6 DEF SelectionInv, Early

(* Every step of createTx keeps the invariant. *)
LEMMA SelectionStep ==
  ASSUME SelectionInv, [SelectionNext]_selectionVars
  PROVE  SelectionInv'
BY InvLevelsExpire, InvValidate, InvSendMax, InvValidateOutputs, InvCanCreateTx, InvGetFeePerKb,
   InvTakeInputs, InvTakeAddress, InvCheckFunds, InvSelectGroup, InvEndSelection, InvCheckTx,
   Zenon DEF SelectionNext

(* The invariant of createTx: up to its answer, what it has chosen pays. *)
THEOREM SelectionInvariant ==
  SelectionSpec => []SelectionInv
<1>1. SelectionInit => SelectionInv
  BY SelectionBegins
<1>2. SelectionInv /\ [SelectionNext]_selectionVars => SelectionInv'
  BY SelectionStep
<1> QED
  BY <1>1, <1>2, PTL DEF SelectionSpec

(* The coins, the options and what createTx makes of them stay of their types
   (SelectionTypeOK), for any wallet, options, fee levels and limits. *)
THEOREM SelectionTyped ==
  SelectionSpec => []SelectionTypeOK
<1>1. SelectionInv => SelectionTypeOK
  BY DEF SelectionInv
<1> QED
  BY <1>1, SelectionInvariant, PTL

(* A proposal that createTx makes is paid for by its inputs, with the fee of its
   size, and its change is none or no dust (ProposalPays): server.js:1890-2154,
   _selectTxInputs, and server.js:1858-1888, _checkTx. *)
THEOREM ProposalsPay ==
  SelectionSpec => []ProposalPays
<1>1. SelectionInv => ProposalPays
  BY DEF SelectionInv
<1> QED
  BY <1>1, SelectionInvariant, PTL

(* A coin before another has fewer before it. *)
LEMMA Ranks ==
  ASSUME utxos \in Seq(Coin), NEW W \in SUBSET Places
  PROVE  /\ \A x \in W : /\ Before(W, x) \in SUBSET W /\ x \notin Before(W, x)
                         /\ Cardinality(Before(W, x)) \in Nat
         /\ \A x \in W : \A y \in Before(W, x) :
              Cardinality(Before(W, y)) < Cardinality(Before(W, x))
         /\ \A x, y \in W : x = y \/ x \in Before(W, y) \/ y \in Before(W, x)
<1>0. /\ \A x \in W : utxos[x].satoshis \in Nat /\ x \in Nat
      /\ IsFiniteSet(W)
  BY CoinsTyped, PlacesSized DEF Coin
<1>1. ASSUME NEW x \in W
      PROVE  /\ Before(W, x) \in SUBSET W /\ x \notin Before(W, x)
             /\ Cardinality(Before(W, x)) \in Nat
  <2>1. Before(W, x) \in SUBSET W /\ x \notin Before(W, x)
    BY <1>0 DEF Before
  <2>2. Before(W, x) \in SUBSET Places
    BY <2>1
  <2> QED
    BY <2>1, <2>2, PlacesSized
<1>2. ASSUME NEW x \in W, NEW y \in Before(W, x)
      PROVE  Cardinality(Before(W, y)) < Cardinality(Before(W, x))
  <2>1. y \in W /\ Before(W, y) \subseteq Before(W, x) \ {y}
    <3>1. y \in W
      BY DEF Before
    <3>2. ASSUME NEW z \in Before(W, y)
          PROVE  z \in Before(W, x) /\ z # y
      BY <1>0, <3>1 DEF Before
    <3> QED
      BY <3>1, <3>2
  <2>2. PICK B \in SUBSET W, C \in SUBSET W : B = Before(W, x) /\ C = Before(W, y)
    BY <1>1, <2>1
  <2>3. C \in SUBSET (B \ {y}) /\ y \in B
    BY <2>1, <2>2
  <2>4. /\ Cardinality(B \ {y}) = Cardinality(B) - 1 /\ Cardinality(B) \in Nat
        /\ IsFiniteSet(B \ {y})
    BY <1>0, <2>3, Sizes, FS_Subset
  <2>5. Cardinality(C) <= Cardinality(B \ {y}) /\ Cardinality(C) \in Nat
    BY <2>3, <2>4, Sizes
  <2> QED
    BY <2>2, <2>4, <2>5
<1>3. ASSUME NEW x \in W, NEW y \in W
      PROVE  x = y \/ x \in Before(W, y) \/ y \in Before(W, x)
  BY <1>0 DEF Before
<1> QED
  BY <1>1, <1>2, <1>3

(* The k + 1 greatest coins are the k greatest and one, the next. *)
LEMMA NextGreatest ==
  ASSUME utxos \in Seq(Coin), NEW W \in SUBSET Places, NEW k \in Nat,
         Cardinality(Greatest(W, k)) <= k, Greatest(W, k) # W
  PROVE  \E x \in W \ Greatest(W, k) :
           /\ Greatest(W, k + 1) = Greatest(W, k) \cup {x}
           /\ Cardinality(Before(W, x)) = k
           /\ Cardinality(Greatest(W, k)) = k
<1> DEFINE rank(x) == Cardinality(Before(W, x))
           G == Greatest(W, k)
           ranks == {rank(x) : x \in W \ G}
<1>1. G \in SUBSET W /\ G = {x \in W : rank(x) < k} /\ \A x \in W : rank(x) \in Nat
  BY Ranks DEF Greatest
<1>2. Greatest(W, k + 1) = {x \in W : rank(x) < k + 1}
  BY DEF Greatest
<1>3. ranks \in SUBSET Nat /\ ranks # {}
  <2> HIDE DEF G, rank
  <2> QED
    BY <1>1 DEF G
<1>4. Min(ranks) \in ranks /\ \A r \in ranks : Min(ranks) <= r
  <2> HIDE DEF ranks
  <2> QED
    BY <1>3, MinOf
<1>5. PICK x \in W \ G : \A y \in W \ G : rank(x) <= rank(y)
  <2> HIDE DEF G, rank
  <2> QED
    BY <1>4
<1>6. Before(W, x) \in SUBSET G
  <2>1. ASSUME NEW y \in Before(W, x)
        PROVE  y \in G
    <3>1. y \in W /\ rank(y) < rank(x)
      BY Ranks
    <3>2. rank(x) \in Nat /\ rank(y) \in Nat
      BY <1>1, <3>1
    <3> QED
      BY <1>5, <3>1, <3>2
  <2> QED
    BY <2>1
<1>7. rank(x) = k /\ Cardinality(G) = k
  <2>1. IsFiniteSet(G) /\ Cardinality(G) \in Nat
    BY <1>1, PlacesSized
  <2>2. rank(x) <= Cardinality(G)
    BY <1>6, <2>1, Sizes
  <2>3. ~(rank(x) < k) /\ rank(x) \in Nat
    BY <1>1
  <2>4. Cardinality(G) <= k
    OBVIOUS
  <2> HIDE DEF G, rank
  <2> QED
    BY <2>1, <2>2, <2>3, <2>4
<1>8. ASSUME NEW z \in W, z # x
      PROVE  rank(z) < k + 1 <=> z \in G
  <2>1. CASE x \in Before(W, z)
    <3>1. rank(x) < rank(z) /\ rank(z) \in Nat
      BY <1>1, <2>1, Ranks
    <3> HIDE DEF rank
    <3> QED
      BY <1>1, <1>7, <3>1
  <2>2. CASE z \in Before(W, x)
    <3>1. z \in G
      BY <1>6, <2>2
    <3> HIDE DEF rank
    <3> QED
      BY <1>1, <3>1
  <2> QED
    BY <1>8, <2>1, <2>2, Ranks
<1>9. Greatest(W, k + 1) = G \cup {x}
  <2> HIDE DEF rank, G
  <2> QED
    BY <1>1, <1>2, <1>7, <1>8
<1> QED
  BY <1>5, <1>7, <1>9

(* No other coins, no more of them, are worth more than the greatest. *)
LEMMA GreatestIsMost ==
  ASSUME utxos \in Seq(Coin), NEW W \in SUBSET Places, NEW net, NEW H, IsSum(H, W, net),
         \A i, j \in W : ~(utxos[i].satoshis > utxos[j].satoshis) => net[i] <= net[j]
  PROVE  \A k \in Nat : \A A \in SUBSET W : Cardinality(A) <= k => H[A] <= H[Greatest(W, k)]
<1> DEFINE Good(k) == /\ Cardinality(Greatest(W, k)) <= k
                      /\ \A A \in SUBSET W : Cardinality(A) <= k => H[A] <= H[Greatest(W, k)]
           P == {k \in Nat : Good(k)}
<1>0. /\ IsFiniteSet(W) /\ \A A \in SUBSET W : H[A] \in Nat /\ Cardinality(A) \in Nat
      /\ \A k \in Nat : Greatest(W, k) \in SUBSET W
  BY Sizes DEF IsSum, Greatest
<1>1. 0 \in P
  <2>1. Greatest(W, 0) = {}
    <3>1. ASSUME NEW x \in W PROVE ~(Cardinality(Before(W, x)) < 0)
      <4>1. Cardinality(Before(W, x)) \in Nat
        BY Ranks
      <4> QED
        BY <4>1
    <3> QED
      BY <3>1 DEF Greatest
  <2>2. Cardinality(Greatest(W, 0)) = 0
    BY <2>1, FS_EmptySet
  <2>3. ASSUME NEW A \in SUBSET W, Cardinality(A) <= 0
        PROVE  A = {}
    BY <1>0, <2>3, Sizes
  <2>4. ASSUME NEW A \in SUBSET W, Cardinality(A) <= 0
        PROVE  H[A] <= H[Greatest(W, 0)]
    <3>1. A = Greatest(W, 0) /\ H[A] \in Nat
      BY <1>0, <2>1, <2>3, <2>4
    <3> QED
      BY <3>1
  <2>5. Good(0)
    BY <2>2, <2>4
  <2> QED
    BY <2>5
<1>2. ASSUME NEW k \in Nat, k \in P
      PROVE  k + 1 \in P
  <2>0. Good(k)
    BY <1>2
  <2>1. CASE Greatest(W, k) = W
    <3>1. Greatest(W, k + 1) = W
      <4>1. \A x \in W : Cardinality(Before(W, x)) < k /\ Cardinality(Before(W, x)) \in Nat
        BY <2>1, Ranks DEF Greatest
      <4> QED
        BY <4>1 DEF Greatest
    <3>2. \A A \in SUBSET W : H[A] <= H[W]
      BY SumGrows
    <3>3. Good(k + 1)
      BY <1>0, <2>0, <2>1, <3>1, <3>2
    <3> QED
      BY <3>3
  <2>2. CASE Greatest(W, k) # W
    <3>1. PICK x \in W \ Greatest(W, k) :
            /\ Greatest(W, k + 1) = Greatest(W, k) \cup {x}
            /\ Cardinality(Before(W, x)) = k
            /\ Cardinality(Greatest(W, k)) = k
      BY <2>0, <2>2, NextGreatest
    <3>2. PICK G \in SUBSET W, N \in SUBSET W :
            G = Greatest(W, k) /\ N = Greatest(W, k + 1) /\ N = G \cup {x} /\ N \ {x} = G
      BY <1>0, <3>1
    <3>3. H[N] = net[x] + H[G] /\ net[x] \in Nat
      BY <3>2 DEF IsSum
    <3>4. Cardinality(N) = k + 1
      <4>1. Cardinality(N \ {x}) = Cardinality(N) - 1 /\ Cardinality(N) \in Nat
        BY <1>0, <3>2, Sizes
      <4> QED
        <5>1. Cardinality(N \ {x}) = k
          BY <3>1, <3>2, Zenon
        <5> QED
          BY <4>1, <5>1
    <3>5. ASSUME NEW A \in SUBSET W, Cardinality(A) <= k + 1
          PROVE  H[A] <= H[N]
      <4>1. CASE Cardinality(A) <= k
        <5>1. H[A] <= H[G]
          BY <2>0, <3>2, <4>1
        <5> QED
          BY <1>0, <3>3, <5>1
      <4>2. CASE ~(Cardinality(A) <= k)
        <5>1. PICK B \in SUBSET W : B = Before(W, x)
          BY Ranks
        <5>2. Cardinality(A) \in Nat /\ Cardinality(A) = k + 1
          BY <1>0, <3>5, <4>2
        <5>3. PICK a \in A : a \notin B
          <6>1. SUFFICES ASSUME A \in SUBSET B
                         PROVE  FALSE
            OBVIOUS
          <6>2. IsFiniteSet(B)
            BY <1>0, Sizes
          <6>3. Cardinality(A) <= Cardinality(B) /\ Cardinality(B) = k
            BY <3>1, <5>1, <6>1, <6>2, Sizes
          <6> QED
            BY <5>2, <6>3
        <5>4. ~(utxos[a].satoshis > utxos[x].satoshis)
          BY <5>1, <5>3 DEF Before
        <5>5. net[a] <= net[x] /\ net[a] \in Nat
          BY <5>4 DEF IsSum
        <5>6. PICK C \in SUBSET W : C = A \ {a}
          OBVIOUS
        <5>7. Cardinality(C) <= k
          BY <1>0, <5>2, <5>6, Sizes
        <5>8. H[A] = net[a] + H[C]
          BY <5>6 DEF IsSum
        <5>9. H[C] <= H[G]
          BY <2>0, <3>2, <5>7
        <5> QED
          BY <1>0, <3>3, <5>5, <5>8, <5>9
      <4> QED
        BY <4>1, <4>2
    <3>6. Good(k + 1)
      BY <3>2, <3>4, <3>5
    <3> QED
      BY <3>6
  <2> QED
    BY <2>1, <2>2
<1>3. Nat \subseteq P
  <2> HIDE DEF P
  <2> QED
    BY <1>1, <1>2, Induction
<1> QED
  BY <1>3

(* Rounded fees: what is worth no less per satoshi, but for a little, sends no less,
   but for a satoshi and as little. *)
FeesClose(v, w, p, q, d, y) ==
  /\ {v, w, p, q, y} \subseteq Nat /\ d \in Int
  /\ 1000 * v + q <= 1000 * w + p + d /\ 50 * d <= y

(* That is so for the fees that are rounded. *)
LEMMA RoundedFees ==
  ASSUME NEW v, NEW w, NEW p, NEW q, NEW d, NEW y, FeesClose(v, w, p, q, d, y)
  PROVE  v - Round(p) <= w - Round(q) + 1 + (y \div (50 * 1000))
<1>0. /\ v \in Nat /\ w \in Nat /\ p \in Nat /\ q \in Nat /\ y \in Nat /\ d \in Int
      /\ 1000 * v + q <= 1000 * w + p + d /\ 50 * d <= y
  BY DEF FeesClose
<1>1. PICK rp \in Nat, rq \in Nat : rp = Round(p) /\ rq = Round(q)
  BY <1>0, Quotient DEF Round
<1>2. 1000 * rq <= q + 500 /\ p + 500 < 1000 * rp + 1000
  BY <1>0, <1>1 DEF Round
<1>3. PICK more \in Nat : more = y \div 50000
  BY <1>0
<1>4. y < 50000 * more + 50000
  BY <1>0, <1>3
<1>5. v - rp <= w - rq + 1 + more
  BY <1>0, <1>2, <1>4
<1> QED
  BY <1>1, <1>3, <1>5

(* The same of the fees of n and m inputs. *)
InputsClose(n, m, f, v, w, more) ==
  /\ n \in Nat \ {0} /\ m \in Nat /\ f \in Nat /\ v \in Nat /\ w \in Nat
  /\ more \in {n, m} /\ more >= n /\ more >= m
  /\ 1000 * v - n * (InputSize * f) <= 1000 * w - m * (InputSize * f)

(* And for fees by estimated sizes, whose margin of 2 % is rounded, too. *)
LEMMA FeesOfInputs ==
  ASSUME NEW n, NEW m, NEW f, NEW v, NEW w, NEW more, InputsClose(n, m, f, v, w, more)
  PROVE  v - EstimatedFee(n, f) <= w - EstimatedFee(m, f) + 1
                                     + ((more * (InputSize * f)) \div (50 * 1000))
<1> SUFFICES ASSUME n \in Nat, m \in Nat, f \in Nat, v \in Nat, w \in Nat,
                    n # 0, more \in {n, m}, more >= n, more >= m,
                    1000 * v - n * (InputSize * f) <= 1000 * w - m * (InputSize * f)
             PROVE  v - EstimatedFee(n, f) <= w - EstimatedFee(m, f) + 1
                                                + ((more * (InputSize * f)) \div (50 * 1000))
  BY DEF InputsClose
<1>1. PICK size \in Nat : size = InputSize /\ size >= 100
  BY SizesTyped
<1>2. PICK a \in Nat, b \in Nat : a = size * n /\ b = size * m
  OBVIOUS
<1>3. PICK s \in Nat, t \in Nat : s = (38 + 2 * a) \div 100 /\ t = (38 + 2 * b) \div 100
  OBVIOUS
<1>4. EstimatedSize(n) = 96 + a + s /\ EstimatedSize(m) = 96 + b + t
  BY <1>1, <1>2, <1>3, EstimatedSizes
<1>5. PICK X \in Nat, Y \in Nat, S \in Nat, T \in Nat :
        X = a * f /\ Y = b * f /\ S = s * f /\ T = t * f
  OBVIOUS
<1>6. PICK p \in Nat, q \in Nat : p = 96 * f + X + S /\ q = 96 * f + Y + T
  OBVIOUS
<1>7. (96 + a + s) * f = p /\ (96 + b + t) * f = q
  BY <1>5, <1>6
<1>8. EstimatedFee(n, f) = Round(p) /\ EstimatedFee(m, f) = Round(q)
  BY <1>4, <1>7 DEF EstimatedFee
<1>9. n * (size * f) = X /\ m * (size * f) = Y
  BY <1>2, <1>5
<1>10. 1000 * v - X <= 1000 * w - Y
  BY <1>1, <1>9
<1>11. PICK y \in Nat : y = more * (size * f)
  OBVIOUS
<1>12. a >= 100
  <2>1. PICK k \in Nat : n = k + 1
    <3>1. n - 1 \in Nat /\ n = (n - 1) + 1
      OBVIOUS
    <3> QED
      BY <3>1
  <2>2. PICK r \in Nat : r = size * k
    OBVIOUS
  <2>3. a = r + size
    BY <1>2, <2>1, <2>2
  <2> QED
    BY <1>1, <2>3
<1>13. CASE m <= n
  <2>1. b <= a
    BY <1>2, <1>13
  <2>2. t <= s
    BY <1>3, <2>1
  <2>3. T <= S
    BY <1>5, <2>2
  <2>4. 1000 * v + q <= 1000 * w + p + 0
    BY <1>6, <1>10, <2>3
  <2>5. FeesClose(v, w, p, q, 0, y)
    BY <2>4 DEF FeesClose
  <2>6. v - Round(p) <= w - Round(q) + 1 + (y \div (50 * 1000))
    BY <2>5, RoundedFees
  <2> QED
    BY <1>1, <1>8, <1>11, <2>6
<1>14. CASE ~(m <= n)
  <2>1. more = m
    BY <1>14
  <2>2. y = Y
    BY <1>9, <1>11, <2>1
  <2>3. 50 * (t - s) <= b
    BY <1>3, <1>12
  <2>4. 50 * (T - S) <= Y
    <3>1. PICK d \in Int : d = t - s
      OBVIOUS
    <3>2. (50 * d) * f <= b * f
      BY <2>3, <3>1
    <3>3. T - S = d * f
      BY <1>5, <3>1
    <3> QED
      BY <1>5, <3>2, <3>3
  <2>5. 1000 * v + q <= 1000 * w + p + (T - S)
    BY <1>6, <1>10
  <2>6. FeesClose(v, w, p, q, T - S, y)
    BY <2>2, <2>4, <2>5 DEF FeesClose
  <2>7. v - Round(p) <= w - Round(q) + 1 + (y \div (50 * 1000))
    BY <2>6, RoundedFees
  <2> QED
    BY <1>1, <1>8, <1>11, <2>7
<1> QED
  BY <1>13, <1>14

Weight(S, c) == 1000 * Value(S) - Cardinality(S) * c

Worths(D, W, net, c) ==
  /\ D \in SUBSET Places /\ W \in SUBSET D /\ c \in Nat
  /\ \A i \in W : net[i] = utxos[i].satoshis * 1000 - c
  /\ \A i \in D \ W : utxos[i].satoshis * 1000 <= c

(* What coins are worth without the fees of their inputs: that of the worthwhile ones
   among them at most, and just that when all of them are. *)
LEMMA Weighs ==
  ASSUME utxos \in Seq(Coin), NEW D, NEW c, NEW W, NEW net, Worths(D, W, net, c),
         NEW H, IsSum(H, W, net)
  PROVE  \A S \in SUBSET D :
           /\ Weight(S, c) <= H[S \cap W]
           /\ S \subseteq W => Weight(S, c) = H[S \cap W]
<1> SUFFICES ASSUME D \in SUBSET Places, W \in SUBSET D, c \in Nat
             PROVE  \A S \in SUBSET D :
                      /\ Weight(S, c) <= H[S \cap W]
                      /\ S \subseteq W => Weight(S, c) = H[S \cap W]
  BY DEF Worths
<1> DEFINE Q == {S \in SUBSET D : /\ Weight(S, c) <= H[S \cap W]
                                  /\ S \subseteq W => Weight(S, c) = H[S \cap W]}
<1>0. /\ \A S \in SUBSET D : Value(S) \in Nat /\ Cardinality(S) \in Nat /\ S \in SUBSET Places
      /\ \A S \in SUBSET D : H[S \cap W] \in Nat
      /\ \A i \in D : utxos[i].satoshis \in Nat
      /\ IsFiniteSet(D)
  BY ValueLaws, PlacesSized, CoinsTyped DEF IsSum, Coin
<1>01. /\ \A i \in W : net[i] = utxos[i].satoshis * 1000 - c
       /\ \A i \in D \ W : utxos[i].satoshis * 1000 <= c
  BY DEF Worths
<1>1. {} \in Q
  <2>1. PICK S \in SUBSET D : S = {}
    OBVIOUS
  <2>2. Value(S) = 0 /\ Cardinality(S) = 0
    BY <2>1, ValueLaws, FS_EmptySet
  <2>3. Weight(S, c) = 0
    BY <2>2 DEF Weight
  <2>31. H[S \cap W] = 0
    <3>1. S \cap W = {} /\ H[{}] = 0
      BY <2>1 DEF IsSum
    <3> QED
      BY <3>1, Zenon
  <2>4. S \in Q
    BY <2>3, <2>31
  <2> QED
    BY <2>1, <2>4
<1>2. ASSUME NEW S \in SUBSET D, NEW x \in D \ S, S \in Q
      PROVE  S \cup {x} \in Q
  <2>1. PICK C \in SUBSET D : C = S \cup {x}
    OBVIOUS
  <2>2. C \ {x} = S /\ x \in C
    BY <2>1
  <2>3. Value(C) = utxos[x].satoshis + Value(S)
    <3>1. Value(C) = utxos[x].satoshis + Value(C \ {x})
      <4>1. C \in SUBSET Places
        BY <1>0, Zenon
      <4> QED
        BY <2>2, <4>1, ValueLaws
    <3> QED
      BY <2>2, <3>1, Zenon
  <2>4. Cardinality(C) = Cardinality(S) + 1
    <3>1. Cardinality(C \ {x}) = Cardinality(C) - 1 /\ Cardinality(C) \in Nat
      BY <1>0, <2>2, Sizes
    <3>2. Cardinality(C \ {x}) = Cardinality(S)
      BY <2>2, Zenon
    <3> QED
      BY <3>1, <3>2
  <2>5. /\ Cardinality(S) \in Nat /\ utxos[x].satoshis \in Nat /\ Value(S) \in Nat
        /\ H[S \cap W] \in Nat
    <3>1. x \in D
      OBVIOUS
    <3>2. utxos[x].satoshis \in Nat
      <4>1. \A i \in D : utxos[i].satoshis \in Nat
        BY <1>0
      <4> QED
        BY <3>1, <4>1
    <3>3. Cardinality(S) \in Nat /\ Value(S) \in Nat
      BY <1>0
    <3>4. H[S \cap W] \in Nat
      <4>1. PICK E \in SUBSET W : E = S \cap W
        OBVIOUS
      <4>2. H[E] \in Nat
        BY DEF IsSum
      <4> QED
        BY <4>1, <4>2, Zenon
    <3> QED
      BY <3>2, <3>3, <3>4
  <2>51. PICK n \in Nat : n = Cardinality(S)
    BY <2>5
  <2>52. PICK s \in Nat : s = utxos[x].satoshis
    BY <2>5, Zenon
  <2>53. PICK v \in Nat : v = Value(S)
    BY <2>5
  <2>54. PICK h \in Nat : h = H[S \cap W]
    BY <2>5, Zenon
  <2>6. (n + 1) * c = n * c + c /\ n * c \in Nat
    OBVIOUS
  <2>7. Weight(C, c) = 1000 * (s + v) - (n + 1) * c /\ Weight(S, c) = 1000 * v - n * c
    BY <2>3, <2>4, <2>51, <2>52, <2>53 DEF Weight
  <2>8. PICK g \in Int, e \in Int : g = Weight(C, c) /\ e = Weight(S, c) /\ g = e + 1000 * s - c
    <3>1. 1000 * v - n * c \in Int /\ 1000 * (s + v) - (n + 1) * c = (1000 * v - n * c) + 1000 * s - c
      BY <2>6
    <3> QED
      BY <2>7, <3>1
  <2>9. e <= h /\ (S \subseteq W => e = h)
    BY <1>2, <2>54, <2>8
  <2>10. CASE x \in W
    <3>1. (C \cap W) \ {x} = S \cap W /\ x \in C \cap W
      BY <2>1, <2>10
    <3>2. H[C \cap W] = net[x] + h
      <4>1. PICK E \in SUBSET W : E = C \cap W
        OBVIOUS
      <4>2. H[E] = net[x] + H[E \ {x}]
        <5>1. E \in SUBSET W /\ x \in E
          BY <3>1, <4>1
        <5> QED
          BY <5>1 DEF IsSum
      <4> QED
        BY <2>54, <3>1, <4>1, <4>2, Zenon
    <3>3. net[x] = s * 1000 - c
      BY <1>01, <2>52, <2>10
    <3>4. C \subseteq W => S \subseteq W
      BY <2>1
    <3>5. g <= H[C \cap W] /\ (C \subseteq W => g = H[C \cap W])
      BY <2>8, <2>9, <3>2, <3>3, <3>4
    <3> QED
      BY <2>1, <2>8, <3>5
  <2>11. CASE x \notin W
    <3>1. C \cap W = S \cap W /\ ~(C \subseteq W)
      BY <2>1, <2>11
    <3>2. s * 1000 <= c
      BY <1>01, <2>52, <2>11
    <3>3. g <= H[C \cap W]
      <4>1. H[C \cap W] = h
        BY <2>54, <3>1, Zenon
      <4> QED
        BY <2>8, <2>9, <3>2, <4>1
    <3> QED
      BY <2>1, <2>8, <3>1, <3>3
  <2> QED
    BY <2>10, <2>11
<1>3. SUBSET D \subseteq Q
  <2> HIDE DEF Q
  <2> QED
    BY <1>0, <1>1, <1>2, SetInduction
<1> QED
  BY <1>3

(* What getSendMaxInfo finds, if it finds coins to send. *)
LEMMA InfoIs ==
  ASSUME NEW f, SendMaxInfo(f).inputs # {}
  PROVE  LET inputs == MaxCoins({i \in Spendable(opts.confirmed) :
                                   utxos[i].satoshis * 1000 > InputSize * f})
             amount == Value(inputs) - EstimatedFee(Cardinality(inputs), f)
         IN  /\ SendMaxInfo(f).inputs = inputs /\ SendMaxInfo(f).amount = amount
             /\ ~(amount < MinOutput)
<1> DEFINE inputs == MaxCoins({i \in Spendable(opts.confirmed) :
                                 utxos[i].satoshis * 1000 > InputSize * f})
           amount == Value(inputs) - EstimatedFee(Cardinality(inputs), f)
<1>1. SendMaxInfo(f) = IF inputs = {} \/ amount < MinOutput THEN [amount |-> 0, inputs |-> {}]
                       ELSE [amount |-> amount, inputs |-> inputs]
  BY Zenon DEF SendMaxInfo
<1> HIDE DEF inputs, amount
<1>2. SendMaxInfo(f).inputs = inputs /\ SendMaxInfo(f).amount = amount /\ ~(amount < MinOutput)
  BY <1>1
<1> QED
  BY <1>2 DEF inputs, amount

(* What getSendMaxInfo finds is the most, whatever else could be chosen. *)
LEMMA MostOf ==
  ASSUME utxos \in Seq(Coin), NEW f \in Nat, SendMaxInfo(f).inputs # {},
         NEW some \in SUBSET Spendable(opts.confirmed),
         EstimatedSize(Cardinality(some)) <= MaxTxSize,
         NEW more \in {Cardinality(some), Cardinality(SendMaxInfo(f).inputs)},
         more >= Cardinality(some), more >= Cardinality(SendMaxInfo(f).inputs)
  PROVE  Value(some) - EstimatedFee(Cardinality(some), f)
           <= SendMaxInfo(f).amount + 1 + ((more * (InputSize * f)) \div (50 * 1000))
<1>1. PICK S : S = Spendable(opts.confirmed)
  OBVIOUS
<1>2. PICK c \in Nat : c = InputSize * f
  BY SizesTyped
<1>3. PICK W \in SUBSET S : W = {i \in S : utxos[i].satoshis * 1000 > c}
  OBVIOUS
<1>4. PICK G, amount : G = MaxCoins(W) /\ amount = Value(G) - EstimatedFee(Cardinality(G), f)
  OBVIOUS
<1>5. SendMaxInfo(f).inputs = G /\ SendMaxInfo(f).amount = amount /\ ~(amount < MinOutput)
  <2>1. W = {i \in Spendable(opts.confirmed) : utxos[i].satoshis * 1000 > InputSize * f}
    BY <1>1, <1>2, <1>3
  <2> QED
    BY <1>4, <2>1, InfoIs, Zenon
<1>6. /\ S \in SUBSET Places /\ W \in SUBSET Places /\ G \in SUBSET W /\ some \in SUBSET S
      /\ \A i \in S : utxos[i].satoshis \in Nat
  <2>1. S \in SUBSET Places
    BY <1>1 DEF Spendable, FreeCoins, Places
  <2>2. G \in SUBSET W
    BY <1>4, MaxCoinsIn
  <2>3. \A i \in Places : utxos[i].satoshis \in Nat
    BY CoinsTyped DEF Coin
  <2> QED
    BY <1>1, <2>1, <2>2, <2>3
<1>7. PICK net : net = [i \in W |-> utxos[i].satoshis * 1000 - c]
  OBVIOUS
<1>8. /\ net \in [W -> Nat]
      /\ \A i, j \in W : ~(utxos[i].satoshis > utxos[j].satoshis) => net[i] <= net[j]
  <2>1. ASSUME NEW i \in W
        PROVE  /\ utxos[i].satoshis \in Nat /\ net[i] = utxos[i].satoshis * 1000 - c
               /\ net[i] \in Nat
    <3>1. PICK s \in Nat : s = utxos[i].satoshis /\ s * 1000 > c
      BY <1>3, <1>6
    <3>2. net[i] = s * 1000 - c
      BY <1>7, <3>1
    <3> QED
      BY <3>1, <3>2
  <2>2. net \in [W -> Nat]
    BY <1>7, <2>1
  <2>3. ASSUME NEW i \in W, NEW j \in W, ~(utxos[i].satoshis > utxos[j].satoshis)
        PROVE  net[i] <= net[j]
    <3>1. utxos[i].satoshis \in Nat /\ utxos[j].satoshis \in Nat
      BY <2>1
    <3>2. PICK s \in Nat, r \in Nat : s = utxos[i].satoshis /\ r = utxos[j].satoshis
      BY <3>1
    <3>3. net[i] = s * 1000 - c /\ net[j] = r * 1000 - c
      BY <1>7, <3>2
    <3>4. s <= r
      BY <2>3, <3>2
    <3> QED
      BY <3>3, <3>4
  <2> QED
    BY <2>2, <2>3
<1>9. /\ IsFiniteSet(W) /\ Cardinality(W) \in Nat
      /\ Cardinality(some \cap W) \in Nat /\ Cardinality(some) \in Nat /\ Cardinality(G) \in Nat
      /\ Cardinality(some \cap W) <= Cardinality(some)
      /\ Cardinality(some \cap W) <= Cardinality(W)
      /\ Cardinality(some) = 0 <=> some = {}
  <2>1. some \in SUBSET Places /\ G \in SUBSET Places /\ some \cap W \in SUBSET Places
    BY <1>6
  <2>2. IsFiniteSet(some) /\ IsFiniteSet(W)
    BY <1>6, <2>1, PlacesSized
  <2>3. /\ Cardinality(some \cap W) <= Cardinality(some)
        /\ Cardinality(some \cap W) <= Cardinality(W)
    <3>1. some \cap W \in SUBSET some /\ some \cap W \in SUBSET W
      OBVIOUS
    <3> QED
      BY <2>2, <3>1, Sizes
  <2> QED
    BY <1>6, <2>1, <2>2, <2>3, PlacesSized
<1>10. PICK H : IsSum(H, W, net)
  BY <1>8, <1>9, SumExists
<1>11. /\ Weight(some, c) <= H[some \cap W]
       /\ Weight(G, c) = H[G]
  <2>1. Worths(S, W, net, c)
    BY <1>3, <1>6, <1>7 DEF Worths
  <2>2. \A T \in SUBSET S :
          /\ Weight(T, c) <= H[T \cap W]
          /\ T \subseteq W => Weight(T, c) = H[T \cap W]
    BY <1>6, <1>10, <2>1, Weighs
  <2>3. G \in SUBSET S /\ G \subseteq W /\ G \cap W = G
    BY <1>6
  <2>4. Weight(some, c) <= H[some \cap W]
    <3>1. PICK T \in SUBSET S : T = some
      BY <1>6
    <3>2. Weight(T, c) <= H[T \cap W]
      BY <2>2
    <3> QED
      BY <3>1, <3>2
  <2>5. Weight(G, c) = H[G \cap W]
    BY <2>2, <2>3, Zenon
  <2> QED
    BY <2>3, <2>4, <2>5, Zenon
<1>12. H[some \cap W] <= H[G]
  <2> DEFINE fit == {0} \cup {k \in 1..Cardinality(W) : SizeOf(k) <= MaxTxSize}
  <2>1. fit \in SUBSET Nat /\ fit # {} /\ \A k \in fit : k <= Cardinality(W)
    BY <1>9
  <2>2. Max(fit) \in fit /\ \A k \in fit : Max(fit) >= k
    <3> HIDE DEF fit
    <3> QED
      BY <1>9, <2>1, MaxOf
  <2>3. PICK most \in Nat : most = Max(fit)
    <3> HIDE DEF fit
    <3> QED
      BY <2>1, <2>2
  <2>4. G = Greatest(W, most)
    BY <1>4, <2>3, Zenon DEF MaxCoins
  <2>5. SizeOf(Cardinality(some \cap W)) <= MaxTxSize
    <3>1. PICK n \in Nat, k \in Nat : n = Cardinality(some) /\ k = Cardinality(some \cap W) /\ k <= n
      BY <1>9
    <3>2. PICK a \in Nat, b \in Nat, size \in Nat :
            a = size * k /\ b = size * n /\ size = InputSize
      BY SizesTyped
    <3>3. a <= b
      BY <3>1, <3>2
    <3>4. SizeOf(k) = 96 + a /\ SizeOf(n) = 96 + b /\ EstimatedSize(n) >= SizeOf(n)
          /\ EstimatedSize(n) \in Nat
      BY <3>2, EstimatedSizes
    <3>5. EstimatedSize(n) <= MaxTxSize /\ MaxTxSize \in Nat
      BY <3>1, SizesTyped
    <3> QED
      BY <3>1, <3>3, <3>4, <3>5
  <2>6. Cardinality(some \cap W) \in fit
    <3>1. PICK k \in Nat : k = Cardinality(some \cap W) /\ k <= Cardinality(W)
      BY <1>9
    <3>2. k = 0 \/ (k \in 1..Cardinality(W) /\ SizeOf(k) <= MaxTxSize)
      BY <1>9, <2>5, <3>1
    <3>3. k \in fit
      BY <3>2
    <3> QED
      BY <3>1, <3>3
  <2>7. Cardinality(some \cap W) <= most
    <3> HIDE DEF fit
    <3> QED
      BY <2>1, <2>2, <2>3, <2>6, <1>9
  <2>8. \A k \in Nat : \A A \in SUBSET W : Cardinality(A) <= k => H[A] <= H[Greatest(W, k)]
    BY <1>6, <1>8, <1>10, GreatestIsMost
  <2>9. PICK A \in SUBSET W : A = some \cap W
    OBVIOUS
  <2>10. H[A] <= H[Greatest(W, most)]
    BY <2>7, <2>8, <2>9, Zenon
  <2> QED
    BY <2>4, <2>9, <2>10, Zenon
<1>13. PICK n \in Nat, m \in Nat : n = Cardinality(some) /\ m = Cardinality(G)
  BY <1>9
<1>14. PICK v \in Nat, w \in Nat : v = Value(some) /\ w = Value(G)
  <2>1. some \in SUBSET Places /\ G \in SUBSET Places
    BY <1>6
  <2> QED
    BY <2>1, ValueLaws
<1>15. 1000 * v - n * c <= 1000 * w - m * c
  <2>1. H[some \cap W] \in Nat /\ H[G] \in Nat
    <3>1. PICK A \in SUBSET W : A = some \cap W
      OBVIOUS
    <3>2. H[A] \in Nat /\ H[G] \in Nat
      BY <1>6, <1>10 DEF IsSum
    <3> QED
      BY <3>1, <3>2, Zenon
  <2>2. 1000 * v - n * c = Weight(some, c) /\ 1000 * w - m * c = Weight(G, c)
    BY <1>13, <1>14 DEF Weight
  <2>3. PICK x \in Nat, y \in Nat : x = H[some \cap W] /\ y = H[G]
    BY <2>1
  <2>4. x <= y
    BY <1>12, <2>3, Zenon
  <2>5. Weight(some, c) <= x /\ Weight(G, c) = y
    BY <1>11, <2>3, Zenon
  <2> QED
    BY <2>2, <2>4, <2>5
<1>16. more \in {n, m} /\ more >= n /\ more >= m
  BY <1>5, <1>13
<1>17. CASE n # 0
  <2>1. InputsClose(n, m, f, v, w, more)
    BY <1>2, <1>15, <1>16, <1>17 DEF InputsClose
  <2>2. v - EstimatedFee(n, f) <= w - EstimatedFee(m, f) + 1
                                    + ((more * (InputSize * f)) \div (50 * 1000))
    BY <2>1, FeesOfInputs
  <2> QED
    BY <1>4, <1>5, <1>13, <1>14, <2>2
<1>18. CASE n = 0
  <2>1. v = 0
    BY <1>9, <1>13, <1>14, <1>18, ValueLaws
  <2>2. PICK fee \in Nat : fee = EstimatedFee(n, f)
    <3>1. PICK size \in Nat : size = EstimatedSize(n)
      BY EstimatedSizes
    <3>2. PICK all \in Nat : all = size * f
      OBVIOUS
    <3>3. (all + 500) \div 1000 \in Nat
      OBVIOUS
    <3> QED
      BY <3>1, <3>2, <3>3 DEF EstimatedFee, Round
  <2>3. PICK rest \in Nat : rest = (more * (InputSize * f)) \div (50 * 1000)
    <3>1. PICK y \in Nat : y = more * c
      BY <1>13, <1>16
    <3>2. y \div 50000 \in Nat
      BY <3>1
    <3> QED
      BY <1>2, <3>1, <3>2
  <2>4. amount \in Int /\ amount >= 0
    <3>1. EstimatedFee(m, f) \in Int
      <4>1. PICK size \in Nat : size = EstimatedSize(m)
        BY EstimatedSizes
      <4>2. PICK all \in Nat : all = size * f
        OBVIOUS
      <4> QED
        BY <4>1, <4>2 DEF EstimatedFee, Round
    <3>2. amount = w - EstimatedFee(m, f)
      BY <1>4, <1>13, <1>14, Zenon
    <3>3. MinOutput \in Nat
      BY SizesTyped
    <3> QED
      BY <1>5, <3>1, <3>2, <3>3
  <2>5. v - fee <= amount + 1 + rest
    BY <2>1, <2>4
  <2> QED
    BY <1>5, <1>13, <1>14, <2>2, <2>3, <2>5
<1> QED
  BY <1>17, <1>18

(* MaxIsMost, but for the answer. *)
MostSent ==
  \A some \in SUBSET Spendable(opts.confirmed) :
    LET n == Cardinality(some)
        more == Max({n, Cardinality(txp.inputs)})
    IN EstimatedSize(n) <= MaxTxSize =>
         Value(some) - EstimatedFee(n, opts.feePerKb)
           <= txp.amount + 1 + (more * FeePerInput) \div (50 * 1000)

(* When all is sent at a given fee, the inputs are those of getSendMaxInfo, and the
   amount is no longer changed once it is found to be one. *)
AllSent ==
  opts.sendMax /\ Given(opts.feePerKb) =>
    /\ txp.feePerKb = opts.feePerKb
    /\ step = "outputs" => txp.amount <= 0 \/ (txp.inputs # {} /\ MostSent)
    /\ step \in {"backoff", "fee", "inputs", "check"} \/ Made => txp.inputs # {} /\ MostSent
    /\ step # "group"

MaxInv == SelectionInv /\ AllSent

(* Whether the most is sent depends on nothing but the coins, the options and the
   proposal. *)
LEMMA MostStays ==
  ASSUME UNCHANGED <<utxos, opts>>, txp'.amount = txp.amount, txp'.feePerKb = txp.feePerKb,
         txp'.inputs = txp.inputs
  PROVE  MostSent' <=> MostSent
<1>1. \A S : Value(S)' = Value(S)
  BY Steady
<1>2. Spendable(opts.confirmed)' = Spendable(opts.confirmed)
  BY DEF Spendable, FreeCoins
<1>3. FeePerInput' = FeePerInput
  BY DEF FeePerInput
<1> QED
  BY <1>1, <1>2, <1>3 DEF MostSent, EstimatedFee, EstimatedSize, Round

(* Nothing is sent at first. *)
LEMMA MaxBegins ==
  ASSUME SelectionInit
  PROVE  MaxInv
<1>1. step = "validate" /\ txp.feePerKb = opts.feePerKb /\ ~Made
  BY DEF SelectionInit, Made
<1> QED
  BY <1>1, SelectionBegins DEF MaxInv, AllSent

(* The greater of two. *)
LEMMA MaxOfTwo ==
  ASSUME NEW a \in Nat, NEW b \in Nat
  PROVE  Max({a, b}) \in {a, b} /\ Max({a, b}) >= a /\ Max({a, b}) >= b
<1>1. PICK S \in SUBSET Nat : S = {a, b}
  OBVIOUS
<1>2. \A y \in S : y <= a + b
  BY <1>1
<1>3. Max(S) \in S /\ \A y \in S : Max(S) >= y
  <2>1. a + b \in Nat /\ S # {}
    BY <1>1
  <2> QED
    BY <1>2, <2>1, MaxOf
<1> QED
  BY <1>1, <1>3

(* What is found to be sent is the most. *)
LEMMA MaxFound ==
  ASSUME MaxInv, SendMax, Given(opts.feePerKb), txp'.inputs # {}
  PROVE  MostSent'
<1>1. PICK f : f = opts.feePerKb
  OBVIOUS
<1>2. /\ txp' = [txp EXCEPT !.amount = SendMaxInfo(f).amount, !.inputs = SendMaxInfo(f).inputs]
      /\ UNCHANGED <<utxos, opts>> /\ step = "maxFee"
  BY <1>1, Zenon DEF SendMax, Keep, Turn
<1>3. /\ utxos \in Seq(Coin) /\ f \in Nat /\ opts.sendMax /\ txp.feePerKb = f
      /\ txp \in [amount : Int, feePerKb : Int, inputs : SUBSET (1..Len(utxos)), fee : Int]
  BY <1>1, <1>2 DEF MaxInv, AllSent, SelectionInv, SelectionTypeOK, Options, Given
<1>4. PICK G, amount : G = SendMaxInfo(f).inputs /\ amount = SendMaxInfo(f).amount
  OBVIOUS
<1>5. txp'.inputs = G /\ txp'.amount = amount /\ txp'.feePerKb = f /\ G # {}
  BY <1>2, <1>3, <1>4
<1>6. ASSUME NEW some \in SUBSET Spendable(opts.confirmed),
             EstimatedSize(Cardinality(some)) <= MaxTxSize
      PROVE  Value(some) - EstimatedFee(Cardinality(some), f)
               <= amount + 1 + (Max({Cardinality(some), Cardinality(G)}) * (InputSize * f))
                                 \div (50 * 1000)
  <2>1. Cardinality(some) \in Nat /\ Cardinality(G) \in Nat
    <3>1. some \in SUBSET Places
      BY DEF Spendable, FreeCoins, Places
    <3>2. G \in SUBSET Places
      <4>1. PICK W : W = {i \in Spendable(opts.confirmed) :
                            utxos[i].satoshis * 1000 > InputSize * f}
        OBVIOUS
      <4>2. G = MaxCoins(W)
        <5>1. SendMaxInfo(f).inputs # {}
          BY <1>4, <1>5
        <5>2. SendMaxInfo(f).inputs = MaxCoins({i \in Spendable(opts.confirmed) :
                                                  utxos[i].satoshis * 1000 > InputSize * f})
          BY <5>1, InfoIs, Zenon
        <5> QED
          BY <1>4, <4>1, <5>2, Zenon
      <4>3. W \subseteq Places
        BY <4>1 DEF Spendable, FreeCoins, Places
      <4>4. G \subseteq W
        BY <4>2, MaxCoinsIn
      <4> QED
        BY <4>3, <4>4
    <3> QED
      BY <1>3, <3>1, <3>2, PlacesSized
  <2>2. PICK more : more = Max({Cardinality(some), Cardinality(G)})
    OBVIOUS
  <2>3. more \in {Cardinality(some), Cardinality(G)} /\ more >= Cardinality(some)
        /\ more >= Cardinality(G)
    BY <2>1, <2>2, MaxOfTwo
  <2> QED
    BY <1>3, <1>4, <1>5, <1>6, <2>2, <2>3, MostOf
<1>7. ASSUME NEW S
      PROVE  Value(S)' = Value(S)
  BY <1>2 DEF Value, MapThenSumSet, MapThenFoldSet
<1>8. /\ Spendable(opts.confirmed)' = Spendable(opts.confirmed)
      /\ FeePerInput' = InputSize * f /\ opts'.feePerKb = f
  BY <1>1, <1>2, <1>5 DEF Spendable, FreeCoins, FeePerInput
<1>9. MostSent' <=>
        \A some \in SUBSET Spendable(opts.confirmed) :
          EstimatedSize(Cardinality(some)) <= MaxTxSize =>
            Value(some) - EstimatedFee(Cardinality(some), f)
              <= amount + 1 + (Max({Cardinality(some), Cardinality(G)}) * (InputSize * f))
                                \div (50 * 1000)
  BY <1>5, <1>7, <1>8 DEF MostSent, EstimatedFee, EstimatedSize, Round
<1> QED
  BY <1>6, <1>9, Zenon

(* No step changes what getSendMaxInfo has found, when the fee per kB is given. *)
LEMMA MaxStep ==
  ASSUME MaxInv, [SelectionNext]_selectionVars
  PROVE  MaxInv'
<1>0. SelectionInv /\ AllSent /\ SelectionInv'
  BY SelectionStep DEF MaxInv
<1>1. UNCHANGED <<utxos, opts>>
  <2>1. ASSUME UNCHANGED selectionVars
        PROVE  UNCHANGED <<utxos, opts>>
    BY <2>1 DEF selectionVars
  <2>2. ASSUME SelectionNext
        PROVE  UNCHANGED <<utxos, opts>>
    <3>1. ASSUME LevelsExpire \/ SelectGroup
          PROVE  UNCHANGED <<utxos, opts>>
      BY <3>1, Zenon DEF LevelsExpire, SelectGroup
    <3>2. ASSUME Keep
          PROVE  UNCHANGED <<utxos, opts>>
      BY <3>2, Zenon DEF Keep
    <3>3. ASSUME Validate \/ SendMax \/ ValidateOutputs \/ CanCreateTx \/ GetFeePerKb
          PROVE  Keep
      BY <3>3, Zenon DEF Validate, SendMax, ValidateOutputs, CanCreateTx, GetFeePerKb
    <3>4. ASSUME TakeInputs \/ EndSelection \/ CheckTx
          PROVE  Keep
      BY <3>4, Zenon DEF TakeInputs, EndSelection, CheckTx
    <3>5. ASSUME TakeAddress \/ CheckFunds
          PROVE  Keep
      BY <3>5 DEF TakeAddress, CheckFunds
    <3> QED
      BY <2>2, <3>1, <3>2, <3>3, <3>4, <3>5, Zenon DEF SelectionNext
  <2> QED
    BY <2>1, <2>2
<1>2. SUFFICES ASSUME opts.sendMax, Given(opts.feePerKb)
               PROVE  /\ txp'.feePerKb = opts.feePerKb
                      /\ step' = "outputs" => txp'.amount <= 0 \/ (txp'.inputs # {} /\ MostSent')
                      /\ step' \in {"backoff", "fee", "inputs", "check"} \/ Made'
                           => txp'.inputs # {} /\ MostSent'
                      /\ step' # "group"
  BY <1>0, <1>1 DEF MaxInv, AllSent
<1>3. /\ txp.feePerKb = opts.feePerKb /\ step # "group"
      /\ step = "outputs" => txp.amount <= 0 \/ (txp.inputs # {} /\ MostSent)
      /\ step \in {"backoff", "fee", "inputs", "check"} \/ Made => txp.inputs # {} /\ MostSent
  BY <1>0, <1>2 DEF AllSent
<1>4. ASSUME txp'.amount = txp.amount, txp'.feePerKb = txp.feePerKb, txp'.inputs = txp.inputs
      PROVE  MostSent' <=> MostSent
  BY <1>1, <1>4, MostStays
<1>5. CASE LevelsExpire \/ UNCHANGED selectionVars
  <2>1. UNCHANGED <<step, txp, error>>
    BY <1>5 DEF LevelsExpire, selectionVars
  <2>2. Made' <=> Made
    BY <2>1 DEF Made
  <2>3. MostSent' <=> MostSent
    BY <1>4, <2>1
  <2> QED
    BY <1>3, <2>1, <2>2, <2>3
<1>6. CASE Validate
  <2>1. step' \in {"maxFee", "done"} /\ (step' = "done" => error' = "OPTIONS") /\ UNCHANGED txp
    BY <1>2, <1>6 DEF Validate, Refuse, Go
  <2> QED
    BY <1>3, <2>1 DEF Made
<1>7. CASE SendMax
  <2>1. PICK f : f = opts.feePerKb
    OBVIOUS
  <2>2. /\ txp' = [txp EXCEPT !.amount = SendMaxInfo(f).amount, !.inputs = SendMaxInfo(f).inputs]
        /\ step' = "outputs"
    BY <1>2, <1>7, <2>1, Zenon DEF SendMax, Go
  <2>3. txp \in [amount : Int, feePerKb : Int, inputs : SUBSET (1..Len(utxos)), fee : Int]
    BY <1>0 DEF SelectionInv, SelectionTypeOK
  <2>4. /\ txp'.amount = SendMaxInfo(f).amount /\ txp'.inputs = SendMaxInfo(f).inputs
        /\ txp'.feePerKb = txp.feePerKb
    BY <2>2, <2>3
  <2>5. SendMaxInfo(f).inputs = {} => SendMaxInfo(f).amount = 0
    BY DEF SendMaxInfo
  <2>6. txp'.inputs # {} => MostSent'
    BY <1>2, <1>7, MaxFound
  <2>7. ~Made'
    BY <2>2 DEF Made
  <2> QED
    BY <1>3, <2>2, <2>4, <2>5, <2>6, <2>7
<1>8. CASE ValidateOutputs
  <2>1. /\ step = "outputs" /\ UNCHANGED txp
        /\ \/ step' = "done" /\ error' # "none"
           \/ step' = "backoff" /\ txp.amount > 0
    BY <1>8 DEF ValidateOutputs, Turn, Refuse, Go
  <2>2. MostSent' <=> MostSent
    BY <1>4, <2>1
  <2>3. txp.amount \in Int
    BY <1>0 DEF SelectionInv, SelectionTypeOK
  <2> QED
    BY <1>3, <2>1, <2>2, <2>3 DEF Made
<1>9. CASE CanCreateTx \/ GetFeePerKb
  <2>1. /\ step \in {"backoff", "fee"} /\ UNCHANGED txp
        /\ (step' = "done" /\ error' # "none") \/ step' \in {"fee", "inputs"}
    BY <1>2, <1>9 DEF CanCreateTx, GetFeePerKb, Turn, Refuse, Go
  <2>2. MostSent' <=> MostSent
    BY <1>4, <2>1
  <2> QED
    BY <1>3, <2>1, <2>2 DEF Made
<1>10. CASE TakeInputs
  <2>1. step = "inputs" /\ step' = "check" /\ txp' = [txp EXCEPT !.fee = txp'.fee]
    BY <1>10 DEF TakeInputs, Turn, Go
  <2>2. /\ txp'.amount = txp.amount /\ txp'.feePerKb = txp.feePerKb /\ txp'.inputs = txp.inputs
    BY <1>10 DEF TakeInputs
  <2>3. MostSent' <=> MostSent
    BY <1>4, <2>2
  <2> QED
    BY <1>3, <2>1, <2>2, <2>3 DEF Made
<1>11. CASE TakeAddress \/ CheckFunds \/ SelectGroup \/ EndSelection
  <2>1. (step = "inputs" /\ txp.inputs = {}) \/ step = "group"
    <3>1. CASE TakeAddress \/ CheckFunds
      BY <3>1 DEF TakeAddress, CheckFunds, Turn
    <3>2. CASE SelectGroup \/ EndSelection
      BY <3>2, Zenon DEF SelectGroup, EndSelection, Turn
    <3> QED
      BY <1>11, <3>1, <3>2
  <2> QED
    BY <1>3, <2>1
<1>12. CASE CheckTx
  <2>1. step = "check" /\ step' = "done" /\ UNCHANGED txp
    BY <1>12 DEF CheckTx, Turn, Refuse
  <2>2. MostSent' <=> MostSent
    BY <1>4, <2>1
  <2> QED
    BY <1>3, <2>1, <2>2
<1> QED
  BY <1>5, <1>6, <1>7, <1>8, <1>9, <1>10, <1>11, <1>12, Zenon DEF SelectionNext

(* When everything is sent at a given fee per kB, no other choice of spendable coins
   that fits in a transaction sends more, but for a satoshi and the rounding of the
   sizes (MaxIsMost): server.js:1601-1711, getSendMaxInfo. *)
THEOREM MaxSent ==
  SelectionSpec => []MaxIsMost
<1>1. SelectionInit => MaxInv
  BY MaxBegins
<1>2. MaxInv /\ [SelectionNext]_selectionVars => MaxInv'
  BY MaxStep
<1>3. MaxInv => MaxIsMost
  BY Zenon DEF MaxInv, AllSent, MostSent, MaxIsMost
<1> QED
  BY <1>1, <1>2, <1>3, PTL DEF SelectionSpec

-----------------------------------------------------------------------------
(* CoinSelection: funds. *)

(* No choice of these coins would do in a transaction that fits. *)
NoWay(coins) ==
  \A some \in SUBSET coins : EstimatedSize(Cardinality(some)) <= MaxTxSize => ~Enough(some)

(* The coins, the amount and the fee per kB of a selection. *)
CoinsAsked ==
  /\ utxos \in Seq(Coin)
  /\ txp.amount \in Nat \ {0} /\ txp.feePerKb \in Nat /\ txp.fee \in Int

(* The fee of coins is that of the transaction and that of each coin, which is no
   smaller. *)
LEMMA NetIsWeight ==
  ASSUME CoinsAsked, NEW S \in SUBSET Places
  PROVE  \E c \in Nat, base \in Nat :
           /\ c = FeePerInput /\ base = BaseSize * txp.feePerKb /\ base <= c
           /\ Net(S) = Weight(S, c) - base
           /\ FeeOf(Cardinality(S)) = base + Cardinality(S) * c
           /\ Cardinality(S) * c \in Nat
<1>1. PICK f \in Nat : f = txp.feePerKb
  BY DEF CoinsAsked
<1>2. PICK c \in Nat, base \in Nat : c = FeePerInput /\ base = BaseSize * txp.feePerKb /\ base <= c
  <2>1. PICK size \in Nat : size = InputSize /\ size >= 100 /\ BaseSize = 96
    BY SizesTyped
  <2>2. PICK e \in Nat : size = 96 + e
    <3>1. size - 96 \in Nat /\ size = 96 + (size - 96)
      BY <2>1
    <3> QED
      BY <3>1
  <2>3. (96 + e) * f = 96 * f + e * f /\ e * f \in Nat /\ 96 * f \in Nat
    OBVIOUS
  <2>4. size * f \in Nat /\ 96 * f <= size * f
    BY <2>2, <2>3
  <2> QED
    BY <1>1, <2>1, <2>3, <2>4 DEF FeePerInput
<1>3. PICK n \in Nat, v \in Nat : n = Cardinality(S) /\ v = Value(S)
  BY PlacesSized, ValueLaws DEF CoinsAsked
<1>4. PICK w \in Nat : w = n * c
  OBVIOUS
<1>5. FeeOf(Cardinality(S)) = base + w
  BY <1>2, <1>3, <1>4 DEF FeeOf
<1>6. Net(S) = v * 1000 - (base + w)
  BY <1>3, <1>5 DEF Net
<1>7. Weight(S, c) = 1000 * v - w
  BY <1>3, <1>4 DEF Weight
<1>8. Net(S) = Weight(S, c) - base
  BY <1>6, <1>7
<1> QED
  BY <1>2, <1>3, <1>4, <1>5, <1>8

(* What each of the coins adds, with its fee c, and what they leave together of the
   fee base of the transaction. *)
Nets(C, net, H, c, base) ==
  /\ c \in Nat /\ base \in Nat /\ base <= c
  /\ c = FeePerInput /\ base = BaseSize * txp.feePerKb
  /\ IsSum(H, C, net)
  /\ \A i \in C : net[i] = utxos[i].satoshis * 1000 - c
  /\ \A S \in SUBSET C : Net(S) = H[S] - base

LEMMA NetsAdded ==
  ASSUME CoinsAsked, NEW C, C \subseteq Eligible
  PROVE  \E net, H, c, base : Nets(C, net, H, c, base)
<1>1. C \in SUBSET Places /\ utxos \in Seq(Coin)
  BY EligibleIn DEF CoinsAsked
<1>2. PICK c \in Nat, base \in Nat : /\ c = FeePerInput /\ base = BaseSize * txp.feePerKb
                                     /\ base <= c
  BY <1>1, NetIsWeight
<1>3. \A S \in SUBSET C : Net(S) = Weight(S, c) - base
  BY <1>1, <1>2, NetIsWeight
<1>4. PICK net : net = [i \in C |-> utxos[i].satoshis * 1000 - c]
  OBVIOUS
<1>5. \A i \in C : net[i] = utxos[i].satoshis * 1000 - c
  BY <1>4
<1>6. net \in [C -> Nat]
  <2>1. ASSUME NEW i \in C
        PROVE  net[i] \in Nat
    <3>1. utxos[i].satoshis \in Nat
      BY <1>1, CoinsTyped DEF Coin
    <3>2. utxos[i].satoshis * 1000 > c
      BY <1>2 DEF Eligible
    <3>3. PICK s \in Nat : s = utxos[i].satoshis
      BY <3>1
    <3>4. s * 1000 > c /\ net[i] = s * 1000 - c
      BY <1>5, <3>2, <3>3
    <3> QED
      BY <3>4
  <2> QED
    BY <1>4, <2>1
<1>7. PICK H : IsSum(H, C, net)
  BY <1>1, <1>6, SumExists, PlacesSized
<1>8. Worths(C, C, net, c)
  <2>1. (\A i \in C \ C : utxos[i].satoshis * 1000 <= c) /\ C \in SUBSET C /\ c \in Nat
    OBVIOUS
  <2> QED
    BY <1>1, <1>5, <2>1 DEF Worths
<1>9. ASSUME NEW S \in SUBSET C
      PROVE  Net(S) = H[S] - base
  <2>1. \A T \in SUBSET C :
          /\ Weight(T, c) <= H[T \cap C]
          /\ T \subseteq C => Weight(T, c) = H[T \cap C]
    BY <1>1, <1>7, <1>8, Weighs
  <2>2. Weight(S, c) = H[S \cap C] /\ S \cap C = S
    BY <2>1
  <2> QED
    BY <1>3, <2>2, Zenon
<1> QED
  BY <1>2, <1>5, <1>7, <1>9 DEF Nets

(* More of the coins worth their fee leave more. *)
LEMMA NetGrows ==
  ASSUME CoinsAsked, NEW C, C \subseteq Eligible, NEW S \in SUBSET C
  PROVE  Net(S) <= Net(C) /\ Net(S) \in Int /\ Net(C) \in Int
<1>1. PICK net, H, c, base : Nets(C, net, H, c, base)
  BY NetsAdded
<1>2. H[S] <= H[C] /\ H[S] \in Nat /\ H[C] \in Nat
  <2>0. IsSum(H, C, net)
    BY <1>1 DEF Nets
  <2>1. \A B \in SUBSET C : \A A \in SUBSET B : H[A] <= H[B]
    BY <2>0, SumGrows, Zenon
  <2>2. H \in [SUBSET C -> Nat]
    BY <1>1 DEF Nets, IsSum
  <2>3. C \in SUBSET C
    OBVIOUS
  <2>4. \A A \in SUBSET C : H[A] <= H[C]
    BY <2>1, <2>3, Zenon
  <2>5. H[S] <= H[C]
    BY <2>4, Zenon
  <2> QED
    BY <2>2, <2>3, <2>5
<1>3. Net(S) = H[S] - base /\ Net(C) = H[C] - base /\ base \in Nat
  BY <1>1 DEF Nets
<1> QED
  BY <1>2, <1>3

(* No other coins, no more of them, leave more than the greatest. *)
LEMMA GreatestPay ==
  ASSUME CoinsAsked, NEW C, C \subseteq Eligible, NEW k \in Nat, ~Enough(Greatest(C, k)),
         NEW S \in SUBSET C, Cardinality(S) <= k
  PROVE  ~Enough(S)
<1>1. C \in SUBSET Places /\ utxos \in Seq(Coin)
  BY EligibleIn DEF CoinsAsked
<1>2. PICK net, H, c, base : Nets(C, net, H, c, base)
  BY NetsAdded
<1>3. ASSUME NEW i \in C, NEW j \in C, ~(utxos[i].satoshis > utxos[j].satoshis)
      PROVE  net[i] <= net[j]
  <2>1. PICK s \in Nat, t \in Nat : s = utxos[i].satoshis /\ t = utxos[j].satoshis
    BY <1>1, CoinsTyped DEF Coin
  <2>2. c \in Nat /\ net[i] = s * 1000 - c /\ net[j] = t * 1000 - c
    BY <1>2, <2>1 DEF Nets
  <2> QED
    BY <1>3, <2>1, <2>2
<1>4. IsSum(H, C, net)
  BY <1>2 DEF Nets
<1>5. \A n \in Nat : \A A \in SUBSET C : Cardinality(A) <= n => H[A] <= H[Greatest(C, n)]
  BY <1>1, <1>3, <1>4, GreatestIsMost
<1>6. PICK G \in SUBSET C : G = Greatest(C, k)
  BY DEF Greatest
<1>7. H[S] <= H[G] /\ H[S] \in Nat /\ H[G] \in Nat
  <2>1. H \in [SUBSET C -> Nat]
    BY <1>4 DEF IsSum
  <2> QED
    BY <1>5, <1>6, <2>1
<1>8. Net(S) = H[S] - base /\ Net(G) = H[G] - base /\ base \in Nat
  BY <1>2 DEF Nets
<1>9. txp.amount \in Nat
  BY DEF CoinsAsked
<1>10. ~Enough(G)
  BY <1>6, Zenon
<1> QED
  BY <1>7, <1>8, <1>9, <1>10 DEF Enough

(* Coins that each add at least x add as many times x. *)
LEMMA SumAtLeast ==
  ASSUME NEW D, NEW v, NEW F, IsSum(F, D, v), NEW x \in Nat
  PROVE  \A S \in SUBSET D : (\A i \in S : v[i] >= x) => F[S] >= Cardinality(S) * x
<1> DEFINE Q == {S \in SUBSET D : (\A i \in S : v[i] >= x) => F[S] >= Cardinality(S) * x}
<1>0. IsFiniteSet(D) /\ \A A \in SUBSET D : F[A] \in Nat
  BY DEF IsSum
<1>1. {} \in Q
  <2>1. PICK E \in SUBSET D : E = {}
    OBVIOUS
  <2>2. F[E] = 0 /\ Cardinality(E) = 0
    BY <2>1, FS_EmptySet DEF IsSum
  <2>3. 0 >= 0 * x
    OBVIOUS
  <2>4. E \in Q
    BY <2>2, <2>3
  <2> QED
    BY <2>1, <2>4
<1>2. ASSUME NEW S \in SUBSET D, NEW y \in D \ S, S \in Q
      PROVE  S \cup {y} \in Q
  <2>1. PICK T \in SUBSET D : T = S \cup {y}
    OBVIOUS
  <2>2. F[T] = v[y] + F[S] /\ v[y] \in Nat
    <3>1. T \ {y} = S /\ y \in T
      BY <2>1
    <3> QED
      BY <2>1, <3>1 DEF IsSum
  <2>3. Cardinality(S) \in Nat /\ Cardinality(T) = Cardinality(S) + 1
    BY <1>0, <2>1, FS_AddElement, FS_Subset, FS_CardinalityType
  <2>4. ASSUME \A i \in T : v[i] >= x
        PROVE  F[T] >= Cardinality(T) * x
    <3>1. PICK n \in Nat : n = Cardinality(S)
      BY <2>3
    <3>2. F[S] >= n * x /\ v[y] >= x
      BY <1>2, <2>1, <2>4, <3>1
    <3>3. (n + 1) * x = n * x + x /\ n * x \in Nat
      OBVIOUS
    <3>4. F[S] \in Nat
      BY <1>0
    <3>5. F[T] >= (n + 1) * x
      BY <2>2, <3>2, <3>3, <3>4
    <3> QED
      BY <2>3, <3>1, <3>5
  <2> QED
    BY <2>1, <2>4
<1>3. SUBSET D \subseteq Q
  <2> HIDE DEF Q
  <2> QED
    BY <1>0, <1>1, <1>2, SetInduction
<1> QED
  BY <1>3

(* All of a set of coins are among its greatest, *)
LEMMA GreatestAreAll ==
  ASSUME utxos \in Seq(Coin), NEW C \in SUBSET Places
  PROVE  Greatest(C, Cardinality(C)) = C
<1>1. ASSUME NEW x \in C
      PROVE  Cardinality(Before(C, x)) < Cardinality(C)
  <2>1. Before(C, x) \in SUBSET (C \ {x}) /\ Cardinality(Before(C, x)) \in Nat
    BY Ranks
  <2>2. IsFiniteSet(C) /\ Cardinality(C) \in Nat
    BY PlacesSized
  <2>3. Cardinality(C \ {x}) = Cardinality(C) - 1 /\ IsFiniteSet(C \ {x})
    BY <2>2, Sizes
  <2>4. Cardinality(Before(C, x)) <= Cardinality(C \ {x})
    BY <2>1, <2>3, FS_Subset
  <2> QED
    BY <2>1, <2>2, <2>3, <2>4
<1> QED
  BY <1>1 DEF Greatest

(* ... and its greatest k are k. *)
LEMMA GreatestCounted ==
  ASSUME utxos \in Seq(Coin), NEW C \in SUBSET Places
  PROVE  \A k \in 0..Cardinality(C) : Cardinality(Greatest(C, k)) = k
<1> DEFINE P == {k \in Nat : k <= Cardinality(C) => Cardinality(Greatest(C, k)) = k}
<1>0. IsFiniteSet(C) /\ Cardinality(C) \in Nat /\ \A k \in Nat : Greatest(C, k) \in SUBSET C
  BY PlacesSized DEF Greatest
<1>1. 0 \in P
  <2>1. ASSUME NEW x \in C PROVE ~(Cardinality(Before(C, x)) < 0)
    <3>1. Cardinality(Before(C, x)) \in Nat
      BY Ranks
    <3> QED
      BY <3>1
  <2>2. Greatest(C, 0) = {}
    BY <2>1 DEF Greatest
  <2>3. Cardinality(Greatest(C, 0)) = 0
    BY <2>2, FS_EmptySet
  <2> QED
    BY <2>3
<1>2. ASSUME NEW k \in Nat, k \in P
      PROVE  k + 1 \in P
  <2>1. SUFFICES ASSUME k + 1 <= Cardinality(C)
                 PROVE  Cardinality(Greatest(C, k + 1)) = k + 1
    OBVIOUS
  <2>2. Cardinality(Greatest(C, k)) = k
    BY <1>0, <1>2, <2>1
  <2>3. Greatest(C, k) # C
    BY <1>0, <2>1, <2>2
  <2>4. PICK x \in C \ Greatest(C, k) : Greatest(C, k + 1) = Greatest(C, k) \cup {x}
    <3>1. Cardinality(Greatest(C, k)) <= k
      BY <2>2
    <3>2. \E x \in C \ Greatest(C, k) :
            /\ Greatest(C, k + 1) = Greatest(C, k) \cup {x}
            /\ Cardinality(Before(C, x)) = k
            /\ Cardinality(Greatest(C, k)) = k
      BY <2>3, <3>1, NextGreatest
    <3> QED
      BY <3>2
  <2>5. PICK G \in SUBSET C : G = Greatest(C, k)
    BY <1>0
  <2>6. IsFiniteSet(G)
    BY <1>0, FS_Subset
  <2>7. Cardinality(G \cup {x}) = Cardinality(G) + 1
    BY <2>4, <2>5, <2>6, FS_AddElement
  <2> QED
    BY <2>2, <2>4, <2>5, <2>7
<1>3. Nat \subseteq P
  <2> HIDE DEF P
  <2> QED
    BY <1>1, <1>2, Induction
<1> QED
  BY <1>0, <1>3

(* The k-th of the coins is one of the greatest k, and the least of them. *)
LEMMA NthIsLeast ==
  ASSUME utxos \in Seq(Coin), NEW C \in SUBSET Places, NEW k \in 1..Cardinality(C)
  PROVE  /\ NthGreatest(C, k) \in Greatest(C, k)
         /\ \A j \in Greatest(C, k) : utxos[j].satoshis >= utxos[NthGreatest(C, k)].satoshis
<1>1. PICK n \in Nat, m \in Nat : n = Cardinality(C) /\ k = m + 1 /\ m < n /\ k <= n
  <2>1. Cardinality(C) \in Nat
    BY PlacesSized
  <2>2. k - 1 \in Nat /\ k = (k - 1) + 1 /\ k - 1 < Cardinality(C)
    BY <2>1
  <2> QED
    BY <2>1, <2>2
<1>2. Cardinality(Greatest(C, m)) = m /\ Greatest(C, m) # C
  <2>1. Cardinality(Greatest(C, m)) = m
    BY <1>1, GreatestCounted
  <2> QED
    BY <1>1, <2>1
<1>3. \E x \in C : Cardinality(Before(C, x)) = k - 1
  <2>1. PICK x \in C \ Greatest(C, m) : Cardinality(Before(C, x)) = m
    <3>1. Cardinality(Greatest(C, m)) <= m
      BY <1>2
    <3>2. \E x \in C \ Greatest(C, m) :
            /\ Greatest(C, m + 1) = Greatest(C, m) \cup {x}
            /\ Cardinality(Before(C, x)) = m
            /\ Cardinality(Greatest(C, m)) = m
      BY <1>2, <3>1, NextGreatest
    <3> QED
      BY <3>2
  <2> QED
    BY <1>1, <2>1
<1>4. PICK i \in C : i = NthGreatest(C, k) /\ Cardinality(Before(C, i)) = k - 1
  BY <1>3 DEF NthGreatest
<1>5. i \in Greatest(C, k)
  BY <1>1, <1>4 DEF Greatest
<1>6. ASSUME NEW j \in Greatest(C, k)
      PROVE  utxos[j].satoshis >= utxos[i].satoshis
  <2>1. j \in C /\ Cardinality(Before(C, j)) < k /\ Cardinality(Before(C, j)) \in Nat
    BY Ranks DEF Greatest
  <2>2. i \notin Before(C, j)
    <3>1. ASSUME i \in Before(C, j)
          PROVE  Cardinality(Before(C, i)) < Cardinality(Before(C, j))
      BY <2>1, <3>1, Ranks
    <3> QED
      BY <1>1, <1>4, <2>1, <3>1
  <2>3. j = i \/ j \in Before(C, i)
    BY <1>4, <2>1, <2>2, Ranks
  <2>4. utxos[j].satoshis \in Nat /\ utxos[i].satoshis \in Nat
    BY <1>4, <2>1, CoinsTyped DEF Coin
  <2> QED
    BY <2>3, <2>4 DEF Before
<1> QED
  BY <1>4, <1>5, <1>6

(* Coins that each add at least a share of the amount, without being enough, and whose
   fee is no high one, are few: the fee of a transaction without coins is at most the
   amount, or at most the fee of each coin and a high one. *)
FewCoins(m, a, x, sum, base, c, fee) ==
  /\ m \in Nat \ {0} /\ a \in Nat \ {0} /\ x \in Nat /\ sum \in Nat
  /\ base \in Nat /\ c \in Nat /\ base <= c
  /\ fee = Round(base + m * c)
  /\ x * ShareDivisor >= a * 1000
  /\ sum >= m * x /\ sum - base < a * 1000
  /\ fee * FeeDivisor <= a \/ fee * 1000 <= SingleFactor * (base + c)

LEMMA FewAreTaken ==
  ASSUME NEW m, NEW a, NEW x, NEW sum, NEW base, NEW c, NEW fee,
         FewCoins(m, a, x, sum, base, c, fee)
  PROVE  m < 2 * ShareDivisor \/ m < 2 * SingleFactor
<1>0. /\ m \in Nat \ {0} /\ a \in Nat \ {0} /\ x \in Nat /\ sum \in Nat
      /\ base \in Nat /\ c \in Nat /\ base <= c
  BY DEF FewCoins
<1>1. PICK share \in Nat, single \in Nat, part \in Nat :
        share = ShareDivisor /\ single = SingleFactor /\ FeeDivisor = part + 1
  <2>1. {ShareDivisor, FeeDivisor, SingleFactor} \subseteq Nat \ {0}
    BY CoinSelectionAssumption
  <2>2. FeeDivisor - 1 \in Nat /\ FeeDivisor = (FeeDivisor - 1) + 1
    BY <2>1
  <2> QED
    BY <2>1, <2>2
<1>2. CASE base <= a * 1000
  <2>1. SUFFICES ASSUME m >= 2 * share
                 PROVE  FALSE
    BY <1>0, <1>1
  <2>2. PICK d \in Nat : m = share + share + d
    <3>1. m - (share + share) \in Nat /\ m = share + share + (m - (share + share))
      BY <1>0, <2>1
    <3> QED
      BY <3>1
  <2>3. PICK p \in Nat, q \in Nat : p = x * share /\ q = d * x /\ m * x = p + p + q
    <3>1. (share + share + d) * x = x * share + x * share + d * x
      BY <1>0
    <3>2. x * share \in Nat /\ d * x \in Nat
      BY <1>0
    <3> QED
      BY <2>2, <3>1, <3>2
  <2>4. p >= a * 1000 /\ sum >= p + p + q /\ sum - base < a * 1000
    BY <1>1, <2>3 DEF FewCoins
  <2> QED
    BY <1>0, <1>2, <2>3, <2>4
<1>3. CASE ~(base <= a * 1000)
  <2>1. PICK w \in Nat : w = m * c /\ w >= c
    <3>1. m - 1 \in Nat /\ m = (m - 1) + 1
      BY <1>0
    <3>2. PICK e \in Nat : m = e + 1
      BY <3>1
    <3>3. (e + 1) * c = e * c + c /\ e * c \in Nat
      BY <1>0
    <3>4. (e + 1) * c \in Nat /\ (e + 1) * c >= c
      BY <1>0, <3>3
    <3> QED
      BY <3>2, <3>4
  <2>2. fee = (base + w + 500) \div 1000
    BY <1>0, <2>1 DEF FewCoins, Round
  <2>3. fee \in Nat /\ fee * 1000 >= base + w - 499
    BY <1>0, <2>2
  <2>4. fee > a
    BY <1>0, <1>3, <2>1, <2>3
  <2>5. ~(fee * FeeDivisor <= a)
    <3>1. fee * (part + 1) = fee * part + fee /\ fee * part \in Nat
      BY <2>3
    <3>2. fee * (part + 1) > a
      BY <1>0, <2>3, <2>4, <3>1
    <3>3. fee * (part + 1) \in Nat
      BY <2>3
    <3>4. ~(fee * (part + 1) <= a)
      BY <1>0, <3>2, <3>3
    <3> QED
      BY <1>1, <3>4
  <2>6. fee * 1000 <= single * (base + c)
    BY <1>1, <2>5 DEF FewCoins
  <2>7. SUFFICES ASSUME m >= 2 * single
                 PROVE  FALSE
    BY <1>0, <1>1
  <2>8. PICK d \in Nat : m = single + single + d
    <3>1. m - (single + single) \in Nat /\ m = single + single + (m - (single + single))
      BY <1>0, <2>7
    <3> QED
      BY <3>1
  <2>9. PICK p \in Nat, q \in Nat : p = single * c /\ q = d * c /\ w = p + p + q
    <3>1. (single + single + d) * c = single * c + single * c + d * c
      BY <1>0
    <3>2. single * c \in Nat /\ d * c \in Nat
      BY <1>0
    <3> QED
      BY <2>1, <2>8, <3>1, <3>2
  <2>10. single * (base + c) <= p + p
    <3>1. PICK e \in Nat : c = base + e
      <4>1. c - base \in Nat /\ c = base + (c - base)
        BY <1>0
      <4> QED
        BY <4>1
    <3>2. PICK y \in Nat, z \in Nat : y = single * base /\ z = single * e
      BY <1>0
    <3>3. single * (base + e) = single * base + single * e
      BY <1>0
    <3>4. single * (base + c) = single * base + single * c
      BY <1>0
    <3>5. p = y + z
      BY <2>9, <3>1, <3>2, <3>3
    <3>6. single * (base + c) = y + p
      BY <2>9, <3>2, <3>4
    <3> QED
      BY <2>9, <3>2, <3>5, <3>6
  <2>11. PICK r \in Nat : r = single * (base + c) /\ r <= p + p
    <3>1. single * (base + c) \in Nat
      BY <1>0
    <3> QED
      BY <2>10, <3>1
  <2>12. fee * 1000 <= r
    BY <2>6, <2>11
  <2> QED
    BY <1>0, <1>3, <2>3, <2>9, <2>11, <2>12
<1> QED
  BY <1>2, <1>3

(* The small coins that are taken before it is seen that they waste, or that they are
   enough, are few. *)
LEMMA FewBeforeBig ==
  ASSUME CoinsAsked, NEW C, C \subseteq Eligible, NEW m \in 1..Cardinality(C),
         ~Wasteful(C, m), ~Enough(Greatest(C, m))
  PROVE  m < 2 * ShareDivisor \/ m < 2 * SingleFactor
<1>1. C \in SUBSET Places /\ utxos \in Seq(Coin)
  BY EligibleIn DEF CoinsAsked
<1>2. m \in Nat \ {0} /\ Cardinality(C) \in Nat /\ m \in 0..Cardinality(C)
  BY <1>1, PlacesSized
<1>3. PICK G \in SUBSET C : G = Greatest(C, m) /\ Cardinality(G) = m
  <2>1. Greatest(C, m) \in SUBSET C
    BY DEF Greatest
  <2> QED
    BY <1>1, <1>2, <2>1, GreatestCounted
<1>4. PICK net, H, c, base : Nets(C, net, H, c, base)
  BY NetsAdded
<1>5. PICK i \in G : /\ i = NthGreatest(C, m)
                     /\ \A j \in G : utxos[j].satoshis >= utxos[i].satoshis
  BY <1>1, <1>3, NthIsLeast
<1>6. PICK x \in Nat : x = net[i] /\ \A j \in G : net[j] >= x
  <2>1. IsSum(H, C, net) /\ \A j \in C : net[j] = utxos[j].satoshis * 1000 - c
    BY <1>4 DEF Nets
  <2>2. net[i] \in Nat
    BY <1>3, <2>1 DEF IsSum
  <2>3. ASSUME NEW j \in G
        PROVE  net[j] >= net[i]
    <3>1. PICK s \in Nat, t \in Nat : s = utxos[i].satoshis /\ t = utxos[j].satoshis
      BY <1>1, <1>3, CoinsTyped DEF Coin
    <3>2. c \in Nat /\ net[i] = s * 1000 - c /\ net[j] = t * 1000 - c
      BY <1>3, <1>4, <2>1, <3>1 DEF Nets
    <3>3. t >= s
      BY <1>5, <3>1
    <3> QED
      BY <3>1, <3>2, <3>3
  <2> QED
    BY <2>2, <2>3
<1>7. PICK sum \in Nat : sum = H[G] /\ sum >= m * x
  <2>1. IsSum(H, C, net)
    BY <1>4 DEF Nets
  <2>2. \A S \in SUBSET C : (\A j \in S : net[j] >= x) => H[S] >= Cardinality(S) * x
    BY <2>1, SumAtLeast
  <2>3. H[G] \in Nat
    BY <2>1 DEF IsSum
  <2> QED
    BY <1>3, <1>6, <2>2, <2>3
<1>8. PICK a \in Nat \ {0} : a = txp.amount
  BY DEF CoinsAsked
<1>9. /\ c \in Nat /\ base \in Nat /\ base <= c
      /\ c = FeePerInput /\ base = BaseSize * txp.feePerKb
  BY <1>4 DEF Nets
<1>10. sum - base < a * 1000
  <2>1. Net(G) = sum - base
    BY <1>4, <1>7 DEF Nets
  <2>2. ~(Net(G) >= a * 1000)
    BY <1>3, <1>8 DEF Enough
  <2> QED
    BY <1>8, <1>9, <2>1, <2>2
<1>11. PICK fee : fee = Round(FeeOf(m))
  OBVIOUS
<1>12. fee = Round(base + m * c) /\ FeeOf(1) = base + c
  <2>1. FeeOf(m) = base + m * c
    BY <1>9 DEF FeeOf
  <2>2. FeeOf(1) = base + 1 * c /\ 1 * c = c
    BY <1>9 DEF FeeOf
  <2> QED
    BY <1>11, <2>1, <2>2
<1>13. /\ ~(x * ShareDivisor < a * 1000)
       /\ ~(fee * FeeDivisor > a /\ fee * 1000 > SingleFactor * (base + c))
  <2>1. x = utxos[NthGreatest(C, m)].satoshis * 1000 - FeePerInput
    BY <1>3, <1>4, <1>5, <1>6 DEF Nets
  <2> QED
    BY <1>8, <1>11, <1>12, <2>1 DEF Wasteful
<1>14. fee \in Nat
  <2>1. PICK w \in Nat : w = m * c
    BY <1>2, <1>9
  <2>2. (base + w + 500) \div 1000 \in Nat
    BY <1>9, <2>1
  <2> QED
    BY <1>12, <2>1, <2>2 DEF Round
<1>15. x * ShareDivisor >= a * 1000
  <2>1. PICK y \in Nat : y = x * ShareDivisor
    <3>1. ShareDivisor \in Nat
      BY CoinSelectionAssumption
    <3> QED
      BY <3>1
  <2> QED
    BY <1>13, <2>1
<1>16. fee * FeeDivisor <= a \/ fee * 1000 <= SingleFactor * (base + c)
  <2>1. PICK y \in Nat, z \in Nat : y = fee * FeeDivisor /\ z = SingleFactor * (base + c)
    <3>1. FeeDivisor \in Nat /\ SingleFactor \in Nat
      BY CoinSelectionAssumption
    <3>2. fee * FeeDivisor \in Nat
      BY <1>14, <3>1
    <3>3. SingleFactor * (base + c) \in Nat
      BY <1>9, <3>1
    <3> QED
      BY <3>2, <3>3
  <2> QED
    BY <1>13, <1>14, <2>1
<1>17. FewCoins(m, a, x, sum, base, c, fee)
  BY <1>2, <1>7, <1>9, <1>10, <1>12, <1>15, <1>16 DEF FewCoins
<1> QED
  BY <1>17, FewAreTaken

(* No choice of coins would do when all of those worth their fee do not, *)
LEMMA NoWayOfAll ==
  ASSUME CoinsAsked, NEW C, C \subseteq Eligible, ~Enough(C)
  PROVE  NoWay(C)
<1>1. ASSUME NEW S \in SUBSET C, Enough(S)
      PROVE  FALSE
  <2>1. Net(S) <= Net(C) /\ Net(S) \in Int /\ Net(C) \in Int
    BY NetGrows
  <2>2. txp.amount \in Nat
    BY DEF CoinsAsked
  <2> QED
    BY <1>1, <2>1, <2>2 DEF Enough
<1> QED
  BY <1>1 DEF NoWay

(* More coins are worth more. *)
LEMMA ValueGrows ==
  ASSUME utxos \in Seq(Coin), NEW C \in SUBSET Places, NEW S \in SUBSET C
  PROVE  Value(S) \in Nat /\ Value(C) \in Nat /\ Value(S) <= Value(C)
<1>1. PICK F : /\ IsSum(F, Places, Satoshis)
               /\ \A T \in SUBSET Places : Value(T) = F[T]
  BY Values
<1>2. F[S] <= F[C]
  BY <1>1, SumGrows
<1> QED
  BY <1>1, <1>2, ValueLaws

(* ... and when they are worth less than the amount. *)
LEMMA NoWayBelow ==
  ASSUME CoinsAsked, NEW C \in SUBSET Places, Value(C) < txp.amount
  PROVE  NoWay(C)
<1>0. utxos \in Seq(Coin)
  BY DEF CoinsAsked
<1>1. ASSUME NEW S \in SUBSET C, Enough(S)
      PROVE  FALSE
  <2>1. PICK c \in Nat, base \in Nat : /\ Net(S) = Weight(S, c) - base
                                       /\ Cardinality(S) * c \in Nat
    BY NetIsWeight
  <2>2. Value(S) \in Nat /\ Value(C) \in Nat /\ Value(S) <= Value(C)
    BY <1>0, ValueGrows
  <2>3. PICK w \in Nat : w = Cardinality(S) * c
    BY <2>1
  <2>4. Net(S) = 1000 * Value(S) - w - base
    BY <2>1, <2>3 DEF Weight
  <2>5. txp.amount \in Nat
    BY DEF CoinsAsked
  <2>6. Net(S) >= txp.amount * 1000
    BY <1>1 DEF Enough
  <2> QED
    BY <2>2, <2>4, <2>5, <2>6
<1> QED
  BY <1>1 DEF NoWay

(* No coins pay for nothing. *)
LEMMA NoneIsNotEnough ==
  ASSUME CoinsAsked
  PROVE  ~Enough({})
<1>1. PICK S : S = {}
  OBVIOUS
<1>2. utxos \in Seq(Coin) /\ txp.amount \in Nat \ {0}
  BY DEF CoinsAsked
<1>3. PICK c \in Nat, base \in Nat : FeeOf(Cardinality(S)) = base + Cardinality(S) * c
                                     /\ Cardinality(S) * c \in Nat
  BY <1>1, NetIsWeight
<1>4. Value(S) = 0
  BY <1>1, <1>2, ValueLaws
<1>5. PICK w \in Nat : w = FeeOf(Cardinality(S))
  BY <1>3
<1>6. Net(S) = 0 - w
  BY <1>4, <1>5 DEF Net
<1>7. ~Enough(S)
  BY <1>2, <1>6 DEF Enough
<1> QED
  BY <1>1, <1>7

(* More coins are no smaller a transaction. *)
LEMMA SizesGrow ==
  ASSUME NEW n \in Nat, NEW m \in Nat, n <= m
  PROVE  EstimatedSize(n) <= EstimatedSize(m)
<1>1. PICK d \in Nat, a \in Nat : a = InputSize * n /\ InputSize * m = a + d
  <2>1. PICK k \in Nat : m = n + k
    <3>1. m - n \in Nat /\ m = n + (m - n)
      OBVIOUS
    <3> QED
      BY <3>1
  <2>2. InputSize \in Nat
    BY SizesTyped
  <2>3. InputSize * (n + k) = InputSize * n + InputSize * k
    BY <2>2
  <2>4. InputSize * n \in Nat /\ InputSize * k \in Nat
    BY <2>2
  <2> QED
    BY <2>1, <2>3, <2>4
<1>2. /\ EstimatedSize(n) = 96 + a + ((38 + 2 * a) \div 100)
      /\ EstimatedSize(m) = 96 + (a + d) + ((38 + 2 * (a + d)) \div 100)
  BY <1>1, EstimatedSizes
<1>3. (38 + 2 * a) \div 100 <= (38 + 2 * (a + d)) \div 100
  OBVIOUS
<1>4. (38 + 2 * a) \div 100 \in Int /\ (38 + 2 * (a + d)) \div 100 \in Int
  OBVIOUS
<1> QED
  BY <1>2, <1>3, <1>4

(* As many small coins as are preferred to a big one fit in a transaction. *)
LEMMA FewFit ==
  ASSUME NEW m \in Nat, m < 2 * ShareDivisor \/ m < 2 * SingleFactor \/ m = 0
  PROVE  EstimatedSize(m + 1) <= MaxTxSize
<1>1. PICK share \in Nat \ {0}, single \in Nat \ {0} : share = ShareDivisor /\ single = SingleFactor
  BY CoinSelectionAssumption
<1>2. PICK most \in Nat : most = Max({ShareDivisor, SingleFactor}) /\ most >= share /\ most >= single
  <2>1. Max({share, single}) \in {share, single} /\ Max({share, single}) >= share
        /\ Max({share, single}) >= single
    BY MaxOfTwo
  <2> QED
    BY <1>1, <2>1
<1>3. m + 1 <= 2 * most /\ 2 * most \in Nat
  BY <1>1, <1>2
<1>4. EstimatedSize(m + 1) <= EstimatedSize(2 * most)
  BY <1>3, SizesGrow
<1>5. EstimatedSize(2 * most) <= MaxTxSize
  BY <1>2, CoinSelectionSizes
<1>6. EstimatedSize(m + 1) \in Nat /\ EstimatedSize(2 * most) \in Nat /\ MaxTxSize \in Nat
  BY <1>3, EstimatedSizes, SizesTyped
<1> QED
  BY <1>4, <1>5, <1>6

(* Where the search among small coins stops. *)
Stop(small, big, k) ==
  TooBig(k) \/ (big # {} /\ Wasteful(small, k)) \/ Enough(Greatest(small, k))

(* The greatest of the small coins are taken, up to the first place where it stops, or
   all of them. *)
LEMMA TakenUpTo ==
  ASSUME utxos \in Seq(Coin), NEW C \in SUBSET Places, NEW big, NEW small, small = C \ big
  PROVE  \E k \in 0..Cardinality(small) :
           /\ Taken(C, big) = Greatest(small, k) /\ Cardinality(Greatest(small, k)) = k
           /\ k = Cardinality(small) \/ (k # 0 /\ Stop(small, big, k))
           /\ \A m \in 1..Cardinality(small) : m < k => ~Stop(small, big, m)
<1> DEFINE stops == {k \in 1..Cardinality(small) : \/ TooBig(k)
                                                   \/ (big # {} /\ Wasteful(small, k))
                                                   \/ Enough(Greatest(small, k))}
<1>0. small \in SUBSET Places /\ Cardinality(small) \in Nat
  <2>1. small \in SUBSET Places
    OBVIOUS
  <2> QED
    BY <2>1, PlacesSized
<1>1. stops = {k \in 1..Cardinality(small) : Stop(small, big, k)}
  BY DEF Stop
<1>2. Taken(C, big) = Greatest(small, IF stops = {} THEN Cardinality(small) ELSE Min(stops))
  BY Zenon DEF Taken
<1> HIDE DEF stops
<1>3. PICK k : k = IF stops = {} THEN Cardinality(small) ELSE Min(stops)
  OBVIOUS
<1>4. CASE stops = {}
  <2>1. k = Cardinality(small) /\ k \in 0..Cardinality(small)
    BY <1>0, <1>3, <1>4
  <2>2. \A m \in 1..Cardinality(small) : ~Stop(small, big, m)
    BY <1>1, <1>4
  <2>3. Cardinality(Greatest(small, k)) = k
    BY <1>0, <2>1, GreatestCounted
  <2> QED
    BY <1>2, <1>3, <2>1, <2>2, <2>3
<1>5. CASE stops # {}
  <2>1. stops \in SUBSET Nat
    BY <1>0, <1>1
  <2>2. k \in stops /\ \A m \in stops : k <= m
    BY <1>3, <1>5, <2>1, MinOf
  <2>3. k \in 1..Cardinality(small) /\ Stop(small, big, k)
    BY <1>1, <2>2
  <2>4. k \in 0..Cardinality(small) /\ k # 0
    BY <1>0, <2>3
  <2>5. ASSUME NEW m \in 1..Cardinality(small), m < k
        PROVE  ~Stop(small, big, m)
    <3>1. m \notin stops
      BY <1>0, <2>2, <2>3, <2>5
    <3> QED
      BY <1>1, <3>1
  <2>6. Cardinality(Greatest(small, k)) = k
    BY <1>0, <2>4, GreatestCounted
  <2> QED
    BY <1>2, <1>3, <2>3, <2>4, <2>5, <2>6
<1> QED
  BY <1>4, <1>5

(* Coins that are enough pay for the amount and the rounded fee. *)
LEMMA EnoughIsLeft ==
  ASSUME CoinsAsked, NEW S \in SUBSET Places, NEW amount \in Nat,
         amount = txp.amount, Value(S) * 1000 - FeeOf(Cardinality(S)) >= amount * 1000
  PROVE  Value(S) - amount - Round(FeeOf(Cardinality(S))) >= 0
<1>1. PICK v \in Nat : v = Value(S)
  BY ValueLaws DEF CoinsAsked
<1>2. PICK f \in Nat : f = FeeOf(Cardinality(S))
  <2>1. PICK c \in Nat, base \in Nat : /\ FeeOf(Cardinality(S)) = base + Cardinality(S) * c
                                       /\ Cardinality(S) * c \in Nat
    BY NetIsWeight
  <2> QED
    BY <2>1
<1>3. v * 1000 - f >= amount * 1000
  BY <1>1, <1>2
<1>4. v - amount - ((f + 500) \div 1000) >= 0
  BY <1>3
<1> QED
  BY <1>1, <1>2, <1>4 DEF Round

(* A rest that is added to the fee leaves nothing, and another one stays. *)
LEMMA FeeForLeft ==
  ASSUME CoinsAsked, NEW taken \in SUBSET Places, NEW big,
         Value(taken) - txp.amount - Round(FeeOf(Cardinality(taken))) >= 0
  PROVE  Value(taken) - txp.amount - FeeFor(taken, big) >= 0
<1> DEFINE k == Cardinality(taken)
           stopped == TooBig(k) \/ (big # {} /\ Wasteful(taken, k))
<1>1. PICK v \in Nat, a \in Nat, f \in Int : v = Value(taken) /\ a = txp.amount /\ f = Round(FeeOf(k))
  <2>1. k \in Nat /\ txp.feePerKb \in Int /\ Value(taken) \in Nat /\ txp.amount \in Nat
    BY PlacesSized, ValueLaws DEF CoinsAsked
  <2> QED
    BY <2>1, FeesTyped
<1>2. FeeFor(taken, big) = IF ~stopped /\ v - a - f \in 1..DustThreshold
                           THEN f + (v - a - f) ELSE f
  BY <1>1 DEF FeeFor
<1> HIDE DEF stopped
<1>3. v - a - FeeFor(taken, big) >= 0
  <2>1. v - a - f >= 0
    BY <1>1
  <2> QED
    BY <1>2, <2>1
<1> QED
  BY <1>1, <1>3

(* A big coin pays for the amount and its fee. *)
LEMMA BigPays ==
  ASSUME CoinsAsked, NEW i \in Places, NEW C, i \in Big(C)
  PROVE  Value({i}) - txp.amount - Round(FeeOf(1)) >= 0
<1>0. utxos \in Seq(Coin)
  BY DEF CoinsAsked
<1>1. PICK S \in SUBSET Places : S = {i}
  OBVIOUS
<1>2. Cardinality(S) = 1
  BY <1>1, FS_Singleton
<1>3. PICK v \in Nat : v = Value(S) /\ v = utxos[i].satoshis
  <2>1. Value({i}) = utxos[i].satoshis
    BY <1>0, ValueLaws
  <2> QED
    BY <1>0, <1>1, <2>1, ValueLaws
<1>4. PICK a \in Nat : a = txp.amount
  BY DEF CoinsAsked
<1>5. PICK f \in Nat : f = FeeOf(1)
  <2>1. PICK c \in Nat, base \in Nat : /\ FeeOf(Cardinality(S)) = base + Cardinality(S) * c
                                       /\ Cardinality(S) * c \in Nat
    BY NetIsWeight
  <2> QED
    BY <1>2, <2>1
<1>6. v * 1000 > a * BigFactor * 1000 + f
  BY <1>3, <1>4, <1>5 DEF Big
<1>7. PICK b \in Nat : b = a * BigFactor /\ b >= a
  <2>1. PICK g \in Nat : BigFactor = g + 1
    <3>1. BigFactor \in Nat \ {0}
      BY CoinSelectionAssumption
    <3>2. BigFactor - 1 \in Nat /\ BigFactor = (BigFactor - 1) + 1
      BY <3>1
    <3> QED
      BY <3>2
  <2>2. a * (g + 1) = a * g + a /\ a * g \in Nat
    OBVIOUS
  <2> QED
    BY <2>1, <2>2
<1>8. v * 1000 - f >= a * 1000
  BY <1>6, <1>7
<1> QED
  BY <1>1, <1>2, <1>3, <1>4, <1>5, <1>8, EnoughIsLeft

(* The last stop but one, or none: fewer coins than k are not enough. *)
LEMMA FewerNotEnough ==
  ASSUME CoinsAsked, NEW C, C \subseteq Eligible, NEW big,
         NEW k \in 0..Cardinality(C), k # 0,
         \A m \in 1..Cardinality(C) : m < k => ~Stop(C, big, m)
  PROVE  k - 1 \in Nat /\ ~Enough(Greatest(C, k - 1))
<1>1. C \in SUBSET Places /\ utxos \in Seq(Coin)
  BY EligibleIn DEF CoinsAsked
<1>2. Cardinality(C) \in Nat
  BY <1>1, PlacesSized
<1>3. PICK m \in Nat : m = k - 1 /\ m <= Cardinality(C) /\ m < k
  BY <1>2
<1>4. CASE m = 0
  <2>1. Cardinality(Greatest(C, 0)) = 0 /\ Greatest(C, 0) \in SUBSET Places
    BY <1>1, <1>2, GreatestCounted DEF Greatest
  <2>2. Greatest(C, 0) = {}
    BY <1>1, <2>1, PlacesSized
  <2> QED
    BY <1>3, <1>4, <2>2, NoneIsNotEnough
<1>5. CASE m # 0
  <2>1. m \in 1..Cardinality(C)
    BY <1>2, <1>3, <1>5
  <2>2. ~Stop(C, big, m)
    BY <1>3, <2>1
  <2> QED
    BY <1>3, <2>2 DEF Stop
<1> QED
  BY <1>4, <1>5

(* Without a big coin, when the coins taken are not enough or do not fit, nothing would
   do: coins that fit are fewer. *)
LEMMA TakenAreLast ==
  ASSUME CoinsAsked, NEW C, C \subseteq Eligible, Enough(C), NEW big, big = {},
         ~Enough(Taken(C, big)) \/ EstimatedSize(Cardinality(Taken(C, big))) > MaxTxSize
  PROVE  NoWay(C)
<1>1. C \in SUBSET Places /\ utxos \in Seq(Coin) /\ C \ big = C
  BY EligibleIn DEF CoinsAsked
<1>2. Cardinality(C) \in Nat
  BY <1>1, PlacesSized
<1>3. PICK k \in 0..Cardinality(C) :
        /\ Taken(C, big) = Greatest(C, k) /\ Cardinality(Greatest(C, k)) = k
        /\ k = Cardinality(C) \/ (k # 0 /\ Stop(C, big, k))
        /\ \A m \in 1..Cardinality(C) : m < k => ~Stop(C, big, m)
  BY <1>1, TakenUpTo
<1>4. k # 0
  <2>1. SUFFICES ASSUME k = 0 PROVE FALSE
    OBVIOUS
  <2>2. Cardinality(C) = 0
    BY <1>3, <2>1
  <2>3. C = {}
    BY <1>1, <2>2, PlacesSized
  <2> QED
    BY <2>3, NoneIsNotEnough
<1>5. EstimatedSize(k) > MaxTxSize
  <2>1. CASE ~Enough(Greatest(C, k))
    <3>1. k # Cardinality(C)
      BY <1>1, <2>1, GreatestAreAll
    <3>2. TooBig(k)
      BY <1>3, <2>1, <3>1 DEF Stop
    <3>3. EstimatedSize(k) >= SizeOf(k) /\ EstimatedSize(k) \in Nat /\ SizeOf(k) = 96 + InputSize * k
          /\ InputSize * k \in Nat
      BY EstimatedSizes
    <3>4. MaxTxSize \in Nat
      BY SizesTyped
    <3> QED
      BY <3>2, <3>3, <3>4 DEF TooBig
  <2> QED
    BY <1>3, <2>1
<1>6. PICK m \in Nat : m = k - 1 /\ ~Enough(Greatest(C, m))
  <2>1. \A n \in 1..Cardinality(C) : n < k => ~Stop(C, big, n)
    BY <1>3
  <2>2. k - 1 \in Nat /\ ~Enough(Greatest(C, k - 1))
    BY <1>4, <2>1, FewerNotEnough
  <2> QED
    BY <2>2
<1>7. ASSUME NEW S \in SUBSET C, EstimatedSize(Cardinality(S)) <= MaxTxSize
      PROVE  ~Enough(S)
  <2>1. PICK n \in Nat : n = Cardinality(S)
    BY <1>1, PlacesSized
  <2>2. n < k
    <3>1. SUFFICES ASSUME k <= n PROVE FALSE
      BY <2>1
    <3>2. EstimatedSize(k) <= EstimatedSize(n)
      BY <3>1, SizesGrow
    <3>3. EstimatedSize(k) \in Nat /\ EstimatedSize(n) \in Nat /\ MaxTxSize \in Nat
      BY EstimatedSizes, SizesTyped
    <3>4. EstimatedSize(n) <= MaxTxSize
      BY <1>7, <2>1
    <3> QED
      BY <1>5, <3>2, <3>3, <3>4
  <2>3. Cardinality(S) <= m
    BY <1>6, <2>1, <2>2
  <2> QED
    BY <1>6, <2>3, GreatestPay
<1> QED
  BY <1>7 DEF NoWay

(* Beside a big coin, small coins that are enough are few, and fit. *)
LEMMA TakenAreFew ==
  ASSUME CoinsAsked, NEW C, C \subseteq Eligible, NEW big, big # {}, Enough(Taken(C, big))
  PROVE  EstimatedSize(Cardinality(Taken(C, big))) <= MaxTxSize
<1>1. PICK small : small = C \ big /\ small \subseteq Eligible
  OBVIOUS
<1>2. C \in SUBSET Places /\ small \in SUBSET Places /\ utxos \in Seq(Coin)
  BY <1>1, EligibleIn DEF CoinsAsked
<1>3. Cardinality(small) \in Nat
  BY <1>2, PlacesSized
<1>4. PICK k \in 0..Cardinality(small) :
        /\ Taken(C, big) = Greatest(small, k) /\ Cardinality(Greatest(small, k)) = k
        /\ \A m \in 1..Cardinality(small) : m < k => ~Stop(small, big, m)
  BY <1>1, <1>2, TakenUpTo
<1>5. k # 0
  <2>1. SUFFICES ASSUME k = 0 PROVE FALSE
    OBVIOUS
  <2>2. PICK T \in SUBSET Places : T = Greatest(small, k)
    BY <1>2 DEF Greatest
  <2>3. T = {}
    BY <1>2, <1>4, <2>1, <2>2, PlacesSized
  <2> QED
    BY <1>4, <2>2, <2>3, NoneIsNotEnough
<1>6. PICK m \in Nat : k = m + 1 /\ m < k
  BY <1>5
<1>7. m < 2 * ShareDivisor \/ m < 2 * SingleFactor \/ m = 0
  <2>1. SUFFICES ASSUME m # 0
                 PROVE  m < 2 * ShareDivisor \/ m < 2 * SingleFactor
    OBVIOUS
  <2>2. m \in 1..Cardinality(small)
    BY <1>3, <1>6, <2>1
  <2>3. ~Stop(small, big, m)
    BY <1>4, <1>6, <2>2
  <2>4. ~Wasteful(small, m) /\ ~Enough(Greatest(small, m))
    BY <2>3 DEF Stop
  <2> QED
    BY <1>1, <2>2, <2>4, FewBeforeBig
<1>8. EstimatedSize(m + 1) <= MaxTxSize
  BY <1>7, FewFit
<1> QED
  BY <1>4, <1>6, <1>8

(* What is found pays, and what does not fit, or is not found, stands for coins of which
   no choice would do. *)
Finds(coins, found) ==
  IF found.inputs = {} THEN NoWay(coins)
  ELSE /\ Value(found.inputs) - txp.amount - found.fee >= 0
       /\ EstimatedSize(Cardinality(found.inputs)) > MaxTxSize => NoWay(coins)

(* Of any group of coins, Select finds some that pay if there are any. *)
LEMMA SelectFinds ==
  ASSUME CoinsAsked, NEW C, C \subseteq Eligible
  PROVE  Finds(C, Select(C))
<1> DEFINE big == Big(C)
           taken == Taken(C, big)
           least == CHOOSE i \in big : \A j \in big : utxos[i].satoshis <= utxos[j].satoshis
           poor == Value(C) < txp.amount
           short == ~Enough(C)
           enough == Enough(taken)
           large == TooBig(Cardinality(taken))
<1>0. utxos \in Seq(Coin) /\ C \in SUBSET Places
  BY EligibleIn DEF CoinsAsked
<1>1. PICK found : found = Select(C)
  OBVIOUS
<1>2. found = IF poor
              THEN [inputs |-> {}, fee |-> txp.fee, error |-> "INSUFFICIENT_FUNDS"]
              ELSE IF short
              THEN [inputs |-> {}, fee |-> txp.fee, error |-> "INSUFFICIENT_FUNDS_FOR_FEE"]
              ELSE IF taken # {} /\ enough
              THEN [inputs |-> taken, fee |-> FeeFor(taken, big), error |-> "none"]
              ELSE IF big # {}
              THEN [inputs |-> {least}, fee |-> Round(FeeOf(1)), error |-> "none"]
              ELSE [inputs |-> {}, fee |-> txp.fee,
                    error |-> IF large THEN "TX_MAX_SIZE_EXCEEDED"
                              ELSE "INSUFFICIENT_FUNDS_FOR_FEE"]
  BY <1>1, Zenon DEF Select
<1>3. poor => NoWay(C)
  BY <1>0, NoWayBelow
<1>4. short => NoWay(C)
  BY NoWayOfAll
<1>5. taken \in SUBSET Places /\ big \in SUBSET Places
  <2>1. taken \subseteq C
    BY TakenIn
  <2>2. big \subseteq C
    BY DEF Big
  <2> QED
    BY <1>0, <2>1, <2>2
<1>6. enough => Value(taken) - txp.amount - FeeFor(taken, big) >= 0
  <2>1. PICK T, B : T = taken /\ B = big /\ T \in SUBSET Places
    BY <1>5
  <2>2. ASSUME Enough(T)
        PROVE  Value(T) - txp.amount - FeeFor(T, B) >= 0
    <3>1. PICK a \in Nat : a = txp.amount
      BY DEF CoinsAsked
    <3>2. Value(T) * 1000 - FeeOf(Cardinality(T)) >= a * 1000
      BY <2>2, <3>1 DEF Enough, Net
    <3>3. Value(T) - a - Round(FeeOf(Cardinality(T))) >= 0
      BY <2>1, <3>1, <3>2, EnoughIsLeft
    <3> QED
      BY <2>1, <3>1, <3>3, FeeForLeft
  <2> QED
    BY <2>1, <2>2
<1>7. ~short /\ big = {} /\ (~enough \/ EstimatedSize(Cardinality(taken)) > MaxTxSize) => NoWay(C)
  BY TakenAreLast
<1>8. big # {} /\ enough => ~(EstimatedSize(Cardinality(taken)) > MaxTxSize)
  <2>1. PICK T : T = taken
    OBVIOUS
  <2>2. ASSUME big # {}, Enough(T)
        PROVE  ~(EstimatedSize(Cardinality(T)) > MaxTxSize)
    <3>1. EstimatedSize(Cardinality(T)) <= MaxTxSize
      BY <2>1, <2>2, TakenAreFew
    <3>2. Cardinality(T) \in Nat
      BY <1>0, <1>5, <2>1, PlacesSized
    <3>3. EstimatedSize(Cardinality(T)) \in Nat /\ MaxTxSize \in Nat
      BY <3>2, EstimatedSizes, SizesTyped
    <3> QED
      BY <3>1, <3>3
  <2> QED
    BY <2>1, <2>2
<1>9. ~(taken # {} /\ enough) => ~enough
  BY NoneIsNotEnough
<1>10. big # {} => Value({least}) - txp.amount - Round(FeeOf(1)) >= 0
  <2>1. SUFFICES ASSUME big # {}
                 PROVE  Value({least}) - txp.amount - Round(FeeOf(1)) >= 0
    OBVIOUS
  <2>2. least \in big
    <3> HIDE DEF big
    <3> QED
      BY Least, <1>0, <1>5, <2>1
  <2>3. PICK i \in Places : i = least /\ i \in Big(C)
    BY <1>5, <2>2
  <2>4. Value({i}) - txp.amount - Round(FeeOf(1)) >= 0
    BY <2>3, BigPays
  <2> HIDE DEF least
  <2> QED
    BY <2>3, <2>4
<1>11. ~(EstimatedSize(Cardinality({least})) > MaxTxSize)
  <2>1. Cardinality({least}) = 1
    <3> HIDE DEF least
    <3> QED
      BY FS_Singleton
  <2>2. EstimatedSize(0 + 1) <= MaxTxSize
    BY FewFit
  <2>3. EstimatedSize(1) \in Nat /\ MaxTxSize \in Nat
    BY EstimatedSizes, SizesTyped
  <2>4. 0 + 1 = 1
    OBVIOUS
  <2>5. ~(EstimatedSize(1) > MaxTxSize)
    BY <2>2, <2>3, <2>4
  <2> HIDE DEF least
  <2> QED
    BY <2>1, <2>5
<1> HIDE DEF big, taken, least, poor, short, enough, large
<1>12. \/ found.inputs = {} /\ NoWay(C)
       \/ /\ found.inputs # {} /\ found.inputs = taken /\ found.fee = FeeFor(taken, big) /\ enough
          /\ EstimatedSize(Cardinality(taken)) > MaxTxSize => NoWay(C)
       \/ found.inputs # {} /\ found.inputs = {least} /\ found.fee = Round(FeeOf(1)) /\ big # {}
  BY <1>2, <1>3, <1>4, <1>7, <1>8, <1>9
<1>13. Finds(C, found)
  BY <1>6, <1>10, <1>11, <1>12, Zenon DEF Finds
<1> QED
  BY <1>1, <1>13

(* Coins with fewer confirmations only when those with more would not do. *)
Rightly == \A n \in {1, 6} : txp.inputs \ OfGroup(n) # {} => NoWay(OfGroup(n))

(* The group of coins looked at last. *)
LastGroup == OfGroup(Groups[group.tried])

(* What was chosen pays, and if it does not fit, no choice of the last group would. *)
ChosenPays ==
  /\ Left >= 0
  /\ EstimatedSize(Cardinality(txp.inputs)) > MaxTxSize => NoWay(LastGroup)

(* Between the groups: nothing was looked for; or the last group had as many coins as
   remembered, and no choice of them would do, or what was chosen of them pays. *)
Searching ==
  \/ group.tried = 0 /\ group.length = Absent /\ txp.inputs = {}
  \/ /\ group.tried \in 1..Len(Groups)
     /\ group.length = Cardinality(LastGroup)
     /\ IF txp.inputs = {} THEN NoWay(LastGroup) ELSE Rightly /\ ChosenPays

(* What createTx knows of the funds at each of its places, when it selects coins. *)
Looked ==
  /\ step \in {"validate", "outputs", "backoff", "fee"} => txp.feePerKb = opts.feePerKb
  /\ step \in {"backoff", "fee", "inputs", "group", "check"} => txp.amount > 0
  /\ step \in {"inputs", "group", "check"} => txp.feePerKb >= 0
  /\ step = "group" => Searching
  /\ step = "check" => Rightly /\ ChosenPays
  /\ step = "done" => /\ Rightly
                      /\ error \in Insufficient => NoWay(Eligible)
                      /\ error = "TX_MAX_SIZE_EXCEEDED" => NoWay(LastGroup)

Selecting == SelectionInv /\ Selected /\ Looked

(* Whether coins would do depends on the coins, the options, the amount and the fee
   per kB. *)
LEMMA WaysStay ==
  ASSUME utxos' = utxos, opts' = opts,
         txp'.feePerKb = txp.feePerKb, txp'.amount = txp.amount
  PROVE  /\ \A S : NoWay(S)' <=> NoWay(S)
         /\ \A n : OfGroup(n)' = OfGroup(n)
         /\ Eligible' = Eligible
         /\ NoWay(Eligible)' <=> NoWay(Eligible)
         /\ \A n : NoWay(OfGroup(n))' <=> NoWay(OfGroup(n))
<1>1. \A S, n : Value(S)' = Value(S) /\ FeeOf(n)' = FeeOf(n) /\ Eligible' = Eligible
  BY Steady
<1>2. \A S : Enough(S)' <=> Enough(S)
  BY <1>1 DEF Enough, Net
<1>3. \A S : NoWay(S)' <=> NoWay(S)
  BY <1>2 DEF NoWay, EstimatedSize
<1>4. \A n : OfGroup(n)' = OfGroup(n)
  BY <1>1 DEF OfGroup
<1>5. \A S :
        (\A some \in SUBSET S : EstimatedSize(Cardinality(some)) <= MaxTxSize => ~Enough(some)')
          <=> (\A some \in SUBSET S : EstimatedSize(Cardinality(some)) <= MaxTxSize => ~Enough(some))
  BY <1>2
<1>6. /\ NoWay(Eligible)' <=> NoWay(Eligible)
      /\ \A n : NoWay(OfGroup(n))' <=> NoWay(OfGroup(n))
  BY <1>1, <1>4, <1>5 DEF NoWay, EstimatedSize
<1> QED
  BY <1>1, <1>3, <1>4, <1>6

(* What is chosen rightly, and what it leaves, stay so while the proposal does. *)
LEMMA RightlyStays ==
  ASSUME UNCHANGED <<utxos, opts, txp>>
  PROVE  /\ Rightly' <=> Rightly
         /\ Left' = Left
         /\ NoWay(Eligible)' <=> NoWay(Eligible)
<1>1. /\ \A n : OfGroup(n)' = OfGroup(n)
      /\ NoWay(Eligible)' <=> NoWay(Eligible)
      /\ \A n : NoWay(OfGroup(n))' <=> NoWay(OfGroup(n))
  BY WaysStay
<1>2. Left' = Left
  <2>1. PICK S : S = txp.inputs
    OBVIOUS
  <2>2. Value(S)' = Value(S)
    BY Steady
  <2> QED
    BY <2>1, <2>2 DEF Left
<1> QED
  BY <1>1, <1>2 DEF Rightly

(* ... and so does what is known of the last group. *)
LEMMA LastGroupStays ==
  ASSUME UNCHANGED <<utxos, opts, txp, group>>
  PROVE  /\ LastGroup' = LastGroup /\ Groups' = Groups
         /\ NoWay(LastGroup)' <=> NoWay(LastGroup)
         /\ ChosenPays' <=> ChosenPays
<1>1. /\ \A n : OfGroup(n)' = OfGroup(n)
      /\ \A n : NoWay(OfGroup(n))' <=> NoWay(OfGroup(n))
  BY WaysStay
<1>2. Groups' = Groups /\ Left' = Left
  BY RightlyStays DEF Groups
<1>3. PICK n : n = Groups[group.tried]
  OBVIOUS
<1>4. /\ OfGroup(Groups[group.tried])' = OfGroup(Groups[group.tried])
      /\ NoWay(OfGroup(Groups[group.tried]))' <=> NoWay(OfGroup(Groups[group.tried]))
  BY <1>1, <1>2, <1>3
<1>5. LastGroup' = LastGroup /\ (NoWay(LastGroup)' <=> NoWay(LastGroup))
  BY <1>4 DEF LastGroup
<1>6. ChosenPays' <=> ChosenPays
  BY <1>2, <1>5 DEF ChosenPays, EstimatedSize
<1> QED
  BY <1>2, <1>5, <1>6

(* The coins and the options stay, and so does whether coins are selected. *)
LEMMA StillSelecting ==
  ASSUME UNCHANGED <<utxos, opts>>
  PROVE  Selected' <=> Selected
BY DEF Selected

(* Before the inputs are looked for there are none. *)
LEMMA NoInputsYet ==
  ASSUME Selecting, step \in Early
  PROVE  txp.inputs = {} /\ error = "none" /\ Rightly /\ group = [tried |-> 0, length |-> Absent]
<1>1. NothingYet /\ ~opts.sendMax /\ opts.inputs = {}
  BY DEF Selecting, SelectionInv, Selected
<1>2. txp.inputs = {}
  BY <1>1 DEF NothingYet
<1> QED
  BY <1>1, <1>2 DEF NothingYet, Rightly

(* A refusal for another reason, or of coins of which no choice would do. *)
LEMMA RefusedRightly ==
  ASSUME Selecting, step \in Early, UNCHANGED <<utxos, opts, txp>>, NEW what, Refuse(what),
         what \in Insufficient => NoWay(Eligible), what # "TX_MAX_SIZE_EXCEEDED"
  PROVE  Looked'
<1>1. Rightly'
  BY NoInputsYet, RightlyStays
<1>2. step' = "done" /\ error' = what
  BY DEF Refuse
<1>3. error' \in Insufficient => NoWay(Eligible)'
  BY <1>2, RightlyStays
<1> QED
  BY <1>1, <1>2, <1>3 DEF Looked

(* The coins, the amount and the fee per kB once there is one. *)
LEMMA Asking ==
  ASSUME Selecting, step \in {"inputs", "group", "check"}
  PROVE  CoinsAsked /\ utxos \in Seq(Coin) /\ OptionsAllowed
<1>1. utxos \in Seq(Coin) /\ txp.amount \in Int /\ txp.feePerKb \in Int /\ txp.fee \in Int
  BY DEF Selecting, SelectionInv, SelectionTypeOK
<1>2. txp.amount > 0 /\ txp.feePerKb >= 0 /\ OptionsAllowed
  BY DEF Selecting, Looked, SelectionInv
<1> QED
  BY <1>1, <1>2 DEF CoinsAsked

(* The last group has all the eligible coins. *)
LEMMA AllInLastGroup ==
  ASSUME utxos \in Seq(Coin)
  PROVE  OfGroup(Groups[Len(Groups)]) = Eligible /\ Len(Groups) \in {2, 3}
<1>1. \A i \in Eligible : utxos[i].confirmations \in Nat
  BY EligibleIn, CoinsTyped DEF Coin
<1>2. CASE opts.confirmed
  <2>1. Groups = <<6, 1>>
    BY <1>2 DEF Groups
  <2>2. \A i \in Eligible : utxos[i].confirmations > 0
    BY <1>2 DEF Eligible, Spendable
  <2>3. \A i \in Eligible : utxos[i].confirmations >= 1
    BY <1>1, <2>2
  <2>4. Len(Groups) = 2 /\ Groups[2] = 1
    BY <2>1
  <2> QED
    BY <2>3, <2>4 DEF OfGroup
<1>3. CASE ~opts.confirmed
  <2>1. Groups = <<6, 1, 0>>
    BY <1>3 DEF Groups
  <2>2. \A i \in Eligible : utxos[i].confirmations >= 0
    BY <1>1
  <2>3. Len(Groups) = 3 /\ Groups[3] = 0
    BY <2>1
  <2> QED
    BY <2>2, <2>3 DEF OfGroup
<1> QED
  BY <1>2, <1>3

(* The checks of the options, the outputs and the last rejections. *)
LEMMA LookedChecks ==
  ASSUME Selecting, Validate \/ ValidateOutputs \/ CanCreateTx
  PROVE  Looked'
<1>0. /\ step \in {"validate", "outputs", "backoff"} /\ step \in Early
      /\ UNCHANGED <<utxos, opts, txp>>
  BY DEF Validate, ValidateOutputs, CanCreateTx, Turn, Keep, Early
<1>1. ~opts.sendMax
  BY DEF Selecting, Selected
<1>2. \/ Refuse("OPTIONS") \/ Refuse("AMOUNT") \/ Refuse("DUST_AMOUNT") \/ Refuse("TX_CANNOT_CREATE")
      \/ Go("outputs")
      \/ Go("backoff") /\ txp.amount > 0
      \/ Go("fee") /\ step = "backoff"
  <2>1. CASE Validate
    BY <1>1, <2>1 DEF Validate
  <2>2. CASE ValidateOutputs
    BY <2>2 DEF ValidateOutputs
  <2>3. CASE CanCreateTx
    BY <2>3 DEF CanCreateTx, Turn
  <2> QED
    BY <2>1, <2>2, <2>3
<1>3. {"OPTIONS", "AMOUNT", "DUST_AMOUNT", "TX_CANNOT_CREATE"} \cap Insufficient = {}
  BY DEF Insufficient
<1>4. CASE Refuse("OPTIONS") \/ Refuse("AMOUNT") \/ Refuse("DUST_AMOUNT") \/ Refuse("TX_CANNOT_CREATE")
  BY <1>0, <1>3, <1>4, RefusedRightly
<1>5. CASE Go("outputs") \/ (Go("backoff") /\ txp.amount > 0) \/ (Go("fee") /\ step = "backoff")
  <2>1. /\ step' \in {"outputs", "backoff", "fee"}
        /\ step' \in {"backoff", "fee"} => txp.amount > 0
    BY <1>5 DEF Go, Selecting, Looked
  <2>2. txp.feePerKb = opts.feePerKb
    BY <1>0 DEF Selecting, Looked
  <2> QED
    BY <1>0, <2>1, <2>2 DEF Looked
<1> QED
  BY <1>2, <1>4, <1>5

(* The fee per kB is natural, given or found. *)
LEMMA LookedGetFeePerKb ==
  ASSUME Selecting, GetFeePerKb
  PROVE  Looked'
<1>1. /\ step = "fee" /\ step' = "inputs" /\ UNCHANGED <<utxos, opts>> /\ OptionsAllowed
      /\ opts \in Options
  BY DEF GetFeePerKb, Turn, Go, Keep, Selecting, SelectionInv, SelectionTypeOK
<1>2. txp.amount > 0 /\ txp.feePerKb = opts.feePerKb
  BY <1>1 DEF Selecting, Looked
<1>3. ~Given(opts.fee)
  BY <1>1 DEF OptionsAllowed, Selecting, Selected
<1>4. txp'.amount > 0 /\ txp'.feePerKb >= 0
  <2>1. CASE Given(opts.feePerKb)
    <3>1. UNCHANGED txp
      BY <2>1 DEF GetFeePerKb
    <3>2. opts.feePerKb \in Nat
      BY <1>1, <2>1 DEF Options, Given
    <3> QED
      BY <1>2, <3>1, <3>2
  <2>2. CASE ~Given(opts.feePerKb)
    <3>1. PICK found : /\ GetFeeLevels(found)
                       /\ txp' = [txp EXCEPT !.feePerKb =
                                    found[IF Given(opts.feeLevel) THEN opts.feeLevel ELSE NormalLevel]]
      BY <1>3, <2>2, Zenon DEF GetFeePerKb
    <3>2. LevelsFit(found)
      BY <3>1, FoundLevels DEF Selecting, SelectionInv, LevelsCached
    <3>3. PICK level \in 1..Len(FeeLevels) :
            level = IF Given(opts.feeLevel) THEN opts.feeLevel ELSE NormalLevel
      BY <1>1, NormalIsLevel DEF OptionsAllowed
    <3>4. PICK f \in Nat : f = found[level]
      BY <3>2 DEF LevelsFit
    <3>5. txp' = [txp EXCEPT !.feePerKb = f]
      BY <3>1, <3>3, <3>4
    <3>6. txp'.amount = txp.amount /\ txp'.feePerKb = f
      BY <3>5 DEF Selecting, SelectionInv, SelectionTypeOK
    <3> QED
      BY <1>2, <3>6
  <2> QED
    BY <2>1, <2>2
<1> QED
  BY <1>1, <1>4 DEF Looked

(* The balance is that of all free coins, eligible ones and others. *)
LEMMA LookedCheckFunds ==
  ASSUME Selecting, CheckFunds
  PROVE  Looked'
<1> DEFINE all == {i \in 1..Len(utxos) : opts.confirmed => utxos[i].confirmations > 0}
<1>0. /\ step = "inputs" /\ step \in Early /\ UNCHANGED <<utxos, opts, txp, group>>
  BY DEF CheckFunds, Turn, Keep, Early
<1>1. CoinsAsked /\ utxos \in Seq(Coin)
  BY <1>0, Asking
<1>2. PICK a \in Nat : a = txp.amount
  BY <1>1 DEF CoinsAsked
<1>3. PICK whole \in SUBSET Places, free \in SUBSET Places :
        /\ whole = all /\ free = all \cap FreeCoins
        /\ free \subseteq whole /\ Eligible \subseteq free
  <2>1. all \in SUBSET Places
    BY DEF Places
  <2>2. Eligible \subseteq all \cap FreeCoins
    BY DEF Eligible, Spendable, FreeCoins
  <2> HIDE DEF all
  <2> QED
    BY <2>1, <2>2
<1>4. \/ Value(whole) < a /\ Refuse("INSUFFICIENT_FUNDS")
      \/ Value(free) < a /\ Refuse("LOCKED_FUNDS")
      \/ Go("group")
  <2> HIDE DEF all
  <2>1. \/ Value(all) < txp.amount /\ Refuse("INSUFFICIENT_FUNDS")
        \/ Value(all) >= txp.amount /\ Value(all \cap FreeCoins) < txp.amount
           /\ Refuse("LOCKED_FUNDS")
        \/ Value(all \cap FreeCoins) >= txp.amount /\ Go("group")
    BY Zenon DEF CheckFunds, all
  <2> QED
    BY <1>2, <1>3, <2>1
<1>5. Value(whole) < a \/ Value(free) < a => NoWay(Eligible)
  <2>1. Eligible \in SUBSET Places /\ Eligible \in SUBSET free /\ Eligible \in SUBSET whole
        /\ free \in SUBSET Places
    BY <1>3
  <2>2. Value(Eligible) \in Nat /\ Value(Eligible) <= Value(whole) /\ Value(Eligible) <= Value(free)
        /\ Value(whole) \in Nat /\ Value(free) \in Nat
    BY <1>1, <1>3, <2>1, ValueGrows
  <2>3. Value(whole) < a \/ Value(free) < a => Value(Eligible) < txp.amount
    BY <1>2, <2>2
  <2> QED
    BY <1>1, <2>1, <2>3, NoWayBelow
<1>6. CASE NoWay(Eligible) /\ (Refuse("INSUFFICIENT_FUNDS") \/ Refuse("LOCKED_FUNDS"))
  BY <1>0, <1>6, RefusedRightly
<1>7. CASE Go("group")
  <2>1. step' = "group" /\ txp' = txp /\ group' = group
    BY <1>0, <1>7 DEF Go
  <2>2. Searching'
    BY <1>0, <2>1, NoInputsYet DEF Searching
  <2>3. txp.amount > 0 /\ txp.feePerKb >= 0
    BY <1>0 DEF Selecting, Looked
  <2> QED
    BY <2>1, <2>2, <2>3 DEF Looked
<1> QED
  BY <1>4, <1>5, <1>6, <1>7

(* A group of coins, and the one before it. *)
LEMMA GroupsOfCoins ==
  ASSUME utxos \in Seq(Coin), NEW tried \in 0..3, tried < Len(Groups)
  PROVE  /\ OfGroup(Groups[tried + 1]) \subseteq Eligible
         /\ tried # 0 => OfGroup(Groups[tried]) \subseteq OfGroup(Groups[tried + 1])
         /\ \A n \in {1, 6} :
              \/ OfGroup(Groups[tried + 1]) \subseteq OfGroup(n)
              \/ tried # 0 /\ OfGroup(n) \subseteq OfGroup(Groups[tried])
<1>0. \A i \in Eligible : utxos[i].confirmations \in Nat
  BY EligibleIn, CoinsTyped DEF Coin
<1>1. \/ tried = 0 /\ Groups[tried + 1] = 6
      \/ tried = 1 /\ Groups[tried] = 6 /\ Groups[tried + 1] = 1
      \/ tried = 2 /\ Groups[tried] = 1 /\ Groups[tried + 1] = 0
  <2>1. CASE opts.confirmed
    <3>1. Groups = <<6, 1>>
      BY <2>1 DEF Groups
    <3>2. tried \in {0, 1}
      BY <3>1
    <3> QED
      BY <3>1, <3>2
  <2>2. CASE ~opts.confirmed
    <3>1. Groups = <<6, 1, 0>>
      BY <2>2 DEF Groups
    <3>2. tried \in {0, 1, 2}
      BY <3>1
    <3> QED
      BY <3>1, <3>2
  <2> QED
    BY <2>1, <2>2
<1>2. \A k, n \in {0, 1, 6} : k >= n => OfGroup(k) \subseteq OfGroup(n)
  BY <1>0 DEF OfGroup
<1>3. \A n : OfGroup(n) \subseteq Eligible
  BY DEF OfGroup
<1> QED
  BY <1>1, <1>2, <1>3

(* Fewer coins do no better. *)
LEMMA FewerNoBetter ==
  ASSUME NEW C, NoWay(C), NEW D, D \subseteq C
  PROVE  NoWay(D)
BY DEF NoWay

(* A group is not looked at again when it has no more coins than the last. *)
LEMMA SameGroup ==
  ASSUME utxos \in Seq(Coin), NEW C \in SUBSET Places, NEW D \in SUBSET C,
         Cardinality(D) = Cardinality(C)
  PROVE  D = C
<1>1. IsFiniteSet(C)
  BY PlacesSized
<1> QED
  BY <1>1, FS_Subset

(* When the next group has as many coins as the last, they are the same, and would not do. *)
LEMMA LookedSkip ==
  ASSUME Selecting, NEW tried \in 0..3, tried = group.tried, tried < Len(Groups),
         utxos \in Seq(Coin), Searching, txp.inputs = {},
         group.length = Cardinality(OfGroup(Groups[tried + 1]))
  PROVE  tried # 0 /\ NoWay(OfGroup(Groups[tried + 1]))
<1>1. PICK C : C = OfGroup(Groups[tried + 1]) /\ C \in SUBSET Places
  BY GroupsOfCoins, EligibleIn
<1>2. Cardinality(C) \in Nat
  BY <1>1, PlacesSized
<1>3. tried # 0
  BY <1>1, <1>2 DEF Searching, Absent
<1>4. PICK D : D = OfGroup(Groups[tried]) /\ D \in SUBSET C
  BY <1>1, <1>3, GroupsOfCoins
<1>5. Cardinality(D) = Cardinality(C) /\ NoWay(D)
  BY <1>1, <1>3, <1>4 DEF Searching, LastGroup
<1>6. D = C
  BY <1>1, <1>4, <1>5, SameGroup
<1> QED
  BY <1>1, <1>3, <1>5, <1>6

(* What is chosen of the next group is chosen rightly. *)
LEMMA ChosenRightly ==
  ASSUME utxos \in Seq(Coin), NEW tried \in 0..3, tried = group.tried, tried < Len(Groups),
         Searching, txp.inputs = {}, NEW S, S \subseteq OfGroup(Groups[tried + 1])
  PROVE  \A n \in {1, 6} : S \ OfGroup(n) # {} => NoWay(OfGroup(n))
<1>1. tried # 0 => NoWay(OfGroup(Groups[tried]))
  BY DEF Searching, LastGroup
<1>2. TAKE n \in {1, 6}
<1>3. CASE OfGroup(Groups[tried + 1]) \subseteq OfGroup(n)
  BY <1>3
<1>4. CASE tried # 0 /\ OfGroup(n) \subseteq OfGroup(Groups[tried])
  BY <1>1, <1>4, FewerNoBetter
<1> QED
  BY <1>3, <1>4, GroupsOfCoins

(* After a group, its coins were looked at: chosen, or found not to do. *)
LEMMA LookedSelectGroup ==
  ASSUME Selecting, SelectGroup
  PROVE  Looked'
<1>1. /\ step = "group" /\ step' = "group" /\ UNCHANGED <<utxos, opts>> /\ txp.inputs = {}
      /\ group.tried < Len(Groups) /\ Searching /\ txp.amount > 0 /\ txp.feePerKb >= 0
  BY DEF SelectGroup, Turn, Selecting, Looked
<1>2. CoinsAsked /\ utxos \in Seq(Coin)
  BY <1>1, Asking
<1>3. PICK tried \in 0..3 : tried = group.tried /\ tried < Len(Groups)
  BY <1>1 DEF Selecting, SelectionInv, SelectionTypeOK
<1>4. tried + 1 \in 1..Len(Groups)
  <2>1. Len(Groups) \in {2, 3}
    BY <1>2, AllInLastGroup
  <2> QED
    BY <1>3, <2>1
<1>5. PICK C : C = OfGroup(Groups[tried + 1]) /\ C \subseteq Eligible /\ C \in SUBSET Places
  BY <1>2, <1>3, GroupsOfCoins, EligibleIn
<1>6. C = {i \in Eligible : utxos[i].confirmations >= Groups[group.tried + 1]}
  BY <1>3, <1>5 DEF OfGroup
<1>7. PICK found : found = Select(C)
  OBVIOUS
<1>8. \/ /\ Cardinality(C) = group.length
         /\ group' = [group EXCEPT !.tried = @ + 1] /\ UNCHANGED txp
      \/ /\ group' = [tried |-> tried + 1, length |-> Cardinality(C)]
         /\ txp' = [txp EXCEPT !.inputs = found.inputs, !.fee = found.fee]
  BY <1>3, <1>6, <1>7, Zenon DEF SelectGroup
<1>9. /\ group'.tried = tried + 1 /\ group'.length = Cardinality(C)
      /\ txp'.amount = txp.amount /\ txp'.feePerKb = txp.feePerKb
  <2>1. /\ txp \in [amount : Int, feePerKb : Int, inputs : SUBSET (1..Len(utxos)), fee : Int]
        /\ group \in [tried : 0..3, length : Nat \cup {Absent}]
    BY DEF Selecting, SelectionInv, SelectionTypeOK
  <2>2. CASE /\ Cardinality(C) = group.length
             /\ group' = [group EXCEPT !.tried = @ + 1] /\ UNCHANGED txp
    BY <1>3, <2>1, <2>2
  <2>3. CASE /\ group' = [tried |-> tried + 1, length |-> Cardinality(C)]
             /\ txp' = [txp EXCEPT !.inputs = found.inputs, !.fee = found.fee]
    BY <2>1, <2>3
  <2> QED
    BY <1>8, <2>2, <2>3
<1>10. /\ \A n : OfGroup(n)' = OfGroup(n)
       /\ \A n : NoWay(OfGroup(n))' <=> NoWay(OfGroup(n))
       /\ Groups' = Groups
  <2>1. Groups' = Groups
    BY <1>1 DEF Groups
  <2> QED
    BY <1>1, <1>9, <2>1, WaysStay
<1>11. IF txp'.inputs = {} THEN NoWay(C)
       ELSE /\ \A n \in {1, 6} : txp'.inputs \ OfGroup(n) # {} => NoWay(OfGroup(n))
            /\ Left' >= 0
            /\ EstimatedSize(Cardinality(txp'.inputs)) > MaxTxSize => NoWay(C)
  <2>1. CASE Cardinality(C) = group.length /\ UNCHANGED txp
    <3>1. NoWay(C)
      BY <1>1, <1>2, <1>3, <1>5, <2>1, LookedSkip
    <3> QED
      BY <1>1, <2>1, <3>1
  <2>2. CASE txp' = [txp EXCEPT !.inputs = found.inputs, !.fee = found.fee]
    <3>1. Finds(C, found)
      BY <1>2, <1>5, <1>7, SelectFinds DEF Selecting
    <3>2. txp'.inputs = found.inputs /\ txp'.fee = found.fee
      BY <2>2 DEF Selecting, SelectionInv, SelectionTypeOK
    <3>3. found.inputs \subseteq C
      <4>1. CoinsKnown
        BY DEF Selecting, SelectionInv, SelectionTypeOK, CoinsKnown
      <4> QED
        BY <1>5, <1>7, <4>1, Selects
    <3>4. \A n \in {1, 6} : found.inputs \ OfGroup(n) # {} => NoWay(OfGroup(n))
      BY <1>1, <1>2, <1>3, <1>5, <3>3, ChosenRightly
    <3>5. found.inputs # {} => Left' >= 0
      <4>1. PICK S : S = found.inputs
        OBVIOUS
      <4>2. Value(S)' = Value(S)
        BY <1>1, <1>9, Steady
      <4>3. Left' = Value(S) - txp.amount - found.fee
        BY <1>9, <3>2, <4>1, <4>2 DEF Left
      <4> QED
        BY <3>1, <4>1, <4>3 DEF Finds
    <3> QED
      BY <3>1, <3>2, <3>4, <3>5 DEF Finds
  <2> QED
    BY <1>8, <2>1, <2>2
<1>12. Searching'
  <2>1. group'.tried \in 1..Len(Groups')
    BY <1>4, <1>9, <1>10
  <2>2. /\ OfGroup(Groups[tried + 1])' = C
        /\ NoWay(OfGroup(Groups[tried + 1]))' <=> NoWay(C)
    BY <1>5, <1>10
  <2>3. /\ OfGroup(Groups[group.tried])' = C
        /\ NoWay(OfGroup(Groups[group.tried]))' <=> NoWay(C)
    BY <1>9, <2>2
  <2>4. LastGroup' = C /\ (NoWay(LastGroup)' <=> NoWay(C))
    BY <2>3 DEF LastGroup
  <2>5. (txp'.inputs # {} => ChosenPays') /\ (txp'.inputs = {} => NoWay(LastGroup)')
    BY <1>11, <2>4 DEF ChosenPays, EstimatedSize
  <2>6. IF txp'.inputs = {} THEN NoWay(LastGroup)' ELSE Rightly' /\ ChosenPays'
    BY <1>10, <1>11, <2>5 DEF Rightly
  <2> QED
    BY <1>9, <2>1, <2>4, <2>6 DEF Searching
<1> QED
  BY <1>1, <1>9, <1>12 DEF Looked

(* The search ends with coins, or after the group of all of them. *)
LEMMA LookedEndSelection ==
  ASSUME Selecting, EndSelection
  PROVE  Looked'
<1>1. /\ step = "group" /\ UNCHANGED <<utxos, opts, txp, group>>
      /\ txp.inputs # {} \/ group.tried = Len(Groups)
      /\ step' = IF txp.inputs = {} THEN "done" ELSE "check"
      /\ Searching /\ txp.amount > 0 /\ txp.feePerKb >= 0
  BY DEF EndSelection, Turn, Keep, Selecting, Looked
<1>2. utxos \in Seq(Coin)
  BY <1>1, Asking
<1>3. CASE txp.inputs # {}
  <2>1. Rightly /\ ChosenPays
    BY <1>1, <1>3, Zenon DEF Searching
  <2> QED
    BY <1>1, <1>3, <2>1, RightlyStays, LastGroupStays DEF Looked
<1>4. CASE txp.inputs = {}
  <2>1. Rightly
    BY <1>4 DEF Rightly
  <2>2. NoWay(Eligible) /\ NoWay(LastGroup)
    <3>1. PICK n : n = Len(Groups) /\ n \in {2, 3} /\ OfGroup(Groups[n]) = Eligible
      BY <1>2, AllInLastGroup
    <3>2. group.tried = n /\ n # 0
      BY <1>1, <1>4, <3>1
    <3>3. NoWay(LastGroup) /\ LastGroup = OfGroup(Groups[n])
      BY <1>1, <1>4, <3>2 DEF Searching, LastGroup
    <3> QED
      BY <3>1, <3>3
  <2> QED
    BY <1>1, <1>4, <2>1, <2>2, RightlyStays, LastGroupStays DEF Looked
<1> QED
  BY <1>3, <1>4

(* What was chosen pays, if it fits. *)
LEMMA LookedCheckTx ==
  ASSUME Selecting, CheckTx
  PROVE  Looked'
<1>1. /\ step = "check" /\ step' = "done" /\ UNCHANGED <<utxos, opts, txp, group>>
      /\ Rightly /\ ChosenPays /\ ~opts.sendMax
  BY DEF CheckTx, Turn, Keep, Refuse, Selecting, Looked, Selected
<1>2. utxos \in Seq(Coin) /\ txp.inputs \in SUBSET Places
  BY DEF Selecting, SelectionInv, SelectionTypeOK, Places
<1>3. Left \in Int
  <2>1. Value(txp.inputs) \in Nat
    BY <1>2, ValueLaws
  <2> QED
    BY <2>1 DEF Left, Selecting, SelectionInv, SelectionTypeOK
<1>4. BitcoreError \in {"DUST_AMOUNT", "none"}
  <2>1. Left >= 0
    BY <1>1, Zenon DEF ChosenPays
  <2> QED
    BY <1>1, <1>3, <2>1 DEF BitcoreError
<1>5. \/ error' = "TX_MAX_SIZE_EXCEEDED" /\ NoWay(LastGroup)
      \/ error' \in {"BUILD", "DUST_AMOUNT", "none"}
  <2>1. \/ /\ EstimatedSize(Cardinality(txp.inputs)) > MaxTxSize
           /\ error' = "TX_MAX_SIZE_EXCEEDED"
        \/ error' \in {"BUILD", BitcoreError}
    BY DEF CheckTx, Refuse
  <2>2. EstimatedSize(Cardinality(txp.inputs)) > MaxTxSize => NoWay(LastGroup)
    BY <1>1, Zenon DEF ChosenPays
  <2> QED
    BY <1>4, <2>1, <2>2
<1> QED
  BY <1>1, <1>5, RightlyStays, LastGroupStays DEF Looked, Insufficient

(* The cached levels play no part, and nor does a step of nothing. *)
LEMMA LookedStays ==
  ASSUME Selecting, LevelsExpire \/ UNCHANGED selectionVars
  PROVE  Looked'
<1>1. UNCHANGED <<utxos, opts, step, txp, group, error>>
  BY DEF LevelsExpire, selectionVars
<1>2. Searching' <=> Searching
  BY <1>1, RightlyStays, LastGroupStays DEF Searching
<1> QED
  BY <1>1, <1>2, RightlyStays, LastGroupStays DEF Selecting, Looked

(* What createTx knows of the funds, it knows after every step; the other steps are
   not those of a selection. *)
LEMMA LookedStep ==
  ASSUME Selecting, [SelectionNext]_selectionVars
  PROVE  Looked'
<1>1. Selecting /\ ~opts.sendMax /\ opts.coin = "btc" /\ opts.inputs = {}
  BY DEF Selecting, Selected
<1>2. ~SendMax
  BY <1>1 DEF SendMax, Turn, Selecting, SelectionInv
<1>3. ~TakeInputs
  BY <1>1, NoInputsYet DEF TakeInputs, Turn, Early
<1>4. ~TakeAddress
  BY <1>1 DEF TakeAddress
<1> QED
  BY <1>2, <1>3, <1>4, LookedStays, LookedChecks, LookedGetFeePerKb, LookedCheckFunds,
     LookedSelectGroup, LookedEndSelection, LookedCheckTx, Zenon DEF SelectionNext

(* No step touches the coins and the options. *)
LEMMA CoinsStay ==
  ASSUME [SelectionNext]_selectionVars
  PROVE  UNCHANGED <<utxos, opts>>
<1>1. ASSUME Validate \/ SendMax \/ ValidateOutputs \/ CanCreateTx \/ GetFeePerKb \/ TakeInputs
               \/ TakeAddress \/ CheckFunds \/ EndSelection \/ CheckTx
      PROVE  Keep
  <2>1. Validate => Keep
    BY Zenon DEF Validate
  <2>2. SendMax => Keep
    BY Zenon DEF SendMax
  <2>3. ValidateOutputs => Keep
    BY Zenon DEF ValidateOutputs
  <2>4. CanCreateTx => Keep
    BY Zenon DEF CanCreateTx
  <2>5. GetFeePerKb => Keep
    BY Zenon DEF GetFeePerKb
  <2>6. TakeInputs => Keep
    BY Zenon DEF TakeInputs
  <2>7. TakeAddress => Keep
    BY DEF TakeAddress
  <2>8. CheckFunds => Keep
    BY Zenon DEF CheckFunds
  <2>9. EndSelection => Keep
    BY Zenon DEF EndSelection
  <2>10. CheckTx => Keep
    BY Zenon DEF CheckTx
  <2> QED
    BY <1>1, <2>1, <2>2, <2>3, <2>4, <2>5, <2>6, <2>7, <2>8, <2>9, <2>10, Zenon
<1>2. ASSUME LevelsExpire \/ SelectGroup \/ UNCHANGED selectionVars
      PROVE  UNCHANGED <<utxos, opts>>
  <2>1. CASE SelectGroup
    <3>1. UNCHANGED <<utxos, levels, opts, step>>
      BY <2>1, Zenon DEF SelectGroup
    <3> QED
      BY <3>1
  <2>2. CASE LevelsExpire \/ UNCHANGED selectionVars
    BY <2>2 DEF LevelsExpire, selectionVars
  <2> QED
    BY <1>2, <2>1, <2>2
<1> QED
  BY <1>1, <1>2 DEF SelectionNext, Keep

(* The invariant, for any wallet. *)
FundsInv == SelectionInv /\ (Selected => Looked)

(* It holds at first, *)
LEMMA FundsBegin ==
  ASSUME SelectionInit
  PROVE  FundsInv
<1>1. SelectionInv
  BY SelectionBegins
<1>2. step = "validate" /\ txp.feePerKb = opts.feePerKb
  BY DEF SelectionInit
<1> QED
  BY <1>1, <1>2 DEF FundsInv, Looked

(* ... and after every step. *)
LEMMA FundsStep ==
  ASSUME FundsInv, [SelectionNext]_selectionVars
  PROVE  FundsInv'
<1>1. SelectionInv'
  BY SelectionStep DEF FundsInv
<1>2. Selected' <=> Selected
  BY CoinsStay, StillSelecting
<1>3. ASSUME Selected
      PROVE  Looked'
  BY <1>3, LookedStep DEF FundsInv, Selecting
<1> QED
  BY <1>1, <1>2, <1>3 DEF FundsInv

(* createTx says that funds are insufficient only when no choice of coins would do, that
   the transaction is too large only when none of the group looked at last would, and
   spends coins with fewer confirmations only when those with more would not
   (FundsFound): server.js:1890-2154, _selectTxInputs.  It is so for any wallet and
   options: the search for small coins that finds no end that fits has tried the best
   choice of every size that does, and beside a big coin it ends after a few of them. *)
THEOREM FundsAreFound ==
  SelectionSpec => []FundsFound
<1>1. SelectionInit => FundsInv
  BY FundsBegin
<1>2. FundsInv /\ [SelectionNext]_selectionVars => FundsInv'
  BY FundsStep
<1>3. FundsInv => FundsFound
  <2>1. SUFFICES ASSUME FundsInv, step = "done", Selected
                 PROVE  /\ error \in Insufficient => ~CanPay(Eligible)
                        /\ error = "TX_MAX_SIZE_EXCEEDED" => ~CanPay(OfGroup(Groups[group.tried]))
                        /\ \A n \in {1, 6} : txp.inputs \ OfGroup(n) # {} => ~CanPay(OfGroup(n))
    BY DEF FundsFound
  <2>2. \A S : NoWay(S) => ~CanPay(S)
    BY DEF NoWay, CanPay
  <2>3. /\ Rightly /\ (error \in Insufficient => NoWay(Eligible))
        /\ error = "TX_MAX_SIZE_EXCEEDED" => NoWay(OfGroup(Groups[group.tried]))
    BY <2>1 DEF FundsInv, Looked, LastGroup
  <2> QED
    BY <2>2, <2>3 DEF Rightly
<1> QED
  BY <1>1, <1>2, <1>3, PTL DEF SelectionSpec

-----------------------------------------------------------------------------
(* The sum of two sets that have nothing in common. *)
LEMMA SumOfBoth ==
  ASSUME NEW D, NEW v, NEW F, IsSum(F, D, v)
  PROVE  \A B \in SUBSET D : \A A \in SUBSET D : A \cap B = {} => F[A \cup B] = F[A] + F[B]
<1> DEFINE Q == {B \in SUBSET D :
                   \A A \in SUBSET D : A \cap B = {} => F[A \cup B] = F[A] + F[B]}
<1>0. \A A \in SUBSET D : F[A] \in Nat
  BY DEF IsSum
<1>1. {} \in Q
  <2>1. ASSUME NEW A \in SUBSET D PROVE F[A \cup {}] = F[A] + F[{}]
    <3>1. A \cup {} = A /\ F[{}] = 0 /\ F[A] \in Nat
      BY <1>0 DEF IsSum
    <3> QED
      BY <3>1
  <2> QED
    BY <2>1
<1>2. ASSUME NEW B \in SUBSET D, NEW x \in D \ B, B \in Q
      PROVE  B \cup {x} \in Q
  <2>1. PICK C \in SUBSET D : C = B \cup {x}
    OBVIOUS
  <2>2. F[C] = v[x] + F[B] /\ v[x] \in Nat
    <3>1. C \ {x} = B /\ x \in C
      BY <2>1
    <3> QED
      BY <2>1, <3>1 DEF IsSum
  <2>3. ASSUME NEW A \in SUBSET D, A \cap C = {}
        PROVE  F[A \cup C] = F[A] + F[C]
    <3>1. PICK E \in SUBSET D : E = A \cup C
      OBVIOUS
    <3>2. A \cap B = {} /\ x \in E /\ E \ {x} = A \cup B
      BY <2>1, <2>3, <3>1
    <3>3. F[E] = v[x] + F[A \cup B]
      BY <3>2 DEF IsSum
    <3>4. F[A \cup B] = F[A] + F[B]
      BY <1>2, <3>2
    <3>5. F[A] \in Nat /\ F[B] \in Nat
      BY <1>0
    <3> QED
      BY <2>2, <3>1, <3>3, <3>4, <3>5
  <2> QED
    BY <2>1, <2>3
<1>3. IsFiniteSet(D)
  BY DEF IsSum
<1>4. SUBSET D \subseteq Q
  <2> HIDE DEF Q
  <2> QED
    BY <1>1, <1>2, <1>3, SetInduction
<1> QED
  BY <1>4

Amounts(parts) == [i \in DOMAIN parts |-> parts[i].amount]

(* The places of the parts of a transaction, and their amounts. *)
LEMMA PartsTyped ==
  ASSUME NEW parts \in Seq(Part)
  PROVE  /\ IsFiniteSet(DOMAIN parts) /\ DOMAIN parts \subseteq Nat
         /\ Amounts(parts) \in [DOMAIN parts -> Nat]
         /\ \A i \in DOMAIN parts : parts[i] \in Part /\ Amounts(parts)[i] = parts[i].amount
<1>1. /\ Len(parts) \in Nat /\ DOMAIN parts = 1..Len(parts)
      /\ \A i \in DOMAIN parts : parts[i] \in Part
  OBVIOUS
<1>2. IsFiniteSet(DOMAIN parts) /\ DOMAIN parts \subseteq Nat
  <2>1. IsFiniteSet(1..Len(parts))
    BY <1>1, FS_Interval
  <2> QED
    BY <1>1, <2>1
<1> QED
  BY <1>1, <1>2 DEF Amounts, Part

(* The fold of Sum is the function that adds up the amounts. *)
LEMMA SumIsAdded ==
  ASSUME NEW parts \in Seq(Part), NEW F, IsSum(F, DOMAIN parts, Amounts(parts)),
         NEW S \in SUBSET DOMAIN parts
  PROVE  Sum(parts, S) = F[S]
<1> DEFINE Solves(g) == g = [s \in SUBSET S |->
                               IF s = {} THEN 0
                               ELSE parts[CHOOSE x \in s : TRUE].amount
                                      + g[s \ {CHOOSE x \in s : TRUE}]]
<1>1. ASSUME NEW g
      PROVE  Solves(g) <=> Adds(g, S, Amounts(parts))
  <2>1. ASSUME NEW s \in SUBSET S, s # {}
        PROVE  parts[CHOOSE x \in s : TRUE].amount = Amounts(parts)[CHOOSE x \in s : TRUE]
    <3>1. PICK x \in s : x = CHOOSE y \in s : TRUE
      BY <2>1
    <3>2. Amounts(parts)[x] = parts[x].amount
      BY DEF Amounts
    <3> QED
      BY <3>1, <3>2
  <2> QED
    BY <2>1 DEF Adds
<1>2. PICK h : h = [s \in SUBSET S |-> F[s]]
  OBVIOUS
<1>3. Adds(h, S, Amounts(parts))
  BY <1>2, SumSolves
<1>4. PICK c : c = CHOOSE g : Solves(g)
  OBVIOUS
<1>5. Adds(c, S, Amounts(parts))
  <2> HIDE DEF Solves
  <2>1. Solves(h)
    BY <1>1, <1>3
  <2>2. Solves(c)
    BY <1>4, <2>1
  <2> QED
    BY <1>1, <2>2
<1>6. c[S] = F[S]
  <2>2. \A s \in SUBSET S : c[s] = F[s]
    BY <1>5, SumIsOnly
  <2> QED
    BY <2>2
<1>7. Sum(parts, S) = c[S]
  BY <1>4 DEF Sum, MapThenSumSet, MapThenFoldSet
<1> QED
  BY <1>6, <1>7

(* What Sum is: a natural number, no less of more parts, and of two sets of parts with
   nothing in common what each of them is. *)
LEMMA SumLaws ==
  ASSUME NEW parts \in Seq(Part)
  PROVE  /\ Sum(parts, {}) = 0
         /\ \A S \in SUBSET DOMAIN parts : Sum(parts, S) \in Nat
         /\ \A A, B \in SUBSET DOMAIN parts :
              A \cap B = {} => Sum(parts, A \cup B) = Sum(parts, A) + Sum(parts, B)
<1>1. IsFiniteSet(DOMAIN parts) /\ Amounts(parts) \in [DOMAIN parts -> Nat]
  BY PartsTyped
<1>2. PICK F : IsSum(F, DOMAIN parts, Amounts(parts))
  BY <1>1, SumExists
<1>3. \A S \in SUBSET DOMAIN parts : Sum(parts, S) = F[S]
  BY <1>2, SumIsAdded
<1>4. Sum(parts, {}) = 0
  <2>1. PICK e \in SUBSET DOMAIN parts : e = {}
    OBVIOUS
  <2>2. Sum(parts, e) = F[e] /\ F[e] = 0
    BY <1>2, <1>3, <2>1 DEF IsSum
  <2> QED
    BY <2>1, <2>2
<1>5. \A S \in SUBSET DOMAIN parts : Sum(parts, S) \in Nat
  BY <1>2, <1>3 DEF IsSum
<1>6. ASSUME NEW A \in SUBSET DOMAIN parts, NEW B \in SUBSET DOMAIN parts, A \cap B = {}
      PROVE  Sum(parts, A \cup B) = Sum(parts, A) + Sum(parts, B)
  <2>1. PICK C \in SUBSET DOMAIN parts : C = A \cup B
    OBVIOUS
  <2>2. F[A \cup B] = F[A] + F[B]
    BY <1>2, <1>6, SumOfBoth
  <2>3. Sum(parts, C) = F[C] /\ Sum(parts, A) = F[A] /\ Sum(parts, B) = F[B]
    BY <1>3
  <2> QED
    BY <2>1, <2>2, <2>3
<1> QED
  BY <1>4, <1>5, <1>6

-----------------------------------------------------------------------------
(* The outputs of a transaction go outside, to the wallet or back to it as change, and
   what its inputs hold is what the outputs hold and the fee. *)
LEMMA WhereItGoes ==
  ASSUME NEW item \in Items
  PROVE  /\ item \in Item
         /\ AmountIn(item) \in Nat /\ AmountOut(item) \in Nat
         /\ AmountOutChange(item) \in Nat /\ OthersGet(item) \in Nat
         /\ Total(item.inputs) \in Nat /\ Total(item.outputs) \in Nat
         /\ Total(item.outputs) = AmountOut(item) + AmountOutChange(item) + OthersGet(item)
         /\ AllMine(item) => AmountIn(item) = Total(item.inputs)
         /\ NoneMine(item) => AmountIn(item) = 0
         /\ AllMine(item) => Fees(item) >= 0
<1>1. item \in Item /\ (item.inputs # <<>> => Fees(item) >= 0)
  BY HistoryItemsAssumption
<1>2. PICK ins \in Seq(Part), outs \in Seq(Part) : ins = item.inputs /\ outs = item.outputs
  BY <1>1 DEF Item
<1>3. PICK M \in SUBSET DOMAIN ins : M = Mine(ins)
  BY DEF Mine
<1>4. PICK W \in SUBSET DOMAIN outs, C \in SUBSET DOMAIN outs :
        W = Mine(outs) /\ C = Change(item)
  BY <1>2 DEF Mine, Change
<1>5. C \subseteq W
  BY <1>2, <1>4 DEF Mine, Change, IsMine, IsChange
<1>6. PICK O \in SUBSET DOMAIN outs, K \in SUBSET DOMAIN outs :
        O = DOMAIN outs \ W /\ K = W \ C
  OBVIOUS
<1>7. /\ AmountIn(item) = Sum(ins, M) /\ AmountOut(item) = Sum(outs, K)
      /\ AmountOutChange(item) = Sum(outs, C) /\ OthersGet(item) = Sum(outs, O)
      /\ Total(item.inputs) = Sum(ins, DOMAIN ins)
      /\ Total(item.outputs) = Sum(outs, DOMAIN outs)
  BY <1>2, <1>3, <1>4, <1>6
     DEF AmountIn, AmountOut, AmountOutChange, OthersGet, External, Total
<1>8. /\ Sum(ins, M) \in Nat /\ Sum(outs, K) \in Nat /\ Sum(outs, C) \in Nat
      /\ Sum(outs, O) \in Nat /\ Sum(ins, DOMAIN ins) \in Nat
      /\ Sum(outs, DOMAIN outs) \in Nat
  BY SumLaws
<1>9. Sum(outs, DOMAIN outs) = Sum(outs, K) + Sum(outs, C) + Sum(outs, O)
  <2>1. Sum(outs, K \cup C) = Sum(outs, K) + Sum(outs, C)
    BY <1>6, SumLaws
  <2>2. PICK W1 \in SUBSET DOMAIN outs : W1 = W
    OBVIOUS
  <2>3. Sum(outs, W1 \cup O) = Sum(outs, W1) + Sum(outs, O)
    <3>1. W1 \cap O = {}
      BY <1>6, <2>2
    <3> QED
      BY <3>1, SumLaws
  <2>4. K \cup C = W1 /\ W1 \cup O = DOMAIN outs
    BY <1>5, <1>6, <2>2
  <2> QED
    BY <1>8, <2>1, <2>3, <2>4
<1>10. AllMine(item) => M = DOMAIN ins /\ ins # <<>>
  BY <1>2, <1>3 DEF AllMine
<1>11. NoneMine(item) => M = {}
  BY <1>2, <1>3 DEF NoneMine
<1>12. Sum(ins, {}) = 0
  BY SumLaws
<1> QED
  BY <1>1, <1>2, <1>7, <1>8, <1>9, <1>10, <1>11, <1>12

(* The amounts of a transaction that only the wallet pays for, by what others get. *)
LEMMA PaidByWallet ==
  ASSUME NEW item \in Items, AllMine(item)
  PROVE  /\ ~Invalid(item)
         /\ OthersGet(item) = 0 => Moved(item)
         /\ OthersGet(item) > 0 =>
              /\ ~Moved(item) /\ Gone(item) > 0
              /\ Gone(item) = OthersGet(item) + (IF AmountOutChange(item) > 0 THEN 0
                                                 ELSE Fees(item))
<1>1. ~Invalid(item)
  BY DEF AllMine, Invalid
<1>2. PICK in \in Nat, out \in Nat, change \in Nat, others \in Nat, fee \in Nat :
        /\ in = AmountIn(item) /\ out = AmountOut(item) /\ change = AmountOutChange(item)
        /\ others = OthersGet(item) /\ fee = Fees(item)
        /\ in = out + change + others + fee
  <2>1. PICK a \in Nat, b \in Nat : a = Total(item.inputs) /\ b = Total(item.outputs)
    BY WhereItGoes
  <2>2. Fees(item) = a - b /\ Fees(item) >= 0
    BY <2>1, WhereItGoes DEF Fees
  <2>3. Fees(item) \in Nat
    BY <2>2
  <2>4. AmountIn(item) = a /\ b = AmountOut(item) + AmountOutChange(item) + OthersGet(item)
    BY <2>1, WhereItGoes
  <2>5. /\ AmountIn(item) \in Nat /\ AmountOut(item) \in Nat
        /\ AmountOutChange(item) \in Nat /\ OthersGet(item) \in Nat
    BY WhereItGoes
  <2>6. AmountIn(item) = AmountOut(item) + AmountOutChange(item) + OthersGet(item) + Fees(item)
    BY <2>2, <2>3, <2>4, <2>5
  <2> QED
    BY <2>3, <2>5, <2>6
<1>3. Moved(item) <=> in = out + change + (IF in > 0 THEN fee ELSE 0)
  BY <1>2 DEF Moved
<1>4. Gone(item) = in - out - change - (IF in > 0 /\ change > 0 THEN fee ELSE 0)
  BY <1>2 DEF Gone
<1>5. others = 0 => Moved(item)
  BY <1>2, <1>3
<1>6. ASSUME others > 0
      PROVE  ~Moved(item) /\ Gone(item) > 0
             /\ Gone(item) = others + (IF change > 0 THEN 0 ELSE fee)
  <2>1. in > 0
    BY <1>2, <1>6
  <2> QED
    BY <1>2, <1>3, <1>4, <1>6, <2>1
<1> QED
  BY <1>1, <1>2, <1>5, <1>6

(* ... and of one that it does not pay for, but that it gets a part of. *)
LEMMA PaidByOthers ==
  ASSUME NEW item \in Items, NoneMine(item), Received(item) > 0
  PROVE  ~Invalid(item) /\ ~Moved(item) /\ ~(Gone(item) > 0) /\ -Gone(item) = Received(item)
<1>1. PICK out \in Nat, change \in Nat :
        /\ out = AmountOut(item) /\ change = AmountOutChange(item) /\ AmountIn(item) = 0
  BY WhereItGoes
<1>2. out + change > 0 /\ Received(item) = out + change
  BY <1>1 DEF Received
<1>3. ~Moved(item)
  BY <1>1, <1>2 DEF Moved
<1>4. Gone(item) = 0 - out - change
  BY <1>1 DEF Gone
<1>5. ~Invalid(item)
  <2>1. ASSUME Invalid(item)
        PROVE  FALSE
    <3>1. PICK none \in Seq(Part) : none = <<>> /\ none = item.outputs
      BY <2>1, WhereItGoes DEF Invalid, Item
    <3>2. DOMAIN item.outputs = {}
      BY <3>1
    <3>3. Mine(item.outputs) \ Change(item) = {} /\ Change(item) = {}
      BY <3>2 DEF Mine, Change
    <3>4. Sum(none, {}) = 0
      BY SumLaws
    <3>5. AmountOut(item) = 0 /\ AmountOutChange(item) = 0
      BY <3>1, <3>3, <3>4 DEF AmountOut, AmountOutChange
    <3> QED
      BY <1>1, <1>2, <3>5
  <2> QED
    BY <2>1
<1> QED
  BY <1>2, <1>3, <1>4, <1>5

(* The amounts that decorate shows are true. *)
LEMMA AmountIsTrue ==
  ASSUME NEW item \in Items, NEW says, says.action = Action(item),
         says.amount = Amount(item), says.to = AddressTo(item), says.outputs = Shown(item)
  PROVE  AmountTrue(item, says)
<1>1. ASSUME AllMine(item), OthersGet(item) = 0
      PROVE  says.action = "moved" /\ says.amount = AmountOut(item)
  <2>1. ~Invalid(item) /\ Moved(item)
    BY <1>1, PaidByWallet
  <2> QED
    BY <2>1 DEF Action, Amount
<1>2. ASSUME AllMine(item), OthersGet(item) # 0
      PROVE  /\ says.action = "sent" /\ says.to = "nobody"
             /\ says.amount = OthersGet(item) + (IF AmountOutChange(item) > 0 THEN 0
                                                ELSE Fees(item))
             /\ External(item) \subseteq says.outputs
  <2>1. OthersGet(item) > 0
    BY <1>2, WhereItGoes
  <2>2. /\ ~Invalid(item) /\ ~Moved(item) /\ Gone(item) > 0
        /\ Gone(item) = OthersGet(item) + (IF AmountOutChange(item) > 0 THEN 0 ELSE Fees(item))
    BY <1>2, <2>1, PaidByWallet
  <2>3. Action(item) = "sent" /\ Amount(item) = Gone(item)
    BY <2>2, Zenon DEF Action, Amount
  <2>4. PICK outs \in Seq(Part) : outs = item.outputs
    BY WhereItGoes DEF Item
  <2>5. External(item) \subseteq DOMAIN outs \ Change(item)
    BY <2>4 DEF External, Mine, Change, IsMine, IsChange
  <2>6. External(item) # {}
    <3>1. ASSUME External(item) = {}
          PROVE  OthersGet(item) = 0
      <4>1. Sum(outs, {}) = 0
        BY SumLaws
      <4> QED
        BY <2>4, <3>1, <4>1 DEF OthersGet
    <3> QED
      BY <1>2, <3>1
  <2>7. AddressTo(item) = "nobody"
    <3>1. PICK E \in SUBSET Nat : E = External(item)
      BY <2>4, <2>5, PartsTyped
    <3>2. Min(E) \in E
      BY <2>6, <3>1, MinOf
    <3>3. AddressTo(item) = item.outputs[Min(E)].owner
      BY <2>3, <2>6, <3>1 DEF AddressTo
    <3>4. ASSUME NEW i \in E
          PROVE  item.outputs[i].owner = "nobody"
      BY <3>1 DEF External, Mine, IsMine
    <3> QED
      BY <3>2, <3>3, <3>4
  <2>8. External(item) \subseteq Shown(item)
    BY <2>3, <2>4, <2>5 DEF Shown
  <2> QED
    BY <2>2, <2>3, <2>7, <2>8
<1>3. ASSUME NoneMine(item), Received(item) > 0
      PROVE  says.action = "received" /\ says.amount = Received(item)
  <2>1. ~Invalid(item) /\ ~Moved(item) /\ ~(Gone(item) > 0) /\ -Gone(item) = Received(item)
    BY <1>3, PaidByOthers
  <2> QED
    BY <2>1, Zenon DEF Action, Amount
<1> QED
  BY <1>1, <1>2, <1>3, Zenon DEF AmountTrue

-----------------------------------------------------------------------------
(* A request knows when it began, and what it knows of the height the chain had then or
   later, unless the explorer failed. *)
CallOK(call, from, height) ==
  /\ call \in Call
  /\ call.at # "idle" =>
       /\ call.since \in 1..from
       /\ call.now => call.since = from
  /\ call.at = "explorer" => ~call.missed
  /\ call.at = "store" => ~call.missed /\ call.height \in call.since..height
  /\ call.at = "done" => call.height \in (IF call.missed THEN 0 ELSE call.since)..height

(* What is kept is a height that the chain had, in this period if it counts. *)
KeptOK ==
  /\ cachedHeight \in [current : 0..chain, last : 0..chain, now : BOOLEAN]
  /\ cachedHeight.now /\ cachedHeight.current > 0 => cachedHeight.current >= mark

ItemsInv ==
  /\ ItemsTypeOK /\ mark \in 1..chain /\ untold < chain
  /\ \A r \in Callers : CallOK(calls[r], mark, chain)
  /\ KeptOK
  /\ ItemsTrue

(* A later block or a later period takes nothing from it. *)
LEMMA CallAtHeight ==
  ASSUME NEW from \in Nat, NEW height \in Nat, NEW later \in Nat, height <= later,
         NEW call, CallOK(call, from, height)
  PROVE  CallOK(call, from, later)
<1>1. call \in Call
  BY DEF CallOK
<1>2. call.since \in Nat /\ call.height \in Nat
  BY <1>1 DEF Call
<1> QED
  BY <1>1, <1>2 DEF CallOK

LEMMA CallInPeriod ==
  ASSUME NEW from \in Nat, NEW height \in Nat, from <= height,
         NEW call, CallOK(call, from, height), NEW later, later = [call EXCEPT !.now = FALSE]
  PROVE  CallOK(later, height, height)
<1>1. call \in Call
  BY DEF CallOK
<1>2. /\ later \in Call /\ ~later.now /\ later.at = call.at /\ later.since = call.since
      /\ later.height = call.height /\ later.missed = call.missed
  BY <1>1 DEF Call
<1>3. call.since \in 1..from => call.since \in 1..height
  OBVIOUS
<1> QED
  BY <1>2, <1>3 DEF CallOK

(* The type of the state, part by part. *)
LEMMA ItemsShape ==
  ASSUME ItemsInv
  PROVE  /\ MaxHeight \in Nat \ {0} /\ MaxMisses \in Nat
         /\ chain \in Nat /\ chain \in 1..MaxHeight
         /\ mark \in Nat /\ mark \in 1..chain
         /\ untold \in Nat /\ untold < chain /\ misses \in 0..MaxMisses
         /\ calls \in [Callers -> Call]
         /\ cachedHeight \in [current : 0..chain, last : 0..chain, now : BOOLEAN]
         /\ cachedHeight.current \in 0..chain /\ cachedHeight.last \in 0..chain
         /\ cachedHeight.now \in BOOLEAN
<1>1. MaxHeight \in Nat \ {0} /\ MaxMisses \in Nat
  BY HistoryItemsAssumption
<1>2. cachedHeight \in [current : 0..chain, last : 0..chain, now : BOOLEAN]
  BY DEF ItemsInv, KeptOK
<1>3. /\ cachedHeight.current \in 0..chain /\ cachedHeight.last \in 0..chain
      /\ cachedHeight.now \in BOOLEAN
  BY <1>2
<1> QED
  BY <1>1, <1>2, <1>3 DEF ItemsInv, ItemsTypeOK

(* What a step has to keep: the heights, what is kept, the requests and the item. *)
LEMMA ItemsKeep ==
  ASSUME ItemsInv,
         chain' \in 1..MaxHeight, mark' \in 1..chain', untold' \in Nat, untold' < chain',
         misses' \in 0..MaxMisses, KeptOK',
         DOMAIN calls' = Callers, calls' = [r \in Callers |-> calls'[r]],
         \A r \in Callers : CallOK(calls'[r], mark', chain'),
         answer' = <<>> \/ ItemsTrue'
  PROVE  ItemsInv'
<1>1. MaxHeight \in Nat \ {0}
  BY ItemsShape
<1>2. cachedHeight' \in [current : 0..MaxHeight, last : 0..MaxHeight, now : BOOLEAN]
  <2>1. PICK top \in 1..MaxHeight : top = chain'
    OBVIOUS
  <2>2. 0..top \subseteq 0..MaxHeight
    BY <1>1, <2>1
  <2>3. cachedHeight' \in [current : 0..top, last : 0..top, now : BOOLEAN]
    BY <2>1 DEF KeptOK
  <2> QED
    BY <2>2, <2>3
<1>3. calls' \in [Callers -> Call]
  BY DEF CallOK
<1>4. ItemsTypeOK'
  BY <1>1, <1>2, <1>3 DEF ItemsTypeOK
<1>5. ItemsTrue'
  BY DEF ItemsTrue
<1> QED
  BY <1>4, <1>5 DEF ItemsInv

(* It holds at first. *)
LEMMA ItemsBegin ==
  ASSUME ItemsInit
  PROVE  ItemsInv
<1>1. MaxHeight \in Nat \ {0} /\ MaxMisses \in Nat
  BY HistoryItemsAssumption
<1>2. Unasked \in Call /\ Unasked.at = "idle"
  BY <1>1 DEF Unasked, Call
<1>3. CallOK(Unasked, 1, 1)
  BY <1>2 DEF CallOK
<1>4. KeptOK
  BY DEF ItemsInit, KeptOK
<1>5. ItemsTypeOK
  BY <1>1, <1>2 DEF ItemsInit, ItemsTypeOK
<1>6. ItemsTrue
  BY DEF ItemsInit, ItemsTrue
<1> QED
  BY <1>3, <1>4, <1>5, <1>6 DEF ItemsInit, ItemsInv

(* Blocks, their messages and periods. *)
LEMMA HeightsStep ==
  ASSUME ItemsInv, answer = <<>>, MineBlock \/ ClearHeight \/ LoseNewBlock \/ Period
  PROVE  ItemsInv'
<1>1. \A r \in Callers : CallOK(calls[r], mark, chain)
  BY DEF ItemsInv
<1>2. CASE MineBlock
  <2>1. /\ chain' = chain + 1 /\ untold' = untold + 1 /\ chain < MaxHeight
        /\ cachedHeight' = cachedHeight /\ calls' = calls /\ mark' = mark
        /\ misses' = misses /\ answer' = <<>>
    BY <1>2 DEF MineBlock
  <2>2. chain' \in Nat /\ chain <= chain' /\ chain' \in 1..MaxHeight /\ mark' \in 1..chain'
    BY <2>1, ItemsShape
  <2>3. ASSUME NEW r \in Callers
        PROVE  CallOK(calls'[r], mark', chain')
    <3>1. CallOK(calls[r], mark, chain')
      BY <1>1, <2>2, CallAtHeight, ItemsShape
    <3> QED
      BY <2>1, <3>1
  <2>4. KeptOK'
    <3>1. PICK top \in Nat : top = chain' /\ 0..chain \subseteq 0..top
      BY <2>1, <2>2, ItemsShape
    <3>2. cachedHeight \in [current : 0..top, last : 0..top, now : BOOLEAN]
      BY <3>1, ItemsShape
    <3> QED
      BY <2>1, <3>1, <3>2 DEF KeptOK, ItemsInv
  <2>5. untold' \in Nat /\ untold' < chain' /\ misses' \in 0..MaxMisses
    BY <2>1, ItemsShape
  <2>6. DOMAIN calls' = Callers /\ calls' = [r \in Callers |-> calls'[r]]
    BY <2>1, ItemsShape
  <2> QED
    BY <2>1, <2>2, <2>3, <2>4, <2>5, <2>6, ItemsKeep
<1>3. CASE ClearHeight
  <2>1. /\ chain' = chain /\ untold > 0 /\ untold' = untold - 1 /\ calls' = calls
        /\ mark' = mark /\ misses' = misses /\ answer' = <<>>
        /\ cachedHeight' = [cachedHeight EXCEPT !.current = 0]
    BY <1>3 DEF ClearHeight
  <2>2. KeptOK'
    <3>1. /\ cachedHeight' \in [current : 0..chain, last : 0..chain, now : BOOLEAN]
          /\ cachedHeight'.current = 0
      BY <2>1, ItemsShape
    <3> QED
      BY <2>1, <3>1 DEF KeptOK
  <2>3. untold' \in Nat /\ untold' < chain'
    BY <2>1, ItemsShape
  <2> QED
    BY <1>1, <2>1, <2>2, <2>3, ItemsKeep, ItemsShape
<1>4. CASE LoseNewBlock
  <2>1. /\ chain' = chain /\ untold > 0 /\ untold' = untold - 1 /\ calls' = calls
        /\ mark' = mark /\ answer' = <<>> /\ cachedHeight' = cachedHeight
        /\ misses < MaxMisses /\ misses' = misses + 1
    BY <1>4 DEF LoseNewBlock, Miss
  <2>2. KeptOK'
    BY <2>1 DEF KeptOK, ItemsInv
  <2>3. untold' \in Nat /\ untold' < chain' /\ misses' \in 0..MaxMisses
    BY <2>1, ItemsShape
  <2> QED
    BY <1>1, <2>1, <2>2, <2>3, ItemsKeep, ItemsShape
<1>5. CASE Period
  <2>1. /\ chain' = chain /\ untold' = untold /\ mark' = chain /\ answer' = <<>>
        /\ misses' = misses /\ cachedHeight' = [cachedHeight EXCEPT !.now = FALSE]
        /\ calls' = [r \in Callers |-> [calls[r] EXCEPT !.now = FALSE]]
    BY <1>5 DEF Period
  <2>2. ASSUME NEW r \in Callers
        PROVE  CallOK(calls'[r], mark', chain')
    <3>1. calls'[r] = [calls[r] EXCEPT !.now = FALSE]
      BY <2>1
    <3>2. mark <= chain
      BY ItemsShape
    <3>3. CallOK(calls'[r], chain, chain)
      BY <1>1, <3>1, <3>2, CallInPeriod, ItemsShape
    <3> QED
      BY <2>1, <3>3
  <2>3. KeptOK'
    <3>1. /\ cachedHeight' \in [current : 0..chain, last : 0..chain, now : BOOLEAN]
          /\ ~cachedHeight'.now
      BY <2>1, ItemsShape
    <3> QED
      BY <2>1, <3>1 DEF KeptOK
  <2>4. chain' \in 1..MaxHeight /\ mark' \in 1..chain'
    BY <2>1, ItemsShape
  <2>5. untold' \in Nat /\ untold' < chain' /\ misses' \in 0..MaxMisses
    BY <2>1, ItemsShape
  <2>6. DOMAIN calls' = Callers /\ calls' = [r \in Callers |-> calls'[r]]
    BY <2>1
  <2> QED
    BY <2>1, <2>2, <2>3, <2>4, <2>5, <2>6, ItemsKeep
<1> QED
  BY <1>2, <1>3, <1>4, <1>5

(* A step of one request keeps the rest. *)
LEMMA OneCall ==
  ASSUME ItemsInv, NEW r \in Callers, NEW call, CallOK(call, mark, chain),
         calls' = [calls EXCEPT ![r] = call]
  PROVE  /\ DOMAIN calls' = Callers /\ calls' = [q \in Callers |-> calls'[q]]
         /\ \A q \in Callers : CallOK(calls'[q], mark, chain)
<1>1. \A q \in Callers : CallOK(calls[q], mark, chain)
  BY DEF ItemsInv
<1>2. \A q \in Callers : calls'[q] = IF q = r THEN call ELSE calls[q]
  BY ItemsShape
<1> QED
  BY <1>1, <1>2, ItemsShape

LEMMA CallBegins ==
  ASSUME ItemsInv
  PROVE  CallOK(Unasked, mark, chain)
<1>1. Unasked \in Call /\ Unasked.at = "idle"
  BY ItemsShape DEF Unasked, Call
<1> QED
  BY <1>1 DEF CallOK

(* The questions of one request. *)
LEMMA AsksStep ==
  ASSUME ItemsInv, answer = <<>>, NEW r \in Callers, GetBlockchainHeight(r)
  PROVE  ItemsInv'
<1>1. /\ chain' = chain /\ untold' = untold /\ mark' = mark /\ answer' = <<>>
      /\ misses' = misses /\ cachedHeight' = cachedHeight
  BY DEF GetBlockchainHeight
<1>2. PICK call : call = IF cachedHeight.current > 0 /\ cachedHeight.now
                         THEN [Unasked EXCEPT !.at = "done", !.height = cachedHeight.current,
                                              !.since = mark]
                         ELSE [Unasked EXCEPT !.at = "explorer", !.since = mark]
  OBVIOUS
<1>3. calls' = [calls EXCEPT ![r] = call]
  BY <1>2 DEF GetBlockchainHeight
<1>4. CallOK(call, mark, chain)
  <2>1. CASE cachedHeight.current > 0 /\ cachedHeight.now
    <3>1. call = [at |-> "done", height |-> cachedHeight.current, now |-> TRUE,
                  since |-> mark, missed |-> FALSE]
      BY <1>2, <2>1 DEF Unasked
    <3>2. cachedHeight.current >= mark
      BY <2>1 DEF ItemsInv, KeptOK
    <3>3. call \in Call
      BY <3>1, ItemsShape DEF Call
    <3>4. call.height \in call.since..chain /\ call.since \in 1..mark /\ call.since = mark
      BY <3>1, <3>2, ItemsShape
    <3> QED
      BY <3>1, <3>3, <3>4 DEF CallOK
  <2>2. CASE ~(cachedHeight.current > 0 /\ cachedHeight.now)
    <3>1. call = [at |-> "explorer", height |-> 0, now |-> TRUE, since |-> mark,
                  missed |-> FALSE]
      BY <1>2, <2>2 DEF Unasked
    <3>2. call \in Call
      BY <3>1, ItemsShape DEF Call
    <3>3. call.since \in 1..mark /\ call.since = mark
      BY <3>1, ItemsShape
    <3> QED
      BY <3>1, <3>2, <3>3 DEF CallOK
  <2> QED
    BY <2>1, <2>2
<1>5. KeptOK'
  BY <1>1 DEF ItemsInv, KeptOK
<1>6. /\ DOMAIN calls' = Callers /\ calls' = [q \in Callers |-> calls'[q]]
      /\ \A q \in Callers : CallOK(calls'[q], mark, chain)
  BY <1>3, <1>4, OneCall
<1> QED
  BY <1>1, <1>5, <1>6, ItemsKeep, ItemsShape

LEMMA FetchesStep ==
  ASSUME ItemsInv, answer = <<>>, NEW r \in Callers, FetchFromBlockchain(r)
  PROVE  ItemsInv'
<1>1. /\ chain' = chain /\ untold' = untold /\ mark' = mark /\ answer' = <<>>
      /\ cachedHeight' = cachedHeight /\ calls[r].at = "explorer"
  BY DEF FetchFromBlockchain
<1>2. PICK c : c = calls[r]
  OBVIOUS
<1>3. CallOK(c, mark, chain) /\ c.at = "explorer"
  BY <1>1, <1>2 DEF ItemsInv
<1>4. c \in Call /\ c.since \in 1..mark /\ (c.now => c.since = mark) /\ ~c.missed
  BY <1>3 DEF CallOK
<1>5. \E call : /\ calls' = [calls EXCEPT ![r] = call]
                /\ CallOK(call, mark, chain) /\ misses' \in 0..MaxMisses
  <2>1. CASE /\ calls' = [calls EXCEPT ![r].at = "store", ![r].height = chain]
             /\ UNCHANGED misses
    <3>1. PICK call : call = [c EXCEPT !.at = "store", !.height = chain]
      OBVIOUS
    <3>2. calls' = [calls EXCEPT ![r] = call]
      BY <1>2, <2>1, <3>1, ItemsShape
    <3>3. /\ call.at = "store" /\ call.height = chain /\ call.now = c.now
          /\ call.since = c.since /\ call.missed = c.missed
      BY <1>4, <3>1 DEF Call
    <3>4. call \in [at : {"store"}, height : {chain}, now : {c.now},
                   since : {c.since}, missed : {c.missed}]
      BY <1>4, <3>1, <3>3 DEF Call
    <3>5. chain \in 0..MaxHeight /\ c.now \in BOOLEAN /\ c.since \in 0..MaxHeight
      BY <1>4, ItemsShape DEF Call
    <3>6. call \in Call
      BY <1>4, <3>4, <3>5 DEF Call
    <3>7. call.height \in call.since..chain
      BY <1>4, <3>3, ItemsShape
    <3>8. CallOK(call, mark, chain)
      BY <1>4, <3>3, <3>6, <3>7 DEF CallOK
    <3> QED
      BY <2>1, <3>2, <3>8, ItemsShape
  <2>2. CASE /\ Miss
             /\ calls' = [calls EXCEPT ![r].at = "done", ![r].height = cachedHeight.last,
                                       ![r].missed = TRUE]
    <3>1. PICK call : call = [c EXCEPT !.at = "done", !.height = cachedHeight.last,
                                       !.missed = TRUE]
      OBVIOUS
    <3>2. calls' = [calls EXCEPT ![r] = call]
      BY <1>2, <2>2, <3>1, ItemsShape
    <3>3. /\ call.at = "done" /\ call.height = cachedHeight.last /\ call.now = c.now
          /\ call.since = c.since /\ call.missed = TRUE
      BY <1>4, <3>1 DEF Call
    <3>4. call \in [at : {"done"}, height : {cachedHeight.last}, now : {c.now},
                   since : {c.since}, missed : {TRUE}]
      BY <1>4, <3>1, <3>3 DEF Call
    <3>5. cachedHeight.last \in 0..MaxHeight /\ c.now \in BOOLEAN /\ c.since \in 0..MaxHeight
      BY <1>4, ItemsShape DEF Call
    <3>6. call \in Call
      BY <1>4, <3>4, <3>5 DEF Call
    <3>7. CallOK(call, mark, chain)
      BY <1>4, <3>3, <3>6, ItemsShape DEF CallOK
    <3>8. misses' \in 0..MaxMisses
      BY <2>2, ItemsShape DEF Miss
    <3> QED
      BY <3>2, <3>7, <3>8
  <2> QED
    BY <2>1, <2>2 DEF FetchFromBlockchain
<1>6. PICK call : /\ calls' = [calls EXCEPT ![r] = call]
                  /\ CallOK(call, mark, chain) /\ misses' \in 0..MaxMisses
  BY <1>5
<1>7. KeptOK'
  BY <1>1 DEF ItemsInv, KeptOK
<1>8. /\ DOMAIN calls' = Callers /\ calls' = [q \in Callers |-> calls'[q]]
      /\ \A q \in Callers : CallOK(calls'[q], mark, chain)
  BY <1>6, OneCall
<1> QED
  BY <1>1, <1>6, <1>7, <1>8, ItemsKeep, ItemsShape

(* What is kept counts from the question: the height is not older than the period of it. *)
LEMMA StoresStep ==
  ASSUME ItemsInv, answer = <<>>, NEW r \in Callers, StoreCurrent(r)
  PROVE  ItemsInv'
<1>1. /\ chain' = chain /\ untold' = untold /\ mark' = mark /\ answer' = <<>>
      /\ misses' = misses /\ calls[r].at = "store"
  BY DEF StoreCurrent
<1>2. PICK c : c = calls[r]
  OBVIOUS
<1>3. CallOK(c, mark, chain) /\ c.at = "store"
  BY <1>1, <1>2 DEF ItemsInv
<1>4. /\ c \in Call /\ c.since \in 1..mark /\ (c.now => c.since = mark) /\ ~c.missed
      /\ c.height \in c.since..chain
  BY <1>3 DEF CallOK
<1>5. c.now \in BOOLEAN /\ c.height \in Nat
  BY <1>4 DEF Call
<1>6. cachedHeight' = [current |-> c.height, last |-> c.height, now |-> c.now]
  BY <1>2 DEF StoreCurrent, UpdatedOn
<1>7. KeptOK'
  <2>1. c.height \in 0..chain
    BY <1>4, <1>5, ItemsShape
  <2>2. c.now => c.height >= mark
    BY <1>4, <1>5, ItemsShape
  <2> QED
    BY <1>1, <1>5, <1>6, <2>1, <2>2 DEF KeptOK
<1>8. PICK call : call = [c EXCEPT !.at = "done"]
  OBVIOUS
<1>9. calls' = [calls EXCEPT ![r] = call]
  BY <1>2, <1>8, ItemsShape DEF StoreCurrent
<1>10. CallOK(call, mark, chain)
  <2>1. /\ call \in Call /\ call.at = "done" /\ call.height = c.height
        /\ call.since = c.since /\ call.now = c.now /\ call.missed = c.missed
    BY <1>4, <1>8 DEF Call
  <2> QED
    BY <1>4, <2>1 DEF CallOK
<1>11. /\ DOMAIN calls' = Callers /\ calls' = [q \in Callers |-> calls'[q]]
       /\ \A q \in Callers : CallOK(calls'[q], mark, chain)
  BY <1>9, <1>10, OneCall
<1> QED
  BY <1>1, <1>7, <1>11, ItemsKeep, ItemsShape

(* The item that is shown is true. *)
LEMMA DecorateStep ==
  ASSUME ItemsInv, answer = <<>>, NEW r \in Callers, NEW item \in Items, Decorate(r, item)
  PROVE  ItemsInv'
<1>1. /\ chain' = chain /\ untold' = untold /\ mark' = mark /\ misses' = misses
      /\ cachedHeight' = cachedHeight /\ calls[r].at = "done"
      /\ calls' = [calls EXCEPT ![r] = Unasked]
  BY DEF Decorate
<1>2. PICK c : c = calls[r]
  OBVIOUS
<1>3. PICK says : says = [action |-> Action(item), amount |-> Amount(item),
                          to |-> AddressTo(item), outputs |-> Shown(item),
                          confirmations |-> Confirmations(item, c.height),
                          of |-> item, call |-> c]
  OBVIOUS
<1>4. answer' = <<says>>
  BY <1>2, <1>3 DEF Decorate
<1>5. AmountTrue(item, says)
  <2>1. /\ says.action = Action(item) /\ says.amount = Amount(item)
        /\ says.to = AddressTo(item) /\ says.outputs = Shown(item)
    BY <1>3, Zenon
  <2> QED
    BY <2>1, AmountIsTrue
<1>6. CallOK(c, mark, chain) /\ c.at = "done"
  BY <1>1, <1>2 DEF ItemsInv
<1>7. /\ c \in Call /\ c.since \in 1..mark
      /\ c.height \in (IF c.missed THEN 0 ELSE c.since)..chain
  BY <1>6 DEF CallOK
<1>8. c.height \in Nat /\ c.missed \in BOOLEAN
  BY <1>7 DEF Call
<1>9. says.confirmations = Confirmations(item, c.height)
  BY <1>3
<1>10. ConfirmationsTrue(item, c, says)'
  <2>1. item \in Item
    BY WhereItGoes
  <2>2. item.blockheight \in Int
    BY <2>1 DEF Item
  <2>3. CASE c.height > 0 /\ item.blockheight >= 0
    <3>1. says.confirmations = c.height - item.blockheight + 1
      BY <1>9, <2>3 DEF Confirmations
    <3>2. c.height \in (IF c.missed THEN 1 ELSE c.since)..chain
      BY <1>7, <1>8, <2>3, ItemsShape
    <3> QED
      BY <1>1, <3>1, <3>2 DEF ConfirmationsTrue
  <2>4. CASE ~(c.height > 0 /\ item.blockheight >= 0)
    <3>1. says.confirmations = item.confirmations
      BY <1>9, <2>4 DEF Confirmations
    <3>2. c.height = 0 \/ item.blockheight < 0
      BY <1>8, <2>2, <2>4
    <3> QED
      BY <3>1, <3>2 DEF ConfirmationsTrue
  <2> QED
    BY <2>3, <2>4
<1>11. ItemsTrue'
  <2>1. answer'[1] = says /\ says.of = item /\ says.call = c
    BY <1>3, <1>4
  <2> QED
    BY <1>5, <1>10, <2>1 DEF ItemsTrue, ConfirmationsTrue
<1>12. KeptOK'
  BY <1>1 DEF ItemsInv, KeptOK
<1>13. /\ DOMAIN calls' = Callers /\ calls' = [q \in Callers |-> calls'[q]]
       /\ \A q \in Callers : CallOK(calls'[q], mark, chain)
  BY <1>1, CallBegins, OneCall
<1> QED
  BY <1>1, <1>11, <1>12, <1>13, ItemsKeep, ItemsShape

LEMMA AgainStep ==
  ASSUME ItemsInv, answer = <<>>, NEW r \in Callers, AskAgain(r)
  PROVE  ItemsInv'
<1>1. /\ chain' = chain /\ untold' = untold /\ mark' = mark /\ misses' = misses
      /\ cachedHeight' = cachedHeight /\ answer' = <<>>
      /\ calls' = [calls EXCEPT ![r] = Unasked]
  BY DEF AskAgain
<1>2. KeptOK'
  BY <1>1 DEF ItemsInv, KeptOK
<1>3. /\ DOMAIN calls' = Callers /\ calls' = [q \in Callers |-> calls'[q]]
      /\ \A q \in Callers : CallOK(calls'[q], mark, chain)
  BY <1>1, CallBegins, OneCall
<1> QED
  BY <1>1, <1>2, <1>3, ItemsKeep, ItemsShape

(* ... and after every step. *)
LEMMA ItemsStep ==
  ASSUME ItemsInv, [ItemsNext]_itemVars
  PROVE  ItemsInv'
<1>1. CASE ItemsNext
  <2>1. answer = <<>>
    BY <1>1 DEF ItemsNext
  <2>2. CASE MineBlock \/ ClearHeight \/ LoseNewBlock \/ Period
    BY <2>1, <2>2, HeightsStep
  <2>3. ASSUME NEW r \in Callers,
               GetBlockchainHeight(r) \/ FetchFromBlockchain(r) \/ StoreCurrent(r)
                 \/ AskAgain(r)
        PROVE  ItemsInv'
    BY <2>1, <2>3, AsksStep, FetchesStep, StoresStep, AgainStep
  <2>4. ASSUME NEW r \in Callers, NEW item \in Items, Decorate(r, item)
        PROVE  ItemsInv'
    BY <2>1, <2>4, DecorateStep
  <2> QED
    BY <1>1, <2>2, <2>3, <2>4, Zenon DEF ItemsNext
<1>2. CASE UNCHANGED itemVars
  <2>1. /\ chain' = chain /\ untold' = untold /\ mark' = mark /\ misses' = misses
        /\ cachedHeight' = cachedHeight /\ answer' = answer /\ calls' = calls
    BY <1>2 DEF itemVars
  <2>2. ItemsTypeOK' /\ KeptOK' /\ ItemsTrue'
    <3>1. ItemsTypeOK'
      BY <2>1 DEF ItemsInv, ItemsTypeOK
    <3>2. KeptOK'
      BY <2>1 DEF ItemsInv, KeptOK
    <3>3. ItemsTrue'
      BY <2>1 DEF ItemsInv, ItemsTrue, ConfirmationsTrue
    <3> QED
      BY <3>1, <3>2, <3>3
  <2> QED
    BY <2>1, <2>2 DEF ItemsInv
<1> QED
  BY <1>1, <1>2

(* An item of the history says truly what happened and how long ago (ItemsTrue):
   server.js:3089-3151, _getBlockchainHeight, and 3184-3276, decorate.  It is so for any
   transactions, any number of requests, any heights and any losses: the height that is
   kept counts from the question for it, and what the outputs of a transaction hold goes
   outside, to the wallet or back to it. *)
THEOREM ItemsAreTrue ==
  ItemsSpec => []ItemsTrue
<1>1. ItemsInit => ItemsInv
  BY ItemsBegin
<1>2. ItemsInv /\ [ItemsNext]_itemVars => ItemsInv'
  BY ItemsStep
<1>3. ItemsInv => ItemsTrue
  BY DEF ItemsInv
<1> QED
  BY <1>1, <1>2, <1>3, PTL DEF ItemsSpec
=============================================================================
