-------------------------- MODULE TxHistoryCache --------------------------
(***************************************************************************)
(* The history cache of a wallet with many addresses: getTxHistory answers *)
(* a page of the wallet's transactions, newest first, from the cache       *)
(* collection or from the explorer, and then caches what is confirmed deep *)
(* enough.  A row is a transaction at its position from the oldest one; a  *)
(* status document holds the total the positions are counted with.  The    *)
(* monitors and broadcasts reset the status; a scan for addresses, which   *)
(* may find transactions among the older ones, clears the rows.  None of   *)
(* it takes the wallet's lock but the scan, so that all of it interleaves. *)
(*                                                                         *)
(* The transactions are 1..MaxTx in their order; those of Hidden are of    *)
(* addresses that only the scan finds.                                     *)
(***************************************************************************)
EXTENDS Naturals, Sequences, FiniteSets

CONSTANTS Requests,  \* bound: requests at a time
          MaxTx,     \* bound: transactions
          Hidden,
          Limit,     \* the length of a page
          None,
          MaxFaults  \* bound: errors of the explorer or the database

ASSUME TxHistoryCacheAssumption ==
  /\ MaxTx \in Nat \ {0} /\ Limit \in Nat \ {0} /\ MaxFaults \in Nat
  /\ Hidden \subseteq 1..MaxTx
  /\ None \notin Nat

Txs == 1..MaxTx
Positions == 0..(MaxTx - 1)

VARIABLES tip,     \* the transactions there are: 1..tip
          deep,    \* those with enough confirmations to be cached: 1..deep
          status,  \* historyCacheStatus: its totalItems, None without or after a reset
          rows,    \* historyCache, by position
          scan,    \* the scan of the wallet
          scanned, \* the addresses of Hidden are stored
          resets,  \* a monitor is about to reset the status
          reqs,    \* the requests
          mixed,   \* history: a request from before the scan stored after it cleared
          faults

world == <<tip, deep, scan, scanned, resets>>
cache == <<status, rows>>
vars == <<world, cache, reqs, mixed, faults>>

Request == [at : {"idle", "status", "rows", "explorer", "store", "done"},
            from : 0..MaxTx, known : BOOLEAN, total : 0..MaxTx,
            page : Seq(Txs), left : SUBSET Positions, ok : BOOLEAN]

TypeOK ==
  /\ tip \in 0..MaxTx /\ deep \in 0..tip
  /\ status \in 0..MaxTx \cup {None}
  /\ rows \in [Positions -> Txs \cup {None}]
  /\ scan \in {"no", "rows", "status", "addresses"}
  /\ scanned \in BOOLEAN /\ resets \in BOOLEAN /\ mixed \in BOOLEAN
  /\ reqs \in [Requests -> Request]
  /\ faults \in 0..MaxFaults

Idle == [at |-> "idle", from |-> 0, known |-> FALSE, total |-> 0, page |-> <<>>,
         left |-> {}, ok |-> TRUE]

Init ==
  /\ tip \in 0..MaxTx /\ deep \in 0..tip
  /\ status = None
  /\ rows = [k \in Positions |-> None]
  /\ scan = "no" /\ scanned = FALSE
  /\ resets = FALSE
  /\ reqs = [r \in Requests |-> Idle]
  /\ mixed = FALSE
  /\ faults = 0

-----------------------------------------------------------------------------
(* The history of the wallet, oldest first. *)
IsOf(known, tx) == known \/ tx \notin Hidden
Number(n, known) == Cardinality({tx \in 1..n : IsOf(known, tx)})
PositionOf(tx, known) == Number(tx - 1, known)
At(k, known) == CHOOSE tx \in Txs : IsOf(known, tx) /\ PositionOf(tx, known) = k

(* The positions of a page: [fwdIndex, end). *)
FwdIndex(total, to) == IF to >= total THEN 0 ELSE total - to
End(total, from) == IF from >= total THEN 0 ELSE total - from
PageOf(total, from) == FwdIndex(total, from + Limit)..(End(total, from) - 1)

(* The transactions at the positions, newest first. *)
InOrder(positions, row) ==
  LET n == Cardinality(positions)
      top == CHOOSE k \in positions : \A l \in positions : l <= k
  IN [i \in 1..n |-> row[top - (i - 1)]]

-----------------------------------------------------------------------------
(* The world. *)

(* A transaction comes; the monitor will see it if it is the wallet's. *)
NewTx ==
  /\ tip < MaxTx
  /\ tip' = tip + 1
  /\ resets' = (resets \/ IsOf(scanned, tip + 1))
  /\ UNCHANGED <<deep, scan, scanned, cache, reqs, mixed, faults>>

Confirm ==
  /\ deep < tip
  /\ deep' = deep + 1
  /\ UNCHANGED <<tip, scan, scanned, resets, cache, reqs, mixed, faults>>

(* softResetTxHistoryCache: the status is replaced by a document without its key,
   which is not found again.  softResetAllTxHistoryCache, at each block, is an
   update of many by a replacement: the database refuses it, the error is not
   looked at, and nothing changes. *)
SoftReset ==
  /\ resets
  /\ resets' = FALSE
  /\ status' = None
  /\ UNCHANGED <<tip, deep, scan, scanned, rows, reqs, mixed, faults>>

(* scan: clearTxHistoryCache removes the rows and then the status; the addresses
   are stored when they have been found.  Bound: one scan. *)
ScanOnly == UNCHANGED <<tip, deep, resets, reqs, mixed, faults>>

StartScan ==
  /\ scan = "no" /\ ~scanned
  /\ scan' = "rows"
  /\ ScanOnly /\ UNCHANGED <<scanned, cache>>

(* Mutant of ClearRows: only the status is removed. *)
ClearNoRows ==
  /\ scan = "rows"
  /\ scan' = "status"
  /\ ScanOnly /\ UNCHANGED <<scanned, cache>>

ClearRows ==
  /\ scan = "rows"
  /\ rows' = [k \in Positions |-> None]
  /\ scan' = "status"
  /\ ScanOnly /\ UNCHANGED <<scanned, status>>

ClearStatus ==
  /\ scan = "status"
  /\ status' = None
  /\ scan' = "addresses"
  /\ ScanOnly /\ UNCHANGED <<scanned, rows>>

StoreAddresses ==
  /\ scan = "addresses"
  /\ scanned' = TRUE
  /\ scan' = "no"
  /\ ScanOnly /\ UNCHANGED cache

-----------------------------------------------------------------------------
(* getTxHistory *)

Become(r, req) == reqs' = [reqs EXCEPT ![r] = req]
ReadOnly == UNCHANGED <<world, cache, mixed, faults>>

(* The addresses are read: there are enough for the cache. *)
GetTxHistory(r, from) ==
  /\ reqs[r].at = "idle"
  /\ Become(r, [Idle EXCEPT !.at = "status", !.from = from, !.known = scanned])
  /\ ReadOnly

(* getTxHistoryCache *)
ReadStatus(r) ==
  /\ reqs[r].at = "status"
  /\ Become(r, IF status = None \/ PageOf(status, reqs[r].from) = {}
               THEN [reqs[r] EXCEPT !.at = "explorer"]
               ELSE [reqs[r] EXCEPT !.at = "rows", !.total = status])
  /\ ReadOnly

Cached(positions) == {k \in positions : rows[k] # None}

(* Mutant of ReadRows: what there is of the page is the answer. *)
ReadSomeRows(r) ==
  /\ reqs[r].at = "rows"
  /\ LET page == Cached(PageOf(reqs[r].total, reqs[r].from))
     IN Become(r, IF page # {}
                  THEN [reqs[r] EXCEPT !.at = "done",
                                       !.page = InOrder(page, rows)]
                  ELSE [reqs[r] EXCEPT !.at = "explorer"])
  /\ ReadOnly

ReadRows(r) ==
  /\ reqs[r].at = "rows"
  /\ LET page == PageOf(reqs[r].total, reqs[r].from)
     IN Become(r, IF Cached(page) = page
                  THEN [reqs[r] EXCEPT !.at = "done",
                                       !.page = InOrder(page, rows)]
                  ELSE [reqs[r] EXCEPT !.at = "explorer"])
  /\ ReadOnly

(* getTransactions: the page and the total as of now, for the addresses that were
   read.  What is deep enough is to be stored, from fwdIndex on. *)
Query(r) ==
  /\ reqs[r].at = "explorer"
  /\ LET known == reqs[r].known
         total == Number(tip, known)
         page == PageOf(total, reqs[r].from)
         old == {k \in page : At(k, known) <= deep}
     IN Become(r, [reqs[r] EXCEPT !.at = IF old = {} THEN "done" ELSE "store",
                                  !.total = total,
                                  !.page = InOrder(page, [k \in page |-> At(k, known)]),
                                  !.left = old])
  /\ ReadOnly

(* A request from before the scan stores what the scan has cleared. *)
Mixes(r) == ~reqs[r].known /\ (scan # "no" \/ scanned)

(* storeTxHistoryCache: the rows, in any order, and then the status. *)
StoreRow(r, k) ==
  /\ reqs[r].at = "store"
  /\ k \in reqs[r].left
  /\ rows' = [rows EXCEPT ![k] = At(k, reqs[r].known)]
  /\ Become(r, [reqs[r] EXCEPT !.left = @ \ {k}])
  /\ mixed' = (mixed \/ Mixes(r))
  /\ UNCHANGED <<world, status, faults>>

StoreStatus(r) ==
  /\ reqs[r].at = "store"
  /\ reqs[r].left = {}
  /\ status' = IF reqs[r].ok THEN reqs[r].total ELSE status
  /\ Become(r, [reqs[r] EXCEPT !.at = "done"])
  /\ mixed' = (mixed \/ Mixes(r))
  /\ UNCHANGED <<world, rows, faults>>

(* The client has its answer. *)
Answered(r) ==
  /\ reqs[r].at = "done"
  /\ Become(r, Idle)
  /\ ReadOnly

(* An error ends the request; that of a row lets the others through, but not the
   status. *)
Fault == faults < MaxFaults /\ faults' = faults + 1

Fails(r) ==
  /\ reqs[r].at \in {"status", "rows", "explorer"}
  /\ Fault
  /\ Become(r, Idle)
  /\ UNCHANGED <<world, cache, mixed>>

RowFails(r, k) ==
  /\ reqs[r].at = "store"
  /\ k \in reqs[r].left
  /\ Fault
  /\ Become(r, [reqs[r] EXCEPT !.left = @ \ {k}, !.ok = FALSE])
  /\ UNCHANGED <<world, cache, mixed>>

(* The process dies with its requests. *)
Crash ==
  /\ Fault
  /\ reqs' = [r \in Requests |-> Idle]
  /\ UNCHANGED <<world, cache, mixed>>

Next ==
  \/ NewTx \/ Confirm \/ SoftReset
  \/ StartScan \/ ClearRows \/ ClearStatus \/ StoreAddresses
  \/ \E r \in Requests :
       \/ \E from \in 0..MaxTx : GetTxHistory(r, from)
       \/ ReadStatus(r) \/ ReadRows(r) \/ Query(r)
       \/ \E k \in Positions : StoreRow(r, k) \/ RowFails(r, k)
       \/ StoreStatus(r) \/ Answered(r) \/ Fails(r)
  \/ Crash

Spec == Init /\ [][Next]_vars

-----------------------------------------------------------------------------
(* Properties *)

(* A row holds the transaction at its position, whatever total it was counted with
   and whoever stored it, unless a request from before a scan stored after it. *)
RowsInPlace == mixed \/ \A k \in Positions : rows[k] # None => rows[k] = At(k, scanned)

(* An answer is a page of the history as it was at some time: without gaps,
   repetitions or transactions of another page. *)
IsPage(req) == \E n \in 0..tip : \E known \in {req.known, scanned} :
                 LET page == PageOf(Number(n, known), req.from)
                 IN req.page = InOrder(page, [k \in page |-> At(k, known)])
AnswerIsPage == mixed \/ \A r \in Requests :
                  reqs[r].at = "done" => IsPage(reqs[r])

(* It is so with scans at any time. *)
AnswerIsAlwaysPage == \A r \in Requests : reqs[r].at = "done" => IsPage(reqs[r])

(* When no reset is due, a status counts every transaction of the wallet. *)
StatusCurrent == status # None /\ ~resets /\ ~mixed => status = Number(tip, scanned)
=============================================================================
