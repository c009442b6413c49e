--------------------------- MODULE HeightMonitor ---------------------------
(***************************************************************************)
(* blockchainmonitorEth.js and blockchainmonitorTry.js: a loop stores the  *)
(* height of the last block it has seen and asks the explorer for the next *)
(* one.  The height is stored first; then the operations on the block are  *)
(* sent off, and the loop goes on without them: the history of the         *)
(* transfers that touch the wallets' addresses, the balances of these      *)
(* addresses, which the explorer is asked for again, and the handlers of   *)
(* PaymentNotices, on which it builds.                                     *)
(*                                                                         *)
(* Chain[h] is the set of transfers of block h.  On try a transaction may  *)
(* make several transfers (log events), and subscriptions to transactions  *)
(* are not looked at.  A balance is the height as of which it is right.    *)
(***************************************************************************)
EXTENDS PaymentNotices, Sequences

CONSTANTS Coin,  \* "eth" or "try"
          Chain,
          MaxAtWork \* bound: blocks that are worked on at a time

MaxHeight == Len(Chain)
Heights == 1..MaxHeight
Transfers == UNION {Chain[h] : h \in Heights}

ASSUME HeightMonitorAssumption ==
  /\ Coin \in {"eth", "try"}
  /\ MaxAtWork \in Nat \ {0}
  /\ Chain \in Seq(SUBSET [hash : Txids, index : Nat, from : Addresses \cup {None},
                           to : Addresses \cup {None}]) \ {<<>>}
  /\ \A g, h \in Heights : \A s \in Chain[g], t \in Chain[h] :
       s.hash = t.hash => g = h /\ (Coin = "eth" => s = t)
  /\ None \notin Transfers
  /\ Heights \X (Transfers \cup {None}) \subseteq Events

VARIABLES tip,      \* the height of the chain
          height,   \* ethCheckHeight, tryCheckHeight: 0 before it is stored
          loop,     \* the turn of _checkBlockHeight
          ops,      \* the operations on blocks that are on their way
          rows,     \* eth_txs, try_txs: the transfer stored for a transaction
          balances, \* the balance cache
          first,    \* history: the first block of the loop, 0 before
          begun,    \* history: the blocks whose handling was begun, in order
          overtaken \* history: addresses a block touches while one before it is worked on

monitorVars == <<tip, height, loop, ops, rows, balances, first, begun,
                 overtaken>>
vars == <<noticeVars, monitorVars>>

Op == [kind : {"find", "row", "balance", "cache"}, block : Heights,
       transfer : Transfers, address : Addresses \cup {None}, balance : 0..MaxHeight]

Loop == [at : {"down", "sleep", "store", "begin"}, last : 0..MaxHeight]

TypeOK ==
  /\ NoticesTypeOK
  /\ tip \in Heights /\ height \in 0..MaxHeight
  /\ loop \in Loop
  /\ ops \subseteq Op
  /\ rows \in [Txids -> Transfers \cup {None}]
  /\ balances \in [Addresses -> 0..MaxHeight]
  /\ first \in 0..MaxHeight /\ begun \in Seq(Heights) /\ overtaken \subseteq Addresses

(* The copayers have subscribed before. *)
Init ==
  /\ NoticesInit(Subscription)
  /\ tip = 1 /\ height = 0
  /\ loop = [at |-> "down", last |-> 0]
  /\ ops = {}
  /\ rows = [t \in Txids |-> None]
  /\ balances = [x \in Addresses |-> 0]
  /\ first = 0 /\ begun = <<>> /\ overtaken = {}

-----------------------------------------------------------------------------
(* _checkBlockHeight *)

LoopOnly == UNCHANGED <<notices, active, subs, jobs, tip, ops, rows, balances>>

Go(at) == loop' = [loop EXCEPT !.at = at]

(* _startLoop *)
StartLoop ==
  /\ loop.at = "down"
  /\ Go("sleep")
  /\ LoopOnly /\ UNCHANGED <<lost, faults, height, first, begun, overtaken>>

(* Mutant of NextHeight: the last block again. *)
NextHeightAgain(last, cur) == IF last = 0 THEN cur ELSE last

(* The first block to look at is the current one. *)
NextHeight(last, cur) == IF last = 0 THEN cur ELSE last + 1

(* A turn: getEthCheckHeight, getBlockchainHeight and getBlockchainData.  Nobody
   else writes the height and a block does not change, so that they are one step.
   A node of the explorer may lag behind the chain. *)
Turn(cur) ==
  /\ loop.at = "sleep"
  /\ \/ cur = tip /\ UNCHANGED faults
     \/ cur < tip /\ Fault("lag")
  /\ cur > height
  /\ loop' = [at |-> "store", last |-> NextHeight(height, cur)]
  /\ LoopOnly /\ UNCHANGED <<lost, height, first, begun, overtaken>>

(* Mutant of TurnFails: no next turn. *)
TurnFailsForGood ==
  /\ loop.at = "store"
  /\ Fault("database")
  /\ Go("stopped")
  /\ LoopOnly /\ UNCHANGED <<lost, height, first, begun, overtaken>>

(* The height can not be stored: it is tried again.  The errors before it change
   nothing but the time of the next turn. *)
TurnFails ==
  /\ loop.at = "store"
  /\ Fault("database")
  /\ Go("sleep")
  /\ LoopOnly /\ UNCHANGED <<lost, height, first, begun, overtaken>>

(* storetEthCheckHeight *)
StoreHeight ==
  /\ loop.at = "store"
  /\ height' = loop.last
  /\ first' = IF first = 0 THEN loop.last ELSE first
  /\ Go("begin")
  /\ LoopOnly /\ UNCHANGED <<lost, faults, begun, overtaken>>

Touched(t) == {t.from, t.to} \cap Addresses

(* The block is handled; nothing of it is waited for. *)
BeginBlock ==
  /\ loop.at = "begin"
  /\ Cardinality({op.block : op \in ops} \cup {job.event[1] : job \in jobs}) < MaxAtWork
  /\ Go("sleep")
  /\ begun' = Append(begun, loop.last)
  /\ LET h == loop.last
         block == Chain[h]
     IN /\ jobs' = jobs \cup
             IF Coin = "eth"
             THEN {BlockJob(<<h, None>>),
                   ConfirmationJob("subs", <<h, None>>, {t.hash : t \in block})}
             ELSE {}
        /\ ops' = ops \cup {[kind |-> "find", block |-> h, transfer |-> t,
                            address |-> None, balance |-> 0] : t \in block}
        /\ overtaken' = overtaken \cup
             {x \in Addresses : /\ \E t \in block : x \in Touched(t)
                                /\ \E op \in ops : x \in Touched(op.transfer)}
  /\ UNCHANGED <<notices, active, subs, lost, faults, tip, height, rows, balances, first>>

-----------------------------------------------------------------------------
(* The operations on a block.  Of each transfer, findAddresses; if it touches a
   wallet, the row of its history, and for each address getAddressBalance,
   update...BalanceCacheSingle and _handleIncomingPaymentsWithAddress. *)

Done(op, others) == ops' = (ops \ {op}) \cup others
OpOnly == UNCHANGED <<notices, active, subs, tip, height, loop, first, begun, overtaken>>

(* Mutant of FindAddresses: only the receiver is looked up. *)
FindReceiver(op) ==
  /\ op.kind = "find"
  /\ Done(op, {[op EXCEPT !.kind = "row"] : x \in {op.transfer.to} \cap Addresses}
              \cup {[op EXCEPT !.kind = "balance", !.address = x]
                    : x \in {op.transfer.to} \cap Addresses})
  /\ OpOnly /\ UNCHANGED <<jobs, lost, faults, rows, balances>>

FindAddresses(op) ==
  /\ op.kind = "find"
  /\ Done(op, {[op EXCEPT !.kind = "row"] : x \in Touched(op.transfer)}
              \cup {[op EXCEPT !.kind = "balance", !.address = x]
                    : x \in Touched(op.transfer)})
  /\ OpOnly /\ UNCHANGED <<jobs, lost, faults, rows, balances>>

(* storeETHTxHistory, storeTRYTxHistory: the row of the transaction is replaced. *)
StoreRow(op) ==
  /\ op.kind = "row"
  /\ rows' = [rows EXCEPT ![op.transfer.hash] = op.transfer]
  /\ Done(op, {})
  /\ OpOnly /\ UNCHANGED <<jobs, lost, faults, balances>>

(* Mutant of GetBalance: the cached one, when there is one. *)
GetBalanceCached(op) ==
  /\ op.kind = "balance"
  /\ Done(op, {[op EXCEPT !.kind = "cache",
                          !.balance = IF balances[op.address] = 0 THEN tip
                                      ELSE balances[op.address]]})
  /\ OpOnly /\ UNCHANGED <<jobs, lost, faults, rows, balances>>

(* getAddressBalance: as of now. *)
GetBalance(op) ==
  /\ op.kind = "balance"
  /\ Done(op, {[op EXCEPT !.kind = "cache", !.balance = tip]})
  /\ OpOnly /\ UNCHANGED <<jobs, lost, faults, rows, balances>>

(* The transaction is handed on as its txid, which the explorer's transactions do
   not have: their field is hash. *)
TxidOf(transfer) == None

UpdateBalance(op) ==
  /\ op.kind = "cache"
  /\ balances' = [balances EXCEPT ![op.address] = op.balance]
  /\ Done(op, {})
  /\ jobs' = jobs \cup PaymentJobs(<<op.block, op.transfer>>, {op.address},
                                  TxidOf(op.transfer))
  /\ OpOnly /\ UNCHANGED <<lost, faults, rows>>

OpFails(op) ==
  /\ Fault(IF op.kind = "balance" THEN "explorer" ELSE "database")
  /\ Done(op, {})
  /\ lost' = lost \cup {<<op.block, op.transfer>>}
  /\ OpOnly /\ UNCHANGED <<jobs, rows, balances>>

Perform(op) == FindAddresses(op) \/ StoreRow(op) \/ GetBalance(op)
               \/ UpdateBalance(op) \/ OpFails(op)

-----------------------------------------------------------------------------

(* The process dies with what is on its way. *)
Crash ==
  /\ loop.at # "down"
  /\ Fault("crash")
  /\ jobs' = {} /\ ops' = {}
  /\ lost' = lost \cup {job.event : job \in jobs}
                  \cup {<<op.block, op.transfer>> : op \in ops}
                  \cup IF loop.at = "begin" THEN {<<loop.last, None>>} ELSE {}
  /\ Go("down")
  /\ UNCHANGED <<notices, active, subs, tip, height, rows, balances, first, begun, overtaken>>

Mine ==
  /\ tip < MaxHeight
  /\ tip' = tip + 1
  /\ UNCHANGED <<noticeVars, height, loop, ops, rows, balances, first, begun, overtaken>>

Next ==
  \/ StartLoop \/ TurnFails \/ StoreHeight \/ BeginBlock
  \/ \E cur \in Heights : Turn(cur)
  \/ \E op \in ops : Perform(op)
  \/ \E job \in jobs : Handle(job) /\ UNCHANGED monitorVars
  \/ Crash \/ Mine

Spec == Init /\ [][Next]_vars

(* Timers fire, and the explorer and the database answer. *)
FairSpec ==
  /\ Spec
  /\ WF_vars(StartLoop \/ Turn(tip) \/ StoreHeight \/ BeginBlock)
  /\ WF_vars(\E op \in ops : Perform(op))
  /\ WF_vars(\E job \in jobs : Handle(job) /\ UNCHANGED monitorVars)

-----------------------------------------------------------------------------
(* Properties *)

Quiet == ops = {} /\ jobs = {} /\ loop.at # "begin"

(* The blocks since the first one whose handling no crash prevented, and their
   transfers of which no operation failed. *)
HandledBlocks == {h \in first..height \ {0} : <<h, None>> \notin lost}
HandledTransfers == {t \in UNION {Chain[h] : h \in HandledBlocks} :
                       \A h \in Heights : <<h, t>> \notin lost}
HeightOf(t) == CHOOSE h \in Heights : t \in Chain[h]

(* Every transaction that touches a wallet has its row in the history, through
   crashes, errors and explorers that lag. *)
RowsRight ==
  Quiet => \A t \in HandledTransfers : Touched(t) # {} => rows[t.hash] # None

(* Each transfer has its own. *)
RowOfEveryTransfer ==
  Quiet => \A t \in HandledTransfers : Touched(t) # {} => rows[t.hash] = t

(* A cached balance is not older than the last block that touches its address;
   excepted are the addresses of which a block was begun while the one before was
   worked on. *)
BalancesFresh(exceptions) ==
  Quiet => \A t \in HandledTransfers : \A x \in Touched(t) \ exceptions :
             balances[x] >= HeightOf(t)

BalancesRight == BalancesFresh(overtaken)

(* It is so for all addresses. *)
BalancesAlwaysRight == BalancesFresh({})

(* The blocks are handled in their order and none twice, and only a crash right after
   a height was stored leaves one out. *)
BlocksOnce ==
  \A i \in 1..Len(begun) - 1 :
    /\ begun[i] < begun[i + 1]
    /\ \A h \in begun[i] + 1..begun[i + 1] - 1 : <<h, None>> \in lost

(* NewIncomingTx tells the address and the transaction of a payment. *)
PaymentNamed ==
  Quiet => \A t \in HandledTransfers : \A x \in ({t.to} \cap Addresses) \ Change :
    PaymentTold(WalletOf[x], t.hash)

(* The loop gets to the tip of the chain, whatever failed on the way. *)
CatchesUp == tip = MaxHeight ~> height = MaxHeight
=============================================================================
