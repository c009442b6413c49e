--------------------------- MODULE BtcBlockScan ---------------------------
(***************************************************************************)
(* The scan of one bitcoin network (blockchainmonitorBtc.js): a loop asks  *)
(* the explorer for one block after the other and stores it in the cache   *)
(* collection; processBlock applies it to the utxo and history             *)
(* collections.  The stored block has a state, SAVED or PROCESSED, by      *)
(* which the loop waits for the processing and a process that starts again *)
(* finds what was interrupted.                                             *)
(*                                                                         *)
(* The explorer serves Chain, a sequence of blocks that grows to MaxHeight *)
(* as tip moves.  The coinbase is not in a block: reqBlockByHeight drops   *)
(* it.  An output is the id of its transaction and its place in it.        *)
(***************************************************************************)
EXTENDS Naturals, Sequences, FiniteSets

CONSTANTS Chain,      \* Chain[h]: the transactions of block h
          Own,        \* the addresses of the wallets
          None,
          MaxFaults,  \* bound: faults in a behaviour
          Faults      \* the faults that may happen, of FaultKinds

FaultKinds == {"crash",      \* the process dies
               "explorer",   \* the explorer answers with an error
               "totals",     \* /totals comes without its numbers
               "truncated",  \* the explorer leaves transactions out
               "database",   \* an operation of the processing fails
               "update",     \* the update to PROCESSED fails
               "restored"}   \* an address is paid before its wallet is known here

MaxHeight == Len(Chain)
Heights == 1..MaxHeight
Txs == UNION {{Chain[h][i] : i \in 1..Len(Chain[h])} : h \in Heights}
Txids == {tx.txid : tx \in Txs}

(* The outputs of a transaction, and whose an output is. *)
Outputs(tx) == {<<tx.txid, n>> : n \in 1..Len(tx.vout)}
AllOutputs == UNION {Outputs(tx) : tx \in Txs}
Owner == [o \in AllOutputs |-> (CHOOSE tx \in Txs : tx.txid = o[1]).vout[o[2]]]

ASSUME BtcBlockScanAssumption ==
  /\ Chain \in Seq(Seq([txid : Txids, vin : SUBSET AllOutputs,
                        vout : Seq(Own \cup {None})]))
  /\ \A s, t \in Txs : s.txid = t.txid => s = t
  /\ None \notin Own
  /\ MaxFaults \in Nat
  /\ Faults \subseteq FaultKinds

(* The network's consensus: a transaction is in one block, and spends outputs of
   its block or of blocks before. *)
ASSUME ChainAssumption ==
  \A g, h \in Heights : \A i \in 1..Len(Chain[g]), j \in 1..Len(Chain[h]) :
    /\ Chain[g][i] = Chain[h][j] => g = h
    /\ Chain[g][i].vin \cap Outputs(Chain[h][j]) # {} => h <= g

VARIABLES tip,       \* the height of the chain
          cache,     \* BTCLatestBlockCache: the block and its processState
          utxo,      \* the btc_utxo collection
          history,   \* btc_txs_history
          txids,     \* btc_address_txids, by address
          known,     \* the addresses collection
          announced, \* the NewBlock notifications, by height, in order
          detected,  \* transactions handed to _handleThirdPartyBroadcasts
          scan,      \* the turn of scanBlock
          due,       \* the timer that calls processBlock is set
          checking,  \* checkDBBlockState has asked for the cache
          proc,      \* the run of processBlock
          pending,   \* the database operations of the processing in flight
          cut,       \* history: blocks whose processing a crash ended
          failed,    \* history: blocks that came short or of which a step failed
          unmarked,  \* history: blocks whose update to PROCESSED failed
          first,     \* history: the first block that was stored, 0 before
          faults     \* how many faults there were

database == <<cache, utxo, history, txids>>
process == <<scan, due, checking, proc, pending>>
vars == <<tip, database, known, announced, detected, process, cut, failed,
          unmarked, first, faults>>

Block == [state : {"SAVED", "PROCESSED"}, height : Heights, txs : Seq(Txs)]

(* None is not a block either. *)
ASSUME NoneIsNothing == None \notin Block

Scan == [at : {"down", "sleep", "load", "latest", "block", "store"},
         height : 0..MaxHeight, next : Block \cup {None}]

Proc == [at : {"idle", "load", "addresses", "remove", "insert", "history"},
         txs : Seq(Txs), addresses : SUBSET Own]

Operation == [kind : {"remove", "insert", "history", "lookup", "announce", "processed"},
              output : AllOutputs \cup {None}, address : Own \cup {None},
              txid : Txids \cup {None}]

NotRunning == [at |-> "down", height |-> 0, next |-> None]
Idle == [at |-> "idle", txs |-> <<>>, addresses |-> {}]

TypeOK ==
  /\ tip \in Heights
  /\ cache \in Block \cup {None}
  /\ utxo \subseteq AllOutputs
  /\ history \subseteq Txids
  /\ txids \in [Own -> SUBSET Txids]
  /\ known \subseteq Own
  /\ announced \in Seq(Heights)
  /\ detected \subseteq Txids
  /\ scan \in Scan
  /\ due \in BOOLEAN /\ checking \in BOOLEAN
  /\ proc \in Proc
  /\ pending \subseteq Operation
  /\ cut \subseteq Heights /\ failed \subseteq Heights /\ unmarked \subseteq Heights
  /\ first \in 0..MaxHeight
  /\ faults \in 0..MaxFaults

(* A block pays the addresses of wallets that exist; a wallet may be restored here
   after its addresses were paid. *)
PaysKnown(h) ==
  \/ "restored" \in Faults
  \/ \A i \in 1..Len(Chain[h]) : \A o \in Outputs(Chain[h][i]) :
        Owner[o] \in Own => Owner[o] \in known

Init ==
  /\ known \in SUBSET Own
  /\ tip \in Heights
  /\ \A h \in 1..tip : PaysKnown(h)
  /\ cache = None
  /\ utxo = {} /\ history = {}
  /\ txids = [x \in Own |-> {}]
  /\ announced = <<>>
  /\ detected = {}
  /\ scan = NotRunning
  /\ due = FALSE /\ checking = FALSE
  /\ proc = Idle
  /\ pending = {}
  /\ cut = {} /\ failed = {} /\ unmarked = {}
  /\ first = 0
  /\ faults = 0

-----------------------------------------------------------------------------
(* The world around the scan. *)

Fault(kind) ==
  /\ kind \in Faults
  /\ faults < MaxFaults
  /\ faults' = faults + 1

(* A block is mined. *)
Mine ==
  /\ tip < MaxHeight
  /\ PaysKnown(tip + 1)
  /\ tip' = tip + 1
  /\ UNCHANGED <<database, known, announced, detected, process, cut, failed,
                 unmarked, first, faults>>

(* A wallet stores a new address. *)
NewAddress(address) ==
  /\ address \notin known
  /\ known' = known \cup {address}
  /\ UNCHANGED <<tip, database, announced, detected, process, cut, failed,
                 unmarked, first, faults>>

(* startScan: checkDBBlockState and scanBlock both ask for the stored block. *)
StartScan ==
  /\ scan.at = "down"
  /\ scan' = [NotRunning EXCEPT !.at = "load"]
  /\ checking' = TRUE
  /\ UNCHANGED <<tip, database, known, announced, detected, due, proc, pending, cut,
                 failed, unmarked, first, faults>>

(* The process dies with its timers, its flags and what it had in flight: a block
   that was marked after an error, with the other operations of the step still
   out, comes short of them. *)
Crash ==
  /\ scan.at # "down"
  /\ Fault("crash")
  /\ scan' = NotRunning
  /\ due' = FALSE /\ checking' = FALSE
  /\ proc' = Idle
  /\ pending' = {}
  /\ cut' = IF proc.at = "idle" /\ pending = {} THEN cut ELSE cut \cup {cache.height}
  /\ failed' = IF pending # {} /\ cache.state = "PROCESSED"
               THEN failed \cup {cache.height} ELSE failed
  /\ UNCHANGED <<tip, database, known, announced, detected, unmarked, first>>

-----------------------------------------------------------------------------
(* scanBlock *)

ScanOnly == UNCHANGED <<tip, database, known, announced, detected, due, checking,
                        proc, pending, cut, unmarked, first>>

(* nextLoop: the next turn is 60 seconds from now. *)
NextLoop == scan' = [NotRunning EXCEPT !.at = "sleep"]

Wake ==
  /\ scan.at = "sleep"
  /\ scan' = [NotRunning EXCEPT !.at = "load"]
  /\ ScanOnly
  /\ UNCHANGED <<failed, faults>>

(* Mutant of Load: a block that is only saved counts as processed. *)
LoadEager ==
  /\ scan.at = "load"
  /\ scan' = [scan EXCEPT !.at = "latest",
                          !.height = IF cache = None THEN 0 ELSE cache.height]
  /\ ScanOnly
  /\ UNCHANGED <<failed, faults>>

(* The stored block is read.  While it waits for its processing, so does the
   loop. *)
Load ==
  /\ scan.at = "load"
  /\ IF cache # None /\ cache.state = "SAVED"
     THEN NextLoop
     ELSE scan' = [scan EXCEPT !.at = "latest",
                               !.height = IF cache = None THEN 0 ELSE cache.height]
  /\ ScanOnly
  /\ UNCHANGED <<failed, faults>>

(* The database is faster than the explorer: what the process asked it before is
   answered when the explorer answers. *)
DatabaseIsQuiet == pending = {} /\ ~checking

(* reqLatestBlockHeight leaves the last two blocks of block_count out, which
   counts the block at height 0. *)
LatestHeight == tip - 1

(* The explorer tells its height.  The first block to scan is the latest. *)
Latest ==
  /\ scan.at = "latest"
  /\ DatabaseIsQuiet
  /\ IF LatestHeight = 0 \/ scan.height >= LatestHeight
     THEN NextLoop
     ELSE scan' = [scan EXCEPT
            !.at = "block",
            !.height = IF scan.height = 0 THEN LatestHeight ELSE scan.height + 1]
  /\ ScanOnly
  /\ UNCHANGED <<failed, faults>>

(* Without totals the height is a message, which is neither equal to nor less
   than a number: the next block is asked for all the same. *)
LatestUnknown ==
  /\ scan.at = "latest"
  /\ DatabaseIsQuiet
  /\ Fault("totals")
  /\ IF scan.height \notin 1..(MaxHeight - 1)
     THEN NextLoop
     ELSE scan' = [scan EXCEPT !.at = "block", !.height = scan.height + 1]
  /\ ScanOnly
  /\ UNCHANGED failed

(* The explorer has the block; a fault leaves only its first transactions. *)
BlockWith(txs) ==
  scan' = [scan EXCEPT
    !.at = "store",
    !.next = [state |-> "SAVED", height |-> scan.height, txs |-> txs]]

GetBlock ==
  /\ scan.at = "block"
  /\ DatabaseIsQuiet
  /\ scan.height <= tip
  /\ BlockWith(Chain[scan.height])
  /\ ScanOnly
  /\ UNCHANGED <<failed, faults>>

GetBlockTruncated ==
  /\ scan.at = "block"
  /\ DatabaseIsQuiet
  /\ scan.height <= tip
  /\ Fault("truncated")
  /\ \E n \in 0..(Len(Chain[scan.height]) - 1) :
        BlockWith(SubSeq(Chain[scan.height], 1, n))
  /\ failed' = failed \cup {scan.height}
  /\ ScanOnly

(* The explorer does not answer, or not with the block asked for. *)
ExplorerFails ==
  /\ scan.at \in {"latest", "block"}
  /\ DatabaseIsQuiet
  /\ \/ Fault("explorer")
     \/ scan.at = "block" /\ scan.height > tip /\ UNCHANGED faults
  /\ NextLoop
  /\ ScanOnly
  /\ UNCHANGED failed

(* storeBTCLatestBlockCache; its answer sets the timer of processBlock. *)
Store ==
  /\ scan.at = "store"
  /\ cache' = scan.next
  /\ due' = TRUE
  /\ NextLoop
  /\ first' = IF first = 0 THEN scan.height ELSE first
  /\ UNCHANGED <<tip, utxo, history, txids, known, announced, detected, checking,
                 proc, pending, cut, failed, unmarked, faults>>

-----------------------------------------------------------------------------
(* processBlock *)

Begin == proc' = IF proc.at = "idle" THEN [Idle EXCEPT !.at = "load"] ELSE proc

(* The timer fires: isProcessingBlock keeps a second run out. *)
ProcessBlock ==
  /\ due
  /\ due' = FALSE
  /\ Begin
  /\ UNCHANGED <<tip, database, known, announced, detected, scan, checking, pending,
                 cut, failed, unmarked, first, faults>>

(* Mutant of CheckDBBlockState: what was interrupted stays so. *)
CheckNothing ==
  /\ checking
  /\ checking' = FALSE
  /\ UNCHANGED proc
  /\ UNCHANGED <<tip, database, known, announced, detected, scan, due, pending, cut,
                 failed, unmarked, first, faults>>

(* The answer to checkDBBlockState: what was interrupted starts anew. *)
CheckDBBlockState ==
  /\ checking
  /\ checking' = FALSE
  /\ IF cache # None /\ cache.state = "SAVED" THEN Begin ELSE UNCHANGED proc
  /\ UNCHANGED <<tip, database, known, announced, detected, scan, due, pending, cut,
                 failed, unmarked, first, faults>>

Op(kind) == [kind |-> kind, output |-> None, address |-> None, txid |-> None]

(* The operations of the three steps of a run: the inputs of the block are
   removed, the outputs to wallets inserted, and the transactions of each address
   of a wallet stored. *)
Listed(txs) == {txs[i] : i \in 1..Len(txs)}

RemoveOps(run) ==
  {[Op("remove") EXCEPT !.output = o] : o \in UNION {tx.vin : tx \in Listed(run.txs)}}

InsertOps(run) ==
  {[Op("insert") EXCEPT !.output = o] :
     o \in {p \in UNION {Outputs(tx) : tx \in Listed(run.txs)} :
              Owner[p] \in run.addresses}}

AddressesOf(tx) == {Owner[o] : o \in tx.vin \cup Outputs(tx)}

(* Mutant of HistoryOps: the sender is forgotten. *)
HistoryOpsReceived(run) ==
  UNION {{[Op("history") EXCEPT !.txid = tx.txid, !.address = x] :
            x \in {Owner[o] : o \in Outputs(tx)} \cap run.addresses} : tx \in Listed(run.txs)}

HistoryOps(run) ==
  UNION {{[Op("history") EXCEPT !.txid = tx.txid, !.address = x] :
            x \in AddressesOf(tx) \cap run.addresses} : tx \in Listed(run.txs)}

(* Mutant of Steps: the outputs first. *)
StepsInsertFirst == <<"insert", "remove", "history">>

Steps == <<"remove", "insert", "history">>

OpsOf(run, step) == CASE step = "remove"  -> RemoveOps(run)
                      [] step = "insert"  -> InsertOps(run)
                      [] step = "history" -> HistoryOps(run)

(* The last callback of the series, with or without an error: isProcessingBlock is
   taken back and the block is marked. *)
Finish(others) ==
  /\ proc' = Idle
  /\ pending' = others \cup {Op("processed")}
  /\ UNCHANGED detected

(* The first of the steps from i on that has anything to do sends its operations
   all at once (async.each).  _handleIncomingTx is called for the transactions of
   wallets, and not waited for. *)
BeginSteps(run, i, others) ==
  LET busy == {j \in i..3 : OpsOf(run, Steps[j]) # {}}
  IN IF busy = {}
     THEN Finish(others)
     ELSE LET step == Steps[CHOOSE j \in busy : \A k \in busy : j <= k]
          IN /\ proc' = [run EXCEPT !.at = step]
             /\ pending' = others \cup OpsOf(run, step)
             /\ detected' = IF step = "history"
                            THEN detected \cup {op.txid : op \in HistoryOps(run)}
                            ELSE detected

ProcOnly == UNCHANGED <<tip, known, scan, due, checking, cut, unmarked, first>>

(* The block is read and its notification sent on its way. *)
LoadSaved ==
  /\ proc.at = "load"
  /\ IF cache # None /\ cache.state = "SAVED"
     THEN /\ proc' = [proc EXCEPT !.at = "addresses", !.txs = cache.txs]
          /\ pending' = pending \cup {Op("announce")}
          /\ UNCHANGED detected
     ELSE Finish(pending)
  /\ ProcOnly
  /\ UNCHANGED <<database, announced, failed, faults>>

(* fetchAllAddress; without transactions or addresses nothing is done. *)
LoadAddresses ==
  /\ proc.at = "addresses"
  /\ BeginSteps([proc EXCEPT !.addresses = IF proc.txs = <<>> THEN {} ELSE known],
                IF proc.txs = <<>> \/ known = {} THEN 4 ELSE 1, pending)
  /\ ProcOnly
  /\ UNCHANGED <<database, announced, failed, faults>>

(* An operation of the current step ends it with an error: the others go on. *)
Abandon(op, step) == IF proc.at = step
                     THEN Finish(pending \ {op})
                     ELSE pending' = pending \ {op} /\ UNCHANGED <<proc, detected>>

(* An operation is over; the last of its step begins the next. *)
StepOf(step) == CHOOSE i \in 1..3 : Steps[i] = step

Complete(op, step) ==
  LET others == pending \ {op}
  IN IF proc.at = step /\ \A other \in others : other.kind \notin {step, op.kind}
     THEN BeginSteps(proc, StepOf(step) + 1, others)
     ELSE pending' = others /\ UNCHANGED <<proc, detected>>

RemoveUtxo(op) ==
  /\ op.kind = "remove"
  /\ utxo' = utxo \ {op.output}
  /\ Complete(op, "remove")
  /\ ProcOnly
  /\ UNCHANGED <<cache, history, txids, announced, failed, faults>>

(* The collection has a unique index: an output that is there is an error. *)
InsertUtxo(op) ==
  /\ op.kind = "insert"
  /\ IF op.output \in utxo
     THEN Abandon(op, "insert") /\ UNCHANGED utxo
     ELSE utxo' = utxo \cup {op.output} /\ Complete(op, "insert")
  /\ ProcOnly
  /\ UNCHANGED <<cache, history, txids, announced, failed, faults>>

(* storeBTCTxHistory: the transaction, and then its id in the list of the
   address. *)
StoreHistory(op) ==
  /\ op.kind = "history"
  /\ history' = history \cup {op.txid}
  /\ pending' = (pending \ {op}) \cup {[op EXCEPT !.kind = "lookup"]}
  /\ ProcOnly
  /\ UNCHANGED <<cache, utxo, txids, announced, detected, proc, failed, faults>>

AddTxid(op) ==
  /\ op.kind = "lookup"
  /\ txids' = [txids EXCEPT ![op.address] = @ \cup {op.txid}]
  /\ Complete(op, "history")
  /\ ProcOnly
  /\ UNCHANGED <<cache, utxo, history, announced, failed, faults>>

(* _notifyNewBlock *)
Announce(op) ==
  /\ op.kind = "announce"
  /\ announced' = Append(announced, cache.height)
  /\ pending' = pending \ {op}
  /\ ProcOnly
  /\ UNCHANGED <<database, detected, proc, failed, faults>>

(* updateBTCLatestBlockCacheState *)
MarkProcessed(op) ==
  /\ op.kind = "processed"
  /\ cache' = IF cache = None THEN None ELSE [cache EXCEPT !.state = "PROCESSED"]
  /\ pending' = pending \ {op}
  /\ ProcOnly
  /\ UNCHANGED <<utxo, history, txids, announced, detected, proc, failed, faults>>

Answer(op) == RemoveUtxo(op) \/ InsertUtxo(op) \/ StoreHistory(op) \/ AddTxid(op)
              \/ Announce(op) \/ MarkProcessed(op)

(* An operation of the processing fails. *)
LoadFails ==
  /\ proc.at \in {"load", "addresses"}
  /\ Fault("database")
  /\ Finish(pending)
  /\ failed' = failed \cup {cache.height}
  /\ ProcOnly
  /\ UNCHANGED <<database, announced>>

OperationFails(op) ==
  /\ op.kind \in {"remove", "insert", "history", "lookup"}
  /\ Fault("database")
  /\ Abandon(op, IF op.kind = "lookup" THEN "history" ELSE op.kind)
  /\ failed' = failed \cup {cache.height}
  /\ ProcOnly
  /\ UNCHANGED <<database, announced>>

(* The block stays SAVED until the process starts again. *)
UpdateFails(op) ==
  /\ op.kind = "processed"
  /\ Fault("update")
  /\ pending' = pending \ {op}
  /\ unmarked' = unmarked \cup {cache.height}
  /\ UNCHANGED <<tip, database, known, announced, detected, scan, due, checking, proc,
                 cut, failed, first>>

Scanning == Wake \/ Load \/ Latest \/ LatestUnknown \/ GetBlock \/ GetBlockTruncated
            \/ ExplorerFails \/ Store

Processing == ProcessBlock \/ CheckDBBlockState \/ LoadSaved \/ LoadAddresses
              \/ LoadFails
              \/ \E op \in pending : Answer(op) \/ OperationFails(op) \/ UpdateFails(op)

World == Mine \/ StartScan \/ Crash \/ \E address \in Own : NewAddress(address)

Next == Scanning \/ Processing \/ World

Spec == Init /\ [][Next]_vars

(* Timers fire, the explorer and the database answer, a process that died is
   started again, and the operations of a step are answered one by one. *)
FairSpec ==
  /\ Spec
  /\ WF_vars(Wake) /\ WF_vars(Load) /\ WF_vars(Latest) /\ WF_vars(GetBlock)
  /\ WF_vars(Store) /\ WF_vars(ProcessBlock) /\ WF_vars(CheckDBBlockState)
  /\ WF_vars(LoadSaved) /\ WF_vars(LoadAddresses) /\ WF_vars(StartScan)
  /\ WF_vars(\E op \in pending : Answer(op))

-----------------------------------------------------------------------------
(* Properties *)

(* The blocks are stored one after the other, and the next one only when the one
   before has been processed, through restarts and failures. *)
BlocksInOrder ==
  [][cache' # cache /\ cache # None =>
       \/ cache' = [cache EXCEPT !.state = "PROCESSED"]
       \/ /\ cache.state = "PROCESSED" /\ cache'.state = "SAVED"
          /\ cache'.height = cache.height + 1]_cache

(* What the collections are compared with: the blocks that are done, and the height
   at which an output is made and those at which it is spent. *)
Settled == cache # None /\ cache.state = "PROCESSED" /\ pending = {}
Done == first..cache.height
At(h) == Listed(Chain[h])
MadeAt(o) == CHOOSE h \in Heights : \E tx \in At(h) : o \in Outputs(tx)
SpentAt(o) == {h \in Heights : \E tx \in At(h) : o \in tx.vin}
OwnOutputs == {o \in AllOutputs : Owner[o] \in Own}

(* Between two blocks, btc_utxo holds an output to a wallet exactly when it is made
   and not spent by the blocks that are done, whatever restarts interrupted them.
   Blocks that came short or whose processing failed are excepted, and an output
   that its own block spends stays: the inputs are removed first. *)
UtxoRight ==
  Settled => \A o \in OwnOutputs :
    (SpentAt(o) \cup {MadeAt(o)}) \cap failed = {} =>
      (o \in utxo <=> /\ MadeAt(o) \in Done
                     /\ \A h \in SpentAt(o) \cap Done : h = MadeAt(o))

(* btc_utxo is the outputs that are not spent. *)
UtxoUnspent ==
  Settled => \A o \in OwnOutputs :
    (SpentAt(o) \cup {MadeAt(o)}) \cap failed = {} =>
      (o \in utxo => SpentAt(o) \cap Done = {})

(* Every transaction of a block that is done is in the history of the wallets'
   addresses it touches, and was handed to the detection of third-party
   broadcasts. *)
Recorded(h) ==
  \A tx \in At(h) : \A x \in AddressesOf(tx) \cap Own :
    tx.txid \in history \cap txids[x] \cap detected

(* It is so but for the blocks that were processed twice, since a crash interrupted
   them or they could not be marked, and those that failed. *)
HistoryRight == Settled => \A h \in Done \ (cut \cup unmarked \cup failed) : Recorded(h)

(* It is so for every block of which no step failed. *)
HistoryOfEveryBlock == Settled => \A h \in Done \ failed : Recorded(h)

(* A block is announced, and once unless it was processed twice. *)
AnnouncedRight ==
  Settled => \A h \in Done \ (cut \cup unmarked \cup failed) :
    Cardinality({i \in 1..Len(announced) : announced[i] = h}) = 1

(* The scan reaches the last confirmed block, whatever failed on the way; only a
   block that can not be marked holds it up, until the process starts again. *)
CatchesUp ==
  tip = MaxHeight ~> /\ cache # None
                     /\ \/ cache.state = "PROCESSED" /\ cache.height >= MaxHeight - 1
                        \/ cache.state = "SAVED" /\ cache.height \in unmarked
=============================================================================
