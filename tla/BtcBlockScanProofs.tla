-------------------------- MODULE BtcBlockScanProofs --------------------------
(***************************************************************************)
(* Proofs about BtcBlockScan, for every chain, every set of addresses and  *)
(* any faults: the order in which blocks are stored (Inv); that one run at *)
(* a time works, on the stored block and in the order of its steps         *)
(* (Shape); that btc_utxo is right between two blocks (UtxoInv) and the    *)
(* history complete (HistoryInv).  UtxoInv and HistoryInv say what has     *)
(* been done of the stored block by how far its processing is; the blocks  *)
(* before are done.                                                        *)
(***************************************************************************)
EXTENDS BtcBlockScan, SequenceTheorems, TLAPS

(* The types of the loop and the block it stores. *)
ScanTypeOK ==
  /\ tip \in Heights
  /\ cache \in Block \cup {None}
  /\ scan \in Scan

(* A turn goes on only when no block waits for its processing, and it is about the
   block after the stored one. *)
ScanFollows ==
  /\ scan.at \in {"latest", "block", "store"} /\ cache # None => cache.state = "PROCESSED"
  /\ scan.at = "latest" /\ cache = None => scan.height = 0
  /\ scan.at = "latest" /\ cache # None => scan.height = cache.height
  /\ scan.at \in {"block", "store"} => scan.height \in Heights
  /\ scan.at \in {"block", "store"} /\ cache # None => scan.height = cache.height + 1
  /\ scan.at = "store" => /\ scan.next \in Block
                          /\ scan.next.state = "SAVED"
                          /\ scan.next.height = scan.height

Inv == ScanTypeOK /\ ScanFollows

InOrder ==
  cache' # cache /\ cache # None =>
    \/ cache' = [cache EXCEPT !.state = "PROCESSED"]
    \/ /\ cache.state = "PROCESSED" /\ cache'.state = "SAVED"
       /\ cache'.height = cache.height + 1

-----------------------------------------------------------------------------
(* The chain: its blocks are sequences of its transactions, and so is the beginning
   of one. *)
LEMMA ChainTyped ==
  /\ MaxHeight \in Nat
  /\ \A h \in Heights : /\ Chain[h] \in Seq(Txs)
                        /\ Len(Chain[h]) \in Nat
                        /\ \A n \in 0..Len(Chain[h]) : SubSeq(Chain[h], 1, n) \in Seq(Txs)
<1> DEFINE T == [txid : Txids, vin : SUBSET AllOutputs, vout : Seq(Own \cup {None})]
<1>1. Chain \in Seq(Seq(T))
  BY BtcBlockScanAssumption
<1> HIDE DEF T
<1>2. MaxHeight \in Nat
  BY <1>1, LenProperties DEF MaxHeight
<1>3. ASSUME NEW h \in Heights
      PROVE  /\ Chain[h] \in Seq(Txs)
             /\ Len(Chain[h]) \in Nat
             /\ \A n \in 0..Len(Chain[h]) : SubSeq(Chain[h], 1, n) \in Seq(Txs)
  <2>1. Chain[h] \in Seq(T)
    BY <1>1, ElementOfSeq DEF Heights, MaxHeight
  <2>2. Len(Chain[h]) \in Nat /\ Chain[h] \in [1..Len(Chain[h]) -> T]
    BY <2>1, LenProperties
  <2>3. \A i \in 1..Len(Chain[h]) : Chain[h][i] \in Txs
    BY DEF Txs
  <2>4. Chain[h] \in [1..Len(Chain[h]) -> Txs]
    BY <2>2, <2>3
  <2>5. Chain[h] \in Seq(Txs)
    BY <2>2, <2>4
  <2>6. ASSUME NEW n \in 0..Len(Chain[h])
        PROVE  SubSeq(Chain[h], 1, n) \in Seq(Txs)
    <3>1. n \in Int /\ \A i \in 1..n : Chain[h][i] \in Txs
      BY <2>2, <2>3
    <3> QED
      BY <3>1, SubSeqProperties
  <2> QED
    BY <2>2, <2>5, <2>6
<1> QED
  BY <1>2, <1>3

LEMMA InitInv == Init => Inv
<1> SUFFICES ASSUME Init PROVE Inv
  OBVIOUS
<1>1. 0 \in 0..MaxHeight
  BY ChainTyped
<1>2. NotRunning \in Scan /\ NotRunning.at = "down"
  BY <1>1 DEF NotRunning, Scan
<1>3. tip \in Heights /\ cache = None /\ scan = NotRunning
  BY DEF Init
<1> QED
  BY <1>2, <1>3 DEF Inv, ScanTypeOK, ScanFollows

(* The turn ends. *)
LEMMA TurnEnds ==
  ASSUME Inv, UNCHANGED <<tip, cache>>,
         NEW at \in {"down", "sleep", "load"}, scan' = [NotRunning EXCEPT !.at = at]
  PROVE  Inv'
<1>1. scan'.at = at /\ scan' \in Scan
  BY ChainTyped DEF NotRunning, Scan
<1> QED
  BY <1>1 DEF Inv, ScanTypeOK, ScanFollows, Heights

LEMMA LoadKeeps == ASSUME Inv, Load PROVE Inv'
<1> USE DEF Load, ScanOnly, database
<1>1. CASE cache # None /\ cache.state = "SAVED"
  BY <1>1, TurnEnds DEF NextLoop
<1>2. CASE ~(cache # None /\ cache.state = "SAVED")
  <2>1. cache # None => cache.state = "PROCESSED" /\ cache.height \in Heights
    BY <1>2 DEF Inv, ScanTypeOK, Block
  <2> DEFINE h == IF cache = None THEN 0 ELSE cache.height
  <2>2. scan' = [scan EXCEPT !.at = "latest", !.height = h] /\ UNCHANGED <<tip, cache>>
    BY <1>2
  <2>3. h \in 0..MaxHeight
    BY <2>1, ChainTyped DEF Heights
  <2>4. (cache = None => h = 0) /\ (cache # None => h = cache.height)
    OBVIOUS
  <2> HIDE DEF h
  <2>5. scan' \in Scan /\ scan'.at = "latest" /\ scan'.height = h
    BY <2>2, <2>3 DEF Inv, ScanTypeOK, Scan
  <2> QED
    BY <2>1, <2>2, <2>4, <2>5 DEF Inv, ScanTypeOK, ScanFollows
<1> QED
  BY <1>1, <1>2

(* The loop asks for the block after the stored one. *)
LEMMA AskForBlock ==
  ASSUME Inv, UNCHANGED <<tip, cache>>, scan.at = "latest",
         NEW h \in Heights, cache # None => h = cache.height + 1,
         scan' = [scan EXCEPT !.at = "block", !.height = h]
  PROVE  Inv'
<1>1. h \in 0..MaxHeight
  BY ChainTyped DEF Heights
<1>2. scan' \in Scan /\ scan'.at = "block" /\ scan'.height = h
  BY <1>1 DEF Inv, ScanTypeOK, Scan
<1>3. cache # None => cache.state = "PROCESSED"
  BY DEF Inv, ScanFollows
<1> QED
  BY <1>2, <1>3 DEF Inv, ScanTypeOK, ScanFollows

LEMMA LatestKeeps == ASSUME Inv, Latest PROVE Inv'
<1> USE DEF Latest, ScanOnly, database
<1>1. CASE LatestHeight = 0 \/ scan.height >= LatestHeight
  BY <1>1, TurnEnds DEF NextLoop
<1>2. CASE ~(LatestHeight = 0 \/ scan.height >= LatestHeight)
  <2> DEFINE h == IF scan.height = 0 THEN LatestHeight ELSE scan.height + 1
  <2>1. tip \in Heights /\ scan.height \in Nat /\ MaxHeight \in Nat
    BY ChainTyped DEF Inv, ScanTypeOK, Scan, Heights
  <2>2. h \in Heights
    BY <1>2, <2>1 DEF LatestHeight, Heights
  <2>3. cache # None => h = cache.height + 1
    <3>1. cache # None => scan.height = cache.height /\ cache.height \in Heights
      BY DEF Inv, ScanTypeOK, ScanFollows, Block
    <3> QED
      BY <3>1 DEF Heights
  <2>4. scan' = [scan EXCEPT !.at = "block", !.height = h]
    BY <1>2
  <2> HIDE DEF h
  <2> QED
    BY <2>2, <2>3, <2>4, AskForBlock
<1> QED
  BY <1>1, <1>2

LEMMA LatestUnknownKeeps == ASSUME Inv, LatestUnknown PROVE Inv'
<1> USE DEF LatestUnknown, ScanOnly, database
<1>1. CASE scan.height \notin 1..(MaxHeight - 1)
  BY <1>1, TurnEnds DEF NextLoop
<1>2. CASE scan.height \in 1..(MaxHeight - 1)
  <2>1. scan.height + 1 \in Heights
    BY <1>2, ChainTyped DEF Heights
  <2>2. cache # None => scan.height + 1 = cache.height + 1
    BY DEF Inv, ScanFollows
  <2> QED
    BY <1>2, <2>1, <2>2, AskForBlock
<1> QED
  BY <1>1, <1>2

(* A block arrives, with all of its transactions or some. *)
LEMMA BlockWithKeeps ==
  ASSUME Inv, UNCHANGED <<tip, cache>>, scan.at = "block", NEW txs \in Seq(Txs),
         BlockWith(txs)
  PROVE  Inv'
<1> DEFINE block == [state |-> "SAVED", height |-> scan.height, txs |-> txs]
<1>1. scan.height \in Heights
  BY DEF Inv, ScanFollows
<1>2. block \in Block /\ block.state = "SAVED" /\ block.height = scan.height
  BY <1>1 DEF Block
<1>3. scan' = [scan EXCEPT !.at = "store", !.next = block]
  BY DEF BlockWith
<1> HIDE DEF block
<1>4. scan' \in Scan /\ scan'.at = "store" /\ scan'.next = block /\ scan'.height = scan.height
  BY <1>2, <1>3 DEF Inv, ScanTypeOK, Scan
<1> QED
  BY <1>1, <1>2, <1>4 DEF Inv, ScanTypeOK, ScanFollows

LEMMA GetBlockKeeps == ASSUME Inv, GetBlock \/ GetBlockTruncated PROVE Inv'
<1>1. scan.at = "block" /\ scan.height \in Heights /\ UNCHANGED <<tip, cache>>
  BY DEF Inv, ScanFollows, GetBlock, GetBlockTruncated, ScanOnly, database
<1>2. CASE GetBlock
  BY <1>1, <1>2, ChainTyped, BlockWithKeeps DEF GetBlock
<1>3. CASE GetBlockTruncated
  <2>1. PICK n \in 0..(Len(Chain[scan.height]) - 1) :
              BlockWith(SubSeq(Chain[scan.height], 1, n))
    BY <1>3 DEF GetBlockTruncated
  <2>2. Len(Chain[scan.height]) \in Nat
    BY <1>1, ChainTyped
  <2>3. n \in 0..Len(Chain[scan.height])
    BY <2>1, <2>2
  <2>4. SubSeq(Chain[scan.height], 1, n) \in Seq(Txs)
    BY <1>1, <2>3, ChainTyped
  <2> QED
    BY <1>1, <2>1, <2>4, BlockWithKeeps
<1> QED
  BY <1>2, <1>3

LEMMA StoreKeeps == ASSUME Inv, Store PROVE Inv'
<1>1. cache' \in Block /\ scan' = [NotRunning EXCEPT !.at = "sleep"] /\ tip' = tip
  BY DEF Inv, ScanFollows, Store, NextLoop
<1>2. scan' \in Scan /\ scan'.at = "sleep"
  BY <1>1, ChainTyped DEF NotRunning, Scan
<1> QED
  BY <1>1, <1>2 DEF Inv, ScanTypeOK, ScanFollows

(* A block is marked.  While the loop asks for the next one it is marked already. *)
LEMMA MarkKeeps == ASSUME Inv, NEW op, MarkProcessed(op) PROVE Inv'
<1>1. UNCHANGED <<tip, scan>>
  BY DEF MarkProcessed, ProcOnly
<1>2. CASE cache = None
  BY <1>1, <1>2 DEF MarkProcessed, Inv, ScanTypeOK, ScanFollows
<1>3. CASE cache # None
  <2>1. cache \in Block /\ cache' = [cache EXCEPT !.state = "PROCESSED"]
    BY <1>3 DEF MarkProcessed, Inv, ScanTypeOK
  <2>2. cache' \in Block
    BY <2>1 DEF Block
  <2>3. cache.state = "PROCESSED" => cache' = cache
    BY <2>1 DEF Block
  <2>4. scan.at \in {"latest", "block", "store"} => cache' = cache
    BY <1>3, <2>3 DEF Inv, ScanFollows
  <2> QED
    BY <1>1, <2>2, <2>4 DEF Inv, ScanTypeOK, ScanFollows
<1> QED
  BY <1>2, <1>3

(* The other actions leave the loop and the stored block alone. *)
Aside == UNCHANGED <<tip, cache, scan>>

LEMMA ProcessingAside ==
  ASSUME Processing
  PROVE  Aside \/ \E op \in pending : MarkProcessed(op)
<1>1. CASE ProcessBlock \/ CheckDBBlockState
  BY <1>1 DEF ProcessBlock, CheckDBBlockState, Aside, database
<1>2. CASE LoadSaved \/ LoadAddresses \/ LoadFails
  BY <1>2 DEF LoadSaved, LoadAddresses, LoadFails, Aside, ProcOnly, database
<1>3. ASSUME NEW op \in pending, Answer(op)
      PROVE  Aside \/ MarkProcessed(op)
  BY <1>3 DEF Answer, RemoveUtxo, InsertUtxo, StoreHistory, AddTxid, Announce, Aside,
              ProcOnly, database
<1>4. ASSUME NEW op \in pending, OperationFails(op) \/ UpdateFails(op)
      PROVE  Aside
  BY <1>4 DEF OperationFails, UpdateFails, Aside, ProcOnly, database
<1> QED
  BY <1>1, <1>2, <1>3, <1>4 DEF Processing

LEMMA AsideKeeps == ASSUME Inv, Aside PROVE Inv'
BY DEF Inv, ScanTypeOK, ScanFollows, Aside

LEMMA WorldKeeps == ASSUME Inv, World PROVE Inv'
<1>1. CASE Mine
  <2>1. tip' \in Heights /\ UNCHANGED <<cache, scan>>
    BY <1>1, ChainTyped DEF Mine, Heights, Inv, ScanTypeOK, database, process
  <2> QED
    BY <2>1 DEF Inv, ScanTypeOK, ScanFollows
<1>2. CASE StartScan
  BY <1>2, TurnEnds DEF StartScan, database
<1>3. CASE Crash
  <2>1. scan' = [NotRunning EXCEPT !.at = "down"]
    BY <1>3 DEF Crash, NotRunning
  <2> QED
    BY <1>3, <2>1, TurnEnds DEF Crash, database
<1>4. ASSUME NEW address \in Own, NewAddress(address) PROVE Inv'
  BY <1>4, AsideKeeps DEF NewAddress, Aside, database, process
<1> QED
  BY <1>1, <1>2, <1>3, <1>4 DEF World

LEMMA NextInv == Inv /\ [Next]_vars => Inv'
<1> SUFFICES ASSUME Inv, [Next]_vars PROVE Inv'
  OBVIOUS
<1>1. CASE Wake
  BY <1>1, TurnEnds DEF Wake, ScanOnly, database
<1>2. CASE ExplorerFails
  BY <1>2, TurnEnds DEF ExplorerFails, NextLoop, ScanOnly, database
<1>3. CASE Processing
  BY <1>3, ProcessingAside, AsideKeeps, MarkKeeps
<1>4. CASE UNCHANGED vars
  BY <1>4, AsideKeeps DEF vars, Aside, database, process
<1> QED
  BY <1>1, <1>2, <1>3, <1>4, LoadKeeps, LatestKeeps, LatestUnknownKeeps, GetBlockKeeps,
     StoreKeeps, WorldKeeps DEF Next, Scanning

(* Between two blocks only the first becomes processed. *)
LEMMA StepInOrder == ASSUME Inv, [Next]_vars PROVE InOrder
<1>1. CASE Store
  BY <1>1 DEF Store, Inv, ScanFollows, InOrder
<1>2. ASSUME NEW op, MarkProcessed(op) PROVE InOrder
  BY <1>2 DEF MarkProcessed, InOrder
<1>3. CASE UNCHANGED cache
  BY <1>3 DEF InOrder
<1>4. CASE Processing
  BY <1>2, <1>3, <1>4, ProcessingAside DEF Aside
<1>5. Next /\ ~Store /\ ~Processing => UNCHANGED cache
  BY DEF Next, Scanning, World, Wake, Load, Latest, LatestUnknown, GetBlock,
         GetBlockTruncated, ExplorerFails, Mine, StartScan, Crash, NewAddress, ScanOnly,
         database
<1>6. UNCHANGED vars => UNCHANGED cache
  BY DEF vars, database
<1> QED
  BY <1>1, <1>3, <1>4, <1>5, <1>6

-----------------------------------------------------------------------------
(* A turn of the scan works on the block after the stored one, in every state. *)
THEOREM Invariance == Spec => []Inv
BY InitInv, NextInv, PTL DEF Spec

(* Blocks are stored one after the other, none is left out and none comes twice, and
   the next one only when the one before is processed, whatever dies or fails. *)
THEOREM StoredInOrder == Spec => BlocksInOrder
<1>1. Inv /\ [Next]_vars => [InOrder]_cache
  BY StepInOrder
<1>2. BlocksInOrder <=> [][InOrder]_cache
  BY DEF BlocksInOrder, InOrder
<1> QED
  BY <1>1, <1>2, Invariance, PTL DEF Spec

-----------------------------------------------------------------------------
(* The run of the processing, and what is in flight. *)
Height == cache.height

Marking == Op("processed") \in pending

(* The run about the stored block is over. *)
Ended == cache # None /\ (cache.state = "PROCESSED" \/ Marking)

(* One run at a time, which is about the stored block, and nothing of it is in
   flight when the next block is stored or a run is still to begin. *)
TurnsKept ==
  /\ cache = None => proc.at = "idle" /\ pending = {} /\ ~due
  /\ scan.at = "down" => proc.at = "idle" /\ pending = {} /\ ~due /\ ~checking
  /\ scan.at = "store" => pending = {} /\ ~checking
  /\ due => cache.state = "SAVED" /\ proc.at = "idle" /\ pending = {} /\ ~checking
  /\ checking => proc.at = "idle" /\ pending = {}
  /\ proc.at # "idle" => cache.state = "SAVED" /\ ~Marking

(* A block that came whole has the transactions of the chain, one that came short
   some of them. *)
Served(block) ==
  /\ block.height <= tip
  /\ Listed(block.txs) \subseteq At(block.height)
  /\ block.height \notin failed => block.txs = Chain[block.height]

(* Whom the chain has paid up to height h: nobody who has to be known already, if
   wallets are restored here later. *)
Paid(h) ==
  {Owner[o] : o \in {p \in OwnOutputs : MadeAt(p) <= h /\ "restored" \notin Faults}}

BlocksKept ==
  /\ cache = None => first = 0
  /\ cache # None => first \in 1..Height /\ Served(cache)
  /\ scan.at = "store" => Served(scan.next)
  /\ proc.at \in {"addresses", "remove", "insert", "history"} => proc.txs = cache.txs
  /\ Paid(tip) \subseteq known
  /\ proc.at \in {"remove", "insert", "history"} => Paid(Height) \subseteq proc.addresses

RemoveOp(o) == [Op("remove") EXCEPT !.output = o]
InsertOp(o) == [Op("insert") EXCEPT !.output = o]
HistoryOp(tx, x) == [Op("history") EXCEPT !.txid = tx.txid, !.address = x]
LookupOp(tx, x) == [HistoryOp(tx, x) EXCEPT !.kind = "lookup"]

(* Inputs are removed before anything is inserted, unless their step failed. *)
OpsKept ==
  \A op \in pending :
    /\ op.kind = "remove" => Height \in SpentAt(op.output)
                             /\ (proc.at = "remove" \/ Height \in failed)
    /\ op.kind = "insert" => /\ op = InsertOp(op.output) /\ op.output \in AllOutputs
                             /\ MadeAt(op.output) = Height
    /\ op.kind \in {"history", "lookup"} => op.txid \in Txids /\ op.address \in Own
    /\ op.kind = "processed" => op = Op("processed")

(* No block that makes or spends o came short or failed. *)
Sound(o) == (SpentAt(o) \cup {MadeAt(o)}) \cap failed = {}

(* What UtxoRight says of the blocks before height h. *)
UnspentBefore(o, h) ==
  /\ MadeAt(o) \in first..(h - 1)
  /\ \A g \in SpentAt(o) \cap (first..(h - 1)) : g = MadeAt(o)

(* btc_utxo, by how far the block is processed. *)
UtxoOf(o) ==
  /\ MadeAt(o) # Height /\ Height \notin SpentAt(o) =>
       (o \in utxo <=> UnspentBefore(o, Height))
  /\ proc.at = "remove" /\ Height \in SpentAt(o) /\ MadeAt(o) # Height =>
       RemoveOp(o) \in pending \/ o \notin utxo
  /\ proc.at \in {"insert", "history"} \/ Ended =>
       /\ Height \in SpentAt(o) /\ MadeAt(o) # Height => o \notin utxo
       /\ MadeAt(o) = Height => InsertOp(o) \in pending \/ o \in utxo

UtxoInv ==
  IF cache = None THEN utxo = {} ELSE \A o \in OwnOutputs : Sound(o) => UtxoOf(o)

Unbroken(h) == h \notin cut \cup unmarked \cup failed

(* The history of one address of a transaction of the block, or the operation
   that will store it. *)
Noted(tx, x) ==
  /\ tx.txid \in detected
  /\ tx.txid \in history \/ HistoryOp(tx, x) \in pending
  /\ tx.txid \in txids[x] \/ HistoryOp(tx, x) \in pending \/ LookupOp(tx, x) \in pending

(* A block that is processed for the first time: none of its outputs is there or on
   its way until they are inserted, each by one operation. *)
FirstTime ==
  Height \notin cut \cup unmarked /\ ~Ended =>
    /\ proc.at \in {"idle", "load", "addresses", "remove"} =>
         /\ \A o \in utxo : MadeAt(o) # Height
         /\ \A op \in pending : op.kind # "insert"
    /\ proc.at = "insert" => \A op \in pending : op.kind = "insert" => op.output \notin utxo

(* The history of the stored block, once it is asked for. *)
PresentNoted ==
  Unbroken(Height) /\ (proc.at = "history" \/ Ended) =>
    \A tx \in At(Height) : \A x \in AddressesOf(tx) \cap Own : Noted(tx, x)

PastRecorded == \A h \in first..(Height - 1) : Unbroken(h) => Recorded(h)

NoneAhead == \A o \in utxo : MadeAt(o) <= Height

HistoryInv == cache # None => PastRecorded /\ PresentNoted /\ NoneAhead /\ FirstTime

-----------------------------------------------------------------------------
(* The chain: where its outputs are made and spent. *)
LEMMA BlockTxs ==
  /\ Heights \subseteq Nat /\ 0 \notin Heights
  /\ \A g, h \in Heights : \A k \in g..h : k \in Heights
  /\ \A h \in Heights : At(h) \subseteq Txs
  /\ \A tx \in Txs : tx.vin \subseteq AllOutputs /\ tx.txid \in Txids
<1> DEFINE T == [txid : Txids, vin : SUBSET AllOutputs, vout : Seq(Own \cup {None})]
<1>1. MaxHeight \in Nat /\ \A h \in Heights : Chain[h] \in Seq(Txs)
  BY ChainTyped
<1>2. Chain \in Seq(Seq(T))
  BY BtcBlockScanAssumption
<1> HIDE DEF T
<1>3. ASSUME NEW tx \in Txs PROVE tx \in T
  <2>1. PICK h \in Heights : \E i \in 1..Len(Chain[h]) : tx = Chain[h][i]
    BY DEF Txs
  <2>2. Chain[h] \in Seq(T)
    BY <1>2, ElementOfSeq DEF Heights, MaxHeight
  <2> QED
    BY <2>1, <2>2, ElementOfSeq
<1>4. \A tx \in Txs : tx.vin \subseteq AllOutputs /\ tx.txid \in Txids
  BY <1>3 DEF T
<1>5. \A h \in Heights : At(h) \subseteq Txs
  BY DEF At, Listed, Txs
<1> QED
  BY <1>1, <1>4, <1>5 DEF Heights

LEMMA MadeAtIs ==
  ASSUME NEW h \in Heights, NEW tx \in At(h), NEW o \in Outputs(tx)
  PROVE  o \in AllOutputs /\ MadeAt(o) = h
<1>1. tx \in Txs /\ o[1] = tx.txid
  BY BlockTxs DEF Outputs
<1>2. ASSUME NEW g \in Heights, NEW other \in At(g), o \in Outputs(other)
      PROVE  g = h
  <2>1. other \in Txs /\ other.txid = tx.txid
    BY <1>1, <1>2, BlockTxs DEF Outputs
  <2>2. other = tx
    BY <1>1, <2>1, BtcBlockScanAssumption
  <2> QED
    BY <2>2, ChainAssumption DEF At, Listed
<1>3. \E k \in Heights : \E t \in At(k) : o \in Outputs(t)
  OBVIOUS
<1>4. MadeAt(o) \in Heights /\ \E t \in At(MadeAt(o)) : o \in Outputs(t)
  BY <1>3 DEF MadeAt
<1> QED
  BY <1>1, <1>2, <1>4 DEF AllOutputs

LEMMA MadeSomewhere ==
  ASSUME NEW o \in AllOutputs
  PROVE  MadeAt(o) \in Heights /\ \E tx \in At(MadeAt(o)) : o \in Outputs(tx)
<1>1. PICK tx \in Txs : o \in Outputs(tx)
  BY DEF AllOutputs
<1>2. PICK h \in Heights : tx \in At(h)
  BY DEF Txs, At, Listed
<1> QED
  BY <1>1, <1>2, MadeAtIs

(* Nothing is spent before it is made. *)
LEMMA SpentLater ==
  ASSUME NEW o \in AllOutputs, NEW h \in SpentAt(o)
  PROVE  h \in Heights /\ MadeAt(o) <= h
<1>1. h \in Heights /\ \E tx \in At(h) : o \in tx.vin
  BY DEF SpentAt
<1>2. MadeAt(o) \in Heights /\ \E tx \in At(MadeAt(o)) : o \in Outputs(tx)
  BY MadeSomewhere
<1>3. PICK i \in 1..Len(Chain[h]) : o \in Chain[h][i].vin
  BY <1>1 DEF At, Listed
<1>4. PICK j \in 1..Len(Chain[MadeAt(o)]) : o \in Outputs(Chain[MadeAt(o)][j])
  BY <1>2 DEF At, Listed
<1> QED
  BY <1>1, <1>2, <1>3, <1>4, ChainAssumption

LEMMA OwnIsOutput == OwnOutputs \subseteq AllOutputs
BY DEF OwnOutputs

(* Whoever is paid by, or pays in, a transaction was paid up to its block. *)
LEMMA ActorsPaid ==
  ASSUME "restored" \notin Faults,
         NEW h \in Heights, NEW tx \in At(h), NEW x \in AddressesOf(tx) \cap Own
  PROVE  x \in Paid(h)
<1>1. PICK o \in tx.vin \cup Outputs(tx) : x = Owner[o]
  BY DEF AddressesOf
<1>2. CASE o \in Outputs(tx)
  <2>1. o \in AllOutputs /\ MadeAt(o) = h
    BY <1>2, MadeAtIs
  <2> QED
    BY <1>1, <2>1, BlockTxs DEF Paid, OwnOutputs
<1>3. CASE o \in tx.vin
  <2>1. o \in AllOutputs /\ h \in SpentAt(o)
    BY <1>3, BlockTxs DEF SpentAt
  <2>2. MadeAt(o) <= h
    BY <2>1, SpentLater
  <2> QED
    BY <1>1, <2>1, <2>2 DEF Paid, OwnOutputs
<1> QED
  BY <1>1, <1>2, <1>3

(* The operations of a run about a block that came whole or in part. *)
LEMMA RunOps ==
  ASSUME NEW h \in Heights, NEW run, Listed(run.txs) \subseteq At(h), run.addresses \subseteq Own
  PROVE  /\ \A op \in RemoveOps(run) : /\ op = RemoveOp(op.output) /\ op.output \in AllOutputs
                                       /\ h \in SpentAt(op.output) /\ op \in Operation
         /\ \A op \in InsertOps(run) : /\ op = InsertOp(op.output) /\ op.output \in AllOutputs
                                       /\ MadeAt(op.output) = h /\ op \in Operation
         /\ \A op \in HistoryOps(run) : /\ op.kind = "history" /\ op \in Operation
                                        /\ op.txid \in Txids /\ op.address \in Own
<1> DEFINE B == Listed(run.txs)
<1>1. B \subseteq At(h) /\ B \subseteq Txs
  BY BlockTxs
<1> HIDE DEF B
<1>2. ASSUME NEW op \in RemoveOps(run)
      PROVE  /\ op = RemoveOp(op.output) /\ op.output \in AllOutputs
             /\ h \in SpentAt(op.output) /\ op \in Operation
  <2>1. PICK tx \in B, o \in AllOutputs : o \in tx.vin /\ op = RemoveOp(o)
    BY <1>1, BlockTxs DEF RemoveOps, RemoveOp, B
  <2> QED
    BY <1>1, <2>1 DEF RemoveOp, Op, SpentAt, Operation
<1>3. ASSUME NEW op \in InsertOps(run)
      PROVE  /\ op = InsertOp(op.output) /\ op.output \in AllOutputs
             /\ MadeAt(op.output) = h /\ op \in Operation
  <2>1. PICK tx \in B : \E o \in Outputs(tx) : op = InsertOp(o)
    BY DEF InsertOps, InsertOp, B
  <2>2. PICK o \in Outputs(tx) : op = InsertOp(o)
    BY <2>1
  <2>3. o \in AllOutputs /\ MadeAt(o) = h
    BY <1>1, <2>1, <2>2, MadeAtIs
  <2> QED
    BY <2>2, <2>3 DEF InsertOp, Op, Operation
<1>4. ASSUME NEW op \in HistoryOps(run)
      PROVE  op.kind = "history" /\ op \in Operation /\ op.txid \in Txids /\ op.address \in Own
  <2> DEFINE of(tx) == {HistoryOp(tx, x) : x \in AddressesOf(tx) \cap run.addresses}
  <2>1. HistoryOps(run) = UNION {of(tx) : tx \in B}
    BY DEF HistoryOps, HistoryOp, B
  <2> HIDE DEF of
  <2>2. PICK tx \in B : op \in of(tx)
    BY <2>1
  <2>3. PICK x \in run.addresses : op = HistoryOp(tx, x)
    BY <2>2 DEF of
  <2> QED
    BY <1>1, <2>2, <2>3, BlockTxs DEF HistoryOp, Op, Operation
<1> QED
  BY <1>2, <1>3, <1>4

(* What the first step with anything to do begins, or that none has. *)
Finds(run, i, others) ==
  \/ /\ i <= 1 => RemoveOps(run) = {}
     /\ i <= 2 => InsertOps(run) = {}
     /\ i <= 3 => HistoryOps(run) = {}
     /\ Finish(others)
  \/ /\ i <= 1
     /\ proc' = [run EXCEPT !.at = "remove"]
     /\ pending' = others \cup RemoveOps(run)
     /\ UNCHANGED detected
  \/ /\ i <= 2 /\ (i <= 1 => RemoveOps(run) = {})
     /\ proc' = [run EXCEPT !.at = "insert"]
     /\ pending' = others \cup InsertOps(run)
     /\ UNCHANGED detected
  \/ /\ i <= 3 /\ (i <= 1 => RemoveOps(run) = {}) /\ (i <= 2 => InsertOps(run) = {})
     /\ proc' = [run EXCEPT !.at = "history"]
     /\ pending' = others \cup HistoryOps(run)
     /\ detected' = detected \cup {op.txid : op \in HistoryOps(run)}

LEMMA BeginsFirst ==
  ASSUME NEW run, NEW i \in 1..4, NEW others, BeginSteps(run, i, others)
  PROVE  Finds(run, i, others)
<1> DEFINE busy == {j \in i..3 : OpsOf(run, Steps[j]) # {}}
           next == CHOOSE j \in busy : \A k \in busy : j <= k
<1>1. /\ OpsOf(run, Steps[1]) = RemoveOps(run) /\ Steps[1] = "remove"
      /\ OpsOf(run, Steps[2]) = InsertOps(run) /\ Steps[2] = "insert"
      /\ OpsOf(run, Steps[3]) = HistoryOps(run) /\ Steps[3] = "history"
  BY DEF OpsOf, Steps
<1>2. \A j \in i..3 : j = 1 \/ j = 2 \/ j = 3
  OBVIOUS
<1>3. CASE busy = {}
  <2>1. Finish(others)
    BY <1>3 DEF BeginSteps
  <2>2. \A j \in i..3 : OpsOf(run, Steps[j]) = {}
    BY <1>3
  <2>3. (i <= 1 => 1 \in i..3) /\ (i <= 2 => 2 \in i..3) /\ (i <= 3 => 3 \in i..3)
    OBVIOUS
  <2> QED
    BY <1>1, <2>1, <2>2, <2>3 DEF Finds
<1>4. CASE busy # {}
  <2>1. \E j \in busy : \A k \in busy : j <= k
    <3>1. \A k \in busy : k = 1 \/ k = 2 \/ k = 3
      OBVIOUS
    <3> HIDE DEF busy
    <3>2. CASE 1 \in busy
      BY <3>1, <3>2
    <3>3. CASE 1 \notin busy /\ 2 \in busy
      BY <3>1, <3>3
    <3>4. CASE 1 \notin busy /\ 2 \notin busy
      <4>1. \A k \in busy : k = 3
        BY <3>1, <3>4
      <4> QED
        BY <1>4, <4>1
    <3> QED
      BY <3>2, <3>3, <3>4
  <2>2. next \in busy /\ \A k \in busy : next <= k
    BY <2>1
  <2>3. /\ proc' = [run EXCEPT !.at = Steps[next]]
        /\ pending' = others \cup OpsOf(run, Steps[next])
        /\ detected' = IF Steps[next] = "history"
                       THEN detected \cup {op.txid : op \in HistoryOps(run)}
                       ELSE detected
    BY <1>4 DEF BeginSteps
  <2>4. next \in i..3 /\ \A k \in i..3 : k < next => OpsOf(run, Steps[k]) = {}
    <3>1. next \in i..3
      BY <2>2
    <3>2. ASSUME NEW k \in i..3, k < next
          PROVE  OpsOf(run, Steps[k]) = {}
      <4>1. ~(next <= k)
        BY <3>1, <3>2
      <4>2. k \notin busy
        BY <2>2, <4>1
      <4> QED
        BY <4>2
    <3> QED
      BY <3>1, <3>2
  <2> HIDE DEF next, busy
  <2>5. CASE next = 1
    BY <1>1, <2>3, <2>4, <2>5 DEF Finds
  <2>6. CASE next = 2
    <3>1. i <= 1 => 1 \in i..3 /\ 1 < next
      BY <2>6
    <3> QED
      BY <1>1, <2>3, <2>4, <2>6, <3>1 DEF Finds
  <2>7. CASE next = 3
    <3>1. (i <= 1 => 1 \in i..3 /\ 1 < next) /\ (i <= 2 => 2 \in i..3 /\ 2 < next)
      BY <2>7
    <3> QED
      BY <1>1, <2>3, <2>4, <2>7, <3>1 DEF Finds
  <2> QED
    BY <1>2, <2>4, <2>5, <2>6, <2>7
<1> QED
  BY <1>3, <1>4

-----------------------------------------------------------------------------
(* The types of all but the loop and the stored block. *)
RestOK ==
  /\ utxo \subseteq AllOutputs /\ history \subseteq Txids
  /\ txids \in [Own -> SUBSET Txids]
  /\ known \subseteq Own /\ announced \in Seq(Heights) /\ detected \subseteq Txids
  /\ due \in BOOLEAN /\ checking \in BOOLEAN
  /\ proc \in Proc /\ pending \subseteq Operation
  /\ cut \subseteq Heights /\ failed \subseteq Heights /\ unmarked \subseteq Heights
  /\ first \in 0..MaxHeight /\ faults \in 0..MaxFaults

LEMMA TypesSplit == TypeOK <=> ScanTypeOK /\ RestOK
BY DEF TypeOK, ScanTypeOK, RestOK

Shape == Inv /\ RestOK /\ TurnsKept /\ BlocksKept /\ OpsKept

LEMMA FaultTyped ==
  ASSUME RestOK, NEW kind, Fault(kind)
  PROVE  faults' \in 0..MaxFaults
BY BtcBlockScanAssumption DEF RestOK, Fault

LEMMA IdleTyped == Idle \in Proc /\ Idle.at = "idle" /\ Idle.txs = <<>>
BY DEF Idle, Proc

LEMMA OpTyped ==
  /\ Op("announce") \in Operation /\ Op("announce").kind = "announce"
  /\ Op("processed") \in Operation /\ Op("processed").kind = "processed"
BY DEF Op, Operation

(* The stored block. *)
LEMMA BlockOf ==
  ASSUME Shape, cache # None
  PROVE  Height \in Heights /\ cache.state \in {"SAVED", "PROCESSED"} /\ cache.txs \in Seq(Txs)
BY DEF Shape, Inv, ScanTypeOK, Block, Height

(* While a run works or an operation is in flight, there is a block. *)
LEMMA BlockThere ==
  ASSUME Shape, proc.at # "idle" \/ pending # {} \/ due
  PROVE  cache # None /\ Height \in Heights
<1>1. cache # None
  BY DEF Shape, TurnsKept
<1> QED
  BY <1>1, BlockOf

(* Who has been paid up to a height was paid up to a later one. *)
LEMMA PaidGrows ==
  ASSUME NEW g \in Nat, NEW h \in Nat, g <= h
  PROVE  Paid(g) \subseteq Paid(h)
<1> SUFFICES ASSUME NEW x \in Paid(g) PROVE x \in Paid(h)
  OBVIOUS
<1>1. PICK o \in OwnOutputs : MadeAt(o) <= g /\ x = Owner[o] /\ "restored" \notin Faults
  BY DEF Paid
<1>2. MadeAt(o) \in Nat
  BY OwnIsOutput, MadeSomewhere, BlockTxs
<1>3. MadeAt(o) <= h
  BY <1>1, <1>2
<1> QED
  BY <1>1, <1>3 DEF Paid

LEMMA PaidOwn == \A h : Paid(h) \subseteq Own
BY DEF Paid, OwnOutputs

(* A wallet that is restored here later may have been paid; unless there is one,
   a block pays addresses that are known. *)
LEMMA BlockPaysKnown ==
  ASSUME "restored" \notin Faults, NEW h \in Heights, PaysKnown(h),
         NEW o \in OwnOutputs, MadeAt(o) = h
  PROVE  Owner[o] \in known
<1>1. PICK tx \in At(h) : o \in Outputs(tx)
  BY OwnIsOutput, MadeSomewhere
<1>2. PICK i \in 1..Len(Chain[h]) : tx = Chain[h][i]
  BY <1>1 DEF At, Listed
<1> QED
  BY <1>1, <1>2 DEF PaysKnown, OwnOutputs

LEMMA AllPaidKnown ==
  ASSUME tip \in Heights, \A h \in 1..tip : PaysKnown(h)
  PROVE  Paid(tip) \subseteq known
<1> SUFFICES ASSUME NEW o \in OwnOutputs, MadeAt(o) <= tip, "restored" \notin Faults
             PROVE  Owner[o] \in known
  BY DEF Paid
<1>1. MadeAt(o) \in Heights
  BY OwnIsOutput, MadeSomewhere
<1>2. MadeAt(o) \in 1..tip
  BY <1>1, BlockTxs DEF Heights
<1> QED
  BY <1>1, <1>2, BlockPaysKnown

(* Steps that leave the run, its block and its operations alone. *)
LEMMA OutsideShape ==
  ASSUME Shape, Inv', UNCHANGED <<cache, proc, pending, first>>, failed \subseteq failed',
         tip <= tip', tip' \in Nat, tip \in Nat, RestOK', TurnsKept',
         Paid(tip)' \subseteq known',
         scan'.at = "store" => Served(scan.next)'
  PROVE  Shape'
<1>1. ASSUME NEW block, block.height \in Nat, Served(block)
      PROVE  /\ block.height <= tip' /\ Listed(block.txs) \subseteq At(block.height)
             /\ block.height \notin failed' => block.txs = Chain[block.height]
  BY <1>1 DEF Served
<1>2. cache # None => Served(cache)'
  <2>1. cache # None => Height \in Nat /\ Served(cache)
    BY BlockOf, BlockTxs DEF Shape, BlocksKept
  <2> QED
    BY <1>1, <2>1 DEF Served, Height
<1>3. BlocksKept'
  BY <1>2 DEF Shape, BlocksKept, Height, Paid
<1>4. OpsKept'
  BY DEF Shape, OpsKept, Height
<1> QED
  BY <1>3, <1>4 DEF Shape

(* The loop, up to the arrival of a block, leaves alone ... *)
LEMMA LoopShape ==
  ASSUME Shape, Inv', ScanOnly, failed \subseteq failed', failed' \subseteq Heights,
         faults' \in 0..MaxFaults, scan'.at # "down",
         scan'.at = "store" => Served(scan.next)' /\ pending = {} /\ ~checking
  PROVE  Shape'
<1>1. RestOK'
  BY DEF Shape, RestOK, ScanOnly, database
<1>2. TurnsKept'
  BY DEF Shape, TurnsKept, ScanOnly, database, Marking
<1>3. tip \in Nat /\ tip' = tip /\ Paid(tip)' \subseteq known'
  BY BlockTxs DEF Shape, Inv, ScanTypeOK, BlocksKept, ScanOnly, Paid
<1> QED
  BY <1>1, <1>2, <1>3, OutsideShape DEF ScanOnly, database

LEMMA TurnShape ==
  ASSUME Shape, Inv', Wake \/ Load \/ Latest \/ LatestUnknown \/ ExplorerFails
  PROVE  Shape'
<1>1. failed' = failed /\ failed \subseteq Heights /\ ScanOnly
  BY DEF Wake, Load, Latest, LatestUnknown, ExplorerFails, Shape, RestOK
<1>2. faults' \in 0..MaxFaults
  BY FaultTyped DEF Wake, Load, Latest, LatestUnknown, ExplorerFails, Shape, RestOK
<1>3. scan'.at \notin {"down", "store"}
  <2>1. scan \in Scan
    BY DEF Shape, Inv, ScanTypeOK
  <2> QED
    BY <2>1 DEF Wake, Load, Latest, LatestUnknown, ExplorerFails, NextLoop, NotRunning, Scan
<1> QED
  BY <1>1, <1>2, <1>3, LoopShape

LEMMA GetBlockShape ==
  ASSUME Shape, Inv', GetBlock \/ GetBlockTruncated
  PROVE  Shape'
<1>1. /\ scan \in Scan /\ scan.at = "block" /\ scan.height \in Heights /\ scan.height <= tip
      /\ pending = {} /\ ~checking /\ ScanOnly /\ tip' = tip
  BY DEF GetBlock, GetBlockTruncated, DatabaseIsQuiet, Shape, Inv, ScanTypeOK, ScanFollows,
         ScanOnly
<1>2. failed \subseteq failed' /\ failed' \subseteq Heights
  BY <1>1 DEF GetBlock, GetBlockTruncated, Shape, RestOK
<1>3. faults' \in 0..MaxFaults
  BY FaultTyped DEF GetBlock, GetBlockTruncated, Shape, RestOK
<1>4. ASSUME NEW txs, BlockWith(txs)
      PROVE  scan'.at = "store" /\ scan'.next.height = scan.height /\ scan'.next.txs = txs
  <2> DEFINE block == [state |-> "SAVED", height |-> scan.height, txs |-> txs]
  <2>1. block.height = scan.height /\ block.txs = txs
    OBVIOUS
  <2>2. scan' = [scan EXCEPT !.at = "store", !.next = block]
    BY <1>4 DEF BlockWith
  <2> HIDE DEF block
  <2> QED
    BY <1>1, <2>1, <2>2 DEF Scan
<1>5. CASE GetBlock
  <2>1. BlockWith(Chain[scan.height])
    BY <1>5 DEF GetBlock
  <2>2. scan'.at = "store" /\ scan'.next.height = scan.height
        /\ scan'.next.txs = Chain[scan.height]
    BY <1>4, <2>1
  <2>3. Served(scan.next)'
    BY <1>1, <2>2 DEF Served, At
  <2> QED
    BY <1>1, <1>2, <1>3, <2>2, <2>3, LoopShape
<1>6. CASE GetBlockTruncated
  <2>1. PICK n \in 0..(Len(Chain[scan.height]) - 1) :
          BlockWith(SubSeq(Chain[scan.height], 1, n))
    BY <1>6 DEF GetBlockTruncated
  <2> DEFINE txs == SubSeq(Chain[scan.height], 1, n)
  <2>2. scan'.at = "store" /\ scan'.next.height = scan.height /\ scan'.next.txs = txs
    BY <1>4, <2>1
  <2>3. scan.height \in failed'
    BY <1>6 DEF GetBlockTruncated
  <2>4. Listed(txs) \subseteq At(scan.height)
    <3>1. Chain[scan.height] \in Seq(Txs) /\ Len(Chain[scan.height]) \in Nat
      BY <1>1, ChainTyped
    <3>2. n \in Int /\ n <= Len(Chain[scan.height])
      BY <3>1
    <3>3. \A i \in 1..n : Chain[scan.height][i] \in Txs
      BY <3>1, <3>2, ElementOfSeq
    <3>4. Len(txs) = IF 1 <= n THEN n - 1 + 1 ELSE 0
      BY <3>2, <3>3, SubSeqProperties
    <3>5. \A i \in 1..(n - 1 + 1) : txs[i] = Chain[scan.height][1 + i - 1]
      BY <3>2, <3>3, SubSeqProperties
    <3> HIDE DEF txs
    <3>6. \A i \in 1..Len(txs) : i \in 1..Len(Chain[scan.height])
                                 /\ txs[i] = Chain[scan.height][i]
      BY <3>1, <3>2, <3>4, <3>5
    <3> QED
      BY <3>6 DEF Listed, At
  <2> HIDE DEF txs
  <2>5. Served(scan.next)'
    BY <1>1, <2>2, <2>3, <2>4 DEF Served
  <2> QED
    BY <1>1, <1>2, <1>3, <2>2, <2>5, LoopShape
<1> QED
  BY <1>5, <1>6

(* ... and so do a new block of the chain, a new address and a start. *)
LEMMA MineShape ==
  ASSUME Shape, Inv', Mine
  PROVE  Shape'
<1>1. /\ tip \in Heights /\ tip' = tip + 1 /\ tip < MaxHeight /\ MaxHeight \in Nat
      /\ tip' \in Heights /\ tip' \in Nat /\ tip \in Nat /\ PaysKnown(tip + 1)
      /\ UNCHANGED <<database, known, process, cut, failed, unmarked, first>>
  BY ChainTyped, BlockTxs DEF Mine, Shape, Inv, ScanTypeOK, Heights
<1>2. RestOK'
  BY DEF Mine, Shape, RestOK, database, process
<1>3. TurnsKept'
  BY <1>1 DEF Shape, TurnsKept, database, process, Marking
<1>4. Paid(tip)' \subseteq known'
  <2> SUFFICES ASSUME NEW o \in OwnOutputs, MadeAt(o) <= tip + 1, "restored" \notin Faults
               PROVE  Owner[o] \in known
    BY <1>1 DEF Paid
  <2>1. MadeAt(o) \in Nat
    BY OwnIsOutput, MadeSomewhere, BlockTxs
  <2>2. CASE MadeAt(o) <= tip
    BY <2>2 DEF Shape, BlocksKept, Paid
  <2>3. CASE MadeAt(o) = tip + 1
    BY <1>1, <2>3, BlockPaysKnown
  <2> QED
    BY <1>1, <2>1, <2>2, <2>3
<1>5. scan'.at = "store" => Served(scan.next)'
  <2>1. scan.at = "store" => scan.next.height \in Nat /\ Served(scan.next)
    BY BlockTxs DEF Shape, Inv, ScanFollows, Block, BlocksKept
  <2> QED
    BY <1>1, <2>1 DEF Served, process
<1>6. tip <= tip'
  BY <1>1
<1> QED
  BY <1>1, <1>2, <1>3, <1>4, <1>5, <1>6, OutsideShape DEF database, process

LEMMA NewAddressShape ==
  ASSUME Shape, Inv', NEW address \in Own, NewAddress(address)
  PROVE  Shape'
<1>1. RestOK'
  BY DEF NewAddress, Shape, RestOK, database, process
<1>2. TurnsKept'
  BY DEF NewAddress, Shape, TurnsKept, database, process, Marking
<1>3. tip' = tip /\ tip \in Nat /\ Paid(tip)' \subseteq known'
  BY BlockTxs DEF NewAddress, Shape, Inv, ScanTypeOK, BlocksKept, Paid
<1>4. scan'.at = "store" => Served(scan.next)'
  BY DEF NewAddress, Shape, BlocksKept, Served, process
<1> QED
  BY <1>1, <1>2, <1>3, <1>4, OutsideShape DEF NewAddress, database, process

LEMMA StartScanShape ==
  ASSUME Shape, Inv', StartScan
  PROVE  Shape'
<1>1. RestOK'
  BY DEF StartScan, Shape, RestOK, database
<1>2. scan'.at = "load"
  BY DEF StartScan, NotRunning
<1>3. TurnsKept'
  BY <1>2 DEF StartScan, Shape, TurnsKept, database, Marking
<1>4. tip' = tip /\ tip \in Nat /\ Paid(tip)' \subseteq known'
  BY BlockTxs DEF StartScan, Shape, Inv, ScanTypeOK, BlocksKept, Paid
<1> QED
  BY <1>1, <1>2, <1>3, <1>4, OutsideShape DEF StartScan, database

(* What a step of the run keeps. *)
Moved ==
  /\ proc' \in Proc /\ pending' \subseteq Operation /\ detected' \subseteq Txids
  /\ TurnsKept' /\ BlocksKept' /\ OpsKept'

Working == cache # None /\ cache.state = "SAVED" /\ proc.at # "idle"

ProcStep == ProcOnly /\ cache' = cache /\ failed \subseteq failed'

LEMMA WorkerAlone ==
  ASSUME Shape, proc.at # "idle"
  PROVE  /\ Working /\ ~Marking /\ Height \in Heights /\ scan.at \notin {"down", "store"}
         /\ ~due /\ ~checking /\ Served(cache) /\ first \in 1..Height
<1>1. cache # None
  BY DEF Shape, TurnsKept
<1> QED
  BY <1>1, BlockOf DEF Shape, TurnsKept, BlocksKept, Inv, ScanFollows, Working

LEMMA OperationAlone ==
  ASSUME Shape, pending # {}
  PROVE  cache # None /\ Height \in Heights /\ scan.at \notin {"down", "store"} /\ ~due /\ ~checking
BY BlockThere DEF Shape, TurnsKept

LEMMA BlocksStay ==
  ASSUME Shape, ProcStep,
         proc'.at \in {"addresses", "remove", "insert", "history"} => proc'.txs = cache.txs,
         proc'.at \in {"remove", "insert", "history"} => Paid(Height) \subseteq proc'.addresses
  PROVE  BlocksKept'
<1>1. cache # None => Served(cache)'
  BY DEF Shape, BlocksKept, Served, ProcStep, ProcOnly
<1>2. scan'.at = "store" => Served(scan.next)'
  BY DEF Shape, BlocksKept, Served, ProcStep, ProcOnly
<1> QED
  BY <1>1, <1>2 DEF Shape, BlocksKept, ProcStep, ProcOnly, Height, Paid

LEMMA TurnsStay ==
  ASSUME Shape, ProcStep, cache # None, scan.at \notin {"down", "store"}, ~due, ~checking,
         proc'.at # "idle" => cache.state = "SAVED" /\ Op("processed") \notin pending'
  PROVE  TurnsKept'
BY DEF TurnsKept, ProcStep, ProcOnly, Marking

LEMMA FinishMoves ==
  ASSUME Shape, ProcStep, proc.at # "idle" \/ pending # {}, NEW others \in SUBSET pending,
         Finish(others), \A op \in others : op.kind = "remove" => Height \in failed'
  PROVE  Moved
<1>1. proc' = Idle /\ pending' = others \cup {Op("processed")} /\ detected' = detected
  BY DEF Finish
<1>2. cache # None /\ scan.at \notin {"down", "store"} /\ ~due /\ ~checking
  BY WorkerAlone, OperationAlone DEF Working
<1>3. TurnsKept' /\ BlocksKept'
  BY <1>1, <1>2, IdleTyped, TurnsStay, BlocksStay
<1>4. OpsKept'
  BY <1>1, OpTyped DEF Shape, OpsKept, Height, ProcStep
<1> QED
  BY <1>1, <1>3, <1>4, IdleTyped, OpTyped DEF Moved, Shape, RestOK

LEMMA BeginMoves ==
  ASSUME Shape, ProcStep, proc.at # "idle", NEW run \in Proc, run.txs = cache.txs,
         Paid(Height) \subseteq run.addresses, NEW i \in 1..4, NEW others \in SUBSET pending,
         BeginSteps(run, i, others), \A op \in others : op.kind = "remove" => Height \in failed'
  PROVE  Moved
<1>1. Finds(run, i, others)
  BY BeginsFirst
<1>2. /\ cache # None /\ cache.state = "SAVED" /\ ~Marking /\ Height \in Heights
      /\ scan.at \notin {"down", "store"} /\ ~due /\ ~checking
      /\ Listed(run.txs) \subseteq At(Height)
  BY WorkerAlone DEF Working, Served, Height
<1>3. run.addresses \subseteq Own
  BY DEF Proc
<1>4. CASE Finish(others)
  BY <1>4, FinishMoves
<1>5. ASSUME NEW at \in {"remove", "insert", "history"}, NEW ops,
             proc' = [run EXCEPT !.at = at], pending' = others \cup ops,
             detected' \subseteq Txids, ops \subseteq Operation,
             \A op \in ops :
               /\ op.kind \in {"remove", "insert", "history"}
               /\ op.kind = "remove" => at = "remove" /\ Height \in SpentAt(op.output)
               /\ op.kind = "insert" => /\ op = InsertOp(op.output) /\ op.output \in AllOutputs
                                        /\ MadeAt(op.output) = Height
               /\ op.kind = "history" => op.txid \in Txids /\ op.address \in Own
      PROVE  Moved
  <2>1. /\ proc' \in Proc /\ proc'.at = at /\ proc'.txs = cache.txs
        /\ Paid(Height) \subseteq proc'.addresses
    BY <1>5 DEF Proc
  <2>2. Op("processed") \notin pending'
    BY <1>2, <1>5, OpTyped DEF Marking
  <2>3. TurnsKept' /\ BlocksKept'
    BY <1>2, <2>1, <2>2, TurnsStay, BlocksStay
  <2>4. OpsKept'
    BY <1>5, <2>1 DEF Shape, OpsKept, Height, ProcStep
  <2> QED
    BY <1>5, <2>1, <2>3, <2>4 DEF Moved, Shape, RestOK
<1>6. ASSUME proc' = [run EXCEPT !.at = "remove"], pending' = others \cup RemoveOps(run),
             UNCHANGED detected
      PROVE  Moved
  <2>1. \A op \in RemoveOps(run) : op.kind = "remove" /\ op \in Operation
                                   /\ Height \in SpentAt(op.output)
    BY <1>2, <1>3, RunOps DEF RemoveOp, Op
  <2>2. detected' \subseteq Txids
    BY <1>6 DEF Shape, RestOK
  <2> QED
    BY <1>5, <1>6, <2>1, <2>2
<1>7. ASSUME proc' = [run EXCEPT !.at = "insert"], pending' = others \cup InsertOps(run),
             UNCHANGED detected
      PROVE  Moved
  <2>1. \A op \in InsertOps(run) : /\ op = InsertOp(op.output) /\ op \in Operation
                                   /\ op.output \in AllOutputs /\ MadeAt(op.output) = Height
    BY <1>2, <1>3, RunOps
  <2>3. \A op \in InsertOps(run) : op.kind = "insert"
    BY <2>1 DEF InsertOp, Op
  <2>2. detected' \subseteq Txids
    BY <1>7 DEF Shape, RestOK
  <2> QED
    BY <1>5, <1>7, <2>1, <2>2, <2>3
<1>8. ASSUME proc' = [run EXCEPT !.at = "history"], pending' = others \cup HistoryOps(run),
             detected' = detected \cup {op.txid : op \in HistoryOps(run)}
      PROVE  Moved
  <2>1. \A op \in HistoryOps(run) : /\ op.kind = "history" /\ op \in Operation
                                    /\ op.txid \in Txids /\ op.address \in Own
    BY <1>2, <1>3, RunOps
  <2>2. detected' \subseteq Txids
    BY <1>8, <2>1 DEF Shape, RestOK
  <2> QED
    BY <1>5, <1>8, <2>1, <2>2
<1> QED
  BY <1>1, <1>4, <1>6, <1>7, <1>8 DEF Finds

(* An operation is over. *)
LEMMA StepNumbers ==
  /\ StepOf("remove") = 1 /\ StepOf("insert") = 2 /\ StepOf("history") = 3
<1>1. /\ Steps[1] = "remove" /\ Steps[2] = "insert" /\ Steps[3] = "history"
      /\ \A i \in 1..3 : i = 1 \/ i = 2 \/ i = 3
  BY DEF Steps
<1>2. \A step \in {"remove", "insert", "history"} :
        \E i \in 1..3 : Steps[i] = step /\ \A j \in 1..3 : Steps[j] = step => j = i
  BY <1>1
<1>3. \A step \in {"remove", "insert", "history"} :
        StepOf(step) \in 1..3 /\ Steps[StepOf(step)] = step
  BY <1>2 DEF StepOf
<1> QED
  BY <1>1, <1>3

(* An operation that is over, with the run where it is. *)
LEMMA ShrinkMoves ==
  ASSUME Shape, ProcStep, NEW op \in pending, pending' = pending \ {op}, UNCHANGED <<proc, detected>>
  PROVE  Moved
<1>1. cache # None /\ scan.at \notin {"down", "store"} /\ ~due /\ ~checking
  BY OperationAlone
<1>2. proc'.at # "idle" => cache.state = "SAVED" /\ Op("processed") \notin pending'
  BY WorkerAlone DEF Working, Marking
<1>3. TurnsKept' /\ BlocksKept'
  BY <1>1, <1>2, TurnsStay, BlocksStay DEF Shape, BlocksKept
<1>4. OpsKept'
  BY DEF Shape, OpsKept, Height, ProcStep
<1> QED
  BY <1>3, <1>4 DEF Moved, Shape, RestOK

LEMMA CompleteMoves ==
  ASSUME Shape, ProcStep, NEW op \in pending, NEW step \in {"remove", "insert", "history"},
         Complete(op, step)
  PROVE  Moved
<1> DEFINE others == pending \ {op}
<1>1. CASE proc.at = step /\ \A other \in others : other.kind \notin {step, op.kind}
  <2>1. BeginSteps(proc, StepOf(step) + 1, others)
    BY <1>1 DEF Complete
  <2>2. StepOf(step) + 1 \in 1..4
    BY StepNumbers
  <2>3. proc \in Proc /\ proc.txs = cache.txs /\ Paid(Height) \subseteq proc.addresses
        /\ proc.at # "idle"
    BY <1>1 DEF Shape, RestOK, BlocksKept
  <2>4. \A other \in others : other.kind = "remove" => Height \in failed'
    BY <1>1 DEF Shape, OpsKept, ProcStep
  <2> QED
    BY <2>1, <2>2, <2>3, <2>4, BeginMoves
<1>2. CASE ~(proc.at = step /\ \A other \in others : other.kind \notin {step, op.kind})
  BY <1>2, ShrinkMoves DEF Complete
<1> QED
  BY <1>1, <1>2

LEMMA AbandonMoves ==
  ASSUME Shape, ProcStep, NEW op \in pending, NEW step, Abandon(op, step),
         proc.at = step => step # "remove" \/ Height \in failed'
  PROVE  Moved
<1>1. CASE proc.at = step
  <2>1. Finish(pending \ {op})
    BY <1>1 DEF Abandon
  <2>2. \A other \in pending \ {op} : other.kind = "remove" => Height \in failed'
    BY <1>1 DEF Shape, OpsKept, ProcStep
  <2> QED
    BY <2>1, <2>2, FinishMoves
<1>2. CASE proc.at # step
  BY <1>2, ShrinkMoves DEF Abandon
<1> QED
  BY <1>1, <1>2

(* The rest of a processing step. *)
LEMMA MovedShape ==
  ASSUME Shape, Inv', ProcStep, Moved, utxo' \subseteq AllOutputs, history' \subseteq Txids,
         txids' \in [Own -> SUBSET Txids], announced' \in Seq(Heights),
         failed' \subseteq Heights, faults' \in 0..MaxFaults
  PROVE  Shape'
BY DEF Shape, RestOK, Moved, ProcStep, ProcOnly

LEMMA LoadSavedShape ==
  ASSUME Shape, Inv', LoadSaved
  PROVE  Shape'
<1> DEFINE run == [proc EXCEPT !.at = "addresses", !.txs = cache.txs]
<1>1. /\ cache # None /\ cache.state = "SAVED" /\ proc.at # "idle" /\ ~Marking
      /\ scan.at \notin {"down", "store"} /\ ~due /\ ~checking /\ proc \in Proc
      /\ cache.txs \in Seq(Txs)
  BY WorkerAlone, BlockOf DEF LoadSaved, Working, Shape, RestOK
<1>2. proc' = run /\ pending' = pending \cup {Op("announce")} /\ UNCHANGED detected
  BY <1>1 DEF LoadSaved
<1>3. run \in Proc /\ run.at = "addresses" /\ run.txs = cache.txs
  BY <1>1 DEF Proc
<1> HIDE DEF run
<1>4. ProcStep
  BY DEF LoadSaved, ProcStep, database
<1>5. Op("processed") \notin pending'
  BY <1>1, <1>2, OpTyped DEF Marking
<1>6. TurnsKept' /\ BlocksKept'
  BY <1>1, <1>2, <1>3, <1>4, <1>5, TurnsStay, BlocksStay
<1>7. OpsKept'
  <2>1. proc.at # "remove"
    BY DEF LoadSaved
  <2> QED
    BY <1>2, <1>4, <2>1, OpTyped DEF Shape, OpsKept, Height, ProcStep
<1>8. Moved
  BY <1>2, <1>3, <1>6, <1>7, OpTyped DEF Moved, Shape, RestOK
<1> QED
  BY <1>4, <1>8, MovedShape DEF LoadSaved, database, Shape, RestOK

(* The run that begins when the addresses are known, or has nothing to do. *)
LEMMA LoadAddressesBegins ==
  ASSUME Shape, LoadAddresses
  PROVE  \/ Finish(pending) /\ (cache.txs = <<>> \/ Paid(Height) = {})
         \/ LET run == [proc EXCEPT !.addresses = known]
            IN  /\ run \in Proc /\ run.txs = cache.txs /\ Paid(Height) \subseteq run.addresses
                /\ BeginSteps(run, 1, pending)
<1>1. /\ proc.at = "addresses" /\ proc \in Proc /\ proc.txs = cache.txs /\ known \subseteq Own
      /\ Height \in Nat /\ Height <= tip /\ tip \in Nat
  BY WorkerAlone, BlockTxs DEF LoadAddresses, Shape, RestOK, BlocksKept, Served, Height, Inv,
     ScanTypeOK
<1>2. Paid(Height) \subseteq known
  BY <1>1, PaidGrows DEF Shape, BlocksKept
<1>3. CASE proc.txs = <<>> \/ known = {}
  <2>1. PICK run : BeginSteps(run, 4, pending)
    BY <1>3 DEF LoadAddresses
  <2>2. Finds(run, 4, pending)
    BY <2>1, BeginsFirst
  <2> QED
    BY <1>1, <1>2, <1>3, <2>2 DEF Finds
<1>4. CASE ~(proc.txs = <<>> \/ known = {})
  BY <1>1, <1>2, <1>4 DEF LoadAddresses, Proc
<1> QED
  BY <1>3, <1>4

LEMMA LoadAddressesShape ==
  ASSUME Shape, Inv', LoadAddresses
  PROVE  Shape'
<1>1. ProcStep /\ proc.at = "addresses"
  BY DEF LoadAddresses, ProcStep, database
<1>2. \A op \in pending : op.kind = "remove" => Height \in failed'
  BY <1>1 DEF Shape, OpsKept, ProcStep
<1>3. CASE Finish(pending)
  BY <1>1, <1>2, <1>3, FinishMoves, MovedShape DEF LoadAddresses, database, Shape, RestOK
<1>4. CASE ~Finish(pending)
  <2> DEFINE run == [proc EXCEPT !.addresses = known]
  <2>1. /\ run \in Proc /\ run.txs = cache.txs /\ Paid(Height) \subseteq run.addresses
        /\ BeginSteps(run, 1, pending)
    BY <1>4, LoadAddressesBegins
  <2> HIDE DEF run
  <2>2. Moved
    BY <1>1, <1>2, <2>1, BeginMoves
  <2> QED
    BY <1>1, <2>2, MovedShape DEF LoadAddresses, database, Shape, RestOK
<1> QED
  BY <1>3, <1>4

LEMMA LoadFailsShape ==
  ASSUME Shape, Inv', LoadFails
  PROVE  Shape'
<1>1. ProcStep /\ proc.at \in {"load", "addresses"} /\ Finish(pending)
  BY DEF LoadFails, ProcStep, database
<1>2. failed' \subseteq Heights /\ faults' \in 0..MaxFaults
  BY <1>1, WorkerAlone, FaultTyped DEF LoadFails, Shape, RestOK, Height
<1>3. \A op \in pending : op.kind = "remove" => Height \in failed'
  BY <1>1 DEF Shape, OpsKept, ProcStep
<1> QED
  BY <1>1, <1>2, <1>3, FinishMoves, MovedShape DEF LoadFails, database, Shape, RestOK

(* The answers of the database. *)
LEMMA AnswerShape ==
  ASSUME Shape, Inv', NEW op \in pending,
         RemoveUtxo(op) \/ InsertUtxo(op) \/ StoreHistory(op) \/ AddTxid(op) \/ Announce(op)
  PROVE  Shape'
<1>1. ProcStep /\ failed' \subseteq Heights /\ faults' \in 0..MaxFaults
  BY DEF RemoveUtxo, InsertUtxo, StoreHistory, AddTxid, Announce, ProcStep, Shape, RestOK,
         database
<1>2. op \in Operation /\ Height \in Heights
  BY OperationAlone DEF Shape, RestOK
<1>3. CASE RemoveUtxo(op)
  <2>1. Moved
    BY <1>1, <1>3, CompleteMoves DEF RemoveUtxo
  <2> QED
    BY <1>1, <1>3, <2>1, MovedShape DEF RemoveUtxo, Shape, RestOK
<1>4. CASE InsertUtxo(op)
  <2>1. op.output \in AllOutputs
    BY <1>4 DEF InsertUtxo, Shape, OpsKept
  <2>2. Moved
    BY <1>1, <1>4, AbandonMoves, CompleteMoves DEF InsertUtxo
  <2> QED
    BY <1>1, <1>4, <2>1, <2>2, MovedShape DEF InsertUtxo, Shape, RestOK
<1>5. op.kind \in {"history", "lookup"} => op.txid \in Txids /\ op.address \in Own
  BY DEF Shape, OpsKept
<1>6. CASE StoreHistory(op)
  <2> DEFINE next == [op EXCEPT !.kind = "lookup"]
  <2>1. /\ op.kind = "history" /\ proc' = proc /\ UNCHANGED detected
        /\ pending' = (pending \ {op}) \cup {next} /\ history' = history \cup {op.txid}
    BY <1>6 DEF StoreHistory
  <2>2. next \in Operation /\ next.kind = "lookup" /\ next.txid = op.txid
        /\ next.address = op.address
    BY <1>2 DEF Operation
  <2> HIDE DEF next
  <2>3. cache # None /\ scan.at \notin {"down", "store"} /\ ~due /\ ~checking
    BY OperationAlone
  <2>4. proc'.at # "idle" => cache.state = "SAVED" /\ Op("processed") \notin pending'
    BY <2>1, <2>2, WorkerAlone, OpTyped DEF Working, Marking
  <2>5. TurnsKept' /\ BlocksKept'
    BY <1>1, <2>1, <2>3, <2>4, TurnsStay, BlocksStay DEF Shape, BlocksKept
  <2>6. OpsKept'
    BY <1>1, <1>5, <2>1, <2>2 DEF Shape, OpsKept, Height, ProcStep
  <2>7. Moved
    BY <2>1, <2>2, <2>5, <2>6 DEF Moved, Shape, RestOK
  <2> QED
    BY <1>1, <1>5, <1>6, <2>1, <2>7, MovedShape DEF StoreHistory, Shape, RestOK
<1>7. CASE AddTxid(op)
  <2>1. Moved
    BY <1>1, <1>7, CompleteMoves DEF AddTxid
  <2>2. txids' \in [Own -> SUBSET Txids]
    BY <1>5, <1>7 DEF AddTxid, Shape, RestOK
  <2> QED
    BY <1>1, <1>7, <2>1, <2>2, MovedShape DEF AddTxid, Shape, RestOK
<1>8. CASE Announce(op)
  <2>1. Moved
    BY <1>1, <1>8, ShrinkMoves DEF Announce
  <2>2. announced' \in Seq(Heights)
    BY <1>2, <1>8 DEF Announce, Shape, RestOK, Height
  <2> QED
    BY <1>1, <1>8, <2>1, <2>2, MovedShape DEF Announce, database, Shape, RestOK
<1> QED
  BY <1>3, <1>4, <1>6, <1>7, <1>8

LEMMA OperationFailsShape ==
  ASSUME Shape, Inv', NEW op \in pending, OperationFails(op)
  PROVE  Shape'
<1>1. ProcStep /\ failed' = failed \cup {Height}
  BY DEF OperationFails, ProcStep, database, Height
<1>2. failed' \subseteq Heights /\ faults' \in 0..MaxFaults
  BY <1>1, OperationAlone, FaultTyped DEF OperationFails, Shape, RestOK
<1>3. Moved
  BY <1>1, AbandonMoves DEF OperationFails
<1> QED
  BY <1>1, <1>2, <1>3, MovedShape DEF OperationFails, database, Shape, RestOK

(* The block is marked, or could not be. *)
LEMMA MarkingAlone ==
  ASSUME Shape, NEW op \in pending, op.kind = "processed"
  PROVE  op = Op("processed") /\ Marking /\ proc.at = "idle"
BY WorkerAlone DEF Marking, Shape, OpsKept

LEMMA MarkShape ==
  ASSUME Shape, Inv', NEW op \in pending, MarkProcessed(op)
  PROVE  Shape'
<1>1. /\ proc.at = "idle" /\ cache # None /\ Height \in Heights
      /\ scan.at \notin {"down", "store"} /\ ~due /\ ~checking
  BY MarkingAlone, OperationAlone DEF MarkProcessed
<1>2. /\ cache' = [cache EXCEPT !.state = "PROCESSED"] /\ pending' = pending \ {op}
      /\ ProcOnly /\ UNCHANGED <<utxo, history, txids, announced, detected, proc, failed, faults>>
  BY <1>1 DEF MarkProcessed
<1>3. cache \in Block
  BY <1>1 DEF Shape, Inv, ScanTypeOK
<1>4. cache' # None /\ cache'.height = cache.height /\ cache'.txs = cache.txs
  <2>1. cache' \in Block /\ cache'.height = cache.height /\ cache'.txs = cache.txs
    BY <1>2, <1>3 DEF Block
  <2>2. cache' # None
    BY <2>1, NoneIsNothing
  <2> QED
    BY <2>1, <2>2
<1>5. RestOK'
  BY <1>2 DEF Shape, RestOK, ProcOnly
<1>6. TurnsKept'
  BY <1>1, <1>2, <1>4 DEF TurnsKept, ProcOnly
<1>7. BlocksKept'
  BY <1>1, <1>2, <1>4 DEF Shape, BlocksKept, Served, Height, Paid, ProcOnly
<1>8. OpsKept'
  BY <1>2, <1>4 DEF Shape, OpsKept, Height
<1> QED
  BY <1>5, <1>6, <1>7, <1>8 DEF Shape

LEMMA UpdateFailsShape ==
  ASSUME Shape, Inv', NEW op \in pending, UpdateFails(op)
  PROVE  Shape'
<1>1. /\ proc.at = "idle" /\ cache # None /\ Height \in Heights
      /\ scan.at \notin {"down", "store"} /\ ~due /\ ~checking
  BY MarkingAlone, OperationAlone DEF UpdateFails
<1>2. /\ pending' = pending \ {op} /\ unmarked' = unmarked \cup {Height} /\ faults' \in 0..MaxFaults
      /\ UNCHANGED <<tip, database, known, announced, detected, scan, due, checking, proc,
                     cut, failed, first>>
  BY FaultTyped DEF UpdateFails, Shape, RestOK, Height
<1>3. RestOK'
  BY <1>1, <1>2 DEF Shape, RestOK, database
<1>4. TurnsKept'
  BY <1>1, <1>2 DEF TurnsKept, database
<1>5. BlocksKept'
  BY <1>1, <1>2 DEF Shape, BlocksKept, Served, Height, Paid, database
<1>6. OpsKept'
  BY <1>1, <1>2 DEF Shape, OpsKept, Height, database
<1> QED
  BY <1>3, <1>4, <1>5, <1>6 DEF Shape

(* The block is stored; its run is still to begin. *)
LEMMA StoreShape ==
  ASSUME Shape, Inv', Store
  PROVE  Shape'
<1>1. /\ scan.at = "store" /\ scan.next \in Block /\ scan.next.state = "SAVED"
      /\ scan.next.height = scan.height /\ scan.height \in Heights /\ Served(scan.next)
      /\ pending = {} /\ ~checking
      /\ cache # None => cache.state = "PROCESSED"
  BY DEF Store, Shape, Inv, ScanFollows, BlocksKept, TurnsKept
<1>2. proc.at = "idle"
  BY <1>1, WorkerAlone DEF Working
<1>3. scan'.at = "sleep" /\ cache' = scan.next /\ cache' # None
  BY <1>1, NoneIsNothing DEF Store, NextLoop, NotRunning
<1>4. first' \in 1..scan.height /\ first' \in 0..MaxHeight
  <2>1. first = 0 => first' = scan.height
    BY DEF Store
  <2>2. first # 0 => cache # None /\ first' = first /\ first \in 1..Height
    BY DEF Store, Shape, BlocksKept
  <2>3. cache # None => scan.height = Height + 1 /\ Height \in Heights
    BY <1>1, BlockOf DEF Shape, Inv, ScanFollows, Height
  <2>4. scan.height \in 1..MaxHeight /\ MaxHeight \in Nat
    BY <1>1, ChainTyped DEF Heights
  <2> HIDE DEF Height
  <2>5. CASE first = 0
    BY <2>1, <2>4, <2>5
  <2>6. CASE first # 0
    <3>1. Height \in 1..MaxHeight
      BY <2>2, <2>3, <2>6 DEF Heights
    <3> QED
      BY <2>2, <2>3, <2>4, <2>6, <3>1
  <2> QED
    BY <2>5, <2>6
<1>5. RestOK'
  BY <1>4 DEF Store, Shape, RestOK
<1>6. TurnsKept'
  BY <1>1, <1>2, <1>3 DEF Store, TurnsKept
<1>7. BlocksKept'
  BY <1>1, <1>2, <1>3, <1>4 DEF Store, Shape, BlocksKept, Served, Height, Paid
<1>8. OpsKept'
  BY <1>1 DEF Store, OpsKept
<1> QED
  BY <1>5, <1>6, <1>7, <1>8 DEF Shape

(* A run begins, after the timer or after a start. *)
LEMMA BeginShape ==
  ASSUME Shape, Inv', ProcessBlock \/ CheckDBBlockState
  PROVE  Shape'
<1>1. /\ pending = {} /\ proc.at = "idle" /\ pending' = {}
      /\ UNCHANGED <<tip, database, known, announced, detected, scan, cut, failed, unmarked,
                     first, faults>>
      /\ proc' = proc \/ (proc' = [Idle EXCEPT !.at = "load"] /\ cache # None
                          /\ cache.state = "SAVED")
      /\ due' \in BOOLEAN /\ checking' \in BOOLEAN /\ ~due' /\ ~checking'
  <2>1. pending = {} /\ proc.at = "idle" /\ due \in BOOLEAN /\ checking \in BOOLEAN
        /\ (due => cache # None /\ cache.state = "SAVED" /\ ~checking)
    BY BlockThere DEF ProcessBlock, CheckDBBlockState, Shape, TurnsKept, RestOK
  <2>2. CASE ProcessBlock
    BY <2>1, <2>2 DEF ProcessBlock, Begin
  <2>3. CASE CheckDBBlockState
    BY <2>1, <2>3 DEF CheckDBBlockState, Begin
  <2> QED
    BY <2>2, <2>3
<1>2. [Idle EXCEPT !.at = "load"] \in Proc /\ [Idle EXCEPT !.at = "load"].at = "load"
  BY IdleTyped DEF Proc
<1>3. RestOK'
  BY <1>1, <1>2 DEF Shape, RestOK, database
<1>4. scan.at = "down" => proc' = proc
  BY DEF ProcessBlock, CheckDBBlockState, Shape, TurnsKept
<1>5. TurnsKept'
  BY <1>1, <1>2, <1>4 DEF Shape, TurnsKept, database, Marking
<1>6. BlocksKept'
  BY <1>1, <1>2 DEF Shape, BlocksKept, Served, Height, Paid, database
<1>7. OpsKept'
  BY <1>1 DEF OpsKept
<1> QED
  BY <1>3, <1>5, <1>6, <1>7 DEF Shape

LEMMA CrashShape ==
  ASSUME Shape, Inv', Crash
  PROVE  Shape'
<1>1. proc.at # "idle" \/ pending # {} => Height \in Heights
  BY WorkerAlone, OperationAlone
<1>2. cut' \subseteq Heights /\ failed' \subseteq Heights /\ failed \subseteq failed'
  BY <1>1 DEF Crash, Shape, RestOK, Height
<1>3. RestOK'
  BY <1>2, IdleTyped, FaultTyped DEF Crash, Shape, RestOK, database
<1>4. scan'.at = "down" /\ proc'.at = "idle"
  BY IdleTyped DEF Crash, NotRunning
<1>5. TurnsKept'
  BY <1>4 DEF Crash, TurnsKept
<1>6. BlocksKept'
  BY <1>2, <1>4 DEF Crash, Shape, BlocksKept, Served, Height, Paid, database
<1>7. OpsKept'
  BY DEF Crash, OpsKept
<1> QED
  BY <1>3, <1>5, <1>6, <1>7 DEF Shape

LEMMA StutterShape ==
  ASSUME Shape, UNCHANGED vars
  PROVE  Shape'
<1>1. UNCHANGED <<tip, cache, utxo, history, txids, known, announced, detected, scan, due,
                  checking, proc, pending, cut, failed, unmarked, first, faults>>
  BY DEF vars, database, process
<1> QED
  BY <1>1 DEF Shape, Inv, ScanTypeOK, ScanFollows, RestOK, TurnsKept, BlocksKept, OpsKept,
     Served, Marking, Height, Paid

LEMMA ShapeInit ==
  ASSUME Init
  PROVE  Shape
<1>1. /\ cache = None /\ pending = {} /\ proc = Idle /\ ~due /\ ~checking /\ first = 0
      /\ scan = NotRunning /\ scan.at = "down" /\ proc.at = "idle" /\ tip \in Heights
  BY IdleTyped DEF Init, NotRunning
<1>2. Inv
  BY InitInv
<1>3. RestOK
  <2>1. first \in 0..MaxHeight /\ faults \in 0..MaxFaults
    BY ChainTyped, BtcBlockScanAssumption DEF Init
  <2>2. announced \in Seq(Heights)
    BY DEF Init
  <2> QED
    BY <2>1, <2>2, IdleTyped DEF Init, RestOK
<1>4. Paid(tip) \subseteq known
  BY AllPaidKnown DEF Init
<1> QED
  BY <1>1, <1>2, <1>3, <1>4 DEF Shape, TurnsKept, BlocksKept, OpsKept

LEMMA ShapeNext ==
  ASSUME Shape, [Next]_vars
  PROVE  Shape'
<1>1. Inv'
  BY NextInv DEF Shape
<1>2. CASE Scanning
  BY <1>1, <1>2, TurnShape, GetBlockShape, StoreShape DEF Scanning
<1>3. ASSUME NEW op \in pending, Answer(op) \/ OperationFails(op) \/ UpdateFails(op)
      PROVE  Shape'
  BY <1>1, <1>3, AnswerShape, MarkShape, OperationFailsShape, UpdateFailsShape DEF Answer
<1>4. CASE Processing
  BY <1>1, <1>3, <1>4, BeginShape, LoadSavedShape, LoadAddressesShape, LoadFailsShape
     DEF Processing
<1>5. CASE World
  BY <1>1, <1>5, MineShape, StartScanShape, CrashShape, NewAddressShape DEF World
<1> QED
  BY <1>2, <1>4, <1>5, StutterShape DEF Next

-----------------------------------------------------------------------------
(* btc_utxo.  First the steps that leave it alone. *)
LEMMA UtxoStays ==
  ASSUME UtxoInv, UNCHANGED <<cache, first, utxo>>, failed \subseteq failed',
         \A op \in pending : op.kind \in {"remove", "insert"} => op \in pending',
         proc'.at = "remove" => proc.at = "remove",
         proc'.at \in {"insert", "history"} \/ Ended' =>
           proc.at \in {"insert", "history"} \/ Ended
  PROVE  UtxoInv'
<1>1. CASE cache = None
  BY <1>1 DEF UtxoInv
<1>2. CASE cache # None
  <2> SUFFICES ASSUME NEW o \in OwnOutputs, Sound(o)' PROVE UtxoOf(o)'
    BY <1>2 DEF UtxoInv
  <2>1. Sound(o)
    BY DEF Sound
  <2>2. UtxoOf(o)
    BY <1>2, <2>1 DEF UtxoInv
  <2>3. RemoveOp(o).kind = "remove" /\ InsertOp(o).kind = "insert"
    BY DEF RemoveOp, InsertOp, Op
  <2> QED
    BY <2>2, <2>3 DEF UtxoOf, Height, UnspentBefore
<1> QED
  BY <1>1, <1>2

(* When the block fails, only what it does not touch has to be right. *)
LEMMA UtxoFailed ==
  ASSUME UtxoInv, cache # None, UNCHANGED <<cache, first>>, failed \subseteq failed', Height \in failed',
         \A o \in OwnOutputs : MadeAt(o) # Height /\ Height \notin SpentAt(o) =>
           (o \in utxo' <=> o \in utxo)
  PROVE  UtxoInv'
<1> SUFFICES ASSUME NEW o \in OwnOutputs, Sound(o)' PROVE UtxoOf(o)'
  BY DEF UtxoInv
<1>1. Sound(o) /\ MadeAt(o) # Height /\ Height \notin SpentAt(o)
  BY DEF Sound
<1>2. UtxoOf(o)
  BY <1>1 DEF UtxoInv
<1> QED
  BY <1>1, <1>2 DEF UtxoOf, Height, UnspentBefore

(* A run about a whole block has an operation for whatever the block touches. *)
LEMMA WholeRun ==
  ASSUME NEW h \in Heights, NEW run, run.txs = Chain[h], NEW o \in OwnOutputs
  PROVE  /\ h \in SpentAt(o) => RemoveOp(o) \in RemoveOps(run)
         /\ MadeAt(o) = h /\ Owner[o] \in run.addresses => InsertOp(o) \in InsertOps(run)
<1>1. Listed(run.txs) = At(h)
  BY DEF At
<1>2. h \in SpentAt(o) => RemoveOp(o) \in RemoveOps(run)
  BY <1>1 DEF SpentAt, RemoveOps, RemoveOp
<1>3. ASSUME MadeAt(o) = h, Owner[o] \in run.addresses
      PROVE  InsertOp(o) \in InsertOps(run)
  <2>1. PICK tx \in At(h) : o \in Outputs(tx)
    BY <1>3, OwnIsOutput, MadeSomewhere
  <2> QED
    BY <1>1, <1>3, <2>1 DEF InsertOps, InsertOp
<1> QED
  BY <1>2, <1>3

LEMMA OwnerPaid ==
  ASSUME "restored" \notin Faults, Shape, cache # None, NEW o \in OwnOutputs, MadeAt(o) = Height
  PROVE  Owner[o] \in Paid(Height)
<1>1. Height \in Nat
  BY BlockOf, BlockTxs
<1> QED
  BY <1>1 DEF Paid

(* The next step of a run, when what the steps before it do is done. *)
LEMMA UtxoBegins ==
  ASSUME "restored" \notin Faults, Shape, cache # None, cache.state = "SAVED", ~Marking,
         UNCHANGED <<cache, first, failed>>,
         NEW run \in Proc, run.txs = cache.txs, Paid(Height) \subseteq run.addresses,
         NEW i \in 1..4, NEW others \in SUBSET pending, BeginSteps(run, i, others),
         \A o \in OwnOutputs : Sound(o) =>
           /\ MadeAt(o) # Height /\ Height \notin SpentAt(o) =>
                (o \in utxo' <=> UnspentBefore(o, Height))
           /\ i >= 2 /\ Height \in SpentAt(o) /\ MadeAt(o) # Height => o \notin utxo'
           /\ i >= 3 /\ MadeAt(o) = Height => InsertOp(o) \in others \/ o \in utxo'
  PROVE  UtxoInv'
<1>1. Height \in Heights /\ Served(cache) /\ run.addresses \subseteq Own
      /\ Listed(run.txs) \subseteq At(Height)
  BY BlockOf DEF Shape, BlocksKept, Served, Height, Proc
<1>2. Finds(run, i, others)
  BY BeginsFirst
<1> SUFFICES ASSUME NEW o \in OwnOutputs, Sound(o)' PROVE UtxoOf(o)'
  BY DEF UtxoInv
<1>3. Sound(o)
  BY DEF Sound
<1>4. MadeAt(o) # Height /\ Height \notin SpentAt(o) => (o \in utxo' <=> UnspentBefore(o, Height)')
  BY <1>3 DEF UnspentBefore, Height
<1>5. CASE Height \in failed
  BY <1>3, <1>4, <1>5 DEF Sound, UtxoOf, Height
<1>6. CASE Height \notin failed
  <2>1. run.txs = Chain[Height]
    BY <1>1, <1>6 DEF Served, Height
  <2>2. /\ Height \in SpentAt(o) => RemoveOp(o) \in RemoveOps(run)
        /\ MadeAt(o) = Height => InsertOp(o) \in InsertOps(run)
    BY <1>1, <2>1, WholeRun, OwnerPaid
  <2>3. i <= 1 \/ i >= 2
    OBVIOUS
  <2>4. i <= 2 \/ i >= 3
    OBVIOUS
  <2>5. CASE proc'.at \notin {"remove", "insert"} /\ others \subseteq pending'
             /\ (i <= 1 => RemoveOps(run) = {}) /\ (i <= 2 => InsertOps(run) = {})
    <3>1. Height \in SpentAt(o) /\ MadeAt(o) # Height => o \notin utxo'
      BY <1>3, <2>2, <2>3, <2>5
    <3>2. MadeAt(o) = Height => InsertOp(o) \in pending' \/ o \in utxo'
      BY <1>3, <2>2, <2>4, <2>5
    <3> QED
      BY <1>4, <2>5, <3>1, <3>2 DEF UtxoOf, Height
  <2>6. ASSUME proc' = [run EXCEPT !.at = "remove"], pending' = others \cup RemoveOps(run)
        PROVE  UtxoOf(o)'
    <3>1. proc'.at = "remove"
      BY <2>6 DEF Proc
    <3>2. \A op \in RemoveOps(run) : op.kind = "remove"
      BY <1>1, RunOps DEF RemoveOp, Op
    <3>3. Op("processed") \notin pending'
      BY <2>6, <3>2, OpTyped DEF Marking
    <3> QED
      BY <1>4, <2>2, <2>6, <3>1, <3>3 DEF UtxoOf, Height, Ended, Marking
  <2>7. ASSUME proc' = [run EXCEPT !.at = "insert"], pending' = others \cup InsertOps(run),
               i <= 1 => RemoveOps(run) = {}
        PROVE  UtxoOf(o)'
    <3>1. proc'.at = "insert"
      BY <2>7 DEF Proc
    <3>2. Height \in SpentAt(o) /\ MadeAt(o) # Height => o \notin utxo'
      BY <1>3, <2>2, <2>3, <2>7
    <3> QED
      BY <1>4, <2>2, <2>7, <3>1, <3>2 DEF UtxoOf, Height
  <2>8. CASE Finish(others) /\ (i <= 1 => RemoveOps(run) = {}) /\ (i <= 2 => InsertOps(run) = {})
    BY <2>5, <2>8, IdleTyped DEF Finish
  <2>9. CASE /\ (i <= 1 => RemoveOps(run) = {}) /\ (i <= 2 => InsertOps(run) = {})
             /\ proc' = [run EXCEPT !.at = "history"]
             /\ pending' = others \cup HistoryOps(run)
    <3>1. proc'.at = "history"
      BY <2>9 DEF Proc
    <3> QED
      BY <2>5, <2>9, <3>1
  <2> QED
    BY <1>2, <2>6, <2>7, <2>8, <2>9 DEF Finds
<1> QED
  BY <1>5, <1>6

(* When the block is done, btc_utxo is right up to it. *)
LEMMA UtxoDone ==
  ASSUME Shape, UtxoInv, cache # None, cache.state = "PROCESSED", pending = {},
         NEW o \in OwnOutputs, Sound(o)
  PROVE  o \in utxo <=> UnspentBefore(o, Height + 1)
<1> DEFINE h == Height
           m == MadeAt(o)
<1>1. h \in Nat /\ first \in Nat /\ first <= h /\ m \in Nat /\ o \in AllOutputs
  <2>1. h \in Heights /\ first \in 1..h
    BY BlockOf DEF Shape, BlocksKept
  <2>2. m \in Heights /\ o \in AllOutputs
    BY OwnIsOutput, MadeSomewhere
  <2>3. h \in Nat /\ m \in Nat
    BY <2>1, <2>2, BlockTxs
  <2> HIDE DEF h, m
  <2> QED
    BY <2>1, <2>2, <2>3
<1>2. \A g \in SpentAt(o) : g \in Nat /\ m <= g
  BY <1>1, SpentLater, BlockTxs
<1>3. /\ m # h /\ h \notin SpentAt(o) => (o \in utxo <=> UnspentBefore(o, h))
      /\ h \in SpentAt(o) /\ m # h => o \notin utxo
      /\ m = h => o \in utxo
  BY DEF UtxoInv, UtxoOf, Ended
<1>4. UnspentBefore(o, h) <=> m \in first..(h - 1) /\ \A g \in SpentAt(o) \cap (first..(h - 1)) : g = m
  BY DEF UnspentBefore
<1>5. UnspentBefore(o, h + 1) <=> m \in first..h /\ \A g \in SpentAt(o) \cap (first..h) : g = m
  BY <1>1 DEF UnspentBefore
<1> HIDE DEF h, m
<1>6. CASE m # h /\ h \notin SpentAt(o)
  <2>1. m \in first..(h - 1) <=> m \in first..h
    BY <1>1, <1>6
  <2>2. SpentAt(o) \cap (first..(h - 1)) = SpentAt(o) \cap (first..h)
    BY <1>1, <1>2, <1>6
  <2> QED
    BY <1>3, <1>4, <1>5, <1>6, <2>1, <2>2 DEF h
<1>7. CASE h \in SpentAt(o) /\ m # h
  <2>1. h \in SpentAt(o) \cap (first..h)
    BY <1>1, <1>7
  <2> QED
    BY <1>3, <1>5, <1>7, <2>1 DEF h
<1>8. CASE m = h
  <2>1. \A g \in SpentAt(o) \cap (first..h) : g = m
    BY <1>1, <1>2, <1>8
  <2>2. m \in first..h
    BY <1>1, <1>8
  <2> QED
    BY <1>3, <1>5, <1>8, <2>1, <2>2 DEF h
<1> QED
  BY <1>6, <1>7, <1>8

LEMMA UtxoStore ==
  ASSUME Shape, UtxoInv, Store
  PROVE  UtxoInv'
<1>1. /\ scan.next \in Block /\ scan.next.state = "SAVED" /\ scan.next.height = scan.height
      /\ scan.height \in Heights /\ pending = {}
      /\ cache # None => cache.state = "PROCESSED" /\ scan.height = Height + 1
  BY DEF Store, Shape, Inv, ScanFollows, TurnsKept, Height
<1>2. proc.at = "idle"
  BY <1>1, WorkerAlone DEF Working
<1>3. /\ cache' = scan.next /\ cache' # None /\ Height' = scan.height
      /\ proc'.at = "idle" /\ ~Ended' /\ UNCHANGED <<utxo, failed>>
  BY <1>1, <1>2, NoneIsNothing DEF Store, Height, Ended, Marking
<1>4. ASSUME NEW o \in OwnOutputs, Sound(o)
      PROVE  o \in utxo <=> UnspentBefore(o, Height)'
  <2>1. CASE cache = None
    <3>1. first' = scan.height /\ utxo = {}
      BY <2>1 DEF Store, Shape, BlocksKept, UtxoInv
    <3>2. MadeAt(o) \in Nat /\ scan.height \in Nat
      BY <1>1, OwnIsOutput, MadeSomewhere, BlockTxs
    <3> QED
      BY <1>3, <3>1, <3>2 DEF UnspentBefore
  <2>2. CASE cache # None
    <3>1. first' = first
      BY <2>2, BlockOf, BlockTxs DEF Store, Shape, BlocksKept
    <3>2. o \in utxo <=> UnspentBefore(o, Height + 1)
      BY <1>1, <1>4, <2>2, UtxoDone
    <3> QED
      BY <1>1, <1>3, <2>2, <3>1, <3>2 DEF UnspentBefore
  <2> QED
    BY <2>1, <2>2
<1> SUFFICES ASSUME NEW o \in OwnOutputs, Sound(o)' PROVE UtxoOf(o)'
  BY <1>3 DEF UtxoInv
<1>5. Sound(o)
  BY <1>3 DEF Sound
<1>6. o \in utxo' <=> UnspentBefore(o, Height)'
  BY <1>3, <1>4, <1>5
<1> QED
  BY <1>3, <1>6 DEF UtxoOf

(* The block is interrupted: it will be processed again. *)
LEMMA UtxoRests ==
  ASSUME UtxoInv, UNCHANGED <<cache, first, utxo>>, failed \subseteq failed',
         proc'.at \notin {"remove", "insert", "history"}, ~Ended'
  PROVE  UtxoInv'
<1>1. CASE cache = None
  BY <1>1 DEF UtxoInv
<1>2. CASE cache # None
  <2> SUFFICES ASSUME NEW o \in OwnOutputs, Sound(o)' PROVE UtxoOf(o)'
    BY <1>2 DEF UtxoInv
  <2>1. Sound(o)
    BY DEF Sound
  <2>2. UtxoOf(o)
    BY <1>2, <2>1 DEF UtxoInv
  <2> QED
    BY <2>2 DEF UtxoOf, Height, UnspentBefore
<1> QED
  BY <1>1, <1>2

(* An output is inserted, or was there already. *)
LEMMA UtxoInserts ==
  ASSUME UtxoInv, cache # None, UNCHANGED <<cache, first>>, failed \subseteq failed',
         NEW op, op.kind = "insert", MadeAt(op.output) = Height,
         utxo' = utxo \cup {op.output}, pending \ {op} \subseteq pending',
         proc'.at = "remove" => proc.at = "remove",
         proc'.at \in {"insert", "history"} \/ Ended' =>
           proc.at \in {"insert", "history"} \/ Ended
  PROVE  UtxoInv'
<1> SUFFICES ASSUME NEW o \in OwnOutputs, Sound(o)' PROVE UtxoOf(o)'
  BY DEF UtxoInv
<1>1. Sound(o)
  BY DEF Sound
<1>2. UtxoOf(o)
  BY <1>1 DEF UtxoInv
<1>3. MadeAt(o) # Height => o # op.output
  OBVIOUS
<1>4. RemoveOp(o).kind = "remove" /\ InsertOp(o).output = o
  BY DEF RemoveOp, InsertOp, Op
<1>5. RemoveOp(o) \in pending => RemoveOp(o) \in pending'
  BY <1>4
<1>6. InsertOp(o) \in pending => InsertOp(o) \in pending' \/ o \in utxo'
  BY <1>4
<1> QED
  BY <1>2, <1>3, <1>5, <1>6 DEF UtxoOf, Height, UnspentBefore

(* An input is removed. *)
LEMMA UtxoRemoves ==
  ASSUME "restored" \notin Faults, Shape, UtxoInv, NEW op \in pending, RemoveUtxo(op)
  PROVE  UtxoInv'
<1> DEFINE others == pending \ {op}
<1>1. /\ op.kind = "remove" /\ utxo' = utxo \ {op.output} /\ Complete(op, "remove")
      /\ UNCHANGED <<cache, first, failed>>
  BY DEF RemoveUtxo, ProcOnly
<1>2. cache # None /\ Height \in SpentAt(op.output) /\ (proc.at = "remove" \/ Height \in failed)
  BY <1>1, OperationAlone DEF Shape, OpsKept
<1>3. CASE proc.at # "remove"
  BY <1>1, <1>2, <1>3, UtxoFailed
<1>4. CASE proc.at = "remove"
  <2>1. cache.state = "SAVED" /\ ~Marking
    BY <1>4, WorkerAlone DEF Working
  <2>2. CASE \A other \in others : other.kind # "remove"
    <3>1. BeginSteps(proc, 2, others)
      BY <1>1, <1>4, <2>2, StepNumbers DEF Complete
    <3>2. proc \in Proc /\ proc.txs = cache.txs /\ Paid(Height) \subseteq proc.addresses
      BY <1>4 DEF Shape, RestOK, BlocksKept
    <3>3. ASSUME NEW o \in OwnOutputs, Sound(o)
          PROVE  /\ MadeAt(o) # Height /\ Height \notin SpentAt(o) =>
                      (o \in utxo' <=> UnspentBefore(o, Height))
                 /\ Height \in SpentAt(o) /\ MadeAt(o) # Height => o \notin utxo'
      <4>1. UtxoOf(o)
        BY <1>2, <3>3 DEF UtxoInv
      <4>2. RemoveOp(o) \in pending => RemoveOp(o) = op
        BY <2>2 DEF RemoveOp, Op
      <4>3. RemoveOp(o).output = o
        BY DEF RemoveOp, Op
      <4> QED
        BY <1>1, <1>2, <1>4, <4>1, <4>2, <4>3 DEF UtxoOf
    <3> HIDE DEF others
    <3>4. others \in SUBSET pending
      BY DEF others
    <3> QED
      BY <1>1, <1>2, <2>1, <3>1, <3>2, <3>3, <3>4, UtxoBegins
  <2>3. CASE ~(\A other \in others : other.kind # "remove")
    <3>1. pending' = others /\ proc' = proc
      BY <1>1, <2>3 DEF Complete
    <3>2. ~Ended'
      BY <1>1, <2>1, <3>1 DEF Ended, Marking
    <3> SUFFICES ASSUME NEW o \in OwnOutputs, Sound(o)' PROVE UtxoOf(o)'
      BY <1>1, <1>2 DEF UtxoInv
    <3>3. Sound(o)
      BY <1>1 DEF Sound
    <3>4. UtxoOf(o)
      BY <1>2, <3>3 DEF UtxoInv
    <3>5. RemoveOp(o).output = o
      BY DEF RemoveOp, Op
    <3>6. RemoveOp(o) \in pending => RemoveOp(o) \in pending' \/ o \notin utxo'
      BY <1>1, <3>1, <3>5
    <3> QED
      BY <1>1, <1>2, <1>4, <3>1, <3>2, <3>4, <3>6 DEF UtxoOf, Height, UnspentBefore
  <2> QED
    BY <2>2, <2>3
<1> QED
  BY <1>3, <1>4

LEMMA UtxoInsert ==
  ASSUME Shape, UtxoInv, NEW op \in pending, InsertUtxo(op)
  PROVE  UtxoInv'
<1> DEFINE others == pending \ {op}
<1>1. /\ op.kind = "insert" /\ utxo' = utxo \cup {op.output}
      /\ Abandon(op, "insert") \/ Complete(op, "insert")
      /\ UNCHANGED <<cache, first, failed>>
  BY DEF InsertUtxo, ProcOnly
<1>2. cache # None /\ MadeAt(op.output) = Height
  BY <1>1, OperationAlone DEF Shape, OpsKept
<1>3. CASE pending' = others /\ proc' = proc
  <2>1. Ended' => Ended
    BY <1>1, <1>3 DEF Ended, Marking
  <2> QED
    BY <1>1, <1>2, <1>3, <2>1, UtxoInserts
<1>4. CASE proc.at = "insert" /\ Finish(others)
  <2>1. others \subseteq pending' /\ proc'.at = "idle"
    BY <1>4, IdleTyped DEF Finish
  <2> QED
    BY <1>1, <1>2, <1>4, <2>1, UtxoInserts
<1>5. CASE proc.at = "insert" /\ BeginSteps(proc, 3, others)
  <2>1. Finds(proc, 3, others) /\ proc \in Proc
    BY <1>5, BeginsFirst DEF Shape, RestOK
  <2>2. others \subseteq pending' /\ proc'.at # "remove"
    BY <2>1, IdleTyped DEF Finds, Finish, Proc
  <2> QED
    BY <1>1, <1>2, <1>5, <2>2, UtxoInserts
<1> QED
  BY <1>1, <1>3, <1>4, <1>5, StepNumbers DEF Abandon, Complete

(* The run begins, or has nothing to do: then nothing of the block is a wallet's. *)
LEMMA NothingOwn ==
  ASSUME "restored" \notin Faults, Shape, cache # None, Height \notin failed,
         cache.txs = <<>> \/ Paid(Height) = {}, NEW o \in OwnOutputs
  PROVE  MadeAt(o) # Height /\ Height \notin SpentAt(o)
<1>1. cache.txs = Chain[Height] /\ Height \in Heights
  BY BlockOf DEF Shape, BlocksKept, Served, Height
<1>2. o \in AllOutputs /\ MadeAt(o) \in Heights /\ \E tx \in At(MadeAt(o)) : o \in Outputs(tx)
  BY OwnIsOutput, MadeSomewhere
<1>3. CASE cache.txs = <<>>
  <2>1. At(Height) = {}
    BY <1>1, <1>3 DEF At, Listed
  <2> QED
    BY <1>2, <2>1 DEF SpentAt
<1>4. CASE Paid(Height) = {}
  <2>1. ~(MadeAt(o) <= Height)
    BY <1>4 DEF Paid
  <2>2. MadeAt(o) # Height
    BY <1>1, <2>1, OwnerPaid, <1>4
  <2> QED
    BY <1>2, <2>1, <2>2, SpentLater
<1> QED
  BY <1>3, <1>4

LEMMA UtxoLoads ==
  ASSUME "restored" \notin Faults, Shape, UtxoInv, LoadAddresses
  PROVE  UtxoInv'
<1>1. UNCHANGED <<cache, first, failed, utxo>> /\ proc.at = "addresses"
  BY DEF LoadAddresses, ProcOnly, database
<1>2. cache # None /\ cache.state = "SAVED" /\ ~Marking
  BY <1>1, WorkerAlone DEF Working
<1>3. ASSUME NEW o \in OwnOutputs, Sound(o)
      PROVE  UtxoOf(o)
  BY <1>2, <1>3 DEF UtxoInv
<1>4. CASE Height \in failed
  BY <1>1, <1>2, <1>4, UtxoFailed
<1>5. CASE Height \notin failed /\ (cache.txs = <<>> \/ Paid(Height) = {})
  <2>1. \A o \in OwnOutputs : MadeAt(o) # Height /\ Height \notin SpentAt(o)
    BY <1>2, <1>5, NothingOwn
  <2> SUFFICES ASSUME NEW o \in OwnOutputs, Sound(o)' PROVE UtxoOf(o)'
    BY <1>1, <1>2 DEF UtxoInv
  <2>2. Sound(o)
    BY <1>1 DEF Sound
  <2> QED
    BY <1>1, <1>3, <2>1, <2>2 DEF UtxoOf, Height, UnspentBefore
<1>6. CASE ~(cache.txs = <<>> \/ Paid(Height) = {})
  <2> DEFINE run == [proc EXCEPT !.addresses = known]
  <2>1. /\ run \in Proc /\ run.txs = cache.txs /\ Paid(Height) \subseteq run.addresses
        /\ BeginSteps(run, 1, pending)
    BY <1>6, LoadAddressesBegins
  <2>2. \A o \in OwnOutputs : Sound(o) =>
          (MadeAt(o) # Height /\ Height \notin SpentAt(o) =>
             (o \in utxo' <=> UnspentBefore(o, Height)))
    BY <1>1, <1>3 DEF UtxoOf
  <2> HIDE DEF run
  <2> QED
    BY <1>1, <1>2, <2>1, <2>2, UtxoBegins
<1> QED
  BY <1>4, <1>5, <1>6

(* The other steps of the processing. *)
LEMMA UtxoAnswers ==
  ASSUME "restored" \notin Faults, Shape, UtxoInv, NEW op \in pending,
         Answer(op) \/ OperationFails(op) \/ UpdateFails(op)
  PROVE  UtxoInv'
<1>1. cache # None
  BY OperationAlone
<1>2. CASE RemoveUtxo(op) \/ InsertUtxo(op)
  BY <1>2, UtxoRemoves, UtxoInsert
<1>3. CASE StoreHistory(op) \/ Announce(op)
  <2>1. /\ UNCHANGED <<cache, first, failed, utxo, proc>> /\ op.kind \in {"history", "announce"}
        /\ pending \ {op} \subseteq pending'
        /\ pending' \subseteq (pending \ {op}) \cup {[op EXCEPT !.kind = "lookup"]}
    BY <1>3 DEF StoreHistory, Announce, ProcOnly, database
  <2>2. op \in Operation
    BY DEF Shape, RestOK
  <2>3. [op EXCEPT !.kind = "lookup"].kind = "lookup"
    BY <2>2 DEF Operation
  <2>4. Ended' => Ended
    BY <2>1, <2>3, OpTyped DEF Ended, Marking
  <2> QED
    BY <2>1, <2>4, UtxoStays
<1>4. CASE AddTxid(op)
  <2>1. /\ UNCHANGED <<cache, first, failed, utxo>> /\ op.kind = "lookup"
        /\ Complete(op, "history")
    BY <1>4 DEF AddTxid, ProcOnly
  <2>2. CASE proc.at = "history" /\ BeginSteps(proc, 4, pending \ {op})
    <3>1. Finish(pending \ {op})
      BY <2>2, BeginsFirst DEF Finds
    <3> QED
      BY <2>1, <2>2, <3>1, UtxoStays, IdleTyped DEF Finish
  <2>3. CASE pending' = pending \ {op} /\ proc' = proc
    <3>1. Ended' => Ended
      BY <2>1, <2>3 DEF Ended, Marking
    <3> QED
      BY <2>1, <2>3, <3>1, UtxoStays
  <2> QED
    BY <2>1, <2>2, <2>3, StepNumbers DEF Complete
<1>5. CASE MarkProcessed(op)
  <2>1. Marking /\ proc.at = "idle"
    BY <1>5, MarkingAlone DEF MarkProcessed
  <2>2. /\ cache' = [cache EXCEPT !.state = "PROCESSED"] /\ op.kind = "processed"
        /\ UNCHANGED <<first, failed, utxo, proc>> /\ pending' = pending \ {op}
    BY <1>1, <1>5 DEF MarkProcessed, ProcOnly
  <2>3. cache \in Block
    BY <1>1 DEF Shape, Inv, ScanTypeOK
  <2>4. cache' \in Block /\ cache'.height = cache.height
    BY <2>2, <2>3 DEF Block
  <2>5. cache' # None
    BY <2>4, NoneIsNothing
  <2> SUFFICES ASSUME NEW o \in OwnOutputs, Sound(o)' PROVE UtxoOf(o)'
    BY <2>5 DEF UtxoInv
  <2>6. Sound(o)
    BY <2>2 DEF Sound
  <2>7. UtxoOf(o)
    BY <1>1, <2>6 DEF UtxoInv
  <2>8. InsertOp(o).kind = "insert"
    BY DEF InsertOp, Op
  <2>9. Ended
    BY <1>1, <2>1 DEF Ended
  <2> QED
    BY <2>1, <2>2, <2>4, <2>7, <2>8, <2>9 DEF UtxoOf, Height, UnspentBefore
<1>6. CASE OperationFails(op)
  <2>1. UNCHANGED <<cache, first, utxo>> /\ failed' = failed \cup {Height}
    BY <1>6 DEF OperationFails, ProcOnly, database, Height
  <2> QED
    BY <1>1, <2>1, UtxoFailed
<1>7. CASE UpdateFails(op)
  <2>1. /\ UNCHANGED <<cache, first, failed, utxo, proc>> /\ op.kind = "processed"
        /\ pending' = pending \ {op}
    BY <1>7 DEF UpdateFails, database
  <2>2. Ended' => Ended
    BY <2>1 DEF Ended, Marking
  <2> QED
    BY <2>1, <2>2, UtxoStays
<1> QED
  BY <1>2, <1>3, <1>4, <1>5, <1>6, <1>7 DEF Answer

LEMMA UtxoProcessing ==
  ASSUME "restored" \notin Faults, Shape, UtxoInv, Processing
  PROVE  UtxoInv'
<1>1. CASE ProcessBlock \/ CheckDBBlockState
  <2>1. /\ UNCHANGED <<cache, first, failed, utxo, pending>>
        /\ proc' = proc \/ proc' = [Idle EXCEPT !.at = "load"]
    BY <1>1 DEF ProcessBlock, CheckDBBlockState, Begin, database
  <2>2. [Idle EXCEPT !.at = "load"].at = "load" /\ (Ended' => Ended)
    BY <2>1 DEF Idle, Ended, Marking
  <2> QED
    BY <2>1, <2>2, UtxoStays
<1>2. CASE LoadSaved
  <2>1. UNCHANGED <<cache, first, failed, utxo>> /\ proc.at = "load" /\ proc \in Proc
    BY <1>2 DEF LoadSaved, ProcOnly, database, Shape, RestOK
  <2>2. cache # None /\ cache.state = "SAVED" /\ ~Marking
    BY <2>1, WorkerAlone DEF Working
  <2>3. /\ proc' = [proc EXCEPT !.at = "addresses", !.txs = cache.txs]
        /\ pending' = pending \cup {Op("announce")}
    BY <1>2, <2>2 DEF LoadSaved
  <2>4. proc'.at = "addresses" /\ ~Ended'
    BY <2>1, <2>2, <2>3, OpTyped DEF Ended, Marking, Proc
  <2> QED
    BY <2>1, <2>4, UtxoRests
<1>3. CASE LoadFails
  <2>1. /\ UNCHANGED <<cache, first, utxo>> /\ failed' = failed \cup {Height}
        /\ proc.at # "idle"
    BY <1>3 DEF LoadFails, ProcOnly, database, Height
  <2>2. cache # None
    BY <2>1, WorkerAlone DEF Working
  <2> QED
    BY <2>1, <2>2, UtxoFailed
<1> QED
  BY <1>1, <1>2, <1>3, UtxoLoads, UtxoAnswers DEF Processing

LEMMA UtxoCrash ==
  ASSUME Shape, UtxoInv, Crash
  PROVE  UtxoInv'
<1>1. /\ UNCHANGED <<cache, first, utxo>> /\ pending' = {} /\ proc'.at = "idle"
      /\ failed \subseteq failed'
  BY IdleTyped DEF Crash, database
<1>2. CASE cache # None /\ cache.state = "PROCESSED" /\ pending # {}
  <2>1. Height \in failed'
    BY <1>2 DEF Crash, Height
  <2> QED
    BY <1>1, <1>2, <2>1, UtxoFailed
<1>3. CASE cache # None /\ cache.state = "PROCESSED" /\ pending = {}
  BY <1>1, <1>3, UtxoStays DEF Ended
<1>4. CASE ~(cache # None /\ cache.state = "PROCESSED")
  <2>1. ~Ended'
    BY <1>1, <1>4 DEF Ended, Marking
  <2> QED
    BY <1>1, <2>1, UtxoRests
<1> QED
  BY <1>2, <1>3, <1>4

LEMMA UtxoNext ==
  ASSUME "restored" \notin Faults, Shape, UtxoInv, [Next]_vars
  PROVE  UtxoInv'
<1>1. ASSUME UNCHANGED <<cache, first, utxo, proc, pending>>, failed \subseteq failed'
      PROVE  UtxoInv'
  <2>1. Ended' => Ended
    BY <1>1 DEF Ended, Marking
  <2> QED
    BY <1>1, <2>1, UtxoStays
<1>2. CASE Scanning
  <2>1. CASE Store
    BY <2>1, UtxoStore
  <2>2. CASE ~Store
    BY <1>1, <1>2, <2>2 DEF Scanning, Wake, Load, Latest, LatestUnknown, GetBlock,
       GetBlockTruncated, ExplorerFails, ScanOnly, database
  <2> QED
    BY <2>1, <2>2
<1>3. CASE World
  <2>1. CASE Crash
    BY <2>1, UtxoCrash
  <2>2. CASE ~Crash
    BY <1>1, <1>3, <2>2 DEF World, Mine, NewAddress, StartScan, database, process
  <2> QED
    BY <2>1, <2>2
<1>4. CASE UNCHANGED vars
  BY <1>1, <1>4 DEF vars, database, process
<1> QED
  BY <1>2, <1>3, <1>4, UtxoProcessing DEF Next

-----------------------------------------------------------------------------
LEMMA ShapeInvariance == Spec => []Shape
<1>1. Init => Shape
  BY ShapeInit
<1>2. Shape /\ [Next]_vars => Shape'
  BY ShapeNext
<1> QED
  BY <1>1, <1>2, PTL DEF Spec

(* Every state of the scan is of its type: the blocks stored and served, the
   operations in flight, the collections. *)
THEOREM TypeCorrect == Spec => []TypeOK
<1>1. Shape => TypeOK
  BY TypesSplit DEF Shape, Inv
<1> QED
  BY <1>1, ShapeInvariance, PTL

LEMMA UtxoInvariance ==
  ASSUME "restored" \notin Faults
  PROVE  Spec => []UtxoInv
<1>1. Init => UtxoInv
  BY DEF Init, UtxoInv
<1>2. UtxoInv /\ Shape /\ [Next]_vars => UtxoInv'
  BY UtxoNext
<1> QED
  BY <1>1, <1>2, ShapeInvariance, PTL DEF Spec

(* While no wallet is restored here after it was paid, btc_utxo holds, between two
   blocks, exactly the outputs to wallets that the blocks which are done make and do
   not spend, but for blocks that came short or failed: whatever chain is scanned,
   whenever the process dies and starts again in the middle of a block, and whether
   or not the block can be marked. *)
THEOREM UtxoAlwaysRight ==
  ASSUME "restored" \notin Faults
  PROVE  Spec => []UtxoRight
<1>1. ASSUME Shape, UtxoInv
      PROVE  UtxoRight
  <2> SUFFICES ASSUME Settled, NEW o \in OwnOutputs, Sound(o)
               PROVE  o \in utxo <=> /\ MadeAt(o) \in Done
                                     /\ \A h \in SpentAt(o) \cap Done : h = MadeAt(o)
    BY DEF UtxoRight, Sound
  <2>1. o \in utxo <=> UnspentBefore(o, Height + 1)
    BY <1>1, UtxoDone DEF Settled
  <2>2. Height \in Nat
    BY <1>1, BlockOf, BlockTxs DEF Settled
  <2>3. (Height + 1) - 1 = Height
    BY <2>2
  <2> QED
    BY <2>1, <2>3 DEF UnspentBefore, Done, Height
<1> QED
  BY <1>1, ShapeInvariance, UtxoInvariance, PTL

-----------------------------------------------------------------------------
(* The history.  What is recorded stays so, and so does what is on its way. *)
Grows ==
  /\ history \subseteq history' /\ detected \subseteq detected'
  /\ \A x \in Own : txids[x] \subseteq txids'[x]
  /\ cut \subseteq cut' /\ unmarked \subseteq unmarked' /\ failed \subseteq failed'

Advances == cache # None /\ cache' # None /\ Height' = Height /\ UNCHANGED first /\ Grows

LEMMA PastKept ==
  ASSUME PastRecorded, Advances
  PROVE  PastRecorded'
<1>1. ASSUME NEW h, Recorded(h)
      PROVE  Recorded(h)'
  BY <1>1 DEF Recorded, Advances, Grows
<1>2. \A h : Unbroken(h)' => Unbroken(h)
  BY DEF Unbroken, Advances, Grows
<1> QED
  BY <1>1, <1>2 DEF PastRecorded, Advances

LEMMA NotedKept ==
  ASSUME Advances, NEW tx, NEW x \in Own, Noted(tx, x),
         HistoryOp(tx, x) \in pending =>
           \/ HistoryOp(tx, x) \in pending'
           \/ LookupOp(tx, x) \in pending' /\ tx.txid \in history',
         LookupOp(tx, x) \in pending => LookupOp(tx, x) \in pending' \/ tx.txid \in txids'[x]
  PROVE  Noted(tx, x)'
BY DEF Noted, Advances, Grows

(* What is noted of the block stays noted while its operations are out or done. *)
LEMMA PresentKept ==
  ASSUME PresentNoted, Advances,
         proc'.at = "history" \/ Ended' => proc.at = "history" \/ Ended,
         \A tx \in At(Height) : \A x \in Own :
           /\ HistoryOp(tx, x) \in pending =>
                \/ HistoryOp(tx, x) \in pending'
                \/ LookupOp(tx, x) \in pending' /\ tx.txid \in history'
           /\ LookupOp(tx, x) \in pending => LookupOp(tx, x) \in pending' \/ tx.txid \in txids'[x]
  PROVE  PresentNoted'
<1> SUFFICES ASSUME Unbroken(Height)', proc'.at = "history" \/ Ended',
                    NEW tx \in At(Height'), NEW x \in AddressesOf(tx) \cap Own
             PROVE  Noted(tx, x)'
  BY DEF PresentNoted
<1>1. tx \in At(Height) /\ Unbroken(Height)
  BY DEF Advances, Grows, Unbroken
<1>2. Noted(tx, x)
  BY <1>1 DEF PresentNoted
<1> QED
  BY <1>1, <1>2, NotedKept

LEMMA OpKinds ==
  \A tx, x : /\ HistoryOp(tx, x).kind = "history" /\ LookupOp(tx, x).kind = "lookup"
             /\ HistoryOp(tx, x).txid = tx.txid /\ HistoryOp(tx, x).address = x
             /\ LookupOp(tx, x).txid = tx.txid /\ LookupOp(tx, x).address = x
BY DEF HistoryOp, LookupOp, Op

LEMMA PresentStays ==
  ASSUME PresentNoted, Advances,
         proc'.at = "history" \/ Ended' => proc.at = "history" \/ Ended,
         \A op \in pending : op.kind \in {"history", "lookup"} => op \in pending'
  PROVE  PresentNoted'
BY PresentKept, OpKinds

(* Outputs of the block are not inserted before the run comes to them. *)
LEMMA FirstStays ==
  ASSUME FirstTime, Advances, utxo' \subseteq utxo, Ended => Ended',
         proc'.at \in {"idle", "load", "addresses", "remove"} =>
           proc.at \in {"idle", "load", "addresses", "remove"},
         proc'.at = "insert" => proc.at = "insert",
         \A op \in pending' : op.kind = "insert" => op \in pending
  PROVE  FirstTime'
BY DEF FirstTime, Advances, Grows

LEMMA AheadStays ==
  ASSUME NoneAhead, Advances, utxo' \subseteq utxo
  PROVE  NoneAhead'
BY DEF NoneAhead, Advances

LEMMA HistoryStays ==
  ASSUME HistoryInv, Advances, utxo' \subseteq utxo, Ended => Ended',
         proc'.at \in {"idle", "load", "addresses", "remove"} =>
           proc.at \in {"idle", "load", "addresses", "remove"},
         proc'.at = "insert" => proc.at = "insert",
         proc'.at = "history" \/ Ended' => proc.at = "history" \/ Ended,
         \A op \in pending' : op.kind = "insert" => op \in pending,
         \A op \in pending : op.kind \in {"history", "lookup"} => op \in pending'
  PROVE  HistoryInv'
<1>1. PastRecorded /\ PresentNoted /\ NoneAhead /\ FirstTime
  BY DEF HistoryInv, Advances
<1> QED
  BY <1>1, PastKept, PresentStays, AheadStays, FirstStays DEF HistoryInv

(* A block that was interrupted or could not be marked is not spoken of. *)
LEMMA HistoryBroken ==
  ASSUME HistoryInv, Advances, utxo' \subseteq utxo, Height \in cut' \cup unmarked'
  PROVE  HistoryInv'
<1>1. PastRecorded /\ NoneAhead
  BY DEF HistoryInv, Advances
<1>2. FirstTime' /\ PresentNoted'
  BY DEF FirstTime, PresentNoted, Unbroken, Advances
<1> QED
  BY <1>1, <1>2, PastKept, AheadStays DEF HistoryInv

(* The next step of a run about a whole block asks for all of its history, or there
   is none. *)
LEMMA HistoryBegins ==
  ASSUME "restored" \notin Faults, Shape, cache # None, cache.state = "SAVED", ~Marking,
         Height \notin failed, UNCHANGED <<cache, history, txids>>,
         NEW run \in Proc, run.txs = cache.txs, Paid(Height) \subseteq run.addresses,
         NEW i \in 1..3, NEW others \in SUBSET pending, BeginSteps(run, i, others)
  PROVE  PresentNoted'
<1>1. /\ Height \in Heights /\ Served(cache) /\ run.addresses \subseteq Own
      /\ cache.txs = Chain[Height] /\ Height' = Height
  BY BlockOf DEF Shape, BlocksKept, Served, Height, Proc
<1>2. Finds(run, i, others)
  BY BeginsFirst
<1>3. Listed(run.txs) = At(Height)
  BY <1>1 DEF At
<1> SUFFICES ASSUME proc'.at = "history" \/ Ended',
                    NEW tx \in At(Height), NEW x \in AddressesOf(tx) \cap Own
             PROVE  Noted(tx, x)'
  BY <1>1 DEF PresentNoted
<1>4. HistoryOp(tx, x) \in HistoryOps(run)
  <2>1. x \in run.addresses
    BY <1>1, ActorsPaid
  <2> DEFINE of(t) == {HistoryOp(t, y) : y \in AddressesOf(t) \cap run.addresses}
  <2>2. HistoryOps(run) = UNION {of(t) : t \in Listed(run.txs)}
    BY DEF HistoryOps, HistoryOp
  <2>3. HistoryOp(tx, x) \in of(tx)
    BY <2>1
  <2> HIDE DEF of
  <2> QED
    BY <1>3, <2>2, <2>3
<1>5. ASSUME NEW at \in {"remove", "insert"}, NEW ops, proc' = [run EXCEPT !.at = at],
             pending' = others \cup ops, Op("processed") \notin ops
      PROVE  FALSE
  <2>1. proc'.at # "history"
    BY <1>5 DEF Proc
  <2>2. ~Ended'
    BY <1>5 DEF Ended, Marking
  <2> QED
    BY <2>1, <2>2
<1>6. Op("processed") \notin RemoveOps(run) /\ Op("processed") \notin InsertOps(run)
  BY <1>1, <1>3, RunOps, OpTyped DEF RemoveOp, InsertOp, Op
<1>7. proc' # [run EXCEPT !.at = "remove"] \/ pending' # others \cup RemoveOps(run)
  BY <1>5, <1>6
<1>8. proc' # [run EXCEPT !.at = "insert"] \/ pending' # others \cup InsertOps(run)
  BY <1>5, <1>6
<1>9. /\ pending' = others \cup HistoryOps(run)
      /\ detected' = detected \cup {op.txid : op \in HistoryOps(run)}
  BY <1>2, <1>4, <1>7, <1>8 DEF Finds
<1>10. tx.txid \in {op.txid : op \in HistoryOps(run)}
  BY <1>4, OpKinds
<1> QED
  BY <1>4, <1>9, <1>10 DEF Noted

LEMMA FreshBegins ==
  ASSUME Shape, cache # None, cache' # None, Height' = Height,
         NEW run \in Proc, run.txs = cache.txs, NEW i \in 1..4, NEW others,
         Finds(run, i, others), \A o \in utxo' : MadeAt(o) # Height,
         \A op \in others : op.kind # "insert"
  PROVE  FirstTime'
<1>1. Height \in Heights /\ run.addresses \subseteq Own /\ Listed(run.txs) \subseteq At(Height)
  BY BlockOf DEF Shape, BlocksKept, Served, Height, Proc
<1>2. CASE Finish(others)
  BY <1>2 DEF Finish, FirstTime, Ended, Marking
<1>3. CASE proc' = [run EXCEPT !.at = "remove"] /\ pending' = others \cup RemoveOps(run)
  <2>1. \A op \in RemoveOps(run) : op.kind = "remove"
    BY <1>1, RunOps DEF RemoveOp, Op
  <2>2. proc'.at = "remove"
    BY <1>3 DEF Proc
  <2> QED
    BY <1>3, <2>1, <2>2 DEF FirstTime
<1>4. CASE proc' = [run EXCEPT !.at = "insert"] /\ pending' = others \cup InsertOps(run)
  <2>1. \A op \in InsertOps(run) : MadeAt(op.output) = Height
    BY <1>1, RunOps
  <2>2. proc'.at = "insert"
    BY <1>4 DEF Proc
  <2> QED
    BY <1>4, <2>1, <2>2 DEF FirstTime
<1>5. CASE proc' = [run EXCEPT !.at = "history"]
  <2>1. proc'.at = "history"
    BY <1>5 DEF Proc
  <2> QED
    BY <2>1 DEF FirstTime
<1> QED
  BY <1>2, <1>3, <1>4, <1>5 DEF Finds

(* A run that goes on with its next step. *)
LEMMA HistoryMoves ==
  ASSUME "restored" \notin Faults, Shape, HistoryInv, cache # None, cache.state = "SAVED",
         ~Marking, UNCHANGED <<cache, first, history, txids, cut, unmarked, failed>>,
         detected \subseteq detected', utxo' \subseteq utxo,
         NEW run \in Proc, run.txs = cache.txs, Paid(Height) \subseteq run.addresses,
         NEW i \in 1..3, NEW others \in SUBSET pending, BeginSteps(run, i, others),
         proc.at \in {"addresses", "remove"}
  PROVE  HistoryInv'
<1>1. Advances /\ ~Ended
  BY DEF Advances, Grows, Height, Ended
<1>2. PastRecorded /\ NoneAhead /\ FirstTime
  BY DEF HistoryInv
<1>3. Finds(run, i, others)
  BY BeginsFirst
<1>4. FirstTime'
  <2>1. CASE Height \in cut \cup unmarked
    BY <1>1, <2>1 DEF FirstTime, Advances, Grows
  <2>2. CASE Height \notin cut \cup unmarked
    <3>1. (\A o \in utxo' : MadeAt(o) # Height) /\ \A op \in others : op.kind # "insert"
      BY <1>1, <1>2, <2>2 DEF FirstTime
    <3>2. i \in 1..4
      OBVIOUS
    <3> QED
      BY <1>1, <1>3, <3>1, <3>2, FreshBegins DEF Advances
  <2> QED
    BY <2>1, <2>2
<1>5. PresentNoted'
  <2>1. CASE Height \in failed
    BY <1>1, <2>1 DEF PresentNoted, Unbroken, Advances
  <2>2. CASE Height \notin failed
    BY <2>2, HistoryBegins
  <2> QED
    BY <2>1, <2>2
<1> QED
  BY <1>1, <1>2, <1>4, <1>5, PastKept, AheadStays DEF HistoryInv

LEMMA DetectedGrows ==
  ASSUME NEW run, NEW i \in 1..4, NEW others, BeginSteps(run, i, others)
  PROVE  detected \subseteq detected' /\ others \subseteq pending'
BY BeginsFirst DEF Finds, Finish

LEMMA HistoryLoads ==
  ASSUME "restored" \notin Faults, Shape, HistoryInv, LoadAddresses
  PROVE  HistoryInv'
<1>1. /\ UNCHANGED <<cache, first, history, txids, cut, unmarked, failed, utxo>>
      /\ proc.at = "addresses"
  BY DEF LoadAddresses, ProcOnly, database
<1>2. cache # None /\ cache.state = "SAVED" /\ ~Marking /\ Height \in Heights
  BY <1>1, WorkerAlone DEF Working
<1>3. CASE Finish(pending) /\ (cache.txs = <<>> \/ Paid(Height) = {})
  <2>1. Advances /\ Ended'
    BY <1>1, <1>2, <1>3 DEF Advances, Grows, Height, Finish, Ended, Marking
  <2>2. PastRecorded /\ NoneAhead
    BY <1>2 DEF HistoryInv
  <2>3. PresentNoted'
    <3> SUFFICES ASSUME Unbroken(Height), NEW tx \in At(Height),
                        NEW x \in AddressesOf(tx) \cap Own
                 PROVE  FALSE
      BY <1>1 DEF PresentNoted, Unbroken, Height
    <3>1. x \in Paid(Height)
      BY <1>2, ActorsPaid
    <3>2. cache.txs = Chain[Height]
      BY <1>2 DEF Shape, BlocksKept, Served, Unbroken, Height
    <3> QED
      BY <1>3, <3>1, <3>2 DEF At, Listed
  <2>4. FirstTime'
    BY <2>1 DEF FirstTime
  <2> QED
    BY <1>1, <2>1, <2>2, <2>3, <2>4, PastKept, AheadStays DEF HistoryInv
<1>4. CASE ~(Finish(pending) /\ (cache.txs = <<>> \/ Paid(Height) = {}))
  <2> DEFINE run == [proc EXCEPT !.addresses = known]
  <2>1. /\ run \in Proc /\ run.txs = cache.txs /\ Paid(Height) \subseteq run.addresses
        /\ BeginSteps(run, 1, pending)
    BY <1>4, LoadAddressesBegins
  <2> HIDE DEF run
  <2>2. detected \subseteq detected'
    BY <2>1, DetectedGrows
  <2> QED
    BY <1>1, <1>2, <2>1, <2>2, HistoryMoves
<1> QED
  BY <1>3, <1>4

LEMMA HistoryRemoves ==
  ASSUME "restored" \notin Faults, Shape, HistoryInv, NEW op \in pending, RemoveUtxo(op)
  PROVE  HistoryInv'
<1> DEFINE others == pending \ {op}
<1>1. /\ op.kind = "remove" /\ utxo' \subseteq utxo /\ Complete(op, "remove")
      /\ UNCHANGED <<cache, first, history, txids, cut, unmarked, failed>>
  BY DEF RemoveUtxo, ProcOnly
<1>2. cache # None
  BY OperationAlone
<1>3. CASE proc.at = "remove" /\ BeginSteps(proc, 2, others)
  <2>1. /\ cache.state = "SAVED" /\ ~Marking /\ proc \in Proc /\ proc.txs = cache.txs
        /\ Paid(Height) \subseteq proc.addresses
    BY <1>3, WorkerAlone DEF Working, Shape, RestOK, BlocksKept
  <2>2. others \in SUBSET pending /\ detected \subseteq detected'
    BY <1>3, DetectedGrows
  <2> HIDE DEF others
  <2> QED
    BY <1>1, <1>2, <1>3, <2>1, <2>2, HistoryMoves
<1>4. CASE pending' = others /\ UNCHANGED <<proc, detected>>
  <2>1. Advances /\ (Ended <=> Ended')
    BY <1>1, <1>2, <1>4, OpTyped DEF Advances, Grows, Height, Ended, Marking
  <2> QED
    BY <1>1, <1>4, <2>1, HistoryStays
<1> QED
  BY <1>1, <1>3, <1>4, StepNumbers DEF Complete

(* An output is inserted; one that is there already was inserted by the run before,
   which a crash ended or which could not mark the block. *)
LEMMA HistoryInserts ==
  ASSUME "restored" \notin Faults, Shape, HistoryInv, NEW op \in pending, InsertUtxo(op)
  PROVE  HistoryInv'
<1> DEFINE others == pending \ {op}
<1>1. /\ op.kind = "insert" /\ utxo' = utxo \cup {op.output}
      /\ UNCHANGED <<cache, first, history, txids, cut, unmarked, failed>>
  BY DEF InsertUtxo, ProcOnly
<1>2. /\ cache # None /\ op = InsertOp(op.output) /\ op.output \in AllOutputs
      /\ MadeAt(op.output) = Height /\ Height \in Nat
  BY <1>1, OperationAlone, BlockTxs DEF Shape, OpsKept
<1>3. PastRecorded /\ PresentNoted /\ NoneAhead /\ FirstTime
  BY <1>2 DEF HistoryInv
<1>4. proc.at = "insert" => cache.state = "SAVED" /\ ~Marking /\ ~Ended
  BY WorkerAlone DEF Working, Ended
<1>5. detected \subseteq detected' /\ others \subseteq pending'
  <2>1. StepOf("insert") + 1 \in 1..4
    BY StepNumbers
  <2> QED
    BY <2>1, DetectedGrows DEF InsertUtxo, Abandon, Complete, Finish
<1>6. Advances /\ NoneAhead'
  BY <1>1, <1>2, <1>3, <1>5 DEF Advances, Grows, Height, NoneAhead
<1>7. CASE pending' = others /\ proc' = proc
  <2>1. Ended <=> Ended'
    BY <1>1, <1>7, OpTyped DEF Ended, Marking
  <2>2. PresentNoted'
    BY <1>1, <1>3, <1>6, <1>7, <2>1, PresentStays
  <2>3. FirstTime'
    <3> SUFFICES ASSUME Height \notin cut \cup unmarked, ~Ended PROVE FirstTime'
      BY <1>1, <1>6, <2>1 DEF FirstTime, Advances
    <3>1. proc.at \notin {"idle", "load", "addresses", "remove"}
      BY <1>1, <1>3 DEF FirstTime
    <3>2. ASSUME proc.at = "insert", NEW other \in others, other.kind = "insert"
          PROVE  other.output \notin utxo'
      <4>1. other.output \notin utxo
        BY <1>3, <3>2 DEF FirstTime
      <4>2. other = InsertOp(other.output)
        BY <3>2 DEF Shape, OpsKept
      <4> QED
        BY <1>1, <1>2, <4>1, <4>2
    <3> QED
      BY <1>7, <3>1, <3>2 DEF FirstTime
  <2> QED
    BY <1>3, <1>6, <2>2, <2>3, PastKept DEF HistoryInv
<1>8. CASE proc.at = "insert" /\ op.output \in utxo /\ Finish(others)
  <2>1. Height \in cut \cup unmarked
    BY <1>1, <1>3, <1>4, <1>8 DEF FirstTime
  <2>2. utxo' \subseteq utxo
    BY <1>1, <1>8
  <2> QED
    BY <1>1, <1>6, <2>1, <2>2, HistoryBroken
<1>9. CASE proc.at = "insert" /\ BeginSteps(proc, 3, others)
  <2>1. /\ proc \in Proc /\ proc.txs = cache.txs /\ Paid(Height) \subseteq proc.addresses
        /\ Finds(proc, 3, others)
    BY <1>9, BeginsFirst DEF Shape, RestOK, BlocksKept
  <2>2. PresentNoted'
    <3>1. CASE Height \in failed
      BY <1>1, <1>6, <3>1 DEF PresentNoted, Unbroken, Advances
    <3>2. CASE Height \notin failed
      <4>1. others \in SUBSET pending
        OBVIOUS
      <4> HIDE DEF others
      <4> QED
        BY <1>1, <1>2, <1>4, <1>9, <2>1, <3>2, <4>1, HistoryBegins
    <3> QED
      BY <3>1, <3>2
  <2>3. FirstTime'
    <3>1. CASE Finish(others)
      BY <1>1, <1>2, <3>1 DEF Finish, FirstTime, Ended, Marking
    <3>2. CASE proc' = [proc EXCEPT !.at = "history"]
      <4>1. proc'.at = "history"
        BY <2>1, <3>2 DEF Proc
      <4> QED
        BY <4>1 DEF FirstTime
    <3> QED
      BY <2>1, <3>1, <3>2 DEF Finds
  <2> QED
    BY <1>3, <1>6, <2>2, <2>3, PastKept DEF HistoryInv
<1> QED
  BY <1>7, <1>8, <1>9, StepNumbers DEF InsertUtxo, Abandon, Complete

(* A transaction is stored, and then its id. *)
LEMMA HistoryStores ==
  ASSUME Shape, HistoryInv, NEW op \in pending, StoreHistory(op)
  PROVE  HistoryInv'
<1> DEFINE next == [op EXCEPT !.kind = "lookup"]
<1>1. /\ UNCHANGED <<cache, first, txids, cut, unmarked, failed, detected, proc, utxo>>
      /\ op.kind = "history" /\ pending' = (pending \ {op}) \cup {next}
      /\ history' = history \cup {op.txid}
  BY DEF StoreHistory, ProcOnly
<1>2. cache # None /\ op \in Operation
  BY OperationAlone DEF Shape, RestOK
<1>3. next.kind = "lookup"
  BY <1>2 DEF Operation
<1>4. \A tx, x : HistoryOp(tx, x) = op => LookupOp(tx, x) = next /\ tx.txid = op.txid
  BY OpKinds DEF LookupOp
<1> HIDE DEF next
<1>5. Advances /\ (Ended <=> Ended')
  BY <1>1, <1>2, <1>3, OpTyped DEF Advances, Grows, Height, Ended, Marking
<1>6. PastRecorded /\ PresentNoted /\ NoneAhead /\ FirstTime
  BY <1>2 DEF HistoryInv
<1>7. PresentNoted'
  <2>1. ASSUME NEW tx, NEW x
        PROVE  /\ HistoryOp(tx, x) \in pending =>
                    \/ HistoryOp(tx, x) \in pending'
                    \/ LookupOp(tx, x) \in pending' /\ tx.txid \in history'
               /\ LookupOp(tx, x) \in pending => LookupOp(tx, x) \in pending'
    BY <1>1, <1>4, OpKinds
  <2> QED
    BY <1>1, <1>5, <1>6, <2>1, PresentKept
<1>8. FirstTime'
  BY <1>1, <1>3, <1>5, <1>6, FirstStays
<1> QED
  BY <1>1, <1>5, <1>6, <1>7, <1>8, PastKept, AheadStays DEF HistoryInv

LEMMA HistoryAdds ==
  ASSUME Shape, HistoryInv, NEW op \in pending, AddTxid(op)
  PROVE  HistoryInv'
<1> DEFINE others == pending \ {op}
<1>1. /\ UNCHANGED <<cache, first, history, cut, unmarked, failed, utxo>>
      /\ op.kind = "lookup" /\ Complete(op, "history")
      /\ txids' = [txids EXCEPT ![op.address] = @ \cup {op.txid}]
  BY DEF AddTxid, ProcOnly
<1>2. /\ cache # None /\ op.address \in Own /\ txids \in [Own -> SUBSET Txids]
  BY <1>1, OperationAlone DEF Shape, OpsKept, RestOK
<1>3. \/ pending' = others /\ UNCHANGED <<proc, detected>>
      \/ proc.at = "history" /\ Finish(others)
  <2>1. \/ pending' = others /\ UNCHANGED <<proc, detected>>
        \/ proc.at = "history" /\ BeginSteps(proc, 4, others)
    BY <1>1, StepNumbers DEF Complete
  <2>2. ASSUME BeginSteps(proc, 4, others)
        PROVE  Finish(others)
    <3>1. Finds(proc, 4, others)
      BY <2>2, BeginsFirst
    <3> QED
      BY <3>1 DEF Finds
  <2> QED
    BY <2>1, <2>2
<1>4. (\A x \in Own : txids[x] \subseteq txids'[x]) /\ op.txid \in txids'[op.address]
  BY <1>1, <1>2
<1>5. others \subseteq pending' /\ pending' \subseteq others \cup {Op("processed")} /\ detected' = detected
  BY <1>3 DEF Finish
<1>6. Advances /\ (Ended => Ended')
  BY <1>1, <1>2, <1>4, <1>5, OpTyped DEF Advances, Grows, Height, Ended, Marking
<1>7. PastRecorded /\ PresentNoted /\ NoneAhead /\ FirstTime
  BY <1>2 DEF HistoryInv
<1>8. PresentNoted'
  <2>1. ASSUME NEW tx, NEW x
        PROVE  /\ HistoryOp(tx, x) \in pending => HistoryOp(tx, x) \in pending'
               /\ LookupOp(tx, x) \in pending =>
                    LookupOp(tx, x) \in pending' \/ tx.txid \in txids'[x]
    BY <1>1, <1>4, <1>5, OpKinds
  <2>2. proc'.at = "history" \/ Ended' => proc.at = "history" \/ Ended
    BY <1>1, <1>3 DEF Ended, Marking
  <2> QED
    BY <1>6, <1>7, <2>1, <2>2, PresentKept
<1>9. FirstTime'
  <2>1. CASE pending' = others /\ UNCHANGED proc
    BY <1>1, <1>6, <1>7, <2>1, FirstStays
  <2>2. CASE Finish(others)
    BY <1>1, <1>2, <2>2 DEF Finish, FirstTime, Ended, Marking
  <2> QED
    BY <1>3, <2>1, <2>2
<1> QED
  BY <1>1, <1>6, <1>7, <1>8, <1>9, PastKept, AheadStays DEF HistoryInv

LEMMA HistoryAnswers ==
  ASSUME "restored" \notin Faults, Shape, HistoryInv, NEW op \in pending,
         Answer(op) \/ OperationFails(op) \/ UpdateFails(op)
  PROVE  HistoryInv'
<1>1. cache # None
  BY OperationAlone
<1>2. CASE Announce(op)
  <2>1. /\ UNCHANGED <<cache, first, history, txids, detected, cut, unmarked, failed, utxo, proc>>
        /\ op.kind = "announce" /\ pending' = pending \ {op}
    BY <1>2 DEF Announce, ProcOnly, database
  <2>2. Advances /\ (Ended <=> Ended')
    BY <1>1, <2>1, OpTyped DEF Advances, Grows, Height, Ended, Marking
  <2> QED
    BY <2>1, <2>2, HistoryStays
<1>3. CASE MarkProcessed(op)
  <2>1. Marking /\ op.kind = "processed"
    BY <1>3, MarkingAlone DEF MarkProcessed
  <2>2. /\ cache' = [cache EXCEPT !.state = "PROCESSED"] /\ pending' = pending \ {op}
        /\ UNCHANGED <<first, history, txids, detected, cut, unmarked, failed, utxo, proc>>
    BY <1>1, <1>3 DEF MarkProcessed, ProcOnly
  <2>3. cache' \in Block /\ cache'.height = cache.height /\ cache'.state = "PROCESSED"
    BY <1>1, <2>2 DEF Shape, Inv, ScanTypeOK, Block
  <2>4. cache' # None
    BY <2>3, NoneIsNothing
  <2>5. Advances /\ Ended /\ Ended'
    BY <1>1, <2>1, <2>2, <2>3, <2>4 DEF Advances, Grows, Height, Ended
  <2> QED
    BY <2>1, <2>2, <2>5, HistoryStays
<1>4. CASE UpdateFails(op)
  <2>1. /\ UNCHANGED <<cache, first, history, txids, detected, cut, failed, utxo, proc>>
        /\ unmarked' = unmarked \cup {Height}
    BY <1>4 DEF UpdateFails, database, Height
  <2>2. Advances
    BY <1>1, <2>1 DEF Advances, Grows, Height
  <2> QED
    BY <2>1, <2>2, HistoryBroken
<1>5. CASE OperationFails(op)
  <2>1. /\ UNCHANGED <<cache, first, history, txids, cut, unmarked, utxo>>
        /\ failed' = failed \cup {Height} /\ op.kind \in {"remove", "insert", "history", "lookup"}
        /\ detected' = detected
        /\ (pending' = pending \ {op} /\ proc' = proc) \/ Finish(pending \ {op})
    BY <1>5 DEF OperationFails, Abandon, Finish, ProcOnly, database, Height
  <2>2. Advances /\ (Ended => Ended')
    BY <1>1, <2>1, OpTyped DEF Advances, Grows, Height, Ended, Marking, Finish
  <2>3. PastRecorded /\ NoneAhead /\ FirstTime
    BY <1>1 DEF HistoryInv
  <2>4. PresentNoted'
    BY <2>1, <2>2 DEF PresentNoted, Unbroken, Advances
  <2>5. FirstTime'
    <3>1. CASE pending' = pending \ {op} /\ proc' = proc
      BY <2>1, <2>2, <2>3, <3>1, FirstStays
    <3>2. CASE Finish(pending \ {op})
      BY <1>1, <2>1, <3>2 DEF Finish, FirstTime, Ended, Marking
    <3> QED
      BY <2>1, <3>1, <3>2
  <2> QED
    BY <2>1, <2>2, <2>3, <2>4, <2>5, PastKept, AheadStays DEF HistoryInv
<1> QED
  BY <1>2, <1>3, <1>4, <1>5, HistoryRemoves, HistoryInserts, HistoryStores, HistoryAdds
     DEF Answer

LEMMA HistoryProcessing ==
  ASSUME "restored" \notin Faults, Shape, HistoryInv, Processing
  PROVE  HistoryInv'
<1>1. CASE ProcessBlock \/ CheckDBBlockState
  <2>1. /\ UNCHANGED <<cache, first, history, txids, detected, cut, unmarked, failed, utxo, pending>>
        /\ proc' = proc \/ (proc.at = "idle" /\ proc' = [Idle EXCEPT !.at = "load"])
    BY <1>1 DEF ProcessBlock, CheckDBBlockState, Begin, database
  <2>2. [Idle EXCEPT !.at = "load"].at = "load" /\ (Ended <=> Ended')
    BY <2>1 DEF Idle, Ended, Marking
  <2>3. CASE cache = None
    BY <2>1, <2>3 DEF HistoryInv
  <2>4. CASE cache # None
    <3>1. Advances
      BY <2>1, <2>4 DEF Advances, Grows, Height
    <3> QED
      BY <2>1, <2>2, <3>1, HistoryStays
  <2> QED
    BY <2>3, <2>4
<1>2. CASE LoadSaved
  <2>1. /\ UNCHANGED <<cache, first, history, txids, cut, unmarked, failed, utxo>>
        /\ proc.at = "load" /\ proc \in Proc
    BY <1>2 DEF LoadSaved, ProcOnly, database, Shape, RestOK
  <2>2. cache # None /\ cache.state = "SAVED" /\ ~Marking
    BY <2>1, WorkerAlone DEF Working
  <2>3. /\ proc' = [proc EXCEPT !.at = "addresses", !.txs = cache.txs]
        /\ pending' = pending \cup {Op("announce")} /\ UNCHANGED detected
    BY <1>2, <2>2 DEF LoadSaved
  <2>4. proc'.at = "addresses" /\ ~Ended /\ ~Ended'
    BY <2>1, <2>2, <2>3, OpTyped DEF Ended, Marking, Proc
  <2>5. Advances
    BY <2>1, <2>2, <2>3 DEF Advances, Grows, Height
  <2> QED
    BY <2>1, <2>3, <2>4, <2>5, HistoryStays, OpTyped
<1>3. CASE LoadFails
  <2>1. /\ UNCHANGED <<cache, first, history, txids, cut, unmarked, utxo>> /\ proc.at # "idle"
        /\ failed' = failed \cup {Height} /\ Finish(pending)
    BY <1>3 DEF LoadFails, ProcOnly, database, Height
  <2>2. cache # None
    BY <2>1, WorkerAlone DEF Working
  <2>3. Advances /\ Ended'
    BY <2>1, <2>2 DEF Advances, Grows, Height, Finish, Ended, Marking
  <2>4. PastRecorded /\ NoneAhead
    BY <2>2 DEF HistoryInv
  <2>5. PresentNoted' /\ FirstTime'
    BY <2>1, <2>3 DEF PresentNoted, FirstTime, Unbroken, Advances
  <2> QED
    BY <2>1, <2>3, <2>4, <2>5, PastKept, AheadStays DEF HistoryInv
<1> QED
  BY <1>1, <1>2, <1>3, HistoryLoads, HistoryAnswers DEF Processing

LEMMA StoredFrom ==
  ASSUME Shape, cache # None
  PROVE  Height \in Nat /\ first \in Nat /\ first # 0 /\ first <= Height
<1>1. Height \in Nat /\ first \in 1..Height
  BY BlockOf, BlockTxs DEF Shape, BlocksKept
<1> HIDE DEF Height
<1> QED
  BY <1>1

(* Between two blocks the history is complete up to the stored block. *)
LEMMA HistoryDone ==
  ASSUME Shape, HistoryInv, cache # None, cache.state = "PROCESSED", pending = {},
         NEW h \in first..Height, Unbroken(h)
  PROVE  Recorded(h)
<1>1. Height \in Nat /\ first \in Nat
  BY StoredFrom
<1>2. CASE h = Height
  <2>1. \A tx \in At(h) : \A x \in AddressesOf(tx) \cap Own : Noted(tx, x)
    BY <1>2 DEF HistoryInv, PresentNoted, Ended
  <2> QED
    BY <2>1 DEF Noted, Recorded
<1>3. CASE h # Height
  <2> DEFINE top == Height
  <2>1. \A g \in first..(top - 1) : Unbroken(g) => Recorded(g)
    BY DEF HistoryInv, PastRecorded
  <2>2. h \in first..top /\ h # top /\ top \in Nat /\ first \in Nat
    BY <1>1, <1>3
  <2> HIDE DEF top
  <2>3. h \in first..(top - 1)
    BY <2>2
  <2> QED
    BY <2>1, <2>3
<1> QED
  BY <1>2, <1>3

LEMMA HistoryStore ==
  ASSUME Shape, UtxoInv, HistoryInv, Store
  PROVE  HistoryInv'
<1>1. /\ scan.next \in Block /\ scan.next.state = "SAVED" /\ scan.next.height = scan.height
      /\ scan.height \in Heights /\ pending = {}
      /\ cache # None => cache.state = "PROCESSED" /\ scan.height = Height + 1
  BY DEF Store, Shape, Inv, ScanFollows, TurnsKept, Height
<1>2. proc.at = "idle"
  BY <1>1, WorkerAlone DEF Working
<1>3. /\ cache' = scan.next /\ cache' # None /\ Height' = scan.height
      /\ proc' = proc /\ pending' = {} /\ ~Ended'
      /\ UNCHANGED <<utxo, history, txids, detected, cut, unmarked, failed>>
  BY <1>1, <1>2, NoneIsNothing DEF Store, Height, Ended, Marking
<1>4. PresentNoted'
  BY <1>2, <1>3 DEF PresentNoted
<1>5. ASSUME NEW h, Recorded(h)
      PROVE  Recorded(h)'
  BY <1>3, <1>5 DEF Recorded
<1>6. \A h : Unbroken(h)' <=> Unbroken(h)
  BY <1>3 DEF Unbroken
<1>7. CASE cache = None
  <2>1. utxo = {} /\ first' = scan.height /\ scan.height \in Nat
    BY <1>1, <1>7, BlockTxs DEF UtxoInv, Store, Shape, BlocksKept
  <2>2. PastRecorded'
    <3>1. first'..(Height' - 1) = {}
      BY <1>3, <2>1
    <3> QED
      BY <3>1 DEF PastRecorded
  <2> QED
    BY <1>2, <1>3, <1>4, <2>1, <2>2 DEF HistoryInv, NoneAhead, FirstTime
<1>8. CASE cache # None
  <2>1. first' = first /\ Height \in Nat /\ scan.height = Height + 1
    BY <1>1, <1>8, StoredFrom DEF Store
  <2>2. PastRecorded'
    <3>1. first'..(Height' - 1) = first..Height
      BY <1>3, <2>1
    <3> QED
      BY <1>1, <1>5, <1>6, <1>8, <3>1, HistoryDone DEF PastRecorded
  <2>3. ASSUME NEW o \in utxo
        PROVE  MadeAt(o) <= Height' /\ MadeAt(o) # Height'
    <3>1. MadeAt(o) <= Height
      BY <1>8 DEF HistoryInv, NoneAhead
    <3>2. MadeAt(o) \in Nat
      BY MadeSomewhere, BlockTxs DEF Shape, RestOK
    <3> HIDE DEF Height
    <3> QED
      BY <1>3, <2>1, <3>1, <3>2
  <2>4. NoneAhead' /\ FirstTime'
    BY <1>2, <1>3, <2>3 DEF NoneAhead, FirstTime
  <2> QED
    BY <1>4, <2>2, <2>4 DEF HistoryInv
<1> QED
  BY <1>7, <1>8

LEMMA HistoryCrash ==
  ASSUME Shape, HistoryInv, Crash
  PROVE  HistoryInv'
<1>1. /\ UNCHANGED <<cache, first, utxo, history, txids, detected, unmarked>>
      /\ pending' = {} /\ proc'.at = "idle"
      /\ failed \subseteq failed' /\ cut \subseteq cut'
      /\ proc.at # "idle" \/ pending # {} => Height \in cut'
  BY IdleTyped DEF Crash, database, Height
<1>2. CASE cache = None
  BY <1>1, <1>2 DEF HistoryInv
<1>3. CASE cache # None
  <2>1. Advances
    BY <1>1, <1>3 DEF Advances, Grows, Height
  <2>2. CASE proc.at # "idle" \/ pending # {}
    BY <1>1, <2>1, <2>2, HistoryBroken
  <2>3. CASE proc.at = "idle" /\ pending = {}
    <3>1. Ended <=> Ended'
      BY <1>1, <2>3 DEF Ended, Marking
    <3> QED
      BY <1>1, <2>1, <2>3, <3>1, HistoryStays
  <2> QED
    BY <2>2, <2>3
<1> QED
  BY <1>2, <1>3

LEMMA HistoryNext ==
  ASSUME "restored" \notin Faults, Shape, UtxoInv, HistoryInv, [Next]_vars
  PROVE  HistoryInv'
<1>1. ASSUME UNCHANGED <<cache, first, utxo, history, txids, detected, proc, pending, cut,
                         unmarked>>, failed \subseteq failed'
      PROVE  HistoryInv'
  <2>1. CASE cache = None
    BY <1>1, <2>1 DEF HistoryInv
  <2>2. CASE cache # None
    <3>1. Advances /\ (Ended <=> Ended')
      BY <1>1, <2>2 DEF Advances, Grows, Height, Ended, Marking
    <3> QED
      BY <1>1, <3>1, HistoryStays
  <2> QED
    BY <2>1, <2>2
<1>2. CASE Scanning
  <2>1. CASE Store
    BY <2>1, HistoryStore
  <2>2. CASE ~Store
    BY <1>1, <1>2, <2>2 DEF Scanning, Wake, Load, Latest, LatestUnknown, GetBlock,
       GetBlockTruncated, ExplorerFails, ScanOnly, database
  <2> QED
    BY <2>1, <2>2
<1>3. CASE World
  <2>1. CASE Crash
    BY <2>1, HistoryCrash
  <2>2. CASE ~Crash
    BY <1>1, <1>3, <2>2 DEF World, Mine, NewAddress, StartScan, database, process
  <2> QED
    BY <2>1, <2>2
<1>4. CASE UNCHANGED vars
  BY <1>1, <1>4 DEF vars, database, process
<1> QED
  BY <1>2, <1>3, <1>4, HistoryProcessing DEF Next

(* While no wallet is restored here after it was paid, every transaction of a block
   that is done, and was processed once and whole, is in the history of each address
   of a wallet it touches, and was handed to the detection of third-party
   broadcasts. *)
THEOREM HistoryComplete ==
  ASSUME "restored" \notin Faults
  PROVE  Spec => []HistoryRight
<1>1. Init => HistoryInv
  BY DEF Init, HistoryInv
<1>2. HistoryInv /\ UtxoInv /\ Shape /\ [Next]_vars => HistoryInv'
  BY HistoryNext
<1>3. ASSUME Shape, HistoryInv
      PROVE  HistoryRight
  <2> SUFFICES ASSUME Settled, NEW h \in Done \ (cut \cup unmarked \cup failed)
               PROVE  Recorded(h)
    BY DEF HistoryRight
  <2> QED
    BY <1>3, HistoryDone DEF Settled, Done, Unbroken, Height
<1> QED
  BY <1>1, <1>2, <1>3, ShapeInvariance, UtxoInvariance, PTL DEF Spec
=============================================================================
