------------------------------ MODULE Addresses ------------------------------
(***************************************************************************)
(* The addresses of one complete wallet: createAddress, the change address *)
(* of createTx and scan run under the wallet lock and write the rows of    *)
(* the addresses collection and then the wallet record, which holds the    *)
(* index of the next address of each branch.  addAccess writes the same    *)
(* record without the lock.                                                *)
(*                                                                         *)
(* An address is its path: a branch and an index.  A step is one answer of *)
(* the database or of the explorer and what the callback does with it.     *)
(***************************************************************************)
EXTENDS WalletLock, Integers, FiniteSets, Sequences

CONSTANTS MaxGap,   \* Defaults.MAX_MAIN_ADDRESS_GAP
          ScanGap,  \* the gap at which scan stops
          Payable,  \* the addresses that may have activity
          MaxRows,  \* bound: an insert fails when there would be more rows
          Ops,      \* the requests made in this instance
          Faults    \* the faults that may happen, of FaultKinds

Derivators == <<"main", "change">>
Branches == {"main", "change"}
Path == Branches \X Nat

Creating == {"create", "createIgnoringGap"}
Requests == Creating \cup {"change", "changeTo", "scan", "access"}
FaultKinds == {"expiry",    \* a handler holds the lock for five minutes
               "crash",     \* a bws process dies
               "explorer",  \* the explorer fails
               "payments"}  \* addresses get activity while requests run

ASSUME AddressesAssumption ==
  /\ MaxGap \in Nat \ {0} /\ ScanGap \in Nat \ {0} /\ MaxRows \in Nat
  /\ Payable \subseteq Path
  /\ Ops \subseteq Requests /\ Faults \subseteq FaultKinds

VARIABLES wallet,   \* the wallet record: indexes, scanStatus and singleAddress
          rows,     \* the addresses collection, by createdOn
          known,    \* the addresses stored with hasActivity
          cache,    \* addressIndexCache of each branch
          active,   \* the addresses the chain has activity for
          job       \* job[t]: the request task t serves and how far it is

vars == <<wallet, rows, known, cache, active, job, lockVars>>

(* scanStatus is never "error": scan stores success in any case. *)
Wallet == [index : [Branches -> Nat], scanStatus : {"none", "running", "success"},
           singleAddress : BOOLEAN]

Idle == [op |-> "none", at |-> "idle", doc |-> None, new |-> <<>>, todo |-> {},
         turn |-> 0, inactive |-> 0, failed |-> FALSE]

Points == {"gap", "activity", "note", "locked", "first", "fetch", "markRunning",
           "branch", "probe", "cacheIndex", "insert", "storeWallet", "finish", "unmark"}

Job == [op : Requests, at : Points, doc : Wallet \cup {None}, new : Seq(Path),
        todo : SUBSET Nat, turn : 0..2, inactive : 0..ScanGap, failed : BOOLEAN]

TypeOK ==
  /\ wallet \in Wallet
  /\ rows \in Seq(Path)
  /\ known \subseteq Path
  /\ cache \in [Branches -> Nat]
  /\ active \subseteq Payable
  /\ job \in [Tasks -> Job \cup {Idle}]
  /\ LockTypeOK

Init ==
  /\ wallet \in [index : {[b \in Branches |-> 0]}, scanStatus : {"none"},
                 singleAddress : BOOLEAN]
  /\ rows = <<>>
  /\ known = {}
  /\ cache = [b \in Branches |-> 0]
  /\ active \in SUBSET Payable
  /\ job = [t \in Tasks |-> Idle]
  /\ LockInit

-----------------------------------------------------------------------------
(* What runLocked adds to a handler: see Proposals. *)
HasTurn(t) == t \notin waiting

Locks(t) == t \in waiting \cup overdue \cup {holder}

Unlock(t) == IF Locks(t) THEN Release(t) \/ ReleaseLate(t) ELSE UNCHANGED lockVars

Answer(t) ==
  /\ job' = [job EXCEPT ![t] = Idle]
  /\ Unlock(t)

Continue(t, next) ==
  /\ job' = [job EXCEPT ![t] = next]
  /\ UNCHANGED lockVars

GoTo(t, point) == Continue(t, [job[t] EXCEPT !.at = point])

(* The request gets in line. *)
RunLocked(t, op) ==
  /\ job' = [job EXCEPT ![t] = [Idle EXCEPT !.op = op, !.at = "locked"]]
  /\ Request(t)

At(t, point) == job[t].at = point

AtTurn(t, ops) == job[t].op \in ops /\ At(t, "locked") /\ HasTurn(t)

(* wallet.createAddress: the path at the index, which moves on. *)
Derive(doc, branch) == [doc EXCEPT !.index[branch] = @ + 1]

NextPath(doc, branch) == <<branch, doc.index[branch]>>

(* The paths of a branch from index i to before index j. *)
PathsBetween(branch, i, j) == [k \in 1..(j - i) |-> <<branch, i + k - 1>>]

PathsIn(list) == {list[i] : i \in 1..Len(list)}

Stored == PathsIn(rows)

MainRows == {i \in 1..Len(rows) : rows[i][1] = "main"}

(* fetchAddresses: the last n rows that are not for change, by position. *)
Latest(n) == {i \in MainRows : Cardinality({j \in MainRows : j > i}) < n}

-----------------------------------------------------------------------------
(* createAddress looks at the gap first, addAccess takes no lock, the others
   get in line at once. *)
Arrive(t, op) ==
  /\ job[t] = Idle
  /\ op \in Ops
  /\ CASE op = "create" -> Continue(t, [Idle EXCEPT !.op = op, !.at = "gap"])
       [] op = "access" -> Continue(t, [Idle EXCEPT !.op = op, !.at = "fetch"])
       [] OTHER -> RunLocked(t, op)
  /\ UNCHANGED <<wallet, rows, known, cache, active>>

(* WALLET_BUSY. *)
Busy(t) ==
  /\ GiveUp(t)
  /\ job' = [job EXCEPT ![t] = Idle]
  /\ UNCHANGED <<wallet, rows, known, cache, active>>

LockExpires(t) ==
  /\ "expiry" \in Faults
  /\ Expire(t)
  /\ UNCHANGED <<wallet, rows, known, cache, active, job>>

Crash(t) ==
  /\ "crash" \in Faults
  /\ job[t] # Idle
  /\ job' = [job EXCEPT ![t] = Idle]
  /\ IF Locks(t) THEN GiveUp(t) \/ Release(t) \/ ReleaseLate(t) ELSE UNCHANGED lockVars
  /\ UNCHANGED <<wallet, rows, known, cache, active>>

(* Somebody pays to an address of the wallet. *)
Pay(path) ==
  /\ "payments" \in Faults
  /\ path \in Payable \ active
  /\ active' = active \cup {path}
  /\ UNCHANGED <<wallet, rows, known, cache, job, lockVars>>

-----------------------------------------------------------------------------
(* _canCreateAddress, on what is stored. *)
GapLeft(latest) == Cardinality(latest) < MaxGap \/ \E i \in latest : rows[i] \in known

CheckGap(t) ==
  /\ At(t, "gap")
  /\ LET latest == Latest(MaxGap)
     IN  \/ GapLeft(latest) /\ RunLocked(t, "create")
         \/ /\ ~GapLeft(latest)
            /\ Continue(t, [job[t] EXCEPT !.todo = latest, !.at = "activity"])
  /\ UNCHANGED <<wallet, rows, known, cache, active>>

(* ... the explorer is asked about one address after the other, the last one
   first.  MAIN_ADDRESS_GAP_REACHED when none has activity. *)
CheckActivity(t) ==
  /\ At(t, "activity")
  /\ \/ /\ job[t].todo = {} \/ "explorer" \in Faults
        /\ Answer(t)
     \/ \E i \in job[t].todo :
          /\ \A j \in job[t].todo : j <= i
          /\ Continue(t, [job[t] EXCEPT
               !.todo = IF rows[i] \in active THEN {i} ELSE @ \ {i},
               !.at = IF rows[i] \in active THEN "note" ELSE @])
  /\ UNCHANGED <<wallet, rows, known, cache, active>>

(* ... storeAddress with hasActivity. *)
NoteActivity(t) ==
  /\ At(t, "note")
  /\ known' = known \cup {rows[i] : i \in job[t].todo}
  /\ RunLocked(t, "create")
  /\ UNCHANGED <<wallet, rows, cache, active>>

(* The address is derived in memory; the rows are inserted first. *)
DeriveNew(t, branch) ==
  Continue(t, [job[t] EXCEPT !.new = <<NextPath(wallet, branch)>>,
                             !.doc = Derive(wallet, branch), !.at = "insert"])

(* createAddress under the lock.  A single-address wallet looks for its first
   address. *)
CreateAddress(t) ==
  /\ AtTurn(t, Creating)
  /\ IF wallet.singleAddress
     THEN Continue(t, [job[t] EXCEPT !.doc = wallet, !.at = "first"])
     ELSE DeriveNew(t, "main")
  /\ UNCHANGED <<wallet, rows, known, cache, active>>

(* getFirstAddress. *)
GetFirstAddress(t) ==
  /\ At(t, "first")
  /\ \/ rows # <<>> /\ Answer(t)
     \/ /\ rows = <<>>
        /\ Continue(t, [job[t] EXCEPT !.new = <<NextPath(job[t].doc, "main")>>,
                                      !.doc = Derive(job[t].doc, "main"), !.at = "insert"])
  /\ UNCHANGED <<wallet, rows, known, cache, active>>

(* createTx: a change address is derived, or none is needed, or the request
   ends without (no funds, dryRun). *)
ChangeAddress(t) ==
  /\ AtTurn(t, {"change"})
  /\ \/ ~wallet.singleAddress /\ DeriveNew(t, "change")
     \/ Answer(t)
  /\ UNCHANGED <<wallet, rows, known, cache, active>>

(* createTx with opts.changeAddress: an address of the wallet, which is
   inserted once more. *)
ChangeToAddress(t) ==
  /\ AtTurn(t, {"changeTo"})
  /\ \/ /\ ~wallet.singleAddress
        /\ \E i \in 1..Len(rows) :
             Continue(t, [job[t] EXCEPT !.new = <<rows[i]>>, !.doc = wallet, !.at = "insert"])
     \/ Answer(t)
  /\ UNCHANGED <<wallet, rows, known, cache, active>>
-----------------------------------------------------------------------------
(* storeAddressAndWallet, the insert.  When it fails nothing is stored: the
   request is answered with the error, and a scan ends with it. *)
InsertAddresses(t) ==
  /\ At(t, "insert")
  /\ \/ /\ Len(rows \o job[t].new) <= MaxRows
        /\ rows' = rows \o job[t].new
        /\ GoTo(t, "storeWallet")
     \/ /\ Len(rows \o job[t].new) > MaxRows
        /\ IF job[t].op = "scan"
           THEN Continue(t, [job[t] EXCEPT !.failed = TRUE, !.at = "finish"])
           ELSE Answer(t)
        /\ UNCHANGED rows
  /\ UNCHANGED <<wallet, known, cache, active>>

(* ... storeWallet; addAccess ends with one as well.  A scan goes on with the
   next branch. *)
StoreWallet(t) ==
  /\ At(t, "storeWallet")
  /\ wallet' = job[t].doc
  /\ IF job[t].op = "scan" THEN GoTo(t, "branch") ELSE Answer(t)
  /\ UNCHANGED <<rows, known, cache, active>>

(* addAccess reads the wallet and will write it back with one more key. *)
AddAccess(t) ==
  /\ At(t, "fetch")
  /\ Continue(t, [job[t] EXCEPT !.doc = wallet, !.at = "storeWallet"])
  /\ UNCHANGED <<wallet, rows, known, cache, active>>

-----------------------------------------------------------------------------
Scan(t) ==
  /\ AtTurn(t, {"scan"})
  /\ Continue(t, [job[t] EXCEPT !.doc = [wallet EXCEPT !.scanStatus = "running"],
                                !.at = "markRunning"])
  /\ UNCHANGED <<wallet, rows, known, cache, active>>

MarkRunning(t) ==
  /\ At(t, "markRunning")
  /\ wallet' = job[t].doc
  /\ GoTo(t, "branch")
  /\ UNCHANGED <<rows, known, cache, active>>

(* What an earlier scan knew to be used, though it stored no address. *)
Known(branch, index) == IF cache[branch] > index THEN cache[branch] ELSE index

(* The next branch: known addresses are derived without asking. *)
ScanBranch(t) ==
  /\ At(t, "branch")
  /\ IF job[t].turn = Len(Derivators)
     THEN GoTo(t, "finish")
     ELSE LET branch == Derivators[job[t].turn + 1]
              from == job[t].doc.index[branch]
              index == Known(branch, from)
          IN  Continue(t, [job[t] EXCEPT !.turn = @ + 1, !.inactive = 0, !.at = "probe",
                             !.new = PathsBetween(branch, from, index),
                             !.doc.index[branch] = index])
  /\ UNCHANGED <<wallet, rows, known, cache, active>>

(* Mutant of GapEnd: the last addresses, which nobody used, are not given back. *)
GapEndKept(index) == index

GapEnd(index) == IF index > ScanGap THEN index - ScanGap ELSE 0

(* Mutant of Quiet: activity does not end a series. *)
QuietInAll(inactive, path) == IF path \in active THEN inactive ELSE inactive + 1

(* The unused addresses in a row. *)
Quiet(inactive, path) == IF path \in active THEN 0 ELSE inactive + 1

(* scanBranch, one address; an error of the explorer ends the whole scan. *)
Probe(t) ==
  /\ At(t, "probe") /\ job[t].inactive < ScanGap
  /\ LET branch == Derivators[job[t].turn]
         path == NextPath(job[t].doc, branch)
     IN  \/ Continue(t, [job[t] EXCEPT
               !.doc = Derive(@, branch), !.new = Append(@, path),
               !.inactive = Quiet(@, path),
               !.at = IF path \in active THEN "cacheIndex" ELSE @])
         \/ /\ "explorer" \in Faults
            /\ Continue(t, [job[t] EXCEPT !.failed = TRUE, !.at = "finish"])
  /\ UNCHANGED <<wallet, rows, known, cache, active>>

(* ... storeAddressIndexCache. *)
CacheIndex(t) ==
  /\ At(t, "cacheIndex")
  /\ LET branch == Derivators[job[t].turn]
     IN  cache' = [cache EXCEPT ![branch] = job[t].doc.index[branch]]
  /\ GoTo(t, "probe")
  /\ UNCHANGED <<wallet, rows, known, active>>

(* Mutant of EndBranch: nothing found, and no call of cb. *)
EndBranchSilent(t) ==
  /\ At(t, "probe") /\ job[t].inactive = ScanGap
  /\ LET branch == Derivators[job[t].turn]
         found == SubSeq(job[t].new, 1, Len(job[t].new) - ScanGap)
     IN  /\ found # <<>>
         /\ Continue(t, [job[t] EXCEPT !.doc.index[branch] = GapEnd(@), !.new = found,
                                       !.at = "insert"])
  /\ UNCHANGED <<wallet, rows, known, cache, active>>

(* ... the gap is found: rewind, and store what is left if anything is. *)
EndBranch(t) ==
  /\ At(t, "probe") /\ job[t].inactive = ScanGap
  /\ LET branch == Derivators[job[t].turn]
         found == SubSeq(job[t].new, 1, Len(job[t].new) - ScanGap)
     IN  Continue(t, [job[t] EXCEPT !.doc.index[branch] = GapEnd(@), !.new = found,
                        !.at = IF found = <<>> THEN "branch" ELSE "insert"])
  /\ UNCHANGED <<wallet, rows, known, cache, active>>

(* Mutant of FinishScan: the wallet in memory, with what the scan derived. *)
FinishScanStale(t) ==
  /\ At(t, "finish")
  /\ Continue(t, [job[t] EXCEPT !.doc.scanStatus = "success", !.at = "unmark"])
  /\ UNCHANGED <<wallet, rows, known, cache, active>>

(* The end, with or without an error: the wallet is read again ... *)
FinishScan(t) ==
  /\ At(t, "finish")
  /\ Continue(t, [job[t] EXCEPT !.doc = [wallet EXCEPT !.scanStatus = "success"],
                                !.at = "unmark"])
  /\ UNCHANGED <<wallet, rows, known, cache, active>>

(* ... and stored with success. *)
MarkSuccess(t) ==
  /\ At(t, "unmark")
  /\ wallet' = job[t].doc
  /\ Answer(t)
  /\ UNCHANGED <<rows, known, cache, active>>

-----------------------------------------------------------------------------
Serve(t) ==
  \/ CheckGap(t) \/ CheckActivity(t) \/ NoteActivity(t)
  \/ CreateAddress(t) \/ GetFirstAddress(t) \/ ChangeAddress(t) \/ ChangeToAddress(t)
  \/ InsertAddresses(t) \/ StoreWallet(t) \/ AddAccess(t)
  \/ Scan(t) \/ MarkRunning(t) \/ ScanBranch(t) \/ Probe(t) \/ CacheIndex(t)
  \/ EndBranch(t) \/ FinishScan(t) \/ MarkSuccess(t)

Next ==
  \/ \E t \in Tasks :
       \/ \E op \in Ops : Arrive(t, op)
       \/ Serve(t) \/ Busy(t) \/ LockExpires(t) \/ Crash(t)
  \/ \E path \in Payable : Pay(path)

Spec == Init /\ [][Next]_vars

(* A handler that has what it waits for goes on; an armed wait timer fires. *)
Fairness == \A t \in Tasks : WF_vars(Serve(t)) /\ WF_vars(Busy(t))
FairSpec == Spec /\ Fairness

-----------------------------------------------------------------------------
(* No address is skipped: every index below the one stored in the wallet has
   its row, whoever overwrites the wallet record and wherever a process dies.
   An address without a row is one the wallet never looks at again. *)
IndexBehindRows ==
  \A b \in Branches : \A i \in 0..(wallet.index[b] - 1) : <<b, i>> \in Stored

(* "No two identical addresses" (createAddress on simultaneous requests): as
   long as nobody dies, loses the lock or writes the wallet without it. *)
NoAddressTwice == \A i, j \in 1..Len(rows) : rows[i] = rows[j] => i = j

(* When nobody holds the lock, the rows of a branch are the addresses before
   its index, in the order of their indexes. *)
SettledRows ==
  holder = None =>
    /\ \A b \in Branches :
         {path \in Stored : path[1] = b} = {<<b, i>> : i \in 0..(wallet.index[b] - 1)}
    /\ \A i, j \in 1..Len(rows) :
         i < j /\ rows[i][1] = rows[j][1] => rows[i][2] < rows[j][2]

(* At most n unused addresses at the end of the main ones. *)
UnusedAtMost(n) ==
  Cardinality(MainRows) > n => \E i \in Latest(n + 1) : rows[i] \in active

(* Simultaneous requests look at the gap before they take the lock, so it is
   exceeded by no more than those in flight. *)
GapBounded == UnusedAtMost(MaxGap - 1 + Cardinality(Tasks))

(* MAX_MAIN_ADDRESS_GAP itself ("constraint of maximum number of consecutive
   addresses without activity"). *)
GapRespected == UnusedAtMost(MaxGap)

(* A scan that ends without an error leaves no used address within the gap of
   what the wallet holds, also if it took up where an interrupted one, or one
   that failed, had stopped. *)
ScanFindsAll ==
  [][\A t \in Tasks :
       /\ job[t].op = "scan" /\ job[t].at = "unmark" /\ job'[t] = Idle
       /\ wallet' = job[t].doc /\ ~job[t].failed
       => \A b \in Branches : \A path \in active :
            path[1] = b => ~(path[2] \in wallet'.index[b]..(wallet'.index[b] + ScanGap - 1))]_vars

(* A scan that failed is recorded as such, so that requests ask for another one
   (WALLET_NEED_SCAN). *)
FailedScanRecorded ==
  [][\A t \in Tasks :
       job[t].op = "scan" /\ job[t].failed /\ job'[t] = Idle => wallet'.scanStatus = "error"]_vars

(* Every request is answered; a scan ends, since it stops at a gap. *)
EveryRequestAnswered == \A t \in Tasks : (job[t] # Idle) ~> (job[t] = Idle)
=============================================================================
