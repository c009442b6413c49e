--------------------------- MODULE AddressesProofs ---------------------------
(***************************************************************************)
(* Proofs about Addresses. First, for any number of requests in flight,    *)
(* whatever overlaps, fails, dies or loses the lock: the index of a wallet *)
(* never gets ahead of the stored addresses. The wallet record is          *)
(* overwritten with copies of any age, but rows are only ever added, so a  *)
(* copy that was covered by the rows stays so. What a request derives in   *)
(* memory is covered by the rows and the addresses it is about to insert   *)
(* (Inv).                                                                  *)
(*                                                                         *)
(* Second, while only requests that hold the lock write the wallet         *)
(* (UnderLock): rows and index say the same. SettledInv says of the        *)
(* request whose turn it is how far its copy is ahead of the stored wallet *)
(* and which rows it has inserted for that; SearchInv says in addition     *)
(* what a scan has seen: nothing used lies between what it keeps and where *)
(* it looks.                                                               *)
(***************************************************************************)
EXTENDS Addresses, SequenceTheorems, TLAPS

(* Every index of doc below that of its branch is among the paths. *)
Covered(doc, paths) ==
  \A b \in Branches : \A i \in Nat : i < doc.index[b] => <<b, i>> \in paths

(* A scan of a branch: its new addresses are those right below the index, what
   is below them and the other branch are stored. *)
ChainAbove(doc, b, new, paths) ==
  /\ Len(new) <= doc.index[b]
  /\ \A k \in 1..Len(new) : new[k] = <<b, doc.index[b] - Len(new) + k - 1>>
  /\ \A i \in Nat : i < doc.index[b] - Len(new) => <<b, i>> \in paths
  /\ \A c \in Branches \ {b} : \A i \in Nat : i < doc.index[c] => <<c, i>> \in paths

(* What a request has in memory, by where it is. *)
Sane(j, list) ==
  /\ j.at \in {"first", "markRunning", "branch", "probe", "cacheIndex", "insert",
               "storeWallet", "unmark"} => j.doc \in Wallet
  /\ j.at \in {"first", "markRunning", "branch", "storeWallet", "unmark"} =>
       Covered(j.doc, PathsIn(list))
  /\ j.at = "insert" => Covered(j.doc, PathsIn(list) \cup PathsIn(j.new))
  /\ j.at \in {"probe", "cacheIndex"} =>
       /\ j.turn \in {1, 2} /\ j.inactive <= Len(j.new)
       /\ ChainAbove(j.doc, Derivators[j.turn], j.new, PathsIn(list))
  /\ j.at \in {"activity", "note"} => j.todo \subseteq 1..Len(list)

Inv ==
  /\ TypeOK
  /\ \A t \in Tasks : Sane(job[t], rows)
  /\ Covered(wallet, Stored)

-----------------------------------------------------------------------------
LEMMA FunctionIsSeq ==
  ASSUME NEW S, NEW n \in Nat, NEW f \in [1..n -> S]
  PROVE  f \in Seq(S) /\ Len(f) = n
  BY LenProperties

(* The lock's part of the type invariant is its own business. *)
LEMMA LockTyped ==
  ASSUME LockTypeOK, NEW t \in Tasks,
         Request(t) \/ GiveUp(t) \/ Release(t) \/ ReleaseLate(t) \/ Expire(t)
           \/ UNCHANGED lockVars
  PROVE  LockTypeOK'
<1>1. CASE Request(t)
  BY <1>1 DEF LockTypeOK, Request
<1>2. CASE GiveUp(t)
  BY <1>2 DEF LockTypeOK, GiveUp
<1>3. CASE Release(t)
  BY <1>3 DEF LockTypeOK, Release, HandOver
<1>4. CASE ReleaseLate(t)
  BY <1>4 DEF LockTypeOK, ReleaseLate
<1>5. CASE Expire(t)
  BY <1>5 DEF LockTypeOK, Expire, HandOver
<1>6. CASE UNCHANGED lockVars
  BY <1>6 DEF LockTypeOK, lockVars
<1> QED
  BY <1>1, <1>2, <1>3, <1>4, <1>5, <1>6

LEMMA JobOf ==
  ASSUME Inv, NEW t \in Tasks, job[t].at \in Points
  PROVE  job[t] \in Job /\ Sane(job[t], rows)
<1>1. job[t] \in Job \cup {Idle} /\ Sane(job[t], rows)
  BY DEF Inv, TypeOK
<1>2. Idle.at \notin Points
  BY DEF Idle, Points
<1> QED
  BY <1>1, <1>2

LEMMA IdleSane ==
  ASSUME NEW list
  PROVE  Sane(Idle, list)
BY DEF Sane, Idle

(* The index of a branch is set. *)
LEMMA SetIndex ==
  ASSUME NEW doc \in Wallet, NEW b \in Branches, NEW n \in Nat
  PROVE  LET new == [doc EXCEPT !.index[b] = n]
         IN  /\ new \in Wallet
             /\ \A c \in Branches : new.index[c] = IF c = b THEN n ELSE doc.index[c]
BY DEF Wallet

LEMMA DeriveMoves ==
  ASSUME NEW doc \in Wallet, NEW b \in Branches
  PROVE  /\ Derive(doc, b) \in Wallet
         /\ \A c \in Branches :
              Derive(doc, b).index[c] = IF c = b THEN doc.index[c] + 1 ELSE doc.index[c]
BY DEF Wallet, Derive

(* An address derived from a covered wallet. *)
LEMMA DeriveCovered ==
  ASSUME NEW doc \in Wallet, NEW b \in Branches, NEW paths, Covered(doc, paths)
  PROVE  LET new == <<NextPath(doc, b)>>
         IN  /\ Derive(doc, b) \in Wallet /\ new \in Seq(Path)
             /\ Covered(Derive(doc, b), paths \cup PathsIn(new))
<1> DEFINE new == <<NextPath(doc, b)>>
<1>1. doc.index \in [Branches -> Nat]
  BY DEF Wallet
<1>2. NextPath(doc, b) = <<b, doc.index[b]>> /\ NextPath(doc, b) \in Path
  BY <1>1 DEF NextPath, Path
<1>3. new \in Seq(Path) /\ NextPath(doc, b) \in PathsIn(new)
  <2>1. new \in Seq(Path) /\ Len(new) = 1 /\ new[1] = NextPath(doc, b)
    BY <1>2
  <2> HIDE DEF new
  <2> QED
    BY <2>1 DEF PathsIn
<1> HIDE DEF new
<1>4. Covered(Derive(doc, b), paths \cup PathsIn(new))
  <2> SUFFICES ASSUME NEW c \in Branches, NEW i \in Nat, i < Derive(doc, b).index[c]
               PROVE  <<c, i>> \in paths \cup PathsIn(new)
    BY DEF Covered
  <2>1. Derive(doc, b).index[c] = IF c = b THEN doc.index[c] + 1 ELSE doc.index[c]
    BY DeriveMoves
  <2>2. doc.index[c] \in Nat
    BY <1>1
  <2>3. i < doc.index[c] \/ (c = b /\ i = doc.index[b])
    BY <2>1, <2>2
  <2> QED
    BY <2>3, <1>2, <1>3 DEF Covered
<1> QED
  BY <1>3, <1>4, DeriveMoves DEF new

(* Rows are added only, and that breaks nothing. *)
LEMMA RowsGrow ==
  ASSUME NEW old \in Seq(Path), NEW more \in Seq(Path)
  PROVE  /\ old \o more \in Seq(Path)
         /\ PathsIn(old \o more) = PathsIn(old) \cup PathsIn(more)
         /\ Len(old) <= Len(old \o more) /\ Len(old \o more) \in Nat
<1> DEFINE all == old \o more
<1>1. /\ all \in Seq(Path) /\ Len(all) = Len(old) + Len(more)
      /\ Len(old) \in Nat /\ Len(more) \in Nat
      /\ \A i \in 1..Len(all) : all[i] = IF i <= Len(old) THEN old[i] ELSE more[i - Len(old)]
  BY ConcatProperties, LenProperties
<1> HIDE DEF all
<1>2. PathsIn(all) \subseteq PathsIn(old) \cup PathsIn(more)
  <2> SUFFICES ASSUME NEW i \in 1..Len(all)
               PROVE  all[i] \in PathsIn(old) \cup PathsIn(more)
    BY DEF PathsIn
  <2>1. CASE i <= Len(old)
    BY <1>1, <2>1 DEF PathsIn
  <2>2. CASE ~(i <= Len(old))
    <3>1. all[i] = more[i - Len(old)] /\ i - Len(old) \in 1..Len(more)
      BY <1>1, <2>2
    <3> QED
      BY <3>1 DEF PathsIn
  <2> QED
    BY <2>1, <2>2
<1>3. PathsIn(old) \subseteq PathsIn(all)
  <2> SUFFICES ASSUME NEW i \in 1..Len(old)
               PROVE  old[i] \in PathsIn(all)
    BY DEF PathsIn
  <2>1. i \in 1..Len(all) /\ all[i] = old[i]
    BY <1>1
  <2> QED
    BY <2>1 DEF PathsIn
<1>4. PathsIn(more) \subseteq PathsIn(all)
  <2> SUFFICES ASSUME NEW i \in 1..Len(more)
               PROVE  more[i] \in PathsIn(all)
    BY DEF PathsIn
  <2> DEFINE k == i + Len(old)
  <2>0. k \in 1..Len(all) /\ ~(k <= Len(old)) /\ k - Len(old) = i
    BY <1>1
  <2> HIDE DEF k
  <2>1. k \in 1..Len(all) /\ all[k] = more[i]
    BY <1>1, <2>0
  <2> QED
    BY <2>1 DEF PathsIn
<1> QED
  BY <1>1, <1>2, <1>3, <1>4 DEF all

LEMMA SaneGrows ==
  ASSUME NEW j, NEW old, NEW new, Sane(j, old), Len(old) \in Nat, Len(new) \in Nat,
         PathsIn(old) \subseteq PathsIn(new), Len(old) <= Len(new)
  PROVE  Sane(j, new)
<1>1. \A doc, extra : Covered(doc, PathsIn(old) \cup extra) => Covered(doc, PathsIn(new) \cup extra)
  BY DEF Covered
<1>2. \A doc : Covered(doc, PathsIn(old)) => Covered(doc, PathsIn(new))
  BY DEF Covered
<1>3. \A doc, b, chain : ChainAbove(doc, b, chain, PathsIn(old))
                           => ChainAbove(doc, b, chain, PathsIn(new))
  BY DEF ChainAbove
<1>4. 1..Len(old) \subseteq 1..Len(new)
  OBVIOUS
<1> QED
  BY <1>1, <1>2, <1>3, <1>4 DEF Sane

-----------------------------------------------------------------------------
(* Steps that leave the wallet and the rows alone. *)
LEMMA Continues ==
  ASSUME Inv, NEW t \in Tasks, NEW new \in Job \cup {Idle}, Sane(new, rows),
         job' = [job EXCEPT ![t] = new], LockTypeOK',
         UNCHANGED <<wallet, rows, active>>,
         known' \subseteq Path, cache' \in [Branches -> Nat]
  PROVE  Inv'
<1>1. TypeOK'
  BY DEF Inv, TypeOK
<1>2. \A u \in Tasks : Sane(job'[u], rows)
  BY DEF Inv, TypeOK
<1> QED
  BY <1>1, <1>2 DEF Inv, Covered, Stored

(* A request goes on to another call. *)
LEMMA GoesOn ==
  ASSUME Inv, NEW t \in Tasks, NEW new \in Job, Sane(new, rows), Continue(t, new),
         UNCHANGED <<wallet, rows, known, cache, active>>
  PROVE  Inv'
<1>1. job' = [job EXCEPT ![t] = new] /\ UNCHANGED lockVars
  BY DEF Continue
<1>2. LockTypeOK'
  BY <1>1, LockTyped DEF Inv, TypeOK
<1>3. known' \subseteq Path /\ cache' \in [Branches -> Nat]
  BY DEF Inv, TypeOK
<1> QED
  BY <1>1, <1>2, <1>3, Continues

(* A request at its beginning. *)
LEMMA Begun ==
  ASSUME NEW op \in Requests, NEW at \in Points
  PROVE  [Idle EXCEPT !.op = op, !.at = at] \in Job
<1>1. <<>> \in Seq(Path) /\ 0 \in 0..2 /\ 0 \in 0..ScanGap
  BY EmptySeq, AddressesAssumption
<1> QED
  BY <1>1 DEF Job, Idle

(* A request gets in line. *)
LEMMA RunLockedTyped ==
  ASSUME Inv, NEW t \in Tasks, NEW op \in Requests, RunLocked(t, op)
  PROVE  \E new \in Job : /\ Sane(new, rows) /\ job' = [job EXCEPT ![t] = new]
                          /\ LockTypeOK'
<1> DEFINE new == [Idle EXCEPT !.op = op, !.at = "locked"]
<1>1. job' = [job EXCEPT ![t] = new] /\ Request(t)
  BY DEF RunLocked
<1>4. new \in Job
  BY Begun DEF Points
<1>5. new.at = "locked"
  BY DEF Idle
<1> HIDE DEF new
<1>6. Sane(new, rows)
  BY <1>5 DEF Sane
<1>7. LockTypeOK'
  BY <1>1, LockTyped DEF Inv, TypeOK
<1> QED
  BY <1>1, <1>4, <1>6, <1>7

LEMMA RunsLocked ==
  ASSUME Inv, NEW t \in Tasks, NEW op \in Requests, RunLocked(t, op),
         UNCHANGED <<wallet, rows, cache, active>>, known' \subseteq Path
  PROVE  Inv'
<1>1. cache' \in [Branches -> Nat]
  BY DEF Inv, TypeOK
<1> QED
  BY <1>1, RunLockedTyped, Continues

LEMMA AnswerTyped ==
  ASSUME Inv, NEW t \in Tasks, Answer(t)
  PROVE  LockTypeOK' /\ job' = [job EXCEPT ![t] = Idle] /\ Sane(Idle, rows)
<1>1. LockTypeOK'
  BY LockTyped DEF Answer, Unlock, Inv, TypeOK
<1> QED
  BY <1>1, IdleSane DEF Answer

LEMMA Answers ==
  ASSUME Inv, NEW t \in Tasks, Answer(t),
         UNCHANGED <<wallet, rows, known, cache, active>>
  PROVE  Inv'
<1>1. known' \subseteq Path /\ cache' \in [Branches -> Nat]
  BY DEF Inv, TypeOK
<1> QED
  BY <1>1, AnswerTyped, Continues

(* A request goes on after it has stored its copy of the wallet. *)
LEMMA Stores ==
  ASSUME Inv, NEW t \in Tasks, NEW doc \in Wallet, Covered(doc, PathsIn(rows)),
         wallet' = doc, UNCHANGED <<rows, known, cache, active>>,
         NEW new \in Job \cup {Idle}, Sane(new, rows),
         job' = [job EXCEPT ![t] = new], LockTypeOK'
  PROVE  Inv'
<1>1. TypeOK'
  BY DEF Inv, TypeOK
<1>2. \A u \in Tasks : Sane(job'[u], rows)
  BY DEF Inv, TypeOK
<1> QED
  BY <1>1, <1>2 DEF Inv, Stored

-----------------------------------------------------------------------------
LEMMA ArriveKeeps ==
  ASSUME Inv, NEW t \in Tasks, NEW op \in Ops, Arrive(t, op)
  PROVE  Inv'
<1>1. op \in Requests
  BY AddressesAssumption
<1>2. CASE op \in {"create", "access"}
  <2>1. PICK at \in {"gap", "fetch"} : Continue(t, [Idle EXCEPT !.op = op, !.at = at])
    BY <1>2 DEF Arrive
  <2> DEFINE new == [Idle EXCEPT !.op = op, !.at = at]
  <2>2. new \in Job /\ new.at = at
    <3>1. at \in Points
      BY DEF Points
    <3> QED
      BY <1>1, <3>1, Begun DEF Idle
  <2>3. Continue(t, new)
    BY <2>1
  <2> HIDE DEF new
  <2>4. Sane(new, rows)
    BY <2>2 DEF Sane
  <2> QED
    BY <2>2, <2>3, <2>4, GoesOn DEF Arrive
<1>3. CASE op \notin {"create", "access"}
  <2>1. RunLocked(t, op)
    BY <1>3 DEF Arrive
  <2>2. known' \subseteq Path
    BY DEF Arrive, Inv, TypeOK
  <2> QED
    BY <1>1, <2>1, <2>2, RunsLocked DEF Arrive
<1> QED
  BY <1>2, <1>3

LEMMA BusyKeeps ==
  ASSUME Inv, NEW t \in Tasks, Busy(t)
  PROVE  Inv'
<1>1. LockTypeOK'
  BY LockTyped DEF Busy, Inv, TypeOK
<1>2. known' \subseteq Path /\ cache' \in [Branches -> Nat]
  BY DEF Busy, Inv, TypeOK
<1> QED
  BY <1>1, <1>2, IdleSane, Continues DEF Busy

LEMMA LockExpiresKeeps ==
  ASSUME Inv, NEW t \in Tasks, LockExpires(t)
  PROVE  Inv'
<1>1. LockTypeOK'
  BY LockTyped DEF LockExpires, Inv, TypeOK
<1> QED
  BY <1>1 DEF LockExpires, Inv, TypeOK, Covered, Stored

LEMMA CrashKeeps ==
  ASSUME Inv, NEW t \in Tasks, Crash(t)
  PROVE  Inv'
<1>1. LockTypeOK'
  BY LockTyped DEF Crash, Inv, TypeOK
<1>2. known' \subseteq Path /\ cache' \in [Branches -> Nat]
  BY DEF Crash, Inv, TypeOK
<1> QED
  BY <1>1, <1>2, IdleSane, Continues DEF Crash

LEMMA PayKeeps ==
  ASSUME Inv, NEW path \in Payable, Pay(path)
  PROVE  Inv'
<1>1. LockTypeOK'
  BY DEF Pay, lockVars, LockTypeOK, Inv, TypeOK
<1> QED
  BY <1>1 DEF Pay, Inv, TypeOK, Covered, Stored

-----------------------------------------------------------------------------
LEMMA CheckGapKeeps ==
  ASSUME Inv, NEW t \in Tasks, CheckGap(t)
  PROVE  Inv'
<1>1. CASE RunLocked(t, "create")
  <2>1. known' \subseteq Path /\ "create" \in Requests
    BY DEF CheckGap, Inv, TypeOK, Requests, Creating
  <2> QED
    BY <1>1, <2>1, RunsLocked DEF CheckGap
<1>2. CASE ~RunLocked(t, "create")
  <2> DEFINE latest == Latest(MaxGap)
             new == [job[t] EXCEPT !.todo = latest, !.at = "activity"]
  <2>1. job[t] \in Job
    BY JobOf DEF CheckGap, At, Points
  <2>2. latest \subseteq 1..Len(rows) /\ latest \subseteq Nat
    BY DEF Latest, MainRows
  <2>3. Continue(t, new)
    BY <1>2 DEF CheckGap
  <2> HIDE DEF latest
  <2>4. new \in Job /\ new.at = "activity" /\ new.todo = latest
    BY <2>1, <2>2 DEF Job, Points
  <2> HIDE DEF new
  <2>5. Sane(new, rows)
    BY <2>2, <2>4 DEF Sane
  <2> QED
    BY <2>3, <2>4, <2>5, GoesOn DEF CheckGap
<1> QED
  BY <1>1, <1>2

LEMMA CheckActivityKeeps ==
  ASSUME Inv, NEW t \in Tasks, CheckActivity(t)
  PROVE  Inv'
<1>1. CASE Answer(t)
  BY <1>1, Answers DEF CheckActivity
<1>2. CASE ~Answer(t)
  <2>1. job[t] \in Job /\ job[t].todo \subseteq 1..Len(rows)
    BY JobOf DEF CheckActivity, At, Points, Sane
  <2>2. PICK i \in job[t].todo :
          Continue(t, [job[t] EXCEPT
            !.todo = IF rows[i] \in active THEN {i} ELSE @ \ {i},
            !.at = IF rows[i] \in active THEN "note" ELSE @])
    BY <1>2 DEF CheckActivity
  <2> DEFINE todo == IF rows[i] \in active THEN {i} ELSE job[t].todo \ {i}
             at == IF rows[i] \in active THEN "note" ELSE job[t].at
             new == [job[t] EXCEPT !.todo = todo, !.at = at]
  <2>3. Continue(t, new)
    BY <2>2
  <2>4. at \in {"note", "activity"}
    BY DEF CheckActivity, At
  <2>5. todo \subseteq 1..Len(rows)
    BY <2>1
  <2>6. todo \subseteq Nat
    BY <2>5
  <2> HIDE DEF todo, at
  <2>7. new \in Job /\ new.at = at /\ new.todo = todo
    BY <2>1, <2>4, <2>6 DEF Job, Points
  <2> HIDE DEF new
  <2>8. Sane(new, rows)
    BY <2>4, <2>5, <2>7 DEF Sane
  <2> QED
    BY <2>3, <2>7, <2>8, GoesOn DEF CheckActivity
<1> QED
  BY <1>1, <1>2

LEMMA NoteActivityKeeps ==
  ASSUME Inv, NEW t \in Tasks, NoteActivity(t)
  PROVE  Inv'
<1>1. job[t].todo \subseteq 1..Len(rows)
  BY JobOf DEF NoteActivity, At, Points, Sane
<1>2. \A i \in 1..Len(rows) : rows[i] \in Path
  BY ElementOfSeq DEF Inv, TypeOK
<1>3. known' \subseteq Path
  BY <1>1, <1>2 DEF NoteActivity, Inv, TypeOK
<1>4. "create" \in Requests
  BY DEF Requests, Creating
<1> QED
  BY <1>3, <1>4, RunsLocked DEF NoteActivity

(* An address derived from a covered copy of the wallet is about to be inserted. *)
LEMMA DeriveKeeps ==
  ASSUME Inv, NEW t \in Tasks, job[t].at \in Points, NEW doc \in Wallet,
         Covered(doc, PathsIn(rows)), NEW b \in Branches,
         Continue(t, [job[t] EXCEPT !.new = <<NextPath(doc, b)>>,
                                    !.doc = Derive(doc, b), !.at = "insert"]),
         UNCHANGED <<wallet, rows, known, cache, active>>
  PROVE  Inv'
<1> DEFINE paths == <<NextPath(doc, b)>>
           next == Derive(doc, b)
           new == [job[t] EXCEPT !.new = paths, !.doc = next, !.at = "insert"]
<1>1. next \in Wallet /\ paths \in Seq(Path) /\ Covered(next, PathsIn(rows) \cup PathsIn(paths))
  BY DeriveCovered
<1>2. job[t] \in Job
  BY JobOf
<1>3. Continue(t, new)
  OBVIOUS
<1> HIDE DEF paths, next
<1>4. new \in Job /\ new.at = "insert" /\ new.doc = next /\ new.new = paths
  BY <1>1, <1>2 DEF Job, Points
<1> HIDE DEF new
<1>5. Sane(new, rows)
  BY <1>1, <1>4 DEF Sane
<1> QED
  BY <1>3, <1>4, <1>5, GoesOn

LEMMA CreateAddressKeeps ==
  ASSUME Inv, NEW t \in Tasks, CreateAddress(t)
  PROVE  Inv'
<1>1. wallet \in Wallet /\ Covered(wallet, PathsIn(rows)) /\ "main" \in Branches
  BY DEF Inv, TypeOK, Stored, Branches
<1>2. job[t].at \in Points
  BY DEF CreateAddress, AtTurn, At, Points
<1>3. CASE wallet.singleAddress
  <2> DEFINE new == [job[t] EXCEPT !.doc = wallet, !.at = "first"]
  <2>1. new \in Job /\ new.at = "first" /\ new.doc = wallet
    BY <1>1, <1>2, JobOf DEF Job, Points
  <2>2. Continue(t, new)
    BY <1>3 DEF CreateAddress
  <2> HIDE DEF new
  <2>3. Sane(new, rows)
    BY <1>1, <2>1 DEF Sane
  <2> QED
    BY <2>1, <2>2, <2>3, GoesOn DEF CreateAddress
<1>4. CASE ~wallet.singleAddress
  BY <1>1, <1>2, <1>4, DeriveKeeps DEF CreateAddress, DeriveNew
<1> QED
  BY <1>3, <1>4

LEMMA GetFirstAddressKeeps ==
  ASSUME Inv, NEW t \in Tasks, GetFirstAddress(t)
  PROVE  Inv'
<1>1. job[t].at \in Points /\ "main" \in Branches
  BY DEF GetFirstAddress, At, Points, Branches
<1>2. job[t].doc \in Wallet /\ Covered(job[t].doc, PathsIn(rows))
  BY <1>1, JobOf DEF GetFirstAddress, At, Sane
<1> QED
  BY <1>1, <1>2, DeriveKeeps, Answers DEF GetFirstAddress

LEMMA ChangeAddressKeeps ==
  ASSUME Inv, NEW t \in Tasks, ChangeAddress(t)
  PROVE  Inv'
<1>1. wallet \in Wallet /\ Covered(wallet, PathsIn(rows)) /\ "change" \in Branches
  BY DEF Inv, TypeOK, Stored, Branches
<1>2. job[t].at \in Points
  BY DEF ChangeAddress, AtTurn, At, Points
<1> QED
  BY <1>1, <1>2, DeriveKeeps, Answers DEF ChangeAddress, DeriveNew

LEMMA ChangeToAddressKeeps ==
  ASSUME Inv, NEW t \in Tasks, ChangeToAddress(t)
  PROVE  Inv'
<1>1. CASE Answer(t)
  BY <1>1, Answers DEF ChangeToAddress
<1>2. CASE ~Answer(t)
  <2>1. PICK i \in 1..Len(rows) :
          Continue(t, [job[t] EXCEPT !.new = <<rows[i]>>, !.doc = wallet, !.at = "insert"])
    BY <1>2 DEF ChangeToAddress
  <2> DEFINE paths == <<rows[i]>>
             new == [job[t] EXCEPT !.new = paths, !.doc = wallet, !.at = "insert"]
  <2>2. paths \in Seq(Path)
    BY ElementOfSeq DEF Inv, TypeOK
  <2>3. job[t] \in Job /\ wallet \in Wallet /\ Covered(wallet, PathsIn(rows))
    BY JobOf DEF ChangeToAddress, AtTurn, At, Points, Inv, TypeOK, Stored
  <2>4. Continue(t, new)
    BY <2>1
  <2> HIDE DEF paths
  <2>5. new \in Job /\ new.at = "insert" /\ new.doc = wallet /\ new.new = paths
    BY <2>2, <2>3 DEF Job, Points
  <2>6. Covered(wallet, PathsIn(rows) \cup PathsIn(paths))
    BY <2>3 DEF Covered
  <2> HIDE DEF new
  <2>7. Sane(new, rows)
    BY <2>3, <2>5, <2>6 DEF Sane
  <2> QED
    BY <2>4, <2>5, <2>7, GoesOn DEF ChangeToAddress
<1> QED
  BY <1>1, <1>2

-----------------------------------------------------------------------------
(* The one action that adds rows: what was about to be inserted is stored. *)
LEMMA InsertKeeps ==
  ASSUME Inv, NEW t \in Tasks, InsertAddresses(t), Len(rows \o job[t].new) <= MaxRows
  PROVE  Inv'
<1> DEFINE new == [job[t] EXCEPT !.at = "storeWallet"]
           all == rows \o job[t].new
<1>1. job[t] \in Job /\ Sane(job[t], rows) /\ job[t].at = "insert"
  BY JobOf DEF InsertAddresses, At, Points
<1>2. rows \in Seq(Path) /\ job[t].new \in Seq(Path) /\ Len(rows) \in Nat
  BY <1>1, LenProperties DEF Inv, TypeOK, Job
<1>3. /\ all \in Seq(Path) /\ PathsIn(all) = PathsIn(rows) \cup PathsIn(job[t].new)
      /\ Len(rows) <= Len(all) /\ Len(all) \in Nat
  BY <1>2, RowsGrow
<1>4. rows' = all /\ Continue(t, new) /\ UNCHANGED <<wallet, known, cache, active>>
  <2>1. ~(Len(all) > MaxRows)
    BY <1>3, AddressesAssumption
  <2> QED
    BY <2>1 DEF InsertAddresses, GoTo
<1> HIDE DEF all
<1>5. new \in Job /\ new.at = "storeWallet" /\ new.doc = job[t].doc
  BY <1>1 DEF Job, Points
<1>6. Sane(new, all)
  BY <1>1, <1>3, <1>5 DEF Sane
<1>7. job' = [job EXCEPT ![t] = new] /\ UNCHANGED lockVars
  BY <1>4 DEF Continue
<1> HIDE DEF new
<1>8. \A u \in Tasks : Sane(job[u], all)
  BY <1>2, <1>3, SaneGrows DEF Inv
<1>9. \A u \in Tasks : Sane(job'[u], rows')
  BY <1>4, <1>6, <1>7, <1>8 DEF Inv, TypeOK
<1>10. LockTypeOK'
  BY <1>7, LockTyped DEF Inv, TypeOK
<1>11. TypeOK'
  BY <1>4, <1>3, <1>5, <1>7, <1>10 DEF Inv, TypeOK
<1>12. Covered(wallet, PathsIn(rows))
  BY DEF Inv, Stored
<1>13. Covered(wallet, PathsIn(all))
  BY <1>3, <1>12 DEF Covered
<1>14. Covered(wallet', PathsIn(rows'))
  BY <1>4, <1>13
<1> QED
  BY <1>9, <1>11, <1>14 DEF Inv, Stored

LEMMA InsertAddressesKeeps ==
  ASSUME Inv, NEW t \in Tasks, InsertAddresses(t)
  PROVE  Inv'
<1>1. CASE Len(rows \o job[t].new) <= MaxRows
  BY <1>1, InsertKeeps
<1>2. CASE ~(Len(rows \o job[t].new) <= MaxRows) /\ job[t].op # "scan"
  BY <1>2, Answers DEF InsertAddresses
<1>3. CASE ~(Len(rows \o job[t].new) <= MaxRows) /\ job[t].op = "scan"
  <2> DEFINE new == [job[t] EXCEPT !.failed = TRUE, !.at = "finish"]
  <2>1. job[t] \in Job
    BY JobOf DEF InsertAddresses, At, Points
  <2>2. new \in Job /\ new.at = "finish"
    BY <2>1 DEF Job, Points
  <2>3. Continue(t, new) /\ UNCHANGED rows
    BY <1>3 DEF InsertAddresses
  <2> HIDE DEF new
  <2>4. Sane(new, rows)
    BY <2>2 DEF Sane
  <2> QED
    BY <2>2, <2>3, <2>4, GoesOn DEF InsertAddresses
<1> QED
  BY <1>1, <1>2, <1>3

(* Storing the copy of the wallet and going on with the next branch. *)
LEMMA StoresAndScans ==
  ASSUME Inv, NEW t \in Tasks, job[t].at \in {"markRunning", "storeWallet"},
         wallet' = job[t].doc, GoTo(t, "branch"), UNCHANGED <<rows, known, cache, active>>
  PROVE  Inv'
<1> DEFINE new == [job[t] EXCEPT !.at = "branch"]
<1>1. job[t] \in Job /\ Sane(job[t], rows)
  BY JobOf DEF Points
<1>2. job[t].doc \in Wallet /\ Covered(job[t].doc, PathsIn(rows))
  BY <1>1 DEF Sane
<1>3. new \in Job /\ new.at = "branch" /\ new.doc = job[t].doc
  BY <1>1 DEF Job, Points
<1>4. job' = [job EXCEPT ![t] = new] /\ UNCHANGED lockVars
  BY DEF GoTo, Continue
<1> HIDE DEF new
<1>5. Sane(new, rows)
  BY <1>2, <1>3 DEF Sane
<1>6. LockTypeOK'
  BY <1>4, LockTyped DEF Inv, TypeOK
<1> QED
  BY <1>2, <1>3, <1>4, <1>5, <1>6, Stores

LEMMA StoresAndAnswers ==
  ASSUME Inv, NEW t \in Tasks, job[t].at \in {"unmark", "storeWallet"},
         wallet' = job[t].doc, Answer(t), UNCHANGED <<rows, known, cache, active>>
  PROVE  Inv'
<1>1. job[t].doc \in Wallet /\ Covered(job[t].doc, PathsIn(rows))
  BY JobOf DEF Points, Sane
<1> QED
  BY <1>1, AnswerTyped, Stores

LEMMA StoreWalletKeeps ==
  ASSUME Inv, NEW t \in Tasks, StoreWallet(t)
  PROVE  Inv'
BY StoresAndScans, StoresAndAnswers DEF StoreWallet, At

LEMMA MarkRunningKeeps ==
  ASSUME Inv, NEW t \in Tasks, MarkRunning(t)
  PROVE  Inv'
BY StoresAndScans DEF MarkRunning, At

LEMMA MarkSuccessKeeps ==
  ASSUME Inv, NEW t \in Tasks, MarkSuccess(t)
  PROVE  Inv'
BY StoresAndAnswers DEF MarkSuccess, At

(* A copy of the wallet as it is stored, to be written back later. *)
LEMMA CopyKeeps ==
  ASSUME Inv, NEW t \in Tasks, job[t].at \in Points, NEW doc \in Wallet,
         doc.index = wallet.index, NEW at \in {"storeWallet", "markRunning", "unmark"},
         Continue(t, [job[t] EXCEPT !.doc = doc, !.at = at]),
         UNCHANGED <<wallet, rows, known, cache, active>>
  PROVE  Inv'
<1> DEFINE new == [job[t] EXCEPT !.doc = doc, !.at = at]
<1>1. job[t] \in Job
  BY JobOf
<1>2. new \in Job /\ new.at = at /\ new.doc = doc
  BY <1>1 DEF Job, Points
<1>3. Covered(doc, PathsIn(rows))
  BY DEF Inv, Stored, Covered
<1>4. Continue(t, new)
  OBVIOUS
<1> HIDE DEF new
<1>5. Sane(new, rows)
  BY <1>2, <1>3 DEF Sane
<1> QED
  BY <1>2, <1>4, <1>5, GoesOn

LEMMA AddAccessKeeps ==
  ASSUME Inv, NEW t \in Tasks, AddAccess(t)
  PROVE  Inv'
<1>1. job[t].at \in Points /\ wallet \in Wallet
  BY DEF AddAccess, At, Points, Inv, TypeOK
<1> QED
  BY <1>1, CopyKeeps DEF AddAccess

LEMMA ScanKeeps ==
  ASSUME Inv, NEW t \in Tasks, Scan(t)
  PROVE  Inv'
<1> DEFINE doc == [wallet EXCEPT !.scanStatus = "running"]
<1>1. job[t].at \in Points
  BY DEF Scan, AtTurn, At, Points
<1>2. doc \in Wallet /\ doc.index = wallet.index
  BY DEF Inv, TypeOK, Wallet
<1>3. Continue(t, [job[t] EXCEPT !.doc = doc, !.at = "markRunning"])
  BY DEF Scan
<1> HIDE DEF doc
<1> QED
  BY <1>1, <1>2, <1>3, CopyKeeps DEF Scan

LEMMA FinishScanKeeps ==
  ASSUME Inv, NEW t \in Tasks, FinishScan(t)
  PROVE  Inv'
<1> DEFINE doc == [wallet EXCEPT !.scanStatus = "success"]
<1>1. job[t].at \in Points
  BY DEF FinishScan, At, Points
<1>2. doc \in Wallet /\ doc.index = wallet.index
  BY DEF Inv, TypeOK, Wallet
<1>3. Continue(t, [job[t] EXCEPT !.doc = doc, !.at = "unmark"])
  BY DEF FinishScan
<1> HIDE DEF doc
<1> QED
  BY <1>1, <1>2, <1>3, CopyKeeps DEF FinishScan

-----------------------------------------------------------------------------
LEMMA ScanBranchKeeps ==
  ASSUME Inv, NEW t \in Tasks, ScanBranch(t)
  PROVE  Inv'
<1>1. /\ job[t] \in Job /\ job[t].at = "branch" /\ job[t].turn \in 0..2
      /\ job[t].doc \in Wallet /\ Covered(job[t].doc, PathsIn(rows))
  <2>1. job[t] \in Job /\ Sane(job[t], rows) /\ job[t].at = "branch"
    BY JobOf DEF ScanBranch, At, Points
  <2> QED
    BY <2>1 DEF Sane, Job
<1>2. Len(Derivators) = 2 /\ Derivators[1] \in Branches /\ Derivators[2] \in Branches
  BY DEF Derivators, Branches
<1>3. CASE job[t].turn = Len(Derivators)
  <2> DEFINE new == [job[t] EXCEPT !.at = "finish"]
  <2>1. new \in Job /\ new.at = "finish"
    BY <1>1 DEF Job, Points
  <2>2. Continue(t, new)
    BY <1>3 DEF ScanBranch, GoTo
  <2> HIDE DEF new
  <2>3. Sane(new, rows)
    BY <2>1 DEF Sane
  <2> QED
    BY <2>1, <2>2, <2>3, GoesOn DEF ScanBranch
<1>4. CASE job[t].turn # Len(Derivators)
  <2> DEFINE turn == job[t].turn + 1
             branch == Derivators[turn]
             from == job[t].doc.index[branch]
             index == Known(branch, from)
             paths == PathsBetween(branch, from, index)
             doc == [job[t].doc EXCEPT !.index[branch] = index]
             new == [job[t] EXCEPT !.turn = turn, !.inactive = 0, !.at = "probe",
                                   !.new = paths, !.doc = doc]
  <2>1. turn \in {1, 2} /\ branch \in Branches
    BY <1>1, <1>2, <1>4
  <2>2. Continue(t, new)
    BY <1>1, <1>4 DEF ScanBranch, Job
  <2> HIDE DEF turn
  <2>3. from \in Nat
    BY <1>1, <2>1 DEF Wallet
  <2>4. cache[branch] \in Nat
    BY <2>1 DEF Inv, TypeOK
  <2> HIDE DEF branch, from
  <2>5. index \in Nat /\ from <= index
    BY <2>3, <2>4 DEF Known
  <2>6. doc \in Wallet
         /\ \A c \in Branches : doc.index[c] = IF c = branch THEN index ELSE job[t].doc.index[c]
    BY <1>1, <2>1, <2>5, SetIndex
  <2> HIDE DEF index, doc
  <2>7. /\ paths \in Seq(Path) /\ Len(paths) = index - from
        /\ \A k \in 1..Len(paths) : paths[k] = <<branch, from + k - 1>>
    <3>1. \A k \in 1..(index - from) : <<branch, from + k - 1>> \in Path
      BY <2>1, <2>3, <2>5 DEF Path
    <3>2. index - from \in Nat /\ paths \in [1..(index - from) -> Path]
      BY <2>3, <2>5, <3>1 DEF PathsBetween
    <3>3. \A k \in 1..(index - from) : paths[k] = <<branch, from + k - 1>>
      BY DEF PathsBetween
    <3> HIDE DEF paths
    <3> QED
      BY <3>2, <3>3, FunctionIsSeq
  <2> HIDE DEF paths
  <2>8. 0 \in 0..ScanGap /\ turn \in 0..2
    BY <2>1, AddressesAssumption
  <2>9. /\ new \in Job
        /\ new.at = "probe" /\ new.turn = turn /\ new.inactive = 0
        /\ new.new = paths /\ new.doc = doc
    BY <1>1, <2>6, <2>7, <2>8 DEF Job, Points
  <2> HIDE DEF new
  <2>10. ChainAbove(doc, branch, paths, PathsIn(rows))
    <3>1. doc.index[branch] = index
      BY <2>1, <2>6
    <3>2. \A i \in Nat : i < from => <<branch, i>> \in PathsIn(rows)
      BY <1>1, <2>1 DEF Covered, from
    <3>3. \A c \in Branches \ {branch} : \A i \in Nat :
            i < doc.index[c] => <<c, i>> \in PathsIn(rows)
      BY <1>1, <2>6 DEF Covered
    <3>4. \A k \in 1..Len(paths) : paths[k] = <<branch, index - Len(paths) + k - 1>>
      <4>1. index - Len(paths) = from
        BY <2>3, <2>5, <2>7
      <4> QED
        BY <4>1, <2>7
    <3>5. Len(paths) <= index /\ index - Len(paths) = from
      BY <2>3, <2>5, <2>7
    <3> QED
      BY <3>1, <3>2, <3>3, <3>4, <3>5 DEF ChainAbove
  <2>11. Derivators[turn] = branch
    BY DEF branch
  <2>12. 0 <= Len(paths)
    BY <2>3, <2>5, <2>7
  <2>13. Sane(new, rows)
    BY <2>1, <2>6, <2>9, <2>10, <2>11, <2>12 DEF Sane
  <2> QED
    BY <2>2, <2>9, <2>13, GoesOn DEF ScanBranch
<1> QED
  BY <1>3, <1>4

(* What a request that probes a branch has in memory. *)
LEMMA Probing ==
  ASSUME Inv, NEW t \in Tasks, job[t].at \in {"probe", "cacheIndex"}
  PROVE  LET b == Derivators[job[t].turn]
         IN  /\ job[t] \in Job /\ job[t].turn \in {1, 2} /\ b \in Branches
             /\ job[t].doc \in Wallet /\ job[t].doc.index[b] \in Nat
             /\ job[t].new \in Seq(Path) /\ Len(job[t].new) \in Nat
             /\ job[t].inactive \in 0..ScanGap /\ job[t].inactive <= Len(job[t].new)
             /\ ChainAbove(job[t].doc, b, job[t].new, PathsIn(rows))
<1>1. job[t] \in Job /\ Sane(job[t], rows)
  BY JobOf DEF Points
<1>2. job[t].turn \in {1, 2} /\ Derivators[job[t].turn] \in Branches
  BY <1>1 DEF Sane, Derivators, Branches
<1>3. /\ job[t].doc \in Wallet /\ job[t].inactive <= Len(job[t].new)
      /\ ChainAbove(job[t].doc, Derivators[job[t].turn], job[t].new, PathsIn(rows))
  BY <1>1 DEF Sane
<1>4. job[t].new \in Seq(Path) /\ job[t].inactive \in 0..ScanGap
  BY <1>1 DEF Job
<1>5. job[t].doc.index[Derivators[job[t].turn]] \in Nat
  BY <1>2, <1>3 DEF Wallet
<1> QED
  BY <1>1, <1>2, <1>3, <1>4, <1>5, LenProperties

(* One address more at the end of the chain. *)
LEMMA ChainGrows ==
  ASSUME NEW doc \in Wallet, NEW b \in Branches, NEW chain \in Seq(Path), NEW paths,
         ChainAbove(doc, b, chain, paths)
  PROVE  LET more == Append(chain, NextPath(doc, b))
         IN  /\ more \in Seq(Path) /\ Len(more) = Len(chain) + 1
             /\ ChainAbove(Derive(doc, b), b, more, paths)
<1> DEFINE next == Derive(doc, b)
           more == Append(chain, NextPath(doc, b))
           n == Len(chain)
           index == doc.index[b]
<1>1. n \in Nat /\ index \in Nat /\ n <= index
  BY LenProperties DEF Wallet, ChainAbove
<1>2. NextPath(doc, b) = <<b, index>> /\ <<b, index>> \in Path
  BY <1>1 DEF NextPath, Path
<1>3. /\ more \in Seq(Path) /\ Len(more) = n + 1 /\ more[n + 1] = <<b, index>>
      /\ \A k \in 1..n : more[k] = chain[k]
  BY <1>2, AppendProperties
<1>4. next.index[b] = index + 1 /\ \A c \in Branches \ {b} : next.index[c] = doc.index[c]
  BY DeriveMoves
<1>5. \A k \in 1..n : chain[k] = <<b, index - n + k - 1>>
  BY DEF ChainAbove
<1>6. \A i \in Nat : i < index - n => <<b, i>> \in paths
  BY DEF ChainAbove
<1>7. \A c \in Branches \ {b} : \A i \in Nat : i < doc.index[c] => <<c, i>> \in paths
  BY DEF ChainAbove
<1> HIDE DEF next, more, n, index
<1>8. \A k \in 1..(n + 1) : more[k] = <<b, (index + 1) - (n + 1) + k - 1>>
  <2> SUFFICES ASSUME NEW k \in 1..(n + 1)
               PROVE  more[k] = <<b, (index + 1) - (n + 1) + k - 1>>
    OBVIOUS
  <2>1. (index + 1) - (n + 1) + k - 1 = index - n + k - 1
    BY <1>1
  <2>2. CASE k \in 1..n
    BY <1>3, <1>5, <2>1, <2>2
  <2>3. CASE k = n + 1
    <3>1. index - n + k - 1 = index
      BY <1>1, <2>3
    <3> QED
      BY <1>3, <2>1, <2>3, <3>1
  <2>4. k \in 1..n \/ k = n + 1
    BY <1>1
  <2> QED
    BY <2>2, <2>3, <2>4
<1>9. (index + 1) - (n + 1) = index - n /\ n + 1 <= index + 1
  BY <1>1
<1>10. ChainAbove(next, b, more, paths)
  BY <1>3, <1>4, <1>6, <1>7, <1>8, <1>9 DEF ChainAbove
<1> QED
  BY <1>3, <1>10 DEF next, more, n

LEMMA ProbeKeeps ==
  ASSUME Inv, NEW t \in Tasks, Probe(t)
  PROVE  Inv'
<1> DEFINE branch == Derivators[job[t].turn]
           path == NextPath(job[t].doc, branch)
           doc == Derive(job[t].doc, branch)
           paths == Append(job[t].new, path)
           inactive == Quiet(job[t].inactive, path)
           at == IF path \in active THEN "cacheIndex" ELSE job[t].at
           found == [job[t] EXCEPT !.doc = doc, !.new = paths, !.inactive = inactive, !.at = at]
           failed == [job[t] EXCEPT !.failed = TRUE, !.at = "finish"]
<1>1. /\ job[t].at = "probe" /\ job[t].inactive < ScanGap /\ ScanGap \in Nat
      /\ Continue(t, found) \/ Continue(t, failed)
  BY AddressesAssumption DEF Probe, At
<1>2. /\ job[t] \in Job /\ job[t].turn \in {1, 2} /\ branch \in Branches
      /\ job[t].doc \in Wallet /\ job[t].new \in Seq(Path) /\ Len(job[t].new) \in Nat
      /\ job[t].inactive \in 0..ScanGap /\ job[t].inactive <= Len(job[t].new)
      /\ ChainAbove(job[t].doc, branch, job[t].new, PathsIn(rows))
  BY <1>1, Probing
<1>3. CASE Continue(t, failed)
  <2>1. failed \in Job /\ failed.at = "finish"
    BY <1>2 DEF Job, Points
  <2> HIDE DEF failed
  <2>2. Sane(failed, rows)
    BY <2>1 DEF Sane
  <2> QED
    BY <1>3, <2>1, <2>2, GoesOn DEF Probe
<1>4. CASE Continue(t, found)
  <2>1. doc \in Wallet
    BY <1>2, DeriveMoves
  <2>2. /\ paths \in Seq(Path) /\ Len(paths) = Len(job[t].new) + 1
        /\ ChainAbove(doc, branch, paths, PathsIn(rows))
    BY <1>2, ChainGrows
  <2>3. at \in {"probe", "cacheIndex"}
    BY <1>1
  <2>4. inactive \in 0..ScanGap /\ inactive <= Len(paths)
    BY <1>1, <1>2, <2>2 DEF Quiet
  <2> HIDE DEF doc, paths, at, inactive
  <2>5. /\ found \in Job /\ found.turn = job[t].turn
        /\ found.doc = doc /\ found.new = paths /\ found.inactive = inactive /\ found.at = at
    BY <1>2, <2>1, <2>2, <2>3, <2>4 DEF Job, Points
  <2> HIDE DEF found, failed
  <2>6. Sane(found, rows)
    BY <1>2, <2>1, <2>2, <2>3, <2>4, <2>5 DEF Sane
  <2> QED
    BY <1>4, <2>5, <2>6, GoesOn DEF Probe
<1> QED
  BY <1>1, <1>3, <1>4

LEMMA CacheIndexKeeps ==
  ASSUME Inv, NEW t \in Tasks, CacheIndex(t)
  PROVE  Inv'
<1> DEFINE new == [job[t] EXCEPT !.at = "probe"]
<1>1. job[t].at = "cacheIndex"
  BY DEF CacheIndex, At
<1>2. job[t] \in Job /\ Sane(job[t], rows)
  BY <1>1, JobOf DEF Points
<1>3. job[t].doc.index[Derivators[job[t].turn]] \in Nat
  BY <1>1, Probing
<1>4. /\ new \in Job /\ new.at = "probe" /\ new.doc = job[t].doc /\ new.new = job[t].new
      /\ new.turn = job[t].turn /\ new.inactive = job[t].inactive
  BY <1>2 DEF Job, Points
<1>5. job' = [job EXCEPT ![t] = new] /\ UNCHANGED lockVars
  BY DEF CacheIndex, GoTo, Continue
<1> HIDE DEF new
<1>6. Sane(new, rows)
  BY <1>1, <1>2, <1>4 DEF Sane
<1>7. cache' \in [Branches -> Nat]
  BY <1>3 DEF CacheIndex, Inv, TypeOK
<1>8. LockTypeOK' /\ known' \subseteq Path
  BY <1>5, LockTyped DEF CacheIndex, Inv, TypeOK
<1> QED
  BY <1>4, <1>5, <1>6, <1>7, <1>8, Continues DEF CacheIndex

(* The gap is found.  The rewind takes the index back by as many addresses as
   are left out, never below zero, for there are at least that many. *)
LEMMA EndBranchKeeps ==
  ASSUME Inv, NEW t \in Tasks, EndBranch(t)
  PROVE  Inv'
<1> DEFINE branch == Derivators[job[t].turn]
           chain == job[t].new
           n == Len(chain)
           index == job[t].doc.index[branch]
           found == SubSeq(chain, 1, n - ScanGap)
           doc == [job[t].doc EXCEPT !.index[branch] = GapEnd(index)]
           at == IF found = <<>> THEN "branch" ELSE "insert"
           new == [job[t] EXCEPT !.doc = doc, !.new = found, !.at = at]
<1>1. job[t].at = "probe" /\ job[t].inactive = ScanGap /\ ScanGap \in Nat \ {0}
  BY AddressesAssumption DEF EndBranch, At
<1>2. /\ job[t] \in Job /\ branch \in Branches
      /\ job[t].doc \in Wallet /\ index \in Nat /\ chain \in Seq(Path) /\ n \in Nat
      /\ ScanGap <= n /\ ChainAbove(job[t].doc, branch, chain, PathsIn(rows))
  BY <1>1, Probing
<1>3. Continue(t, new)
  BY <1>2 DEF EndBranch, Job
<1>4. /\ n <= index
      /\ \A k \in 1..n : chain[k] = <<branch, index - n + k - 1>>
      /\ \A i \in Nat : i < index - n => <<branch, i>> \in PathsIn(rows)
      /\ \A c \in Branches \ {branch} : \A i \in Nat :
           i < job[t].doc.index[c] => <<c, i>> \in PathsIn(rows)
  BY <1>2 DEF ChainAbove
<1>5. n - ScanGap \in 0..n
  BY <1>1, <1>2
<1>6. /\ found \in Seq(Path) /\ Len(found) = n - ScanGap
      /\ \A k \in 1..(n - ScanGap) : found[k] = chain[k]
  <2>1. \A k \in 1..(n - ScanGap) : chain[k] \in Path
    BY <1>2, <1>5, ElementOfSeq
  <2>2. found = [k \in 1..(n - ScanGap) |-> chain[k]]
    BY <1>2, <1>5
  <2>3. found \in [1..(n - ScanGap) -> Path] /\ \A k \in 1..(n - ScanGap) : found[k] = chain[k]
    BY <2>1, <2>2
  <2> HIDE DEF found
  <2> QED
    BY <1>5, <2>3, FunctionIsSeq
<1>7. GapEnd(index) = index - ScanGap /\ index - ScanGap \in Nat
  <2> HIDE DEF branch, chain, n, index
  <2> QED
    BY <1>1, <1>2, <1>4 DEF GapEnd
<1>8. doc \in Wallet
      /\ \A c \in Branches : doc.index[c] = IF c = branch THEN index - ScanGap
                                            ELSE job[t].doc.index[c]
  <2> HIDE DEF branch, index
  <2> QED
    BY <1>2, <1>7, SetIndex
<1>9. at \in {"branch", "insert"} /\ (at = "branch" => found = <<>>)
  OBVIOUS
<1> HIDE DEF branch, chain, n, index, found, doc, at
<1>10. /\ new \in Job /\ new.at = at /\ new.doc = doc /\ new.new = found
  BY <1>2, <1>6, <1>8, <1>9 DEF Job, Points
<1> HIDE DEF new
<1>11. \A i \in Nat : i < index - ScanGap =>
         \/ i < index - n
         \/ \E k \in 1..(n - ScanGap) : i = index - n + k - 1
  <2> SUFFICES ASSUME NEW i \in Nat, i < index - ScanGap, ~(i < index - n)
               PROVE  \E k \in 1..(n - ScanGap) : i = index - n + k - 1
    OBVIOUS
  <2> DEFINE k == i - index + n + 1
  <2>1. k \in 1..(n - ScanGap) /\ i = index - n + k - 1
    BY <1>1, <1>2, <1>4, <1>5
  <2> QED
    BY <2>1
<1>12. \A k \in 1..(n - ScanGap) : <<branch, index - n + k - 1>> \in PathsIn(found)
  <2> SUFFICES ASSUME NEW k \in 1..(n - ScanGap)
               PROVE  <<branch, index - n + k - 1>> \in PathsIn(found)
    OBVIOUS
  <2>1. k \in 1..n
    BY <1>1, <1>2, <1>5
  <2>2. found[k] = <<branch, index - n + k - 1>>
    BY <1>4, <1>6, <2>1
  <2> QED
    BY <1>6, <2>2 DEF PathsIn
<1>13. Covered(doc, PathsIn(rows) \cup PathsIn(found))
  <2> SUFFICES ASSUME NEW c \in Branches, NEW i \in Nat, i < doc.index[c]
               PROVE  <<c, i>> \in PathsIn(rows) \cup PathsIn(found)
    BY DEF Covered
  <2>1. CASE c = branch
    <3>1. i < index - ScanGap
      BY <1>8, <2>1
    <3>2. CASE i < index - n
      BY <1>4, <2>1, <3>2
    <3>3. CASE \E k \in 1..(n - ScanGap) : i = index - n + k - 1
      BY <1>12, <2>1, <3>3
    <3> QED
      BY <1>11, <3>1, <3>2, <3>3
  <2>2. CASE c # branch
    BY <1>4, <1>8, <2>2
  <2> QED
    BY <2>1, <2>2
<1>14. found = <<>> => PathsIn(found) = {}
  BY EmptySeq DEF PathsIn
<1>15. Sane(new, rows)
  <2>1. CASE at = "branch"
    <3>1. Covered(doc, PathsIn(rows))
      BY <1>9, <1>13, <1>14, <2>1 DEF Covered
    <3> QED
      BY <1>8, <1>10, <2>1, <3>1 DEF Sane
  <2>2. CASE at = "insert"
    BY <1>8, <1>10, <1>13, <2>2 DEF Sane
  <2> QED
    BY <1>9, <2>1, <2>2
<1> QED
  BY <1>3, <1>10, <1>15, GoesOn DEF EndBranch

-----------------------------------------------------------------------------
(* The invariant holds at first, whatever the constants are. *)
LEMMA InvInit == Init => Inv
<1> SUFFICES ASSUME Init PROVE Inv
  OBVIOUS
<1>1. /\ wallet \in Wallet /\ \A b \in Branches : wallet.index[b] = 0
      /\ rows = <<>> /\ known = {} /\ active \subseteq Payable
      /\ job = [t \in Tasks |-> Idle]
  BY DEF Init, Wallet
<1>2. rows \in Seq(Path)
  BY <1>1, EmptySeq
<1>3. cache \in [Branches -> Nat]
  BY DEF Init
<1>4. LockTypeOK
  BY DEF Init, LockInit, LockTypeOK
<1>5. TypeOK
  BY <1>1, <1>2, <1>3, <1>4 DEF TypeOK
<1>6. \A t \in Tasks : Sane(job[t], rows)
  BY <1>1, IdleSane
<1>7. Covered(wallet, Stored)
  BY <1>1 DEF Covered
<1> QED
  BY <1>5, <1>6, <1>7 DEF Inv

(* Every step keeps it: one lemma for each action. *)
LEMMA InvNext == Inv /\ [Next]_vars => Inv'
<1> SUFFICES ASSUME Inv, [Next]_vars PROVE Inv'
  OBVIOUS
<1>1. ASSUME NEW t \in Tasks, NEW op \in Ops, Arrive(t, op) PROVE Inv'
  BY <1>1, ArriveKeeps
<1>2. ASSUME NEW t \in Tasks, Serve(t) PROVE Inv'
  BY <1>2, CheckGapKeeps, CheckActivityKeeps, NoteActivityKeeps, CreateAddressKeeps,
     GetFirstAddressKeeps, ChangeAddressKeeps, ChangeToAddressKeeps, InsertAddressesKeeps,
     StoreWalletKeeps, AddAccessKeeps, ScanKeeps, MarkRunningKeeps, ScanBranchKeeps,
     ProbeKeeps, CacheIndexKeeps, EndBranchKeeps, FinishScanKeeps, MarkSuccessKeeps
     DEF Serve
<1>3. ASSUME NEW t \in Tasks, Busy(t) PROVE Inv'
  BY <1>3, BusyKeeps
<1>4. ASSUME NEW t \in Tasks, LockExpires(t) PROVE Inv'
  BY <1>4, LockExpiresKeeps
<1>5. ASSUME NEW t \in Tasks, Crash(t) PROVE Inv'
  BY <1>5, CrashKeeps
<1>6. ASSUME NEW path \in Payable, Pay(path) PROVE Inv'
  BY <1>6, PayKeeps
<1>7. CASE UNCHANGED vars
  BY <1>7 DEF vars, lockVars, LockTypeOK, Inv, TypeOK, Stored, Covered
<1> QED
  BY <1>1, <1>2, <1>3, <1>4, <1>5, <1>6, <1>7 DEF Next

(* Whatever overlaps or fails, what is in the memory of a request is sane. *)
THEOREM Invariance == Spec => []Inv
BY InvInit, InvNext, PTL DEF Spec

(* The wallet, the rows, the index cache and the memory of the requests keep
   their types, with any number of requests in flight. *)
THEOREM TypeCorrect == Spec => []TypeOK
<1>1. Inv => TypeOK
  BY DEF Inv
<1> QED
  BY <1>1, Invariance, PTL

(* No address is ever skipped: what is below the index of a branch is stored,
   whoever writes the wallet over, wherever a process dies, an insert or the
   explorer fails, or the lock expires. *)
THEOREM NoAddressSkipped == Spec => []IndexBehindRows
<1>1. Inv => IndexBehindRows
  <2> SUFFICES ASSUME Inv, NEW b \in Branches, NEW i \in 0..(wallet.index[b] - 1)
               PROVE  <<b, i>> \in Stored
    BY DEF IndexBehindRows
  <2>1. wallet.index[b] \in Nat /\ Covered(wallet, Stored)
    BY DEF Inv, TypeOK, Wallet
  <2>2. i \in Nat /\ i < wallet.index[b]
    BY <2>1
  <2> QED
    BY <2>1, <2>2 DEF Covered
<1> QED
  BY <1>1, Invariance, PTL

-----------------------------------------------------------------------------
(* The requests that write the wallet under its lock, which nobody loses: no
   addAccess, no change address that is inserted a second time, no process
   that dies and no handler that holds the lock for five minutes. *)
UnderLock ==
  /\ Ops \cap {"access", "changeTo"} = {}
  /\ Faults \cap {"expiry", "crash"} = {}

(* The points between the turn of a request and its answer. *)
Held == {"first", "markRunning", "branch", "probe", "cacheIndex", "insert",
         "storeWallet", "finish", "unmark"}

Scanning == {"markRunning", "branch", "probe", "cacheIndex", "finish", "unmark"}

Stages(j) ==
  /\ j.op \in Ops \cup {"none"}
  /\ j.at = "fetch" => j.op = "access"
  /\ j.at \in Scanning => j.op = "scan"
  /\ j.at = "first" => j.op # "scan"
  /\ j.at \in {"gap", "activity", "note"} => j.op = "create"

(* Who is past its turn holds the lock, who is in line waits for its turn. *)
TurnsKept ==
  /\ overdue = {} /\ holder \notin waiting
  /\ \A t \in Tasks : job[t].at \in Held => t = holder
  /\ \A t \in Tasks : t \in waiting => job[t].at = "locked"
  /\ \A t \in Tasks : job[t].at = "locked" => t \in waiting \cup {holder}
  /\ \A t \in Tasks : t = holder => job[t].at \in Held \cup {"locked"}

(* The rows are the addresses before the indexes of doc. *)
Matches(doc, list) ==
  \A b \in Branches : \A i \in Nat : <<b, i>> \in PathsIn(list) <=> i < doc.index[b]

Rising(list) ==
  \A i, j \in 1..Len(list) : i < j /\ list[i][1] = list[j][1] => list[i][2] < list[j][2]

SameIndex(doc, old) == \A b \in Branches : doc.index[b] = old.index[b]

(* The new addresses are those that doc has beyond the stored wallet. *)
Beyond(doc, b, new, old) ==
  /\ doc.index[b] = old.index[b] + Len(new)
  /\ \A k \in 1..Len(new) : new[k] = <<b, old.index[b] + k - 1>>
  /\ \A c \in Branches \ {b} : doc.index[c] = old.index[c]

(* What whoever holds the lock has in memory. *)
Exact(j, old, list) ==
  /\ j.at \in {"first", "markRunning", "branch", "unmark"} => SameIndex(j.doc, old)
  /\ j.at \in {"probe", "cacheIndex"} => Beyond(j.doc, Derivators[j.turn], j.new, old)
  /\ j.at = "insert" => \E b \in Branches : Beyond(j.doc, b, j.new, old)
  /\ j.at = "storeWallet" => Matches(j.doc, list)

SettledInv ==
  /\ Inv
  /\ \A t \in Tasks : Stages(job[t])
  /\ TurnsKept
  /\ \A t \in Tasks : Exact(job[t], wallet, rows)
  /\ Rising(rows)
  /\ (\A t \in Tasks : job[t].at # "storeWallet") => Matches(wallet, rows)

(* No used address from the index on, within the gap. *)
Unused(b, doc) ==
  \A i \in Nat : doc.index[b] <= i /\ i < doc.index[b] + ScanGap => <<b, i>> \notin active

(* Every answer of the explorer came, and stays true. *)
Asked(j) == ~j.failed /\ "payments" \notin Faults

(* What a scan knows of the branches it is through with, and of the last
   addresses it has asked about. *)
Searched(j, old) ==
  j.op = "scan" /\ Asked(j) =>
    /\ j.at \in {"locked", "markRunning"} => j.turn = 0
    /\ j.at \in {"branch", "insert", "storeWallet"} =>
         \A k \in 1..j.turn : Unused(Derivators[k], j.doc)
    /\ j.at \in {"probe", "cacheIndex"} =>
         /\ j.turn = 2 => Unused(Derivators[1], j.doc)
         /\ LET b == Derivators[j.turn]
            IN  \A i \in Nat : j.doc.index[b] - j.inactive <= i /\ i < j.doc.index[b]
                                 => <<b, i>> \notin active
    /\ j.at = "finish" => \A b \in Branches : Unused(b, old)
    /\ j.at = "unmark" => \A b \in Branches : Unused(b, j.doc)

SearchInv ==
  /\ SettledInv
  /\ \A t \in Tasks : Searched(job[t], wallet)

-----------------------------------------------------------------------------
LEMMA IdleOutside == Idle.at = "idle" /\ Idle.op = "none"
BY DEF Idle

LEMMA Changed ==
  ASSUME Inv, NEW t \in Tasks, NEW new, job' = [job EXCEPT ![t] = new]
  PROVE  \A u \in Tasks : job'[u] = IF u = t THEN new ELSE job[u]
BY DEF Inv, TypeOK

(* The turns, by what a request does with the lock. *)
LEMMA TurnsContinue ==
  ASSUME SettledInv, NEW t \in Tasks, NEW new, job' = [job EXCEPT ![t] = new],
         UNCHANGED lockVars,
         \/ t = holder /\ new.at \in Held
         \/ job[t].at \notin Held \cup {"locked"} /\ new.at \notin Held \cup {"locked"}
  PROVE  TurnsKept'
<1>1. \A u \in Tasks : job'[u] = IF u = t THEN new ELSE job[u]
  BY Changed DEF SettledInv
<1>2. "locked" \notin Held
  BY DEF Held
<1> QED
  BY <1>1, <1>2 DEF SettledInv, TurnsKept, lockVars

LEMMA TurnsRequest ==
  ASSUME SettledInv, NEW t \in Tasks, NEW new, job' = [job EXCEPT ![t] = new],
         Request(t), job[t].at \notin Held \cup {"locked"}, new.at = "locked"
  PROVE  TurnsKept'
<1>1. \A u \in Tasks : job'[u] = IF u = t THEN new ELSE job[u]
  BY DEF SettledInv, Inv, TypeOK
<1>2. "locked" \notin Held
  BY DEF Held
<1>3. TurnsKept /\ holder \in Tasks \cup {None} /\ None \notin Tasks
  BY WalletLockAssumption DEF SettledInv, Inv, TypeOK, LockTypeOK
<1>4. CASE holder = None
  <2>1. waiting' = waiting /\ holder' = t /\ overdue' = {} /\ t \notin waiting
    BY <1>3, <1>4 DEF Request, TurnsKept
  <2> QED
    BY <1>1, <1>2, <1>3, <1>4, <2>1 DEF TurnsKept
<1>5. CASE holder # None
  <2>1. waiting' = waiting \cup {t} /\ holder' = holder /\ overdue' = {} /\ t # holder
    BY <1>3, <1>5 DEF Request, TurnsKept
  <2> QED
    BY <1>1, <1>2, <1>3, <2>1 DEF TurnsKept
<1> QED
  BY <1>4, <1>5

LEMMA TurnsAnswer ==
  ASSUME SettledInv, NEW t \in Tasks, Answer(t)
  PROVE  TurnsKept' /\ (t = holder \/ UNCHANGED lockVars)
<1>1. \A u \in Tasks : job'[u] = IF u = t THEN Idle ELSE job[u]
  BY Changed DEF SettledInv, Answer
<1>2. "locked" \notin Held /\ Idle.at \notin Held \cup {"locked"}
  BY IdleOutside DEF Held
<1>3. TurnsKept /\ holder \in Tasks \cup {None} /\ None \notin Tasks /\ waiting \subseteq Tasks
  BY WalletLockAssumption DEF SettledInv, Inv, TypeOK, LockTypeOK
<1>4. CASE Locks(t)
  <2>1. t = holder /\ HandOver /\ overdue' = {}
    BY <1>3, <1>4 DEF Answer, Unlock, Release, ReleaseLate, TurnsKept
  <2>2. CASE waiting = {}
    <3>1. holder' = None /\ waiting' = {}
      BY <2>1, <2>2 DEF HandOver
    <3> QED
      BY <1>1, <1>2, <1>3, <2>1, <2>2, <3>1 DEF TurnsKept
  <2>3. CASE waiting # {}
    <3>1. PICK w \in waiting : holder' = w /\ waiting' = waiting \ {w}
      BY <2>1, <2>3 DEF HandOver
    <3> QED
      BY <1>1, <1>2, <1>3, <2>1, <3>1 DEF TurnsKept
  <2> QED
    BY <2>1, <2>2, <2>3
<1>5. CASE ~Locks(t)
  <2>1. t # holder /\ t \notin waiting /\ UNCHANGED <<holder, waiting, overdue>>
    BY <1>5 DEF Locks, Answer, Unlock, lockVars
  <2> QED
    BY <1>1, <1>2, <1>3, <2>1 DEF TurnsKept, lockVars
<1> QED
  BY <1>4, <1>5

LEMMA TurnsBusy ==
  ASSUME SettledInv, NEW t \in Tasks, Busy(t)
  PROVE  TurnsKept'
<1>1. \A u \in Tasks : job'[u] = IF u = t THEN Idle ELSE job[u]
  BY Changed DEF SettledInv, Busy
<1>2. "locked" \notin Held /\ Idle.at \notin Held \cup {"locked"}
  BY IdleOutside DEF Held
<1>3. t \in waiting /\ waiting' = waiting \ {t} /\ UNCHANGED <<holder, overdue>>
  BY DEF Busy, GiveUp
<1> QED
  BY <1>1, <1>2, <1>3 DEF SettledInv, TurnsKept

(* Whoever is not past its turn has nothing that could be out of date. *)
LEMMA OutsideExact ==
  ASSUME NEW j, j.at \notin Held, NEW old, NEW list
  PROVE  Exact(j, old, list)
BY DEF Exact, Held

(* A step that stores nothing. *)
LEMMA StillExact ==
  ASSUME SettledInv, Inv', NEW t \in Tasks, NEW new, job' = [job EXCEPT ![t] = new],
         UNCHANGED <<wallet, rows>>, TurnsKept', Stages(new), Exact(new, wallet, rows),
         job[t].at # "storeWallet", new.at # "storeWallet"
  PROVE  SettledInv'
<1>1. \A u \in Tasks : job'[u] = IF u = t THEN new ELSE job[u]
  BY Changed DEF SettledInv
<1>2. (\A u \in Tasks : Stages(job'[u])) /\ \A u \in Tasks : Exact(job'[u], wallet', rows')
  BY <1>1 DEF SettledInv
<1>3. Rising(rows')
  BY DEF SettledInv
<1>4. (\A u \in Tasks : job'[u].at # "storeWallet") => Matches(wallet', rows')
  BY <1>1 DEF SettledInv
<1> QED
  BY <1>2, <1>3, <1>4 DEF SettledInv, Stages

LEMMA IdleStages == Stages(Idle)
BY DEF Stages, Idle, Scanning

LEMMA AnswersExact ==
  ASSUME SettledInv, Inv', NEW t \in Tasks, Answer(t), UNCHANGED <<wallet, rows>>,
         job[t].at # "storeWallet"
  PROVE  SettledInv'
<1>1. job' = [job EXCEPT ![t] = Idle] /\ TurnsKept'
  BY TurnsAnswer DEF Answer
<1>2. Idle.at # "storeWallet" /\ Exact(Idle, wallet, rows)
  BY IdleOutside, OutsideExact DEF Held
<1> QED
  BY <1>1, <1>2, IdleStages, StillExact

LEMMA RunsExact ==
  ASSUME SettledInv, Inv', NEW t \in Tasks, NEW op \in Ops, RunLocked(t, op),
         UNCHANGED <<wallet, rows>>, job[t].at \notin Held \cup {"locked"}
  PROVE  SettledInv'
<1> DEFINE new == [Idle EXCEPT !.op = op, !.at = "locked"]
<1>1. job' = [job EXCEPT ![t] = new] /\ Request(t)
  BY DEF RunLocked
<1>2. new.at = "locked" /\ new.op = op
  BY DEF Idle
<1> HIDE DEF new
<1>3. TurnsKept'
  BY <1>1, <1>2, TurnsRequest
<1>4. Stages(new)
  BY <1>2 DEF Stages, Scanning
<1>5. Exact(new, wallet, rows) /\ job[t].at # "storeWallet"
  BY <1>2, OutsideExact DEF Held
<1> QED
  BY <1>1, <1>2, <1>3, <1>4, <1>5, StillExact

LEMMA GoesOnExact ==
  ASSUME SettledInv, Inv', NEW t \in Tasks, NEW new, Continue(t, new), UNCHANGED <<wallet, rows>>,
         \/ t = holder /\ new.at \in Held
         \/ job[t].at \notin Held \cup {"locked"} /\ new.at \notin Held \cup {"locked"},
         Stages(new), new.at \in Held => Exact(new, wallet, rows),
         job[t].at # "storeWallet", new.at # "storeWallet"
  PROVE  SettledInv'
<1>1. job' = [job EXCEPT ![t] = new] /\ UNCHANGED lockVars
  BY DEF Continue
<1>2. Exact(new, wallet, rows)
  BY OutsideExact
<1> QED
  BY <1>1, <1>2, TurnsContinue, StillExact

-----------------------------------------------------------------------------
LEMMA AtItsTurn ==
  ASSUME SettledInv, NEW t \in Tasks, NEW ops, AtTurn(t, ops)
  PROVE  t = holder /\ job[t].at = "locked" /\ job[t].op \in ops
BY DEF SettledInv, TurnsKept, AtTurn, At, HasTurn

(* Between its turn and the storing of the wallet, a request sees them agree. *)
LEMMA HeldMatches ==
  ASSUME SettledInv, NEW t \in Tasks, t = holder, job[t].at # "storeWallet"
  PROVE  Matches(wallet, rows)
BY DEF SettledInv, TurnsKept, Held

LEMMA DeriveBeyond ==
  ASSUME NEW doc \in Wallet, NEW old, SameIndex(doc, old), NEW b \in Branches
  PROVE  Beyond(Derive(doc, b), b, <<NextPath(doc, b)>>, old)
<1> DEFINE next == Derive(doc, b)
<1>1. \A c \in Branches : next.index[c] = IF c = b THEN doc.index[c] + 1 ELSE doc.index[c]
  BY DeriveMoves
<1>2. /\ Len(<<NextPath(doc, b)>>) = 1
      /\ \A k \in 1..1 : k = 1 /\ <<NextPath(doc, b)>>[k] = NextPath(doc, b)
  OBVIOUS
<1>3. NextPath(doc, b) = <<b, doc.index[b]>> /\ doc.index[b] \in Nat
  BY DEF NextPath, Wallet
<1>4. doc.index[b] + 1 - 1 = doc.index[b]
  BY <1>3
<1> HIDE DEF next
<1> DEFINE one == <<NextPath(doc, b)>>
<1>5. Len(one) = 1 /\ \A k \in 1..1 : k = 1 /\ one[k] = <<b, doc.index[b]>>
  BY <1>2, <1>3
<1> HIDE DEF one
<1>6. Beyond(next, b, one, old)
  BY <1>1, <1>4, <1>5 DEF Beyond, SameIndex
<1> QED
  BY <1>6 DEF next, one

(* The one address that createAddress or createTx derives. *)
LEMMA DeriveExact ==
  ASSUME SettledInv, Inv', NEW t \in Tasks, t = holder, job[t] \in Job,
         job[t].at # "storeWallet", NEW doc \in Wallet, SameIndex(doc, wallet),
         NEW b \in Branches,
         Continue(t, [job[t] EXCEPT !.new = <<NextPath(doc, b)>>,
                                    !.doc = Derive(doc, b), !.at = "insert"]),
         UNCHANGED <<wallet, rows>>
  PROVE  SettledInv'
<1> DEFINE paths == <<NextPath(doc, b)>>
           next == Derive(doc, b)
           new == [job[t] EXCEPT !.new = paths, !.doc = next, !.at = "insert"]
<1>1. Beyond(next, b, paths, wallet)
  BY DeriveBeyond
<1> HIDE DEF paths, next
<1>2. new.at = "insert" /\ new.doc = next /\ new.new = paths /\ new.op = job[t].op
  BY DEF Job
<1>3. Continue(t, new)
  BY DEF paths, next
<1> HIDE DEF new
<1>4. Exact(new, wallet, rows)
  BY <1>1, <1>2 DEF Exact
<1>5. Stages(new)
  BY <1>2 DEF SettledInv, Stages, Scanning
<1>6. new.at \in Held
  BY <1>2 DEF Held
<1> QED
  BY <1>2, <1>3, <1>4, <1>5, <1>6, GoesOnExact

LEMMA ArriveExact ==
  ASSUME UnderLock, SettledInv, Inv', NEW t \in Tasks, NEW op \in Ops, Arrive(t, op)
  PROVE  SettledInv'
<1>1. op # "access" /\ job[t] = Idle /\ job[t].at \notin Held \cup {"locked", "storeWallet"}
  BY IdleOutside DEF UnderLock, Arrive, Held
<1>2. CASE op = "create"
  <2> DEFINE new == [Idle EXCEPT !.op = op, !.at = "gap"]
  <2>1. Continue(t, new)
    BY <1>2 DEF Arrive
  <2>2. new.at = "gap" /\ new.op = op
    BY DEF Idle
  <2> HIDE DEF new
  <2>3. Stages(new)
    BY <1>2, <2>2 DEF Stages, Scanning
  <2> QED
    BY <1>1, <2>1, <2>2, <2>3, GoesOnExact DEF Arrive, Held
<1>3. CASE op # "create"
  BY <1>1, <1>3, RunsExact DEF Arrive
<1> QED
  BY <1>2, <1>3

LEMMA BusyExact ==
  ASSUME SettledInv, Inv', NEW t \in Tasks, Busy(t)
  PROVE  SettledInv'
<1>1. job' = [job EXCEPT ![t] = Idle] /\ UNCHANGED <<wallet, rows>> /\ job[t].at = "locked"
  BY DEF Busy, GiveUp, SettledInv, TurnsKept
<1>2. Idle.at # "storeWallet" /\ Exact(Idle, wallet, rows)
  BY IdleOutside, OutsideExact DEF Held
<1> QED
  BY <1>1, <1>2, IdleStages, TurnsBusy, StillExact

LEMMA PayExact ==
  ASSUME SettledInv, Inv', NEW path \in Payable, Pay(path)
  PROVE  SettledInv'
<1>1. UNCHANGED <<wallet, rows, job, holder, waiting, overdue>>
  BY DEF Pay, lockVars
<1> QED
  BY <1>1 DEF SettledInv, TurnsKept

LEMMA CheckGapExact ==
  ASSUME SettledInv, Inv', NEW t \in Tasks, CheckGap(t)
  PROVE  SettledInv'
<1>1. /\ job[t].at = "gap" /\ job[t].op = "create" /\ "create" \in Ops
      /\ job[t].at \notin Held \cup {"locked", "storeWallet"} /\ job[t] \in Job
      /\ UNCHANGED <<wallet, rows>>
  BY JobOf DEF CheckGap, At, SettledInv, Stages, Held, Points
<1>2. CASE RunLocked(t, "create")
  BY <1>1, <1>2, RunsExact
<1>3. CASE ~RunLocked(t, "create")
  <2> DEFINE latest == Latest(MaxGap)
             new == [job[t] EXCEPT !.todo = latest, !.at = "activity"]
  <2>1. Continue(t, new)
    BY <1>3 DEF CheckGap
  <2> HIDE DEF latest
  <2>2. new.at = "activity" /\ new.op = "create"
    BY <1>1 DEF Job
  <2> HIDE DEF new
  <2>3. Stages(new)
    BY <1>1, <2>2 DEF Stages, Scanning
  <2> QED
    BY <1>1, <2>1, <2>2, <2>3, GoesOnExact DEF Held
<1> QED
  BY <1>2, <1>3

LEMMA CheckActivityExact ==
  ASSUME SettledInv, Inv', NEW t \in Tasks, CheckActivity(t)
  PROVE  SettledInv'
<1>1. /\ job[t].at = "activity" /\ job[t].op = "create" /\ "create" \in Ops
      /\ job[t].at \notin Held \cup {"locked", "storeWallet"} /\ job[t] \in Job
      /\ UNCHANGED <<wallet, rows>>
  BY JobOf DEF CheckActivity, At, SettledInv, Stages, Held, Points
<1>2. CASE Answer(t)
  BY <1>1, <1>2, AnswersExact
<1>3. CASE ~Answer(t)
  <2>1. PICK i \in job[t].todo :
          Continue(t, [job[t] EXCEPT
            !.todo = IF rows[i] \in active THEN {i} ELSE @ \ {i},
            !.at = IF rows[i] \in active THEN "note" ELSE @])
    BY <1>3 DEF CheckActivity
  <2> DEFINE todo == IF rows[i] \in active THEN {i} ELSE job[t].todo \ {i}
             at == IF rows[i] \in active THEN "note" ELSE job[t].at
             new == [job[t] EXCEPT !.todo = todo, !.at = at]
  <2>2. Continue(t, new)
    BY <2>1
  <2>3. at \in {"note", "activity"}
    BY <1>1
  <2> HIDE DEF todo, at
  <2>4. new.at = at /\ new.op = "create"
    BY <1>1 DEF Job
  <2> HIDE DEF new
  <2>5. Stages(new)
    BY <1>1, <2>3, <2>4 DEF Stages, Scanning
  <2>6. new.at \notin Held \cup {"locked", "storeWallet"}
    BY <2>3, <2>4 DEF Held
  <2> QED
    BY <1>1, <2>2, <2>5, <2>6, GoesOnExact
<1> QED
  BY <1>2, <1>3

LEMMA NoteActivityExact ==
  ASSUME SettledInv, Inv', NEW t \in Tasks, NoteActivity(t)
  PROVE  SettledInv'
<1>1. /\ "create" \in Ops /\ job[t].at \notin Held \cup {"locked"} /\ UNCHANGED <<wallet, rows>>
      /\ RunLocked(t, "create")
  <2>1. job[t].at = "note"
    BY DEF NoteActivity, At
  <2>2. job[t].op = "create" /\ job[t].op \in Ops \cup {"none"}
    BY <2>1 DEF SettledInv, Stages
  <2> QED
    BY <2>1, <2>2 DEF NoteActivity, Held
<1> QED
  BY <1>1, RunsExact

LEMMA CreateAddressExact ==
  ASSUME SettledInv, Inv', NEW t \in Tasks, CreateAddress(t)
  PROVE  SettledInv'
<1>1. /\ t = holder /\ job[t].at = "locked" /\ job[t].op \in Creating /\ job[t] \in Job
      /\ UNCHANGED <<wallet, rows>> /\ "main" \in Branches
      /\ wallet \in Wallet /\ SameIndex(wallet, wallet)
  <2>1. t = holder /\ job[t].at = "locked" /\ job[t].op \in Creating
    BY AtItsTurn DEF CreateAddress
  <2> QED
    BY <2>1, JobOf DEF CreateAddress, SettledInv, Inv, TypeOK, SameIndex, Branches, Points
<1>2. CASE wallet.singleAddress
  <2> DEFINE new == [job[t] EXCEPT !.doc = wallet, !.at = "first"]
  <2>1. Continue(t, new)
    BY <1>2 DEF CreateAddress
  <2>2. new.at = "first" /\ new.doc = wallet /\ new.op = job[t].op
    BY <1>1 DEF Job
  <2> HIDE DEF new
  <2>3. Stages(new)
    BY <1>1, <2>2 DEF SettledInv, Stages, Scanning, Creating
  <2>4. Exact(new, wallet, rows) /\ new.at \in Held
    BY <1>1, <2>2 DEF Exact, Held
  <2> QED
    BY <1>1, <2>1, <2>2, <2>3, <2>4, GoesOnExact
<1>3. CASE ~wallet.singleAddress
  BY <1>1, <1>3, DeriveExact DEF CreateAddress, DeriveNew
<1> QED
  BY <1>2, <1>3

LEMMA GetFirstAddressExact ==
  ASSUME SettledInv, Inv', NEW t \in Tasks, GetFirstAddress(t)
  PROVE  SettledInv'
<1>1. /\ job[t].at = "first" /\ t = holder /\ job[t] \in Job /\ "main" \in Branches
      /\ job[t].doc \in Wallet /\ SameIndex(job[t].doc, wallet) /\ UNCHANGED <<wallet, rows>>
  <2>1. job[t].at = "first" /\ UNCHANGED <<wallet, rows>>
    BY DEF GetFirstAddress, At
  <2>2. t = holder /\ SameIndex(job[t].doc, wallet)
    BY <2>1 DEF SettledInv, TurnsKept, Held, Exact
  <2> QED
    BY <2>1, <2>2, JobOf DEF SettledInv, Sane, Points, Branches
<1> QED
  BY <1>1, DeriveExact, AnswersExact DEF GetFirstAddress

LEMMA ChangeAddressExact ==
  ASSUME SettledInv, Inv', NEW t \in Tasks, ChangeAddress(t)
  PROVE  SettledInv'
<1>1. /\ t = holder /\ job[t].at = "locked" /\ job[t] \in Job
      /\ UNCHANGED <<wallet, rows>> /\ "change" \in Branches
      /\ wallet \in Wallet /\ SameIndex(wallet, wallet)
  <2>1. t = holder /\ job[t].at = "locked"
    BY AtItsTurn DEF ChangeAddress
  <2> QED
    BY <2>1, JobOf DEF ChangeAddress, SettledInv, Inv, TypeOK, SameIndex, Branches, Points
<1> QED
  BY <1>1, DeriveExact, AnswersExact DEF ChangeAddress, DeriveNew

-----------------------------------------------------------------------------
(* The rows follow the indexes when the new addresses are inserted. *)
LEMMA InsertMatches ==
  ASSUME NEW old \in Wallet, NEW list \in Seq(Path), Matches(old, list), Rising(list),
         NEW doc \in Wallet, NEW b \in Branches, NEW new \in Seq(Path),
         Beyond(doc, b, new, old)
  PROVE  Matches(doc, list \o new) /\ Rising(list \o new)
<1> DEFINE n == Len(list)
           m == Len(new)
           all == list \o new
           from == old.index[b]
<1>1. /\ n \in Nat /\ m \in Nat /\ from \in Nat /\ doc.index[b] = from + m
      /\ \A k \in 1..m : new[k] = <<b, from + k - 1>>
      /\ \A c \in Branches \ {b} : doc.index[c] = old.index[c]
  BY LenProperties DEF Wallet, Beyond
<1>2. /\ Len(all) = n + m
      /\ \A i \in 1..n : all[i] = list[i]
      /\ \A i \in 1..(n + m) : i > n => all[i] = new[i - n]
  BY ConcatProperties
<1>3. PathsIn(all) = PathsIn(list) \cup PathsIn(new)
  BY RowsGrow
<1>4. \A i \in 1..n : list[i] \in Path /\ list[i] \in PathsIn(list)
  BY ElementOfSeq DEF PathsIn
<1> HIDE DEF n, m, all, from
<1>5. \A c \in Branches : \A i \in Nat :
        <<c, i>> \in PathsIn(new) <=> c = b /\ from <= i /\ i < from + m
  <2> SUFFICES ASSUME NEW c \in Branches, NEW i \in Nat
               PROVE  <<c, i>> \in PathsIn(new) <=> c = b /\ from <= i /\ i < from + m
    OBVIOUS
  <2>1. ASSUME <<c, i>> \in PathsIn(new)
        PROVE  c = b /\ from <= i /\ i < from + m
    <3>1. PICK k \in 1..m : <<c, i>> = new[k]
      BY <2>1 DEF PathsIn, m
    <3>2. c = b /\ i = from + k - 1
      BY <1>1, <3>1
    <3> QED
      BY <1>1, <3>2
  <2>2. ASSUME c = b, from <= i, i < from + m
        PROVE  <<c, i>> \in PathsIn(new)
    <3>1. i - from + 1 \in 1..m /\ from + (i - from + 1) - 1 = i
      BY <1>1, <2>2
    <3>2. new[i - from + 1] = <<c, i>>
      BY <1>1, <2>2, <3>1
    <3> QED
      BY <3>1, <3>2 DEF PathsIn, m
  <2> QED
    BY <2>1, <2>2
<1>6. Matches(doc, all)
  <2> SUFFICES ASSUME NEW c \in Branches, NEW i \in Nat
               PROVE  <<c, i>> \in PathsIn(all) <=> i < doc.index[c]
    BY DEF Matches
  <2>1. <<c, i>> \in PathsIn(list) <=> i < old.index[c]
    BY DEF Matches
  <2>2. CASE c = b
    BY <1>1, <1>3, <1>5, <2>1, <2>2 DEF from
  <2>3. CASE c # b
    BY <1>1, <1>3, <1>5, <2>1, <2>3
  <2> QED
    BY <2>2, <2>3
<1>7. \A i \in 1..n : list[i][1] = b => list[i][2] \in Nat /\ list[i][2] < from
  <2> SUFFICES ASSUME NEW i \in 1..n, list[i][1] = b
               PROVE  list[i][2] \in Nat /\ list[i][2] < from
    OBVIOUS
  <2>1. list[i] \in Path /\ list[i] \in PathsIn(list)
    BY <1>4
  <2>2. list[i] = <<b, list[i][2]>> /\ list[i][2] \in Nat
    BY <2>1 DEF Path
  <2> QED
    BY <2>1, <2>2 DEF Matches, from
<1>8. Rising(all)
  <2> SUFFICES ASSUME NEW i \in 1..(n + m), NEW j \in 1..(n + m), i < j, all[i][1] = all[j][1]
               PROVE  all[i][2] < all[j][2]
    BY <1>2 DEF Rising
  <2>1. CASE i \in 1..n /\ j \in 1..n
    BY <1>2, <2>1 DEF Rising, n
  <2>2. CASE i \in 1..n /\ j \notin 1..n
    <3>1. j - n \in 1..m /\ j > n
      BY <1>1, <2>2
    <3>2. all[j] = <<b, from + (j - n) - 1>>
      BY <1>1, <1>2, <3>1
    <3>3. all[i] = list[i] /\ list[i][1] = b
      BY <1>2, <2>2, <3>2
    <3>4. list[i][2] \in Nat /\ list[i][2] < from
      BY <1>7, <2>2, <3>3
    <3> QED
      BY <1>1, <3>1, <3>2, <3>3, <3>4
  <2>3. CASE i \notin 1..n
    <3>1. i - n \in 1..m /\ j - n \in 1..m /\ i > n /\ j > n
      BY <1>1, <2>3
    <3>2. all[i] = <<b, from + (i - n) - 1>> /\ all[j] = <<b, from + (j - n) - 1>>
      BY <1>1, <1>2, <3>1
    <3> QED
      BY <1>1, <3>1, <3>2
  <2> QED
    BY <2>1, <2>2, <2>3
<1> QED
  BY <1>6, <1>8 DEF all

LEMMA InsertAddressesExact ==
  ASSUME SettledInv, Inv', NEW t \in Tasks, InsertAddresses(t)
  PROVE  SettledInv'
<1>1. /\ job[t].at = "insert" /\ t = holder /\ job[t] \in Job /\ job[t].doc \in Wallet
      /\ job[t].at # "storeWallet" /\ UNCHANGED wallet
  <2>1. job[t].at = "insert" /\ UNCHANGED wallet
    BY DEF InsertAddresses, At
  <2> QED
    BY <2>1, JobOf DEF SettledInv, TurnsKept, Held, Points, Sane
<1>2. PICK b \in Branches : Beyond(job[t].doc, b, job[t].new, wallet)
  BY <1>1 DEF SettledInv, Exact
<1>3. /\ wallet \in Wallet /\ rows \in Seq(Path) /\ job[t].new \in Seq(Path)
      /\ Matches(wallet, rows) /\ Rising(rows)
  BY <1>1, HeldMatches DEF SettledInv, Inv, TypeOK, Job
<1>4. CASE rows' = rows \o job[t].new /\ GoTo(t, "storeWallet")
  <2> DEFINE new == [job[t] EXCEPT !.at = "storeWallet"]
  <2>1. job' = [job EXCEPT ![t] = new] /\ UNCHANGED lockVars
    BY <1>4 DEF GoTo, Continue
  <2>2. new.at = "storeWallet" /\ new.doc = job[t].doc /\ new.op = job[t].op
    BY <1>1 DEF Job
  <2> HIDE DEF new
  <2>3. Matches(job[t].doc, rows') /\ Rising(rows')
    BY <1>1, <1>2, <1>3, <1>4, InsertMatches
  <2>4. new.at \in Held
    BY <2>2 DEF Held
  <2>5. TurnsKept'
    BY <1>1, <2>1, <2>4, TurnsContinue
  <2>6. \A u \in Tasks : job'[u] = IF u = t THEN new ELSE job[u]
    BY <2>1, Changed DEF SettledInv
  <2>7. Exact(new, wallet', rows')
    BY <2>2, <2>3 DEF Exact
  <2>8. \A u \in Tasks : Exact(job'[u], wallet', rows')
    BY <1>1, <2>6, <2>7, OutsideExact DEF SettledInv, TurnsKept
  <2>9. Stages(new)
    BY <1>1, <2>2 DEF SettledInv, Stages, Scanning
  <2>10. \A u \in Tasks : Stages(job'[u])
    BY <2>6, <2>9 DEF SettledInv
  <2>11. \E u \in Tasks : job'[u].at = "storeWallet"
    BY <2>2, <2>6
  <2> QED
    BY <2>3, <2>5, <2>8, <2>10, <2>11 DEF SettledInv, Stages
<1>5. CASE job[t].op = "scan" /\ UNCHANGED rows
           /\ Continue(t, [job[t] EXCEPT !.failed = TRUE, !.at = "finish"])
  <2> DEFINE new == [job[t] EXCEPT !.failed = TRUE, !.at = "finish"]
  <2>1. new.at = "finish" /\ new.op = "scan"
    BY <1>1, <1>5 DEF Job
  <2>2. Continue(t, new)
    BY <1>5
  <2> HIDE DEF new
  <2>3. Stages(new)
    BY <1>5, <2>1 DEF SettledInv, Stages
  <2>4. Exact(new, wallet, rows) /\ new.at \in Held
    BY <2>1 DEF Exact, Held
  <2> QED
    BY <1>1, <1>5, <2>1, <2>2, <2>3, <2>4, GoesOnExact
<1>6. CASE Answer(t) /\ UNCHANGED rows
  BY <1>1, <1>6, AnswersExact
<1> QED
  BY <1>4, <1>5, <1>6 DEF InsertAddresses

-----------------------------------------------------------------------------
(* The holder stores its copy of the wallet, which the rows agree with. *)
LEMMA StoresExact ==
  ASSUME SettledInv, Inv', NEW t \in Tasks, t = holder, Matches(job[t].doc, rows),
         wallet' = job[t].doc, UNCHANGED rows, NEW new, job' = [job EXCEPT ![t] = new],
         TurnsKept', Stages(new), Exact(new, wallet', rows)
  PROVE  SettledInv'
<1>1. \A u \in Tasks : job'[u] = IF u = t THEN new ELSE job[u]
  BY Changed DEF SettledInv
<1>2. \A u \in Tasks : Exact(job'[u], wallet', rows')
  BY <1>1, OutsideExact DEF SettledInv, TurnsKept
<1>3. \A u \in Tasks : Stages(job'[u])
  BY <1>1 DEF SettledInv
<1> QED
  BY <1>2, <1>3 DEF SettledInv, Stages

LEMMA StoresAndScansExact ==
  ASSUME SettledInv, Inv', NEW t \in Tasks, t = holder, Matches(job[t].doc, rows),
         job[t] \in Job, job[t].op = "scan",
         wallet' = job[t].doc, UNCHANGED rows, GoTo(t, "branch")
  PROVE  SettledInv'
<1> DEFINE new == [job[t] EXCEPT !.at = "branch"]
<1>1. job' = [job EXCEPT ![t] = new] /\ UNCHANGED lockVars
  BY DEF GoTo, Continue
<1>2. new.at = "branch" /\ new.doc = job[t].doc /\ new.op = "scan"
  BY DEF Job
<1> HIDE DEF new
<1>3. Exact(new, wallet', rows) /\ new.at \in Held
  BY <1>2 DEF Exact, SameIndex, Held
<1>4. Stages(new)
  BY <1>2 DEF SettledInv, Stages
<1> QED
  BY <1>1, <1>3, <1>4, TurnsContinue, StoresExact

LEMMA StoresAndAnswersExact ==
  ASSUME SettledInv, Inv', NEW t \in Tasks, t = holder, Matches(job[t].doc, rows),
         wallet' = job[t].doc, UNCHANGED rows, Answer(t)
  PROVE  SettledInv'
<1>1. job' = [job EXCEPT ![t] = Idle] /\ TurnsKept'
  BY TurnsAnswer DEF Answer
<1>2. Exact(Idle, wallet', rows)
  BY IdleOutside, OutsideExact DEF Held
<1> QED
  BY <1>1, <1>2, IdleStages, StoresExact

LEMMA StoreWalletExact ==
  ASSUME UnderLock, SettledInv, Inv', NEW t \in Tasks, StoreWallet(t)
  PROVE  SettledInv'
<1>1. job[t].at = "storeWallet" /\ t = holder /\ job[t] \in Job /\ Matches(job[t].doc, rows)
  <2>1. job[t].at = "storeWallet"
    BY DEF StoreWallet, At
  <2> QED
    BY <2>1, JobOf DEF SettledInv, TurnsKept, Held, Points, Exact
<1> QED
  BY <1>1, StoresAndScansExact, StoresAndAnswersExact DEF StoreWallet

(* A copy with the indexes of the wallet agrees with the rows as well. *)
LEMMA SameMatches ==
  ASSUME SettledInv, NEW t \in Tasks, job[t].at \in {"markRunning", "unmark"}
  PROVE  t = holder /\ Matches(job[t].doc, rows)
<1>1. t = holder /\ SameIndex(job[t].doc, wallet) /\ job[t].at # "storeWallet"
  BY DEF SettledInv, TurnsKept, Held, Exact
<1>2. Matches(wallet, rows)
  BY <1>1, HeldMatches
<1> QED
  BY <1>1, <1>2 DEF SameIndex, Matches

LEMMA MarkRunningExact ==
  ASSUME SettledInv, Inv', NEW t \in Tasks, MarkRunning(t)
  PROVE  SettledInv'
<1>1. job[t].at = "markRunning"
  BY DEF MarkRunning, At
<1>2. job[t] \in Job /\ job[t].op = "scan"
  BY <1>1, JobOf DEF SettledInv, Stages, Scanning, Points
<1> QED
  BY <1>1, <1>2, SameMatches, StoresAndScansExact DEF MarkRunning

LEMMA MarkSuccessExact ==
  ASSUME SettledInv, Inv', NEW t \in Tasks, MarkSuccess(t)
  PROVE  SettledInv'
BY SameMatches, StoresAndAnswersExact DEF MarkSuccess, At

-----------------------------------------------------------------------------
(* The steps of a scan, with what it knows of the branches it has searched. *)
LEMMA Becomes ==
  ASSUME SettledInv, NEW t \in Tasks, NEW new, Continue(t, new)
  PROVE  job'[t] = new
BY DEF Continue, SettledInv, Inv, TypeOK

LEMMA ScanExact ==
  ASSUME SettledInv, Inv', NEW t \in Tasks, Scan(t), Searched(job[t], wallet)
  PROVE  SettledInv' /\ Searched(job'[t], wallet')
<1> DEFINE doc == [wallet EXCEPT !.scanStatus = "running"]
           new == [job[t] EXCEPT !.doc = doc, !.at = "markRunning"]
<1>1. t = holder /\ job[t].at = "locked" /\ job[t].op \in {"scan"}
  BY AtItsTurn DEF Scan
<1>2. job[t] \in Job /\ doc.index = wallet.index
  BY <1>1, JobOf DEF SettledInv, Inv, TypeOK, Wallet, Points
<1>3. Continue(t, new) /\ UNCHANGED <<wallet, rows>>
  BY DEF Scan
<1> HIDE DEF doc
<1>4. new.at = "markRunning" /\ new.doc = doc /\ new.op = "scan"
      /\ new.turn = job[t].turn /\ new.failed = job[t].failed
  BY <1>1, <1>2 DEF Job
<1> HIDE DEF new
<1>5. Stages(new)
  BY <1>1, <1>4 DEF SettledInv, Stages
<1>6. Exact(new, wallet, rows) /\ new.at \in Held
  BY <1>2, <1>4 DEF Exact, SameIndex, Held
<1>7. SettledInv'
  BY <1>1, <1>3, <1>4, <1>5, <1>6, GoesOnExact
<1>8. job'[t] = new
  BY <1>3, Becomes
<1> QED
  BY <1>1, <1>4, <1>7, <1>8 DEF Searched, Asked

LEMMA FinishScanExact ==
  ASSUME SettledInv, Inv', NEW t \in Tasks, FinishScan(t), Searched(job[t], wallet)
  PROVE  SettledInv' /\ Searched(job'[t], wallet')
<1> DEFINE doc == [wallet EXCEPT !.scanStatus = "success"]
           new == [job[t] EXCEPT !.doc = doc, !.at = "unmark"]
<1>1. job[t].at = "finish"
  BY DEF FinishScan, At
<1>2. job[t] \in Job /\ doc.index = wallet.index /\ t = holder /\ job[t].op = "scan"
  BY <1>1, JobOf DEF SettledInv, Inv, TypeOK, Wallet, TurnsKept, Held, Points, Stages, Scanning
<1>3. Continue(t, new) /\ UNCHANGED <<wallet, rows>>
  BY DEF FinishScan
<1> HIDE DEF doc
<1>4. new.at = "unmark" /\ new.doc = doc /\ new.op = "scan" /\ new.failed = job[t].failed
  BY <1>2 DEF Job
<1> HIDE DEF new
<1>5. Stages(new)
  BY <1>2, <1>4 DEF SettledInv, Stages
<1>6. Exact(new, wallet, rows) /\ new.at \in Held
  BY <1>2, <1>4 DEF Exact, SameIndex, Held
<1>7. SettledInv'
  BY <1>1, <1>2, <1>3, <1>4, <1>5, <1>6, GoesOnExact
<1>8. job'[t] = new
  BY <1>3, Becomes
<1> QED
  BY <1>1, <1>2, <1>4, <1>7, <1>8 DEF Searched, Asked, Unused

LEMMA ScanBranchExact ==
  ASSUME SettledInv, Inv', NEW t \in Tasks, ScanBranch(t), Searched(job[t], wallet)
  PROVE  SettledInv' /\ Searched(job'[t], wallet')
<1>1. /\ job[t].at = "branch" /\ t = holder /\ job[t] \in Job /\ job[t].op = "scan"
      /\ job[t].turn \in 0..2 /\ job[t].doc \in Wallet /\ SameIndex(job[t].doc, wallet)
      /\ UNCHANGED <<wallet, rows>>
  <2>1. job[t].at = "branch" /\ UNCHANGED <<wallet, rows>>
    BY DEF ScanBranch, At
  <2>2. job[t] \in Job /\ Sane(job[t], rows) /\ Exact(job[t], wallet, rows) /\ Stages(job[t])
    BY <2>1, JobOf DEF SettledInv, Points
  <2> QED
    BY <2>1, <2>2 DEF SettledInv, TurnsKept, Held, Exact, Sane, Stages, Scanning, Job
<1>2. /\ Len(Derivators) = 2 /\ Derivators[1] \in Branches /\ Derivators[2] \in Branches
      /\ \A b \in Branches : b = Derivators[1] \/ b = Derivators[2]
      /\ Derivators[1] # Derivators[2]
  BY DEF Derivators, Branches
<1>3. Asked(job[t]) => \A k \in 1..job[t].turn : Unused(Derivators[k], job[t].doc)
  BY <1>1 DEF Searched, Asked
<1>4. CASE job[t].turn = Len(Derivators)
  <2> DEFINE new == [job[t] EXCEPT !.at = "finish"]
  <2>1. new.at = "finish" /\ new.op = "scan" /\ new.failed = job[t].failed
    BY <1>1 DEF Job
  <2>2. Continue(t, new)
    BY <1>4 DEF ScanBranch, GoTo
  <2> HIDE DEF new
  <2>3. Stages(new)
    BY <1>1, <2>1 DEF SettledInv, Stages
  <2>4. Exact(new, wallet, rows) /\ new.at \in Held
    BY <2>1 DEF Exact, Held
  <2>5. SettledInv'
    BY <1>1, <2>1, <2>2, <2>3, <2>4, GoesOnExact
  <2>6. job'[t] = new
    BY <2>2, Becomes
  <2>7. Asked(job[t]) => \A b \in Branches : Unused(b, wallet)
    <3>1. Asked(job[t]) => Unused(Derivators[1], job[t].doc) /\ Unused(Derivators[2], job[t].doc)
      BY <1>2, <1>3, <1>4
    <3> QED
      BY <1>1, <1>2, <3>1 DEF SameIndex, Unused
  <2> QED
    BY <1>1, <2>1, <2>5, <2>6, <2>7 DEF Searched, Asked
<1>5. CASE job[t].turn # Len(Derivators)
  <2> DEFINE turn == job[t].turn + 1
             branch == Derivators[turn]
             from == job[t].doc.index[branch]
             index == Known(branch, from)
             paths == PathsBetween(branch, from, index)
             doc == [job[t].doc EXCEPT !.index[branch] = index]
             new == [job[t] EXCEPT !.turn = turn, !.inactive = 0, !.at = "probe",
                                   !.new = paths, !.doc = doc]
  <2>1. turn \in {1, 2} /\ branch \in Branches
    BY <1>1, <1>2, <1>5
  <2>2. Continue(t, new)
    BY <1>1, <1>5 DEF ScanBranch, Job
  <2>3. from \in Nat /\ from = wallet.index[branch] /\ cache[branch] \in Nat
    BY <1>1, <2>1 DEF Wallet, SameIndex, SettledInv, Inv, TypeOK
  <2>4. turn = 2 => job[t].turn = 1
    BY <1>1
  <2> HIDE DEF turn, branch, from
  <2>5. index \in Nat /\ from <= index
    BY <2>3 DEF Known
  <2>6. doc \in Wallet
         /\ \A c \in Branches : doc.index[c] = IF c = branch THEN index ELSE job[t].doc.index[c]
    BY <1>1, <2>1, <2>5, SetIndex
  <2> HIDE DEF index, doc
  <2>7. Len(paths) = index - from /\ \A k \in 1..Len(paths) : paths[k] = <<branch, from + k - 1>>
    <3>1. \A k \in 1..(index - from) : <<branch, from + k - 1>> \in Path
      BY <2>1, <2>3, <2>5 DEF Path
    <3>2. index - from \in Nat /\ paths \in [1..(index - from) -> Path]
      BY <2>3, <2>5, <3>1 DEF PathsBetween
    <3>3. \A k \in 1..(index - from) : paths[k] = <<branch, from + k - 1>>
      BY DEF PathsBetween
    <3> HIDE DEF paths
    <3> QED
      BY <3>2, <3>3, FunctionIsSeq
  <2> HIDE DEF paths
  <2>8. /\ new.at = "probe" /\ new.turn = turn /\ new.inactive = 0 /\ new.op = "scan"
        /\ new.new = paths /\ new.doc = doc /\ new.failed = job[t].failed
    BY <1>1 DEF Job
  <2> HIDE DEF new
  <2>9. Beyond(doc, branch, paths, wallet)
    BY <1>1, <2>1, <2>3, <2>5, <2>6, <2>7 DEF Beyond, SameIndex
  <2>10. Exact(new, wallet, rows) /\ new.at \in Held
    BY <2>8, <2>9 DEF Exact, Held, branch
  <2>11. Stages(new)
    BY <1>1, <2>8 DEF SettledInv, Stages
  <2>12. SettledInv'
    BY <1>1, <2>2, <2>8, <2>10, <2>11, GoesOnExact
  <2>13. job'[t] = new
    BY <2>2, Becomes
  <2>14. turn = 2 /\ Asked(job[t]) => Unused(Derivators[1], doc)
    <3>1. turn = 2 => Derivators[1] # branch
      BY <1>2 DEF branch
    <3>2. turn = 2 /\ Asked(job[t]) => Unused(Derivators[1], job[t].doc)
      BY <1>3, <2>4
    <3> QED
      BY <1>2, <2>6, <3>1, <3>2 DEF Unused
  <2>15. doc.index[branch] = index
    BY <2>1, <2>6
  <2>16. \A i \in Nat : ~(index - 0 <= i /\ i < index)
    BY <2>5
  <2>17. Searched(new, wallet)
    BY <2>8, <2>14, <2>15, <2>16 DEF Searched, Asked, branch
  <2> QED
    BY <1>1, <2>12, <2>13, <2>17
<1> QED
  BY <1>4, <1>5

(* What a scan that asks about a branch has in memory. *)
LEMMA ProbingExact ==
  ASSUME SettledInv, NEW t \in Tasks, job[t].at \in {"probe", "cacheIndex"}
  PROVE  LET b == Derivators[job[t].turn]
         IN  /\ t = holder /\ job[t].op = "scan" /\ job[t].turn \in {1, 2} /\ b \in Branches
             /\ job[t] \in Job /\ job[t].doc \in Wallet /\ job[t].doc.index[b] \in Nat
             /\ job[t].new \in Seq(Path) /\ Len(job[t].new) \in Nat
             /\ job[t].inactive \in 0..ScanGap /\ job[t].inactive <= Len(job[t].new)
             /\ Beyond(job[t].doc, b, job[t].new, wallet) /\ Stages(job[t])
             /\ wallet.index[b] \in Nat
<1>1. t = holder /\ job[t].op = "scan" /\ Stages(job[t])
      /\ Beyond(job[t].doc, Derivators[job[t].turn], job[t].new, wallet)
  BY DEF SettledInv, TurnsKept, Held, Exact, Stages, Scanning
<1>2. Inv
  BY DEF SettledInv
<1>3. Derivators[job[t].turn] \in Branches => wallet.index[Derivators[job[t].turn]] \in Nat
  BY <1>2 DEF Inv, TypeOK, Wallet
<1> QED
  BY <1>1, <1>2, <1>3, Probing

LEMMA ProbeExact ==
  ASSUME SettledInv, Inv', NEW t \in Tasks, Probe(t), Searched(job[t], wallet)
  PROVE  SettledInv' /\ Searched(job'[t], wallet')
<1> DEFINE branch == Derivators[job[t].turn]
           path == NextPath(job[t].doc, branch)
           doc == Derive(job[t].doc, branch)
           paths == Append(job[t].new, path)
           inactive == Quiet(job[t].inactive, path)
           at == IF path \in active THEN "cacheIndex" ELSE job[t].at
           found == [job[t] EXCEPT !.doc = doc, !.new = paths, !.inactive = inactive, !.at = at]
           failed == [job[t] EXCEPT !.failed = TRUE, !.at = "finish"]
           index == job[t].doc.index[branch]
           m == Len(job[t].new)
<1>1. /\ job[t].at = "probe" /\ UNCHANGED <<wallet, rows>>
      /\ Continue(t, found) \/ Continue(t, failed)
  BY DEF Probe, At
<1>2. /\ t = holder /\ job[t].op = "scan" /\ job[t].turn \in {1, 2} /\ branch \in Branches
      /\ job[t] \in Job /\ job[t].doc \in Wallet /\ index \in Nat
      /\ job[t].new \in Seq(Path) /\ m \in Nat
      /\ job[t].inactive \in 0..ScanGap
      /\ Beyond(job[t].doc, branch, job[t].new, wallet) /\ Stages(job[t])
      /\ wallet.index[branch] \in Nat
  BY <1>1, ProbingExact
<1>3. CASE Continue(t, failed)
  <2>1. failed.at = "finish" /\ failed.op = "scan" /\ failed.failed
    BY <1>2 DEF Job
  <2> HIDE DEF failed
  <2>2. Stages(failed)
    BY <1>2, <2>1 DEF Stages
  <2>3. Exact(failed, wallet, rows) /\ failed.at \in Held
    BY <2>1 DEF Exact, Held
  <2>4. SettledInv'
    BY <1>1, <1>2, <1>3, <2>1, <2>2, <2>3, GoesOnExact
  <2>5. job'[t] = failed
    BY <1>3, Becomes
  <2> QED
    BY <2>1, <2>4, <2>5 DEF Searched, Asked
<1>4. CASE Continue(t, found)
  <2>1. \A c \in Branches : doc.index[c] = IF c = branch THEN job[t].doc.index[c] + 1
                                           ELSE job[t].doc.index[c]
    BY <1>2, DeriveMoves
  <2>2. path = <<branch, index>> /\ path \in Path
    BY <1>2 DEF NextPath, Path
  <2>3. /\ Len(paths) = m + 1 /\ paths[m + 1] = path
        /\ \A k \in 1..m : paths[k] = job[t].new[k]
    BY <1>2, <2>2, AppendProperties
  <2>4. at \in {"probe", "cacheIndex"}
    BY <1>1
  <2>5. inactive = IF path \in active THEN 0 ELSE job[t].inactive + 1
    BY DEF Quiet
  <2> HIDE DEF path, doc, paths, at, inactive
  <2>6. /\ found.turn = job[t].turn /\ found.op = "scan" /\ found.failed = job[t].failed
        /\ found.doc = doc /\ found.new = paths /\ found.inactive = inactive /\ found.at = at
    BY <1>2 DEF Job
  <2> HIDE DEF found, failed
  <2>7. Beyond(doc, branch, paths, wallet)
    <3>1. /\ index = wallet.index[branch] + m
          /\ \A k \in 1..m : job[t].new[k] = <<branch, wallet.index[branch] + k - 1>>
          /\ \A c \in Branches \ {branch} : job[t].doc.index[c] = wallet.index[c]
      BY <1>2 DEF Beyond
    <3>2. doc.index[branch] = index + 1
      BY <1>2, <2>1
    <3>3. \A c \in Branches \ {branch} : doc.index[c] = job[t].doc.index[c]
      BY <2>1
    <3> HIDE DEF branch, index, m
    <3>4. \A k \in 1..(m + 1) : paths[k] = <<branch, wallet.index[branch] + k - 1>>
      <4> SUFFICES ASSUME NEW k \in 1..(m + 1)
                   PROVE  paths[k] = <<branch, wallet.index[branch] + k - 1>>
        OBVIOUS
      <4>1. k \in 1..m \/ k = m + 1
        BY <1>2
      <4>2. wallet.index[branch] + (m + 1) - 1 = index
        BY <1>2, <3>1
      <4> QED
        BY <2>2, <2>3, <3>1, <4>1, <4>2
    <3>5. index + 1 = wallet.index[branch] + (m + 1)
      BY <1>2, <3>1
    <3> QED
      BY <2>3, <3>1, <3>2, <3>3, <3>4, <3>5 DEF Beyond
  <2>8. Exact(found, wallet, rows)
    BY <2>4, <2>6, <2>7 DEF Exact
  <2>9. Stages(found) /\ found.at \in Held /\ found.at # "storeWallet"
    BY <1>2, <2>4, <2>6 DEF Stages, Held
  <2>10. SettledInv'
    BY <1>1, <1>2, <1>4, <2>8, <2>9, GoesOnExact
  <2>11. job'[t] = found
    BY <1>4, Becomes
  <2>12. ASSUME Asked(job[t])
         PROVE  /\ job[t].turn = 2 => Unused(Derivators[1], doc)
                /\ \A i \in Nat : doc.index[branch] - inactive <= i /\ i < doc.index[branch]
                                    => <<branch, i>> \notin active
    <3>1. /\ job[t].turn = 2 => Unused(Derivators[1], job[t].doc)
          /\ \A i \in Nat : index - job[t].inactive <= i /\ i < index
                              => <<branch, i>> \notin active
      BY <1>1, <1>2, <2>12 DEF Searched, Asked
    <3>2. job[t].turn = 2 => Derivators[1] # branch /\ Derivators[1] \in Branches
      BY DEF Derivators, Branches
    <3>3. doc.index[branch] = index + 1
      BY <1>2, <2>1
    <3> HIDE DEF branch, index
    <3>4. job[t].turn = 2 => Unused(Derivators[1], doc)
      BY <2>1, <3>1, <3>2 DEF Unused
    <3> DEFINE end == doc.index[branch]
    <3>5. inactive \in Nat
      BY <1>2, <2>5
    <3>6. end = index + 1 /\ index \in Nat /\ job[t].inactive \in Nat
      BY <1>2, <3>3
    <3> HIDE DEF end
    <3>7. ASSUME NEW i \in Nat, end - inactive <= i, i < end
          PROVE  <<branch, i>> \notin active
      <4>1. path \notin active /\ inactive = job[t].inactive + 1
        BY <2>5, <3>6, <3>7
      <4>2. i = index \/ (index - job[t].inactive <= i /\ i < index)
        BY <3>6, <3>7, <4>1
      <4> QED
        BY <2>2, <3>1, <4>1, <4>2
    <3> QED
      BY <3>4, <3>7 DEF end
  <2>13. Searched(found, wallet)
    BY <2>4, <2>6, <2>12 DEF Searched, Asked
  <2> QED
    BY <1>1, <2>10, <2>11, <2>13
<1> QED
  BY <1>1, <1>3, <1>4

LEMMA CacheIndexExact ==
  ASSUME SettledInv, Inv', NEW t \in Tasks, CacheIndex(t), Searched(job[t], wallet)
  PROVE  SettledInv' /\ Searched(job'[t], wallet')
<1> DEFINE new == [job[t] EXCEPT !.at = "probe"]
<1>1. job[t].at = "cacheIndex" /\ UNCHANGED <<wallet, rows>> /\ Continue(t, new)
  BY DEF CacheIndex, At, GoTo
<1>2. /\ t = holder /\ job[t].op = "scan" /\ job[t] \in Job
      /\ Beyond(job[t].doc, Derivators[job[t].turn], job[t].new, wallet) /\ Stages(job[t])
  BY <1>1, ProbingExact
<1>3. /\ new.at = "probe" /\ new.doc = job[t].doc /\ new.new = job[t].new /\ new.op = "scan"
      /\ new.turn = job[t].turn /\ new.inactive = job[t].inactive /\ new.failed = job[t].failed
  BY <1>2 DEF Job
<1> HIDE DEF new
<1>4. Stages(new) /\ new.at \in Held
  BY <1>2, <1>3 DEF Stages, Held
<1>5. Exact(new, wallet, rows)
  BY <1>2, <1>3 DEF Exact
<1>6. SettledInv'
  BY <1>1, <1>2, <1>3, <1>4, <1>5, GoesOnExact
<1>7. job'[t] = new
  BY <1>1, Becomes
<1> QED
  BY <1>1, <1>2, <1>3, <1>6, <1>7 DEF Searched, Asked

(* The addresses of the gap are given back: nobody used one of them. *)
LEMMA EndBranchExact ==
  ASSUME SettledInv, Inv', NEW t \in Tasks, EndBranch(t), Searched(job[t], wallet)
  PROVE  SettledInv' /\ Searched(job'[t], wallet')
<1> DEFINE branch == Derivators[job[t].turn]
           chain == job[t].new
           n == Len(chain)
           index == job[t].doc.index[branch]
           found == SubSeq(chain, 1, n - ScanGap)
           doc == [job[t].doc EXCEPT !.index[branch] = GapEnd(index)]
           at == IF found = <<>> THEN "branch" ELSE "insert"
           new == [job[t] EXCEPT !.doc = doc, !.new = found, !.at = at]
           base == wallet.index[branch]
<1>1. /\ job[t].at = "probe" /\ job[t].inactive = ScanGap /\ ScanGap \in Nat \ {0}
      /\ UNCHANGED <<wallet, rows>>
  BY AddressesAssumption DEF EndBranch, At
<1>2. /\ t = holder /\ job[t].op = "scan" /\ job[t].turn \in {1, 2} /\ branch \in Branches
      /\ job[t] \in Job /\ job[t].doc \in Wallet /\ index \in Nat
      /\ chain \in Seq(Path) /\ n \in Nat /\ ScanGap <= n
      /\ Beyond(job[t].doc, branch, chain, wallet) /\ Stages(job[t]) /\ base \in Nat
  BY <1>1, ProbingExact
<1>3. Continue(t, new)
  BY <1>2 DEF EndBranch, Job
<1>4. /\ index = base + n
      /\ \A k \in 1..n : chain[k] = <<branch, base + k - 1>>
      /\ \A c \in Branches \ {branch} : job[t].doc.index[c] = wallet.index[c]
  BY <1>2 DEF Beyond
<1>5. n - ScanGap \in 0..n
  BY <1>1, <1>2
<1>6. /\ Len(found) = n - ScanGap
      /\ \A k \in 1..(n - ScanGap) : found[k] = chain[k]
  <2>1. \A k \in 1..(n - ScanGap) : chain[k] \in Path
    BY <1>2, <1>5, ElementOfSeq
  <2>2. found = [k \in 1..(n - ScanGap) |-> chain[k]]
    BY <1>2, <1>5
  <2>3. found \in [1..(n - ScanGap) -> Path] /\ \A k \in 1..(n - ScanGap) : found[k] = chain[k]
    BY <2>1, <2>2
  <2> HIDE DEF found
  <2> QED
    BY <1>5, <2>3, FunctionIsSeq
<1>7. GapEnd(index) = index - ScanGap /\ index - ScanGap \in Nat
  <2> HIDE DEF branch, chain, n, index, base
  <2> QED
    BY <1>1, <1>2, <1>4 DEF GapEnd
<1>8. \A c \in Branches : doc.index[c] = IF c = branch THEN index - ScanGap
                                         ELSE job[t].doc.index[c]
  <2> DEFINE end == GapEnd(index)
  <2>1. end \in Nat /\ end = index - ScanGap /\ job[t].doc \in Wallet /\ branch \in Branches
    BY <1>2, <1>7
  <2> HIDE DEF branch, index, end
  <2>2. \A c \in Branches : doc.index[c] = IF c = branch THEN end ELSE job[t].doc.index[c]
    BY <2>1, SetIndex DEF end
  <2> QED
    BY <2>1, <2>2
<1>9. at \in {"branch", "insert"} /\ (at = "branch" => found = <<>>)
  OBVIOUS
<1>10. \A k \in 1..job[t].turn : k = job[t].turn \/ (job[t].turn = 2 /\ k = 1)
  BY <1>2
<1>11. job[t].turn = 2 => Derivators[1] # branch /\ Derivators[1] \in Branches
  BY DEF Derivators, Branches
<1>12. Asked(job[t]) =>
         /\ job[t].turn = 2 => Unused(Derivators[1], job[t].doc)
         /\ \A i \in Nat : index - ScanGap <= i /\ i < index => <<branch, i>> \notin active
  BY <1>1, <1>2 DEF Searched, Asked
<1> HIDE DEF chain, n, index, found, doc, at, base
<1>13. /\ new.at = at /\ new.doc = doc /\ new.new = found /\ new.op = "scan"
       /\ new.turn = job[t].turn /\ new.failed = job[t].failed
  BY <1>2 DEF Job
<1> HIDE DEF new
<1>14. Beyond(doc, branch, found, wallet)
  <2>1. index - ScanGap = base + (n - ScanGap) /\ doc.index[branch] = index - ScanGap
    BY <1>1, <1>2, <1>4, <1>8
  <2>2. \A k \in 1..(n - ScanGap) : found[k] = <<branch, base + k - 1>>
    <3>1. \A k \in 1..(n - ScanGap) : k \in 1..n
      BY <1>1, <1>2
    <3> QED
      BY <1>4, <1>6, <3>1
  <2>3. \A c \in Branches \ {branch} : doc.index[c] = wallet.index[c]
    BY <1>4, <1>8
  <2>4. doc.index[branch] = base + Len(found)
    BY <1>6, <2>1
  <2> HIDE DEF branch
  <2> QED
    BY <1>6, <2>2, <2>3, <2>4 DEF Beyond, base
<1>15. Exact(new, wallet, rows)
  <2>1. at = "branch" => SameIndex(doc, wallet)
    <3>1. SUFFICES ASSUME at = "branch" PROVE SameIndex(doc, wallet)
      OBVIOUS
    <3>2. Len(found) = 0
      BY <1>9, <3>1
    <3>3. doc.index[branch] = base
      BY <1>2, <1>14, <3>2 DEF Beyond, base
    <3> QED
      BY <1>14, <3>3 DEF SameIndex, Beyond, base
  <2> QED
    BY <1>2, <1>9, <1>13, <1>14, <2>1 DEF Exact
<1>16. Stages(new) /\ new.at \in Held /\ new.at # "storeWallet"
  BY <1>2, <1>9, <1>13 DEF Stages, Held
<1>17. SettledInv'
  BY <1>1, <1>2, <1>3, <1>15, <1>16, GoesOnExact
<1>18. job'[t] = new
  BY <1>3, Becomes
<1>19. ASSUME Asked(job[t]), NEW k \in 1..job[t].turn
       PROVE  Unused(Derivators[k], doc)
  <2>1. CASE k = job[t].turn
    <3>1. doc.index[branch] = index - ScanGap /\ Derivators[k] = branch
      BY <1>2, <1>8, <2>1
    <3>2. (index - ScanGap) + ScanGap = index
      BY <1>1, <1>2
    <3> HIDE DEF branch
    <3> QED
      BY <1>12, <1>19, <3>1, <3>2 DEF Unused
  <2>2. CASE job[t].turn = 2 /\ k = 1
    <3>1. doc.index[Derivators[1]] = job[t].doc.index[Derivators[1]]
      BY <1>8, <1>11, <2>2
    <3> QED
      BY <1>12, <1>19, <2>2, <3>1 DEF Unused
  <2> QED
    BY <1>10, <2>1, <2>2
<1>20. Searched(new, wallet)
  BY <1>9, <1>13, <1>19 DEF Searched, Asked
<1> QED
  BY <1>1, <1>17, <1>18, <1>20

-----------------------------------------------------------------------------
(* What the others know stays true: only the holder writes the wallet. *)
LEMMA Learns ==
  ASSUME SearchInv, SettledInv', NEW t \in Tasks, NEW new, job' = [job EXCEPT ![t] = new],
         UNCHANGED active, wallet' = wallet \/ t = holder, Searched(new, wallet')
  PROVE  SearchInv'
<1>1. \A u \in Tasks : job'[u] = IF u = t THEN new ELSE job[u]
  BY Changed DEF SearchInv, SettledInv
<1>2. ASSUME NEW u \in Tasks PROVE Searched(job'[u], wallet')
  <2>1. CASE u = t
    BY <1>1, <2>1
  <2>2. CASE u # t
    <3>1. job'[u] = job[u] /\ Searched(job[u], wallet)
      BY <1>1, <2>2 DEF SearchInv
    <3>2. wallet' = wallet \/ job[u].at \notin Held
      BY <2>2 DEF SearchInv, SettledInv, TurnsKept
    <3> QED
      BY <3>1, <3>2 DEF Searched, Held
  <2> QED
    BY <2>1, <2>2
<1> QED
  BY <1>2 DEF SearchInv, Searched, Unused

(* The other requests know nothing of the kind. *)
LEMMA NoScan ==
  ASSUME SearchInv, SettledInv', NEW t \in Tasks, NEW new, job' = [job EXCEPT ![t] = new],
         UNCHANGED active, wallet' = wallet \/ t = holder, new.op # "scan"
  PROVE  SearchInv'
<1>1. Searched(new, wallet')
  BY DEF Searched
<1> QED
  BY <1>1, Learns

LEMMA Answered ==
  ASSUME SearchInv, SettledInv', NEW t \in Tasks, job' = [job EXCEPT ![t] = Idle],
         UNCHANGED active, wallet' = wallet \/ t = holder
  PROVE  SearchInv'
BY IdleOutside, NoScan

LEMMA ArriveSearched ==
  ASSUME SearchInv, SettledInv', NEW t \in Tasks, NEW op \in Ops, Arrive(t, op)
  PROVE  SearchInv'
<1>1. PICK at \in {"gap", "fetch", "locked"} :
        job' = [job EXCEPT ![t] = [Idle EXCEPT !.op = op, !.at = at]]
  BY DEF Arrive, Continue, RunLocked
<1> DEFINE new == [Idle EXCEPT !.op = op, !.at = at]
<1>2. new.at = at /\ new.turn = 0
  BY DEF Idle
<1>3. job' = [job EXCEPT ![t] = new]
  BY <1>1
<1> HIDE DEF new
<1>4. Searched(new, wallet')
  BY <1>2 DEF Searched
<1> QED
  BY <1>3, <1>4, Learns DEF Arrive

(* What comes before the insert of createAddress and createTx. *)
LEMMA CreationSearched ==
  ASSUME SearchInv, SettledInv', NEW t \in Tasks,
         \/ CheckGap(t) \/ CheckActivity(t) \/ NoteActivity(t)
         \/ CreateAddress(t) \/ GetFirstAddress(t) \/ ChangeAddress(t)
  PROVE  SearchInv'
<1>1. job[t].op # "scan" /\ job[t] \in Job /\ UNCHANGED <<wallet, active>>
  <2>1. Stages(job[t]) /\ Inv
    BY DEF SearchInv, SettledInv
  <2>2. job[t].at \in {"gap", "activity", "note", "locked", "first"}
    BY DEF CheckGap, CheckActivity, NoteActivity, CreateAddress, GetFirstAddress,
           ChangeAddress, At, AtTurn
  <2>3. job[t] \in Job
    BY <2>1, <2>2, JobOf DEF Points
  <2>4. job[t].op # "scan"
    BY <2>1 DEF CheckGap, CheckActivity, NoteActivity, CreateAddress, GetFirstAddress,
           ChangeAddress, At, AtTurn, Stages, Creating
  <2> QED
    BY <2>3, <2>4 DEF CheckGap, CheckActivity, NoteActivity, CreateAddress, GetFirstAddress,
           ChangeAddress
<1>2. Idle.op # "scan" /\ [Idle EXCEPT !.op = "create", !.at = "locked"].op # "scan"
  BY DEF Idle
<1>3. ASSUME RunLocked(t, "create") \/ Answer(t)
      PROVE  SearchInv'
  BY <1>1, <1>2, <1>3, NoScan DEF RunLocked, Answer
<1>4. ASSUME NEW new, Continue(t, new), new.op = job[t].op
      PROVE  SearchInv'
  BY <1>1, <1>4, NoScan DEF Continue
<1>5. ASSUME NEW doc, NEW b, Continue(t, [job[t] EXCEPT !.new = <<NextPath(doc, b)>>,
                                            !.doc = Derive(doc, b), !.at = "insert"])
      PROVE  SearchInv'
  <2> DEFINE paths == <<NextPath(doc, b)>>
             next == Derive(doc, b)
  <2> HIDE DEF paths, next
  <2>1. [job[t] EXCEPT !.new = paths, !.doc = next, !.at = "insert"].op = job[t].op
    BY <1>1 DEF Job
  <2>2. Continue(t, [job[t] EXCEPT !.new = paths, !.doc = next, !.at = "insert"])
    BY <1>5 DEF paths, next
  <2> QED
    BY <1>4, <2>1, <2>2
<1>6. CASE CheckGap(t)
  <2> DEFINE latest == Latest(MaxGap)
  <2>1. RunLocked(t, "create") \/ Continue(t, [job[t] EXCEPT !.todo = latest, !.at = "activity"])
    BY <1>6 DEF CheckGap
  <2> HIDE DEF latest
  <2>2. [job[t] EXCEPT !.todo = latest, !.at = "activity"].op = job[t].op
    BY <1>1 DEF Job
  <2> QED
    BY <1>3, <1>4, <2>1, <2>2
<1>7. CASE CheckActivity(t)
  <2>1. \/ Answer(t)
        \/ \E todo, at : Continue(t, [job[t] EXCEPT !.todo = todo, !.at = at])
    BY <1>1, <1>7 DEF CheckActivity, Job
  <2>2. ASSUME NEW todo, NEW at, Continue(t, [job[t] EXCEPT !.todo = todo, !.at = at])
        PROVE  SearchInv'
    <3>1. [job[t] EXCEPT !.todo = todo, !.at = at].op = job[t].op
      BY <1>1 DEF Job
    <3> QED
      BY <1>4, <2>2, <3>1
  <2> QED
    BY <1>3, <2>1, <2>2
<1>8. CASE NoteActivity(t)
  BY <1>3, <1>8 DEF NoteActivity
<1>9. CASE CreateAddress(t)
  <2>1. [job[t] EXCEPT !.doc = wallet, !.at = "first"].op = job[t].op
    BY <1>1 DEF Job
  <2> QED
    BY <1>4, <1>5, <1>9, <2>1 DEF CreateAddress, DeriveNew
<1>10. CASE GetFirstAddress(t)
  BY <1>3, <1>5, <1>10 DEF GetFirstAddress
<1>11. CASE ChangeAddress(t)
  BY <1>3, <1>5, <1>11 DEF ChangeAddress, DeriveNew
<1> QED
  BY <1>6, <1>7, <1>8, <1>9, <1>10, <1>11

(* The holder goes on without having asked anything: its scan knows what it
   knew. *)
LEMMA MovesOn ==
  ASSUME SearchInv, SettledInv', NEW t \in Tasks, t = holder, job[t] \in Job,
         NEW point, GoTo(t, point), UNCHANGED active,
         \/ job[t].at = "insert" /\ point = "storeWallet"
         \/ job[t].at = "storeWallet" /\ point = "branch"
         \/ job[t].at = "markRunning" /\ point = "branch"
  PROVE  SearchInv'
<1> DEFINE new == [job[t] EXCEPT !.at = point]
<1>1. job' = [job EXCEPT ![t] = new]
  BY DEF GoTo, Continue
<1>2. /\ new.at = point /\ new.op = job[t].op /\ new.failed = job[t].failed
      /\ new.turn = job[t].turn /\ new.doc = job[t].doc
  BY DEF Job
<1> HIDE DEF new
<1>3. Searched(job[t], wallet)
  BY DEF SearchInv
<1>4. Searched(new, wallet')
  BY <1>2, <1>3 DEF Searched, Asked
<1> QED
  BY <1>1, <1>4, Learns

LEMMA StoringSearched ==
  ASSUME SearchInv, SettledInv', NEW t \in Tasks,
         InsertAddresses(t) \/ StoreWallet(t) \/ MarkRunning(t) \/ MarkSuccess(t), UnderLock
  PROVE  SearchInv'
<1>1. /\ job[t].at \in {"insert", "storeWallet", "markRunning", "unmark"}
      /\ UNCHANGED active
  BY DEF InsertAddresses, StoreWallet, MarkRunning, MarkSuccess, At
<1>2. t = holder /\ job[t] \in Job
  BY <1>1, JobOf DEF SearchInv, SettledInv, TurnsKept, Held, Points
<1>3. ASSUME Answer(t) PROVE SearchInv'
  BY <1>1, <1>2, <1>3, Answered DEF Answer
<1>4. CASE InsertAddresses(t)
  <2>1. ASSUME Continue(t, [job[t] EXCEPT !.failed = TRUE, !.at = "finish"])
        PROVE  SearchInv'
    <3> DEFINE new == [job[t] EXCEPT !.failed = TRUE, !.at = "finish"]
    <3>1. new.failed /\ job' = [job EXCEPT ![t] = new]
      BY <1>2, <2>1 DEF Job, Continue
    <3> HIDE DEF new
    <3>2. Searched(new, wallet')
      BY <3>1 DEF Searched, Asked
    <3> QED
      BY <1>1, <1>2, <3>1, <3>2, Learns
  <2> QED
    BY <1>1, <1>2, <1>3, <1>4, <2>1, MovesOn DEF InsertAddresses, At
<1>5. CASE StoreWallet(t)
  BY <1>1, <1>2, <1>3, <1>5, MovesOn DEF StoreWallet, At
<1>6. CASE MarkRunning(t)
  BY <1>1, <1>2, <1>6, MovesOn DEF MarkRunning, At
<1>7. CASE MarkSuccess(t)
  BY <1>3, <1>7 DEF MarkSuccess
<1> QED
  BY <1>4, <1>5, <1>6, <1>7

LEMMA ScanningSearched ==
  ASSUME SearchInv, Inv', NEW t \in Tasks,
         \/ Scan(t) \/ ScanBranch(t) \/ Probe(t) \/ CacheIndex(t)
         \/ EndBranch(t) \/ FinishScan(t)
  PROVE  SearchInv'
<1>1. SettledInv /\ Searched(job[t], wallet)
  BY DEF SearchInv
<1>2. SettledInv' /\ Searched(job'[t], wallet')
  BY <1>1, ScanExact, ScanBranchExact, ProbeExact, CacheIndexExact, EndBranchExact,
     FinishScanExact
<1>3. UNCHANGED <<wallet, active>>
  BY DEF Scan, ScanBranch, Probe, CacheIndex, EndBranch, FinishScan
<1>4. \E new : Continue(t, new)
  BY DEF Scan, ScanBranch, GoTo, Probe, CacheIndex, EndBranch, FinishScan
<1>5. PICK new : Continue(t, new)
  BY <1>4
<1>6. job'[t] = new /\ job' = [job EXCEPT ![t] = new]
  BY <1>1, <1>5, Becomes DEF Continue
<1> QED
  BY <1>2, <1>3, <1>6, Learns

-----------------------------------------------------------------------------
LEMMA SearchInit == Init => SearchInv
<1> SUFFICES ASSUME Init PROVE SearchInv
  OBVIOUS
<1>1. /\ \A b \in Branches : wallet.index[b] = 0
      /\ rows = <<>> /\ \A t \in Tasks : job[t] = Idle
      /\ holder = None /\ waiting = {} /\ overdue = {}
  BY DEF Init, LockInit
<1>2. Inv
  BY InvInit
<1>3. Idle.at \notin Held \cup {"locked", "storeWallet"} /\ Idle.op = "none"
  BY IdleOutside DEF Held
<1>4. \A t \in Tasks : Stages(job[t]) /\ Exact(job[t], wallet, rows) /\ Searched(job[t], wallet)
  BY <1>1, <1>3, IdleStages, OutsideExact DEF Searched
<1>5. TurnsKept
  BY <1>1, <1>3, WalletLockAssumption DEF TurnsKept
<1>6. Rising(rows) /\ Matches(wallet, rows)
  BY <1>1 DEF Rising, Matches, PathsIn
<1> QED
  BY <1>2, <1>4, <1>5, <1>6 DEF SearchInv, SettledInv

LEMMA SearchNext ==
  ASSUME UnderLock, SearchInv, [Next]_vars
  PROVE  SearchInv'
<1>1. Inv' /\ SettledInv
  BY InvNext DEF SearchInv, SettledInv
<1>2. ASSUME NEW t \in Tasks, NEW op \in Ops, Arrive(t, op) PROVE SearchInv'
  BY <1>1, <1>2, ArriveExact, ArriveSearched
<1>3. ASSUME NEW t \in Tasks, Serve(t) PROVE SearchInv'
  <2>1. CASE \/ CheckGap(t) \/ CheckActivity(t) \/ NoteActivity(t)
             \/ CreateAddress(t) \/ GetFirstAddress(t) \/ ChangeAddress(t)
    <3>1. SettledInv'
      BY <1>1, <2>1, CheckGapExact, CheckActivityExact, NoteActivityExact,
         CreateAddressExact, GetFirstAddressExact, ChangeAddressExact
    <3> QED
      BY <2>1, <3>1, CreationSearched
  <2>2. ~ChangeToAddress(t)
    BY <1>1, AtItsTurn DEF ChangeToAddress, SettledInv, Stages, UnderLock
  <2>3. CASE InsertAddresses(t) \/ StoreWallet(t) \/ MarkRunning(t) \/ MarkSuccess(t)
    <3>1. SettledInv'
      BY <1>1, <2>3, InsertAddressesExact, StoreWalletExact, MarkRunningExact, MarkSuccessExact
    <3> QED
      BY <2>3, <3>1, StoringSearched
  <2>4. ~AddAccess(t)
    BY <1>1 DEF AddAccess, At, SettledInv, Stages, UnderLock
  <2>5. CASE \/ Scan(t) \/ ScanBranch(t) \/ Probe(t) \/ CacheIndex(t)
             \/ EndBranch(t) \/ FinishScan(t)
    BY <1>1, <2>5, ScanningSearched
  <2> QED
    BY <1>3, <2>1, <2>2, <2>3, <2>4, <2>5 DEF Serve
<1>4. ASSUME NEW t \in Tasks, Busy(t) PROVE SearchInv'
  <2>1. SettledInv'
    BY <1>1, <1>4, BusyExact
  <2> QED
    BY <1>4, <2>1, Answered DEF Busy
<1>5. ASSUME NEW t \in Tasks PROVE ~LockExpires(t) /\ ~Crash(t)
  BY DEF LockExpires, Crash, UnderLock
<1>6. ASSUME NEW path \in Payable, Pay(path) PROVE SearchInv'
  <2>1. SettledInv' /\ UNCHANGED <<job, wallet>> /\ "payments" \in Faults
    BY <1>1, <1>6, PayExact DEF Pay
  <2> QED
    BY <2>1 DEF SearchInv, Searched, Asked
<1>7. CASE UNCHANGED vars
  <2>1. UNCHANGED <<wallet, rows, active, job, holder, waiting, overdue>>
    BY <1>7 DEF vars, lockVars
  <2> QED
    BY <1>1, <2>1 DEF SearchInv, SettledInv, TurnsKept, Searched, Unused
<1> QED
  BY <1>2, <1>3, <1>4, <1>5, <1>6, <1>7 DEF Next

LEMMA SearchInvariance ==
  ASSUME UnderLock
  PROVE  Spec => []SearchInv
<1>1. SearchInv /\ [Next]_vars => SearchInv'
  BY SearchNext
<1> QED
  BY <1>1, SearchInit, PTL DEF Spec

(* As long as only requests that take the wallet lock write the wallet, and
   nobody loses the lock or dies, no address is stored twice: simultaneous
   requests create different ones, and a scan starts where they ended. *)
THEOREM NoTwins ==
  ASSUME UnderLock
  PROVE  Spec => []NoAddressTwice
<1>1. SearchInv => NoAddressTwice
  <2> SUFFICES ASSUME SearchInv, NEW i \in 1..Len(rows), NEW j \in 1..Len(rows),
                      rows[i] = rows[j], i # j
               PROVE  FALSE
    BY DEF NoAddressTwice
  <2>1. rows \in Seq(Path) /\ Rising(rows)
    BY DEF SearchInv, SettledInv, Inv, TypeOK
  <2>2. rows[i][2] \in Nat /\ rows[i][1] = rows[j][1] /\ rows[i][2] = rows[j][2]
    BY <2>1, ElementOfSeq DEF Path
  <2>3. i \in Nat /\ j \in Nat
    BY <2>1, LenProperties
  <2>4. i < j \/ j < i
    BY <2>3
  <2> QED
    BY <2>1, <2>2, <2>4 DEF Rising
<1> QED
  BY <1>1, SearchInvariance, PTL

(* Under the same conditions, whenever the lock is free the stored addresses of
   a branch are exactly those below its index in the wallet, in the order of
   their indexes, with any number of requests, whatever insert or call of the
   explorer failed in between. *)
THEOREM RowsSettled ==
  ASSUME UnderLock
  PROVE  Spec => []SettledRows
<1>1. SearchInv => SettledRows
  <2> SUFFICES ASSUME SearchInv, holder = None
               PROVE  /\ \A b \in Branches : {path \in Stored : path[1] = b} =
                                               {<<b, i>> : i \in 0..(wallet.index[b] - 1)}
                      /\ Rising(rows)
    BY DEF SettledRows, Rising
  <2>1. /\ rows \in Seq(Path) /\ Rising(rows) /\ wallet \in Wallet
        /\ \A t \in Tasks : job[t].at # "storeWallet"
    BY WalletLockAssumption DEF SearchInv, SettledInv, TurnsKept, Held, Inv, TypeOK
  <2>2. Matches(wallet, rows)
    BY <2>1 DEF SearchInv, SettledInv
  <2>3. ASSUME NEW b \in Branches
        PROVE  {path \in Stored : path[1] = b} = {<<b, i>> : i \in 0..(wallet.index[b] - 1)}
    <3>1. wallet.index[b] \in Nat
      BY <2>1 DEF Wallet
    <3>2. \A i \in Nat : i \in 0..(wallet.index[b] - 1) <=> i < wallet.index[b]
      BY <3>1
    <3>3. \A i \in 0..(wallet.index[b] - 1) : i \in Nat
      BY <3>1
    <3>4. \A i \in Nat : <<b, i>> \in Stored <=> i < wallet.index[b]
      BY <2>2 DEF Matches, Stored
    <3>5. ASSUME NEW path \in Stored, path[1] = b
          PROVE  path = <<b, path[2]>> /\ path[2] \in Nat
      <4>1. path \in Path
        BY <2>1, ElementOfSeq DEF Stored, PathsIn
      <4> QED
        BY <3>5, <4>1 DEF Path
    <3> QED
      BY <3>2, <3>3, <3>4, <3>5
  <2> QED
    BY <2>1, <2>3
<1> QED
  BY <1>1, SearchInvariance, PTL

(* Under the same conditions, and unless somebody pays while it runs, a scan
   that ends without an error leaves no used address within the gap of what the
   wallet then holds, for any gap and any used addresses: also when it takes up
   where a failed scan stopped or starts from a cached index. *)
THEOREM ScanComplete ==
  ASSUME UnderLock, "payments" \notin Faults
  PROVE  Spec => ScanFindsAll
<1> DEFINE Found(t) == /\ job[t].op = "scan" /\ job[t].at = "unmark" /\ job'[t] = Idle
                       /\ wallet' = job[t].doc /\ ~job[t].failed
                       => \A b \in Branches : \A path \in active :
                            path[1] = b =>
                              ~(path[2] \in wallet'.index[b]..(wallet'.index[b] + ScanGap - 1))
<1>1. SearchInv => \A t \in Tasks : Found(t)
  <2> SUFFICES ASSUME SearchInv, NEW t \in Tasks,
                      job[t].op = "scan", job[t].at = "unmark", wallet' = job[t].doc,
                      ~job[t].failed, NEW b \in Branches, NEW path \in active, path[1] = b,
                      path[2] \in wallet'.index[b]..(wallet'.index[b] + ScanGap - 1)
               PROVE  FALSE
    OBVIOUS
  <2>1. Unused(b, job[t].doc)
    BY DEF SearchInv, Searched, Asked
  <2>2. Inv /\ job[t].doc \in Wallet
    BY JobOf DEF SearchInv, SettledInv, Points, Sane
  <2>3. path \in Path /\ ScanGap \in Nat
    BY <2>2, AddressesAssumption DEF Inv, TypeOK
  <2>4. path = <<b, path[2]>> /\ path[2] \in Nat /\ wallet'.index[b] \in Nat
    BY <2>2, <2>3 DEF Path, Wallet
  <2>5. wallet'.index[b] <= path[2] /\ path[2] < wallet'.index[b] + ScanGap
    BY <2>3, <2>4
  <2> QED
    BY <2>1, <2>4, <2>5 DEF Unused
<1>2. Spec => []SearchInv
  BY SearchInvariance
<1>3. Spec => [][\A t \in Tasks : Found(t)]_vars
  <2> HIDE DEF Found
  <2> QED
    BY <1>1, <1>2, PTL
<1> QED
  BY <1>3 DEF ScanFindsAll
=============================================================================
