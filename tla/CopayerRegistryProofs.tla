------------------------ MODULE CopayerRegistryProofs ------------------------
(***************************************************************************)
(* Proofs about CopayerRegistry: for any number of wallets, copayers and   *)
(* requests.                                                               *)
(*                                                                         *)
(* First, whatever overlaps, dies or times out, every wallet record is     *)
(* sound. Records are written back as a whole and without a common lock,   *)
(* so the invariant (Inv) is about each record alone: the stored ones and  *)
(* the copy each request has in memory. A copy that a join is about to     *)
(* extend was read with a place free and without the copayer, and stays so *)
(* while it waits.                                                         *)
(*                                                                         *)
(* Second, what relates a record to an earlier one. KnownInv says that a   *)
(* copy in memory lacks nothing but what may be written meanwhile by those *)
(* whom neither the lock of the wallet nor the order of creation keeps     *)
(* away, and so no join or key is undone.                                  *)
(*                                                                         *)
(* Third, the rows of the lookup table. RewriteInv follows the three       *)
(* writes of each rewrite that nothing tears, whatever happens to others;  *)
(* CrashInv says what is left of those that a crash cuts short.            *)
(***************************************************************************)
EXTENDS CopayerRegistry, SequenceTheorems, TLAPS

(* What a request has in memory, by where it is. *)
Ready(j) ==
  /\ j.op \in {"createWallet", "joinWallet"} => j.wallet \in Wallets
  /\ j.op \in {"joinWallet", "addAccess"} => j.copayer \in Copayers /\ j.key \in Keys
  /\ j.at \in {"fetch", "remove", "insert", "store"} => j.wallet \in Wallets
  /\ j.at \in {"lookup", "remove", "insert", "store"} => j.doc \in Doc /\ Sound(j.doc)
  /\ j.at = "lookup" => Len(j.doc.copayers) # N /\ j.copayer \notin Members(j.doc)
  /\ j.at = "fetch" => j.row \in Row

Inv ==
  /\ TypeOK
  /\ \A t \in Tasks : Ready(job[t])
  /\ WalletsSound

-----------------------------------------------------------------------------
LEMMA FunctionIsSeq ==
  ASSUME NEW S, NEW n \in Nat, NEW f \in [1..n -> S]
  PROVE  f \in Seq(S) /\ Len(f) = n
  BY LenProperties

(* The place of a copayer and its id determine each other. *)
LEMMA MembersDef ==
  ASSUME NEW doc \in Doc, NEW c
  PROVE  c \in Members(doc) <=> \E i \in 1..Len(doc.copayers) : doc.copayers[i].id = c
  BY DEF Members

LEMMA NewWalletSound == NewWallet \in Doc /\ Sound(NewWallet)
<1>1. NewWallet \in Doc
  BY EmptySeq DEF NewWallet, Doc
<1>2. Len(NewWallet.copayers) = 0
  BY EmptySeq DEF NewWallet
<1>3. Sound(NewWallet)
  BY <1>2, CopayerRegistryAssumption, EmptySeq DEF NewWallet, Sound
<1> QED
  BY <1>1, <1>3

(* addCopayer on a copy with a place free and without the copayer. *)
LEMMA AddCopayerSound ==
  ASSUME NEW doc \in Doc, Sound(doc), NEW c \in Copayers, NEW key \in Keys,
         Len(doc.copayers) # N, c \notin Members(doc)
  PROVE  AddCopayer(doc, c, key) \in Doc /\ Sound(AddCopayer(doc, c, key))
<1> DEFINE new == [id |-> c, keys |-> <<key>>]
           all == Append(doc.copayers, new)
           ring == [i \in 1..Len(all) |-> all[i].id]
           result == AddCopayer(doc, c, key)
<1>1. /\ doc.copayers \in Seq(Copayer) /\ doc.publicKeyRing \in Seq(Copayers)
      /\ doc.status \in {"pending", "complete"}
  BY DEF Doc
<1>2. new \in Copayer
  BY DEF Copayer
<1>3. /\ all \in Seq(Copayer) /\ Len(all) = Len(doc.copayers) + 1
      /\ \A i \in 1..Len(doc.copayers) : all[i] = doc.copayers[i]
      /\ all[Len(doc.copayers) + 1] = new
  BY <1>1, <1>2, AppendProperties
<1>4. Len(doc.copayers) \in Nat /\ Len(doc.copayers) < N /\ N \in Nat \ {0}
  BY <1>1, LenProperties, CopayerRegistryAssumption DEF Sound
<1>5. \A i, j \in 1..Len(all) : all[i].id = all[j].id => i = j
  <2> SUFFICES ASSUME NEW i \in 1..Len(all), NEW j \in 1..Len(all), all[i].id = all[j].id
               PROVE  i = j
    OBVIOUS
  <2>1. \A k \in 1..Len(doc.copayers) : doc.copayers[k].id # c
    BY MembersDef
  <2>2. \A k, l \in 1..Len(doc.copayers) :
          doc.copayers[k].id = doc.copayers[l].id => k = l
    BY DEF Sound
  <2>3. new.id = c
    OBVIOUS
  <2> HIDE DEF new, all
  <2> DEFINE L == Len(doc.copayers)
  <2>4. i \in 1..L \/ i = L + 1
    BY <1>3, <1>4
  <2>5. j \in 1..L \/ j = L + 1
    BY <1>3, <1>4
  <2>6. \A k \in 1..L : all[k] = doc.copayers[k] /\ all[k].id # c
    BY <1>3, <2>1
  <2>7. all[L + 1].id = c
    BY <1>3, <2>3
  <2> HIDE DEF L
  <2>8. CASE i \in 1..L /\ j \in 1..L
    BY <2>8, <2>6, <2>2 DEF L
  <2> QED
    BY <2>4, <2>5, <2>6, <2>7, <2>8
<1>6. ring \in Seq(Copayers)
  <2> HIDE DEF new, all
  <2>1. \A i \in 1..Len(all) : all[i].id \in Copayers
    <3>1. \A i \in 1..Len(all) : all[i] \in Copayer
      BY <1>3, ElementOfSeq
    <3> QED
      BY <3>1 DEF Copayer
  <2>2. Len(all) \in Nat /\ ring \in [1..Len(all) -> Copayers]
    BY <2>1, <1>3, <1>4
  <2> HIDE DEF ring
  <2> QED
    BY <2>2, FunctionIsSeq
<1>7. CASE Len(all) < N
  <2>1. result = [doc EXCEPT !.copayers = all]
    BY <1>7 DEF AddCopayer
  <2> HIDE DEF all, result
  <2>2. /\ result.copayers = all /\ result.status = doc.status
        /\ result.publicKeyRing = doc.publicKeyRing
    BY <2>1 DEF Doc
  <2>3. result \in Doc
    BY <2>1, <1>1, <1>3 DEF Doc
  <2>4. doc.status # "complete" /\ doc.publicKeyRing = <<>>
    BY <1>4 DEF Sound
  <2>5. Sound(result)
    BY <2>2, <2>4, <1>5, <1>7, <1>3, <1>4 DEF Sound
  <2> QED
    BY <2>3, <2>5 DEF result
<1>8. CASE ~(Len(all) < N)
  <2>1. result = [status |-> "complete", copayers |-> all, publicKeyRing |-> ring]
    BY <1>8 DEF AddCopayer
  <2>2. Len(all) = N
    BY <1>8, <1>3, <1>4
  <2>3. result.publicKeyRing = Ids(result)
    BY <2>1 DEF Ids
  <2> HIDE DEF all, ring, result
  <2>4. /\ result.copayers = all /\ result.status = "complete"
    BY <2>1
  <2>5. result \in Doc
    BY <2>1, <1>3, <1>6 DEF Doc
  <2>6. Sound(result)
    BY <2>2, <2>3, <2>4, <1>5, <1>4 DEF Sound
  <2> QED
    BY <2>5, <2>6 DEF result
<1> QED
  BY <1>7, <1>8

(* addCopayerRequestKey leaves everything but the keys alone. *)
LEMMA AddKeySound ==
  ASSUME NEW doc \in Doc, Sound(doc), NEW c \in Copayers, NEW key \in Keys
  PROVE  AddKey(doc, c, key) \in Doc /\ Sound(AddKey(doc, c, key))
<1> DEFINE old == doc.copayers
           all == [i \in 1..Len(old) |-> IF old[i].id = c
                                         THEN [id |-> c, keys |-> <<key>> \o old[i].keys]
                                         ELSE old[i]]
           result == AddKey(doc, c, key)
<1>1. /\ old \in Seq(Copayer) /\ Len(old) \in Nat
      /\ doc.publicKeyRing \in Seq(Copayers) /\ doc.status \in {"pending", "complete"}
  BY LenProperties DEF Doc
<1>2. \A i \in 1..Len(old) : all[i] \in Copayer /\ all[i].id = old[i].id
  <2> SUFFICES ASSUME NEW i \in 1..Len(old)
               PROVE  all[i] \in Copayer /\ all[i].id = old[i].id
    OBVIOUS
  <2>1. old[i] \in Copayer
    BY <1>1, ElementOfSeq
  <2>2. <<key>> \o old[i].keys \in Seq(Keys)
    BY <2>1, ConcatProperties DEF Copayer
  <2> QED
    BY <2>1, <2>2 DEF Copayer
<1>3. all \in Seq(Copayer) /\ Len(all) = Len(old)
  <2>1. all \in [1..Len(old) -> Copayer]
    BY <1>2
  <2> HIDE DEF all
  <2> QED
    BY <2>1, <1>1, FunctionIsSeq
<1>4. result = [doc EXCEPT !.copayers = all]
  BY DEF AddKey
<1>5. Ids(result) = Ids(doc)
  BY <1>2, <1>3, <1>4 DEF Ids, Doc
<1> HIDE DEF all, result
<1>6. /\ result.copayers = all /\ result.status = doc.status
      /\ result.publicKeyRing = doc.publicKeyRing
  BY <1>4 DEF Doc
<1>7. result \in Doc
  BY <1>1, <1>3, <1>4 DEF Doc
<1>8. Sound(result)
  BY <1>2, <1>3, <1>5, <1>6 DEF Sound
<1> QED
  BY <1>7, <1>8 DEF result

(* The rows of a wallet's copayers. *)
LEMMA RowsForType ==
  ASSUME NEW w \in Wallets, NEW doc \in Doc
  PROVE  RowsFor(w, doc) \subseteq Row
<1>1. \A i \in 1..Len(doc.copayers) : doc.copayers[i] \in Copayer
  BY ElementOfSeq DEF Doc
<1>2. \A i \in 1..Len(doc.copayers) :
        [copayerId |-> doc.copayers[i].id, walletId |-> w, keys |-> doc.copayers[i].keys] \in Row
  BY <1>1 DEF Row, Copayer
<1> QED
  BY <1>2 DEF RowsFor

-----------------------------------------------------------------------------
LEMMA JobChange ==
  ASSUME Inv, NEW t \in Tasks, NEW j \in Job \cup {Idle}, Ready(j),
         job' = [job EXCEPT ![t] = j]
  PROVE  job' \in [Tasks -> Job \cup {Idle}] /\ \A u \in Tasks : Ready(job'[u])
BY DEF Inv, TypeOK

LEMMA IdleReady == Ready(Idle)
BY DEF Ready, Idle

LEMMA UnlockedType ==
  ASSUME Inv, NEW tasks
  PROVE  Unlocked(tasks) \in [Wallets -> Tasks \cup {None}]
BY DEF Inv, TypeOK, Unlocked

LEMMA AnswerKeeps ==
  ASSUME Inv, NEW t \in Tasks, Answer(t)
  PROVE  /\ job' \in [Tasks -> Job \cup {Idle}] /\ \A u \in Tasks : Ready(job'[u])
         /\ holder' \in [Wallets -> Tasks \cup {None}]
<1>1. job' = [job EXCEPT ![t] = Idle]
  BY DEF Answer
<1> QED
  BY <1>1, JobChange, IdleReady, UnlockedType DEF Answer

LEMMA ContinueKeeps ==
  ASSUME Inv, NEW t \in Tasks, NEW j \in Job, Ready(j), Continue(t, j)
  PROVE  /\ job' \in [Tasks -> Job \cup {Idle}] /\ \A u \in Tasks : Ready(job'[u])
         /\ holder' \in [Wallets -> Tasks \cup {None}]
<1>1. job' = [job EXCEPT ![t] = j]
  BY DEF Continue
<1> QED
  BY <1>1, JobChange DEF Continue, Inv, TypeOK

(* A step that leaves the database alone. *)
LEMMA SameData ==
  ASSUME Inv, UNCHANGED <<wallets, lookup>>,
         mishaps' = mishaps \/ mishaps' \subseteq FaultKinds,
         torn' = torn \/ torn' \subseteq Wallets,
         job' \in [Tasks -> Job \cup {Idle}], \A u \in Tasks : Ready(job'[u]),
         holder' \in [Wallets -> Tasks \cup {None}]
  PROVE  Inv'
BY DEF Inv, TypeOK, WalletsSound

(* A task at work is not idle. *)
LEMMA AtWork ==
  ASSUME Inv, NEW t \in Tasks, job[t].at # "idle"
  PROVE  job[t] \in Job /\ Ready(job[t])
BY DEF Inv, TypeOK, Idle

LEMMA StopKeeps ==
  ASSUME Inv, NEW tasks, Stop(tasks)
  PROVE  Inv'
<1>1. job' = [t \in Tasks |-> IF t \in tasks THEN Idle ELSE job[t]]
  BY DEF Stop
<1>2. job' \in [Tasks -> Job \cup {Idle}] /\ \A u \in Tasks : Ready(job'[u])
  BY <1>1, IdleReady DEF Inv, TypeOK
<1>3. holder' \in [Wallets -> Tasks \cup {None}]
  BY UnlockedType DEF Stop
<1>4. mishaps' \subseteq FaultKinds /\ torn' \subseteq Wallets
  BY DEF Stop, Inv, TypeOK, FaultKinds
<1> QED
  BY <1>2, <1>3, <1>4, SameData DEF Stop

LEMMA ArriveKeeps ==
  ASSUME Inv, NEW t \in Tasks, NEW op \in Ops, NEW w \in Wallets, NEW copayer \in Copayers,
         NEW key \in Keys, Arrive(t, op, w, copayer, key)
  PROVE  Inv'
<1> DEFINE j == [Idle EXCEPT !.op = op, !.at = "start",
                   !.wallet = IF op = "addAccess" THEN None ELSE w,
                   !.copayer = IF op = "createWallet" THEN None ELSE copayer,
                   !.key = IF op = "createWallet" THEN None ELSE key]
<1>1. op \in Requests
  BY CopayerRegistryAssumption
<1>2. j \in Job
  BY <1>1 DEF Job, Idle, Points
<1>3. Ready(j)
  BY <1>1 DEF Ready, Idle, Requests
<1>4. Continue(t, j)
  BY DEF Arrive
<1>5. mishaps' \subseteq FaultKinds
  BY DEF Arrive, Overlapping, Inv, TypeOK, FaultKinds
<1>6. UNCHANGED <<wallets, lookup, torn>>
  BY DEF Arrive
<1> HIDE DEF j
<1> QED
  BY <1>2, <1>3, <1>4, <1>5, <1>6, ContinueKeeps, SameData

LEMMA CreateWalletKeeps ==
  ASSUME Inv, NEW t \in Tasks, CreateWallet(t)
  PROVE  Inv'
<1>1. CASE Answer(t)
  BY <1>1, AnswerKeeps, SameData DEF CreateWallet
<1>2. CASE ~Answer(t)
  <2> DEFINE j == [job[t] EXCEPT !.doc = NewWallet, !.at = "store"]
  <2>1. job[t] \in Job /\ Ready(job[t]) /\ job[t].op = "createWallet"
    BY AtWork DEF CreateWallet, At
  <2>2. j \in Job
    BY <2>1, NewWalletSound DEF Job, Points
  <2>3. Ready(j)
    BY <2>1, NewWalletSound DEF Ready, Job
  <2>4. Continue(t, j)
    BY <1>2 DEF CreateWallet
  <2> HIDE DEF j
  <2> QED
    BY <2>2, <2>3, <2>4, ContinueKeeps, SameData DEF CreateWallet
<1> QED
  BY <1>1, <1>2

(* Under the lock or not: what matters is what was read. *)
LEMMA JoinWalletKeeps ==
  ASSUME Inv, NEW t \in Tasks, JoinWallet(t)
  PROVE  Inv'
<1>1. CASE Answer(t)
  BY <1>1, AnswerKeeps, SameData DEF JoinWallet
<1>2. CASE ~Answer(t)
  <2> DEFINE w == job[t].wallet
             j == [job[t] EXCEPT !.doc = wallets[w], !.at = "lookup"]
  <2>1. job[t] \in Job /\ Ready(job[t]) /\ job[t].op = "joinWallet" /\ w \in Wallets
    BY AtWork DEF JoinWallet, At, Ready
  <2>2. /\ MayJoin(wallets[w], job[t].copayer)
        /\ holder' = [holder EXCEPT ![w] = t]
        /\ job' = [job EXCEPT ![t].doc = wallets[w], ![t].at = "lookup"]
    BY <1>2 DEF JoinWallet
  <2>3. wallets[w] \in Doc /\ Sound(wallets[w])
    BY <2>1, <2>2 DEF Inv, TypeOK, WalletsSound, MayJoin
  <2>4. j \in Job
    BY <2>1, <2>3 DEF Job, Points
  <2>5. Ready(j)
    BY <2>1, <2>2, <2>3 DEF Ready, Job, MayJoin
  <2>6. job' = [job EXCEPT ![t] = j]
    BY <2>2 DEF Inv, TypeOK
  <2>7. holder' \in [Wallets -> Tasks \cup {None}]
    BY <2>2 DEF Inv, TypeOK
  <2> HIDE DEF j, w
  <2> QED
    BY <2>4, <2>5, <2>6, <2>7, JobChange, SameData DEF JoinWallet
<1> QED
  BY <1>1, <1>2

LEMMA AddCopayerToWalletKeeps ==
  ASSUME Inv, NEW t \in Tasks, AddCopayerToWallet(t)
  PROVE  Inv'
<1>1. CASE Answer(t)
  BY <1>1, AnswerKeeps, SameData DEF AddCopayerToWallet
<1>2. CASE ~Answer(t)
  <2> DEFINE new == AddCopayer(job[t].doc, job[t].copayer, job[t].key)
             j == [job[t] EXCEPT !.at = "remove", !.doc = new]
  <2>1. job[t] \in Job /\ Ready(job[t]) /\ job[t].op = "joinWallet" /\ job[t].at = "lookup"
    BY AtWork DEF AddCopayerToWallet, At
  <2>2. new \in Doc /\ Sound(new)
    BY <2>1, AddCopayerSound DEF Ready
  <2>3. Continue(t, j)
    BY <1>2 DEF AddCopayerToWallet
  <2> HIDE DEF new
  <2>4. j \in Job
    BY <2>1, <2>2 DEF Job, Points
  <2>5. Ready(j)
    BY <2>1, <2>2 DEF Ready, Job
  <2> HIDE DEF j
  <2> QED
    BY <2>3, <2>4, <2>5, ContinueKeeps, SameData DEF AddCopayerToWallet
<1> QED
  BY <1>1, <1>2

LEMMA AddAccessKeeps ==
  ASSUME Inv, NEW t \in Tasks, AddAccess(t)
  PROVE  Inv'
<1>1. CASE Answer(t)
  BY <1>1, AnswerKeeps, SameData DEF AddAccess
<1>2. CASE ~Answer(t)
  <2>1. PICK row \in lookup :
          Continue(t, [job[t] EXCEPT !.row = row, !.wallet = row.walletId, !.at = "fetch"])
    BY <1>2 DEF AddAccess
  <2> DEFINE j == [job[t] EXCEPT !.row = row, !.wallet = row.walletId, !.at = "fetch"]
  <2>2. job[t] \in Job /\ Ready(job[t]) /\ job[t].op = "addAccess"
    BY AtWork DEF AddAccess, At
  <2>3. row \in Row /\ row.walletId \in Wallets
    BY DEF Inv, TypeOK, Row
  <2>4. j \in Job
    BY <2>2, <2>3 DEF Job, Points
  <2>5. Ready(j)
    BY <2>2, <2>3 DEF Ready, Job
  <2>6. Continue(t, j)
    BY <2>1
  <2> HIDE DEF j
  <2> QED
    BY <2>4, <2>5, <2>6, ContinueKeeps, SameData DEF AddAccess
<1> QED
  BY <1>1, <1>2

LEMMA AddKeyToCopayerKeeps ==
  ASSUME Inv, NEW t \in Tasks, AddKeyToCopayer(t)
  PROVE  Inv'
<1> DEFINE w == job[t].wallet
           new == AddKey(wallets[w], job[t].copayer, job[t].key)
           j == [job[t] EXCEPT !.doc = new, !.at = "remove"]
<1>1. CASE Answer(t) /\ UNCHANGED <<wallets, lookup, mishaps, torn>>
  BY <1>1, AnswerKeeps, SameData
<1>2. CASE \E others \in SUBSET Tasks : Stop({t} \cup others)
  BY <1>2, StopKeeps
<1>3. CASE /\ wallets[w] # None
           /\ Continue(t, j)
           /\ UNCHANGED <<wallets, lookup, mishaps, torn>>
  <2>1. job[t] \in Job /\ Ready(job[t]) /\ job[t].op = "addAccess" /\ w \in Wallets
    BY AtWork DEF AddKeyToCopayer, At, Ready
  <2>2. wallets[w] \in Doc /\ Sound(wallets[w])
    BY <1>3, <2>1 DEF Inv, TypeOK, WalletsSound
  <2>3. new \in Doc /\ Sound(new)
    BY <2>1, <2>2, AddKeySound DEF Ready
  <2> HIDE DEF new
  <2>4. j \in Job
    BY <2>1, <2>3 DEF Job, Points
  <2>5. Ready(j)
    BY <2>1, <2>3 DEF Ready, Job
  <2> HIDE DEF j, w
  <2> QED
    BY <1>3, <2>4, <2>5, ContinueKeeps, SameData
<1> QED
  BY <1>1, <1>2, <1>3 DEF AddKeyToCopayer

LEMMA RemoveRowsKeeps ==
  ASSUME Inv, NEW t \in Tasks, RemoveRows(t)
  PROVE  Inv'
<1> DEFINE j == [job[t] EXCEPT !.at = "insert"]
<1>1. job[t] \in Job /\ Ready(job[t]) /\ job[t].at = "remove"
  BY AtWork DEF RemoveRows
<1>2. j \in Job /\ Ready(j)
  BY <1>1 DEF Job, Points, Ready
<1>3. Continue(t, j)
  BY DEF RemoveRows, GoTo
<1>4. torn' \subseteq Wallets
  BY <1>1 DEF RemoveRows, Ready, Inv, TypeOK
<1> HIDE DEF j
<1> QED
  BY <1>2, <1>3, <1>4, ContinueKeeps DEF RemoveRows, Inv, TypeOK, WalletsSound

LEMMA InsertRowsKeeps ==
  ASSUME Inv, NEW t \in Tasks, InsertRows(t)
  PROVE  Inv'
<1> DEFINE j == [job[t] EXCEPT !.at = "store"]
<1>1. job[t] \in Job /\ Ready(job[t]) /\ job[t].at = "insert"
  BY AtWork DEF InsertRows
<1>2. j \in Job /\ Ready(j)
  BY <1>1 DEF Job, Points, Ready
<1>3. Continue(t, j)
  BY DEF InsertRows, GoTo
<1>4. lookup' \subseteq Row
  BY <1>1, RowsForType DEF InsertRows, Ready, Inv, TypeOK
<1> HIDE DEF j
<1> QED
  BY <1>2, <1>3, <1>4, ContinueKeeps DEF InsertRows, Inv, TypeOK, WalletsSound

LEMMA StoreWalletKeeps ==
  ASSUME Inv, NEW t \in Tasks, StoreWallet(t)
  PROVE  Inv'
<1>1. job[t].doc \in Doc /\ Sound(job[t].doc) /\ job[t].wallet \in Wallets
  BY AtWork DEF StoreWallet, Ready
<1>2. wallets' = [wallets EXCEPT ![job[t].wallet] = job[t].doc]
  BY DEF StoreWallet
<1>3. wallets' \in [Wallets -> Doc \cup {None}] /\ WalletsSound'
  BY <1>1, <1>2 DEF Inv, TypeOK, WalletsSound
<1> QED
  BY <1>3, AnswerKeeps DEF StoreWallet, Inv, TypeOK

-----------------------------------------------------------------------------
(* The invariant holds at first, whatever the constants are. *)
LEMMA InvInit == Init => Inv
<1> SUFFICES ASSUME Init PROVE Inv
  OBVIOUS
<1>1. TypeOK
  BY NewWalletSound DEF Init, TypeOK
<1>2. \A t \in Tasks : Ready(job[t])
  BY IdleReady DEF Init
<1>3. WalletsSound
  BY NewWalletSound DEF Init, WalletsSound
<1> QED
  BY <1>1, <1>2, <1>3 DEF Inv

(* Every step keeps it: one lemma for each action. *)
LEMMA InvNext == Inv /\ [Next]_vars => Inv'
<1> SUFFICES ASSUME Inv, [Next]_vars PROVE Inv'
  OBVIOUS
<1>1. ASSUME NEW t \in Tasks, NEW op \in Ops, NEW w \in Wallets, NEW copayer \in Copayers,
             NEW key \in Keys, Arrive(t, op, w, copayer, key)
      PROVE  Inv'
  BY <1>1, ArriveKeeps
<1>2. ASSUME NEW t \in Tasks, Serve(t) PROVE Inv'
  BY <1>2, CreateWalletKeeps, JoinWalletKeeps, AddCopayerToWalletKeeps, AddAccessKeeps,
     AddKeyToCopayerKeeps, RemoveRowsKeeps, InsertRowsKeeps, StoreWalletKeeps DEF Serve
<1>3. ASSUME NEW t \in Tasks, Busy(t) PROVE Inv'
  BY <1>3, AnswerKeeps, SameData DEF Busy
<1>4. ASSUME NEW t \in Tasks, Crash(t) PROVE Inv'
  BY <1>4, StopKeeps DEF Crash
<1>5. ASSUME NEW w \in Wallets, LockExpires(w) PROVE Inv'
  BY <1>5 DEF LockExpires, Inv, TypeOK, WalletsSound, FaultKinds
<1>6. CASE UNCHANGED vars
  BY <1>6 DEF vars, Inv, TypeOK, WalletsSound
<1> QED
  BY <1>1, <1>2, <1>3, <1>4, <1>5, <1>6 DEF Next

(* Every record is sound, and every copy of one in the memory of a request. *)
THEOREM Invariance == Spec => []Inv
BY InvInit, InvNext, PTL DEF Spec

(* The wallets, the lookup table, the locks and the requests in flight have
   their types: in particular every lookup row names a wallet. *)
THEOREM TypeCorrect == Spec => []TypeOK
<1>1. Inv => TypeOK
  BY DEF Inv
<1> QED
  BY <1>1, Invariance, PTL

(* No wallet ever has a copayer twice or one too many, and it is complete, with
   its copayers as its key ring, exactly when the last place is taken: also
   when two joins, two creations or a join and an addAccess write over each
   other, a lock expires or a process dies. *)
THEOREM WalletsStaySound == Spec => []WalletsSound
<1>1. Inv => WalletsSound
  BY DEF Inv
<1> QED
  BY <1>1, Invariance, PTL

-----------------------------------------------------------------------------
(* What a request that is going to write a wallet back knows of it.  A join
   holds its lock and knows it exactly.  An addAccess takes no lock, but knows
   of the wallet that it is full, so that only another addAccess can have
   changed it since.  A createWallet knows that there is none. *)
Rewriting == {"remove", "insert", "store"}

Stages(j) ==
  /\ j.op = "createWallet" => j.at \in {"start", "store"}
  /\ j.op = "addAccess" => j.at # "lookup"

OneAtATime ==
  /\ "twice" \notin mishaps =>
       \A t, u \in Tasks : job[t].op = "createWallet" /\ job[u].op = "createWallet" => t = u
  /\ "overlap" \notin mishaps =>
       \A t, u \in Tasks : job[t].op = "addAccess" /\ job[u].op = "addAccess" => t = u
  /\ "expiry" \notin mishaps =>
       \A t \in Tasks : job[t].op = "joinWallet" /\ job[t].at # "start"
                          => holder[job[t].wallet] = t

CreationFresh(j) ==
  j.op = "createWallet" /\ j.at = "store" => wallets[j.wallet] = None /\ j.doc = NewWallet

JoinFresh(j) ==
  /\ j.op = "joinWallet" /\ j.at = "lookup" =>
       wallets[j.wallet] # None /\ j.doc = wallets[j.wallet]
  /\ j.op = "joinWallet" /\ j.at \in Rewriting =>
       /\ wallets[j.wallet] # None
       /\ Len(wallets[j.wallet].copayers) # N
       /\ j.copayer \notin Members(wallets[j.wallet])
       /\ j.doc = AddCopayer(wallets[j.wallet], j.copayer, j.key)

AccessFresh(j) ==
  j.op = "addAccess" /\ j.at \in Rewriting =>
    /\ wallets[j.wallet] # None
    /\ Len(wallets[j.wallet].copayers) = N
    /\ Ids(j.doc) = Ids(wallets[j.wallet])
    /\ "overlap" \notin mishaps => j.doc = AddKey(wallets[j.wallet], j.copayer, j.key)

Fresh(j) == CreationFresh(j) /\ JoinFresh(j) /\ AccessFresh(j)

Calm == mishaps \cap {"expiry", "twice"} = {}

KnownInv ==
  /\ Inv
  /\ \A t \in Tasks : Stages(job[t])
  /\ OneAtATime
  /\ Calm => \A t \in Tasks : Fresh(job[t])

-----------------------------------------------------------------------------
(* What a rewrite does to the copayers and their keys. *)
Continued(new, old) ==
  /\ Len(old.copayers) <= Len(new.copayers)
  /\ \A i \in 1..Len(old.copayers) :
       /\ new.copayers[i].id = old.copayers[i].id
       /\ \A k \in 1..Len(old.copayers[i].keys) :
            \E l \in 1..Len(new.copayers[i].keys) :
              new.copayers[i].keys[l] = old.copayers[i].keys[k]

LEMMA AddCopayerContinues ==
  ASSUME NEW doc \in Doc, NEW c, NEW key
  PROVE  /\ AddCopayer(doc, c, key).copayers = Append(doc.copayers, [id |-> c, keys |-> <<key>>])
         /\ Continued(AddCopayer(doc, c, key), doc)
<1> DEFINE new == [id |-> c, keys |-> <<key>>]
           all == Append(doc.copayers, new)
<1>1. doc.copayers \in Seq(Copayer)
  BY DEF Doc
<1>2. AddCopayer(doc, c, key).copayers = all
  BY DEF AddCopayer, Doc
<1>3. /\ Len(all) = Len(doc.copayers) + 1 /\ Len(doc.copayers) \in Nat
      /\ \A i \in 1..Len(doc.copayers) : all[i] = doc.copayers[i]
  BY <1>1
<1> HIDE DEF all
<1>4. Continued(AddCopayer(doc, c, key), doc)
  BY <1>2, <1>3 DEF Continued
<1> QED
  BY <1>2, <1>4 DEF all

LEMMA AddKeyContinues ==
  ASSUME NEW doc \in Doc, NEW c, NEW key \in Keys
  PROVE  /\ Continued(AddKey(doc, c, key), doc)
         /\ Len(AddKey(doc, c, key).copayers) = Len(doc.copayers)
         /\ Ids(AddKey(doc, c, key)) = Ids(doc)
<1> DEFINE old == doc.copayers
           all == [i \in 1..Len(old) |-> IF old[i].id = c
                                         THEN [id |-> c, keys |-> <<key>> \o old[i].keys]
                                         ELSE old[i]]
           result == AddKey(doc, c, key)
<1>1. old \in Seq(Copayer) /\ Len(old) \in Nat /\ \A i \in 1..Len(old) : old[i] \in Copayer
  BY ElementOfSeq DEF Doc
<1>2. result.copayers = all
  BY DEF AddKey, Doc
<1> HIDE DEF old, result
<1>3. Len(all) = Len(old)
  BY <1>1, FunctionIsSeq
<1>4. \A i \in 1..Len(old) : all[i].id = old[i].id
  OBVIOUS
<1>5. ASSUME NEW i \in 1..Len(old), NEW k \in 1..Len(old[i].keys)
      PROVE  \E l \in 1..Len(all[i].keys) : all[i].keys[l] = old[i].keys[k]
  <2>1. CASE old[i].id = c
    <3> DEFINE more == <<key>> \o old[i].keys
    <3>1. all[i].keys = more
      BY <2>1
    <3>2. old[i].keys \in Seq(Keys) /\ <<key>> \in Seq(Keys) /\ Len(<<key>>) = 1
      BY <1>1 DEF Copayer
    <3>3. Len(more) = 1 + Len(old[i].keys) /\ Len(old[i].keys) \in Nat
      BY <3>2, ConcatProperties, LenProperties
    <3>4. k + 1 \in 1..Len(more)
      BY <3>3
    <3>5. more[k + 1] = old[i].keys[k]
      BY <3>2, <3>3, <3>4, ConcatProperties
    <3> HIDE DEF more, all
    <3> QED
      BY <3>1, <3>4, <3>5
  <2>2. CASE old[i].id # c
    BY <2>2
  <2> QED
    BY <2>1, <2>2
<1> HIDE DEF all
<1>6. Continued(result, doc) /\ Len(result.copayers) = Len(doc.copayers)
  BY <1>1, <1>2, <1>3, <1>4, <1>5 DEF Continued, old
<1>7. Ids(result) = Ids(doc)
  BY <1>2, <1>3, <1>4 DEF Ids, old
<1> QED
  BY <1>6, <1>7 DEF result

LEMMA ContinuedIds ==
  ASSUME NEW new \in Doc, NEW old \in Doc, Continued(new, old)
  PROVE  Len(Ids(old)) <= Len(Ids(new)) /\ SubSeq(Ids(new), 1, Len(Ids(old))) = Ids(old)
<1> DEFINE m == Len(old.copayers)
           n == Len(new.copayers)
<1>1. /\ m \in Nat /\ n \in Nat /\ m <= n
      /\ \A i \in 1..m : new.copayers[i].id = old.copayers[i].id
  BY DEF Continued, Doc
<1>2. /\ \A i \in 1..n : new.copayers[i].id \in Copayers
      /\ \A i \in 1..m : old.copayers[i].id \in Copayers
  <2>1. /\ \A i \in 1..n : new.copayers[i] \in Copayer
        /\ \A i \in 1..m : old.copayers[i] \in Copayer
    BY ElementOfSeq DEF Doc
  <2> QED
    BY <2>1 DEF Copayer
<1>3. /\ Ids(old) = [i \in 1..m |-> old.copayers[i].id]
      /\ Ids(new) = [i \in 1..n |-> new.copayers[i].id]
  BY DEF Ids
<1> HIDE DEF m, n
<1>4. /\ Ids(old) \in [1..m -> Copayers] /\ Ids(new) \in [1..n -> Copayers]
      /\ \A i \in 1..m : Ids(new)[i] = Ids(old)[i]
  BY <1>1, <1>2, <1>3
<1>5. /\ Ids(old) \in Seq(Copayers) /\ Len(Ids(old)) = m
      /\ Ids(new) \in Seq(Copayers) /\ Len(Ids(new)) = n
  BY <1>1, <1>4, FunctionIsSeq
<1>6. SubSeq(Ids(new), 1, m) = Ids(old)
  <2>1. SubSeq(Ids(new), 1, m) = [i \in 1..m |-> Ids(new)[i]]
    BY <1>1, <1>5
  <2> QED
    BY <1>4, <2>1
<1> QED
  BY <1>1, <1>5, <1>6

LEMMA ContinuedKeys ==
  ASSUME NEW new \in Doc, NEW old \in Doc, Continued(new, old), NEW c
  PROVE  KeysOf(old, c) \subseteq KeysOf(new, c)
<1> SUFFICES ASSUME NEW x \in KeysOf(old, c)
             PROVE  x \in KeysOf(new, c)
  OBVIOUS
<1>1. PICK i \in {j \in 1..Len(old.copayers) : old.copayers[j].id = c} :
        x \in {old.copayers[i].keys[k] : k \in 1..Len(old.copayers[i].keys)}
  BY DEF KeysOf
<1>2. PICK k \in 1..Len(old.copayers[i].keys) : x = old.copayers[i].keys[k]
  BY <1>1
<1>3. /\ new.copayers[i].id = c
      /\ \E l \in 1..Len(new.copayers[i].keys) : new.copayers[i].keys[l] = x
  BY <1>1, <1>2 DEF Continued
<1>4. i \in {j \in 1..Len(new.copayers) : new.copayers[j].id = c}
  <2>1. Len(old.copayers) \in Nat /\ Len(new.copayers) \in Nat
    BY DEF Doc
  <2> QED
    BY <1>1, <1>3, <2>1 DEF Continued
<1>5. x \in {new.copayers[i].keys[l] : l \in 1..Len(new.copayers[i].keys)}
  BY <1>3
<1> QED
  BY <1>4, <1>5, SMTT(60) DEF KeysOf

(* A copayer that the keys of a wallet are kept for. *)
LEMMA IdsMembers ==
  ASSUME NEW one \in Doc, NEW two \in Doc, Ids(one) = Ids(two)
  PROVE  Len(one.copayers) = Len(two.copayers) /\ Members(one) = Members(two)
<1>1. Len(one.copayers) \in Nat /\ Len(two.copayers) \in Nat
  BY DEF Doc
<1>2. DOMAIN Ids(one) = 1..Len(one.copayers) /\ DOMAIN Ids(two) = 1..Len(two.copayers)
  BY DEF Ids
<1>3. Len(one.copayers) = Len(two.copayers)
  BY <1>1, <1>2
<1>4. /\ \A i \in 1..Len(one.copayers) : Ids(one)[i] = one.copayers[i].id
      /\ \A i \in 1..Len(two.copayers) : Ids(two)[i] = two.copayers[i].id
  BY DEF Ids
<1> QED
  BY <1>3, <1>4 DEF Members

-----------------------------------------------------------------------------
(* A step that only moves one request on, under the locks the others hold. *)
LEMMA JobKnown ==
  ASSUME KnownInv, NEW t \in Tasks, NEW j, job' = [job EXCEPT ![t] = j],
         UNCHANGED <<wallets, mishaps>>,
         \A u \in Tasks \ {t}, w \in Wallets : holder[w] = u => holder'[w] = u,
         j.op = job[t].op \/ j.op = "none", Stages(j),
         j.op = "joinWallet" /\ j.at # "start" /\ "expiry" \notin mishaps
           => holder'[j.wallet] = t,
         Calm => Fresh(j)
  PROVE  /\ \A u \in Tasks : Stages(job'[u])
         /\ OneAtATime'
         /\ Calm' => \A u \in Tasks : Fresh(job[u])'
<1>1. /\ \A u \in Tasks : job'[u] = IF u = t THEN j ELSE job[u]
      /\ job \in [Tasks -> Job \cup {Idle}]
  BY DEF KnownInv, Inv, TypeOK
<1>2. \A u \in Tasks : Stages(job'[u])
  BY <1>1 DEF KnownInv
<1>3. "twice" \notin mishaps' =>
        \A u, v \in Tasks : job'[u].op = "createWallet" /\ job'[v].op = "createWallet" => u = v
  BY <1>1 DEF KnownInv, OneAtATime
<1>4. "overlap" \notin mishaps' =>
        \A u, v \in Tasks : job'[u].op = "addAccess" /\ job'[v].op = "addAccess" => u = v
  BY <1>1 DEF KnownInv, OneAtATime
<1>5. "expiry" \notin mishaps' =>
        \A u \in Tasks : job'[u].op = "joinWallet" /\ job'[u].at # "start"
                           => holder'[job'[u].wallet] = u
  <2> SUFFICES ASSUME "expiry" \notin mishaps, NEW u \in Tasks,
                      job'[u].op = "joinWallet", job'[u].at # "start"
               PROVE  holder'[job'[u].wallet] = u
    OBVIOUS
  <2>1. CASE u = t
    BY <1>1, <2>1
  <2>2. CASE u # t
    <3>1. job'[u] = job[u] /\ holder[job[u].wallet] = u /\ Ready(job[u])
      BY <1>1, <2>2 DEF KnownInv, OneAtATime, Inv
    <3> QED
      BY <2>2, <3>1 DEF Ready
  <2> QED
    BY <2>1, <2>2
<1>6. OneAtATime'
  BY <1>3, <1>4, <1>5 DEF OneAtATime
<1>7. Calm' => \A u \in Tasks : Fresh(job[u])'
  <2> SUFFICES ASSUME Calm, NEW u \in Tasks PROVE Fresh(job[u])'
    BY DEF Calm
  <2>1. Fresh(job'[u])
    BY <1>1 DEF KnownInv
  <2> QED
    BY <2>1 DEF Fresh, CreationFresh, JoinFresh, AccessFresh
<1> QED
  BY <1>2, <1>6, <1>7

LEMMA NowKnown ==
  ASSUME Inv', \A u \in Tasks : Stages(job'[u]), OneAtATime',
         Calm' => \A u \in Tasks : Fresh(job[u])'
  PROVE  KnownInv'
BY DEF KnownInv, Stages

(* Whoever is done has nothing to know. *)
LEMMA IdleFresh == Stages(Idle) /\ Fresh(Idle)
BY DEF Idle, Stages, Fresh, CreationFresh, JoinFresh, AccessFresh

LEMMA OthersKeepLocks ==
  ASSUME Inv, NEW tasks, NEW u \in Tasks, u \notin tasks, NEW w \in Wallets, holder[w] = u
  PROVE  Unlocked(tasks)[w] = u
BY DEF Unlocked

LEMMA AnswerKnown ==
  ASSUME KnownInv, Inv', NEW t \in Tasks, Answer(t), UNCHANGED <<wallets, mishaps>>
  PROVE  KnownInv'
<1>1. job' = [job EXCEPT ![t] = Idle] /\ holder' = Unlocked({t})
  BY DEF Answer
<1>2. \A u \in Tasks \ {t}, w \in Wallets : holder[w] = u => holder'[w] = u
  BY <1>1, OthersKeepLocks DEF KnownInv
<1>3. Idle.op = "none"
  BY DEF Idle
<1> QED
  BY <1>1, <1>2, <1>3, JobKnown, IdleFresh, NowKnown

LEMMA ContinueKnown ==
  ASSUME KnownInv, Inv', NEW t \in Tasks, NEW j, Continue(t, j), UNCHANGED <<wallets, mishaps>>,
         j.op = job[t].op, Stages(j),
         j.op = "joinWallet" => job[t].at # "start" /\ j.wallet = job[t].wallet,
         Calm => Fresh(j)
  PROVE  KnownInv'
<1>1. job' = [job EXCEPT ![t] = j] /\ holder' = holder
  BY DEF Continue
<1>2. j.op = "joinWallet" /\ "expiry" \notin mishaps => holder'[j.wallet] = t
  BY <1>1 DEF KnownInv, OneAtATime
<1> QED
  BY <1>1, <1>2, JobKnown, NowKnown

LEMMA StopKnown ==
  ASSUME KnownInv, Inv', NEW tasks, Stop(tasks)
  PROVE  KnownInv'
<1>1. /\ \A u \in Tasks : job'[u] = IF u \in tasks THEN Idle ELSE job[u]
      /\ holder' = Unlocked(tasks) /\ mishaps' = mishaps \cup {"crash"}
      /\ UNCHANGED wallets
  BY DEF Stop
<1>2. \A u \in Tasks : Stages(job'[u])
  BY <1>1, IdleFresh DEF KnownInv
<1>3. Idle.op = "none"
  BY DEF Idle
<1>4. "expiry" \notin mishaps' =>
        \A u \in Tasks : job'[u].op = "joinWallet" /\ job'[u].at # "start"
                           => holder'[job'[u].wallet] = u
  <2> SUFFICES ASSUME "expiry" \notin mishaps, NEW u \in Tasks,
                      job'[u].op = "joinWallet", job'[u].at # "start"
               PROVE  holder'[job'[u].wallet] = u
    BY <1>1
  <2>1. u \notin tasks /\ job'[u] = job[u]
    BY <1>1, <1>3
  <2>2. holder[job[u].wallet] = u /\ job[u].wallet \in Wallets
    BY <2>1 DEF KnownInv, OneAtATime, Inv, Ready
  <2> QED
    BY <1>1, <2>1, <2>2, OthersKeepLocks DEF KnownInv
<1>5. OneAtATime'
  BY <1>1, <1>3, <1>4 DEF KnownInv, OneAtATime
<1>6. Calm' => \A u \in Tasks : Fresh(job[u])'
  <2> SUFFICES ASSUME Calm', NEW u \in Tasks PROVE Fresh(job[u])'
    OBVIOUS
  <2>1. Calm /\ ("overlap" \notin mishaps' => "overlap" \notin mishaps)
    BY <1>1 DEF Calm
  <2>2. Fresh(job'[u])
    BY <1>1, <2>1, IdleFresh DEF KnownInv
  <2> QED
    BY <1>1, <2>1, <2>2 DEF Fresh, CreationFresh, JoinFresh, AccessFresh
<1> QED
  BY <1>2, <1>5, <1>6, NowKnown

LEMMA ArriveKnown ==
  ASSUME KnownInv, Inv', NEW t \in Tasks, NEW op \in Ops, NEW w \in Wallets,
         NEW copayer \in Copayers, NEW key \in Keys, Arrive(t, op, w, copayer, key)
  PROVE  KnownInv'
<1> DEFINE j == [Idle EXCEPT !.op = op, !.at = "start",
                   !.wallet = IF op = "addAccess" THEN None ELSE w,
                   !.copayer = IF op = "createWallet" THEN None ELSE copayer,
                   !.key = IF op = "createWallet" THEN None ELSE key]
<1>1. /\ job' = [job EXCEPT ![t] = j] /\ UNCHANGED <<wallets, holder>> /\ job[t] = Idle
      /\ mishaps' = mishaps \cup Overlapping(op)
  BY DEF Arrive, Continue
<1>2. j.op = op /\ j.at = "start" /\ op \in Requests
  BY CopayerRegistryAssumption DEF Idle
<1> HIDE DEF j
<1>3. \A u \in Tasks : job'[u] = IF u = t THEN j ELSE job[u]
  BY <1>1 DEF KnownInv, Inv, TypeOK
<1>4. \A u \in Tasks : Stages(job'[u])
  BY <1>2, <1>3 DEF KnownInv, Stages
<1>5. /\ op = "createWallet" /\ "twice" \notin mishaps'
           => \A u \in Tasks : job[u].op # "createWallet"
      /\ op = "addAccess" /\ "overlap" \notin mishaps'
           => \A u \in Tasks : job[u].op # "addAccess"
  BY <1>1 DEF Overlapping
<1>6. OneAtATime'
  <2>1. "twice" \notin mishaps' => \A u, v \in Tasks :
          job'[u].op = "createWallet" /\ job'[v].op = "createWallet" => u = v
    BY <1>1, <1>2, <1>3, <1>5 DEF KnownInv, OneAtATime
  <2>2. "overlap" \notin mishaps' => \A u, v \in Tasks :
          job'[u].op = "addAccess" /\ job'[v].op = "addAccess" => u = v
    BY <1>1, <1>2, <1>3, <1>5 DEF KnownInv, OneAtATime
  <2>3. "expiry" \notin mishaps' => \A u \in Tasks :
          job'[u].op = "joinWallet" /\ job'[u].at # "start" => holder'[job'[u].wallet] = u
    BY <1>1, <1>2, <1>3 DEF KnownInv, OneAtATime
  <2> QED
    BY <2>1, <2>2, <2>3 DEF OneAtATime
<1>7. Calm' => \A u \in Tasks : Fresh(job[u])'
  <2> SUFFICES ASSUME Calm', NEW u \in Tasks PROVE Fresh(job[u])'
    OBVIOUS
  <2>1. Calm /\ ("overlap" \notin mishaps' => "overlap" \notin mishaps)
    BY <1>1 DEF Calm
  <2>2. Fresh(j)
    BY <1>2 DEF Fresh, CreationFresh, JoinFresh, AccessFresh, Rewriting
  <2>3. Fresh(job'[u])
    BY <1>3, <2>1, <2>2 DEF KnownInv
  <2> QED
    BY <1>1, <2>1, <2>3 DEF Fresh, CreationFresh, JoinFresh, AccessFresh
<1> QED
  BY <1>4, <1>6, <1>7, NowKnown

LEMMA CreateWalletKnown ==
  ASSUME KnownInv, Inv', NEW t \in Tasks, CreateWallet(t)
  PROVE  KnownInv'
<1>1. CASE Answer(t)
  BY <1>1, AnswerKnown DEF CreateWallet
<1>2. CASE ~Answer(t)
  <2> DEFINE j == [job[t] EXCEPT !.doc = NewWallet, !.at = "store"]
  <2>1. job[t] \in Job /\ job[t].op = "createWallet" /\ wallets[job[t].wallet] = None
    BY <1>2, AtWork DEF CreateWallet, At, KnownInv
  <2>2. Continue(t, j) /\ UNCHANGED <<wallets, mishaps>>
    BY <1>2 DEF CreateWallet
  <2>3. /\ j.op = "createWallet" /\ j.at = "store" /\ j.doc = NewWallet
        /\ j.wallet = job[t].wallet
    BY <2>1 DEF Job
  <2> HIDE DEF j
  <2>4. Stages(j) /\ Fresh(j)
    BY <2>1, <2>3 DEF Stages, Fresh, CreationFresh, JoinFresh, AccessFresh
  <2> QED
    BY <2>1, <2>2, <2>3, <2>4, ContinueKnown
<1> QED
  BY <1>1, <1>2

LEMMA JoinWalletKnown ==
  ASSUME KnownInv, Inv', NEW t \in Tasks, JoinWallet(t)
  PROVE  KnownInv'
<1>1. CASE Answer(t)
  BY <1>1, AnswerKnown DEF JoinWallet
<1>2. CASE ~Answer(t)
  <2> DEFINE w == job[t].wallet
             j == [job[t] EXCEPT !.doc = wallets[w], !.at = "lookup"]
  <2>1. job[t] \in Job /\ job[t].op = "joinWallet" /\ w \in Wallets
    BY AtWork DEF JoinWallet, At, Ready, KnownInv
  <2>2. /\ MayJoin(wallets[w], job[t].copayer) /\ holder[w] = None
        /\ holder' = [holder EXCEPT ![w] = t]
        /\ job' = [job EXCEPT ![t].doc = wallets[w], ![t].at = "lookup"]
        /\ UNCHANGED <<wallets, mishaps>>
    BY <1>2 DEF JoinWallet, Free
  <2>3. job' = [job EXCEPT ![t] = j]
    BY <2>2 DEF KnownInv, Inv, TypeOK
  <2>4. j.op = "joinWallet" /\ j.at = "lookup" /\ j.doc = wallets[w] /\ j.wallet = w
    BY <2>1 DEF Job
  <2> HIDE DEF j
  <2>5. /\ holder'[w] = t
        /\ \A u \in Tasks \ {t}, x \in Wallets : holder[x] = u => holder'[x] = u
    BY <2>1, <2>2, CopayerRegistryAssumption DEF KnownInv, Inv, TypeOK
  <2>6. Stages(j) /\ Fresh(j)
    BY <2>2, <2>4 DEF Stages, Fresh, CreationFresh, JoinFresh, AccessFresh, MayJoin, Rewriting
  <2> HIDE DEF w
  <2> QED
    BY <2>1, <2>2, <2>3, <2>4, <2>5, <2>6, JobKnown, NowKnown
<1> QED
  BY <1>1, <1>2

LEMMA AddCopayerKnown ==
  ASSUME KnownInv, Inv', NEW t \in Tasks, AddCopayerToWallet(t)
  PROVE  KnownInv'
<1>1. CASE Answer(t)
  BY <1>1, AnswerKnown DEF AddCopayerToWallet
<1>2. CASE ~Answer(t)
  <2> DEFINE new == AddCopayer(job[t].doc, job[t].copayer, job[t].key)
             j == [job[t] EXCEPT !.at = "remove", !.doc = new]
  <2>1. job[t] \in Job /\ Ready(job[t]) /\ job[t].op = "joinWallet" /\ job[t].at = "lookup"
    BY AtWork DEF AddCopayerToWallet, At, KnownInv
  <2>2. Continue(t, j) /\ UNCHANGED <<wallets, mishaps>>
    BY <1>2 DEF AddCopayerToWallet
  <2>3. Calm => JoinFresh(job[t])
    BY DEF KnownInv, Fresh
  <2> HIDE DEF new
  <2>4. /\ j.op = "joinWallet" /\ j.at = "remove" /\ j.doc = new /\ j.wallet = job[t].wallet
        /\ j.copayer = job[t].copayer /\ j.key = job[t].key
    BY <2>1 DEF Job
  <2> HIDE DEF j
  <2>5. Stages(j)
    BY <2>4 DEF Stages
  <2>6. Calm => Fresh(j)
    BY <2>1, <2>3, <2>4 DEF Fresh, CreationFresh, JoinFresh, AccessFresh, Ready, new
  <2> QED
    BY <2>1, <2>2, <2>4, <2>5, <2>6, ContinueKnown
<1> QED
  BY <1>1, <1>2

LEMMA AddAccessKnown ==
  ASSUME KnownInv, Inv', NEW t \in Tasks, AddAccess(t)
  PROVE  KnownInv'
<1>1. CASE Answer(t)
  BY <1>1, AnswerKnown DEF AddAccess
<1>2. CASE ~Answer(t)
  <2>1. PICK row \in lookup :
          Continue(t, [job[t] EXCEPT !.row = row, !.wallet = row.walletId, !.at = "fetch"])
    BY <1>2 DEF AddAccess
  <2> DEFINE j == [job[t] EXCEPT !.row = row, !.wallet = row.walletId, !.at = "fetch"]
  <2>2. job[t] \in Job /\ job[t].op = "addAccess"
    BY AtWork DEF AddAccess, At, KnownInv
  <2>3. j.op = "addAccess" /\ j.at = "fetch"
    BY <2>2 DEF Job
  <2>4. Continue(t, j) /\ UNCHANGED <<wallets, mishaps>>
    BY <2>1 DEF AddAccess
  <2> HIDE DEF j
  <2>5. Stages(j) /\ Fresh(j)
    BY <2>3 DEF Stages, Fresh, CreationFresh, JoinFresh, AccessFresh, Rewriting
  <2> QED
    BY <2>2, <2>3, <2>4, <2>5, ContinueKnown
<1> QED
  BY <1>1, <1>2

LEMMA AddKeyKnown ==
  ASSUME KnownInv, Inv', NEW t \in Tasks, AddKeyToCopayer(t)
  PROVE  KnownInv'
<1> DEFINE w == job[t].wallet
           new == AddKey(wallets[w], job[t].copayer, job[t].key)
           j == [job[t] EXCEPT !.doc = new, !.at = "remove"]
<1>1. CASE Answer(t) /\ UNCHANGED <<wallets, lookup, mishaps, torn>>
  BY <1>1, AnswerKnown
<1>2. CASE \E others \in SUBSET Tasks : Stop({t} \cup others)
  BY <1>2, StopKnown
<1>3. CASE /\ wallets[w] # None /\ Len(wallets[w].copayers) = N
           /\ Continue(t, j)
           /\ UNCHANGED <<wallets, lookup, mishaps, torn>>
  <2>1. job[t] \in Job /\ Ready(job[t]) /\ job[t].op = "addAccess" /\ w \in Wallets
    BY AtWork DEF AddKeyToCopayer, At, Ready, KnownInv
  <2>2. wallets[w] \in Doc
    BY <1>3, <2>1 DEF KnownInv, Inv, TypeOK
  <2>3. Ids(new) = Ids(wallets[w])
    BY <2>1, <2>2, AddKeyContinues DEF Ready
  <2> HIDE DEF new
  <2>4. /\ j.op = "addAccess" /\ j.at = "remove" /\ j.doc = new /\ j.wallet = w
        /\ j.copayer = job[t].copayer /\ j.key = job[t].key
    BY <2>1 DEF Job
  <2> HIDE DEF j
  <2>5. Stages(j) /\ Fresh(j)
    BY <1>3, <2>3, <2>4 DEF Stages, Fresh, CreationFresh, JoinFresh, AccessFresh, new
  <2> HIDE DEF w
  <2> QED
    BY <1>3, <2>1, <2>4, <2>5, ContinueKnown
<1> QED
  BY <1>1, <1>2, <1>3 DEF AddKeyToCopayer

(* The next step of a rewrite, with the same copy. *)
LEMMA MoveOnKnown ==
  ASSUME KnownInv, Inv', NEW t \in Tasks, NEW to \in {"insert", "store"},
         job[t].at \in {"remove", "insert"}, GoTo(t, to), UNCHANGED <<wallets, mishaps>>
  PROVE  KnownInv'
<1> DEFINE j == [job[t] EXCEPT !.at = to]
<1>1. job[t] \in Job /\ Stages(job[t]) /\ job[t].op # "createWallet"
  BY AtWork DEF KnownInv, Stages
<1>2. /\ j.at = to /\ j.op = job[t].op /\ j.wallet = job[t].wallet /\ j.doc = job[t].doc
      /\ j.copayer = job[t].copayer /\ j.key = job[t].key
  BY <1>1 DEF Job
<1>3. Continue(t, j)
  BY DEF GoTo
<1> HIDE DEF j
<1>4. Stages(j)
  BY <1>1, <1>2 DEF Stages
<1>5. Calm => Fresh(j)
  BY <1>1, <1>2 DEF KnownInv, Fresh, CreationFresh, JoinFresh, AccessFresh, Rewriting
<1> QED
  BY <1>2, <1>3, <1>4, <1>5, ContinueKnown

LEMMA StoredIn ==
  ASSUME KnownInv, NEW t \in Tasks, StoreWallet(t)
  PROVE  /\ job[t].at = "store" /\ job[t] \in Job /\ job[t].op \in Requests
         /\ job[t].wallet \in Wallets /\ job[t].doc \in Doc /\ job[t].doc # None
         /\ \A w \in Wallets :
              wallets'[w] = IF w = job[t].wallet THEN job[t].doc ELSE wallets[w]
         /\ \A u \in Tasks : job'[u] = IF u = t THEN Idle ELSE job[u]
         /\ holder' = Unlocked({t}) /\ UNCHANGED <<lookup, mishaps>>
<1>1. job[t] \in Job /\ Ready(job[t]) /\ job[t].at = "store"
  BY AtWork DEF StoreWallet, KnownInv
<1>2. job[t].op \in Requests
  BY <1>1 DEF Job
<1>3. wallets' = [wallets EXCEPT ![job[t].wallet] = job[t].doc]
  BY DEF StoreWallet
<1>4. job' = [job EXCEPT ![t] = Idle] /\ holder' = Unlocked({t})
  BY DEF StoreWallet, Answer
<1> QED
  BY <1>1, <1>2, <1>3, <1>4, NoneIsNothing DEF StoreWallet, Ready, KnownInv, Inv, TypeOK

(* Of two requests that rewrite one wallet, only two addAccess are possible. *)
LEMMA TwoOnOne ==
  ASSUME KnownInv, Calm, NEW t \in Tasks, NEW u \in Tasks, t # u,
         job[t].at \in Rewriting, job[t].wallet = job[u].wallet,
         \/ job[u].at \in Rewriting
         \/ job[u].op = "joinWallet" /\ job[u].at = "lookup"
  PROVE  /\ job[t].op = "addAccess" /\ job[u].op = "addAccess"
         /\ "overlap" \in mishaps
<1>1. /\ Fresh(job[t]) /\ Fresh(job[u]) /\ Ready(job[u])
      /\ job[t].op \in Requests /\ job[u].op \in Requests
      /\ Stages(job[t]) /\ Stages(job[u])
  BY AtWork DEF KnownInv, Inv, Job, Rewriting
<1>2. "twice" \notin mishaps /\ "expiry" \notin mishaps
  BY DEF Calm
<1>3. ASSUME job[t].op = "createWallet"
      PROVE  FALSE
  <2>1. wallets[job[t].wallet] = None /\ job[u].op # "createWallet"
    BY <1>1, <1>2, <1>3 DEF KnownInv, OneAtATime, Fresh, CreationFresh, Stages, Rewriting
  <2> QED
    BY <1>1, <2>1 DEF Fresh, JoinFresh, AccessFresh, Requests
<1>4. ASSUME job[t].op = "joinWallet"
      PROVE  FALSE
  <2>1. /\ wallets[job[t].wallet] # None /\ Len(wallets[job[t].wallet].copayers) # N
        /\ holder[job[t].wallet] = t
    BY <1>1, <1>2, <1>4 DEF KnownInv, OneAtATime, Fresh, JoinFresh, Rewriting
  <2>2. job[u].op # "joinWallet"
    BY <1>2, <2>1 DEF KnownInv, OneAtATime, Rewriting
  <2> QED
    BY <1>1, <2>1, <2>2 DEF Fresh, CreationFresh, AccessFresh, Requests, Stages, Rewriting
<1>5. job[t].op = "addAccess"
  BY <1>1, <1>3, <1>4 DEF Requests
<1>6. wallets[job[t].wallet] # None /\ Len(wallets[job[t].wallet].copayers) = N
  BY <1>1, <1>5 DEF Fresh, AccessFresh
<1>7. job[u].op = "addAccess"
  BY <1>1, <1>6 DEF Fresh, CreationFresh, JoinFresh, Requests, Stages, Rewriting, Ready
<1> QED
  BY <1>5, <1>7 DEF KnownInv, OneAtATime

LEMMA StoreKnown ==
  ASSUME KnownInv, Inv', NEW t \in Tasks, StoreWallet(t)
  PROVE  KnownInv'
<1> DEFINE w == job[t].wallet
           doc == job[t].doc
<1>1. /\ job[t].at = "store" /\ job[t].op \in Requests
      /\ w \in Wallets /\ doc \in Doc /\ doc # None
      /\ \A x \in Wallets : wallets'[x] = IF x = w THEN doc ELSE wallets[x]
      /\ \A u \in Tasks : job'[u] = IF u = t THEN Idle ELSE job[u]
      /\ holder' = Unlocked({t}) /\ UNCHANGED mishaps
  BY StoredIn
<1>2. \A u \in Tasks : Stages(job'[u])
  BY <1>1, IdleFresh DEF KnownInv
<1>3. OneAtATime'
  <2>1. Idle.op = "none"
    BY DEF Idle
  <2>2. "expiry" \notin mishaps' =>
          \A u \in Tasks : job'[u].op = "joinWallet" /\ job'[u].at # "start"
                             => holder'[job'[u].wallet] = u
    <3> SUFFICES ASSUME "expiry" \notin mishaps, NEW u \in Tasks,
                        job'[u].op = "joinWallet", job'[u].at # "start"
                 PROVE  holder'[job'[u].wallet] = u
      BY <1>1
    <3>1. u # t /\ job'[u] = job[u]
      BY <1>1, <2>1
    <3>2. holder[job[u].wallet] = u /\ job[u].wallet \in Wallets
      BY <3>1 DEF KnownInv, OneAtATime, Inv, Ready
    <3>3. Inv /\ u \notin {t}
      BY <3>1 DEF KnownInv
    <3>4. Unlocked({t})[job[u].wallet] = u
      BY <3>2, <3>3, OthersKeepLocks
    <3> QED
      BY <1>1, <3>1, <3>4
  <2> QED
    BY <1>1, <2>1, <2>2 DEF KnownInv, OneAtATime
<1>4. ASSUME Calm', NEW u \in Tasks \ {t}
      PROVE  Fresh(job[u])'
  <2>1. Calm /\ Fresh(job[u]) /\ job'[u] = job[u] /\ Ready(job[u])
    BY <1>1, <1>4 DEF Calm, KnownInv, Inv
  <2>2. CASE job[u].at \in Rewriting \cup {"lookup"} /\ job[u].wallet = w
    <3>1. job[u].at = "lookup" => job[u].op = "joinWallet"
      <4>1. job[u].op \in Requests
        BY <2>2, AtWork DEF KnownInv, Job, Rewriting
      <4> QED
        BY <4>1 DEF KnownInv, Stages, Requests
    <3>2. job[t].op = "addAccess" /\ job[u].op = "addAccess" /\ "overlap" \in mishaps
      BY <1>1, <2>1, <2>2, <3>1, TwoOnOne DEF Rewriting
    <3>3. /\ wallets[w] # None /\ Len(wallets[w].copayers) = N
          /\ Ids(doc) = Ids(wallets[w])
      BY <1>1, <2>1, <3>2 DEF KnownInv, Fresh, AccessFresh, Rewriting
    <3>4. wallets[w] \in Doc
      BY <1>1, <3>3 DEF KnownInv, Inv, TypeOK
    <3>5. Len(doc.copayers) = N
      BY <1>1, <3>3, <3>4, IdsMembers
    <3> HIDE DEF doc, w
    <3>6. wallets'[w] = doc
      BY <1>1
    <3>7. Fresh(job[u])' <=> AccessFresh(job[u])'
      BY <2>1, <3>2 DEF Fresh, CreationFresh, JoinFresh
    <3>8. AccessFresh(job[u])'
      BY <1>1, <2>1, <2>2, <3>2, <3>3, <3>5, <3>6 DEF Fresh, AccessFresh
    <3> QED
      BY <3>7, <3>8
  <2>3. CASE job[u].at \in Rewriting \cup {"lookup"} /\ job[u].wallet # w
    <3>1. job[u].wallet \in Wallets \/ job[u].op = "none"
      <4>1. job[u] \in Job
        BY <2>3, AtWork DEF KnownInv, Rewriting
      <4>2. job[u].op \in Requests
        BY <4>1 DEF Job
      <4> QED
        BY <2>1, <2>3, <4>2 DEF Ready, Requests, Rewriting, KnownInv, Stages
    <3>2. job[u].wallet \in Wallets => wallets'[job[u].wallet] = wallets[job[u].wallet]
      BY <1>1, <2>3
    <3> HIDE DEF w, doc
    <3> QED
      BY <1>1, <2>1, <3>1, <3>2 DEF Fresh, CreationFresh, JoinFresh, AccessFresh
  <2>4. CASE job[u].at \notin Rewriting \cup {"lookup"}
    BY <2>1, <2>4 DEF Fresh, CreationFresh, JoinFresh, AccessFresh, Rewriting
  <2> QED
    BY <2>2, <2>3, <2>4
<1>5. Fresh(job[t])'
  BY <1>1 DEF Idle, Fresh, CreationFresh, JoinFresh, AccessFresh
<1> QED
  BY <1>2, <1>3, <1>4, <1>5, NowKnown

LEMMA KnownNext == KnownInv /\ [Next]_vars => KnownInv'
<1> SUFFICES ASSUME KnownInv, [Next]_vars PROVE KnownInv'
  OBVIOUS
<1>1. Inv'
  BY InvNext DEF KnownInv
<1>2. ASSUME NEW t \in Tasks, NEW op \in Ops, NEW w \in Wallets, NEW copayer \in Copayers,
             NEW key \in Keys, Arrive(t, op, w, copayer, key)
      PROVE  KnownInv'
  BY <1>1, <1>2, ArriveKnown
<1>3. ASSUME NEW t \in Tasks, Serve(t) PROVE KnownInv'
  <2>1. CASE RemoveRows(t) \/ InsertRows(t)
    BY <1>1, <2>1, MoveOnKnown DEF RemoveRows, InsertRows
  <2> QED
    BY <1>1, <1>3, <2>1, CreateWalletKnown, JoinWalletKnown, AddCopayerKnown,
       AddAccessKnown, AddKeyKnown, StoreKnown DEF Serve
<1>4. ASSUME NEW t \in Tasks, Busy(t) PROVE KnownInv'
  BY <1>1, <1>4, AnswerKnown DEF Busy
<1>5. ASSUME NEW t \in Tasks, Crash(t) PROVE KnownInv'
  BY <1>1, <1>5, StopKnown DEF Crash
<1>6. ASSUME NEW w \in Wallets, LockExpires(w) PROVE KnownInv'
  <2>1. ~Calm' /\ "expiry" \in mishaps' /\ UNCHANGED job /\ mishaps \subseteq mishaps'
    BY <1>6 DEF LockExpires, Calm
  <2> QED
    BY <1>1, <2>1 DEF KnownInv, OneAtATime
<1>7. CASE UNCHANGED vars
  <2>1. UNCHANGED <<wallets, job, holder, mishaps>>
    BY <1>7 DEF vars
  <2> QED
    BY <1>1, <2>1 DEF KnownInv, OneAtATime, Calm, Fresh, CreationFresh, JoinFresh, AccessFresh
<1> QED
  BY <1>2, <1>3, <1>4, <1>5, <1>6, <1>7 DEF Next

LEMMA KnownInit == Init => KnownInv
<1> SUFFICES ASSUME Init PROVE KnownInv
  OBVIOUS
<1>1. \A t \in Tasks : job[t] = Idle
  BY DEF Init
<1>2. \A t \in Tasks : job[t].op = "none"
  BY <1>1 DEF Idle
<1>3. OneAtATime
  BY <1>2 DEF OneAtATime
<1> QED
  BY <1>1, <1>3, InvInit, IdleFresh DEF KnownInv

-----------------------------------------------------------------------------
LEMMA OnlyStores ==
  ASSUME [Next]_vars
  PROVE  mishaps \subseteq mishaps' /\ (UNCHANGED wallets \/ \E t \in Tasks : StoreWallet(t))
<1>1. ASSUME NEW t \in Tasks, Serve(t)
      PROVE  mishaps \subseteq mishaps' /\ (UNCHANGED wallets \/ StoreWallet(t))
  BY <1>1 DEF Serve, CreateWallet, JoinWallet, AddCopayerToWallet, AddAccess, AddKeyToCopayer,
     Stop, RemoveRows, InsertRows, StoreWallet
<1>2. ASSUME NEW t \in Tasks, NEW op \in Ops, NEW w \in Wallets, NEW copayer \in Copayers,
             NEW key \in Keys, Arrive(t, op, w, copayer, key)
      PROVE  mishaps \subseteq mishaps' /\ UNCHANGED wallets
  BY <1>2 DEF Arrive
<1>3. ASSUME NEW t \in Tasks, Busy(t) \/ Crash(t)
      PROVE  mishaps \subseteq mishaps' /\ UNCHANGED wallets
  BY <1>3 DEF Busy, Crash, Stop
<1>4. ASSUME NEW w \in Wallets, LockExpires(w)
      PROVE  mishaps \subseteq mishaps' /\ UNCHANGED wallets
  BY <1>4 DEF LockExpires
<1> QED
  BY <1>1, <1>2, <1>3, <1>4 DEF Next, vars

(* A copy written over a stored wallet continues it. *)
LEMMA StoreContinues ==
  ASSUME KnownInv, Calm, NEW t \in Tasks, job[t] \in Job, job[t].at = "store",
         job[t].wallet \in Wallets, wallets[job[t].wallet] # None
  PROVE  /\ \/ Continued(job[t].doc, wallets[job[t].wallet])
            \/ Ids(job[t].doc) = Ids(wallets[job[t].wallet])
         /\ "overlap" \notin mishaps => Continued(job[t].doc, wallets[job[t].wallet])
<1> DEFINE w == job[t].wallet
<1>1. Fresh(job[t]) /\ Ready(job[t]) /\ wallets[w] \in Doc /\ job[t].op \in Requests
  BY DEF KnownInv, Inv, TypeOK, Job
<1>2. CASE job[t].op = "joinWallet"
  <2>1. job[t].doc = AddCopayer(wallets[w], job[t].copayer, job[t].key)
    BY <1>1, <1>2 DEF Fresh, JoinFresh, Rewriting
  <2> HIDE DEF w
  <2>2. \A c, key : Continued(AddCopayer(wallets[w], c, key), wallets[w])
    BY <1>1, AddCopayerContinues
  <2>3. Continued(job[t].doc, wallets[w])
    BY <2>1, <2>2
  <2> QED
    BY <2>3 DEF w
<1>3. CASE job[t].op = "addAccess"
  <2>1. /\ Ids(job[t].doc) = Ids(wallets[w]) /\ job[t].key \in Keys
        /\ "overlap" \notin mishaps
             => job[t].doc = AddKey(wallets[w], job[t].copayer, job[t].key)
    BY <1>1, <1>3 DEF Fresh, AccessFresh, Rewriting, Ready
  <2> HIDE DEF w
  <2>2. "overlap" \notin mishaps => Continued(job[t].doc, wallets[w])
    BY <1>1, <2>1, AddKeyContinues
  <2> QED
    BY <2>1, <2>2 DEF w
<1>4. CASE job[t].op = "createWallet"
  BY <1>1, <1>4 DEF Fresh, CreationFresh
<1> QED
  BY <1>1, <1>2, <1>3, <1>4 DEF Requests

LEMMA SameIds ==
  ASSUME NEW new \in Doc, NEW old \in Doc, Ids(new) = Ids(old)
  PROVE  Len(Ids(old)) <= Len(Ids(new)) /\ SubSeq(Ids(new), 1, Len(Ids(old))) = Ids(old)
<1>1. Len(old.copayers) \in Nat
  BY DEF Doc
<1>2. \A i \in 1..Len(old.copayers) : old.copayers[i].id \in Copayers
  <2>1. \A i \in 1..Len(old.copayers) : old.copayers[i] \in Copayer
    BY ElementOfSeq DEF Doc
  <2> QED
    BY <2>1 DEF Copayer
<1>3. Ids(old) \in [1..Len(old.copayers) -> Copayers]
  BY <1>2 DEF Ids
<1>4. Ids(old) \in Seq(Copayers) /\ Len(Ids(old)) = Len(old.copayers)
  BY <1>1, <1>3, FunctionIsSeq
<1>5. SubSeq(Ids(old), 1, Len(Ids(old))) = Ids(old)
  <2>1. SubSeq(Ids(old), 1, Len(Ids(old))) = [i \in 1..Len(Ids(old)) |-> Ids(old)[i]]
    BY <1>1, <1>4
  <2> QED
    BY <1>3, <1>4, <2>1
<1> QED
  BY <1>1, <1>4, <1>5

LEMMA MembersKeptNext ==
  ASSUME KnownInv, [Next]_vars, NEW w \in Wallets, wallets[w] # None,
         mishaps' \subseteq {"crash", "overlap"}
  PROVE  /\ Len(Ids(wallets[w])) <= Len(Ids(wallets'[w]))
         /\ SubSeq(Ids(wallets'[w]), 1, Len(Ids(wallets[w]))) = Ids(wallets[w])
<1>1. wallets[w] \in Doc /\ Calm
  BY OnlyStores DEF KnownInv, Inv, TypeOK, Calm
<1>2. CASE wallets'[w] = wallets[w]
  BY <1>1, <1>2, SameIds
<1>3. CASE wallets'[w] # wallets[w]
  <2>1. PICK t \in Tasks : StoreWallet(t)
    BY <1>3, OnlyStores
  <2>2. /\ job[t].at = "store" /\ job[t] \in Job
        /\ w = job[t].wallet /\ job[t].doc \in Doc /\ wallets'[w] = job[t].doc
    BY <1>3, <2>1, StoredIn
  <2>3. Continued(job[t].doc, wallets[w]) \/ Ids(job[t].doc) = Ids(wallets[w])
    BY <1>1, <2>2, StoreContinues
  <2> QED
    BY <1>1, <2>2, <2>3, ContinuedIds, SameIds
<1> QED
  BY <1>2, <1>3

LEMMA KeysKeptNext ==
  ASSUME KnownInv, [Next]_vars, NEW w \in Wallets, wallets[w] # None,
         mishaps' \subseteq {"crash"}, NEW copayer
  PROVE  KeysOf(wallets[w], copayer) \subseteq KeysOf(wallets'[w], copayer)
<1>1. wallets[w] \in Doc /\ Calm /\ "overlap" \notin mishaps
  BY OnlyStores DEF KnownInv, Inv, TypeOK, Calm
<1>2. CASE wallets'[w] # wallets[w]
  <2>1. PICK t \in Tasks : StoreWallet(t)
    BY <1>2, OnlyStores
  <2>2. /\ job[t].at = "store" /\ job[t] \in Job
        /\ w = job[t].wallet /\ job[t].doc \in Doc /\ wallets'[w] = job[t].doc
    BY <1>2, <2>1, StoredIn
  <2>3. Continued(job[t].doc, wallets[w])
    BY <1>1, <2>2, StoreContinues
  <2> QED
    BY <1>1, <2>2, <2>3, ContinuedKeys
<1> QED
  BY <1>2

(* Every request writes back what it read, in a later step: yet no join is undone
   by an addAccess that read the wallet before, no key by a join, and nobody
   by a process that dies.  Only an expired lock, a second creation and, for
   the keys, a second addAccess can do that, and those are left out here. *)
THEOREM NothingUndone == Spec => RewritesKept
<1>1. KnownInv /\ [Next]_vars =>
        [\A w \in Wallets : wallets[w] # None /\ mishaps' \subseteq {"crash", "overlap"} =>
           LET old == Ids(wallets[w])
               new == Ids(wallets'[w])
           IN  Len(old) <= Len(new) /\ SubSeq(new, 1, Len(old)) = old]_vars
  BY MembersKeptNext
<1>2. KnownInv /\ [Next]_vars =>
        [\A w \in Wallets : wallets[w] # None /\ mishaps' \subseteq {"crash"} =>
           \A copayer \in Members(wallets[w]) :
             KeysOf(wallets[w], copayer) \subseteq KeysOf(wallets'[w], copayer)]_vars
  BY KeysKeptNext
<1>3. Spec => []KnownInv
  BY KnownInit, KnownNext, PTL DEF Spec
<1>4. Spec => MembersKept
  BY <1>1, <1>3, PTL DEF Spec, MembersKept
<1>5. Spec => KeysKept
  BY <1>2, <1>3, PTL DEF Spec, KeysKept
<1> QED
  BY <1>4, <1>5 DEF RewritesKept

-----------------------------------------------------------------------------
(* The rows of the lookup table.  Of a wallet that is not torn it is known at
   every moment what the rewrite under way has left of its rows and what it has
   put back, and that only creations can write it at once.  That needs no lock:
   a rewrite that begins while another one writes tears the wallet. *)
Found(j) ==
  /\ j.op = "createWallet" /\ j.at = "store" => j.doc = NewWallet
  /\ j.op # "createWallet" /\ j.at \in {"lookup", "remove", "insert", "store"}
       => wallets[j.wallet] # None

FoundInv ==
  /\ KnownInv
  /\ \A t \in Tasks : Found(job[t])

RowsMidway ==
  \A t \in Tasks, w \in Wallets \ torn : job[t].wallet = w =>
    /\ job[t].at = "insert" => RowsOf(w) = {}
    /\ job[t].at = "store" => RowsOf(w) = RowsFor(w, job[t].doc)
    /\ job[t].at = "store" /\ job[t].op = "createWallet" => wallets[w] \in {None, NewWallet}

OnlyCreations ==
  \A t, u \in Tasks, w \in Wallets \ torn : t # u /\ Writes(t, w) /\ Writes(u, w) =>
    job[t].op = "createWallet" /\ job[u].op = "createWallet"

RewriteInv ==
  /\ FoundInv
  /\ RowsMidway
  /\ OnlyCreations
  /\ UntornSettled

(* Where only processes die, nobody but the one that died was writing. *)
AllOrNone ==
  mishaps \subseteq {"crash"} =>
    \A w \in torn : /\ ~Writing(w) /\ wallets[w] # None
                    /\ RowsOf(w) = {} \/ Covered(w)

-----------------------------------------------------------------------------
(* The kinds of steps: those beside the table, and five that write. *)
AtTable(j) == j.at \in {"insert", "store"}

Aside ==
  /\ UNCHANGED <<wallets, lookup, torn>> /\ mishaps \subseteq mishaps'
  /\ \A u \in Tasks : job'[u] = job[u] \/ (~AtTable(job[u]) /\ ~AtTable(job'[u]))

Creates(t) == CreateWallet(t) /\ wallets[job[t].wallet] = None

LEMMA AsideByOne ==
  ASSUME Inv, NEW t \in Tasks, NEW j, job' = [job EXCEPT ![t] = j],
         UNCHANGED <<wallets, lookup, torn>>, mishaps \subseteq mishaps',
         ~AtTable(job[t]), ~AtTable(j)
  PROVE  Aside
BY DEF Aside, Inv, TypeOK

LEMMA AsideByAnswer ==
  ASSUME Inv, NEW t \in Tasks, Answer(t), UNCHANGED <<wallets, lookup, mishaps, torn>>,
         ~AtTable(job[t])
  PROVE  Aside
<1>1. job' = [job EXCEPT ![t] = Idle] /\ ~AtTable(Idle)
  BY DEF Answer, AtTable, Idle
<1> QED
  BY <1>1, AsideByOne

LEMMA ServeKinds ==
  ASSUME Inv, NEW t \in Tasks, Serve(t) \/ Busy(t)
  PROVE  \/ Aside
         \/ Creates(t) \/ RemoveRows(t) \/ InsertRows(t) \/ StoreWallet(t)
         \/ \E tasks \in SUBSET Tasks : Stop(tasks)
<1>1. CASE CreateWallet(t)
  BY <1>1, AsideByAnswer DEF CreateWallet, Creates, At, AtTable
<1>2. CASE JoinWallet(t)
  <2> DEFINE j == [job[t] EXCEPT !.doc = wallets[job[t].wallet], !.at = "lookup"]
  <2>1. UNCHANGED <<wallets, lookup, mishaps, torn>> /\ ~AtTable(job[t]) /\ job[t] \in Job
    BY <1>2, AtWork DEF JoinWallet, At, AtTable
  <2>2. Answer(t) \/ job' = [job EXCEPT ![t] = j]
    BY <1>2, <2>1 DEF JoinWallet, Inv, TypeOK
  <2>3. ~AtTable(j)
    BY <2>1 DEF Job, AtTable
  <2> HIDE DEF j
  <2> QED
    BY <2>1, <2>2, <2>3, AsideByAnswer, AsideByOne
<1>3. CASE AddCopayerToWallet(t)
  <2> DEFINE doc == AddCopayer(job[t].doc, job[t].copayer, job[t].key)
             j == [job[t] EXCEPT !.at = "remove", !.doc = doc]
  <2>1. UNCHANGED <<wallets, lookup, mishaps, torn>> /\ ~AtTable(job[t]) /\ job[t] \in Job
    BY <1>3, AtWork DEF AddCopayerToWallet, At, AtTable
  <2>2. Answer(t) \/ job' = [job EXCEPT ![t] = j]
    BY <1>3 DEF AddCopayerToWallet, Continue
  <2> HIDE DEF doc
  <2>3. ~AtTable(j)
    BY <2>1 DEF Job, AtTable
  <2> HIDE DEF j
  <2> QED
    BY <2>1, <2>2, <2>3, AsideByAnswer, AsideByOne
<1>4. CASE AddAccess(t)
  <2>1. UNCHANGED <<wallets, lookup, mishaps, torn>> /\ ~AtTable(job[t]) /\ job[t] \in Job
    BY <1>4, AtWork DEF AddAccess, At, AtTable
  <2>2. CASE ~Answer(t)
    <3>1. PICK row \in lookup :
            Continue(t, [job[t] EXCEPT !.row = row, !.wallet = row.walletId, !.at = "fetch"])
      BY <1>4, <2>2 DEF AddAccess
    <3> DEFINE j == [job[t] EXCEPT !.row = row, !.wallet = row.walletId, !.at = "fetch"]
    <3>2. job' = [job EXCEPT ![t] = j]
      BY <3>1 DEF Continue
    <3>3. ~AtTable(j)
      BY <2>1 DEF Job, AtTable
    <3> HIDE DEF j
    <3> QED
      BY <2>1, <3>2, <3>3, AsideByOne
  <2> QED
    BY <2>1, <2>2, AsideByAnswer
<1>5. CASE AddKeyToCopayer(t)
  <2> DEFINE doc == AddKey(wallets[job[t].wallet], job[t].copayer, job[t].key)
             j == [job[t] EXCEPT !.doc = doc, !.at = "remove"]
  <2>1. ~AtTable(job[t]) /\ job[t] \in Job
    BY <1>5, AtWork DEF AddKeyToCopayer, At, AtTable
  <2>2. \/ Answer(t) /\ UNCHANGED <<wallets, lookup, mishaps, torn>>
        \/ Continue(t, j) /\ UNCHANGED <<wallets, lookup, mishaps, torn>>
        \/ \E others \in SUBSET Tasks : Stop({t} \cup others)
    BY <1>5 DEF AddKeyToCopayer
  <2> HIDE DEF doc
  <2>3. ~AtTable(j)
    BY <2>1 DEF Job, AtTable
  <2> HIDE DEF j
  <2>4. CASE Continue(t, j) /\ UNCHANGED <<wallets, lookup, mishaps, torn>>
    BY <2>1, <2>3, <2>4, AsideByOne DEF Continue
  <2>5. CASE \E others \in SUBSET Tasks : Stop({t} \cup others)
    BY <2>5
  <2> QED
    BY <2>1, <2>2, <2>4, <2>5, AsideByAnswer
<1>6. CASE Busy(t)
  BY <1>6, AsideByAnswer DEF Busy, At, AtTable
<1> QED
  BY <1>1, <1>2, <1>3, <1>4, <1>5, <1>6 DEF Serve

LEMMA StepKinds ==
  ASSUME Inv, [Next]_vars
  PROVE  \/ Aside
         \/ \E t \in Tasks : Creates(t) \/ RemoveRows(t) \/ InsertRows(t) \/ StoreWallet(t)
         \/ \E tasks \in SUBSET Tasks : Stop(tasks)
<1>1. ASSUME NEW t \in Tasks, NEW op \in Ops, NEW w \in Wallets, NEW copayer \in Copayers,
             NEW key \in Keys, Arrive(t, op, w, copayer, key)
      PROVE  Aside
  <2> DEFINE j == [Idle EXCEPT !.op = op, !.at = "start",
                     !.wallet = IF op = "addAccess" THEN None ELSE w,
                     !.copayer = IF op = "createWallet" THEN None ELSE copayer,
                     !.key = IF op = "createWallet" THEN None ELSE key]
  <2>1. /\ job' = [job EXCEPT ![t] = j] /\ UNCHANGED <<wallets, lookup, torn>>
        /\ job[t] = Idle /\ mishaps \subseteq mishaps'
    BY <1>1 DEF Arrive, Continue
  <2>2. ~AtTable(j) /\ ~AtTable(Idle)
    BY DEF Idle, AtTable
  <2> HIDE DEF j
  <2> QED
    BY <2>1, <2>2, AsideByOne
<1>2. ASSUME NEW w \in Wallets, LockExpires(w) PROVE Aside
  BY <1>2 DEF LockExpires, Aside
<1>3. CASE UNCHANGED vars
  BY <1>3 DEF vars, Aside
<1>4. ASSUME NEW t \in Tasks, Crash(t) PROVE \E tasks \in SUBSET Tasks : Stop(tasks)
  BY <1>4 DEF Crash
<1> QED
  BY <1>1, <1>2, <1>3, <1>4, ServeKinds DEF Next

-----------------------------------------------------------------------------
(* What a request writes was there when it read it, and a wallet never goes. *)
LEMMA FoundOne ==
  ASSUME FoundInv, NEW t \in Tasks, NEW j, job' = [job EXCEPT ![t] = j],
         \A w \in Wallets : wallets[w] # None => wallets'[w] # None,
         j.op = "createWallet" /\ j.at = "store" => j.doc = NewWallet,
         j.op # "createWallet" /\ j.at \in {"lookup", "remove", "insert", "store"}
           => wallets'[j.wallet] # None
  PROVE  \A u \in Tasks : Found(job[u])'
<1> SUFFICES ASSUME NEW u \in Tasks PROVE Found(job[u])'
  OBVIOUS
<1>1. job'[u] = IF u = t THEN j ELSE job[u]
  BY DEF FoundInv, KnownInv, Inv, TypeOK
<1>2. CASE u = t
  BY <1>1, <1>2 DEF Found
<1>3. CASE u # t
  <2>1. Found(job[u]) /\ Ready(job[u]) /\ Stages(job[u]) /\ job[u] \in Job \cup {Idle}
    BY DEF FoundInv, KnownInv, Inv, TypeOK
  <2>2. job[u].op \in Requests \/ job[u].at = "idle"
    BY <2>1 DEF Job, Idle
  <2>3. job[u].op # "createWallet" /\ job[u].at \in {"lookup", "remove", "insert", "store"}
          => job[u].wallet \in Wallets
    BY <2>1, <2>2 DEF Ready, Stages, Requests
  <2> QED
    BY <1>1, <1>3, <2>1, <2>3 DEF Found
<1> QED
  BY <1>2, <1>3

LEMMA FoundAnswer ==
  ASSUME FoundInv, NEW t \in Tasks, Answer(t), UNCHANGED wallets
  PROVE  \A u \in Tasks : Found(job[u])'
<1>1. job' = [job EXCEPT ![t] = Idle] /\ Idle.op = "none" /\ Idle.at = "idle"
  BY DEF Answer, Idle
<1> QED
  BY <1>1, FoundOne

LEMMA FoundStop ==
  ASSUME FoundInv, NEW tasks, Stop(tasks)
  PROVE  \A u \in Tasks : Found(job[u])'
<1>1. \A u \in Tasks : job'[u] = job[u] \/ job'[u] = Idle
  BY DEF Stop
<1>2. Idle.op = "none" /\ Idle.at = "idle" /\ UNCHANGED wallets
  BY DEF Stop, Idle
<1> QED
  BY <1>1, <1>2 DEF FoundInv, Found

LEMMA FoundServe ==
  ASSUME FoundInv, NEW t \in Tasks, Serve(t) \/ Busy(t)
  PROVE  \A u \in Tasks : Found(job[u])'
<1>1. /\ Found(job[t]) /\ job[t] \in Job \cup {Idle} /\ Ready(job[t]) /\ Stages(job[t])
      /\ wallets \in [Wallets -> Doc \cup {None}]
  BY DEF FoundInv, KnownInv, Inv, TypeOK
<1>2. CASE CreateWallet(t)
  <2> DEFINE j == [job[t] EXCEPT !.doc = NewWallet, !.at = "store"]
  <2>1. job[t] \in Job /\ job[t].op = "createWallet" /\ UNCHANGED wallets
    BY <1>2, AtWork DEF CreateWallet, At, FoundInv, KnownInv
  <2>2. Answer(t) \/ job' = [job EXCEPT ![t] = j]
    BY <1>2 DEF CreateWallet, Continue
  <2>3. j.op = "createWallet" /\ j.doc = NewWallet
    BY <2>1 DEF Job
  <2> HIDE DEF j
  <2> QED
    BY <2>1, <2>2, <2>3, FoundAnswer, FoundOne
<1>3. CASE JoinWallet(t)
  <2> DEFINE j == [job[t] EXCEPT !.doc = wallets[job[t].wallet], !.at = "lookup"]
  <2>1. /\ job[t] \in Job /\ job[t].op = "joinWallet" /\ UNCHANGED wallets
        /\ job[t].at = "start"
    BY <1>3, AtWork DEF JoinWallet, At, FoundInv, KnownInv
  <2>2. Answer(t) \/ (job' = [job EXCEPT ![t] = j] /\ wallets[job[t].wallet] # None)
    BY <1>3, <2>1 DEF JoinWallet, MayJoin, FoundInv, KnownInv, Inv, TypeOK
  <2>3. j.op = "joinWallet" /\ j.wallet = job[t].wallet
    BY <2>1 DEF Job
  <2> HIDE DEF j
  <2> QED
    BY <2>1, <2>2, <2>3, FoundAnswer, FoundOne
<1>4. CASE AddCopayerToWallet(t)
  <2> DEFINE doc == AddCopayer(job[t].doc, job[t].copayer, job[t].key)
             j == [job[t] EXCEPT !.at = "remove", !.doc = doc]
  <2>1. /\ job[t] \in Job /\ job[t].op = "joinWallet" /\ job[t].at = "lookup"
        /\ UNCHANGED wallets
    BY <1>4, AtWork DEF AddCopayerToWallet, At, FoundInv, KnownInv
  <2>2. Answer(t) \/ job' = [job EXCEPT ![t] = j]
    BY <1>4 DEF AddCopayerToWallet, Continue
  <2> HIDE DEF doc
  <2>3. j.op = "joinWallet" /\ j.wallet = job[t].wallet
    BY <2>1 DEF Job
  <2>4. wallets[job[t].wallet] # None
    BY <1>1, <2>1 DEF Found
  <2> HIDE DEF j
  <2> QED
    BY <2>1, <2>2, <2>3, <2>4, FoundAnswer, FoundOne
<1>5. CASE AddAccess(t)
  <2>1. job[t] \in Job /\ UNCHANGED wallets /\ job[t].op = "addAccess"
    BY <1>5, AtWork DEF AddAccess, At, FoundInv, KnownInv
  <2>2. CASE ~Answer(t)
    <3>1. PICK row \in lookup :
            Continue(t, [job[t] EXCEPT !.row = row, !.wallet = row.walletId, !.at = "fetch"])
      BY <1>5, <2>2 DEF AddAccess
    <3> DEFINE j == [job[t] EXCEPT !.row = row, !.wallet = row.walletId, !.at = "fetch"]
    <3>2. job' = [job EXCEPT ![t] = j]
      BY <3>1 DEF Continue
    <3>3. j.at = "fetch"
      BY <2>1 DEF Job
    <3> HIDE DEF j
    <3> QED
      BY <2>1, <3>2, <3>3, FoundOne
  <2> QED
    BY <2>1, <2>2, FoundAnswer
<1>6. CASE AddKeyToCopayer(t)
  <2> DEFINE doc == AddKey(wallets[job[t].wallet], job[t].copayer, job[t].key)
             j == [job[t] EXCEPT !.doc = doc, !.at = "remove"]
  <2>1. job[t] \in Job /\ job[t].op = "addAccess"
    BY <1>6, AtWork DEF AddKeyToCopayer, At, FoundInv, KnownInv
  <2>2. \/ Answer(t) /\ UNCHANGED wallets
        \/ Continue(t, j) /\ UNCHANGED wallets /\ wallets[job[t].wallet] # None
        \/ \E others \in SUBSET Tasks : Stop({t} \cup others)
    BY <1>6 DEF AddKeyToCopayer
  <2> HIDE DEF doc
  <2>3. j.op = "addAccess" /\ j.wallet = job[t].wallet
    BY <2>1 DEF Job
  <2> HIDE DEF j
  <2> QED
    BY <2>2, <2>3, FoundAnswer, FoundOne, FoundStop DEF Continue
<1>7. CASE RemoveRows(t) \/ InsertRows(t)
  <2>1. /\ job[t] \in Job /\ job[t].at \in {"remove", "insert"} /\ UNCHANGED wallets
        /\ \E to \in {"insert", "store"} : GoTo(t, to)
    BY <1>7, AtWork DEF RemoveRows, InsertRows, FoundInv, KnownInv
  <2>2. PICK to \in {"insert", "store"} : job' = [job EXCEPT ![t] = [job[t] EXCEPT !.at = to]]
    BY <2>1 DEF GoTo, Continue
  <2> DEFINE j == [job[t] EXCEPT !.at = to]
  <2>3. j.op = job[t].op /\ j.wallet = job[t].wallet /\ j.op # "createWallet"
    BY <1>1, <2>1 DEF Job, Stages
  <2>4. wallets[job[t].wallet] # None
    BY <1>1, <2>1, <2>3 DEF Found
  <2>5. job' = [job EXCEPT ![t] = j]
    BY <2>2
  <2> HIDE DEF j
  <2> QED
    BY <2>1, <2>3, <2>4, <2>5, FoundOne
<1>8. CASE StoreWallet(t)
  <2>1. /\ job[t].wallet \in Wallets /\ job[t].doc # None
        /\ \A x \in Wallets : wallets'[x] = IF x = job[t].wallet THEN job[t].doc ELSE wallets[x]
    BY <1>8, StoredIn DEF FoundInv
  <2>2. job' = [job EXCEPT ![t] = Idle] /\ Idle.op = "none" /\ Idle.at = "idle"
    BY <1>8 DEF StoreWallet, Answer, Idle
  <2> QED
    BY <2>1, <2>2, FoundOne
<1>9. CASE Busy(t)
  BY <1>9, FoundAnswer DEF Busy
<1> QED
  BY <1>2, <1>3, <1>4, <1>5, <1>6, <1>7, <1>8, <1>9 DEF Serve

LEMMA FoundNext == FoundInv /\ [Next]_vars => FoundInv'
<1> SUFFICES ASSUME FoundInv, [Next]_vars PROVE \A u \in Tasks : Found(job[u])'
  BY KnownNext DEF FoundInv
<1>1. ASSUME NEW t \in Tasks, NEW op \in Ops, NEW w \in Wallets, NEW copayer \in Copayers,
             NEW key \in Keys, Arrive(t, op, w, copayer, key)
      PROVE  \A u \in Tasks : Found(job[u])'
  <2> DEFINE j == [Idle EXCEPT !.op = op, !.at = "start",
                     !.wallet = IF op = "addAccess" THEN None ELSE w,
                     !.copayer = IF op = "createWallet" THEN None ELSE copayer,
                     !.key = IF op = "createWallet" THEN None ELSE key]
  <2>1. job' = [job EXCEPT ![t] = j] /\ UNCHANGED wallets
    BY <1>1 DEF Arrive, Continue
  <2>2. j.at = "start"
    BY DEF Idle
  <2> HIDE DEF j
  <2> QED
    BY <2>1, <2>2, FoundOne
<1>2. ASSUME NEW t \in Tasks, Crash(t) PROVE \A u \in Tasks : Found(job[u])'
  BY <1>2, FoundStop DEF Crash
<1>3. ASSUME NEW w \in Wallets, LockExpires(w) PROVE \A u \in Tasks : Found(job[u])'
  BY <1>3 DEF LockExpires, FoundInv, Found
<1>4. CASE UNCHANGED vars
  BY <1>4 DEF vars, FoundInv, Found
<1> QED
  BY <1>1, <1>2, <1>3, <1>4, FoundServe DEF Next

-----------------------------------------------------------------------------
(* What each kind of step does to the jobs and the rows. *)
LEMMA RowsKept ==
  ASSUME UNCHANGED lookup, NEW w
  PROVE  RowsOf(w)' = RowsOf(w)
BY DEF RowsOf

LEMMA RowsForWallet == \A w, doc : \A row \in RowsFor(w, doc) : row.walletId = w
BY DEF RowsFor

LEMMA NoRowsForNew == \A w : RowsFor(w, NewWallet) = {}
<1>1. NewWallet.copayers = <<>>
  BY DEF NewWallet
<1>2. 1..Len(NewWallet.copayers) = {}
  BY <1>1
<1> QED
  BY <1>2 DEF RowsFor

LEMMA Creation ==
  ASSUME FoundInv, NEW t \in Tasks, Creates(t)
  PROVE  /\ job[t].wallet \in Wallets /\ wallets[job[t].wallet] = None /\ ~AtTable(job[t])
         /\ UNCHANGED <<wallets, lookup, mishaps, torn>>
         /\ \A u \in Tasks : u # t => job'[u] = job[u]
         /\ job'[t].at = "store" /\ job'[t].op = "createWallet"
         /\ job'[t].doc = NewWallet /\ job'[t].wallet = job[t].wallet
<1> DEFINE j == [job[t] EXCEPT !.doc = NewWallet, !.at = "store"]
<1>1. /\ job[t] \in Job /\ Ready(job[t]) /\ job[t].op = "createWallet" /\ job[t].at = "start"
      /\ job \in [Tasks -> Job \cup {Idle}]
  BY AtWork DEF Creates, CreateWallet, At, FoundInv, KnownInv, Inv, TypeOK
<1>2. /\ wallets[job[t].wallet] = None /\ UNCHANGED <<wallets, lookup, mishaps, torn>>
      /\ job' = [job EXCEPT ![t] = j]
  BY DEF Creates, CreateWallet, Continue
<1>3. j.at = "store" /\ j.op = "createWallet" /\ j.doc = NewWallet /\ j.wallet = job[t].wallet
  BY <1>1 DEF Job
<1> HIDE DEF j
<1> QED
  BY <1>1, <1>2, <1>3 DEF Ready, AtTable

LEMMA Rewrite ==
  ASSUME FoundInv, NEW t \in Tasks, job[t].at \in {"remove", "insert"},
         NEW to \in {"insert", "store"}, GoTo(t, to)
  PROVE  /\ job[t].wallet \in Wallets /\ wallets[job[t].wallet] # None
         /\ job[t].op # "createWallet"
         /\ \A u \in Tasks : u # t => job'[u] = job[u]
         /\ job'[t].at = to /\ job'[t].op = job[t].op
         /\ job'[t].doc = job[t].doc /\ job'[t].wallet = job[t].wallet
<1> DEFINE j == [job[t] EXCEPT !.at = to]
<1>1. /\ job[t] \in Job /\ Ready(job[t]) /\ Stages(job[t]) /\ Found(job[t])
      /\ job \in [Tasks -> Job \cup {Idle}]
  BY AtWork DEF FoundInv, KnownInv, Inv, TypeOK
<1>2. job' = [job EXCEPT ![t] = j]
  BY DEF GoTo, Continue
<1>3. j.at = to /\ j.op = job[t].op /\ j.doc = job[t].doc /\ j.wallet = job[t].wallet
  BY <1>1 DEF Job
<1> HIDE DEF j
<1>4. \A u \in Tasks : job'[u] = IF u = t THEN j ELSE job[u]
  BY <1>1, <1>2
<1> QED
  BY <1>1, <1>3, <1>4 DEF Ready, Stages, Found

LEMMA Removal ==
  ASSUME NEW t \in Tasks, RemoveRows(t), NEW w, w = job[t].wallet
  PROVE  /\ job[t].at = "remove" /\ GoTo(t, "insert") /\ UNCHANGED <<wallets, mishaps>>
         /\ torn' = IF Writing(w) THEN torn \cup {w} ELSE torn \ {w}
         /\ RowsOf(w)' = {}
         /\ \A x \in Wallets : x # w => RowsOf(x)' = RowsOf(x)
<1>1. lookup' = lookup \ RowsOf(w)
  BY DEF RemoveRows
<1>2. \A x \in Wallets : x # w => RowsOf(x)' = RowsOf(x)
  BY <1>1 DEF RowsOf
<1>3. RowsOf(w)' = {}
  BY <1>1 DEF RowsOf
<1> QED
  BY <1>2, <1>3 DEF RemoveRows

LEMMA Insertion ==
  ASSUME NEW t \in Tasks, InsertRows(t), NEW w, w = job[t].wallet
  PROVE  /\ job[t].at = "insert" /\ GoTo(t, "store") /\ UNCHANGED <<wallets, mishaps, torn>>
         /\ RowsOf(w) = {} => RowsOf(w)' = RowsFor(w, job[t].doc)
         /\ \A x \in Wallets : x # w => RowsOf(x)' = RowsOf(x)
<1>1. PICK rows : rows = RowsFor(w, job[t].doc)
  OBVIOUS
<1>2. lookup' = lookup \cup rows
  BY <1>1 DEF InsertRows
<1>3. \A row \in rows : row.walletId = w
  BY <1>1, RowsForWallet
<1>4. \A x \in Wallets : x # w => RowsOf(x)' = RowsOf(x)
  BY <1>2, <1>3 DEF RowsOf
<1>5. RowsOf(w) = {} => RowsOf(w)' = rows
  BY <1>2, <1>3 DEF RowsOf
<1> QED
  BY <1>1, <1>4, <1>5 DEF InsertRows

-----------------------------------------------------------------------------
(* The kinds of steps keep the rows of every wallet that is not torn known. *)
LEMMA AsideSettled ==
  ASSUME RewriteInv, Aside
  PROVE  RowsMidway' /\ OnlyCreations' /\ UntornSettled'
<1>1. /\ \A w : RowsOf(w)' = RowsOf(w)
      /\ UNCHANGED <<wallets, torn>>
      /\ \A u \in Tasks : AtTable(job[u]) \/ AtTable(job'[u]) => job'[u] = job[u]
  BY RowsKept DEF Aside
<1>2. \A u \in Tasks : AtTable(job'[u]) <=> AtTable(job[u])
  BY <1>1
<1>3. RowsMidway'
  <2> SUFFICES ASSUME NEW u \in Tasks, NEW w \in Wallets \ torn, job'[u].wallet = w
               PROVE  /\ job'[u].at = "insert" => RowsOf(w)' = {}
                      /\ job'[u].at = "store" => RowsOf(w)' = RowsFor(w, job[u].doc)'
                      /\ job'[u].at = "store" /\ job'[u].op = "createWallet"
                           => wallets'[w] \in {None, NewWallet}
    BY <1>1 DEF RowsMidway
  <2>1. CASE job'[u] = job[u]
    <3>1. RowsFor(w, job[u].doc)' = RowsFor(w, job[u].doc)
      BY <2>1 DEF RowsFor
    <3> QED
      BY <1>1, <2>1, <3>1 DEF RewriteInv, RowsMidway
  <2>2. CASE ~AtTable(job'[u])
    BY <2>2 DEF AtTable
  <2> QED
    BY <1>1, <2>1, <2>2
<1>4. \A u \in Tasks : \A w : Writes(u, w)' => Writes(u, w) /\ job'[u] = job[u]
  BY <1>1 DEF Writes, AtTable
<1>5. OnlyCreations'
  BY <1>1, <1>4 DEF RewriteInv, OnlyCreations
<1>6. \A w \in Wallets : Writing(w) => Writing(w)'
  BY <1>1 DEF Writing, Writes, AtTable
<1>7. UntornSettled'
  BY <1>1, <1>6 DEF RewriteInv, UntornSettled, Settled
<1> QED
  BY <1>3, <1>5, <1>7

LEMMA CreationSettled ==
  ASSUME RewriteInv, NEW t \in Tasks, Creates(t)
  PROVE  RowsMidway' /\ OnlyCreations' /\ UntornSettled'
<1>1. PICK w \in Wallets : w = job[t].wallet
  BY Creation DEF RewriteInv
<1>2. /\ wallets[w] = None /\ ~AtTable(job[t]) /\ UNCHANGED <<wallets, lookup, mishaps, torn>>
      /\ \A u \in Tasks : u # t => job'[u] = job[u]
      /\ job'[t].at = "store" /\ job'[t].op = "createWallet"
      /\ job'[t].doc = NewWallet /\ job'[t].wallet = w
  BY <1>1, Creation DEF RewriteInv
<1>3. \A x : RowsOf(x)' = RowsOf(x)
  BY <1>2, RowsKept
<1>4. \A u \in Tasks : Writes(u, w) =>
        job[u].op = "createWallet" /\ job[u].at = "store" /\ job[u].doc = NewWallet
  BY <1>2 DEF Writes, RewriteInv, FoundInv, KnownInv, Found, Stages
<1>5. w \notin torn => RowsOf(w) = {}
  <2>1. CASE Writing(w)
    BY <1>4, <2>1, NoRowsForNew DEF Writing, Writes, RewriteInv, RowsMidway
  <2>2. CASE ~Writing(w)
    BY <1>2, <2>2 DEF RewriteInv, UntornSettled, Settled
  <2> QED
    BY <2>1, <2>2
<1>6. RowsMidway'
  <2> SUFFICES ASSUME NEW u \in Tasks, NEW x \in Wallets \ torn, job'[u].wallet = x
               PROVE  /\ job'[u].at = "insert" => RowsOf(x)' = {}
                      /\ job'[u].at = "store" => RowsOf(x)' = RowsFor(x, job[u].doc)'
                      /\ job'[u].at = "store" /\ job'[u].op = "createWallet"
                           => wallets'[x] \in {None, NewWallet}
    BY <1>2 DEF RowsMidway
  <2>1. CASE u = t
    <3>1. RowsFor(x, job[u].doc)' = RowsFor(x, NewWallet)
      BY <1>2, <2>1 DEF RowsFor
    <3> QED
      BY <1>2, <1>3, <1>5, <2>1, <3>1, NoRowsForNew
  <2>2. CASE u # t
    <3>1. job'[u] = job[u]
      BY <1>2, <2>2
    <3>2. RowsFor(x, job[u].doc)' = RowsFor(x, job[u].doc)
      BY <3>1 DEF RowsFor
    <3> QED
      BY <1>2, <1>3, <3>1, <3>2 DEF RewriteInv, RowsMidway
  <2> QED
    BY <2>1, <2>2
<1>7. OnlyCreations'
  BY <1>2, <1>4 DEF RewriteInv, OnlyCreations, Writes
<1>8. \A x \in Wallets : Writing(x) => Writing(x)'
  BY <1>2 DEF Writing, Writes, AtTable
<1>9. UntornSettled'
  BY <1>2, <1>3, <1>8 DEF RewriteInv, UntornSettled, Settled
<1> QED
  BY <1>6, <1>7, <1>9

LEMMA RemovalSettled ==
  ASSUME RewriteInv, NEW t \in Tasks, RemoveRows(t)
  PROVE  RowsMidway' /\ OnlyCreations' /\ UntornSettled'
<1>1. PICK w \in Wallets : w = job[t].wallet
  BY Removal, Rewrite DEF RewriteInv
<1>2. /\ job[t].at = "remove" /\ GoTo(t, "insert") /\ UNCHANGED <<wallets, mishaps>>
      /\ torn' = IF Writing(w) THEN torn \cup {w} ELSE torn \ {w}
      /\ RowsOf(w)' = {} /\ \A x \in Wallets : x # w => RowsOf(x)' = RowsOf(x)
  BY <1>1, Removal
<1>3. /\ \A u \in Tasks : u # t => job'[u] = job[u]
      /\ job'[t].at = "insert" /\ job'[t].wallet = w
  BY <1>1, <1>2, Rewrite DEF RewriteInv
<1>4. \A x \in Wallets : x # w => (x \in torn' <=> x \in torn)
  BY <1>2
<1>5. w \notin torn' => \A u \in Tasks : ~Writes(u, w)
  BY <1>2 DEF Writing
<1>6. RowsMidway'
  <2> SUFFICES ASSUME NEW u \in Tasks, NEW x \in Wallets \ torn', job'[u].wallet = x
               PROVE  /\ job'[u].at = "insert" => RowsOf(x)' = {}
                      /\ job'[u].at = "store" => RowsOf(x)' = RowsFor(x, job[u].doc)'
                      /\ job'[u].at = "store" /\ job'[u].op = "createWallet"
                           => wallets'[x] \in {None, NewWallet}
    BY DEF RowsMidway
  <2>1. CASE u = t
    BY <1>2, <1>3, <2>1
  <2>2. CASE u # t /\ x = w
    BY <1>3, <1>5, <2>2 DEF Writes
  <2>3. CASE u # t /\ x # w
    <3>1. job'[u] = job[u] /\ RowsOf(x)' = RowsOf(x) /\ x \notin torn
      BY <1>2, <1>3, <1>4, <2>3
    <3>2. RowsFor(x, job[u].doc)' = RowsFor(x, job[u].doc)
      BY <3>1 DEF RowsFor
    <3> QED
      BY <1>2, <3>1, <3>2 DEF RewriteInv, RowsMidway
  <2> QED
    BY <2>1, <2>2, <2>3
<1>7. OnlyCreations'
  <2> SUFFICES ASSUME NEW u \in Tasks, NEW v \in Tasks, NEW x \in Wallets \ torn',
                      u # v, Writes(u, x)', Writes(v, x)'
               PROVE  job'[u].op = "createWallet" /\ job'[v].op = "createWallet"
    BY DEF OnlyCreations
  <2>1. CASE x = w
    BY <1>3, <1>5, <2>1 DEF Writes
  <2>2. CASE x # w
    BY <1>3, <1>4, <2>2 DEF Writes, RewriteInv, OnlyCreations
  <2> QED
    BY <2>1, <2>2
<1>8. UntornSettled'
  <2> SUFFICES ASSUME NEW x \in Wallets, ~Writing(x)', x \notin torn' PROVE Settled(x)'
    BY DEF UntornSettled
  <2>1. x # w
    BY <1>3 DEF Writing, Writes
  <2>2. ~Writing(x)
    BY <1>2, <1>3, <2>1 DEF Writing, Writes
  <2> QED
    BY <1>2, <1>4, <2>1, <2>2 DEF RewriteInv, UntornSettled, Settled
<1> QED
  BY <1>6, <1>7, <1>8

LEMMA InsertionSettled ==
  ASSUME RewriteInv, NEW t \in Tasks, InsertRows(t)
  PROVE  RowsMidway' /\ OnlyCreations' /\ UntornSettled'
<1>1. PICK w \in Wallets : w = job[t].wallet
  BY Insertion, Rewrite DEF RewriteInv
<1>2. /\ job[t].at = "insert" /\ GoTo(t, "store") /\ UNCHANGED <<wallets, mishaps, torn>>
      /\ RowsOf(w) = {} => RowsOf(w)' = RowsFor(w, job[t].doc)
      /\ \A x \in Wallets : x # w => RowsOf(x)' = RowsOf(x)
  BY <1>1, Insertion
<1>3. /\ \A u \in Tasks : u # t => job'[u] = job[u]
      /\ job[t].op # "createWallet" /\ job'[t].op = job[t].op
      /\ job'[t].at = "store" /\ job'[t].wallet = w /\ job'[t].doc = job[t].doc
  BY <1>1, <1>2, Rewrite DEF RewriteInv
<1>4. w \notin torn => \A u \in Tasks : u # t => ~Writes(u, w)
  BY <1>1, <1>2, <1>3 DEF RewriteInv, OnlyCreations, Writes
<1>5. w \notin torn => RowsOf(w)' = RowsFor(w, job[t].doc)
  BY <1>1, <1>2 DEF RewriteInv, RowsMidway
<1>6. RowsMidway'
  <2> SUFFICES ASSUME NEW u \in Tasks, NEW x \in Wallets \ torn, job'[u].wallet = x
               PROVE  /\ job'[u].at = "insert" => RowsOf(x)' = {}
                      /\ job'[u].at = "store" => RowsOf(x)' = RowsFor(x, job[u].doc)'
                      /\ job'[u].at = "store" /\ job'[u].op = "createWallet"
                           => wallets'[x] \in {None, NewWallet}
    BY <1>2 DEF RowsMidway
  <2>1. CASE u = t
    <3>1. RowsFor(x, job[u].doc)' = RowsFor(x, job[t].doc)
      BY <1>3, <2>1 DEF RowsFor
    <3> QED
      BY <1>3, <1>5, <2>1, <3>1
  <2>2. CASE u # t /\ x = w
    BY <1>3, <1>4, <2>2 DEF Writes
  <2>3. CASE u # t /\ x # w
    <3>1. job'[u] = job[u] /\ RowsOf(x)' = RowsOf(x)
      BY <1>2, <1>3, <2>3
    <3>2. RowsFor(x, job[u].doc)' = RowsFor(x, job[u].doc)
      BY <3>1 DEF RowsFor
    <3> QED
      BY <1>2, <3>1, <3>2 DEF RewriteInv, RowsMidway
  <2> QED
    BY <2>1, <2>2, <2>3
<1>7. OnlyCreations'
  <2> SUFFICES ASSUME NEW u \in Tasks, NEW v \in Tasks, NEW x \in Wallets \ torn,
                      u # v, Writes(u, x)', Writes(v, x)'
               PROVE  job'[u].op = "createWallet" /\ job'[v].op = "createWallet"
    BY <1>2 DEF OnlyCreations
  <2>1. CASE x = w
    BY <1>3, <1>4, <2>1 DEF Writes
  <2>2. CASE x # w
    BY <1>3, <2>2 DEF Writes, RewriteInv, OnlyCreations
  <2> QED
    BY <2>1, <2>2
<1>8. UntornSettled'
  <2> SUFFICES ASSUME NEW x \in Wallets, ~Writing(x)', x \notin torn PROVE Settled(x)'
    BY <1>2 DEF UntornSettled
  <2>1. x # w
    BY <1>3 DEF Writing, Writes
  <2>2. ~Writing(x)
    BY <1>1, <1>3, <2>1 DEF Writing, Writes
  <2> QED
    BY <1>2, <2>1, <2>2 DEF RewriteInv, UntornSettled, Settled
<1> QED
  BY <1>6, <1>7, <1>8

LEMMA StoreSettled ==
  ASSUME RewriteInv, NEW t \in Tasks, StoreWallet(t)
  PROVE  RowsMidway' /\ OnlyCreations' /\ UntornSettled'
<1> DEFINE w == job[t].wallet
<1>1. /\ job[t].at = "store" /\ w \in Wallets /\ job[t].doc # None
      /\ \A x \in Wallets : wallets'[x] = IF x = w THEN job[t].doc ELSE wallets[x]
      /\ \A u \in Tasks : job'[u] = IF u = t THEN Idle ELSE job[u]
      /\ UNCHANGED <<lookup, mishaps, torn>>
  BY StoredIn DEF RewriteInv, FoundInv, StoreWallet
<1>2. Idle.at = "idle" /\ \A x : RowsOf(x)' = RowsOf(x)
  BY <1>1, RowsKept DEF Idle
<1>3. \A u \in Tasks : AtTable(job'[u]) => job'[u] = job[u] /\ u # t
  BY <1>1, <1>2 DEF AtTable
<1>4. \A u \in Tasks : \A x : Writes(u, x)' => Writes(u, x) /\ job'[u] = job[u] /\ u # t
  BY <1>3 DEF Writes, AtTable
<1>5. RowsMidway'
  <2> SUFFICES ASSUME NEW u \in Tasks, NEW x \in Wallets \ torn, Writes(u, x)'
               PROVE  /\ job'[u].at = "insert" => RowsOf(x)' = {}
                      /\ job'[u].at = "store" => RowsOf(x)' = RowsFor(x, job[u].doc)'
                      /\ job'[u].at = "store" /\ job'[u].op = "createWallet"
                           => wallets'[x] \in {None, NewWallet}
    BY <1>1 DEF RowsMidway, Writes
  <2>1. Writes(u, x) /\ job'[u] = job[u] /\ u # t
    BY <1>4
  <2>2. RowsFor(x, job[u].doc)' = RowsFor(x, job[u].doc)
    BY <2>1 DEF RowsFor
  <2>3. x = w => job[t].op = "createWallet" /\ job[t].doc = NewWallet
    <3>1. x = w => job[t].op = "createWallet"
      BY <1>1, <2>1 DEF RewriteInv, OnlyCreations, Writes
    <3> QED
      BY <1>1, <3>1 DEF RewriteInv, FoundInv, Found
  <2> HIDE DEF w
  <2> QED
    BY <1>1, <1>2, <2>1, <2>2, <2>3 DEF RewriteInv, RowsMidway, Writes
<1>6. OnlyCreations'
  BY <1>1, <1>4 DEF RewriteInv, OnlyCreations
<1>7. UntornSettled'
  <2> SUFFICES ASSUME NEW x \in Wallets, ~Writing(x)', x \notin torn PROVE Settled(x)'
    BY <1>1 DEF UntornSettled
  <2>1. CASE x = w
    <3>1. RowsOf(w) = RowsFor(w, job[t].doc)
      BY <1>1, <2>1 DEF RewriteInv, RowsMidway
    <3> QED
      BY <1>1, <1>2, <2>1, <3>1 DEF Settled
  <2>2. CASE x # w
    <3>1. ~Writing(x)
      BY <1>1, <2>2 DEF Writing, Writes
    <3> QED
      BY <1>1, <1>2, <2>2, <3>1 DEF RewriteInv, UntornSettled, Settled
  <2> QED
    BY <2>1, <2>2
<1> QED
  BY <1>5, <1>6, <1>7

LEMMA StopSettled ==
  ASSUME RewriteInv, NEW tasks \in SUBSET Tasks, Stop(tasks)
  PROVE  RowsMidway' /\ OnlyCreations' /\ UntornSettled'
<1>1. /\ \A u \in Tasks : job'[u] = IF u \in tasks THEN Idle ELSE job[u]
      /\ torn' = torn \cup {w \in Wallets : \E t \in tasks :
                              Writes(t, w) /\ job[t].op # "createWallet"}
      /\ UNCHANGED <<wallets, lookup>>
  BY DEF Stop
<1>2. Idle.at = "idle" /\ \A x : RowsOf(x)' = RowsOf(x)
  BY <1>1, RowsKept DEF Idle
<1>3. \A x : x \notin torn' => x \notin torn
  BY <1>1
<1>4. \A u \in Tasks : \A x : Writes(u, x)' => Writes(u, x) /\ job'[u] = job[u]
  BY <1>1, <1>2 DEF Writes
<1>5. RowsMidway'
  <2> SUFFICES ASSUME NEW u \in Tasks, NEW x \in Wallets \ torn', Writes(u, x)'
               PROVE  /\ job'[u].at = "insert" => RowsOf(x)' = {}
                      /\ job'[u].at = "store" => RowsOf(x)' = RowsFor(x, job[u].doc)'
                      /\ job'[u].at = "store" /\ job'[u].op = "createWallet"
                           => wallets'[x] \in {None, NewWallet}
    BY DEF RowsMidway, Writes
  <2>1. Writes(u, x) /\ job'[u] = job[u] /\ x \notin torn
    BY <1>3, <1>4
  <2>2. RowsFor(x, job[u].doc)' = RowsFor(x, job[u].doc)
    BY <2>1 DEF RowsFor
  <2> QED
    BY <1>1, <1>2, <2>1, <2>2 DEF RewriteInv, RowsMidway, Writes
<1>6. OnlyCreations'
  BY <1>3, <1>4 DEF RewriteInv, OnlyCreations
<1>7. UntornSettled'
  <2> SUFFICES ASSUME NEW x \in Wallets, ~Writing(x)', x \notin torn' PROVE Settled(x)'
    BY DEF UntornSettled
  <2>1. CASE ~Writing(x)
    BY <1>1, <1>2, <1>3, <2>1 DEF RewriteInv, UntornSettled, Settled
  <2>2. CASE Writing(x)
    <3>1. PICK u \in Tasks : Writes(u, x)
      BY <2>2 DEF Writing
    <3>2. u \in tasks
      BY <1>1, <3>1 DEF Writing, Writes
    <3>3. job[u].op = "createWallet" /\ job[u].at = "store" /\ job[u].doc = NewWallet
      BY <1>1, <3>1, <3>2 DEF Writes, RewriteInv, FoundInv, KnownInv, Found, Stages
    <3>4. RowsOf(x) = {} /\ wallets[x] \in {None, NewWallet}
      BY <1>3, <3>1, <3>3, NoRowsForNew DEF Writes, RewriteInv, RowsMidway
    <3> QED
      BY <1>1, <1>2, <3>4, NoRowsForNew DEF Settled
  <2> QED
    BY <2>1, <2>2
<1> QED
  BY <1>5, <1>6, <1>7

LEMMA RewriteNext == RewriteInv /\ [Next]_vars => RewriteInv'
<1> SUFFICES ASSUME RewriteInv, [Next]_vars
             PROVE  RowsMidway' /\ OnlyCreations' /\ UntornSettled'
  BY FoundNext DEF RewriteInv
<1> QED
  BY StepKinds, AsideSettled, CreationSettled, RemovalSettled, InsertionSettled,
     StoreSettled, StopSettled DEF RewriteInv, FoundInv, KnownInv

LEMMA RewriteInit == Init => RewriteInv
<1> SUFFICES ASSUME Init PROVE RewriteInv
  OBVIOUS
<1>1. \A t \in Tasks : job[t].at = "idle" /\ job[t].op = "none"
  BY DEF Init, Idle
<1>2. FoundInv /\ RowsMidway /\ OnlyCreations
  BY <1>1, KnownInit DEF FoundInv, Found, RowsMidway, OnlyCreations, Writes
<1>3. \A w \in Wallets : RowsOf(w) = {} /\ wallets[w] \in {None, NewWallet}
  BY DEF Init, RowsOf
<1>4. UntornSettled
  BY <1>3, NoRowsForNew DEF UntornSettled, Settled
<1> QED
  BY <1>2, <1>4 DEF RewriteInv

-----------------------------------------------------------------------------
(* What only crashes can do.  With the locks of the joins kept and no request
   made twice, nobody else rewrites the wallet that somebody rewrites. *)
LEMMA SoleWriter ==
  ASSUME KnownInv, mishaps \subseteq {"crash"}, NEW t \in Tasks, NEW u \in Tasks, t # u,
         job[t].at \in Rewriting, job[u].at \in Rewriting
  PROVE  job[t].wallet # job[u].wallet
BY TwoOnOne DEF Calm

LEMMA MishapsGrow ==
  ASSUME [Next]_vars, mishaps' \subseteq {"crash"}
  PROVE  mishaps \subseteq {"crash"}
BY OnlyStores

(* The rows of the copy that was about to be stored lack nothing. *)
LEMMA AheadCovers ==
  ASSUME NEW w \in Wallets, NEW doc \in Doc, wallets[w] \in Doc,
         Continued(doc, wallets[w]), RowsOf(w) = RowsFor(w, doc)
  PROVE  Covered(w)
<1> DEFINE old == wallets[w]
<1>1. /\ Len(old.copayers) \in Nat /\ Len(doc.copayers) \in Nat
      /\ Len(old.copayers) <= Len(doc.copayers)
  BY DEF Continued, Doc
<1> SUFFICES ASSUME NEW i \in 1..Len(old.copayers)
             PROVE  \E row \in RowsOf(w) :
                      /\ row.copayerId = old.copayers[i].id
                      /\ \A k \in 1..Len(old.copayers[i].keys) : \E l \in 1..Len(row.keys) :
                           row.keys[l] = old.copayers[i].keys[k]
  BY DEF Covered
<1> DEFINE row == [copayerId |-> doc.copayers[i].id, walletId |-> w,
                   keys |-> doc.copayers[i].keys]
<1>2. row \in RowsOf(w)
  <2>1. i \in 1..Len(doc.copayers)
    BY <1>1
  <2> QED
    BY <2>1 DEF RowsFor
<1>3. /\ row.copayerId = old.copayers[i].id
      /\ \A k \in 1..Len(old.copayers[i].keys) : \E l \in 1..Len(row.keys) :
           row.keys[l] = old.copayers[i].keys[k]
  BY DEF Continued
<1> HIDE DEF row, old
<1> QED
  BY <1>2, <1>3

LEMMA CoveredKept ==
  ASSUME NEW w, wallets'[w] = wallets[w], RowsOf(w)' = RowsOf(w)
  PROVE  Covered(w)' <=> Covered(w)
BY DEF Covered

CrashInv == RewriteInv /\ TornByMishap /\ AllOrNone

LEMMA StopLeaves ==
  ASSUME CrashInv, NEW tasks \in SUBSET Tasks, Stop(tasks), mishaps \subseteq {"crash"}
  PROVE  AllOrNone'
<1>1. /\ \A u \in Tasks : job'[u] = IF u \in tasks THEN Idle ELSE job[u]
      /\ torn' = torn \cup {w \in Wallets : \E t \in tasks :
                              Writes(t, w) /\ job[t].op # "createWallet"}
      /\ UNCHANGED <<wallets, lookup>>
  BY DEF Stop
<1>2. Idle.at = "idle" /\ \A x : RowsOf(x)' = RowsOf(x)
  BY <1>1, RowsKept DEF Idle
<1> SUFFICES ASSUME NEW w \in torn'
             PROVE  ~Writing(w)' /\ wallets[w] # None /\ (RowsOf(w) = {} \/ Covered(w))
  BY <1>1, <1>2, CoveredKept DEF AllOrNone
<1>3. Writing(w)' => \E u \in Tasks : Writes(u, w) /\ u \notin tasks
  BY <1>1, <1>2 DEF Writing, Writes
<1>4. CASE w \in torn
  BY <1>3, <1>4 DEF CrashInv, AllOrNone, Writing
<1>5. CASE w \notin torn
  <2>1. PICK t \in tasks : Writes(t, w) /\ job[t].op # "createWallet" /\ w \in Wallets
    BY <1>1, <1>5
  <2>2. /\ KnownInv /\ Found(job[t]) /\ Ready(job[t]) /\ t \in Tasks
        /\ job[t].wallet = w /\ job[t].at \in {"insert", "store"}
    BY <2>1 DEF CrashInv, RewriteInv, FoundInv, KnownInv, Inv, Writes
  <2>3. ~Writing(w)'
    BY <1>3, <2>1, <2>2, SoleWriter DEF Writes, Rewriting
  <2>4. wallets[w] # None /\ wallets[w] \in Doc /\ job[t].doc \in Doc
    BY <2>1, <2>2 DEF Found, Ready, KnownInv, Inv, TypeOK
  <2>5. CASE job[t].at = "insert"
    BY <1>5, <2>1, <2>2, <2>3, <2>4, <2>5 DEF CrashInv, RewriteInv, RowsMidway
  <2>6. CASE job[t].at = "store"
    <3>1. RowsOf(w) = RowsFor(w, job[t].doc)
      BY <1>5, <2>1, <2>2, <2>6 DEF CrashInv, RewriteInv, RowsMidway
    <3>2. Continued(job[t].doc, wallets[w])
      BY <2>1, <2>2, <2>4, <2>6, AtWork, StoreContinues DEF Calm, KnownInv
    <3> QED
      BY <2>1, <2>3, <2>4, <3>1, <3>2, AheadCovers
  <2> QED
    BY <2>2, <2>5, <2>6
<1> QED
  BY <1>4, <1>5

(* A step that neither begins to write a torn wallet nor touches its rows. *)
LEMMA LeavesTorn ==
  ASSUME CrashInv, mishaps \subseteq {"crash"}, torn' \subseteq torn,
         \A w \in torn' : /\ wallets'[w] = wallets[w] /\ RowsOf(w)' = RowsOf(w)
                          /\ Writing(w)' => Writing(w)
  PROVE  AllOrNone'
<1> SUFFICES ASSUME NEW w \in torn'
             PROVE  ~Writing(w)' /\ wallets'[w] # None /\ (RowsOf(w)' = {} \/ Covered(w)')
  BY DEF AllOrNone
<1>1. ~Writing(w)' /\ wallets'[w] # None /\ (RowsOf(w) = {} \/ Covered(w))
  BY DEF CrashInv, AllOrNone
<1>2. Covered(w)' <=> Covered(w)
  BY CoveredKept
<1> QED
  BY <1>1, <1>2

LEMMA AsideLeaves ==
  ASSUME CrashInv, Aside, mishaps \subseteq {"crash"}
  PROVE  AllOrNone' /\ torn' = torn
<1>1. \A w : Writing(w)' => Writing(w)
  BY DEF Aside, Writing, Writes, AtTable
<1> QED
  BY <1>1, RowsKept, LeavesTorn DEF Aside

LEMMA CreationLeaves ==
  ASSUME CrashInv, NEW t \in Tasks, Creates(t), mishaps \subseteq {"crash"}
  PROVE  AllOrNone' /\ torn' = torn
<1>1. PICK w \in Wallets : w = job[t].wallet
  BY Creation DEF CrashInv, RewriteInv
<1>2. /\ wallets[w] = None /\ UNCHANGED <<wallets, lookup, torn>>
      /\ \A u \in Tasks : u # t => job'[u] = job[u]
      /\ job'[t].wallet = w
  BY <1>1, Creation DEF CrashInv, RewriteInv
<1>3. w \notin torn
  BY <1>2 DEF CrashInv, AllOrNone
<1>4. \A x \in torn : Writing(x)' => Writing(x)
  BY <1>2, <1>3 DEF Writing, Writes
<1> QED
  BY <1>2, <1>4, RowsKept, LeavesTorn

LEMMA RewriteLeaves ==
  ASSUME CrashInv, NEW t \in Tasks, RemoveRows(t) \/ InsertRows(t),
         mishaps \subseteq {"crash"}
  PROVE  AllOrNone' /\ torn' \subseteq torn
<1>1. PICK w \in Wallets : w = job[t].wallet
  BY Removal, Insertion, Rewrite DEF CrashInv, RewriteInv
<1>2. /\ UNCHANGED <<wallets, mishaps>> /\ \A x \in Wallets : x # w => RowsOf(x)' = RowsOf(x)
      /\ \E to \in {"insert", "store"} : GoTo(t, to)
      /\ job[t].at \in {"remove", "insert"}
  BY <1>1, Removal, Insertion
<1>3. (\A u \in Tasks : u # t => job'[u] = job[u]) /\ job'[t].wallet = w
  BY <1>1, <1>2, Rewrite DEF CrashInv, RewriteInv
<1>4. torn' \subseteq torn /\ w \notin torn'
  <2>1. CASE RemoveRows(t)
    <3>1. job[t].at = "remove"
      BY <2>1 DEF RemoveRows
    <3>2. \A u \in Tasks : ~Writes(u, w)
      BY <1>1, <3>1, SoleWriter DEF Writes, Rewriting, CrashInv, RewriteInv, FoundInv
    <3> QED
      BY <1>1, <2>1, <3>2, Removal DEF Writing
  <2>2. CASE InsertRows(t)
    <3>1. job[t].at = "insert" /\ UNCHANGED torn
      BY <1>1, <2>2, Insertion
    <3> QED
      BY <1>1, <3>1 DEF CrashInv, AllOrNone, Writing, Writes
  <2> QED
    BY <2>1, <2>2
<1>5. \A x \in torn' : x \in Wallets /\ x # w
  BY <1>4 DEF CrashInv, RewriteInv, FoundInv, KnownInv, Inv, TypeOK
<1>6. \A x \in torn' : Writing(x)' => Writing(x)
  BY <1>3, <1>5 DEF Writing, Writes
<1> QED
  BY <1>2, <1>4, <1>5, <1>6, LeavesTorn

LEMMA StoreLeaves ==
  ASSUME CrashInv, NEW t \in Tasks, StoreWallet(t), mishaps \subseteq {"crash"}
  PROVE  AllOrNone' /\ torn' = torn
<1>1. PICK w \in Wallets : w = job[t].wallet
  BY StoredIn DEF CrashInv, RewriteInv, FoundInv
<1>2. /\ job[t].at = "store" /\ UNCHANGED <<lookup, torn>>
      /\ \A x \in Wallets : x # w => wallets'[x] = wallets[x]
      /\ \A u \in Tasks : job'[u] = IF u = t THEN Idle ELSE job[u]
  <2>1. job[t].at = "store" /\ UNCHANGED <<lookup, torn>>
    BY DEF StoreWallet
  <2>2. \A x \in Wallets :
          wallets'[x] = IF x = job[t].wallet THEN job[t].doc ELSE wallets[x]
    BY StoredIn DEF CrashInv, RewriteInv, FoundInv
  <2>3. \A u \in Tasks : job'[u] = IF u = t THEN Idle ELSE job[u]
    BY StoredIn DEF CrashInv, RewriteInv, FoundInv
  <2> QED
    BY <1>1, <2>1, <2>2, <2>3
<1>3. w \notin torn
  BY <1>1, <1>2 DEF CrashInv, AllOrNone, Writing, Writes
<1>4. \A x \in torn : x \in Wallets /\ x # w
  BY <1>3 DEF CrashInv, RewriteInv, FoundInv, KnownInv, Inv, TypeOK
<1>5. \A x : Writing(x)' => Writing(x)
  BY <1>2 DEF Writing, Writes, Idle
<1> QED
  BY <1>2, <1>4, <1>5, RowsKept, LeavesTorn

LEMMA CrashNext == CrashInv /\ [Next]_vars => CrashInv'
<1> SUFFICES ASSUME CrashInv, [Next]_vars PROVE TornByMishap' /\ AllOrNone'
  BY RewriteNext DEF CrashInv
<1>1. CASE ~(mishaps' \subseteq {"crash"})
  BY <1>1 DEF TornByMishap, AllOrNone
<1>2. CASE mishaps' \subseteq {"crash"}
  <2>1. mishaps \subseteq {"crash"} /\ mishaps \subseteq mishaps'
    BY <1>2, MishapsGrow, OnlyStores
  <2>2. ASSUME NEW tasks \in SUBSET Tasks, Stop(tasks)
        PROVE  TornByMishap' /\ AllOrNone'
    BY <2>1, <2>2, StopLeaves DEF Stop, TornByMishap
  <2>3. CASE AllOrNone' /\ torn' \subseteq torn
    BY <2>1, <2>3 DEF CrashInv, TornByMishap
  <2> QED
    BY <2>1, <2>2, <2>3, StepKinds, AsideLeaves, CreationLeaves, RewriteLeaves, StoreLeaves
       DEF CrashInv, RewriteInv, FoundInv, KnownInv
<1> QED
  BY <1>1, <1>2

(* Whatever overlaps, dies or times out, a wallet that is not being rewritten and
   whose last rewrite was neither cut short nor overlapped has the rows of its
   record: faults harm the wallet they hit and no other, and the next rewrite
   left alone mends it.  Without faults no rewrite is torn; and where processes
   die but locks hold, a torn wallet has no row at all or all that its record
   asks for.  The locks, the order of creation and the check that a wallet is
   complete keep rewrites apart; this is where the proof needs KnownInv. *)
THEOREM LookupAgrees == Spec => []LookupSettled
<1>1. CrashInv => LookupSettled
  BY DEF CrashInv, RewriteInv, AllOrNone, LookupSettled, CrashLeavesAllOrNone
<1>2. Init => CrashInv
  BY RewriteInit DEF CrashInv, TornByMishap, AllOrNone, Init
<1> QED
  BY <1>1, <1>2, CrashNext, PTL DEF Spec
=============================================================================
