--------------------------- MODULE MonitorsProofs ---------------------------
(***************************************************************************)
(* Proofs about HeightMonitor and ExplorerMonitor and the handlers of      *)
(* PaymentNotices that both start, for every chain, any addresses,         *)
(* copayers and transactions, and any faults.                              *)
(*                                                                         *)
(* The invariant of HeightMonitor says of each block up to the stored      *)
(* height that it was begun, lost by a crash or is about to begin          *)
(* (LoopInv); of each of its transfers that its row is stored or an        *)
(* operation is on its way to store it (RowsInv); and of each address it   *)
(* touches that the cached balance is as new as the block, or an operation *)
(* is on its way to ask for it, which no operation on an older block can   *)
(* overtake (BalancesInv).                                                 *)
(*                                                                         *)
(* That of ExplorerMonitor says of each payment that its wallet is told or *)
(* a handler is on its way to tell it (PaysInv), of each used subscription *)
(* that its copayer is told or will be (UsedInv), and of each subscription *)
(* a block has found that somebody is told of the transaction, will be, or *)
(* left (BlockInv); the fate of each handler in a step (Carried, Settled,  *)
(* Fetched) carries these promises on.                                     *)
(***************************************************************************)
EXTENDS HeightMonitor, ExplorerMonitor, SequenceTheorems, TLAPS

-----------------------------------------------------------------------------
(* The handlers of PaymentNotices, whoever starts them. *)

Paying == {"check", "list", "activate", "store"}
Confirming == {"txids", "subs", "inactive", "store"}

(* What a handler is at, and what it is about. *)
JobOK(job) ==
  /\ job.notice.type = "NewIncomingTx" =>
       /\ job.at \in Paying
       /\ job.notice.wallet \in Wallets /\ job.notice.address \in Addresses
  /\ job.notice.type = "TxConfirmation" => job.at \in Confirming
  /\ job.notice.type = "NewBlock" => job.at = "store"

NoticesInv == NoticesTypeOK /\ \A job \in jobs : JobOK(job)

Pending(job) == job.notice.type = "NewIncomingTx"
Subscriber(job) == <<job.notice.copayer, job.notice.txid>>
Looks(job) == job.at \in {"txids", "subs"}
Chosen(job) == job.notice.type = "TxConfirmation" /\ job.at \in {"inactive", "store"}
Tells(job) == job.notice.type = "TxConfirmation" /\ job.at = "store"

LEMMA JobTyped ==
  ASSUME NoticesInv, NEW job \in jobs
  PROVE  /\ job \in Job /\ JobOK(job) /\ job.event \in Events
         /\ job.notice \in Notice /\ job.list \subseteq Addresses /\ job.txids \subseteq Txids
         /\ job.notice.type \in {"NewIncomingTx", "TxConfirmation", "NewBlock"}
BY DEF NoticesInv, NoticesTypeOK, Job, Notice

(* A handler that goes on with the same notice. *)
GoesOn(job, next) ==
  /\ jobs' = (jobs \ {job}) \cup {next}
  /\ next \in Job /\ JobOK(next)
  /\ next.event = job.event /\ next.notice = job.notice /\ next.txids = job.txids
  /\ ~Tells(job)
  /\ Looks(next) <=> Looks(job)
  /\ Chosen(next) <=> Chosen(job)

Ends(job) == jobs' = jobs \ {job} /\ UNCHANGED <<active, subs>>

(* What the step of a handler may be. *)
LEMMA HandleCases ==
  ASSUME NoticesInv, NEW job \in jobs, Handle(job)
  PROVE  \/ /\ \E next : GoesOn(job, next)
            /\ active' \in [Wallets -> SUBSET Addresses]
            /\ UNCHANGED <<notices, subs, lost>>
         \/ /\ \E next : GoesOn(job, next) /\ Tells(next)
            /\ Chosen(job)
            /\ subs' = [subs EXCEPT ![Subscriber(job)] = FALSE]
            /\ UNCHANGED <<notices, active, lost>>
         \/ /\ Ends(job) /\ job.at = "check" /\ AlreadyNotified(job.notice)
            /\ UNCHANGED <<notices, lost>>
         \/ /\ Ends(job) /\ job.at = "store" /\ UNCHANGED lost
            /\ notices' = notices \cup {[notice |-> job.notice, event |-> job.event]}
         \/ Ends(job) /\ lost' = lost \cup {job.event} /\ UNCHANGED notices
         \/ FetchSubs(job)
<1>0. /\ job \in Job /\ JobOK(job)
      /\ job.notice.type \in {"NewIncomingTx", "TxConfirmation", "NewBlock"}
      /\ job.list \subseteq Addresses
      /\ active \in [Wallets -> SUBSET Addresses]
  BY JobTyped DEF NoticesInv, NoticesTypeOK
<1>1. ASSUME NEW at \in {"list", "activate", "subs", "store"}, NEW list \in SUBSET Addresses,
             NEW next, next = [job EXCEPT !.at = at, !.list = list],
             Become(job, {next}), ~Tells(job),
             \/ at \in {"list", "activate", "store"} /\ Pending(job)
             \/ at = "subs" /\ job.at = "txids"
             \/ at = "store" /\ job.at = "inactive"
      PROVE  GoesOn(job, next)
  <2>1. /\ next \in Job /\ next.at = at /\ next.event = job.event
        /\ next.notice = job.notice /\ next.txids = job.txids
    BY <1>0, <1>1 DEF Job
  <2>2. JobOK(next) /\ (Looks(next) <=> Looks(job)) /\ (Chosen(next) <=> Chosen(job))
    BY <1>0, <1>1, <2>1 DEF JobOK, Looks, Chosen, Paying, Confirming, Pending
  <2> QED
    BY <1>1, <2>1, <2>2 DEF GoesOn, Become
<1>a. job.list = job.list /\ job = [job EXCEPT !.list = job.list]
  BY <1>0 DEF Job
<1>b. job.at \in {"check", "list", "activate"} => Pending(job)
  BY <1>0 DEF JobOK, Confirming, Pending
<1>c. \A at : [job EXCEPT !.at = at] = [job EXCEPT !.at = at, !.list = job.list]
  BY <1>0 DEF Job
<1>2. CASE CheckNotified(job)
  <2>1. CASE AlreadyNotified(job.notice)
    BY <1>2, <2>1 DEF CheckNotified, Become, Ends
  <2>2. CASE ~AlreadyNotified(job.notice)
    <3>1. PICK next : next = [job EXCEPT !.at = "list", !.list = job.list]
      OBVIOUS
    <3>2. Become(job, {next}) /\ job.at = "check" /\ UNCHANGED <<notices, active, subs, lost>>
      BY <1>2, <1>c, <2>2, <3>1 DEF CheckNotified
    <3>3. GoesOn(job, next)
      BY <1>0, <1>1, <1>b, <3>1, <3>2 DEF Tells
    <3> QED
      BY <1>0, <3>2, <3>3
  <2> QED
    BY <2>1, <2>2
<1>3. CASE ReadList(job)
  <2>0. job.at = "list" /\ job.notice.wallet \in Wallets
        /\ UNCHANGED <<notices, active, subs, lost>>
    BY <1>0, <1>3, <1>b DEF ReadList, JobOK, Pending
  <2>a. PICK at \in {"store", "activate"}, list \in SUBSET Addresses :
          Become(job, {[job EXCEPT !.at = at, !.list = list]})
    <3>1. CASE job.notice.address \in active[job.notice.wallet]
      BY <1>0, <1>3, <1>c, <3>1 DEF ReadList
    <3>2. CASE job.notice.address \notin active[job.notice.wallet]
      <4>1. active[job.notice.wallet] \in SUBSET Addresses
        BY <1>0, <2>0
      <4> QED
        BY <1>3, <3>2, <4>1 DEF ReadList
    <3> QED
      BY <3>1, <3>2
  <2>b. PICK next : next = [job EXCEPT !.at = at, !.list = list]
    OBVIOUS
  <2>1. next = [job EXCEPT !.at = at, !.list = list] /\ Become(job, {next})
    BY <2>a, <2>b
  <2>2. GoesOn(job, next)
    BY <1>0, <1>1, <1>b, <2>0, <2>1 DEF Tells
  <2> QED
    BY <1>0, <2>0, <2>2
<1>4. CASE Activate(job)
  <2>0. /\ job.at = "activate" /\ job.notice.address \in Addresses
        /\ active' = [active EXCEPT ![job.notice.wallet] = job.list \cup {job.notice.address}]
        /\ UNCHANGED <<notices, subs, lost>>
    BY <1>0, <1>4, <1>b DEF Activate, JobOK, Pending
  <2>1. PICK next : next = [job EXCEPT !.at = "store", !.list = {}]
    OBVIOUS
  <2>2. Become(job, {next})
    BY <1>4, <2>1 DEF Activate
  <2>3. GoesOn(job, next)
    BY <1>0, <1>1, <1>b, <2>0, <2>1, <2>2 DEF Tells
  <2>4. active' \in [Wallets -> SUBSET Addresses]
    BY <1>0, <2>0
  <2> QED
    BY <2>0, <2>3, <2>4
<1>5. CASE FetchTxids(job)
  <2>1. PICK next : next = [job EXCEPT !.at = "subs", !.list = job.list]
    OBVIOUS
  <2>2. Become(job, {next}) /\ job.at = "txids" /\ UNCHANGED <<notices, active, subs, lost>>
    BY <1>5, <1>c, <2>1 DEF FetchTxids
  <2>3. GoesOn(job, next)
    BY <1>0, <1>1, <2>1, <2>2 DEF Tells
  <2> QED
    BY <1>0, <2>2, <2>3
<1>6. CASE Deactivate(job)
  <2>1. PICK next : next = [job EXCEPT !.at = "store", !.list = job.list]
    OBVIOUS
  <2>2. /\ Become(job, {next}) /\ job.at = "inactive" /\ UNCHANGED <<notices, active, lost>>
        /\ subs' = [subs EXCEPT ![Subscriber(job)] = FALSE]
    BY <1>6, <1>c, <2>1 DEF Deactivate, Subscriber
  <2>3. GoesOn(job, next)
    BY <1>0, <1>1, <2>1, <2>2 DEF Tells
  <2>4. job.notice.type = "TxConfirmation"
    BY <1>0, <2>2 DEF JobOK, Paying
  <2>5. next.at = "store" /\ next.notice = job.notice
    BY <1>0, <2>1 DEF Job
  <2> QED
    BY <2>2, <2>3, <2>4, <2>5 DEF Tells, Chosen
<1>7. CASE StoreNotice(job)
  BY <1>7 DEF StoreNotice, Ends, Become
<1>8. CASE Fail(job)
  <2>1. CASE job.at \in {"list", "activate"}
    <3>1. PICK next : next = [job EXCEPT !.at = "store", !.list = {}]
      OBVIOUS
    <3>2. Become(job, {next}) /\ UNCHANGED <<notices, active, subs, lost>>
      BY <1>8, <2>1, <3>1 DEF Fail
    <3>3. GoesOn(job, next)
      BY <1>0, <1>1, <1>b, <2>1, <3>1, <3>2 DEF Tells
    <3> QED
      BY <1>0, <3>2, <3>3
  <2>2. CASE job.at \notin {"list", "activate"}
    BY <1>8, <2>2 DEF Fail, Become, Ends
  <2> QED
    BY <2>1, <2>2
<1> QED
  BY <1>2, <1>3, <1>4, <1>5, <1>6, <1>7, <1>8 DEF Handle

(* fetchActiveTxConfirmationSubs: who is told of the transactions with subscriptions. *)
ToldNext(job, others) ==
  /\ jobs' = (jobs \ {job}) \cup others
  /\ \A j \in others :
       /\ j \in Job /\ JobOK(j) /\ j.event = job.event /\ j.at = "inactive"
       /\ j.notice.type = "TxConfirmation" /\ j.notice.txid \in job.txids
       /\ Subscriber(j) \in Subscription
  /\ \A txid \in job.txids :
       ActiveSubs(txid) # {} => \E j \in others : j.notice.txid = txid

LEMMA SubsFetched ==
  ASSUME NoticesInv, NEW job \in jobs, FetchSubs(job)
  PROVE  /\ job.at = "subs" /\ UNCHANGED <<notices, active, subs, lost>>
         /\ \E others : ToldNext(job, others)
<1>0. job \in Job /\ JobOK(job) /\ job.notice \in Notice /\ job.txids \subseteq Txids
      /\ job.event \in Events /\ job.at = "subs" /\ UNCHANGED <<notices, active, subs, lost>>
  BY JobTyped DEF FetchSubs
<1>1. job.notice.type = "TxConfirmation"
  BY <1>0 DEF JobOK, Paying, Notice
<1> DEFINE triggered == {t \in job.txids : ActiveSubs(t) # {}}
<1>2. PICK copayer \in [triggered -> Copayers] :
        /\ \A t \in triggered : <<copayer[t], t>> \in ActiveSubs(t)
        /\ jobs' = (jobs \ {job}) \cup
                     {JobOf("inactive", job.event,
                            [job.notice EXCEPT !.txid = t, !.copayer = copayer[t]])
                      : t \in triggered}
  BY Zenon DEF FetchSubs, Become
<1> DEFINE next(t) == JobOf("inactive", job.event,
                            [job.notice EXCEPT !.txid = t, !.copayer = copayer[t]])
           others == {next(t) : t \in triggered}
<1>3. ASSUME NEW t \in triggered
      PROVE  /\ next(t) \in Job /\ JobOK(next(t)) /\ next(t).event = job.event
             /\ next(t).at = "inactive" /\ next(t).notice.type = "TxConfirmation"
             /\ next(t).notice.txid = t
             /\ Subscriber(next(t)) \in Subscription
  <2>1. PICK n : n = [job.notice EXCEPT !.txid = t, !.copayer = copayer[t]]
    OBVIOUS
  <2>2. copayer[t] \in Copayers /\ t \in Txids /\ <<copayer[t], t>> \in Subscription
    BY <1>0, <1>2 DEF ActiveSubs
  <2>3. n \in Notice /\ n.type = "TxConfirmation" /\ n.txid = t /\ n.copayer = copayer[t]
    BY <1>0, <1>1, <2>1, <2>2 DEF Notice
  <2>4. /\ next(t).at = "inactive" /\ next(t).event = job.event /\ next(t).notice = n
        /\ next(t) \in Job
    BY <1>0, <2>1, <2>3 DEF JobOf, Job
  <2>5. JobOK(next(t)) /\ Subscriber(next(t)) = <<copayer[t], t>>
    BY <2>3, <2>4 DEF JobOK, Confirming, Subscriber
  <2> QED
    BY <2>2, <2>3, <2>4, <2>5
<1> HIDE DEF next
<1>4. /\ jobs' = (jobs \ {job}) \cup others
      /\ \A txid \in job.txids : ActiveSubs(txid) # {} => next(txid) \in others
  BY <1>2 DEF next
<1>5. ToldNext(job, others)
  <2>1. \A j \in others : \E t \in triggered : j = next(t)
    OBVIOUS
  <2>2. \A txid \in job.txids : ActiveSubs(txid) # {} =>
          \E j \in others : j.notice.txid = txid
    BY <1>3, <1>4
  <2> HIDE DEF others
  <2>3. \A j \in others : j.notice.txid \in job.txids
    BY <1>3, <2>1
  <2> QED
    BY <1>3, <1>4, <2>1, <2>2, <2>3 DEF ToldNext
<1> QED
  BY <1>0, <1>5

LEMMA NoticesStart ==
  ASSUME NEW subscribed, NoticesInit(subscribed)
  PROVE  NoticesInv
BY PaymentNoticesAssumption DEF NoticesInit, NoticesInv, NoticesTypeOK

(* An event starts handlers: those of a payment, or those of a block. *)
LEMMA JobsStart ==
  ASSUME NEW event \in Events
  PROVE  /\ \A x \in Addresses, txid \in Txids \cup {None} :
              LET job == PaymentJob(event, x, txid)
              IN /\ job \in Job /\ JobOK(job) /\ job.event = event
                 /\ job.notice.type = "NewIncomingTx" /\ job.at = "check"
                 /\ job.notice.wallet = WalletOf[x] /\ job.notice.txid = txid
         /\ LET job == BlockJob(event)
            IN /\ job \in Job /\ JobOK(job) /\ job.event = event
               /\ job.notice.type = "NewBlock" /\ job.at = "store"
         /\ \A at \in {"txids", "subs"}, txids \in SUBSET Txids :
              LET job == ConfirmationJob(at, event, txids)
              IN /\ job \in Job /\ JobOK(job) /\ job.event = event
                 /\ job.notice.type = "TxConfirmation" /\ job.at = at /\ job.txids = txids
<1>1. ASSUME NEW x \in Addresses, NEW txid \in Txids \cup {None}, NEW job,
             job = PaymentJob(event, x, txid)
      PROVE  /\ job \in Job /\ JobOK(job) /\ job.event = event
             /\ job.notice.type = "NewIncomingTx" /\ job.at = "check"
             /\ job.notice.wallet = WalletOf[x] /\ job.notice.txid = txid
  <2>1. WalletOf[x] \in Wallets
    BY PaymentNoticesAssumption
  <2>2. job = [at |-> "check", event |-> event,
               notice |-> [type |-> "NewIncomingTx", wallet |-> WalletOf[x],
                           address |-> x, txid |-> txid, copayer |-> None],
               list |-> {}, txids |-> {}]
    BY <1>1 DEF PaymentJob, JobOf, NoticeOf
  <2> QED
    BY <2>1, <2>2 DEF Job, Notice, JobOK, Paying
<1>2. ASSUME NEW job, job = BlockJob(event)
      PROVE  /\ job \in Job /\ JobOK(job) /\ job.event = event
             /\ job.notice.type = "NewBlock" /\ job.at = "store"
  BY <1>2 DEF BlockJob, JobOf, NoticeOf, Job, Notice, JobOK
<1>3. ASSUME NEW at \in {"txids", "subs"}, NEW txids \in SUBSET Txids, NEW job,
             job = ConfirmationJob(at, event, txids)
      PROVE  /\ job \in Job /\ JobOK(job) /\ job.event = event
             /\ job.notice.type = "TxConfirmation" /\ job.at = at /\ job.txids = txids
  <2>1. job = [at |-> at, event |-> event,
               notice |-> [type |-> "TxConfirmation", wallet |-> None, address |-> None,
                           txid |-> None, copayer |-> None],
               list |-> {}, txids |-> txids]
    BY <1>3 DEF ConfirmationJob, JobOf, NoticeOf
  <2> QED
    BY <2>1 DEF Job, Notice, JobOK, Confirming
<1> QED
  BY <1>1, <1>2, <1>3

(* The step of a handler keeps the types, and makes nothing untold. *)
LEMMA HandleKeeps ==
  ASSUME NoticesInv, NEW job \in jobs, Handle(job)
  PROVE  NoticesInv' /\ notices \subseteq notices' /\ lost \subseteq lost'
<1>0. /\ job \in Job /\ JobOK(job) /\ job.event \in Events /\ job.notice \in Notice
      /\ NoticesTypeOK /\ \A j \in jobs : JobOK(j)
  BY JobTyped DEF NoticesInv
<1>a. faults' \in 0..MaxFaults
  <2>1. faults' = faults \/ (faults < MaxFaults /\ faults' = faults + 1)
    <3>1. CASE Fail(job)
      BY <3>1 DEF Fail, Fault
    <3>2. CASE ~Fail(job)
      BY <3>2, Zenon DEF Handle, CheckNotified, ReadList, Activate, FetchTxids, FetchSubs,
                         Deactivate, StoreNotice
    <3> QED
      BY <3>1, <3>2
  <2>2. faults \in 0..MaxFaults /\ MaxFaults \in Nat
    BY <1>0, PaymentNoticesAssumption DEF NoticesTypeOK
  <2> QED
    BY <2>1, <2>2
<1>1. ASSUME NEW next, GoesOn(job, next)
      PROVE  jobs' \subseteq Job /\ \A j \in jobs' : JobOK(j)
  BY <1>0, <1>1 DEF GoesOn, NoticesTypeOK
<1>2. ASSUME Ends(job)
      PROVE  jobs' \subseteq Job /\ \A j \in jobs' : JobOK(j)
  BY <1>0, <1>2 DEF Ends, NoticesTypeOK
<1>3. ASSUME jobs' \subseteq Job, \A j \in jobs' : JobOK(j),
             notices \subseteq notices', notices' \subseteq [notice : Notice, event : Events],
             lost \subseteq lost', lost' \subseteq Events,
             active' \in [Wallets -> SUBSET Addresses],
             subs' \in [Subscription -> BOOLEAN \cup {None}]
      PROVE  NoticesInv' /\ notices \subseteq notices' /\ lost \subseteq lost'
  BY <1>3, <1>a DEF NoticesInv, NoticesTypeOK
<1>b. /\ notices \subseteq [notice : Notice, event : Events] /\ lost \subseteq Events
      /\ active \in [Wallets -> SUBSET Addresses]
      /\ subs \in [Subscription -> BOOLEAN \cup {None}]
  BY <1>0 DEF NoticesTypeOK
<1>4. CASE /\ \E next : GoesOn(job, next)
           /\ active' \in [Wallets -> SUBSET Addresses]
           /\ UNCHANGED <<notices, subs, lost>>
  BY <1>1, <1>3, <1>4, <1>b
<1>5. CASE /\ \E next : GoesOn(job, next) /\ Tells(next)
           /\ subs' = [subs EXCEPT ![Subscriber(job)] = FALSE]
           /\ UNCHANGED <<notices, active, lost>>
  <2>1. subs' \in [Subscription -> BOOLEAN \cup {None}]
    BY <1>5, <1>b
  <2> QED
    BY <1>1, <1>3, <1>5, <1>b, <2>1
<1>6. CASE Ends(job) /\ UNCHANGED <<notices, lost>>
  BY <1>2, <1>3, <1>6, <1>b DEF Ends
<1>7. CASE /\ Ends(job) /\ UNCHANGED lost
           /\ notices' = notices \cup {[notice |-> job.notice, event |-> job.event]}
  BY <1>0, <1>2, <1>3, <1>7, <1>b DEF Ends
<1>8. CASE Ends(job) /\ lost' = lost \cup {job.event} /\ UNCHANGED notices
  BY <1>0, <1>2, <1>3, <1>8, <1>b DEF Ends
<1>9. CASE FetchSubs(job)
  <2>1. UNCHANGED <<notices, active, subs, lost>> /\ \E others : ToldNext(job, others)
    BY <1>9, SubsFetched
  <2>2. jobs' \subseteq Job /\ \A j \in jobs' : JobOK(j)
    BY <1>0, <2>1 DEF ToldNext, NoticesTypeOK
  <2> QED
    BY <1>3, <1>b, <2>1, <2>2
<1> QED
  BY <1>4, <1>5, <1>6, <1>7, <1>8, <1>9, HandleCases

-----------------------------------------------------------------------------
(* The loop over the heights: what is about to be done, and is done once. *)

MonitorTypeOK ==
  /\ tip \in Heights /\ height \in 0..tip
  /\ loop \in Loop
  /\ ops \subseteq Op
  /\ rows \in [Txids -> Transfers \cup {None}]
  /\ balances \in [Addresses -> 0..MaxHeight]
  /\ first \in 0..height /\ begun \in Seq(Heights) /\ overtaken \subseteq Addresses

(* The block whose height is stored and whose handling is not begun. *)
AboutTo(h) == loop.at = "begin" /\ h = height

(* The blocks from the first to the stored height, without one about to begin. *)
Seen == {h \in Heights : first <= h /\ h <= height /\ ~AboutTo(h)}

LoopInv ==
  /\ loop.at = "store" => /\ loop.last \in 1..tip
                          /\ height = 0 \/ loop.last = height + 1
  /\ loop.at = "begin" => height # 0 /\ loop.last = height
  /\ first = 0 <=> height = 0
  /\ \A i \in 1..Len(begun) : first <= begun[i] /\ begun[i] \in Seen
  /\ \A i, j \in 1..Len(begun) : i < j => begun[i] < begun[j]
  /\ \A h \in Seen : <<h, None>> \in lost \/ \E i \in 1..Len(begun) : begun[i] = h

(* Nothing of the transfer has failed, nor of its block. *)
Kept(h, t) == <<h, None>> \notin lost /\ \A g \in Heights : <<g, t>> \notin lost

RowsInv ==
  \A h \in Seen : \A t \in Chain[h] : Kept(h, t) /\ Touched(t) # {} =>
    \/ rows[t.hash] # None
    \/ \E op \in ops : op.kind \in {"find", "row"} /\ op.transfer = t

OpsInv ==
  \A op \in ops :
    /\ op.block \in Seen /\ op.transfer \in Chain[op.block]
    /\ op.kind \in {"balance", "cache"} => op.address \in Touched(op.transfer)
    /\ op.kind = "cache" => op.block <= op.balance
    /\ \A x \in Touched(op.transfer) \ overtaken : \A h \in Seen :
         op.block < h => \A t \in Chain[h] : x \notin Touched(t)

BalancesInv ==
  \A h \in Seen : \A t \in Chain[h] : Kept(h, t) =>
    \A x \in Touched(t) \ overtaken :
      \/ h <= balances[x]
      \/ \E op \in ops : /\ op.transfer = t
                         /\ \/ op.kind = "find"
                            \/ op.kind \in {"balance", "cache"} /\ op.address = x

MonitorInv == MonitorTypeOK /\ LoopInv /\ RowsInv /\ OpsInv /\ BalancesInv

-----------------------------------------------------------------------------
(* The chain: the blocks are sets of transfers, and a transfer is in one block. *)
LEMMA ChainOK ==
  /\ MaxHeight \in Nat /\ MaxHeight >= 1
  /\ \A h \in Heights : \A t \in Chain[h] :
       /\ t \in Transfers /\ t.hash \in Txids /\ t # None
       /\ Touched(t) \subseteq Addresses
  /\ \A g, h \in Heights : \A t \in Chain[g] : t \in Chain[h] => g = h
<1> DEFINE T == [hash : Txids, index : Nat, from : Addresses \cup {None},
                 to : Addresses \cup {None}]
<1>1. Chain \in Seq(SUBSET T) /\ Chain # <<>>
  BY HeightMonitorAssumption
<1>a. MaxHeight \in Nat /\ MaxHeight >= 1
  BY <1>1, LenProperties, EmptySeq DEF MaxHeight
<1>2. MaxHeight \in Nat /\ \A h \in Heights : Chain[h] \in SUBSET T
  BY <1>1, LenProperties, ElementOfSeq DEF MaxHeight, Heights
<1>3. ASSUME NEW h \in Heights, NEW t \in Chain[h]
      PROVE  /\ t \in Transfers /\ t.hash \in Txids /\ t # None
             /\ Touched(t) \subseteq Addresses
  BY <1>2, HeightMonitorAssumption DEF Transfers, Touched
<1>4. ASSUME NEW g \in Heights, NEW h \in Heights, NEW t \in Chain[g], t \in Chain[h]
      PROVE  g = h
  BY <1>4, HeightMonitorAssumption
<1> QED
  BY <1>a, <1>3, <1>4

LEMMA Numbers ==
  ASSUME MonitorTypeOK
  PROVE  /\ tip \in Nat /\ tip <= MaxHeight /\ height \in Nat /\ height <= tip
         /\ first \in Nat /\ MaxHeight \in Nat /\ Heights = 1..MaxHeight
         /\ loop.last \in 0..MaxHeight
         /\ loop.at \in {"down", "sleep", "store", "begin"}
         /\ DOMAIN loop = {"at", "last"}
BY ChainOK DEF MonitorTypeOK, Heights, Loop

(* What Go does. *)
LEMMA GoMoves ==
  ASSUME MonitorTypeOK, NEW at \in {"down", "sleep", "store", "begin"}, Go(at)
  PROVE  loop' \in Loop /\ loop'.at = at /\ loop'.last = loop.last
BY DEF MonitorTypeOK, Go, Loop

(* What is lost is lost for ever. *)
LEMMA LostGrows ==
  ASSUME NEW job, Handle(job)
  PROVE  lost \subseteq lost'
BY DEF Handle, CheckNotified, ReadList, Activate, FetchTxids, FetchSubs, Deactivate,
       StoreNotice, Fail

LEMMA KeptBefore ==
  ASSUME lost \subseteq lost', NEW h, NEW t, Kept(h, t)'
  PROVE  Kept(h, t)
BY DEF Kept

(* More is lost, and nothing else changes but the height of the chain. *)
LEMMA MoreIsLost ==
  ASSUME MonitorInv, lost \subseteq lost', tip' \in Heights, tip <= tip',
         UNCHANGED <<height, loop, ops, rows, balances, first, begun, overtaken>>
  PROVE  MonitorInv'
<1>0. Seen' = Seen
  BY DEF Seen, AboutTo
<1>1. MonitorTypeOK'
  BY Numbers DEF MonitorInv, MonitorTypeOK, Heights
<1>2. LoopInv'
  <2>1. loop.at = "store" => loop.last \in 1..tip'
    BY Numbers DEF MonitorInv, LoopInv, Heights
  <2>2. \A h \in Seen : <<h, None>> \in lost' \/ \E i \in 1..Len(begun) : begun[i] = h
    BY DEF MonitorInv, LoopInv
  <2> QED
    BY <1>0, <2>1, <2>2 DEF MonitorInv, LoopInv
<1>3. RowsInv' /\ BalancesInv'
  BY <1>0, KeptBefore DEF MonitorInv, RowsInv, BalancesInv
<1>4. OpsInv'
  BY <1>0 DEF MonitorInv, OpsInv
<1> QED
  BY <1>1, <1>2, <1>3, <1>4 DEF MonitorInv

-----------------------------------------------------------------------------
LEMMA MonitorStarts == Init => MonitorInv
<1> SUFFICES ASSUME Init PROVE MonitorInv
  OBVIOUS
<1>0. tip = 1 /\ height = 0 /\ first = 0 /\ begun = <<>> /\ ops = {}
      /\ loop = [at |-> "down", last |-> 0] /\ overtaken = {}
  BY DEF Init
<1>1. MonitorTypeOK
  <2>1. 1 \in Heights
    BY ChainOK DEF Heights
  <2> QED
    BY <1>0, <2>1, ChainOK DEF Init, MonitorTypeOK, Loop, Heights
<1>2. Seen = {}
  BY <1>0, ChainOK DEF Seen, Heights
<1> QED
  BY <1>0, <1>1, <1>2 DEF MonitorInv, LoopInv, RowsInv, OpsInv, BalancesInv

-----------------------------------------------------------------------------
(* The loop.  Its turns that store no height and begin no block. *)
LEMMA TurnsKeep ==
  ASSUME MonitorInv, loop.at # "begin", loop'.at # "begin", loop' \in Loop,
         loop'.at = "store" => /\ loop'.last \in 1..tip
                               /\ height = 0 \/ loop'.last = height + 1,
         UNCHANGED <<tip, height, ops, rows, balances, first, begun, overtaken, lost>>
  PROVE  MonitorInv'
<1>0. Seen' = Seen
  BY DEF Seen, AboutTo
<1>1. MonitorTypeOK'
  BY DEF MonitorInv, MonitorTypeOK
<1>2. LoopInv'
  BY <1>0 DEF MonitorInv, LoopInv
<1>3. RowsInv' /\ BalancesInv' /\ OpsInv'
  BY <1>0 DEF MonitorInv, RowsInv, BalancesInv, OpsInv, Kept
<1> QED
  BY <1>1, <1>2, <1>3 DEF MonitorInv

LEMMA LoopTurns ==
  ASSUME MonitorInv, StartLoop \/ TurnFails \/ \E cur \in Heights : Turn(cur)
  PROVE  MonitorInv'
<1>0. MonitorTypeOK
  BY DEF MonitorInv
<1>1. CASE StartLoop \/ TurnFails
  <2>1. Go("sleep") /\ loop.at \in {"down", "store"}
        /\ UNCHANGED <<tip, height, ops, rows, balances, first, begun, overtaken, lost>>
    BY <1>1 DEF StartLoop, TurnFails, LoopOnly
  <2> QED
    BY <1>0, <2>1, GoMoves, TurnsKeep
<1>2. ASSUME NEW cur \in Heights, Turn(cur)
      PROVE  MonitorInv'
  <2>1. /\ loop.at = "sleep" /\ cur <= tip /\ cur > height
        /\ loop' = [at |-> "store", last |-> NextHeight(height, cur)]
        /\ UNCHANGED <<tip, height, ops, rows, balances, first, begun, overtaken, lost>>
    BY <1>0, <1>2, Numbers DEF Turn, LoopOnly
  <2>2. /\ NextHeight(height, cur) \in 1..tip
        /\ height = 0 \/ NextHeight(height, cur) = height + 1
    BY <1>0, <2>1, Numbers DEF NextHeight
  <2>3. loop' \in Loop /\ loop'.at = "store" /\ loop'.last = NextHeight(height, cur)
    BY <1>0, <2>1, <2>2, Numbers DEF Loop
  <2> QED
    BY <2>1, <2>2, <2>3, TurnsKeep
<1> QED
  BY <1>1, <1>2

(* The height is stored: the block is about to begin. *)
LEMMA HeightStored ==
  ASSUME MonitorInv, StoreHeight
  PROVE  MonitorInv'
<1>0. MonitorTypeOK /\ Go("begin")
  BY DEF MonitorInv, StoreHeight
<1>1. /\ loop.at = "store" /\ height' = loop.last
      /\ first' = (IF first = 0 THEN loop.last ELSE first)
      /\ loop'.at = "begin" /\ loop'.last = loop.last /\ loop' \in Loop
      /\ UNCHANGED <<tip, ops, rows, balances, begun, overtaken, lost>>
  BY <1>0, GoMoves DEF StoreHeight, LoopOnly
<1>2. /\ loop.last \in 1..tip /\ (height = 0 \/ loop.last = height + 1)
      /\ first = 0 <=> height = 0
  BY <1>1 DEF MonitorInv, LoopInv
<1>3. Seen' = Seen
  <2>1. \A h \in Heights : /\ first' <= h /\ h <= height' /\ h # height'
                           <=> first <= h /\ h <= height
    <3>1. CASE height = 0
      BY <1>0, <1>1, <1>2, <3>1, Numbers
    <3>2. CASE height # 0
      BY <1>0, <1>1, <1>2, <3>2, Numbers
    <3> QED
      BY <3>1, <3>2
  <2> QED
    BY <1>1, <2>1 DEF Seen, AboutTo
<1>4. MonitorTypeOK'
  BY <1>0, <1>1, <1>2, Numbers DEF MonitorTypeOK
<1>5. LoopInv'
  <2>1. height' # 0 /\ loop'.last = height' /\ first' # 0
    BY <1>0, <1>1, <1>2, Numbers
  <2>2. \A i \in 1..Len(begun) : first' <= begun[i] /\ begun[i] \in Seen
    <3>1. \A i \in 1..Len(begun) : begun[i] \in Seen'
      BY <1>3 DEF MonitorInv, LoopInv
    <3> QED
      BY <1>3, <3>1 DEF Seen
  <2> QED
    BY <1>1, <1>3, <2>1, <2>2 DEF MonitorInv, LoopInv
<1>6. RowsInv' /\ BalancesInv' /\ OpsInv'
  BY <1>1, <1>3 DEF MonitorInv, RowsInv, BalancesInv, OpsInv, Kept
<1> QED
  BY <1>4, <1>5, <1>6 DEF MonitorInv

(* A block is begun: what it starts. *)
FindOp(h, t) == [kind |-> "find", block |-> h, transfer |-> t, address |-> None,
                 balance |-> 0]

LEMMA BlockBegins ==
  ASSUME MonitorInv, BeginBlock
  PROVE  MonitorInv'
<1> DEFINE h == height
           started == {FindOp(h, t) : t \in Chain[h]}
<1>0. MonitorTypeOK /\ Go("sleep")
  BY DEF MonitorInv, BeginBlock
<1>1. /\ loop.at = "begin" /\ loop.last = h /\ h # 0
      /\ loop'.at = "sleep" /\ loop' \in Loop
      /\ UNCHANGED <<lost, tip, height, rows, balances, first>>
  BY <1>0, GoMoves DEF MonitorInv, LoopInv, BeginBlock
<1>2. /\ begun' = Append(begun, h) /\ ops' = ops \cup started
      /\ overtaken' = overtaken \cup
             {x \in Addresses : /\ \E t \in Chain[h] : x \in Touched(t)
                                /\ \E op \in ops : x \in Touched(op.transfer)}
  BY <1>1, Zenon DEF BeginBlock, FindOp
<1>3. h \in Heights /\ h \in Nat /\ first <= h
  BY <1>0, <1>1, Numbers DEF MonitorTypeOK
<1>4. Seen' = Seen \cup {h} /\ h \notin Seen /\ \A g \in Seen : g < h
  BY <1>0, <1>1, <1>3, Numbers DEF Seen, AboutTo
<1>5. \A op \in started : /\ op \in Op /\ op.kind = "find" /\ op.block = h
                          /\ op.transfer \in Chain[h]
  <2>1. ASSUME NEW t \in Chain[h]
        PROVE  /\ FindOp(h, t) \in Op /\ FindOp(h, t).kind = "find"
               /\ FindOp(h, t).block = h /\ FindOp(h, t).transfer = t
    BY <1>3, ChainOK DEF FindOp, Op
  <2> QED
    BY <2>1
<1>6. \A t \in Chain[h] : \E op \in started : op.kind = "find" /\ op.transfer = t
  <2>1. ASSUME NEW t \in Chain[h]
        PROVE  FindOp(h, t) \in started /\ FindOp(h, t).kind = "find"
               /\ FindOp(h, t).transfer = t
    BY DEF FindOp
  <2> HIDE DEF started
  <2> QED
    BY <2>1
<1> HIDE DEF started
<1>7. MonitorTypeOK'
  <2>1. begun' \in Seq(Heights)
    BY <1>0, <1>2, <1>3, AppendProperties DEF MonitorTypeOK
  <2> QED
    BY <1>0, <1>1, <1>2, <1>5, <2>1 DEF MonitorTypeOK
<1>8. LoopInv'
  <2>1. /\ Len(begun) \in Nat /\ Len(begun') = Len(begun) + 1
        /\ begun'[Len(begun) + 1] = h
        /\ \A i \in 1..Len(begun) : begun'[i] = begun[i]
    BY <1>0, <1>2, <1>3, AppendProperties, LenProperties DEF MonitorTypeOK
  <2>2. \A i \in 1..Len(begun') : i = Len(begun) + 1 \/ i \in 1..Len(begun)
    BY <2>1
  <2>3. \A i \in 1..Len(begun') : first' <= begun'[i] /\ begun'[i] \in Seen'
    BY <1>1, <1>3, <1>4, <2>1, <2>2 DEF MonitorInv, LoopInv
  <2>4. ASSUME NEW i \in 1..Len(begun'), NEW j \in 1..Len(begun'), i < j
        PROVE  begun'[i] < begun'[j]
    <3>1. i \in 1..Len(begun)
      BY <2>1, <2>4
    <3>2. begun[i] \in Seen
      BY <3>1 DEF MonitorInv, LoopInv
    <3> QED
      BY <1>4, <2>1, <2>2, <2>4, <3>1, <3>2 DEF MonitorInv, LoopInv
  <2>5. ASSUME NEW g \in Seen'
        PROVE  <<g, None>> \in lost' \/ \E i \in 1..Len(begun') : begun'[i] = g
    <3>1. CASE g = h
      <4>1. Len(begun) + 1 \in 1..Len(begun')
        BY <2>1
      <4> QED
        BY <2>1, <3>1, <4>1
    <3>2. CASE g \in Seen
      <4>1. CASE <<g, None>> \in lost
        BY <1>1, <4>1
      <4>2. CASE \E i \in 1..Len(begun) : begun[i] = g
        <5>1. PICK i \in 1..Len(begun) : begun[i] = g
          BY <4>2
        <5>2. i \in 1..Len(begun') /\ begun'[i] = g
          BY <2>1, <5>1
        <5> QED
          BY <5>2
      <4> QED
        BY <3>2, <4>1, <4>2 DEF MonitorInv, LoopInv
    <3> QED
      BY <1>4, <3>1, <3>2
  <2>6. first' = 0 <=> height' = 0
    BY <1>1 DEF MonitorInv, LoopInv
  <2> QED
    BY <1>1, <2>3, <2>4, <2>5, <2>6 DEF LoopInv
<1>9. RowsInv'
  <2>1. ASSUME NEW g \in Seen, NEW t \in Chain[g], Kept(g, t), Touched(t) # {}
        PROVE  \/ rows[t.hash] # None
               \/ \E op \in ops' : op.kind \in {"find", "row"} /\ op.transfer = t
    BY <1>2, <2>1 DEF MonitorInv, RowsInv
  <2>2. ASSUME NEW t \in Chain[h]
        PROVE  \E op \in ops' : op.kind \in {"find", "row"} /\ op.transfer = t
    BY <1>2, <1>6
  <2> HIDE DEF h
  <2> QED
    BY <1>1, <1>4, <2>1, <2>2 DEF RowsInv, Kept
<1>10. OpsInv'
  <2>1. ASSUME NEW op \in ops, NEW x \in Touched(op.transfer) \ overtaken', NEW g \in Seen',
               op.block < g
        PROVE  \A t \in Chain[g] : x \notin Touched(t)
    <3>1. CASE g = h
      <4>1. Touched(op.transfer) \subseteq Addresses
        BY DEF Touched
      <4> QED
        BY <1>2, <2>1, <3>1, <4>1
    <3>2. CASE g \in Seen
      BY <1>2, <2>1, <3>2 DEF MonitorInv, OpsInv
    <3> QED
      BY <1>4, <3>1, <3>2
  <2>2. ASSUME NEW op \in ops
        PROVE  /\ op.block \in Seen' /\ op.transfer \in Chain[op.block]
               /\ op.kind \in {"balance", "cache"} => op.address \in Touched(op.transfer)
               /\ op.kind = "cache" => op.block <= op.balance
    BY <1>4 DEF MonitorInv, OpsInv
  <2>3. ASSUME NEW op \in started, NEW g \in Seen'
        PROVE  ~(op.block < g)
    BY <1>3, <1>4, <1>5 DEF Seen
  <2>4. \A op \in ops' : op \in ops \/ op \in started
    BY <1>2
  <2>5. \A op \in started : op.block \in Seen'
    BY <1>4, <1>5
  <2> HIDE DEF h
  <2> QED
    BY <1>5, <2>1, <2>2, <2>3, <2>4, <2>5 DEF OpsInv
<1>11. BalancesInv'
  <2>1. ASSUME NEW g \in Seen, NEW t \in Chain[g], Kept(g, t),
               NEW x \in Touched(t) \ overtaken'
        PROVE  \/ g <= balances[x]
               \/ \E op \in ops' : /\ op.transfer = t
                                   /\ \/ op.kind = "find"
                                      \/ op.kind \in {"balance", "cache"} /\ op.address = x
    <3>1. x \notin overtaken /\ ops \subseteq ops'
      BY <1>2, <2>1
    <3> QED
      BY <2>1, <3>1 DEF MonitorInv, BalancesInv
  <2>2. ASSUME NEW t \in Chain[h]
        PROVE  \E op \in ops' : op.transfer = t /\ op.kind = "find"
    BY <1>2, <1>6
  <2> HIDE DEF h
  <2> QED
    BY <1>1, <1>4, <2>1, <2>2 DEF BalancesInv, Kept
<1> QED
  BY <1>7, <1>8, <1>9, <1>10, <1>11 DEF MonitorInv

-----------------------------------------------------------------------------
(* The operations.  What one leaves for others to do is about its block and its
   transfer. *)
Follow(op, others) ==
  \A o \in others :
    /\ o \in Op /\ o.block = op.block /\ o.transfer = op.transfer
    /\ o.kind \in {"balance", "cache"} => o.address \in Touched(op.transfer)
    /\ o.kind = "cache" => op.block <= o.balance

LEMMA OpMoves ==
  ASSUME MonitorInv, NEW op \in ops, NEW others, Follow(op, others), Done(op, others),
         lost \subseteq lost', OpOnly,
         rows' \in [Txids -> Transfers \cup {None}],
         balances' \in [Addresses -> 0..MaxHeight]
  PROVE  MonitorTypeOK' /\ LoopInv' /\ OpsInv' /\ Seen' = Seen
<1>0. UNCHANGED <<tip, height, loop, first, begun, overtaken>>
  BY DEF OpOnly
<1>1. Seen' = Seen
  BY <1>0 DEF Seen, AboutTo
<1>2. ops' = (ops \ {op}) \cup others
  BY DEF Done
<1>3. MonitorTypeOK'
  BY <1>0, <1>2 DEF MonitorInv, MonitorTypeOK, Follow
<1>4. LoopInv'
  <2>1. \A h \in Seen : <<h, None>> \in lost' \/ \E i \in 1..Len(begun) : begun[i] = h
    BY DEF MonitorInv, LoopInv
  <2> QED
    BY <1>0, <1>1, <2>1 DEF MonitorInv, LoopInv
<1>5. OpsInv'
  <2>1. ASSUME NEW o \in ops'
        PROVE  /\ o.block \in Seen /\ o.transfer \in Chain[o.block]
               /\ o.kind \in {"balance", "cache"} => o.address \in Touched(o.transfer)
               /\ o.kind = "cache" => o.block <= o.balance
               /\ \A x \in Touched(o.transfer) \ overtaken : \A h \in Seen :
                    o.block < h => \A t \in Chain[h] : x \notin Touched(t)
    <3>1. CASE o \in ops
      BY <3>1 DEF MonitorInv, OpsInv
    <3>2. CASE o \in others
      <4>1. /\ o.block = op.block /\ o.transfer = op.transfer
            /\ o.kind \in {"balance", "cache"} => o.address \in Touched(op.transfer)
            /\ o.kind = "cache" => op.block <= o.balance
        BY <3>2 DEF Follow
      <4>2. /\ op.block \in Seen /\ op.transfer \in Chain[op.block]
            /\ \A x \in Touched(op.transfer) \ overtaken : \A h \in Seen :
                 op.block < h => \A t \in Chain[h] : x \notin Touched(t)
        BY DEF MonitorInv, OpsInv
      <4> QED
        BY <4>1, <4>2
    <3> QED
      BY <1>2, <3>1, <3>2
  <2> QED
    BY <1>0, <1>1, <2>1 DEF OpsInv
<1> QED
  BY <1>1, <1>3, <1>4, <1>5

LEMMA OpFacts ==
  ASSUME MonitorInv, NEW op \in ops
  PROVE  /\ op \in Op /\ op.block \in Heights /\ op.block \in Nat /\ op.block <= tip
         /\ op.transfer \in Chain[op.block] /\ op.transfer \in Transfers
         /\ op.transfer.hash \in Txids /\ op.transfer # None
         /\ Touched(op.transfer) \subseteq Addresses
         /\ op.balance \in 0..MaxHeight
         /\ op.kind \in {"balance", "cache"} => op.address \in Touched(op.transfer)
         /\ op.kind = "cache" => op.block <= op.balance
<1>1. op \in Op /\ op.block \in Seen /\ op.transfer \in Chain[op.block]
  BY DEF MonitorInv, MonitorTypeOK, OpsInv
<1>2. MonitorTypeOK
  BY DEF MonitorInv
<1>3. op.block \in Heights /\ op.block <= height
  BY <1>1 DEF Seen
<1>4. op.block \in Nat /\ op.block <= tip
  BY <1>2, <1>3, Numbers
<1> QED
  BY <1>1, <1>3, <1>4, ChainOK DEF Op, MonitorInv, OpsInv

(* findAddresses is done: the row and the balances follow. *)
LEMMA FindDone ==
  ASSUME MonitorInv, NEW op \in ops, FindAddresses(op)
  PROVE  MonitorInv'
<1> DEFINE row == [op EXCEPT !.kind = "row"]
           ask(x) == [op EXCEPT !.kind = "balance", !.address = x]
           others == {row : x \in Touched(op.transfer)} \cup {ask(x) : x \in Touched(op.transfer)}
<1>1. /\ op.kind = "find" /\ Done(op, others) /\ OpOnly
      /\ UNCHANGED <<lost, rows, balances>>
  BY DEF FindAddresses
<1>2. row \in Op /\ row.kind = "row" /\ row.block = op.block /\ row.transfer = op.transfer
  BY OpFacts DEF Op
<1>3. \A x \in Touched(op.transfer) :
        /\ ask(x) \in Op /\ ask(x).kind = "balance" /\ ask(x).block = op.block
        /\ ask(x).transfer = op.transfer /\ ask(x).address = x
  BY OpFacts DEF Op
<1> HIDE DEF row, ask
<1>4. Follow(op, others)
  BY <1>2, <1>3 DEF Follow
<1>5. MonitorTypeOK' /\ LoopInv' /\ OpsInv' /\ Seen' = Seen
  BY <1>1, <1>4, OpMoves DEF MonitorInv, MonitorTypeOK
<1>6. ops' = (ops \ {op}) \cup others
  BY <1>1 DEF Done
<1>7. RowsInv'
  <2>1. ASSUME NEW h \in Seen, NEW t \in Chain[h], Kept(h, t), Touched(t) # {}
        PROVE  \/ rows[t.hash] # None
               \/ \E o \in ops' : o.kind \in {"find", "row"} /\ o.transfer = t
    <3>1. CASE t = op.transfer
      <4>1. row \in others
        BY <2>1, <3>1
      <4> QED
        BY <1>2, <1>6, <3>1, <4>1
    <3>2. CASE t # op.transfer
      BY <1>6, <2>1, <3>2 DEF MonitorInv, RowsInv
    <3> QED
      BY <3>1, <3>2
  <2> QED
    BY <1>1, <1>5, <2>1 DEF RowsInv, Kept
<1>8. BalancesInv'
  <2>1. ASSUME NEW h \in Seen, NEW t \in Chain[h], Kept(h, t),
               NEW x \in Touched(t) \ overtaken
        PROVE  \/ h <= balances[x]
               \/ \E o \in ops' : /\ o.transfer = t
                                  /\ \/ o.kind = "find"
                                     \/ o.kind \in {"balance", "cache"} /\ o.address = x
    <3>1. CASE t = op.transfer
      <4>1. ask(x) \in others
        BY <2>1, <3>1
      <4> HIDE DEF others
      <4> QED
        BY <1>3, <1>6, <2>1, <3>1, <4>1
    <3>2. CASE t # op.transfer
      BY <1>6, <2>1, <3>2 DEF MonitorInv, BalancesInv
    <3> QED
      BY <3>1, <3>2
  <2> QED
    BY <1>1, <1>5, <2>1 DEF BalancesInv, Kept, OpOnly
<1> QED
  BY <1>5, <1>7, <1>8 DEF MonitorInv

(* The row of the transfer is stored. *)
LEMMA RowDone ==
  ASSUME MonitorInv, NEW op \in ops, StoreRow(op)
  PROVE  MonitorInv'
<1>1. /\ op.kind = "row" /\ Done(op, {}) /\ OpOnly /\ UNCHANGED <<lost, balances>>
      /\ rows' = [rows EXCEPT ![op.transfer.hash] = op.transfer]
  BY DEF StoreRow
<1>2. rows' \in [Txids -> Transfers \cup {None}]
  BY <1>1, OpFacts DEF MonitorInv, MonitorTypeOK
<1>3. MonitorTypeOK' /\ LoopInv' /\ OpsInv' /\ Seen' = Seen
  BY <1>1, <1>2, OpMoves DEF Follow, MonitorInv, MonitorTypeOK
<1>4. ops' = ops \ {op}
  BY <1>1 DEF Done
<1>5. RowsInv'
  <2>1. ASSUME NEW h \in Seen, NEW t \in Chain[h], Kept(h, t), Touched(t) # {}
        PROVE  \/ rows'[t.hash] # None
               \/ \E o \in ops' : o.kind \in {"find", "row"} /\ o.transfer = t
    <3>0. h \in Heights /\ t.hash \in Txids
      BY ChainOK DEF Seen
    <3>1. CASE t.hash = op.transfer.hash
      BY <1>1, <3>0, <3>1, OpFacts DEF MonitorInv, MonitorTypeOK
    <3>2. CASE t.hash # op.transfer.hash
      <4>1. rows'[t.hash] = rows[t.hash]
        BY <1>1, <3>0, <3>2 DEF MonitorInv, MonitorTypeOK
      <4> QED
        BY <1>4, <2>1, <3>2, <4>1 DEF MonitorInv, RowsInv
    <3> QED
      BY <3>1, <3>2
  <2> QED
    BY <1>1, <1>3, <2>1 DEF RowsInv, Kept
<1>6. BalancesInv'
  <2>1. \A o \in ops : o.kind # "row" => o \in ops'
    BY <1>1, <1>4
  <2> QED
    BY <1>1, <1>3, <2>1 DEF BalancesInv, Kept, OpOnly, MonitorInv
<1> QED
  BY <1>3, <1>5, <1>6 DEF MonitorInv

(* The balance has come: it is of now. *)
LEMMA BalanceCame ==
  ASSUME MonitorInv, NEW op \in ops, GetBalance(op)
  PROVE  MonitorInv'
<1>1. PICK next : next = [op EXCEPT !.kind = "cache", !.balance = tip]
  OBVIOUS
<1>2. /\ op.kind = "balance" /\ Done(op, {next}) /\ OpOnly
      /\ UNCHANGED <<lost, rows, balances>>
  BY <1>1 DEF GetBalance
<1>3. MonitorTypeOK
  BY DEF MonitorInv
<1>4. /\ next \in Op /\ next.kind = "cache" /\ next.block = op.block
      /\ next.transfer = op.transfer /\ next.address = op.address /\ next.balance = tip
  <2>1. tip \in 0..MaxHeight
    BY <1>3, Numbers
  <2>2. op \in Op
    BY OpFacts
  <2> QED
    BY <1>1, <2>1, <2>2 DEF Op
<1>5. Follow(op, {next})
  BY <1>2, <1>4, OpFacts DEF Follow
<1>6. MonitorTypeOK' /\ LoopInv' /\ OpsInv' /\ Seen' = Seen
  BY <1>2, <1>5, OpMoves DEF MonitorInv, MonitorTypeOK
<1>7. ops' = (ops \ {op}) \cup {next}
  BY <1>2 DEF Done
<1>8. RowsInv'
  <2>1. \A o \in ops : o.kind \in {"find", "row"} => o \in ops'
    BY <1>2, <1>7
  <2> QED
    BY <1>2, <1>6, <2>1 DEF RowsInv, Kept, MonitorInv
<1>9. BalancesInv'
  <2>1. ASSUME NEW h \in Seen, NEW t \in Chain[h], Kept(h, t),
               NEW x \in Touched(t) \ overtaken
        PROVE  \/ h <= balances[x]
               \/ \E o \in ops' : /\ o.transfer = t
                                  /\ \/ o.kind = "find"
                                     \/ o.kind \in {"balance", "cache"} /\ o.address = x
    <3>1. CASE t = op.transfer /\ x = op.address
      BY <1>4, <1>7, <3>1
    <3>2. CASE ~(t = op.transfer /\ x = op.address)
      BY <1>2, <1>7, <2>1, <3>2 DEF MonitorInv, BalancesInv
    <3> QED
      BY <3>1, <3>2
  <2> QED
    BY <1>2, <1>6, <2>1 DEF BalancesInv, Kept, OpOnly
<1> QED
  BY <1>6, <1>8, <1>9 DEF MonitorInv

(* The balance is cached.  It is as new as the block of the operation, and no later
   block touches the address. *)
LEMMA BalanceDone ==
  ASSUME MonitorInv, NEW op \in ops, UpdateBalance(op)
  PROVE  MonitorInv'
<1>1. /\ op.kind = "cache" /\ Done(op, {}) /\ OpOnly /\ UNCHANGED <<lost, rows>>
      /\ balances' = [balances EXCEPT ![op.address] = op.balance]
  BY DEF UpdateBalance
<1>2. op.address \in Touched(op.transfer) /\ op.address \in Addresses
      /\ op.block <= op.balance
  BY <1>1, OpFacts
<1>3. balances' \in [Addresses -> 0..MaxHeight]
  BY <1>1, OpFacts DEF MonitorInv, MonitorTypeOK
<1>4. MonitorTypeOK' /\ LoopInv' /\ OpsInv' /\ Seen' = Seen
  BY <1>1, <1>3, OpMoves DEF Follow, MonitorInv, MonitorTypeOK
<1>5. ops' = ops \ {op}
  BY <1>1 DEF Done
<1>6. RowsInv'
  <2>1. \A o \in ops : o.kind \in {"find", "row"} => o \in ops'
    BY <1>1, <1>5
  <2> QED
    BY <1>1, <1>4, <2>1 DEF RowsInv, Kept, MonitorInv
<1>7. BalancesInv'
  <2>1. ASSUME NEW h \in Seen, NEW t \in Chain[h], Kept(h, t),
               NEW x \in Touched(t) \ overtaken
        PROVE  \/ h <= balances'[x]
               \/ \E o \in ops' : /\ o.transfer = t
                                  /\ \/ o.kind = "find"
                                     \/ o.kind \in {"balance", "cache"} /\ o.address = x
    <3>0. h \in Heights /\ h \in Nat /\ x \in Addresses
      BY ChainOK DEF Seen, Heights
    <3>1. CASE x = op.address
      <4>1. balances'[x] = op.balance
        BY <1>1, <3>0, <3>1 DEF MonitorInv, MonitorTypeOK
      <4>2. ~(op.block < h)
        BY <1>2, <2>1, <3>1 DEF MonitorInv, OpsInv
      <4>3. op.block \in Nat /\ op.balance \in Nat
        BY OpFacts, ChainOK
      <4> QED
        BY <1>2, <3>0, <4>1, <4>2, <4>3
    <3>2. CASE x # op.address
      <4>1. balances'[x] = balances[x]
        BY <1>1, <3>0, <3>2 DEF MonitorInv, MonitorTypeOK
      <4>2. \/ h <= balances[x]
            \/ \E o \in ops : /\ o.transfer = t
                              /\ \/ o.kind = "find"
                                 \/ o.kind \in {"balance", "cache"} /\ o.address = x
        BY <2>1 DEF MonitorInv, BalancesInv
      <4> QED
        BY <1>1, <1>5, <3>2, <4>1, <4>2
    <3> QED
      BY <3>1, <3>2
  <2> QED
    BY <1>1, <1>4, <2>1 DEF BalancesInv, Kept, OpOnly
<1> QED
  BY <1>4, <1>6, <1>7 DEF MonitorInv

(* An operation fails: its transfer is lost. *)
LEMMA OpLost ==
  ASSUME MonitorInv, NEW op \in ops, OpFails(op)
  PROVE  MonitorInv'
<1>1. /\ Done(op, {}) /\ OpOnly /\ UNCHANGED <<rows, balances>>
      /\ lost' = lost \cup {<<op.block, op.transfer>>}
  BY DEF OpFails
<1>2. MonitorTypeOK' /\ LoopInv' /\ OpsInv' /\ Seen' = Seen
  BY <1>1, OpMoves DEF Follow, MonitorInv, MonitorTypeOK
<1>3. ops' = ops \ {op}
  BY <1>1 DEF Done
<1>4. ASSUME NEW h \in Seen, NEW t \in Chain[h], Kept(h, t)'
      PROVE  Kept(h, t) /\ \A o \in ops : o.transfer = t => o \in ops'
  <2>1. Kept(h, t)
    BY <1>1, <1>4, KeptBefore
  <2>2. t # op.transfer
    BY <1>1, <1>4, OpFacts DEF Kept
  <2> QED
    BY <1>3, <2>1, <2>2
<1>5. RowsInv'
  BY <1>1, <1>2, <1>4 DEF RowsInv, MonitorInv
<1>6. BalancesInv'
  BY <1>1, <1>2, <1>4 DEF BalancesInv, MonitorInv, OpOnly
<1> QED
  BY <1>2, <1>5, <1>6 DEF MonitorInv

-----------------------------------------------------------------------------
(* The process dies: what was on its way is lost, and a block that was about to
   begin. *)
LEMMA MonitorDies ==
  ASSUME MonitorInv, Crash
  PROVE  MonitorInv'
<1>0. MonitorTypeOK /\ Go("down")
  BY DEF MonitorInv, Crash
<1>1. /\ loop'.at = "down" /\ loop' \in Loop /\ ops' = {}
      /\ UNCHANGED <<tip, height, rows, balances, first, begun, overtaken>>
      /\ lost \subseteq lost'
      /\ \A op \in ops : <<op.block, op.transfer>> \in lost'
      /\ loop.at = "begin" => <<loop.last, None>> \in lost'
  BY <1>0, GoMoves DEF Crash
<1>2. Seen \subseteq Seen' /\ \A h \in Seen' \ Seen : <<h, None>> \in lost'
  BY <1>1 DEF MonitorInv, LoopInv, Seen, AboutTo
<1>3. MonitorTypeOK'
  BY <1>0, <1>1 DEF MonitorTypeOK
<1>4. LoopInv'
  <2>1. \A i \in 1..Len(begun) : first <= begun[i] /\ begun[i] \in Seen'
    BY <1>2 DEF MonitorInv, LoopInv
  <2>2. \A h \in Seen' : <<h, None>> \in lost' \/ \E i \in 1..Len(begun) : begun[i] = h
    BY <1>1, <1>2 DEF MonitorInv, LoopInv
  <2> QED
    BY <1>1, <2>1, <2>2 DEF MonitorInv, LoopInv
<1>5. ASSUME NEW h \in Seen', NEW t \in Chain[h], Kept(h, t)'
      PROVE  h \in Seen /\ Kept(h, t) /\ \A op \in ops : op.transfer # t
  <2>1. h \in Seen /\ Kept(h, t)
    BY <1>1, <1>2, <1>5, KeptBefore DEF Kept
  <2>2. ASSUME NEW op \in ops, op.transfer = t PROVE FALSE
    BY <1>1, <1>5, <2>2, OpFacts DEF Kept
  <2> QED
    BY <2>1, <2>2
<1>6. RowsInv'
  BY <1>1, <1>5 DEF RowsInv, MonitorInv
<1>7. BalancesInv'
  BY <1>1, <1>5 DEF BalancesInv, MonitorInv
<1>8. OpsInv'
  BY <1>1 DEF OpsInv
<1> QED
  BY <1>3, <1>4, <1>6, <1>7, <1>8 DEF MonitorInv

LEMMA MonitorStep ==
  ASSUME MonitorInv, [Next]_vars
  PROVE  MonitorInv'
<1>0. MonitorTypeOK
  BY DEF MonitorInv
<1>1. ASSUME NEW op \in ops, Perform(op)
      PROVE  MonitorInv'
  BY <1>1, FindDone, RowDone, BalanceCame, BalanceDone, OpLost DEF Perform
<1>2. ASSUME NEW job \in jobs, Handle(job), UNCHANGED monitorVars
      PROVE  MonitorInv'
  <2>1. lost \subseteq lost'
    BY <1>2, LostGrows
  <2>2. UNCHANGED <<tip, height, loop, ops, rows, balances, first, begun, overtaken>>
    BY <1>2 DEF monitorVars
  <2>3. tip' \in Heights /\ tip <= tip'
    BY <1>0, <2>2, Numbers DEF MonitorTypeOK
  <2> QED
    BY <2>1, <2>2, <2>3, MoreIsLost
<1>3. CASE Mine
  <2>1. tip' \in Heights /\ tip <= tip'
    BY <1>0, <1>3, Numbers DEF Mine
  <2> QED
    BY <1>3, <2>1, MoreIsLost DEF Mine, noticeVars
<1>4. CASE UNCHANGED vars
  <2>1. tip' \in Heights /\ tip <= tip'
    BY <1>0, <1>4, Numbers DEF MonitorTypeOK, vars, monitorVars
  <2> QED
    BY <1>4, <2>1, MoreIsLost DEF vars, noticeVars, monitorVars
<1> QED
  BY <1>1, <1>2, <1>3, <1>4, LoopTurns, HeightStored, BlockBegins, MonitorDies DEF Next

LEMMA MonitorInvariance == Spec => []MonitorInv
BY MonitorStarts, MonitorStep, PTL DEF Spec

LEMMA FaultCounts ==
  ASSUME NoticesInv, NEW kind, Fault(kind)
  PROVE  faults' \in 0..MaxFaults
BY PaymentNoticesAssumption DEF NoticesInv, NoticesTypeOK, Fault

(* A step that starts handlers, loses some, or is none of theirs. *)
LEMMA NoticesStay ==
  ASSUME NoticesInv, UNCHANGED <<notices, active, subs>>, faults' \in 0..MaxFaults,
         jobs' \subseteq Job, \A job \in jobs' : JobOK(job), lost' \subseteq Events
  PROVE  NoticesInv'
BY DEF NoticesInv, NoticesTypeOK

LEMMA NoticesStep ==
  ASSUME MonitorInv, NoticesInv, [Next]_vars
  PROVE  NoticesInv'
<1>0. /\ MonitorTypeOK /\ LoopInv /\ OpsInv /\ jobs \subseteq Job
      /\ (\A job \in jobs : JobOK(job))
      /\ lost \subseteq Events /\ faults \in 0..MaxFaults
      /\ \A job \in jobs : job.event \in Events
  BY DEF MonitorInv, NoticesInv, NoticesTypeOK, Job
<1>a. ASSUME NEW h \in Heights
      PROVE  <<h, None>> \in Events /\ \A t \in Chain[h] : <<h, t>> \in Events
  BY HeightMonitorAssumption DEF Transfers
<1>b. \A op \in ops : /\ op.block \in Heights /\ op.address \in Addresses \cup {None}
                     /\ <<op.block, op.transfer>> \in Events
  BY <1>0, <1>a DEF OpsInv, MonitorTypeOK, Op, Seen
<1>1. ASSUME UNCHANGED <<notices, active, subs, jobs, lost>>, faults' \in 0..MaxFaults
      PROVE  NoticesInv'
  BY <1>1 DEF NoticesInv, NoticesTypeOK
<1>2. CASE StartLoop \/ StoreHeight \/ Mine \/ UNCHANGED vars
  BY <1>0, <1>1, <1>2 DEF StartLoop, StoreHeight, Mine, LoopOnly, vars, noticeVars
<1>3. CASE TurnFails
  BY <1>1, <1>3, FaultCounts DEF TurnFails, LoopOnly
<1>4. ASSUME NEW cur \in Heights, Turn(cur)
      PROVE  NoticesInv'
  BY <1>0, <1>1, <1>4, FaultCounts DEF Turn, LoopOnly
<1>5. CASE BeginBlock
  <2>1. PICK h : h = loop.last
    OBVIOUS
  <2>2. h \in Heights /\ <<h, None>> \in Events
    <3>1. loop.at = "begin" /\ height # 0 /\ h = height /\ height \in 0..tip /\ tip \in Heights
      BY <1>0, <1>5, <2>1 DEF BeginBlock, LoopInv, MonitorTypeOK
    <3>2. h \in Heights
      BY <3>1, ChainOK DEF Heights
    <3> QED
      BY <1>a, <3>2
  <2>3. PICK hashes : hashes = {t.hash : t \in Chain[h]}
    OBVIOUS
  <2>4. hashes \in SUBSET Txids
    BY <2>2, <2>3, ChainOK
  <2>5. ASSUME NEW job, job = BlockJob(<<h, None>>)
                        \/ job = ConfirmationJob("subs", <<h, None>>, hashes)
        PROVE  job \in Job /\ JobOK(job)
    BY <2>2, <2>4, <2>5, JobsStart
  <2>6. jobs' = jobs \cup (IF Coin = "eth"
                          THEN {BlockJob(<<h, None>>),
                                ConfirmationJob("subs", <<h, None>>, hashes)}
                          ELSE {})
    BY <1>5, <2>1, <2>3 DEF BeginBlock
  <2>7. jobs' \subseteq Job /\ \A job \in jobs' : JobOK(job)
    BY <1>0, <2>5, <2>6
  <2> QED
    BY <1>0, <1>5, <2>7, NoticesStay DEF BeginBlock
<1>6. ASSUME NEW op \in ops, FindAddresses(op) \/ StoreRow(op) \/ GetBalance(op)
      PROVE  NoticesInv'
  BY <1>0, <1>1, <1>6 DEF FindAddresses, StoreRow, GetBalance, OpOnly
<1>7. ASSUME NEW op \in ops, UpdateBalance(op)
      PROVE  NoticesInv'
  <2>1. ASSUME NEW x \in {op.address} \ Change, NEW job,
               job = PaymentJob(<<op.block, op.transfer>>, x, None)
        PROVE  job \in Job /\ JobOK(job)
    <3>1. x \in Addresses
      <4>1. op.address \in Touched(op.transfer)
        BY <1>0, <1>7 DEF UpdateBalance, OpsInv
      <4> QED
        BY <4>1 DEF Touched
    <3> QED
      BY <1>b, <2>1, <3>1, JobsStart
  <2>2. jobs' = jobs \cup {PaymentJob(<<op.block, op.transfer>>, x, None)
                          : x \in {op.address} \ Change}
    BY <1>7 DEF UpdateBalance, PaymentJobs, TxidOf
  <2>3. jobs' \subseteq Job /\ \A job \in jobs' : JobOK(job)
    BY <1>0, <2>1, <2>2
  <2> QED
    BY <1>0, <1>7, <2>3, NoticesStay DEF UpdateBalance, OpOnly
<1>8. ASSUME NEW op \in ops, OpFails(op)
      PROVE  NoticesInv'
  <2>1. faults' \in 0..MaxFaults
    BY <1>8, FaultCounts DEF OpFails
  <2> QED
    BY <1>0, <1>8, <1>b, <2>1, NoticesStay DEF OpFails, OpOnly
<1>9. CASE Crash
  <2>1. faults' \in 0..MaxFaults
    BY <1>9, FaultCounts DEF Crash
  <2>2. loop.at = "begin" => <<loop.last, None>> \in Events
    <3>1. ASSUME loop.at = "begin"
          PROVE  loop.last \in Heights
      <4>1. height # 0 /\ loop.last = height /\ height \in 0..tip /\ tip \in Heights
        BY <1>0, <3>1 DEF LoopInv, MonitorTypeOK
      <4> QED
        BY <4>1, ChainOK DEF Heights
    <3> QED
      BY <1>a, <3>1
  <2>3. lost' \subseteq Events
    BY <1>0, <1>9, <1>b, <2>2 DEF Crash
  <2> QED
    BY <1>9, <2>1, <2>3, NoticesStay DEF Crash
<1>10. ASSUME NEW job \in jobs, Handle(job)
       PROVE  NoticesInv'
  BY <1>10, HandleKeeps
<1> QED
  BY <1>2, <1>3, <1>4, <1>5, <1>6, <1>7, <1>8, <1>9, <1>10 DEF Next, Perform

(* The loop, the operations on their way, the rows, the cached balances and the
   handlers stay of their types. *)
THEOREM MonitorTyped == Spec => []TypeOK
<1>1. Init => NoticesInv
  BY NoticesStart DEF Init
<1>2. MonitorInv /\ NoticesInv /\ [Next]_vars => NoticesInv'
  BY NoticesStep
<1>3. MonitorInv /\ NoticesInv => TypeOK
  <2>1. ASSUME MonitorTypeOK
        PROVE  height \in 0..MaxHeight /\ first \in 0..MaxHeight
    BY <2>1, ChainOK DEF MonitorTypeOK, Heights
  <2> QED
    BY <2>1 DEF MonitorInv, MonitorTypeOK, NoticesInv, TypeOK
<1> QED
  BY <1>1, <1>2, <1>3, MonitorInvariance, PTL DEF Spec

(* BlocksOnce: _checkBlockHeight hands every block on once and in the order of the
   chain, and leaves out only one whose height a dying process had stored. *)
THEOREM BlocksBegunOnce == Spec => []BlocksOnce
<1>1. ASSUME MonitorInv PROVE BlocksOnce
  <2>0. Len(begun) \in Nat /\ \A i \in 1..Len(begun) : begun[i] \in Heights /\ begun[i] \in Nat
    <3>1. begun \in Seq(Heights) /\ Heights \subseteq Nat
      BY <1>1 DEF MonitorInv, MonitorTypeOK, Heights
    <3> QED
      BY <3>1, LenProperties, ElementOfSeq
  <2>1. ASSUME NEW i \in 1..Len(begun) - 1
        PROVE  /\ begun[i] < begun[i + 1]
               /\ \A h \in begun[i] + 1..begun[i + 1] - 1 : <<h, None>> \in lost
    <3>0. i \in 1..Len(begun) /\ i + 1 \in 1..Len(begun) /\ i < i + 1 /\ i \in Nat
      BY <2>0
    <3>1. begun[i] < begun[i + 1]
      BY <1>1, <3>0 DEF MonitorInv, LoopInv
    <3>2. ASSUME NEW h \in begun[i] + 1..begun[i + 1] - 1
          PROVE  <<h, None>> \in lost
      <4>1. h \in Nat /\ begun[i] < h /\ h < begun[i + 1]
        BY <2>0, <3>0
      <4>2. h \in Seen
        <5>1. /\ first <= begun[i] /\ begun[i + 1] \in Heights /\ begun[i + 1] <= height
              /\ ~(loop.at = "begin" /\ begun[i + 1] = height)
          BY <1>1, <3>0 DEF MonitorInv, LoopInv, Seen, AboutTo
        <5>2. first \in Nat /\ height \in Nat /\ Heights = 1..MaxHeight /\ MaxHeight \in Nat
          BY <1>1, Numbers DEF MonitorInv
        <5>3. h \in Heights /\ first <= h /\ h <= height /\ h # height
          BY <2>0, <3>0, <4>1, <5>1, <5>2
        <5> QED
          BY <5>3 DEF Seen, AboutTo
      <4>3. ASSUME NEW j \in 1..Len(begun), begun[j] = h
            PROVE  FALSE
        <5>1. \A k, l \in 1..Len(begun) : k < l => begun[k] < begun[l]
          BY <1>1 DEF MonitorInv, LoopInv
        <5>2. CASE j <= i
          BY <2>0, <3>0, <4>1, <4>3, <5>1, <5>2
        <5>3. CASE j > i
          BY <2>0, <3>0, <4>1, <4>3, <5>1, <5>3
        <5> QED
          BY <3>0, <5>2, <5>3
      <4> QED
        BY <1>1, <4>2, <4>3 DEF MonitorInv, LoopInv
    <3> QED
      BY <3>1, <3>2
  <2> QED
    BY <2>1 DEF BlocksOnce
<1> QED
  BY <1>1, MonitorInvariance, PTL

(* A transfer the properties speak of. *)
LEMMA HandledSeen ==
  ASSUME MonitorInv, Quiet, NEW t \in HandledTransfers
  PROVE  \E h \in Seen : t \in Chain[h] /\ Kept(h, t) /\ HeightOf(t) = h
<1>1. PICK h \in HandledBlocks : t \in Chain[h]
  BY DEF HandledTransfers
<1>2. h \in Seen /\ <<h, None>> \notin lost
  BY <1>1, Numbers DEF HandledBlocks, Seen, AboutTo, Quiet, MonitorInv
<1>3. Kept(h, t)
  BY <1>2 DEF Kept, HandledTransfers
<1>4. HeightOf(t) = h
  <2>1. h \in Heights
    BY <1>2 DEF Seen
  <2> QED
    BY <1>1, <2>1, ChainOK DEF HeightOf
<1> QED
  BY <1>1, <1>2, <1>3, <1>4

(* RowsRight: once the monitor is done with the blocks it has seen, every transaction
   that touches a wallet has its row, through crashes and explorers that lag, unless
   an operation on it failed. *)
THEOREM RowsStored == Spec => []RowsRight
<1>1. ASSUME MonitorInv PROVE RowsRight
  <2>1. ASSUME Quiet, NEW t \in HandledTransfers, Touched(t) # {}
        PROVE  rows[t.hash] # None
    <3>1. PICK h \in Seen : t \in Chain[h] /\ Kept(h, t)
      BY <1>1, <2>1, HandledSeen
    <3> QED
      BY <1>1, <2>1, <3>1 DEF MonitorInv, RowsInv, Quiet
  <2> QED
    BY <2>1 DEF RowsRight
<1> QED
  BY <1>1, MonitorInvariance, PTL

(* BalancesRight: then the cached balance of an address is not older than the last
   block that touches it, unless a block that touches it was begun while another one
   that does was worked on. *)
THEOREM BalancesAsNewAsBlocks == Spec => []BalancesRight
<1>1. ASSUME MonitorInv PROVE BalancesRight
  <2>1. ASSUME Quiet, NEW t \in HandledTransfers, NEW x \in Touched(t) \ overtaken
        PROVE  balances[x] >= HeightOf(t)
    <3>1. PICK h \in Seen : t \in Chain[h] /\ Kept(h, t) /\ HeightOf(t) = h
      BY <1>1, <2>1, HandledSeen
    <3>2. h <= balances[x]
      BY <1>1, <2>1, <3>1 DEF MonitorInv, BalancesInv, Quiet
    <3>3. h \in Nat /\ balances[x] \in Nat
      BY <1>1, <3>1, ChainOK DEF MonitorInv, MonitorTypeOK, Seen, Heights, Touched
    <3> QED
      BY <3>1, <3>2, <3>3
  <2> QED
    BY <2>1 DEF BalancesRight, BalancesFresh
<1> QED
  BY <1>1, MonitorInvariance, PTL

-----------------------------------------------------------------------------
(* The explorer's socket: every event is on its way, told, or given up. *)

(* What a handler is about is in its event. *)
JobsInv ==
  /\ lost \subseteq 1..Len(events)
  /\ \A job \in jobs :
       /\ JobOK(job) /\ job.event \in 1..Len(events)
       /\ Looks(job) => job.txids \subseteq events[job.event].txids
       /\ Chosen(job) => /\ job.notice.txid \in events[job.event].txids
                         /\ Subscriber(job) \in Subscription

OnTheWay(e, wallet, txid) ==
  \E job \in jobs : /\ job.event = e /\ Pending(job)
                    /\ job.notice.wallet = wallet /\ job.notice.txid = txid

PaysInv ==
  \A e \in Handled("tx") : \A txid \in events[e].txids : \A x \in Pays[txid] \ Change :
    PaymentTold(WalletOf[x], txid) \/ OnTheWay(e, WalletOf[x], txid)

ToBeTold(s) == \E job \in jobs : Tells(job) /\ Subscriber(job) = s

UsedInv ==
  \A s \in Subscription :
    subs[s] = FALSE => SubscriberTold(s) \/ Interrupted(s[2]) \/ ToBeTold(s)

GoneInv ==
  \A e \in 1..Len(events) : \A s \in events[e].asked :
    events[e].kind = "block" /\ subs[s] = None => Left(s, e)

(* Somebody who waits for the transaction is told, or will be. *)
Promised(e, txid) ==
  \/ Interrupted(txid)
  \/ \E t \in Subscription : t[2] = txid /\ (SubscriberTold(t) \/ Left(t, e))
  \/ \E job \in jobs : Chosen(job) /\ job.notice.txid = txid
  \/ \E job \in jobs : Looks(job) /\ job.event = e /\ txid \in job.txids

BlockInv ==
  \A e \in Handled("block") : \A s \in events[e].asked :
    s[2] \in events[e].txids => Promised(e, s[2])

EventsInv == EventsTypeOK /\ JobsInv /\ PaysInv /\ UsedInv /\ GoneInv /\ BlockInv

(* What a step may make of a handler: it goes on, it has told, it is given up, or
   it has found who is to be told. *)
Carried(job) ==
  \E next \in jobs' :
    /\ next.event = job.event /\ next.notice = job.notice /\ next.txids = job.txids
    /\ (Looks(job) => Looks(next)) /\ (Chosen(job) => Chosen(next))
    /\ (Tells(job) => Tells(next))

Settled(job) ==
  \/ job.event \in lost'
  \/ /\ Pending(job) => PaymentTold(job.notice.wallet, job.notice.txid)'
     /\ Chosen(job) => SubscriberTold(Subscriber(job))'
     /\ ~Looks(job)

Fetched(job) ==
  /\ Looks(job) /\ ~Chosen(job) /\ ~Pending(job)
  /\ \A txid \in job.txids : ActiveSubs(txid) # {} =>
       \E next \in jobs' : Chosen(next) /\ next.notice.txid = txid

Fates == \A job \in jobs : Carried(job) \/ Settled(job) \/ Fetched(job)

(* What happened stays, and a new event has its handlers. *)
Grows ==
  /\ notices \subseteq notices' /\ lost \subseteq lost'
  /\ Len(events) \in Nat /\ Len(events') \in Nat /\ Len(events) <= Len(events')
  /\ \A e \in 1..Len(events) : events'[e] = events[e]

Starts ==
  \A e \in 1..Len(events') : e > Len(events) =>
    /\ events'[e].kind = "tx" =>
         \A txid \in events'[e].txids : \A x \in Pays[txid] \ Change :
           OnTheWay(e, WalletOf[x], txid)'
    /\ events'[e].kind = "block" =>
         /\ \E job \in jobs' : Looks(job) /\ job.event = e /\ job.txids = events'[e].txids
         /\ \A s \in events'[e].asked : subs'[s] = TRUE

SubsStep ==
  \A s \in Subscription :
    /\ subs'[s] = FALSE => subs[s] = FALSE \/ ToBeTold(s)'
    /\ subs'[s] = None =>
         \/ subs[s] = None
         \/ \E e \in 1..Len(events') : /\ e > Len(events) /\ events'[e].kind = "leave"
                                       /\ s \in events'[e].asked

LEMMA ToldStays ==
  ASSUME Grows
  PROVE  /\ \A wallet, txid : PaymentTold(wallet, txid) => PaymentTold(wallet, txid)'
         /\ \A s : SubscriberTold(s) => SubscriberTold(s)'
         /\ lost \subseteq 1..Len(events) =>
              \A txid : Interrupted(txid) => Interrupted(txid)'
         /\ \A s : \A e \in 1..Len(events) : Left(s, e) => Left(s, e)'
<1>1. \A wallet, txid : PaymentTold(wallet, txid) => PaymentTold(wallet, txid)'
  BY DEF Grows, PaymentTold
<1>2. \A s : SubscriberTold(s) => SubscriberTold(s)'
  BY DEF Grows, SubscriberTold
<1>3. ASSUME lost \subseteq 1..Len(events), NEW txid, Interrupted(txid)
      PROVE  Interrupted(txid)'
  BY <1>3 DEF Grows, Interrupted
<1>4. ASSUME NEW s, NEW e \in 1..Len(events), Left(s, e)
      PROVE  Left(s, e)'
  <2>1. PICK k \in e..Len(events) : events[k].kind = "leave" /\ s \in events[k].asked
    BY <1>4 DEF Left
  <2>2. k \in e..Len(events') /\ events'[k] = events[k]
    BY <1>4, <2>1 DEF Grows
  <2> QED
    BY <2>1, <2>2 DEF Left
<1> QED
  BY <1>1, <1>2, <1>3, <1>4

(* A step of this form keeps every promise. *)
LEMMA StepKeeps ==
  ASSUME EventsInv, EventsTypeOK', JobsInv', Grows, Fates, Starts, SubsStep
  PROVE  PaysInv' /\ UsedInv' /\ GoneInv' /\ BlockInv'
<1>0. /\ lost \subseteq 1..Len(events) /\ JobsInv
      /\ Len(events) \in Nat /\ Len(events') \in Nat /\ Len(events) <= Len(events')
      /\ lost \subseteq lost'
      /\ \A e \in 1..Len(events) : events'[e] = events[e]
  BY DEF EventsInv, JobsInv, Grows
<1>1. /\ \A wallet, txid : PaymentTold(wallet, txid) => PaymentTold(wallet, txid)'
      /\ \A s : SubscriberTold(s) => SubscriberTold(s)'
      /\ \A txid : Interrupted(txid) => Interrupted(txid)'
      /\ \A s : \A e \in 1..Len(events) : Left(s, e) => Left(s, e)'
  BY <1>0, ToldStays
<1>2. ASSUME NEW job \in jobs, Chosen(job)
      PROVE  \/ \E next \in jobs' : /\ Chosen(next) /\ next.notice = job.notice
                                    /\ Tells(job) => Tells(next)
             \/ SubscriberTold(Subscriber(job))'
             \/ Interrupted(job.notice.txid)'
  <2>1. CASE Carried(job)
    BY <1>2, <2>1 DEF Carried
  <2>2. CASE Settled(job)
    <3>1. CASE job.event \in lost'
      <4>1. job.notice.txid \in events'[job.event].txids
        BY <1>0, <1>2 DEF JobsInv
      <4> QED
        BY <3>1, <4>1 DEF Interrupted
    <3>2. CASE SubscriberTold(Subscriber(job))'
      BY <3>2
    <3> QED
      BY <1>2, <2>2, <3>1, <3>2 DEF Settled
  <2>3. CASE Fetched(job)
    BY <1>2, <2>3 DEF Fetched
  <2> QED
    BY <2>1, <2>2, <2>3 DEF Fates
<1>3. ASSUME NEW s, ToBeTold(s)
      PROVE  ToBeTold(s)' \/ SubscriberTold(s)' \/ Interrupted(s[2])'
  <2>1. PICK job \in jobs : Tells(job) /\ Subscriber(job) = s
    BY <1>3 DEF ToBeTold
  <2>2. Chosen(job) /\ s[2] = job.notice.txid
    BY <2>1 DEF Tells, Chosen, Subscriber
  <2>3. CASE \E next \in jobs' : Tells(next) /\ next.notice = job.notice
    BY <2>1, <2>3 DEF ToBeTold, Subscriber
  <2> QED
    BY <1>2, <2>1, <2>2, <2>3
<1>4. UsedInv'
  <2> SUFFICES ASSUME NEW s \in Subscription, subs'[s] = FALSE
               PROVE  SubscriberTold(s)' \/ Interrupted(s[2])' \/ ToBeTold(s)'
    BY DEF UsedInv
  <2>1. subs[s] = FALSE \/ ToBeTold(s)'
    BY DEF SubsStep
  <2>2. CASE subs[s] = FALSE
    <3>1. SubscriberTold(s) \/ Interrupted(s[2]) \/ ToBeTold(s)
      BY <2>2 DEF EventsInv, UsedInv
    <3> QED
      BY <1>1, <1>3, <3>1
  <2> QED
    BY <2>1, <2>2
<1>5. GoneInv'
  <2> SUFFICES ASSUME NEW e \in 1..Len(events'), NEW s \in events'[e].asked,
                      events'[e].kind = "block", subs'[s] = None
               PROVE  Left(s, e)'
    BY DEF GoneInv
  <2>0. s \in Subscription
    <3>1. events'[e] \in Event
      BY DEF EventsTypeOK
    <3> QED
      BY <3>1 DEF Event
  <2>1. CASE e > Len(events)
    <3>1. subs'[s] = TRUE
      BY <2>1 DEF Starts
    <3> QED
      BY <3>1, PaymentNoticesAssumption
  <2>2. CASE e <= Len(events)
    <3>1. e \in 1..Len(events) /\ events'[e] = events[e]
      BY <1>0, <2>2
    <3>2. CASE subs[s] = None
      <4>1. Left(s, e)
        BY <3>1, <3>2 DEF EventsInv, GoneInv
      <4> QED
        BY <1>1, <3>1, <4>1
    <3>3. CASE subs[s] # None
      <4>1. PICK k \in 1..Len(events') : /\ k > Len(events) /\ events'[k].kind = "leave"
                                        /\ s \in events'[k].asked
        BY <2>0, <3>3 DEF SubsStep
      <4>2. k \in e..Len(events')
        BY <1>0, <2>2, <4>1
      <4> QED
        BY <4>1, <4>2 DEF Left
    <3> QED
      BY <3>2, <3>3
  <2> QED
    BY <1>0, <2>1, <2>2
<1>6. PaysInv'
  <2> SUFFICES ASSUME NEW e \in Handled("tx")', NEW txid \in events'[e].txids,
                      NEW x \in Pays[txid] \ Change
               PROVE  PaymentTold(WalletOf[x], txid)' \/ OnTheWay(e, WalletOf[x], txid)'
    BY DEF PaysInv
  <2>0. e \in 1..Len(events') /\ e \notin lost' /\ events'[e].kind = "tx"
    BY DEF Handled
  <2>1. CASE e > Len(events)
    BY <2>0, <2>1 DEF Starts
  <2>2. CASE e <= Len(events)
    <3>1. e \in 1..Len(events) /\ events'[e] = events[e] /\ e \in Handled("tx")
      BY <1>0, <2>0, <2>2 DEF Handled
    <3>2. PaymentTold(WalletOf[x], txid) \/ OnTheWay(e, WalletOf[x], txid)
      BY <3>1 DEF EventsInv, PaysInv
    <3>3. CASE OnTheWay(e, WalletOf[x], txid)
      <4>1. PICK job \in jobs : /\ job.event = e /\ Pending(job)
                                /\ job.notice.wallet = WalletOf[x] /\ job.notice.txid = txid
        BY <3>3 DEF OnTheWay
      <4>2. Carried(job) => OnTheWay(e, WalletOf[x], txid)'
        BY <4>1 DEF Carried, OnTheWay, Pending
      <4>3. Settled(job) => PaymentTold(WalletOf[x], txid)'
        BY <2>0, <4>1 DEF Settled
      <4> QED
        BY <4>1, <4>2, <4>3 DEF Fates, Fetched
    <3> QED
      BY <1>1, <3>2, <3>3
  <2> QED
    BY <1>0, <2>0, <2>1, <2>2
<1>7. BlockInv'
  <2> SUFFICES ASSUME NEW e \in Handled("block")', NEW s \in events'[e].asked,
                      s[2] \in events'[e].txids
               PROVE  Promised(e, s[2])'
    BY DEF BlockInv
  <2>0. e \in 1..Len(events') /\ e \notin lost' /\ events'[e].kind = "block"
    BY DEF Handled
  <2>1. CASE e > Len(events)
    <3>1. \E job \in jobs' : Looks(job) /\ job.event = e /\ job.txids = events'[e].txids
      BY <2>0, <2>1 DEF Starts
    <3> QED
      BY <3>1 DEF Promised
  <2>2. CASE e <= Len(events)
    <3>1. /\ e \in 1..Len(events) /\ events'[e] = events[e] /\ e \in Handled("block")
          /\ s \in events[e].asked /\ s[2] \in events[e].txids
      BY <1>0, <2>0, <2>2 DEF Handled
    <3>a. s \in Subscription
      <4>1. events[e] \in Event
        BY <3>1 DEF EventsInv, EventsTypeOK
      <4> QED
        BY <3>1, <4>1 DEF Event
    <3>2. Promised(e, s[2])
      BY <3>1 DEF EventsInv, BlockInv
    <3>3. CASE Interrupted(s[2])
      BY <1>1, <3>3 DEF Promised
    <3>4. CASE \E t \in Subscription : t[2] = s[2] /\ (SubscriberTold(t) \/ Left(t, e))
      BY <1>1, <3>1, <3>4 DEF Promised
    <3>5. ASSUME NEW job \in jobs, Chosen(job), job.notice.txid = s[2]
          PROVE  Promised(e, s[2])'
      <4>1. Subscriber(job) \in Subscription /\ Subscriber(job)[2] = s[2]
        BY <1>0, <3>5 DEF JobsInv, Subscriber
      <4>2. CASE \E next \in jobs' : Chosen(next) /\ next.notice = job.notice
        BY <3>5, <4>2 DEF Promised
      <4>3. CASE SubscriberTold(Subscriber(job))'
        BY <4>1, <4>3 DEF Promised
      <4>4. CASE Interrupted(job.notice.txid)'
        BY <3>5, <4>4 DEF Promised
      <4> QED
        BY <1>2, <3>5, <4>2, <4>3, <4>4
    <3>6. ASSUME NEW job \in jobs, Looks(job), job.event = e, s[2] \in job.txids
          PROVE  Promised(e, s[2])'
      <4>1. CASE Carried(job)
        BY <3>6, <4>1 DEF Carried, Promised
      <4>2. CASE Settled(job)
        BY <2>0, <3>6, <4>2 DEF Settled
      <4>3. CASE Fetched(job)
        <5>1. CASE ActiveSubs(s[2]) # {}
          BY <3>6, <4>3, <5>1 DEF Fetched, Promised
        <5>2. CASE ActiveSubs(s[2]) = {}
          <6>1. subs[s] = None \/ subs[s] = FALSE
            BY <3>a, <5>2 DEF ActiveSubs, EventsInv, EventsTypeOK, NoticesTypeOK
          <6>2. CASE subs[s] = None
            <7>1. Left(s, e)
              BY <2>0, <3>1, <6>2 DEF EventsInv, GoneInv
            <7> QED
              BY <1>1, <3>a, <3>1, <7>1 DEF Promised
          <6>3. CASE subs[s] = FALSE
            <7>1. SubscriberTold(s) \/ Interrupted(s[2]) \/ ToBeTold(s)
              BY <3>a, <6>3 DEF EventsInv, UsedInv
            <7>2. SubscriberTold(s)' \/ Interrupted(s[2])' \/ ToBeTold(s)'
              BY <1>1, <1>3, <7>1
            <7>3. ToBeTold(s)' =>
                    \E next \in jobs' : Chosen(next) /\ next.notice.txid = s[2]
              BY DEF ToBeTold, Tells, Chosen, Subscriber
            <7> QED
              BY <3>a, <7>2, <7>3 DEF Promised
          <6> QED
            BY <6>1, <6>2, <6>3
        <5> QED
          BY <5>1, <5>2
      <4> QED
        BY <4>1, <4>2, <4>3 DEF Fates
    <3> QED
      BY <3>2, <3>3, <3>4, <3>5, <3>6 DEF Promised
  <2> QED
    BY <1>0, <2>0, <2>1, <2>2
<1> QED
  BY <1>4, <1>5, <1>6, <1>7

(* The step of a handler. *)
LEMMA HandleStep ==
  ASSUME EventsInv, NEW job \in jobs, Handle(job), UNCHANGED events
  PROVE  EventsInv'
<1> DEFINE AsItIs(j) == /\ JobOK(j) /\ j.event \in 1..Len(events)
                        /\ Looks(j) => j.txids \subseteq events[j.event].txids
                        /\ Chosen(j) => /\ j.notice.txid \in events[j.event].txids
                                        /\ Subscriber(j) \in Subscription
<1>0. NoticesInv /\ JobsInv /\ (\A j \in jobs : AsItIs(j)) /\ lost \subseteq 1..Len(events)
  BY DEF EventsInv, EventsTypeOK, NoticesInv, JobsInv
<1>1. NoticesInv' /\ notices \subseteq notices' /\ lost \subseteq lost'
  BY <1>0, HandleKeeps
<1>2. EventsTypeOK' /\ Grows /\ Starts
  BY <1>1 DEF EventsInv, EventsTypeOK, NoticesInv, Grows, Starts
<1>3. ASSUME lost' \subseteq 1..Len(events), \A j \in jobs' : j \in jobs \/ AsItIs(j)
      PROVE  JobsInv'
  BY <1>0, <1>3 DEF JobsInv
<1>4. ASSUME jobs \ {job} \subseteq jobs', Carried(job) \/ Settled(job) \/ Fetched(job)
      PROVE  Fates
  BY <1>4 DEF Fates, Carried
<1>5. ASSUME UNCHANGED subs
      PROVE  SubsStep
  BY <1>5 DEF SubsStep
<1>6. ASSUME NEW next, GoesOn(job, next)
      PROVE  /\ jobs \ {job} \subseteq jobs' /\ Carried(job)
             /\ \A j \in jobs' : j \in jobs \/ AsItIs(j)
  <2>1. AsItIs(next)
    BY <1>0, <1>6 DEF GoesOn, Subscriber
  <2> HIDE DEF AsItIs
  <2> QED
    BY <1>6, <2>1 DEF GoesOn, Carried
<1> HIDE DEF AsItIs
<1>7. ASSUME Fates, JobsInv', SubsStep
      PROVE  EventsInv'
  BY <1>2, <1>7, StepKeeps DEF EventsInv
<1>8. CASE (\E next : GoesOn(job, next)) /\ UNCHANGED <<notices, subs, lost>>
  BY <1>0, <1>3, <1>4, <1>5, <1>6, <1>7, <1>8
<1>9. CASE /\ \E next : GoesOn(job, next) /\ Tells(next)
           /\ subs' = [subs EXCEPT ![Subscriber(job)] = FALSE]
           /\ UNCHANGED <<notices, active, lost>>
  <2>1. PICK next : GoesOn(job, next) /\ Tells(next)
    BY <1>9
  <2>2. ToBeTold(Subscriber(job))'
    BY <2>1 DEF GoesOn, ToBeTold, Subscriber
  <2>3. \A s \in Subscription : s # Subscriber(job) => subs'[s] = subs[s]
    BY <1>9 DEF EventsInv, EventsTypeOK, NoticesTypeOK
  <2>4. Subscriber(job) \in Subscription => subs'[Subscriber(job)] = FALSE
    BY <1>9 DEF EventsInv, EventsTypeOK, NoticesTypeOK
  <2>5. SubsStep
    BY <2>2, <2>3, <2>4, PaymentNoticesAssumption DEF SubsStep
  <2> QED
    BY <1>0, <1>3, <1>4, <1>6, <1>7, <1>9, <2>1, <2>5
<1>10. CASE Ends(job) /\ job.at = "check" /\ AlreadyNotified(job.notice)
            /\ UNCHANGED <<notices, lost>>
  <2>1. Settled(job)
    <3>1. PaymentTold(job.notice.wallet, job.notice.txid)'
      BY <1>10 DEF AlreadyNotified, PaymentTold
    <3> QED
      BY <1>10, <3>1 DEF Settled, Looks, Chosen
  <2>2. jobs \ {job} \subseteq jobs' /\ jobs' \subseteq jobs
    BY <1>10 DEF Ends
  <2> QED
    BY <1>0, <1>3, <1>4, <1>5, <1>7, <1>10, <2>1, <2>2 DEF Ends
<1>11. CASE /\ Ends(job) /\ job.at = "store" /\ UNCHANGED lost
            /\ notices' = notices \cup {[notice |-> job.notice, event |-> job.event]}
  <2>1. Settled(job)
    <3>1. PICK n : n = [notice |-> job.notice, event |-> job.event]
      OBVIOUS
    <3>2. n \in notices' /\ n.notice = job.notice
      BY <1>11, <3>1
    <3>3. Pending(job) => PaymentTold(job.notice.wallet, job.notice.txid)'
      BY <3>2 DEF Pending, PaymentTold
    <3>4. Chosen(job) => SubscriberTold(Subscriber(job))'
      BY <3>2 DEF Chosen, SubscriberTold, Subscriber
    <3> QED
      BY <1>11, <3>3, <3>4 DEF Settled, Looks
  <2>2. jobs \ {job} \subseteq jobs' /\ jobs' \subseteq jobs
    BY <1>11 DEF Ends
  <2> QED
    BY <1>0, <1>3, <1>4, <1>5, <1>7, <1>11, <2>1, <2>2 DEF Ends
<1>12. CASE Ends(job) /\ lost' = lost \cup {job.event} /\ UNCHANGED notices
  <2>1. Settled(job) /\ job.event \in 1..Len(events)
    BY <1>0, <1>12 DEF Settled, AsItIs
  <2>2. jobs \ {job} \subseteq jobs' /\ jobs' \subseteq jobs /\ lost' \subseteq 1..Len(events)
    BY <1>0, <1>12, <2>1 DEF Ends
  <2> QED
    BY <1>3, <1>4, <1>5, <1>7, <1>12, <2>1, <2>2 DEF Ends
<1>13. CASE FetchSubs(job)
  <2>1. job.at = "subs" /\ UNCHANGED <<notices, active, subs, lost>>
    BY <1>0, <1>13, SubsFetched
  <2>2. PICK others : ToldNext(job, others)
    BY <1>0, <1>13, SubsFetched
  <2>3. /\ AsItIs(job) /\ Looks(job) /\ ~Chosen(job)
        /\ ~Pending(job)
    BY <1>0, <2>1 DEF AsItIs, Looks, Chosen, Pending, JobOK, Paying
  <2>4. ASSUME NEW j \in others
        PROVE  AsItIs(j) /\ Chosen(j)
    BY <2>2, <2>3 DEF ToldNext, AsItIs, Looks, Chosen
  <2>5. Fetched(job)
    BY <2>2, <2>3, <2>4 DEF Fetched, ToldNext
  <2>6. /\ jobs \ {job} \subseteq jobs'
        /\ \A j \in jobs' : j \in jobs \/ AsItIs(j)
    BY <2>2, <2>4 DEF ToldNext
  <2> QED
    BY <1>0, <1>3, <1>4, <1>5, <1>7, <2>1, <2>5, <2>6
<1> QED
  BY <1>0, <1>8, <1>9, <1>10, <1>11, <1>12, <1>13, HandleCases

LEMMA EventHappens ==
  ASSUME EventsInv, NEW kind \in {"tx", "block", "leave"}, NEW txids \in SUBSET Txids,
         NEW asked \in SUBSET Subscription, Happen(kind, txids, asked)
  PROVE  /\ events' \in Seq(Event) /\ Len(events') = Len(events) + 1
         /\ Len(events') <= MaxEvents /\ Len(events') \in Events
         /\ \A e \in 1..Len(events) : events'[e] = events[e]
         /\ events'[Len(events) + 1].kind = kind
         /\ events'[Len(events) + 1].txids = txids
         /\ events'[Len(events) + 1].asked = asked
<1>1. PICK new : new = [kind |-> kind, txids |-> txids, asked |-> asked]
  OBVIOUS
<1>2. new \in Event /\ new.kind = kind /\ new.txids = txids /\ new.asked = asked
  BY <1>1 DEF Event
<1>3. events \in Seq(Event) /\ events' = Append(events, new) /\ Len(events) < MaxEvents
  BY <1>1 DEF Happen, EventsInv, EventsTypeOK
<1>4. /\ Len(events') = Len(events) + 1 /\ events' \in Seq(Event) /\ Len(events) \in Nat
      /\ \A e \in 1..Len(events) : events'[e] = events[e]
      /\ events'[Len(events) + 1] = new
  BY <1>2, <1>3, AppendProperties
<1> QED
  BY <1>2, <1>3, <1>4, ExplorerMonitorAssumption

(* A new event, with the handlers it starts. *)
LEMMA EventStep ==
  ASSUME EventsInv, NEW kind \in {"tx", "block", "leave"}, NEW txids \in SUBSET Txids,
         NEW asked \in SUBSET Subscription, Happen(kind, txids, asked),
         NEW new, jobs' = jobs \cup new, new \subseteq Job,
         \A job \in new : /\ JobOK(job) /\ job.event = Len(events) + 1 /\ ~Chosen(job)
                          /\ Looks(job) => job.txids = txids,
         kind = "tx" => \A txid \in txids : \A x \in Pays[txid] \ Change :
           \E job \in new : /\ Pending(job) /\ job.notice.wallet = WalletOf[x]
                           /\ job.notice.txid = txid,
         kind = "block" => /\ \E job \in new : Looks(job) /\ job.txids = txids
                           /\ UNCHANGED subs /\ \A s \in asked : subs[s] = TRUE,
         UNCHANGED <<notices, active, lost, faults>>,
         subs' \in [Subscription -> BOOLEAN \cup {None}], SubsStep
  PROVE  EventsInv'
<1>0. NoticesTypeOK /\ JobsInv /\ lost \subseteq 1..Len(events) /\ Len(events) \in Nat
  BY DEF EventsInv, EventsTypeOK, JobsInv
<1>1. /\ events' \in Seq(Event) /\ Len(events') = Len(events) + 1
      /\ Len(events') <= MaxEvents
      /\ \A e \in 1..Len(events) : events'[e] = events[e]
      /\ events'[Len(events) + 1].kind = kind
      /\ events'[Len(events) + 1].txids = txids
      /\ events'[Len(events) + 1].asked = asked
  BY EventHappens
<1>2. EventsTypeOK'
  BY <1>0, <1>1 DEF EventsTypeOK, NoticesTypeOK
<1>3. Grows
  BY <1>0, <1>1 DEF Grows
<1>4. JobsInv'
  <2>1. ASSUME NEW job \in jobs
        PROVE  /\ JobOK(job) /\ job.event \in 1..Len(events')
               /\ Looks(job) => job.txids \subseteq events'[job.event].txids
               /\ Chosen(job) => /\ job.notice.txid \in events'[job.event].txids
                                 /\ Subscriber(job) \in Subscription
    BY <1>0, <1>1 DEF JobsInv
  <2>2. ASSUME NEW job \in new
        PROVE  /\ JobOK(job) /\ job.event \in 1..Len(events')
               /\ Looks(job) => job.txids \subseteq events'[job.event].txids
               /\ ~Chosen(job)
    BY <1>0, <1>1
  <2>3. lost' \subseteq 1..Len(events')
    BY <1>0, <1>1
  <2> QED
    BY <2>1, <2>2, <2>3 DEF JobsInv
<1>5. Fates
  BY DEF Fates, Carried
<1>6. Starts
  <2> SUFFICES ASSUME NEW e \in 1..Len(events'), e > Len(events)
               PROVE  /\ events'[e].kind = "tx" =>
                           \A txid \in events'[e].txids : \A x \in Pays[txid] \ Change :
                             OnTheWay(e, WalletOf[x], txid)'
                      /\ events'[e].kind = "block" =>
                           /\ \E job \in jobs' : /\ Looks(job) /\ job.event = e
                                                 /\ job.txids = events'[e].txids
                           /\ \A s \in events'[e].asked : subs'[s] = TRUE
    BY DEF Starts
  <2>1. e = Len(events) + 1
    BY <1>0, <1>1
  <2>2. events'[e].kind = "tx" =>
           \A txid \in events'[e].txids : \A x \in Pays[txid] \ Change :
             OnTheWay(e, WalletOf[x], txid)'
    <3> SUFFICES ASSUME kind = "tx", NEW txid \in txids, NEW x \in Pays[txid] \ Change
                 PROVE  OnTheWay(e, WalletOf[x], txid)'
      BY <1>1, <2>1
    <3> QED
      BY <2>1 DEF OnTheWay
  <2>3. events'[e].kind = "block" =>
           /\ \E job \in jobs' : /\ Looks(job) /\ job.event = e
                                 /\ job.txids = events'[e].txids
           /\ \A s \in events'[e].asked : subs'[s] = TRUE
    BY <1>1, <2>1
  <2> QED
    BY <2>2, <2>3
<1> QED
  BY <1>2, <1>3, <1>4, <1>5, <1>6, StepKeeps DEF EventsInv

LEMMA PaymentStep ==
  ASSUME EventsInv, NEW txid \in Txids, HandleIncomingTx(txid)
  PROVE  EventsInv'
<1> DEFINE event == Len(events) + 1
           new == PaymentJobs(event, Pays[txid], txid)
<1>1. /\ Happen("tx", {txid}, {}) /\ jobs' = jobs \cup new
      /\ UNCHANGED <<notices, active, subs, lost, faults>>
  BY DEF HandleIncomingTx
<1>2. event \in Events /\ Pays[txid] \subseteq Addresses
  BY <1>1, EventHappens, ExplorerMonitorAssumption
<1>3. ASSUME NEW x \in Addresses, NEW job, job = PaymentJob(event, x, txid)
      PROVE  /\ job \in Job /\ JobOK(job) /\ job.event = event
             /\ job.notice.type = "NewIncomingTx" /\ job.at = "check"
             /\ job.notice.wallet = WalletOf[x] /\ job.notice.txid = txid
  BY <1>2, <1>3, JobsStart
<1>4. \A job \in new : \E x \in Pays[txid] \ Change : job = PaymentJob(event, x, txid)
  BY DEF PaymentJobs
<1>5. \A x \in Pays[txid] \ Change : PaymentJob(event, x, txid) \in new
  BY DEF PaymentJobs
<1> HIDE DEF event, new
<1>6. /\ new \subseteq Job
      /\ \A job \in new : JobOK(job) /\ job.event = event /\ ~Chosen(job) /\ ~Looks(job)
  BY <1>2, <1>3, <1>4 DEF Chosen, Looks
<1>7. ASSUME NEW x \in Pays[txid] \ Change
      PROVE  \E job \in new : /\ Pending(job) /\ job.notice.wallet = WalletOf[x]
                             /\ job.notice.txid = txid
  <2>1. PICK job : job = PaymentJob(event, x, txid)
    OBVIOUS
  <2> QED
    BY <1>2, <1>3, <1>5, <2>1 DEF Pending
<1>8. subs' \in [Subscription -> BOOLEAN \cup {None}] /\ SubsStep
  BY <1>1 DEF EventsInv, EventsTypeOK, NoticesTypeOK, SubsStep
<1>9. \A t \in {txid} : \A x \in Pays[t] \ Change :
        \E job \in new : /\ Pending(job) /\ job.notice.wallet = WalletOf[x]
                        /\ job.notice.txid = t
  BY <1>7
<1>10. \A job \in new : /\ JobOK(job) /\ job.event = Len(events) + 1 /\ ~Chosen(job)
                        /\ Looks(job) => job.txids = {txid}
  BY <1>6 DEF event
<1> HIDE DEF event
<1> QED
  BY <1>1, <1>6, <1>8, <1>9, <1>10, EventStep

LEMMA BlockStep ==
  ASSUME EventsInv, NEW txids \in SUBSET Txids, HandleNewBlock(txids)
  PROVE  EventsInv'
<1> DEFINE event == Len(events) + 1
           asked == {s \in Subscription : subs[s] = TRUE}
           new == {BlockJob(event), ConfirmationJob("txids", event, txids)}
<1>1. /\ Happen("block", txids, asked) /\ jobs' = jobs \cup new
      /\ UNCHANGED <<notices, active, subs, lost, faults>>
  BY DEF HandleNewBlock
<1>2. event \in Events
  <2>1. asked \in SUBSET Subscription /\ "block" \in {"tx", "block", "leave"}
    OBVIOUS
  <2> HIDE DEF asked
  <2>2. Len(events') \in Events /\ Len(events') = Len(events) + 1
    BY <1>1, <2>1, EventHappens
  <2> QED
    BY <2>2
<1>3. ASSUME NEW job, job = BlockJob(event)
      PROVE  /\ job \in Job /\ JobOK(job) /\ job.event = event
             /\ job.notice.type = "NewBlock" /\ job.at = "store"
  BY <1>2, <1>3, JobsStart
<1>4. ASSUME NEW job, job = ConfirmationJob("txids", event, txids)
      PROVE  /\ job \in Job /\ JobOK(job) /\ job.event = event
             /\ job.notice.type = "TxConfirmation" /\ job.at = "txids" /\ job.txids = txids
  BY <1>2, <1>4, JobsStart
<1>5. \A job \in new : job = BlockJob(event) \/ job = ConfirmationJob("txids", event, txids)
  OBVIOUS
<1>6. ConfirmationJob("txids", event, txids) \in new
  OBVIOUS
<1>7. (\A s \in asked : subs[s] = TRUE) /\ asked \in SUBSET Subscription
  OBVIOUS
<1> HIDE DEF event, asked, new
<1>8. \A job \in new : job \in Job /\ JobOK(job) /\ job.event = event /\ ~Chosen(job)
                       /\ (Looks(job) => job.txids = txids)
  BY <1>3, <1>4, <1>5 DEF Chosen, Looks
<1>9. \E job \in new : Looks(job) /\ job.txids = txids
  <2>1. PICK job : job = ConfirmationJob("txids", event, txids)
    OBVIOUS
  <2> QED
    BY <1>4, <1>6, <2>1 DEF Looks
<1>10. subs' \in [Subscription -> BOOLEAN \cup {None}] /\ SubsStep
  BY <1>1 DEF EventsInv, EventsTypeOK, NoticesTypeOK, SubsStep
<1>11. new \subseteq Job
       /\ \A job \in new : /\ JobOK(job) /\ job.event = Len(events) + 1 /\ ~Chosen(job)
                           /\ Looks(job) => job.txids = txids
  BY <1>8 DEF event
<1> QED
  BY <1>1, <1>7, <1>9, <1>10, <1>11, EventStep

LEMMA LeaveStep ==
  ASSUME EventsInv, NEW s \in Subscription, Unsubscribe(s), Happen("leave", {}, {s})
  PROVE  EventsInv'
<1>1. /\ subs[s] # None /\ subs' = [subs EXCEPT ![s] = None]
      /\ UNCHANGED <<notices, active, jobs, lost, faults>>
  BY DEF Unsubscribe
<1>2. subs \in [Subscription -> BOOLEAN \cup {None}]
  BY DEF EventsInv, EventsTypeOK, NoticesTypeOK
<1>3. subs' \in [Subscription -> BOOLEAN \cup {None}]
  BY <1>1, <1>2
<1>4. PICK none : none = {}
  OBVIOUS
<1>5. PICK asked : asked = {s}
  OBVIOUS
<1>6. /\ Happen("leave", none, asked) /\ none \in SUBSET Txids /\ asked \in SUBSET Subscription
      /\ jobs' = jobs \cup none /\ none \subseteq Job /\ s \in asked
  BY <1>1, <1>4, <1>5
<1>7. UNCHANGED <<notices, active, lost, faults>> /\ \A job : job \notin none
  BY <1>1, <1>4
<1>8. SubsStep
  <2>1. /\ Len(events') = Len(events) + 1 /\ events'[Len(events) + 1].kind = "leave"
        /\ events'[Len(events) + 1].asked = asked
    BY <1>6, EventHappens
  <2>2. Len(events) \in Nat
    BY LenProperties DEF EventsInv, EventsTypeOK
  <2>3. \E e \in 1..Len(events') : /\ e > Len(events) /\ events'[e].kind = "leave"
                                   /\ s \in events'[e].asked
    BY <1>6, <2>1, <2>2
  <2>4. \A t \in Subscription : subs'[t] = IF t = s THEN None ELSE subs[t]
    BY <1>1, <1>2
  <2> QED
    BY <2>3, <2>4, PaymentNoticesAssumption DEF SubsStep
<1> QED
  BY <1>3, <1>6, <1>7, <1>8, EventStep

(* A step without an event that leaves the handlers, or takes them all. *)
LEMMA SubscribeStep ==
  ASSUME EventsInv, NEW s \in Subscription, Subscribe(s), UNCHANGED events
  PROVE  EventsInv'
<1>1. /\ subs' = [subs EXCEPT ![s] = TRUE]
      /\ UNCHANGED <<notices, active, jobs, lost, faults, events>>
  BY DEF Subscribe
<1>2. subs \in [Subscription -> BOOLEAN \cup {None}]
  BY DEF EventsInv, EventsTypeOK, NoticesTypeOK
<1>3. \A t \in Subscription : subs'[t] = IF t = s THEN TRUE ELSE subs[t]
  BY <1>1, <1>2
<1>4. SubsStep
  BY <1>3, PaymentNoticesAssumption DEF SubsStep
<1>5. EventsTypeOK' /\ JobsInv' /\ Grows
  BY <1>1, <1>2 DEF EventsInv, EventsTypeOK, NoticesTypeOK, JobsInv, Grows
<1>6. Fates /\ Starts
  BY <1>1 DEF Fates, Carried, Starts
<1> QED
  BY <1>4, <1>5, <1>6, StepKeeps DEF EventsInv

LEMMA CrashStep ==
  ASSUME EventsInv, LoseJobs, UNCHANGED events
  PROVE  EventsInv'
<1>1. /\ jobs' = {} /\ lost' = lost \cup {job.event : job \in jobs}
      /\ UNCHANGED <<notices, active, subs, events>>
      /\ faults < MaxFaults /\ faults' = faults + 1
  BY DEF LoseJobs, Fault
<1>2. lost' \subseteq 1..Len(events) /\ \A job \in jobs : job.event \in lost'
  BY <1>1 DEF EventsInv, JobsInv
<1>3. \A job \in jobs : job.event \in Events
  BY DEF EventsInv, EventsTypeOK, NoticesTypeOK, Job
<1>4. EventsTypeOK'
  <2>1. faults' \in 0..MaxFaults
    BY <1>1, PaymentNoticesAssumption DEF EventsInv, EventsTypeOK, NoticesTypeOK
  <2> QED
    BY <1>1, <1>3, <2>1 DEF EventsInv, EventsTypeOK, NoticesTypeOK
<1>5. JobsInv' /\ Grows /\ SubsStep /\ Fates /\ Starts
  BY <1>1, <1>2 DEF EventsInv, EventsTypeOK, JobsInv, Grows, SubsStep, Fates, Settled, Starts
<1> QED
  BY <1>4, <1>5, StepKeeps DEF EventsInv

LEMMA EventsStart == EventsInit => EventsInv
<1> SUFFICES ASSUME EventsInit PROVE EventsInv
  OBVIOUS
<1>1. events = <<>> /\ Len(events) = 0 /\ events \in Seq(Event) /\ MaxEvents \in Nat
  BY ExplorerMonitorAssumption DEF EventsInit
<1>2. NoticesTypeOK
  <2>1. NoticesInit({})
    BY DEF EventsInit
  <2> QED
    BY <2>1, NoticesStart DEF NoticesInv
<1>3. jobs = {} /\ lost = {} /\ \A s \in Subscription : subs[s] = None
  BY DEF EventsInit, NoticesInit
<1>4. EventsTypeOK /\ JobsInv /\ UsedInv
  <2>1. EventsTypeOK
    BY <1>1, <1>2 DEF EventsTypeOK
  <2>2. JobsInv
    BY <1>3 DEF JobsInv
  <2>3. UsedInv
    <3>1. None # FALSE
      BY PaymentNoticesAssumption
    <3> QED
      BY <1>3, <3>1, Zenon DEF UsedInv
  <2> QED
    BY <2>1, <2>2, <2>3
<1>5. 1..Len(events) = {} /\ Handled("tx") = {} /\ Handled("block") = {}
  BY <1>1 DEF Handled
<1>6. PaysInv /\ GoneInv /\ BlockInv
  BY <1>5 DEF PaysInv, GoneInv, BlockInv
<1> QED
  BY <1>4, <1>6 DEF EventsInv

LEMMA EventsStep == EventsInv /\ [EventsNext]_eventVars => EventsInv'
<1> SUFFICES ASSUME EventsInv, [EventsNext]_eventVars PROVE EventsInv'
  OBVIOUS
<1>1. CASE \E txid \in Txids : HandleIncomingTx(txid)
  BY <1>1, PaymentStep
<1>2. CASE \E txids \in Blocks : HandleNewBlock(txids)
  BY <1>2, BlockStep, ExplorerMonitorAssumption
<1>3. CASE \E job \in jobs : Handle(job) /\ UNCHANGED events
  BY <1>3, HandleStep
<1>4. CASE \E s \in Subscription : Subscribe(s) /\ UNCHANGED events
  BY <1>4, SubscribeStep
<1>5. CASE \E s \in Subscription : Unsubscribe(s) /\ Happen("leave", {}, {s})
  BY <1>5, LeaveStep
<1>6. CASE LoseJobs /\ UNCHANGED events
  BY <1>6, CrashStep
<1>7. CASE UNCHANGED eventVars
  <2>1. UNCHANGED <<notices, active, subs, jobs, lost, faults, events>>
    BY <1>7 DEF eventVars, noticeVars
  <2>2. EventsTypeOK' /\ JobsInv' /\ Grows /\ SubsStep /\ Fates /\ Starts
    BY <2>1 DEF EventsInv, EventsTypeOK, NoticesTypeOK, JobsInv, Grows, SubsStep, Fates,
                Carried, Starts
  <2> QED
    BY <2>2, StepKeeps DEF EventsInv
<1> QED
  BY <1>1, <1>2, <1>3, <1>4, <1>5, <1>6, <1>7 DEF EventsNext

(* The invariant in every state. *)
THEOREM EventsInvariance == EventsSpec => []EventsInv
BY EventsStart, EventsStep, PTL DEF EventsSpec

(* The types of the explorer's monitor hold. *)
THEOREM EventsTyped == EventsSpec => []EventsTypeOK
<1>1. EventsInv => EventsTypeOK
  BY DEF EventsInv
<1> QED
  BY <1>1, EventsInvariance, PTL

(* When no handler is on its way, every wallet that a transaction pays outside its
   change is told of it, but for the events of which an operation failed or that a
   crash cut short: however often the explorer sends the transaction, and in whatever
   order the handlers of its addresses check and store. *)
THEOREM EveryPaymentTold == EventsSpec => []PaymentsTold
<1>1. EventsInv => PaymentsTold
  BY DEF EventsInv, PaysInv, PaymentsTold, NoJobs, OnTheWay
<1> QED
  BY <1>1, EventsInvariance, PTL

(* When no handler is on its way, a subscription is used up only where its copayer
   was told, and of the copayers who waited for a transaction when its block came
   one was told, or left. *)
THEOREM ConfirmationReachesOne == EventsSpec => []ConfirmationsTold
<1>1. EventsInv => ConfirmationsTold
  BY DEF EventsInv, UsedInv, BlockInv, ConfirmationsTold, NoJobs, ToBeTold, Promised
<1> QED
  BY <1>1, EventsInvariance, PTL
=============================================================================
