-------------------------- MODULE PaymentNotices --------------------------
(***************************************************************************)
(* What the monitors of the chains tell the wallets: NewIncomingTx for a   *)
(* payment to one of their addresses, TxConfirmation to a copayer who      *)
(* subscribed to a transaction, NewBlock to everybody.  The handlers       *)
(* (_handleIncomingPayments, _handleTxConfirmations, _notifyNewBlock) are  *)
(* the same in the four blockchainmonitor*.js; they are started by an      *)
(* event of the explorer and nobody waits for them, so any number is on    *)
(* its way at a time.  A job is one of them, at its next database call.    *)
(*                                                                         *)
(* ExplorerMonitor starts them as the events of a socket come,             *)
(* HeightMonitor block by block.  A behaviour is shorter than the 24 hours *)
(* in which a payment is told only once.                                   *)
(***************************************************************************)
EXTENDS Naturals, FiniteSets

CONSTANTS Wallets, Copayers, Addresses, Txids,
          WalletOf,   \* the wallet of an address
          Change,     \* the change addresses
          Subscription, \* the copayers and the transactions they may subscribe to
          Events,     \* what starts handlers
          None,
          MaxFaults,  \* bound: faults in a behaviour
          Faults      \* the faults that may happen: "crash", "database", "explorer"

ASSUME PaymentNoticesAssumption ==
  /\ WalletOf \in [Addresses -> Wallets]
  /\ Change \subseteq Addresses
  /\ Subscription \subseteq Copayers \X Txids
  /\ None \notin Wallets \cup Addresses \cup Txids \cup Copayers \cup BOOLEAN
  /\ MaxFaults \in Nat

VARIABLES notices, \* the notifications collection, each with the event it is of
          active,  \* fetchAddressesWithBalance, by wallet
          subs,    \* TxConfirmationSub: isActive by copayer and txid, None without
          jobs,    \* the handlers on their way
          lost,    \* history: events of which an operation failed or a crash ended a handler
          faults   \* how many faults there were

noticeVars == <<notices, active, subs, jobs, lost, faults>>

Notice == [type : {"NewIncomingTx", "TxConfirmation", "NewBlock"},
           wallet : Wallets \cup {None}, address : Addresses \cup {None},
           txid : Txids \cup {None}, copayer : Copayers \cup {None}]

Job == [at : {"check", "list", "activate", "txids", "subs", "inactive", "store"},
        event : Events, notice : Notice, list : SUBSET Addresses,
        txids : SUBSET Txids]

NoticesTypeOK ==
  /\ notices \subseteq [notice : Notice, event : Events]
  /\ active \in [Wallets -> SUBSET Addresses]
  /\ subs \in [Subscription -> BOOLEAN \cup {None}]
  /\ jobs \subseteq Job
  /\ lost \subseteq Events
  /\ faults \in 0..MaxFaults

NoticesInit(subscribed) ==
  /\ notices = {}
  /\ active = [w \in Wallets |-> {}]
  /\ subs = [s \in Subscription |-> IF s \in subscribed THEN TRUE ELSE None]
  /\ jobs = {}
  /\ lost = {}
  /\ faults = 0

-----------------------------------------------------------------------------
(* The jobs an event starts. *)

NoticeOf(type) == [type |-> type, wallet |-> None, address |-> None, txid |-> None,
                   copayer |-> None]

JobOf(at, event, notice) ==
  [at |-> at, event |-> event, notice |-> notice, list |-> {}, txids |-> {}]

(* _handleIncomingPayments, for each output to an address of a wallet that is not
   a change address. *)
PaymentJob(event, x, txid) ==
  JobOf("check", event, [NoticeOf("NewIncomingTx") EXCEPT
                           !.wallet = WalletOf[x], !.address = x, !.txid = txid])

PaymentJobs(event, paid, txid) == {PaymentJob(event, x, txid) : x \in paid \ Change}

(* _notifyNewBlock *)
BlockJob(event) == JobOf("store", event, NoticeOf("NewBlock"))

(* _handleTxConfirmations, with the transactions of the block. *)
ConfirmationJob(at, event, txids) ==
  [JobOf(at, event, NoticeOf("TxConfirmation")) EXCEPT !.txids = txids]

-----------------------------------------------------------------------------
(* The steps of a job.  Where the next one is set, the job goes on. *)

Become(job, others) == jobs' = (jobs \ {job}) \cup others

(* Mutant of AlreadyNotified: the same for all wallets. *)
AlreadyNotifiedAnyone(notice) ==
  \E n \in notices : /\ n.notice.type = "NewIncomingTx"
                     /\ n.notice.txid = notice.txid

(* fetchNotifications: of the payments of a transaction to a wallet, one is told. *)
AlreadyNotified(notice) ==
  \E n \in notices : /\ n.notice.type = "NewIncomingTx"
                     /\ n.notice.wallet = notice.wallet
                     /\ n.notice.txid = notice.txid

CheckNotified(job) ==
  /\ job.at = "check"
  /\ Become(job, IF AlreadyNotified(job.notice) THEN {} ELSE {[job EXCEPT !.at = "list"]})
  /\ UNCHANGED <<notices, active, subs, lost, faults>>

(* _updateAddressesWithBalance: the list is read, and written with the address.
   An error of either is passed over. *)
ReadList(job) ==
  /\ job.at = "list"
  /\ LET list == active[job.notice.wallet]
     IN Become(job, {IF job.notice.address \in list THEN [job EXCEPT !.at = "store"]
                     ELSE [job EXCEPT !.at = "activate", !.list = list]})
  /\ UNCHANGED <<notices, active, subs, lost, faults>>

Activate(job) ==
  /\ job.at = "activate"
  /\ active' = [active EXCEPT ![job.notice.wallet] = job.list \cup {job.notice.address}]
  /\ Become(job, {[job EXCEPT !.at = "store", !.list = {}]})
  /\ UNCHANGED <<notices, subs, lost, faults>>

(* getTxidsInBlock *)
FetchTxids(job) ==
  /\ job.at = "txids"
  /\ Become(job, {[job EXCEPT !.at = "subs"]})
  /\ UNCHANGED <<notices, active, subs, lost, faults>>

(* fetchActiveTxConfirmationSubs; keyBy keeps one subscription per transaction. *)
ActiveSubs(txid) == {s \in Subscription : s[2] = txid /\ subs[s] = TRUE}

FetchSubs(job) ==
  /\ job.at = "subs"
  /\ LET triggered == {t \in job.txids : ActiveSubs(t) # {}}
     IN \E copayer \in [triggered -> Copayers] :
          /\ \A t \in triggered : <<copayer[t], t>> \in ActiveSubs(t)
          /\ Become(job, {JobOf("inactive", job.event,
                                [job.notice EXCEPT !.txid = t, !.copayer = copayer[t]])
                          : t \in triggered})
  /\ UNCHANGED <<notices, active, subs, lost, faults>>

(* Mutant of Deactivate: all subscriptions to the transaction. *)
DeactivateAll(job) ==
  /\ job.at = "inactive"
  /\ subs' = [s \in Subscription |->
                IF s[2] = job.notice.txid /\ subs[s] = TRUE THEN FALSE ELSE subs[s]]
  /\ Become(job, {[job EXCEPT !.at = "store"]})
  /\ UNCHANGED <<notices, active, lost, faults>>

(* storeTxConfirmationSub, with isActive false; the record is written whole, and
   made again if it was removed. *)
Deactivate(job) ==
  /\ job.at = "inactive"
  /\ subs' = [subs EXCEPT ![<<job.notice.copayer, job.notice.txid>>] = FALSE]
  /\ Become(job, {[job EXCEPT !.at = "store"]})
  /\ UNCHANGED <<notices, active, lost, faults>>

(* storeNotification; the message to the broker follows. *)
StoreNotice(job) ==
  /\ job.at = "store"
  /\ notices' = notices \cup {[notice |-> job.notice, event |-> job.event]}
  /\ Become(job, {})
  /\ UNCHANGED <<active, subs, lost, faults>>

Fault(kind) ==
  /\ kind \in Faults
  /\ faults < MaxFaults
  /\ faults' = faults + 1

(* An operation fails: the list of the wallet is left as it is, any other step
   ends the job. *)
Fail(job) ==
  /\ Fault(IF job.at = "txids" THEN "explorer" ELSE "database")
  /\ IF job.at \in {"list", "activate"}
     THEN Become(job, {[job EXCEPT !.at = "store", !.list = {}]}) /\ UNCHANGED lost
     ELSE Become(job, {}) /\ lost' = lost \cup {job.event}
  /\ UNCHANGED <<notices, active, subs>>

Handle(job) ==
  \/ CheckNotified(job) \/ ReadList(job) \/ Activate(job)
  \/ FetchTxids(job) \/ FetchSubs(job) \/ Deactivate(job)
  \/ StoreNotice(job) \/ Fail(job)

(* What a crash of the process takes with it. *)
LoseJobs ==
  /\ Fault("crash")
  /\ jobs' = {}
  /\ lost' = lost \cup {job.event : job \in jobs}
  /\ UNCHANGED <<notices, active, subs>>

(* txConfirmationSubscribe and txConfirmationUnsubscribe *)
Subscribe(s) ==
  /\ subs[s] # TRUE
  /\ subs' = [subs EXCEPT ![s] = TRUE]
  /\ UNCHANGED <<notices, active, jobs, lost, faults>>

Unsubscribe(s) ==
  /\ subs[s] # None
  /\ subs' = [subs EXCEPT ![s] = None]
  /\ UNCHANGED <<notices, active, jobs, lost, faults>>

-----------------------------------------------------------------------------
(* What the collection tells. *)

PaymentTold(wallet, txid) ==
  \E n \in notices : /\ n.notice.type = "NewIncomingTx"
                     /\ n.notice.wallet = wallet /\ n.notice.txid = txid

SubscriberTold(s) ==
  \E n \in notices : /\ n.notice.type = "TxConfirmation"
                     /\ <<n.notice.copayer, n.notice.txid>> = s
=============================================================================
