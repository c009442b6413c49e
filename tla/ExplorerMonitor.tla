-------------------------- MODULE ExplorerMonitor --------------------------
(***************************************************************************)
(* blockchainmonitor.js: the events of the explorer's socket start the     *)
(* handlers of PaymentNotices, in any order and any number of times.       *)
(***************************************************************************)
EXTENDS PaymentNotices, Sequences

CONSTANTS Pays,       \* the addresses a transaction pays
          Blocks,     \* the transactions of a block, for each that may come
          MaxEvents   \* bound: the events of a behaviour

ASSUME ExplorerMonitorAssumption ==
  /\ Pays \in [Txids -> SUBSET Addresses]
  /\ Blocks \subseteq SUBSET Txids
  /\ MaxEvents \in Nat /\ 1..MaxEvents \subseteq Events

VARIABLE events \* history: what happened, in order

eventVars == <<noticeVars, events>>

Event == [kind : {"tx", "block", "leave"}, txids : SUBSET Txids,
          asked : SUBSET Subscription]

EventsTypeOK == NoticesTypeOK /\ events \in Seq(Event) /\ Len(events) <= MaxEvents

EventsInit == NoticesInit({}) /\ events = <<>>

Happen(kind, txids, asked) ==
  /\ Len(events) < MaxEvents
  /\ events' = Append(events, [kind |-> kind, txids |-> txids, asked |-> asked])

(* 'tx': the same transaction may come again. *)
HandleIncomingTx(txid) ==
  /\ Happen("tx", {txid}, {})
  /\ jobs' = jobs \cup PaymentJobs(Len(events) + 1, Pays[txid], txid)
  /\ UNCHANGED <<notices, active, subs, lost, faults>>

(* 'block' *)
HandleNewBlock(txids) ==
  /\ Happen("block", txids, {s \in Subscription : subs[s] = TRUE})
  /\ jobs' = jobs \cup {BlockJob(Len(events) + 1),
                        ConfirmationJob("txids", Len(events) + 1, txids)}
  /\ UNCHANGED <<notices, active, subs, lost, faults>>

EventsNext ==
  \/ \E txid \in Txids : HandleIncomingTx(txid)
  \/ \E txids \in Blocks : HandleNewBlock(txids)
  \/ \E job \in jobs : Handle(job) /\ UNCHANGED events
  \/ \E s \in Subscription :
       \/ Subscribe(s) /\ UNCHANGED events
       \/ Unsubscribe(s) /\ Happen("leave", {}, {s})
  \/ jobs # {} /\ LoseJobs /\ UNCHANGED events

EventsSpec == EventsInit /\ [][EventsNext]_eventVars

-----------------------------------------------------------------------------
(* Properties *)

NoJobs == jobs = {}
Handled(kind) == {e \in 1..Len(events) \ lost : events[e].kind = kind}

(* Every wallet that a transaction pays is told of it, however often the explorer
   sends it and whatever fails for another wallet or another time. *)
PaymentsTold ==
  NoJobs => \A e \in Handled("tx") : \A txid \in events[e].txids :
    \A x \in Pays[txid] \ Change : PaymentTold(WalletOf[x], txid)

Interrupted(txid) == \E e \in lost : txid \in events[e].txids

Left(s, since) ==
  \E e \in since..Len(events) : events[e].kind = "leave" /\ s \in events[e].asked

(* A subscription is used up only by telling its copayer, and of the copayers who
   wait for a transaction one is told when its block comes. *)
ConfirmationsTold ==
  NoJobs =>
    /\ \A s \in Subscription :
         subs[s] = FALSE => SubscriberTold(s) \/ Interrupted(s[2])
    /\ \A e \in Handled("block") : \A s \in events[e].asked :
         s[2] \in events[e].txids =>
           \/ Interrupted(s[2])
           \/ \E t \in Subscription : t[2] = s[2] /\ (SubscriberTold(t) \/ Left(t, e))

(* Every copayer who waits for a transaction is told when its block comes. *)
EverySubscriberTold ==
  NoJobs => \A e \in Handled("block") : \A s \in events[e].asked :
    s[2] \in events[e].txids => SubscriberTold(s) \/ subs[s] = None

(* A wallet is told of a payment once. *)
NotifiedOnce ==
  \A m, n \in notices :
    /\ m.notice.type = "NewIncomingTx" /\ n.notice.type = "NewIncomingTx"
    /\ m.notice.wallet = n.notice.wallet /\ m.notice.txid = n.notice.txid
    => m = n

(* An address stays in the list of those with a balance. *)
AddressStaysListed == [][\A w \in Wallets : active[w] \subseteq active'[w]]_active
=============================================================================
