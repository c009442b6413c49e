------------------------------ MODULE Proposals ------------------------------
(***************************************************************************)
(* The life of the spending proposals of one wallet: the handlers of       *)
(* lib/server.js that create, publish, sign, reject, remove, broadcast and *)
(* list them, run concurrently by the bws processes against one database,  *)
(* one blockchain explorer and the blockchain monitor.                     *)
(*                                                                         *)
(* A task is one request being served.  Between two asynchronous calls a   *)
(* handler runs alone, so a step is: one answer of the database or the     *)
(* explorer, and everything the callback does with it.  create, publish    *)
(* and remove run under the wallet lock; the others do not take it.        *)
(* storeTx replaces the whole record by the copy the handler has in memory.*)
(***************************************************************************)
EXTENDS TxProposal, WalletLock

CONSTANTS Ops,          \* the requests that copayers make in this instance
          Apart,        \* bound: pairs of requests that are not in flight at once
          Faults        \* the faults that may happen, of FaultKinds

FaultKinds == {"expiry",    \* a handler holds the lock for five minutes
               "crash",     \* a bws process dies
               "explorer",  \* the explorer fails or is behind the chain
               "monitor",   \* the monitor writes what it saw
               "outsider"}  \* a client broadcasts by itself

Locking == {"create", "publish", "remove", "removeOld"}
Voting == {"sign", "reject"}
Requests == Locking \cup Voting \cup {"broadcast", "list"}

ASSUME ProposalsAssumption ==
  /\ Ops \subseteq Requests
  /\ Apart \subseteq Requests \X Requests
  /\ Faults \subseteq FaultKinds

VARIABLES docs,     \* docs[id]: the records with this id, in natural order
          job,      \* job[t]: the request task t serves and how far it is
          chain,    \* the transactions the network has accepted
          monitor,  \* the transactions the monitor has seen and is handling
          signed    \* the signatures copayers made: <<copayer, id, inputs>>

vars == <<docs, job, chain, monitor, signed, lockVars>>

(* "remove" is a removal in the first ten minutes of the proposal's life and
   "removeOld" a later one. *)
Idle == [op |-> "none", who |-> None, id |-> None, at |-> "idle",
         txp |-> None, utxos |-> {}, list |-> {}]

Points == {"start", "utxos", "pending", "check", "send", "confirm", "store", "delete"}

Listed == [txp : Txp, inChain : BOOLEAN]

Job == [op : Requests, who : Copayers, id : Ids, at : Points,
        txp : Txp \cup {None}, utxos : SUBSET Utxos, list : SUBSET Listed]

Watch == [tx : Tx, at : {"seen", "timer"}, txp : {None}]
           \cup [tx : Tx, at : {"store"}, txp : Txp]

TypeOK ==
  /\ docs \in [Ids -> Seq(Txp)]
  /\ job \in [Tasks -> Job \cup {Idle}]
  /\ chain \subseteq Tx
  /\ monitor \subseteq Watch
  /\ signed \subseteq Copayers \X Ids \X (SUBSET Utxos)
  /\ LockTypeOK

Init ==
  /\ docs = [id \in Ids |-> <<>>]
  /\ job = [t \in Tasks |-> Idle]
  /\ chain = {}
  /\ monitor = {}
  /\ signed = {}
  /\ LockInit

-----------------------------------------------------------------------------
(* fetchTx is findOne, storeTx an update with upsert: both know the first
   record with the id only. *)
Found(id) == docs[id] # <<>>
Fetch(id) == docs[id][1]

StoreTx(txp) ==
  docs' = [docs EXCEPT ![txp.id] = IF @ = <<>> THEN <<txp>> ELSE [@ EXCEPT ![1] = txp]]

AllDocs == UNION {{docs[id][i] : i \in 1..Len(docs[id])} : id \in Ids}

InputsOf(S) == UNION {x.inputs : x \in S}

(* runLocked lets a task go on when it has the token, or had it and lost it. *)
HasTurn(t) == t \notin waiting

Unlock(t) ==
  IF job[t].op \in Locking THEN Release(t) \/ ReleaseLate(t) ELSE UNCHANGED lockVars

(* The handler calls cb: the request is over, and so is the lock. *)
Answer(t) ==
  /\ job' = [job EXCEPT ![t] = Idle]
  /\ Unlock(t)

Continue(t, next) ==
  /\ job' = [job EXCEPT ![t] = next]
  /\ UNCHANGED lockVars

(* The handler has txp ready in memory and calls storeTx. *)
GoStore(t, txp) == Continue(t, [job[t] EXCEPT !.txp = txp, !.at = "store"])

AtStart(t, ops) == job[t].op \in ops /\ job[t].at = "start" /\ HasTurn(t)

-----------------------------------------------------------------------------
Arrive(t, op, who, id) ==
  /\ job[t] = Idle
  /\ op \in Ops
  /\ \A u \in Tasks : <<op, job[u].op>> \notin Apart
  /\ job' = [job EXCEPT ![t] =
               [Idle EXCEPT !.op = op, !.who = who, !.id = id,
                            !.at = IF op = "list" THEN "pending" ELSE "start"]]
  /\ IF op \in Locking THEN Request(t) ELSE UNCHANGED lockVars
  /\ UNCHANGED <<docs, chain, monitor, signed>>

(* WALLET_BUSY: the lock was not given within the waiting time. *)
Busy(t) ==
  /\ GiveUp(t)
  /\ job' = [job EXCEPT ![t] = Idle]
  /\ UNCHANGED <<docs, chain, monitor, signed>>

LockExpires(t) ==
  /\ "expiry" \in Faults
  /\ Expire(t)
  /\ UNCHANGED <<docs, job, chain, monitor, signed>>

(* The process dies and its requests with it; the lock server drops its
   connections. *)
Crash(t) ==
  /\ "crash" \in Faults
  /\ job[t] # Idle
  /\ job' = [job EXCEPT ![t] = Idle]
  /\ IF job[t].op \in Locking
     THEN GiveUp(t) \/ Release(t) \/ ReleaseLate(t)
     ELSE UNCHANGED lockVars
  /\ UNCHANGED <<docs, chain, monitor, signed>>

-----------------------------------------------------------------------------
(* createTx: an id that exists already is answered with what is stored;
   otherwise the client names the inputs or _selectTxInputs looks for them. *)
CreateTx(t) ==
  /\ AtStart(t, {"create"})
  /\ \/ /\ Found(job[t].id)
        /\ Answer(t)
     \/ /\ ~Found(job[t].id)
        /\ \/ \E inputs \in SUBSET Utxos \ {{}} :
                GoStore(t, Create(job[t].id, job[t].who, inputs))
           \/ Continue(t, [job[t] EXCEPT !.at = "utxos"])
  /\ UNCHANGED <<docs, chain, monitor, signed>>

(* Mutant of MayPublish: without the check of isTemporary. *)
MayPublishAgain(id) == Found(id)

MayPublish(id) == Found(id) /\ IsTemporary(Fetch(id))

(* publishTx: only a temporary proposal is published; eth and try do not look
   at the inputs. *)
PublishTx(t) ==
  /\ AtStart(t, {"publish"})
  /\ \/ ~MayPublish(job[t].id) /\ Answer(t)
     \/ /\ MayPublish(job[t].id)
        /\ IF AccountCoin
           THEN GoStore(t, [Fetch(job[t].id) EXCEPT !.status = "pending"])
           ELSE Continue(t, [job[t] EXCEPT !.txp = Fetch(job[t].id), !.at = "utxos"])
  /\ UNCHANGED <<docs, chain, monitor, signed>>

(* Mutant of MaySign: without COPAYER_VOTED. *)
MaySignTwice(id, copayer) ==
  Found(id) /\ IsPending(Fetch(id)) /\ TakesSignature(Fetch(id))

MaySign(id, copayer) ==
  /\ Found(id)
  /\ ~Voted(Fetch(id), copayer) /\ IsPending(Fetch(id)) /\ TakesSignature(Fetch(id))

(* signTx reads, votes in memory, and will store.  An invalid signature is
   answered without any effect and left out. *)
SignTx(t) ==
  /\ AtStart(t, {"sign"})
  /\ \/ /\ MaySign(job[t].id, job[t].who)
        /\ GoStore(t, Sign(Fetch(job[t].id), job[t].who))
        /\ signed' = signed \cup {<<job[t].who, job[t].id, Fetch(job[t].id).inputs>>}
     \/ /\ ~MaySign(job[t].id, job[t].who)
        /\ Answer(t)
        /\ UNCHANGED signed
  /\ UNCHANGED <<docs, chain, monitor>>

RejectTx(t) ==
  /\ AtStart(t, {"reject"})
  /\ LET txp == Fetch(job[t].id)
         may == Found(job[t].id) /\ ~Voted(txp, job[t].who) /\ txp.status = "pending"
     IN  \/ may /\ GoStore(t, Reject(txp, job[t].who))
         \/ ~may /\ Answer(t)
  /\ UNCHANGED <<docs, chain, monitor, signed>>

MayRemove(id, copayer, old) ==
  Found(id) /\ IsPending(Fetch(id)) /\ (old \/ DeletableAtOnce(Fetch(id), copayer))

RemovePendingTx(t) ==
  /\ AtStart(t, {"remove", "removeOld"})
  /\ LET may == MayRemove(job[t].id, job[t].who, job[t].op = "removeOld")
     IN  \/ may /\ Continue(t, [job[t] EXCEPT !.at = "delete"])
         \/ ~may /\ Answer(t)
  /\ UNCHANGED <<docs, chain, monitor, signed>>

RemoveTx(t) ==
  /\ job[t].at = "delete"
  /\ docs' = [docs EXCEPT ![job[t].id] = IF @ = <<>> THEN @ ELSE Tail(@)]
  /\ Answer(t)
  /\ UNCHANGED <<chain, monitor, signed>>

(* storeTx of create, publish, sign, reject and _processBroadcast. *)
Store(t) ==
  /\ job[t].at = "store"
  /\ StoreTx(job[t].txp)
  /\ Answer(t)
  /\ UNCHANGED <<chain, monitor, signed>>
-----------------------------------------------------------------------------
(* _getUtxosForCurrentWallet, first read: the explorer's unspent outputs.  An
   explorer that lags does not count the last transactions yet.  None at all
   ends a publish or a selection with an error. *)
FetchUtxos(t) ==
  /\ job[t].at = "utxos"
  /\ \E counted \in IF "explorer" \in Faults THEN SUBSET chain ELSE {chain} :
       LET unspent == IF AccountCoin THEN Utxos ELSE Utxos \ InputsOf(counted)
       IN  \/ /\ unspent # {}
              /\ Continue(t, [job[t] EXCEPT !.utxos = unspent, !.at = "pending"])
           \/ /\ unspent = {}
              /\ Answer(t)
  /\ UNCHANGED <<docs, chain, monitor, signed>>

(* getPendingTxs, the read: the accepted ones will be looked up in the chain,
   the inputs of the others are locked. *)
FetchPendingTxs(t) ==
  /\ job[t].at = "pending"
  /\ LET txps == {txp \in AllDocs : IsPending(txp)}
         accepted == {txp \in txps : txp.status = "accepted"}
     IN  Continue(t, [job[t] EXCEPT
           !.utxos = @ \ InputsOf(txps \ accepted),
           !.list = {[txp |-> txp, inChain |-> FALSE] : txp \in accepted},
           !.at = "check"])
  /\ UNCHANGED <<docs, chain, monitor, signed>>

(* Mutant of InBlockchain: any answer is taken for a yes. *)
AssumeInBlockchain(txp) == TRUE

(* _checkTxInBlockchain: no without a txid. *)
InBlockchain(txp) == txp.txid \in chain

(* ... one answer of _checkTxInBlockchain: a proposal without a txid, or whose
   transaction is not there, stays accepted and keeps its inputs locked. *)
CheckPendingTx(t, entry) ==
  /\ job[t].at = "check"
  /\ entry \in job[t].list /\ ~entry.inChain
  /\ LET rest == job[t].list \ {entry}
     IN  \/ /\ InBlockchain(entry.txp)
            /\ Continue(t, [job[t] EXCEPT !.list =
                 rest \cup {[txp |-> SetBroadcasted(entry.txp), inChain |-> TRUE]}])
         \/ /\ ~InBlockchain(entry.txp) \/ "explorer" \in Faults
            /\ Continue(t, [job[t] EXCEPT !.list = rest,
                                          !.utxos = @ \ entry.txp.inputs])
  /\ UNCHANGED <<docs, chain, monitor, signed>>

(* ... the explorer fails: the request is answered with the error, the other
   lookups run on without anybody waiting for them. *)
CheckFails(t, entry) ==
  /\ "explorer" \in Faults
  /\ job[t].at = "check"
  /\ entry \in job[t].list /\ ~entry.inChain /\ entry.txp.txid # NoTx
  /\ job' = [job EXCEPT ![t] = [job[t] EXCEPT !.list = @ \ {entry}, !.op = "list"]]
  /\ Unlock(t)
  /\ UNCHANGED <<docs, chain, monitor, signed>>

(* ... _processBroadcast of a proposal found in the chain. *)
StorePendingTx(t, entry) ==
  /\ job[t].at = "check"
  /\ entry \in job[t].list /\ entry.inChain
  /\ StoreTx(entry.txp)
  /\ Continue(t, [job[t] EXCEPT !.list = @ \ {entry}])
  /\ UNCHANGED <<chain, monitor, signed>>

(* ... all lookups done: the list is the answer of getPendingTxs itself. *)
AnswerList(t) ==
  /\ job[t].at = "check" /\ job[t].list = {} /\ job[t].op = "list"
  /\ Answer(t)
  /\ UNCHANGED <<docs, chain, monitor, signed>>

(* Mutant of Available: the explorer is trusted. *)
AvailableAtExplorer(t) == IF AccountCoin THEN Utxos ELSE job[t].utxos

(* Last read of _getUtxosForCurrentWallet: the inputs of the proposals
   broadcasted lately (24 hours, 100 records: more than there are here) do not
   count either.  eth and try do not look.  Then the callers decide. *)
Available(t) ==
  IF AccountCoin THEN Utxos
  ELSE job[t].utxos \ InputsOf({txp \in AllDocs : txp.status = "broadcasted"})

(* _selectTxInputs takes some of what is available, not every subset of which
   has the right sum. *)
SelectTxInputs(t) ==
  /\ job[t].at = "check" /\ job[t].list = {} /\ job[t].op = "create"
  /\ \/ \E inputs \in SUBSET Available(t) \ {{}} :
          GoStore(t, Create(job[t].id, job[t].who, inputs))
     \/ Available(t) = {} /\ Answer(t)
  /\ UNCHANGED <<docs, chain, monitor, signed>>

Unspent(t) == job[t].txp.inputs \subseteq Available(t)

(* publishTx verifies that its inputs are still available. *)
VerifyInputs(t) ==
  /\ job[t].at = "check" /\ job[t].list = {} /\ job[t].op = "publish"
  /\ \/ Unspent(t) /\ GoStore(t, [job[t].txp EXCEPT !.status = "pending"])
     \/ ~Unspent(t) /\ Answer(t)
  /\ UNCHANGED <<docs, chain, monitor, signed>>

-----------------------------------------------------------------------------
(* The network takes a transaction whose inputs nothing else has spent. *)
Valid(tx) == AccountCoin \/ \A other \in chain \ {tx} : tx.inputs \cap other.inputs = {}

(* A transaction reaches the chain, and the monitor sees it. *)
Accepts(tx) ==
  /\ Valid(tx)
  /\ chain' = chain \cup {tx}
  /\ monitor' = IF "monitor" \in Faults /\ tx \notin chain
                THEN monitor \cup {[tx |-> tx, at |-> "seen", txp |-> None]}
                ELSE monitor

(* Mutant of MayBroadcast: pending is enough. *)
MayBroadcastPending(id) == Found(id) /\ IsPending(Fetch(id))

MayBroadcast(id) == Found(id) /\ Fetch(id).status = "accepted"

BroadcastTx(t) ==
  /\ AtStart(t, {"broadcast"})
  /\ \/ /\ MayBroadcast(job[t].id)
        /\ Continue(t, [job[t] EXCEPT !.txp = Fetch(job[t].id), !.at = "send"])
     \/ ~MayBroadcast(job[t].id) /\ Answer(t)
  /\ UNCHANGED <<docs, chain, monitor, signed>>

(* _broadcastRawTx.  The explorer relays and says so; or it reports an error,
   with or without having relayed. *)
SendRawTx(t) ==
  /\ job[t].at = "send"
  /\ LET txp == job[t].txp
         raw == RawTx(txp)
         sent == IF AccountCoin THEN [txp EXCEPT !.txid = raw] ELSE txp
         unsent == IF AccountCoin THEN [txp EXCEPT !.txid = NoTx] ELSE txp
     IN  \/ Accepts(raw) /\ GoStore(t, SetBroadcasted(sent))
         \/ /\ ~Valid(raw) \/ raw \in chain \/ "explorer" \in Faults
            /\ Continue(t, [job[t] EXCEPT !.txp = unsent, !.at = "confirm"])
            /\ UNCHANGED <<chain, monitor>>
         \/ /\ "explorer" \in Faults
            /\ Accepts(raw)
            /\ Continue(t, [job[t] EXCEPT !.txp = unsent, !.at = "confirm"])
  /\ UNCHANGED <<docs, signed>>

(* After an error: is it in the chain already? *)
CheckTxInBlockchain(t) ==
  /\ job[t].at = "confirm"
  /\ \/ InBlockchain(job[t].txp) /\ GoStore(t, SetBroadcasted(job[t].txp))
     \/ /\ ~InBlockchain(job[t].txp) \/ "explorer" \in Faults
        /\ Answer(t)
  /\ UNCHANGED <<docs, chain, monitor, signed>>

(* Whoever has an accepted proposal can send its transaction without bws. *)
BroadcastOutside(id) ==
  /\ "outsider" \in Faults
  /\ Found(id) /\ Fetch(id).status = "accepted"
  /\ RawTx(Fetch(id)) \notin chain
  /\ Accepts(RawTx(Fetch(id)))
  /\ UNCHANGED <<docs, job, signed, lockVars>>

-----------------------------------------------------------------------------
(* _handleThirdPartyBroadcasts of the monitors.  fetchTxByHash finds the first
   record with the txid. *)
WithTxid(tx) == {i \in 1..Len(docs[tx.id]) : docs[tx.id][i].txid = tx}

ByHash(tx) == docs[tx.id][CHOOSE i \in WithTxid(tx) : \A j \in WithTxid(tx) : i <= j]

Handled(event) == WithTxid(event.tx) # {} /\ ByHash(event.tx).status = "accepted"

(* First look: nothing to do, or wait for twenty seconds. *)
DetectBroadcast(event) ==
  /\ event \in monitor /\ event.at = "seen"
  /\ monitor' = (monitor \ {event}) \cup
                  (IF Handled(event) THEN {[event EXCEPT !.at = "timer"]} ELSE {})
  /\ UNCHANGED <<docs, job, chain, signed, lockVars>>

(* Second look. *)
ProcessBroadcast(event) ==
  /\ event \in monitor /\ event.at = "timer"
  /\ monitor' = (monitor \ {event}) \cup
                  (IF Handled(event)
                   THEN {[event EXCEPT !.at = "store", !.txp = SetBroadcasted(ByHash(event.tx))]}
                   ELSE {})
  /\ UNCHANGED <<docs, job, chain, signed, lockVars>>

(* storeTx(self.walletId, txp): a monitor has no walletId, so the update finds
   no record and inserts one more. *)
StoreBroadcast(event) ==
  /\ event \in monitor /\ event.at = "store"
  /\ docs' = [docs EXCEPT ![event.tx.id] = Append(@, event.txp)]
  /\ monitor' = monitor \ {event}
  /\ UNCHANGED <<job, chain, signed, lockVars>>

-----------------------------------------------------------------------------
(* The steps of the handler that serves task t. *)
Serve(t) ==
  \/ CreateTx(t) \/ PublishTx(t) \/ SignTx(t) \/ RejectTx(t)
  \/ RemovePendingTx(t) \/ RemoveTx(t) \/ Store(t)
  \/ FetchUtxos(t) \/ FetchPendingTxs(t)
  \/ \E entry \in job[t].list :
       CheckPendingTx(t, entry) \/ CheckFails(t, entry) \/ StorePendingTx(t, entry)
  \/ AnswerList(t) \/ SelectTxInputs(t) \/ VerifyInputs(t)
  \/ BroadcastTx(t) \/ SendRawTx(t) \/ CheckTxInBlockchain(t)

Next ==
  \/ \E t \in Tasks :
       \/ \E op \in Ops, who \in Copayers, id \in Ids : Arrive(t, op, who, id)
       \/ Serve(t) \/ Busy(t) \/ LockExpires(t) \/ Crash(t)
  \/ \E id \in Ids : BroadcastOutside(id)
  \/ \E event \in monitor :
       DetectBroadcast(event) \/ ProcessBroadcast(event) \/ StoreBroadcast(event)

Spec == Init /\ [][Next]_vars

(* A handler that has what it waits for goes on; an armed wait timer fires. *)
Fairness == \A t \in Tasks : WF_vars(Serve(t)) /\ WF_vars(Busy(t))
FairSpec == Spec /\ Fairness

-----------------------------------------------------------------------------
(* A status is what the votes of the same record say, however the writes of
   concurrent handlers overwrite each other: "tx proposals should not be
   finally accepted until quorum is reached". *)
RecordsConsistent == \A txp \in AllDocs : StatusMatchesVotes(txp)

(* No copayer is counted twice in a record, although a repeated signTx may read
   before its first try stores (COPAYER_VOTED). *)
OneVoteEach == \A txp \in AllDocs : VotedOnce(txp)

Signers(id, inputs) == {c \in Copayers : <<c, id, inputs>> \in signed}

(* M different copayers signed every transaction that reached the chain: no
   lost, stale or revived record lets one through with fewer. *)
QuorumBehindChain ==
  \A tx \in chain : Cardinality(Signers(tx.id, tx.inputs)) >= M

(* What a record calls broadcasted is in the chain: no error path of
   broadcastTx or of the monitor marks a transaction that was not relayed. *)
BroadcastedIsInChain ==
  \A txp \in AllDocs : txp.status = "broadcasted" => txp.txid \in chain

(* Publishing locks the inputs (comment of publishTx): no two published
   proposals spend the same one, be they pending, accepted or broadcasted. *)
Published(txp) == txp.status \in {"pending", "accepted", "broadcasted"}

InputsExclusive ==
  \A p, q \in AllDocs :
    p.id # q.id /\ Published(p) /\ Published(q) => p.inputs \cap q.inputs = {}

(* A record only goes forward; in particular a late write never takes a
   broadcasted or rejected proposal back to one that is voted on. *)
Forward == {<<"temporary", "pending">>, <<"pending", "accepted">>,
            <<"pending", "rejected">>, <<"accepted", "broadcasted">>}

StatusForward ==
  [][\A id \in Ids : Found(id) /\ docs'[id] # <<>> =>
       LET old == Fetch(id).status
           new == docs'[id][1].status
       IN  old = new \/ <<old, new>> \in Forward]_vars

(* A stored vote stays stored: no write is made from a copy read before it. *)
VotesKept ==
  [][\A id \in Ids : Found(id) /\ docs'[id] # <<>> =>
       LET old == Fetch(id).actions
           new == docs'[id][1].actions
       IN  /\ Len(old) <= Len(new)
           /\ \A i \in 1..Len(old) : new[i] = old[i]]_vars

(* What a test of removePendingTx asks for: "should not allow creator copayer to
   remove a TX signed by other copayer, in less than 24hrs".  In its first ten
   minutes no removal takes away a proposal that another copayer has approved.
   The check is made on the proposal read before, and signTx, which takes no
   lock, may store an approval between the check and removeTx: the run
   removal_race shows the code break it. *)
ApprovedNotRemovedEarly ==
  [][\A t \in Tasks :
       /\ job[t].op = "remove" /\ job[t].at = "delete"
       /\ Found(job[t].id) /\ Len(docs'[job[t].id]) < Len(docs[job[t].id])
       => Approvers(Fetch(job[t].id)) \subseteq {job[t].who}]_vars

(* The first record of an id is the proposal as the copayers see it. *)
PhaseOf(id) ==
  IF ~Found(id) THEN "none"
  ELSE LET status == Fetch(id).status
       IN  CASE status = "temporary" -> "draft"
             [] status = "pending" -> "open"
             [] status = "accepted" -> "approved"
             [] status = "rejected" -> "declined"
             [] status = "broadcasted" -> "spent"

VotersOf(id, type) ==
  IF Found(id) THEN {Fetch(id).actions[i].copayer : i \in Votes(Fetch(id), type)} ELSE {}

Promise == INSTANCE Agreement WITH
  phase   <- [id \in Ids |-> PhaseOf(id)],
  accepts <- [id \in Ids |-> VotersOf(id, "accept")],
  rejects <- [id \in Ids |-> VotersOf(id, "reject")],
  inputs  <- [id \in Ids |-> IF Found(id) THEN Fetch(id).inputs ELSE {}]

(* The handlers keep the wallet's promise: every write to a record is a step
   of Agreement (opening only with free inputs, one new vote at a time by a
   copayer that has not voted, a verdict exactly at the quorum) or changes
   nothing a copayer sees. *)
ImplementsAgreement == Promise!AgreementSpec

(* Every request is answered, with WALLET_BUSY at worst. *)
EveryRequestAnswered == \A t \in Tasks : (job[t] # Idle) ~> (job[t] = Idle)
=============================================================================
