----------------------------- MODULE TxProposal -----------------------------
(***************************************************************************)
(* The transaction proposal of lib/model/txproposal.js: the value every    *)
(* handler reads from the database, changes in memory and writes back      *)
(* whole.  Operators only; Proposals.tla gives them concurrency.           *)
(*                                                                         *)
(* Abstracted: amounts, fees, scripts and signatures.  A transaction is    *)
(* known by the proposal and the inputs it was built from and by the       *)
(* copayers whose signatures it carries (the hash of a multisig P2SH       *)
(* transaction covers its scriptSigs, so each set of signers has its own   *)
(* txid).                                                                  *)
(***************************************************************************)
EXTENDS Naturals, Sequences, FiniteSets

CONSTANTS Copayers,     \* the copayers of the wallet (n is their number)
          M,            \* walletM: signatures required
          Ids,          \* proposal ids
          Utxos,        \* what inputs spend: UTXOs, or eth/try addresses
          AccountCoin,  \* is the wallet's coin eth or try?
          NoTx          \* an undefined txid

ASSUME TxProposalAssumption ==
  /\ IsFiniteSet(Copayers)
  /\ M \in 1..Cardinality(Copayers)
  /\ AccountCoin \in BOOLEAN

Statuses == {"temporary", "pending", "accepted", "rejected", "broadcasted"}

Action == [copayer : Copayers, type : {"accept", "reject"}]

Tx == [id : Ids, inputs : SUBSET Utxos, signers : SUBSET Copayers]

Txp == [id : Ids, creator : Copayers, inputs : SUBSET Utxos,
        status : Statuses, actions : Seq(Action), txid : Tx \cup {NoTx}]

Create(id, creator, inputs) ==
  [id |-> id, creator |-> creator, inputs |-> inputs,
   status |-> "temporary", actions |-> <<>>, txid |-> NoTx]

-----------------------------------------------------------------------------
RequiredSignatures == M

RequiredRejections ==
  LET blocking == Cardinality(Copayers) - M + 1
  IN  IF M < blocking THEN M ELSE blocking

Votes(txp, type) == {i \in 1..Len(txp.actions) : txp.actions[i].type = type}

Voted(txp, copayer) == \E i \in 1..Len(txp.actions) : txp.actions[i].copayer = copayer

Approvers(txp) == {txp.actions[i].copayer : i \in Votes(txp, "accept")}

IsTemporary(txp) == txp.status = "temporary"

(* An accepted proposal is still pending: it can be signed and removed. *)
IsPending(txp) == txp.status \notin {"temporary", "broadcasted", "rejected"}

(* Mutant of IsAccepted: a vote too late. *)
IsAcceptedLate(txp) == Cardinality(Votes(txp, "accept")) > RequiredSignatures

IsAccepted(txp) == Cardinality(Votes(txp, "accept")) >= RequiredSignatures

IsRejected(txp) == Cardinality(Votes(txp, "reject")) >= RequiredRejections

UpdateStatus(txp) ==
  IF txp.status # "pending" THEN txp
  ELSE IF IsRejected(txp) THEN [txp EXCEPT !.status = "rejected"]
  ELSE IF IsAccepted(txp) THEN [txp EXCEPT !.status = "accepted"]
  ELSE txp

AddAction(txp, copayer, type) ==
  UpdateStatus([txp EXCEPT !.actions = Append(@, [copayer |-> copayer, type |-> type])])

-----------------------------------------------------------------------------
(* getRawTx: the built transaction with every signature there is; for eth and
   try the transaction of the first who accepted, signed by him alone. *)
RawTx(txp) ==
  [id |-> txp.id, inputs |-> txp.inputs,
   signers |-> IF AccountCoin
               THEN {txp.actions[i].copayer : i \in
                       {k \in Votes(txp, "accept") : \A j \in Votes(txp, "accept") : k <= j}}
               ELSE Approvers(txp)]

(* The inputs of a transaction that has all its signatures take no other:
   sign() then fails with BAD_SIGNATURES.  eth and try verify nothing. *)
TakesSignature(txp) ==
  AccountCoin \/ Cardinality(Votes(txp, "accept")) < RequiredSignatures

Sign(txp, copayer) ==
  LET voted == AddAction(txp, copayer, "accept")
  IN  IF voted.status = "accepted" /\ ~AccountCoin
      THEN [voted EXCEPT !.txid = RawTx(voted)]
      ELSE voted

Reject(txp, copayer) == AddAction(txp, copayer, "reject")

SetBroadcasted(txp) == [txp EXCEPT !.status = "broadcasted"]

-----------------------------------------------------------------------------
(* getRemainingDeleteLockTime = 0 before the ten minutes are over: the creator
   may delete what nobody else has approved. *)
DeletableAtOnce(txp, copayer) ==
  /\ txp.creator = copayer
  /\ LET approvals == Cardinality(Votes(txp, "accept"))
     IN  approvals = 0 \/ (approvals = 1 /\ Approvers(txp) = {copayer})

-----------------------------------------------------------------------------
(* What a record says about itself: its status is the one its votes call for
   (_updateStatus looks at rejections first), and nobody voted twice. *)
StatusMatchesVotes(txp) ==
  LET accepts == Cardinality(Votes(txp, "accept"))
      rejects == Cardinality(Votes(txp, "reject"))
  IN  /\ txp.status = "temporary" => accepts = 0 /\ rejects = 0
      /\ txp.status = "pending" =>
           accepts < RequiredSignatures /\ rejects < RequiredRejections
      /\ txp.status \in {"accepted", "broadcasted"} =>
           accepts >= RequiredSignatures /\ rejects < RequiredRejections
      /\ txp.status = "rejected" => rejects >= RequiredRejections

VotedOnce(txp) ==
  \A i, j \in 1..Len(txp.actions) :
    txp.actions[i].copayer = txp.actions[j].copayer => i = j
=============================================================================
