------------------------------ MODULE Agreement ------------------------------
(***************************************************************************)
(* What a wallet promises its copayers about spending, with no database,   *)
(* requests or locks: a proposal is drafted, opened to votes when nothing  *)
(* else claims its inputs, approved by M copayers or declined when M can   *)
(* no longer be reached (or M have declined), and spent after approval.    *)
(* Proposals.tla implements it as long as votes do not overlap in time.    *)
(***************************************************************************)
EXTENDS Naturals, FiniteSets

CONSTANTS Copayers, M, Ids, Utxos

VARIABLES phase,      \* phase[id]: where the proposal is
          accepts,    \* accepts[id]: who voted for it
          rejects,    \* rejects[id]: who voted against it
          inputs      \* inputs[id]: what it would spend

agreementVars == <<phase, accepts, rejects, inputs>>

Phases == {"none", "draft", "open", "approved", "declined", "spent"}

AgreementTypeOK ==
  /\ phase \in [Ids -> Phases]
  /\ accepts \in [Ids -> SUBSET Copayers]
  /\ rejects \in [Ids -> SUBSET Copayers]
  /\ inputs \in [Ids -> SUBSET Utxos]

AgreementInit ==
  /\ phase = [id \in Ids |-> "none"]
  /\ accepts = [id \in Ids |-> {}]
  /\ rejects = [id \in Ids |-> {}]
  /\ inputs = [id \in Ids |-> {}]

Claimed(id) == phase[id] \in {"open", "approved", "spent"}

Draft(id, wanted) ==
  /\ phase[id] = "none"
  /\ phase' = [phase EXCEPT ![id] = "draft"]
  /\ inputs' = [inputs EXCEPT ![id] = wanted]
  /\ UNCHANGED <<accepts, rejects>>

Open(id) ==
  /\ phase[id] = "draft"
  /\ \A other \in Ids \ {id} : Claimed(other) => inputs[other] \cap inputs[id] = {}
  /\ phase' = [phase EXCEPT ![id] = "open"]
  /\ UNCHANGED <<accepts, rejects, inputs>>

Accept(id, c) ==
  /\ phase[id] = "open"
  /\ c \notin accepts[id] \cup rejects[id]
  /\ accepts' = [accepts EXCEPT ![id] = @ \cup {c}]
  /\ phase' = [phase EXCEPT ![id] =
                 IF Cardinality(accepts'[id]) >= M THEN "approved" ELSE @]
  /\ UNCHANGED <<rejects, inputs>>

Decline(id, c) ==
  /\ phase[id] = "open"
  /\ c \notin accepts[id] \cup rejects[id]
  /\ rejects' = [rejects EXCEPT ![id] = @ \cup {c}]
  /\ phase' = [phase EXCEPT ![id] =
                 IF \/ Cardinality(rejects'[id]) >= M
                    \/ Cardinality(Copayers \ rejects'[id]) < M
                 THEN "declined" ELSE @]
  /\ UNCHANGED <<accepts, inputs>>

Spend(id) ==
  /\ phase[id] = "approved"
  /\ phase' = [phase EXCEPT ![id] = "spent"]
  /\ UNCHANGED <<accepts, rejects, inputs>>

Withdraw(id) ==
  /\ phase[id] \in {"open", "approved"}
  /\ phase' = [phase EXCEPT ![id] = "none"]
  /\ accepts' = [accepts EXCEPT ![id] = {}]
  /\ rejects' = [rejects EXCEPT ![id] = {}]
  /\ inputs' = [inputs EXCEPT ![id] = {}]

AgreementNext ==
  \E id \in Ids :
    \/ \E wanted \in SUBSET Utxos : Draft(id, wanted)
    \/ Open(id) \/ Spend(id) \/ Withdraw(id)
    \/ \E c \in Copayers : Accept(id, c) \/ Decline(id, c)

AgreementSpec == AgreementInit /\ [][AgreementNext]_agreementVars

-----------------------------------------------------------------------------
(* No two proposals claim the same input, in any order of opening, approving,
   spending and withdrawing (publishTx: "inputs are locked"). *)
ClaimedApart ==
  \A p, q \in Ids :
    p # q /\ Claimed(p) /\ Claimed(q) => inputs[p] \cap inputs[q] = {}

(* A proposal is approved or spent exactly when M copayers are for it: none
   is declined that had its quorum, none spent that had not. *)
ApprovedByQuorum ==
  \A id \in Ids : phase[id] \in {"approved", "spent"} <=> Cardinality(accepts[id]) >= M

(* Nobody is counted on both sides (COPAYER_VOTED). *)
OneVoice == \A id \in Ids : accepts[id] \cap rejects[id] = {}

(* What the promise comes to. *)
AgreementSafe == ClaimedApart /\ ApprovedByQuorum /\ OneVoice
=============================================================================
