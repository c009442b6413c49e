--------------------------- MODULE ProposalsProofs ---------------------------
(***************************************************************************)
(* Proofs about TxProposal and Proposals, for any wallet, any number of    *)
(* requests in flight and any number of proposals.                         *)
(*                                                                         *)
(* First, what holds through every interleaving of the handlers, the       *)
(* monitor and the faults. storeTx replaces whole records by copies that   *)
(* may be old, so nothing relates a record to an earlier one. What holds   *)
(* is a property of each record alone, of the stored ones and of every     *)
(* copy in the memory of a handler: writing any of them back can not break *)
(* it (Inv).                                                               *)
(*                                                                         *)
(* Second, what holds when votes come one at a time (Orderly): every       *)
(* handler can rely on what it has read (OrderInv), the inputs of          *)
(* published proposals are apart, and the handlers implement Agreement.    *)
(*                                                                         *)
(* Third, what Agreement guarantees by itself, and the handlers with it.   *)
(***************************************************************************)
EXTENDS Proposals, SequenceTheorems, FiniteSetTheorems, WellFoundedInduction, TLAPS

-----------------------------------------------------------------------------
(* First, what the operations of lib/model/txproposal.js do to a record, for
   any number of copayers, any m and any number of votes. *)

(* A record as the operations leave it.  The last conjunct: the txid of an
   accepted proposal is that of the transaction its votes sign. *)
Sound(txp) ==
  /\ txp \in Txp
  /\ StatusMatchesVotes(txp)
  /\ VotedOnce(txp)
  /\ ~AccountCoin /\ txp.status = "accepted" => txp.txid = RawTx(txp)

Added(txp, copayer, type) ==
  [txp EXCEPT !.actions = Append(@, [copayer |-> copayer, type |-> type])]

-----------------------------------------------------------------------------
(* There is a quorum and there is a number of rejections that prevents it. *)
LEMMA Thresholds ==
  /\ RequiredSignatures \in Nat /\ RequiredSignatures >= 1
  /\ RequiredRejections \in Nat /\ RequiredRejections >= 1
<1>1. Cardinality(Copayers) \in Nat
  BY TxProposalAssumption, FS_CardinalityType
<1> QED
  BY <1>1, TxProposalAssumption DEF RequiredSignatures, RequiredRejections

(* The votes of a kind can be counted. *)
LEMMA VotesFinite ==
  ASSUME NEW txp \in Txp, NEW type
  PROVE  IsFiniteSet(Votes(txp, type)) /\ Cardinality(Votes(txp, type)) \in Nat
<1>1. Len(txp.actions) \in Nat
  BY DEF Txp
<1>2. IsFiniteSet(1..Len(txp.actions))
  BY <1>1, FS_Interval
<1>3. Votes(txp, type) \in SUBSET (1..Len(txp.actions))
  BY DEF Votes
<1>4. IsFiniteSet(Votes(txp, type))
  BY <1>2, <1>3, FS_Subset
<1> QED
  BY <1>4, FS_CardinalityType

(* create: a draft without votes. *)
LEMMA CreateSound ==
  ASSUME NEW id \in Ids, NEW creator \in Copayers, NEW inputs \in SUBSET Utxos
  PROVE  /\ Sound(Create(id, creator, inputs))
         /\ Create(id, creator, inputs).status = "temporary"
         /\ Create(id, creator, inputs).id = id
         /\ Approvers(Create(id, creator, inputs)) = {}
<1> DEFINE txp == Create(id, creator, inputs)
<1>1. txp \in Txp /\ txp.status = "temporary" /\ txp.id = id /\ txp.actions = <<>>
  BY DEF Create, Txp, Tx, Statuses
<1> HIDE DEF txp
<1>2. Len(txp.actions) = 0 /\ 1..Len(txp.actions) = {}
  BY <1>1
<1>3. Votes(txp, "accept") = {} /\ Votes(txp, "reject") = {}
  BY <1>2 DEF Votes
<1>4. StatusMatchesVotes(txp)
  BY <1>1, <1>3, FS_EmptySet DEF StatusMatchesVotes
<1>5. VotedOnce(txp)
  BY <1>2 DEF VotedOnce
<1>6. Sound(txp) /\ Approvers(txp) = {}
  BY <1>1, <1>3, <1>4, <1>5 DEF Sound, Approvers
<1> QED
  BY <1>1, <1>6 DEF txp

(* A change of status or txid leaves the votes as they are. *)
LEMMA SameVotes ==
  ASSUME NEW txp, NEW other, other.actions = txp.actions
  PROVE  /\ \A type : Votes(other, type) = Votes(txp, type)
         /\ Approvers(other) = Approvers(txp)
         /\ VotedOnce(txp) => VotedOnce(other)
BY DEF Votes, Approvers, VotedOnce

(* publishTx: a draft has no votes yet, so it is open. *)
LEMMA PublishSound ==
  ASSUME NEW txp, Sound(txp), txp.status = "temporary"
  PROVE  /\ Sound([txp EXCEPT !.status = "pending"])
         /\ [txp EXCEPT !.status = "pending"].id = txp.id
         /\ [txp EXCEPT !.status = "pending"].inputs = txp.inputs
         /\ [txp EXCEPT !.status = "pending"].status = "pending"
         /\ Approvers([txp EXCEPT !.status = "pending"]) = Approvers(txp)
<1> DEFINE open == [txp EXCEPT !.status = "pending"]
<1>1. /\ open \in Txp /\ open.status = "pending" /\ open.actions = txp.actions
      /\ open.id = txp.id /\ open.inputs = txp.inputs
  BY DEF Sound, Txp, Statuses
<1> HIDE DEF open
<1>2. Votes(open, "accept") = Votes(txp, "accept") /\ Votes(open, "reject") = Votes(txp, "reject")
  BY <1>1, SameVotes
<1>3. Cardinality(Votes(txp, "accept")) = 0 /\ Cardinality(Votes(txp, "reject")) = 0
  BY DEF Sound, StatusMatchesVotes
<1>4. StatusMatchesVotes(open)
  BY <1>1, <1>2, <1>3, Thresholds DEF StatusMatchesVotes
<1>5. Sound(open) /\ Approvers(open) = Approvers(txp)
  BY <1>1, <1>4, SameVotes DEF Sound
<1> QED
  BY <1>1, <1>5 DEF open

(* setBroadcasted: what was accepted stays agreed on. *)
LEMMA BroadcastSound ==
  ASSUME NEW txp, Sound(txp), txp.status = "accepted"
  PROVE  /\ Sound(SetBroadcasted(txp))
         /\ SetBroadcasted(txp).id = txp.id
         /\ SetBroadcasted(txp).inputs = txp.inputs
         /\ SetBroadcasted(txp).txid = txp.txid
         /\ SetBroadcasted(txp).status = "broadcasted"
         /\ Approvers(SetBroadcasted(txp)) = Approvers(txp)
<1> DEFINE sent == SetBroadcasted(txp)
<1>1. /\ sent \in Txp /\ sent.status = "broadcasted" /\ sent.actions = txp.actions
      /\ sent.id = txp.id /\ sent.inputs = txp.inputs /\ sent.txid = txp.txid
  BY DEF Sound, SetBroadcasted, Txp, Statuses
<1> HIDE DEF sent
<1>2. Votes(sent, "accept") = Votes(txp, "accept") /\ Votes(sent, "reject") = Votes(txp, "reject")
  BY <1>1, SameVotes
<1>3. StatusMatchesVotes(sent)
  BY <1>1, <1>2 DEF StatusMatchesVotes, Sound
<1>4. Sound(sent) /\ Approvers(sent) = Approvers(txp)
  BY <1>1, <1>3, SameVotes DEF Sound
<1> QED
  BY <1>1, <1>4 DEF sent

(* eth and try: the explorer decides the txid. *)
LEMMA TxidSound ==
  ASSUME NEW txp, Sound(txp), AccountCoin, NEW txid \in Tx \cup {NoTx}
  PROVE  /\ Sound([txp EXCEPT !.txid = txid])
         /\ [txp EXCEPT !.txid = txid].id = txp.id
         /\ [txp EXCEPT !.txid = txid].inputs = txp.inputs
         /\ [txp EXCEPT !.txid = txid].status = txp.status
         /\ [txp EXCEPT !.txid = txid].txid = txid
         /\ Approvers([txp EXCEPT !.txid = txid]) = Approvers(txp)
<1> DEFINE new == [txp EXCEPT !.txid = txid]
<1>1. /\ new \in Txp /\ new.status = txp.status /\ new.actions = txp.actions
      /\ new.id = txp.id /\ new.inputs = txp.inputs /\ new.txid = txid
  BY DEF Sound, Txp
<1> HIDE DEF new
<1>2. Votes(new, "accept") = Votes(txp, "accept") /\ Votes(new, "reject") = Votes(txp, "reject")
  BY <1>1, SameVotes
<1>3. StatusMatchesVotes(new)
  BY <1>1, <1>2 DEF StatusMatchesVotes, Sound
<1>4. Sound(new) /\ Approvers(new) = Approvers(txp)
  BY <1>1, <1>3, SameVotes DEF Sound
<1> QED
  BY <1>1, <1>4 DEF new

-----------------------------------------------------------------------------
(* A vote that is added counts once, for its own side, and disturbs no other. *)
LEMMA AddedVote ==
  ASSUME NEW txp \in Txp, NEW copayer \in Copayers, ~Voted(txp, copayer), VotedOnce(txp),
         NEW type \in {"accept", "reject"}
  PROVE  LET new == Added(txp, copayer, type)
         IN  /\ new \in Txp /\ VotedOnce(new)
             /\ new.id = txp.id /\ new.inputs = txp.inputs
             /\ new.status = txp.status /\ new.txid = txp.txid
             /\ Cardinality(Votes(new, type)) = Cardinality(Votes(txp, type)) + 1
             /\ \A other : other # type => Votes(new, other) = Votes(txp, other)
             /\ Approvers(new) \subseteq
                  Approvers(txp) \cup (IF type = "accept" THEN {copayer} ELSE {})
<1> DEFINE vote == [copayer |-> copayer, type |-> type]
           new == Added(txp, copayer, type)
           n == Len(txp.actions)
<1>1. vote \in Action /\ txp.actions \in Seq(Action) /\ n \in Nat
  BY DEF Action, Txp
<1>2. /\ new.actions = Append(txp.actions, vote)
      /\ new.id = txp.id /\ new.inputs = txp.inputs
      /\ new.status = txp.status /\ new.txid = txp.txid
  BY DEF Added, Txp
<1>3. /\ new.actions \in Seq(Action) /\ Len(new.actions) = n + 1
      /\ \A i \in 1..n : new.actions[i] = txp.actions[i]
      /\ new.actions[n + 1] = vote
  BY <1>1, <1>2, AppendProperties
<1>4. new \in Txp
  BY <1>2, <1>3 DEF Added, Txp
<1>5. vote.copayer = copayer /\ vote.type = type
  OBVIOUS
<1> HIDE DEF new, vote
<1>6. \A i \in 1..(n + 1) : i \in 1..n \/ i = n + 1
  BY <1>1
<1>7. \A i \in 1..n : i \in 1..(n + 1) /\ i # n + 1
  BY <1>1
<1>8. n + 1 \in 1..(n + 1)
  BY <1>1
<1>9. VotedOnce(new)
  <2>1. \A i \in 1..n : new.actions[i].copayer # copayer
    BY <1>3 DEF Voted
  <2>2. ASSUME NEW i \in 1..Len(new.actions), NEW j \in 1..Len(new.actions),
               new.actions[i].copayer = new.actions[j].copayer
        PROVE  i = j
    <3>1. CASE i \in 1..n /\ j \in 1..n
      BY <3>1, <2>2, <1>3 DEF VotedOnce
    <3>2. CASE i = n + 1 \/ j = n + 1
      BY <3>2, <2>1, <2>2, <1>3, <1>5, <1>6
    <3> QED
      BY <3>1, <3>2, <1>3, <1>6
  <2> QED
    BY <2>2 DEF VotedOnce
<1>10. Votes(new, type) = Votes(txp, type) \cup {n + 1}
  BY <1>3, <1>5, <1>6, <1>7, <1>8 DEF Votes
<1>11. n + 1 \notin Votes(txp, type)
  BY <1>7 DEF Votes
<1>12. Cardinality(Votes(new, type)) = Cardinality(Votes(txp, type)) + 1
  BY <1>10, <1>11, VotesFinite, FS_AddElement
<1>13. \A other : other # type => Votes(new, other) = Votes(txp, other)
  BY <1>3, <1>5, <1>6, <1>7 DEF Votes
<1>14. Approvers(new) \subseteq Approvers(txp) \cup (IF type = "accept" THEN {copayer} ELSE {})
  <2>1. ASSUME NEW i \in Votes(new, "accept")
        PROVE  new.actions[i].copayer \in
                 Approvers(txp) \cup (IF type = "accept" THEN {copayer} ELSE {})
    <3>1. i \in 1..(n + 1) /\ new.actions[i].type = "accept"
      BY <2>1, <1>3 DEF Votes
    <3>2. CASE i \in 1..n
      BY <3>1, <3>2, <1>3 DEF Votes, Approvers
    <3>3. CASE i = n + 1
      BY <3>1, <3>3, <1>3, <1>5
    <3> QED
      BY <3>1, <3>2, <3>3, <1>6
  <2> QED
    BY <2>1 DEF Approvers
<1> QED
  BY <1>2, <1>4, <1>9, <1>12, <1>13, <1>14 DEF new

(* addAction is the vote and then the verdict of _updateStatus. *)
LEMMA AddActionIs ==
  ASSUME NEW txp, NEW copayer, NEW type
  PROVE  AddAction(txp, copayer, type) = UpdateStatus(Added(txp, copayer, type))
BY DEF AddAction, Added

(* _updateStatus settles a pending record by the votes it has. *)
LEMMA UpdateStatusSettles ==
  ASSUME NEW txp \in Txp
  PROVE  LET new == UpdateStatus(txp)
         IN  /\ new \in Txp
             /\ new.id = txp.id /\ new.inputs = txp.inputs
             /\ new.actions = txp.actions /\ new.txid = txp.txid
             /\ txp.status # "pending" => new.status = txp.status
             /\ txp.status = "pending" =>
                  new.status = IF IsRejected(txp) THEN "rejected"
                               ELSE IF IsAccepted(txp) THEN "accepted" ELSE "pending"
BY DEF UpdateStatus, Txp, Statuses

(* The transaction of a proposal is signed by approvers of the wallet. *)
LEMMA RawTxType ==
  ASSUME NEW txp \in Txp
  PROVE  RawTx(txp) \in Tx /\ RawTx(txp).id = txp.id /\ RawTx(txp).inputs = txp.inputs
<1>1. \A i \in 1..Len(txp.actions) : txp.actions[i].copayer \in Copayers
  <2>1. txp.actions \in Seq(Action)
    BY DEF Txp
  <2>2. \A i \in 1..Len(txp.actions) : txp.actions[i] \in Action
    BY <2>1, ElementOfSeq
  <2> QED
    BY <2>2 DEF Action
<1> DEFINE first == {k \in Votes(txp, "accept") : \A j \in Votes(txp, "accept") : k <= j}
<1>2. /\ \A i \in Votes(txp, "accept") : txp.actions[i].copayer \in Copayers
      /\ \A i \in first : txp.actions[i].copayer \in Copayers
  BY <1>1 DEF Votes
<1>3. RawTx(txp).signers \in SUBSET Copayers
  <2>1. CASE AccountCoin
    <3>1. RawTx(txp).signers = {txp.actions[i].copayer : i \in first}
      BY <2>1 DEF RawTx
    <3> HIDE DEF first
    <3> QED
      BY <3>1, <1>2
  <2>2. CASE ~AccountCoin
    <3>1. RawTx(txp).signers = Approvers(txp)
      BY <2>2 DEF RawTx
    <3> QED
      BY <3>1, <1>2 DEF Approvers
  <2> QED
    BY <2>1, <2>2
<1>4. /\ RawTx(txp) = [id |-> txp.id, inputs |-> txp.inputs, signers |-> RawTx(txp).signers]
      /\ RawTx(txp).id = txp.id
      /\ RawTx(txp).inputs = txp.inputs
  BY Zenon DEF RawTx
<1> QED
  BY <1>3, <1>4 DEF Tx, Txp

-----------------------------------------------------------------------------
(* sign: the record takes the approval of one who has not voted, and stays
   sound whether or not that decides it. *)
LEMMA SignSound ==
  ASSUME NEW txp, Sound(txp), NEW copayer \in Copayers, ~Voted(txp, copayer),
         IsPending(txp), TakesSignature(txp)
  PROVE  LET new == Sign(txp, copayer)
         IN  /\ Sound(new)
             /\ new.id = txp.id /\ new.inputs = txp.inputs
             /\ new.status \in {"pending", "accepted"}
             /\ Approvers(new) \subseteq Approvers(txp) \cup {copayer}
<1> DEFINE added == Added(txp, copayer, "accept")
           voted == UpdateStatus(added)
           new == Sign(txp, copayer)
<1>1. txp \in Txp /\ VotedOnce(txp) /\ StatusMatchesVotes(txp)
      /\ txp.status \in {"pending", "accepted"}
  BY DEF Sound, IsPending, Txp, Statuses
<1>2. /\ added \in Txp /\ VotedOnce(added)
      /\ added.id = txp.id /\ added.inputs = txp.inputs /\ added.status = txp.status
      /\ Cardinality(Votes(added, "accept")) = Cardinality(Votes(txp, "accept")) + 1
      /\ Votes(added, "reject") = Votes(txp, "reject")
      /\ Approvers(added) \subseteq Approvers(txp) \cup {copayer}
  BY <1>1, AddedVote
<1>3. /\ voted \in Txp
      /\ voted.id = txp.id /\ voted.inputs = txp.inputs /\ voted.actions = added.actions
      /\ added.status # "pending" => voted.status = added.status
      /\ added.status = "pending" =>
           voted.status = IF IsRejected(added) THEN "rejected"
                          ELSE IF IsAccepted(added) THEN "accepted" ELSE "pending"
  BY <1>2, UpdateStatusSettles
<1>4. new = IF voted.status = "accepted" /\ ~AccountCoin
            THEN [voted EXCEPT !.txid = RawTx(voted)] ELSE voted
  BY AddActionIs DEF Sign
<1> HIDE DEF added, voted, new
<1>5. /\ Votes(voted, "accept") = Votes(added, "accept")
      /\ Votes(voted, "reject") = Votes(added, "reject")
      /\ VotedOnce(voted)
      /\ Approvers(voted) = Approvers(added)
  BY <1>2, <1>3, SameVotes
<1>6. StatusMatchesVotes(voted) /\ voted.status \in {"pending", "accepted"}
  <2>1. Cardinality(Votes(txp, "accept")) \in Nat /\ Cardinality(Votes(txp, "reject")) \in Nat
    BY <1>1, VotesFinite
  <2>2. CASE txp.status = "pending"
    <3>1. ~IsRejected(added)
      BY <2>1, <2>2, <1>1, <1>2, Thresholds DEF IsRejected, StatusMatchesVotes
    <3> QED
      BY <2>1, <2>2, <3>1, <1>1, <1>2, <1>3, <1>5, Thresholds DEF IsAccepted, StatusMatchesVotes
  <2>3. CASE txp.status = "accepted"
    BY <2>1, <2>3, <1>1, <1>2, <1>3, <1>5, Thresholds DEF StatusMatchesVotes
  <2> QED
    BY <2>2, <2>3, <1>1
<1>7. CASE voted.status = "accepted" /\ ~AccountCoin
  <2>1. RawTx(voted) \in Tx
    BY <1>3, RawTxType
  <2>2. /\ new \in Txp /\ new.id = voted.id /\ new.inputs = voted.inputs
        /\ new.actions = voted.actions /\ new.status = voted.status
        /\ new.txid = RawTx(voted)
    BY <2>1, <1>3, <1>4, <1>7 DEF Txp
  <2>3. /\ Votes(new, "accept") = Votes(voted, "accept")
        /\ Votes(new, "reject") = Votes(voted, "reject")
        /\ VotedOnce(new) /\ Approvers(new) = Approvers(voted)
    BY <2>2, <1>5, SameVotes
  <2>4. StatusMatchesVotes(new)
    BY <2>2, <2>3, <1>6 DEF StatusMatchesVotes
  <2>5. RawTx(new) = RawTx(voted)
    BY <2>2, <2>3, <1>7 DEF RawTx
  <2>6. Sound(new)
    BY <2>2, <2>3, <2>4, <2>5 DEF Sound
  <2> QED
    BY <2>2, <2>3, <2>6, <1>2, <1>3, <1>5, <1>6 DEF new
<1>8. CASE ~(voted.status = "accepted" /\ ~AccountCoin)
  <2>1. new = voted
    BY <1>4, <1>8
  <2>2. Sound(voted)
    BY <1>3, <1>5, <1>6, <1>8 DEF Sound
  <2> QED
    BY <2>1, <2>2, <1>2, <1>3, <1>5, <1>6 DEF new
<1> QED
  BY <1>7, <1>8

(* reject: likewise. *)
LEMMA RejectSound ==
  ASSUME NEW txp, Sound(txp), NEW copayer \in Copayers, ~Voted(txp, copayer),
         txp.status = "pending"
  PROVE  LET new == Reject(txp, copayer)
         IN  /\ Sound(new)
             /\ new.id = txp.id /\ new.inputs = txp.inputs
             /\ new.status \in {"pending", "rejected"}
             /\ Approvers(new) \subseteq Approvers(txp)
<1> DEFINE added == Added(txp, copayer, "reject")
           new == Reject(txp, copayer)
<1>1. txp \in Txp /\ VotedOnce(txp) /\ StatusMatchesVotes(txp)
  BY DEF Sound
<1>2. /\ added \in Txp /\ VotedOnce(added)
      /\ added.id = txp.id /\ added.inputs = txp.inputs /\ added.status = "pending"
      /\ Cardinality(Votes(added, "reject")) = Cardinality(Votes(txp, "reject")) + 1
      /\ Votes(added, "accept") = Votes(txp, "accept")
      /\ Approvers(added) \subseteq Approvers(txp)
  BY <1>1, AddedVote
<1>3. new = UpdateStatus(added)
  BY AddActionIs DEF Reject
<1> HIDE DEF added
<1>4. /\ UpdateStatus(added) \in Txp
      /\ UpdateStatus(added).id = added.id /\ UpdateStatus(added).inputs = added.inputs
      /\ UpdateStatus(added).actions = added.actions
      /\ UpdateStatus(added).status = IF IsRejected(added) THEN "rejected"
                     ELSE IF IsAccepted(added) THEN "accepted" ELSE "pending"
  BY <1>2, UpdateStatusSettles
<1> HIDE DEF new
<1>5. /\ Votes(new, "accept") = Votes(added, "accept")
      /\ Votes(new, "reject") = Votes(added, "reject")
      /\ VotedOnce(new) /\ Approvers(new) = Approvers(added)
  BY <1>2, <1>3, <1>4, SameVotes
<1>6. Cardinality(Votes(txp, "accept")) \in Nat /\ Cardinality(Votes(txp, "reject")) \in Nat
  BY <1>1, VotesFinite
<1>7. ~IsAccepted(added)
  BY <1>1, <1>2, <1>6, Thresholds DEF IsAccepted, StatusMatchesVotes
<1>8. new.status \in {"pending", "rejected"}
  BY <1>3, <1>4, <1>7
<1>9. StatusMatchesVotes(new)
  BY <1>1, <1>2, <1>3, <1>4, <1>5, <1>6, <1>7, Thresholds DEF IsRejected, StatusMatchesVotes
<1>10. Sound(new)
  BY <1>3, <1>4, <1>5, <1>8, <1>9 DEF Sound
<1> QED
  BY <1>2, <1>3, <1>4, <1>5, <1>8, <1>10 DEF new

(* As many copayers approved as there are approvals. *)
LEMMA ApproversCounted ==
  ASSUME NEW txp, Sound(txp)
  PROVE  /\ Approvers(txp) \in SUBSET Copayers /\ IsFiniteSet(Approvers(txp))
         /\ Cardinality(Approvers(txp)) = Cardinality(Votes(txp, "accept"))
<1> DEFINE f == [i \in Votes(txp, "accept") |-> txp.actions[i].copayer]
<1>1. txp \in Txp /\ txp.actions \in Seq(Action)
  BY DEF Sound, Txp
<1>2. \A i \in 1..Len(txp.actions) : txp.actions[i] \in Action
  BY <1>1, ElementOfSeq
<1>3. Approvers(txp) \in SUBSET Copayers
  BY <1>2 DEF Approvers, Votes, Action
<1>4. \A i, j \in Votes(txp, "accept") :
        txp.actions[i].copayer = txp.actions[j].copayer => i = j
  BY DEF Sound, VotedOnce, Votes
<1>5. f \in Bijection(Votes(txp, "accept"), Approvers(txp))
  BY <1>4 DEF Bijection, Injection, Surjection, IsInjective, Approvers
<1>6. ExistsBijection(Votes(txp, "accept"), Approvers(txp))
  BY <1>5 DEF ExistsBijection
<1> QED
  BY <1>1, <1>3, <1>6, VotesFinite, FS_Bijection

(* An accepted proposal has been approved by m different copayers. *)
LEMMA AcceptedByQuorum ==
  ASSUME NEW txp, Sound(txp), txp.status \in {"accepted", "broadcasted"}
  PROVE  Cardinality(Approvers(txp)) >= M
BY ApproversCounted DEF Sound, StatusMatchesVotes, RequiredSignatures

-----------------------------------------------------------------------------
(* The database, the handlers and the monitor. *)

(* A record, or a copy of one, in the light of the signatures made so far and
   the transactions in the chain. *)
Backed(txp, sigs, txs) ==
  /\ Sound(txp)
  /\ \A c \in Approvers(txp) : <<c, txp.id, txp.inputs>> \in sigs
  /\ txp.status = "broadcasted" => txp.txid \in txs

DocsBacked(d, sigs, txs) ==
  \A id \in Ids : \A i \in 1..Len(d[id]) : d[id][i].id = id /\ Backed(d[id][i], sigs, txs)

(* What a handler has in memory, by where it is. *)
CopyBacked(j, sigs, txs) ==
  /\ j.at = "store" => Backed(j.txp, sigs, txs)
  /\ j.at \in {"send", "confirm"} => Backed(j.txp, sigs, txs) /\ j.txp.status = "accepted"
  /\ j.op = "publish" /\ j.at \in {"utxos", "pending", "check"} =>
       Backed(j.txp, sigs, txs) /\ j.txp.status = "temporary"
  /\ \A entry \in j.list : /\ Backed(entry.txp, sigs, txs)
                           /\ ~entry.inChain => entry.txp.status = "accepted"

JobsBacked(jobs, sigs, txs) == \A t \in Tasks : CopyBacked(jobs[t], sigs, txs)

WatchBacked(events, sigs, txs) ==
  \A event \in events :
    /\ event.tx \in txs
    /\ event.at = "store" => Backed(event.txp, sigs, txs) /\ event.txp.id = event.tx.id

ChainBacked(sigs, txs) ==
  \A tx \in txs :
    \E S \in SUBSET Copayers : /\ IsFiniteSet(S) /\ Cardinality(S) >= M
                               /\ \A c \in S : <<c, tx.id, tx.inputs>> \in sigs

Inv ==
  /\ TypeOK
  /\ DocsBacked(docs, signed, chain)
  /\ JobsBacked(job, signed, chain)
  /\ WatchBacked(monitor, signed, chain)
  /\ ChainBacked(signed, chain)

-----------------------------------------------------------------------------
(* Signatures and the chain only grow, and that breaks nothing. *)
LEMMA BackedGrows ==
  ASSUME NEW sigs, NEW txs, NEW sigs2, NEW txs2, sigs \subseteq sigs2, txs \subseteq txs2
  PROVE  /\ \A txp : Backed(txp, sigs, txs) => Backed(txp, sigs2, txs2)
         /\ \A d : DocsBacked(d, sigs, txs) => DocsBacked(d, sigs2, txs2)
         /\ \A j : CopyBacked(j, sigs, txs) => CopyBacked(j, sigs2, txs2)
         /\ \A jobs : JobsBacked(jobs, sigs, txs) => JobsBacked(jobs, sigs2, txs2)
         /\ \A events : WatchBacked(events, sigs, txs) => WatchBacked(events, sigs2, txs2)
<1>1. \A txp : Backed(txp, sigs, txs) => Backed(txp, sigs2, txs2)
  BY DEF Backed
<1>2. \A d : DocsBacked(d, sigs, txs) => DocsBacked(d, sigs2, txs2)
  BY <1>1 DEF DocsBacked
<1>3. \A j : CopyBacked(j, sigs, txs) => CopyBacked(j, sigs2, txs2)
  BY <1>1 DEF CopyBacked
<1>4. \A jobs : JobsBacked(jobs, sigs, txs) => JobsBacked(jobs, sigs2, txs2)
  BY <1>3 DEF JobsBacked
<1>5. \A events : WatchBacked(events, sigs, txs) => WatchBacked(events, sigs2, txs2)
  BY <1>1 DEF WatchBacked
<1> QED
  BY <1>1, <1>2, <1>3, <1>4, <1>5

(* The lock's part of the type invariant is its own business. *)
LEMMA LockTyped ==
  ASSUME LockTypeOK, NEW t \in Tasks,
         Request(t) \/ GiveUp(t) \/ Release(t) \/ ReleaseLate(t) \/ Expire(t)
           \/ UNCHANGED lockVars
  PROVE  LockTypeOK'
<1>1. CASE Request(t)
  BY <1>1 DEF LockTypeOK, Request
<1>2. CASE GiveUp(t)
  BY <1>2 DEF LockTypeOK, GiveUp
<1>3. CASE Release(t)
  BY <1>3 DEF LockTypeOK, Release, HandOver
<1>4. CASE ReleaseLate(t)
  BY <1>4 DEF LockTypeOK, ReleaseLate
<1>5. CASE Expire(t)
  BY <1>5 DEF LockTypeOK, Expire, HandOver
<1>6. CASE UNCHANGED lockVars
  BY <1>6 DEF LockTypeOK, lockVars
<1> QED
  BY <1>1, <1>2, <1>3, <1>4, <1>5, <1>6

(* Serving is what a task that has a job does. *)
LEMMA JobOf ==
  ASSUME TypeOK, NEW t \in Tasks, job[t].at \in Points
  PROVE  job[t] \in Job
<1>1. job[t] \in Job \cup {Idle}
  BY DEF TypeOK
<1>2. Idle.at \notin Points
  BY DEF Idle, Points
<1> QED
  BY <1>1, <1>2

LEMMA IdleBacked ==
  ASSUME NEW sigs, NEW txs
  PROVE  CopyBacked(Idle, sigs, txs)
BY DEF CopyBacked, Idle

(* One handler's memory changes. *)
LEMMA JobChanges ==
  ASSUME NEW jobs \in [Tasks -> Job \cup {Idle}], NEW t \in Tasks, NEW new \in Job \cup {Idle},
         NEW sigs, NEW txs, JobsBacked(jobs, sigs, txs), CopyBacked(new, sigs, txs)
  PROVE  /\ [jobs EXCEPT ![t] = new] \in [Tasks -> Job \cup {Idle}]
         /\ JobsBacked([jobs EXCEPT ![t] = new], sigs, txs)
BY DEF JobsBacked

(* A handler that goes on to storeTx with a record it may store. *)
LEMMA StoresCopy ==
  ASSUME NEW j \in Job, NEW txp, NEW sigs, NEW txs,
         CopyBacked(j, sigs, txs), Backed(txp, sigs, txs)
  PROVE  LET new == [j EXCEPT !.txp = txp, !.at = "store"]
         IN  new \in Job /\ CopyBacked(new, sigs, txs)
<1> DEFINE new == [j EXCEPT !.txp = txp, !.at = "store"]
<1>1. txp \in Txp
  BY DEF Backed, Sound
<1>2. new \in Job /\ new.at = "store" /\ new.txp = txp /\ new.list = j.list
  BY <1>1 DEF Job, Points
<1> HIDE DEF new
<1>3. CopyBacked(new, sigs, txs)
  BY <1>2 DEF CopyBacked
<1> QED
  BY <1>2, <1>3 DEF new

(* What the database answers. *)
LEMMA FetchBacked ==
  ASSUME Inv, NEW id \in Ids, Found(id)
  PROVE  Fetch(id).id = id /\ Fetch(id) \in Txp /\ Backed(Fetch(id), signed, chain)
<1>1. docs[id] \in Seq(Txp) /\ docs[id] # <<>>
  BY DEF Inv, TypeOK, Found
<1>2. 1 \in 1..Len(docs[id])
  BY <1>1
<1> QED
  BY <1>2 DEF Inv, DocsBacked, Fetch, Backed, Sound

LEMMA AllDocsBacked ==
  ASSUME Inv, NEW txp \in AllDocs
  PROVE  txp \in Txp /\ Backed(txp, signed, chain)
BY DEF Inv, AllDocs, DocsBacked, Backed, Sound

-----------------------------------------------------------------------------
(* storeTx: a record may always be replaced by another one that stands. *)
LEMMA StoreChanges ==
  ASSUME NEW d \in [Ids -> Seq(Txp)], NEW txp, NEW sigs, NEW txs,
         DocsBacked(d, sigs, txs), Backed(txp, sigs, txs)
  PROVE  LET new == [d EXCEPT ![txp.id] = IF @ = <<>> THEN <<txp>> ELSE [@ EXCEPT ![1] = txp]]
         IN  new \in [Ids -> Seq(Txp)] /\ DocsBacked(new, sigs, txs)
<1> DEFINE list == IF d[txp.id] = <<>> THEN <<txp>> ELSE [d[txp.id] EXCEPT ![1] = txp]
           new == [d EXCEPT ![txp.id] = list]
<1>1. txp \in Txp /\ txp.id \in Ids
  BY DEF Backed, Sound, Txp
<1>2. /\ list \in Seq(Txp)
      /\ \A i \in 1..Len(list) : list[i] = txp \/ (i \in 1..Len(d[txp.id]) /\ list[i] = d[txp.id][i])
  <2>1. CASE d[txp.id] = <<>>
    BY <1>1, <2>1
  <2>2. CASE d[txp.id] # <<>>
    <3>1. d[txp.id] \in Seq(Txp) /\ 1 \in 1..Len(d[txp.id])
      BY <1>1, <2>2
    <3>2. list = [d[txp.id] EXCEPT ![1] = txp]
      BY <2>2
    <3> QED
      BY <1>1, <3>1, <3>2, ExceptSeq
  <2> QED
    BY <2>1, <2>2
<1> HIDE DEF list
<1>3. new \in [Ids -> Seq(Txp)]
  BY <1>1, <1>2
<1>4. DocsBacked(new, sigs, txs)
  BY <1>1, <1>2 DEF DocsBacked
<1> QED
  BY <1>3, <1>4 DEF list

(* The monitor's insert. *)
LEMMA InsertChanges ==
  ASSUME NEW d \in [Ids -> Seq(Txp)], NEW id \in Ids, NEW txp, NEW sigs, NEW txs,
         DocsBacked(d, sigs, txs), Backed(txp, sigs, txs), txp.id = id
  PROVE  LET new == [d EXCEPT ![id] = Append(@, txp)]
         IN  new \in [Ids -> Seq(Txp)] /\ DocsBacked(new, sigs, txs)
<1>1. txp \in Txp /\ d[id] \in Seq(Txp) /\ Len(d[id]) \in Nat
  BY DEF Backed, Sound
<1>2. /\ Append(d[id], txp) \in Seq(Txp)
      /\ \A i \in 1..Len(Append(d[id], txp)) :
           Append(d[id], txp)[i] = txp
             \/ (i \in 1..Len(d[id]) /\ Append(d[id], txp)[i] = d[id][i])
  BY <1>1, AppendProperties
<1> QED
  BY <1>2 DEF DocsBacked

(* removeTx. *)
LEMMA RemoveChanges ==
  ASSUME NEW d \in [Ids -> Seq(Txp)], NEW id \in Ids, NEW sigs, NEW txs,
         DocsBacked(d, sigs, txs)
  PROVE  LET new == [d EXCEPT ![id] = IF @ = <<>> THEN @ ELSE Tail(@)]
         IN  new \in [Ids -> Seq(Txp)] /\ DocsBacked(new, sigs, txs)
<1> DEFINE list == IF d[id] = <<>> THEN d[id] ELSE Tail(d[id])
<1>1. /\ list \in Seq(Txp)
      /\ \A i \in 1..Len(list) : \E j \in 1..Len(d[id]) : list[i] = d[id][j]
  <2>1. CASE d[id] = <<>>
    BY <2>1
  <2>2. CASE d[id] # <<>>
    <3>1. /\ list = Tail(d[id]) /\ list \in Seq(Txp)
          /\ Len(list) = Len(d[id]) - 1
          /\ \A i \in 1..Len(list) : list[i] = d[id][i + 1]
      BY <2>2, HeadTailProperties
    <3>2. Len(d[id]) \in Nat
      OBVIOUS
    <3> QED
      BY <3>1, <3>2
  <2> QED
    BY <2>1, <2>2
<1> HIDE DEF list
<1>2. LET new == [d EXCEPT ![id] = list]
      IN  new \in [Ids -> Seq(Txp)] /\ DocsBacked(new, sigs, txs)
  BY <1>1 DEF DocsBacked
<1> QED
  BY <1>2 DEF list

-----------------------------------------------------------------------------
(* Steps that leave the database, the chain and the monitor alone. *)
LEMMA Continues ==
  ASSUME Inv, NEW t \in Tasks, NEW new \in Job \cup {Idle}, CopyBacked(new, signed, chain),
         job' = [job EXCEPT ![t] = new], LockTypeOK',
         UNCHANGED <<docs, chain, monitor, signed>>
  PROVE  Inv'
<1>1. /\ job' \in [Tasks -> Job \cup {Idle}]
      /\ JobsBacked(job', signed, chain)
  BY JobChanges DEF Inv, TypeOK
<1> QED
  BY <1>1 DEF Inv, TypeOK

(* runLocked calls back and the request is over. *)
LEMMA AnswerTyped ==
  ASSUME Inv, NEW t \in Tasks, Answer(t)
  PROVE  /\ LockTypeOK'
         /\ job' \in [Tasks -> Job \cup {Idle}]
         /\ JobsBacked(job', signed, chain)
<1>1. LockTypeOK'
  BY LockTyped DEF Answer, Unlock, Inv, TypeOK
<1>2. job' = [job EXCEPT ![t] = Idle]
  BY DEF Answer
<1>3. /\ job' \in [Tasks -> Job \cup {Idle}]
      /\ JobsBacked(job', signed, chain)
  BY <1>2, JobChanges, IdleBacked DEF Inv, TypeOK
<1> QED
  BY <1>1, <1>3

LEMMA Answers ==
  ASSUME Inv, NEW t \in Tasks, Answer(t), UNCHANGED <<docs, chain, monitor, signed>>
  PROVE  Inv'
<1>1. /\ LockTypeOK'
      /\ job' \in [Tasks -> Job \cup {Idle}]
      /\ JobsBacked(job', signed, chain)
  BY AnswerTyped
<1> QED
  BY <1>1 DEF Inv, TypeOK

(* A handler has a record ready that it may store. *)
LEMMA GoesStoring ==
  ASSUME Inv, NEW t \in Tasks, job[t].at \in Points, NEW txp, Backed(txp, signed, chain),
         GoStore(t, txp), UNCHANGED <<docs, chain, monitor, signed>>
  PROVE  Inv'
<1> DEFINE new == [job[t] EXCEPT !.txp = txp, !.at = "store"]
<1>1. job[t] \in Job /\ CopyBacked(job[t], signed, chain)
  BY JobOf DEF Inv, JobsBacked
<1>2. new \in Job /\ CopyBacked(new, signed, chain)
  BY <1>1, StoresCopy
<1>3. job' = [job EXCEPT ![t] = new] /\ UNCHANGED lockVars
  BY DEF GoStore, Continue
<1>4. LockTypeOK'
  BY <1>3, LockTyped DEF Inv, TypeOK
<1> QED
  BY <1>2, <1>3, <1>4, Continues

(* A handler goes on to another call with the same kind of memory. *)
LEMMA GoesOn ==
  ASSUME Inv, NEW t \in Tasks, NEW new \in Job, CopyBacked(new, signed, chain),
         Continue(t, new), UNCHANGED <<docs, chain, monitor, signed>>
  PROVE  Inv'
<1>1. job' = [job EXCEPT ![t] = new] /\ UNCHANGED lockVars
  BY DEF Continue
<1>2. LockTypeOK'
  BY <1>1, LockTyped DEF Inv, TypeOK
<1> QED
  BY <1>1, <1>2, Continues

-----------------------------------------------------------------------------
(* The requests and their end. *)
LEMMA ArriveKeeps ==
  ASSUME Inv, NEW t \in Tasks, NEW op \in Ops, NEW who \in Copayers, NEW id \in Ids,
         Arrive(t, op, who, id)
  PROVE  Inv'
<1> DEFINE new == [Idle EXCEPT !.op = op, !.who = who, !.id = id,
                               !.at = IF op = "list" THEN "pending" ELSE "start"]
<1>1. job' = [job EXCEPT ![t] = new] /\ UNCHANGED <<docs, chain, monitor, signed>>
  BY DEF Arrive
<1>2. op \in Requests
  BY ProposalsAssumption
<1>3. /\ new \in Job /\ new.op = op /\ new.list = {}
      /\ new.at = IF op = "list" THEN "pending" ELSE "start"
  BY <1>2 DEF Job, Idle, Points
<1> HIDE DEF new
<1>4. CopyBacked(new, signed, chain)
  BY <1>3 DEF CopyBacked
<1>5. LockTypeOK'
  <2>1. Request(t) \/ UNCHANGED lockVars
    BY DEF Arrive
  <2> QED
    BY <2>1, LockTyped DEF Inv, TypeOK
<1> QED
  BY <1>1, <1>3, <1>4, <1>5, Continues

LEMMA BusyKeeps ==
  ASSUME Inv, NEW t \in Tasks, Busy(t)
  PROVE  Inv'
<1>1. GiveUp(t) /\ job' = [job EXCEPT ![t] = Idle] /\ UNCHANGED <<docs, chain, monitor, signed>>
  BY DEF Busy
<1>2. LockTypeOK'
  BY <1>1, LockTyped DEF Inv, TypeOK
<1> QED
  BY <1>1, <1>2, Continues, IdleBacked

LEMMA CrashKeeps ==
  ASSUME Inv, NEW t \in Tasks, Crash(t)
  PROVE  Inv'
<1>1. job' = [job EXCEPT ![t] = Idle] /\ UNCHANGED <<docs, chain, monitor, signed>>
  BY DEF Crash
<1>2. LockTypeOK'
  <2>1. GiveUp(t) \/ Release(t) \/ ReleaseLate(t) \/ UNCHANGED lockVars
    BY DEF Crash
  <2> QED
    BY <2>1, LockTyped DEF Inv, TypeOK
<1> QED
  BY <1>1, <1>2, Continues, IdleBacked

LEMMA LockExpiresKeeps ==
  ASSUME Inv, NEW t \in Tasks, LockExpires(t)
  PROVE  Inv'
<1>1. Expire(t) /\ UNCHANGED <<docs, job, chain, monitor, signed>>
  BY DEF LockExpires
<1>2. LockTypeOK'
  BY <1>1, LockTyped DEF Inv, TypeOK
<1> QED
  BY <1>1, <1>2 DEF Inv, TypeOK

-----------------------------------------------------------------------------
(* createTx: what is stored is a draft. *)
LEMMA CreateTxKeeps ==
  ASSUME Inv, NEW t \in Tasks, CreateTx(t)
  PROVE  Inv'
<1>1. job[t].at = "start" /\ job[t].op = "create"
      /\ UNCHANGED <<docs, chain, monitor, signed>>
  BY DEF CreateTx, AtStart
<1>2. job[t] \in Job /\ CopyBacked(job[t], signed, chain)
  BY <1>1, JobOf DEF Inv, JobsBacked, Points
<1>3. CASE Answer(t)
  BY <1>1, <1>3, Answers
<1>4. CASE \E inputs \in SUBSET Utxos \ {{}} : GoStore(t, Create(job[t].id, job[t].who, inputs))
  <2>1. PICK inputs \in SUBSET Utxos : GoStore(t, Create(job[t].id, job[t].who, inputs))
    BY <1>4
  <2>2. Backed(Create(job[t].id, job[t].who, inputs), signed, chain)
    <3>1. job[t].id \in Ids /\ job[t].who \in Copayers
      BY <1>2 DEF Job
    <3> QED
      BY <3>1, CreateSound DEF Backed
  <2> QED
    BY <1>1, <2>1, <2>2, GoesStoring DEF Points
<1>5. CASE Continue(t, [job[t] EXCEPT !.at = "utxos"])
  <2> DEFINE new == [job[t] EXCEPT !.at = "utxos"]
  <2>1. new \in Job /\ new.at = "utxos" /\ new.op = "create" /\ new.list = job[t].list
    BY <1>1, <1>2 DEF Job, Points
  <2>2. Continue(t, new)
    BY <1>5
  <2> HIDE DEF new
  <2>3. CopyBacked(new, signed, chain)
    BY <1>2, <2>1 DEF CopyBacked
  <2> QED
    BY <1>1, <2>1, <2>2, <2>3, GoesOn
<1> QED
  BY <1>3, <1>4, <1>5 DEF CreateTx

(* publishTx: only a draft is opened. *)
LEMMA PublishTxKeeps ==
  ASSUME Inv, NEW t \in Tasks, PublishTx(t)
  PROVE  Inv'
<1>1. job[t].at = "start" /\ job[t].op = "publish"
      /\ UNCHANGED <<docs, chain, monitor, signed>>
  BY DEF PublishTx, AtStart
<1>2. job[t] \in Job /\ CopyBacked(job[t], signed, chain)
  BY <1>1, JobOf DEF Inv, JobsBacked, Points
<1>3. CASE Answer(t)
  BY <1>1, <1>3, Answers
<1>4. CASE ~Answer(t)
  <2> DEFINE txp == Fetch(job[t].id)
  <2>1. MayPublish(job[t].id)
    BY <1>4 DEF PublishTx
  <2>2. txp \in Txp /\ Backed(txp, signed, chain) /\ txp.status = "temporary"
    <3>1. job[t].id \in Ids
      BY <1>2 DEF Job
    <3> QED
      BY <2>1, <3>1, FetchBacked DEF MayPublish, IsTemporary
  <2>3. CASE GoStore(t, [txp EXCEPT !.status = "pending"])
    <3>1. Backed([txp EXCEPT !.status = "pending"], signed, chain)
      BY <2>2, PublishSound DEF Backed
    <3> QED
      BY <1>1, <2>3, <3>1, GoesStoring DEF Points
  <2>4. CASE Continue(t, [job[t] EXCEPT !.txp = txp, !.at = "utxos"])
    <3> DEFINE new == [job[t] EXCEPT !.txp = txp, !.at = "utxos"]
    <3> HIDE DEF txp
    <3>1. new \in Job /\ new.at = "utxos" /\ new.txp = txp /\ new.list = job[t].list
      BY <1>1, <1>2, <2>2 DEF Job, Points
    <3>2. Continue(t, new)
      BY <2>4
    <3> HIDE DEF new
    <3>3. CopyBacked(new, signed, chain)
      BY <1>2, <2>2, <3>1 DEF CopyBacked
    <3> QED
      BY <1>1, <3>1, <3>2, <3>3, GoesOn
  <2> QED
    BY <1>4, <2>3, <2>4 DEF PublishTx
<1> QED
  BY <1>3, <1>4

(* signTx: the approval is made together with the signature it counts. *)
LEMMA SignTxKeeps ==
  ASSUME Inv, NEW t \in Tasks, SignTx(t)
  PROVE  Inv'
<1>1. job[t].at = "start" /\ UNCHANGED <<docs, chain, monitor>>
  BY DEF SignTx, AtStart
<1>2. job[t] \in Job /\ CopyBacked(job[t], signed, chain)
  BY <1>1, JobOf DEF Inv, JobsBacked, Points
<1>3. job[t].id \in Ids /\ job[t].who \in Copayers
  BY <1>2 DEF Job
<1>4. CASE ~MaySign(job[t].id, job[t].who)
  <2>1. Answer(t) /\ UNCHANGED signed
    BY <1>4 DEF SignTx
  <2> QED
    BY <1>1, <2>1, Answers
<1>5. CASE MaySign(job[t].id, job[t].who)
  <2> DEFINE txp == Fetch(job[t].id)
             signature == <<job[t].who, job[t].id, txp.inputs>>
             voted == Sign(txp, job[t].who)
             new == [job[t] EXCEPT !.txp = voted, !.at = "store"]
  <2>1. /\ GoStore(t, voted)
        /\ signed' = signed \cup {signature}
    BY <1>5 DEF SignTx
  <2>2. txp.id = job[t].id /\ txp \in Txp /\ Backed(txp, signed, chain)
    BY <1>3, <1>5, FetchBacked DEF MaySign
  <2>3. signature \in Copayers \X Ids \X (SUBSET Utxos)
    BY <1>3, <2>2 DEF Txp
  <2>4. signature = <<job[t].who, txp.id, txp.inputs>>
    BY <2>2
  <2>5. ~Voted(txp, job[t].who) /\ IsPending(txp) /\ TakesSignature(txp)
    BY <1>5 DEF MaySign
  <2> HIDE DEF txp, signature
  <2>6. signed \subseteq signed' /\ signed' \subseteq Copayers \X Ids \X (SUBSET Utxos)
    BY <2>1, <2>3 DEF Inv, TypeOK
  <2>7. /\ Sound(voted) /\ voted.id = txp.id /\ voted.inputs = txp.inputs
        /\ voted.status \in {"pending", "accepted"}
        /\ Approvers(voted) \subseteq Approvers(txp) \cup {job[t].who}
    BY <1>3, <2>2, <2>5, SignSound DEF Backed
  <2> HIDE DEF voted
  <2>8. Backed(voted, signed', chain)
    BY <2>1, <2>2, <2>4, <2>7 DEF Backed
  <2>9. CopyBacked(job[t], signed', chain)
    BY <1>2, <2>6, BackedGrows
  <2>10. new \in Job /\ CopyBacked(new, signed', chain)
    BY <1>2, <2>8, <2>9, StoresCopy
  <2>11. job' = [job EXCEPT ![t] = new] /\ UNCHANGED lockVars
    BY <2>1 DEF GoStore, Continue
  <2>12. /\ DocsBacked(docs, signed', chain)
         /\ JobsBacked(job, signed', chain)
         /\ WatchBacked(monitor, signed', chain)
    BY <2>6, BackedGrows DEF Inv
  <2>13. ChainBacked(signed', chain)
    BY <2>6 DEF Inv, ChainBacked
  <2> HIDE DEF new
  <2>14. /\ job' \in [Tasks -> Job \cup {Idle}]
         /\ JobsBacked(job', signed', chain)
    BY <2>10, <2>11, <2>12, JobChanges DEF Inv, TypeOK
  <2>15. LockTypeOK'
    BY <2>11, LockTyped DEF Inv, TypeOK
  <2> QED
    BY <1>1, <2>6, <2>12, <2>13, <2>14, <2>15 DEF Inv, TypeOK
<1> QED
  BY <1>4, <1>5

LEMMA RejectTxKeeps ==
  ASSUME Inv, NEW t \in Tasks, RejectTx(t)
  PROVE  Inv'
<1> DEFINE txp == Fetch(job[t].id)
           may == Found(job[t].id) /\ ~Voted(txp, job[t].who) /\ txp.status = "pending"
<1>1. job[t].at = "start" /\ UNCHANGED <<docs, chain, monitor, signed>>
  BY DEF RejectTx, AtStart
<1>2. job[t].id \in Ids /\ job[t].who \in Copayers
  BY <1>1, JobOf DEF Inv, Points, Job
<1>3. CASE Answer(t)
  BY <1>1, <1>3, Answers
<1>4. CASE may /\ GoStore(t, Reject(txp, job[t].who))
  <2>1. txp.id = job[t].id /\ Backed(txp, signed, chain)
    BY <1>2, <1>4, FetchBacked
  <2>2. ~Voted(txp, job[t].who) /\ txp.status = "pending"
    BY <1>4
  <2>3. GoStore(t, Reject(txp, job[t].who))
    BY <1>4
  <2> HIDE DEF txp
  <2>4. Backed(Reject(txp, job[t].who), signed, chain)
    BY <1>2, <2>1, <2>2, RejectSound DEF Backed
  <2> QED
    BY <1>1, <2>3, <2>4, GoesStoring DEF Points
<1> QED
  BY <1>3, <1>4 DEF RejectTx

(* removePendingTx, before and after its delete. *)
LEMMA RemovePendingTxKeeps ==
  ASSUME Inv, NEW t \in Tasks, RemovePendingTx(t)
  PROVE  Inv'
<1>1. /\ job[t].at = "start" /\ job[t].op \in {"remove", "removeOld"}
      /\ UNCHANGED <<docs, chain, monitor, signed>>
  BY DEF RemovePendingTx, AtStart
<1>2. job[t] \in Job /\ CopyBacked(job[t], signed, chain)
  BY <1>1, JobOf DEF Inv, JobsBacked, Points
<1>3. CASE Answer(t)
  BY <1>1, <1>3, Answers
<1>4. CASE Continue(t, [job[t] EXCEPT !.at = "delete"])
  <2> DEFINE new == [job[t] EXCEPT !.at = "delete"]
  <2>1. new \in Job /\ new.at = "delete" /\ new.list = job[t].list
    BY <1>2 DEF Job, Points
  <2>2. Continue(t, new)
    BY <1>4
  <2> HIDE DEF new
  <2>3. CopyBacked(new, signed, chain)
    BY <1>2, <2>1 DEF CopyBacked
  <2> QED
    BY <1>1, <2>1, <2>2, <2>3, GoesOn
<1> QED
  BY <1>3, <1>4 DEF RemovePendingTx

LEMMA RemoveTxKeeps ==
  ASSUME Inv, NEW t \in Tasks, RemoveTx(t)
  PROVE  Inv'
<1>1. /\ job[t].at = "delete" /\ Answer(t) /\ UNCHANGED <<chain, monitor, signed>>
      /\ docs' = [docs EXCEPT ![job[t].id] = IF @ = <<>> THEN @ ELSE Tail(@)]
  BY DEF RemoveTx
<1>2. job[t].id \in Ids
  BY <1>1, JobOf DEF Inv, Points, Job
<1>3. docs' \in [Ids -> Seq(Txp)] /\ DocsBacked(docs', signed, chain)
  BY <1>1, <1>2, RemoveChanges DEF Inv, TypeOK
<1>4. /\ LockTypeOK'
      /\ job' \in [Tasks -> Job \cup {Idle}]
      /\ JobsBacked(job', signed, chain)
  BY <1>1, AnswerTyped
<1> QED
  BY <1>1, <1>3, <1>4 DEF Inv, TypeOK

(* storeTx of a copy, however old it is. *)
LEMMA StoreKeeps ==
  ASSUME Inv, NEW t \in Tasks, Store(t)
  PROVE  Inv'
<1>1. job[t].at = "store" /\ StoreTx(job[t].txp) /\ Answer(t) /\ UNCHANGED <<chain, monitor, signed>>
  BY DEF Store
<1>2. Backed(job[t].txp, signed, chain)
  BY <1>1 DEF Inv, JobsBacked, CopyBacked
<1>3. docs' \in [Ids -> Seq(Txp)] /\ DocsBacked(docs', signed, chain)
  BY <1>1, <1>2, StoreChanges DEF Inv, TypeOK, StoreTx
<1>4. /\ LockTypeOK'
      /\ job' \in [Tasks -> Job \cup {Idle}]
      /\ JobsBacked(job', signed, chain)
  BY <1>1, AnswerTyped
<1> QED
  BY <1>1, <1>3, <1>4 DEF Inv, TypeOK

-----------------------------------------------------------------------------
(* The reads of _getUtxosForCurrentWallet and getPendingTxs. *)
LEMMA FetchUtxosKeeps ==
  ASSUME Inv, NEW t \in Tasks, FetchUtxos(t)
  PROVE  Inv'
<1>1. job[t].at = "utxos" /\ UNCHANGED <<docs, chain, monitor, signed>>
  BY DEF FetchUtxos
<1>2. job[t] \in Job /\ CopyBacked(job[t], signed, chain)
  BY <1>1, JobOf DEF Inv, JobsBacked, Points
<1>3. CASE Answer(t)
  BY <1>1, <1>3, Answers
<1>4. CASE ~Answer(t)
  <2>1. PICK unspent \in SUBSET Utxos :
          Continue(t, [job[t] EXCEPT !.utxos = unspent, !.at = "pending"])
    BY <1>4 DEF FetchUtxos
  <2> DEFINE new == [job[t] EXCEPT !.utxos = unspent, !.at = "pending"]
  <2>2. new \in Job /\ new.at = "pending" /\ new.op = job[t].op /\ new.list = job[t].list
        /\ new.txp = job[t].txp
    BY <1>2 DEF Job, Points
  <2>3. Continue(t, new)
    BY <2>1
  <2> HIDE DEF new
  <2>4. CopyBacked(new, signed, chain)
    BY <1>1, <1>2, <2>2 DEF CopyBacked
  <2> QED
    BY <1>1, <2>2, <2>3, <2>4, GoesOn
<1> QED
  BY <1>3, <1>4

LEMMA FetchPendingTxsKeeps ==
  ASSUME Inv, NEW t \in Tasks, FetchPendingTxs(t)
  PROVE  Inv'
<1> DEFINE txps == {txp \in AllDocs : IsPending(txp)}
           accepted == {txp \in txps : txp.status = "accepted"}
           left == job[t].utxos \ InputsOf(txps \ accepted)
           found == {[txp |-> txp, inChain |-> FALSE] : txp \in accepted}
           new == [job[t] EXCEPT !.utxos = left, !.list = found, !.at = "check"]
<1>1. job[t].at = "pending" /\ UNCHANGED <<docs, chain, monitor, signed>>
  BY DEF FetchPendingTxs
<1>2. job[t] \in Job /\ CopyBacked(job[t], signed, chain)
  BY <1>1, JobOf DEF Inv, JobsBacked, Points
<1>3. Continue(t, new)
  BY DEF FetchPendingTxs
<1>4. left \in SUBSET Utxos
  BY <1>2 DEF Job
<1>5. \A txp \in accepted : txp \in Txp /\ Backed(txp, signed, chain) /\ txp.status = "accepted"
  BY AllDocsBacked
<1> HIDE DEF left, accepted
<1>6. /\ found \in SUBSET Listed
      /\ \A entry \in found : Backed(entry.txp, signed, chain) /\ entry.txp.status = "accepted"
  <2>1. ASSUME NEW txp \in accepted
        PROVE  LET entry == [txp |-> txp, inChain |-> FALSE]
               IN  /\ entry \in Listed
                   /\ Backed(entry.txp, signed, chain) /\ entry.txp.status = "accepted"
    BY <1>5, <2>1 DEF Listed
  <2> QED
    BY <2>1
<1> HIDE DEF found
<1>7. new \in Job /\ new.at = "check" /\ new.op = job[t].op /\ new.list = found
      /\ new.txp = job[t].txp
  BY <1>2, <1>4, <1>6 DEF Job, Points
<1> HIDE DEF new
<1>8. CopyBacked(new, signed, chain)
  BY <1>1, <1>2, <1>6, <1>7 DEF CopyBacked
<1> QED
  BY <1>1, <1>3, <1>7, <1>8, GoesOn

(* One lookup: what is marked broadcasted is in the chain. *)
LEMMA CheckPendingTxKeeps ==
  ASSUME Inv, NEW t \in Tasks, NEW entry \in job[t].list, CheckPendingTx(t, entry)
  PROVE  Inv'
<1>1. job[t].at = "check" /\ ~entry.inChain /\ UNCHANGED <<docs, chain, monitor, signed>>
  BY DEF CheckPendingTx
<1>2. job[t] \in Job /\ CopyBacked(job[t], signed, chain)
  BY <1>1, JobOf DEF Inv, JobsBacked, Points
<1>3. /\ entry.txp \in Txp /\ entry.txp.inputs \in SUBSET Utxos
      /\ Backed(entry.txp, signed, chain) /\ entry.txp.status = "accepted"
  BY <1>1, <1>2 DEF CopyBacked, Backed, Sound, Txp
<1> DEFINE rest == job[t].list \ {entry}
           sent == [txp |-> SetBroadcasted(entry.txp), inChain |-> TRUE]
<1>4. rest \in SUBSET Listed
  BY <1>2 DEF Job
<1>5. CASE InBlockchain(entry.txp) /\ Continue(t, [job[t] EXCEPT !.list = rest \cup {sent}])
  <2> DEFINE new == [job[t] EXCEPT !.list = rest \cup {sent}]
  <2>1. Backed(SetBroadcasted(entry.txp), signed, chain) /\ SetBroadcasted(entry.txp) \in Txp
    BY <1>3, <1>5, BroadcastSound DEF Backed, InBlockchain, Sound
  <2>2. sent \in Listed /\ Backed(sent.txp, signed, chain) /\ sent.inChain
    BY <2>1 DEF Listed
  <2>3. Continue(t, new)
    BY <1>5
  <2> HIDE DEF sent
  <2>4. new \in Job /\ new.at = "check" /\ new.op = job[t].op /\ new.txp = job[t].txp
        /\ new.list = rest \cup {sent}
    BY <1>1, <1>2, <1>4, <2>2 DEF Job, Points
  <2> HIDE DEF new
  <2>5. CopyBacked(new, signed, chain)
    BY <1>1, <1>2, <2>2, <2>4 DEF CopyBacked
  <2> QED
    BY <1>1, <2>3, <2>4, <2>5, GoesOn
<1>6. CASE Continue(t, [job[t] EXCEPT !.list = rest, !.utxos = @ \ entry.txp.inputs])
  <2> DEFINE new == [job[t] EXCEPT !.list = rest, !.utxos = @ \ entry.txp.inputs]
  <2>1. new \in Job /\ new.at = "check" /\ new.op = job[t].op /\ new.txp = job[t].txp
        /\ new.list = rest
    BY <1>1, <1>2, <1>4 DEF Job, Points
  <2>2. Continue(t, new)
    BY <1>6
  <2> HIDE DEF new
  <2>3. CopyBacked(new, signed, chain)
    BY <1>1, <1>2, <2>1 DEF CopyBacked
  <2> QED
    BY <1>1, <2>1, <2>2, <2>3, GoesOn
<1> QED
  BY <1>5, <1>6 DEF CheckPendingTx

LEMMA CheckFailsKeeps ==
  ASSUME Inv, NEW t \in Tasks, NEW entry \in job[t].list, CheckFails(t, entry)
  PROVE  Inv'
<1> DEFINE new == [job[t] EXCEPT !.list = @ \ {entry}, !.op = "list"]
<1>1. /\ job[t].at = "check" /\ UNCHANGED <<docs, chain, monitor, signed>>
      /\ job' = [job EXCEPT ![t] = new] /\ Unlock(t)
  BY DEF CheckFails
<1>2. job[t] \in Job /\ CopyBacked(job[t], signed, chain)
  BY <1>1, JobOf DEF Inv, JobsBacked, Points
<1>3. new \in Job /\ new.at = "check" /\ new.op = "list" /\ new.list = job[t].list \ {entry}
  BY <1>1, <1>2 DEF Job, Points, Requests
<1> HIDE DEF new
<1>4. CopyBacked(new, signed, chain)
  BY <1>2, <1>3 DEF CopyBacked
<1>5. LockTypeOK'
  BY <1>1, LockTyped DEF Unlock, Inv, TypeOK
<1> QED
  BY <1>1, <1>3, <1>4, <1>5, Continues

LEMMA StorePendingTxKeeps ==
  ASSUME Inv, NEW t \in Tasks, NEW entry \in job[t].list, StorePendingTx(t, entry)
  PROVE  Inv'
<1> DEFINE new == [job[t] EXCEPT !.list = @ \ {entry}]
<1>1. /\ job[t].at = "check" /\ StoreTx(entry.txp) /\ UNCHANGED <<chain, monitor, signed>>
      /\ job' = [job EXCEPT ![t] = new] /\ UNCHANGED lockVars
  BY DEF StorePendingTx, Continue
<1>2. job[t] \in Job /\ CopyBacked(job[t], signed, chain)
  BY <1>1, JobOf DEF Inv, JobsBacked, Points
<1>3. new \in Job /\ new.at = "check" /\ new.op = job[t].op /\ new.txp = job[t].txp
      /\ new.list = job[t].list \ {entry}
  BY <1>1, <1>2 DEF Job, Points
<1> HIDE DEF new
<1>4. CopyBacked(new, signed, chain)
  BY <1>1, <1>2, <1>3 DEF CopyBacked
<1>5. Backed(entry.txp, signed, chain)
  BY <1>2 DEF CopyBacked
<1>6. docs' \in [Ids -> Seq(Txp)] /\ DocsBacked(docs', signed, chain)
  BY <1>1, <1>5, StoreChanges DEF Inv, TypeOK, StoreTx
<1>7. /\ job' \in [Tasks -> Job \cup {Idle}]
      /\ JobsBacked(job', signed, chain)
  BY <1>1, <1>3, <1>4, JobChanges DEF Inv, TypeOK
<1>8. LockTypeOK'
  BY <1>1, LockTyped DEF Inv, TypeOK
<1> QED
  BY <1>1, <1>6, <1>7, <1>8 DEF Inv, TypeOK

LEMMA AnswerListKeeps ==
  ASSUME Inv, NEW t \in Tasks, AnswerList(t)
  PROVE  Inv'
BY Answers DEF AnswerList

(* The inputs are chosen or verified: what is stored is a draft, or a draft
   that is opened. *)
LEMMA SelectTxInputsKeeps ==
  ASSUME Inv, NEW t \in Tasks, SelectTxInputs(t)
  PROVE  Inv'
<1>1. job[t].at = "check" /\ UNCHANGED <<docs, chain, monitor, signed>>
  BY DEF SelectTxInputs
<1>2. job[t] \in Job
  BY <1>1, JobOf DEF Inv, Points
<1>3. CASE Answer(t)
  BY <1>1, <1>3, Answers
<1>4. CASE ~Answer(t)
  <2>1. PICK inputs \in SUBSET Available(t) : GoStore(t, Create(job[t].id, job[t].who, inputs))
    BY <1>4 DEF SelectTxInputs
  <2>2. inputs \in SUBSET Utxos /\ job[t].id \in Ids /\ job[t].who \in Copayers
    BY <1>2, <2>1 DEF Available, Job
  <2>3. Backed(Create(job[t].id, job[t].who, inputs), signed, chain)
    BY <2>2, CreateSound DEF Backed
  <2> QED
    BY <1>1, <2>1, <2>3, GoesStoring DEF Points
<1> QED
  BY <1>3, <1>4

LEMMA VerifyInputsKeeps ==
  ASSUME Inv, NEW t \in Tasks, VerifyInputs(t)
  PROVE  Inv'
<1>1. job[t].at = "check" /\ job[t].op = "publish" /\ UNCHANGED <<docs, chain, monitor, signed>>
  BY DEF VerifyInputs
<1>2. Backed(job[t].txp, signed, chain) /\ job[t].txp.status = "temporary"
  BY <1>1 DEF Inv, JobsBacked, CopyBacked
<1>3. CASE Answer(t)
  BY <1>1, <1>3, Answers
<1>4. CASE GoStore(t, [job[t].txp EXCEPT !.status = "pending"])
  <2>1. Backed([job[t].txp EXCEPT !.status = "pending"], signed, chain)
    BY <1>2, PublishSound DEF Backed
  <2> QED
    BY <1>1, <1>4, <2>1, GoesStoring DEF Points
<1> QED
  BY <1>3, <1>4 DEF VerifyInputs

-----------------------------------------------------------------------------
(* The network takes a transaction that a quorum has approved. *)
LEMMA AcceptsBacked ==
  ASSUME Inv, NEW txp, Backed(txp, signed, chain), txp.status = "accepted",
         Accepts(RawTx(txp)), UNCHANGED signed
  PROVE  /\ chain' = chain \cup {RawTx(txp)} /\ chain' \subseteq Tx
         /\ monitor' \subseteq Watch
         /\ WatchBacked(monitor', signed, chain')
         /\ ChainBacked(signed, chain')
         /\ DocsBacked(docs, signed, chain')
         /\ JobsBacked(job, signed, chain')
<1> DEFINE tx == RawTx(txp)
           event == [tx |-> tx, at |-> "seen", txp |-> None]
<1>1. txp \in Txp /\ Sound(txp)
  BY DEF Backed, Sound
<1>2. tx \in Tx /\ tx.id = txp.id /\ tx.inputs = txp.inputs
  BY <1>1, RawTxType
<1>3. /\ chain' = chain \cup {tx}
      /\ monitor' \subseteq monitor \cup {event}
  BY DEF Accepts
<1> HIDE DEF tx
<1>4. chain' \subseteq Tx /\ chain \subseteq chain'
  BY <1>2, <1>3 DEF Inv, TypeOK
<1>5. event \in Watch /\ event.tx = tx /\ event.at = "seen"
  BY <1>2 DEF Watch
<1> HIDE DEF event
<1>6. monitor' \subseteq Watch
  BY <1>3, <1>5 DEF Inv, TypeOK
<1>7. /\ WatchBacked(monitor, signed, chain')
      /\ DocsBacked(docs, signed, chain')
      /\ JobsBacked(job, signed, chain')
  BY <1>4, BackedGrows DEF Inv
<1>8. WatchBacked(monitor', signed, chain')
  BY <1>3, <1>5, <1>7 DEF WatchBacked
<1>9. ChainBacked(signed, chain')
  <2>1. /\ Approvers(txp) \in SUBSET Copayers /\ IsFiniteSet(Approvers(txp))
        /\ Cardinality(Approvers(txp)) >= M
    BY <1>1, ApproversCounted, AcceptedByQuorum
  <2>2. \A c \in Approvers(txp) : <<c, tx.id, tx.inputs>> \in signed
    BY <1>2 DEF Backed
  <2> QED
    BY <2>1, <2>2, <1>3 DEF Inv, ChainBacked
<1> QED
  BY <1>3, <1>4, <1>6, <1>7, <1>8, <1>9 DEF tx

LEMMA BroadcastTxKeeps ==
  ASSUME Inv, NEW t \in Tasks, BroadcastTx(t)
  PROVE  Inv'
<1> DEFINE txp == Fetch(job[t].id)
           new == [job[t] EXCEPT !.txp = txp, !.at = "send"]
<1>1. job[t].at = "start" /\ job[t].op = "broadcast"
      /\ UNCHANGED <<docs, chain, monitor, signed>>
  BY DEF BroadcastTx, AtStart
<1>2. job[t] \in Job /\ CopyBacked(job[t], signed, chain)
  BY <1>1, JobOf DEF Inv, JobsBacked, Points
<1>3. CASE Answer(t)
  BY <1>1, <1>3, Answers
<1>4. CASE MayBroadcast(job[t].id) /\ Continue(t, new)
  <2>1. txp \in Txp /\ Backed(txp, signed, chain) /\ txp.status = "accepted"
    <3>1. job[t].id \in Ids
      BY <1>2 DEF Job
    <3> QED
      BY <1>4, <3>1, FetchBacked DEF MayBroadcast
  <2>2. Continue(t, new)
    BY <1>4
  <2> HIDE DEF txp
  <2>3. new \in Job /\ new.at = "send" /\ new.op = "broadcast" /\ new.txp = txp
        /\ new.list = job[t].list
    BY <1>1, <1>2, <2>1 DEF Job, Points
  <2> HIDE DEF new
  <2>4. CopyBacked(new, signed, chain)
    BY <1>2, <2>1, <2>3 DEF CopyBacked
  <2> QED
    BY <1>1, <2>2, <2>3, <2>4, GoesOn
<1> QED
  BY <1>3, <1>4 DEF BroadcastTx

(* _broadcastRawTx, whatever the explorer says. *)
LEMMA SendRawTxKeeps ==
  ASSUME Inv, NEW t \in Tasks, SendRawTx(t)
  PROVE  Inv'
<1> DEFINE txp == job[t].txp
           raw == RawTx(txp)
           sent == IF AccountCoin THEN [txp EXCEPT !.txid = raw] ELSE txp
           unsent == IF AccountCoin THEN [txp EXCEPT !.txid = NoTx] ELSE txp
           told == [job[t] EXCEPT !.txp = SetBroadcasted(sent), !.at = "store"]
           failed == [job[t] EXCEPT !.txp = unsent, !.at = "confirm"]
<1>1. job[t].at = "send" /\ UNCHANGED <<docs, signed>>
  BY DEF SendRawTx
<1>2. job[t] \in Job /\ CopyBacked(job[t], signed, chain)
  BY <1>1, JobOf DEF Inv, JobsBacked, Points
<1>3. Backed(txp, signed, chain) /\ txp.status = "accepted" /\ txp \in Txp
  BY <1>1, <1>2 DEF CopyBacked, Backed, Sound
<1>4. raw \in Tx
  BY <1>3, RawTxType
<1>5. /\ Sound(sent) /\ sent.id = txp.id /\ sent.inputs = txp.inputs
      /\ sent.status = "accepted" /\ sent.txid = raw
      /\ Approvers(sent) = Approvers(txp)
  <2>1. CASE AccountCoin
    <3>1. sent = [txp EXCEPT !.txid = raw]
      BY <2>1
    <3> HIDE DEF txp, raw, sent
    <3> QED
      BY <2>1, <3>1, <1>3, <1>4, TxidSound DEF Backed
  <2>2. CASE ~AccountCoin
    BY <2>2, <1>3 DEF Backed, Sound
  <2> QED
    BY <2>1, <2>2
<1>6. Backed(unsent, signed, chain) /\ unsent.status = "accepted" /\ unsent \in Txp
  <2>1. CASE AccountCoin
    <3>1. unsent = [txp EXCEPT !.txid = NoTx]
      BY <2>1
    <3> HIDE DEF txp, unsent
    <3> QED
      BY <2>1, <3>1, <1>3, TxidSound DEF Backed, Sound
  <2>2. CASE ~AccountCoin
    BY <2>2, <1>3
  <2> QED
    BY <2>1, <2>2
<1>7. failed \in Job /\ CopyBacked(failed, signed, chain)
  <2> HIDE DEF unsent
  <2>1. failed \in Job /\ failed.at = "confirm" /\ failed.txp = unsent /\ failed.list = job[t].list
    BY <1>2, <1>6 DEF Job, Points
  <2> HIDE DEF failed
  <2> QED
    BY <1>2, <1>6, <2>1 DEF CopyBacked
<1>8. /\ Sound(SetBroadcasted(sent)) /\ SetBroadcasted(sent).txid = raw
      /\ SetBroadcasted(sent).id = txp.id /\ SetBroadcasted(sent).inputs = txp.inputs
      /\ Approvers(SetBroadcasted(sent)) = Approvers(txp)
  <2> HIDE DEF txp, raw, sent
  <2> QED
    BY <1>5, BroadcastSound
<1>9. CASE Accepts(raw) /\ GoStore(t, SetBroadcasted(sent))
  <2>1. /\ chain' = chain \cup {raw} /\ chain' \subseteq Tx
        /\ monitor' \subseteq Watch
        /\ WatchBacked(monitor', signed, chain')
        /\ ChainBacked(signed, chain')
        /\ DocsBacked(docs, signed, chain')
        /\ JobsBacked(job, signed, chain')
    BY <1>1, <1>3, <1>9, AcceptsBacked
  <2>2. Backed(SetBroadcasted(sent), signed, chain')
    <3> HIDE DEF txp, raw, sent
    <3> QED
      BY <1>3, <1>8, <2>1 DEF Backed
  <2>3. CopyBacked(job[t], signed, chain')
    BY <2>1 DEF JobsBacked
  <2>4. told \in Job /\ CopyBacked(told, signed, chain')
    <3> HIDE DEF sent
    <3> QED
      BY <1>2, <2>2, <2>3, StoresCopy
  <2>5. job' = [job EXCEPT ![t] = told] /\ UNCHANGED lockVars
    BY <1>9 DEF GoStore, Continue
  <2> HIDE DEF told, sent, raw, txp
  <2>6. /\ job' \in [Tasks -> Job \cup {Idle}]
        /\ JobsBacked(job', signed, chain')
    BY <2>1, <2>4, <2>5, JobChanges DEF Inv, TypeOK
  <2>7. LockTypeOK'
    BY <2>5, LockTyped DEF Inv, TypeOK
  <2> QED
    BY <1>1, <2>1, <2>6, <2>7 DEF Inv, TypeOK
<1>10. CASE Accepts(raw) /\ Continue(t, failed)
  <2>1. /\ chain' = chain \cup {raw} /\ chain' \subseteq Tx
        /\ monitor' \subseteq Watch
        /\ WatchBacked(monitor', signed, chain')
        /\ ChainBacked(signed, chain')
        /\ DocsBacked(docs, signed, chain')
        /\ JobsBacked(job, signed, chain')
    BY <1>1, <1>3, <1>10, AcceptsBacked
  <2>2. CopyBacked(failed, signed, chain')
    <3> HIDE DEF failed, raw
    <3> QED
      BY <1>7, <2>1, BackedGrows
  <2>3. job' = [job EXCEPT ![t] = failed] /\ UNCHANGED lockVars
    BY <1>10 DEF Continue
  <2> HIDE DEF failed, raw, txp
  <2>4. /\ job' \in [Tasks -> Job \cup {Idle}]
        /\ JobsBacked(job', signed, chain')
    BY <1>7, <2>1, <2>2, <2>3, JobChanges DEF Inv, TypeOK
  <2>5. LockTypeOK'
    BY <2>3, LockTyped DEF Inv, TypeOK
  <2> QED
    BY <1>1, <2>1, <2>4, <2>5 DEF Inv, TypeOK
<1>11. CASE Continue(t, failed) /\ UNCHANGED <<chain, monitor>>
  <2> HIDE DEF failed
  <2> QED
    BY <1>1, <1>7, <1>11, GoesOn
<1> QED
  BY <1>9, <1>10, <1>11 DEF SendRawTx

LEMMA CheckTxInBlockchainKeeps ==
  ASSUME Inv, NEW t \in Tasks, CheckTxInBlockchain(t)
  PROVE  Inv'
<1>1. job[t].at = "confirm" /\ UNCHANGED <<docs, chain, monitor, signed>>
  BY DEF CheckTxInBlockchain
<1>2. Backed(job[t].txp, signed, chain) /\ job[t].txp.status = "accepted"
  BY <1>1 DEF Inv, JobsBacked, CopyBacked
<1>3. CASE Answer(t)
  BY <1>1, <1>3, Answers
<1>4. CASE InBlockchain(job[t].txp) /\ GoStore(t, SetBroadcasted(job[t].txp))
  <2>1. Backed(SetBroadcasted(job[t].txp), signed, chain)
    BY <1>2, <1>4, BroadcastSound DEF Backed, InBlockchain
  <2> QED
    BY <1>1, <1>4, <2>1, GoesStoring DEF Points
<1> QED
  BY <1>3, <1>4 DEF CheckTxInBlockchain

LEMMA BroadcastOutsideKeeps ==
  ASSUME Inv, NEW id \in Ids, BroadcastOutside(id)
  PROVE  Inv'
<1>1. /\ Found(id) /\ Fetch(id).status = "accepted" /\ Accepts(RawTx(Fetch(id)))
      /\ UNCHANGED <<docs, job, signed, lockVars>>
  BY DEF BroadcastOutside
<1>2. Backed(Fetch(id), signed, chain)
  BY <1>1, FetchBacked
<1>3. /\ chain' \subseteq Tx /\ monitor' \subseteq Watch
      /\ WatchBacked(monitor', signed, chain')
      /\ ChainBacked(signed, chain')
      /\ DocsBacked(docs, signed, chain')
      /\ JobsBacked(job, signed, chain')
  BY <1>1, <1>2, AcceptsBacked
<1> QED
  BY <1>1, <1>3 DEF Inv, TypeOK, LockTypeOK, lockVars

-----------------------------------------------------------------------------
(* The monitor: what fetchTxByHash answers has the txid that was seen. *)
LEMMA ByHashBacked ==
  ASSUME Inv, NEW tx \in Tx, WithTxid(tx) # {}
  PROVE  /\ ByHash(tx).txid = tx /\ ByHash(tx).id = tx.id
         /\ Backed(ByHash(tx), signed, chain)
         /\ ByHash(tx) \in AllDocs
<1> DEFINE found == WithTxid(tx)
           i == CHOOSE i \in found : \A j \in found : i <= j
<1>1. tx.id \in Ids /\ docs[tx.id] \in Seq(Txp)
  BY DEF Inv, TypeOK, Tx
<1>2. found \in SUBSET Nat /\ found # {}
  BY <1>1 DEF WithTxid
<1>3. \E k \in found : \A j \in found : k <= j
  <2> DEFINE less == {pair \in Nat \X Nat : pair[1] < pair[2]}
  <2>1. IsWellFoundedOn(less, Nat)
    BY NatLessThanWellFounded DEF OpToRel
  <2> HIDE DEF found
  <2>2. PICK k \in found : \A j \in found : ~(<<j, k>> \in less)
    <3> HIDE DEF less
    <3> QED
      BY <1>2, <2>1, WFMin
  <2>3. \A j \in found : ~(j < k)
    BY <1>2, <2>2
  <2> QED
    BY <1>2, <2>2, <2>3
<1>4. i \in found
  BY <1>3
<1>5. i \in 1..Len(docs[tx.id]) /\ docs[tx.id][i].txid = tx /\ ByHash(tx) = docs[tx.id][i]
  BY <1>4 DEF WithTxid, ByHash
<1> HIDE DEF i
<1>6. ByHash(tx).id = tx.id /\ Backed(ByHash(tx), signed, chain)
  BY <1>1, <1>5 DEF Inv, DocsBacked
<1>7. ByHash(tx) \in AllDocs
  BY <1>1, <1>5 DEF AllDocs
<1> QED
  BY <1>5, <1>6, <1>7

LEMMA DetectBroadcastKeeps ==
  ASSUME Inv, NEW event \in monitor, DetectBroadcast(event)
  PROVE  Inv'
<1>1. /\ event.at = "seen" /\ UNCHANGED <<docs, job, chain, signed, lockVars>>
      /\ monitor' \subseteq monitor \cup {[event EXCEPT !.at = "timer"]}
  BY DEF DetectBroadcast
<1>2. event \in Watch /\ event.tx \in chain
  BY DEF Inv, TypeOK, WatchBacked
<1> DEFINE later == [event EXCEPT !.at = "timer"]
<1>3. later \in Watch /\ later.tx = event.tx /\ later.at = "timer"
  BY <1>1, <1>2 DEF Watch
<1> HIDE DEF later
<1>4. monitor' \subseteq Watch /\ WatchBacked(monitor', signed, chain)
  BY <1>1, <1>2, <1>3 DEF Inv, TypeOK, WatchBacked, later
<1> QED
  BY <1>1, <1>4 DEF Inv, TypeOK, LockTypeOK, lockVars

LEMMA ProcessBroadcastKeeps ==
  ASSUME Inv, NEW event \in monitor, ProcessBroadcast(event)
  PROVE  Inv'
<1> DEFINE copy == SetBroadcasted(ByHash(event.tx))
           later == [event EXCEPT !.at = "store", !.txp = copy]
<1>1. event.at = "timer" /\ UNCHANGED <<docs, job, chain, signed, lockVars>>
  BY DEF ProcessBroadcast
<1>2. event \in Watch /\ event.tx \in chain /\ event.tx \in Tx
  BY DEF Inv, TypeOK, WatchBacked
<1>3. CASE ~Handled(event)
  <2>1. monitor' \subseteq monitor
    BY <1>3 DEF ProcessBroadcast
  <2> QED
    BY <1>1, <2>1 DEF Inv, TypeOK, LockTypeOK, lockVars, WatchBacked
<1>4. CASE Handled(event)
  <2>1. monitor' \subseteq monitor \cup {later}
    BY <1>4 DEF ProcessBroadcast
  <2>2. /\ ByHash(event.tx).txid = event.tx /\ ByHash(event.tx).id = event.tx.id
        /\ Backed(ByHash(event.tx), signed, chain) /\ ByHash(event.tx).status = "accepted"
    BY <1>2, <1>4, ByHashBacked DEF Handled
  <2>3. Backed(copy, signed, chain) /\ copy.id = event.tx.id /\ copy \in Txp
    BY <1>2, <2>2, BroadcastSound DEF Backed, Sound
  <2> HIDE DEF copy
  <2>4. later \in Watch /\ later.tx = event.tx /\ later.at = "store" /\ later.txp = copy
    BY <1>1, <1>2, <2>3 DEF Watch
  <2> HIDE DEF later
  <2>5. monitor' \subseteq Watch /\ WatchBacked(monitor', signed, chain)
    BY <1>2, <2>1, <2>3, <2>4 DEF Inv, TypeOK, WatchBacked
  <2> QED
    BY <1>1, <2>5 DEF Inv, TypeOK, LockTypeOK, lockVars
<1> QED
  BY <1>3, <1>4

LEMMA StoreBroadcastKeeps ==
  ASSUME Inv, NEW event \in monitor, StoreBroadcast(event)
  PROVE  Inv'
<1>1. /\ event.at = "store" /\ monitor' = monitor \ {event}
      /\ docs' = [docs EXCEPT ![event.tx.id] = Append(@, event.txp)]
      /\ UNCHANGED <<job, chain, signed, lockVars>>
  BY DEF StoreBroadcast
<1>2. Backed(event.txp, signed, chain) /\ event.txp.id = event.tx.id
  BY <1>1 DEF Inv, WatchBacked
<1>3. event.tx.id \in Ids
  BY <1>2 DEF Backed, Sound, Txp
<1>4. docs' \in [Ids -> Seq(Txp)] /\ DocsBacked(docs', signed, chain)
  BY <1>1, <1>2, <1>3, InsertChanges DEF Inv, TypeOK
<1>5. monitor' \subseteq Watch /\ WatchBacked(monitor', signed, chain)
  BY <1>1 DEF Inv, TypeOK, WatchBacked
<1> QED
  BY <1>1, <1>4, <1>5 DEF Inv, TypeOK, LockTypeOK, lockVars

-----------------------------------------------------------------------------
(* An empty database satisfies the invariant. *)
LEMMA InitInv == Init => Inv
<1> SUFFICES ASSUME Init PROVE Inv
  OBVIOUS
<1>1. TypeOK
  BY DEF Init, TypeOK, LockInit, LockTypeOK
<1>2. DocsBacked(docs, signed, chain)
  BY DEF Init, DocsBacked
<1>3. JobsBacked(job, signed, chain)
  BY IdleBacked DEF Init, JobsBacked
<1>4. WatchBacked(monitor, signed, chain) /\ ChainBacked(signed, chain)
  BY DEF Init, WatchBacked, ChainBacked
<1> QED
  BY <1>1, <1>2, <1>3, <1>4 DEF Inv

(* Every step of a handler keeps it. *)
LEMMA ServeKeeps ==
  ASSUME Inv, NEW t \in Tasks, Serve(t)
  PROVE  Inv'
BY CreateTxKeeps, PublishTxKeeps, SignTxKeeps, RejectTxKeeps, RemovePendingTxKeeps,
   RemoveTxKeeps, StoreKeeps, FetchUtxosKeeps, FetchPendingTxsKeeps, CheckPendingTxKeeps,
   CheckFailsKeeps, StorePendingTxKeeps, AnswerListKeeps, SelectTxInputsKeeps,
   VerifyInputsKeeps, BroadcastTxKeeps, SendRawTxKeeps, CheckTxInBlockchainKeeps
   DEF Serve

(* And so does every other step. *)
LEMMA NextInv == Inv /\ [Next]_vars => Inv'
<1> SUFFICES ASSUME Inv, [Next]_vars PROVE Inv'
  OBVIOUS
<1>1. CASE UNCHANGED vars
  BY <1>1 DEF vars, lockVars, Inv, TypeOK, LockTypeOK
<1>2. ASSUME NEW t \in Tasks, NEW op \in Ops, NEW who \in Copayers, NEW id \in Ids,
             Arrive(t, op, who, id)
      PROVE  Inv'
  BY <1>2, ArriveKeeps
<1>3. ASSUME NEW t \in Tasks, Serve(t) \/ Busy(t) \/ LockExpires(t) \/ Crash(t)
      PROVE  Inv'
  BY <1>3, ServeKeeps, BusyKeeps, LockExpiresKeeps, CrashKeeps
<1>4. ASSUME NEW id \in Ids, BroadcastOutside(id)
      PROVE  Inv'
  BY <1>4, BroadcastOutsideKeeps
<1>5. ASSUME NEW event \in monitor,
             DetectBroadcast(event) \/ ProcessBroadcast(event) \/ StoreBroadcast(event)
      PROVE  Inv'
  BY <1>5, DetectBroadcastKeeps, ProcessBroadcastKeeps, StoreBroadcastKeeps
<1> QED
  BY <1>1, <1>2, <1>3, <1>4, <1>5 DEF Next

(* Every record that lib/server.js stores or holds in memory stands on the
   signatures made so far, in every reachable state. *)
THEOREM InvariantHolds == Spec => []Inv
<1> QED
  BY InitInv, NextInv, PTL DEF Spec

(* The types of the records, the handlers' memory and the monitor's. *)
THEOREM TypeCorrect == Spec => []TypeOK
<1>1. Inv => TypeOK
  BY DEF Inv
<1> QED
  BY <1>1, InvariantHolds, PTL

(* _updateStatus: stale writes never separate a status from its votes. *)
THEOREM StatusFollowsVotes == Spec => []RecordsConsistent
<1>1. Inv => RecordsConsistent
  BY DEF Inv, RecordsConsistent, AllDocs, DocsBacked, Backed, Sound
<1> QED
  BY <1>1, InvariantHolds, PTL

(* COPAYER_VOTED: a vote repeated before the first is stored counts once. *)
THEOREM VotesCountOnce == Spec => []OneVoteEach
<1>1. Inv => OneVoteEach
  BY DEF Inv, OneVoteEach, AllDocs, DocsBacked, Backed, Sound
<1> QED
  BY <1>1, InvariantHolds, PTL

(* broadcastTx and clients send only what m copayers have signed. *)
THEOREM NothingSpentWithoutQuorum == Spec => []QuorumBehindChain
<1>1. ASSUME Inv PROVE QuorumBehindChain
  <2>1. ASSUME NEW tx \in chain
        PROVE  Cardinality(Signers(tx.id, tx.inputs)) >= M
    <3>1. PICK S \in SUBSET Copayers : /\ IsFiniteSet(S) /\ Cardinality(S) >= M
                                       /\ \A c \in S : <<c, tx.id, tx.inputs>> \in signed
      BY <1>1 DEF Inv, ChainBacked
    <3>2. S \in SUBSET Signers(tx.id, tx.inputs)
      BY <3>1 DEF Signers
    <3>3. Signers(tx.id, tx.inputs) \in SUBSET Copayers
      BY DEF Signers
    <3>4. IsFiniteSet(Signers(tx.id, tx.inputs))
      BY <3>3, TxProposalAssumption, FS_Subset
    <3>5. Cardinality(S) <= Cardinality(Signers(tx.id, tx.inputs))
      BY <3>2, <3>4, FS_Subset
    <3>6. /\ Cardinality(S) \in Nat /\ Cardinality(Signers(tx.id, tx.inputs)) \in Nat
          /\ M \in Nat
      BY <3>1, <3>4, FS_CardinalityType, Thresholds DEF RequiredSignatures
    <3> QED
      BY <3>1, <3>5, <3>6
  <2> QED
    BY <2>1 DEF QuorumBehindChain
<1> QED
  BY <1>1, InvariantHolds, PTL

(* _processBroadcast: no error path marks what was not relayed. *)
THEOREM BroadcastedWasRelayed == Spec => []BroadcastedIsInChain
<1>1. Inv => BroadcastedIsInChain
  BY DEF Inv, BroadcastedIsInChain, AllDocs, DocsBacked, Backed
<1> QED
  BY <1>1, InvariantHolds, PTL

-----------------------------------------------------------------------------
(***************************************************************************)
(* Second, that the handlers of lib/server.js keep the promise of          *)
(* Agreement, and with it that published proposals never share an input,   *)
(* for a UTXO wallet whose votes come one at a time, whose removals come   *)
(* alone and whose lock is never lost; with any number of copayers,        *)
(* proposals and requests, dying processes, a lagging explorer and clients *)
(* that broadcast by themselves.                                           *)
(*                                                                         *)
(* storeTx writes whole records from memory.  The argument: between its    *)
(* read and its write a handler relies on the first record of its id being *)
(* at one status (none, temporary, pending, or accepted and later), and    *)
(* only handlers that rely on the same status can take it away.  Those are *)
(* kept apart by the lock or by Orderly, except that of broadcasts, who    *)
(* all write the same.                                                     *)
(***************************************************************************)

Removals == {"remove", "removeOld"}

(* The requests are as the run decisions has them. *)
Orderly ==
  /\ ~AccountCoin
  /\ "expiry" \notin Faults
  /\ Voting \X Voting \subseteq Apart
  /\ \A op \in Ops \cap Removals, other \in Requests :
       <<op, other>> \in Apart /\ <<other, op>> \in Apart
  /\ Ops \cap Removals # {} => "monitor" \notin Faults

-----------------------------------------------------------------------------
(* In the records d: the proposal is accepted or broadcasted, and txp is a copy
   of it from before or after the broadcast. *)
Settled(txp, d) ==
  /\ d[txp.id] # <<>>
  /\ d[txp.id][1].status \in {"accepted", "broadcasted"}
  /\ txp.status \in {"accepted", "broadcasted"}
  /\ SetBroadcasted(txp) = SetBroadcasted(d[txp.id][1])

(* No other published proposal spends an input of txp. *)
Free(txp, d) ==
  \A id \in Ids : id # txp.id /\ d[id] # <<>> /\ Published(d[id][1])
                    => d[id][1].inputs \cap txp.inputs = {}

DocsInOrder(d) ==
  /\ \A id \in Ids : d[id] # <<>> /\ Published(d[id][1]) => Free(d[id][1], d)
  /\ \A id \in Ids : \A i \in 2..Len(d[id]) :
       Settled(d[id][i], d) /\ d[id][i].status = "broadcasted"

(* What _getUtxosForCurrentWallet still has to leave out it will leave out: the
   inputs of a published proposal are gone from the list, or will go with a
   lookup that is under way, or with the last read. *)
Reserved(j, d) ==
  \A id \in Ids : d[id] # <<>> /\ Published(d[id][1]) =>
    \/ d[id][1].status = "broadcasted"
    \/ d[id][1].inputs \cap j.utxos = {}
    \/ \E entry \in j.list : entry.txp.id = id

(* Which requests there are at which point. *)
Stage(j) ==
  /\ j.at = "utxos" => j.op \in {"create", "publish"}
  /\ j.at \in {"pending", "check"} => j.op \in {"create", "publish", "list"}
  /\ j.at \in {"send", "confirm"} => j.op = "broadcast"
  /\ j.at = "store" => j.op \in Voting \cup {"create", "publish", "broadcast"}
  /\ j.at = "delete" => j.op \in Removals
  /\ j.list # {} => j.at = "check"

(* What each kind of request relies on, once it has read. *)
Drafting(j, d) ==
  /\ d[j.id] = <<>>
  /\ j.at = "store" => j.txp = Create(j.id, j.who, j.txp.inputs)

Publishing(j, d) ==
  /\ d[j.id] # <<>> /\ d[j.id][1].status = "temporary"
  /\ j.at # "store" => j.txp = d[j.id][1]
  /\ j.at = "check" => Reserved(j, d)
  /\ j.at = "store" => /\ j.txp = [d[j.id][1] EXCEPT !.status = "pending"]
                       /\ Free(j.txp, d)

InVote(j, d) ==
  /\ d[j.id] # <<>> /\ d[j.id][1].status = "pending" /\ ~Voted(d[j.id][1], j.who)
  /\ j.txp = IF j.op = "sign" THEN Sign(d[j.id][1], j.who) ELSE Reject(d[j.id][1], j.who)

Sending(j, d) ==
  /\ j.txp \in Txp
  /\ Settled(j.txp, d)
  /\ j.at = "store" => j.txp.status = "broadcasted"

Removing(j, d) ==
  /\ d[j.id] # <<>> /\ IsPending(d[j.id][1])
  /\ j.op = "removeOld" \/ DeletableAtOnce(d[j.id][1], j.who)

ListInOrder(list, d) ==
  \A entry \in list :
    Settled(entry.txp, d) /\ (entry.inChain => entry.txp.status = "broadcasted")

JobInOrder(j, d) ==
  /\ Stage(j)
  /\ j.op = "create" /\ j.at # "start" => Drafting(j, d)
  /\ j.op = "publish" /\ j.at # "start" => Publishing(j, d)
  /\ j.op \in Voting /\ j.at # "start" => InVote(j, d)
  /\ j.op = "broadcast" /\ j.at # "start" => Sending(j, d)
  /\ j.at = "delete" => Removing(j, d)
  /\ ListInOrder(j.list, d)

(* Who is past the start holds the lock, if its request takes it. *)
LockInOrder ==
  /\ overdue = {} /\ holder \notin waiting
  /\ \A t \in Tasks : /\ job[t].op \in Locking <=> t \in waiting \cup {holder}
                      /\ t \in waiting => job[t].at = "start"

(* One vote at a time, and a removal alone. *)
Alone(jobs) ==
  \A t \in Tasks :
    /\ jobs[t].op \in Removals => jobs[t].op \in Ops
    /\ \A u \in Tasks \ {t} :
        /\ ~(jobs[t].op \in Voting /\ jobs[u].op \in Voting)
        /\ jobs[t].op \in Removals => jobs[u].op = "none"

WatchInOrder(events, d) ==
  /\ \A event \in events :
       event.at = "store" => Settled(event.txp, d) /\ event.txp.status = "broadcasted"
  /\ events # {} => "monitor" \in Faults
  /\ (\E id \in Ids : Len(d[id]) > 1) => "monitor" \in Faults

OrderInv ==
  /\ LockInOrder
  /\ Alone(job)
  /\ WatchInOrder(monitor, docs)
  /\ DocsInOrder(docs)
  /\ \A t \in Tasks : JobInOrder(job[t], docs)

-----------------------------------------------------------------------------
(* What a vote does to the sets of voters, and when it decides. *)
Voters(txp, type) == {txp.actions[i].copayer : i \in Votes(txp, type)}

LEMMA VoterAdded ==
  ASSUME NEW txp \in Txp, NEW copayer \in Copayers, NEW type \in {"accept", "reject"},
         NEW new, new.actions = Added(txp, copayer, type).actions
  PROVE  /\ Voters(new, type) = Voters(txp, type) \cup {copayer}
         /\ \A other : other # type => Voters(new, other) = Voters(txp, other)
<1> DEFINE vote == [copayer |-> copayer, type |-> type]
           n == Len(txp.actions)
<1>1. vote \in Action /\ txp.actions \in Seq(Action) /\ n \in Nat
  BY DEF Action, Txp
<1>2. new.actions = Append(txp.actions, vote)
  BY DEF Added, Txp
<1>3. /\ Len(new.actions) = n + 1
      /\ \A i \in 1..n : new.actions[i] = txp.actions[i]
      /\ new.actions[n + 1] = vote
  BY <1>1, <1>2, AppendProperties
<1>4. vote.copayer = copayer /\ vote.type = type
  OBVIOUS
<1> HIDE DEF vote
<1>5. \A i : i \in 1..(n + 1) <=> i \in 1..n \/ i = n + 1
  BY <1>1
<1>6. n + 1 \notin 1..n
  BY <1>1
<1>7. Votes(new, type) = Votes(txp, type) \cup {n + 1}
  BY <1>3, <1>4, <1>5, <1>6 DEF Votes
<1>8. \A other : other # type => Votes(new, other) = Votes(txp, other)
  BY <1>3, <1>4, <1>5, <1>6 DEF Votes
<1>9. \A other : \A i \in Votes(txp, other) : new.actions[i] = txp.actions[i]
  BY <1>3 DEF Votes
<1>10. Voters(new, type) = Voters(txp, type) \cup {copayer}
  BY <1>3, <1>4, <1>7, <1>9 DEF Voters
<1>11. \A other : other # type => Voters(new, other) = Voters(txp, other)
  BY <1>8, <1>9 DEF Voters
<1> QED
  BY <1>10, <1>11

(* As many copayers voted as there are votes. *)
LEMMA VotersCounted ==
  ASSUME NEW txp, Sound(txp), NEW type
  PROVE  /\ Voters(txp, type) \in SUBSET Copayers /\ IsFiniteSet(Voters(txp, type))
         /\ Cardinality(Voters(txp, type)) = Cardinality(Votes(txp, type))
<1> DEFINE f == [i \in Votes(txp, type) |-> txp.actions[i].copayer]
<1>1. txp \in Txp /\ txp.actions \in Seq(Action)
  BY DEF Sound, Txp
<1>2. \A i \in 1..Len(txp.actions) : txp.actions[i] \in Action
  BY <1>1, ElementOfSeq
<1>3. Voters(txp, type) \in SUBSET Copayers
  BY <1>2 DEF Voters, Votes, Action
<1>4. \A i, j \in Votes(txp, type) :
        txp.actions[i].copayer = txp.actions[j].copayer => i = j
  BY DEF Sound, VotedOnce, Votes
<1>5. f \in Bijection(Votes(txp, type), Voters(txp, type))
  BY <1>4 DEF Bijection, Injection, Surjection, IsInjective, Voters
<1>6. ExistsBijection(Votes(txp, type), Voters(txp, type))
  BY <1>5 DEF ExistsBijection
<1> QED
  BY <1>1, <1>3, <1>6, VotesFinite, FS_Bijection

(* signTx on a pending record: the approval is added, and the m-th accepts. *)
LEMMA SignDecides ==
  ASSUME NEW txp, Sound(txp), txp.status = "pending",
         NEW copayer \in Copayers, ~Voted(txp, copayer)
  PROVE  LET new == Sign(txp, copayer)
         IN  /\ Sound(new) /\ new.id = txp.id /\ new.inputs = txp.inputs
             /\ Voters(new, "accept") = Voters(txp, "accept") \cup {copayer}
             /\ Voters(new, "reject") = Voters(txp, "reject")
             /\ new.status = IF Cardinality(Voters(new, "accept")) >= M
                             THEN "accepted" ELSE "pending"
<1> DEFINE added == Added(txp, copayer, "accept")
           voted == UpdateStatus(added)
           new == Sign(txp, copayer)
<1>1. txp \in Txp /\ VotedOnce(txp) /\ StatusMatchesVotes(txp)
  BY DEF Sound
<1>2. Cardinality(Votes(txp, "accept")) \in Nat /\ Cardinality(Votes(txp, "accept")) < M
  BY <1>1, VotesFinite DEF StatusMatchesVotes, RequiredSignatures
<1>3. IsPending(txp) /\ TakesSignature(txp)
  BY <1>2 DEF IsPending, TakesSignature, RequiredSignatures
<1>4. /\ Sound(new) /\ new.id = txp.id /\ new.inputs = txp.inputs
      /\ new.status \in {"pending", "accepted"}
  BY <1>3, SignSound
<1>5. added \in Txp /\ added.status = "pending"
  BY <1>1, AddedVote
<1>6. voted \in Txp /\ voted.actions = added.actions
  BY <1>5, UpdateStatusSettles
<1>7. new = IF voted.status = "accepted" /\ ~AccountCoin
            THEN [voted EXCEPT !.txid = RawTx(voted)] ELSE voted
  BY AddActionIs DEF Sign
<1> HIDE DEF added, voted, new
<1>8. new.actions = added.actions
  BY <1>6, <1>7 DEF Txp
<1>9. /\ Voters(new, "accept") = Voters(txp, "accept") \cup {copayer}
      /\ Voters(new, "reject") = Voters(txp, "reject")
  BY <1>1, <1>8, VoterAdded DEF added
<1>10. Cardinality(Voters(new, "accept")) = Cardinality(Votes(new, "accept"))
  BY <1>4, VotersCounted
<1>11. new.status = IF Cardinality(Voters(new, "accept")) >= M THEN "accepted" ELSE "pending"
  <2>1. StatusMatchesVotes(new) /\ Cardinality(Votes(new, "accept")) \in Nat /\ M \in Nat
    BY <1>4, VotesFinite, Thresholds DEF Sound, RequiredSignatures
  <2> QED
    BY <2>1, <1>4, <1>10 DEF StatusMatchesVotes, RequiredSignatures
<1> QED
  BY <1>4, <1>9, <1>11 DEF new

(* rejectTx on a pending record: it is declined when m have declined, or when
   fewer than m have not. *)
LEMMA RejectDecides ==
  ASSUME NEW txp, Sound(txp), txp.status = "pending",
         NEW copayer \in Copayers, ~Voted(txp, copayer)
  PROVE  LET new == Reject(txp, copayer)
         IN  /\ Sound(new) /\ new.id = txp.id /\ new.inputs = txp.inputs
             /\ Voters(new, "reject") = Voters(txp, "reject") \cup {copayer}
             /\ Voters(new, "accept") = Voters(txp, "accept")
             /\ new.status = IF \/ Cardinality(Voters(new, "reject")) >= M
                                \/ Cardinality(Copayers \ Voters(new, "reject")) < M
                             THEN "rejected" ELSE "pending"
<1> DEFINE added == Added(txp, copayer, "reject")
           new == Reject(txp, copayer)
           declined == Voters(new, "reject")
<1>1. txp \in Txp /\ VotedOnce(txp) /\ StatusMatchesVotes(txp)
  BY DEF Sound
<1>2. /\ Sound(new) /\ new.id = txp.id /\ new.inputs = txp.inputs
      /\ new.status \in {"pending", "rejected"}
  BY RejectSound
<1>3. added \in Txp
  BY <1>1, AddedVote
<1>4. new.actions = added.actions
  BY <1>3, AddActionIs, UpdateStatusSettles DEF Reject
<1>5. /\ Voters(new, "reject") = Voters(txp, "reject") \cup {copayer}
      /\ Voters(new, "accept") = Voters(txp, "accept")
  BY <1>1, <1>4, VoterAdded
<1> HIDE DEF new, added
<1>6. /\ declined \in SUBSET Copayers /\ IsFiniteSet(declined)
      /\ Cardinality(declined) = Cardinality(Votes(new, "reject"))
  BY <1>2, VotersCounted
<1>7. /\ Cardinality(Copayers) \in Nat /\ Cardinality(declined) \in Nat
      /\ Cardinality(Copayers \ declined) = Cardinality(Copayers) - Cardinality(declined)
  <2>1. Copayers \cap declined = declined
    BY <1>6
  <2>2. IsFiniteSet(Copayers)
    BY TxProposalAssumption
  <2> HIDE DEF declined
  <2>3. Cardinality(Copayers \ declined) = Cardinality(Copayers) - Cardinality(declined)
    BY <2>1, <2>2, FS_Difference
  <2> QED
    BY <2>2, <2>3, <1>6, FS_CardinalityType
<1>8. new.status = IF Cardinality(declined) >= M \/ Cardinality(Copayers \ declined) < M
                   THEN "rejected" ELSE "pending"
  <2>1. /\ StatusMatchesVotes(new) /\ M \in 1..Cardinality(Copayers)
    BY <1>2, TxProposalAssumption DEF Sound
  <2>2. new.status = "rejected" <=> Cardinality(declined) >= RequiredRejections
    BY <2>1, <1>2, <1>6, <1>7, Thresholds DEF StatusMatchesVotes
  <2> HIDE DEF declined
  <2>3. Cardinality(declined) >= RequiredRejections
          <=> Cardinality(declined) >= M \/ Cardinality(Copayers \ declined) < M
    BY <2>1, <1>7 DEF RequiredRejections
  <2> QED
    BY <2>2, <2>3, <1>2
<1> QED
  BY <1>2, <1>5, <1>8 DEF new

-----------------------------------------------------------------------------
(* The database: records are filed under their ids. *)
Filed(d) ==
  /\ d \in [Ids -> Seq(Txp)]
  /\ \A id \in Ids : \A i \in 1..Len(d[id]) : d[id][i].id = id

LEMMA DocsFiled ==
  ASSUME Inv
  PROVE  Filed(docs)
BY DEF Inv, TypeOK, DocsBacked, Filed

LEMMA FirstFiled ==
  ASSUME NEW d, Filed(d), NEW id \in Ids, d[id] # <<>>
  PROVE  d[id][1] \in Txp /\ d[id][1].id = id
<1>1. d[id] \in Seq(Txp) /\ 1 \in 1..Len(d[id])
  BY DEF Filed
<1> QED
  BY <1>1 DEF Filed

(* storeTx(txp) takes the records from d to n. *)
Written(d, n, txp) ==
  /\ n[txp.id] # <<>> /\ n[txp.id][1] = txp
  /\ \A id \in Ids : id # txp.id => n[id] = d[id]
  /\ Len(n[txp.id]) = IF d[txp.id] = <<>> THEN 1 ELSE Len(d[txp.id])
  /\ \A i \in 2..Len(n[txp.id]) : n[txp.id][i] = d[txp.id][i]

LEMMA StoreTxWrites ==
  ASSUME Inv, NEW txp \in Txp, StoreTx(txp)
  PROVE  Written(docs, docs', txp)
<1> DEFINE old == docs[txp.id]
           list == IF old = <<>> THEN <<txp>> ELSE [old EXCEPT ![1] = txp]
<1>1. txp.id \in Ids /\ docs \in [Ids -> Seq(Txp)]
  BY DEF Txp, Inv, TypeOK
<1>2. docs' = [docs EXCEPT ![txp.id] = list]
  BY DEF StoreTx
<1>3. docs'[txp.id] = list /\ \A id \in Ids : id # txp.id => docs'[id] = docs[id]
  BY <1>1, <1>2
<1>4. CASE old = <<>>
  <2>1. list = <<txp>>
    BY <1>4
  <2> HIDE DEF list
  <2>2. list # <<>> /\ list[1] = txp /\ Len(list) = 1
    BY <2>1
  <2> QED
    BY <1>3, <1>4, <2>2 DEF Written
<1>5. CASE old # <<>>
  <2>1. old \in Seq(Txp) /\ Len(old) \in Nat /\ 1 \in 1..Len(old)
    BY <1>1, <1>5
  <2>2. list = [old EXCEPT ![1] = txp]
    BY <1>5
  <2> HIDE DEF list
  <2>3. /\ list \in Seq(Txp) /\ Len(list) = Len(old) /\ list[1] = txp
        /\ \A i \in 2..Len(list) : list[i] = old[i]
    BY <2>1, <2>2, ExceptSeq
  <2>4. list # <<>>
    BY <2>1, <2>3
  <2> QED
    BY <1>3, <1>5, <2>3, <2>4 DEF Written
<1> QED
  BY <1>4, <1>5

(* The four kinds of writes: a draft, its opening, a vote and a broadcast. *)
Drafts(d, txp) == d[txp.id] = <<>> /\ txp.status = "temporary"

Opens(d, txp) ==
  /\ d[txp.id] # <<>> /\ d[txp.id][1].status = "temporary"
  /\ txp = [d[txp.id][1] EXCEPT !.status = "pending"]
  /\ Free(txp, d)

Decides(d, txp) ==
  /\ d[txp.id] # <<>> /\ d[txp.id][1].status = "pending"
  /\ txp.status \in {"pending", "accepted", "rejected"}
  /\ txp.inputs = d[txp.id][1].inputs

Spends(d, txp) == Settled(txp, d) /\ txp.status = "broadcasted"

WriteInOrder(d, txp) ==
  Drafts(d, txp) \/ Opens(d, txp) \/ Decides(d, txp) \/ Spends(d, txp)

(* SetBroadcasted touches the status only. *)
LEMMA SameButStatus ==
  ASSUME NEW x \in Txp, NEW y \in Txp, SetBroadcasted(x) = SetBroadcasted(y)
  PROVE  x.id = y.id /\ x.inputs = y.inputs /\ x.actions = y.actions /\ x.txid = y.txid
<1>1. \A z \in Txp : /\ SetBroadcasted(z).id = z.id /\ SetBroadcasted(z).inputs = z.inputs
                     /\ SetBroadcasted(z).actions = z.actions /\ SetBroadcasted(z).txid = z.txid
  BY DEF SetBroadcasted, Txp
<1> QED
  BY <1>1

(* A copy of an approved proposal stays one, whoever writes. *)
LEMMA SettledStays ==
  ASSUME NEW d, NEW n, Filed(d), NEW txp \in Txp, Written(d, n, txp), WriteInOrder(d, txp),
         NEW x, x.id \in Ids, Settled(x, d)
  PROVE  Settled(x, n)
<1>1. CASE x.id # txp.id
  BY <1>1 DEF Settled, Written
<1>2. CASE x.id = txp.id
  <2>1. d[txp.id] # <<>> /\ d[txp.id][1].status \in {"accepted", "broadcasted"}
    BY <1>2 DEF Settled
  <2>2. Spends(d, txp)
    BY <2>1 DEF WriteInOrder, Drafts, Opens, Decides
  <2>3. SetBroadcasted(x) = SetBroadcasted(txp)
    BY <1>2, <2>2 DEF Spends, Settled
  <2> QED
    BY <1>2, <2>2, <2>3 DEF Spends, Settled, Written
<1> QED
  BY <1>1, <1>2

(* Nobody claims inputs by a write but the one who opens. *)
LEMMA ClaimsStay ==
  ASSUME NEW d, NEW n, Filed(d), NEW txp \in Txp, Written(d, n, txp), WriteInOrder(d, txp),
         NEW id \in Ids, n[id] # <<>>, Published(n[id][1])
  PROVE  \/ /\ d[id] # <<>> /\ Published(d[id][1])
            /\ d[id][1].inputs = n[id][1].inputs
            /\ d[id][1].status = "broadcasted" => n[id][1].status = "broadcasted"
         \/ id = txp.id /\ Opens(d, txp)
<1>1. CASE id # txp.id
  BY <1>1 DEF Written
<1>2. CASE id = txp.id
  <2>1. n[id][1] = txp
    BY <1>2 DEF Written
  <2>2. ~Drafts(d, txp)
    BY <2>1 DEF Drafts, Published
  <2>3. CASE Decides(d, txp)
    BY <1>2, <2>1, <2>3 DEF Decides, Published
  <2>4. CASE Spends(d, txp)
    <3>1. d[id] # <<>> /\ d[id][1].status \in {"accepted", "broadcasted"} /\ d[id][1] \in Txp
          /\ SetBroadcasted(txp) = SetBroadcasted(d[id][1])
      BY <1>2, <2>4, FirstFiled DEF Spends, Settled
    <3>2. txp.inputs = d[id][1].inputs
      BY <3>1, SameButStatus
    <3> QED
      BY <1>2, <2>1, <2>4, <3>1, <3>2 DEF Spends, Published
  <2> QED
    BY <1>2, <2>2, <2>3, <2>4 DEF WriteInOrder
<1> QED
  BY <1>1, <1>2

(* What is free of all claims stays so, unless what is opened wants the same. *)
LEMMA FreeStays ==
  ASSUME NEW d, NEW n, Filed(d), NEW txp \in Txp, Written(d, n, txp), WriteInOrder(d, txp),
         ~Opens(d, txp), NEW x, Free(x, d)
  PROVE  Free(x, n)
BY ClaimsStay DEF Free

LEMMA DocsStayInOrder ==
  ASSUME NEW d, NEW n, Filed(d), NEW txp \in Txp, Written(d, n, txp), WriteInOrder(d, txp),
         DocsInOrder(d)
  PROVE  DocsInOrder(n)
<1>1. txp.id \in Ids
  BY DEF Txp
<1>2. ASSUME NEW id \in Ids, n[id] # <<>>, Published(n[id][1]),
             NEW other \in Ids, other # n[id][1].id, n[other] # <<>>, Published(n[other][1])
      PROVE  n[other][1].inputs \cap n[id][1].inputs = {}
  <2>1. n[id][1].id = id /\ n[id][1].inputs = n[id][1].inputs
    <3>1. CASE id = txp.id
      BY <3>1 DEF Written
    <3>2. CASE id # txp.id
      BY <1>2, <3>2, FirstFiled DEF Written
    <3> QED
      BY <3>1, <3>2
  <2>2. CASE Opens(d, txp) /\ id = txp.id
    <3>1. other # txp.id /\ n[other] = d[other] /\ n[id][1] = txp
      BY <1>2, <2>1, <2>2 DEF Written
    <3> QED
      BY <1>2, <2>2, <3>1 DEF Opens, Free
  <2>3. CASE Opens(d, txp) /\ other = txp.id
    <3>1. id # txp.id /\ n[id] = d[id] /\ n[other][1] = txp
      BY <1>2, <2>1, <2>3 DEF Written
    <3> QED
      BY <1>2, <2>3, <3>1 DEF Opens, Free
  <2>4. CASE ~(Opens(d, txp) /\ id = txp.id) /\ ~(Opens(d, txp) /\ other = txp.id)
    <3>1. /\ d[id] # <<>> /\ Published(d[id][1]) /\ d[id][1].inputs = n[id][1].inputs
          /\ d[other] # <<>> /\ Published(d[other][1])
          /\ d[other][1].inputs = n[other][1].inputs
      BY <1>2, <2>4, ClaimsStay
    <3>2. d[id][1].id = id
      BY <3>1, FirstFiled
    <3> QED
      BY <1>2, <2>1, <3>1, <3>2 DEF DocsInOrder, Free
  <2> QED
    BY <2>2, <2>3, <2>4
<1>3. ASSUME NEW id \in Ids, NEW i \in 2..Len(n[id])
      PROVE  Settled(n[id][i], n) /\ n[id][i].status = "broadcasted"
  <2>1. i \in 2..Len(d[id]) /\ n[id][i] = d[id][i]
    <3>1. CASE id # txp.id
      BY <1>3, <3>1 DEF Written
    <3>2. CASE id = txp.id
      BY <1>3, <3>2 DEF Written
    <3> QED
      BY <3>1, <3>2
  <2>2. d[id][i].id = id
    <3>1. d[id] \in Seq(Txp) /\ i \in 1..Len(d[id])
      BY <2>1 DEF Filed
    <3> QED
      BY <3>1 DEF Filed
  <2> QED
    BY <2>1, <2>2, SettledStays DEF DocsInOrder
<1>4. \A id \in Ids : n[id] # <<>> /\ Published(n[id][1]) => Free(n[id][1], n)
  BY <1>2 DEF Free
<1> QED
  BY <1>3, <1>4 DEF DocsInOrder

-----------------------------------------------------------------------------
(* The requests that a write does not disturb: no removal is in flight, drafts
   and openings are written by the holder of the lock, votes by the only voter. *)
Undisturbed(j, d, txp) ==
  /\ j.op \notin Removals
  /\ Drafts(d, txp) \/ Opens(d, txp) => (j.op \in {"create", "publish"} => j.at = "start")
  /\ Decides(d, txp) => j.op \notin Voting

LEMMA ListStays ==
  ASSUME NEW d, NEW n, Filed(d), NEW txp \in Txp, Written(d, n, txp), WriteInOrder(d, txp),
         NEW list \in SUBSET Listed, ListInOrder(list, d)
  PROVE  ListInOrder(list, n)
<1>1. \A entry \in list : entry.txp.id \in Ids
  BY DEF Listed, Txp
<1> QED
  BY <1>1, SettledStays DEF ListInOrder

LEMMA OthersStay ==
  ASSUME NEW d, NEW n, Filed(d), NEW txp \in Txp, Written(d, n, txp), WriteInOrder(d, txp),
         NEW j \in Job, JobInOrder(j, d), Undisturbed(j, d, txp)
  PROVE  JobInOrder(j, n)
<1>1. txp.id \in Ids /\ j.id \in Ids
  BY DEF Txp, Job
<1>2. ListInOrder(j.list, n)
  BY ListStays DEF JobInOrder, Job
<1>3. ~(j.at = "delete")
  BY DEF JobInOrder, Stage, Undisturbed
<1>4. ASSUME j.op = "create", j.at # "start"
      PROVE  Drafting(j, n)
  <2>1. d[j.id] = <<>> /\ Drafting(j, d)
    BY <1>4 DEF JobInOrder, Drafting
  <2>2. ~Drafts(d, txp)
    BY <1>4 DEF Undisturbed
  <2>3. j.id # txp.id
    BY <2>1, <2>2 DEF WriteInOrder, Opens, Decides, Spends, Settled
  <2> QED
    BY <1>1, <2>1, <2>3 DEF Drafting, Written
<1>5. ASSUME j.op = "publish", j.at # "start"
      PROVE  Publishing(j, n)
  <2>1. d[j.id] # <<>> /\ d[j.id][1].status = "temporary" /\ Publishing(j, d)
    BY <1>5 DEF JobInOrder, Publishing
  <2>2. ~Drafts(d, txp) /\ ~Opens(d, txp)
    BY <1>5 DEF Undisturbed
  <2>3. j.id # txp.id
    BY <2>1, <2>2 DEF WriteInOrder, Decides, Spends, Settled
  <2>4. n[j.id] = d[j.id]
    BY <1>1, <2>3 DEF Written
  <2>5. ASSUME j.at = "check"
        PROVE  Reserved(j, n)
    <3>1. Reserved(j, d)
      BY <2>1, <2>5 DEF Publishing
    <3> QED
      BY <2>2, <3>1, ClaimsStay DEF Reserved
  <2>6. j.at = "store" => Free(j.txp, n)
    BY <2>1, <2>2, FreeStays DEF Publishing
  <2> QED
    BY <2>1, <2>4, <2>5, <2>6 DEF Publishing
<1>6. ASSUME j.op \in Voting, j.at # "start"
      PROVE  InVote(j, n)
  <2>1. d[j.id] # <<>> /\ d[j.id][1].status = "pending" /\ InVote(j, d)
    BY <1>6 DEF JobInOrder, InVote
  <2>2. ~Decides(d, txp)
    BY <1>6 DEF Undisturbed
  <2>3. j.id # txp.id
    BY <2>1, <2>2 DEF WriteInOrder, Drafts, Opens, Spends, Settled
  <2>4. n[j.id] = d[j.id]
    BY <1>1, <2>3 DEF Written
  <2> QED
    BY <2>1, <2>4 DEF InVote
<1>7. ASSUME j.op = "broadcast", j.at # "start"
      PROVE  Sending(j, n)
  <2>1. Sending(j, d)
    BY <1>7 DEF JobInOrder
  <2>2. j.txp.id \in Ids
    BY <2>1 DEF Sending, Txp
  <2> QED
    BY <2>1, <2>2, SettledStays DEF Sending
<1> QED
  BY <1>2, <1>3, <1>4, <1>5, <1>6, <1>7 DEF JobInOrder

(* A handler without a request relies on nothing. *)
LEMMA IdleInOrder ==
  ASSUME NEW d
  PROVE  JobInOrder(Idle, d)
BY DEF JobInOrder, Stage, Idle, ListInOrder, Voting

(* Only the first records and whether there are any count. *)
LEMMA SameFirsts ==
  ASSUME NEW d, NEW n, NEW j \in Job \cup {Idle}, JobInOrder(j, d),
         \A id \in Ids : (n[id] = <<>>) = (d[id] = <<>>),
         \A id \in Ids : d[id] # <<>> => n[id][1] = d[id][1]
  PROVE  JobInOrder(j, n)
<1>1. CASE j = Idle
  BY <1>1, IdleInOrder
<1>2. CASE j \in Job
  <2>1. j.id \in Ids
    BY <1>2 DEF Job
  <2>2. \A x : x.id \in Ids /\ Settled(x, d) => Settled(x, n)
    BY DEF Settled
  <2>3. \A x : Free(x, d) => Free(x, n)
    BY DEF Free
  <2>4. Reserved(j, d) => Reserved(j, n)
    BY DEF Reserved
  <2>5. \A entry \in j.list : entry.txp.id \in Ids
    BY <1>2 DEF Job, Listed, Txp
  <2>6. ListInOrder(j.list, n)
    BY <2>2, <2>5 DEF JobInOrder, ListInOrder
  <2>7. Drafting(j, d) => Drafting(j, n)
    BY <2>1 DEF Drafting
  <2>8. Publishing(j, d) => Publishing(j, n)
    BY <2>1, <2>3, <2>4 DEF Publishing
  <2>9. InVote(j, d) => InVote(j, n)
    BY <2>1 DEF InVote
  <2>10. Sending(j, d) => Sending(j, n)
    BY <2>2 DEF Sending, Txp
  <2>11. Removing(j, d) => Removing(j, n)
    BY <2>1 DEF Removing
  <2> QED
    BY <2>6, <2>7, <2>8, <2>9, <2>10, <2>11 DEF JobInOrder
<1> QED
  BY <1>1, <1>2

-----------------------------------------------------------------------------
(* The lock: who is past the start of a request that takes it holds it, and
   lets it go with the answer. *)
LEMMA PastStart ==
  ASSUME LockInOrder, NEW t \in Tasks, job[t].at # "start" \/ HasTurn(t)
  PROVE  /\ t \notin waiting
         /\ job[t].op \in Locking => t = holder
BY DEF LockInOrder, HasTurn

LEMMA LockStays ==
  ASSUME Inv, LockInOrder, NEW t \in Tasks, NEW new, t \notin waiting, new.op = job[t].op,
         job' = [job EXCEPT ![t] = new], UNCHANGED lockVars
  PROVE  LockInOrder'
<1>1. \A u \in Tasks : job'[u] = IF u = t THEN new ELSE job[u]
  BY DEF Inv, TypeOK
<1> QED
  BY <1>1 DEF LockInOrder, lockVars

LEMMA LockLeft ==
  ASSUME Inv, LockInOrder, NEW t \in Tasks, NEW new, new.op \notin Locking,
         job' = [job EXCEPT ![t] = new],
         \/ job[t].op \in Locking /\ (GiveUp(t) \/ Release(t) \/ ReleaseLate(t))
         \/ job[t].op \notin Locking /\ UNCHANGED lockVars
  PROVE  LockInOrder'
<1>1. \A u \in Tasks : job'[u] = IF u = t THEN new ELSE job[u]
  BY DEF Inv, TypeOK
<1>2. t # None /\ None \notin waiting
  BY WalletLockAssumption DEF Inv, TypeOK, LockTypeOK
<1>3. ~ReleaseLate(t)
  BY DEF LockInOrder, ReleaseLate
<1>4. CASE GiveUp(t)
  BY <1>1, <1>4 DEF LockInOrder, GiveUp
<1>5. CASE Release(t)
  <2>1. CASE waiting = {}
    BY <1>1, <1>2, <1>5, <2>1, WalletLockAssumption DEF LockInOrder, Release, HandOver
  <2>2. CASE waiting # {}
    <3>1. PICK v \in waiting : holder' = v /\ waiting' = waiting \ {v} /\ overdue' = overdue
      BY <1>5, <2>2 DEF Release, HandOver
    <3>2. v # t /\ t = holder
      BY <1>5, <3>1 DEF LockInOrder, Release
    <3> QED
      BY <1>1, <3>1, <3>2 DEF LockInOrder
  <2> QED
    BY <2>1, <2>2
<1>6. CASE UNCHANGED lockVars /\ job[t].op \notin Locking
  BY <1>1, <1>6 DEF LockInOrder, lockVars
<1> QED
  BY <1>3, <1>4, <1>5, <1>6

(* Going on, in another role or in none, leaves everybody as alone as he was. *)
LEMMA AloneStays ==
  ASSUME Inv, Alone(job), NEW t \in Tasks, NEW new, job' = [job EXCEPT ![t] = new],
         \/ new.op \in {job[t].op, "none"}
         \/ new.op = "list" /\ job[t].op # "none"
  PROVE  Alone(job')
<1>1. \A u \in Tasks : job'[u] = IF u = t THEN new ELSE job[u]
  BY DEF Inv, TypeOK
<1>2. {"none", "list"} \cap (Voting \cup Removals) = {}
  BY DEF Voting, Removals
<1> QED
  BY <1>1, <1>2 DEF Alone

-----------------------------------------------------------------------------
(* A step that writes nothing. *)
LEMMA ReadInOrder ==
  ASSUME Inv, OrderInv, NEW t \in Tasks, NEW new, job' = [job EXCEPT ![t] = new],
         LockInOrder', Alone(job'), JobInOrder(new, docs),
         WatchInOrder(monitor', docs), UNCHANGED docs
  PROVE  OrderInv'
<1>1. \A u \in Tasks : job'[u] = IF u = t THEN new ELSE job[u]
  BY DEF Inv, TypeOK
<1> QED
  BY <1>1 DEF OrderInv

LEMMA ContinueInOrder ==
  ASSUME Inv, OrderInv, NEW t \in Tasks, NEW new, Continue(t, new),
         job[t].at # "start" \/ HasTurn(t),
         new.op = job[t].op, JobInOrder(new, docs),
         WatchInOrder(monitor', docs), UNCHANGED docs
  PROVE  OrderInv'
<1>1. job' = [job EXCEPT ![t] = new] /\ UNCHANGED lockVars
  BY DEF Continue
<1>2. LockInOrder' /\ Alone(job')
  BY <1>1, PastStart, LockStays, AloneStays DEF OrderInv
<1> QED
  BY <1>1, <1>2, ReadInOrder

LEMMA AnswerLeaves ==
  ASSUME Inv, OrderInv, NEW t \in Tasks, Answer(t), job[t].at # "start" \/ HasTurn(t)
  PROVE  /\ job' = [job EXCEPT ![t] = Idle]
         /\ LockInOrder' /\ Alone(job')
<1>1. /\ job' = [job EXCEPT ![t] = Idle]
      /\ \/ job[t].op \in Locking /\ (GiveUp(t) \/ Release(t) \/ ReleaseLate(t))
         \/ job[t].op \notin Locking /\ UNCHANGED lockVars
  BY DEF Answer, Unlock
<1>2. Idle.op = "none" /\ Idle.op \notin Locking
  BY DEF Idle, Locking
<1>3. LockInOrder'
  BY <1>1, <1>2, LockLeft DEF OrderInv
<1>4. Alone(job')
  BY <1>1, <1>2, AloneStays DEF OrderInv
<1> QED
  BY <1>1, <1>3, <1>4

LEMMA AnswerInOrder ==
  ASSUME Inv, OrderInv, NEW t \in Tasks, Answer(t), job[t].at # "start" \/ HasTurn(t),
         UNCHANGED <<docs, monitor>>
  PROVE  OrderInv'
BY AnswerLeaves, IdleInOrder, ReadInOrder DEF OrderInv

(* A step that writes one record: whoever else has a request is not disturbed. *)
LEMMA OthersUndisturbed ==
  ASSUME Inv, OrderInv, NEW t \in Tasks, job[t].at # "start", job[t].op # "none", NEW txp,
         Drafts(docs, txp) \/ Opens(docs, txp) => job[t].op \in {"create", "publish"},
         Decides(docs, txp) => job[t].op \in Voting,
         NEW u \in Tasks \ {t}
  PROVE  Undisturbed(job[u], docs, txp)
<1>1. job[u].op \notin Removals /\ ~(job[t].op \in Voting /\ job[u].op \in Voting)
  BY DEF OrderInv, Alone
<1>2. ASSUME job[t].op \in {"create", "publish"}, job[u].op \in {"create", "publish"}
      PROVE  job[u].at = "start"
  <2>1. job[t].op \in Locking /\ job[u].op \in Locking
    BY <1>2 DEF Locking
  <2>2. t = holder
    BY <2>1, PastStart DEF OrderInv
  <2>3. u \in waiting
    BY <2>1, <2>2 DEF OrderInv, LockInOrder
  <2> QED
    BY <2>3 DEF OrderInv, LockInOrder
<1> QED
  BY <1>1, <1>2 DEF Undisturbed

LEMMA WriteInOrderKeeps ==
  ASSUME Inv, OrderInv, NEW t \in Tasks, job[t].at # "start", job[t].op # "none",
         NEW txp \in Txp, StoreTx(txp), WriteInOrder(docs, txp),
         Drafts(docs, txp) \/ Opens(docs, txp) => job[t].op \in {"create", "publish"},
         Decides(docs, txp) => job[t].op \in Voting
  PROVE  /\ DocsInOrder(docs')
         /\ WatchInOrder(monitor, docs')
         /\ \A u \in Tasks \ {t} : JobInOrder(job[u], docs')
<1>1. Filed(docs) /\ Written(docs, docs', txp)
  BY DocsFiled, StoreTxWrites
<1>2. DocsInOrder(docs')
  BY <1>1, DocsStayInOrder DEF OrderInv
<1>3. ASSUME NEW u \in Tasks \ {t}
      PROVE  JobInOrder(job[u], docs')
  <2>1. CASE job[u] = Idle
    BY <2>1, IdleInOrder
  <2>2. CASE job[u] \in Job
    BY <1>1, <2>2, OthersUndisturbed, OthersStay DEF OrderInv
  <2> QED
    BY <2>1, <2>2 DEF Inv, TypeOK
<1>4. \A event \in monitor : event.at = "store" =>
        Settled(event.txp, docs') /\ event.txp.status = "broadcasted"
  <2>1. \A event \in monitor : event.at = "store" => event.txp.id \in Ids
    BY DEF Inv, WatchBacked, Backed, Sound, Txp
  <2> QED
    BY <1>1, <2>1, SettledStays DEF OrderInv, WatchInOrder
<1>5. ASSUME NEW id \in Ids, Len(docs'[id]) > 1
      PROVE  Len(docs[id]) > 1
  <2>1. CASE id # txp.id
    BY <1>1, <1>5, <2>1 DEF Written
  <2>2. CASE id = txp.id
    BY <1>1, <1>5, <2>2 DEF Written
  <2> QED
    BY <2>1, <2>2
<1>6. WatchInOrder(monitor, docs')
  BY <1>4, <1>5 DEF OrderInv, WatchInOrder
<1> QED
  BY <1>2, <1>3, <1>6

-----------------------------------------------------------------------------
(* The requests and their end. *)
LEMMA ArriveInOrder ==
  ASSUME Orderly, Inv, OrderInv, NEW t \in Tasks, NEW op \in Ops, NEW who \in Copayers,
         NEW id \in Ids, Arrive(t, op, who, id)
  PROVE  OrderInv'
<1> DEFINE new == [Idle EXCEPT !.op = op, !.who = who, !.id = id,
                               !.at = IF op = "list" THEN "pending" ELSE "start"]
<1>1. /\ job' = [job EXCEPT ![t] = new] /\ UNCHANGED <<docs, monitor>>
      /\ job[t] = Idle
      /\ \A u \in Tasks : <<op, job[u].op>> \notin Apart
      /\ IF op \in Locking THEN Request(t) ELSE UNCHANGED lockVars
  BY DEF Arrive
<1>2. op \in Requests /\ Idle.op = "none"
  BY ProposalsAssumption DEF Idle
<1>3. /\ new.op = op /\ new.list = {}
      /\ new.at = IF op = "list" THEN "pending" ELSE "start"
  BY DEF Idle
<1> HIDE DEF new
<1>4. \A u \in Tasks : job'[u] = IF u = t THEN new ELSE job[u]
  BY <1>1 DEF Inv, TypeOK
<1>5. LockInOrder'
  <2>1. "list" \notin Locking /\ "none" \notin Locking
    BY DEF Locking
  <2>2. LockInOrder
    BY DEF OrderInv
  <2>3. CASE op \in Locking
    <3>1. new.at = "start" /\ Request(t)
      BY <1>1, <1>3, <2>1, <2>3
    <3> QED
      BY <1>3, <1>4, <2>2, <2>3, <3>1, WalletLockAssumption DEF LockInOrder, Request
  <2>4. CASE op \notin Locking
    BY <1>1, <1>2, <1>3, <1>4, <2>1, <2>2, <2>4 DEF LockInOrder, lockVars
  <2> QED
    BY <2>3, <2>4
<1>6. \A u \in Tasks : job[u].op \in Requests \cup {"none"}
  BY DEF Inv, TypeOK, Job, Idle
<1>7. Alone(job')
  <2>1. \A u \in Tasks : op \in Voting => job[u].op \notin Voting
    BY <1>1 DEF Orderly
  <2>2. \A u \in Tasks : op \in Removals => job[u].op = "none"
    BY <1>1, <1>6 DEF Orderly
  <2>3. \A u \in Tasks : job[u].op \notin Removals
    BY <1>1, <1>2 DEF Orderly, OrderInv, Alone
  <2>4. Alone(job)
    BY DEF OrderInv
  <2> QED
    BY <1>3, <1>4, <2>1, <2>2, <2>3, <2>4 DEF Alone
<1>8. JobInOrder(new, docs)
  BY <1>3 DEF JobInOrder, Stage, ListInOrder, Voting
<1> QED
  BY <1>1, <1>5, <1>7, <1>8, ReadInOrder DEF OrderInv

LEMMA EndInOrder ==
  ASSUME Inv, OrderInv, NEW t \in Tasks, job' = [job EXCEPT ![t] = Idle],
         \/ job[t].op \in Locking /\ (GiveUp(t) \/ Release(t) \/ ReleaseLate(t))
         \/ job[t].op \notin Locking /\ UNCHANGED lockVars,
         UNCHANGED <<docs, monitor>>
  PROVE  OrderInv'
<1>1. Idle.op = "none" /\ Idle.op \notin Locking
  BY DEF Idle, Locking
<1>2. LockInOrder'
  BY <1>1, LockLeft DEF OrderInv
<1>3. Alone(job')
  BY <1>1, AloneStays DEF OrderInv
<1> QED
  BY <1>2, <1>3, IdleInOrder, ReadInOrder DEF OrderInv

LEMMA BusyInOrder ==
  ASSUME Inv, OrderInv, NEW t \in Tasks, Busy(t)
  PROVE  OrderInv'
<1>1. job[t].op \in Locking
  BY DEF Busy, GiveUp, OrderInv, LockInOrder
<1> QED
  BY <1>1, EndInOrder DEF Busy

LEMMA CrashInOrder ==
  ASSUME Inv, OrderInv, NEW t \in Tasks, Crash(t)
  PROVE  OrderInv'
BY EndInOrder DEF Crash

LEMMA LockNotExpired ==
  ASSUME Orderly, NEW t \in Tasks
  PROVE  ~LockExpires(t)
BY DEF Orderly, LockExpires

-----------------------------------------------------------------------------
(* The handlers, up to what they store. *)
LEMMA CreateTxInOrder ==
  ASSUME Inv, OrderInv, NEW t \in Tasks, CreateTx(t)
  PROVE  OrderInv'
<1>1. /\ job[t].at = "start" /\ job[t].op = "create" /\ HasTurn(t)
      /\ UNCHANGED <<docs, monitor>>
  BY DEF CreateTx, AtStart
<1>2. job[t] \in Job /\ JobInOrder(job[t], docs)
  BY <1>1, JobOf DEF Inv, Points, OrderInv
<1>3. CASE Answer(t)
  BY <1>1, <1>3, AnswerInOrder
<1>4. ASSUME ~Found(job[t].id), NEW new \in Job, Continue(t, new),
             new.op = "create", new.id = job[t].id, new.list = job[t].list,
             \/ new.at = "utxos"
             \/ new.at = "store" /\ new.txp = Create(new.id, new.who, new.txp.inputs)
      PROVE  OrderInv'
  <2>1. Drafting(new, docs)
    BY <1>4 DEF Drafting, Found
  <2>2. new.list = {}
    BY <1>1, <1>2, <1>4 DEF JobInOrder, Stage
  <2>3. JobInOrder(new, docs)
    BY <1>4, <2>1, <2>2 DEF JobInOrder, Stage, ListInOrder, Voting
  <2> QED
    BY <1>1, <1>4, <2>3, ContinueInOrder DEF OrderInv
<1>5. CASE /\ ~Found(job[t].id)
           /\ \E inputs \in SUBSET Utxos \ {{}} :
                GoStore(t, Create(job[t].id, job[t].who, inputs))
  <2>1. PICK inputs \in SUBSET Utxos : GoStore(t, Create(job[t].id, job[t].who, inputs))
    BY <1>5
  <2> DEFINE txp == Create(job[t].id, job[t].who, inputs)
             new == [job[t] EXCEPT !.txp = txp, !.at = "store"]
  <2>2. txp \in Txp /\ txp.inputs = inputs
    BY <1>2, CreateSound DEF Job, Sound, Create
  <2>3. Continue(t, new)
    BY <2>1 DEF GoStore
  <2> HIDE DEF txp
  <2>4. /\ new \in Job /\ new.op = "create" /\ new.id = job[t].id /\ new.who = job[t].who
        /\ new.list = job[t].list /\ new.at = "store" /\ new.txp = txp
    BY <1>1, <1>2, <2>2 DEF Job, Points
  <2>5. new.txp = Create(new.id, new.who, new.txp.inputs)
    BY <2>2, <2>4 DEF txp
  <2> HIDE DEF new
  <2> QED
    BY <1>4, <1>5, <2>3, <2>4, <2>5
<1>6. CASE ~Found(job[t].id) /\ Continue(t, [job[t] EXCEPT !.at = "utxos"])
  <2> DEFINE new == [job[t] EXCEPT !.at = "utxos"]
  <2>1. /\ new \in Job /\ new.op = "create" /\ new.id = job[t].id
        /\ new.list = job[t].list /\ new.at = "utxos"
    BY <1>1, <1>2 DEF Job, Points
  <2>2. Continue(t, new)
    BY <1>6
  <2> HIDE DEF new
  <2> QED
    BY <1>4, <1>6, <2>1, <2>2
<1> QED
  BY <1>3, <1>5, <1>6 DEF CreateTx

LEMMA PublishTxInOrder ==
  ASSUME Orderly, Inv, OrderInv, NEW t \in Tasks, PublishTx(t)
  PROVE  OrderInv'
<1>1. /\ job[t].at = "start" /\ job[t].op = "publish" /\ HasTurn(t)
      /\ UNCHANGED <<docs, monitor>>
  BY DEF PublishTx, AtStart
<1>2. job[t] \in Job /\ JobInOrder(job[t], docs)
  BY <1>1, JobOf DEF Inv, Points, OrderInv
<1>3. CASE Answer(t)
  BY <1>1, <1>3, AnswerInOrder
<1>4. CASE ~Answer(t)
  <2> DEFINE txp == Fetch(job[t].id)
             new == [job[t] EXCEPT !.txp = txp, !.at = "utxos"]
  <2>1. MayPublish(job[t].id) /\ Continue(t, new)
    BY <1>4 DEF PublishTx, Orderly
  <2>2. txp \in Txp /\ txp = docs[job[t].id][1] /\ txp.status = "temporary"
        /\ docs[job[t].id] # <<>>
    BY <1>2, <2>1, FetchBacked DEF MayPublish, IsTemporary, Fetch, Found, Job
  <2> HIDE DEF txp
  <2>3. /\ new \in Job /\ new.op = "publish" /\ new.id = job[t].id
        /\ new.list = job[t].list /\ new.at = "utxos" /\ new.txp = txp
    BY <1>1, <1>2, <2>2 DEF Job, Points
  <2> HIDE DEF new
  <2>4. Publishing(new, docs)
    BY <2>2, <2>3 DEF Publishing
  <2>5. JobInOrder(new, docs)
    BY <1>1, <1>2, <2>3, <2>4 DEF JobInOrder, Stage, ListInOrder, Voting
  <2> QED
    BY <1>1, <2>1, <2>3, <2>5, ContinueInOrder DEF OrderInv
<1> QED
  BY <1>3, <1>4

(* A vote, for or against. *)
LEMMA VoteInOrder ==
  ASSUME Inv, OrderInv, NEW t \in Tasks, job[t].at = "start", job[t].op \in Voting, HasTurn(t),
         Found(job[t].id), Fetch(job[t].id).status = "pending",
         ~Voted(Fetch(job[t].id), job[t].who),
         NEW txp, txp = IF job[t].op = "sign" THEN Sign(Fetch(job[t].id), job[t].who)
                                             ELSE Reject(Fetch(job[t].id), job[t].who),
         GoStore(t, txp), UNCHANGED <<docs, monitor>>
  PROVE  OrderInv'
<1> DEFINE new == [job[t] EXCEPT !.txp = txp, !.at = "store"]
<1>1. job[t] \in Job /\ JobInOrder(job[t], docs)
  BY JobOf DEF Inv, Points, OrderInv
<1>2. /\ new.op = job[t].op /\ new.id = job[t].id /\ new.who = job[t].who
      /\ new.list = job[t].list /\ new.at = "store" /\ new.txp = txp
  BY <1>1 DEF Job
<1>3. Continue(t, new)
  BY DEF GoStore
<1> HIDE DEF new
<1>4. InVote(new, docs)
  BY <1>2 DEF InVote, Found, Fetch
<1>5. JobInOrder(new, docs)
  BY <1>1, <1>2, <1>4 DEF JobInOrder, Stage, ListInOrder, Voting
<1> QED
  BY <1>2, <1>3, <1>5, ContinueInOrder DEF OrderInv

(* A utxo wallet takes no signature for what is accepted already. *)
LEMMA SignTxInOrder ==
  ASSUME Orderly, Inv, OrderInv, NEW t \in Tasks, SignTx(t)
  PROVE  OrderInv'
<1>1. /\ job[t].at = "start" /\ job[t].op = "sign" /\ HasTurn(t)
      /\ UNCHANGED <<docs, monitor>>
  BY DEF SignTx, AtStart
<1>2. job[t] \in Job
  BY <1>1, JobOf DEF Inv, Points
<1>3. CASE Answer(t)
  BY <1>1, <1>3, AnswerInOrder
<1>4. CASE MaySign(job[t].id, job[t].who) /\ GoStore(t, Sign(Fetch(job[t].id), job[t].who))
  <2> DEFINE txp == Fetch(job[t].id)
  <2>1. Found(job[t].id) /\ ~Voted(txp, job[t].who) /\ IsPending(txp) /\ TakesSignature(txp)
    BY <1>4 DEF MaySign
  <2>2. Sound(txp) /\ txp \in Txp
    BY <1>2, <2>1, FetchBacked DEF Backed, Job
  <2> HIDE DEF txp
  <2>3. Cardinality(Votes(txp, "accept")) < M /\ Cardinality(Votes(txp, "accept")) \in Nat
    BY <2>1, <2>2, VotesFinite DEF TakesSignature, Orderly, RequiredSignatures
  <2>4. M \in Nat
    BY Thresholds DEF RequiredSignatures
  <2>5. txp.status # "accepted"
    BY <2>2, <2>3, <2>4 DEF Sound, StatusMatchesVotes, RequiredSignatures
  <2>6. txp.status = "pending"
    BY <2>1, <2>2, <2>5 DEF IsPending, Txp, Statuses
  <2> QED
    BY <1>1, <1>4, <2>1, <2>6, VoteInOrder DEF txp, Voting
<1> QED
  BY <1>3, <1>4 DEF SignTx

LEMMA RejectTxInOrder ==
  ASSUME Inv, OrderInv, NEW t \in Tasks, RejectTx(t)
  PROVE  OrderInv'
<1>1. /\ job[t].at = "start" /\ job[t].op = "reject" /\ HasTurn(t)
      /\ UNCHANGED <<docs, monitor>>
  BY DEF RejectTx, AtStart
<1>2. CASE Answer(t)
  BY <1>1, <1>2, AnswerInOrder
<1>3. CASE ~Answer(t)
  <2>1. /\ Found(job[t].id) /\ ~Voted(Fetch(job[t].id), job[t].who)
        /\ Fetch(job[t].id).status = "pending"
        /\ GoStore(t, Reject(Fetch(job[t].id), job[t].who))
    BY <1>3 DEF RejectTx
  <2> QED
    BY <1>1, <2>1, VoteInOrder DEF Voting
<1> QED
  BY <1>2, <1>3

LEMMA RemovePendingTxInOrder ==
  ASSUME Inv, OrderInv, NEW t \in Tasks, RemovePendingTx(t)
  PROVE  OrderInv'
<1>1. /\ job[t].at = "start" /\ job[t].op \in Removals /\ HasTurn(t)
      /\ UNCHANGED <<docs, monitor>>
  BY DEF RemovePendingTx, AtStart, Removals
<1>2. job[t] \in Job /\ JobInOrder(job[t], docs)
  BY <1>1, JobOf DEF Inv, Points, OrderInv
<1>3. CASE Answer(t)
  BY <1>1, <1>3, AnswerInOrder
<1>4. CASE ~Answer(t)
  <2> DEFINE new == [job[t] EXCEPT !.at = "delete"]
  <2>1. MayRemove(job[t].id, job[t].who, job[t].op = "removeOld") /\ Continue(t, new)
    BY <1>4 DEF RemovePendingTx
  <2>2. /\ new.op = job[t].op /\ new.id = job[t].id /\ new.who = job[t].who
        /\ new.list = job[t].list /\ new.at = "delete"
    BY <1>2 DEF Job
  <2> HIDE DEF new
  <2>3. Removing(new, docs)
    BY <2>1, <2>2 DEF Removing, MayRemove, Found, Fetch
  <2>4. JobInOrder(new, docs)
    BY <1>1, <1>2, <2>2, <2>3 DEF JobInOrder, Stage, ListInOrder, Voting, Removals
  <2> QED
    BY <1>1, <2>1, <2>2, <2>4, ContinueInOrder DEF OrderInv
<1> QED
  BY <1>3, <1>4

LEMMA BroadcastTxInOrder ==
  ASSUME Inv, OrderInv, NEW t \in Tasks, BroadcastTx(t)
  PROVE  OrderInv'
<1>1. /\ job[t].at = "start" /\ job[t].op = "broadcast" /\ HasTurn(t)
      /\ UNCHANGED <<docs, monitor>>
  BY DEF BroadcastTx, AtStart
<1>2. job[t] \in Job /\ JobInOrder(job[t], docs)
  BY <1>1, JobOf DEF Inv, Points, OrderInv
<1>3. CASE Answer(t)
  BY <1>1, <1>3, AnswerInOrder
<1>4. CASE ~Answer(t)
  <2> DEFINE txp == Fetch(job[t].id)
             new == [job[t] EXCEPT !.txp = txp, !.at = "send"]
  <2>1. Found(job[t].id) /\ txp.status = "accepted" /\ Continue(t, new)
    BY <1>4 DEF BroadcastTx, MayBroadcast
  <2>2. txp \in Txp /\ txp.id = job[t].id
    BY <1>2, <2>1, FetchBacked DEF Job
  <2>3. Settled(txp, docs)
    BY <2>1, <2>2 DEF Settled, Found, Fetch
  <2> HIDE DEF txp
  <2>4. /\ new.op = "broadcast" /\ new.list = job[t].list /\ new.at = "send" /\ new.txp = txp
    BY <1>1, <1>2 DEF Job
  <2> HIDE DEF new
  <2>5. Sending(new, docs)
    BY <2>2, <2>3, <2>4 DEF Sending
  <2>6. JobInOrder(new, docs)
    BY <1>1, <1>2, <2>4, <2>5 DEF JobInOrder, Stage, ListInOrder, Voting
  <2> QED
    BY <1>1, <2>1, <2>4, <2>6, ContinueInOrder DEF OrderInv
<1> QED
  BY <1>3, <1>4

-----------------------------------------------------------------------------
(* _getUtxosForCurrentWallet and getPendingTxs. *)
LEMMA FetchUtxosInOrder ==
  ASSUME Inv, OrderInv, NEW t \in Tasks, FetchUtxos(t)
  PROVE  OrderInv'
<1>1. job[t].at = "utxos" /\ UNCHANGED <<docs, monitor>>
  BY DEF FetchUtxos
<1>2. job[t] \in Job /\ JobInOrder(job[t], docs)
  BY <1>1, JobOf DEF Inv, Points, OrderInv
<1>3. CASE Answer(t)
  BY <1>1, <1>3, AnswerInOrder
<1>4. CASE ~Answer(t)
  <2>1. PICK unspent : Continue(t, [job[t] EXCEPT !.utxos = unspent, !.at = "pending"])
    BY <1>4 DEF FetchUtxos
  <2> DEFINE new == [job[t] EXCEPT !.utxos = unspent, !.at = "pending"]
  <2>2. /\ new.op = job[t].op /\ new.id = job[t].id /\ new.who = job[t].who
        /\ new.txp = job[t].txp /\ new.list = job[t].list /\ new.at = "pending"
    BY <1>2 DEF Job
  <2>3. Continue(t, new)
    BY <2>1
  <2> HIDE DEF new
  <2>4. JobInOrder(new, docs)
    BY <1>1, <1>2, <2>2 DEF JobInOrder, Stage, ListInOrder, Voting, Drafting, Publishing
  <2> QED
    BY <1>1, <2>2, <2>3, <2>4, ContinueInOrder DEF OrderInv
<1> QED
  BY <1>3, <1>4

(* What is in the database under an id: the first record, or a copy of it. *)
LEMMA AllDocsSettled ==
  ASSUME Inv, OrderInv, NEW txp \in AllDocs
  PROVE  /\ txp \in Txp /\ txp.id \in Ids
         /\ \/ docs[txp.id] # <<>> /\ txp = docs[txp.id][1]
            \/ Settled(txp, docs) /\ txp.status = "broadcasted"
<1>0. PICK id \in Ids : txp \in {docs[id][i] : i \in 1..Len(docs[id])}
  BY DEF AllDocs
<1>1. PICK i \in 1..Len(docs[id]) : txp = docs[id][i]
  BY <1>0
<1>2. docs[id] \in Seq(Txp) /\ txp.id = id /\ txp \in Txp
  BY <1>1 DEF Inv, TypeOK, DocsBacked, Backed, Sound
<1>3. CASE i = 1
  BY <1>1, <1>2, <1>3
<1>4. CASE i \in 2..Len(docs[id])
  BY <1>1, <1>2, <1>4 DEF OrderInv, DocsInOrder
<1> QED
  BY <1>1, <1>2, <1>3, <1>4

LEMMA FirstsAreDocs ==
  ASSUME Inv, NEW id \in Ids, docs[id] # <<>>
  PROVE  docs[id][1] \in AllDocs /\ docs[id][1] \in Txp /\ docs[id][1].id = id
<1>1. docs[id] \in Seq(Txp) /\ 1 \in 1..Len(docs[id])
  BY DEF Inv, TypeOK
<1> QED
  BY <1>1, DocsFiled, FirstFiled DEF AllDocs

LEMMA FetchPendingTxsInOrder ==
  ASSUME Inv, OrderInv, NEW t \in Tasks, FetchPendingTxs(t)
  PROVE  OrderInv'
<1> DEFINE txps == {txp \in AllDocs : IsPending(txp)}
           accepted == {txp \in txps : txp.status = "accepted"}
           rest == job[t].utxos \ InputsOf(txps \ accepted)
           entries == {[txp |-> txp, inChain |-> FALSE] : txp \in accepted}
           new == [job[t] EXCEPT !.utxos = rest, !.list = entries, !.at = "check"]
<1>1. job[t].at = "pending" /\ UNCHANGED <<docs, monitor>> /\ Continue(t, new)
  BY DEF FetchPendingTxs
<1>2. job[t] \in Job /\ JobInOrder(job[t], docs)
  BY <1>1, JobOf DEF Inv, Points, OrderInv
<1>3. /\ new.op = job[t].op /\ new.id = job[t].id /\ new.who = job[t].who
      /\ new.txp = job[t].txp /\ new.at = "check"
      /\ new.utxos = rest /\ new.list = entries
  BY <1>2 DEF Job
<1>4. ListInOrder(entries, docs)
  <2>1. ASSUME NEW txp \in accepted
        PROVE  Settled(txp, docs)
    <3>1. txp.status = "accepted" /\ txp \in AllDocs
      OBVIOUS
    <3>2. docs[txp.id] # <<>> /\ txp = docs[txp.id][1]
      BY <3>1, AllDocsSettled
    <3> QED
      BY <3>1, <3>2 DEF Settled
  <2> HIDE DEF accepted
  <2> QED
    BY <2>1 DEF ListInOrder
<1>5. ASSUME NEW id \in Ids, docs[id] # <<>>, Published(docs[id][1]),
             docs[id][1].status # "broadcasted"
      PROVE  \/ docs[id][1].inputs \cap rest = {}
             \/ \E entry \in entries : entry.txp.id = id
  <2>1. /\ docs[id][1] \in txps /\ docs[id][1].id = id
        /\ docs[id][1].status \in {"pending", "accepted"}
    BY <1>5, FirstsAreDocs DEF Published, IsPending
  <2>2. CASE docs[id][1].status = "accepted"
    <3>1. [txp |-> docs[id][1], inChain |-> FALSE] \in entries
      BY <2>1, <2>2
    <3> QED
      BY <2>1, <3>1
  <2>3. CASE docs[id][1].status = "pending"
    <3>1. docs[id][1] \in txps \ accepted
      BY <2>1, <2>3
    <3> HIDE DEF txps, accepted
    <3> QED
      BY <3>1 DEF InputsOf
  <2> QED
    BY <2>1, <2>2, <2>3
<1> HIDE DEF new, rest, entries
<1>6. Reserved(new, docs)
  BY <1>3, <1>5 DEF Reserved
<1>7. JobInOrder(new, docs)
  BY <1>1, <1>2, <1>3, <1>4, <1>6 DEF JobInOrder, Stage, Voting, Drafting, Publishing
<1> QED
  BY <1>1, <1>3, <1>7, ContinueInOrder DEF OrderInv

(* One lookup is answered: the entry is turned over, or its inputs go. *)
LEMMA CheckPendingTxInOrder ==
  ASSUME Inv, OrderInv, NEW t \in Tasks, NEW entry \in job[t].list, CheckPendingTx(t, entry)
  PROVE  OrderInv'
<1> DEFINE found == [txp |-> SetBroadcasted(entry.txp), inChain |-> TRUE]
           others == job[t].list \ {entry}
           yes == [job[t] EXCEPT !.list = others \cup {found}]
           no == [job[t] EXCEPT !.list = others, !.utxos = @ \ entry.txp.inputs]
<1>1. job[t].at = "check" /\ ~entry.inChain /\ UNCHANGED <<docs, monitor>>
  BY DEF CheckPendingTx
<1>2. job[t] \in Job /\ JobInOrder(job[t], docs)
  BY <1>1, JobOf DEF Inv, Points, OrderInv
<1>3. /\ entry.txp \in Txp /\ Settled(entry.txp, docs) /\ entry.txp.id \in Ids
  BY <1>2 DEF JobInOrder, ListInOrder, Job, Listed, Txp
<1>4. /\ docs[entry.txp.id] # <<>> /\ docs[entry.txp.id][1] \in Txp
      /\ docs[entry.txp.id][1].inputs = entry.txp.inputs
  <2>1. docs[entry.txp.id] # <<>>
    BY <1>3 DEF Settled
  <2> QED
    BY <1>3, <2>1, FirstsAreDocs, SameButStatus DEF Settled
<1>5. CASE Continue(t, yes)
  <2>1. /\ yes.op = job[t].op /\ yes.id = job[t].id /\ yes.who = job[t].who
        /\ yes.txp = job[t].txp /\ yes.at = "check" /\ yes.utxos = job[t].utxos
        /\ yes.list = others \cup {found}
    BY <1>1, <1>2 DEF Job
  <2>2. found.txp.id = entry.txp.id /\ found.txp = SetBroadcasted(entry.txp)
    BY <1>3 DEF SetBroadcasted, Txp
  <2>3. Settled(found.txp, docs) /\ found.txp.status = "broadcasted"
    <3>1. SetBroadcasted(SetBroadcasted(entry.txp)) = SetBroadcasted(entry.txp)
          /\ SetBroadcasted(entry.txp).status = "broadcasted"
      BY <1>3 DEF SetBroadcasted, Txp
    <3> QED
      BY <1>3, <2>2, <3>1 DEF Settled
  <2> HIDE DEF yes, found
  <2>4. ListInOrder(yes.list, docs)
    BY <1>2, <2>1, <2>3 DEF JobInOrder, ListInOrder
  <2>5. Reserved(job[t], docs) => Reserved(yes, docs)
    BY <2>1, <2>2 DEF Reserved
  <2>6. JobInOrder(yes, docs)
    BY <1>1, <1>2, <2>1, <2>4, <2>5 DEF JobInOrder, Stage, Voting, Drafting, Publishing
  <2> QED
    BY <1>1, <1>5, <2>1, <2>6, ContinueInOrder DEF OrderInv
<1>6. CASE Continue(t, no)
  <2>1. /\ no.op = job[t].op /\ no.id = job[t].id /\ no.who = job[t].who
        /\ no.txp = job[t].txp /\ no.at = "check" /\ no.utxos = job[t].utxos \ entry.txp.inputs
        /\ no.list = others
    BY <1>1, <1>2 DEF Job
  <2> HIDE DEF no
  <2>2. ListInOrder(no.list, docs)
    BY <1>2, <2>1 DEF JobInOrder, ListInOrder
  <2>3. Reserved(job[t], docs) => Reserved(no, docs)
    BY <1>4, <2>1 DEF Reserved
  <2>4. JobInOrder(no, docs)
    BY <1>1, <1>2, <2>1, <2>2, <2>3 DEF JobInOrder, Stage, Voting, Drafting, Publishing
  <2> QED
    BY <1>1, <1>6, <2>1, <2>4, ContinueInOrder DEF OrderInv
<1> QED
  BY <1>5, <1>6 DEF CheckPendingTx

(* A lookup fails: what is left of the request is a list nobody waits for. *)
LEMMA CheckFailsInOrder ==
  ASSUME Inv, OrderInv, NEW t \in Tasks, NEW entry \in job[t].list, CheckFails(t, entry)
  PROVE  OrderInv'
<1> DEFINE new == [job[t] EXCEPT !.list = @ \ {entry}, !.op = "list"]
<1>1. /\ job[t].at = "check" /\ UNCHANGED <<docs, monitor>>
      /\ job' = [job EXCEPT ![t] = new]
      /\ \/ job[t].op \in Locking /\ (GiveUp(t) \/ Release(t) \/ ReleaseLate(t))
         \/ job[t].op \notin Locking /\ UNCHANGED lockVars
  BY DEF CheckFails, Unlock
<1>2. job[t] \in Job /\ JobInOrder(job[t], docs)
  BY <1>1, JobOf DEF Inv, Points, OrderInv
<1>3. new.op = "list" /\ new.at = "check" /\ new.list = job[t].list \ {entry}
  BY <1>1, <1>2 DEF Job
<1> HIDE DEF new
<1>4. LockInOrder'
  BY <1>1, <1>3, LockLeft DEF OrderInv, Locking
<1>5. Alone(job')
  <2>1. job[t].op # "none"
    BY <1>2 DEF Job, Requests, Locking, Voting
  <2> QED
    BY <1>1, <1>3, <2>1, AloneStays DEF OrderInv
<1>6. JobInOrder(new, docs)
  BY <1>2, <1>3 DEF JobInOrder, Stage, ListInOrder, Voting
<1> QED
  BY <1>1, <1>4, <1>5, <1>6, ReadInOrder DEF OrderInv

LEMMA AnswerListInOrder ==
  ASSUME Inv, OrderInv, NEW t \in Tasks, AnswerList(t)
  PROVE  OrderInv'
BY AnswerInOrder DEF AnswerList

(* createTx: a draft claims nothing yet. *)
LEMMA SelectTxInputsInOrder ==
  ASSUME Inv, OrderInv, NEW t \in Tasks, SelectTxInputs(t)
  PROVE  OrderInv'
<1>1. /\ job[t].at = "check" /\ job[t].list = {} /\ job[t].op = "create"
      /\ UNCHANGED <<docs, monitor>>
  BY DEF SelectTxInputs
<1>2. job[t] \in Job /\ JobInOrder(job[t], docs)
  BY <1>1, JobOf DEF Inv, Points, OrderInv
<1>3. CASE Answer(t)
  BY <1>1, <1>3, AnswerInOrder
<1>4. CASE ~Answer(t)
  <2>1. PICK inputs \in SUBSET Available(t) :
               GoStore(t, Create(job[t].id, job[t].who, inputs))
    BY <1>4 DEF SelectTxInputs
  <2> DEFINE txp == Create(job[t].id, job[t].who, inputs)
             new == [job[t] EXCEPT !.txp = txp, !.at = "store"]
  <2>2. Continue(t, new)
    BY <2>1 DEF GoStore
  <2>3. txp.inputs = inputs
    BY DEF Create
  <2> HIDE DEF txp
  <2>4. /\ new.op = "create" /\ new.id = job[t].id /\ new.who = job[t].who
        /\ new.list = {} /\ new.at = "store" /\ new.txp = txp
    BY <1>1, <1>2 DEF Job
  <2>5. new.txp = Create(new.id, new.who, new.txp.inputs)
    BY <2>3, <2>4 DEF txp
  <2> HIDE DEF new
  <2>6. Drafting(new, docs)
    BY <1>1, <1>2, <2>4, <2>5 DEF JobInOrder, Drafting
  <2>7. JobInOrder(new, docs)
    BY <2>4, <2>6 DEF JobInOrder, Stage, ListInOrder, Voting
  <2> QED
    BY <1>1, <2>2, <2>4, <2>7, ContinueInOrder DEF OrderInv
<1> QED
  BY <1>3, <1>4

(* publishTx: all lookups are done, so what is still available nobody claims. *)
LEMMA VerifyInputsInOrder ==
  ASSUME Orderly, Inv, OrderInv, NEW t \in Tasks, VerifyInputs(t)
  PROVE  OrderInv'
<1>1. /\ job[t].at = "check" /\ job[t].list = {} /\ job[t].op = "publish"
      /\ UNCHANGED <<docs, monitor>>
  BY DEF VerifyInputs
<1>2. job[t] \in Job /\ JobInOrder(job[t], docs)
  BY <1>1, JobOf DEF Inv, Points, OrderInv
<1>3. CASE Answer(t)
  BY <1>1, <1>3, AnswerInOrder
<1>4. CASE ~Answer(t)
  <2> DEFINE txp == [job[t].txp EXCEPT !.status = "pending"]
             new == [job[t] EXCEPT !.txp = txp, !.at = "store"]
  <2>1. Unspent(t) /\ Continue(t, new)
    BY <1>4 DEF VerifyInputs, GoStore
  <2>2. Publishing(job[t], docs)
    BY <1>1, <1>2 DEF JobInOrder
  <2>3. /\ docs[job[t].id] # <<>> /\ docs[job[t].id][1].status = "temporary"
        /\ job[t].txp = docs[job[t].id][1] /\ Reserved(job[t], docs)
    BY <1>1, <2>2 DEF Publishing
  <2>4. job[t].txp \in Txp
    BY <1>2, <2>3, FirstsAreDocs DEF Job
  <2>5. txp.inputs = job[t].txp.inputs
    BY <2>4 DEF Txp
  <2>6. ASSUME NEW id \in Ids, docs[id] # <<>>, Published(docs[id][1])
        PROVE  docs[id][1].inputs \cap txp.inputs = {}
    <3>1. txp.inputs \subseteq job[t].utxos
               \ InputsOf({x \in AllDocs : x.status = "broadcasted"})
      BY <2>1, <2>5 DEF Unspent, Available, Orderly
    <3>2. CASE docs[id][1].status = "broadcasted"
      <4>1. docs[id][1] \in {x \in AllDocs : x.status = "broadcasted"}
        BY <2>6, <3>2, FirstsAreDocs
      <4>2. docs[id][1].inputs \subseteq InputsOf({x \in AllDocs : x.status = "broadcasted"})
        BY <4>1 DEF InputsOf
      <4> HIDE DEF txp
      <4> QED
        BY <3>1, <4>2
    <3>3. CASE docs[id][1].status # "broadcasted"
      <4>1. docs[id][1].inputs \cap job[t].utxos = {}
        BY <1>1, <2>3, <2>6, <3>3 DEF Reserved
      <4> HIDE DEF txp
      <4> QED
        BY <3>1, <4>1
    <3> QED
      BY <3>2, <3>3
  <2>7. txp = [docs[job[t].id][1] EXCEPT !.status = "pending"] /\ Free(txp, docs)
    <3>1. txp = [docs[job[t].id][1] EXCEPT !.status = "pending"]
      BY <2>3
    <3> HIDE DEF txp
    <3> QED
      BY <2>6, <3>1 DEF Free
  <2> HIDE DEF txp
  <2>8. /\ new.op = "publish" /\ new.id = job[t].id /\ new.list = {} /\ new.at = "store"
        /\ new.txp = txp
    BY <1>1, <1>2 DEF Job
  <2> HIDE DEF new
  <2>9. Publishing(new, docs)
    BY <2>3, <2>7, <2>8 DEF Publishing
  <2>10. JobInOrder(new, docs)
    BY <2>8, <2>9 DEF JobInOrder, Stage, ListInOrder, Voting
  <2> QED
    BY <1>1, <2>1, <2>8, <2>10, ContinueInOrder DEF OrderInv
<1> QED
  BY <1>3, <1>4

-----------------------------------------------------------------------------
(* Broadcasting, by the handler or by a client: the monitor may see something,
   the records stay. *)
LEMMA AcceptsWatched ==
  ASSUME OrderInv, NEW tx, Accepts(tx) \/ UNCHANGED monitor
  PROVE  WatchInOrder(monitor', docs)
<1>1. CASE UNCHANGED monitor
  BY <1>1 DEF OrderInv
<1>2. CASE Accepts(tx)
  BY <1>2 DEF Accepts, OrderInv, WatchInOrder
<1> QED
  BY <1>1, <1>2

LEMMA SendRawTxInOrder ==
  ASSUME Orderly, Inv, OrderInv, NEW t \in Tasks, SendRawTx(t)
  PROVE  OrderInv'
<1> DEFINE txp == job[t].txp
           told == [job[t] EXCEPT !.txp = SetBroadcasted(txp), !.at = "store"]
           failed == [job[t] EXCEPT !.txp = txp, !.at = "confirm"]
<1>1. job[t].at = "send" /\ UNCHANGED docs
  BY DEF SendRawTx
<1>2. job[t] \in Job /\ JobInOrder(job[t], docs)
  BY <1>1, JobOf DEF Inv, Points, OrderInv
<1>3. job[t].op = "broadcast" /\ Sending(job[t], docs) /\ job[t].list = {}
  BY <1>1, <1>2 DEF JobInOrder, Stage
<1>4. txp \in Txp /\ Settled(txp, docs)
  BY <1>3 DEF Sending
<1>5. Continue(t, told) \/ Continue(t, failed)
  BY DEF SendRawTx, GoStore, Orderly
<1>6. WatchInOrder(monitor', docs)
  BY AcceptsWatched DEF SendRawTx
<1>7. CASE Continue(t, told)
  <2>1. /\ SetBroadcasted(txp) \in Txp /\ SetBroadcasted(txp).status = "broadcasted"
        /\ SetBroadcasted(txp).id = txp.id
        /\ SetBroadcasted(SetBroadcasted(txp)) = SetBroadcasted(txp)
    BY <1>4 DEF SetBroadcasted, Txp, Statuses
  <2>2. Settled(SetBroadcasted(txp), docs)
    BY <1>4, <2>1 DEF Settled
  <2>3. /\ told.op = "broadcast" /\ told.at = "store" /\ told.list = {}
        /\ told.txp = SetBroadcasted(txp)
    BY <1>2, <1>3 DEF Job
  <2> HIDE DEF told, txp
  <2>4. Sending(told, docs)
    BY <2>1, <2>2, <2>3 DEF Sending
  <2>5. JobInOrder(told, docs)
    BY <2>3, <2>4 DEF JobInOrder, Stage, ListInOrder, Voting
  <2> QED
    BY <1>1, <1>3, <1>6, <1>7, <2>3, <2>5, ContinueInOrder
<1>8. CASE Continue(t, failed)
  <2>1. /\ failed.op = "broadcast" /\ failed.at = "confirm" /\ failed.list = {}
        /\ failed.txp = txp
    BY <1>2, <1>3 DEF Job
  <2> HIDE DEF failed, txp
  <2>2. Sending(failed, docs)
    BY <1>4, <2>1 DEF Sending
  <2>3. JobInOrder(failed, docs)
    BY <2>1, <2>2 DEF JobInOrder, Stage, ListInOrder, Voting
  <2> QED
    BY <1>1, <1>3, <1>6, <1>8, <2>1, <2>3, ContinueInOrder
<1> QED
  BY <1>5, <1>7, <1>8

LEMMA CheckTxInBlockchainInOrder ==
  ASSUME Inv, OrderInv, NEW t \in Tasks, CheckTxInBlockchain(t)
  PROVE  OrderInv'
<1> DEFINE txp == job[t].txp
           told == [job[t] EXCEPT !.txp = SetBroadcasted(txp), !.at = "store"]
<1>1. job[t].at = "confirm" /\ UNCHANGED <<docs, monitor>>
  BY DEF CheckTxInBlockchain
<1>2. job[t] \in Job /\ JobInOrder(job[t], docs)
  BY <1>1, JobOf DEF Inv, Points, OrderInv
<1>3. CASE Answer(t)
  BY <1>1, <1>3, AnswerInOrder
<1>4. CASE Continue(t, told)
  <2>1. /\ job[t].op = "broadcast" /\ Sending(job[t], docs) /\ job[t].list = {}
    BY <1>1, <1>2 DEF JobInOrder, Stage
  <2>2. txp \in Txp /\ Settled(txp, docs)
    BY <2>1 DEF Sending
  <2>3. /\ SetBroadcasted(txp) \in Txp /\ SetBroadcasted(txp).status = "broadcasted"
        /\ SetBroadcasted(txp).id = txp.id
        /\ SetBroadcasted(SetBroadcasted(txp)) = SetBroadcasted(txp)
    BY <2>2 DEF SetBroadcasted, Txp, Statuses
  <2>4. Settled(SetBroadcasted(txp), docs)
    BY <2>2, <2>3 DEF Settled
  <2>5. /\ told.op = "broadcast" /\ told.at = "store" /\ told.list = {}
        /\ told.txp = SetBroadcasted(txp)
    BY <1>2, <2>1 DEF Job
  <2> HIDE DEF told, txp
  <2>6. Sending(told, docs)
    BY <2>3, <2>4, <2>5 DEF Sending
  <2>7. JobInOrder(told, docs)
    BY <2>5, <2>6 DEF JobInOrder, Stage, ListInOrder, Voting
  <2> QED
    BY <1>1, <1>4, <2>1, <2>5, <2>7, ContinueInOrder DEF OrderInv
<1> QED
  BY <1>3, <1>4 DEF CheckTxInBlockchain, GoStore

LEMMA BroadcastOutsideInOrder ==
  ASSUME Inv, OrderInv, NEW id \in Ids, BroadcastOutside(id)
  PROVE  OrderInv'
<1>1. UNCHANGED <<docs, job, lockVars>> /\ WatchInOrder(monitor', docs)
  BY AcceptsWatched DEF BroadcastOutside
<1> QED
  BY <1>1 DEF OrderInv, LockInOrder, lockVars

-----------------------------------------------------------------------------
(* What a handler is about to store it may store. *)
LEMMA StoreWrites ==
  ASSUME Inv, OrderInv, NEW t \in Tasks, job[t].at = "store"
  PROVE  LET txp == job[t].txp
         IN  /\ job[t] \in Job /\ txp \in Txp /\ Sound(txp)
             /\ WriteInOrder(docs, txp)
             /\ Drafts(docs, txp) \/ Opens(docs, txp) => job[t].op \in {"create", "publish"}
             /\ Decides(docs, txp) => job[t].op \in Voting
             /\ job[t].op # "broadcast" => txp.id = job[t].id
             /\ job[t].op = "create" => Drafts(docs, txp)
             /\ job[t].op = "publish" => Opens(docs, txp)
             /\ job[t].op \in Voting => Decides(docs, txp)
             /\ job[t].op = "broadcast" => Spends(docs, txp)
<1> DEFINE txp == job[t].txp
<1>1. job[t] \in Job /\ JobInOrder(job[t], docs) /\ CopyBacked(job[t], signed, chain)
  BY JobOf DEF Inv, JobsBacked, Points, OrderInv
<1>2. txp \in Txp /\ Sound(txp) /\ job[t].id \in Ids /\ job[t].who \in Copayers
  BY <1>1 DEF CopyBacked, Backed, Sound, Job
<1>3. ASSUME job[t].op = "create"
      PROVE  Drafts(docs, txp) /\ txp.id = job[t].id
  <2>1. Drafting(job[t], docs)
    BY <1>1, <1>3 DEF JobInOrder
  <2>2. txp.id = job[t].id /\ txp.status = "temporary"
    BY <2>1 DEF Drafting, Create
  <2> QED
    BY <2>1, <2>2 DEF Drafting, Drafts
<1>4. ASSUME job[t].op = "publish"
      PROVE  Opens(docs, txp) /\ txp.id = job[t].id
  <2>1. Publishing(job[t], docs)
    BY <1>1, <1>4 DEF JobInOrder
  <2>2. docs[job[t].id][1] \in Txp /\ docs[job[t].id][1].id = job[t].id
    BY <1>2, <2>1, FirstsAreDocs DEF Publishing
  <2>3. txp.id = job[t].id
    BY <2>1, <2>2 DEF Publishing, Txp
  <2> QED
    BY <2>1, <2>3 DEF Publishing, Opens
<1>5. ASSUME job[t].op \in Voting
      PROVE  Decides(docs, txp) /\ txp.id = job[t].id
  <2> DEFINE old == docs[job[t].id][1]
  <2>1. InVote(job[t], docs)
    BY <1>1, <1>5 DEF JobInOrder
  <2>2. /\ Sound(old) /\ old.id = job[t].id /\ old.status = "pending"
        /\ ~Voted(old, job[t].who) /\ docs[job[t].id] # <<>>
    BY <1>2, <2>1, FetchBacked DEF InVote, Fetch, Found, Backed
  <2>3. txp = IF job[t].op = "sign" THEN Sign(old, job[t].who) ELSE Reject(old, job[t].who)
    BY <2>1 DEF InVote
  <2> HIDE DEF old
  <2>4. /\ txp.id = old.id /\ txp.inputs = old.inputs
        /\ txp.status \in {"pending", "accepted", "rejected"}
    <3>1. CASE job[t].op = "sign"
      BY <1>2, <2>2, <2>3, <3>1, SignDecides
    <3>2. CASE job[t].op # "sign"
      BY <1>2, <2>2, <2>3, <3>2, RejectSound
    <3> QED
      BY <3>1, <3>2
  <2> QED
    BY <2>2, <2>4 DEF Decides, old
<1>6. ASSUME job[t].op = "broadcast"
      PROVE  Spends(docs, txp)
  BY <1>1, <1>6 DEF JobInOrder, Sending, Spends
<1>7. job[t].op \in Voting \cup {"create", "publish", "broadcast"}
  BY <1>1 DEF JobInOrder, Stage
<1>8. /\ WriteInOrder(docs, txp)
      /\ Drafts(docs, txp) \/ Opens(docs, txp) => job[t].op \in {"create", "publish"}
      /\ Decides(docs, txp) => job[t].op \in Voting
  <2>1. Decides(docs, txp) => ~Drafts(docs, txp) /\ ~Opens(docs, txp) /\ ~Spends(docs, txp)
    BY DEF Drafts, Opens, Decides, Spends, Settled
  <2>2. Drafts(docs, txp) \/ Opens(docs, txp) => ~Decides(docs, txp) /\ ~Spends(docs, txp)
    BY DEF Drafts, Opens, Decides, Spends, Settled
  <2> QED
    BY <1>3, <1>4, <1>5, <1>6, <1>7, <2>1, <2>2 DEF WriteInOrder
<1>9. /\ job[t].op # "broadcast" => txp.id = job[t].id
      /\ job[t].op = "create" => Drafts(docs, txp)
      /\ job[t].op = "publish" => Opens(docs, txp)
      /\ job[t].op \in Voting => Decides(docs, txp)
      /\ job[t].op = "broadcast" => Spends(docs, txp)
  <2> HIDE DEF txp
  <2> QED
    BY <1>3, <1>4, <1>5, <1>6, <1>7
<1> QED
  BY <1>1, <1>2, <1>8, <1>9

LEMMA StoreInOrder ==
  ASSUME Inv, OrderInv, NEW t \in Tasks, Store(t)
  PROVE  OrderInv'
<1> DEFINE txp == job[t].txp
<1>1. job[t].at = "store" /\ StoreTx(txp) /\ Answer(t) /\ UNCHANGED monitor
  BY DEF Store
<1>2. /\ job[t] \in Job /\ txp \in Txp
      /\ WriteInOrder(docs, txp)
      /\ Drafts(docs, txp) \/ Opens(docs, txp) => job[t].op \in {"create", "publish"}
      /\ Decides(docs, txp) => job[t].op \in Voting
  BY <1>1, StoreWrites
<1>3. job[t].op # "none"
  BY <1>2 DEF Job, Requests, Locking, Voting
<1> HIDE DEF txp
<1>4. /\ DocsInOrder(docs') /\ WatchInOrder(monitor, docs')
      /\ \A u \in Tasks \ {t} : JobInOrder(job[u], docs')
  BY <1>1, <1>2, <1>3, WriteInOrderKeeps
<1>5. job' = [job EXCEPT ![t] = Idle] /\ LockInOrder' /\ Alone(job')
  BY <1>1, AnswerLeaves
<1>6. \A u \in Tasks : job'[u] = IF u = t THEN Idle ELSE job[u]
  BY <1>5 DEF Inv, TypeOK
<1> QED
  BY <1>1, <1>4, <1>5, <1>6, IdleInOrder DEF OrderInv

(* _processBroadcast of a listed proposal, in the midst of the list. *)
LEMMA StorePendingTxInOrder ==
  ASSUME Inv, OrderInv, NEW t \in Tasks, NEW entry \in job[t].list, StorePendingTx(t, entry)
  PROVE  OrderInv'
<1> DEFINE txp == entry.txp
           new == [job[t] EXCEPT !.list = @ \ {entry}]
<1>1. /\ job[t].at = "check" /\ entry.inChain /\ StoreTx(txp) /\ Continue(t, new)
      /\ UNCHANGED monitor
  BY DEF StorePendingTx
<1>2. job[t] \in Job /\ JobInOrder(job[t], docs)
  BY <1>1, JobOf DEF Inv, Points, OrderInv
<1>3. txp \in Txp /\ Spends(docs, txp)
  BY <1>1, <1>2 DEF JobInOrder, ListInOrder, Spends, Job, Listed
<1>4. /\ WriteInOrder(docs, txp) /\ ~Decides(docs, txp)
      /\ ~Drafts(docs, txp) /\ ~Opens(docs, txp)
  BY <1>3 DEF WriteInOrder, Drafts, Opens, Decides, Spends, Settled
<1>5. job[t].op \in {"create", "publish", "list"}
  BY <1>1, <1>2 DEF JobInOrder, Stage
<1>6. /\ new.op = job[t].op /\ new.id = job[t].id /\ new.who = job[t].who
      /\ new.txp = job[t].txp /\ new.at = "check" /\ new.utxos = job[t].utxos
      /\ new.list = job[t].list \ {entry}
  BY <1>1, <1>2 DEF Job
<1> HIDE DEF txp, new
<1>7. /\ DocsInOrder(docs') /\ WatchInOrder(monitor, docs')
      /\ \A u \in Tasks \ {t} : JobInOrder(job[u], docs')
  BY <1>1, <1>3, <1>4, <1>5, WriteInOrderKeeps
<1>8. Written(docs, docs', txp)
  BY <1>1, <1>3, StoreTxWrites
<1>9. JobInOrder(job[t], docs')
  <2>1. Undisturbed(job[t], docs, txp)
    BY <1>4, <1>5 DEF Undisturbed, Removals
  <2> QED
    BY <1>2, <1>3, <1>4, <1>8, <2>1, DocsFiled, OthersStay
<1>10. Reserved(job[t], docs') => Reserved(new, docs')
  <2>1. docs'[txp.id][1].status = "broadcasted"
    BY <1>3, <1>8 DEF Written, Spends
  <2> QED
    BY <1>6, <2>1 DEF Reserved, txp
<1>11. JobInOrder(new, docs')
  BY <1>1, <1>5, <1>6, <1>9, <1>10
     DEF JobInOrder, Stage, ListInOrder, Voting, Drafting, Publishing
<1>12. job' = [job EXCEPT ![t] = new] /\ UNCHANGED lockVars
  BY <1>1 DEF Continue
<1>13. LockInOrder' /\ Alone(job')
  BY <1>1, <1>6, <1>12, PastStart, LockStays, AloneStays DEF OrderInv
<1>14. \A u \in Tasks : job'[u] = IF u = t THEN new ELSE job[u]
  BY <1>12 DEF Inv, TypeOK
<1> QED
  BY <1>1, <1>7, <1>11, <1>13, <1>14 DEF OrderInv

(* removeTx: nobody else has a request, and there is one record. *)
LEMMA OneRecord ==
  ASSUME Orderly, Inv, OrderInv, NEW t \in Tasks, job[t].at = "delete"
  PROVE  /\ job[t] \in Job /\ Removing(job[t], docs) /\ monitor = {}
         /\ \A u \in Tasks \ {t} : job[u].op = "none"
         /\ \A id \in Ids : Len(docs[id]) <= 1
         /\ Len(docs[job[t].id]) = 1
<1>1. job[t] \in Job /\ Removing(job[t], docs) /\ job[t].op \in Removals
  BY JobOf DEF Inv, Points, OrderInv, JobInOrder, Stage
<1>2. job[t].op \in Ops /\ \A u \in Tasks \ {t} : job[u].op = "none"
  BY <1>1 DEF OrderInv, Alone
<1>3. "monitor" \notin Faults
  BY <1>1, <1>2 DEF Orderly
<1>4. \A id \in Ids : Len(docs[id]) \in Nat
  BY DEF Inv, TypeOK
<1>5. monitor = {} /\ \A id \in Ids : Len(docs[id]) <= 1
  BY <1>3, <1>4 DEF OrderInv, WatchInOrder
<1>6. Len(docs[job[t].id]) = 1
  <2>1. docs[job[t].id] # <<>> /\ docs[job[t].id] \in Seq(Txp) /\ job[t].id \in Ids
    BY <1>1 DEF Removing, Job, Inv, TypeOK
  <2>2. Len(docs[job[t].id]) # 0 /\ Len(docs[job[t].id]) \in Nat
    BY <2>1
  <2>3. \A n \in Nat : n <= 1 /\ n # 0 => n = 1
    OBVIOUS
  <2> QED
    BY <1>5, <2>1, <2>2, <2>3
<1> QED
  BY <1>1, <1>2, <1>5, <1>6

LEMMA RemoveTxClears ==
  ASSUME Orderly, Inv, OrderInv, NEW t \in Tasks, RemoveTx(t)
  PROVE  /\ docs' = [docs EXCEPT ![job[t].id] = <<>>]
         /\ job[t].id \in Ids
<1>1. /\ job[t].at = "delete"
      /\ docs' = [docs EXCEPT ![job[t].id] = IF @ = <<>> THEN @ ELSE Tail(@)]
  BY DEF RemoveTx
<1>2. job[t].id \in Ids /\ docs[job[t].id] \in Seq(Txp) /\ Len(docs[job[t].id]) = 1
  BY <1>1, OneRecord DEF Job, Inv, TypeOK
<1>3. Tail(docs[job[t].id]) = <<>>
  <2>1. docs[job[t].id] # <<>>
    BY <1>2
  <2>2. Tail(docs[job[t].id]) \in Seq(Txp) /\ Len(Tail(docs[job[t].id])) = 0
    BY <1>2, <2>1, HeadTailProperties
  <2> QED
    BY <2>2, EmptySeq
<1> QED
  BY <1>1, <1>2, <1>3

LEMMA RemoveTxInOrder ==
  ASSUME Orderly, Inv, OrderInv, NEW t \in Tasks, RemoveTx(t)
  PROVE  OrderInv'
<1>1. job[t].at = "delete" /\ Answer(t) /\ UNCHANGED monitor
  BY DEF RemoveTx
<1>2. monitor = {} /\ \A u \in Tasks \ {t} : job[u].op = "none"
  BY <1>1, OneRecord
<1>3. \A id \in Ids : docs'[id] = IF id = job[t].id THEN <<>> ELSE docs[id]
  BY RemoveTxClears DEF Inv, TypeOK
<1>4. job' = [job EXCEPT ![t] = Idle] /\ LockInOrder' /\ Alone(job')
  BY <1>1, AnswerLeaves
<1>5. \A u \in Tasks : job'[u] = Idle
  <2>1. "none" \notin Requests
    BY DEF Requests, Locking, Voting
  <2> QED
    BY <1>2, <1>4, <2>1 DEF Inv, TypeOK, Job
<1>6. \A u \in Tasks : JobInOrder(job'[u], docs')
  BY <1>5, IdleInOrder
<1>7. /\ \A id \in Ids : Len(docs'[id]) <= 1
      /\ \A id \in Ids : docs'[id] # <<>> => docs'[id] = docs[id]
      /\ \A id \in Ids : Len(docs'[id]) \in Nat
  BY <1>1, <1>3, OneRecord DEF Inv, TypeOK
<1>8. DocsInOrder(docs')
  BY <1>7 DEF OrderInv, DocsInOrder, Free
<1>9. WatchInOrder(monitor', docs')
  BY <1>1, <1>2, <1>7 DEF WatchInOrder
<1> QED
  BY <1>4, <1>6, <1>8, <1>9 DEF OrderInv

-----------------------------------------------------------------------------
(* The monitor. *)
LEMMA DetectBroadcastInOrder ==
  ASSUME Inv, OrderInv, NEW event \in monitor, DetectBroadcast(event)
  PROVE  OrderInv'
<1> DEFINE later == [event EXCEPT !.at = "timer"]
<1>1. /\ UNCHANGED <<docs, job, lockVars>>
      /\ monitor' \subseteq monitor \cup {later}
  BY DEF DetectBroadcast
<1>2. later.at # "store"
  BY DEF Inv, TypeOK, Watch
<1> HIDE DEF later
<1>3. WatchInOrder(monitor', docs)
  BY <1>1, <1>2 DEF OrderInv, WatchInOrder
<1> QED
  BY <1>1, <1>3 DEF OrderInv, LockInOrder, lockVars

LEMMA ProcessBroadcastInOrder ==
  ASSUME Inv, OrderInv, NEW event \in monitor, ProcessBroadcast(event)
  PROVE  OrderInv'
<1> DEFINE txp == ByHash(event.tx)
           later == [event EXCEPT !.at = "store", !.txp = SetBroadcasted(txp)]
<1>1. UNCHANGED <<docs, job, lockVars>>
  BY DEF ProcessBroadcast
<1>2. event \in Watch /\ event.tx \in Tx
  BY DEF Inv, TypeOK, WatchBacked
<1>3. CASE ~Handled(event)
  <2>1. monitor' \subseteq monitor
    BY <1>3 DEF ProcessBroadcast
  <2> QED
    BY <1>1, <2>1 DEF OrderInv, WatchInOrder, LockInOrder, lockVars
<1>4. CASE Handled(event)
  <2>1. monitor' \subseteq monitor \cup {later}
    BY <1>4 DEF ProcessBroadcast
  <2>2. txp \in AllDocs /\ txp.status = "accepted"
    BY <1>2, <1>4, ByHashBacked DEF Handled
  <2>3. txp \in Txp /\ docs[txp.id] # <<>> /\ txp = docs[txp.id][1]
    BY <2>2, AllDocsSettled
  <2> HIDE DEF txp
  <2>4. /\ SetBroadcasted(txp).id = txp.id
        /\ SetBroadcasted(txp).status = "broadcasted"
        /\ SetBroadcasted(SetBroadcasted(txp)) = SetBroadcasted(txp)
    BY <2>3 DEF SetBroadcasted, Txp
  <2>5. Settled(SetBroadcasted(txp), docs)
    BY <2>2, <2>3, <2>4 DEF Settled
  <2>6. later.txp = SetBroadcasted(txp)
    BY <1>2 DEF Watch
  <2> HIDE DEF later
  <2>7. WatchInOrder(monitor', docs)
    BY <2>1, <2>4, <2>5, <2>6 DEF OrderInv, WatchInOrder
  <2> QED
    BY <1>1, <2>7 DEF OrderInv, LockInOrder, lockVars
<1> QED
  BY <1>3, <1>4

(* The insert of a monitor adds a record after the first. *)
LEMMA StoreBroadcastAppends ==
  ASSUME Inv, OrderInv, NEW event \in monitor, StoreBroadcast(event)
  PROVE  /\ event.tx.id \in Ids /\ event.txp \in Txp /\ event.txp.id = event.tx.id
         /\ Settled(event.txp, docs) /\ event.txp.status = "broadcasted"
         /\ \A id \in Ids : docs'[id] = IF id = event.tx.id THEN Append(docs[id], event.txp)
                                                           ELSE docs[id]
         /\ \A id \in Ids : /\ (docs'[id] = <<>>) = (docs[id] = <<>>)
                            /\ docs[id] # <<>> => docs'[id][1] = docs[id][1]
<1> DEFINE id == event.tx.id
<1>1. /\ event.at = "store"
      /\ docs' = [docs EXCEPT ![id] = Append(@, event.txp)]
  BY DEF StoreBroadcast
<1>2. /\ event.txp \in Txp /\ event.txp.id = id /\ id \in Ids
      /\ Settled(event.txp, docs) /\ event.txp.status = "broadcasted"
  BY <1>1 DEF Inv, WatchBacked, Backed, Sound, Txp, OrderInv, WatchInOrder
<1> HIDE DEF id
<1>3. \A other \in Ids : docs'[other] = IF other = id THEN Append(docs[other], event.txp)
                                                     ELSE docs[other]
  BY <1>1, <1>2 DEF Inv, TypeOK
<1>4. docs[id] # <<>> /\ docs[id] \in Seq(Txp)
  BY <1>2 DEF Settled, Inv, TypeOK
<1>5. Append(docs[id], event.txp) # <<>> /\ Append(docs[id], event.txp)[1] = docs[id][1]
  <2>1. 1 \in 1..Len(docs[id]) /\ Len(docs[id]) \in Nat
    BY <1>4
  <2>2. Append(docs[id], event.txp)[1] = docs[id][1]
    BY <1>2, <1>4, <2>1, AppendProperties
  <2>3. Append(docs[id], event.txp) # <<>>
    BY <1>2, <1>4, AppendProperties
  <2> QED
    BY <2>2, <2>3
<1> QED
  BY <1>2, <1>3, <1>4, <1>5 DEF id

LEMMA StoreBroadcastInOrder ==
  ASSUME Inv, OrderInv, NEW event \in monitor, StoreBroadcast(event)
  PROVE  OrderInv'
<1> DEFINE i == event.tx.id
           txp == event.txp
<1>1. /\ monitor' \subseteq monitor /\ UNCHANGED <<job, lockVars>>
  BY DEF StoreBroadcast
<1>2. /\ i \in Ids /\ txp \in Txp /\ txp.id = i
      /\ Settled(txp, docs) /\ txp.status = "broadcasted"
      /\ \A id \in Ids : docs'[id] = IF id = i THEN Append(docs[id], txp) ELSE docs[id]
      /\ \A id \in Ids : /\ (docs'[id] = <<>>) = (docs[id] = <<>>)
                         /\ docs[id] # <<>> => docs'[id][1] = docs[id][1]
  BY StoreBroadcastAppends
<1> HIDE DEF i, txp
<1>3. \A x : x.id \in Ids /\ Settled(x, docs) => Settled(x, docs')
  BY <1>2 DEF Settled
<1>4. \A u \in Tasks : JobInOrder(job[u], docs')
  BY <1>2, SameFirsts DEF OrderInv, Inv, TypeOK
<1>5. ASSUME NEW id \in Ids, NEW k \in 2..Len(docs'[id])
      PROVE  Settled(docs'[id][k], docs') /\ docs'[id][k].status = "broadcasted"
  <2>1. docs[id] \in Seq(Txp) /\ Len(docs[id]) \in Nat
    BY DEF Inv, TypeOK
  <2>2. \/ docs'[id][k] = txp
        \/ k \in 2..Len(docs[id]) /\ docs'[id][k] = docs[id][k]
    <3>1. CASE id # i
      BY <1>2, <1>5, <3>1
    <3>2. CASE id = i
      <4>1. docs'[id] = Append(docs[id], txp)
        BY <1>2, <3>2
      <4>2. k \in 2..(Len(docs[id]) + 1)
        BY <1>2, <1>5, <2>1, <4>1, AppendProperties
      <4>3. /\ Append(docs[id], txp)[Len(docs[id]) + 1] = txp
            /\ \A j \in 1..Len(docs[id]) : Append(docs[id], txp)[j] = docs[id][j]
        BY <1>2, <2>1, AppendProperties
      <4>4. k \in 2..Len(docs[id]) \/ k = Len(docs[id]) + 1
        BY <2>1, <4>2
      <4>5. CASE k = Len(docs[id]) + 1
        <5>1. docs'[id][k] = Append(docs[id], txp)[Len(docs[id]) + 1]
          BY <4>1, <4>5
        <5> QED
          BY <4>3, <5>1
      <4>6. CASE k \in 2..Len(docs[id])
        <5>1. k \in 1..Len(docs[id])
          BY <2>1, <4>6
        <5> QED
          BY <4>1, <4>3, <4>6, <5>1
      <4> QED
        BY <4>4, <4>5, <4>6
    <3> QED
      BY <3>1, <3>2
  <2>3. CASE docs'[id][k] = txp
    BY <1>2, <1>3, <2>3
  <2>4. CASE k \in 2..Len(docs[id]) /\ docs'[id][k] = docs[id][k]
    <3>1. docs[id][k].id = id
      <4>1. k \in 1..Len(docs[id])
        BY <2>4
      <4> QED
        BY <4>1, DocsFiled DEF Filed
    <3> QED
      BY <1>3, <2>4, <3>1 DEF OrderInv, DocsInOrder
  <2> QED
    BY <2>2, <2>3, <2>4
<1>6. \A id \in Ids : docs'[id] # <<>> /\ Published(docs'[id][1]) => Free(docs'[id][1], docs')
  BY <1>2 DEF OrderInv, DocsInOrder, Free
<1>7. DocsInOrder(docs')
  BY <1>5, <1>6 DEF DocsInOrder
<1>8. WatchInOrder(monitor', docs')
  <2>1. \A e \in monitor : e.at = "store" => e.txp.id \in Ids
    BY DEF Inv, WatchBacked, Backed, Sound, Txp
  <2>2. "monitor" \in Faults
    BY DEF OrderInv, WatchInOrder
  <2> QED
    BY <1>1, <1>3, <2>1, <2>2 DEF OrderInv, WatchInOrder
<1> QED
  BY <1>1, <1>4, <1>7, <1>8 DEF OrderInv, LockInOrder, lockVars

-----------------------------------------------------------------------------
(* All of it. *)
LEMMA InitInOrder == Init => OrderInv
<1> SUFFICES ASSUME Init PROVE OrderInv
  OBVIOUS
<1>1. LockInOrder
  BY WalletLockAssumption DEF Init, LockInit, LockInOrder, Idle, Locking
<1>2. Alone(job)
  BY DEF Init, Alone, Idle, Voting, Removals
<1>3. \A t \in Tasks : JobInOrder(job[t], docs)
  BY IdleInOrder DEF Init
<1>4. \A id \in Ids : docs[id] = <<>>
  BY DEF Init
<1>5. WatchInOrder(monitor, docs) /\ DocsInOrder(docs)
  BY <1>4 DEF Init, WatchInOrder, DocsInOrder
<1> QED
  BY <1>1, <1>2, <1>3, <1>5 DEF OrderInv

LEMMA ServeInOrder ==
  ASSUME Orderly, Inv, OrderInv, NEW t \in Tasks, Serve(t)
  PROVE  OrderInv'
BY CreateTxInOrder, PublishTxInOrder, SignTxInOrder, RejectTxInOrder, RemovePendingTxInOrder,
   RemoveTxInOrder, StoreInOrder, FetchUtxosInOrder, FetchPendingTxsInOrder,
   CheckPendingTxInOrder, CheckFailsInOrder, StorePendingTxInOrder, AnswerListInOrder,
   SelectTxInputsInOrder, VerifyInputsInOrder, BroadcastTxInOrder, SendRawTxInOrder,
   CheckTxInBlockchainInOrder
   DEF Serve

LEMMA NextInOrder ==
  ASSUME Orderly, Inv, OrderInv, [Next]_vars
  PROVE  OrderInv'
<1>1. CASE UNCHANGED vars
  BY <1>1 DEF vars, lockVars, OrderInv, LockInOrder
<1>2. ASSUME NEW t \in Tasks, NEW op \in Ops, NEW who \in Copayers, NEW id \in Ids,
             Arrive(t, op, who, id)
      PROVE  OrderInv'
  BY <1>2, ArriveInOrder
<1>3. ASSUME NEW t \in Tasks, Serve(t) \/ Busy(t) \/ LockExpires(t) \/ Crash(t)
      PROVE  OrderInv'
  BY <1>3, ServeInOrder, BusyInOrder, LockNotExpired, CrashInOrder
<1>4. ASSUME NEW id \in Ids, BroadcastOutside(id)
      PROVE  OrderInv'
  BY <1>4, BroadcastOutsideInOrder
<1>5. ASSUME NEW event \in monitor,
             DetectBroadcast(event) \/ ProcessBroadcast(event) \/ StoreBroadcast(event)
      PROVE  OrderInv'
  BY <1>5, DetectBroadcastInOrder, ProcessBroadcastInOrder, StoreBroadcastInOrder
<1> QED
  BY <1>1, <1>2, <1>3, <1>4, <1>5 DEF Next

(* Every handler that is under way can rely on what it has read. *)
THEOREM RequestsInOrder ==
  ASSUME Orderly
  PROVE  Spec => []OrderInv
<1>1. Inv /\ OrderInv /\ [Next]_vars => OrderInv'
  BY NextInOrder
<1> QED
  BY <1>1, InitInOrder, InvariantHolds, PTL DEF Spec

(* The comment of publishTx: publishing locks the inputs.  What is pending,
   accepted or broadcasted shares no input with what else is. *)
THEOREM PublishedApart ==
  ASSUME Orderly
  PROVE  Spec => []InputsExclusive
<1>1. ASSUME Inv, OrderInv PROVE InputsExclusive
  <2>1. ASSUME NEW p \in AllDocs, Published(p)
        PROVE  /\ p.id \in Ids /\ docs[p.id] # <<>> /\ docs[p.id][1].id = p.id
               /\ Published(docs[p.id][1]) /\ docs[p.id][1].inputs = p.inputs
    <3>1. p \in Txp /\ p.id \in Ids /\ docs[p.id] # <<>>
      BY <1>1, AllDocsSettled DEF Settled
    <3>2. docs[p.id][1] \in Txp /\ docs[p.id][1].id = p.id
      BY <1>1, <3>1, FirstsAreDocs
    <3>3. CASE p = docs[p.id][1]
      BY <2>1, <3>1, <3>2, <3>3
    <3>4. CASE Settled(p, docs)
      BY <2>1, <3>1, <3>2, <3>4, SameButStatus DEF Settled, Published
    <3> QED
      BY <1>1, <3>3, <3>4, AllDocsSettled
  <2>2. ASSUME NEW p \in AllDocs, NEW q \in AllDocs, p.id # q.id, Published(p), Published(q)
        PROVE  p.inputs \cap q.inputs = {}
    <3>1. Free(docs[p.id][1], docs)
      BY <1>1, <2>1, <2>2 DEF OrderInv, DocsInOrder
    <3> QED
      BY <2>1, <2>2, <3>1 DEF Free
  <2> QED
    BY <2>2 DEF InputsExclusive
<1> QED
  BY <1>1, RequestsInOrder, InvariantHolds, PTL

-----------------------------------------------------------------------------
(* The refinement.  What a copayer sees of the records with one id: *)
SeenAs(status) ==
  CASE status = "temporary" -> "draft"
    [] status = "pending" -> "open"
    [] status = "accepted" -> "approved"
    [] status = "rejected" -> "declined"
    [] status = "broadcasted" -> "spent"

View(list) ==
  IF list = <<>>
  THEN [phase |-> "none", accepts |-> {}, rejects |-> {}, inputs |-> {}]
  ELSE [phase |-> SeenAs(list[1].status),
        accepts |-> Voters(list[1], "accept"),
        rejects |-> Voters(list[1], "reject"),
        inputs |-> list[1].inputs]

LEMMA Viewed ==
  ASSUME NEW id \in Ids
  PROVE  /\ PhaseOf(id) = View(docs[id]).phase
         /\ VotersOf(id, "accept") = View(docs[id]).accepts
         /\ VotersOf(id, "reject") = View(docs[id]).rejects
         /\ (IF Found(id) THEN Fetch(id).inputs ELSE {}) = View(docs[id]).inputs
<1>1. CASE docs[id] = <<>>
  BY <1>1 DEF View, PhaseOf, VotersOf, Found
<1>2. CASE docs[id] # <<>>
  <2>1. PhaseOf(id) = SeenAs(docs[id][1].status)
    BY <1>2, Zenon DEF SeenAs, PhaseOf, Found, Fetch
  <2>2. VotersOf(id, "accept") = Voters(docs[id][1], "accept")
    BY <1>2 DEF VotersOf, Found, Fetch, Voters
  <2>3. VotersOf(id, "reject") = Voters(docs[id][1], "reject")
    BY <1>2 DEF VotersOf, Found, Fetch, Voters
  <2> QED
    BY <1>2, <2>1, <2>2, <2>3 DEF View, Found, Fetch
<1> QED
  BY <1>1, <1>2

LEMMA ViewedNext ==
  ASSUME NEW id \in Ids
  PROVE  /\ PhaseOf(id)' = View(docs'[id]).phase
         /\ VotersOf(id, "accept")' = View(docs'[id]).accepts
         /\ VotersOf(id, "reject")' = View(docs'[id]).rejects
         /\ (IF Found(id) THEN Fetch(id).inputs ELSE {})' = View(docs'[id]).inputs
<1>1. CASE docs'[id] = <<>>
  BY <1>1 DEF View, PhaseOf, VotersOf, Found
<1>2. CASE docs'[id] # <<>>
  <2>1. PhaseOf(id)' = SeenAs(docs'[id][1].status)
    BY <1>2, Zenon DEF SeenAs, PhaseOf, Found, Fetch
  <2>2. VotersOf(id, "accept")' = Voters(docs'[id][1], "accept")
    BY <1>2 DEF VotersOf, Found, Fetch, Voters
  <2>3. VotersOf(id, "reject")' = Voters(docs'[id][1], "reject")
    BY <1>2 DEF VotersOf, Found, Fetch, Voters
  <2> QED
    BY <1>2, <2>1, <2>2, <2>3 DEF View, Found, Fetch
<1> QED
  BY <1>1, <1>2

(* The variables of Agreement, as Proposals maps them. *)
SeenPhase == [id \in Ids |-> PhaseOf(id)]
SeenAccepts == [id \in Ids |-> VotersOf(id, "accept")]
SeenRejects == [id \in Ids |-> VotersOf(id, "reject")]
SeenInputs == [id \in Ids |-> IF Found(id) THEN Fetch(id).inputs ELSE {}]

LEMMA Mapped ==
  ASSUME NEW id \in Ids
  PROVE  /\ SeenPhase[id] = View(docs[id]).phase
         /\ SeenAccepts[id] = View(docs[id]).accepts
         /\ SeenRejects[id] = View(docs[id]).rejects
         /\ SeenInputs[id] = View(docs[id]).inputs
BY Viewed DEF SeenPhase, SeenAccepts, SeenRejects, SeenInputs

(* Each of them changes for one id, or stays. *)
OnlyChanges(id) ==
  \A other \in Ids \ {id} : View(docs'[other]) = View(docs[other])

LEMMA MapChanges ==
  ASSUME NEW id \in Ids, OnlyChanges(id)
  PROVE  /\ SeenPhase' = [SeenPhase EXCEPT ![id] = View(docs'[id]).phase]
         /\ SeenAccepts' = [SeenAccepts EXCEPT ![id] = View(docs'[id]).accepts]
         /\ SeenRejects' = [SeenRejects EXCEPT ![id] = View(docs'[id]).rejects]
         /\ SeenInputs' = [SeenInputs EXCEPT ![id] = View(docs'[id]).inputs]
<1>1. \A x \in Ids : PhaseOf(x)' = IF x = id THEN View(docs'[id]).phase ELSE PhaseOf(x)
  BY Viewed, ViewedNext DEF OnlyChanges
<1>2. \A x \in Ids : VotersOf(x, "accept")'
        = IF x = id THEN View(docs'[id]).accepts ELSE VotersOf(x, "accept")
  BY Viewed, ViewedNext DEF OnlyChanges
<1>3. \A x \in Ids : VotersOf(x, "reject")'
        = IF x = id THEN View(docs'[id]).rejects ELSE VotersOf(x, "reject")
  BY Viewed, ViewedNext DEF OnlyChanges
<1>4. \A x \in Ids : (IF Found(x) THEN Fetch(x).inputs ELSE {})'
        = IF x = id THEN View(docs'[id]).inputs
                    ELSE IF Found(x) THEN Fetch(x).inputs ELSE {}
  BY Viewed, ViewedNext DEF OnlyChanges
<1>5. SeenPhase' = [SeenPhase EXCEPT ![id] = View(docs'[id]).phase]
  BY <1>1 DEF SeenPhase
<1>6. SeenAccepts' = [SeenAccepts EXCEPT ![id] = View(docs'[id]).accepts]
  BY <1>2 DEF SeenAccepts
<1>7. SeenRejects' = [SeenRejects EXCEPT ![id] = View(docs'[id]).rejects]
  BY <1>3 DEF SeenRejects
<1>8. SeenInputs' = [SeenInputs EXCEPT ![id] = View(docs'[id]).inputs]
  BY <1>4 DEF SeenInputs
<1> QED
  BY <1>5, <1>6, <1>7, <1>8

LEMMA MapStays ==
  ASSUME NEW id \in Ids, OnlyChanges(id)
  PROVE  /\ View(docs'[id]).phase = View(docs[id]).phase => SeenPhase' = SeenPhase
         /\ View(docs'[id]).accepts = View(docs[id]).accepts => SeenAccepts' = SeenAccepts
         /\ View(docs'[id]).rejects = View(docs[id]).rejects => SeenRejects' = SeenRejects
         /\ View(docs'[id]).inputs = View(docs[id]).inputs => SeenInputs' = SeenInputs
<1>1. \A f, v : f = [x \in Ids |-> f[x]] /\ v = f[id] => [f EXCEPT ![id] = v] = f
  OBVIOUS
<1>2. /\ SeenPhase = [x \in Ids |-> SeenPhase[x]]
      /\ SeenAccepts = [x \in Ids |-> SeenAccepts[x]]
      /\ SeenRejects = [x \in Ids |-> SeenRejects[x]]
      /\ SeenInputs = [x \in Ids |-> SeenInputs[x]]
  BY DEF SeenPhase, SeenAccepts, SeenRejects, SeenInputs
<1> QED
  BY <1>1, <1>2, MapChanges, Mapped

(* The steps of Agreement, by what they look like in the records. *)
LEMMA SeesNothing ==
  ASSUME \A id \in Ids : View(docs'[id]) = View(docs[id])
  PROVE  UNCHANGED Promise!agreementVars
<1>1. SeenPhase' = SeenPhase /\ SeenAccepts' = SeenAccepts /\ SeenRejects' = SeenRejects /\ SeenInputs' = SeenInputs
  BY Viewed, ViewedNext DEF SeenPhase, SeenAccepts, SeenRejects, SeenInputs
<1> QED
  BY <1>1 DEF Promise!agreementVars, SeenPhase, SeenAccepts, SeenRejects, SeenInputs

LEMMA SeesDraft ==
  ASSUME NEW id \in Ids, OnlyChanges(id), docs[id] = <<>>,
         docs'[id] # <<>>, docs'[id][1].status = "temporary", docs'[id][1].actions = <<>>,
         NEW wanted, docs'[id][1].inputs = wanted
  PROVE  Promise!Draft(id, wanted)
<1>1. \A type : Voters(docs'[id][1], type) = {}
  BY DEF Voters, Votes
<1>2. /\ View(docs[id]).phase = "none"
      /\ View(docs[id]).accepts = {} /\ View(docs[id]).rejects = {}
  BY DEF View
<1>3. /\ View(docs'[id]).phase = "draft" /\ View(docs'[id]).inputs = wanted
      /\ View(docs'[id]).accepts = {} /\ View(docs'[id]).rejects = {}
  BY <1>1 DEF View, SeenAs
<1>4. /\ SeenPhase[id] = "none"
      /\ SeenPhase' = [SeenPhase EXCEPT ![id] = "draft"]
      /\ SeenInputs' = [SeenInputs EXCEPT ![id] = wanted]
      /\ SeenAccepts' = SeenAccepts /\ SeenRejects' = SeenRejects
  BY <1>2, <1>3, Mapped, MapChanges, MapStays
<1> QED
  BY <1>4 DEF Promise!Draft, SeenPhase, SeenAccepts, SeenRejects, SeenInputs

LEMMA SeesOpen ==
  ASSUME NEW id \in Ids, OnlyChanges(id), docs[id] # <<>>, docs'[id] # <<>>,
         docs[id][1].status = "temporary", docs'[id][1].status = "pending",
         docs'[id][1].actions = docs[id][1].actions, docs'[id][1].inputs = docs[id][1].inputs,
         docs[id][1].id = id, Free(docs[id][1], docs),
         \A other \in Ids : docs[other] # <<>> => docs[other][1].status \in Statuses
  PROVE  Promise!Open(id)
<1>1. \A type : Voters(docs'[id][1], type) = Voters(docs[id][1], type)
  BY DEF Voters, Votes
<1>2. View(docs[id]).phase = "draft" /\ View(docs'[id]).phase = "open"
  BY DEF View, SeenAs
<1>3. /\ View(docs'[id]).accepts = View(docs[id]).accepts
      /\ View(docs'[id]).rejects = View(docs[id]).rejects
      /\ View(docs'[id]).inputs = View(docs[id]).inputs
  BY <1>1 DEF View
<1>4. ASSUME NEW other \in Ids \ {id}, View(docs[other]).phase \in {"open", "approved", "spent"}
      PROVE  View(docs[other]).inputs \cap View(docs[id]).inputs = {}
  <2>1. docs[other] # <<>> /\ Published(docs[other][1])
    BY <1>4 DEF View, SeenAs, Published, Statuses
  <2> QED
    BY <2>1 DEF View, Free
<1>5. /\ SeenPhase[id] = "draft"
      /\ SeenPhase' = [SeenPhase EXCEPT ![id] = "open"]
      /\ SeenAccepts' = SeenAccepts /\ SeenRejects' = SeenRejects /\ SeenInputs' = SeenInputs
  BY <1>2, <1>3, Mapped, MapChanges, MapStays
<1>6. \A other \in Ids \ {id} :
        SeenPhase[other] \in {"open", "approved", "spent"} => SeenInputs[other] \cap SeenInputs[id] = {}
  BY <1>4, Mapped
<1> QED
  BY <1>5, <1>6 DEF Promise!Open, Promise!Claimed, SeenPhase, SeenAccepts, SeenRejects, SeenInputs

(* Agreement counts as FiniteSets does. *)
LEMMA SameCount == \A S : Promise!Cardinality(S) = Cardinality(S)
BY DEF Promise!Cardinality, Cardinality

(* The verdict on a vote that made the accepts or the rejects what they are. *)
LEMMA SeesAccept ==
  ASSUME NEW id \in Ids, OnlyChanges(id), docs[id] # <<>>, docs'[id] # <<>>,
         docs[id][1].status = "pending", NEW c \in Copayers,
         c \notin Voters(docs[id][1], "accept") \cup Voters(docs[id][1], "reject"),
         Voters(docs'[id][1], "accept") = Voters(docs[id][1], "accept") \cup {c},
         Voters(docs'[id][1], "reject") = Voters(docs[id][1], "reject"),
         docs'[id][1].inputs = docs[id][1].inputs,
         docs'[id][1].status = IF Cardinality(Voters(docs'[id][1], "accept")) >= M
                               THEN "accepted" ELSE "pending"
  PROVE  Promise!Accept(id, c)
<1> DEFINE accepts == Voters(docs[id][1], "accept") \cup {c}
           verdict == IF Cardinality(accepts) >= M THEN "approved" ELSE "open"
<1>1. /\ View(docs[id]).phase = "open"
      /\ View(docs[id]).accepts = Voters(docs[id][1], "accept")
      /\ View(docs[id]).rejects = Voters(docs[id][1], "reject")
  BY DEF View, SeenAs
<1>2. /\ View(docs'[id]).accepts = accepts
      /\ View(docs'[id]).rejects = View(docs[id]).rejects
      /\ View(docs'[id]).inputs = View(docs[id]).inputs
  BY DEF View
<1>3. View(docs'[id]).phase = verdict
  BY DEF View, SeenAs
<1> HIDE DEF verdict
<1>4. /\ SeenPhase[id] = "open"
      /\ c \notin SeenAccepts[id] \cup SeenRejects[id]
      /\ SeenPhase' = [SeenPhase EXCEPT ![id] = verdict]
      /\ SeenAccepts' = [SeenAccepts EXCEPT ![id] = @ \cup {c}]
      /\ SeenRejects' = SeenRejects /\ SeenInputs' = SeenInputs
  BY <1>1, <1>2, <1>3, Mapped, MapChanges, MapStays
<1>5. SeenAccepts'[id] = accepts
  BY <1>2, MapChanges DEF SeenAccepts
<1>6. SeenPhase' = [SeenPhase EXCEPT ![id] = IF Cardinality(SeenAccepts'[id]) >= M THEN "approved" ELSE @]
  BY <1>4, <1>5 DEF verdict
<1> QED
  BY <1>4, <1>6, SameCount DEF Promise!Accept, SeenPhase, SeenAccepts, SeenRejects, SeenInputs

LEMMA SeesDecline ==
  ASSUME NEW id \in Ids, OnlyChanges(id), docs[id] # <<>>, docs'[id] # <<>>,
         docs[id][1].status = "pending", NEW c \in Copayers,
         c \notin Voters(docs[id][1], "accept") \cup Voters(docs[id][1], "reject"),
         Voters(docs'[id][1], "reject") = Voters(docs[id][1], "reject") \cup {c},
         Voters(docs'[id][1], "accept") = Voters(docs[id][1], "accept"),
         docs'[id][1].inputs = docs[id][1].inputs,
         docs'[id][1].status = IF \/ Cardinality(Voters(docs'[id][1], "reject")) >= M
                                  \/ Cardinality(Copayers \ Voters(docs'[id][1], "reject")) < M
                               THEN "rejected" ELSE "pending"
  PROVE  Promise!Decline(id, c)
<1> DEFINE rejects == Voters(docs[id][1], "reject") \cup {c}
           verdict == IF Cardinality(rejects) >= M \/ Cardinality(Copayers \ rejects) < M
                      THEN "declined" ELSE "open"
<1>1. /\ View(docs[id]).phase = "open"
      /\ View(docs[id]).accepts = Voters(docs[id][1], "accept")
      /\ View(docs[id]).rejects = Voters(docs[id][1], "reject")
  BY DEF View, SeenAs
<1>2. /\ View(docs'[id]).rejects = rejects
      /\ View(docs'[id]).accepts = View(docs[id]).accepts
      /\ View(docs'[id]).inputs = View(docs[id]).inputs
  BY DEF View
<1>3. View(docs'[id]).phase = verdict
  BY DEF View, SeenAs
<1> HIDE DEF verdict
<1>4. /\ SeenPhase[id] = "open"
      /\ c \notin SeenAccepts[id] \cup SeenRejects[id]
      /\ SeenPhase' = [SeenPhase EXCEPT ![id] = verdict]
      /\ SeenRejects' = [SeenRejects EXCEPT ![id] = @ \cup {c}]
      /\ SeenAccepts' = SeenAccepts /\ SeenInputs' = SeenInputs
  BY <1>1, <1>2, <1>3, Mapped, MapChanges, MapStays
<1>5. SeenRejects'[id] = rejects
  BY <1>2, MapChanges DEF SeenRejects
<1>6. SeenPhase' = [SeenPhase EXCEPT ![id] =
                  IF \/ Cardinality(SeenRejects'[id]) >= M
                     \/ Cardinality(Copayers \ SeenRejects'[id]) < M
                  THEN "declined" ELSE @]
  BY <1>4, <1>5 DEF verdict
<1> QED
  BY <1>4, <1>6, SameCount DEF Promise!Decline, SeenPhase, SeenAccepts, SeenRejects, SeenInputs

LEMMA SeesSpend ==
  ASSUME NEW id \in Ids, OnlyChanges(id), docs[id] # <<>>, docs'[id] # <<>>,
         docs[id][1].status = "accepted", docs'[id][1].status = "broadcasted",
         docs'[id][1].actions = docs[id][1].actions, docs'[id][1].inputs = docs[id][1].inputs
  PROVE  Promise!Spend(id)
<1>1. \A type : Voters(docs'[id][1], type) = Voters(docs[id][1], type)
  BY DEF Voters, Votes
<1>2. /\ View(docs[id]).phase = "approved" /\ View(docs'[id]).phase = "spent"
      /\ View(docs'[id]).accepts = View(docs[id]).accepts
      /\ View(docs'[id]).rejects = View(docs[id]).rejects
      /\ View(docs'[id]).inputs = View(docs[id]).inputs
  BY <1>1 DEF View, SeenAs
<1>3. /\ SeenPhase[id] = "approved"
      /\ SeenPhase' = [SeenPhase EXCEPT ![id] = "spent"]
      /\ SeenAccepts' = SeenAccepts /\ SeenRejects' = SeenRejects /\ SeenInputs' = SeenInputs
  BY <1>2, Mapped, MapChanges, MapStays
<1> QED
  BY <1>3 DEF Promise!Spend, SeenPhase, SeenAccepts, SeenRejects, SeenInputs

LEMMA SeesWithdraw ==
  ASSUME NEW id \in Ids, OnlyChanges(id), docs[id] # <<>>, docs'[id] = <<>>,
         docs[id][1].status \in {"pending", "accepted"}
  PROVE  Promise!Withdraw(id)
<1>1. View(docs[id]).phase \in {"open", "approved"}
  BY DEF View, SeenAs
<1>2. /\ View(docs'[id]).phase = "none" /\ View(docs'[id]).inputs = {}
      /\ View(docs'[id]).accepts = {} /\ View(docs'[id]).rejects = {}
  BY DEF View
<1>3. /\ SeenPhase[id] \in {"open", "approved"}
      /\ SeenPhase' = [SeenPhase EXCEPT ![id] = "none"]
      /\ SeenAccepts' = [SeenAccepts EXCEPT ![id] = {}]
      /\ SeenRejects' = [SeenRejects EXCEPT ![id] = {}]
      /\ SeenInputs' = [SeenInputs EXCEPT ![id] = {}]
  BY <1>1, <1>2, Mapped, MapChanges
<1> QED
  BY <1>3 DEF Promise!Withdraw, SeenPhase, SeenAccepts, SeenRejects, SeenInputs

-----------------------------------------------------------------------------
(* Which step of Agreement each write is.  storeTx: *)
LEMMA FirstSound ==
  ASSUME Inv, NEW id \in Ids, docs[id] # <<>>
  PROVE  /\ Sound(docs[id][1]) /\ docs[id][1].id = id /\ docs[id][1] \in Txp
         /\ docs[id][1].status \in Statuses
BY FetchBacked DEF Found, Fetch, Backed, Txp

LEMMA WrittenOnly ==
  ASSUME NEW txp \in Txp, Written(docs, docs', txp)
  PROVE  OnlyChanges(txp.id) /\ docs'[txp.id] # <<>> /\ docs'[txp.id][1] = txp
BY DEF OnlyChanges, Written

LEMMA SpendsOnce ==
  ASSUME Inv, NEW txp \in Txp, Written(docs, docs', txp), Spends(docs, txp)
  PROVE  [Promise!AgreementNext]_Promise!agreementVars
<1> DEFINE id == txp.id
           old == docs[id][1]
<1>1. id \in Ids /\ OnlyChanges(id) /\ docs'[id] # <<>> /\ docs'[id][1] = txp
  BY WrittenOnly DEF Txp
<1>2. /\ docs[id] # <<>> /\ old.status \in {"accepted", "broadcasted"}
      /\ txp.status = "broadcasted" /\ SetBroadcasted(txp) = SetBroadcasted(old)
  BY DEF Spends, Settled
<1>3. old \in Txp /\ txp.inputs = old.inputs /\ txp.actions = old.actions
  BY <1>1, <1>2, FirstSound, SameButStatus
<1> HIDE DEF id
<1>4. CASE old.status = "accepted"
  BY <1>1, <1>2, <1>3, <1>4, SeesSpend DEF Promise!AgreementNext
<1>5. CASE old.status = "broadcasted"
  <2>1. \A type : Voters(txp, type) = Voters(old, type)
    BY <1>3 DEF Voters, Votes
  <2>2. View(docs'[id]) = View(docs[id])
    BY <1>1, <1>2, <1>3, <1>5, <2>1 DEF View
  <2> QED
    BY <1>1, <2>2, SeesNothing DEF OnlyChanges
<1> QED
  BY <1>2, <1>4, <1>5

LEMMA VotesOnce ==
  ASSUME Inv, NEW j \in Job, InVote(j, docs), j.op \in Voting,
         j.txp \in Txp, Written(docs, docs', j.txp), j.txp.id = j.id
  PROVE  Promise!Accept(j.id, j.who) \/ Promise!Decline(j.id, j.who)
<1> DEFINE id == j.id
           old == docs[id][1]
<1>1. /\ id \in Ids /\ j.who \in Copayers /\ OnlyChanges(id)
      /\ docs'[id] # <<>> /\ docs'[id][1] = j.txp
  BY WrittenOnly DEF Job
<1>2. /\ docs[id] # <<>> /\ old.status = "pending" /\ ~Voted(old, j.who)
      /\ j.txp = IF j.op = "sign" THEN Sign(old, j.who) ELSE Reject(old, j.who)
  BY DEF InVote
<1>3. Sound(old)
  BY <1>1, <1>2, FirstSound
<1>4. j.who \notin Voters(old, "accept") \cup Voters(old, "reject")
  BY <1>2 DEF Voted, Voters, Votes
<1> HIDE DEF id
<1>5. CASE j.op = "sign"
  <2>1. j.txp = Sign(old, j.who)
    BY <1>2, <1>5
  <2>2. /\ j.txp.inputs = old.inputs
        /\ Voters(j.txp, "accept") = Voters(old, "accept") \cup {j.who}
        /\ Voters(j.txp, "reject") = Voters(old, "reject")
        /\ j.txp.status = IF Cardinality(Voters(j.txp, "accept")) >= M
                          THEN "accepted" ELSE "pending"
    BY <1>1, <1>2, <1>3, <2>1, SignDecides
  <2> QED
    BY <1>1, <1>2, <1>4, <2>2, SeesAccept DEF id
<1>6. CASE j.op # "sign"
  <2>1. j.txp = Reject(old, j.who)
    BY <1>2, <1>6
  <2>2. /\ j.txp.inputs = old.inputs
        /\ Voters(j.txp, "reject") = Voters(old, "reject") \cup {j.who}
        /\ Voters(j.txp, "accept") = Voters(old, "accept")
        /\ j.txp.status = IF \/ Cardinality(Voters(j.txp, "reject")) >= M
                             \/ Cardinality(Copayers \ Voters(j.txp, "reject")) < M
                          THEN "rejected" ELSE "pending"
    <3> HIDE DEF old
    <3>1. Sound(old) /\ old.status = "pending" /\ ~Voted(old, j.who) /\ j.who \in Copayers
      BY <1>1, <1>2, <1>3
    <3> DEFINE new == Reject(old, j.who)
    <3>2. /\ new.inputs = old.inputs
          /\ Voters(new, "reject") = Voters(old, "reject") \cup {j.who}
          /\ Voters(new, "accept") = Voters(old, "accept")
          /\ new.status = IF \/ Cardinality(Voters(new, "reject")) >= M
                             \/ Cardinality(Copayers \ Voters(new, "reject")) < M
                          THEN "rejected" ELSE "pending"
      BY <3>1, RejectDecides
    <3>3. j.txp = new
      BY <2>1
    <3> HIDE DEF new
    <3> QED
      BY <3>2, <3>3
  <2> QED
    BY <1>1, <1>2, <1>4, <2>2, SeesDecline DEF id
<1> QED
  BY <1>5, <1>6

LEMMA StorePromised ==
  ASSUME Inv, OrderInv, NEW t \in Tasks, Store(t)
  PROVE  [Promise!AgreementNext]_Promise!agreementVars
<1> DEFINE j == job[t]
           txp == j.txp
           id == txp.id
<1>1. /\ j.at = "store" /\ StoreTx(txp)
      /\ j \in Job /\ txp \in Txp /\ Sound(txp) /\ WriteInOrder(docs, txp)
      /\ JobInOrder(j, docs)
  BY StoreWrites DEF Store, OrderInv
<1>2. /\ j.op \in Voting \cup {"create", "publish", "broadcast"}
      /\ j.op # "broadcast" => id = j.id
      /\ j.op = "create" => Drafts(docs, txp)
      /\ j.op = "publish" => Opens(docs, txp)
      /\ j.op = "broadcast" => Spends(docs, txp)
  BY <1>1, StoreWrites DEF JobInOrder, Stage
<1>3. Written(docs, docs', txp) /\ id \in Ids
  BY <1>1, StoreTxWrites DEF Txp
<1>4. OnlyChanges(id) /\ docs'[id] # <<>> /\ docs'[id][1] = txp
  BY <1>1, <1>3, WrittenOnly
<1> HIDE DEF j, txp, id
<1>5. CASE j.op = "create"
  <2>1. docs[id] = <<>> /\ txp = Create(j.id, j.who, txp.inputs)
    BY <1>1, <1>2, <1>5 DEF Drafts, id, txp, JobInOrder, Drafting
  <2>2. txp.status = "temporary" /\ txp.actions = <<>> /\ txp.inputs \in SUBSET Utxos
    BY <1>1, <2>1 DEF Create, Txp
  <2>3. Promise!Draft(id, txp.inputs)
    BY <1>3, <1>4, <2>1, <2>2, SeesDraft
  <2> QED
    BY <1>3, <2>2, <2>3 DEF Promise!AgreementNext
<1>6. CASE j.op = "publish"
  <2> DEFINE old == docs[id][1]
  <2>1. /\ docs[id] # <<>> /\ old.status = "temporary"
        /\ txp = [old EXCEPT !.status = "pending"] /\ Free(txp, docs)
    BY <1>2, <1>6 DEF Opens, id
  <2>2. old \in Txp /\ old.id = id
    BY <1>3, <2>1, FirstSound
  <2>3. /\ txp.status = "pending" /\ txp.actions = old.actions /\ txp.inputs = old.inputs
        /\ txp.id = old.id
    BY <2>1, <2>2 DEF Txp
  <2>4. Free(old, docs)
    BY <2>1, <2>3 DEF Free
  <2>5. \A other \in Ids : docs[other] # <<>> => docs[other][1].status \in Statuses
    BY FirstSound
  <2>6. Promise!Open(id)
    BY <1>3, <1>4, <2>1, <2>2, <2>3, <2>4, <2>5, SeesOpen
  <2> QED
    BY <1>3, <2>6 DEF Promise!AgreementNext
<1>7. CASE j.op \in Voting
  <2>1. j.id = id /\ InVote(j, docs) /\ j.who \in Copayers
    BY <1>1, <1>2, <1>7 DEF Voting, JobInOrder, Job
  <2>2. Promise!Accept(j.id, j.who) \/ Promise!Decline(j.id, j.who)
    BY <1>1, <1>3, <1>7, <2>1, VotesOnce DEF txp, id
  <2> QED
    BY <1>3, <2>1, <2>2 DEF Promise!AgreementNext
<1>8. CASE j.op = "broadcast"
  BY <1>1, <1>2, <1>3, <1>8, SpendsOnce
<1> QED
  BY <1>2, <1>5, <1>6, <1>7, <1>8

(* storeTx of a proposal that getPendingTxs found in the chain. *)
LEMMA StorePendingTxPromised ==
  ASSUME Inv, OrderInv, NEW t \in Tasks, NEW entry \in job[t].list, StorePendingTx(t, entry)
  PROVE  [Promise!AgreementNext]_Promise!agreementVars
<1>1. job[t].at = "check" /\ entry.inChain /\ StoreTx(entry.txp)
  BY DEF StorePendingTx
<1>2. job[t] \in Job /\ JobInOrder(job[t], docs)
  BY <1>1, JobOf DEF Inv, Points, OrderInv
<1>3. entry.txp \in Txp /\ Spends(docs, entry.txp)
  BY <1>1, <1>2 DEF JobInOrder, ListInOrder, Spends, Job, Listed
<1> QED
  BY <1>1, <1>3, StoreTxWrites, SpendsOnce

LEMMA RemoveTxPromised ==
  ASSUME Orderly, Inv, OrderInv, NEW t \in Tasks, RemoveTx(t)
  PROVE  [Promise!AgreementNext]_Promise!agreementVars
<1> DEFINE id == job[t].id
<1>1. job[t].at = "delete"
  BY DEF RemoveTx
<1>2. id \in Ids /\ \A other \in Ids : docs'[other] = IF other = id THEN <<>> ELSE docs[other]
  BY RemoveTxClears DEF Inv, TypeOK
<1>3. docs[id] # <<>> /\ IsPending(docs[id][1])
  BY <1>1, OneRecord DEF Removing
<1> HIDE DEF id
<1>4. docs[id][1].status \in {"pending", "accepted"}
  BY <1>2, <1>3, FirstSound DEF IsPending, Statuses
<1>5. OnlyChanges(id) /\ docs'[id] = <<>>
  BY <1>2 DEF OnlyChanges
<1>6. Promise!Withdraw(id)
  BY <1>2, <1>3, <1>4, <1>5, SeesWithdraw
<1> QED
  BY <1>2, <1>6 DEF Promise!AgreementNext

(* The insert of a monitor is not seen. *)
LEMMA StoreBroadcastPromised ==
  ASSUME Inv, OrderInv, NEW event \in monitor, StoreBroadcast(event)
  PROVE  [Promise!AgreementNext]_Promise!agreementVars
<1>1. \A id \in Ids : /\ (docs'[id] = <<>>) = (docs[id] = <<>>)
                      /\ docs[id] # <<>> => docs'[id][1] = docs[id][1]
  BY StoreBroadcastAppends
<1>2. \A id \in Ids : View(docs'[id]) = View(docs[id])
  BY <1>1 DEF View
<1> QED
  BY <1>2, SeesNothing

LEMMA OthersPromised ==
  ASSUME UNCHANGED docs
  PROVE  [Promise!AgreementNext]_Promise!agreementVars
BY SeesNothing

LEMMA NextPromised ==
  ASSUME Orderly, Inv, OrderInv, [Next]_vars
  PROVE  [Promise!AgreementNext]_Promise!agreementVars
<1>1. CASE UNCHANGED vars
  BY <1>1, OthersPromised DEF vars
<1>2. ASSUME NEW t \in Tasks, NEW op \in Ops, NEW who \in Copayers, NEW id \in Ids,
             Arrive(t, op, who, id)
      PROVE  UNCHANGED docs
  BY <1>2 DEF Arrive
<1>3. ASSUME NEW t \in Tasks, Serve(t)
      PROVE  [Promise!AgreementNext]_Promise!agreementVars
  <2>1. CASE Store(t)
    BY <2>1, StorePromised
  <2>2. ASSUME NEW entry \in job[t].list, StorePendingTx(t, entry)
        PROVE  [Promise!AgreementNext]_Promise!agreementVars
    BY <2>2, StorePendingTxPromised
  <2>3. CASE RemoveTx(t)
    BY <2>3, RemoveTxPromised
  <2>4. CASE \/ CreateTx(t) \/ PublishTx(t) \/ SignTx(t) \/ RejectTx(t) \/ RemovePendingTx(t)
             \/ FetchUtxos(t) \/ FetchPendingTxs(t) \/ AnswerList(t) \/ SelectTxInputs(t)
             \/ VerifyInputs(t) \/ BroadcastTx(t) \/ SendRawTx(t) \/ CheckTxInBlockchain(t)
             \/ \E entry \in job[t].list : CheckPendingTx(t, entry) \/ CheckFails(t, entry)
    <3>1. UNCHANGED docs
      BY <2>4 DEF CreateTx, PublishTx, SignTx, RejectTx, RemovePendingTx, FetchUtxos,
                  FetchPendingTxs, AnswerList, SelectTxInputs, VerifyInputs, BroadcastTx,
                  SendRawTx, CheckTxInBlockchain, CheckPendingTx, CheckFails
    <3> QED
      BY <3>1, OthersPromised
  <2> QED
    BY <1>3, <2>1, <2>2, <2>3, <2>4 DEF Serve
<1>4. ASSUME NEW t \in Tasks, Busy(t) \/ LockExpires(t) \/ Crash(t)
      PROVE  UNCHANGED docs
  BY <1>4 DEF Busy, LockExpires, Crash
<1>5. ASSUME NEW id \in Ids, BroadcastOutside(id)
      PROVE  UNCHANGED docs
  BY <1>5 DEF BroadcastOutside
<1>6. ASSUME NEW event \in monitor, DetectBroadcast(event) \/ ProcessBroadcast(event)
      PROVE  UNCHANGED docs
  BY <1>6 DEF DetectBroadcast, ProcessBroadcast
<1>7. ASSUME NEW event \in monitor, StoreBroadcast(event)
      PROVE  [Promise!AgreementNext]_Promise!agreementVars
  BY <1>7, StoreBroadcastPromised
<1> QED
  BY <1>1, <1>2, <1>3, <1>4, <1>5, <1>6, <1>7, OthersPromised DEF Next

LEMMA InitPromised == Init => Promise!AgreementInit
<1> SUFFICES ASSUME Init PROVE Promise!AgreementInit
  OBVIOUS
<1>1. \A id \in Ids : docs[id] = <<>>
  BY DEF Init
<1>2. \A id \in Ids : /\ PhaseOf(id) = "none"
                      /\ VotersOf(id, "accept") = {} /\ VotersOf(id, "reject") = {}
                      /\ ~Found(id)
  BY <1>1 DEF PhaseOf, VotersOf, Found
<1> QED
  BY <1>2 DEF Promise!AgreementInit

(* The handlers implement what the wallet promises: every write to a record is
   a step of Agreement, or changes nothing that a copayer sees. *)
THEOREM PromiseKept ==
  ASSUME Orderly
  PROVE  Spec => ImplementsAgreement
<1>1. Inv /\ OrderInv /\ [Next]_vars => [Promise!AgreementNext]_Promise!agreementVars
  BY NextPromised
<1> QED
  BY <1>1, InitPromised, RequestsInOrder, InvariantHolds, PTL
     DEF Spec, ImplementsAgreement, Promise!AgreementSpec
-----------------------------------------------------------------------------
(* Third, what Agreement itself guarantees, so that refining it says
   something.  Nothing below expands what Proposals maps its variables to. *)

(* AgreementTypeOK and AgreementSafe of four values. *)
Typed(ph, ac, re, ins) ==
  /\ ph \in [Ids -> {"none", "draft", "open", "approved", "declined", "spent"}]
  /\ ac \in [Ids -> SUBSET Copayers] /\ re \in [Ids -> SUBSET Copayers]
  /\ ins \in [Ids -> SUBSET Utxos]

Claims(ph, id) == ph[id] \in {"open", "approved", "spent"}
Apartness(ph, ins) ==
  \A p, q \in Ids : p # q /\ Claims(ph, p) /\ Claims(ph, q) => ins[p] \cap ins[q] = {}
Quorate(ph, ac) ==
  \A id \in Ids : ph[id] \in {"approved", "spent"} <=> Cardinality(ac[id]) >= M
Unanimous(ac, re) == \A id \in Ids : ac[id] \cap re[id] = {}
Safe(ph, ac, re, ins) ==
  Typed(ph, ac, re, ins) /\ Apartness(ph, ins) /\ Quorate(ph, ac) /\ Unanimous(ac, re)

(* The invariant of Agreement, and the same after a step, as Safe. *)
LEMMA SafeIs ==
  Promise!AgreementTypeOK /\ Promise!AgreementSafe
    <=> Safe(SeenPhase, SeenAccepts, SeenRejects, SeenInputs)
BY SameCount, Zenon
   DEF Safe, Typed, Apartness, Quorate, Unanimous, Claims, Promise!AgreementTypeOK,
       Promise!AgreementSafe, Promise!ClaimedApart, Promise!ApprovedByQuorum,
       Promise!OneVoice, Promise!Claimed, Promise!Phases,
       SeenPhase, SeenAccepts, SeenRejects, SeenInputs

(* No votes are no quorum. *)
LEMMA NobodyIsNoQuorum == ~(Cardinality({}) >= M)
BY FS_EmptySet, TxProposalAssumption, FS_CardinalityType

(* A claim is given only to inputs that nobody else claims; a phase that takes
   no claim, and inputs that are dropped with it, harm nobody. *)
LEMMA ClaimSafe ==
  ASSUME NEW ph, NEW ins, NEW ph2, NEW ins2, NEW id \in Ids,
         Apartness(ph, ins),
         \A other \in Ids \ {id} : ph2[other] = ph[other] /\ ins2[other] = ins[other],
         Claims(ph2, id) =>
           /\ ins2[id] = ins[id]
           /\ \/ Claims(ph, id)
              \/ \A other \in Ids \ {id} : Claims(ph, other) => ins[other] \cap ins[id] = {}
  PROVE  Apartness(ph2, ins2)
<1> SUFFICES ASSUME NEW p \in Ids, NEW q \in Ids, p # q, Claims(ph2, p), Claims(ph2, q)
             PROVE  ins2[p] \cap ins2[q] = {}
  BY DEF Apartness
<1>1. CASE p # id /\ q # id
  BY <1>1 DEF Apartness, Claims
<1>2. CASE p = id
  <2>1. q \in Ids \ {id} /\ Claims(ph, q) /\ ins2[q] = ins[q] /\ ins2[id] = ins[id]
    BY <1>2 DEF Claims
  <2>2. ins[id] \cap ins[q] = {}
    BY <1>2, <2>1 DEF Apartness
  <2> QED
    BY <1>2, <2>1, <2>2
<1>3. CASE q = id
  <2>1. p \in Ids \ {id} /\ Claims(ph, p) /\ ins2[p] = ins[p] /\ ins2[id] = ins[id]
    BY <1>3 DEF Claims
  <2>2. ins[p] \cap ins[id] = {}
    BY <1>3, <2>1 DEF Apartness
  <2> QED
    BY <1>3, <2>1, <2>2
<1> QED
  BY <1>1, <1>2, <1>3

(* A step of Agreement that keeps the inputs and gives id a phase, accepts and
   rejects. *)
LEMMA VerdictSafe ==
  ASSUME NEW ph, NEW ac, NEW re, NEW ins, Safe(ph, ac, re, ins), NEW id \in Ids,
         NEW phase \in {"none", "draft", "open", "approved", "declined", "spent"},
         NEW accepts \in SUBSET Copayers, NEW rejects \in SUBSET Copayers,
         NEW wanted \in SUBSET Utxos,
         phase \in {"open", "approved", "spent"} =>
           /\ wanted = ins[id]
           /\ \/ Claims(ph, id)
              \/ \A other \in Ids \ {id} : Claims(ph, other) => ins[other] \cap ins[id] = {},
         phase \in {"approved", "spent"} <=> Cardinality(accepts) >= M,
         accepts \cap rejects = {}
  PROVE  Safe([ph EXCEPT ![id] = phase], [ac EXCEPT ![id] = accepts],
              [re EXCEPT ![id] = rejects], [ins EXCEPT ![id] = wanted])
<1> DEFINE ph2 == [ph EXCEPT ![id] = phase]
           ac2 == [ac EXCEPT ![id] = accepts]
           re2 == [re EXCEPT ![id] = rejects]
           ins2 == [ins EXCEPT ![id] = wanted]
<1>1. Typed(ph, ac, re, ins) /\ Apartness(ph, ins) /\ Quorate(ph, ac) /\ Unanimous(ac, re)
  BY DEF Safe
<1>2. Typed(ph2, ac2, re2, ins2)
  BY <1>1 DEF Typed
<1>3. /\ ph2[id] = phase /\ ac2[id] = accepts /\ re2[id] = rejects /\ ins2[id] = wanted
      /\ \A other \in Ids \ {id} : /\ ph2[other] = ph[other] /\ ac2[other] = ac[other]
                                   /\ re2[other] = re[other] /\ ins2[other] = ins[other]
  BY <1>1 DEF Typed
<1> HIDE DEF ph2, ac2, re2, ins2
<1>4. Apartness(ph2, ins2)
  <2>1. Claims(ph2, id) =>
          /\ ins2[id] = ins[id]
          /\ \/ Claims(ph, id)
             \/ \A other \in Ids \ {id} : Claims(ph, other) => ins[other] \cap ins[id] = {}
    BY <1>3, Zenon DEF Claims
  <2> QED
    BY <1>1, <1>3, <2>1, ClaimSafe
<1>5. Quorate(ph2, ac2)
  <2> SUFFICES ASSUME NEW x \in Ids
               PROVE  ph2[x] \in {"approved", "spent"} <=> Cardinality(ac2[x]) >= M
    BY DEF Quorate
  <2>1. CASE x = id
    BY <1>3, <2>1, Zenon
  <2>2. CASE x # id
    BY <1>1, <1>3, <2>2, Zenon DEF Quorate
  <2> QED
    BY <2>1, <2>2
<1>6. Unanimous(ac2, re2)
  <2> SUFFICES ASSUME NEW x \in Ids
               PROVE  ac2[x] \cap re2[x] = {}
    BY DEF Unanimous
  <2>1. CASE x = id
    BY <1>3, <2>1, Zenon
  <2>2. CASE x # id
    BY <1>1, <1>3, <2>2, Zenon DEF Unanimous
  <2> QED
    BY <2>1, <2>2
<1>7. Safe(ph2, ac2, re2, ins2)
  BY <1>2, <1>4, <1>5, <1>6 DEF Safe
<1> QED
  BY <1>7 DEF ph2, ac2, re2, ins2

SeenSafe == Safe(SeenPhase, SeenAccepts, SeenRejects, SeenInputs)

(* What is known of id before a step, and that a value put back changes nothing. *)
LEMMA SafeAt ==
  ASSUME SeenSafe, NEW id \in Ids
  PROVE  /\ SeenAccepts[id] \in SUBSET Copayers /\ SeenRejects[id] \in SUBSET Copayers
         /\ SeenInputs[id] \in SUBSET Utxos
         /\ SeenPhase[id] \in {"approved", "spent"} <=> Cardinality(SeenAccepts[id]) >= M
         /\ SeenAccepts[id] \cap SeenRejects[id] = {}
         /\ [SeenAccepts EXCEPT ![id] = SeenAccepts[id]] = SeenAccepts
         /\ [SeenRejects EXCEPT ![id] = SeenRejects[id]] = SeenRejects
         /\ [SeenInputs EXCEPT ![id] = SeenInputs[id]] = SeenInputs
<1>1. /\ SeenAccepts \in [Ids -> SUBSET Copayers] /\ SeenRejects \in [Ids -> SUBSET Copayers]
      /\ SeenInputs \in [Ids -> SUBSET Utxos]
  BY DEF SeenSafe, Safe, Typed
<1>2. /\ SeenPhase[id] \in {"approved", "spent"} <=> Cardinality(SeenAccepts[id]) >= M
      /\ SeenAccepts[id] \cap SeenRejects[id] = {}
  BY Zenon DEF SeenSafe, Safe, Quorate, Unanimous
<1> QED
  BY <1>1, <1>2

LEMMA DraftSafe ==
  ASSUME SeenSafe, NEW id \in Ids, NEW wanted \in SUBSET Utxos, Promise!Draft(id, wanted)
  PROVE  SeenSafe'
<1>1. /\ SeenPhase[id] = "none"
      /\ SeenPhase' = [SeenPhase EXCEPT ![id] = "draft"]
      /\ SeenInputs' = [SeenInputs EXCEPT ![id] = wanted]
      /\ SeenAccepts' = SeenAccepts /\ SeenRejects' = SeenRejects
  BY DEF Promise!Draft, SeenPhase, SeenAccepts, SeenRejects, SeenInputs
<1>2. ~(Cardinality(SeenAccepts[id]) >= M)
  BY <1>1, SafeAt
<1>3. Safe([SeenPhase EXCEPT ![id] = "draft"], [SeenAccepts EXCEPT ![id] = SeenAccepts[id]],
           [SeenRejects EXCEPT ![id] = SeenRejects[id]], [SeenInputs EXCEPT ![id] = wanted])
  BY <1>2, SafeAt, VerdictSafe DEF SeenSafe
<1> QED
  BY <1>1, <1>3, SafeAt DEF SeenSafe

LEMMA OpenSafe ==
  ASSUME SeenSafe, NEW id \in Ids, Promise!Open(id)
  PROVE  SeenSafe'
<1>1. /\ SeenPhase[id] = "draft"
      /\ \A other \in Ids \ {id} :
           SeenPhase[other] \in {"open", "approved", "spent"} => SeenInputs[other] \cap SeenInputs[id] = {}
      /\ SeenPhase' = [SeenPhase EXCEPT ![id] = "open"]
      /\ SeenAccepts' = SeenAccepts /\ SeenRejects' = SeenRejects /\ SeenInputs' = SeenInputs
  BY DEF Promise!Open, Promise!Claimed, SeenPhase, SeenAccepts, SeenRejects, SeenInputs
<1>2. ~(Cardinality(SeenAccepts[id]) >= M)
  BY <1>1, SafeAt
<1>3. \A other \in Ids \ {id} : Claims(SeenPhase, other) => SeenInputs[other] \cap SeenInputs[id] = {}
  BY <1>1 DEF Claims
<1>4. Safe([SeenPhase EXCEPT ![id] = "open"], [SeenAccepts EXCEPT ![id] = SeenAccepts[id]],
           [SeenRejects EXCEPT ![id] = SeenRejects[id]], [SeenInputs EXCEPT ![id] = SeenInputs[id]])
  BY <1>2, <1>3, SafeAt, VerdictSafe DEF SeenSafe
<1> QED
  BY <1>1, <1>4, SafeAt DEF SeenSafe

LEMMA AcceptSafe ==
  ASSUME SeenSafe, NEW id \in Ids, NEW c \in Copayers, Promise!Accept(id, c)
  PROVE  SeenSafe'
<1> DEFINE accepts == SeenAccepts[id] \cup {c}
           verdict == IF Cardinality(accepts) >= M THEN "approved" ELSE "open"
<1>1. /\ SeenPhase[id] = "open"
      /\ c \notin SeenAccepts[id] \cup SeenRejects[id]
      /\ SeenAccepts' = [SeenAccepts EXCEPT ![id] = accepts]
      /\ SeenPhase' = [SeenPhase EXCEPT ![id] =
                         IF Cardinality(SeenAccepts'[id]) >= M THEN "approved" ELSE @]
      /\ SeenRejects' = SeenRejects /\ SeenInputs' = SeenInputs
  BY SameCount DEF Promise!Accept, SeenPhase, SeenAccepts, SeenRejects, SeenInputs
<1>2. SeenAccepts'[id] = accepts
  BY <1>1 DEF SeenSafe, Safe, Typed
<1>3. SeenPhase' = [SeenPhase EXCEPT ![id] = verdict]
  BY <1>1, <1>2
<1>4. verdict \in {"approved", "spent"} <=> Cardinality(accepts) >= M
  OBVIOUS
<1>5. accepts \in SUBSET Copayers /\ accepts \cap SeenRejects[id] = {}
  BY <1>1, SafeAt
<1>6. Claims(SeenPhase, id) /\ verdict \in {"none", "draft", "open", "approved", "declined", "spent"}
  BY <1>1 DEF Claims
<1> HIDE DEF accepts, verdict
<1>7. Safe([SeenPhase EXCEPT ![id] = verdict], [SeenAccepts EXCEPT ![id] = accepts],
           [SeenRejects EXCEPT ![id] = SeenRejects[id]], [SeenInputs EXCEPT ![id] = SeenInputs[id]])
  BY <1>4, <1>5, <1>6, SafeAt, VerdictSafe DEF SeenSafe
<1> QED
  BY <1>1, <1>3, <1>7, SafeAt DEF SeenSafe

LEMMA DeclineSafe ==
  ASSUME SeenSafe, NEW id \in Ids, NEW c \in Copayers, Promise!Decline(id, c)
  PROVE  SeenSafe'
<1> DEFINE rejects == SeenRejects[id] \cup {c}
           verdict == SeenPhase'[id]
<1>1. /\ SeenPhase[id] = "open"
      /\ c \notin SeenAccepts[id] \cup SeenRejects[id]
      /\ SeenRejects' = [SeenRejects EXCEPT ![id] = rejects]
      /\ \E v \in {"open", "declined"} : SeenPhase' = [SeenPhase EXCEPT ![id] = v]
      /\ SeenAccepts' = SeenAccepts /\ SeenInputs' = SeenInputs
  BY DEF Promise!Decline, SeenPhase, SeenAccepts, SeenRejects, SeenInputs
<1>2. PICK v \in {"open", "declined"} : SeenPhase' = [SeenPhase EXCEPT ![id] = v]
  BY <1>1
<1>3. ~(Cardinality(SeenAccepts[id]) >= M) /\ Claims(SeenPhase, id)
  BY <1>1, SafeAt DEF Claims
<1>4. rejects \in SUBSET Copayers /\ SeenAccepts[id] \cap rejects = {}
  BY <1>1, SafeAt
<1>5. v \in {"none", "draft", "open", "approved", "declined", "spent"} /\ ~(v \in {"approved", "spent"})
  BY <1>2
<1> HIDE DEF rejects
<1>6. Safe([SeenPhase EXCEPT ![id] = v], [SeenAccepts EXCEPT ![id] = SeenAccepts[id]],
           [SeenRejects EXCEPT ![id] = rejects], [SeenInputs EXCEPT ![id] = SeenInputs[id]])
  BY <1>3, <1>4, <1>5, SafeAt, VerdictSafe DEF SeenSafe
<1> QED
  BY <1>1, <1>2, <1>6, SafeAt DEF SeenSafe

LEMMA SpendSafe ==
  ASSUME SeenSafe, NEW id \in Ids, Promise!Spend(id)
  PROVE  SeenSafe'
<1>1. /\ SeenPhase[id] = "approved"
      /\ SeenPhase' = [SeenPhase EXCEPT ![id] = "spent"]
      /\ SeenAccepts' = SeenAccepts /\ SeenRejects' = SeenRejects /\ SeenInputs' = SeenInputs
  BY DEF Promise!Spend, SeenPhase, SeenAccepts, SeenRejects, SeenInputs
<1>2. Cardinality(SeenAccepts[id]) >= M /\ Claims(SeenPhase, id)
  BY <1>1, SafeAt DEF Claims
<1>3. Safe([SeenPhase EXCEPT ![id] = "spent"], [SeenAccepts EXCEPT ![id] = SeenAccepts[id]],
           [SeenRejects EXCEPT ![id] = SeenRejects[id]], [SeenInputs EXCEPT ![id] = SeenInputs[id]])
  BY <1>2, SafeAt, VerdictSafe DEF SeenSafe
<1> QED
  BY <1>1, <1>3, SafeAt DEF SeenSafe

LEMMA WithdrawSafe ==
  ASSUME SeenSafe, NEW id \in Ids, Promise!Withdraw(id)
  PROVE  SeenSafe'
<1>1. /\ SeenPhase' = [SeenPhase EXCEPT ![id] = "none"]
      /\ SeenAccepts' = [SeenAccepts EXCEPT ![id] = {}]
      /\ SeenRejects' = [SeenRejects EXCEPT ![id] = {}]
      /\ SeenInputs' = [SeenInputs EXCEPT ![id] = {}]
  BY DEF Promise!Withdraw, SeenPhase, SeenAccepts, SeenRejects, SeenInputs
<1>2. Safe([SeenPhase EXCEPT ![id] = "none"], [SeenAccepts EXCEPT ![id] = {}],
           [SeenRejects EXCEPT ![id] = {}], [SeenInputs EXCEPT ![id] = {}])
  BY NobodyIsNoQuorum, VerdictSafe DEF SeenSafe
<1> QED
  BY <1>1, <1>2 DEF SeenSafe

LEMMA InitSafe == Promise!AgreementInit => SeenSafe
<1> SUFFICES ASSUME Promise!AgreementInit PROVE SeenSafe
  OBVIOUS
<1>1. \A id \in Ids : /\ SeenPhase[id] = "none" /\ SeenAccepts[id] = {}
                      /\ SeenRejects[id] = {} /\ SeenInputs[id] = {}
  BY DEF Promise!AgreementInit, SeenPhase, SeenAccepts, SeenRejects, SeenInputs
<1>2. Typed(SeenPhase, SeenAccepts, SeenRejects, SeenInputs)
  <2>1. /\ SeenPhase = [id \in Ids |-> SeenPhase[id]]
        /\ SeenAccepts = [id \in Ids |-> SeenAccepts[id]]
        /\ SeenRejects = [id \in Ids |-> SeenRejects[id]]
        /\ SeenInputs = [id \in Ids |-> SeenInputs[id]]
    BY DEF SeenPhase, SeenAccepts, SeenRejects, SeenInputs
  <2> QED
    BY <1>1, <2>1 DEF Typed
<1>3. Apartness(SeenPhase, SeenInputs)
  BY <1>1 DEF Apartness, Claims
<1>4. Quorate(SeenPhase, SeenAccepts)
  BY <1>1, NobodyIsNoQuorum DEF Quorate
<1>5. Unanimous(SeenAccepts, SeenRejects)
  BY <1>1 DEF Unanimous
<1> QED
  BY <1>2, <1>3, <1>4, <1>5 DEF SeenSafe, Safe

LEMMA NextSafe ==
  ASSUME SeenSafe, [Promise!AgreementNext]_Promise!agreementVars
  PROVE  SeenSafe'
<1>1. CASE UNCHANGED Promise!agreementVars
  <2>1. /\ SeenPhase' = SeenPhase /\ SeenAccepts' = SeenAccepts
        /\ SeenRejects' = SeenRejects /\ SeenInputs' = SeenInputs
    BY <1>1 DEF Promise!agreementVars, SeenPhase, SeenAccepts, SeenRejects, SeenInputs
  <2> QED
    BY <2>1 DEF SeenSafe
<1>2. CASE Promise!AgreementNext
  BY <1>2, DraftSafe, OpenSafe, AcceptSafe, DeclineSafe, SpendSafe, WithdrawSafe
     DEF Promise!AgreementNext
<1> QED
  BY <1>1, <1>2

(* Agreement is a promise worth keeping: in each of its behaviours the inputs
   of open, approved and spent proposals are apart, a proposal is approved or
   spent exactly when M copayers are for it, and nobody is on both sides. *)
THEOREM PromiseSafe ==
  Promise!AgreementSpec => [](Promise!AgreementTypeOK /\ Promise!AgreementSafe)
<1>1. SeenSafe /\ [Promise!AgreementNext]_Promise!agreementVars => SeenSafe'
  BY NextSafe
<1>2. SeenSafe => Promise!AgreementTypeOK /\ Promise!AgreementSafe
  BY SafeIs DEF SeenSafe
<1> QED
  BY <1>1, <1>2, InitSafe, PTL DEF Promise!AgreementSpec

(* What the copayers see of the handlers therefore is: the votes, the phases and
   the inputs of the records keep what Agreement guarantees. *)
THEOREM CopayersSeeSafe ==
  ASSUME Orderly
  PROVE  Spec => [](Promise!AgreementTypeOK /\ Promise!AgreementSafe)
BY PromiseKept, PromiseSafe DEF ImplementsAgreement
=============================================================================
