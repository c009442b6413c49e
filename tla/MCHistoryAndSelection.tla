----------------------- MODULE MCHistoryAndSelection -----------------------
(***************************************************************************)
(* Instances of TxHistoryCache, HistoryItems and CoinSelection for TLC.    *)
(* They have no variable in common: a behaviour is one of one of them, and *)
(* the others stay in an initial state.                                    *)
(***************************************************************************)
EXTENDS MCTxHistoryCache, MCCoinSelection, HistoryItems

(* Transactions of at most two inputs and outputs, in a block or not, of a wallet with
   one address or with many. *)
Of(owner, amount) == [owner |-> owner, amount |-> amount]
AtMostTwo(owners, first, second) ==
  {<<>>} \cup {<<Of(o, first)>> : o \in owners}
    \cup {<<Of(o[1], first), Of(o[2], second)>> : o \in owners \X owners}
SmallItems ==
  {item \in [inputs : AtMostTwo({"main", "nobody"}, 5, 4),
             outputs : AtMostTwo({"main", "change", "nobody"}, 3, 2),
             singleAddress : BOOLEAN, blockheight : {-1, 1}, confirmations : {7}] :
     /\ item.inputs # <<>> => Fees(item) >= 0
     /\ Mine(item.inputs) \cup Mine(item.outputs) # {} \/ Invalid(item)}

VARIABLE part

allVars == <<vars, itemVars, selectionVars, part>>

(* The others, with nothing to do. *)
NoRequests == Init /\ tip = 0
NoCoins == SelectionInit /\ utxos = <<>> /\ opts = Payment(10000, 10000)

EitherInit ==
  \/ part = "history" /\ Init /\ ItemsInit /\ NoCoins
  \/ part = "items" /\ ItemsInit /\ NoRequests /\ NoCoins
  \/ part = "selection" /\ SelectionInit /\ NoRequests /\ ItemsInit

EitherNext ==
  \/ part = "history" /\ Next /\ UNCHANGED <<itemVars, selectionVars, part>>
  \/ part = "items" /\ ItemsNext /\ UNCHANGED <<vars, selectionVars, part>>
  \/ part = "selection" /\ SelectionNext /\ UNCHANGED <<vars, itemVars, part>>

EitherSpec == EitherInit /\ [][EitherNext]_allVars
=============================================================================
