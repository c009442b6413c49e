---------------------------- MODULE HistoryItems ----------------------------
(***************************************************************************)
(* What getTxHistory tells of a transaction: whether the wallet sent it,   *)
(* received it or moved its own coins, the amount (decorate), and, for one *)
(* from the history cache, its confirmations, by a height of the chain     *)
(* that the process keeps for some minutes and forgets when it is told of  *)
(* a new block.  A behaviour ends with the first item.                     *)
(***************************************************************************)
EXTENDS Integers, Sequences, FiniteSets, FiniteSetsExt

CONSTANTS Items,     \* the transactions that may be asked for
          Callers,   \* bound: requests at a time
          MaxHeight, \* bound: blocks
          MaxMisses  \* bound: answers of the explorer that fail and messages that get lost

Owners == {"main", "change", "nobody"} \* isMine and isChange of an address

(* A transaction: the fee is what its outputs leave of its inputs. *)
Part == [owner : Owners, amount : Nat]
Item == [inputs : Seq(Part), outputs : Seq(Part),
         singleAddress : BOOLEAN, \* of the wallet
         blockheight : Int, confirmations : Nat] \* when it was cached

Sum(parts, places) == MapThenSumSet(LAMBDA i : parts[i].amount, places)
Total(parts) == Sum(parts, DOMAIN parts)
Fees(item) == Total(item.inputs) - Total(item.outputs)

(* Only a coinbase makes coins, and it has no input. *)
ASSUME HistoryItemsAssumption ==
  /\ Items \subseteq Item
  /\ \A item \in Items : item.inputs # <<>> => Fees(item) >= 0
  /\ MaxHeight \in Nat \ {0} /\ MaxMisses \in Nat

VARIABLES chain,  \* the height of the chain
          cachedHeight, \* _cachedBlockheight: current and last, 0 without; updatedOn
          calls,  \* the requests
          untold, \* messages of new blocks on the way to the process
          mark,   \* history: the height when the last BLOCKHEIGHT_CACHE_TIME began
          misses,
          answer  \* the first item, and the request that gave it

itemVars == <<chain, cachedHeight, calls, untold, mark, misses, answer>>

(* updatedOn and now are in this period or before it. *)
Call == [at : {"idle", "explorer", "store", "done"}, height : 0..MaxHeight,
         now : BOOLEAN, \* it began in this period
         since : 0..MaxHeight, missed : BOOLEAN] \* history

Unasked == [at |-> "idle", height |-> 0, now |-> TRUE, since |-> 0, missed |-> FALSE]

ItemsTypeOK ==
  /\ chain \in 1..MaxHeight
  /\ cachedHeight \in [current : 0..MaxHeight, last : 0..MaxHeight, now : BOOLEAN]
  /\ calls \in [Callers -> Call]
  /\ untold \in 0..MaxHeight /\ mark \in 0..MaxHeight /\ misses \in 0..MaxMisses

ItemsInit ==
  /\ chain = 1
  /\ cachedHeight = [current |-> 0, last |-> 0, now |-> FALSE]
  /\ calls = [r \in Callers |-> Unasked]
  /\ untold = 0 /\ mark = 1 /\ misses = 0
  /\ answer = <<>>

-----------------------------------------------------------------------------
(* _getBlockchainHeight *)

MineBlock ==
  /\ chain < MaxHeight
  /\ chain' = chain + 1 /\ untold' = untold + 1
  /\ UNCHANGED <<cachedHeight, calls, mark, misses, answer>>

(* _clearBlockchainHeightCache, for the message of a block. *)
ClearHeight ==
  /\ untold > 0
  /\ untold' = untold - 1
  /\ cachedHeight' = [cachedHeight EXCEPT !.current = 0]
  /\ UNCHANGED <<chain, calls, mark, misses, answer>>

Miss == misses < MaxMisses /\ misses' = misses + 1

LoseNewBlock ==
  /\ untold > 0 /\ Miss
  /\ untold' = untold - 1
  /\ UNCHANGED <<chain, cachedHeight, calls, mark, answer>>

(* BLOCKHEIGHT_CACHE_TIME passes. *)
Period ==
  /\ mark' = chain
  /\ cachedHeight' = [cachedHeight EXCEPT !.now = FALSE]
  /\ calls' = [r \in Callers |-> [calls[r] EXCEPT !.now = FALSE]]
  /\ UNCHANGED <<chain, untold, misses, answer>>

GetBlockchainHeight(r) ==
  /\ calls[r].at = "idle"
  /\ calls' = [calls EXCEPT ![r] =
       IF cachedHeight.current > 0 /\ cachedHeight.now
       THEN [Unasked EXCEPT !.at = "done", !.height = cachedHeight.current, !.since = mark]
       ELSE [Unasked EXCEPT !.at = "explorer", !.since = mark]]
  /\ UNCHANGED <<chain, cachedHeight, untold, mark, misses, answer>>

FetchFromBlockchain(r) ==
  /\ calls[r].at = "explorer"
  /\ \/ /\ calls' = [calls EXCEPT ![r].at = "store", ![r].height = chain]
        /\ UNCHANGED misses
     \/ /\ Miss
        /\ calls' = [calls EXCEPT ![r].at = "done", ![r].height = cachedHeight.last,
                                  ![r].missed = TRUE]
  /\ UNCHANGED <<chain, cachedHeight, untold, mark, answer>>

(* Mutant of UpdatedOn: the time of the answer. *)
UpdatedOnAnswer(call) == TRUE

(* The time of the question. *)
UpdatedOn(call) == call.now

StoreCurrent(r) ==
  /\ calls[r].at = "store"
  /\ cachedHeight' = [current |-> calls[r].height, last |-> calls[r].height,
                      now |-> UpdatedOn(calls[r])]
  /\ calls' = [calls EXCEPT ![r].at = "done"]
  /\ UNCHANGED <<chain, untold, mark, misses, answer>>

-----------------------------------------------------------------------------
(* decorate *)

IsMine(part) == part.owner # "nobody"
IsChange(item, part) == part.owner = "change" \/ (IsMine(part) /\ item.singleAddress)

(* Places of parts. *)
Mine(parts) == {i \in DOMAIN parts : IsMine(parts[i])}
Change(item) == {i \in DOMAIN item.outputs : IsChange(item, item.outputs[i])}
External(item) == DOMAIN item.outputs \ Mine(item.outputs)

AmountIn(item) == Sum(item.inputs, Mine(item.inputs))
AmountOut(item) == Sum(item.outputs, Mine(item.outputs) \ Change(item))
AmountOutChange(item) == Sum(item.outputs, Change(item))

Moved(item) ==
  AmountIn(item) = AmountOut(item) + AmountOutChange(item)
                     + (IF AmountIn(item) > 0 THEN Fees(item) ELSE 0)

(* What is gone: more than nothing was sent, otherwise it was received. *)
Gone(item) ==
  AmountIn(item) - AmountOut(item) - AmountOutChange(item)
    - (IF AmountIn(item) > 0 /\ AmountOutChange(item) > 0 THEN Fees(item) ELSE 0)

(* Without inputs and outputs there is nothing to classify. *)
Invalid(item) == item.inputs = <<>> /\ item.outputs = <<>>

Action(item) ==
  IF Invalid(item) THEN "invalid"
  ELSE IF Moved(item) THEN "moved"
  ELSE IF Gone(item) > 0 THEN "sent" ELSE "received"

Amount(item) ==
  IF Moved(item) THEN AmountOut(item)
  ELSE IF Gone(item) > 0 THEN Gone(item) ELSE -Gone(item)

(* The first output outside, for what was sent or moved. *)
AddressTo(item) ==
  IF Action(item) \in {"sent", "moved"} /\ External(item) # {}
  THEN item.outputs[Min(External(item))].owner ELSE "none"

(* The outputs that are shown: not the change, and of a received transaction only
   the wallet's. *)
Shown(item) ==
  {i \in DOMAIN item.outputs \ Change(item) :
     Action(item) = "received" => i \in Mine(item.outputs)}

(* By the height, if there is one. *)
Confirmations(item, height) ==
  IF height > 0 /\ item.blockheight >= 0 THEN height - item.blockheight + 1
  ELSE item.confirmations

Decorate(r, item) ==
  /\ calls[r].at = "done"
  /\ answer' = <<[action |-> Action(item), amount |-> Amount(item), to |-> AddressTo(item),
                  outputs |-> Shown(item),
                  confirmations |-> Confirmations(item, calls[r].height),
                  of |-> item, call |-> calls[r]]>>
  /\ calls' = [calls EXCEPT ![r] = Unasked]
  /\ UNCHANGED <<chain, cachedHeight, untold, mark, misses>>

(* The next request, after one of whose items none is looked at. *)
AskAgain(r) ==
  /\ calls[r].at = "done"
  /\ calls' = [calls EXCEPT ![r] = Unasked]
  /\ UNCHANGED <<chain, cachedHeight, untold, mark, misses, answer>>

ItemsNext ==
  /\ answer = <<>>
  /\ \/ MineBlock \/ ClearHeight \/ LoseNewBlock \/ Period
     \/ \E r \in Callers :
          \/ GetBlockchainHeight(r) \/ FetchFromBlockchain(r) \/ StoreCurrent(r)
          \/ AskAgain(r)
          \/ \E item \in Items : item.blockheight <= chain /\ Decorate(r, item)

ItemsSpec == ItemsInit /\ [][ItemsNext]_itemVars

-----------------------------------------------------------------------------
(* Properties *)

AllMine(item) == item.inputs # <<>> /\ Mine(item.inputs) = DOMAIN item.inputs
NoneMine(item) == Mine(item.inputs) = {}

Received(item) == AmountOut(item) + AmountOutChange(item)
OthersGet(item) == Sum(item.outputs, External(item))

(* An item says what happened: of a transaction that only the wallet pays for, what
   others got of it, with the fee when nothing came back; of one it does not pay for,
   all that it got.  Nothing is called moved of which others got a part. *)
AmountTrue(item, says) ==
  /\ AllMine(item) =>
       IF OthersGet(item) = 0 THEN says.action = "moved" /\ says.amount = AmountOut(item)
       ELSE /\ says.action = "sent" /\ says.to = "nobody"
            /\ says.amount = OthersGet(item) + (IF AmountOutChange(item) > 0 THEN 0
                                               ELSE Fees(item))
            /\ External(item) \subseteq says.outputs
  /\ NoneMine(item) /\ Received(item) > 0 =>
       says.action = "received" /\ says.amount = Received(item)

(* Confirmations are those of a height the chain had, in the period of the request
   unless the explorer failed, even if a question to the explorer takes longer. *)
ConfirmationsTrue(item, call, says) ==
  \/ /\ call.height = 0 \/ item.blockheight < 0
     /\ says.confirmations = item.confirmations
  \/ \E h \in (IF call.missed THEN 1 ELSE call.since)..chain :
       says.confirmations = h - item.blockheight + 1

ItemsTrue ==
  answer # <<>> => /\ AmountTrue(answer[1].of, answer[1])
                   /\ ConfirmationsTrue(answer[1].of, answer[1].call, answer[1])
=============================================================================
