--------------------------- MODULE CoinSelection ---------------------------
(***************************************************************************)
(* What createTx makes of the options of a client: the validation, the fee *)
(* per kB, the amount when everything is to be sent (getSendMaxInfo), the  *)
(* choice of the inputs and the fee (_selectTxInputs), and the check of    *)
(* the transaction (_checkTx).                                             *)
(*                                                                         *)
(* Amounts are satoshis.  Fees by size are thousandths of a satoshi        *)
(* (a size in bytes times a fee per kB), which the code has as floating    *)
(* point numbers.  A coin is a utxo of the wallet, by its place in utxos;  *)
(* those that a broadcasted proposal spends are left out already.          *)
(***************************************************************************)
EXTENDS Integers, Sequences, FiniteSets, FiniteSetsExt

CONSTANTS Wallets,   \* the utxos a wallet may have, as sequences of coins
          Asked,     \* the options a client may give
          Samples,   \* what the explorer may answer for a fee: by blocks, -1 without
          FeeLevels, \* Defaults.FEE_LEVELS of the coin
          Fallback,  \* FEE_LEVELS_FALLBACK
          AddressType, RequiredSignatures, WalletN, \* of the wallet
          MinOutput, \* MIN_OUTPUT_AMOUNT
          DustAmount,   \* Bitcore's Transaction.DUST_AMOUNT
          MaxTxFee, MaxTxSize, MinFeePerKb, MaxFeePerKb, \* the limits, MaxTxSize in bytes
          BigFactor,    \* UTXO_SELECTION_MAX_SINGLE_UTXO_FACTOR
          ShareDivisor, \* 1 / UTXO_SELECTION_MIN_TX_AMOUNT_VS_UTXO_FACTOR
          FeeDivisor,   \* 1 / UTXO_SELECTION_MAX_FEE_VS_TX_AMOUNT_FACTOR
          BackoffOffset, BackoffTime,
          SingleFactor  \* UTXO_SELECTION_MAX_FEE_VS_SINGLE_UTXO_FEE_FACTOR

(* An option that is not given. *)
Absent == -1

Coin == [satoshis : Nat \ {0}, confirmations : Nat, locked : BOOLEAN]

Options == [coin : {"btc", "eth"},
            amount : Nat \cup {Absent}, \* of all outputs
            sendMax : BOOLEAN,
            feeLevel : Nat \cup {Absent}, \* its place in FeeLevels
            feePerKb : Nat \cup {Absent},
            fee : Nat \cup {Absent},
            inputs : SUBSET Nat, \* coins
            exclude : SUBSET Nat, \* utxosToExclude
            confirmed : BOOLEAN, \* excludeUnconfirmedUtxos
            rejected : Nat, \* how many of the copayer's last proposals were, in a row
            ago : Nat] \* seconds since the last one was made

ASSUME CoinSelectionAssumption ==
  /\ Wallets \subseteq Seq(Coin)
  /\ Asked \subseteq Options
  /\ AddressType \in {"P2PKH", "P2SH"}
  /\ {BackoffOffset, BackoffTime, MinOutput, DustAmount, MaxTxFee, MaxTxSize, MinFeePerKb, MaxFeePerKb} \subseteq Nat
  /\ {BigFactor, ShareDivisor, FeeDivisor, SingleFactor, RequiredSignatures, WalletN}
       \subseteq Nat \ {0}
  /\ FeeLevels \in Seq([name : STRING, nbBlocks : Nat, multiplier : (Nat \ {0}) \X (Nat \ {0}),
                        defaultValue : Nat])
  /\ Fallback \in Nat
  /\ \E level \in 1..Len(FeeLevels) : FeeLevels[level].name = "normal"
  /\ \A s \in Samples : \A level \in 1..Len(FeeLevels) :
       \A k \in FeeLevels[level].nbBlocks..(FeeLevels[level].nbBlocks + Fallback) :
         k \in DOMAIN s /\ s[k] \in Int

VARIABLES utxos,  \* the coins of the wallet
          levels, \* the fee levels in the cache, <<>> without
          opts,   \* what the client asked for
          step,   \* where createTx is
          txp,    \* what it has made so far
          group,  \* the groups of confirmations tried, and how many coins the last had
          error   \* selectionError, or the answer

selectionVars == <<utxos, levels, opts, step, txp, group, error>>

Errors == {"OPTIONS", "AMOUNT", "TX_CANNOT_CREATE", "DUST_AMOUNT", "INSUFFICIENT_FUNDS", "LOCKED_FUNDS",
           "INSUFFICIENT_FUNDS_FOR_FEE", "TX_MAX_SIZE_EXCEEDED", "BUILD"}

SelectionTypeOK ==
  /\ utxos \in Seq(Coin) /\ opts \in Options
  /\ levels \in Seq(Nat)
  /\ step \in {"validate", "maxFee", "outputs", "backoff", "fee", "inputs", "group", "check", "done"}
  /\ txp \in [amount : Int, feePerKb : Int, inputs : SUBSET (1..Len(utxos)), fee : Int]
  /\ group \in [tried : 0..3, length : Nat \cup {Absent}]
  /\ error \in Errors \cup {"none"}

SelectionInit ==
  /\ utxos \in Wallets
  /\ opts \in {asked \in Asked : asked.inputs \cup asked.exclude \subseteq 1..Len(utxos)}
  /\ levels = <<>>
  /\ step = "validate"
  /\ txp = [amount |-> opts.amount, feePerKb |-> opts.feePerKb, inputs |-> opts.inputs,
            fee |-> opts.fee]
  /\ group = [tried |-> 0, length |-> Absent]
  /\ error = "none"

-----------------------------------------------------------------------------
(* Sizes and fees. *)

InputSize == IF AddressType = "P2PKH" THEN 147
             ELSE RequiredSignatures * 72 + WalletN * 36 + 44

(* getEstimatedSize with one output and the change, and a margin of 2 %. *)
EstimatedSize(n) == ((26 + InputSize * n + 34 * 2) * 102 + 50) \div 100

BaseSize == EstimatedSize(0)

(* As many small coins as are preferred to a big one fit in a transaction. *)
ASSUME CoinSelectionSizes == EstimatedSize(2 * Max({ShareDivisor, SingleFactor})) <= MaxTxSize

Round(thousandths) == (thousandths + 500) \div 1000
EstimatedFee(n, feePerKb) == Round(EstimatedSize(n) * feePerKb)

FeePerInput == InputSize * txp.feePerKb
FeeOf(n) == BaseSize * txp.feePerKb + n * FeePerInput
SizeOf(n) == BaseSize + n * InputSize

Value(coins) == MapThenSumSet(LAMBDA i : utxos[i].satoshis, coins)

DustThreshold == IF MinOutput > DustAmount THEN MinOutput ELSE DustAmount

-----------------------------------------------------------------------------
(* getFeeLevels *)

(* The sample for the blocks of a level or, failing that, for a few more. *)
SampleOf(sample, level) ==
  LET n == FeeLevels[level].nbBlocks
      answered == {k \in n..(n + Fallback) : sample[k] >= 0}
  IN IF answered = {} THEN FeeLevels[level].defaultValue ELSE sample[Min(answered)]

(* The default values when the explorer fails, otherwise those of the samples, of
   which each is no higher than the ones before. *)
LevelsOf(sample) ==
  LET Fee(level) == (SampleOf(sample, level) * FeeLevels[level].multiplier[1]
                       + FeeLevels[level].multiplier[2] \div 2)
                    \div FeeLevels[level].multiplier[2]
  IN [level \in 1..Len(FeeLevels) |-> Min({Fee(k) : k \in 1..level})]

DefaultLevels == [level \in 1..Len(FeeLevels) |-> FeeLevels[level].defaultValue]

(* The cached levels, or new ones, which are cached; for eth and try the default
   ones. *)
GetFeeLevels(found) ==
  \/ opts.coin = "eth" /\ found = DefaultLevels /\ UNCHANGED levels
  \/ opts.coin = "btc" /\ levels # <<>> /\ found = levels /\ UNCHANGED levels
  \/ /\ opts.coin = "btc" /\ levels = <<>>
     /\ found \in {LevelsOf(sample) : sample \in Samples} \cup {DefaultLevels}
     /\ levels' = found

SomeLevels == {levels, DefaultLevels} \cup {LevelsOf(sample) : sample \in Samples}

(* The cache lasts five minutes. *)
LevelsExpire ==
  /\ levels # <<>> /\ step # "done"
  /\ levels' = <<>>
  /\ UNCHANGED <<utxos, opts, step, txp, group, error>>

-----------------------------------------------------------------------------
(* createTx *)

Turn(place) == step = place
Go(place) == step' = place /\ UNCHANGED error
Refuse(what) == step' = "done" /\ error' = what
Keep == UNCHANGED <<utxos, opts, group>>

Given(option) == option # Absent

NormalLevel == CHOOSE level \in 1..Len(FeeLevels) : FeeLevels[level].name = "normal"

(* _validateAndSanitizeTxOpts, what does not depend on the wallet's coins. *)
OptionsAllowed ==
  /\ Cardinality({f \in {"feeLevel", "feePerKb", "fee"} : Given(opts[f])}) <= 1
  /\ Given(opts.feeLevel) => opts.feeLevel \in 1..Len(FeeLevels)
  /\ Given(opts.feePerKb) => opts.feePerKb \in MinFeePerKb..MaxFeePerKb
  /\ Given(opts.fee) => opts.inputs # {} /\ ~opts.sendMax
  /\ opts.sendMax => ~Given(opts.amount)

Validate ==
  /\ Turn("validate")
  /\ IF ~OptionsAllowed THEN Refuse("OPTIONS")
     ELSE Go(IF opts.sendMax THEN "maxFee" ELSE "outputs")
  /\ Keep /\ UNCHANGED <<levels, txp>>

FreeCoins == {i \in 1..Len(utxos) : ~utxos[i].locked}
Spendable(confirmed) ==
  {i \in FreeCoins : confirmed => utxos[i].confirmations > 0}

(* By value, the greatest first; coins of the same value in their order. *)
Before(coins, i) ==
  {j \in coins : \/ utxos[j].satoshis > utxos[i].satoshis
                 \/ (utxos[j].satoshis = utxos[i].satoshis /\ j < i)}
Greatest(coins, k) == {i \in coins : Cardinality(Before(coins, i)) < k}
NthGreatest(coins, k) == CHOOSE i \in coins : Cardinality(Before(coins, i)) = k - 1

(* Mutant of MaxCoins: one fewer than fit. *)
MaxCoinsTooFew(coins) ==
  Greatest(coins, Max({0} \cup {k \in 1..Cardinality(coins) : SizeOf(k + 1) <= MaxTxSize}))

(* getSendMaxInfo: as many as fit in a transaction. *)
MaxCoins(coins) ==
  Greatest(coins, Max({0} \cup {k \in 1..Cardinality(coins) : SizeOf(k) <= MaxTxSize}))

(* Of the coins that are worth more than their fee; without an amount that may be
   sent, there are no inputs and the amount is 0. *)
SendMaxInfo(feePerKb) ==
  LET inputs == MaxCoins({i \in Spendable(opts.confirmed) :
                            utxos[i].satoshis * 1000 > InputSize * feePerKb})
      amount == Value(inputs) - EstimatedFee(Cardinality(inputs), feePerKb)
  IN IF inputs = {} \/ amount < MinOutput
     THEN [amount |-> 0, inputs |-> {}]
     ELSE [amount |-> amount, inputs |-> inputs]

(* sendMax: getSendMaxInfo is given feePerKb, and not feeLevel. *)
SendMax ==
  /\ Turn("maxFee")
  /\ \E found \in SomeLevels :
       /\ IF Given(opts.feePerKb) THEN UNCHANGED levels ELSE GetFeeLevels(found)
       /\ LET info == SendMaxInfo(IF Given(opts.feePerKb) THEN opts.feePerKb
                                  ELSE found[NormalLevel])
          IN txp' = [txp EXCEPT !.amount = info.amount, !.inputs = info.inputs]
  /\ Go("outputs")
  /\ Keep

(* _validateOutputs *)
ValidateOutputs ==
  /\ Turn("outputs")
  /\ \/ txp.amount <= 0 /\ Refuse("AMOUNT")
     \/ txp.amount > 0 /\ txp.amount < DustThreshold /\ Refuse("DUST_AMOUNT")
     \/ txp.amount > 0 /\ txp.amount >= DustThreshold /\ Go("backoff")
  /\ Keep /\ UNCHANGED <<levels, txp>>

(* _canCreateTx *)
CanCreateTx ==
  /\ Turn("backoff")
  /\ \/ opts.rejected > BackoffOffset /\ opts.ago <= BackoffTime /\ Refuse("TX_CANNOT_CREATE")
     \/ /\ opts.rejected <= BackoffOffset \/ opts.ago > BackoffTime
        /\ Go("fee")
  /\ Keep /\ UNCHANGED <<levels, txp>>

(* _getFeePerKb, unless there is a fee. *)
GetFeePerKb ==
  /\ Turn("fee")
  /\ IF Given(opts.fee) \/ Given(opts.feePerKb) THEN UNCHANGED <<levels, txp>>
     ELSE \E found \in SomeLevels :
            /\ GetFeeLevels(found)
            /\ txp' = [txp EXCEPT !.feePerKb = found[IF Given(opts.feeLevel) THEN opts.feeLevel
                                                     ELSE NormalLevel]]
  /\ Go("inputs")
  /\ Keep

(* _selectTxInputs: inputs that are given, and their fee unless it is given. *)
TakeInputs ==
  /\ Turn("inputs") /\ txp.inputs # {}
  /\ txp' = [txp EXCEPT !.fee = IF Given(txp.fee) THEN txp.fee
                                ELSE EstimatedFee(Cardinality(txp.inputs), txp.feePerKb)]
  /\ Go("check")
  /\ Keep /\ UNCHANGED levels

(* eth and try: the first address that holds more than the amount and the gas. *)
TakeAddress ==
  /\ Turn("inputs") /\ txp.inputs = {}
  /\ opts.coin = "eth" /\ utxos # <<>>
  /\ LET gas == txp.feePerKb * 21000
         sources == {i \in 1..Len(utxos) : utxos[i].satoshis > txp.amount + gas}
     IN IF sources = {} THEN Refuse("INSUFFICIENT_FUNDS") /\ UNCHANGED txp
        ELSE /\ txp' = [txp EXCEPT !.inputs = {Min(sources)}, !.fee = gas]
             /\ step' = "done" /\ UNCHANGED error
  /\ Keep /\ UNCHANGED levels

(* The balance is looked at first, with and without the locked coins. *)
CheckFunds ==
  /\ Turn("inputs") /\ txp.inputs = {}
  /\ opts.coin = "btc" \/ utxos = <<>>
  /\ LET all == {i \in 1..Len(utxos) : opts.confirmed => utxos[i].confirmations > 0}
     IN \/ Value(all) < txp.amount /\ Refuse("INSUFFICIENT_FUNDS")
        \/ /\ Value(all) >= txp.amount /\ Value(all \cap FreeCoins) < txp.amount
           /\ Refuse("LOCKED_FUNDS")
        \/ Value(all \cap FreeCoins) >= txp.amount /\ Go("group")
  /\ Keep /\ UNCHANGED <<levels, txp>>

(* sanitizeUtxos *)
Eligible == {i \in Spendable(opts.confirmed) \ opts.exclude :
               utxos[i].satoshis * 1000 > FeePerInput}

-----------------------------------------------------------------------------
(* select: the coins of one group. *)

(* Those that could pay alone, with much left. *)
Big(coins) ==
  {i \in coins : utxos[i].satoshis * 1000 > txp.amount * BigFactor * 1000 + FeeOf(1)}

Net(coins) == Value(coins) * 1000 - FeeOf(Cardinality(coins))
Enough(coins) == Net(coins) >= txp.amount * 1000

(* The small ones are taken by value, until one of these holds. *)
TooBig(k) == SizeOf(k) > MaxTxSize

(* ... a big one is better: the k-th adds little, or the fee is high. *)
Wasteful(coins, k) ==
  LET net == utxos[NthGreatest(coins, k)].satoshis * 1000 - FeePerInput
      fee == Round(FeeOf(k))
  IN \/ net * ShareDivisor < txp.amount * 1000
     \/ /\ fee * FeeDivisor > txp.amount
        /\ fee * 1000 > SingleFactor * FeeOf(1)

Taken(coins, big) ==
  LET small == coins \ big
      stops == {k \in 1..Cardinality(small) : \/ TooBig(k)
                                              \/ (big # {} /\ Wasteful(small, k))
                                              \/ Enough(Greatest(small, k))}
  IN Greatest(small, IF stops = {} THEN Cardinality(small) ELSE Min(stops))

(* Mutant of FeeFor: the rest stays. *)
FeeForDust(taken, big) == Round(FeeOf(Cardinality(taken)))

(* Too small a rest is added to the fee, unless the last coin made one of the
   others hold, too. *)
FeeFor(taken, big) ==
  LET k == Cardinality(taken)
      fee == Round(FeeOf(k))
      change == Value(taken) - txp.amount - fee
      stopped == TooBig(k) \/ (big # {} /\ Wasteful(taken, k))
  IN IF ~stopped /\ change \in 1..DustThreshold THEN fee + change ELSE fee

Select(coins) ==
  LET big == Big(coins)
      taken == Taken(coins, big)
      least == CHOOSE i \in big : \A j \in big : utxos[i].satoshis <= utxos[j].satoshis
  IN IF Value(coins) < txp.amount
     THEN [inputs |-> {}, fee |-> txp.fee, error |-> "INSUFFICIENT_FUNDS"]
     ELSE IF ~Enough(coins)
     THEN [inputs |-> {}, fee |-> txp.fee, error |-> "INSUFFICIENT_FUNDS_FOR_FEE"]
     ELSE IF taken # {} /\ Enough(taken)
     THEN [inputs |-> taken, fee |-> FeeFor(taken, big), error |-> "none"]
     ELSE IF big # {}
     THEN [inputs |-> {least}, fee |-> Round(FeeOf(1)), error |-> "none"]
     ELSE [inputs |-> {}, fee |-> txp.fee,
           error |-> IF TooBig(Cardinality(taken)) THEN "TX_MAX_SIZE_EXCEEDED"
                     ELSE "INSUFFICIENT_FUNDS_FOR_FEE"]

(* Mutant of Groups: the unconfirmed coins with the others. *)
GroupsAtOnce == <<0>>

Groups == IF opts.confirmed THEN <<6, 1>> ELSE <<6, 1, 0>>

(* The next group of coins by their confirmations, if it has more than the last. *)
SelectGroup ==
  /\ Turn("group")
  /\ group.tried < Len(Groups) /\ txp.inputs = {}
  /\ LET candidates == {i \in Eligible :
                          utxos[i].confirmations >= Groups[group.tried + 1]}
         n == Cardinality(candidates)
         found == Select(candidates)
     IN IF n = group.length
        THEN /\ group' = [group EXCEPT !.tried = @ + 1]
             /\ UNCHANGED <<txp, error>>
        ELSE /\ group' = [tried |-> group.tried + 1, length |-> n]
             /\ txp' = [txp EXCEPT !.inputs = found.inputs, !.fee = found.fee]
             /\ error' = found.error
  /\ UNCHANGED <<utxos, levels, opts, step>>

EndSelection ==
  /\ Turn("group")
  /\ txp.inputs # {} \/ group.tried = Len(Groups)
  /\ step' = IF txp.inputs = {} THEN "done" ELSE "check"
  /\ Keep /\ UNCHANGED <<levels, txp, error>>

Left == Value(txp.inputs) - txp.amount - txp.fee

(* Bitcore's verdict on the transaction: its inputs pay for the outputs, what is
   left goes to the change, which is no dust, and there is nothing left without a
   change address. *)
BitcoreError ==
  IF Left < 0 \/ (opts.sendMax /\ Left > 0) THEN "INSUFFICIENT_FUNDS_FOR_FEE"
  ELSE IF Left \in 1..(DustAmount - 1) THEN "DUST_AMOUNT"
  ELSE "none"

(* What the transaction leaves to the miners. *)
Paid == IF Left >= 0 /\ ~opts.sendMax THEN txp.fee ELSE Value(txp.inputs) - txp.amount

(* _checkTx *)
CheckTx ==
  /\ Turn("check")
  /\ \/ /\ EstimatedSize(Cardinality(txp.inputs)) > MaxTxSize
        /\ Refuse("TX_MAX_SIZE_EXCEEDED")
     \/ /\ EstimatedSize(Cardinality(txp.inputs)) <= MaxTxSize
        /\ Refuse(IF Value(txp.inputs) < txp.amount \/ Paid > MaxTxFee THEN "BUILD"
                  ELSE BitcoreError)
  /\ Keep /\ UNCHANGED <<levels, txp>>

SelectionNext ==
  \/ LevelsExpire \/ Validate \/ SendMax \/ ValidateOutputs \/ CanCreateTx \/ GetFeePerKb
  \/ TakeInputs \/ TakeAddress \/ CheckFunds \/ SelectGroup \/ EndSelection \/ CheckTx

SelectionSpec == SelectionInit /\ [][SelectionNext]_selectionVars

-----------------------------------------------------------------------------
(* Properties *)

Made == step = "done" /\ error = "none"
Selected == opts.inputs = {} /\ ~opts.sendMax /\ opts.coin = "btc"

(* A proposal is paid for: its fee is that of its size, and no more than a rest that
   could not be sent on top; the change is none or large enough, at the selection's
   own threshold when it had no big coin to choose. *)
ProposalPays ==
  Made =>
    /\ Left >= 0
    /\ opts.coin = "btc" => Left = 0 \/ Left >= DustAmount
    /\ Selected =>
         /\ txp.inputs \subseteq Eligible
         /\ LET fee == Round(FeeOf(Cardinality(txp.inputs)))
            IN txp.fee \in fee..(fee + DustThreshold)
         /\ Big(Eligible) = {} => Left = 0 \/ Left > DustThreshold

(* Some of the coins pay for the amount and the fee in one transaction. *)
CanPay(coins) ==
  \E some \in SUBSET coins : /\ Enough(some)
                             /\ EstimatedSize(Cardinality(some)) <= MaxTxSize

OfGroup(n) == {i \in Eligible : utxos[i].confirmations >= n}

(* What is said when there are no coins that pay. *)
Insufficient == {"INSUFFICIENT_FUNDS", "INSUFFICIENT_FUNDS_FOR_FEE", "LOCKED_FUNDS"}

(* "Insufficient" is said only when no choice of coins would do, "too large" only when
   none of the group looked at last would, and coins with fewer confirmations are spent
   only when those with more would not. *)
FundsFound ==
  step = "done" /\ Selected =>
    /\ error \in Insufficient => ~CanPay(Eligible)
    /\ error = "TX_MAX_SIZE_EXCEEDED" => ~CanPay(OfGroup(Groups[group.tried]))
    /\ \A n \in {1, 6} : txp.inputs \ OfGroup(n) # {} => ~CanPay(OfGroup(n))

(* When everything is sent at a given fee, no other choice of coins sends more, but
   for the margin of the estimated sizes: 2 % of the fees of the inputs of the larger
   choice, and a satoshi for the rounding. *)
MaxIsMost ==
  Made /\ opts.sendMax /\ Given(opts.feePerKb) =>
    \A some \in SUBSET Spendable(opts.confirmed) :
      LET n == Cardinality(some)
          more == Max({n, Cardinality(txp.inputs)})
      IN EstimatedSize(n) <= MaxTxSize =>
           Value(some) - EstimatedFee(n, opts.feePerKb)
             <= txp.amount + 1 + (more * FeePerInput) \div (50 * 1000)

(* "Minimum allowed amount for tx outputs (including change)". *)
ChangeAboveMinimum == Made /\ Selected => Left = 0 \/ Left >= MinOutput

(* "Send maximum amount of funds that make sense under the specified fee/feePerKb
   conditions": whatever level is specified, an amount that may be sent is. *)
MaxIsSent ==
  step = "done" /\ opts.sendMax /\ txp.amount > 0 => error # "INSUFFICIENT_FUNDS_FOR_FEE"

(* "should not fail with tx exceeded max size if there is at least 1 big input": when it
   has fewer confirmations than small coins that are enough but too many, it does. *)
BigCoinTaken ==
  step = "done" /\ Selected /\ Big(Eligible) # {} => error # "TX_MAX_SIZE_EXCEEDED"
=============================================================================
