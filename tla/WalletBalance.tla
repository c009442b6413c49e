--------------------------- MODULE WalletBalance ---------------------------
(***************************************************************************)
(* getBalance of a wallet with many addresses.  Asked for two steps, it    *)
(* answers the balance of the active addresses (those listed as having a   *)
(* balance, and the recent ones) and then asks the explorer for all of     *)
(* them; if that differs, the client is told (BalanceUpdated), otherwise   *)
(* all addresses are not asked for again for an hour.  Every query of all  *)
(* addresses replaces the list; the monitor adds the address of a payment  *)
(* to it.  Balances are cached for a minute by their addresses.            *)
(*                                                                         *)
(* A balance is the set of the addresses that have coins.                  *)
(***************************************************************************)
EXTENDS Integers, Sequences, FiniteSets

CONSTANTS Held,    \* the addresses of the wallet
          Recent,  \* those created less than TWO_STEP_CREATION_HOURS ago
          Many,    \* BALANCE_CACHE_ADDRESS_THRESOLD
          Askers,  \* bound: requests at a time
          Nobody,
          MaxChanges, \* bound: payments and spends
          MaxUpsets   \* bound: errors, crashes and payments the monitor does not see

ASSUME WalletBalanceAssumption ==
  /\ Recent \subseteq Held /\ IsFiniteSet(Held)
  /\ Many \in 1..Cardinality(Held)
  /\ Nobody \notin Askers
  /\ MaxChanges \in Nat /\ MaxUpsets \in Nat

VARIABLES funded,   \* the addresses with coins, at the explorer
          listed,   \* addressesWithBalance
          twoStep,  \* the document twoStep: addressCount is stored, lastEmpty is of this hour
          balances, \* balanceCache, by addresses; the age in units of ten seconds
          asks,     \* the requests
          locker,   \* who has the lock of the wallet
          noting,   \* the monitor, about payments: _updateAddressesWithBalance
          known,    \* the balance the clients were told last
          past,     \* history: the values of funded
          marks,    \* history: how many there were ten seconds ago, and twenty
          upsets

balanceVars == <<funded, listed, twoStep, balances, asks, locker, noting, known,
                 past, marks, upsets>>

Ages == 0..1
Old == 2

Ask == [at : {"idle", "twoStep", "count", "list", "addresses", "lock", "cache", "utxos",
              "store", "listing", "answer", "compare"},
        part : {"all", "active", "rest"},
        fast : 0..Old,           \* fastCache, 0 without
        counted : BOOLEAN, empty : BOOLEAN, \* twoStepCache
        list : SUBSET Held, found : SUBSET Held, first : SUBSET Held,
        cached : BOOLEAN,        \* cacheUsed
        since : 1..(MaxChanges + 1)] \* history: the answer is not from before

Free == [at |-> "idle", part |-> "all", fast |-> 0, counted |-> FALSE, empty |-> FALSE,
         list |-> {}, found |-> {}, first |-> {}, cached |-> FALSE, since |-> 1]

BalanceTypeOK ==
  /\ funded \subseteq Held /\ listed \subseteq Held /\ known \subseteq Held
  /\ twoStep \in [counted : BOOLEAN, empty : BOOLEAN]
  /\ balances \subseteq [of : SUBSET Held, result : SUBSET Held, age : Ages]
  /\ asks \in [Askers -> Ask]
  /\ locker \in Askers \cup {Nobody}
  /\ noting \subseteq [address : Held, wrote : BOOLEAN, list : SUBSET Held]
  /\ past \in Seq(SUBSET Held) /\ Len(past) \in 1..(MaxChanges + 1)
  /\ marks \in [1..2 -> 1..Len(past)]
  /\ upsets \in 0..MaxUpsets

BalanceInit ==
  /\ funded \in SUBSET Held
  /\ listed = {}
  /\ twoStep = [counted |-> FALSE, empty |-> FALSE]
  /\ balances = {}
  /\ asks = [r \in Askers |-> Free]
  /\ locker = Nobody
  /\ noting = {}
  /\ known = {}
  /\ past = <<funded>>
  /\ marks = <<1, 1>>
  /\ upsets = 0

-----------------------------------------------------------------------------
(* The world. *)

Upset == upsets < MaxUpsets /\ upsets' = upsets + 1

WorldOnly == UNCHANGED <<listed, twoStep, balances, asks, locker, known, marks>>

Move(to) ==
  /\ Len(past) <= MaxChanges
  /\ funded' = to
  /\ past' = Append(past, to)

(* A payment, which the monitor sees or not. *)
Receive(x) ==
  /\ x \notin funded
  /\ Move(funded \cup {x})
  /\ \/ noting' = noting \cup {[address |-> x, wrote |-> FALSE, list |-> {}]} /\ UNCHANGED upsets
     \/ Upset /\ UNCHANGED noting
  /\ WorldOnly

Spend(x) ==
  /\ x \in funded
  /\ Move(funded \ {x})
  /\ WorldOnly /\ UNCHANGED <<noting, upsets>>

(* _updateAddressesWithBalance of the monitor: the list is read ... *)
NoteRead(n) ==
  /\ n \in noting /\ ~n.wrote
  /\ noting' = (noting \ {n}) \cup
                 (IF n.address \in listed THEN {}
                  ELSE {[n EXCEPT !.wrote = TRUE, !.list = listed]})
  /\ WorldOnly /\ UNCHANGED <<funded, past, upsets>>

(* ... and written with the address. *)
NoteWrite(n) ==
  /\ n \in noting /\ n.wrote
  /\ noting' = noting \ {n}
  /\ listed' = n.list \cup {n.address}
  /\ UNCHANGED <<funded, twoStep, balances, asks, locker, known, past, marks, upsets>>

(* Ten seconds pass.  Nobody takes them between an answer of the explorer and the
   storing of it. *)
TenSeconds ==
  /\ \A r \in Askers : asks[r].at # "store"
  /\ balances' = {[b EXCEPT !.age = @ + 1] : b \in {c \in balances : c.age + 1 \in Ages}}
  /\ marks' = <<Len(past), marks[1]>>
  /\ UNCHANGED <<funded, listed, twoStep, asks, locker, noting, known, past, upsets>>

(* Mutant of AnHour: the times are compared as if they were milliseconds. *)
AnHourForever == UNCHANGED balanceVars

AnHour ==
  /\ twoStep' = [twoStep EXCEPT !.empty = FALSE]
  /\ UNCHANGED <<funded, listed, balances, asks, locker, noting, known, past, marks, upsets>>

-----------------------------------------------------------------------------
(* getBalance *)

Now(r, ask) == asks' = [asks EXCEPT ![r] = ask]
Outside == UNCHANGED <<funded, noting, past, marks>>

GetBalance(r, steps) ==
  /\ asks[r].at = "idle"
  /\ Now(r, IF steps = 1
            THEN [Free EXCEPT !.at = "addresses", !.fast = Old, !.since = marks[2]]
            ELSE [Free EXCEPT !.at = "twoStep", !.since = Len(past)])
  /\ Outside /\ UNCHANGED <<listed, twoStep, balances, locker, known, upsets>>

(* getTwoStepCache *)
ReadTwoStep(r) ==
  /\ asks[r].at = "twoStep"
  /\ Now(r, [asks[r] EXCEPT !.counted = twoStep.counted, !.empty = twoStep.empty,
                            !.at = IF twoStep.counted THEN "list" ELSE "count"])
  /\ Outside /\ UNCHANGED <<listed, twoStep, balances, locker, known, upsets>>

(* _checkAndUpdateAddressCount: there are many; the document is stored as it was read,
   with the count. *)
StoreCount(r) ==
  /\ asks[r].at = "count"
  /\ twoStep' = [counted |-> TRUE, empty |-> asks[r].empty]
  /\ Now(r, [asks[r] EXCEPT !.counted = TRUE, !.at = "list"])
  /\ Outside /\ UNCHANGED <<listed, balances, locker, known, upsets>>

ActiveAddresses == listed \cup Recent

(* _getActiveAddresses; all are asked for when the list can not be read. *)
FetchActive(r) ==
  /\ asks[r].at = "list"
  /\ \/ /\ Now(r, [asks[r] EXCEPT !.part = "active", !.list = ActiveAddresses,
                                  !.at = "lock"])
        /\ UNCHANGED upsets
     \/ Upset /\ Now(r, [asks[r] EXCEPT !.at = "addresses"])
  /\ Outside /\ UNCHANGED <<listed, twoStep, balances, locker, known>>

(* _getBalanceOneStep: when all addresses were active, there is nothing left to do. *)
FetchAddresses(r) ==
  /\ asks[r].at = "addresses"
  /\ Now(r, IF asks[r].part = "rest" /\ Cardinality(asks[r].list) = Cardinality(Held)
            THEN Free ELSE [asks[r] EXCEPT !.list = Held, !.at = "lock"])
  /\ Outside /\ UNCHANGED <<listed, twoStep, balances, locker, known, upsets>>

(* _getBalanceFromAddresses takes the lock of the wallet. *)
TakeLock(r) ==
  /\ asks[r].at = "lock"
  /\ locker = Nobody
  /\ locker' = r
  /\ Now(r, [asks[r] EXCEPT !.at = "cache"])
  /\ Outside /\ UNCHANGED <<listed, twoStep, balances, known, upsets>>

(* Without the lock: the active ones are answered, the balance of all goes to the list. *)
Unlocked(r, ask) ==
  /\ Now(r, [ask EXCEPT !.at = IF ask.part = "active" THEN "answer" ELSE "listing"])
  /\ locker' = Nobody

Cacheable(list) == Cardinality(list) >= Many

(* Mutant of CacheFor: whatever the addresses. *)
CacheForAny(list) == balances

CacheFor(list) == {b \in balances : b.of = list}

(* checkAndUseBalanceCache; what is too old is removed. *)
CheckCache(r) ==
  /\ asks[r].at = "cache"
  /\ LET ask == asks[r]
         entries == IF Cacheable(ask.list) /\ ask.fast > 0 THEN CacheFor(ask.list) ELSE {}
         fresh == {b \in entries : b.age < ask.fast}
     IN \/ \E b \in fresh :
             /\ Unlocked(r, [ask EXCEPT !.found = b.result, !.cached = TRUE])
             /\ UNCHANGED balances
        \/ /\ fresh = {}
           /\ Now(r, [ask EXCEPT !.at = "utxos"])
           /\ balances' = balances \ entries
           /\ UNCHANGED locker
  /\ Outside /\ UNCHANGED <<listed, twoStep, known, upsets>>

(* _getUtxosForCurrentWallet and _totalizeUtxos *)
QueryUtxos(r) ==
  /\ asks[r].at = "utxos"
  /\ LET ask == [asks[r] EXCEPT !.found = funded \cap asks[r].list]
     IN IF Cacheable(ask.list) THEN Now(r, [ask EXCEPT !.at = "store"]) /\ UNCHANGED locker
        ELSE Unlocked(r, ask)
  /\ Outside /\ UNCHANGED <<listed, twoStep, balances, known, upsets>>

StoreBalanceCache(r) ==
  /\ asks[r].at = "store"
  /\ LET ask == asks[r]
     IN /\ \/ balances' = {b \in balances : b.of # ask.list}
                            \cup {[of |-> ask.list, result |-> ask.found, age |-> 0]}
              /\ UNCHANGED upsets
           \/ Upset /\ UNCHANGED balances
        /\ Unlocked(r, ask)
  /\ Outside /\ UNCHANGED <<listed, twoStep, known>>

(* storeAddressesWithBalance, the addresses of the balance, be it a cached one. *)
StoreListed(r) ==
  /\ asks[r].at = "listing"
  /\ \/ listed' = asks[r].found /\ UNCHANGED upsets
     \/ Upset /\ UNCHANGED listed
  /\ Now(r, [asks[r] EXCEPT !.at = IF asks[r].part = "all" THEN "answer" ELSE "compare"])
  /\ Outside /\ UNCHANGED <<twoStep, balances, locker, known>>

(* The answer; after that of the active addresses the others follow, but not when
   they had nothing within the hour. *)
AnswerBalance(r) ==
  /\ asks[r].at = "answer"
  /\ known' = asks[r].found
  /\ Now(r, IF asks[r].part = "all" \/ asks[r].empty THEN Free
            ELSE [asks[r] EXCEPT !.part = "rest", !.fast = 1, !.first = asks[r].found,
                                 !.since = marks[1], !.at = "addresses"])
  /\ Outside /\ UNCHANGED <<listed, twoStep, balances, locker, upsets>>

NothingElse(ask) == ~ask.cached /\ ask.found = ask.first

(* BalanceUpdated, or lastEmpty; neither, if the balance of all came from the cache. *)
CompareBalances(r) ==
  /\ asks[r].at = "compare"
  /\ known' = IF asks[r].cached \/ asks[r].found = asks[r].first THEN known
              ELSE asks[r].found
  /\ \/ /\ twoStep' = IF NothingElse(asks[r])
                      THEN [counted |-> asks[r].counted, empty |-> TRUE] ELSE twoStep
        /\ UNCHANGED upsets
     \/ NothingElse(asks[r]) /\ Upset /\ UNCHANGED twoStep
  /\ Now(r, Free)
  /\ Outside /\ UNCHANGED <<listed, balances, locker>>

(* A step fails, or the lock is not had in time: the request is refused. *)
AskFails(r) ==
  /\ asks[r].at \in {"twoStep", "count", "list", "addresses", "lock", "cache", "utxos"}
  /\ Upset
  /\ Now(r, Free)
  /\ locker' = IF locker = r THEN Nobody ELSE locker
  /\ Outside /\ UNCHANGED <<listed, twoStep, balances, known>>

(* The process dies. *)
AskersDie ==
  /\ Upset
  /\ asks' = [r \in Askers |-> Free]
  /\ locker' = Nobody
  /\ Outside /\ UNCHANGED <<listed, twoStep, balances, known>>

Proceed(r) ==
  \/ ReadTwoStep(r) \/ StoreCount(r) \/ FetchActive(r) \/ FetchAddresses(r)
  \/ TakeLock(r) \/ CheckCache(r) \/ QueryUtxos(r) \/ StoreBalanceCache(r)
  \/ StoreListed(r) \/ AnswerBalance(r) \/ CompareBalances(r)

BalanceNext ==
  \/ \E x \in Held : Receive(x) \/ Spend(x)
  \/ \E n \in noting : NoteRead(n) \/ NoteWrite(n)
  \/ TenSeconds \/ AnHour
  \/ \E r \in Askers :
       \/ \E steps \in 1..2 : GetBalance(r, steps)
       \/ Proceed(r) \/ AskFails(r)
  \/ AskersDie

(* Time passes, requests and the monitor go on, and clients keep asking. *)
BalanceFairness ==
  /\ SF_balanceVars(TenSeconds) /\ WF_balanceVars(AnHour)
  /\ WF_balanceVars(\E n \in noting : NoteRead(n) \/ NoteWrite(n))
  /\ \A r \in Askers : /\ WF_balanceVars(\E steps \in 1..2 : GetBalance(r, steps))
                       /\ SF_balanceVars(Proceed(r))

BalanceSpec == BalanceInit /\ [][BalanceNext]_balanceVars /\ BalanceFairness

-----------------------------------------------------------------------------
(* Properties *)

Has(ask) == ask.at \in {"store", "listing", "answer", "compare"}

(* A balance is that of the addresses it was asked for, at one time: after the
   request came or, if it may come from the cache, within the seconds that allows. *)
BalanceWasTrue ==
  \A r \in Askers : Has(asks[r]) =>
    \E k \in asks[r].since..Len(past) : asks[r].found = past[k] \cap asks[r].list

(* Clients who keep asking learn the balance once no more coins move, whatever the
   list of active addresses misses: an old address that got a coin nobody noted, or
   that was overwritten, is found within the hour. *)
ClientLearns == <>[](known = funded)

(* While all addresses are not asked for, the active ones are all that have coins. *)
HourIsEmpty ==
  twoStep.empty /\ noting = {} /\ (\A r \in Askers : asks[r].at = "idle")
    => funded \subseteq ActiveAddresses
=============================================================================
