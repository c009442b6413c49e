--------------------------- MODULE CopayerRegistry ---------------------------
(***************************************************************************)
(* Who belongs to which wallet: createWallet, joinWallet and addAccess     *)
(* (lib/server.js), on the wallets collection and on copayers_lookup, the  *)
(* table by which every request is authenticated and finds its wallet.     *)
(*                                                                         *)
(* A join holds the lock of the wallet it joins; the others take no lock.  *)
(* A wallet is rewritten as a whole, in three steps: its rows are removed, *)
(* its rows are inserted, its record is stored.                            *)
(***************************************************************************)
EXTENDS Naturals, FiniteSets, Sequences

CONSTANTS Wallets, Copayers, Keys, Tasks,
          JoinKeys,       \* bound: the keys copayers join with; they add the others
          None,           \* "nothing"
          N,              \* copayers in a wallet
          MaxKeys,        \* Defaults.MAX_KEYS
          Ops,            \* the requests made in this instance
          Faults          \* the faults that may happen, of FaultKinds

Requests == {"createWallet", "joinWallet", "addAccess"}
FaultKinds == {"expiry",  \* a handler holds the lock for five minutes
               "crash",   \* a bws process dies
               "early",   \* addAccess is asked for before the wallet is complete
               "overlap", \* two addAccess are in flight at once
               "twice"}   \* createWallet is asked for twice with one id

ASSUME CopayerRegistryAssumption ==
  /\ N \in Nat \ {0} /\ MaxKeys \in Nat
  /\ None \notin Wallets \cup Copayers \cup Keys \cup Tasks
  /\ Ops \subseteq Requests /\ Faults \subseteq FaultKinds

VARIABLES wallets,  \* the wallet records
          lookup,   \* the rows of copayers_lookup
          holder,   \* holder[w]: the task that holds the lock of wallet w
          job,      \* job[t]: the request task t serves and how far it is
          (* What has gone wrong; only properties look at it. *)
          mishaps,  \* the faults so far
          torn      \* the wallets whose last rewrite was cut short or overlapped

vars == <<wallets, lookup, holder, job, mishaps, torn>>

Copayer == [id : Copayers, keys : Seq(Keys)]

Doc == [status : {"pending", "complete"}, copayers : Seq(Copayer),
        publicKeyRing : Seq(Copayers)]

(* None is not a record either. *)
ASSUME NoneIsNothing == None \notin Doc

Row == [copayerId : Copayers, walletId : Wallets, keys : Seq(Keys)]

Idle == [op |-> "none", at |-> "idle", wallet |-> None, copayer |-> None,
         key |-> None, doc |-> None, row |-> None]

Points == {"start", "lookup", "fetch", "remove", "insert", "store"}

Job == [op : Requests, at : Points, wallet : Wallets \cup {None},
        copayer : Copayers \cup {None}, key : Keys \cup {None},
        doc : Doc \cup {None}, row : Row \cup {None}]

TypeOK ==
  /\ wallets \in [Wallets -> Doc \cup {None}]
  /\ lookup \subseteq Row
  /\ holder \in [Wallets -> Tasks \cup {None}]
  /\ job \in [Tasks -> Job \cup {Idle}]
  /\ mishaps \subseteq FaultKinds
  /\ torn \subseteq Wallets

(* Wallet.create *)
NewWallet == [status |-> "pending", copayers |-> <<>>, publicKeyRing |-> <<>>]

Init ==
  /\ wallets \in [Wallets -> {None, NewWallet}]
  /\ lookup = {}
  /\ holder = [w \in Wallets |-> None]
  /\ job = [t \in Tasks |-> Idle]
  /\ mishaps = {}
  /\ torn = {}

-----------------------------------------------------------------------------
Ids(doc) == [i \in 1..Len(doc.copayers) |-> doc.copayers[i].id]

Members(doc) == {doc.copayers[i].id : i \in 1..Len(doc.copayers)}

RowsOf(w) == {row \in lookup : row.walletId = w}

(* Wallet.addCopayer: the last one completes the wallet. *)
AddCopayer(doc, copayer, key) ==
  LET all == Append(doc.copayers, [id |-> copayer, keys |-> <<key>>])
  IN  IF Len(all) < N
      THEN [doc EXCEPT !.copayers = all]
      ELSE [status |-> "complete", copayers |-> all,
            publicKeyRing |-> [i \in 1..Len(all) |-> all[i].id]]

(* Wallet.addCopayerRequestKey: the new key goes first. *)
AddKey(doc, copayer, key) ==
  [doc EXCEPT !.copayers = [i \in 1..Len(@) |->
     IF @[i].id = copayer THEN [id |-> copayer, keys |-> <<key>> \o @[i].keys] ELSE @[i]]]

(* The rows that storeWalletAndUpdateCopayersLookup inserts. *)
RowsFor(w, doc) ==
  {[copayerId |-> doc.copayers[i].id, walletId |-> w, keys |-> doc.copayers[i].keys]
     : i \in 1..Len(doc.copayers)}

(* Mutant of Free: joinWallet takes no lock. *)
AlwaysFree(w) == TRUE

Free(w) == holder[w] = None

(* A task that lost its lock has none to release. *)
Unlocked(tasks) == [w \in Wallets |-> IF holder[w] \in tasks THEN None ELSE holder[w]]

Answer(t) ==
  /\ job' = [job EXCEPT ![t] = Idle]
  /\ holder' = Unlocked({t})

Continue(t, next) ==
  /\ job' = [job EXCEPT ![t] = next]
  /\ UNCHANGED holder

GoTo(t, point) == Continue(t, [job[t] EXCEPT !.at = point])

At(t, op, point) == job[t].op = op /\ job[t].at = point

(* A rewrite is under way from the removal of the rows to the storing of the
   record; a createWallet only stores. *)
Writes(t, w) == job[t].wallet = w /\ job[t].at \in {"insert", "store"}

Writing(w) == \E t \in Tasks : Writes(t, w)

(* The requests of a process end with it, and so do its locks. *)
Stop(tasks) ==
  /\ job' = [t \in Tasks |-> IF t \in tasks THEN Idle ELSE job[t]]
  /\ holder' = Unlocked(tasks)
  /\ mishaps' = mishaps \cup {"crash"}
  /\ torn' = torn \cup {w \in Wallets : \E t \in tasks :
                           Writes(t, w) /\ job[t].op # "createWallet"}
  /\ UNCHANGED <<wallets, lookup>>

-----------------------------------------------------------------------------
(* Unless a client is early, who asks for access has seen a complete wallet. *)
InCompleteWallet(copayer) ==
  \E w \in Wallets : /\ wallets[w] # None /\ wallets[w].status = "complete"
                     /\ copayer \in Members(wallets[w])

(* The fault it is to make a request while one of its kind is in flight. *)
Overlapping(op) ==
  LET others == \E u \in Tasks : job[u].op = op
  IN  {fault \in {"overlap", "twice"} :
         /\ others
         /\ fault = "overlap" => op = "addAccess"
         /\ fault = "twice" => op = "createWallet"}

Arrive(t, op, w, copayer, key) ==
  /\ job[t] = Idle
  /\ op \in Ops
  /\ op = "addAccess" /\ "early" \notin Faults => InCompleteWallet(copayer)
  /\ op = "joinWallet" => key \in JoinKeys
  /\ op = "addAccess" => key \notin JoinKeys
  /\ Overlapping(op) \subseteq Faults
  /\ Continue(t, [Idle EXCEPT !.op = op, !.at = "start",
        !.wallet = IF op = "addAccess" THEN None ELSE w,
        !.copayer = IF op = "createWallet" THEN None ELSE copayer,
        !.key = IF op = "createWallet" THEN None ELSE key])
  /\ mishaps' = mishaps \cup Overlapping(op)
  /\ UNCHANGED <<wallets, lookup, torn>>

LockExpires(w) ==
  /\ "expiry" \in Faults
  /\ holder[w] # None
  /\ holder' = [holder EXCEPT ![w] = None]
  /\ mishaps' = mishaps \cup {"expiry"}
  /\ UNCHANGED <<wallets, lookup, job, torn>>

Crash(t) ==
  /\ "crash" \in Faults
  /\ job[t] # Idle
  /\ Stop({t})

-----------------------------------------------------------------------------
(* createWallet with an id: it must not exist yet. *)
CreateWallet(t) ==
  /\ At(t, "createWallet", "start")
  /\ \/ wallets[job[t].wallet] # None /\ Answer(t)
     \/ /\ wallets[job[t].wallet] = None
        /\ Continue(t, [job[t] EXCEPT !.doc = NewWallet, !.at = "store"])
  /\ UNCHANGED <<wallets, lookup, mishaps, torn>>

(* Mutant of MayJoin: without WALLET_FULL. *)
MayJoinFull(doc, copayer) == doc # None /\ copayer \notin Members(doc)

(* WALLET_NOT_FOUND, COPAYER_IN_WALLET, WALLET_FULL.  A wallet of another coin
   or network and a wrong signature are refused as well, without any effect. *)
MayJoin(doc, copayer) ==
  doc # None /\ copayer \notin Members(doc) /\ Len(doc.copayers) # N

(* joinWallet, under the lock of the wallet it is going to join. *)
JoinWallet(t) ==
  /\ At(t, "joinWallet", "start")
  /\ LET w == job[t].wallet
     IN  /\ Free(w)
         /\ \/ /\ MayJoin(wallets[w], job[t].copayer)
               /\ holder' = [holder EXCEPT ![w] = t]
               /\ job' = [job EXCEPT ![t].doc = wallets[w], ![t].at = "lookup"]
            \/ /\ ~MayJoin(wallets[w], job[t].copayer)
               /\ Answer(t)
  /\ UNCHANGED <<wallets, lookup, mishaps, torn>>

(* WALLET_BUSY. *)
Busy(t) ==
  /\ At(t, "joinWallet", "start") /\ ~Free(job[t].wallet)
  /\ Answer(t)
  /\ UNCHANGED <<wallets, lookup, mishaps, torn>>

Registered(copayer) == \E row \in lookup : row.copayerId = copayer

(* _addCopayerToWallet: COPAYER_REGISTERED, or the copayer is added.  A dryRun
   ends here and changes nothing. *)
AddCopayerToWallet(t) ==
  /\ At(t, "joinWallet", "lookup")
  /\ \/ Registered(job[t].copayer) /\ Answer(t)
     \/ /\ ~Registered(job[t].copayer)
        /\ Continue(t, [job[t] EXCEPT !.at = "remove",
                          !.doc = AddCopayer(@, job[t].copayer, job[t].key)])
  /\ UNCHANGED <<wallets, lookup, mishaps, torn>>

-----------------------------------------------------------------------------
(* addAccess: findOne returns one of the rows of the copayer. *)
AddAccess(t) ==
  /\ At(t, "addAccess", "start")
  /\ \/ ~Registered(job[t].copayer) /\ Answer(t)
     \/ \E row \in lookup :
          /\ row.copayerId = job[t].copayer
          /\ Continue(t, [job[t] EXCEPT !.row = row, !.wallet = row.walletId, !.at = "fetch"])
  /\ UNCHANGED <<wallets, lookup, mishaps, torn>>

TooManyKeys(row) == Len(row.keys) > MaxKeys

(* _addKeyToCopayer, with a row of the lookup and a wallet read after it.  The
   key of a copayer that is not in the wallet, or of a wallet that is not
   complete, is an exception in a callback: it ends the process. *)
AddKeyToCopayer(t) ==
  /\ At(t, "addAccess", "fetch")
  /\ LET doc == wallets[job[t].wallet]
         copayer == job[t].copayer
         known == doc # None /\ copayer \in Members(doc)
         full == TooManyKeys(job[t].row)
     IN  \/ doc = None /\ Answer(t) /\ UNCHANGED <<wallets, lookup, mishaps, torn>>
         \/ known /\ full /\ Answer(t) /\ UNCHANGED <<wallets, lookup, mishaps, torn>>
         \/ /\ known /\ ~full /\ Len(doc.copayers) = N
            /\ Continue(t, [job[t] EXCEPT !.doc = AddKey(doc, copayer, job[t].key),
                                          !.at = "remove"])
            /\ UNCHANGED <<wallets, lookup, mishaps, torn>>
         \/ /\ doc # None
            /\ ~known \/ (~full /\ Len(doc.copayers) # N)
            /\ \E others \in SUBSET Tasks : Stop({t} \cup others)

-----------------------------------------------------------------------------
(* storeWalletAndUpdateCopayersLookup *)
RemoveRows(t) ==
  /\ job[t].at = "remove"
  /\ lookup' = lookup \ RowsOf(job[t].wallet)
  /\ GoTo(t, "insert")
  /\ torn' = IF Writing(job[t].wallet) THEN torn \cup {job[t].wallet}
                                       ELSE torn \ {job[t].wallet}
  /\ UNCHANGED <<wallets, mishaps>>

(* Mutant of InsertRows: the rows of the wallet as it is stored still. *)
InsertRowsOld(t) ==
  /\ job[t].at = "insert"
  /\ lookup' = lookup \cup (IF wallets[job[t].wallet] = None THEN {}
                            ELSE RowsFor(job[t].wallet, wallets[job[t].wallet]))
  /\ GoTo(t, "store")
  /\ UNCHANGED <<wallets, mishaps, torn>>

InsertRows(t) ==
  /\ job[t].at = "insert"
  /\ lookup' = lookup \cup RowsFor(job[t].wallet, job[t].doc)
  /\ GoTo(t, "store")
  /\ UNCHANGED <<wallets, mishaps, torn>>

(* storeWallet, of createWallet too. *)
StoreWallet(t) ==
  /\ job[t].at = "store"
  /\ wallets' = [wallets EXCEPT ![job[t].wallet] = job[t].doc]
  /\ Answer(t)
  /\ UNCHANGED <<lookup, mishaps, torn>>

-----------------------------------------------------------------------------
Serve(t) ==
  \/ CreateWallet(t) \/ JoinWallet(t) \/ AddCopayerToWallet(t)
  \/ AddAccess(t) \/ AddKeyToCopayer(t)
  \/ RemoveRows(t) \/ InsertRows(t) \/ StoreWallet(t)

Next ==
  \/ \E t \in Tasks :
       \/ \E op \in Ops, w \in Wallets, copayer \in Copayers, key \in Keys :
            Arrive(t, op, w, copayer, key)
       \/ Serve(t) \/ Busy(t) \/ Crash(t)
  \/ \E w \in Wallets : LockExpires(w)

Spec == Init /\ [][Next]_vars

-----------------------------------------------------------------------------
(* A stored wallet never has a copayer twice or more than N of them; it is
   complete exactly when it has N, and then its key ring, from which addresses
   are derived, is theirs.  Whatever races, dies or times out. *)
Sound(doc) ==
  /\ Len(doc.copayers) <= N
  /\ \A i, j \in 1..Len(doc.copayers) :
       doc.copayers[i].id = doc.copayers[j].id => i = j
  /\ doc.status = "complete" <=> Len(doc.copayers) = N
  /\ doc.publicKeyRing = IF doc.status = "complete" THEN Ids(doc) ELSE <<>>

WalletsSound == \A w \in Wallets : wallets[w] # None => Sound(wallets[w])

(* Who joined stays, in its place, unless a lock expires or two createWallet
   with one id race: addAccess rewrites the wallet without the lock, but only
   one that nobody can join any more; and a process may die at any point. *)
MembersKept ==
  [][\A w \in Wallets : wallets[w] # None /\ mishaps' \subseteq {"crash", "overlap"} =>
       LET old == Ids(wallets[w])
           new == Ids(wallets'[w])
       IN  Len(old) <= Len(new) /\ SubSeq(new, 1, Len(old)) = old]_vars

(* Access once given stays: no rewrite of a wallet drops a key that another
   request has added, as long as two addAccess do not overlap. *)
KeysOf(doc, copayer) ==
  UNION {{doc.copayers[i].keys[k] : k \in 1..Len(doc.copayers[i].keys)}
           : i \in {j \in 1..Len(doc.copayers) : doc.copayers[j].id = copayer}}

KeysKept ==
  [][\A w \in Wallets : wallets[w] # None /\ mishaps' \subseteq {"crash"} =>
       \A copayer \in Members(wallets[w]) :
         KeysOf(wallets[w], copayer) \subseteq KeysOf(wallets'[w], copayer)]_vars

(* Neither rewrite of a wallet undoes the other. *)
RewritesKept == MembersKept /\ KeysKept

(* MAX_KEYS, and the one the comparison lets through; checked on a row that is
   read before the wallet. *)
KeysBounded ==
  \A w \in Wallets : wallets[w] # None /\ mishaps \subseteq {"crash"} =>
    \A i \in 1..Len(wallets[w].copayers) :
      Len(wallets[w].copayers[i].keys) <= MaxKeys + 1

(* The rows of a wallet are its copayers with the keys they have. *)
Settled(w) == RowsOf(w) = IF wallets[w] = None THEN {} ELSE RowsFor(w, wallets[w])

UntornSettled == \A w \in Wallets : ~Writing(w) /\ w \notin torn => Settled(w)

TornByMishap == torn # {} => mishaps # {}

(* A row for each copayer of the record, with every key it has there. *)
Covered(w) ==
  \A i \in 1..Len(wallets[w].copayers) : \E row \in RowsOf(w) :
    /\ row.copayerId = wallets[w].copayers[i].id
    /\ \A k \in 1..Len(wallets[w].copayers[i].keys) : \E l \in 1..Len(row.keys) :
         row.keys[l] = wallets[w].copayers[i].keys[k]

CrashLeavesAllOrNone ==
  mishaps \subseteq {"crash"} =>
    \A w \in torn : wallets[w] # None /\ (RowsOf(w) = {} \/ Covered(w))

(* Who joined can authenticate, with every key, and nobody else.  When nobody is
   rewriting a wallet its rows agree with its record, whatever overlapped, died or
   timed out before, unless its last rewrite was torn: a fault parts the rows of
   the wallet it hits and of no other, and the next rewrite that is left alone
   brings them together again.  Without a fault no rewrite is torn, since the lock
   of a join, the order of creation and the check that a wallet is complete keep
   them apart.  And where the faults are crashes, a torn wallet has no row at all,
   or rows that are ahead of its record and never behind it. *)
LookupSettled == UntornSettled /\ TornByMishap /\ CrashLeavesAllOrNone

(* "should fail to join two wallets with same xPubKey": a copayer is in one
   wallet only, since its id alone finds the wallet of a request. *)
OneWalletPerCopayer ==
  \A w, x \in Wallets :
    w # x /\ wallets[w] # None /\ wallets[x] # None =>
      Members(wallets[w]) \cap Members(wallets[x]) = {}
=============================================================================
