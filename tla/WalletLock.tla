----------------------------- MODULE WalletLock -----------------------------
(***************************************************************************)
(* What lib/lock.js promises the request handlers about one token (the    *)
(* wallet id): whoever holds it runs alone, waiters are handed the token  *)
(* when it is let go, a waiter may give up (WALLET_BUSY), and a holder    *)
(* that keeps the token too long loses it although it goes on working.    *)
(* LocalLock.tla implements this; Proposals.tla runs its handlers on it.  *)
(***************************************************************************)

CONSTANTS Tasks,      \* the callers of runLocked
          None        \* "nobody"

ASSUME WalletLockAssumption == None \notin Tasks

VARIABLES holder,     \* the task whose turn it is, or None
          waiting,    \* the tasks in line
          overdue     \* tasks that lost the token by timeout and still work

lockVars == <<holder, waiting, overdue>>

LockTypeOK ==
  /\ holder \in Tasks \cup {None}
  /\ waiting \subseteq Tasks
  /\ overdue \subseteq Tasks

LockInit ==
  /\ holder = None
  /\ waiting = {}
  /\ overdue = {}

(* Letting the token go hands it to one of those in line at once: it is
   never free while somebody waits for it. *)
HandOver ==
  \/ /\ waiting = {}
     /\ holder' = None
     /\ UNCHANGED waiting
  \/ \E u \in waiting :
       /\ holder' = u
       /\ waiting' = waiting \ {u}

Request(t) ==
  /\ t \notin waiting \cup overdue \cup {holder}
  /\ \/ /\ holder = None
        /\ holder' = t
        /\ UNCHANGED waiting
     \/ /\ holder # None
        /\ waiting' = waiting \cup {t}
        /\ UNCHANGED holder
  /\ UNCHANGED overdue

GiveUp(t) ==
  /\ t \in waiting
  /\ waiting' = waiting \ {t}
  /\ UNCHANGED <<holder, overdue>>

Release(t) ==
  /\ t = holder
  /\ HandOver
  /\ UNCHANGED overdue

(* The maximum holding time is over: the token moves on, the task does not
   learn of it. *)
Expire(t) ==
  /\ t = holder
  /\ HandOver
  /\ overdue' = overdue \cup {t}

ReleaseLate(t) ==
  /\ t \in overdue
  /\ overdue' = overdue \ {t}
  /\ UNCHANGED <<holder, waiting>>

LockNext == \E t \in Tasks : \/ Request(t) \/ GiveUp(t)
                             \/ Release(t) \/ Expire(t) \/ ReleaseLate(t)

LockSpec == LockInit /\ [][LockNext]_lockVars
=============================================================================
