------------------------------ MODULE LocalLock ------------------------------
(***************************************************************************)
(* lib/locallock.js: the in-process lock, one list of tasks per token, as  *)
(* used through runLocked of lib/lock.js.  A task object belongs to one   *)
(* call of locked().  Timers are never cancelled: they stay armed after    *)
(* the task has run and find out, when they fire, that they came too late. *)
(* A handler runs to completion before any other (Node's event loop), and  *)
(* every nested call (push, _runOne, fn) is in tail position, so each      *)
(* entry point is one action.                                              *)
(***************************************************************************)
EXTENDS Naturals, Sequences, SequencesExt

CONSTANTS Tokens,        \* lock tokens (wallet ids)
          Tasks,         \* task objects, one per call of locked()
          NoToken,       \* the token of a task not yet created
          WaitOptions,   \* is the wait limit > 0? values callers pass
          MaxOptions     \* is the holding limit > 0? values callers pass

ASSUME LocalLockAssumption ==
  /\ NoToken \notin Tokens \cup Tasks
  /\ WaitOptions \subseteq BOOLEAN
  /\ MaxOptions \subseteq BOOLEAN

VARIABLES tasks,      \* tasks[k]: this.tasks[k], the list of token k
          token,      \* token[t]: the token task t was created for
          timeout,    \* the tasks with task.timeout > 0
          running,    \* the tasks with task.running = true
          waitTimer,  \* the tasks whose wait timer is armed
          maxTimer,   \* the tasks whose holding timer is armed
          fn          \* fn[t]: what became of the user's function

localVars == <<tasks, token, timeout, running, waitTimer, maxTimer, fn>>

(* "idle": not called; "working": called with release, still at it; "done":
   called release; "lost": ended without calling release (an exception before
   the release() of _cb); "refused": called with an error. *)
FnStates == {"idle", "working", "done", "lost", "refused"}

LocalInit ==
  /\ tasks = [k \in Tokens |-> <<>>]
  /\ token = [t \in Tasks |-> NoToken]
  /\ timeout = {}
  /\ running = {}
  /\ waitTimer = {}
  /\ maxTimer = {}
  /\ fn = [t \in Tasks |-> "idle"]

-----------------------------------------------------------------------------
(* _.without(list, t); a task is in a list at most once (LocalLockProofs). *)
Without(list, t) ==
  IF \E i \in 1..Len(list) : list[i] = t
  THEN RemoveAt(list, CHOOSE i \in 1..Len(list) : list[i] = t)
  ELSE list

(* Mutant of NextToRun: whoever runs. *)
NextToRunUnguarded(list, run) ==
  LET waits == SelectSeq(list, LAMBDA t : t \notin run)
  IN  IF waits = <<>> THEN {} ELSE {Head(waits)}

(* Nobody is started while a task of the list runs, otherwise its first. *)
NextToRun(list, run) ==
  IF list = <<>> \/ \E i \in 1..Len(list) : list[i] \in run THEN {} ELSE {list[1]}

(* Mutant of RunOne: nobody is started. *)
RunNobody(k, list, run, timers, called) ==
  /\ tasks' = [tasks EXCEPT ![k] = list]
  /\ running' = run /\ maxTimer' = timers /\ fn' = called

(* _runOne(k) in a state where the list of k, the running tasks, the armed
   holding timers and the callback states are the given ones. *)
RunOne(k, list, run, timers, called) ==
  LET started == NextToRun(list, run)
  IN  /\ tasks' = [tasks EXCEPT ![k] = list]
      /\ running' = run \cup started
      /\ maxTimer' = timers \cup (started \cap timeout')
      /\ fn' = [t \in Tasks |-> IF t \in started THEN "working" ELSE called[t]]

(* _release(k, t): nothing unless t still runs. *)
ReleaseTask(t, timers, called) ==
  IF t \in running
  THEN RunOne(token[t], Without(tasks[token[t]], t), running \ {t},
              timers, called)
  ELSE /\ maxTimer' = timers
       /\ fn' = called
       /\ UNCHANGED <<tasks, running>>

-----------------------------------------------------------------------------
(* locked(k, wait, max, userTask): push, arm the wait timer, _runOne. *)
Locked(t, k, wait, max) ==
  /\ token[t] = NoToken
  /\ token' = [token EXCEPT ![t] = k]
  /\ timeout' = IF max THEN timeout \cup {t} ELSE timeout
  /\ waitTimer' = IF wait THEN waitTimer \cup {t} ELSE waitTimer
  /\ RunOne(k, Append(tasks[k], t), running, maxTimer, fn)

(* Mutant of StillInLine: of the task that runs too. *)
NotStarted(t) == t \notin running

StillInLine(t) ==
  t \notin running /\ \E i \in 1..Len(tasks[token[t]]) : tasks[token[t]][i] = t

(* The wait timer fires: an error for a task that is still in line. *)
WaitTimeout(t) ==
  /\ t \in waitTimer
  /\ waitTimer' = waitTimer \ {t}
  /\ IF StillInLine(t)
     THEN /\ tasks' = [tasks EXCEPT ![token[t]] = Without(@, t)]
          /\ fn' = [fn EXCEPT ![t] = "refused"]
     ELSE UNCHANGED <<tasks, fn>>
  /\ UNCHANGED <<token, timeout, running, maxTimer>>

(* Mutant of MaxTimeout: the release is not forced. *)
MaxTimeoutIgnored(t) ==
  /\ t \in maxTimer
  /\ maxTimer' = maxTimer \ {t}
  /\ UNCHANGED <<tasks, token, timeout, running, waitTimer, fn>>

(* The holding timer fires: a forced release, unless it came too late. *)
MaxTimeout(t) ==
  /\ t \in maxTimer
  /\ UNCHANGED <<token, timeout, waitTimer>>
  /\ ReleaseTask(t, maxTimer \ {t}, fn)

(* The user's function has finished and calls release(), in time or late. *)
Release(t) ==
  /\ fn[t] = "working"
  /\ UNCHANGED <<token, timeout, waitTimer>>
  /\ ReleaseTask(t, maxTimer, [fn EXCEPT ![t] = "done"])

(* runLocked's _cb calls cb before release(): if cb throws, or the work is
   never completed, release is not called. *)
LoseRelease(t) ==
  /\ fn[t] = "working"
  /\ fn' = [fn EXCEPT ![t] = "lost"]
  /\ UNCHANGED <<tasks, token, timeout, running, waitTimer, maxTimer>>

LocalNext ==
  \E t \in Tasks :
    \/ \E k \in Tokens, wait \in WaitOptions, max \in MaxOptions : Locked(t, k, wait, max)
    \/ WaitTimeout(t)
    \/ MaxTimeout(t)
    \/ Release(t)
    \/ LoseRelease(t)

LocalSpec == LocalInit /\ [][LocalNext]_localVars

(* The event loop fires every armed timer in the end.  No fairness for the
   user's functions: their work may never end. *)
LocalFairness == \A t \in Tasks : WF_localVars(WaitTimeout(t)) /\ WF_localVars(MaxTimeout(t))
LocalFairSpec == LocalSpec /\ LocalFairness

-----------------------------------------------------------------------------
LocalTypeOK ==
  /\ tasks \in [Tokens -> Seq(Tasks)]
  /\ token \in [Tasks -> Tokens \cup {NoToken}]
  /\ timeout \subseteq Tasks
  /\ running \subseteq Tasks
  /\ waitTimer \subseteq Tasks
  /\ maxTimer \subseteq Tasks
  /\ fn \in [Tasks -> FnStates]

(* Every list has exactly one running task, its first (_runOne): two tasks
   never hold a token together, and no task is left in line with nobody
   running, whatever order calls, releases and both timers come in. *)
HeadRuns ==
  \A k \in Tokens : \A i \in 1..Len(tasks[k]) : (tasks[k][i] \in running) <=> (i = 1)

(* Two user functions of one token overlap only after the five-minute limit
   took the token from one of them (setTimeout of task.timeout in _runOne). *)
OverlapOnlyAfterTimeout ==
  \A t, u \in Tasks :
    /\ t # u /\ token[t] = token[u]
    /\ fn[t] = "working" /\ fn[u] = "working"
    => \E w \in {t, u} : w \notin running /\ w \in timeout /\ w \notin maxTimer

(* A task in a list has not been called back yet, or runs; one that is not
   in a list has had its one answer: no request is dropped silently. *)
NoRequestDropped ==
  \A t \in Tasks :
    token[t] # NoToken /\ fn[t] = "idle"
      => \E i \in 1..Len(tasks[token[t]]) : tasks[token[t]][i] = t

(* fn is called once per locked(): never a grant after a refusal, never a
   refusal by a stale wait timer after a grant. *)
CalledOnce ==
  [][\A t \in Tasks : fn'[t] # fn[t] =>
       \/ fn[t] = "idle" /\ fn'[t] \in {"working", "refused"}
       \/ fn[t] = "working" /\ fn'[t] \in {"done", "lost"}]_localVars

(* First come, first served: a task starts only when every task pushed before
   it on its token has started or been refused. *)
FirstComeFirstServed ==
  [][\A k \in Tokens : \A i, j \in 1..Len(tasks[k]) :
       i < j /\ fn'[tasks[k][j]] = "working" => fn'[tasks[k][i]] # "idle"]_localVars

(* Every request is answered, by the token or by an error, although releases
   get lost: again and again a moment comes at which nobody who asked is without
   an answer.  The holding timer frees the token (lib/lock.js always passes five
   minutes, so MaxOptions = {TRUE} in the run of this property). *)
Answered == []<>(\A t \in Tasks : token[t] # NoToken => fn[t] # "idle")

-----------------------------------------------------------------------------
(* The lock of one token as the handlers see it. *)
InList(k) == {t \in Tasks : \E i \in 1..Len(tasks[k]) : tasks[k][i] = t}

Abstract(k) == INSTANCE WalletLock WITH
  None    <- NoToken,
  holder  <- IF \E t \in running : token[t] = k
             THEN CHOOSE t \in running : token[t] = k ELSE NoToken,
  waiting <- InList(k) \ running,
  overdue <- {t \in Tasks : token[t] = k /\ fn[t] \in {"working", "lost"}
                            /\ t \notin running}

(* Every token behaves as a WalletLock of its own: locallock.js implements
   the lock the handlers of lib/server.js are written against. *)
ImplementsWalletLock ==
  /\ \A k \in Tokens : Abstract(k)!LockInit
  /\ [][\A k \in Tokens : [Abstract(k)!LockNext]_(Abstract(k)!lockVars)]_localVars
=============================================================================
