--------------------------- MODULE LocalLockProofs ---------------------------
(***************************************************************************)
(* Proofs about LocalLock, for every set of tasks and tokens: its types,   *)
(* that a task that waits always has somebody before it, that each call is *)
(* called back once, and that the lock of each token is a WalletLock.      *)
(***************************************************************************)
EXTENDS LocalLock, SequenceTheorems, TLAPS

(* No task is twice in a list, and it is in the list of its token only. *)
Distinct(list) == \A i, j \in 1..Len(list) : list[i] = list[j] => i = j

ListsDisjoint ==
  \A k \in Tokens : /\ Distinct(tasks[k])
                    /\ \A i \in 1..Len(tasks[k]) : token[tasks[k][i]] = k

IsListed(t) == \E i \in 1..Len(tasks[token[t]]) : tasks[token[t]][i] = t

(* A running task is in the list of its token, and its function was called. *)
RunningListed == \A t \in running : token[t] \in Tokens /\ IsListed(t)

RunningCalled == \A t \in running : fn[t] \in {"working", "lost"}

(* Timers are armed for tasks in use. *)
ArmedUsed == \A t \in waitTimer : token[t] \in Tokens

(* A task that waits in a list, or was never used, has not been called. *)
WaitersIdle ==
  \A k \in Tokens : \A i \in 1..Len(tasks[k]) :
    tasks[k][i] \notin running => fn[tasks[k][i]] = "idle"

UnusedIdle == \A t \in Tasks : token[t] = NoToken => fn[t] = "idle"

(* Who works without the token has had his holding timer fire. *)
OverdueTimedOut ==
  /\ maxTimer \subseteq timeout
  /\ \A t \in Tasks : fn[t] = "working" /\ t \notin running
                       => t \in timeout /\ t \notin maxTimer

Inv ==
  /\ LocalTypeOK
  /\ HeadRuns
  /\ ListsDisjoint
  /\ RunningListed
  /\ RunningCalled
  /\ WaitersIdle
  /\ UnusedIdle
  /\ NoRequestDropped
  /\ OverdueTimedOut
  /\ ArmedUsed

-----------------------------------------------------------------------------
(* What is left of a list when its i-th element is taken out. *)
LEMMA RemoveAtElements ==
  ASSUME NEW S, NEW list \in Seq(S), NEW i \in 1..Len(list)
  PROVE  /\ RemoveAt(list, i) \in Seq(S)
         /\ Len(RemoveAt(list, i)) = Len(list) - 1
         /\ \A j \in 1..(Len(list) - 1) :
              RemoveAt(list, i)[j] = IF j < i THEN list[j] ELSE list[j + 1]
<1> DEFINE a == SubSeq(list, 1, i-1)
           b == SubSeq(list, i+1, Len(list))
<1>1. /\ Len(list) \in Nat
      /\ \A j \in 1..Len(list) : list[j] \in S
  BY ElementOfSeq
<1>2. /\ a \in Seq(S)
      /\ Len(a) = i - 1
      /\ \A j \in 1..(i-1) : a[j] = list[j]
  <2>1. \A j \in 1..(i-1) : list[j] \in S
    BY <1>1
  <2>2. /\ a \in Seq(S)
        /\ Len(a) = IF 1 <= i-1 THEN (i-1)-1+1 ELSE 0
        /\ \A j \in 1..((i-1)-1+1) : a[j] = list[1+j-1]
    BY <2>1, <1>1, SubSeqProperties
  <2> QED
    BY <2>2, <1>1
<1>3. /\ b \in Seq(S)
      /\ Len(b) = Len(list) - i
      /\ \A j \in 1..(Len(list)-i) : b[j] = list[i+j]
  <2>1. \A j \in (i+1)..Len(list) : list[j] \in S
    BY <1>1
  <2>2. /\ b \in Seq(S)
        /\ Len(b) = IF i+1 <= Len(list) THEN Len(list)-(i+1)+1 ELSE 0
        /\ \A j \in 1..(Len(list)-(i+1)+1) : b[j] = list[(i+1)+j-1]
    BY <2>1, <1>1, SubSeqProperties
  <2> QED
    BY <2>2, <1>1
<1>4. RemoveAt(list, i) = a \o b
  BY DEF RemoveAt
<1> HIDE DEF a, b
<1>5. /\ a \o b \in Seq(S)
      /\ Len(a \o b) = Len(a) + Len(b)
      /\ \A j \in 1..(Len(a) + Len(b)) :
           (a \o b)[j] = IF j <= Len(a) THEN a[j] ELSE b[j - Len(a)]
  BY <1>2, <1>3, ConcatProperties
<1>6. ASSUME NEW j \in 1..(Len(list) - 1)
      PROVE  (a \o b)[j] = IF j < i THEN list[j] ELSE list[j + 1]
  <2>1. CASE j < i
    BY <2>1, <1>1, <1>2, <1>3, <1>5
  <2>2. CASE j >= i
    <3>1. /\ (a \o b)[j] = b[j - (i - 1)]
          /\ j - (i - 1) \in 1..(Len(list) - i)
      BY <2>2, <1>1, <1>2, <1>3, <1>5
    <3>2. b[j - (i - 1)] = list[i + (j - (i - 1))]
      BY <3>1, <1>3
    <3>3. i + (j - (i - 1)) = j + 1
      OBVIOUS
    <3>4. ~(j < i)
      BY <2>2
    <3> QED
      BY <3>1, <3>2, <3>3, <3>4
  <2>3. j < i \/ j >= i
    BY <1>1
  <2> QED
    BY <2>1, <2>2, <2>3
<1> QED
  BY <1>1, <1>2, <1>3, <1>4, <1>5, <1>6

(* Without keeps the order of the others and removes t, wherever it was. *)
LEMMA WithoutElements ==
  ASSUME NEW S, NEW list \in Seq(S), Distinct(list), NEW t,
         NEW i \in 1..Len(list), list[i] = t
  PROVE  /\ Without(list, t) \in Seq(S)
         /\ Len(Without(list, t)) = Len(list) - 1
         /\ \A j \in 1..(Len(list) - 1) :
              Without(list, t)[j] = IF j < i THEN list[j] ELSE list[j + 1]
<1>1. (CHOOSE m \in 1..Len(list) : list[m] = t) = i
  BY DEF Distinct
<1>2. Without(list, t) = RemoveAt(list, i)
  BY <1>1 DEF Without
<1> QED
  BY <1>2, RemoveAtElements

-----------------------------------------------------------------------------
(* The middle of an action that calls _runOne(k): the lists, tokens and limits
   already are what they will be; list is the list of k, run, timers and called
   are the running tasks, the armed holding timers and the callback states so
   far, and only k may lack its running head. *)
Ready(k, list, run, timers, called) ==
  /\ tasks \in [Tokens -> Seq(Tasks)] /\ list \in Seq(Tasks)
  /\ run \subseteq Tasks /\ timers \subseteq timeout'
  /\ called \in [Tasks -> FnStates]
  /\ token' \in [Tasks -> Tokens \cup {NoToken}]
  /\ timeout' \subseteq Tasks /\ waitTimer' \subseteq Tasks
  /\ ListsDisjoint'
  /\ \A i \in 1..Len(list) : list[i] \in run => i = 1
  /\ \A m \in Tokens \ {k} : \A i \in 1..Len(tasks[m]) : tasks[m][i] \in run <=> i = 1
  /\ \A t \in run : token'[t] \in Tokens /\ IsListed(t)' /\ called[t] \in {"working", "lost"}
  /\ \A m \in Tokens : \A i \in 1..Len(tasks'[m]) :
       tasks'[m][i] \notin run => called[tasks'[m][i]] = "idle"
  /\ \A t \in Tasks : token'[t] = NoToken => called[t] = "idle"
  /\ \A t \in Tasks : token'[t] # NoToken /\ called[t] = "idle" => IsListed(t)'
  /\ \A t \in Tasks : called[t] = "working" /\ t \notin run
                       => t \in timeout' /\ t \notin timers
  /\ ArmedUsed'

(* _runOne(k) then restores the invariant. *)
LEMMA RunOneKeeps ==
  ASSUME NEW k \in Tokens, NEW list, NEW run, NEW timers, NEW called,
         Ready(k, list, run, timers, called),
         RunOne(k, list, run, timers, called)
  PROVE  Inv'
<1> USE DEF Ready
<1>1. /\ tasks' = [tasks EXCEPT ![k] = list]
      /\ tasks' \in [Tokens -> Seq(Tasks)]
      /\ tasks'[k] = list
      /\ \A m \in Tokens \ {k} : tasks'[m] = tasks[m]
      /\ Len(list) \in Nat
      /\ \A i \in 1..Len(list) : list[i] \in Tasks
  BY ElementOfSeq DEF RunOne, NextToRun
<1>2. CASE list = <<>> \/ \E i \in 1..Len(list) : list[i] \in run
  <2>1. running' = run /\ maxTimer' = timers /\ fn' = called
    BY <1>2 DEF RunOne, NextToRun
  <2>2. LocalTypeOK'
    BY <1>1, <2>1 DEF LocalTypeOK
  <2>3. HeadRuns'
    BY <1>1, <1>2, <2>1 DEF HeadRuns
  <2> QED
    BY <1>1, <2>1, <2>2, <2>3
       DEF Inv, RunningListed, RunningCalled, WaitersIdle, UnusedIdle,
           NoRequestDropped, OverdueTimedOut, IsListed
<1>3. CASE ~(list = <<>> \/ \E i \in 1..Len(list) : list[i] \in run)
  <2> DEFINE first == list[1]
  <2>1. /\ running' = run \cup {first}
        /\ maxTimer' = timers \cup ({first} \cap timeout')
        /\ fn' = [called EXCEPT ![first] = "working"]
    BY <1>3 DEF RunOne, NextToRun
  <2>2. 1 \in 1..Len(list) /\ first \in Tasks /\ first \notin run
    BY <1>1, <1>3, EmptySeq
  <2>3. token'[first] = k /\ IsListed(first)'
    BY <1>1, <2>2 DEF ListsDisjoint, IsListed
  <2>4. \A m \in Tokens : \A i \in 1..Len(tasks'[m]) :
          tasks'[m][i] = first => m = k /\ i = 1
    BY <1>1, <2>2, <2>3 DEF ListsDisjoint, Distinct
  <2> HIDE DEF first
  <2>5. LocalTypeOK'
    BY <1>1, <2>1, <2>2 DEF LocalTypeOK, FnStates
  <2>6. HeadRuns'
    <3> SUFFICES ASSUME NEW m \in Tokens, NEW i \in 1..Len(tasks'[m])
                 PROVE  (tasks'[m][i] \in running') <=> (i = 1)
      BY DEF HeadRuns
    <3>1. CASE m = k
      BY <3>1, <1>1, <1>3, <2>1, <2>2, <2>4 DEF first
    <3>2. CASE m # k
      BY <3>2, <1>1, <2>1, <2>4
    <3> QED
      BY <3>1, <3>2
  <2>7. RunningListed' /\ RunningCalled'
    BY <2>1, <2>2, <2>3 DEF RunningListed, RunningCalled, IsListed
  <2>8. WaitersIdle'
    BY <1>1, <2>1, ElementOfSeq DEF WaitersIdle
  <2>9. UnusedIdle' /\ NoRequestDropped'
    BY <2>1, <2>2, <2>3, LocalLockAssumption
       DEF UnusedIdle, NoRequestDropped, IsListed
  <2>10. OverdueTimedOut'
    BY <2>1, <2>2 DEF OverdueTimedOut
  <2> QED
    BY <2>5, <2>6, <2>7, <2>8, <2>9, <2>10 DEF Inv
<1> QED
  BY <1>2, <1>3

(* rest is the list without its i-th element: the others are all there, in
   their order, and the first stays the first unless it is the one taken out. *)
IsRest(rest, list, i) ==
  /\ rest \in Seq(Tasks)
  /\ Distinct(rest)
  /\ \A j \in 1..Len(rest) :
       \E m \in 1..Len(list) \ {i} : /\ rest[j] = list[m]
                                     /\ (j = 1 /\ i # 1 => m = 1)
                                     /\ (j # 1 => m # 1)
  /\ \A m \in 1..Len(list) \ {i} : \E j \in 1..Len(rest) : rest[j] = list[m]

LEMMA WithoutIsRest ==
  ASSUME NEW list \in Seq(Tasks), Distinct(list), NEW i \in 1..Len(list)
  PROVE  IsRest(Without(list, list[i]), list, i)
<1> DEFINE rest == Without(list, list[i])
<1>1. /\ rest \in Seq(Tasks)
      /\ Len(rest) = Len(list) - 1
      /\ \A j \in 1..(Len(list) - 1) : rest[j] = IF j < i THEN list[j] ELSE list[j + 1]
  BY WithoutElements
<1>2. Len(list) \in Nat
  BY ElementOfSeq
<1> HIDE DEF rest
<1>3. Distinct(rest)
  BY <1>1, <1>2 DEF Distinct
<1>4. ASSUME NEW j \in 1..Len(rest)
      PROVE  \E m \in 1..Len(list) \ {i} : /\ rest[j] = list[m]
                                           /\ (j = 1 /\ i # 1 => m = 1)
                                           /\ (j # 1 => m # 1)
  <2>1. CASE j < i
    <3>1. j \in 1..Len(list) \ {i} /\ rest[j] = list[j]
      BY <2>1, <1>1, <1>2
    <3> QED
      BY <3>1, <1>2
  <2>2. CASE j >= i
    <3>1. j + 1 \in 1..Len(list) \ {i} /\ rest[j] = list[j + 1] /\ (j = 1 => i = 1)
      BY <2>2, <1>1, <1>2
    <3> QED
      BY <3>1, <1>2
  <2>3. j < i \/ j >= i
    BY <1>1, <1>2
  <2> QED
    BY <2>1, <2>2, <2>3
<1>5. ASSUME NEW m \in 1..Len(list) \ {i}
      PROVE  \E j \in 1..Len(rest) : rest[j] = list[m]
  <2>1. CASE m < i
    <3>1. m \in 1..Len(rest) /\ rest[m] = list[m]
      BY <2>1, <1>1, <1>2
    <3> QED
      BY <3>1
  <2>2. CASE m > i
    <3>1. m - 1 \in 1..Len(rest) /\ rest[m - 1] = list[m]
      BY <2>2, <1>1, <1>2
    <3> QED
      BY <3>1
  <2>3. m < i \/ m > i
    BY <1>2
  <2> QED
    BY <2>1, <2>2, <2>3
<1> QED
  BY <1>1, <1>3, <1>4, <1>5 DEF IsRest, rest

-----------------------------------------------------------------------------
LEMMA InitInv == LocalInit => Inv
<1> SUFFICES ASSUME LocalInit PROVE Inv
  OBVIOUS
<1>1. \A k \in Tokens : tasks[k] = <<>> /\ Len(tasks[k]) = 0
  BY DEF LocalInit
<1>2. LocalTypeOK
  BY EmptySeq DEF LocalInit, LocalTypeOK, FnStates
<1>3. \A k \in Tokens : 1..Len(tasks[k]) = {}
  BY <1>1
<1> QED
  BY <1>2, <1>3, LocalLockAssumption
     DEF LocalInit, Inv, HeadRuns, ListsDisjoint, Distinct, RunningListed, RunningCalled,
         WaitersIdle, UnusedIdle, NoRequestDropped, OverdueTimedOut, ArmedUsed

LEMMA LockedKeeps ==
  ASSUME Inv, NEW t \in Tasks, NEW k \in Tokens,
         NEW wait \in WaitOptions, NEW max \in MaxOptions, Locked(t, k, wait, max)
  PROVE  Inv'
<1> DEFINE list == Append(tasks[k], t)
<1>1. /\ LocalTypeOK /\ token[t] = NoToken
      /\ token' = [token EXCEPT ![t] = k]
      /\ timeout' = IF max THEN timeout \cup {t} ELSE timeout
      /\ waitTimer' = IF wait THEN waitTimer \cup {t} ELSE waitTimer
      /\ RunOne(k, list, running, maxTimer, fn)
      /\ tasks' = [tasks EXCEPT ![k] = list]
  BY DEF Inv, Locked, RunOne
<1>2. /\ tasks[k] \in Seq(Tasks) /\ Len(tasks[k]) \in Nat
      /\ list \in Seq(Tasks)
      /\ Len(list) = Len(tasks[k]) + 1
      /\ \A i \in 1..Len(tasks[k]) : list[i] = tasks[k][i]
      /\ list[Len(tasks[k]) + 1] = t
  BY <1>1, AppendProperties, ElementOfSeq DEF LocalTypeOK
<1> HIDE DEF list
<1>3. /\ \A m \in Tokens : \A i \in 1..Len(tasks[m]) : tasks[m][i] # t
      /\ t \notin running
      /\ fn[t] = "idle"
  BY <1>1, LocalLockAssumption DEF Inv, ListsDisjoint, RunningListed, UnusedIdle
<1>4. /\ tasks'[k] = list
      /\ \A m \in Tokens \ {k} : tasks'[m] = tasks[m]
      /\ token'[t] = k
      /\ \A u \in Tasks \ {t} : token'[u] = token[u]
  BY <1>1, <1>2 DEF LocalTypeOK
<1>5. ListsDisjoint'
  <2>1. Distinct(list)
    <3>1. Distinct(tasks[k])
      BY DEF Inv, ListsDisjoint
    <3>2. ASSUME NEW i \in 1..Len(list), NEW j \in 1..Len(list), list[i] = list[j]
          PROVE  i = j
      <4>1. CASE i \in 1..Len(tasks[k]) /\ j \in 1..Len(tasks[k])
        BY <4>1, <3>1, <3>2, <1>2 DEF Distinct
      <4>2. \A m \in 1..Len(tasks[k]) : list[m] # t
        BY <1>2, <1>3
      <4>3. \A m \in 1..Len(list) : m \in 1..Len(tasks[k]) \/ m = Len(tasks[k]) + 1
        BY <1>2
      <4>4. CASE i = Len(tasks[k]) + 1
        BY <4>4, <4>2, <4>3, <3>2, <1>2
      <4>5. CASE j = Len(tasks[k]) + 1
        BY <4>5, <4>2, <4>3, <3>2, <1>2
      <4> QED
        BY <4>1, <4>3, <4>4, <4>5
    <3> QED
      BY <3>2 DEF Distinct
  <2>3. \A i \in 1..Len(list) : token'[list[i]] = k
    <3>1. \A i \in 1..Len(tasks[k]) : tasks[k][i] \in Tasks /\ token[tasks[k][i]] = k
      BY <1>2, ElementOfSeq DEF Inv, ListsDisjoint
    <3> QED
      BY <3>1, <1>2, <1>3, <1>4
  <2>2. \A m \in Tokens \ {k} : /\ Distinct(tasks[m])
                                /\ \A i \in 1..Len(tasks[m]) : token'[tasks[m][i]] = m
    <3>1. \A m \in Tokens : Distinct(tasks[m]) /\ \A i \in 1..Len(tasks[m]) :
            tasks[m][i] \in Tasks \ {t} /\ token[tasks[m][i]] = m
      BY <1>1, <1>3, ElementOfSeq DEF Inv, ListsDisjoint, LocalTypeOK
    <3> QED
      BY <3>1, <1>4
  <2> QED
    BY <2>1, <2>2, <2>3, <1>4 DEF ListsDisjoint
<1>6. IsListed(t)' /\ \A u \in Tasks \ {t} : token[u] \in Tokens /\ IsListed(u) => IsListed(u)'
  <2>1. IsListed(t)'
    BY <1>2, <1>4 DEF IsListed
  <2>2. ASSUME NEW u \in Tasks \ {t}, token[u] \in Tokens, IsListed(u)
        PROVE  IsListed(u)'
    <3>1. token'[u] = token[u]
      BY <1>4
    <3>2. PICK i \in 1..Len(tasks[token[u]]) : tasks[token[u]][i] = u
      BY <2>2 DEF IsListed
    <3>3. CASE token[u] = k
      BY <3>1, <3>2, <3>3, <1>2, <1>4 DEF IsListed
    <3>4. CASE token[u] # k
      BY <3>1, <3>2, <3>4, <2>2, <1>4 DEF IsListed
    <3> QED
      BY <3>3, <3>4
  <2> QED
    BY <2>1, <2>2
<1>7. \A i \in 1..Len(list) : list[i] \in running => i = 1
  BY <1>2, <1>3 DEF Inv, HeadRuns
<1>8. \A m \in Tokens \ {k} : \A i \in 1..Len(tasks[m]) : tasks[m][i] \in running <=> i = 1
  BY DEF Inv, HeadRuns
<1>9. \A u \in running : token'[u] \in Tokens /\ IsListed(u)' /\ fn[u] \in {"working", "lost"}
  BY <1>1, <1>3, <1>4, <1>6 DEF Inv, RunningListed, RunningCalled, LocalTypeOK
<1>10. \A m \in Tokens : \A i \in 1..Len(tasks'[m]) :
         tasks'[m][i] \notin running => fn[tasks'[m][i]] = "idle"
  BY <1>2, <1>3, <1>4 DEF Inv, WaitersIdle
<1>11. /\ \A u \in Tasks : token'[u] = NoToken => fn[u] = "idle"
       /\ \A u \in Tasks : token'[u] # NoToken /\ fn[u] = "idle" => IsListed(u)'
  <2>1. /\ \A u \in Tasks : token[u] = NoToken => fn[u] = "idle"
        /\ \A u \in Tasks : token[u] # NoToken /\ fn[u] = "idle" => IsListed(u)
    BY DEF Inv, UnusedIdle, NoRequestDropped, IsListed
  <2> QED
    BY <2>1, <1>1, <1>3, <1>4, <1>6 DEF LocalTypeOK
<1>12. /\ timeout' \subseteq Tasks /\ maxTimer \subseteq timeout' /\ waitTimer' \subseteq Tasks
       /\ \A u \in Tasks : fn[u] = "working" /\ u \notin running
                          => u \in timeout' /\ u \notin maxTimer
  BY <1>1 DEF Inv, OverdueTimedOut, LocalTypeOK
<1>13. token' \in [Tasks -> Tokens \cup {NoToken}] /\ ArmedUsed'
  BY <1>1, <1>4 DEF LocalTypeOK, Inv, ArmedUsed
<1> QED
  <2>1. Ready(k, list, running, maxTimer, fn)
    BY <1>1, <1>2, <1>5, <1>7, <1>8, <1>9, <1>10, <1>11, <1>12, <1>13 DEF LocalTypeOK, Ready
  <2> QED
    BY <2>1, <1>1, RunOneKeeps

(* A running task is the first of its list, and those behind it wait. *)
LEMMA RunnerLeaves ==
  ASSUME Inv, NEW t \in running, NEW k, k = token[t], NEW rest, rest = Without(tasks[k], t)
  PROVE  /\ t \in Tasks /\ k \in Tokens /\ IsListed(t) /\ fn[t] # "idle"
         /\ tasks[k][1] = t
         /\ IsRest(rest, tasks[k], 1)
         /\ \A j \in 1..Len(rest) :
              /\ rest[j] \in Tasks \ {t} /\ rest[j] \notin running
              /\ token[rest[j]] = k /\ fn[rest[j]] = "idle"
<1>1. LocalTypeOK /\ t \in Tasks /\ k \in Tokens /\ IsListed(t) /\ fn[t] # "idle"
  BY DEF Inv, LocalTypeOK, RunningListed, RunningCalled
<1>2. tasks[k] \in Seq(Tasks) /\ Len(tasks[k]) \in Nat /\ Distinct(tasks[k])
  BY <1>1, ElementOfSeq DEF LocalTypeOK, Inv, ListsDisjoint
<1>3. 1 \in 1..Len(tasks[k]) /\ tasks[k][1] = t
  BY <1>1, <1>2 DEF Inv, HeadRuns, IsListed
<1>4. IsRest(rest, tasks[k], 1)
  BY <1>2, <1>3, WithoutIsRest
<1>5. ASSUME NEW j \in 1..Len(rest)
      PROVE  /\ rest[j] \in Tasks \ {t} /\ rest[j] \notin running
             /\ token[rest[j]] = k /\ fn[rest[j]] = "idle"
  <2>1. PICK m \in 1..Len(tasks[k]) \ {1} : rest[j] = tasks[k][m]
    BY <1>4 DEF IsRest
  <2>2. rest[j] \in Tasks /\ token[rest[j]] = k /\ rest[j] \notin running
    BY <2>1, <1>1, <1>2, ElementOfSeq DEF Inv, ListsDisjoint, HeadRuns
  <2>3. fn[rest[j]] = "idle"
    BY <2>1, <2>2, <1>1 DEF Inv, WaitersIdle
  <2> QED
    BY <2>2, <2>3
<1> QED
  BY <1>1, <1>3, <1>4, <1>5

(* Both kinds of release, in time or forced, early or late. *)
LEMMA ReleaseTaskKeeps ==
  ASSUME Inv, NEW t \in Tasks, NEW timers \in SUBSET maxTimer,
         NEW called \in [Tasks -> FnStates],
         \A u \in Tasks \ {t} : called[u] = fn[u],
         called[t] = fn[t] \/ (fn[t] = "working" /\ called[t] = "done"),
         called[t] = "working" => t \in timeout /\ t \notin timers,
         UNCHANGED <<token, timeout, waitTimer>>,
         ReleaseTask(t, timers, called)
  PROVE  Inv'
<1>1. LocalTypeOK
  BY DEF Inv
<1>2. CASE t \in running
  <2> DEFINE k == token[t]
             list == Without(tasks[k], t)
  <2>1. /\ k \in Tokens /\ IsListed(t) /\ fn[t] # "idle"
        /\ tasks[k][1] = t /\ IsRest(list, tasks[k], 1)
        /\ \A j \in 1..Len(list) :
             /\ list[j] \in Tasks \ {t} /\ list[j] \notin running
             /\ token[list[j]] = k /\ fn[list[j]] = "idle"
    BY <1>2, RunnerLeaves
  <2>5. /\ RunOne(k, list, running \ {t}, timers, called)
        /\ tasks' = [tasks EXCEPT ![k] = list]
    BY <1>2 DEF ReleaseTask, RunOne
  <2> HIDE DEF list, k
  <2>3. /\ list \in Seq(Tasks)
        /\ Distinct(list)
    BY <2>1 DEF IsRest
  <2>4. \A u : (\E m \in 1..Len(tasks[k]) : tasks[k][m] = u) /\ u # t
             => \E j \in 1..Len(list) : list[j] = u
    <3> SUFFICES ASSUME NEW m \in 1..Len(tasks[k]), tasks[k][m] # t
                 PROVE  \E j \in 1..Len(list) : list[j] = tasks[k][m]
      OBVIOUS
    <3>1. m \in 1..Len(tasks[k]) \ {1}
      BY <2>1
    <3> QED
      BY <3>1, <2>1 DEF IsRest
  <2>6. /\ tasks'[k] = list
        /\ \A m \in Tokens \ {k} : tasks'[m] = tasks[m]
    BY <1>1, <2>1, <2>3, <2>5 DEF LocalTypeOK
  <2>7. \A j \in 1..Len(list) :
          /\ list[j] \in Tasks \ {t} /\ list[j] \notin running
          /\ token[list[j]] = k /\ called[list[j]] = "idle"
    BY <2>1
  <2>8. \A m \in Tokens \ {k} : \A i \in 1..Len(tasks[m]) :
          /\ tasks[m][i] \in Tasks \ {t} /\ token[tasks[m][i]] = m
          /\ tasks[m][i] \in running <=> i = 1
    BY <1>1, ElementOfSeq DEF LocalTypeOK, Inv, ListsDisjoint, HeadRuns, k
  <2>9. ListsDisjoint'
    BY <2>3, <2>6, <2>7, <2>8 DEF Inv, ListsDisjoint
  <2>10. \A u \in Tasks \ {t} : token[u] \in Tokens /\ IsListed(u) => IsListed(u)'
    <3> SUFFICES ASSUME NEW u \in Tasks \ {t}, token[u] \in Tokens, IsListed(u)
                 PROVE  \E i \in 1..Len(tasks'[token[u]]) : tasks'[token[u]][i] = u
      BY DEF IsListed
    <3>1. CASE token[u] = k
      BY <3>1, <2>4, <2>6 DEF IsListed
    <3>2. CASE token[u] # k
      BY <3>2, <2>6 DEF IsListed
    <3> QED
      BY <3>1, <3>2
  <2>11. \A u \in running \ {t} : /\ token'[u] \in Tokens /\ IsListed(u)'
                                  /\ called[u] \in {"working", "lost"}
    BY <1>1, <2>10 DEF LocalTypeOK, Inv, RunningListed, RunningCalled
  <2>12. \A m \in Tokens : \A i \in 1..Len(tasks'[m]) :
          tasks'[m][i] \notin running \ {t} => called[tasks'[m][i]] = "idle"
    <3> SUFFICES ASSUME NEW m \in Tokens, NEW i \in 1..Len(tasks'[m]),
                        tasks'[m][i] \notin running \ {t}
                 PROVE  called[tasks'[m][i]] = "idle"
      OBVIOUS
    <3>1. CASE m = k
      BY <3>1, <2>6, <2>7
    <3>2. CASE m # k
      BY <3>2, <2>6, <2>8 DEF Inv, WaitersIdle
    <3> QED
      BY <3>1, <3>2
  <2>13. /\ \A u \in Tasks : token'[u] = NoToken => called[u] = "idle"
         /\ \A u \in Tasks : token'[u] # NoToken /\ called[u] = "idle" => IsListed(u)'
    <3>1. /\ \A u \in Tasks : token[u] = NoToken => fn[u] = "idle"
          /\ \A u \in Tasks : token[u] # NoToken /\ fn[u] = "idle"
                             => token[u] \in Tokens /\ IsListed(u)
      BY <1>1 DEF LocalTypeOK, Inv, UnusedIdle, NoRequestDropped, IsListed
    <3> QED
      BY <3>1, <2>1, <2>10
  <2>14. \A u \in Tasks : called[u] = "working" /\ u \notin running \ {t}
                          => u \in timeout' /\ u \notin timers
    BY DEF Inv, OverdueTimedOut
  <2>15. Ready(k, list, running \ {t}, timers, called)
    <3>1. /\ tasks \in [Tokens -> Seq(Tasks)] /\ running \ {t} \subseteq Tasks
          /\ timers \subseteq timeout'
          /\ token' \in [Tasks -> Tokens \cup {NoToken}]
          /\ timeout' \subseteq Tasks /\ waitTimer' \subseteq Tasks
          /\ ArmedUsed'
      BY <1>1 DEF LocalTypeOK, Inv, OverdueTimedOut, ArmedUsed
    <3>2. /\ \A i \in 1..Len(list) : list[i] \in running \ {t} => i = 1
          /\ \A m \in Tokens \ {k} : \A i \in 1..Len(tasks[m]) :
               tasks[m][i] \in running \ {t} <=> i = 1
      BY <2>7, <2>8
    <3> QED
      BY <3>1, <3>2, <2>3, <2>9, <2>11, <2>12, <2>13, <2>14 DEF Ready
  <2> QED
    BY <2>1, <2>5, <2>15, RunOneKeeps
<1>3. CASE t \notin running
  <2>1. maxTimer' = timers /\ fn' = called /\ UNCHANGED <<tasks, running, token, timeout, waitTimer>>
    BY <1>3 DEF ReleaseTask
  <2>2. LocalTypeOK' /\ HeadRuns' /\ ListsDisjoint' /\ RunningListed'
    BY <1>1, <2>1 DEF LocalTypeOK, Inv, HeadRuns, ListsDisjoint, RunningListed, IsListed
  <2>3. RunningCalled'
    BY <1>1, <1>3, <2>1 DEF LocalTypeOK, Inv, RunningCalled
  <2>4. WaitersIdle'
    BY <1>1, <2>1, ElementOfSeq DEF LocalTypeOK, Inv, WaitersIdle
  <2>5. UnusedIdle' /\ NoRequestDropped'
    BY <2>1 DEF Inv, UnusedIdle, NoRequestDropped
  <2>6. OverdueTimedOut' /\ ArmedUsed'
    BY <1>1, <1>3, <2>1 DEF LocalTypeOK, Inv, OverdueTimedOut, ArmedUsed
  <2> QED
    BY <2>2, <2>3, <2>4, <2>5, <2>6 DEF Inv
<1> QED
  BY <1>2, <1>3

LEMMA WaitTimeoutKeeps ==
  ASSUME Inv, NEW t \in Tasks, WaitTimeout(t)
  PROVE  Inv'
<1>1. /\ LocalTypeOK /\ t \in waitTimer /\ waitTimer' \subseteq Tasks
      /\ UNCHANGED <<token, timeout, running, maxTimer>>
  BY DEF Inv, LocalTypeOK, WaitTimeout, StillInLine
<1>2. CASE t \notin running /\ token[t] \in Tokens /\ IsListed(t)
  <2> DEFINE k == token[t]
             list == Without(tasks[k], t)
  <2>1. /\ tasks' = [tasks EXCEPT ![k] = list]
        /\ fn' = [fn EXCEPT ![t] = "refused"]
    BY <1>1, <1>2 DEF WaitTimeout, StillInLine, IsListed, LocalTypeOK
  <2>2. tasks[k] \in Seq(Tasks) /\ Len(tasks[k]) \in Nat /\ Distinct(tasks[k])
    BY <1>1, <1>2, ElementOfSeq DEF LocalTypeOK, Inv, ListsDisjoint
  <2>3. PICK i \in 1..Len(tasks[k]) : tasks[k][i] = t
    BY <1>2 DEF IsListed
  <2>4. IsRest(list, tasks[k], i) /\ i # 1
    <3>1. IsRest(list, tasks[k], i)
      BY <2>2, <2>3, WithoutIsRest
    <3>2. i # 1
      BY <1>2, <2>3 DEF Inv, HeadRuns
    <3> QED
      BY <3>1, <3>2
  <2>5. k \in Tokens
    BY <1>2
  <2> HIDE DEF list, k
  <2>6. /\ tasks'[k] = list
        /\ \A m \in Tokens \ {k} : tasks'[m] = tasks[m]
        /\ tasks' \in [Tokens -> Seq(Tasks)]
    BY <1>1, <2>1, <2>4, <2>5 DEF LocalTypeOK, IsRest
  <2>7. \A j \in 1..Len(list) :
          /\ list[j] \in Tasks \ {t} /\ token[list[j]] = k
          /\ list[j] \in running <=> j = 1
          /\ list[j] \notin running => fn[list[j]] = "idle"
    <3> SUFFICES ASSUME NEW j \in 1..Len(list)
                 PROVE  /\ list[j] \in Tasks \ {t} /\ token[list[j]] = k
                        /\ list[j] \in running <=> j = 1
                        /\ list[j] \notin running => fn[list[j]] = "idle"
      OBVIOUS
    <3>1. PICK m \in 1..Len(tasks[k]) \ {i} :
             /\ list[j] = tasks[k][m] /\ (j = 1 => m = 1) /\ (j # 1 => m # 1)
      BY <2>4 DEF IsRest
    <3>2. list[j] \in Tasks /\ token[list[j]] = k /\ (list[j] \in running <=> m = 1)
      BY <3>1, <2>2, <2>5, ElementOfSeq DEF Inv, ListsDisjoint, HeadRuns
    <3>3. list[j] \notin running => fn[list[j]] = "idle"
      BY <3>1, <2>5 DEF Inv, WaitersIdle
    <3>4. list[j] # t
      BY <3>1, <2>2, <2>3 DEF Distinct
    <3> QED
      BY <3>1, <3>2, <3>3, <3>4
  <2>8. \A m \in Tokens \ {k} : \A j \in 1..Len(tasks[m]) :
          tasks[m][j] \in Tasks \ {t} /\ token[tasks[m][j]] = m
    BY <1>1, ElementOfSeq DEF LocalTypeOK, Inv, ListsDisjoint, k
  <2>9. LocalTypeOK'
    BY <1>1, <2>1, <2>6 DEF LocalTypeOK, FnStates
  <2>10. HeadRuns' /\ ListsDisjoint'
    <3>1. \A j \in 1..Len(tasks'[k]) : tasks'[k][j] \in running <=> j = 1
      BY <2>6, <2>7
    <3>2. \A m \in Tokens \ {k} : \A j \in 1..Len(tasks'[m]) : tasks'[m][j] \in running <=> j = 1
      BY <2>6 DEF Inv, HeadRuns
    <3>3. HeadRuns'
      BY <3>1, <3>2, <1>1 DEF HeadRuns
    <3>4. /\ Distinct(tasks'[k])
          /\ \A j \in 1..Len(tasks'[k]) : token[tasks'[k][j]] = k
      BY <2>4, <2>6, <2>7 DEF IsRest
    <3>5. \A m \in Tokens \ {k} : /\ Distinct(tasks'[m])
                                  /\ \A j \in 1..Len(tasks'[m]) : token[tasks'[m][j]] = m
      BY <2>6 DEF Inv, ListsDisjoint
    <3>6. ListsDisjoint'
      BY <3>4, <3>5, <1>1 DEF ListsDisjoint
    <3> QED
      BY <3>3, <3>6
  <2>11. \A u \in Tasks \ {t} : token[u] \in Tokens /\ IsListed(u) => IsListed(u)'
    <3> SUFFICES ASSUME NEW u \in Tasks \ {t}, token[u] \in Tokens, IsListed(u)
                 PROVE  \E j \in 1..Len(tasks'[token[u]]) : tasks'[token[u]][j] = u
      BY <1>1 DEF IsListed
    <3>1. CASE token[u] = k
      <4>1. PICK m \in 1..Len(tasks[k]) : tasks[k][m] = u
        BY <3>1 DEF IsListed
      <4>2. m \in 1..Len(tasks[k]) \ {i}
        BY <4>1, <2>3
      <4>3. \E j \in 1..Len(list) : list[j] = u
        BY <4>1, <4>2, <2>4 DEF IsRest
      <4> QED
        BY <3>1, <4>3, <2>6
    <3>2. CASE token[u] # k
      BY <3>2, <2>6 DEF IsListed
    <3> QED
      BY <3>1, <3>2
  <2>12. RunningListed' /\ RunningCalled'
    BY <1>1, <1>2, <2>1, <2>11 DEF LocalTypeOK, Inv, RunningListed, RunningCalled
  <2>13. WaitersIdle'
    <3> SUFFICES ASSUME NEW m \in Tokens, NEW j \in 1..Len(tasks'[m]),
                        tasks'[m][j] \notin running'
                 PROVE  fn'[tasks'[m][j]] = "idle"
      BY <1>1 DEF WaitersIdle
    <3>1. CASE m = k
      <4>1. j \in 1..Len(list) /\ tasks'[m][j] = list[j]
        BY <3>1, <2>6
      <4>2. list[j] \in Tasks \ {t} /\ fn[list[j]] = "idle"
        BY <4>1, <1>1, <2>7
      <4> QED
        BY <4>1, <4>2, <1>1, <2>1 DEF LocalTypeOK
    <3>2. CASE m # k
      BY <3>2, <1>1, <2>1, <2>6, <2>8 DEF LocalTypeOK, Inv, WaitersIdle
    <3> QED
      BY <3>1, <3>2
  <2>14. UnusedIdle' /\ NoRequestDropped'
    <3>1. /\ \A u \in Tasks : token[u] = NoToken => fn[u] = "idle"
          /\ \A u \in Tasks : token[u] # NoToken /\ fn[u] = "idle"
                             => token[u] \in Tokens /\ IsListed(u)
      BY <1>1 DEF LocalTypeOK, Inv, UnusedIdle, NoRequestDropped, IsListed
    <3>2. \A u \in Tasks : token'[u] = NoToken => fn'[u] = "idle"
      BY <3>1, <1>1, <1>2, <2>1, LocalLockAssumption DEF LocalTypeOK
    <3>3. \A u \in Tasks : token'[u] # NoToken /\ fn'[u] = "idle" => IsListed(u)'
      BY <3>1, <1>1, <2>1, <2>11 DEF LocalTypeOK
    <3> QED
      BY <3>2, <3>3 DEF UnusedIdle, NoRequestDropped, IsListed
  <2>15. OverdueTimedOut' /\ ArmedUsed'
    BY <1>1, <2>1 DEF LocalTypeOK, Inv, OverdueTimedOut, ArmedUsed, WaitTimeout, StillInLine
  <2> QED
    BY <2>9, <2>10, <2>12, <2>13, <2>14, <2>15 DEF Inv
<1>3. CASE ~(t \notin running /\ token[t] \in Tokens /\ IsListed(t))
  <2>1. UNCHANGED <<tasks, fn>>
    BY <1>1, <1>3 DEF Inv, ArmedUsed, IsListed, WaitTimeout, StillInLine
  <2>2. LocalTypeOK'
    BY <1>1, <2>1 DEF LocalTypeOK
  <2>3. ArmedUsed'
    BY <1>1 DEF Inv, ArmedUsed, WaitTimeout, StillInLine
  <2> QED
    BY <1>1, <2>1, <2>2, <2>3
       DEF LocalTypeOK, Inv, HeadRuns, ListsDisjoint, RunningListed, RunningCalled,
           WaitersIdle, UnusedIdle, NoRequestDropped, OverdueTimedOut, IsListed
<1> QED
  BY <1>2, <1>3

LEMMA LoseReleaseKeeps ==
  ASSUME Inv, NEW t \in Tasks, LoseRelease(t)
  PROVE  Inv'
<1>1. /\ LocalTypeOK /\ fn[t] = "working" /\ fn' = [fn EXCEPT ![t] = "lost"]
      /\ UNCHANGED <<tasks, token, timeout, running, waitTimer, maxTimer>>
  BY DEF Inv, LoseRelease
<1>2. LocalTypeOK'
  BY <1>1 DEF LocalTypeOK, FnStates
<1>3. WaitersIdle'
  <2>1. \A k \in Tokens : \A i \in 1..Len(tasks[k]) :
          tasks[k][i] \in Tasks /\ (tasks[k][i] \notin running => fn[tasks[k][i]] = "idle")
    BY <1>1, ElementOfSeq DEF LocalTypeOK, Inv, WaitersIdle
  <2> QED
    BY <2>1, <1>1 DEF WaitersIdle, LocalTypeOK
<1>4. /\ HeadRuns' /\ ListsDisjoint' /\ RunningListed' /\ RunningCalled'
      /\ UnusedIdle' /\ NoRequestDropped' /\ OverdueTimedOut' /\ ArmedUsed'
  BY <1>1
     DEF LocalTypeOK, Inv, HeadRuns, ListsDisjoint, RunningListed, RunningCalled, UnusedIdle,
         NoRequestDropped, OverdueTimedOut, ArmedUsed, IsListed
<1> QED
  BY <1>2, <1>3, <1>4 DEF Inv

(* Every step of the lock keeps the invariant. *)
LEMMA NextInv == Inv /\ [LocalNext]_localVars => Inv'
<1> SUFFICES ASSUME Inv, [LocalNext]_localVars PROVE Inv'
  OBVIOUS
<1>1. ASSUME NEW t \in Tasks, NEW k \in Tokens, NEW wait \in WaitOptions,
             NEW max \in MaxOptions, Locked(t, k, wait, max)
      PROVE  Inv'
  BY <1>1, LockedKeeps
<1>2. ASSUME NEW t \in Tasks, WaitTimeout(t) PROVE Inv'
  BY <1>2, WaitTimeoutKeeps
<1>3. ASSUME NEW t \in Tasks, MaxTimeout(t) PROVE Inv'
  <2>1. /\ fn \in [Tasks -> FnStates]
        /\ maxTimer \ {t} \in SUBSET maxTimer
        /\ fn[t] = "working" => t \in timeout /\ t \notin maxTimer \ {t}
    BY <1>3 DEF Inv, LocalTypeOK, OverdueTimedOut, MaxTimeout
  <2> QED
    BY <1>3, <2>1, ReleaseTaskKeeps DEF MaxTimeout
<1>4. ASSUME NEW t \in Tasks, Release(t) PROVE Inv'
  <2> DEFINE called == [fn EXCEPT ![t] = "done"]
  <2>1. /\ called \in [Tasks -> FnStates]
        /\ \A u \in Tasks \ {t} : called[u] = fn[u]
        /\ called[t] = "done" /\ fn[t] = "working"
        /\ UNCHANGED <<token, timeout, waitTimer>>
        /\ ReleaseTask(t, maxTimer, called)
    BY <1>4 DEF Inv, LocalTypeOK, FnStates, Release
  <2> HIDE DEF called
  <2> QED
    BY <2>1, ReleaseTaskKeeps
<1>5. ASSUME NEW t \in Tasks, LoseRelease(t) PROVE Inv'
  BY <1>5, LoseReleaseKeeps
<1>6. CASE UNCHANGED localVars
  BY <1>6
     DEF localVars, LocalTypeOK, Inv, HeadRuns, ListsDisjoint, RunningListed, RunningCalled, WaitersIdle,
         UnusedIdle, NoRequestDropped, OverdueTimedOut, ArmedUsed, IsListed
<1> QED
  BY <1>1, <1>2, <1>3, <1>4, <1>5, <1>6 DEF LocalNext

(* The strengthened invariant of lib/locallock.js: the lists, the running
   tasks, the timers and the callbacks fit together in every reachable state. *)
THEOREM InvariantHolds == LocalSpec => []Inv
<1> QED
  BY InitInv, NextInv, PTL DEF LocalSpec

(* The types of lib/locallock.js's state, for any calls, tokens and timers. *)
THEOREM TypeCorrect == LocalSpec => []LocalTypeOK
<1>1. Inv => LocalTypeOK
  BY DEF Inv
<1> QED
  BY <1>1, InvariantHolds, PTL

(* _runOne: the first of every list runs and nobody else of it does. *)
THEOREM MutualExclusion == LocalSpec => []HeadRuns
<1>1. Inv => HeadRuns
  BY DEF Inv
<1> QED
  BY <1>1, InvariantHolds, PTL

(* A request is in line until it has been called back. *)
THEOREM NothingDropped == LocalSpec => []NoRequestDropped
<1>1. Inv => NoRequestDropped
  BY DEF Inv
<1> QED
  BY <1>1, InvariantHolds, PTL

(* Only the five-minute limit makes two functions of a token overlap. *)
THEOREM OverlapNeedsTimeout == LocalSpec => []OverlapOnlyAfterTimeout
<1>1. ASSUME Inv PROVE OverlapOnlyAfterTimeout
  <2> SUFFICES ASSUME NEW t \in Tasks, NEW u \in Tasks, t # u, token[t] = token[u],
                      fn[t] = "working", fn[u] = "working"
               PROVE  \E w \in {t, u} : w \notin running /\ w \in timeout /\ w \notin maxTimer
    BY DEF OverlapOnlyAfterTimeout
  <2>1. t \notin running \/ u \notin running
    BY <1>1 DEF Inv, RunningListed, IsListed, HeadRuns
  <2> QED
    BY <1>1, <2>1 DEF Inv, OverdueTimedOut
<1> QED
  BY <1>1, InvariantHolds, PTL

-----------------------------------------------------------------------------
(* Nobody in the list runs any more: whoever _runOne starts is its first and
   has not been called before. *)
LEMMA StartsAWaiter ==
  ASSUME NEW k, NEW list \in Seq(Tasks), NEW run, NEW timers, NEW called,
         called \in [Tasks -> FnStates],
         \A i \in 1..Len(list) : list[i] \notin run => fn[list[i]] = "idle",
         RunOne(k, list, run, timers, called)
  PROVE  \/ fn' = called
         \/ /\ list # <<>> /\ list[1] \in Tasks /\ fn[list[1]] = "idle"
            /\ fn' = [called EXCEPT ![list[1]] = "working"]
<1>1. CASE list = <<>> \/ \E i \in 1..Len(list) : list[i] \in run
  BY <1>1 DEF RunOne, NextToRun
<1>2. CASE ~(list = <<>> \/ \E i \in 1..Len(list) : list[i] \in run)
  <2>1. 1 \in 1..Len(list) /\ list[1] \in Tasks /\ list[1] \notin run
    BY <1>2, EmptySeq, ElementOfSeq
  <2> QED
    BY <1>2, <2>1 DEF RunOne, NextToRun
<1> QED
  BY <1>1, <1>2

LEMMA ReleaseCalls ==
  ASSUME Inv, NEW t \in Tasks, NEW timers, NEW called \in [Tasks -> FnStates],
         \A u \in Tasks \ {t} : called[u] = fn[u],
         ReleaseTask(t, timers, called)
  PROVE  \/ fn' = called
         \/ /\ t \in running
            /\ \E i \in 1..Len(tasks[token[t]]) :
                 LET u == tasks[token[t]][i]
                 IN  /\ u \in Tasks \ {t} /\ fn[u] = "idle"
                     /\ fn' = [called EXCEPT ![u] = "working"]
<1> DEFINE k == token[t]
           rest == Without(tasks[k], t)
<1>1. k = token[t] /\ rest = Without(tasks[k], t)
  OBVIOUS
<1> HIDE DEF k, rest
<1>2. CASE t \in running
  <2>1. /\ IsRest(rest, tasks[k], 1)
        /\ \A j \in 1..Len(rest) : rest[j] \in Tasks \ {t} /\ fn[rest[j]] = "idle"
    BY <1>1, <1>2, RunnerLeaves
  <2>2. RunOne(k, rest, running \ {t}, timers, called)
    BY <1>1, <1>2 DEF ReleaseTask
  <2>3. rest \in Seq(Tasks)
    BY <2>1 DEF IsRest
  <2>4. CASE fn' = called
    BY <2>4
  <2>5. CASE rest # <<>> /\ fn' = [called EXCEPT ![rest[1]] = "working"]
    <3>1. 1 \in 1..Len(rest)
      BY <2>3, <2>5, EmptySeq, ElementOfSeq
    <3>2. PICK m \in 1..Len(tasks[k]) : rest[1] = tasks[k][m]
      BY <2>1, <3>1 DEF IsRest
    <3> QED
      BY <1>1, <1>2, <2>1, <2>5, <3>1, <3>2
  <2> QED
    BY <2>1, <2>2, <2>3, <2>4, <2>5, StartsAWaiter
<1>3. CASE t \notin running
  BY <1>3 DEF ReleaseTask
<1> QED
  BY <1>2, <1>3

(* The functions a step calls: what Locked starts is the task itself or the one
   waiting longest; a release ends one function and may start the next. *)
LEMMA StepCalls ==
  ASSUME Inv, LocalNext
  PROVE  \A t \in Tasks : fn'[t] # fn[t] =>
           \/ fn[t] = "idle" /\ fn'[t] \in {"working", "refused"}
           \/ fn[t] = "working" /\ fn'[t] \in {"done", "lost"}
<1>1. LocalTypeOK
  BY DEF Inv
<1>2. ASSUME NEW t \in Tasks, NEW k \in Tokens, NEW wait \in WaitOptions,
             NEW max \in MaxOptions, Locked(t, k, wait, max)
      PROVE  fn' = fn \/ \E u \in Tasks : fn[u] = "idle" /\ fn' = [fn EXCEPT ![u] = "working"]
  <2> DEFINE list == Append(tasks[k], t)
  <2>1. /\ list \in Seq(Tasks)
        /\ \A i \in 1..Len(list) : list[i] = t \/ \E j \in 1..Len(tasks[k]) : list[i] = tasks[k][j]
    BY <1>1, AppendProperties, ElementOfSeq DEF LocalTypeOK
  <2>2. fn[t] = "idle" /\ RunOne(k, list, running, maxTimer, fn)
    BY <1>2 DEF Locked, Inv, UnusedIdle
  <2> HIDE DEF list
  <2>3. \A i \in 1..Len(list) : list[i] \notin running => fn[list[i]] = "idle"
    BY <2>1, <2>2 DEF Inv, WaitersIdle
  <2> QED
    BY <1>1, <2>1, <2>2, <2>3, StartsAWaiter DEF LocalTypeOK
<1>3. ASSUME NEW t \in Tasks, WaitTimeout(t)
      PROVE  fn' = fn \/ (fn[t] = "idle" /\ fn' = [fn EXCEPT ![t] = "refused"])
  <2>1. token[t] \in Tokens
    BY <1>3 DEF Inv, ArmedUsed, WaitTimeout, StillInLine
  <2> QED
    BY <1>3, <2>1 DEF WaitTimeout, StillInLine, Inv, WaitersIdle
<1>4. ASSUME NEW t \in Tasks, MaxTimeout(t)
      PROVE  fn' = fn \/ \E u \in Tasks : fn[u] = "idle" /\ fn' = [fn EXCEPT ![u] = "working"]
  <2>1. fn \in [Tasks -> FnStates] /\ ReleaseTask(t, maxTimer \ {t}, fn)
    BY <1>1, <1>4 DEF LocalTypeOK, MaxTimeout
  <2> QED
    BY <2>1, ReleaseCalls
<1>5. ASSUME NEW t \in Tasks, Release(t)
      PROVE  /\ fn[t] = "working"
             /\ \/ fn' = [fn EXCEPT ![t] = "done"]
                \/ \E u \in Tasks \ {t} :
                     fn[u] = "idle" /\ fn' = [fn EXCEPT ![t] = "done", ![u] = "working"]
  <2> DEFINE called == [fn EXCEPT ![t] = "done"]
  <2>1. /\ fn[t] = "working" /\ ReleaseTask(t, maxTimer, called)
        /\ called \in [Tasks -> FnStates]
        /\ \A u \in Tasks \ {t} : called[u] = fn[u]
    BY <1>1, <1>5 DEF LocalTypeOK, FnStates, Release
  <2> HIDE DEF called
  <2>2. \/ fn' = called
        \/ \E u \in Tasks \ {t} : fn[u] = "idle" /\ fn' = [called EXCEPT ![u] = "working"]
    BY <2>1, ReleaseCalls
  <2> QED
    BY <2>1, <2>2 DEF called
<1>6. ASSUME NEW t \in Tasks, LoseRelease(t)
      PROVE  fn[t] = "working" /\ fn' = [fn EXCEPT ![t] = "lost"]
  BY <1>6 DEF LoseRelease
<1> QED
  BY <1>1, <1>2, <1>3, <1>4, <1>5, <1>6 DEF LocalNext, LocalTypeOK

(* fn is called once per locked(), whatever order its timers fire in. *)
THEOREM CallbackOnce == LocalSpec => CalledOnce
<1>1. ASSUME Inv, [LocalNext]_localVars
      PROVE  \A t \in Tasks : fn'[t] # fn[t] =>
               \/ fn[t] = "idle" /\ fn'[t] \in {"working", "refused"}
               \/ fn[t] = "working" /\ fn'[t] \in {"done", "lost"}
  BY <1>1, StepCalls DEF localVars
<1> QED
  BY <1>1, InvariantHolds, PTL DEF LocalSpec, CalledOnce

-----------------------------------------------------------------------------
(* The refinement.  What the handlers see of token k, as LocalLock maps it: *)
Holder(k) ==
  IF \E t \in running : token[t] = k
  THEN CHOOSE t \in running : token[t] = k ELSE NoToken

Waiting(k) == InList(k) \ running

Overdue(k) == {t \in Tasks : token[t] = k /\ fn[t] \in {"working", "lost"} /\ t \notin running}

Runners(k) == {t \in running : token[t] = k}

(* The holder is the one who runs; there is one when anybody is in line. *)
HoldersRun ==
  \A k \in Tokens :
    /\ Runners(k) \subseteq InList(k)
    /\ Waiting(k) = InList(k) \ Runners(k)
    /\ Runners(k) = {} => InList(k) = {} /\ Holder(k) = NoToken
    /\ \A t \in Runners(k) : Holder(k) = t /\ Runners(k) = {t}

LEMMA HolderRuns == Inv => HoldersRun
<1> SUFFICES ASSUME Inv, NEW k \in Tokens
             PROVE  /\ Runners(k) \subseteq InList(k)
                    /\ Waiting(k) = InList(k) \ Runners(k)
                    /\ Runners(k) = {} => InList(k) = {} /\ Holder(k) = NoToken
                    /\ \A t \in Runners(k) : Holder(k) = t /\ Runners(k) = {t}
  BY DEF HoldersRun
<1>1. tasks[k] \in Seq(Tasks) /\ Len(tasks[k]) \in Nat /\ running \subseteq Tasks
  BY ElementOfSeq DEF Inv, LocalTypeOK
<1>2. Runners(k) \subseteq InList(k)
  BY <1>1 DEF Inv, RunningListed, IsListed, Runners, InList
<1>3. \A t \in InList(k) : token[t] = k
  BY DEF Inv, ListsDisjoint, InList
<1>4. Waiting(k) = InList(k) \ Runners(k)
  BY <1>3 DEF Waiting, Runners
<1>5. \A t \in Runners(k) : t = tasks[k][1]
  BY <1>2 DEF Inv, HeadRuns, InList, Runners
<1>6. ASSUME Runners(k) = {}
      PROVE  InList(k) = {} /\ Holder(k) = NoToken
  <2>1. InList(k) # {} => 1 \in 1..Len(tasks[k])
    BY <1>1 DEF InList
  <2>2. 1 \in 1..Len(tasks[k]) => tasks[k][1] \in Runners(k)
    BY DEF Inv, HeadRuns, ListsDisjoint, Runners
  <2> QED
    BY <1>6, <2>1, <2>2 DEF Holder, Runners
<1>7. ASSUME NEW t \in Runners(k)
      PROVE  Holder(k) = t /\ Runners(k) = {t}
  <2>1. Runners(k) = {t}
    BY <1>5, <1>7
  <2>2. t \in running /\ token[t] = k /\ \A u \in running : token[u] = k => u = t
    BY <2>1, <1>7 DEF Runners
  <2> QED
    BY <2>1, <2>2 DEF Holder
<1> QED
  BY <1>2, <1>4, <1>6, <1>7

LEMMA HolderRunsNext == Inv' => HoldersRun'
BY HolderRuns, PTL

(* What a step does to the line and to the runner of k is a step of WalletLock. *)
LEMMA TokenUntouched ==
  ASSUME HoldersRun, HoldersRun', NEW k \in Tokens,
         InList(k)' = InList(k), Runners(k)' = Runners(k), Overdue(k)' = Overdue(k)
  PROVE  UNCHANGED Abstract(k)!lockVars
<1>1. Waiting(k)' = Waiting(k)
  BY DEF HoldersRun
<1>2. Holder(k)' = Holder(k)
  <2>1. CASE Runners(k) = {}
    BY <2>1 DEF HoldersRun
  <2>2. CASE Runners(k) # {}
    <3>1. PICK t \in Runners(k) : TRUE
      BY <2>2
    <3>2. t \in Runners(k)'
      BY <3>1
    <3> QED
      BY <3>1, <3>2 DEF HoldersRun
  <2> QED
    BY <2>1, <2>2
<1> QED
  BY <1>1, <1>2 DEF Abstract!lockVars, Holder, Waiting, Overdue

LEMMA TokenRequested ==
  ASSUME HoldersRun, HoldersRun', NEW k \in Tokens, NEW t \in Tasks,
         t \notin InList(k) \cup Overdue(k), InList(k)' = InList(k) \cup {t},
         Runners(k)' = IF InList(k) = {} THEN {t} ELSE Runners(k), Overdue(k)' = Overdue(k)
  PROVE  Abstract(k)!Request(t)
<1>1. t # NoToken
  BY LocalLockAssumption
<1>2. CASE InList(k) = {}
  <2>1. Runners(k) = {} /\ Runners(k)' = {t} /\ InList(k)' = {t}
    BY <1>2 DEF HoldersRun
  <2>2. Holder(k) = NoToken /\ Holder(k)' = t /\ Waiting(k) = {} /\ Waiting(k)' = {}
    BY <1>2, <2>1 DEF HoldersRun
  <2> QED
    BY <1>1, <2>2 DEF Abstract!Request, Holder, Waiting, Overdue
<1>3. CASE InList(k) # {}
  <2>1. PICK u \in Runners(k) : Runners(k) = {u}
    BY <1>3 DEF HoldersRun
  <2>2. Runners(k)' = {u} /\ u \in InList(k) /\ u # t
    BY <1>3, <2>1 DEF HoldersRun
  <2>3. /\ Holder(k) = u /\ Holder(k)' = u
        /\ Waiting(k)' = Waiting(k) \cup {t} /\ t \notin Waiting(k)
    BY <2>1, <2>2 DEF HoldersRun
  <2>4. u # NoToken
    BY <2>2, LocalLockAssumption DEF InList
  <2> QED
    BY <2>2, <2>3, <2>4 DEF Abstract!Request, Holder, Waiting, Overdue
<1> QED
  BY <1>2, <1>3

LEMMA TokenGivenUp ==
  ASSUME HoldersRun, HoldersRun', NEW k \in Tokens, NEW t \in InList(k), t \notin Runners(k),
         InList(k)' = InList(k) \ {t}, Runners(k)' = Runners(k), Overdue(k)' = Overdue(k)
  PROVE  Abstract(k)!GiveUp(t)
<1>1. /\ Holder(k)' = Holder(k) /\ t \in Waiting(k)
      /\ Waiting(k)' = Waiting(k) \ {t}
  BY DEF HoldersRun
<1> QED
  BY <1>1 DEF Abstract!GiveUp, Holder, Waiting, Overdue

(* The runner is gone, in time or not: somebody who waited runs. *)
LEMMA TokenHandedOver ==
  ASSUME HoldersRun, HoldersRun', NEW k \in Tokens, NEW t \in Runners(k),
         InList(k)' = InList(k) \ {t}, Runners(k)' \subseteq InList(k) \ {t}
  PROVE  t = Holder(k) /\ Abstract(k)!HandOver
<1>1. t = Holder(k) /\ Runners(k) = {t} /\ Waiting(k) = InList(k) \ {t}
  BY DEF HoldersRun
<1>2. CASE Runners(k)' = {}
  <2>1. InList(k)' = {} /\ Holder(k)' = NoToken /\ Waiting(k)' = {} /\ Waiting(k) = {}
    BY <1>1, <1>2 DEF HoldersRun
  <2> QED
    BY <1>1, <2>1 DEF Abstract!HandOver, Holder, Waiting
<1>3. CASE Runners(k)' # {}
  <2>1. PICK u : u \in Runners(k)'
    BY <1>3
  <2>2. /\ Holder(k)' = u /\ Runners(k)' = {u} /\ u \in Waiting(k)
        /\ Waiting(k)' = Waiting(k) \ {u}
    BY <1>1, <2>1 DEF HoldersRun
  <2> QED
    BY <1>1, <2>2 DEF Abstract!HandOver, Holder, Waiting
<1> QED
  BY <1>2, <1>3

(* locked() requests its token and touches no other. *)
LEMMA LockedSeen ==
  ASSUME Inv, Inv', NEW t \in Tasks, NEW k \in Tokens, NEW wait \in WaitOptions,
         NEW max \in MaxOptions, Locked(t, k, wait, max), NEW m \in Tokens
  PROVE  [Abstract(m)!LockNext]_(Abstract(m)!lockVars)
<1> DEFINE list == Append(tasks[k], t)
           started == NextToRun(list, running)
<1>1. /\ token[t] = NoToken /\ token' = [token EXCEPT ![t] = k]
      /\ tasks' = [tasks EXCEPT ![k] = list] /\ running' = running \cup started
      /\ \A u \in Tasks : fn'[u] = IF u \in started THEN "working" ELSE fn[u]
  BY DEF Locked, RunOne
<1>2. HoldersRun /\ HoldersRun' /\ LocalTypeOK
  BY HolderRuns, HolderRunsNext DEF Inv
<1>3. /\ t \notin running /\ fn[t] = "idle" /\ k # NoToken /\ m # NoToken
      /\ token \in [Tasks -> Tokens \cup {NoToken}] /\ running \subseteq Tasks
  BY <1>1, <1>2, LocalLockAssumption DEF Inv, RunningListed, UnusedIdle, LocalTypeOK
<1>4. /\ tasks[k] \in Seq(Tasks) /\ Len(tasks[k]) \in Nat
      /\ Len(list) = Len(tasks[k]) + 1 /\ list[Len(tasks[k]) + 1] = t
      /\ \A i \in 1..Len(tasks[k]) : list[i] = tasks[k][i]
      /\ list # <<>>
  BY <1>2, AppendProperties, ElementOfSeq DEF LocalTypeOK
<1>5. t \notin InList(m)
  BY <1>1, <1>3 DEF InList, Inv, ListsDisjoint
<1> HIDE DEF list
<1>6. InList(m)' = IF m = k THEN InList(m) \cup {t} ELSE InList(m)
  <2>1. tasks'[m] = IF m = k THEN list ELSE tasks[m]
    BY <1>1, <1>2 DEF LocalTypeOK
  <2>2. CASE m # k
    BY <2>1, <2>2 DEF InList
  <2>3. CASE m = k
    <3>1. \A u \in Tasks : (\E i \in 1..Len(list) : list[i] = u)
                           <=> u = t \/ \E i \in 1..Len(tasks[k]) : tasks[k][i] = u
      <4>1. \A i : i \in 1..Len(list) <=> i \in 1..Len(tasks[k]) \/ i = Len(tasks[k]) + 1
        BY <1>4
      <4> QED
        BY <1>4, <4>1
    <3> QED
      BY <2>1, <2>3, <3>1 DEF InList
  <2> QED
    BY <2>2, <2>3
<1>7. started = IF InList(k) = {} THEN {t} ELSE {}
  <2>1. CASE InList(k) = {}
    <3>1. Len(tasks[k]) = 0
      <4>1. ~(1 \in 1..Len(tasks[k]))
        BY <1>4, <2>1, ElementOfSeq DEF InList
      <4> QED
        BY <1>4, <4>1
    <3>2. 1..Len(list) = {1} /\ list[1] = t
      BY <1>4, <3>1
    <3> QED
      BY <1>3, <1>4, <2>1, <3>2 DEF NextToRun
  <2>2. CASE InList(k) # {}
    <3>1. 1 \in 1..Len(tasks[k])
      BY <1>4, <2>2 DEF InList
    <3>2. list[1] \in running /\ 1 \in 1..Len(list)
      BY <1>4, <3>1 DEF Inv, HeadRuns
    <3> QED
      BY <2>2, <3>2 DEF NextToRun
  <2> QED
    BY <2>1, <2>2
<1> HIDE DEF started
<1>8. Runners(m)' = IF m = k /\ InList(m) = {} THEN {t} ELSE Runners(m)
  <2>1. \A u \in Tasks : token'[u] = IF u = t THEN k ELSE token[u]
    BY <1>1, <1>3
  <2>2. Runners(m)' = IF m = k THEN Runners(m) \cup started ELSE Runners(m)
    BY <1>1, <1>3, <1>7, <2>1 DEF Runners
  <2> QED
    BY <1>2, <1>7, <2>2 DEF HoldersRun
<1>9. Overdue(m)' = Overdue(m) /\ t \notin Overdue(m)
  BY <1>1, <1>3, <1>7 DEF Overdue
<1>10. CASE m = k
  BY <1>2, <1>5, <1>6, <1>8, <1>9, <1>10, TokenRequested DEF Abstract!LockNext
<1>11. CASE m # k
  BY <1>2, <1>6, <1>8, <1>9, <1>11, TokenUntouched
<1> QED
  BY <1>10, <1>11

(* A wait timer in time gives up, a late one does nothing. *)
LEMMA WaitTimeoutSeen ==
  ASSUME Inv, Inv', NEW t \in Tasks, WaitTimeout(t), NEW m \in Tokens
  PROVE  [Abstract(m)!LockNext]_(Abstract(m)!lockVars)
<1>1. HoldersRun /\ HoldersRun' /\ LocalTypeOK
  BY HolderRuns, HolderRunsNext DEF Inv
<1>2. UNCHANGED <<token, running>> /\ Runners(m)' = Runners(m)
  BY DEF WaitTimeout, Runners
<1>3. CASE ~StillInLine(t)
  <2>1. UNCHANGED <<tasks, fn>>
    BY <1>3 DEF WaitTimeout
  <2>2. InList(m)' = InList(m) /\ Overdue(m)' = Overdue(m)
    BY <1>2, <2>1 DEF InList, Overdue
  <2> QED
    BY <1>1, <1>2, <2>2, TokenUntouched
<1>4. CASE StillInLine(t)
  <2> DEFINE k == token[t]
             list == Without(tasks[k], t)
  <2>1. /\ tasks' = [tasks EXCEPT ![k] = list] /\ fn' = [fn EXCEPT ![t] = "refused"]
        /\ t \notin running /\ k \in Tokens /\ t \in InList(k)
    BY <1>4 DEF WaitTimeout, StillInLine, Inv, ArmedUsed, InList
  <2>2. tasks[k] \in Seq(Tasks) /\ Distinct(tasks[k]) /\ fn \in [Tasks -> FnStates]
    BY <1>1, <2>1 DEF LocalTypeOK, Inv, ListsDisjoint
  <2>3. PICK i \in 1..Len(tasks[k]) : tasks[k][i] = t
    BY <2>1 DEF InList
  <2>4. IsRest(list, tasks[k], i)
    BY <2>2, <2>3, WithoutIsRest
  <2> HIDE DEF list, k
  <2>5. InList(m)' = IF m = k THEN InList(m) \ {t} ELSE InList(m)
    <3>1. tasks'[m] = IF m = k THEN list ELSE tasks[m]
      BY <1>1, <2>1 DEF LocalTypeOK
    <3>2. \A u \in Tasks : (\E j \in 1..Len(list) : list[j] = u)
                           <=> u # t /\ \E j \in 1..Len(tasks[k]) : tasks[k][j] = u
      BY <2>2, <2>3, <2>4 DEF IsRest, Distinct
    <3>3. CASE m = k
      BY <3>1, <3>2, <3>3 DEF InList
    <3>4. CASE m # k
      BY <3>1, <3>4 DEF InList
    <3> QED
      BY <3>3, <3>4
  <2>6. fn[t] = "idle"
    BY <2>1 DEF Inv, WaitersIdle, InList
  <2>7. Overdue(m)' = Overdue(m)
    BY <1>2, <2>1, <2>2, <2>6 DEF Overdue
  <2>8. CASE m = k
    <3>1. t \in InList(m) /\ t \notin Runners(m)
      BY <2>1, <2>8 DEF Runners
    <3>2. Abstract(m)!GiveUp(t)
      BY <1>1, <1>2, <2>5, <2>7, <2>8, <3>1, TokenGivenUp
    <3> QED
      BY <3>2 DEF Abstract!LockNext
  <2>9. CASE m # k
    BY <1>1, <1>2, <2>5, <2>7, <2>9, TokenUntouched
  <2> QED
    BY <2>8, <2>9
<1> QED
  BY <1>3, <1>4

(* What _release does to the lines, the runners and those who are overdue. *)
LEMMA ReleaseSeen ==
  ASSUME Inv, NEW t \in running, NEW timers, NEW called \in [Tasks -> FnStates],
         \A u \in Tasks \ {t} : called[u] = fn[u],
         ReleaseTask(t, timers, called), UNCHANGED token, NEW m \in Tokens
  PROVE  /\ InList(m)' = InList(m) \ {t}
         /\ m # token[t] => InList(m)' = InList(m) /\ Runners(m)' = Runners(m)
         /\ m = token[t] => Runners(m)' \subseteq InList(m) \ {t}
         /\ m = token[t] /\ called[t] \in {"working", "lost"}
              => Overdue(m)' = Overdue(m) \cup {t}
         /\ m # token[t] \/ called[t] \notin {"working", "lost"}
              => Overdue(m)' = Overdue(m)
<1> DEFINE k == token[t]
           list == Without(tasks[k], t)
           started == NextToRun(list, running \ {t})
<1>1. /\ tasks' = [tasks EXCEPT ![k] = list] /\ running' = (running \ {t}) \cup started
      /\ \A u \in Tasks : fn'[u] = IF u \in started THEN "working" ELSE called[u]
  BY DEF ReleaseTask, RunOne
<1>2. /\ t \in Tasks /\ k \in Tokens /\ tasks[k][1] = t /\ IsRest(list, tasks[k], 1)
      /\ \A j \in 1..Len(list) :
           /\ list[j] \in Tasks \ {t} /\ list[j] \notin running
           /\ token[list[j]] = k /\ fn[list[j]] = "idle"
      /\ IsListed(t)
  BY RunnerLeaves
<1>3. LocalTypeOK /\ Distinct(tasks[k]) /\ 1 \in 1..Len(tasks[k])
  BY <1>2, ElementOfSeq DEF Inv, ListsDisjoint, IsListed, LocalTypeOK
<1> HIDE DEF list, k
<1>4. \A u \in started : u \in Tasks \ {t} /\ u \notin running /\ token[u] = k /\ fn[u] = "idle"
                         /\ \E j \in 1..Len(list) : list[j] = u
  <2>1. list # <<>> => 1 \in 1..Len(list)
    BY <1>2, ElementOfSeq, EmptySeq DEF IsRest
  <2> QED
    BY <1>2, <2>1 DEF NextToRun
<1> HIDE DEF started
<1>5. \A u \in Tasks : (\E j \in 1..Len(list) : list[j] = u)
                       <=> u # t /\ \E j \in 1..Len(tasks[k]) : tasks[k][j] = u
  <2>1. \A j \in 1..Len(list) : list[j] # t /\ \E i \in 1..Len(tasks[k]) : tasks[k][i] = list[j]
    BY <1>2 DEF IsRest
  <2>2. \A i \in 1..Len(tasks[k]) : i # 1 => \E j \in 1..Len(list) : list[j] = tasks[k][i]
    BY <1>2 DEF IsRest
  <2> QED
    BY <1>2, <2>1, <2>2
<1>6. InList(m)' = IF m = k THEN InList(m) \ {t} ELSE InList(m)
  <2>1. tasks'[m] = IF m = k THEN list ELSE tasks[m]
    BY <1>1, <1>3 DEF LocalTypeOK
  <2> QED
    BY <1>5, <2>1 DEF InList
<1>7. m # k => t \notin InList(m)
  BY DEF InList, Inv, ListsDisjoint, k
<1>8. m # k => Runners(m)' = Runners(m)
  BY <1>1, <1>4 DEF Runners, k
<1>9. m = k => Runners(m)' \subseteq InList(m) \ {t}
  <2>1. HoldersRun
    BY HolderRuns
  <2>2. \A u \in running : token[u] = k => u = t
    BY <1>2, <2>1 DEF HoldersRun, Runners, k
  <2>3. m = k => \A u \in started : u \in InList(m) \ {t}
    BY <1>4, <1>5 DEF InList
  <2> QED
    BY <1>1, <2>2, <2>3 DEF Runners
<1>10. /\ m = k /\ called[t] \in {"working", "lost"} => Overdue(m)' = Overdue(m) \cup {t}
       /\ m # k \/ called[t] \notin {"working", "lost"} => Overdue(m)' = Overdue(m)
  BY <1>1, <1>2, <1>4 DEF Overdue, k
<1> QED
  BY <1>6, <1>7, <1>8, <1>9, <1>10 DEF k

(* The holding timer expires the token of its task, or came too late. *)
LEMMA MaxTimeoutSeen ==
  ASSUME Inv, Inv', NEW t \in Tasks, MaxTimeout(t), NEW m \in Tokens
  PROVE  [Abstract(m)!LockNext]_(Abstract(m)!lockVars)
<1>1. HoldersRun /\ HoldersRun' /\ fn \in [Tasks -> FnStates]
  BY HolderRuns, HolderRunsNext DEF Inv, LocalTypeOK
<1>2. ReleaseTask(t, maxTimer \ {t}, fn) /\ UNCHANGED token
  BY DEF MaxTimeout
<1>3. CASE t \notin running
  <2>1. UNCHANGED <<tasks, running, token, fn>>
    BY <1>2, <1>3 DEF ReleaseTask
  <2>2. InList(m)' = InList(m) /\ Runners(m)' = Runners(m) /\ Overdue(m)' = Overdue(m)
    BY <2>1 DEF InList, Runners, Overdue
  <2> QED
    BY <1>1, <2>2, TokenUntouched
<1>4. CASE t \in running
  <2>1. fn[t] \in {"working", "lost"}
    BY <1>4 DEF Inv, RunningCalled
  <2>2. /\ InList(m)' = InList(m) \ {t}
        /\ m # token[t] => InList(m)' = InList(m) /\ Runners(m)' = Runners(m)
        /\ m = token[t] => Runners(m)' \subseteq InList(m) \ {t}
        /\ m = token[t] => Overdue(m)' = Overdue(m) \cup {t}
        /\ m # token[t] => Overdue(m)' = Overdue(m)
    BY <1>1, <1>2, <1>4, <2>1, ReleaseSeen
  <2>3. CASE m = token[t]
    <3>1. t = Holder(m) /\ Abstract(m)!HandOver
      BY <1>1, <1>4, <2>2, <2>3, TokenHandedOver DEF Runners
    <3>2. Abstract(m)!Expire(t)
      BY <2>2, <2>3, <3>1 DEF Abstract!Expire, Holder, Overdue
    <3> QED
      BY <3>2 DEF Abstract!LockNext
  <2>4. CASE m # token[t]
    BY <1>1, <2>2, <2>4, TokenUntouched
  <2> QED
    BY <2>3, <2>4
<1> QED
  BY <1>3, <1>4

(* release() in time lets the token go, a late one is not heard. *)
LEMMA ReleaseCallSeen ==
  ASSUME Inv, Inv', NEW t \in Tasks, Release(t), NEW m \in Tokens
  PROVE  [Abstract(m)!LockNext]_(Abstract(m)!lockVars)
<1> DEFINE called == [fn EXCEPT ![t] = "done"]
<1>1. HoldersRun /\ HoldersRun' /\ fn \in [Tasks -> FnStates]
  BY HolderRuns, HolderRunsNext DEF Inv, LocalTypeOK
<1>2. ReleaseTask(t, maxTimer, called) /\ UNCHANGED token /\ fn[t] = "working"
  BY DEF Release
<1>3. /\ called \in [Tasks -> FnStates] /\ called[t] = "done"
      /\ \A u \in Tasks \ {t} : called[u] = fn[u]
  BY <1>1 DEF FnStates
<1> HIDE DEF called
<1>4. CASE t \notin running
  <2>1. UNCHANGED <<tasks, running, token>> /\ fn' = called
    BY <1>2, <1>4 DEF ReleaseTask
  <2>2. InList(m)' = InList(m) /\ Runners(m)' = Runners(m)
    BY <2>1 DEF InList, Runners
  <2>3. Overdue(m)' = IF m = token[t] THEN Overdue(m) \ {t} ELSE Overdue(m)
    BY <1>3, <2>1 DEF Overdue
  <2>4. CASE m # token[t]
    BY <1>1, <2>2, <2>3, <2>4, TokenUntouched
  <2>5. CASE m = token[t]
    <3>1. Holder(m)' = Holder(m) /\ Waiting(m)' = Waiting(m)
      BY <2>1 DEF Holder, Waiting, InList
    <3>2. t \in Overdue(m)
      BY <1>2, <1>4, <2>5 DEF Overdue
    <3>3. Abstract(m)!ReleaseLate(t)
      BY <2>3, <2>5, <3>1, <3>2 DEF Abstract!ReleaseLate, Holder, Waiting, Overdue
    <3> QED
      BY <3>3 DEF Abstract!LockNext
  <2> QED
    BY <2>4, <2>5
<1>5. CASE t \in running
  <2>1. /\ InList(m)' = InList(m) \ {t}
        /\ m # token[t] => InList(m)' = InList(m) /\ Runners(m)' = Runners(m)
        /\ m = token[t] => Runners(m)' \subseteq InList(m) \ {t}
        /\ Overdue(m)' = Overdue(m)
    BY <1>2, <1>3, <1>5, ReleaseSeen
  <2>2. CASE m = token[t]
    <3>1. t = Holder(m) /\ Abstract(m)!HandOver
      BY <1>1, <1>5, <2>1, <2>2, TokenHandedOver DEF Runners
    <3>2. Abstract(m)!Release(t)
      BY <2>1, <3>1 DEF Abstract!Release, Holder, Overdue
    <3> QED
      BY <3>2 DEF Abstract!LockNext
  <2>3. CASE m # token[t]
    BY <1>1, <2>1, <2>3, TokenUntouched
  <2> QED
    BY <2>2, <2>3
<1> QED
  BY <1>4, <1>5

(* A release that gets lost is not seen: the token stays where it is. *)
LEMMA LoseReleaseSeen ==
  ASSUME Inv, Inv', NEW t \in Tasks, LoseRelease(t), NEW m \in Tokens
  PROVE  UNCHANGED Abstract(m)!lockVars
<1>1. HoldersRun /\ HoldersRun' /\ fn \in [Tasks -> FnStates]
  BY HolderRuns, HolderRunsNext DEF Inv, LocalTypeOK
<1>2. /\ UNCHANGED <<tasks, running, token>>
      /\ fn[t] = "working" /\ fn' = [fn EXCEPT ![t] = "lost"]
  BY DEF LoseRelease
<1>3. InList(m)' = InList(m) /\ Runners(m)' = Runners(m)
  BY <1>2 DEF InList, Runners
<1>4. Overdue(m)' = Overdue(m)
  BY <1>1, <1>2 DEF Overdue
<1> QED
  BY <1>1, <1>3, <1>4, TokenUntouched

LEMMA NextSeen ==
  ASSUME Inv, Inv', LocalNext
  PROVE  \A m \in Tokens : [Abstract(m)!LockNext]_(Abstract(m)!lockVars)
<1> SUFFICES ASSUME NEW m \in Tokens
             PROVE  [Abstract(m)!LockNext]_(Abstract(m)!lockVars)
  OBVIOUS
<1>1. ASSUME NEW t \in Tasks, LoseRelease(t)
      PROVE  [Abstract(m)!LockNext]_(Abstract(m)!lockVars)
  BY <1>1, LoseReleaseSeen
<1> QED
  BY <1>1, LockedSeen, WaitTimeoutSeen, MaxTimeoutSeen, ReleaseCallSeen DEF LocalNext

LEMMA InitSeen ==
  ASSUME LocalInit, NEW k \in Tokens
  PROVE  Abstract(k)!LockInit
<1>1. running = {} /\ tasks[k] = <<>> /\ \A t \in Tasks : fn[t] = "idle"
  BY DEF LocalInit
<1>2. InList(k) = {}
  BY <1>1, EmptySeq DEF InList
<1> QED
  BY <1>1, <1>2 DEF Abstract!LockInit

(* Every token of lib/locallock.js is a WalletLock, the lock on which the
   handlers of lib/server.js are modelled and proved about. *)
THEOREM TokensAreLocks == LocalSpec => ImplementsWalletLock
<1>1. Inv /\ Inv' /\ [LocalNext]_localVars =>
        [\A k \in Tokens : [Abstract(k)!LockNext]_(Abstract(k)!lockVars)]_localVars
  BY NextSeen
<1>2. LocalInit => \A k \in Tokens : Abstract(k)!LockInit
  BY InitSeen
<1> QED
  BY <1>1, <1>2, InvariantHolds, PTL DEF LocalSpec, ImplementsWalletLock
=============================================================================
