--------------------- MODULE NotificationDeliveryProofs ---------------------
(***************************************************************************)
(* Proofs about NotificationDelivery, for any notifications, copayers,     *)
(* services and faults.                                                    *)
(*                                                                         *)
(* First, no address is mailed twice unless a run has lost its lock. The   *)
(* lock alone does not give it, since a run that fails releases the lock   *)
(* with mails on their way; and the collection of emails alone does not,   *)
(* since two runs may look before either has stored. Together they do: who *)
(* stores has the lock and found nothing, and from the first mail on       *)
(* something is found (Inv).                                               *)
(*                                                                         *)
(* Then, that everybody is reached: a client misses nothing (ClientInv),   *)
(* the devices of a copayer hear of what is for him (PushInv), and so does *)
(* his mailbox (MailInv). Each of these says of a notification that is due *)
(* that it is delivered or has somebody on the way to deliver it: in the   *)
(* broker, at a step of a run, or in the collection of emails of a run     *)
(* that sends.                                                             *)
(***************************************************************************)
EXTENDS NotificationDelivery, WellFoundedInduction, TLAPS

(* No run of a notification with this id has lost its lock. *)
Clear(i) == \A o \in overrun : ids[o] # i

Typed ==
  /\ mailing \subseteq Mailing
  /\ ids \in [Notes -> Nat]
  /\ stage \in [Notes -> {"new", "store", "send", "done"}]
  /\ sent \in [Notes \X Emails -> Nat]
  /\ prefs \in [Copayers -> Emails \cup {None}]
  /\ overrun \subseteq Notes
  /\ \A message \in inbox : message[2] \in Notes

(* What is told has been created; its id does not change any more. *)
Begun ==
  /\ \A job \in mailing : stage[job.note] # "new"
  /\ \A message \in inbox : stage[message[2]] # "new"
  /\ \A o \in overrun : stage[o] # "new"
  /\ \A n \in Notes, e \in Emails : stage[n] = "new" => sent[<<n, e>>] = 0

(* One recipient for an address. *)
OneEach(list) == \A r, q \in list : r[2] = q[2] => r = q

Lists ==
  \A job \in mailing :
    OneEach(job.list) /\ (job.at = "send" => job.todo \subseteq job.list)

LockExcludes ==
  \A a, b \in mailing : a.locked /\ b.locked /\ ids[a.note] = ids[b.note] => a = b

HoldsLock ==
  \A a \in mailing : a.at \in {"fetch", "store"} /\ Clear(ids[a.note]) => a.locked

SendQueued == \A a \in mailing : a.at = "send" => Queued(a.note)

SentQueued == \A n \in Notes, e \in Emails : sent[<<n, e>>] # 0 => Queued(n)

(* While a run stores, nothing with its id was sent, and nobody sends. *)
StoringFirst ==
  \A a \in mailing : a.at = "store" /\ Clear(ids[a.note]) =>
    /\ \A n \in Notes, e \in Emails : ids[n] = ids[a.note] => sent[<<n, e>>] = 0
    /\ \A b \in mailing : b.at = "send" => ids[b.note] # ids[a.note]

OneSends ==
  \A a, b \in mailing :
    a.at = "send" /\ b.at = "send" /\ ids[a.note] = ids[b.note] /\ Clear(ids[a.note]) => a = b

SendsOnce ==
  \A a \in mailing : a.at = "send" /\ Clear(ids[a.note]) =>
    \A r \in a.todo : sent[<<a.note, r[2]>>] = 0

AtMostOnce ==
  \A n \in Notes, e \in Emails : Clear(ids[n]) => sent[<<n, e>>] <= 1

Inv ==
  /\ Typed /\ Begun /\ Lists
  /\ LockExcludes /\ HoldsLock
  /\ SendQueued /\ SentQueued
  /\ StoringFirst /\ OneSends /\ SendsOnce /\ AtMostOnce

-----------------------------------------------------------------------------
(* The invariant holds in the initial states. *)
LEMMA InitInv == Init => Inv
<1> SUFFICES ASSUME Init PROVE Inv
  OBVIOUS
<1>1. Typed
  BY SMT DEF Init, Typed
<1>2. \A x \in Notes \X Emails : sent[x] = 0
  BY DEF Init
<1>3. \A n \in Notes, e \in Emails : sent[<<n, e>>] = 0
  BY <1>2
<1>4. mailing = {} /\ inbox = {} /\ overrun = {}
  BY DEF Init
<1>5. Begun /\ Lists /\ LockExcludes /\ HoldsLock /\ SendQueued /\ SentQueued
  BY <1>3, <1>4 DEF Begun, Lists, LockExcludes, HoldsLock, SendQueued, SentQueued
<1>6. StoringFirst /\ OneSends /\ SendsOnce /\ AtMostOnce
  BY <1>3, <1>4, SMT DEF StoringFirst, OneSends, SendsOnce, AtMostOnce
<1> QED
  BY <1>1, <1>5, <1>6 DEF Inv

(* What one run of sendEmail may become without care for the others: it does not
   begin to store or to send, it gets no lock, and it keeps the one it has while it
   stores, unless it is overrun. *)
GentleStep(job, others) ==
  /\ \A k \in others :
       /\ k \in Mailing /\ k.note = job.note
       /\ OneEach(k.list) /\ (k.at = "send" => k.todo \subseteq k.list)
       /\ k.at \in {"fetch", "store", "send"} => k.at = job.at /\ k.todo \subseteq job.todo
       /\ k.locked => job.locked
       /\ k.at \in {"fetch", "store"} => (job.locked => k.locked) \/ job.note \in overrun'
  /\ \A k, l \in others : k = l

(* No id leaves the collection of emails. *)
QueueKept == \A mail \in queue : \E m \in queue' : m.id = mail.id

(* What is queued stays queued. *)
LEMMA QueuedStays ==
  ASSUME QueueKept, NEW n, ids' = ids, Queued(n)
  PROVE  Queued(n)'
BY DEF QueueKept, Queued

(* A notification whose runs have all kept their lock had that before. *)
LEMMA ClearBefore ==
  ASSUME overrun \subseteq overrun', ids' = ids, NEW i, Clear(i)'
  PROVE  Clear(i)
BY DEF Clear

(* A gentle step of a run keeps the invariant. *)
LEMMA GentleKeeps ==
  ASSUME Inv, NEW job \in mailing, NEW others,
         mailing' = (mailing \ {job}) \cup others, GentleStep(job, others), QueueKept,
         overrun \subseteq overrun', overrun' \subseteq overrun \cup {job.note},
         UNCHANGED <<ids, stage, inbox, sent, prefs>>
  PROVE  Inv'
<1> USE DEF GentleStep
<1>0. job \in Mailing /\ job.note \in Notes
  BY SMT DEF Inv, Typed, Mailing
<1>1. Typed'
  BY <1>0, SMT DEF Inv, Typed
<1>2. Begun'
  <2>1. \A k \in mailing' : stage'[k.note] # "new"
    BY SMT DEF Inv, Begun
  <2>2. \A o \in overrun' : stage'[o] # "new"
    BY SMT DEF Inv, Begun
  <2> QED
    BY <2>1, <2>2, SMT DEF Inv, Begun
<1>3. Lists'
  BY SMT DEF Inv, Lists
<1>4. LockExcludes'
  BY SMT DEF Inv, LockExcludes
<1>5. \A i : Clear(i)' => Clear(i)
  BY ClearBefore
<1>6. HoldsLock'
  <2> SUFFICES ASSUME NEW a \in mailing', a.at \in {"fetch", "store"}, Clear(ids[a.note])'
               PROVE  a.locked
    BY SMT DEF HoldsLock
  <2>1. Clear(ids[a.note])
    BY <1>5
  <2>2. CASE a \in others
    <3>1. job.note \notin overrun' /\ a.at = job.at
      BY <2>2, SMT DEF Clear
    <3>2. job.locked
      BY <3>1, <2>1, <2>2, SMT DEF Inv, HoldsLock
    <3> QED
      BY <3>1, <3>2, <2>2
  <2>3. CASE a \in mailing
    BY <2>1, <2>3 DEF Inv, HoldsLock
  <2> QED
    BY <2>2, <2>3
<1>7. SendQueued'
  <2> SUFFICES ASSUME NEW a \in mailing', a.at = "send"  PROVE Queued(a.note)'
    BY DEF SendQueued
  <2>1. Queued(a.note)
    BY SMT DEF Inv, SendQueued
  <2> QED
    BY <2>1, QueuedStays
<1>8. SentQueued'
  <2> SUFFICES ASSUME NEW n \in Notes, NEW e \in Emails, sent'[<<n, e>>] # 0  PROVE Queued(n)'
    BY DEF SentQueued
  <2>1. Queued(n)
    BY DEF Inv, SentQueued
  <2> QED
    BY <2>1, QueuedStays
<1>9. \A a \in mailing' : a.at \in {"store", "send"} =>
        \E b \in mailing : /\ b.at = a.at /\ b.note = a.note /\ a.todo \subseteq b.todo
                           /\ (a = b \/ (a \in others /\ b = job))
  BY SMT
<1>10. StoringFirst'
  <2> SUFFICES ASSUME NEW a \in mailing', a.at = "store", Clear(ids[a.note])'
               PROVE  /\ \A n \in Notes, e \in Emails : ids[n] = ids[a.note] => sent[<<n, e>>] = 0
                      /\ \A b \in mailing' : b.at = "send" => ids[b.note] # ids[a.note]
    BY SMT DEF StoringFirst
  <2>1. PICK c \in mailing : c.at = "store" /\ c.note = a.note
    BY <1>9, SMT
  <2>2. Clear(ids[c.note])
    BY <2>1, <1>5
  <2>3. /\ \A n \in Notes, e \in Emails : ids[n] = ids[c.note] => sent[<<n, e>>] = 0
        /\ \A b \in mailing : b.at = "send" => ids[b.note] # ids[c.note]
    BY <2>1, <2>2 DEF Inv, StoringFirst
  <2> QED
    BY <2>1, <2>3, <1>9, SMT
<1>11. OneSends'
  <2> SUFFICES ASSUME NEW a \in mailing', NEW b \in mailing', a.at = "send", b.at = "send",
                      ids[a.note] = ids[b.note], Clear(ids[a.note])'
               PROVE  a = b
    BY SMT DEF OneSends
  <2>1. PICK c \in mailing : c.at = a.at /\ c.note = a.note /\ (a = c \/ (a \in others /\ c = job))
    BY <1>9, SMT
  <2>2. PICK d \in mailing : d.at = b.at /\ d.note = b.note /\ (b = d \/ (b \in others /\ d = job))
    BY <1>9, SMT
  <2>3. Clear(ids[c.note])
    BY <2>1, <1>5
  <2>4. c = d
    BY <2>1, <2>2, <2>3 DEF Inv, OneSends
  <2>5. CASE c = job
    BY <2>1, <2>2, <2>4, <2>5, SMT
  <2>6. CASE c # job
    BY <2>1, <2>2, <2>4, <2>6
  <2> QED
    BY <2>5, <2>6
<1>12. SendsOnce'
  <2> SUFFICES ASSUME NEW a \in mailing', a.at = "send", Clear(ids[a.note])', NEW r \in a.todo
               PROVE  sent[<<a.note, r[2]>>] = 0
    BY SMT DEF SendsOnce
  <2>1. PICK c \in mailing : c.at = "send" /\ c.note = a.note /\ a.todo \subseteq c.todo
    BY <1>9, SMT
  <2>2. Clear(ids[c.note])
    BY <2>1, <1>5
  <2> QED
    BY <2>1, <2>2 DEF Inv, SendsOnce
<1>13. AtMostOnce'
  BY <1>5 DEF Inv, AtMostOnce
<1> QED
  BY <1>1, <1>2, <1>3, <1>4, <1>6, <1>7, <1>8, <1>10, <1>11, <1>12, <1>13 DEF Inv

(* Steps that leave sendEmail alone keep the invariant. *)
LEMMA OthersKeep ==
  ASSUME Inv, UNCHANGED <<mails, ids, sent, prefs>>,
         inbox' \subseteq inbox, stage' \in [Notes -> {"new", "store", "send", "done"}],
         \A n \in Notes : stage[n] # "new" => stage'[n] # "new",
         \A n \in Notes : stage'[n] = "new" => stage[n] = "new"
  PROVE  Inv'
<1> USE DEF mails
<1>1. Typed'
  BY SMT DEF Inv, Typed
<1>2. Begun'
  BY SMT DEF Inv, Begun, Typed, Mailing
<1>3. (Lists /\ LockExcludes /\ HoldsLock)'
  BY SMT DEF Inv, Lists, LockExcludes, HoldsLock, Clear
<1>4. (SendQueued /\ SentQueued /\ StoringFirst /\ OneSends /\ SendsOnce /\ AtMostOnce)'
  BY DEF Inv, SendQueued, SentQueued, Queued, StoringFirst, OneSends, SendsOnce,
         AtMostOnce, Clear
<1> QED
  BY <1>1, <1>2, <1>3, <1>4 DEF Inv

(* A new id may be that of other notifications; the new one has no run yet, and
   nothing of it was sent. *)
LEMMA CreateKeeps ==
  ASSUME Inv, NotificationDeliveryAssumption, NEW n \in Notes, Create(n), clock \in Nat
  PROVE  Inv'
<1> USE DEF Create, mails
<1>1. NotificationId(n) \in Nat
  BY SMT DEF NotificationId, NotificationDeliveryAssumption
<1>2. Typed'
  BY <1>1, SMT DEF Inv, Typed, people
<1>3. \A m \in Notes : m # n => ids'[m] = ids[m] /\ stage'[m] = stage[m]
  BY DEF Inv, Typed
<1>4. stage[n] = "new" /\ stage'[n] = "store"
  BY SMT DEF Inv, Typed
<1>5. \A a \in mailing : a.note \in Notes /\ a.note # n /\ ids'[a.note] = ids[a.note]
  BY <1>3, <1>4, SMT DEF Inv, Typed, Begun, Mailing
<1>6. \A o \in overrun : o \in Notes /\ o # n /\ ids'[o] = ids[o]
  BY <1>3, <1>4, SMT DEF Inv, Typed, Begun
<1>7. \A m \in Notes : m # n /\ Clear(ids[m])' => Clear(ids[m])
  BY <1>3, <1>6 DEF Clear
<1>8. \A m \in Notes : m # n => (Queued(m)' <=> Queued(m))
  BY <1>3 DEF Queued
<1>9. \A e \in Emails : sent[<<n, e>>] = 0
  BY <1>4 DEF Inv, Begun
<1>10. Begun'
  BY <1>3, <1>4, <1>5, <1>6, SMT DEF Inv, Begun, Typed
<1>11. (Lists /\ LockExcludes /\ HoldsLock)'
  BY <1>5, <1>7, SMT DEF Inv, Lists, LockExcludes, HoldsLock
<1>12. (SendQueued /\ SentQueued)'
  BY <1>5, <1>8, <1>9 DEF Inv, SendQueued, SentQueued
<1>13. StoringFirst'
  <2> SUFFICES ASSUME NEW a \in mailing, a.at = "store", Clear(ids[a.note])'
               PROVE  /\ \A m \in Notes, e \in Emails :
                           ids'[m] = ids'[a.note] => sent[<<m, e>>] = 0
                      /\ \A b \in mailing : b.at = "send" => ids'[b.note] # ids'[a.note]
    BY DEF StoringFirst
  <2>1. /\ \A m \in Notes, e \in Emails : ids[m] = ids[a.note] => sent[<<m, e>>] = 0
        /\ \A b \in mailing : b.at = "send" => ids[b.note] # ids[a.note]
    BY <1>5, <1>7 DEF Inv, StoringFirst
  <2> QED
    BY <2>1, <1>3, <1>5, <1>9
<1>14. (OneSends /\ SendsOnce)'
  BY <1>5, <1>7 DEF Inv, OneSends, SendsOnce
<1>15. AtMostOnce'
  <2> SUFFICES ASSUME NEW m \in Notes, NEW e \in Emails, Clear(ids[m])'
               PROVE  sent[<<m, e>>] <= 1
    BY DEF AtMostOnce
  <2>1. CASE m = n
    BY <2>1, <1>9, SMT
  <2>2. CASE m # n
    BY <2>2, <1>3, <1>7 DEF Inv, AtMostOnce
  <2> QED
    BY <2>1, <2>2
<1> QED
  BY <1>2, <1>10, <1>11, <1>12, <1>13, <1>14, <1>15 DEF Inv

(* A run begins without a lock. *)
LEMMA ReceiveMailKeeps ==
  ASSUME Inv, NEW who \in Mailers, NEW n, ReceiveMail(who, n)
  PROVE  Inv'
<1> DEFINE job == [who |-> who, note |-> n, at |-> "check", locked |-> FALSE,
                   list |-> {}, todo |-> {}, out |-> {}]
<1>1. n \in Notes /\ stage[n] # "new"
  BY SMT DEF ReceiveMail, Inv, Typed, Begun
<1>2. /\ job \in Mailing /\ job.note = n /\ job.at = "check" /\ ~job.locked
      /\ job.list = {} /\ job.todo = {}
  BY <1>1, SMT DEF Mailing
<1> HIDE DEF job
<1>3. /\ mailing' \subseteq mailing \cup {job}
      /\ inbox' \subseteq inbox
      /\ UNCHANGED <<ids, stage, queue, sent, overrun, prefs>>
  BY SMT DEF ReceiveMail, writers, people, job
<1>4. Typed' /\ Begun'
  BY <1>1, <1>2, <1>3, SMT DEF Inv, Typed, Begun
<1>5. (Lists /\ LockExcludes)'
  BY <1>2, <1>3, SMT DEF Inv, Lists, LockExcludes, OneEach
<1>6. (HoldsLock /\ SendQueued /\ SentQueued)'
  BY <1>2, <1>3, SMT DEF Inv, HoldsLock, SendQueued, SentQueued, Queued, Clear
<1>7. (StoringFirst /\ OneSends)'
  BY <1>2, <1>3, SMT DEF Inv, StoringFirst, OneSends, Clear
<1>8. (SendsOnce /\ AtMostOnce)'
  BY <1>2, <1>3, SMT DEF Inv, SendsOnce, AtMostOnce, Clear
<1> QED
  BY <1>4, <1>5, <1>6, <1>7, <1>8 DEF Inv

(* A death takes runs away. *)
LEMMA MailerDiesKeeps ==
  ASSUME Inv, NEW who \in Mailers, MailerDies(who)
  PROVE  Inv'
<1>1. /\ mailing' \subseteq mailing
      /\ UNCHANGED <<inbox, ids, stage, queue, sent, overrun, prefs>>
  BY SMT DEF MailerDies, OthersUnchanged, writers, people
<1>2. (Typed /\ Begun /\ Lists)'
  BY <1>1, SMT DEF Inv, Typed, Begun, Lists
<1>3. (LockExcludes /\ HoldsLock /\ SendQueued /\ SentQueued)'
  BY <1>1, SMT DEF Inv, LockExcludes, HoldsLock, SendQueued, SentQueued, Queued, Clear
<1>4. (StoringFirst /\ OneSends)'
  BY <1>1, SMT DEF Inv, StoringFirst, OneSends, Clear
<1>5. (SendsOnce /\ AtMostOnce)'
  BY <1>1, SMT DEF Inv, SendsOnce, AtMostOnce, Clear
<1> QED
  BY <1>2, <1>3, <1>4, <1>5 DEF Inv

(* Who gets the lock is alone with its id. *)
LEMMA TakeLockKeeps ==
  ASSUME Inv, NEW job \in mailing, TakeLock(job)
  PROVE  Inv'
<1> DEFINE k == [job EXCEPT !.at = "fetch", !.locked = TRUE]
<1>0. job \in Mailing
  BY DEF Inv, Typed
<1>1. /\ k \in Mailing /\ k.note = job.note /\ k.at = "fetch" /\ k.locked
      /\ k.list = job.list /\ k.todo = job.todo
  <2>1. k \in Mailing
    BY <1>0, Zenon DEF Mailing
  <2> QED
    BY <1>0, <2>1, SMT DEF Mailing
<1> HIDE DEF k
<1>2. /\ mailing' = (mailing \ {job}) \cup {k} /\ LockFree(job)
      /\ UNCHANGED <<inbox, ids, stage, queue, sent, overrun, prefs>>
  BY SMT DEF TakeLock, BecomeMailing, OthersUnchanged, writers, people, k
<1>3. (Typed /\ Begun /\ Lists)'
  BY <1>1, <1>2, SMT DEF Inv, Typed, Begun, Lists
<1>4. LockExcludes'
  BY <1>1, <1>2, SMT DEF Inv, LockExcludes, LockFree
<1>5. (HoldsLock /\ SendQueued /\ SentQueued)'
  BY <1>1, <1>2, SMT DEF Inv, HoldsLock, SendQueued, SentQueued, Queued, Clear
<1>6. (StoringFirst /\ OneSends)'
  BY <1>1, <1>2, SMT DEF Inv, StoringFirst, OneSends, Clear
<1>7. (SendsOnce /\ AtMostOnce)'
  BY <1>1, <1>2, SMT DEF Inv, SendsOnce, AtMostOnce, Clear
<1> QED
  BY <1>3, <1>4, <1>5, <1>6, <1>7 DEF Inv

(* Who finds nothing in the collection begins to store: nothing with its id was sent,
   and nobody is about to. *)
LEMMA FetchEmailKeeps ==
  ASSUME Inv, NEW job \in mailing, FetchEmail(job), ~Queued(job.note)
  PROVE  Inv'
<1> DEFINE k == [job EXCEPT !.at = "store", !.todo = job.list]
<1>0. job \in Mailing /\ job.at = "fetch"
  BY DEF Inv, Typed, FetchEmail
<1>1. /\ k \in Mailing /\ k.note = job.note /\ k.at = "store" /\ k.locked = job.locked
      /\ k.list = job.list /\ k.todo = job.list
  <2>1. k \in Mailing
    BY <1>0, Zenon DEF Mailing
  <2> QED
    BY <1>0, <2>1, SMT DEF Mailing
<1> HIDE DEF k
<1>2. /\ mailing' = (mailing \ {job}) \cup {k}
      /\ UNCHANGED <<inbox, ids, stage, queue, sent, overrun, prefs>>
  BY SMT DEF FetchEmail, BecomeMailing, OthersUnchanged, writers, people, k
<1>3. (Typed /\ Begun /\ Lists)'
  BY <1>1, <1>2, SMT DEF Inv, Typed, Begun, Lists
<1>4. (LockExcludes /\ HoldsLock)'
  BY <1>0, <1>1, <1>2, SMT DEF Inv, LockExcludes, HoldsLock, Clear
<1>5. (SendQueued /\ SentQueued)'
  BY <1>1, <1>2, SMT DEF Inv, SendQueued, SentQueued, Queued
<1>6. /\ \A n \in Notes, e \in Emails : ids[n] = ids[job.note] => sent[<<n, e>>] = 0
      /\ \A b \in mailing : b.at = "send" => ids[b.note] # ids[job.note]
  BY DEF Inv, SendQueued, SentQueued, Queued
<1>7. StoringFirst'
  BY <1>1, <1>2, <1>6, SMT DEF Inv, StoringFirst, Clear
<1>8. (OneSends /\ SendsOnce /\ AtMostOnce)'
  BY <1>1, <1>2, SMT DEF Inv, OneSends, SendsOnce, AtMostOnce, Clear
<1> QED
  BY <1>3, <1>4, <1>5, <1>7, <1>8 DEF Inv

(* The last email is stored by the one who stores alone, and it sends alone. *)
LEMMA BeginSendKeeps ==
  ASSUME Inv, NEW job \in mailing, job.at = "store", NEW k,
         k \in Mailing, k.note = job.note, k.at = "send", k.locked = job.locked,
         k.list = job.list, k.todo = job.list,
         mailing' = (mailing \ {job}) \cup {k}, QueueKept, Queued(job.note)',
         UNCHANGED <<inbox, ids, stage, sent, overrun, prefs>>
  PROVE  Inv'
<1>1. (Typed /\ Begun /\ Lists)'
  BY SMT DEF Inv, Typed, Begun, Lists
<1>2. (LockExcludes /\ HoldsLock)'
  BY SMT DEF Inv, LockExcludes, HoldsLock, Clear
<1>3. SendQueued'
  <2> SUFFICES ASSUME NEW a \in mailing', a.at = "send"  PROVE Queued(a.note)'
    BY DEF SendQueued
  <2>1. a = k \/ (a \in mailing /\ Queued(a.note))
    BY DEF Inv, SendQueued
  <2> QED
    BY <2>1, QueuedStays
<1>4. SentQueued'
  <2> SUFFICES ASSUME NEW n \in Notes, NEW e \in Emails, sent[<<n, e>>] # 0  PROVE Queued(n)'
    BY DEF SentQueued
  <2>1. Queued(n)
    BY DEF Inv, SentQueued
  <2> QED
    BY <2>1, QueuedStays
<1>5. job.note \in Notes /\ \A r \in job.list : r[2] \in Emails
  BY SMT DEF Inv, Typed, Mailing, Recipient
<1>6. Clear(ids[job.note]) =>
        /\ \A n \in Notes, e \in Emails : ids[n] = ids[job.note] => sent[<<n, e>>] = 0
        /\ \A b \in mailing : b.at = "send" => ids[b.note] # ids[job.note]
  BY DEF Inv, StoringFirst
<1>7. \A a \in mailing : a # job /\ a.at = "store" /\ Clear(ids[a.note]) =>
        ids[a.note] # ids[job.note]
  BY DEF Inv, LockExcludes, HoldsLock
<1>8. StoringFirst'
  BY <1>7, SMT DEF Inv, StoringFirst, Clear
<1>9. OneSends'
  BY <1>6, SMT DEF Inv, OneSends, Clear
<1>10. SendsOnce'
  BY <1>5, <1>6, SMT DEF Inv, SendsOnce, Clear
<1>11. AtMostOnce'
  BY DEF Inv, AtMostOnce, Clear
<1> QED
  BY <1>1, <1>2, <1>3, <1>4, <1>8, <1>9, <1>10, <1>11 DEF Inv

(* The only run that sends under an id sends to an address it has not sent to. *)
LEMMA SendKeeps ==
  ASSUME Inv, NEW job \in mailing, NEW r \in job.list, Send(job, r)
  PROVE  Inv'
<1> DEFINE k == [job EXCEPT !.todo = job.todo \ {r}, !.out = job.out \cup {r}]
<1>0. /\ job \in Mailing /\ job.at = "send" /\ r \in job.todo /\ job.note \in Notes
      /\ r \in Recipient /\ r[2] \in Emails
  BY SMT DEF Inv, Typed, Send, Mailing, Recipient
<1>1. /\ k \in Mailing /\ k.note = job.note /\ k.at = "send" /\ k.locked = job.locked
      /\ k.list = job.list /\ k.todo = job.todo \ {r}
  <2>1. k \in Mailing
    BY <1>0, Zenon DEF Mailing
  <2> QED
    BY <1>0, <2>1, SMT DEF Mailing
<1> HIDE DEF k
<1>2. /\ mailing' = (mailing \ {job}) \cup {k}
      /\ sent' = [sent EXCEPT ![<<job.note, r[2]>>] = sent[<<job.note, r[2]>>] + 1]
      /\ UNCHANGED <<inbox, ids, stage, queue, overrun, prefs>>
  BY SMT DEF Send, BecomeMailing, OthersUnchanged, writers, people, k
<1>3. sent \in [Notes \X Emails -> Nat]
  BY DEF Inv, Typed
<1>4. /\ sent' \in [Notes \X Emails -> Nat]
      /\ \A n \in Notes, e \in Emails :
           <<n, e>> # <<job.note, r[2]>> => sent'[<<n, e>>] = sent[<<n, e>>]
      /\ sent'[<<job.note, r[2]>>] = sent[<<job.note, r[2]>>] + 1
  BY <1>0, <1>2, <1>3, SMT
<1>5. \A i : Clear(i)' <=> Clear(i)
  BY <1>2 DEF Clear
<1>6. Typed' /\ Lists'
  BY <1>0, <1>1, <1>2, <1>4, SMT DEF Inv, Typed, Lists
<1>7. Begun'
  BY <1>0, <1>1, <1>2, <1>4, SMT DEF Inv, Begun
<1>8. (LockExcludes /\ HoldsLock)'
  BY <1>0, <1>1, <1>2, SMT DEF Inv, LockExcludes, HoldsLock, Clear
<1>9. (SendQueued /\ OneSends)'
  BY <1>0, <1>1, <1>2, SMT DEF Inv, SendQueued, Queued, OneSends, Clear
<1>10. SentQueued'
  BY <1>0, <1>2, <1>4 DEF Inv, SentQueued, SendQueued, Queued
<1>11. StoringFirst'
  <2> SUFFICES ASSUME NEW a \in mailing', a.at = "store", Clear(ids[a.note])
               PROVE  /\ \A n \in Notes, e \in Emails :
                           ids[n] = ids[a.note] => sent'[<<n, e>>] = 0
                      /\ \A b \in mailing' : b.at = "send" => ids[b.note] # ids[a.note]
    BY <1>2, <1>5, SMT DEF StoringFirst
  <2>1. a \in mailing
    BY <1>1, <1>2, SMT
  <2>2. /\ \A n \in Notes, e \in Emails : ids[n] = ids[a.note] => sent[<<n, e>>] = 0
        /\ \A b \in mailing : b.at = "send" => ids[b.note] # ids[a.note]
    BY <2>1 DEF Inv, StoringFirst
  <2>3. ids[job.note] # ids[a.note]
    BY <1>0, <2>2
  <2> QED
    BY <1>1, <1>2, <1>4, <2>2, <2>3
<1>12. SendsOnce'
  <2> SUFFICES ASSUME NEW a \in mailing', a.at = "send", Clear(ids[a.note]), NEW q \in a.todo
               PROVE  sent'[<<a.note, q[2]>>] = 0
    BY <1>2, <1>5, SMT DEF SendsOnce
  <2>1. CASE a = k
    <3>1. q \in job.todo /\ q # r /\ q \in job.list
      BY <1>0, <1>1, <2>1 DEF Inv, Lists
    <3>2. q[2] # r[2]
      BY <3>1 DEF Inv, Lists, OneEach
    <3>3. q[2] \in Emails
      BY <1>0, <3>1, SMT DEF Mailing, Recipient
    <3>4. sent[<<job.note, q[2]>>] = 0
      BY <1>0, <1>1, <2>1, <3>1 DEF Inv, SendsOnce
    <3> QED
      BY <1>0, <1>1, <1>4, <2>1, <3>2, <3>3, <3>4, SMT
  <2>2. CASE a # k
    <3>1. a \in mailing /\ a # job
      BY <1>2, <2>2
    <3>2. ids[a.note] # ids[job.note]
      BY <1>0, <3>1 DEF Inv, OneSends
    <3>3. a.note \in Notes /\ q[2] \in Emails
      BY <3>1, SMT DEF Inv, Typed, Mailing, Recipient
    <3>4. sent[<<a.note, q[2]>>] = 0
      BY <3>1 DEF Inv, SendsOnce
    <3> QED
      BY <1>4, <3>2, <3>3, <3>4, SMT
  <2> QED
    BY <2>1, <2>2
<1>13. AtMostOnce'
  <2> SUFFICES ASSUME NEW n \in Notes, NEW e \in Emails, Clear(ids[n])
               PROVE  sent'[<<n, e>>] <= 1
    BY <1>2, <1>5 DEF AtMostOnce
  <2>1. CASE n = job.note /\ e = r[2]
    <3>1. sent[<<job.note, r[2]>>] = 0
      BY <1>0, <2>1 DEF Inv, SendsOnce
    <3> QED
      BY <1>4, <2>1, <3>1, SMT
  <2>2. CASE ~(n = job.note /\ e = r[2])
    <3>1. sent[<<n, e>>] <= 1
      BY DEF Inv, AtMostOnce
    <3> QED
      BY <1>4, <2>2, <3>1, SMT
  <2> QED
    BY <2>1, <2>2
<1> QED
  BY <1>6, <1>7, <1>8, <1>9, <1>10, <1>11, <1>12, <1>13 DEF Inv

-----------------------------------------------------------------------------
(* The gentle steps of a run. *)

(* Of the copayers with one address one is a recipient. *)
LEMMA RecipientsListOne ==
  ASSUME NotificationDeliveryAssumption, prefs \in [Copayers -> Emails \cup {None}],
         NEW n, NEW list \in RecipientsLists(n)
  PROVE  OneEach(list) /\ list \in SUBSET Recipient
<1> DEFINE with == {c \in Members(n) : prefs[c] # None}
           used == {prefs[c] : c \in with}
<1>1. PICK f \in [used -> with] :
        list = {<<f[e], e>> : e \in {x \in used : ShouldMail(n, f[x])}}
  BY DEF RecipientsLists
<1>2. with \subseteq Copayers /\ used \subseteq Emails
  BY SMT DEF Members
<1> HIDE DEF with, used
<1>3. \A r \in list : \E e \in used : r = <<f[e], e>>
  BY <1>1
<1>4. list \in SUBSET Recipient
  BY <1>1, <1>2, <1>3, SMT DEF Recipient
<1>5. OneEach(list)
  BY <1>3, SMT DEF OneEach
<1> QED
  BY <1>4, <1>5

(* What a run may become when only its place, its lock or its mails on the way
   change. *)
LEMMA Unlocked ==
  ASSUME NEW job \in Mailing
  PROVE  LET k == [job EXCEPT !.locked = FALSE]
         IN /\ k \in Mailing /\ k.note = job.note /\ k.at = job.at /\ ~k.locked
            /\ k.list = job.list /\ k.todo = job.todo
<1> DEFINE k == [job EXCEPT !.locked = FALSE]
<1>1. k \in Mailing
  BY Zenon DEF Mailing
<1> QED
  BY <1>1, SMT DEF Mailing

LEMMA ResultShape ==
  ASSUME NEW job \in Mailing, NEW r
  PROVE  \A k \in AfterResult(job, r) :
           /\ k \in Mailing /\ k.note = job.note /\ k.at = job.at /\ k.locked = job.locked
           /\ k.list = job.list /\ k.todo = job.todo
           /\ AfterResult(job, r) = {k}
<1> DEFINE k == [job EXCEPT !.out = job.out \ {r}]
<1>1. k \in Mailing
  BY Zenon DEF Mailing
<1>2. /\ k.note = job.note /\ k.at = job.at /\ k.locked = job.locked
      /\ k.list = job.list /\ k.todo = job.todo
  BY SMT DEF Mailing
<1>3. AfterResult(job, r) = {} \/ AfterResult(job, r) = {k}
  BY DEF AfterResult
<1> QED
  BY <1>1, <1>2, <1>3

LEMMA TodoLess ==
  ASSUME NEW job \in Mailing, NEW r
  PROVE  LET k == [job EXCEPT !.todo = job.todo \ {r}]
         IN /\ k \in Mailing /\ k.note = job.note /\ k.at = job.at /\ k.locked = job.locked
            /\ k.list = job.list /\ k.todo = job.todo \ {r}
<1> DEFINE k == [job EXCEPT !.todo = job.todo \ {r}]
<1>1. k \in Mailing
  BY Zenon DEF Mailing
<1> QED
  BY <1>1, SMT DEF Mailing

LEMMA RestatedKeeps ==
  ASSUME NEW job, NEW r, NEW status, queue' = Restated(job, r, status)
  PROVE  QueueKept
<1> SUFFICES ASSUME NEW mail \in queue  PROVE \E m \in queue' : m.id = mail.id
  BY DEF QueueKept
<1> DEFINE m == IF mail.note = job.note /\ mail.to = r
                THEN [mail EXCEPT !.status = status] ELSE mail
<1>1. m \in queue'
  BY DEF Restated
<1>2. m.id = mail.id
  OBVIOUS
<1> QED
  BY <1>1, <1>2

(* Each action of a run of sendEmail keeps the invariant. *)
LEMMA RunStepKeeps ==
  ASSUME Inv, NotificationDeliveryAssumption, NEW job \in mailing,
         \/ CheckShouldSend(job) \/ GetRecipientsList(job) \/ TakeLock(job) \/ GiveUp(job)
         \/ ExpireLock(job) \/ FetchEmail(job) \/ MailFails(job)
  PROVE  Inv'
<1>0. /\ job \in Mailing /\ job.note \in Notes /\ OneEach(job.list)
      /\ job.at = "send" => job.todo \subseteq job.list
  BY SMT DEF Inv, Typed, Lists, Mailing
<1> USE DEF BecomeMailing, OthersUnchanged, writers, people
<1>1. GentleStep(job, {})
  BY DEF GentleStep
<1>2. UNCHANGED queue => QueueKept
  BY DEF QueueKept
<1>3. ASSUME mailing' = (mailing \ {job}) \cup {}, UNCHANGED <<queue, overrun>>,
             UNCHANGED <<ids, stage, inbox, sent, prefs>>
      PROVE  Inv'
  BY <1>1, <1>2, <1>3, GentleKeeps, SMT
<1>4. CASE CheckShouldSend(job)
  <2> DEFINE k == [job EXCEPT !.at = "recipients"]
  <2>1. k \in Mailing
    BY <1>0, Zenon DEF Mailing
  <2>2. /\ k.note = job.note /\ k.at = "recipients" /\ k.locked = job.locked
        /\ k.list = job.list /\ k.todo = job.todo
    BY <1>0, SMT DEF Mailing
  <2>3. \/ mailing' = (mailing \ {job}) \cup {k}
        \/ mailing' = (mailing \ {job}) \cup {}
    BY <1>4 DEF CheckShouldSend
  <2>4. UNCHANGED <<queue, overrun, ids, stage, inbox, sent, prefs>>
    BY <1>4, SMT DEF CheckShouldSend
  <2> HIDE DEF k
  <2>5. GentleStep(job, {k})
    BY <1>0, <2>1, <2>2, SMT DEF GentleStep
  <2> QED
    BY <1>2, <1>3, <2>3, <2>4, <2>5, GentleKeeps, SMT
<1>5. CASE GetRecipientsList(job)
  <2>1. PICK list \in RecipientsLists(job.note) :
          mailing' = (mailing \ {job}) \cup
            (IF list = {} THEN {} ELSE {[job EXCEPT !.at = "lock", !.list = list]})
    BY <1>5 DEF GetRecipientsList
  <2> DEFINE k == [job EXCEPT !.at = "lock", !.list = list]
  <2>2. OneEach(list) /\ list \in SUBSET Recipient
    BY RecipientsListOne DEF Inv, Typed
  <2>3. k \in Mailing
    BY <1>0, <2>2, Zenon DEF Mailing
  <2>4. /\ k.note = job.note /\ k.at = "lock" /\ k.locked = job.locked
        /\ k.list = list /\ k.todo = job.todo
    BY <1>0, SMT DEF Mailing
  <2>5. \/ mailing' = (mailing \ {job}) \cup {k}
        \/ mailing' = (mailing \ {job}) \cup {}
    BY <2>1
  <2>6. /\ job.at = "recipients"
        /\ UNCHANGED <<queue, overrun, ids, stage, inbox, sent, prefs>>
    BY <1>5 DEF GetRecipientsList
  <2> HIDE DEF k
  <2>7. GentleStep(job, {k})
    BY <1>0, <2>2, <2>3, <2>4, SMT DEF GentleStep
  <2> QED
    BY <1>2, <1>3, <2>5, <2>6, <2>7, GentleKeeps, SMT
<1>6. CASE TakeLock(job)
  BY <1>6, TakeLockKeeps
<1>7. CASE GiveUp(job)
  BY <1>3, <1>7 DEF GiveUp
<1>8. CASE ExpireLock(job)
  <2> DEFINE k == [job EXCEPT !.locked = FALSE]
  <2>1. /\ k \in Mailing /\ k.note = job.note /\ k.at = job.at /\ ~k.locked
        /\ k.list = job.list /\ k.todo = job.todo
    BY <1>0, Unlocked
  <2> HIDE DEF k
  <2>2. /\ mailing' = (mailing \ {job}) \cup {k}
        /\ overrun' = overrun \cup {job.note}
        /\ UNCHANGED <<queue, ids, stage, inbox, sent, prefs>>
    BY <1>8, SMT DEF ExpireLock, k
  <2>3. GentleStep(job, {k})
    BY <1>0, <2>1, <2>2, SMT DEF GentleStep
  <2> QED
    BY <1>2, <2>2, <2>3, GentleKeeps, SMT
<1>9. CASE FetchEmail(job)
  BY <1>3, <1>9, FetchEmailKeeps DEF FetchEmail
<1>10. CASE MailFails(job)
  BY <1>3, <1>10 DEF MailFails
<1> QED
  BY <1>4, <1>5, <1>6, <1>7, <1>8, <1>9, <1>10

LEMMA StoreEmailKeeps ==
  ASSUME Inv, NotificationDeliveryAssumption, NEW job \in mailing, NEW r \in job.list,
         StoreEmail(job, r)
  PROVE  Inv'
<1>0. job \in Mailing /\ job.note \in Notes /\ OneEach(job.list) /\ job.at \in {"store", "landing"}
  BY SMT DEF Inv, Typed, Lists, Mailing, StoreEmail
<1> DEFINE s == [job EXCEPT !.todo = job.todo \ {r}]
<1>1. /\ s \in Mailing /\ s.note = job.note /\ s.at = job.at /\ s.locked = job.locked
      /\ s.list = job.list /\ s.todo = job.todo \ {r}
  BY <1>0, TodoLess
<1>2. s = Stored(job, r)
  BY DEF Stored
<1> HIDE DEF s
<1>3. /\ mailing' = (mailing \ {job}) \cup AfterStore(s)
      /\ queue' = queue \cup
           {[id |-> ids[job.note], note |-> job.note, to |-> r, status |-> "pending"]}
      /\ UNCHANGED <<overrun, ids, stage, inbox, sent, prefs>>
  BY <1>2, SMT DEF StoreEmail, BecomeMailing, OthersUnchanged, writers, people
<1>4. QueueKept
  BY <1>3 DEF QueueKept
<1>5. Queued(job.note)'
  <2> DEFINE m == [id |-> ids[job.note], note |-> job.note, to |-> r, status |-> "pending"]
  <2>1. m \in queue' /\ m.id = ids'[job.note]
    BY <1>3
  <2> HIDE DEF m
  <2> QED
    BY <2>1 DEF Queued
<1>6. CASE s.todo # {}
  <2>1. mailing' = (mailing \ {job}) \cup {s}
    BY <1>3, <1>6 DEF AfterStore
  <2>2. GentleStep(job, {s})
    BY <1>0, <1>1, SMT DEF GentleStep
  <2> QED
    BY <1>3, <1>4, <2>1, <2>2, GentleKeeps, SMT
<1>7. CASE s.todo = {} /\ job.at = "store"
  <2> DEFINE k == [s EXCEPT !.at = "send", !.todo = s.list]
  <2>1. k \in Mailing
    BY <1>1, Zenon DEF Mailing
  <2>2. /\ k.note = job.note /\ k.at = "send" /\ k.locked = job.locked
        /\ k.list = job.list /\ k.todo = job.list
    BY <1>1, SMT DEF Mailing
  <2>3. mailing' = (mailing \ {job}) \cup {k}
    BY <1>1, <1>3, <1>7 DEF AfterStore
  <2> HIDE DEF k
  <2> QED
    BY <1>3, <1>4, <1>5, <1>7, <2>1, <2>2, <2>3, BeginSendKeeps
<1>8. CASE s.todo = {} /\ job.at = "landing"
  <2>1. mailing' = (mailing \ {job}) \cup {}
    BY <1>1, <1>3, <1>8 DEF AfterStore
  <2>2. GentleStep(job, {})
    BY DEF GentleStep
  <2> QED
    BY <1>3, <1>4, <2>1, <2>2, GentleKeeps, SMT
<1> QED
  BY <1>0, <1>6, <1>7, <1>8

(* A run whose store failed gives its lock back; its other emails are stored and never
   sent. *)
LEMMA StoreFailsKeeps ==
  ASSUME Inv, NotificationDeliveryAssumption, NEW job \in mailing, NEW r \in job.list,
         StoreFails(job, r)
  PROVE  Inv'
<1>0. job \in Mailing /\ job.note \in Notes /\ OneEach(job.list)
  BY SMT DEF Inv, Typed, Lists, Mailing
<1> DEFINE s == [job EXCEPT !.todo = job.todo \ {r}]
           k == [s EXCEPT !.at = "landing", !.locked = FALSE]
<1>1. /\ s \in Mailing /\ s.note = job.note /\ s.at = job.at /\ s.locked = job.locked
      /\ s.list = job.list /\ s.todo = job.todo \ {r}
  BY <1>0, TodoLess
<1>2. s = Stored(job, r)
  BY DEF Stored
<1> HIDE DEF s
<1>3. k \in Mailing
  BY <1>1, Zenon DEF Mailing
<1>4. /\ k.note = job.note /\ k.at = "landing" /\ ~k.locked
      /\ k.list = job.list /\ k.todo = job.todo \ {r}
  BY <1>1, SMT DEF Mailing
<1>5. /\ mailing' = (mailing \ {job}) \cup AfterStore(k)
      /\ UNCHANGED <<overrun, queue, ids, stage, inbox, sent, prefs>>
  BY <1>2, SMT DEF StoreFails, BecomeMailing, OthersUnchanged, writers, people
<1> HIDE DEF k
<1>6. AfterStore(k) = {k} \/ AfterStore(k) = {}
  BY <1>4, SMT DEF AfterStore
<1>7. GentleStep(job, {k}) /\ GentleStep(job, {})
  BY <1>0, <1>3, <1>4, SMT DEF GentleStep
<1>8. QueueKept
  BY <1>5 DEF QueueKept
<1>9. GentleStep(job, AfterStore(k))
  BY <1>6, <1>7
<1> QED
  BY <1>5, <1>8, <1>9, GentleKeeps, SMT

(* A result changes no id of the collection, and no run but that of the mail. *)
LEMMA ResultKeeps ==
  ASSUME Inv, NotificationDeliveryAssumption, NEW job \in mailing, NEW r \in job.list,
         StoreResult(job, r) \/ MailerRefuses(job, r) \/ ResultFails(job, r)
  PROVE  Inv'
<1>0. /\ job \in Mailing /\ job.note \in Notes /\ OneEach(job.list)
      /\ job.at = "send" => job.todo \subseteq job.list
  BY SMT DEF Inv, Typed, Lists, Mailing
<1>1. job.at = "send" /\ UNCHANGED <<overrun, ids, stage, inbox, sent, prefs>>
  BY SMT DEF StoreResult, MailerRefuses, ResultFails, OthersUnchanged, writers, people
<1>2. CASE StoreResult(job, r)
  <2>1. mailing' = (mailing \ {job}) \cup AfterResult(job, r)
    BY <1>2 DEF StoreResult, BecomeMailing
  <2>2. QueueKept
    BY <1>2, RestatedKeeps DEF StoreResult
  <2>3. GentleStep(job, AfterResult(job, r))
    BY <1>0, <1>1, ResultShape, SMT DEF GentleStep
  <2> QED
    BY <1>1, <2>1, <2>2, <2>3, GentleKeeps, SMT
<1>3. CASE MailerRefuses(job, r)
  <2> DEFINE s == [job EXCEPT !.todo = job.todo \ {r}]
  <2>1. /\ s \in Mailing /\ s.note = job.note /\ s.at = job.at /\ s.locked = job.locked
        /\ s.list = job.list /\ s.todo = job.todo \ {r}
    BY <1>0, TodoLess
  <2>2. mailing' = (mailing \ {job}) \cup AfterResult(s, r)
    BY <1>3 DEF MailerRefuses, BecomeMailing
  <2>3. QueueKept
    BY <1>3, RestatedKeeps DEF MailerRefuses
  <2> HIDE DEF s
  <2>4. GentleStep(job, AfterResult(s, r))
    BY <1>0, <1>1, <2>1, ResultShape, SMT DEF GentleStep
  <2> QED
    BY <1>1, <2>2, <2>3, <2>4, GentleKeeps, SMT
<1>4. CASE ResultFails(job, r)
  <2> DEFINE others == {[j EXCEPT !.locked = FALSE] : j \in AfterResult(job, r)}
  <2>1. mailing' = (mailing \ {job}) \cup others
    BY <1>4 DEF ResultFails, BecomeMailing
  <2>2. QueueKept
    BY <1>4 DEF ResultFails, QueueKept
  <2>3. \A j \in AfterResult(job, r) : others = {[j EXCEPT !.locked = FALSE]}
    BY <1>0, ResultShape
  <2>4. \A k \in others : \E j \in AfterResult(job, r) : k = [j EXCEPT !.locked = FALSE]
    OBVIOUS
  <2>5. \A j \in AfterResult(job, r) :
          /\ j \in Mailing /\ j.note = job.note /\ j.at = job.at
          /\ j.list = job.list /\ j.todo = job.todo
    BY <1>0, ResultShape
  <2> HIDE DEF others
  <2>6. \A k \in others :
          /\ k \in Mailing /\ k.note = job.note /\ k.at = "send" /\ ~k.locked
          /\ k.list = job.list /\ k.todo = job.todo
    <3> SUFFICES ASSUME NEW k \in others
                 PROVE  /\ k \in Mailing /\ k.note = job.note /\ k.at = "send" /\ ~k.locked
                        /\ k.list = job.list /\ k.todo = job.todo
      OBVIOUS
    <3>1. PICK j \in AfterResult(job, r) : k = [j EXCEPT !.locked = FALSE]
      BY <2>4
    <3>2. j \in Mailing
      BY <2>5
    <3>3. /\ k \in Mailing /\ k.note = j.note /\ k.at = j.at /\ ~k.locked
          /\ k.list = j.list /\ k.todo = j.todo
      BY <3>1, <3>2, Unlocked
    <3> QED
      BY <1>1, <2>5, <3>3
  <2>7. \A k, l \in others : k = l
    BY <2>3, <2>4
  <2>8. GentleStep(job, others)
    BY <1>0, <1>1, <2>6, <2>7, SMT DEF GentleStep
  <2> QED
    BY <1>1, <2>1, <2>2, <2>8, GentleKeeps, SMT
<1> QED
  BY <1>2, <1>3, <1>4

-----------------------------------------------------------------------------
(* The other parts *)

(* The clock is a number; ids are made of it. *)
ClockIsNat == clock \in Nat

LEMMA NotifyKeeps ==
  ASSUME Inv, ClockIsNat, NotificationDeliveryAssumption, Notify
  PROVE  Inv'
<1> USE DEF writers, client, mails, push, people
<1>1. stage \in [Notes -> {"new", "store", "send", "done"}]
  BY DEF Inv, Typed
<1>2. CASE Tick
  BY <1>1, <1>2, OthersKeep, SMT DEF Tick
<1>3. ASSUME NEW n \in Notes, Create(n)  PROVE Inv'
  BY <1>3, CreateKeeps DEF ClockIsNat
<1>4. ASSUME NEW n \in Notes, StoreNotification(n)  PROVE Inv'
  <2>1. /\ stage[n] = "store" /\ stage' = [stage EXCEPT ![n] = "send"]
        /\ UNCHANGED <<mails, ids, prefs, inbox>>
    BY <1>4, SMT DEF StoreNotification
  <2> QED
    BY <1>1, <2>1, OthersKeep, SMT
<1>5. ASSUME NEW n \in Notes, SendMessage(n)  PROVE Inv'
  <2>1. /\ stage[n] = "send" /\ stage' = [stage EXCEPT ![n] = "done"]
        /\ UNCHANGED <<mails, ids, prefs>>
        /\ \A message \in inbox' : message \in inbox \/ message[2] = n
    BY <1>5, SMT DEF SendMessage
  <2>2. /\ stage' \in [Notes -> {"new", "store", "send", "done"}]
        /\ \A m \in Notes : (stage'[m] = "new") <=> (stage[m] = "new")
    BY <1>1, <2>1, SMT
  <2>3. Typed'
    BY <2>1, <2>2, SMT DEF Inv, Typed
  <2>4. Begun'
    <3>1. \A message \in inbox' : stage'[message[2]] # "new"
      BY <2>1, <2>2, SMT DEF Inv, Begun, Typed
    <3>2. \A job \in mailing : job.note \in Notes
      BY SMT DEF Inv, Typed, Mailing
    <3>3. \A o \in overrun : o \in Notes
      BY DEF Inv, Typed
    <3> QED
      BY <2>1, <2>2, <3>1, <3>2, <3>3 DEF Inv, Begun
  <2>5. (Lists /\ LockExcludes /\ HoldsLock)'
    BY <2>1, SMT DEF Inv, Lists, LockExcludes, HoldsLock, Clear
  <2>6. (SendQueued /\ SentQueued /\ StoringFirst /\ OneSends /\ SendsOnce /\ AtMostOnce)'
    BY <2>1 DEF Inv, SendQueued, SentQueued, Queued, StoringFirst, OneSends, SendsOnce,
                AtMostOnce, Clear
  <2> QED
    BY <2>3, <2>4, <2>5, <2>6 DEF Inv
<1>6. ASSUME NEW n \in Notes, WriterDies(n)  PROVE Inv'
  <2>1. /\ stage[n] \in {"store", "send"} /\ stage' = [stage EXCEPT ![n] = "done"]
        /\ UNCHANGED <<mails, ids, prefs, inbox>>
    BY <1>6, SMT DEF WriterDies
  <2> QED
    BY <1>1, <2>1, OthersKeep, SMT
<1>7. ASSUME NEW message \in inbox, LoseMessage(message)  PROVE Inv'
  <2>1. inbox' \subseteq inbox /\ UNCHANGED <<mails, ids, prefs, stage>>
    BY <1>7, SMT DEF LoseMessage
  <2> QED
    BY <1>1, <2>1, OthersKeep, SMT
<1> QED
  BY <1>2, <1>3, <1>4, <1>5, <1>6, <1>7 DEF Notify

LEMMA SendEmailKeeps ==
  ASSUME Inv, NotificationDeliveryAssumption, SendEmail
  PROVE  Inv'
<1>1. ASSUME NEW message \in inbox, message[1] \in Mailers,
             ReceiveMail(message[1], message[2])
      PROVE  Inv'
  BY <1>1, ReceiveMailKeeps
<1>2. ASSUME NEW job \in mailing,
             \/ CheckShouldSend(job) \/ GetRecipientsList(job) \/ TakeLock(job)
             \/ GiveUp(job) \/ ExpireLock(job) \/ FetchEmail(job) \/ MailFails(job)
      PROVE  Inv'
  BY <1>2, RunStepKeeps
<1>3. ASSUME NEW job \in mailing, NEW r \in job.list,
             \/ StoreEmail(job, r) \/ StoreFails(job, r) \/ Send(job, r)
             \/ StoreResult(job, r) \/ MailerRefuses(job, r) \/ ResultFails(job, r)
      PROVE  Inv'
  BY <1>3, StoreEmailKeeps, StoreFailsKeeps, SendKeeps, ResultKeeps
<1>4. ASSUME NEW who \in Mailers, MailerDies(who)  PROVE Inv'
  BY <1>4, MailerDiesKeeps
<1> QED
  BY <1>1, <1>2, <1>3, <1>4 DEF SendEmail

(* Pushing and polling share nothing with it but the messages of the broker. *)
LEMMA PushAndPollKeep ==
  ASSUME Inv, SendPush \/ Poll
  PROVE  Inv'
<1>1. stage \in [Notes -> {"new", "store", "send", "done"}]
  BY DEF Inv, Typed
<1>2. inbox' \subseteq inbox /\ UNCHANGED <<mails, ids, prefs, stage>>
  <2> USE DEF writers, mails, people
  <2>1. ASSUME NEW n \in Notes, ReceivePush(n)
        PROVE  inbox' \subseteq inbox /\ UNCHANGED <<mails, ids, prefs, stage>>
    BY <2>1, SMT DEF ReceivePush
  <2>2. ASSUME NEW job \in pushing,
               \/ CheckShouldPush(job) \/ GetPushRecipients(job) \/ MakeRequests(job)
               \/ PushFails(job)
               \/ \E c \in job.todo : FetchPushSubs(job, c)
        PROVE  UNCHANGED <<mails, inbox, ids, prefs, stage>>
    BY <2>2 DEF CheckShouldPush, GetPushRecipients, MakeRequests, PushFails, FetchPushSubs,
                OthersUnmoved
  <2>3. CASE PusherDies
    BY <2>3, SMT DEF PusherDies, OthersUnmoved
  <2>4. CASE StartPoll
    BY <2>4, SMT DEF StartPoll
  <2>5. ASSUME NEW w \in poll.left, ReadPart(w)
        PROVE  UNCHANGED <<mails, inbox, ids, prefs, stage>>
    BY <2>5 DEF ReadPart
  <2> QED
    BY <2>1, <2>2, <2>3, <2>4, <2>5 DEF SendPush, Poll
<1> QED
  BY <1>1, <1>2, OthersKeep, SMT DEF mails

(* Who is mailed is asked anew by each run. *)
LEMMA ChangeSettingsKeeps ==
  ASSUME Inv, ChangeSettings
  PROVE  Inv'
<1>1. UNCHANGED <<mails, ids, stage, inbox>>
  BY SMT DEF ChangeSettings, SavePreferences, PushNotificationsSubscribe,
     PushNotificationsUnsubscribe, writers, mails
<1>2. prefs' \in [Copayers -> Emails \cup {None}]
  <2>1. prefs \in [Copayers -> Emails \cup {None}]
    BY DEF Inv, Typed
  <2>2. ASSUME NEW c, NEW email \in Emails \cup {None}, SavePreferences(c, email)
        PROVE  prefs' \in [Copayers -> Emails \cup {None}]
    BY <2>1, <2>2 DEF SavePreferences
  <2>3. ASSUME NEW c, NEW token,
               PushNotificationsSubscribe(c, token) \/ PushNotificationsUnsubscribe(c, token)
        PROVE  prefs' \in [Copayers -> Emails \cup {None}]
    BY <2>1, <2>3 DEF PushNotificationsSubscribe, PushNotificationsUnsubscribe
  <2> QED
    BY <2>2, <2>3, Zenon DEF ChangeSettings
<1>3. Typed'
  BY <1>1, <1>2, SMT DEF Inv, Typed, mails
<1>4. (Begun /\ Lists /\ LockExcludes /\ HoldsLock)'
  BY <1>1, SMT DEF Inv, Begun, Lists, LockExcludes, HoldsLock, Clear, mails
<1>5. (SendQueued /\ SentQueued /\ StoringFirst /\ OneSends /\ SendsOnce /\ AtMostOnce)'
  BY <1>1 DEF Inv, SendQueued, SentQueued, Queued, StoringFirst, OneSends, SendsOnce,
              AtMostOnce, Clear, mails
<1> QED
  BY <1>3, <1>4, <1>5 DEF Inv

(* Time moves on in ticks. *)
LEMMA ClockTicks ==
  ASSUME Next
  PROVE  clock' = clock \/ clock' = clock + 1
<1> USE DEF writers
<1>1. CASE Notify
  BY <1>1 DEF Notify, Tick, Create, StoreNotification, SendMessage, WriterDies, LoseMessage
<1>2. CASE SendEmail
  <2>1. ASSUME NEW message, ReceiveMail(message[1], message[2])  PROVE UNCHANGED clock
    BY <2>1, SMT DEF ReceiveMail
  <2>2. ASSUME NEW job, 
               \/ CheckShouldSend(job) \/ GetRecipientsList(job) \/ TakeLock(job) \/ GiveUp(job)
               \/ ExpireLock(job) \/ FetchEmail(job) \/ MailFails(job)
        PROVE  UNCHANGED clock
    BY <2>2 DEF CheckShouldSend, GetRecipientsList, TakeLock, GiveUp, ExpireLock, FetchEmail,
                MailFails, OthersUnchanged
  <2>3. ASSUME NEW job, NEW r,
               \/ StoreEmail(job, r) \/ StoreFails(job, r) \/ Send(job, r)
               \/ StoreResult(job, r) \/ MailerRefuses(job, r) \/ ResultFails(job, r)
        PROVE  UNCHANGED clock
    BY <2>3 DEF StoreEmail, StoreFails, Send, StoreResult, MailerRefuses, ResultFails,
                OthersUnchanged
  <2>4. ASSUME NEW who, MailerDies(who)  PROVE UNCHANGED clock
    BY <2>4 DEF MailerDies, OthersUnchanged
  <2> QED
    BY <1>2, <2>1, <2>2, <2>3, <2>4 DEF SendEmail
<1>3. CASE SendPush
  <2>1. ASSUME NEW n, ReceivePush(n)  PROVE UNCHANGED clock
    BY <2>1, SMT DEF ReceivePush
  <2>2. ASSUME NEW job,
               \/ CheckShouldPush(job) \/ GetPushRecipients(job) \/ MakeRequests(job)
               \/ PushFails(job) \/ PusherDies
               \/ \E c \in job.todo : FetchPushSubs(job, c)
        PROVE  UNCHANGED clock
    BY <2>2 DEF CheckShouldPush, GetPushRecipients, MakeRequests, PushFails, FetchPushSubs,
                PusherDies, OthersUnmoved
  <2> QED
    BY <1>3, <2>1, <2>2 DEF SendPush
<1>4. CASE Poll
  BY <1>4 DEF Poll, StartPoll, ReadPart
<1>5. CASE ChangeSettings
  BY <1>5 DEF ChangeSettings, SavePreferences, PushNotificationsSubscribe,
              PushNotificationsUnsubscribe
<1> QED
  BY <1>1, <1>2, <1>3, <1>4, <1>5 DEF Next

(* The lock of each notification's id and the collection of emails keep the runs of
   all email services in order, in every state of every behaviour. *)
THEOREM Invariance == Spec => [](Inv /\ ClockIsNat)
<1> USE NotificationDeliveryAssumption
<1>1. Init => Inv /\ ClockIsNat
  BY InitInv, SMT DEF Init, ClockIsNat
<1>2. Inv /\ ClockIsNat /\ [Next]_vars => Inv' /\ ClockIsNat'
  <2> SUFFICES ASSUME Inv, ClockIsNat, [Next]_vars  PROVE Inv' /\ ClockIsNat'
    OBVIOUS
  <2>1. CASE UNCHANGED vars
    <3>1. stage \in [Notes -> {"new", "store", "send", "done"}]
      BY DEF Inv, Typed
    <3> QED
      BY <2>1, <3>1, OthersKeep, SMT DEF vars, writers, mails, people, ClockIsNat
  <2>2. CASE Next
    <3>1. Inv'
      BY <2>2, NotifyKeeps, SendEmailKeeps, PushAndPollKeep, ChangeSettingsKeeps DEF Next
    <3>2. clock' = clock \/ clock' = clock + 1
      BY <2>2, ClockTicks
    <3> QED
      BY <3>1, <3>2, SMT DEF ClockIsNat
  <2> QED
    BY <2>1, <2>2
<1> QED
  BY <1>1, <1>2, PTL DEF Spec

(* No address gets a mail for a notification twice, however many email services run,
   fail and start again, unless a run took so long that it lost its lock. *)
THEOREM NobodyMailedTwice == Spec => []MailedOnce
<1>1. Inv => MailedOnce
  <2> SUFFICES ASSUME Inv, NEW n \in Notes, NEW e \in Emails, sent[<<n, e>>] > 1
               PROVE  \E o \in overrun : ids[o] = ids[n]
    BY DEF MailedOnce
  <2>1. sent[<<n, e>>] \in Nat
    BY DEF Inv, Typed
  <2>2. ~Clear(ids[n])
    BY <2>1, SMT DEF Inv, AtMostOnce
  <2> QED
    BY <2>2 DEF Clear
<1> QED
  BY <1>1, Invariance, PTL

-----------------------------------------------------------------------------
(* The client.  Its rows are created; while it polls, it has read or will find late
   whatever the parts it has asked for hold beyond the last id it knows. *)
ClientTyped ==
  /\ rows \subseteq Notes /\ \A n \in rows : stage[n] # "new"
  /\ last \in Nat
  /\ poll \in [left : SUBSET {Polled, Network}, got : SUBSET Notes]

IdsBound == \A n \in Notes : ids[n] <= 10 * clock + 9

PollRead ==
  poll.left # {} =>
    \A n \in rows : WalletOf[n] \in {Polled, Network} \ poll.left /\ ids[n] > last =>
      n \in poll.got \cup late

ClientInv == ClientTyped /\ IdsBound /\ PollRead /\ NothingMissed

(* A set of numbers that has a bound has a greatest. *)
LEMMA Greatest ==
  ASSUME NEW S \in SUBSET Nat, S # {}, NEW b \in Nat, \A i \in S : i <= b
  PROVE  \E i \in S : \A j \in S : j <= i
<1> DEFINE less == {pair \in Nat \X Nat : pair[1] < pair[2]}
           bounds == {c \in Nat : \A i \in S : i <= c}
<1>1. IsWellFoundedOn(less, Nat)
  BY NatLessThanWellFounded DEF OpToRel
<1>2. bounds \subseteq Nat /\ bounds # {}
  OBVIOUS
<1>3. PICK c \in bounds : \A d \in bounds : ~(<<d, c>> \in less)
  <2> HIDE DEF less, bounds
  <2> QED
    BY <1>1, <1>2, WFMin
<1>4. c \in Nat /\ (\A i \in S : i <= c) /\ \A d \in bounds : ~(d < c)
  BY <1>2, <1>3
<1>5. c \in S
  <2> SUFFICES ASSUME c \notin S PROVE FALSE
    OBVIOUS
  <2>1. \A i \in S : i \in Nat /\ i < c
    BY <1>4
  <2>2. c - 1 \in Nat /\ \A i \in S : i <= c - 1
    <3>1. PICK i \in S : TRUE
      OBVIOUS
    <3>2. c # 0
      BY <2>1, <3>1
    <3> QED
      BY <1>4, <2>1, <3>2
  <2>3. c - 1 \in bounds
    BY <2>2
  <2> QED
    BY <1>4, <2>2, <2>3
<1> QED
  BY <1>4, <1>5

LEMMA LatestIdTyped ==
  ASSUME Inv, ClockIsNat, ClientInv, NEW notes \in SUBSET Notes
  PROVE  LatestId(notes) \in Nat
<1>1. CASE notes = {}
  BY <1>1 DEF LatestId, ClientInv, ClientTyped
<1>2. CASE notes # {}
  <2> DEFINE S == {ids[n] : n \in notes}
  <2>1. S \in SUBSET Nat /\ S # {} /\ 10 * clock + 9 \in Nat
    BY <1>2 DEF Inv, Typed, ClockIsNat
  <2>2. \A i \in S : i <= 10 * clock + 9
    BY DEF ClientInv, IdsBound
  <2>3. \E i \in S : \A j \in S : j <= i
    <3> HIDE DEF S
    <3> QED
      BY <2>1, <2>2, Greatest
  <2>4. LatestId(notes) = CHOOSE i \in S : \A n \in notes : ids[n] <= i
    BY <1>2 DEF LatestId
  <2>5. \E i \in S : \A n \in notes : ids[n] <= i
    BY <2>3
  <2>6. LatestId(notes) \in S
    <3> HIDE DEF S
    <3> QED
      BY <2>4, <2>5
  <2> QED
    BY <2>1, <2>6
<1> QED
  BY <1>1, <1>2

(* The other steps leave the client and the rows alone. *)
LEMMA ClientAlone ==
  ASSUME Inv, [Next]_vars
  PROVE  \/ /\ UNCHANGED <<rows, ids, last, poll, seen, late>>
            /\ \A n \in Notes : stage[n] # "new" => stage'[n] # "new"
         \/ \E n \in Notes : Create(n) \/ StoreNotification(n)
         \/ StartPoll \/ \E w \in poll.left : ReadPart(w)
<1> USE DEF writers, client, mails, push, people
<1>1. stage \in [Notes -> {"new", "store", "send", "done"}]
  BY DEF Inv, Typed
<1>2. ASSUME NEW n \in Notes, SendMessage(n) \/ WriterDies(n)
      PROVE  /\ UNCHANGED <<rows, ids, last, poll, seen, late>>
             /\ \A m \in Notes : stage[m] # "new" => stage'[m] # "new"
  BY <1>1, <1>2, SMT DEF SendMessage, WriterDies
<1>3. CASE Tick \/ \E message \in inbox : LoseMessage(message)
  BY <1>3, SMT DEF Tick, LoseMessage
<1>4. CASE Notify
  BY <1>2, <1>3, <1>4 DEF Notify
<1>5. CASE SendEmail
  <2>1. ASSUME NEW message, ReceiveMail(message[1], message[2])  PROVE UNCHANGED <<writers, client>>
    BY <2>1, SMT DEF ReceiveMail
  <2>2. ASSUME NEW job,
               \/ CheckShouldSend(job) \/ GetRecipientsList(job) \/ TakeLock(job) \/ GiveUp(job)
               \/ ExpireLock(job) \/ FetchEmail(job) \/ MailFails(job)
        PROVE  UNCHANGED <<writers, client>>
    BY <2>2 DEF CheckShouldSend, GetRecipientsList, TakeLock, GiveUp, ExpireLock, FetchEmail,
                MailFails, OthersUnchanged
  <2>3. ASSUME NEW job, NEW r,
               \/ StoreEmail(job, r) \/ StoreFails(job, r) \/ Send(job, r)
               \/ StoreResult(job, r) \/ MailerRefuses(job, r) \/ ResultFails(job, r)
        PROVE  UNCHANGED <<writers, client>>
    BY <2>3 DEF StoreEmail, StoreFails, Send, StoreResult, MailerRefuses, ResultFails,
                OthersUnchanged
  <2>4. ASSUME NEW who, MailerDies(who)  PROVE UNCHANGED <<writers, client>>
    BY <2>4 DEF MailerDies, OthersUnchanged
  <2>5. UNCHANGED <<writers, client>>
    BY <1>5, <2>1, <2>2, <2>3, <2>4 DEF SendEmail
  <2> QED
    BY <2>5
<1>6. CASE SendPush
  <2>1. ASSUME NEW n, ReceivePush(n)  PROVE UNCHANGED <<writers, client>>
    BY <2>1, SMT DEF ReceivePush
  <2>2. ASSUME NEW job,
               \/ CheckShouldPush(job) \/ GetPushRecipients(job) \/ MakeRequests(job)
               \/ PushFails(job) \/ PusherDies
               \/ \E c \in job.todo : FetchPushSubs(job, c)
        PROVE  UNCHANGED <<writers, client>>
    BY <2>2 DEF CheckShouldPush, GetPushRecipients, MakeRequests, PushFails, FetchPushSubs,
                PusherDies, OthersUnmoved
  <2>3. UNCHANGED <<writers, client>>
    BY <1>6, <2>1, <2>2 DEF SendPush
  <2> QED
    BY <2>3
<1>7. CASE ChangeSettings
  <2>1. UNCHANGED <<writers, client>>
    BY <1>7 DEF ChangeSettings, SavePreferences, PushNotificationsSubscribe,
                PushNotificationsUnsubscribe
  <2> QED
    BY <2>1
<1>8. CASE UNCHANGED vars
  BY <1>8 DEF vars
<1> QED
  BY <1>4, <1>5, <1>6, <1>7, <1>8 DEF Next, Poll

LEMMA ClientKeeps ==
  ASSUME Inv, ClockIsNat, NotificationDeliveryAssumption, ClientInv, [Next]_vars
  PROVE  ClientInv'
<1> USE DEF ClientInv
<1>1. /\ stage \in [Notes -> {"new", "store", "send", "done"}] /\ ids \in [Notes -> Nat]
      /\ clock \in Nat /\ last \in Nat /\ rows \subseteq Notes
      /\ Ticker \in [Notes -> 0..9]
  BY DEF Inv, Typed, ClockIsNat, ClientTyped, NotificationDeliveryAssumption
<1>2. clock' \in Nat /\ clock <= clock'
  <2>1. clock' = clock \/ clock' = clock + 1
    BY ClockTicks DEF vars, writers
  <2> QED
    BY <1>1, <2>1
<1>3. ASSUME UNCHANGED <<rows, ids, last, poll, seen, late>>,
             \A n \in Notes : stage[n] # "new" => stage'[n] # "new"
      PROVE  ClientInv'
  <2>1. \A n \in Notes : ids[n] <= 10 * clock' + 9
    <3> SUFFICES ASSUME NEW n \in Notes PROVE ids[n] <= 10 * clock' + 9
      OBVIOUS
    <3>1. ids[n] \in Nat /\ ids[n] <= 10 * clock + 9
      BY <1>1 DEF IdsBound
    <3> QED
      BY <1>1, <1>2, <3>1
  <2> QED
    BY <1>1, <1>3, <2>1 DEF ClientTyped, IdsBound, PollRead, NothingMissed
<1>4. ASSUME NEW n \in Notes, Create(n)  PROVE ClientInv'
  <2>1. /\ stage[n] = "new" /\ stage' = [stage EXCEPT ![n] = "store"]
        /\ ids' = [ids EXCEPT ![n] = 10 * clock + Ticker[n]]
        /\ UNCHANGED <<rows, clock, last, poll, seen, late>>
    BY <1>4 DEF Create, NotificationId, client
  <2>2. n \notin rows /\ \A m \in rows : m # n /\ ids'[m] = ids[m] /\ stage'[m] # "new"
    BY <1>1, <2>1 DEF ClientTyped
  <2>3. IdsBound'
    <3> SUFFICES ASSUME NEW m \in Notes PROVE ids'[m] <= 10 * clock + 9
      BY <2>1 DEF IdsBound
    <3>1. CASE m = n
      <4>1. ids'[m] = 10 * clock + Ticker[n] /\ Ticker[n] \in 0..9
        BY <1>1, <2>1, <3>1
      <4> QED
        BY <1>1, <4>1
    <3>2. CASE m # n
      BY <1>1, <2>1, <3>2 DEF IdsBound
    <3> QED
      BY <3>1, <3>2
  <2> QED
    BY <2>1, <2>2, <2>3 DEF ClientTyped, PollRead, NothingMissed
<1>5. ASSUME NEW n \in Notes, StoreNotification(n)  PROVE ClientInv'
  <2>1. /\ stage' = [stage EXCEPT ![n] = "send"]
        /\ \/ rows' = rows \cup {n} /\ late' = IF Overtaken(n) THEN late \cup {n} ELSE late
           \/ UNCHANGED <<rows, late>>
        /\ UNCHANGED <<ids, clock, last, poll, seen>>
    BY <1>5 DEF StoreNotification
  <2>2. \A m \in Notes : (m = n \/ stage[m] # "new") => stage'[m] # "new"
    BY <1>1, <2>1
  <2>3. CASE UNCHANGED <<rows, late>>
    BY <1>3, <2>1, <2>2, <2>3
  <2>4. CASE rows' = rows \cup {n} /\ late' = IF Overtaken(n) THEN late \cup {n} ELSE late
    <3>1. late \subseteq late' /\ (Overtaken(n) => n \in late')
      BY <2>4
    <3>2. ClientTyped' /\ IdsBound'
      BY <1>1, <2>1, <2>2, <2>4 DEF ClientTyped, IdsBound
    <3>3. PollRead' /\ NothingMissed'
      BY <2>1, <2>4, <3>1 DEF PollRead, NothingMissed, Overtaken
    <3> QED
      BY <3>2, <3>3
  <2> QED
    BY <2>1, <2>3, <2>4
<1>6. CASE StartPoll
  <2>1. /\ poll' = [left |-> {Polled, Network}, got |-> {}]
        /\ UNCHANGED <<rows, ids, clock, last, seen, late, stage>>
    BY <1>6 DEF StartPoll, writers
  <2> QED
    BY <2>1 DEF ClientTyped, IdsBound, PollRead, NothingMissed
<1>7. ASSUME NEW w \in poll.left, ReadPart(w)  PROVE ClientInv'
  <2> DEFINE got == poll.got \cup FetchNotifications(w)
  <2>1. /\ UNCHANGED <<rows, ids, clock, late, stage>>
        /\ IF poll.left = {w}
           THEN poll' = [left |-> {}, got |-> {}] /\ seen' = seen \cup got /\ last' = LatestId(got)
           ELSE poll' = [left |-> poll.left \ {w}, got |-> got] /\ UNCHANGED <<seen, last>>
    BY <1>7 DEF ReadPart, writers
  <2>2. got \in SUBSET Notes /\ poll.left \subseteq {Polled, Network}
    BY DEF ClientTyped, FetchNotifications
  <2>3. \A n \in rows : WalletOf[n] \in {Polled, Network} \ (poll.left \ {w}) /\ ids[n] > last =>
          n \in got \cup late
    BY <1>7 DEF PollRead, FetchNotifications
  <2> HIDE DEF got
  <2>4. CASE poll.left = {w}
    <3>1. LatestId(got) \in Nat
      BY <2>2, LatestIdTyped
    <3>2. ClientTyped' /\ IdsBound' /\ PollRead'
      BY <2>1, <2>4, <3>1 DEF ClientTyped, IdsBound, PollRead
    <3>3. \A n \in rows : ids[n] \in Nat /\ (ids[n] <= last \/ ids[n] > last)
      BY <1>1
    <3>4. NothingMissed'
      BY <2>1, <2>3, <2>4, <3>3 DEF NothingMissed
    <3> QED
      BY <3>2, <3>4
  <2>5. CASE poll.left # {w}
    <3>1. ClientTyped' /\ IdsBound' /\ NothingMissed'
      BY <2>1, <2>2, <2>5 DEF ClientTyped, IdsBound, NothingMissed
    <3>2. PollRead'
      BY <2>1, <2>3, <2>5 DEF PollRead
    <3> QED
      BY <3>1, <3>2
  <2> QED
    BY <2>4, <2>5
<1> QED
  BY <1>3, <1>4, <1>5, <1>6, <1>7, ClientAlone

(* A client that always asks for what is after the last notification it knows, of
   its wallet and of the network, misses none but those that were stored after a
   later one was read or while a poll went on. *)
THEOREM NoneMissed == Spec => []NothingMissed
<1> USE NotificationDeliveryAssumption
<1>1. Init => ClientInv
  BY SMT DEF Init, ClientInv, ClientTyped, IdsBound, PollRead, NothingMissed
<1>2. ClientInv /\ Inv /\ ClockIsNat /\ [Next]_vars => ClientInv'
  BY ClientKeeps
<1> QED
  BY <1>1, <1>2, Invariance, PTL DEF Spec, ClientInv

-----------------------------------------------------------------------------
(* The push service.  Who is pushed to is right in every run and every request; what
   is due to a copayer whose subscriptions stay is on its way until it is out. *)
PushTyped ==
  /\ pushing \subseteq Pushing
  /\ tokens \in [Copayers -> SUBSET Tokens]

(* A device that a run or a request may name. *)
Addressed(n, c, token) == ShouldPush(n, c) /\ (c \notin changed => token \in tokens[c])

PushSound ==
  /\ \A n \in Notes, c \in Copayers, token \in Tokens :
       <<n, c, token>> \in pushed => Addressed(n, c, token)
  /\ \A job \in pushing :
       /\ \A c \in job.todo : ShouldPush(job.note, c)
       /\ \A c \in Copayers, token \in Tokens :
            <<c, token>> \in job.messages => Addressed(job.note, c, token)

(* A copayer who hears of a notification on the devices he has had all along. *)
Hears(n, c) == c \in Members(n) \ changed /\ ShouldPush(n, c)

RunComplete ==
  \A job \in pushing : job.at = "subs" =>
    \A c \in Copayers : Hears(job.note, c) =>
      c \in job.todo \/ \A token \in tokens[c] : <<c, token>> \in job.messages

(* A notification of which the push service has to tell. *)
ToPush(n) ==
  /\ stage[n] = "done" /\ n \notin hit
  /\ Pusher \in scene.up /\ TypeOf[n] \in Kinds /\ Worthwhile(n)

PushOnItsWay ==
  \A n \in Notes : ToPush(n) =>
    \/ <<Pusher, n>> \in inbox
    \/ \E job \in pushing : job.note = n
    \/ \A c \in Copayers : Hears(n, c) => \A token \in tokens[c] : <<n, c, token>> \in pushed

PushInv == PushTyped /\ PushSound /\ RunComplete /\ PushOnItsWay

(* A step of anybody: scenes stay, and so do the settings of whom has not changed
   them. *)
Growing ==
  /\ scene' = scene /\ hit \subseteq hit' /\ changed \subseteq changed'
  /\ \A c \in Copayers \ changed' : prefs'[c] = prefs[c] /\ tokens'[c] = tokens[c]

LEMMA StepsGrow ==
  ASSUME Inv, PushTyped, [Next]_vars
  PROVE  Growing
<1> USE DEF writers, client, mails, push, people
<1> DEFINE Same == UNCHANGED <<scene, changed, prefs, tokens>> /\ hit \subseteq hit'
<1>0. Same => Growing
  BY DEF Growing
<1>1. ASSUME NEW n, Create(n) \/ StoreNotification(n) \/ SendMessage(n) \/ WriterDies(n)
      PROVE  Same
  BY <1>1 DEF Create, StoreNotification, SendMessage, WriterDies, Fault, NoFault
<1>2. ASSUME NEW message, LoseMessage(message) \/ Tick  PROVE Same
  BY <1>2 DEF LoseMessage, Tick, Fault
<1>3. CASE Notify
  BY <1>0, <1>1, <1>2, <1>3 DEF Notify
<1>4. CASE SendEmail
  <2>1. ASSUME NEW message, ReceiveMail(message[1], message[2])  PROVE Same
    BY <2>1, SMT DEF ReceiveMail, NoFault
  <2>2. ASSUME NEW job,
               \/ CheckShouldSend(job) \/ GetRecipientsList(job) \/ TakeLock(job) \/ GiveUp(job)
               \/ ExpireLock(job) \/ FetchEmail(job) \/ MailFails(job)
        PROVE  Same
    BY <2>2 DEF CheckShouldSend, GetRecipientsList, TakeLock, GiveUp, ExpireLock, FetchEmail,
                MailFails, OthersUnchanged, Fault, NoFault
  <2>3. ASSUME NEW job, NEW r,
               \/ StoreEmail(job, r) \/ StoreFails(job, r) \/ Send(job, r)
               \/ StoreResult(job, r) \/ MailerRefuses(job, r) \/ ResultFails(job, r)
        PROVE  Same
    BY <2>3 DEF StoreEmail, StoreFails, Send, StoreResult, MailerRefuses, ResultFails,
                OthersUnchanged, Fault, NoFault
  <2>4. ASSUME NEW who, MailerDies(who)  PROVE Same
    BY <2>4 DEF MailerDies, OthersUnchanged
  <2> QED
    BY <1>0, <1>4, <2>1, <2>2, <2>3, <2>4 DEF SendEmail
<1>5. CASE SendPush
  <2>1. ASSUME NEW n, ReceivePush(n)  PROVE Same
    BY <2>1, SMT DEF ReceivePush, NoFault
  <2>2. ASSUME NEW job,
               \/ CheckShouldPush(job) \/ GetPushRecipients(job) \/ MakeRequests(job)
               \/ PushFails(job) \/ PusherDies
               \/ \E c \in job.todo : FetchPushSubs(job, c)
        PROVE  Same
    BY <2>2 DEF CheckShouldPush, GetPushRecipients, MakeRequests, PushFails, FetchPushSubs,
                PusherDies, OthersUnmoved, Fault, NoFault
  <2> QED
    BY <1>0, <1>5, <2>1, <2>2 DEF SendPush
<1>6. CASE Poll
  <2>1. Same
    BY <1>6 DEF Poll, StartPoll, ReadPart, NoFault
  <2> QED
    BY <1>0, <2>1
<1>7. CASE ChangeSettings
  <2>1. /\ scene' = scene /\ hit' = hit
        /\ \E c : /\ changed' = changed \cup {c}
                  /\ \/ \E email : prefs' = [prefs EXCEPT ![c] = email] /\ tokens' = tokens
                     \/ \E set : tokens' = [tokens EXCEPT ![c] = set] /\ prefs' = prefs
    BY <1>7 DEF ChangeSettings, SavePreferences, PushNotificationsSubscribe,
                PushNotificationsUnsubscribe, Change, NoFault
  <2>2. PICK c : /\ changed' = changed \cup {c}
                 /\ \/ \E email : prefs' = [prefs EXCEPT ![c] = email] /\ tokens' = tokens
                    \/ \E set : tokens' = [tokens EXCEPT ![c] = set] /\ prefs' = prefs
    BY <2>1
  <2>3. \A d \in Copayers : d # c => prefs'[d] = prefs[d] /\ tokens'[d] = tokens[d]
    BY <2>2 DEF Inv, Typed, PushTyped
  <2> QED
    BY <2>1, <2>2, <2>3 DEF Growing
<1>8. CASE UNCHANGED vars
  BY <1>0, <1>8 DEF vars
<1> QED
  BY <1>0, <1>3, <1>4, <1>5, <1>6, <1>7, <1>8 DEF Next

(* A notification that gets out without a fault reaches the listeners, and messages
   stay on their way. *)
MessagesKept(who) ==
  \A n \in Notes : n \notin hit' =>
    /\ <<who, n>> \in inbox => <<who, n>> \in inbox'
    /\ stage[n] # "done" /\ stage'[n] = "done" /\ who \in scene.up => <<who, n>> \in inbox'

LEMMA BrokerSends ==
  ASSUME Inv, NotificationDeliveryAssumption, NEW who \in Mailers \cup {Pusher}, Notify
  PROVE  MessagesKept(who)
<1> USE DEF MessagesKept
<1>1. /\ stage \in [Notes -> {"new", "store", "send", "done"}]
      /\ who # Client
  BY DEF Inv, Typed, NotificationDeliveryAssumption
<1>2. CASE Tick
  BY <1>2 DEF Tick
<1>3. ASSUME NEW n \in Notes, Create(n) \/ StoreNotification(n)  PROVE MessagesKept(who)
  BY <1>1, <1>3 DEF Create, StoreNotification
<1>4. ASSUME NEW n \in Notes, SendMessage(n)  PROVE MessagesKept(who)
  BY <1>1, <1>4 DEF SendMessage
<1>5. ASSUME NEW n \in Notes, WriterDies(n)  PROVE MessagesKept(who)
  BY <1>1, <1>5 DEF WriterDies, Fault
<1>6. ASSUME NEW message \in inbox, LoseMessage(message)  PROVE MessagesKept(who)
  BY <1>6 DEF LoseMessage, Fault, writers
<1> QED
  BY <1>2, <1>3, <1>4, <1>5, <1>6 DEF Notify

(* The other parts leave the push service alone. *)
LEMMA PushAlone ==
  ASSUME Inv, NotificationDeliveryAssumption, PushTyped, [Next]_vars, ~SendPush
  PROVE  /\ UNCHANGED <<pushing, pushed>>
         /\ PushTyped'
         /\ MessagesKept(Pusher)
<1> USE DEF writers, client, mails, push, people
<1> DEFINE Alone == /\ UNCHANGED <<pushing, pushed, tokens, stage>>
                    /\ \A n \in Notes : <<Pusher, n>> \in inbox => <<Pusher, n>> \in inbox'
           Goal == UNCHANGED <<pushing, pushed>> /\ PushTyped' /\ MessagesKept(Pusher)
<1>0. Alone => Goal
  BY DEF PushTyped, MessagesKept
<1>1. CASE Notify
  <2>1. UNCHANGED <<pushing, pushed, tokens>>
    BY <1>1 DEF Notify, Tick, Create, StoreNotification, SendMessage, WriterDies, LoseMessage
  <2> QED
    BY <1>1, <2>1, BrokerSends DEF PushTyped
<1>2. CASE SendEmail
  <2>1. ASSUME NEW message \in inbox, message[1] \in Mailers, ReceiveMail(message[1], message[2])
        PROVE  Alone
    <3>1. inbox' = inbox \ {<<message[1], message[2]>>} /\ UNCHANGED <<pushing, pushed, tokens, stage>>
      BY <2>1 DEF ReceiveMail
    <3>2. message[1] # Pusher
      BY <2>1 DEF NotificationDeliveryAssumption
    <3> QED
      BY <3>1, <3>2
  <2>2. ASSUME NEW job,
               \/ CheckShouldSend(job) \/ GetRecipientsList(job) \/ TakeLock(job) \/ GiveUp(job)
               \/ ExpireLock(job) \/ FetchEmail(job) \/ MailFails(job)
        PROVE  Alone
    BY <2>2 DEF CheckShouldSend, GetRecipientsList, TakeLock, GiveUp, ExpireLock, FetchEmail,
                MailFails, OthersUnchanged
  <2>3. ASSUME NEW job, NEW r,
               \/ StoreEmail(job, r) \/ StoreFails(job, r) \/ Send(job, r)
               \/ StoreResult(job, r) \/ MailerRefuses(job, r) \/ ResultFails(job, r)
        PROVE  Alone
    BY <2>3 DEF StoreEmail, StoreFails, Send, StoreResult, MailerRefuses, ResultFails,
                OthersUnchanged
  <2>4. ASSUME NEW who, MailerDies(who)  PROVE Alone
    BY <2>4 DEF MailerDies, OthersUnchanged
  <2> QED
    BY <1>0, <1>2, <2>1, <2>2, <2>3, <2>4 DEF SendEmail
<1>3. CASE Poll
  <2>1. Alone
    BY <1>3 DEF Poll, StartPoll, ReadPart
  <2> QED
    BY <1>0, <2>1
<1>4. CASE ChangeSettings
  <2>1. UNCHANGED <<pushing, pushed, stage, inbox>>
    BY <1>4 DEF ChangeSettings, SavePreferences, PushNotificationsSubscribe,
                PushNotificationsUnsubscribe
  <2>2. tokens' \in [Copayers -> SUBSET Tokens]
    <3>1. tokens \in [Copayers -> SUBSET Tokens]
      BY DEF PushTyped
    <3>2. ASSUME NEW c, NEW email, SavePreferences(c, email)
          PROVE  tokens' \in [Copayers -> SUBSET Tokens]
      BY <3>1, <3>2 DEF SavePreferences
    <3>3. ASSUME NEW c, NEW token \in Tokens,
                 PushNotificationsSubscribe(c, token) \/ PushNotificationsUnsubscribe(c, token)
          PROVE  tokens' \in [Copayers -> SUBSET Tokens]
      <4>1. \/ tokens' = [tokens EXCEPT ![c] = tokens[c] \cup {token}]
            \/ tokens' = [tokens EXCEPT ![c] = tokens[c] \ {token}]
        BY <3>3 DEF PushNotificationsSubscribe, PushNotificationsUnsubscribe
      <4> QED
        BY <3>1, <4>1
    <3> QED
      BY <1>4, <3>2, <3>3 DEF ChangeSettings
  <2> QED
    BY <2>1, <2>2 DEF PushTyped, MessagesKept
<1>5. CASE UNCHANGED vars
  <2>1. Alone
    BY <1>5 DEF vars
  <2> QED
    BY <1>0, <2>1
<1> QED
  BY <1>1, <1>2, <1>3, <1>4, <1>5 DEF Next

(* What keeps the invariant while the push service does nothing. *)
LEMMA PushRests ==
  ASSUME PushInv, Growing, UNCHANGED <<pushing, pushed>>, PushTyped', MessagesKept(Pusher)
  PROVE  PushInv'
<1>1. pushing \subseteq Pushing /\ tokens \in [Copayers -> SUBSET Tokens]
  BY DEF PushInv, PushTyped
<1>2. \A n, c, token : c \in Copayers /\ Addressed(n, c, token) => Addressed(n, c, token)'
  BY DEF Addressed, Growing
<1>3. PushSound'
  <2>1. \A n \in Notes, c \in Copayers, token \in Tokens :
          <<n, c, token>> \in pushed => Addressed(n, c, token)'
    BY <1>2 DEF PushInv, PushSound
  <2>2. \A job \in pushing :
          /\ \A c \in job.todo : ShouldPush(job.note, c)
          /\ \A c \in Copayers, token \in Tokens :
               <<c, token>> \in job.messages => Addressed(job.note, c, token)'
    BY <1>2 DEF PushInv, PushSound
  <2> QED
    BY <2>1, <2>2 DEF PushSound
<1>4. \A n, c : c \in Copayers /\ Hears(n, c)' => Hears(n, c) /\ tokens'[c] = tokens[c]
  BY DEF Hears, Growing
<1>5. RunComplete'
  BY <1>4 DEF PushInv, RunComplete
<1>6. PushOnItsWay'
  <2> SUFFICES ASSUME NEW n \in Notes, ToPush(n)'
               PROVE  \/ <<Pusher, n>> \in inbox'
                      \/ \E job \in pushing : job.note = n
                      \/ \A c \in Copayers : Hears(n, c)' =>
                           \A token \in tokens'[c] : <<n, c, token>> \in pushed
    BY DEF PushOnItsWay
  <2>1. \/ stage[n] = "done" /\ <<Pusher, n>> \notin inbox
        \/ <<Pusher, n>> \in inbox'
    <3>1. n \notin hit' /\ stage'[n] = "done" /\ Pusher \in scene.up
      BY DEF ToPush, Growing
    <3> QED
      BY <3>1 DEF MessagesKept
  <2>2. CASE stage[n] = "done" /\ <<Pusher, n>> \notin inbox
    <3>1. ToPush(n)
      BY <2>2 DEF ToPush, Growing
    <3> QED
      BY <2>2, <3>1, <1>4 DEF PushInv, PushOnItsWay
  <2> QED
    BY <2>1, <2>2
<1> QED
  BY <1>3, <1>5, <1>6 DEF PushInv

(* A run that goes on for the same notification, and what it is to keep. *)
RunSound(k) ==
  /\ k \in Pushing
  /\ \A c \in k.todo : ShouldPush(k.note, c)
  /\ \A c \in Copayers, token \in Tokens :
       <<c, token>> \in k.messages => Addressed(k.note, c, token)
  /\ k.at = "subs" => \A c \in Copayers : Hears(k.note, c) =>
       c \in k.todo \/ \A token \in tokens[c] : <<c, token>> \in k.messages

LEMMA RunsAreSound ==
  ASSUME PushInv
  PROVE  \A job \in pushing : RunSound(job)
BY DEF PushInv, PushTyped, PushSound, RunComplete, RunSound

LEMMA RunGoesOn ==
  ASSUME PushInv, NEW job \in pushing, NEW k, RunSound(k), k.note = job.note,
         pushing' = (pushing \ {job}) \cup {k},
         UNCHANGED <<stage, scene, inbox, tokens, changed, pushed, hit>>
  PROVE  PushInv'
<1>1. \A j \in pushing' : RunSound(j)
  BY RunsAreSound
<1>2. PushTyped'
  BY <1>1 DEF PushInv, PushTyped, RunSound
<1>3. PushSound'
  BY <1>1 DEF PushInv, PushSound, RunSound, Addressed
<1>4. RunComplete'
  BY <1>1 DEF RunComplete, RunSound, Hears
<1>5. PushOnItsWay'
  <2> SUFFICES ASSUME NEW n \in Notes, ToPush(n)
               PROVE  \/ <<Pusher, n>> \in inbox
                      \/ \E j \in pushing' : j.note = n
                      \/ \A c \in Copayers : Hears(n, c) =>
                           \A token \in tokens[c] : <<n, c, token>> \in pushed
    BY DEF PushOnItsWay, ToPush, Hears
  <2> QED
    BY DEF PushInv, PushOnItsWay
<1> QED
  BY <1>2, <1>3, <1>4, <1>5 DEF PushInv

(* A run that is over: a fault met it, there was nothing to tell, or all is out. *)
LEMMA RunIsOver ==
  ASSUME PushInv, NEW job \in pushing, pushing' = pushing \ {job},
         UNCHANGED <<stage, scene, inbox, tokens, changed>>, hit \subseteq hit',
         pushed \subseteq pushed',
         \A n \in Notes, c \in Copayers, token \in Tokens :
           <<n, c, token>> \in pushed' \ pushed => Addressed(n, c, token),
         \/ job.note \in hit'
         \/ ~Worthwhile(job.note)
         \/ \A c \in Copayers : Hears(job.note, c) =>
              \A token \in tokens[c] : <<job.note, c, token>> \in pushed'
  PROVE  PushInv'
<1>1. PushTyped'
  BY DEF PushInv, PushTyped
<1>2. PushSound'
  BY DEF PushInv, PushSound, Addressed
<1>3. RunComplete'
  BY DEF PushInv, RunComplete, Hears
<1>4. PushOnItsWay'
  <2> SUFFICES ASSUME NEW n \in Notes, ToPush(n)'
               PROVE  \/ <<Pusher, n>> \in inbox
                      \/ \E j \in pushing' : j.note = n
                      \/ \A c \in Copayers : Hears(n, c) =>
                           \A token \in tokens[c] : <<n, c, token>> \in pushed'
    BY DEF PushOnItsWay, Hears
  <2>1. ToPush(n) /\ n \notin hit' /\ Worthwhile(n)
    BY DEF ToPush
  <2> QED
    BY <2>1 DEF PushInv, PushOnItsWay
<1> QED
  BY <1>1, <1>2, <1>3, <1>4 DEF PushInv

LEMMA SendPushKeeps ==
  ASSUME PushInv, SendPush
  PROVE  PushInv'
<1> USE DEF writers, people
<1>0. /\ pushing \subseteq Pushing /\ tokens \in [Copayers -> SUBSET Tokens]
      /\ \A job \in pushing :
           /\ job.note \in Notes /\ job.todo \in SUBSET Copayers
           /\ job.messages \in SUBSET (Copayers \X Tokens)
  BY DEF PushInv, PushTyped, Pushing
<1>1. ASSUME NEW n \in Notes, ReceivePush(n)  PROVE PushInv'
  <2> DEFINE k == [note |-> n, at |-> "check", todo |-> {}, messages |-> {}]
  <2>1. RunSound(k) /\ k.note = n
    BY DEF RunSound, Pushing
  <2> HIDE DEF k
  <2>2. /\ inbox' = inbox \ {<<Pusher, n>>}
        /\ pushing' = pushing \cup (IF TypeOf[n] \in Kinds THEN {k} ELSE {})
        /\ UNCHANGED <<stage, scene, tokens, changed, pushed, hit>>
    BY <1>1 DEF ReceivePush, NoFault, k
  <2>3. \A j \in pushing' : RunSound(j)
    BY <2>1, <2>2, RunsAreSound
  <2>4. PushTyped'
    BY <1>0, <2>2, <2>3 DEF PushTyped, RunSound
  <2>5. PushSound'
    BY <2>2, <2>3 DEF PushInv, PushSound, RunSound, Addressed
  <2>6. RunComplete'
    BY <2>2, <2>3 DEF RunComplete, RunSound, Hears
  <2>7. PushOnItsWay'
    <3> SUFFICES ASSUME NEW m \in Notes, ToPush(m)
                 PROVE  \/ <<Pusher, m>> \in inbox'
                        \/ \E j \in pushing' : j.note = m
                        \/ \A c \in Copayers : Hears(m, c) =>
                             \A token \in tokens[c] : <<m, c, token>> \in pushed
      BY <2>2 DEF PushOnItsWay, ToPush, Hears
    <3>1. CASE m = n
      BY <2>1, <2>2, <3>1 DEF ToPush
    <3>2. CASE m # n
      <4>1. <<Pusher, m>> \in inbox => <<Pusher, m>> \in inbox'
        BY <2>2, <3>2
      <4> QED
        BY <2>2, <4>1 DEF PushInv, PushOnItsWay
    <3> QED
      BY <3>1, <3>2
  <2> QED
    BY <2>4, <2>5, <2>6, <2>7 DEF PushInv
<1>2. ASSUME NEW job \in pushing, CheckShouldPush(job)  PROVE PushInv'
  <2> DEFINE k == [job EXCEPT !.at = "recipients"]
  <2>1. /\ k.note = job.note /\ k.at = "recipients" /\ k.todo = job.todo
        /\ k.messages = job.messages /\ k \in Pushing
    BY <1>0 DEF Pushing
  <2>2. UNCHANGED <<stage, scene, inbox, tokens, changed, pushed, hit>>
    BY <1>2 DEF CheckShouldPush, OthersUnmoved, NoFault
  <2>3. RunSound(k)
    <3> HIDE DEF k
    <3> QED
      BY <2>1, RunsAreSound DEF RunSound
  <2>4. CASE Worthwhile(job.note)
    <3>1. pushing' = (pushing \ {job}) \cup {k}
      BY <1>2, <2>4 DEF CheckShouldPush, BecomePushing
    <3> HIDE DEF k
    <3> QED
      BY <2>1, <2>2, <2>3, <3>1, RunGoesOn
  <2>5. CASE ~Worthwhile(job.note)
    <3>1. pushing' = pushing \ {job}
      BY <1>2, <2>5 DEF CheckShouldPush, BecomePushing
    <3> QED
      BY <2>2, <2>5, <3>1, RunIsOver
  <2> QED
    BY <2>4, <2>5
<1>3. ASSUME NEW job \in pushing, GetPushRecipients(job)  PROVE PushInv'
  <2> DEFINE to == {c \in Members(job.note) : ShouldPush(job.note, c)}
             k == [job EXCEPT !.at = "subs", !.todo = to]
  <2>1. to \in SUBSET Copayers
    BY DEF Members
  <2>2. /\ k.note = job.note /\ k.at = "subs" /\ k.todo = to
        /\ k.messages = job.messages /\ k \in Pushing
    BY <1>0, <2>1 DEF Pushing
  <2>3. /\ pushing' = (pushing \ {job}) \cup {k}
        /\ UNCHANGED <<stage, scene, inbox, tokens, changed, pushed, hit>>
    BY <1>3 DEF GetPushRecipients, BecomePushing, OthersUnmoved, NoFault
  <2>4. RunSound(k)
    <3> HIDE DEF k
    <3> QED
      BY <2>2, RunsAreSound DEF RunSound, Hears
  <2> HIDE DEF k
  <2> QED
    BY <2>2, <2>3, <2>4, RunGoesOn
<1>4. ASSUME NEW job \in pushing, NEW c \in job.todo, FetchPushSubs(job, c)  PROVE PushInv'
  <2> DEFINE k == [job EXCEPT !.todo = job.todo \ {c},
                              !.messages = job.messages \cup ({c} \X tokens[c])]
  <2>1. c \in Copayers /\ tokens[c] \in SUBSET Tokens
    BY <1>0
  <2>2. /\ k.note = job.note /\ k.at = job.at /\ k.todo = job.todo \ {c}
        /\ k.messages = job.messages \cup ({c} \X tokens[c]) /\ k \in Pushing
    BY <1>0, <2>1 DEF Pushing
  <2>3. /\ pushing' = (pushing \ {job}) \cup {k}
        /\ UNCHANGED <<stage, scene, inbox, tokens, changed, pushed, hit>>
    BY <1>4 DEF FetchPushSubs, BecomePushing, OthersUnmoved, NoFault
  <2> HIDE DEF k
  <2>4. RunSound(job)
    BY RunsAreSound
  <2>5. \A d \in Copayers, token \in Tokens :
          <<d, token>> \in k.messages => Addressed(job.note, d, token)
    BY <2>1, <2>2, <2>4 DEF RunSound, Addressed
  <2>6. job.at = "subs" => \A d \in Copayers : Hears(job.note, d) =>
          d \in k.todo \/ \A token \in tokens[d] : <<d, token>> \in k.messages
    BY <2>2, <2>4 DEF RunSound
  <2>7. RunSound(k)
    BY <2>2, <2>4, <2>5, <2>6 DEF RunSound
  <2> QED
    BY <2>2, <2>3, <2>7, RunGoesOn
<1>5. ASSUME NEW job \in pushing, MakeRequests(job)  PROVE PushInv'
  <2> DEFINE out == {<<job.note, m[1], m[2]>> : m \in job.messages}
  <2>1. /\ pushing' = pushing \ {job} /\ pushed' = pushed \cup out
        /\ job.at = "subs" /\ job.todo = {}
        /\ UNCHANGED <<stage, scene, inbox, tokens, changed, hit>>
    BY <1>5 DEF MakeRequests, BecomePushing, OthersUnmoved, NoFault
  <2>2. RunSound(job)
    BY RunsAreSound
  <2>3. \A n \in Notes, c \in Copayers, token \in Tokens :
          <<n, c, token>> \in out <=> n = job.note /\ <<c, token>> \in job.messages
    <3>1. \A m \in job.messages : m \in Copayers \X Tokens
      BY <1>0
    <3> QED
      BY <3>1
  <2> HIDE DEF out
  <2>4. \A n \in Notes, c \in Copayers, token \in Tokens :
          <<n, c, token>> \in pushed' \ pushed => Addressed(n, c, token)
    BY <2>1, <2>2, <2>3 DEF RunSound
  <2>5. \A c \in Copayers : Hears(job.note, c) =>
          \A token \in tokens[c] : <<job.note, c, token>> \in pushed'
    BY <1>0, <2>1, <2>2, <2>3 DEF RunSound
  <2> QED
    BY <2>1, <2>4, <2>5, RunIsOver
<1>6. ASSUME NEW job \in pushing, PushFails(job)  PROVE PushInv'
  <2>1. /\ pushing' = pushing \ {job} /\ pushed' = pushed
        /\ hit' = hit \cup {job.note}
        /\ UNCHANGED <<stage, scene, inbox, tokens, changed>>
    BY <1>6 DEF PushFails, BecomePushing, OthersUnmoved, Fault
  <2> QED
    BY <2>1, RunIsOver
<1>7. CASE PusherDies
  <2>1. /\ pushing' = {} /\ pushed' = pushed
        /\ hit' = hit \cup {job.note : job \in pushing}
        /\ UNCHANGED <<stage, scene, inbox, tokens, changed>>
    BY <1>7 DEF PusherDies, OthersUnmoved
  <2>2. PushTyped' /\ PushSound' /\ RunComplete'
    BY <2>1 DEF PushInv, PushTyped, PushSound, RunComplete, Addressed
  <2>3. PushOnItsWay'
    <3> SUFFICES ASSUME NEW n \in Notes, ToPush(n)'
                 PROVE  \/ <<Pusher, n>> \in inbox
                        \/ \A c \in Copayers : Hears(n, c) =>
                             \A token \in tokens[c] : <<n, c, token>> \in pushed
      BY <2>1 DEF PushOnItsWay, Hears
    <3>1. ToPush(n) /\ \A job \in pushing : job.note # n
      BY <2>1 DEF ToPush
    <3> QED
      BY <3>1 DEF PushInv, PushOnItsWay
  <2> QED
    BY <2>2, <2>3 DEF PushInv
<1> QED
  BY <1>1, <1>2, <1>3, <1>4, <1>5, <1>6, <1>7 DEF SendPush

(* The push service keeps its promises in every state. *)
LEMMA PushInvariance == Spec => []PushInv
<1> USE NotificationDeliveryAssumption
<1>1. Init => PushInv
  <2> SUFFICES ASSUME Init PROVE PushInv
    OBVIOUS
  <2>1. PushTyped
    BY SMT DEF Init, PushTyped
  <2>2. PushSound /\ RunComplete /\ PushOnItsWay
    BY DEF Init, PushSound, RunComplete, PushOnItsWay, ToPush
  <2> QED
    BY <2>1, <2>2 DEF PushInv
<1>2. Inv /\ PushInv /\ [Next]_vars => PushInv'
  <2> SUFFICES ASSUME Inv, PushInv, [Next]_vars  PROVE PushInv'
    OBVIOUS
  <2>1. Growing
    BY StepsGrow DEF PushInv
  <2>2. CASE SendPush
    BY <2>2, SendPushKeeps
  <2>3. CASE ~SendPush
    BY <2>1, <2>3, PushAlone, PushRests DEF PushInv
  <2> QED
    BY <2>2, <2>3
<1> QED
  BY <1>1, <1>2, Invariance, PTL DEF Spec

(* Every device of a copayer hears of what others do, and of the confirmations that
   are his own, and no other does: unless a fault met the notification, or the copayer
   has changed his subscriptions. *)
THEOREM DevicesHear == Spec => []PushReaches
<1>1. PushInv => PushReaches
  <2> SUFFICES ASSUME PushInv, NEW n \in Notes, Settled(n), NEW c \in Copayers,
                      Pusher \in scene.up, Told(n, c), NEW token \in Tokens
               PROVE  <<n, c, token>> \in pushed <=>
                        token \in tokens[c] /\ (TypeOf[n] = "TxConfirmation" <=> Creator[n] = c)
    BY DEF PushReaches
  <2>1. (TypeOf[n] = "TxConfirmation" <=> Creator[n] = c) <=> ShouldPush(n, c)
    BY DEF ShouldPush, NotifyCreatorOnly
  <2>2. /\ ToPush(n) /\ c \in Members(n) \ changed
        /\ <<Pusher, n>> \notin inbox /\ \A job \in pushing : job.note # n
    BY DEF ToPush, Settled, Told
  <2>3. <<n, c, token>> \in pushed => ShouldPush(n, c) /\ token \in tokens[c]
    BY <2>2 DEF PushInv, PushSound, Addressed
  <2>4. ShouldPush(n, c) /\ token \in tokens[c] => <<n, c, token>> \in pushed
    BY <2>2 DEF PushInv, PushOnItsWay, Hears
  <2> QED
    BY <2>1, <2>3, <2>4
<1> QED
  BY <1>1, PushInvariance, PTL

-----------------------------------------------------------------------------
(* The email service.  A mail that is due to a copayer with an address of his own is
   on its way until it is out. *)
Due(n, c) ==
  /\ stage[n] = "done" /\ n \notin hit /\ OwnId(n)
  /\ Mailers \cap scene.up # {}
  /\ Told(n, c) /\ prefs[c] # None /\ ShouldMail(n, c) /\ OwnAddress(n, c)

InQueue(n, r) == \E mail \in queue : mail.note = n /\ mail.to = r

Delivered(n, r) ==
  /\ sent[<<n, r[2]>>] # 0
  /\ \E mail \in queue : mail.note = n /\ mail.to = r /\ mail.status = "sent"

(* Runs, messages and emails are of notifications that are out. *)
NotesOut ==
  /\ queue \subseteq Mail
  /\ \A message \in inbox : stage[message[2]] = "done"
  /\ \A job \in mailing : stage[job.note] = "done"
  /\ \A mail \in queue : mail.note \in Notes /\ mail.id = ids[mail.note] /\ stage[mail.note] = "done"

FaultsHit == overrun \subseteq hit /\ \A job \in mailing : job.at = "landing" => job.note \in hit

(* What a run has done for a recipient, and has yet to do. *)
RunFor(job, r) ==
  /\ job.at \in {"lock", "fetch", "store", "send"} => r \in job.list
  /\ job.at = "store" => r \in job.todo \/ InQueue(job.note, r)
  /\ job.at = "send" =>
       /\ InQueue(job.note, r)
       /\ \/ r \in job.todo
          \/ r \in job.out /\ sent[<<job.note, r[2]>>] # 0
          \/ Delivered(job.note, r)

RunsRight ==
  \A job \in mailing, c \in Copayers :
    Due(job.note, c) => RunFor(job, <<c, prefs[c]>>)

(* The runs that may yet find that nothing is queued, and those that found it. *)
Coming(n) ==
  \/ \E who \in Mailers : <<who, n>> \in inbox
  \/ \E job \in mailing : job.note = n /\ job.at \in {"check", "recipients", "lock", "fetch"}

Working(n) == \E job \in mailing : job.note = n /\ job.at \in {"store", "send"}

OnItsWay(n, r) == (Coming(n) /\ ~Queued(n)) \/ Working(n) \/ Delivered(n, r)

MailOnItsWay ==
  \A n \in Notes, c \in Copayers : Due(n, c) => OnItsWay(n, <<c, prefs[c]>>)

MailInv == NotesOut /\ FaultsHit /\ RunsRight /\ MailOnItsWay

(* The emails and the history of mails only grow, but for mails that a fault met. *)
EmailsKept ==
  /\ \A n \in Notes, e \in Emails : sent[<<n, e>>] # 0 => sent'[<<n, e>>] # 0
  /\ \A mail \in queue : \E m \in queue' :
       /\ m.note = mail.note /\ m.to = mail.to
       /\ mail.status = "sent" /\ mail.note \notin hit' => m.status = "sent"

LEMMA DoneStays ==
  ASSUME EmailsKept, NEW n \in Notes, n \notin hit', NEW r \in Recipient
  PROVE  /\ InQueue(n, r) => InQueue(n, r)'
         /\ Delivered(n, r) => Delivered(n, r)'
<1>1. r[2] \in Emails
  BY DEF Recipient
<1>2. InQueue(n, r) => InQueue(n, r)'
  BY DEF InQueue, EmailsKept
<1>3. ASSUME Delivered(n, r)  PROVE Delivered(n, r)'
  <2>1. PICK mail \in queue : mail.note = n /\ mail.to = r /\ mail.status = "sent"
    BY <1>3 DEF Delivered
  <2>2. PICK m \in queue' : m.note = n /\ m.to = r /\ m.status = "sent"
    BY <2>1 DEF EmailsKept
  <2>3. sent'[<<n, r[2]>>] # 0
    BY <1>1, <1>3 DEF Delivered, EmailsKept
  <2> QED
    BY <2>2, <2>3 DEF Delivered
<1> QED
  BY <1>2, <1>3

(* What is due was due before. *)
LEMMA DueBefore ==
  ASSUME Growing, NEW n \in Notes, NEW c \in Copayers,
         \A o \in Notes : stage[o] # "new" => stage'[o] # "new" /\ ids'[o] = ids[o],
         stage[n] = "done", Due(n, c)'
  PROVE  Due(n, c) /\ prefs'[c] = prefs[c]
<1>1. prefs'[c] = prefs[c] /\ c \notin changed /\ c \in Members(n)
  BY DEF Due, Told, Growing
<1>2. OwnId(n)
  BY DEF Due, OwnId
<1>3. OwnAddress(n, c)
  <2> SUFFICES ASSUME NEW d \in Members(n) \ {c}  PROVE d \notin changed /\ prefs[d] # prefs[c]
    BY DEF OwnAddress
  <2>1. d \in Copayers /\ d \notin changed' /\ prefs'[d] # prefs'[c]
    BY DEF Due, OwnAddress, Members
  <2> QED
    BY <1>1, <2>1 DEF Growing
<1> QED
  BY <1>1, <1>2, <1>3 DEF Due, Told, Growing

LEMMA DueRecipient ==
  ASSUME Inv, NEW n \in Notes, NEW c \in Copayers, Due(n, c)
  PROVE  <<c, prefs[c]>> \in Recipient
BY DEF Inv, Typed, Due, Recipient

-----------------------------------------------------------------------------
(* One run takes a step: for what is due in its notification it is to do its part,
   for the others nothing is undone. *)
RunMoves(job, others) ==
  /\ mailing' = (mailing \ {job}) \cup others
  /\ \A k \in others : k.note = job.note
  /\ UNCHANGED <<stage, ids, inbox, scene, prefs, changed>>
  /\ hit \subseteq hit' /\ overrun' \subseteq overrun \cup (hit' \cap {job.note})
  /\ EmailsKept
  /\ queue' \subseteq Mail
  /\ \A m \in queue' :
       \/ \E mail \in queue : m.note = mail.note /\ m.id = mail.id
       \/ m.note = job.note /\ m.id = ids[job.note]

LEMMA MoveKeeps ==
  ASSUME Inv, MailInv, NEW job \in mailing, NEW others, RunMoves(job, others),
         \A k \in others : k.at = "landing" => job.note \in hit',
         \A c \in Copayers : Due(job.note, c)' =>
           /\ \A k \in others : RunFor(k, <<c, prefs[c]>>)'
           /\ OnItsWay(job.note, <<c, prefs[c]>>)'
  PROVE  MailInv'
<1> USE DEF RunMoves
<1>1. /\ mailing \subseteq Mailing /\ \A j \in mailing : j.note \in Notes
      /\ stage[job.note] = "done" /\ job.note \in Notes
  BY DEF Inv, Typed, Mailing, MailInv, NotesOut
<1>2. NotesOut'
  <2>1. \A m \in queue' : m.note \in Notes /\ m.id = ids[m.note] /\ stage[m.note] = "done"
    BY <1>1 DEF MailInv, NotesOut
  <2>2. \A j \in mailing' : stage[j.note] = "done"
    BY <1>1 DEF MailInv, NotesOut
  <2> QED
    BY <2>1, <2>2 DEF MailInv, NotesOut
<1>3. FaultsHit'
  BY DEF MailInv, FaultsHit
<1>4. \A n \in Notes, c \in Copayers : Due(n, c)' => Due(n, c) /\ n \notin hit'
  BY DEF Due, OwnId, Told, OwnAddress
<1>5. RunsRight'
  <2> SUFFICES ASSUME NEW j \in mailing', NEW c \in Copayers, Due(j.note, c)'
               PROVE  RunFor(j, <<c, prefs[c]>>)'
    BY DEF RunsRight
  <2>1. CASE j \in others
    BY <2>1
  <2>2. CASE j \in mailing
    <3>1. Due(j.note, c) /\ j.note \notin hit' /\ j.note \in Notes
      BY <1>1, <1>4, <2>2
    <3>2. RunFor(j, <<c, prefs[c]>>)
      BY <2>2, <3>1 DEF MailInv, RunsRight
    <3>r. PICK r : r = <<c, prefs[c]>>
      OBVIOUS
    <3>3. r \in Recipient /\ r[2] \in Emails
      BY <3>1, <3>r, DueRecipient DEF Recipient
    <3>4. /\ InQueue(j.note, r) => InQueue(j.note, r)'
          /\ Delivered(j.note, r) => Delivered(j.note, r)'
          /\ sent[<<j.note, r[2]>>] # 0 => sent'[<<j.note, r[2]>>] # 0
      BY <3>1, <3>3, DoneStays DEF EmailsKept
    <3>5. RunFor(j, r)'
      BY <3>2, <3>4, <3>r DEF RunFor
    <3> QED
      BY <3>5, <3>r
  <2> QED
    BY <2>1, <2>2
<1>6. MailOnItsWay'
  <2> SUFFICES ASSUME NEW n \in Notes, NEW c \in Copayers, Due(n, c)', n # job.note
               PROVE  OnItsWay(n, <<c, prefs[c]>>)'
    BY DEF MailOnItsWay
  <2>r. PICK r : r = <<c, prefs[c]>>
    OBVIOUS
  <2>1. Due(n, c) /\ n \notin hit' /\ r \in Recipient /\ OnItsWay(n, r)
    BY <1>4, <2>r, DueRecipient DEF MailInv, MailOnItsWay
  <2>2. \A j \in mailing : j.note = n => j \in mailing'
    OBVIOUS
  <2>3. Queued(n)' => Queued(n)
    <3> SUFFICES ASSUME NEW m \in queue', m.id = ids[n]  PROVE Queued(n)
      BY DEF Queued
    <3>1. ids[job.note] # ids[n]
      BY <1>1, <2>1 DEF Due, OwnId
    <3> QED
      BY <3>1 DEF Queued
  <2>4. Delivered(n, r) => Delivered(n, r)'
    BY <2>1, DoneStays
  <2>5. (Coming(n) => Coming(n)') /\ (Working(n) => Working(n)')
    BY <2>2 DEF Coming, Working
  <2>6. OnItsWay(n, r)'
    BY <2>1, <2>3, <2>4, <2>5 DEF OnItsWay
  <2> QED
    BY <2>6, <2>r
<1> QED
  BY <1>2, <1>3, <1>5, <1>6 DEF MailInv

(* After a fault nothing is due of its notification. *)
LEMMA FaultKeeps ==
  ASSUME Inv, MailInv, NEW job \in mailing, NEW others, RunMoves(job, others),
         job.note \in hit'
  PROVE  MailInv'
<1>1. \A c \in Copayers : ~Due(job.note, c)'
  BY DEF Due
<1> QED
  BY <1>1, MoveKeeps

(* A run that goes on to look. *)
LEMMA LookKeeps ==
  ASSUME Inv, MailInv, NEW job \in mailing, NEW k, k.note = job.note,
         RunMoves(job, {k}), UNCHANGED <<queue, sent, hit>>,
         job.at \in {"check", "recipients", "lock"},
         k.at \in {"recipients", "lock", "fetch"},
         \A c \in Copayers : Due(job.note, c) /\ k.at \in {"lock", "fetch"} =>
           <<c, prefs[c]>> \in k.list
  PROVE  MailInv'
<1>1. \A c \in Copayers : Due(job.note, c)' => Due(job.note, c)
  BY DEF Due, OwnId, Told, OwnAddress, RunMoves
<1>2. ASSUME NEW c \in Copayers, Due(job.note, c)'
      PROVE  RunFor(k, <<c, prefs[c]>>)' /\ OnItsWay(job.note, <<c, prefs[c]>>)'
  <2>1. RunFor(k, <<c, prefs[c]>>)'
    BY <1>1, <1>2 DEF RunFor, RunMoves
  <2>r. PICK r : r = <<c, prefs[c]>>
    OBVIOUS
  <2>2. job.note \in Notes
    BY DEF Inv, Typed, Mailing
  <2>3. OnItsWay(job.note, r)
    BY <1>1, <1>2, <2>2, <2>r DEF MailInv, MailOnItsWay
  <2>4. Coming(job.note)'
    BY DEF Coming, RunMoves
  <2>5. Working(job.note) => Working(job.note)'
    BY DEF Working, RunMoves
  <2>6. (Queued(job.note)' <=> Queued(job.note)) /\ (Delivered(job.note, r)' <=> Delivered(job.note, r))
    BY DEF Queued, Delivered, RunMoves
  <2>7. OnItsWay(job.note, r)'
    BY <2>3, <2>4, <2>5, <2>6 DEF OnItsWay
  <2> QED
    BY <2>1, <2>7, <2>r DEF RunMoves
<1> QED
  BY <1>2, MoveKeeps

(* A copayer with an address of his own is in every list of recipients. *)
LEMMA OwnAddressListed ==
  ASSUME NEW n \in Notes, NEW c \in Copayers, Due(n, c), NEW list \in RecipientsLists(n)
  PROVE  <<c, prefs[c]>> \in list
<1> DEFINE with == {d \in Members(n) : prefs[d] # None}
           used == {prefs[d] : d \in with}
<1>1. PICK f \in [used -> with] :
        /\ \A e \in used : prefs[f[e]] = e
        /\ list = {<<f[e], e>> : e \in {x \in used : ShouldMail(n, f[x])}}
  BY DEF RecipientsLists
<1>2. c \in with /\ prefs[c] \in used
  BY DEF Due, Told
<1>3. f[prefs[c]] \in Members(n) /\ prefs[f[prefs[c]]] = prefs[c]
  BY <1>1, <1>2
<1>4. f[prefs[c]] = c
  BY <1>3 DEF Due, OwnAddress
<1>5. ShouldMail(n, f[prefs[c]])
  BY <1>4 DEF Due
<1> HIDE DEF used, with
<1> QED
  BY <1>1, <1>2, <1>4, <1>5

-----------------------------------------------------------------------------
(* Each action of a run *)
LEMMA QuietMoves ==
  ASSUME MailInv, NEW job, NEW others, mailing' = (mailing \ {job}) \cup others,
         \A k \in others : k.note = job.note,
         UNCHANGED <<stage, ids, inbox, scene, prefs, changed, queue, sent>>,
         hit \subseteq hit', overrun' \subseteq overrun \cup (hit' \cap {job.note})
  PROVE  RunMoves(job, others)
BY DEF RunMoves, EmailsKept, MailInv, NotesOut

LEMMA LookStepKeeps ==
  ASSUME Inv, MailInv, NEW job \in mailing,
         CheckShouldSend(job) \/ GetRecipientsList(job) \/ TakeLock(job) \/ FetchEmail(job)
  PROVE  MailInv'
<1>0. job \in Mailing /\ job.note \in Notes
  BY DEF Inv, Typed, Mailing
<1>1. UNCHANGED <<stage, ids, inbox, scene, prefs, changed, queue, sent, hit, overrun>>
  BY DEF CheckShouldSend, GetRecipientsList, TakeLock, FetchEmail, OthersUnchanged,
         writers, people, NoFault
<1>2. \A c \in Copayers : Due(job.note, c)' => Due(job.note, c)
  BY <1>1 DEF Due, OwnId, Told, OwnAddress
<1>3. ASSUME mailing' = (mailing \ {job}) \cup {},
             \A c \in Copayers : ~Due(job.note, c)
      PROVE  MailInv'
  <2>1. RunMoves(job, {})
    BY <1>1, <1>3, QuietMoves
  <2> QED
    BY <1>2, <1>3, <2>1, MoveKeeps
<1>4. CASE CheckShouldSend(job)
  <2> DEFINE k == [job EXCEPT !.at = "recipients"]
  <2>1. k.note = job.note /\ k.at = "recipients"
    BY <1>0 DEF Mailing
  <2>2. CASE Worthwhile(job.note)
    <3>1. mailing' = (mailing \ {job}) \cup {k}
      BY <1>4, <2>2 DEF CheckShouldSend, BecomeMailing
    <3> HIDE DEF k
    <3>2. RunMoves(job, {k})
      BY <1>1, <2>1, <3>1, QuietMoves
    <3>3. job.at = "check"
      BY <1>4 DEF CheckShouldSend
    <3> QED
      BY <1>1, <2>1, <3>2, <3>3, LookKeeps
  <2>3. CASE ~Worthwhile(job.note)
    <3>1. mailing' = (mailing \ {job}) \cup {}
      BY <1>4, <2>3 DEF CheckShouldSend, BecomeMailing
    <3> QED
      BY <1>3, <2>3, <3>1 DEF Due, Told
  <2> QED
    BY <2>2, <2>3
<1>5. CASE GetRecipientsList(job)
  <2>1. PICK list \in RecipientsLists(job.note) :
          mailing' = (mailing \ {job}) \cup
            (IF list = {} THEN {} ELSE {[job EXCEPT !.at = "lock", !.list = list]})
    BY <1>5 DEF GetRecipientsList, BecomeMailing
  <2>2. \A c \in Copayers : Due(job.note, c) => <<c, prefs[c]>> \in list
    BY <1>0, OwnAddressListed
  <2> DEFINE k == [job EXCEPT !.at = "lock", !.list = list]
  <2>3. k.note = job.note /\ k.at = "lock" /\ k.list = list
    BY <1>0 DEF Mailing
  <2>4. CASE list = {}
    BY <1>3, <2>1, <2>2, <2>4
  <2>5. CASE list # {}
    <3>1. mailing' = (mailing \ {job}) \cup {k}
      BY <2>1, <2>5
    <3> HIDE DEF k
    <3>2. RunMoves(job, {k})
      BY <1>1, <2>3, <3>1, QuietMoves
    <3>3. job.at = "recipients"
      BY <1>5 DEF GetRecipientsList
    <3> QED
      BY <1>1, <2>2, <2>3, <3>2, <3>3, LookKeeps
  <2> QED
    BY <2>4, <2>5
<1>6. CASE TakeLock(job)
  <2> DEFINE k == [job EXCEPT !.at = "fetch", !.locked = TRUE]
  <2>1. k.note = job.note /\ k.at = "fetch" /\ k.list = job.list
    BY <1>0 DEF Mailing
  <2>2. job.at = "lock" /\ mailing' = (mailing \ {job}) \cup {k}
    BY <1>6 DEF TakeLock, BecomeMailing
  <2> HIDE DEF k
  <2>3. RunMoves(job, {k})
    BY <1>1, <2>1, <2>2, QuietMoves
  <2>4. \A c \in Copayers : Due(job.note, c) => <<c, prefs[c]>> \in k.list
    BY <2>1, <2>2 DEF MailInv, RunsRight, RunFor
  <2> QED
    BY <1>1, <2>1, <2>2, <2>3, <2>4, LookKeeps
<1>7. CASE FetchEmail(job)
  <2> DEFINE k == [job EXCEPT !.at = "store", !.todo = job.list]
  <2>1. k.note = job.note /\ k.at = "store" /\ k.list = job.list /\ k.todo = job.list
    BY <1>0 DEF Mailing
  <2>2. job.at = "fetch"
    BY <1>7 DEF FetchEmail
  <2>3. CASE Queued(job.note)
    <3>1. mailing' = (mailing \ {job}) \cup {}
      BY <1>7, <2>3 DEF FetchEmail, BecomeMailing
    <3>2. RunMoves(job, {})
      BY <1>1, <3>1, QuietMoves
    <3>3. ASSUME NEW c \in Copayers, Due(job.note, c)'
          PROVE  OnItsWay(job.note, <<c, prefs[c]>>)'
      <4>r. PICK r : r = <<c, prefs[c]>>
        OBVIOUS
      <4>1. OnItsWay(job.note, r)
        BY <1>0, <1>2, <3>3, <4>r DEF MailInv, MailOnItsWay
      <4>2. Working(job.note) \/ Delivered(job.note, r)
        BY <2>3, <4>1 DEF OnItsWay
      <4>3. Working(job.note) => Working(job.note)'
        BY <2>2, <3>1 DEF Working
      <4>4. Delivered(job.note, r) => Delivered(job.note, r)'
        BY <1>1 DEF Delivered
      <4>5. OnItsWay(job.note, r)'
        BY <4>2, <4>3, <4>4 DEF OnItsWay
      <4> QED
        BY <1>1, <4>5, <4>r
    <3> QED
      BY <3>2, <3>3, MoveKeeps
  <2>4. CASE ~Queued(job.note)
    <3>1. mailing' = (mailing \ {job}) \cup {k}
      BY <1>7, <2>4 DEF FetchEmail, BecomeMailing
    <3> HIDE DEF k
    <3>2. RunMoves(job, {k})
      BY <1>1, <2>1, <3>1, QuietMoves
    <3>3. \A c \in Copayers : Due(job.note, c) => <<c, prefs[c]>> \in job.list
      BY <2>2 DEF MailInv, RunsRight, RunFor
    <3>4. \A c \in Copayers : Due(job.note, c)' => RunFor(k, <<c, prefs[c]>>)'
      BY <1>1, <1>2, <2>1, <3>3 DEF RunFor
    <3>5. Working(job.note)'
      BY <2>1, <3>1 DEF Working
    <3> QED
      BY <2>1, <3>2, <3>4, <3>5, MoveKeeps DEF OnItsWay
  <2> QED
    BY <2>3, <2>4
<1> QED
  BY <1>4, <1>5, <1>6, <1>7

(* A result is written into every email for the recipient, and into no other. *)
LEMMA RestatedMails ==
  ASSUME NEW job, NEW r, NEW status, queue' = Restated(job, r, status), sent' = sent,
         status = "sent" \/ (status = "fail" /\ job.note \in hit'), queue \subseteq Mail
  PROVE  /\ EmailsKept
         /\ queue' \subseteq Mail
         /\ \A m \in queue' : \E mail \in queue : m.note = mail.note /\ m.id = mail.id
<1> DEFINE New(mail) == IF mail.note = job.note /\ mail.to = r
                        THEN [mail EXCEPT !.status = status] ELSE mail
<1>1. \A mail \in queue :
        /\ New(mail).note = mail.note /\ New(mail).to = mail.to /\ New(mail).id = mail.id
        /\ New(mail).status = mail.status
             \/ (mail.note = job.note /\ New(mail).status = status)
        /\ New(mail) \in Mail
  BY DEF Mail
<1>2. queue' = {New(mail) : mail \in queue}
  BY DEF Restated
<1> HIDE DEF New
<1>3. \A mail \in queue : New(mail) \in queue'
  BY <1>2
<1>4. EmailsKept
  BY <1>1, <1>3 DEF EmailsKept
<1>5. /\ queue' \subseteq Mail
      /\ \A m \in queue' : \E mail \in queue : m.note = mail.note /\ m.id = mail.id
  BY <1>1, <1>2
<1> QED
  BY <1>4, <1>5

LEMMA FaultStepKeeps ==
  ASSUME Inv, MailInv, NEW job \in mailing, NEW r,
         \/ GiveUp(job) \/ ExpireLock(job) \/ MailFails(job)
         \/ StoreFails(job, r) \/ MailerRefuses(job, r) \/ ResultFails(job, r)
  PROVE  MailInv'
<1>0. job \in Mailing /\ job.note \in Notes
  BY DEF Inv, Typed, Mailing
<1>1. /\ UNCHANGED <<stage, ids, inbox, scene, prefs, changed, sent>>
      /\ hit' = hit \cup {job.note} /\ overrun' \subseteq overrun \cup {job.note}
  BY DEF GiveUp, ExpireLock, MailFails, StoreFails, MailerRefuses, ResultFails,
         OthersUnchanged, writers, people, Fault
<1>2. ASSUME NEW others, mailing' = (mailing \ {job}) \cup others,
             \A k \in others : k.note = job.note, queue' = queue
      PROVE  MailInv'
  <2>1. RunMoves(job, others)
    BY <1>1, <1>2, QuietMoves
  <2> QED
    BY <1>1, <2>1, FaultKeeps
<1>3. CASE GiveUp(job) \/ MailFails(job)
  <2> DEFINE none == {}
  <2>1. mailing' = (mailing \ {job}) \cup none /\ queue' = queue
    BY <1>3 DEF GiveUp, MailFails, BecomeMailing
  <2>2. \A k \in none : k.note = job.note
    OBVIOUS
  <2> HIDE DEF none
  <2> QED
    BY <1>2, <2>1, <2>2
<1>4. CASE ExpireLock(job)
  <2> DEFINE others == {[job EXCEPT !.locked = FALSE]}
  <2>1. mailing' = (mailing \ {job}) \cup others /\ queue' = queue
    BY <1>4 DEF ExpireLock, BecomeMailing
  <2>2. \A k \in others : k.note = job.note
    BY <1>0 DEF Mailing
  <2> HIDE DEF others
  <2> QED
    BY <1>2, <2>1, <2>2
<1>5. CASE StoreFails(job, r)
  <2> DEFINE k == [Stored(job, r) EXCEPT !.at = "landing", !.locked = FALSE]
  <2>1. mailing' = (mailing \ {job}) \cup AfterStore(k) /\ queue' = queue
    BY <1>5 DEF StoreFails, BecomeMailing
  <2>2. k.note = job.note /\ k.at = "landing"
    BY <1>0 DEF Mailing, Stored
  <2> HIDE DEF k
  <2>3. \A j \in AfterStore(k) : j.note = job.note
    BY <2>2 DEF AfterStore
  <2> QED
    BY <1>2, <2>1, <2>3
<1>6. CASE ResultFails(job, r)
  <2>1. mailing' = (mailing \ {job}) \cup {[j EXCEPT !.locked = FALSE] : j \in AfterResult(job, r)}
        /\ queue' = queue
    BY <1>6 DEF ResultFails, BecomeMailing
  <2>2. \A k \in {[j EXCEPT !.locked = FALSE] : j \in AfterResult(job, r)} : k.note = job.note
    <3>1. \A j \in AfterResult(job, r) : j \in Mailing /\ j.note = job.note
      BY <1>0, ResultShape
    <3> QED
      BY <3>1, Unlocked
  <2> QED
    BY <1>2, <2>1, <2>2
<1>7. CASE MailerRefuses(job, r)
  <2> DEFINE s == [job EXCEPT !.todo = job.todo \ {r}]
  <2>1. mailing' = (mailing \ {job}) \cup AfterResult(s, r) /\ queue' = Restated(job, r, "fail")
    BY <1>7 DEF MailerRefuses, BecomeMailing
  <2>2. s \in Mailing /\ s.note = job.note
    BY <1>0, TodoLess
  <2> HIDE DEF s
  <2>3. \A k \in AfterResult(s, r) : k.note = job.note
    BY <2>2, ResultShape
  <2>4. EmailsKept /\ queue' \subseteq Mail /\ \A m \in queue' : \E mail \in queue : m.note = mail.note /\ m.id = mail.id
    BY <1>0, <1>1, <2>1, RestatedMails DEF MailInv, NotesOut
  <2>5. RunMoves(job, AfterResult(s, r))
    BY <1>1, <2>1, <2>3, <2>4 DEF RunMoves
  <2> QED
    BY <1>1, <2>5, FaultKeeps
<1> QED
  BY <1>3, <1>4, <1>5, <1>6, <1>7

LEMMA StoreEmailMoves ==
  ASSUME Inv, MailInv, NEW job \in mailing, NEW r \in Recipient, StoreEmail(job, r)
  PROVE  MailInv'
<1>0. job \in Mailing /\ job.note \in Notes
  BY DEF Inv, Typed, Mailing
<1> DEFINE new == [id |-> ids[job.note], note |-> job.note, to |-> r, status |-> "pending"]
           s == [job EXCEPT !.todo = job.todo \ {r}]
           k == [s EXCEPT !.at = "send", !.todo = s.list]
<1>1. /\ s \in Mailing /\ s.note = job.note /\ s.at = job.at
      /\ s.list = job.list /\ s.todo = job.todo \ {r}
  BY <1>0, TodoLess
<1>2. k.note = job.note /\ k.at = "send" /\ k.list = job.list /\ k.todo = job.list
  BY <1>0, <1>1 DEF Mailing
<1>3. /\ mailing' = (mailing \ {job}) \cup AfterStore(s) /\ queue' = queue \cup {new}
      /\ job.at \in {"store", "landing"}
      /\ UNCHANGED <<stage, ids, inbox, scene, prefs, changed, sent, hit, overrun>>
  BY DEF StoreEmail, BecomeMailing, OthersUnchanged, writers, people, NoFault, Stored
<1>4. /\ new.note = job.note /\ new.to = r /\ new.id = ids[job.note]
      /\ new \in Mail
  BY <1>0 DEF Mail, Inv, Typed
<1>5. AfterStore(s) = IF s.todo # {} THEN {s} ELSE IF s.at = "store" THEN {k} ELSE {}
  BY DEF AfterStore
<1> HIDE DEF new, s, k
<1>6. \A j \in AfterStore(s) : j.note = job.note
  BY <1>1, <1>2, <1>5
<1>7. RunMoves(job, AfterStore(s))
  BY <1>3, <1>4, <1>6 DEF RunMoves, EmailsKept, MailInv, NotesOut
<1>8. CASE job.at = "landing"
  <2>1. job.note \in hit'
    BY <1>3, <1>8 DEF MailInv, FaultsHit
  <2> QED
    BY <1>7, <2>1, FaultKeeps
<1>9. CASE job.at = "store"
  <2>1. \A c \in Copayers : Due(job.note, c)' => Due(job.note, c)
    BY <1>3 DEF Due, OwnId, Told, OwnAddress
  <2>2. \A j \in AfterStore(s) : j.at \in {"store", "send"}
    BY <1>1, <1>2, <1>5, <1>9
  <2>3. Working(job.note)'
    <3>1. AfterStore(s) # {}
      BY <1>1, <1>5, <1>9
    <3> QED
      BY <1>3, <1>6, <2>2, <3>1 DEF Working
  <2>4. ASSUME NEW c \in Copayers, Due(job.note, c)', NEW j \in AfterStore(s)
        PROVE  RunFor(j, <<c, prefs[c]>>)'
    <3>q. PICK q : q = <<c, prefs[c]>>
      OBVIOUS
    <3>1. q \in job.list /\ (q \in job.todo \/ InQueue(job.note, q))
      BY <1>9, <2>1, <2>4, <3>q DEF MailInv, RunsRight, RunFor
    <3>2. q \in job.todo \ {r} \/ InQueue(job.note, q)'
      BY <1>3, <1>4, <3>1 DEF InQueue
    <3>3. CASE s.todo # {}
      <4>1. j = s
        BY <1>5, <2>4, <3>3
      <4> QED
        BY <1>1, <1>3, <1>9, <3>1, <3>2, <3>q, <4>1 DEF RunFor
    <3>4. CASE s.todo = {}
      <4>1. j = k
        BY <1>1, <1>5, <1>9, <2>4, <3>4
      <4> QED
        BY <1>1, <1>2, <1>3, <3>1, <3>2, <3>4, <3>q, <4>1 DEF RunFor
    <3> QED
      BY <3>3, <3>4
  <2>5. \A j \in AfterStore(s) : j.at = "landing" => job.note \in hit'
    BY <2>2
  <2> QED
    BY <1>7, <2>3, <2>4, <2>5, MoveKeeps DEF OnItsWay
<1> QED
  BY <1>3, <1>8, <1>9

LEMMA SendMoves ==
  ASSUME Inv, MailInv, NEW job \in mailing, NEW r \in Recipient, Send(job, r)
  PROVE  MailInv'
<1>0. job \in Mailing /\ job.note \in Notes /\ r[2] \in Emails /\ sent \in [Notes \X Emails -> Nat]
  BY DEF Inv, Typed, Mailing, Recipient
<1> DEFINE k == [job EXCEPT !.todo = job.todo \ {r}, !.out = job.out \cup {r}]
<1>1. /\ k.note = job.note /\ k.at = job.at /\ k.list = job.list
      /\ k.todo = job.todo \ {r} /\ k.out = job.out \cup {r}
  BY <1>0 DEF Mailing
<1>2. /\ mailing' = (mailing \ {job}) \cup {k} /\ job.at = "send"
      /\ sent' = [sent EXCEPT ![<<job.note, r[2]>>] = sent[<<job.note, r[2]>>] + 1]
      /\ UNCHANGED <<stage, ids, inbox, scene, prefs, changed, queue, hit, overrun>>
  BY DEF Send, BecomeMailing, OthersUnchanged, writers, people, NoFault
<1> HIDE DEF k
<1>3. /\ sent'[<<job.note, r[2]>>] # 0
      /\ \A n \in Notes, e \in Emails : sent[<<n, e>>] # 0 => sent'[<<n, e>>] # 0
  <2>1. sent[<<job.note, r[2]>>] \in Nat
    BY <1>0
  <2>2. sent'[<<job.note, r[2]>>] = sent[<<job.note, r[2]>>] + 1
    BY <1>0, <1>2
  <2>3. \A n \in Notes, e \in Emails :
          <<n, e>> # <<job.note, r[2]>> => sent'[<<n, e>>] = sent[<<n, e>>]
    BY <1>0, <1>2
  <2> QED
    BY <2>1, <2>2, <2>3
<1>4. RunMoves(job, {k})
  BY <1>1, <1>2, <1>3 DEF RunMoves, EmailsKept, MailInv, NotesOut
<1>5. \A c \in Copayers : Due(job.note, c)' => Due(job.note, c) /\ job.note \notin hit'
  BY <1>2 DEF Due, OwnId, Told, OwnAddress
<1>6. Working(job.note)'
  BY <1>1, <1>2 DEF Working
<1>7. ASSUME NEW c \in Copayers, Due(job.note, c)'
      PROVE  RunFor(k, <<c, prefs[c]>>)'
  <2>q. PICK q : q = <<c, prefs[c]>>
    OBVIOUS
  <2>1. q \in Recipient /\ RunFor(job, q)
    BY <1>0, <1>5, <1>7, <2>q, DueRecipient DEF MailInv, RunsRight
  <2>2. /\ InQueue(job.note, q) => InQueue(job.note, q)'
        /\ Delivered(job.note, q) => Delivered(job.note, q)'
        /\ sent[<<job.note, q[2]>>] # 0 => sent'[<<job.note, q[2]>>] # 0
    BY <1>0, <1>3, <1>4, <1>5, <1>7, <2>1, DoneStays DEF RunMoves, Recipient
  <2>3. \/ q \in job.todo \ {r}
        \/ q \in job.out \cup {r} /\ sent'[<<job.note, q[2]>>] # 0
        \/ Delivered(job.note, q)'
    BY <1>2, <1>3, <2>1, <2>2 DEF RunFor
  <2>4. RunFor(k, q)'
    BY <1>1, <1>2, <2>1, <2>2, <2>3 DEF RunFor
  <2> QED
    BY <1>2, <2>4, <2>q
<1> QED
  BY <1>1, <1>2, <1>4, <1>6, <1>7, MoveKeeps DEF OnItsWay

LEMMA StoreResultMoves ==
  ASSUME Inv, MailInv, NEW job \in mailing, NEW r \in Recipient, StoreResult(job, r)
  PROVE  MailInv'
<1>0. job \in Mailing /\ job.note \in Notes
  BY DEF Inv, Typed, Mailing
<1> DEFINE k == [job EXCEPT !.out = job.out \ {r}]
<1>1. /\ k.note = job.note /\ k.at = job.at /\ k.list = job.list
      /\ k.todo = job.todo /\ k.out = job.out \ {r}
  BY <1>0 DEF Mailing
<1>2. /\ mailing' = (mailing \ {job}) \cup AfterResult(job, r) /\ job.at = "send" /\ r \in job.out
      /\ queue' = Restated(job, r, "sent")
      /\ UNCHANGED <<stage, ids, inbox, scene, prefs, changed, sent, hit, overrun>>
  BY DEF StoreResult, BecomeMailing, OthersUnchanged, writers, people, NoFault
<1>3. AfterResult(job, r) = IF job.todo = {} /\ job.out \subseteq {r} THEN {} ELSE {k}
  BY DEF AfterResult
<1> HIDE DEF k
<1>4. /\ EmailsKept /\ queue' \subseteq Mail
      /\ \A m \in queue' : \E mail \in queue : m.note = mail.note /\ m.id = mail.id
  BY <1>2, RestatedMails DEF MailInv, NotesOut
<1>5. RunMoves(job, AfterResult(job, r))
  BY <1>1, <1>2, <1>3, <1>4 DEF RunMoves
<1>6. \A c \in Copayers : Due(job.note, c)' => Due(job.note, c) /\ job.note \notin hit'
  BY <1>2 DEF Due, OwnId, Told, OwnAddress
<1>7. InQueue(job.note, r) /\ sent[<<job.note, r[2]>>] # 0 => Delivered(job.note, r)'
  <2> SUFFICES ASSUME NEW mail \in queue, mail.note = job.note, mail.to = r
               PROVE  \E m \in queue' : m.note = job.note /\ m.to = r /\ m.status = "sent"
    BY <1>2 DEF InQueue, Delivered
  <2> DEFINE m == [mail EXCEPT !.status = "sent"]
  <2>1. m \in queue'
    BY <1>2 DEF Restated
  <2>2. m.note = job.note /\ m.to = r /\ m.status = "sent"
    BY DEF MailInv, NotesOut, Mail
  <2> HIDE DEF m
  <2> QED
    BY <2>1, <2>2
<1>8. ASSUME NEW c \in Copayers, Due(job.note, c)', NEW q, q = <<c, prefs[c]>>
      PROVE  /\ q \in job.list /\ InQueue(job.note, q)'
             /\ \/ q \in job.todo
                \/ q \in job.out \ {r} /\ sent[<<job.note, q[2]>>] # 0
                \/ Delivered(job.note, q)'
  <2>1. q \in Recipient /\ RunFor(job, q)
    BY <1>0, <1>6, <1>8, DueRecipient DEF MailInv, RunsRight
  <2>2. /\ InQueue(job.note, q) => InQueue(job.note, q)'
        /\ Delivered(job.note, q) => Delivered(job.note, q)'
    BY <1>0, <1>4, <1>6, <1>8, <2>1, DoneStays
  <2> QED
    BY <1>2, <1>7, <2>1, <2>2 DEF RunFor
<1>9. CASE job.todo = {} /\ job.out \subseteq {r}
  <2>1. AfterResult(job, r) = {}
    BY <1>3, <1>9
  <2>2. ASSUME NEW c \in Copayers, Due(job.note, c)'
        PROVE  OnItsWay(job.note, <<c, prefs[c]>>)'
    <3>q. PICK q : q = <<c, prefs[c]>>
      OBVIOUS
    <3>1. Delivered(job.note, q)'
      BY <1>8, <1>9, <2>2, <3>q
    <3> QED
      BY <1>2, <3>1, <3>q DEF OnItsWay
  <2> QED
    BY <1>5, <2>1, <2>2, MoveKeeps
<1>10. CASE ~(job.todo = {} /\ job.out \subseteq {r})
  <2>1. AfterResult(job, r) = {k}
    BY <1>3, <1>10
  <2>2. Working(job.note)'
    BY <1>1, <1>2, <2>1 DEF Working
  <2>3. ASSUME NEW c \in Copayers, Due(job.note, c)'
        PROVE  RunFor(k, <<c, prefs[c]>>)'
    <3>q. PICK q : q = <<c, prefs[c]>>
      OBVIOUS
    <3>1. RunFor(k, q)'
      BY <1>1, <1>2, <1>8, <2>3, <3>q DEF RunFor
    <3> QED
      BY <1>2, <3>1, <3>q
  <2> QED
    BY <1>1, <1>2, <1>5, <2>1, <2>2, <2>3, MoveKeeps DEF OnItsWay
<1> QED
  BY <1>9, <1>10

LEMMA ReceiveMailMoves ==
  ASSUME Inv, MailInv, NEW who \in Mailers, NEW n, ReceiveMail(who, n)
  PROVE  MailInv'
<1> DEFINE k == [who |-> who, note |-> n, at |-> "check", locked |-> FALSE,
                 list |-> {}, todo |-> {}, out |-> {}]
<1>1. k.note = n /\ k.at = "check"
  OBVIOUS
<1>2. /\ <<who, n>> \in inbox /\ inbox' = inbox \ {<<who, n>>}
      /\ mailing' = mailing \cup (IF TypeOf[n] \in Kinds THEN {k} ELSE {})
      /\ UNCHANGED <<stage, ids, scene, prefs, changed, queue, sent, hit, overrun>>
  BY DEF ReceiveMail, writers, people, NoFault
<1> HIDE DEF k
<1>3. stage[n] = "done" /\ n \in Notes
  BY <1>2 DEF MailInv, NotesOut, Inv, Typed
<1>4. \A m \in Notes, c \in Copayers : Due(m, c)' => Due(m, c)
  BY <1>2 DEF Due, OwnId, Told, OwnAddress
<1>5. NotesOut' /\ FaultsHit'
  BY <1>1, <1>2, <1>3 DEF MailInv, NotesOut, FaultsHit
<1>6. RunsRight'
  <2> SUFFICES ASSUME NEW j \in mailing', NEW c \in Copayers, Due(j.note, c)'
               PROVE  RunFor(j, <<c, prefs[c]>>)'
    BY DEF RunsRight
  <2>1. CASE j \in mailing
    <3>1. j.note \in Notes
      BY <2>1 DEF Inv, Typed, Mailing
    <3>2. RunFor(j, <<c, prefs[c]>>)
      BY <1>4, <2>1, <3>1 DEF MailInv, RunsRight
    <3> QED
      BY <1>2, <3>2 DEF RunFor, InQueue, Delivered
  <2>2. CASE j = k
    BY <1>1, <2>2 DEF RunFor
  <2> QED
    BY <1>2, <2>1, <2>2
<1>7. MailOnItsWay'
  <2> SUFFICES ASSUME NEW m \in Notes, NEW c \in Copayers, Due(m, c)'
               PROVE  OnItsWay(m, <<c, prefs[c]>>)'
    BY DEF MailOnItsWay
  <2>r. PICK r : r = <<c, prefs[c]>>
    OBVIOUS
  <2>1. OnItsWay(m, r) /\ TypeOf[m] \in Kinds
    BY <1>4, <2>r DEF MailInv, MailOnItsWay, Due, Told
  <2>2. Coming(m) => Coming(m)'
    <3>1. CASE m = n
      BY <1>1, <1>2, <2>1, <3>1 DEF Coming
    <3>2. CASE m # n
      <4>1. \A w : <<w, m>> \in inbox => <<w, m>> \in inbox'
        BY <1>2, <3>2
      <4> QED
        BY <1>2, <4>1 DEF Coming
    <3> QED
      BY <3>1, <3>2
  <2>3. OnItsWay(m, r)'
    BY <1>2, <2>1, <2>2 DEF OnItsWay, Queued, Working, Delivered
  <2> QED
    BY <1>2, <2>3, <2>r
<1> QED
  BY <1>5, <1>6, <1>7 DEF MailInv

LEMMA MailerDiesMoves ==
  ASSUME Inv, MailInv, NEW who \in Mailers, MailerDies(who)
  PROVE  MailInv'
<1>1. /\ mailing' = {job \in mailing : job.who # who}
      /\ hit' = hit \cup {job.note : job \in {j \in mailing : j.who = who}}
      /\ UNCHANGED <<stage, ids, inbox, scene, prefs, changed, queue, sent, overrun>>
  BY DEF MailerDies, OthersUnchanged, writers, people
<1>2. \A n \in Notes, c \in Copayers : Due(n, c)' => Due(n, c) /\ n \notin hit'
  BY <1>1 DEF Due, OwnId, Told, OwnAddress
<1>3. \A job \in mailing : job.note \notin hit' => job \in mailing'
  BY <1>1
<1>4. NotesOut' /\ FaultsHit'
  BY <1>1 DEF MailInv, NotesOut, FaultsHit
<1>5. RunsRight'
  <2> SUFFICES ASSUME NEW j \in mailing', NEW c \in Copayers, Due(j.note, c)'
               PROVE  RunFor(j, <<c, prefs[c]>>)'
    BY DEF RunsRight
  <2>1. j \in mailing /\ j.note \in Notes
    BY <1>1 DEF Inv, Typed, Mailing
  <2>2. RunFor(j, <<c, prefs[c]>>)
    BY <1>2, <2>1 DEF MailInv, RunsRight
  <2> QED
    BY <1>1, <2>2 DEF RunFor, InQueue, Delivered
<1>6. MailOnItsWay'
  <2> SUFFICES ASSUME NEW n \in Notes, NEW c \in Copayers, Due(n, c)'
               PROVE  OnItsWay(n, <<c, prefs[c]>>)'
    BY DEF MailOnItsWay
  <2>r. PICK r : r = <<c, prefs[c]>>
    OBVIOUS
  <2>1. OnItsWay(n, r) /\ n \notin hit'
    BY <1>2, <2>r DEF MailInv, MailOnItsWay
  <2>2. (Coming(n) => Coming(n)') /\ (Working(n) => Working(n)')
    BY <1>1, <1>3, <2>1 DEF Coming, Working
  <2>3. OnItsWay(n, r)'
    BY <1>1, <2>1, <2>2 DEF OnItsWay, Queued, Delivered
  <2> QED
    BY <1>1, <2>3, <2>r
<1> QED
  BY <1>4, <1>5, <1>6 DEF MailInv

LEMMA SendEmailMoves ==
  ASSUME Inv, MailInv, SendEmail
  PROVE  MailInv'
<1>1. ASSUME NEW message \in inbox, message[1] \in Mailers,
             ReceiveMail(message[1], message[2])
      PROVE  MailInv'
  BY <1>1, ReceiveMailMoves
<1>2. ASSUME NEW job \in mailing, NEW r \in job.list  PROVE r \in Recipient
  BY DEF Inv, Typed, Mailing
<1>3. ASSUME NEW job \in mailing, GiveUp(job) \/ ExpireLock(job) \/ MailFails(job)
      PROVE  MailInv'
  BY <1>3, FaultStepKeeps
<1>4. ASSUME NEW job \in mailing,
             CheckShouldSend(job) \/ GetRecipientsList(job) \/ TakeLock(job) \/ FetchEmail(job)
      PROVE  MailInv'
  BY <1>4, LookStepKeeps
<1>5. ASSUME NEW job \in mailing, NEW r \in job.list,
             \/ StoreEmail(job, r) \/ StoreFails(job, r) \/ Send(job, r)
             \/ StoreResult(job, r) \/ MailerRefuses(job, r) \/ ResultFails(job, r)
      PROVE  MailInv'
  BY <1>2, <1>5, FaultStepKeeps, StoreEmailMoves, SendMoves, StoreResultMoves
<1>6. ASSUME NEW who \in Mailers, MailerDies(who)  PROVE MailInv'
  BY <1>6, MailerDiesMoves
<1> QED
  BY <1>1, <1>3, <1>4, <1>5, <1>6 DEF SendEmail

-----------------------------------------------------------------------------
(* What the other parts do to a mail on its way: they let it pass. *)
MailUntouched ==
  /\ UNCHANGED <<mailing, queue, sent, overrun>>
  /\ \A n \in Notes :
       /\ stage[n] # "new" => stage'[n] # "new" /\ ids'[n] = ids[n]
       /\ stage[n] = "done" => stage'[n] = "done"
  /\ \A message \in inbox' : stage'[message[2]] = "done"
  /\ \A who \in Mailers : MessagesKept(who)

LEMMA MailAlone ==
  ASSUME Inv, MailInv, NotificationDeliveryAssumption, [Next]_vars, ~SendEmail
  PROVE  MailUntouched
<1> USE DEF writers, client, mails, push, people
<1>0. /\ stage \in [Notes -> {"new", "store", "send", "done"}] /\ ids \in [Notes -> Nat]
      /\ \A message \in inbox : message[2] \in Notes /\ stage[message[2]] = "done"
  BY DEF Inv, Typed, MailInv, NotesOut
<1>1. ASSUME UNCHANGED <<mailing, queue, sent, overrun, stage, ids>>, inbox' \subseteq inbox,
             \A n \in Notes, who \in Mailers : <<who, n>> \in inbox => <<who, n>> \in inbox'
      PROVE  MailUntouched
  BY <1>0, <1>1 DEF MailUntouched, MessagesKept
<1>2. CASE Notify
  <2>1. \A who \in Mailers : MessagesKept(who)
    BY <1>2, BrokerSends
  <2>2. CASE Tick
    BY <1>0, <1>1, <2>2 DEF Tick
  <2>3. ASSUME NEW n \in Notes, Create(n)  PROVE MailUntouched
    <3>1. /\ stage[n] = "new" /\ stage' = [stage EXCEPT ![n] = "store"]
          /\ ids' = [ids EXCEPT ![n] = NotificationId(n)]
          /\ UNCHANGED <<mailing, queue, sent, overrun, inbox>>
      BY <2>3 DEF Create
    <3>2. \A m \in Notes : m # n => stage'[m] = stage[m] /\ ids'[m] = ids[m]
      BY <1>0, <3>1
    <3> QED
      BY <1>0, <2>1, <3>1, <3>2 DEF MailUntouched
  <2>4. ASSUME NEW n \in Notes, StoreNotification(n) \/ SendMessage(n) \/ WriterDies(n)
        PROVE  MailUntouched
    <3>1. /\ stage[n] # "new" /\ stage[n] # "done"
          /\ \/ stage' = [stage EXCEPT ![n] = "send"] /\ inbox' = inbox
             \/ /\ stage' = [stage EXCEPT ![n] = "done"]
                /\ \A message \in inbox' : message \in inbox \/ message[2] = n
          /\ UNCHANGED <<mailing, queue, sent, overrun, ids>>
      BY <2>4 DEF StoreNotification, SendMessage, WriterDies
    <3>2. \A m \in Notes : m # n => stage'[m] = stage[m]
      BY <1>0, <3>1
    <3>3. stage'[n] # "new" /\ \A message \in inbox' : stage'[message[2]] = "done"
      BY <1>0, <3>1, <3>2
    <3> QED
      BY <2>1, <3>1, <3>2, <3>3 DEF MailUntouched
  <2>5. ASSUME NEW message \in inbox, LoseMessage(message)  PROVE MailUntouched
    <3>1. inbox' \subseteq inbox /\ UNCHANGED <<mailing, queue, sent, overrun, stage, ids>>
      BY <2>5 DEF LoseMessage
    <3> QED
      BY <1>0, <2>1, <3>1 DEF MailUntouched
  <2> QED
    BY <1>2, <2>2, <2>3, <2>4, <2>5 DEF Notify
<1>3. CASE SendPush
  <2>1. ASSUME NEW n \in Notes, ReceivePush(n)  PROVE MailUntouched
    <3>1. /\ UNCHANGED <<mailing, queue, sent, overrun, stage, ids>>
          /\ inbox' = inbox \ {<<Pusher, n>>}
      BY <2>1 DEF ReceivePush
    <3>2. \A who \in Mailers : who # Pusher
      BY DEF NotificationDeliveryAssumption
    <3> QED
      BY <1>1, <3>1, <3>2
  <2>2. ASSUME NEW job,
               \/ CheckShouldPush(job) \/ GetPushRecipients(job) \/ MakeRequests(job)
               \/ PushFails(job) \/ PusherDies
               \/ \E c \in job.todo : FetchPushSubs(job, c)
        PROVE  UNCHANGED <<mailing, queue, sent, overrun, stage, ids, inbox>>
    BY <2>2 DEF CheckShouldPush, GetPushRecipients, MakeRequests, PushFails, FetchPushSubs,
                PusherDies, OthersUnmoved
  <2> QED
    BY <1>1, <1>3, <2>1, <2>2 DEF SendPush
<1>4. CASE Poll \/ ChangeSettings \/ UNCHANGED vars
  <2>1. UNCHANGED <<mailing, queue, sent, overrun, stage, ids, inbox>>
    BY <1>4 DEF Poll, StartPoll, ReadPart, ChangeSettings, SavePreferences,
                PushNotificationsSubscribe, PushNotificationsUnsubscribe, vars
  <2> QED
    BY <1>1, <2>1
<1> QED
  BY <1>2, <1>3, <1>4 DEF Next

LEMMA MailRests ==
  ASSUME Inv, MailInv, Growing, MailUntouched
  PROVE  MailInv'
<1> USE DEF MailUntouched
<1>1. /\ \A job \in mailing : job.note \in Notes /\ stage[job.note] = "done"
      /\ \A mail \in queue : mail.note \in Notes /\ stage[mail.note] = "done"
                             /\ mail.id = ids[mail.note]
  BY DEF Inv, Typed, Mailing, MailInv, NotesOut
<1>2. NotesOut' /\ FaultsHit'
  BY <1>1 DEF MailInv, NotesOut, FaultsHit, Growing
<1>3. \A o \in Notes : stage[o] # "new" => stage'[o] # "new" /\ ids'[o] = ids[o]
  OBVIOUS
<1>4. RunsRight'
  <2> SUFFICES ASSUME NEW j \in mailing, NEW c \in Copayers, Due(j.note, c)'
               PROVE  RunFor(j, <<c, prefs[c]>>)'
    BY DEF RunsRight
  <2>1. Due(j.note, c) /\ prefs'[c] = prefs[c]
    BY <1>1, <1>3, DueBefore
  <2>2. RunFor(j, <<c, prefs[c]>>)
    BY <2>1 DEF MailInv, RunsRight
  <2> QED
    BY <2>1, <2>2 DEF RunFor, InQueue, Delivered
<1>5. MailOnItsWay'
  <2> SUFFICES ASSUME NEW n \in Notes, NEW c \in Copayers, Due(n, c)'
               PROVE  OnItsWay(n, <<c, prefs[c]>>)'
    BY DEF MailOnItsWay
  <2>1. n \notin hit' /\ stage'[n] = "done" /\ OwnId(n)' /\ Mailers \cap scene.up # {}
    BY DEF Due, Growing
  <2>2. CASE stage[n] = "done"
    <3>1. Due(n, c) /\ prefs'[c] = prefs[c]
      BY <1>3, <2>2, DueBefore
    <3>r. PICK r : r = <<c, prefs[c]>>
      OBVIOUS
    <3>2. OnItsWay(n, r)
      BY <3>1, <3>r DEF MailInv, MailOnItsWay
    <3>3. Coming(n) => Coming(n)'
      BY <2>1 DEF Coming, MessagesKept
    <3>4. Queued(n)' => Queued(n)
      BY <2>2 DEF Queued
    <3>5. OnItsWay(n, r)'
      BY <3>2, <3>3, <3>4 DEF OnItsWay, Working, Delivered
    <3> QED
      BY <3>1, <3>5, <3>r
  <2>3. CASE stage[n] # "done"
    <3>1. Coming(n)'
      <4>1. PICK who \in Mailers : who \in scene.up
        BY <2>1
      <4>2. <<who, n>> \in inbox'
        BY <2>1, <2>3, <4>1 DEF MessagesKept
      <4> QED
        BY <4>2 DEF Coming
    <3>2. ~Queued(n)'
      <4> SUFFICES ASSUME NEW mail \in queue, mail.id = ids'[n]  PROVE FALSE
        BY DEF Queued
      <4>1. mail.note \in Notes /\ mail.note # n /\ ids'[mail.note] = ids'[n]
            /\ stage'[mail.note] # "new"
        BY <1>1, <2>3
      <4> QED
        BY <2>1, <4>1 DEF OwnId
    <3> QED
      BY <3>1, <3>2 DEF OnItsWay
  <2> QED
    BY <2>2, <2>3
<1> QED
  BY <1>2, <1>4, <1>5 DEF MailInv

(* A copayer with an address of his own gets every mail that is for him, exactly once,
   and the collection says that it was sent; unless a fault met the notification, or
   another one has its id. *)
THEOREM MailArrives == Spec => []MailReaches
<1> USE NotificationDeliveryAssumption
<1>1. Init => MailInv
  <2> SUFFICES ASSUME Init PROVE MailInv
    OBVIOUS
  <2>1. NotesOut /\ FaultsHit
    BY DEF Init, NotesOut, FaultsHit
  <2>2. RunsRight /\ MailOnItsWay
    BY DEF Init, RunsRight, MailOnItsWay, Due
  <2> QED
    BY <2>1, <2>2 DEF MailInv
<1>2. Inv /\ PushTyped /\ MailInv /\ [Next]_vars => MailInv'
  <2> SUFFICES ASSUME Inv, PushTyped, MailInv, [Next]_vars  PROVE MailInv'
    OBVIOUS
  <2>1. CASE SendEmail
    BY <2>1, SendEmailMoves
  <2>2. CASE ~SendEmail
    BY <2>2, StepsGrow, MailAlone, MailRests
  <2> QED
    BY <2>1, <2>2
<1>3. Inv /\ MailInv => MailReaches
  <2> SUFFICES ASSUME Inv, MailInv, NEW n \in Notes, Mailed(n), OwnId(n), NEW c \in Copayers,
                      Told(n, c), prefs[c] # None, ShouldMail(n, c), OwnAddress(n, c)
               PROVE  /\ sent[<<n, prefs[c]>>] = 1
                      /\ \E mail \in queue :
                           mail.note = n /\ mail.to = <<c, prefs[c]>> /\ mail.status = "sent"
    BY DEF MailReaches
  <2>1. Due(n, c)
    BY DEF Due, Mailed, Settled
  <2>2. ~Coming(n) /\ ~Working(n)
    BY DEF Coming, Working, Mailed, Settled
  <2>r. PICK r : r = <<c, prefs[c]>>
    OBVIOUS
  <2>3. Delivered(n, r)
    BY <2>1, <2>2, <2>r DEF MailInv, MailOnItsWay, OnItsWay
  <2>4. prefs[c] \in Emails /\ sent[<<n, prefs[c]>>] \in Nat
    BY DEF Inv, Typed
  <2>5. Clear(ids[n])
    BY DEF Clear, Inv, Begun, Typed, MailInv, FaultsHit, OwnId, Mailed, Settled
  <2>6. sent[<<n, prefs[c]>>] <= 1
    BY <2>4, <2>5 DEF Inv, AtMostOnce
  <2>7. r[2] = prefs[c] /\ sent[<<n, prefs[c]>>] # 0
    BY <2>3, <2>r DEF Delivered
  <2> QED
    BY <2>3, <2>4, <2>6, <2>7, <2>r DEF Delivered
<1>4. Spec => []PushTyped
  BY PushInvariance, PTL DEF PushInv
<1> QED
  BY <1>1, <1>2, <1>3, <1>4, Invariance, PTL DEF Spec
=============================================================================
