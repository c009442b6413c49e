------------------------ MODULE NotificationDelivery ------------------------
(***************************************************************************)
(* How a notification gets to people: _notify stores it and sends it       *)
(* through the message broker, the email services and the push service     *)
(* tell copayers of it, clients ask for all after the last they know.      *)
(* Each database call, each mail and each message is a step; the processes *)
(* share the database, the locker and the broker.  A behaviour is shorter  *)
(* than the time span in which a client finds notifications.               *)
(***************************************************************************)
EXTENDS Naturals, FiniteSets

CONSTANTS Notes,      \* the notifications of a behaviour
          TypeOf, WalletOf, Creator, Ticker, \* what they are; the network is the wallet of NewBlock
          Network, Wallets, Copayers, MemberOf,
          Signatures, \* m of each wallet
          Emails, Tokens,
          Mailers,    \* the processes of the email service
          Pusher,     \* that of the push service
          Polled,     \* the wallet whose client is modelled
          Client, None,
          Scenes,     \* bound: which processes run in a behaviour, which notifications
                      \* are made, and which copayers have addresses and devices
          MaxClock,   \* bound: milliseconds
          MaxChanges, \* bound: changes of preferences and subscriptions
          MaxFaults,  \* bound: faults in a behaviour
          Faults      \* the faults that may happen

ASSUME NotificationDeliveryAssumption ==
  /\ WalletOf \in [Notes -> Wallets \cup {Network}]
  /\ MemberOf \in [Copayers -> Wallets]
  /\ Creator \in [Notes -> Copayers \cup {None}]
  /\ Ticker \in [Notes -> 0..9]
  /\ Signatures \in [Wallets -> Nat \ {0}]
  /\ Polled \in Wallets /\ Network \notin Wallets
  /\ None \notin Copayers \cup Emails
  /\ Pusher \notin Mailers /\ Client \notin Mailers \cup {Pusher}
  /\ Scenes \subseteq [up : SUBSET (Mailers \cup {Pusher, Client}), notes : SUBSET Notes,
                       mailed : SUBSET Copayers, devices : SUBSET Copayers]
  /\ MaxClock \in Nat /\ MaxChanges \in Nat /\ MaxFaults \in Nat

VARIABLES scene,   \* the scene of this behaviour
          clock,
          stage,   \* what _notify has to do next, by notification
          ids,     \* the id of a notification
          rows,    \* the notifications collection
          inbox,   \* messages of the broker on their way, with the receiver
          mailing, \* the runs of sendEmail
          pushing, \* the runs of _sendPushNotifications
          prefs,   \* the email address of a copayer
          tokens,  \* push notification subscriptions of a copayer
          queue,   \* the emails collection
          last,    \* the greatest id the client knows
          poll,    \* getNotifications: what it has yet to read and what it has read
          sent,    \* history: how often a mail was sent, by notification and address
          pushed,  \* history: the requests to the push server
          seen,    \* history: what the client got
          late,    \* history: stored when the client had read past it
          hit,     \* history: notifications that a fault met
          overrun, \* history: notifications whose run lost its lock
          changed, \* history: copayers who changed preferences or subscriptions
          changes, faults

writers == <<scene, clock, stage, ids, rows>>
client == <<last, poll, seen, late>>
mails == <<mailing, queue, sent, overrun>>
push == <<pushing, pushed>>
people == <<prefs, tokens, changed, changes>>
vars == <<writers, client, mails, push, people, inbox, hit, faults>>

Kinds == {"NewCopayer", "WalletComplete", "NewTxProposal", "NewOutgoingTx", "NewIncomingTx",
          "TxProposalFinallyRejected", "TxConfirmation"}

(* EMAIL_TYPES *)
NotifyDoer == {"WalletComplete", "NewOutgoingTx", "NewIncomingTx", "TxConfirmation"}
NotifyOthers == Kinds \ {"TxConfirmation"}

(* PUSHNOTIFICATIONS_TYPES *)
NotifyCreatorOnly == {"TxConfirmation"}

Recipient == Copayers \X Emails

Mailing == [who : Mailers, note : Notes,
            at : {"check", "recipients", "lock", "fetch", "store", "landing", "send"},
            locked : BOOLEAN, list : SUBSET Recipient,
            todo : SUBSET Recipient, out : SUBSET Recipient]

Pushing == [note : Notes, at : {"check", "recipients", "subs"},
            todo : SUBSET Copayers, messages : SUBSET (Copayers \X Tokens)]

Mail == [id : Nat, note : Notes, to : Recipient, status : {"pending", "sent", "fail"}]

TypeOK ==
  /\ scene \in Scenes
  /\ clock \in 1..MaxClock
  /\ stage \in [Notes -> {"new", "store", "send", "done"}]
  /\ ids \in [Notes -> Nat]
  /\ rows \subseteq Notes
  /\ inbox \subseteq (Mailers \cup {Pusher}) \X Notes
  /\ mailing \subseteq Mailing
  /\ pushing \subseteq Pushing
  /\ prefs \in [Copayers -> Emails \cup {None}]
  /\ tokens \in [Copayers -> SUBSET Tokens]
  /\ queue \subseteq Mail
  /\ last \in Nat
  /\ poll \in [left : SUBSET {Polled, Network}, got : SUBSET Notes]
  /\ sent \in [Notes \X Emails -> Nat]
  /\ pushed \subseteq Notes \X Copayers \X Tokens
  /\ seen \subseteq Notes /\ late \subseteq Notes /\ hit \subseteq Notes
  /\ overrun \subseteq Notes
  /\ changed \subseteq Copayers
  /\ changes \in 0..MaxChanges /\ faults \in 0..MaxFaults

Init ==
  /\ scene \in Scenes
  /\ clock = 1
  /\ stage = [n \in Notes |-> "new"]
  /\ ids = [n \in Notes |-> 0]
  /\ rows = {} /\ inbox = {}
  /\ mailing = {} /\ pushing = {} /\ queue = {}
  /\ prefs \in [Copayers -> Emails \cup {None}]
  /\ \A c \in Copayers \ scene.mailed : prefs[c] = None
  /\ tokens \in [Copayers -> SUBSET Tokens]
  /\ \A c \in Copayers \ scene.devices : tokens[c] = {}
  /\ last = 0
  /\ poll = [left |-> {}, got |-> {}]
  /\ sent = [x \in Notes \X Emails |-> 0]
  /\ pushed = {} /\ seen = {} /\ late = {} /\ hit = {} /\ overrun = {}
  /\ changed = {} /\ changes = 0 /\ faults = 0

Fault(kind, note) ==
  /\ kind \in Faults
  /\ faults < MaxFaults
  /\ faults' = faults + 1
  /\ hit' = hit \cup {note}

NoFault == UNCHANGED <<faults, hit>>

-----------------------------------------------------------------------------
(* _notify *)

Tick ==
  /\ clock < MaxClock
  /\ clock' = clock + 1
  /\ UNCHANGED <<scene, stage, ids, rows, client, mails, push, people, inbox, faults, hit>>

(* Model.Notification.create: the time, then the ticker of the request. *)
NotificationId(n) == 10 * clock + Ticker[n]

Create(n) ==
  /\ n \in scene.notes /\ stage[n] = "new"
  /\ stage' = [stage EXCEPT ![n] = "store"]
  /\ ids' = [ids EXCEPT ![n] = NotificationId(n)]
  /\ UNCHANGED <<scene, clock, rows, client, mails, push, people, inbox>> /\ NoFault

(* storeNotification; _notify goes on to send the message if it fails. *)
Overtaken(n) ==
  /\ WalletOf[n] \in {Polled, Network}
  /\ \/ ids[n] <= last
     \/ poll.left # {} /\ WalletOf[n] \notin poll.left

StoreNotification(n) ==
  /\ stage[n] = "store"
  /\ stage' = [stage EXCEPT ![n] = "send"]
  /\ \/ /\ rows' = rows \cup {n}
        /\ late' = IF Overtaken(n) THEN late \cup {n} ELSE late
        /\ NoFault
     \/ Fault("unstored", n) /\ UNCHANGED <<rows, late>>
  /\ UNCHANGED <<scene, clock, ids, last, poll, seen, mails, push, people, inbox>>

(* messageBroker.send, to every process that listens. *)
SendMessage(n) ==
  /\ stage[n] = "send"
  /\ stage' = [stage EXCEPT ![n] = "done"]
  /\ inbox' = inbox \cup ((scene.up \ {Client}) \X {n})
  /\ UNCHANGED <<scene, clock, ids, rows, client, mails, push, people>> /\ NoFault

(* The process dies before it has sent the message. *)
WriterDies(n) ==
  /\ stage[n] \in {"store", "send"}
  /\ Fault("crash", n)
  /\ stage' = [stage EXCEPT ![n] = "done"]
  /\ UNCHANGED <<scene, clock, ids, rows, client, mails, push, people, inbox>>

(* A receiver that has lost its connection to the broker misses a message. *)
LoseMessage(message) ==
  /\ Fault("lost", message[2])
  /\ inbox' = inbox \ {message}
  /\ UNCHANGED <<writers, client, mails, push, people>>

-----------------------------------------------------------------------------
(* sendEmail *)

BecomeMailing(job, others) == mailing' = (mailing \ {job}) \cup others
OthersUnchanged == UNCHANGED <<writers, client, push, people, inbox>>

ReceiveMail(who, n) ==
  /\ <<who, n>> \in inbox
  /\ inbox' = inbox \ {<<who, n>>}
  /\ mailing' = mailing \cup
       (IF TypeOf[n] \in Kinds
        THEN {[who |-> who, note |-> n, at |-> "check", locked |-> FALSE,
               list |-> {}, todo |-> {}, out |-> {}]}
        ELSE {})
  /\ UNCHANGED <<writers, client, push, people, queue, sent, overrun>> /\ NoFault

(* _checkShouldSendEmail *)
Worthwhile(n) == TypeOf[n] = "NewTxProposal" => Signatures[WalletOf[n]] > 1

CheckShouldSend(job) ==
  /\ job.at = "check"
  /\ BecomeMailing(job, IF Worthwhile(job.note) THEN {[job EXCEPT !.at = "recipients"]} ELSE {})
  /\ OthersUnchanged /\ UNCHANGED <<queue, sent, overrun>> /\ NoFault

ShouldMail(n, c) ==
  IF Creator[n] = c THEN TypeOf[n] \in NotifyDoer ELSE TypeOf[n] \in NotifyOthers

Members(n) == {c \in Copayers : MemberOf[c] = WalletOf[n]}

(* Of the copayers with one address, the first in the collection is looked at; if
   it is not for that one, nobody is mailed at the address. *)
RecipientsLists(n) ==
  LET with == {c \in Members(n) : prefs[c] # None}
      used == {prefs[c] : c \in with}
      Firsts == {f \in [used -> with] : \A e \in used : prefs[f[e]] = e}
  IN {{<<f[e], e>> : e \in {x \in used : ShouldMail(n, f[x])}} : f \in Firsts}

GetRecipientsList(job) ==
  /\ job.at = "recipients"
  /\ \E list \in RecipientsLists(job.note) :
       BecomeMailing(job, IF list = {} THEN {}
                          ELSE {[job EXCEPT !.at = "lock", !.list = list]})
  /\ OthersUnchanged /\ UNCHANGED <<queue, sent, overrun>> /\ NoFault

(* runLocked, with the id of the notification in the token. *)
LockFree(job) ==
  \A j \in mailing : j.locked => ids[j.note] # ids[job.note]

TakeLock(job) ==
  /\ job.at = "lock" /\ LockFree(job)
  /\ BecomeMailing(job, {[job EXCEPT !.at = "fetch", !.locked = TRUE]})
  /\ OthersUnchanged /\ UNCHANGED <<queue, sent, overrun>> /\ NoFault

(* WALLET_BUSY after ten seconds in line. *)
GiveUp(job) ==
  /\ job.at = "lock" /\ ~LockFree(job)
  /\ Fault("busy", job.note)
  /\ BecomeMailing(job, {})
  /\ OthersUnchanged /\ UNCHANGED <<queue, sent, overrun>>

(* The lock is lost after five minutes, the run goes on. *)
ExpireLock(job) ==
  /\ job.locked
  /\ Fault("expiry", job.note)
  /\ BecomeMailing(job, {[job EXCEPT !.locked = FALSE]})
  /\ OthersUnchanged /\ overrun' = overrun \cup {job.note} /\ UNCHANGED <<queue, sent>>

(* Mutant of Queued: an email that was sent. *)
QueuedAndSent(n) == \E mail \in queue : mail.id = ids[n] /\ mail.status = "sent"

(* fetchEmailByNotification *)
Queued(n) == \E mail \in queue : mail.id = ids[n]

FetchEmail(job) ==
  /\ job.at = "fetch"
  /\ BecomeMailing(job, IF Queued(job.note) THEN {}
                        ELSE {[job EXCEPT !.at = "store", !.todo = job.list]})
  /\ OthersUnchanged /\ UNCHANGED <<queue, sent, overrun>> /\ NoFault

(* The emails are stored as pending, all at once and in any order; then they are
   sent.  When one fails the run is over, and the others still arrive. *)
Stored(job, r) == [job EXCEPT !.todo = @ \ {r}]

AfterStore(job) ==
  IF job.todo # {} THEN {job}
  ELSE IF job.at = "store" THEN {[job EXCEPT !.at = "send", !.todo = job.list]}
  ELSE {}

(* Mutant of StoreEmail: one email for a notification. *)
StoreEmailByNotification(job, r) ==
  /\ job.at \in {"store", "landing"} /\ r \in job.todo
  /\ queue' = {mail \in queue : mail.id # ids[job.note]} \cup
       {[id |-> ids[job.note], note |-> job.note, to |-> r, status |-> "pending"]}
  /\ BecomeMailing(job, AfterStore(Stored(job, r)))
  /\ OthersUnchanged /\ UNCHANGED <<sent, overrun>> /\ NoFault

StoreEmail(job, r) ==
  /\ job.at \in {"store", "landing"} /\ r \in job.todo
  /\ queue' = queue \cup
       {[id |-> ids[job.note], note |-> job.note, to |-> r, status |-> "pending"]}
  /\ BecomeMailing(job, AfterStore(Stored(job, r)))
  /\ OthersUnchanged /\ UNCHANGED <<sent, overrun>> /\ NoFault

StoreFails(job, r) ==
  /\ job.at = "store" /\ r \in job.todo
  /\ Fault("database", job.note)
  /\ BecomeMailing(job, AfterStore([Stored(job, r) EXCEPT !.at = "landing", !.locked = FALSE]))
  /\ OthersUnchanged /\ UNCHANGED <<queue, sent, overrun>>

(* _send, and its result: setSent or setFail, storeEmail. *)
Send(job, r) ==
  /\ job.at = "send" /\ r \in job.todo
  /\ sent' = [sent EXCEPT ![<<job.note, r[2]>>] = @ + 1]
  /\ BecomeMailing(job, {[job EXCEPT !.todo = @ \ {r}, !.out = @ \cup {r}]})
  /\ OthersUnchanged /\ UNCHANGED <<queue, overrun>> /\ NoFault

AfterResult(job, r) ==
  IF job.todo = {} /\ job.out \subseteq {r} THEN {} ELSE {[job EXCEPT !.out = @ \ {r}]}

Restated(job, r, status) ==
  {IF mail.note = job.note /\ mail.to = r THEN [mail EXCEPT !.status = status] ELSE mail
   : mail \in queue}

StoreResult(job, r) ==
  /\ job.at = "send" /\ r \in job.out
  /\ queue' = Restated(job, r, "sent")
  /\ BecomeMailing(job, AfterResult(job, r))
  /\ OthersUnchanged /\ UNCHANGED <<sent, overrun>> /\ NoFault

MailerRefuses(job, r) ==
  /\ job.at = "send" /\ r \in job.todo
  /\ Fault("mailer", job.note)
  /\ queue' = Restated(job, r, "fail")
  /\ BecomeMailing(job, AfterResult([job EXCEPT !.todo = @ \ {r}], r))
  /\ OthersUnchanged /\ UNCHANGED <<sent, overrun>>

(* The lock is released, the other emails are on their way. *)
ResultFails(job, r) ==
  /\ job.at = "send" /\ r \in job.out
  /\ Fault("database", job.note)
  /\ BecomeMailing(job, {[j EXCEPT !.locked = FALSE] : j \in AfterResult(job, r)})
  /\ OthersUnchanged /\ UNCHANGED <<queue, sent, overrun>>

(* Any other step fails: a read, or a template. *)
MailFails(job) ==
  /\ job.at \in {"check", "recipients", "fetch", "store"}
  /\ job.at = "store" => job.todo = job.list
  /\ Fault("database", job.note)
  /\ BecomeMailing(job, {})
  /\ OthersUnchanged /\ UNCHANGED <<queue, sent, overrun>>

(* A process dies with all its runs, and is started again. *)
MailerDies(who) ==
  /\ \E job \in mailing : job.who = who
  /\ "crash" \in Faults /\ faults < MaxFaults
  /\ faults' = faults + 1
  /\ hit' = hit \cup {job.note : job \in {j \in mailing : j.who = who}}
  /\ mailing' = {job \in mailing : job.who # who}
  /\ OthersUnchanged /\ UNCHANGED <<queue, sent, overrun>>

-----------------------------------------------------------------------------
(* _sendPushNotifications; there is no lock and no record of what was sent. *)

BecomePushing(job, others) == pushing' = (pushing \ {job}) \cup others
OthersUnmoved == UNCHANGED <<writers, client, mails, people, inbox>>

ReceivePush(n) ==
  /\ <<Pusher, n>> \in inbox
  /\ inbox' = inbox \ {<<Pusher, n>>}
  /\ pushing' = pushing \cup
       (IF TypeOf[n] \in Kinds
        THEN {[note |-> n, at |-> "check", todo |-> {}, messages |-> {}]} ELSE {})
  /\ UNCHANGED <<writers, client, mails, people, pushed>> /\ NoFault

CheckShouldPush(job) ==
  /\ job.at = "check"
  /\ BecomePushing(job, IF Worthwhile(job.note) THEN {[job EXCEPT !.at = "recipients"]} ELSE {})
  /\ OthersUnmoved /\ UNCHANGED pushed /\ NoFault

ShouldPush(n, c) == (Creator[n] = c) = (TypeOf[n] \in NotifyCreatorOnly)

GetPushRecipients(job) ==
  /\ job.at = "recipients"
  /\ BecomePushing(job, {[job EXCEPT !.at = "subs",
                                     !.todo = {c \in Members(job.note) : ShouldPush(job.note, c)}]})
  /\ OthersUnmoved /\ UNCHANGED pushed /\ NoFault

(* Mutant of FetchPushSubs: what the last recipient has. *)
FetchPushSubsLast(job, c) ==
  /\ job.at = "subs" /\ c \in job.todo
  /\ BecomePushing(job, {[job EXCEPT !.todo = @ \ {c}, !.messages = {c} \X tokens[c]]})
  /\ OthersUnmoved /\ UNCHANGED pushed /\ NoFault

(* fetchPushNotificationSubs, of every recipient at once *)
FetchPushSubs(job, c) ==
  /\ job.at = "subs" /\ c \in job.todo
  /\ BecomePushing(job, {[job EXCEPT !.todo = @ \ {c}, !.messages = @ \cup ({c} \X tokens[c])]})
  /\ OthersUnmoved /\ UNCHANGED pushed /\ NoFault

(* _makeRequest for all; an error of one is logged. *)
MakeRequests(job) ==
  /\ job.at = "subs" /\ job.todo = {}
  /\ pushed' = pushed \cup {<<job.note, m[1], m[2]>> : m \in job.messages}
  /\ BecomePushing(job, {})
  /\ OthersUnmoved /\ NoFault

PushFails(job) ==
  /\ job.at = "subs" => job.todo # {}
  /\ Fault("database", job.note)
  /\ BecomePushing(job, {})
  /\ OthersUnmoved /\ UNCHANGED pushed

PusherDies ==
  /\ pushing # {}
  /\ "crash" \in Faults /\ faults < MaxFaults
  /\ faults' = faults + 1
  /\ hit' = hit \cup {job.note : job \in pushing}
  /\ pushing' = {}
  /\ OthersUnmoved /\ UNCHANGED pushed

-----------------------------------------------------------------------------
(* The client, and what copayers change. *)

(* getNotifications: those of the wallet and those of the network are asked for at
   once, and come each on its own. *)
StartPoll ==
  /\ Client \in scene.up /\ poll.left = {}
  /\ poll' = [left |-> {Polled, Network}, got |-> {}]
  /\ UNCHANGED <<writers, last, seen, late, mails, push, people, inbox>> /\ NoFault

(* Mutant of FetchNotifications: those of the network when there are none of the
   wallet. *)
FetchFirst(w) ==
  IF poll.got # {} THEN {} ELSE {n \in rows : WalletOf[n] = w /\ ids[n] > last}

(* fetchNotifications *)
FetchNotifications(w) == {n \in rows : WalletOf[n] = w /\ ids[n] > last}

LatestId(notes) ==
  IF notes = {} THEN last
  ELSE CHOOSE i \in {ids[n] : n \in notes} : \A n \in notes : ids[n] <= i

ReadPart(w) ==
  /\ w \in poll.left
  /\ LET got == poll.got \cup FetchNotifications(w)
     IN IF poll.left = {w}
        THEN /\ poll' = [left |-> {}, got |-> {}]
             /\ seen' = seen \cup got
             /\ last' = LatestId(got)
        ELSE /\ poll' = [left |-> poll.left \ {w}, got |-> got]
             /\ UNCHANGED <<seen, last>>
  /\ UNCHANGED <<writers, late, mails, push, people, inbox>> /\ NoFault

Change(c) ==
  /\ changes < MaxChanges
  /\ changes' = changes + 1
  /\ changed' = changed \cup {c}

(* savePreferences, under the lock of the wallet *)
SavePreferences(c, email) ==
  /\ Change(c)
  /\ prefs' = [prefs EXCEPT ![c] = email]
  /\ UNCHANGED <<writers, client, mails, push, inbox, tokens>> /\ NoFault

PushNotificationsSubscribe(c, token) ==
  /\ Change(c)
  /\ tokens' = [tokens EXCEPT ![c] = @ \cup {token}]
  /\ UNCHANGED <<writers, client, mails, push, inbox, prefs>> /\ NoFault

PushNotificationsUnsubscribe(c, token) ==
  /\ Change(c)
  /\ tokens' = [tokens EXCEPT ![c] = @ \ {token}]
  /\ UNCHANGED <<writers, client, mails, push, inbox, prefs>> /\ NoFault

-----------------------------------------------------------------------------
Notify ==
  \/ Tick
  \/ \E n \in Notes :
       Create(n) \/ StoreNotification(n) \/ SendMessage(n) \/ WriterDies(n)
  \/ \E message \in inbox : LoseMessage(message)

SendEmail ==
  \/ \E message \in inbox : message[1] \in Mailers /\ ReceiveMail(message[1], message[2])
  \/ \E job \in mailing :
       \/ CheckShouldSend(job) \/ GetRecipientsList(job) \/ TakeLock(job) \/ GiveUp(job)
       \/ ExpireLock(job) \/ FetchEmail(job) \/ MailFails(job)
       \/ \E r \in job.list :
            \/ StoreEmail(job, r) \/ StoreFails(job, r) \/ Send(job, r)
            \/ StoreResult(job, r) \/ MailerRefuses(job, r) \/ ResultFails(job, r)
  \/ \E who \in Mailers : MailerDies(who)

SendPush ==
  \/ \E n \in Notes : ReceivePush(n)
  \/ \E job \in pushing :
       \/ CheckShouldPush(job) \/ GetPushRecipients(job) \/ MakeRequests(job)
       \/ PushFails(job)
       \/ \E c \in job.todo : FetchPushSubs(job, c)
  \/ PusherDies

Poll == StartPoll \/ \E w \in poll.left : ReadPart(w)

ChangeSettings ==
  \/ \E c \in scene.mailed, email \in Emails \cup {None} : SavePreferences(c, email)
  \/ \E c \in scene.devices, token \in Tokens :
       PushNotificationsSubscribe(c, token) \/ PushNotificationsUnsubscribe(c, token)

Next == Notify \/ SendEmail \/ SendPush \/ Poll \/ ChangeSettings

Spec == Init /\ [][Next]_vars

-----------------------------------------------------------------------------
(* Properties *)

(* No address gets a notification twice, however many email services run, fail and
   start again, unless one takes so long that the locker takes its lock. *)
MailedOnce ==
  \A n \in Notes, e \in Emails :
    sent[<<n, e>>] > 1 => \E o \in overrun : ids[o] = ids[n]

Settled(n) ==
  /\ stage[n] = "done" /\ n \notin hit
  /\ \A message \in inbox : message[2] # n
  /\ \A job \in mailing \cup pushing : job.note # n

Mailed(n) == Settled(n) /\ Mailers \cap scene.up # {}

OwnId(n) == \A o \in Notes \ {n} : stage[o] = "new" \/ ids[o] # ids[n]

Told(n, c) ==
  /\ TypeOf[n] \in Kinds /\ Worthwhile(n)
  /\ c \in Members(n) \ changed

OwnAddress(n, c) == \A d \in Members(n) \ {c} : d \notin changed /\ prefs[d] # prefs[c]

(* A copayer with an address of his own gets every mail that is for him, and the
   collection says that it was sent, unless a fault met that notification or another
   one has the same id. *)
MailReaches ==
  \A n \in Notes : Mailed(n) /\ OwnId(n) =>
    \A c \in Copayers :
      Told(n, c) /\ prefs[c] # None /\ ShouldMail(n, c) /\ OwnAddress(n, c) =>
        /\ sent[<<n, prefs[c]>>] = 1
        /\ \E mail \in queue :
             mail.note = n /\ mail.to = <<c, prefs[c]>> /\ mail.status = "sent"

(* Every device of a copayer hears of what others do, and of the confirmations that
   are his own. *)
PushReaches ==
  \A n \in Notes : Settled(n) =>
    \A c \in Copayers : Pusher \in scene.up /\ Told(n, c) => \A token \in Tokens :
      <<n, c, token>> \in pushed <=>
        token \in tokens[c] /\ (TypeOf[n] = "TxConfirmation" <=> Creator[n] = c)

(* A client that asks for what is after the last notification it knows misses one
   only if it was stored after a later one was read, or while a poll went on. *)
NothingMissed ==
  \A n \in rows :
    WalletOf[n] \in {Polled, Network} /\ ids[n] <= last => n \in seen \cup late

(* Such a client misses nothing. *)
ClientSeesAll ==
  \A n \in rows : WalletOf[n] \in {Polled, Network} /\ ids[n] <= last => n \in seen

(* Everybody who should be mailed is, at a shared address too. *)
EveryAddressReached ==
  \A n \in Notes : Mailed(n) /\ OwnId(n) =>
    \A c \in Copayers :
      /\ Told(n, c) /\ prefs[c] # None /\ ShouldMail(n, c)
      /\ Members(n) \cap changed = {}
      => sent[<<n, prefs[c]>>] = 1

(* The same for notifications that have one id. *)
MailReachesAll ==
  \A n \in Notes : Mailed(n) =>
    \A c \in Copayers :
      Told(n, c) /\ prefs[c] # None /\ ShouldMail(n, c) /\ OwnAddress(n, c) =>
        sent[<<n, prefs[c]>>] = 1
=============================================================================
