--------------------- MODULE MCNotificationDelivery ---------------------
(* Instances of NotificationDelivery for TLC. *)
EXTENDS NotificationDelivery, TLC

CONSTANTS w1, w2, net, alice, bob, carol, dave, prop, conf, block, pay, other, s1, s2

(* alice, bob and dave share w1, carol has w2. *)
Owners == alice :> w1 @@ bob :> w1 @@ dave :> w1 @@ carol :> w2
TwoOfThree == w1 :> 2 @@ w2 :> 1

Types == prop :> "NewTxProposal" @@ conf :> "TxConfirmation" @@ block :> "NewBlock"
         @@ pay :> "NewIncomingTx" @@ other :> "NewOutgoingTx"
Of == prop :> w1 @@ conf :> w1 @@ block :> net @@ pay :> w1 @@ other :> w2
By == prop :> alice @@ conf :> bob @@ block :> None @@ pay :> None @@ other :> carol

On(f) == [n \in Notes |-> f[n]]
TypesOf == On(Types)
WalletsOf == On(Of)
Creators == On(By)
Tickers == [n \in Notes |-> 0]
OwnersOf == [c \in Copayers |-> Owners[c]]
Quorums == [w \in Wallets |-> TwoOfThree[w]]

Scene(up, notes, mailed, devices) ==
  [up |-> up, notes |-> notes, mailed |-> mailed, devices |-> devices]

(* Two email services; mails for two wallets; the push service; a client. *)
AllScenes == {Scene(Mailers, {pay}, {alice, bob}, {}),
              Scene({s1}, {prop, other}, {alice, bob, carol}, {}),
              Scene({Pusher}, {prop, conf}, {}, {alice, bob, dave}),
              Scene({Client}, {prop, conf, block}, {}, {})}

Symmetric == Permutations(Mailers)
=============================================================================
