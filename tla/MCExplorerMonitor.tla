------------------------ MODULE MCExplorerMonitor ------------------------
(* Instances of ExplorerMonitor for TLC. *)
EXTENDS ExplorerMonitor, TLC

CONSTANTS w1, w2, a1, a2, c1, b1, t, u, alice, bob

(* Two receiving addresses and a change address of a wallet, one of another. *)
OwnerOf == a1 :> w1 @@ a2 :> w1 @@ c1 :> w1 @@ b1 :> w2

(* One transaction pays two wallets; another one the same wallet twice. *)
TwoWallets == t :> {a1, b1, c1} @@ u :> {a2}
BothWait == {alice, bob} \X {t}
OneWallet == t :> {a1, a2} @@ u :> {a2}
=============================================================================
