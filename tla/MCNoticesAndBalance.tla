------------------------ MODULE MCNoticesAndBalance ------------------------
(***************************************************************************)
(* Instances of ExplorerMonitor and of WalletBalance for TLC.  They have   *)
(* no variable in common: a behaviour is one of either, and the other      *)
(* stays in an initial state.                                              *)
(***************************************************************************)
EXTENDS MCExplorerMonitor, WalletBalance

CONSTANTS old1, old2, new1, r1

VARIABLE part

allVars == <<eventVars, balanceVars, part>>

(* The other one, with nothing to do. *)
NoEvents == NoticesInit({}) /\ events = <<>>
NoCoins == BalanceInit /\ funded = {}

EitherInit ==
  \/ part = "notices" /\ EventsInit /\ NoCoins
  \/ part = "balance" /\ BalanceInit /\ NoEvents

EitherNext ==
  \/ part = "notices" /\ EventsNext /\ UNCHANGED <<balanceVars, part>>
  \/ part = "balance" /\ BalanceNext /\ UNCHANGED <<eventVars, part>>

(* Fairness only where the balance is what goes on. *)
EitherSpec ==
  /\ EitherInit /\ [][EitherNext]_allVars
  /\ (part = "balance") => BalanceFairness
=============================================================================
