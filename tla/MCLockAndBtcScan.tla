-------------------------- MODULE MCLockAndBtcScan --------------------------
(***************************************************************************)
(* Instances of LocalLock and BtcBlockScan for TLC.  They have no variable *)
(* in common: a behaviour is one of either, and the other stays in an      *)
(* initial state.                                                          *)
(***************************************************************************)
EXTENDS LocalLock, MCBtcBlockScan

VARIABLE part

allVars == <<localVars, vars, part>>

(* The scan before it begins; a lock nobody asks for has armed no timer. *)
NoScan == Init /\ known = Own /\ tip = 1

EitherInit ==
  \/ part = "lock" /\ LocalInit /\ NoScan
  \/ part = "scan" /\ Init /\ LocalInit

(* The calls of the lock are finite: after the last one is answered it rests. *)
Rest ==
  /\ \A t \in Tasks : token[t] # NoToken /\ fn[t] # "working"
  /\ waitTimer = {} /\ maxTimer = {}
  /\ UNCHANGED localVars

EitherNext ==
  \/ part = "lock" /\ (LocalNext \/ Rest) /\ UNCHANGED <<vars, part>>
  \/ part = "scan" /\ Next /\ UNCHANGED <<localVars, part>>

(* The fairness of FairSpec, where the scan is what goes on. *)
On == part = "scan"
ScanFairness ==
  /\ WF_vars(On /\ Wake) /\ WF_vars(On /\ Load) /\ WF_vars(On /\ Latest)
  /\ WF_vars(On /\ GetBlock) /\ WF_vars(On /\ Store) /\ WF_vars(On /\ ProcessBlock)
  /\ WF_vars(On /\ CheckDBBlockState) /\ WF_vars(On /\ LoadSaved)
  /\ WF_vars(On /\ LoadAddresses) /\ WF_vars(On /\ StartScan)
  /\ WF_vars(On /\ \E op \in pending : Answer(op))

EitherSpec == EitherInit /\ [][EitherNext]_allVars /\ LocalFairness /\ ScanFairness
=============================================================================
