--------------------------- MODULE MCBtcBlockScan ---------------------------
(* Instances of BtcBlockScan for TLC. *)
EXTENDS BtcBlockScan

CONSTANTS a, b

Pay(txid, vin, vout) == [txid |-> txid, vin |-> vin, vout |-> vout]

(* t2 makes an output that t3 spends in the same block; t4 spends outputs of both
   blocks before it. *)
Payments == << <<Pay("t1", {}, <<a>>)>>,
               <<Pay("t2", {}, <<a>>), Pay("t3", {<<"t2", 1>>}, <<b>>)>>,
               <<Pay("t4", {<<"t1", 1>>, <<"t3", 1>>}, <<None, a>>)>>,
               <<>> >>
=============================================================================
