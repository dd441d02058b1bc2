---------------------------- MODULE MCOrderGateway ----------------------------
(* Instances of OrderGateway for TLC: an entry order and one replacement. *)
EXTENDS OrderGateway, TLC

CONSTANTS o1, r1, d1, d2, k1

MCReplaces == (o1 :> NoCid) @@ (r1 :> o1)
MCRoot == (o1 :> o1) @@ (r1 :> o1)

=============================================================================
