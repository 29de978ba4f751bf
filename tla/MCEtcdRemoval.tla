---------------------------- MODULE MCEtcdRemoval ----------------------------
(* Instances of EtcdRemoval for TLC: a is the init node and has the etcd    *)
(* role only, b and n have both roles of a server, w is a worker.           *)
EXTENDS EtcdRemoval

CONSTANTS a, b, n, w

ByName == [m \in {a, b, n, w} |->
             CASE m = a -> 1 [] m = b -> 2 [] m = n -> 3 [] m = w -> 4]

=============================================================================
