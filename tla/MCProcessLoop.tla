---------------------------- MODULE MCProcessLoop ----------------------------
(* Instances of ProcessLoop for TLC: a starts the cluster and has the etcd  *)
(* role only, b has both roles of a server, c is a control plane machine.   *)
EXTENDS ProcessLoop

CONSTANTS a, b, c

OrderABC == [m \in {a, b, c} |-> CASE m = a -> 1 [] m = b -> 2 [] m = c -> 3]

\* Snapshots and restores can be asked for twice, the second rotation of keys
\* is one that the release does not support.
FewGenerations ==
  [o \in Operations |-> IF o = "certs" THEN {1} ELSE {1, 2}]

=============================================================================
