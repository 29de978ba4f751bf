----------------------------- MODULE MCNodeDrain -----------------------------
(* Instances of NodeDrain for TLC: o is a drain with a hook before and one  *)
(* after, p has the same hooks but evicts nothing, q asks for nothing.      *)
EXTENDS NodeDrain

CONSTANTS o, p, q, h, i

Pre == [x \in {o, p, q} |-> IF x = q THEN {} ELSE {h}]
Post == [x \in {o, p, q} |-> IF x = q THEN {} ELSE {i}]

=============================================================================
