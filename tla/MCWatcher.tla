------------------------------ MODULE MCWatcher ------------------------------
(* Instances of Watcher for TLC. *)
EXTENDS Watcher, TLC

CONSTANTS a, b, c, k1, k2, w1, w2

\* "a/1" and "a:1" are both sanitised to "a_1"
Colliding == (a :> k1) @@ (b :> k1) @@ (c :> k2)
Single == (a :> k1)
=============================================================================
