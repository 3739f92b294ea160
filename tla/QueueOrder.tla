----------------------------- MODULE QueueOrder -----------------------------
(* The order of the keys in a queue. *)
EXTENDS Naturals, Sequences

(* t is in front of u in the queue s. *)
Before(s, t, u) == \E i, j \in 1 .. Len(s) : i < j /\ s[i] = t /\ s[j] = u
=============================================================================
