------------------------------- MODULE Server -------------------------------
(***************************************************************************)
(* What every server of src/src/run.rs does in a run, however it is built: *)
(* it accepts Conns connections, reads one request from each and then      *)
(* writes one response to it.  Connections are told apart only by how far  *)
(* they are, so that the state is three counters.                          *)
(***************************************************************************)
EXTENDS Naturals

CONSTANT Conns

VARIABLES
  accepted,    \* connections accepted in this run
  received,    \* those whose request was read
  responded    \* those whose response was written

vars == <<accepted, received, responded>>

Init == accepted = 0 /\ received = 0 /\ responded = 0

Accept ==
  /\ accepted < Conns
  /\ accepted' = accepted + 1
  /\ UNCHANGED <<received, responded>>

Receive ==
  /\ received < accepted
  /\ received' = received + 1
  /\ UNCHANGED <<accepted, responded>>

Respond ==
  /\ responded < received
  /\ responded' = responded + 1
  /\ UNCHANGED <<accepted, received>>

(* A new run starts, but only when the last one served everyone. *)
Restart ==
  /\ responded = Conns
  /\ accepted' = 0 /\ received' = 0 /\ responded' = 0

Next == Accept \/ Receive \/ Respond \/ Restart

Safety == Init /\ [][Next]_vars

(* A run that has started is carried through. *)
Spec ==
  /\ Safety
  /\ WF_vars(Accept) /\ WF_vars(Receive) /\ WF_vars(Respond)
=============================================================================
