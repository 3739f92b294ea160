------------------------------- MODULE Stats --------------------------------
(***************************************************************************)
(* The call counters of src/src/run.rs: one for each kind of call on the   *)
(* fake I/O.  The system call that do_call makes to spend time is left     *)
(* out.                                                                    *)
(***************************************************************************)
EXTENDS Naturals

StatsType == {"register", "unregister", "poll", "accept", "read", "write"}

ZeroStats == [k \in StatsType |-> 0]

(* Stats::inc. *)
Counted(s, k) == [s EXCEPT ![k] = @ + 1]

(* EXPECTED_STATS of the tests, which have conns = 256, for any number of  *)
(* connections and times the number of runs.                               *)
ExpectedStats(conns, n) ==
  [k \in StatsType |->
     n * CASE k \in {"register", "unregister"} -> conns + 1
           [] k = "poll"                       -> conns + 2
           [] OTHER                            -> 2 * conns]
=============================================================================
