------------------------------ MODULE Teardown ------------------------------
(***************************************************************************)
(* How the run_* functions of src/src/run.rs end: they return behind any   *)
(* number of runs, or a panic unwinds through them while tasks sleep.  In  *)
(* both cases the locals are dropped in the reverse order of their         *)
(* declaration: executor (and spawner), reactor, stats.                    *)
(*                                                                         *)
(* The fault is the one the code itself guards against: with syscalls, an  *)
(* assertion in StatsData::do_call, at the top of every counted call.  It  *)
(* fails once.  The panic first unwinds the poll in progress, which drops  *)
(* what the polled future owns.                                            *)
(*                                                                         *)
(* What the drop of an executor does to the futures of its other tasks is  *)
(* where the executors differ.  ArgExecutor keeps futures in MaybeUninit,  *)
(* and forgets them.  BoxExecutor drops them with the slab.  BoxRcExecutor *)
(* is behind an Rc that the listen task also holds: while that task lives, *)
(* nothing is dropped.                                                     *)
(***************************************************************************)
EXTENDS AsyncServer

VARIABLES
  stage,     \* what is dropped next
  fault,     \* the call whose assertion failed, or "none"
  pipe,      \* StatsData::pipe_fds
  freed,     \* the memory of the executor, task slab included, is freed
  wild,      \* a waker was dropped whose memory was freed
  failed     \* the assertion in Poll::drop failed

tearVars == <<stage, fault, pipe, freed, wild, failed>>
allVars == <<vars, tearVars>>

Stages == {"live", "unwind", "executor", "reactor", "stats", "over",
           "aborted"}   \* a second panic while the first one unwinds

TearTypeOK ==
  /\ TypeOK
  /\ stage \in Stages
  /\ fault \in StatsType \cup {"none"}
  /\ pipe \in {"none", "open", "closed"}
  /\ freed \in BOOLEAN /\ wild \in BOOLEAN /\ failed \in BOOLEAN

(* Stats::new(syscalls). *)
TearInit ==
  /\ Init
  /\ stage = "live" /\ fault = "none"
  /\ pipe \in {"none", "open"}
  /\ freed = FALSE /\ wild = FALSE /\ failed = FALSE

Serve == stage = "live" /\ Server /\ UNCHANGED tearVars

-----------------------------------------------------------------------------
(* The counted call that is about to be made. *)
Calling(call) ==
  \/ call = "register"   /\ Running /\ Self.at \in {"start", "wrap"} /\ R!CanRegister
  \/ call = "unregister" /\ Running /\ Self.at = "close"
  \/ call = "poll"       /\ panic = "none" /\ pc = "park" /\ ~ polling
  \/ call \in Ops        /\ Running /\ Self.at = "try" /\ Self.op = call /\ R!IsReady(cur)

(* What was done before the call panicked.  register has put an entry into *)
(* the registrations, and no handle for it exists yet.  unregister leaves  *)
(* the item where it is, while the fields of the object are dropped all    *)
(* the same.  The other calls count first.                                 *)
Interrupted(call) ==
  CASE call = "register" ->
         /\ \E k \in Key \ DOMAIN regs :
              regs' = With(regs, k, [ready |-> FALSE, waker |-> None])
         /\ UNCHANGED <<handles, fut>>
    [] call = "unregister" ->
         /\ regs' = Without(regs, handles[Self.io].key)
         /\ handles' = Without(handles, Self.io)
         /\ fut' = [fut EXCEPT ![cur].io = None]
    [] OTHER -> UNCHANGED <<regs, handles, fut>>

(* assert_eq!(ret, -1) in do_call fails. *)
Fault(call) ==
  /\ stage = "live" /\ pipe = "open"
  /\ Calling(call)
  /\ Interrupted(call)
  /\ panic' = "user"
  /\ fault' = call
  /\ stage' = "unwind"
  /\ UNCHANGED <<flavor, tasks, awake, next, refs, clones, cur, pc,
                 items, futures, events, polling, stats, runs,
                 pipe, freed, wild, failed>>

-----------------------------------------------------------------------------
(* The wakers bound in the registrations K are dropped. *)
Bound(K, t) == Cardinality({k \in K : regs[k].waker = t})

(* Mutant: the count is not decremented. *)
MutDropWakersUncounted(K) ==
  /\ clones' = [t \in TaskId |-> clones[t] - Bound(K, t)]
  /\ UNCHANGED <<refs, panic>>

(* Mutant: the wakers are dropped by unbind_waker and again with the       *)
(* registration, and no assertion notices, as none does with an Rc.        *)
MutDropWakersTwice(K) ==
  /\ refs' = [t \in TaskId |-> refs[t] - 2 * Bound(K, t)]
  /\ clones' = [t \in TaskId |-> clones[t] - 2 * Bound(K, t)]
  /\ UNCHANGED panic

(* EmbedWaker::drop asserts refs > 1 before each decrement, which the n    *)
(* wakers of a task pass if its count is above n; an Rc or Arc whose count *)
(* reached zero would be freed under the executor's own waker.             *)
DropWakers(K) ==
  IF \A t \in TaskId : Bound(K, t) > 0 => refs[t] > Bound(K, t)
  THEN /\ refs' = [t \in TaskId |-> refs[t] - Bound(K, t)]
       /\ clones' = [t \in TaskId |-> clones[t] - Bound(K, t)]
       /\ UNCHANGED panic
  ELSE panic' = "refs" /\ UNCHANGED <<refs, clones>>

(* Mutant: the drop of an I/O object does not unregister it. *)
MutDropFuturesRegistered(T) ==
  LET H == (UNION {{fut[t].io, fut[t].stream} : t \in T}) \ {None}
      K == {handles[h].key : h \in H}
  IN  /\ DropWakers(K)
      /\ regs' = Restrict(regs, DOMAIN regs \ K)
      /\ handles' = Restrict(handles, DOMAIN handles \ H)
      /\ futures' = Restrict(futures, DOMAIN futures \ T)
      /\ fut' = Restrict(fut, DOMAIN fut \ T)
      /\ UNCHANGED <<items, stats>>

(* Mutant: registrations, and the wakers bound there, outlive the objects. *)
MutDropFuturesBound(T) ==
  LET H == (UNION {{fut[t].io, fut[t].stream} : t \in T}) \ {None}
      I == {handles[h].index : h \in H}
  IN  /\ items' = Restrict(items, DOMAIN items \ I)
      /\ handles' = Restrict(handles, DOMAIN handles \ H)
      /\ futures' = Restrict(futures, DOMAIN futures \ T)
      /\ fut' = Restrict(fut, DOMAIN fut \ T)
      /\ UNCHANGED <<refs, clones, panic, regs, stats>>

(* The futures of the tasks T are dropped with all they own: the I/O       *)
(* future, which unbinds its waker, then the object, which unregisters.    *)
DropFutures(T) ==
  LET H == (UNION {{fut[t].io, fut[t].stream} : t \in T}) \ {None}
      K == {handles[h].key : h \in H}
      I == {handles[h].index : h \in H}
  IN  /\ DropWakers(K)
      /\ regs' = Restrict(regs, DOMAIN regs \ K)
      /\ items' = Restrict(items, DOMAIN items \ I)
      /\ handles' = Restrict(handles, DOMAIN handles \ H)
      /\ futures' = Restrict(futures, DOMAIN futures \ T)
      /\ fut' = Restrict(fut, DOMAIN fut \ T)
      /\ stats' = [stats EXCEPT !["unregister"] = @ + Cardinality(H)]

KeepFutures ==
  UNCHANGED <<refs, clones, panic, regs, items, handles, futures, fut, stats>>

(* A panic in a destructor that unwinding runs ends the process. *)
Then(s) == stage' = IF panic' = "refs" THEN "aborted" ELSE s

(* Mutant: unwinding does not drop what the polled future owns. *)
MutUnwindKeeps ==
  /\ stage = "unwind"
  /\ KeepFutures
  /\ stage' = "executor"
  /\ UNCHANGED <<flavor, tasks, awake, next, cur, pc, events, polling,
                 runs, fault, pipe, freed, wild, failed>>

(* The poll in progress, if any, unwinds. *)
Unwind ==
  /\ stage = "unwind"
  /\ IF cur = None THEN KeepFutures ELSE DropFutures({cur})
  /\ Then("executor")
  /\ UNCHANGED <<flavor, tasks, awake, next, cur, pc, events, polling,
                 runs, fault, pipe, freed, wild, failed>>

(* The harness has called the closure as often as it wants. *)
Return ==
  /\ stage = "live" /\ panic = "none"
  /\ pc = "idle" /\ tasks = {}
  /\ stage' = "executor"
  /\ UNCHANGED <<vars, fault, pipe, freed, wild, failed>>

(* listen_rc takes an Rc of the executor (executor_copy of run_box_rc), so *)
(* that the executor owns the listen task and the task owns the executor.  *)
(* The tasks listen_rc spawns are given the stream only.                   *)
HeldByTask == flavor = "boxrc" /\ Listening # {}

(* The executor goes out of scope. *)
DropExecutor ==
  /\ stage = "executor"
  /\ IF flavor = "arg" \/ HeldByTask THEN KeepFutures
                                     ELSE DropFutures(DOMAIN fut)
  /\ freed' = ~ HeldByTask
  /\ Then("reactor")
  /\ UNCHANGED <<flavor, tasks, awake, next, cur, pc, events, polling,
                 runs, fault, pipe, wild, failed>>

(* Futures that were not dropped hold an Rc of the reactor and of the      *)
(* stats; those of ArgExecutor only borrow them.                           *)
HeldByFutures == flavor # "arg" /\ fut # <<>>

(* A waker bound in the reactor points into memory that is freed. *)
Dangling ==
  freed /\ E!Embedded /\ \E k \in DOMAIN regs : regs[k].waker # None

(* The reactor goes out of scope: first its registrations with the wakers  *)
(* bound there, then Poll, with its assertion.  EmbedWaker::drop of a      *)
(* dangling waker asserts something of a count that it reads from freed    *)
(* memory, which may fail or not.                                          *)
DropReactor ==
  /\ stage = "reactor" /\ ~ HeldByFutures
  /\ wild' = Dangling
  /\ \/ /\ Dangling
        /\ stage' = "aborted"
        /\ UNCHANGED <<regs, refs, clones, panic, failed>>
     \/ /\ IF Dangling THEN UNCHANGED <<refs, clones, panic>>
                        ELSE DropWakers(DOMAIN regs)
        /\ regs' = <<>>
        /\ failed' = (items # <<>>)
        /\ IF failed' /\ panic # "none" THEN stage' = "aborted" ELSE Then("stats")
  /\ UNCHANGED <<flavor, tasks, awake, next, cur, pc, items, handles,
                 futures, events, polling, fut, stats, runs, fault, pipe, freed>>

(* The local Rc goes out of scope, and the reactor stays. *)
KeepReactor ==
  /\ stage = "reactor" /\ HeldByFutures
  /\ stage' = "stats"
  /\ UNCHANGED <<vars, fault, pipe, freed, wild, failed>>

(* StatsData::drop closes the pipe. *)
DropStats ==
  /\ stage = "stats"
  /\ pipe' = IF pipe = "open" /\ ~ HeldByFutures THEN "closed" ELSE pipe
  /\ stage' = "over"
  /\ UNCHANGED <<vars, fault, freed, wild, failed>>

Ended == stage \in {"over", "aborted"} /\ UNCHANGED allVars

TearNext ==
  \/ Serve
  \/ \E call \in StatsType : Fault(call)
  \/ Unwind \/ Return \/ DropExecutor \/ DropReactor \/ KeepReactor \/ DropStats
  \/ Ended

TearSpec == TearInit /\ [][TearNext]_allVars

-----------------------------------------------------------------------------
(***************************************************************************)
(* Properties.                                                             *)
(***************************************************************************)

(* No waker in the reactor outlives the memory it points to, although the  *)
(* reactor is dropped behind the executor.  Only ArgExecutor, which drops  *)
(* no future that is left, does not ensure it when a panic unwinds.        *)
NoUseAfterFree == wild => flavor = "arg" /\ panic # "none"

(* When the closure returns, whatever the number of runs, nothing is left: *)
(* Poll::drop finds no item, no future is forgotten, the pipe is closed.   *)
ReturnIsClean ==
  panic = "none" /\ stage \in {"stats", "over"} =>
    /\ ~ failed /\ regs = <<>> /\ fut = <<>>
    /\ stage = "over" => pipe # "open"

(* Unwinding decrements every count it should, and as often as it should:  *)
(* EmbedWaker::drop does not find a count exhausted, which would abort.    *)
CountsSurvive ==
  ~ wild => panic # "refs" /\ E!RefsCountClones /\ ClonesAreBound

(* With boxed futures a panic leaks nothing, except in run_box_rc: there   *)
(* it leaks futures, reactor and pipe if, and only if, it hits outside the *)
(* listen task, and before the last connection of the run was accepted -   *)
(* two calls of accept each.  The listen task that leaks is then asleep;   *)
(* in the poll with the last accept it also ends, and a panic in its own   *)
(* poll drops it.                                                          *)
LeaksUntilAllAccepted ==
  stage = "over" /\ panic # "none" /\ flavor # "arg" =>
    LET leaks == /\ flavor = "boxrc" /\ fault \notin {"register", "accept"}
                 /\ stats["accept"] < 2 * Conns * (runs + 1)
    IN  (fut # <<>> <=> leaks) /\ (pipe = "open" <=> leaks)

(* The assertion in Poll::drop, which turns the panic into an abort, fails *)
(* only when unregister itself was interrupted or ArgExecutor forgot       *)
(* futures that own I/O objects.                                           *)
AssertionFailsOnlyAfter ==
  failed => fault = "unregister" \/ (flavor = "arg" /\ fut # <<>>)
=============================================================================
