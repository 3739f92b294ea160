----------------------------- MODULE AsyncServer ----------------------------
(***************************************************************************)
(* The asynchronous servers of src/src/run.rs (run_nonbox, run_callerbox,  *)
(* run_large_nonbox, run_box, run_box_callerbox, run_large_box and         *)
(* run_box_rc): the listen and connection futures, running on an executor  *)
(* (module Executor) that parks in the reactor (module Reactor), over the  *)
(* fake streams of src/src/fakeio.rs.                                      *)
(*                                                                         *)
(* Every step is a step of the executor, of the reactor, or of both        *)
(* together: a future binds its waker by cloning it, the reactor wakes the *)
(* task whose waker it takes, and so on.  `fut' is the state the compiler  *)
(* generates for the async functions: where each future is and what it     *)
(* owns.                                                                   *)
(*                                                                         *)
(* The bench harness calls the closure again and again on the same         *)
(* executor and reactor; Runs is how often.                                *)
(*                                                                         *)
(* Data: a read yields the whole request line and a write takes the whole  *)
(* response (FakeStream does), so that both loops of connection() end      *)
(* after one successful call.                                              *)
(***************************************************************************)
EXTENDS Naturals, FiniteSets, SequencesExt, FakeIO, Stats

CONSTANTS
  Conns,    \* CONNS_MAX
  Runs,     \* bound on the number of calls of the closure
  TaskId,   \* the slots of the task slab
  Key,      \* the slots of the registration slab
  None

(* Executor and reactor are created with a capacity of CONNS_MAX + 1. *)
ASSUME CapacityAssumption ==
  /\ Conns \in Nat \ {0} /\ Runs \in Nat
  /\ Cardinality(TaskId) = Conns + 1
  /\ Cardinality(Key) = Conns + 1

(* Identities for I/O objects: one more than can be registered. *)
Handle == 0 .. Conns + 1

(* The slots are finitely many, and None is no name for anything. *)
ASSUME SlotAssumption ==
  IsFiniteSet(TaskId) /\ IsFiniteSet(Key) /\ None \notin TaskId \cup Handle

VARIABLES
  flavor, tasks, awake, next, refs, clones, cur, pc, panic,   \* executor
  regs, items, handles, futures, events, polling,             \* reactor
  fut,      \* task |-> the state of its future
  stats,    \* Stats: the number of calls of each kind
  runs      \* completed calls of the closure

execVars == <<flavor, tasks, awake, next, refs, clones, cur, pc, panic>>
reactVars == <<regs, items, handles, futures, events, polling>>
vars == <<execVars, reactVars, fut, stats, runs>>

(* Large enough that the bound never holds a clone back. *)
E == INSTANCE Executor WITH MaxClones <- Conns + 1

(* A task awaits one I/O future at a time, which bears its name. *)
R == INSTANCE Reactor WITH Waker <- TaskId, Future <- TaskId

Ops == {"accept", "read", "write"}

(* Where a future is suspended, or what it does next. *)
Points == {"start",    \* listen: has not run yet
           "call",     \* creates the next I/O future
           "bind",     \* at the top of that future's poll
           "try",      \* behind bind_waker
           "wrap",     \* AcceptFuture: makes the AsyncFakeStream
           "finish",   \* drops the I/O future, which is ready
           "spawn",    \* listen: spawns the connection
           "close",    \* returns: drops what it owns
           "closed"}

TypeOK ==
  /\ E!TypeOK /\ R!TypeOK
  /\ IsSlab(fut, TaskId,
            [op : Ops, at : Points, io : Handle \cup {None},
             stream : Handle \cup {None}, calls : Parity, left : 0 .. Conns])
  /\ stats \in [StatsType -> Nat]
  /\ runs \in 0 .. Runs

Init ==
  /\ E!Init /\ R!Init
  /\ fut = <<>>
  /\ stats = ZeroStats
  /\ runs = 0

-----------------------------------------------------------------------------
Running == panic = "none" /\ pc = "poll"
Self == fut[cur]

(* The state of a new future. *)
Listen == [op |-> "accept", at |-> "start", io |-> None, stream |-> None,
           calls |-> 0, left |-> Conns]
Connection(h) == [op |-> "read", at |-> "call", io |-> h, stream |-> None,
                  calls |-> 0, left |-> 0]

Inc(k) == stats' = Counted(stats, k)

(* A name for the next I/O object. *)
NewHandle == CHOOSE h \in Handle : h \notin R!Open

Goto(p) == fut' = [fut EXCEPT ![cur].at = p]

(* register(..).unwrap() in the constructors of the I/O objects: the       *)
(* object becomes `field' of the future.                                   *)
MakeObject(field, kind, p) ==
  IF R!CanRegister
  THEN /\ R!New(NewHandle, kind)
       /\ fut' = [fut EXCEPT ![cur][field] = NewHandle, ![cur].at = p]
       /\ Inc("register")
       /\ UNCHANGED <<execVars, runs>>
  ELSE E!UserPanics /\ UNCHANGED <<reactVars, fut, stats, runs>>

(* listen: AsyncFakeListener::new. *)
ListenStart ==
  /\ Running /\ Self.at = "start"
  /\ MakeObject("io", "listener", "call")

(* accept(), read() or write() of the object the future owns. *)
Call ==
  /\ Running /\ Self.at = "call"
  /\ R!Start(cur, Self.io)
  /\ Goto("bind")
  /\ UNCHANGED <<execVars, stats, runs>>

(* bind_waker(cx.waker()) clones the task's waker. *)
Bind ==
  /\ Running /\ Self.at = "bind"
  /\ IF R!Reg(Self.io).waker = None THEN E!CloneWaker(cur)
                                    ELSE UNCHANGED execVars
  /\ R!BindWaker(cur, cur)
  /\ Goto("try")
  /\ UNCHANGED <<stats, runs>>

(* Pending: the object is not ready, or the call on it would block. *)
TryPending ==
  /\ Running /\ Self.at = "try"
  /\ IF ~ R!Reg(Self.io).ready
     THEN R!NotReady(cur) /\ Goto("bind") /\ UNCHANGED stats
     ELSE /\ Blocks(Self.calls)
          /\ R!WouldBlock(cur)
          /\ fut' = [fut EXCEPT ![cur].at = "bind", ![cur].calls = NextCall(@)]
          /\ Inc(Self.op)
  /\ E!PollPending
  /\ UNCHANGED runs

(* Mutant: a successful call does not advance the object's call count. *)
MutTryOkSameCall ==
  /\ Running /\ Self.at = "try"
  /\ ~ Blocks(Self.calls)
  /\ R!Complete(cur)
  /\ fut' = [fut EXCEPT ![cur].at = IF Self.op = "accept" THEN "wrap" ELSE "finish"]
  /\ Inc(Self.op)
  /\ UNCHANGED <<execVars, runs>>

TryOk ==
  /\ Running /\ Self.at = "try"
  /\ ~ Blocks(Self.calls)
  /\ R!Complete(cur)
  /\ fut' = [fut EXCEPT ![cur].at = IF Self.op = "accept" THEN "wrap" ELSE "finish",
                        ![cur].calls = NextCall(@)]
  /\ Inc(Self.op)
  /\ UNCHANGED <<execVars, runs>>

(* AsyncFakeStream::new, still inside AcceptFuture::poll. *)
Wrap ==
  /\ Running /\ Self.at = "wrap"
  /\ MakeObject("stream", "stream", "finish")

(* Mutant: unbind_waker forgets the waker instead of dropping it. *)
MutFinishForgets ==
  /\ Running /\ Self.at = "finish"
  /\ R!DropFuture(cur)
  /\ fut' = [fut EXCEPT ![cur] =
               CASE @.op = "accept" -> [@ EXCEPT !.at = "spawn"]
                 [] @.op = "read"   -> [@ EXCEPT !.at = "call", !.op = "write"]
                 [] @.op = "write"  -> [@ EXCEPT !.at = "close"]]
  /\ UNCHANGED <<execVars, stats, runs>>

(* Mutant: a connection returns behind its read. *)
MutFinishSkipsWrite ==
  /\ Running /\ Self.at = "finish"
  /\ R!DropFuture(cur)
  /\ E!DropWaker(cur)
  /\ fut' = [fut EXCEPT ![cur] =
               IF @.op = "accept" THEN [@ EXCEPT !.at = "spawn"]
                                  ELSE [@ EXCEPT !.at = "close", !.op = "write"]]
  /\ UNCHANGED <<stats, runs>>

(* The awaited I/O future is dropped: unbind_waker. *)
Finish ==
  /\ Running /\ Self.at = "finish"
  /\ IF R!Reg(Self.io).waker = None THEN UNCHANGED execVars
                                    ELSE E!DropWaker(cur)
  /\ R!DropFuture(cur)
  /\ fut' = [fut EXCEPT ![cur] =
               CASE @.op = "accept" -> [@ EXCEPT !.at = "spawn"]
                 [] @.op = "read"   -> [@ EXCEPT !.at = "call", !.op = "write"]
                 [] @.op = "write"  -> [@ EXCEPT !.at = "close"]]
  /\ UNCHANGED <<stats, runs>>

(* listen: spawn(connection(stream)).unwrap(), and the loop's end. *)
Spawn ==
  /\ Running /\ Self.at = "spawn"
  /\ IF Cardinality(tasks) # Cardinality(TaskId)
     THEN /\ \E t \in TaskId :
               /\ E!Add(t)
               /\ fut' = With([fut EXCEPT ![cur].stream = None, ![cur].left = @ - 1,
                                          ![cur].at = IF Self.left = 1 THEN "close"
                                                                       ELSE "call"],
                              t, Connection(Self.stream))
          /\ UNCHANGED <<reactVars, stats, runs>>
     ELSE E!UserPanics /\ UNCHANGED <<reactVars, fut, stats, runs>>

(* Mutant: the future returns without dropping its listener or stream. *)
MutCloseLeaks ==
  /\ Running /\ Self.at = "close"
  /\ E!PollReady
  /\ fut' = [fut EXCEPT ![cur].at = "closed", ![cur].io = None]
  /\ UNCHANGED <<reactVars, stats, runs>>

(* The async function returns: its listener or stream is dropped. *)
Close ==
  /\ Running /\ Self.at = "close"
  /\ R!Drop(Self.io)
  /\ E!PollReady
  /\ fut' = [fut EXCEPT ![cur].at = "closed", ![cur].io = None]
  /\ Inc("unregister")
  /\ UNCHANGED runs

FutureStep ==
  \/ ListenStart \/ Call \/ Bind \/ TryPending \/ TryOk
  \/ Wrap \/ Finish \/ Spawn \/ Close

-----------------------------------------------------------------------------
(* process_next outside the poll. *)
PickTask == E!Pick /\ UNCHANGED <<reactVars, fut, stats, runs>>
NothingToPick == E!NothingToPick /\ UNCHANGED <<reactVars, fut, stats, runs>>
TaskDone ==
  /\ E!TaskDone
  /\ fut' = Without(fut, cur)
  /\ UNCHANGED <<reactVars, stats, runs>>

(* The closure: spawn the listen task, then executor.run(..). *)
SpawnListen ==
  /\ pc = "idle" /\ tasks = {}
  /\ runs < Runs
  /\ \E t \in TaskId : E!Add(t) /\ fut' = With(fut, t, Listen)
  /\ UNCHANGED <<reactVars, stats, runs>>

RunStart ==
  /\ tasks # {}
  /\ E!RunStart
  /\ UNCHANGED <<reactVars, fut, stats, runs>>

RunCheck ==
  /\ E!RunCheck
  /\ runs' = IF tasks = {} THEN runs + 1 ELSE runs
  /\ UNCHANGED <<reactVars, fut, stats>>

(* park() is reactor.poll(), which never fails. *)
ParkPoll ==
  /\ panic = "none" /\ pc = "park"
  /\ R!PollBegin
  /\ Inc("poll")
  /\ UNCHANGED <<execVars, fut, runs>>

ParkEvent ==
  /\ panic = "none"
  /\ R!PollEvent
  /\ IF R!Woken = None THEN UNCHANGED execVars ELSE E!Wake(R!Woken)
  /\ UNCHANGED <<fut, stats, runs>>

ParkReturn ==
  /\ R!PollEnd
  /\ E!ParkReturn /\ pc' = "pick"
  /\ UNCHANGED <<fut, stats, runs>>

Finished == pc = "idle" /\ tasks = {} /\ runs = Runs
Terminated == Finished /\ UNCHANGED vars

Server ==
  \/ FutureStep \/ PickTask \/ NothingToPick \/ TaskDone
  \/ SpawnListen \/ RunStart \/ RunCheck
  \/ ParkPoll \/ ParkEvent \/ ParkReturn

Next == Server \/ Terminated

(* One thread, and nothing it waits for: the fake I/O never blocks. *)
Spec == Init /\ [][Next]_vars /\ WF_vars(Server)

-----------------------------------------------------------------------------
(***************************************************************************)
(* Properties.                                                             *)
(***************************************************************************)

(* No unwrap() and no assertion on the way fails: the task slab and the    *)
(* registration slab always have room for one more connection, every waker *)
(* is dropped before its task ends, and no waker is used behind its task.  *)
NoPanic == panic = "none"

(* A task that is neither queued nor running waits for an event that will  *)
(* come: its I/O future is pending on an object the reactor watches, which *)
(* is not ready, and the waker bound there is its own.                     *)
SleepersAreArmed ==
  \A t \in tasks \ (awake \cup {cur}) :
    /\ fut[t].at = "bind"
    /\ t \in R!Live /\ futures[t].obj = fut[t].io /\ futures[t].op = "pending"
    /\ R!Reg(fut[t].io) = [ready |-> FALSE, waker |-> t]

(* Executor and reactor agree on the wakers: each counted clone is bound   *)
(* in exactly one registration.                                            *)
ClonesAreBound ==
  \A t \in TaskId :
    clones[t] = Cardinality({k \in DOMAIN regs : regs[k].waker = t})

(* Each I/O object has one owner: a future that uses it, or the listen     *)
(* future on its way to spawning the connection.                           *)
ObjectsAreOwned ==
  /\ R!Open = (UNION { {fut[t].io, fut[t].stream} : t \in DOMAIN fut }) \ {None}
  /\ \A t, u \in DOMAIN fut : t # u =>
       {fut[t].io, fut[t].stream} \cap {fut[u].io, fut[u].stream} \subseteq {None}

(* Whenever a run is over, the calls counted are those EXPECTED_STATS      *)
(* lists, times the runs, and nothing is left in any slab: the assertion   *)
(* in Poll::drop holds, and the next run starts from a clean executor and  *)
(* reactor.                                                                *)
RunsAreClean ==
  pc = "idle" /\ tasks = {} =>
    /\ stats = ExpectedStats(Conns, runs)
    /\ regs = <<>> /\ items = <<>> /\ futures = <<>> /\ fut = <<>> /\ next = <<>>

(* Every run ends. *)
Termination == <>Finished

(* The tasks serve every connection like the abstract server. *)
Listening == {t \in DOMAIN fut : fut[t].op = "accept"}
Reading   == {t \in DOMAIN fut : fut[t].op = "read"}
Writing   == {t \in DOMAIN fut : fut[t].op = "write" /\ fut[t].at \notin {"close", "closed"}}
accepted  == IF Listening # {}
             THEN Conns - fut[CHOOSE t \in Listening : TRUE].left
             ELSE IF pc = "idle" /\ runs = 0 THEN 0 ELSE Conns
V == INSTANCE Server WITH
       received  <- accepted - Cardinality(Reading),
       responded <- accepted - Cardinality(Reading \cup Writing)
ImplementsServer == V!Spec
=============================================================================
