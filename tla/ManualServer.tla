---------------------------- MODULE ManualServer ----------------------------
(***************************************************************************)
(* RunManual of src/src/run.rs: the server written as an event loop over   *)
(* Poll, without futures, and its Connection state machine.                *)
(*                                                                         *)
(* `needs' is the list needs_process, which is threaded through the slab   *)
(* of connections (module IntrusiveLists).  Poll identifies the listener   *)
(* by 0 and the connection with key k by k + 1.  Connection::can_read and  *)
(* can_write are left out: the code sets them and never reads them.  As in *)
(* AsyncServer, a read yields the whole request and a write takes the      *)
(* whole response.                                                         *)
(***************************************************************************)
EXTENDS Naturals, FiniteSets, SequencesExt, FakeIO, Stats

CONSTANTS
  Conns,    \* CONNS_MAX
  Runs,     \* bound on the number of calls of run()
  None

ASSUME ConnsAssumption == Conns \in Nat \ {0} /\ Runs \in Nat

ConnKey == 0 .. Conns - 1     \* keys of the slab conns
Index   == 0 .. Conns         \* keys of Poll::items

ASSUME NoneAssumption == None \notin ConnKey

Places == {"idle",      \* outside run()
           "accept",    \* in the accept loop
           "process",   \* in the loop over needs_process
           "events"}    \* in the loop over the events

VARIABLES
  pc,
  conns,       \* key |-> Connection: its state, the calls made on its
               \* stream (modulo 2) and its poll_index
  needs,       \* needs_process, front first
  cur,         \* the connection in Connection::process, or None
  listener,    \* the listener's calls (modulo 2) and poll_index
  canAccept,
  acceptLeft,
  items,       \* Poll::items: index |-> <<interest, key>>
  events,      \* the <<key, interest>> pairs yet to be looked at
  stats,
  runs

vars == <<pc, conns, needs, cur, listener, canAccept, acceptLeft, items,
          events, stats, runs>>

Interest == {READABLE, READABLE + WRITABLE}

TypeOK ==
  /\ pc \in Places
  /\ IsSlab(conns, ConnKey, [state : {"ReceivingRequest", "SendingResponse"},
                             calls : Parity, index : Index])
  /\ needs \in Seq(ConnKey)
  /\ cur \in ConnKey \cup {None}
  /\ listener \in [calls : Parity, index : Index \cup {None}]
  /\ canAccept \in BOOLEAN
  /\ acceptLeft \in 0 .. Conns
  /\ IsSlab(items, Index, Interest \X (0 .. Conns))
  /\ IsSlab(events, Index, (0 .. Conns) \X Interest)
  /\ stats \in [StatsType -> Nat]
  /\ runs \in 0 .. Runs

Init ==
  /\ pc = "idle"
  /\ conns = <<>> /\ needs = <<>> /\ cur = None
  /\ listener = [calls |-> 0, index |-> None]
  /\ canAccept = FALSE /\ acceptLeft = 0
  /\ items = <<>> /\ events = <<>>
  /\ stats = ZeroStats
  /\ runs = 0

-----------------------------------------------------------------------------
(* The locals of run(): a new listener, registered, and an empty list. *)
RunStart ==
  /\ pc = "idle" /\ runs < Runs
  /\ \E i \in Index \ DOMAIN items :
       /\ items' = Register(items, i, 0, READABLE)
       /\ listener' = [calls |-> 0, index |-> i]
  /\ stats' = Counted(stats, "register")
  /\ needs' = <<>>
  /\ canAccept' = TRUE
  /\ acceptLeft' = Conns
  /\ pc' = "accept"
  /\ UNCHANGED <<conns, cur, events, runs>>

Accepting == pc = "accept" /\ acceptLeft > 0 /\ canAccept

AcceptWouldBlock ==
  /\ Accepting
  /\ Blocks(listener.calls)
  /\ listener' = [listener EXCEPT !.calls = NextCall(@)]
  /\ stats' = Counted(stats, "accept")
  /\ canAccept' = FALSE
  /\ UNCHANGED <<pc, conns, needs, cur, acceptLeft, items, events, runs>>

(* Mutant: a new connection starts with its response. *)
MutAcceptOkSending ==
  /\ Accepting
  /\ ~ Blocks(listener.calls)
  /\ listener' = [listener EXCEPT !.calls = NextCall(@)]
  /\ acceptLeft' = acceptLeft - 1
  /\ \E k \in ConnKey \ DOMAIN conns, i \in Index \ DOMAIN items :
       /\ conns' = With(conns, k, [state |-> "SendingResponse", calls |-> 0,
                                   index |-> i])
       /\ items' = Register(items, i, k + 1, READABLE + WRITABLE)
       /\ needs' = Append(needs, k)
  /\ stats' = Counted(Counted(stats, "accept"), "register")
  /\ UNCHANGED <<pc, cur, canAccept, events, runs>>

AcceptOk ==
  /\ Accepting
  /\ ~ Blocks(listener.calls)
  /\ listener' = [listener EXCEPT !.calls = NextCall(@)]
  /\ acceptLeft' = acceptLeft - 1
  /\ \E k \in ConnKey \ DOMAIN conns, i \in Index \ DOMAIN items :
       /\ conns' = With(conns, k, [state |-> "ReceivingRequest", calls |-> 0,
                                   index |-> i])
       /\ items' = Register(items, i, k + 1, READABLE + WRITABLE)
       /\ needs' = Append(needs, k)
  /\ stats' = Counted(Counted(stats, "accept"), "register")
  /\ UNCHANGED <<pc, cur, canAccept, events, runs>>

AcceptDone ==
  /\ pc = "accept" /\ ~ Accepting
  /\ pc' = "process"
  /\ UNCHANGED <<conns, needs, cur, listener, canAccept, acceptLeft, items,
                 events, stats, runs>>

(* Mutant: the connection is looked at without taking it off the list. *)
MutProcessNextKeeps ==
  /\ pc = "process" /\ cur = None
  /\ needs # <<>>
  /\ cur' = Head(needs)
  /\ UNCHANGED <<pc, conns, needs, listener, canAccept, acceptLeft, items,
                 events, stats, runs>>

(* Take the next connection off the list and call process() on it. *)
ProcessNext ==
  /\ pc = "process" /\ cur = None
  /\ needs # <<>>
  /\ cur' = Head(needs)
  /\ needs' = Tail(needs)
  /\ UNCHANGED <<pc, conns, listener, canAccept, acceptLeft, items, events,
                 stats, runs>>

(* Connection::process, one iteration of its loop. *)
In(state) ==
  /\ pc = "process" /\ cur # None
  /\ conns[cur].state = state

(* WouldBlock: process() returns false. *)
Blocked(state, call) ==
  /\ In(state) /\ Blocks(conns[cur].calls)
  /\ conns' = [conns EXCEPT ![cur].calls = NextCall(@)]
  /\ stats' = Counted(stats, call)
  /\ cur' = None
  /\ UNCHANGED <<pc, needs, listener, canAccept, acceptLeft, items, events, runs>>

ReadWouldBlock  == Blocked("ReceivingRequest", "read")
WriteWouldBlock == Blocked("SendingResponse", "write")

ReadOk ==
  /\ In("ReceivingRequest") /\ ~ Blocks(conns[cur].calls)
  /\ conns' = [conns EXCEPT ![cur].calls = NextCall(@),
                            ![cur].state = "SendingResponse"]
  /\ stats' = Counted(stats, "read")
  /\ UNCHANGED <<pc, needs, cur, listener, canAccept, acceptLeft, items,
                 events, runs>>

(* Mutant: a finished connection is not unregistered. *)
MutWriteOkStaysRegistered ==
  /\ In("SendingResponse") /\ ~ Blocks(conns[cur].calls)
  /\ stats' = Counted(stats, "write")
  /\ conns' = Without(conns, cur)
  /\ cur' = None
  /\ UNCHANGED <<pc, needs, listener, canAccept, acceptLeft, items, events, runs>>

(* process() returns true: the connection is unregistered and removed. *)
WriteOk ==
  /\ In("SendingResponse") /\ ~ Blocks(conns[cur].calls)
  /\ stats' = Counted(Counted(stats, "write"), "unregister")
  /\ items' = Unregister(items, conns[cur].index)
  /\ conns' = Without(conns, cur)
  /\ cur' = None
  /\ UNCHANGED <<pc, needs, listener, canAccept, acceptLeft, events, runs>>

AllServed == acceptLeft = 0 /\ conns = <<>>

(* Mutant: the listener is not unregistered. *)
MutRunEndKeepsListener ==
  /\ pc = "process" /\ cur = None /\ needs = <<>>
  /\ AllServed
  /\ pc' = "idle"
  /\ runs' = runs + 1
  /\ UNCHANGED <<conns, needs, cur, listener, canAccept, acceptLeft, items,
                 events, stats>>

(* Nothing is left to process: run() ends ... *)
RunEnd ==
  /\ pc = "process" /\ cur = None /\ needs = <<>>
  /\ AllServed
  /\ items' = Unregister(items, listener.index)
  /\ listener' = [listener EXCEPT !.index = None]
  /\ stats' = Counted(stats, "unregister")
  /\ pc' = "idle"
  /\ runs' = runs + 1
  /\ UNCHANGED <<conns, needs, cur, canAccept, acceptLeft, events>>

(* Mutant: the loop goes on without polling. *)
MutPollOmitted ==
  /\ pc = "process" /\ cur = None /\ needs = <<>>
  /\ ~ AllServed
  /\ events' = <<>>
  /\ pc' = "events"
  /\ UNCHANGED <<conns, needs, cur, listener, canAccept, acceptLeft, items,
                 stats, runs>>

(* ... or polls. *)
Poll ==
  /\ pc = "process" /\ cur = None /\ needs = <<>>
  /\ ~ AllServed
  /\ stats' = Counted(stats, "poll")
  /\ events' = PollEvents(items)
  /\ pc' = "events"
  /\ UNCHANGED <<conns, needs, cur, listener, canAccept, acceptLeft, items, runs>>

ListenerEvent ==
  /\ pc = "events" /\ events # <<>>
  /\ FirstEvent(events)[1] = 0
  /\ canAccept' = TRUE
  /\ events' = LaterEvents(events)
  /\ UNCHANGED <<pc, conns, needs, cur, listener, acceptLeft, items, stats, runs>>

(* conns[key] panics when the connection is gone: then there is no step. *)
ConnEvent ==
  /\ pc = "events" /\ events # <<>>
  /\ FirstEvent(events)[1] # 0
  /\ LET key == FirstEvent(events)[1] - 1
         state == FirstEvent(events)[2]
         doProcess == state \in {READABLE, WRITABLE, READABLE + WRITABLE}
     IN  /\ key \in DOMAIN conns
         /\ needs' = IF doProcess THEN Append(RemoveFirst(needs, key), key)
                                  ELSE needs
  /\ events' = LaterEvents(events)
  /\ UNCHANGED <<pc, conns, cur, listener, canAccept, acceptLeft, items, stats, runs>>

EventsDone ==
  /\ pc = "events" /\ events = <<>>
  /\ pc' = "accept"
  /\ UNCHANGED <<conns, needs, cur, listener, canAccept, acceptLeft, items,
                 events, stats, runs>>

Finished == pc = "idle" /\ runs = Runs
Terminated == Finished /\ UNCHANGED vars

Run ==
  \/ RunStart
  \/ AcceptWouldBlock \/ AcceptOk \/ AcceptDone
  \/ ProcessNext \/ ReadWouldBlock \/ ReadOk \/ WriteWouldBlock \/ WriteOk
  \/ RunEnd \/ Poll \/ ListenerEvent \/ ConnEvent \/ EventsDone

Next == Run \/ Terminated

(* One thread, and nothing it waits for: the fake I/O never blocks. *)
Spec == Init /\ [][Next]_vars /\ WF_vars(Run)

-----------------------------------------------------------------------------
(***************************************************************************)
(* Properties.                                                             *)
(***************************************************************************)

(* needs_process holds connections that exist, each once, and never the    *)
(* one in hand: removing a connection from the slab leaves no dangling     *)
(* link in the list, and the accept and event loops never push a linked    *)
(* node.                                                                   *)
NeedsAreConns ==
  /\ ToSet(needs) \subseteq DOMAIN conns
  /\ IsInjective(needs)
  /\ cur # None => cur \in DOMAIN conns /\ cur \notin ToSet(needs)

(* Poll watches exactly the listener and the live connections, each under  *)
(* the index it remembers and the key that leads back to it, whatever keys *)
(* the two slabs reuse; so events never name a connection that is gone.    *)
ItemsMatchConns ==
  /\ { <<i, items[i]>> : i \in DOMAIN items } =
       { <<conns[k].index, <<READABLE + WRITABLE, k + 1>>>> : k \in DOMAIN conns }
       \cup IF pc = "idle" THEN {} ELSE {<<listener.index, <<READABLE, 0>>>>}
  /\ Cardinality(DOMAIN items) =
       Cardinality(DOMAIN conns) + IF pc = "idle" THEN 0 ELSE 1
  /\ \A i \in DOMAIN events : events[i][1] = 0 \/ events[i][1] - 1 \in DOMAIN conns

(* Whenever a run is over, the calls counted are those EXPECTED_STATS      *)
(* lists, times the runs, and Poll is empty, as Poll::drop asserts.        *)
RunsAreClean ==
  pc = "idle" => /\ stats = ExpectedStats(Conns, runs)
                 /\ conns = <<>> /\ items = <<>> /\ needs = <<>>

(* run() always returns: no connection and no accept is forgotten. *)
Termination == <>Finished

(* The event loop serves every connection like the abstract server. *)
Sending == {k \in DOMAIN conns : conns[k].state = "SendingResponse"}
accepted == IF pc = "idle" /\ runs = 0 THEN 0 ELSE Conns - acceptLeft
S == INSTANCE Server WITH
       received  <- accepted - Cardinality(DOMAIN conns \ Sending),
       responded <- accepted - Cardinality(DOMAIN conns)
ImplementsServer == S!Spec
=============================================================================
