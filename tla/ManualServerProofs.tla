------------------------- MODULE ManualServerProofs -------------------------
(***************************************************************************)
(* Proofs about module ManualServer, for every number of connections and   *)
(* of runs.                                                                *)
(***************************************************************************)
EXTENDS ManualServer, DataLemmas, FiniteSetTheorems

(* What the program counter says of the locals of run(). *)
Locals ==
  /\ events # <<>> => pc = "events"
  /\ cur # None => pc = "process"
  /\ pc # "idle" => runs < Runs

(* ItemsMatchConns item by item: an item leads back to the one object that *)
(* registered it.                                                          *)
ConnItems ==
  \A k \in DOMAIN conns :
    /\ conns[k].index \in DOMAIN items
    /\ items[conns[k].index] = <<READABLE + WRITABLE, k + 1>>

ListenerItem ==
  pc # "idle" =>
    /\ listener.index \in DOMAIN items
    /\ items[listener.index] = <<READABLE, 0>>

ItemsHaveOwners ==
  \A i \in DOMAIN items :
    \/ \E k \in DOMAIN conns : conns[k].index = i
    \/ pc # "idle" /\ listener.index = i

ItemsCounted ==
  Cardinality(DOMAIN items) =
    Cardinality(DOMAIN conns) + IF pc = "idle" THEN 0 ELSE 1

EventsHaveTargets ==
  \A i \in DOMAIN events : events[i][1] = 0 \/ events[i][1] - 1 \in DOMAIN conns

ItemsInv == ConnItems /\ ListenerItem /\ ItemsHaveOwners /\ ItemsCounted

(* The inductive invariant. *)
Inv ==
  /\ TypeOK
  /\ Locals
  /\ NeedsAreConns
  /\ ItemsInv
  /\ EventsHaveTargets

-----------------------------------------------------------------------------
ConnType == [state : {"ReceivingRequest", "SendingResponse"},
             calls : Parity, index : Index]

LEMMA Types ==
  ASSUME TypeOK
  PROVE  /\ \A k \in DOMAIN conns : k \in ConnKey /\ conns[k] \in ConnType
         /\ \A i \in DOMAIN items : i \in Index /\ items[i] \in Interest \X (0 .. Conns)
         /\ DOMAIN conns \subseteq ConnKey /\ DOMAIN items \subseteq Index
  BY DEF TypeOK, IsSlab, ConnType

(* The slabs are finite. *)
LEMMA FiniteSlabs ==
  ASSUME TypeOK
  PROVE  /\ IsFiniteSet(DOMAIN conns) /\ Cardinality(DOMAIN conns) \in Nat
         /\ IsFiniteSet(DOMAIN items) /\ Cardinality(DOMAIN items) \in Nat
<1>1. IsFiniteSet(ConnKey) /\ IsFiniteSet(Index)
  BY ConnsAssumption, FS_Interval DEF ConnKey, Index
<1>2. DOMAIN conns \in SUBSET ConnKey /\ DOMAIN items \in SUBSET Index
  BY Types
<1> QED
  BY <1>1, <1>2, FS_Subset, FS_CardinalityType

(* Item by item is the same as set by set. *)
LEMMA ItemsAgree ==
  ASSUME ItemsInv, EventsHaveTargets
  PROVE  ItemsMatchConns
<1> DEFINE I == { <<i, items[i]>> : i \in DOMAIN items }
           C == { <<conns[k].index, <<READABLE + WRITABLE, k + 1>>>> : k \in DOMAIN conns }
           B == IF pc = "idle" THEN {} ELSE {<<listener.index, <<READABLE, 0>>>>}
<1>1. ASSUME NEW i \in DOMAIN items PROVE <<i, items[i]>> \in C \cup B
  <2>1. CASE \E k \in DOMAIN conns : conns[k].index = i
    BY <2>1 DEF ItemsInv, ConnItems
  <2>2. CASE pc # "idle" /\ listener.index = i
    BY <2>2 DEF ItemsInv, ListenerItem
  <2> QED
    BY <2>1, <2>2 DEF ItemsInv, ItemsHaveOwners
<1>2. ASSUME NEW k \in DOMAIN conns
      PROVE  <<conns[k].index, <<READABLE + WRITABLE, k + 1>>>> \in I
  BY DEF ItemsInv, ConnItems
<1>3. ASSUME pc # "idle"
      PROVE  <<listener.index, <<READABLE, 0>>>> \in I
  BY <1>3 DEF ItemsInv, ListenerItem
<1>4. I = C \cup B
  BY <1>1, <1>2, <1>3
<1> QED
  BY <1>4 DEF ItemsInv, ItemsCounted, EventsHaveTargets, ItemsMatchConns

(* Stats::inc. *)
LEMMA CountedType ==
  ASSUME NEW s \in [StatsType -> Nat], NEW k \in StatsType
  PROVE  Counted(s, k) \in [StatsType -> Nat]
  BY DEF Counted

LEMMA NextCallType ==
  ASSUME NEW c \in Parity
  PROVE  NextCall(c) \in Parity
  BY DEF Parity, NextCall

(* A step that leaves the slabs of connections and items, as far as they   *)
(* refer to each other, and the listener's registration alone.             *)
LEMMA ItemsKept ==
  ASSUME ItemsInv, DOMAIN conns' = DOMAIN conns,
         \A k \in DOMAIN conns : conns'[k].index = conns[k].index,
         items' = items, listener'.index = listener.index,
         pc = "idle" <=> pc' = "idle"
  PROVE  ItemsInv'
<1>1. ConnItems' /\ ListenerItem'
  BY DEF ItemsInv, ConnItems, ListenerItem
<1>2. ItemsHaveOwners'
  BY DEF ItemsInv, ItemsHaveOwners
<1>3. ItemsCounted'
  BY DEF ItemsInv, ItemsCounted
<1> QED
  BY <1>1, <1>2, <1>3 DEF ItemsInv

(* Taking the first key off a queue without duplicates. *)
LEMMA TailProperties ==
  ASSUME NEW A, NEW s \in Seq(A), IsInjective(s), s # <<>>
  PROVE  /\ Tail(s) \in Seq(A)
         /\ ToSet(Tail(s)) = ToSet(s) \ {Head(s)}
         /\ IsInjective(Tail(s))
<1>1. Len(s) \in Nat \ {0} /\ Head(s) = s[1]
  BY EmptySeq
<1>2. 1 \in 1 .. Len(s)
  BY <1>1
<1>3. Tail(s) = RemoveFirst(s, Head(s))
  BY <1>1, <1>2, TailIsRemoveAt, RemoveFirstIsRemoveAt
<1>4. PICK e : e = Head(s)
  OBVIOUS
<1>5. /\ RemoveFirst(s, e) \in Seq(A)
      /\ ToSet(RemoveFirst(s, e)) = ToSet(s) \ {e}
      /\ IsInjective(RemoveFirst(s, e))
  BY RemoveFirstProperties
<1> QED
  BY <1>3, <1>4, <1>5

-----------------------------------------------------------------------------
LEMMA InitInv == Init => Inv
<1> SUFFICES ASSUME Init PROVE Inv
  OBVIOUS
<1>1. TypeOK
  <2>1. stats \in [StatsType -> Nat] /\ runs \in 0 .. Runs /\ acceptLeft \in 0 .. Conns
    BY ConnsAssumption DEF Init, ZeroStats
  <2>2. listener \in [calls : Parity, index : Index \cup {None}] /\ needs \in Seq(ConnKey)
    BY DEF Init, Parity
  <2>3. conns = <<>> /\ items = <<>> /\ events = <<>>
    BY DEF Init
  <2>4. pc \in Places /\ cur \in ConnKey \cup {None} /\ canAccept \in BOOLEAN
    BY DEF Init, Places
  <2> QED
    BY <2>1, <2>2, <2>3, <2>4, EmptySlab DEF TypeOK
<1>2. Locals /\ EventsHaveTargets
  BY DEF Init, Locals, EventsHaveTargets
<1>3. NeedsAreConns
  BY DEF Init, NeedsAreConns, ToSet, IsInjective
<1>4. ItemsInv
  BY FS_EmptySet
     DEF Init, ItemsInv, ConnItems, ListenerItem, ItemsHaveOwners, ItemsCounted
<1> QED
  BY <1>1, <1>2, <1>3, <1>4 DEF Inv

(* The listener gets an item of its own. *)
LEMMA RunStartInv ==
  ASSUME Inv, RunStart
  PROVE  Inv'
<1>1. PICK i \in Index \ DOMAIN items : /\ items' = With(items, i, <<READABLE, 0>>)
                                        /\ listener' = [calls |-> 0, index |-> i]
  BY DEF RunStart, Register
<1>2. /\ pc = "idle" /\ pc' = "accept" /\ runs < Runs /\ needs' = <<>>
      /\ canAccept' = TRUE /\ acceptLeft' = Conns
      /\ stats' = Counted(stats, "register")
      /\ UNCHANGED <<conns, cur, events, runs>>
  BY DEF RunStart
<1>3. /\ DOMAIN items' = DOMAIN items \cup {i} /\ items'[i] = <<READABLE, 0>>
      /\ \A x \in DOMAIN items : items'[x] = items[x]
  BY <1>1 DEF With
<1>4. listener'.index = i
  BY <1>1
<1>5. TypeOK'
  <2>1. IsSlab(items', Index, Interest \X (0 .. Conns))
    <3>1. <<READABLE, 0>> \in Interest \X (0 .. Conns)
      BY ConnsAssumption DEF Interest
    <3>2. IsSlab(items, Index, Interest \X (0 .. Conns))
      BY DEF Inv, TypeOK
    <3> QED
      BY <3>1, <3>2, <1>1, WithSlab
  <2>2. stats' \in [StatsType -> Nat]
    BY <1>2, CountedType DEF Inv, TypeOK, StatsType
  <2>3. listener' \in [calls : Parity, index : Index \cup {None}]
    BY <1>1 DEF Parity
  <2>4. needs' \in Seq(ConnKey) /\ acceptLeft' \in 0 .. Conns
    BY <1>2, ConnsAssumption
  <2> QED
    BY <2>1, <2>2, <2>3, <2>4, <1>2 DEF Inv, TypeOK, Places
<1>6. Locals' /\ EventsHaveTargets'
  BY <1>2 DEF Inv, Locals, EventsHaveTargets
<1>7. NeedsAreConns'
  BY <1>2 DEF Inv, Locals, NeedsAreConns, ToSet, IsInjective
<1>8. ItemsInv'
  <2>1. ConnItems'
    BY <1>2, <1>3 DEF Inv, ItemsInv, ConnItems
  <2>2. ListenerItem'
    BY <1>3, <1>4 DEF ListenerItem
  <2>3. ItemsHaveOwners'
    BY <1>2, <1>3, <1>4 DEF Inv, ItemsInv, ItemsHaveOwners
  <2>4. ItemsCounted'
    <3>1. Cardinality(DOMAIN items') = Cardinality(DOMAIN items) + 1
      BY <1>3, FiniteSlabs, FS_AddElement DEF Inv
    <3> QED
      BY <3>1, <1>2, FiniteSlabs DEF Inv, ItemsInv, ItemsCounted
  <2> QED
    BY <2>1, <2>2, <2>3, <2>4 DEF ItemsInv
<1> QED
  BY <1>5, <1>6, <1>7, <1>8 DEF Inv

(* A new connection gets a key and an index that are nobody else's. *)
LEMMA AcceptOkInv ==
  ASSUME Inv, AcceptOk
  PROVE  Inv'
<1>1. PICK k \in ConnKey \ DOMAIN conns, i \in Index \ DOMAIN items :
        /\ conns' = With(conns, k, [state |-> "ReceivingRequest", calls |-> 0,
                                    index |-> i])
        /\ items' = With(items, i, <<READABLE + WRITABLE, k + 1>>)
        /\ needs' = Append(needs, k)
  BY DEF AcceptOk, Register
<1>2. /\ pc = "accept" /\ acceptLeft > 0
      /\ acceptLeft' = acceptLeft - 1
      /\ listener' = [listener EXCEPT !.calls = NextCall(@)]
      /\ stats' = Counted(Counted(stats, "accept"), "register")
      /\ UNCHANGED <<pc, cur, canAccept, events, runs>>
  BY DEF AcceptOk, Accepting
<1>3. /\ DOMAIN items' = DOMAIN items \cup {i}
      /\ items'[i] = <<READABLE + WRITABLE, k + 1>>
      /\ \A x \in DOMAIN items : items'[x] = items[x]
  BY <1>1 DEF With
<1>4. /\ DOMAIN conns' = DOMAIN conns \cup {k}
      /\ conns'[k] = [state |-> "ReceivingRequest", calls |-> 0, index |-> i]
      /\ conns'[k].index = i
      /\ \A x \in DOMAIN conns : conns'[x] = conns[x]
  BY <1>1 DEF With
<1>5. listener' \in [calls : Parity, index : Index \cup {None}] /\ listener'.index = listener.index
  BY <1>2, NextCallType DEF Inv, TypeOK
<1>6. /\ needs' \in Seq(ConnKey) /\ ToSet(needs') = ToSet(needs) \cup {k}
      /\ IsInjective(needs')
  <2>1. k \notin ToSet(needs)
    BY DEF Inv, NeedsAreConns
  <2>2. needs \in Seq(ConnKey) /\ IsInjective(needs)
    BY DEF Inv, TypeOK, NeedsAreConns
  <2>3. PICK t : t = Append(needs, k)
    OBVIOUS
  <2>4. t \in Seq(ConnKey) /\ ToSet(t) = ToSet(needs) \cup {k} /\ IsInjective(t)
    BY <2>1, <2>2, <2>3, AppendNewProperties
  <2> QED
    BY <2>3, <2>4, <1>1
<1>7. TypeOK'
  <2>1. IsSlab(items', Index, Interest \X (0 .. Conns))
    <3>1. DOMAIN items' \subseteq Index
      BY <1>3, Types DEF Inv
    <3>2. <<READABLE + WRITABLE, k + 1>> \in Interest \X (0 .. Conns)
      BY ConnsAssumption DEF Interest, ConnKey
    <3>3. IsSlab(items, Index, Interest \X (0 .. Conns))
      BY DEF Inv, TypeOK
    <3> QED
      BY <3>2, <3>3, <1>1, WithSlab
  <2>2. IsSlab(conns', ConnKey, ConnType)
    <3>1. [state |-> "ReceivingRequest", calls |-> 0, index |-> i] \in ConnType
      BY DEF ConnType, Parity
    <3>2. IsSlab(conns, ConnKey, ConnType)
      BY DEF Inv, TypeOK, ConnType
    <3> QED
      BY <3>1, <3>2, <1>1, WithSlab
  <2>3. stats' \in [StatsType -> Nat]
    <3>1. stats \in [StatsType -> Nat] /\ "accept" \in StatsType /\ "register" \in StatsType
      BY DEF Inv, TypeOK, StatsType
    <3> QED
      BY <3>1, <1>2, CountedType
  <2>4. acceptLeft' \in 0 .. Conns
    BY <1>2, ConnsAssumption DEF Inv, TypeOK
  <2> QED
    BY <2>1, <2>2, <2>3, <2>4, <1>2, <1>5, <1>6 DEF Inv, TypeOK, ConnType
<1>8. Locals' /\ EventsHaveTargets'
  BY <1>2, <1>4 DEF Inv, Locals, EventsHaveTargets
<1>9. NeedsAreConns'
  BY <1>2, <1>4, <1>6 DEF Inv, NeedsAreConns
<1>10. ItemsInv'
  <2>1. ConnItems'
    <3> SUFFICES ASSUME NEW x \in DOMAIN conns'
                 PROVE  /\ conns'[x].index \in DOMAIN items'
                        /\ items'[conns'[x].index] = <<READABLE + WRITABLE, x + 1>>
      BY DEF ConnItems
    <3>1. CASE x = k
      BY <3>1, <1>3, <1>4
    <3>2. CASE x # k
      BY <3>2, <1>3, <1>4 DEF Inv, ItemsInv, ConnItems
    <3> QED
      BY <3>1, <3>2
  <2>2. ListenerItem'
    BY <1>2, <1>3, <1>5 DEF Inv, ItemsInv, ListenerItem
  <2>3. ItemsHaveOwners'
    BY <1>2, <1>3, <1>4, <1>5 DEF Inv, ItemsInv, ItemsHaveOwners
  <2>4. ItemsCounted'
    <3>1. Cardinality(DOMAIN items') = Cardinality(DOMAIN items) + 1
      BY <1>3, FiniteSlabs, FS_AddElement DEF Inv
    <3>2. Cardinality(DOMAIN conns') = Cardinality(DOMAIN conns) + 1
      BY <1>4, FiniteSlabs, FS_AddElement DEF Inv
    <3> QED
      BY <3>1, <3>2, <1>2, FiniteSlabs DEF Inv, ItemsInv, ItemsCounted
  <2> QED
    BY <2>1, <2>2, <2>3, <2>4 DEF ItemsInv
<1> QED
  BY <1>7, <1>8, <1>9, <1>10 DEF Inv

(* The calls of the accept loop that would block, and its end. *)
LEMMA AcceptInv ==
  ASSUME Inv, AcceptWouldBlock \/ AcceptDone
  PROVE  Inv'
<1>1. /\ pc = "accept" /\ pc' \in {"accept", "process"}
      /\ UNCHANGED <<conns, needs, cur, acceptLeft, items, events, runs>>
      /\ canAccept' \in {canAccept, FALSE}
  BY DEF AcceptWouldBlock, AcceptDone, Accepting
<1>2. listener' \in [calls : Parity, index : Index \cup {None}] /\ listener'.index = listener.index
  BY NextCallType DEF AcceptWouldBlock, AcceptDone, Inv, TypeOK
<1>3. stats' \in [StatsType -> Nat]
  BY CountedType DEF AcceptWouldBlock, AcceptDone, Inv, TypeOK, StatsType
<1>4. TypeOK'
  BY <1>1, <1>2, <1>3 DEF Inv, TypeOK, Places
<1>5. Locals' /\ NeedsAreConns' /\ EventsHaveTargets'
  BY <1>1 DEF Inv, Locals, NeedsAreConns, EventsHaveTargets
<1>6. ItemsInv'
  BY <1>1, <1>2, ItemsKept DEF Inv
<1> QED
  BY <1>4, <1>5, <1>6 DEF Inv

(* The connection that is taken off the list is no longer on it. *)
LEMMA ProcessNextInv ==
  ASSUME Inv, ProcessNext
  PROVE  Inv'
<1>1. /\ pc = "process" /\ needs # <<>> /\ cur' = Head(needs) /\ needs' = Tail(needs)
      /\ UNCHANGED <<pc, conns, listener, canAccept, acceptLeft, items, events,
                     stats, runs>>
  BY DEF ProcessNext
<1>2. needs \in Seq(ConnKey) /\ IsInjective(needs) /\ ToSet(needs) \subseteq DOMAIN conns
  BY DEF Inv, TypeOK, NeedsAreConns
<1>3. /\ needs' \in Seq(ConnKey) /\ ToSet(needs') = ToSet(needs) \ {cur'}
      /\ IsInjective(needs')
  BY <1>1, <1>2, TailProperties
<1>4. cur' \in ConnKey /\ cur' \in ToSet(needs)
  BY <1>1, <1>2, HeadInQueue
<1>5. TypeOK'
  BY <1>1, <1>3, <1>4 DEF Inv, TypeOK
<1>6. Locals' /\ EventsHaveTargets'
  BY <1>1 DEF Inv, Locals, EventsHaveTargets
<1>7. NeedsAreConns'
  BY <1>1, <1>2, <1>3, <1>4 DEF NeedsAreConns
<1>8. ItemsInv'
  BY <1>1, ItemsKept DEF Inv
<1> QED
  BY <1>5, <1>6, <1>7, <1>8 DEF Inv

(* A call on a stream changes its connection only. *)
LEMMA StreamCall ==
  ASSUME Inv, pc = "process", cur \in DOMAIN conns,
         NEW new, conns' = [conns EXCEPT ![cur] = new],
         new \in ConnType, new.index = conns[cur].index,
         NEW call \in StatsType, stats' = Counted(stats, call),
         cur' \in {cur, None},
         UNCHANGED <<pc, needs, listener, canAccept, acceptLeft, items, events, runs>>
  PROVE  Inv'
<1>1. /\ DOMAIN conns' = DOMAIN conns
      /\ \A k \in DOMAIN conns : conns'[k].index = conns[k].index
  OBVIOUS
<1>2. TypeOK'
  <2>1. IsSlab(conns', ConnKey, ConnType)
    BY ExceptSlab DEF Inv, TypeOK, ConnType
  <2>2. stats' \in [StatsType -> Nat]
    BY CountedType DEF Inv, TypeOK
  <2> QED
    BY <2>1, <2>2 DEF Inv, TypeOK, ConnType
<1>3. Locals' /\ EventsHaveTargets'
  BY <1>1 DEF Inv, Locals, EventsHaveTargets
<1>4. NeedsAreConns'
  BY <1>1 DEF Inv, NeedsAreConns
<1>5. ItemsInv'
  BY <1>1, ItemsKept DEF Inv
<1> QED
  BY <1>2, <1>3, <1>4, <1>5 DEF Inv

LEMMA ReadOrBlockedInv ==
  ASSUME Inv, ReadWouldBlock \/ WriteWouldBlock \/ ReadOk
  PROVE  Inv'
<1>1. pc = "process" /\ cur # None
  BY DEF ReadWouldBlock, WriteWouldBlock, ReadOk, Blocked, In
<1>2. cur \in DOMAIN conns
  BY <1>1 DEF Inv, NeedsAreConns
<1>3. PICK c, old : c = cur /\ old = conns[cur]
  OBVIOUS
<1>4. old \in ConnType /\ NextCall(old.calls) \in Parity
  BY <1>2, <1>3, Types, NextCallType DEF Inv, ConnType
<1>5. "read" \in StatsType /\ "write" \in StatsType
  BY DEF StatsType
<1>6. ASSUME NEW state, NEW call \in StatsType, Blocked(state, call)
      PROVE  Inv'
  <2>1. PICK new : new = [old EXCEPT !.calls = NextCall(@)]
    OBVIOUS
  <2>2. new \in ConnType /\ new.index = old.index
    BY <2>1, <1>4 DEF ConnType
  <2>3. conns' = [conns EXCEPT ![c] = new]
    BY <1>6, <1>3, <2>1 DEF Blocked
  <2>4. cur' = None /\ stats' = Counted(stats, call)
        /\ UNCHANGED <<pc, needs, listener, canAccept, acceptLeft, items, events, runs>>
    BY <1>6 DEF Blocked
  <2> QED
    BY <2>2, <2>3, <2>4, <1>1, <1>2, <1>3, StreamCall
<1>7. CASE ReadOk
  <2>1. PICK new : new = [old EXCEPT !.calls = NextCall(@), !.state = "SendingResponse"]
    OBVIOUS
  <2>2. new \in ConnType /\ new.index = old.index
    BY <2>1, <1>4 DEF ConnType
  <2>3. conns' = [conns EXCEPT ![c] = new]
    BY <1>7, <1>3, <2>1 DEF ReadOk
  <2>4. stats' = Counted(stats, "read")
        /\ UNCHANGED <<pc, needs, cur, listener, canAccept, acceptLeft, items, events, runs>>
    BY <1>7 DEF ReadOk
  <2> QED
    BY <2>2, <2>3, <2>4, <1>1, <1>2, <1>3, <1>5, StreamCall
<1> QED
  BY <1>5, <1>6, <1>7 DEF ReadWouldBlock, WriteWouldBlock

(* The finished connection leaves both slabs; nothing refers to it. *)
LEMMA WriteOkInv ==
  ASSUME Inv, WriteOk
  PROVE  Inv'
<1>1. /\ pc = "process" /\ cur # None
      /\ stats' = Counted(Counted(stats, "write"), "unregister")
      /\ items' = Without(items, conns[cur].index)
      /\ conns' = Without(conns, cur)
      /\ cur' = None
      /\ UNCHANGED <<pc, needs, listener, canAccept, acceptLeft, events, runs>>
  BY DEF WriteOk, In, Unregister
<1>2. PICK c, i : c = cur /\ i = conns[cur].index
  OBVIOUS
<1>3. /\ c \in DOMAIN conns /\ c \notin ToSet(needs)
      /\ i \in DOMAIN items /\ items[i] = <<READABLE + WRITABLE, c + 1>>
  BY <1>1, <1>2 DEF Inv, NeedsAreConns, ItemsInv, ConnItems
<1>4. /\ DOMAIN items' = DOMAIN items \ {i}
      /\ \A x \in DOMAIN items : x # i => items'[x] = items[x]
  BY <1>1, <1>2, WithoutEntries
<1>5. /\ DOMAIN conns' = DOMAIN conns \ {c}
      /\ \A x \in DOMAIN conns : x # c => conns'[x] = conns[x]
  BY <1>1, <1>2, WithoutEntries
<1>6. ASSUME NEW x \in DOMAIN conns, x # c
      PROVE  conns[x].index # i
  <2>1. items[conns[x].index] = <<READABLE + WRITABLE, x + 1>>
    BY DEF Inv, ItemsInv, ConnItems
  <2>2. x \in ConnKey /\ c \in ConnKey
    BY <1>3, Types DEF Inv
  <2>3. x + 1 # c + 1
    BY <2>2, <1>6, ConnsAssumption DEF ConnKey
  <2> QED
    BY <2>1, <2>3, <1>3
<1>7. listener.index # i
  <2>1. items[listener.index] = <<READABLE, 0>>
    BY <1>1 DEF Inv, ItemsInv, ListenerItem
  <2> QED
    BY <2>1, <1>3 DEF READABLE, WRITABLE
<1>8. TypeOK'
  <2>1. IsSlab(items', Index, Interest \X (0 .. Conns))
    BY <1>1, WithoutSlab DEF Inv, TypeOK
  <2>2. IsSlab(conns', ConnKey, ConnType)
    BY <1>1, WithoutSlab DEF Inv, TypeOK, ConnType
  <2>3. stats' \in [StatsType -> Nat]
    <3>1. stats \in [StatsType -> Nat] /\ "write" \in StatsType /\ "unregister" \in StatsType
      BY DEF Inv, TypeOK, StatsType
    <3> QED
      BY <3>1, <1>1, CountedType
  <2> QED
    BY <2>1, <2>2, <2>3, <1>1 DEF Inv, TypeOK, ConnType
<1>9. Locals' /\ EventsHaveTargets'
  BY <1>1 DEF Inv, Locals, EventsHaveTargets
<1>10. NeedsAreConns'
  BY <1>1, <1>3, <1>5 DEF Inv, NeedsAreConns
<1>11. ItemsInv'
  <2>1. ConnItems'
    BY <1>4, <1>5, <1>6 DEF Inv, ItemsInv, ConnItems
  <2>2. ListenerItem'
    BY <1>1, <1>4, <1>7 DEF Inv, ItemsInv, ListenerItem
  <2>3. ItemsHaveOwners'
    BY <1>1, <1>2, <1>4, <1>5 DEF Inv, ItemsInv, ItemsHaveOwners
  <2>4. ItemsCounted'
    <3>1. Cardinality(DOMAIN items') = Cardinality(DOMAIN items) - 1
      BY <1>3, <1>4, FiniteSlabs, FS_RemoveElement DEF Inv
    <3>2. Cardinality(DOMAIN conns') = Cardinality(DOMAIN conns) - 1
      BY <1>3, <1>5, FiniteSlabs, FS_RemoveElement DEF Inv
    <3> QED
      BY <3>1, <3>2, <1>1, FiniteSlabs DEF Inv, ItemsInv, ItemsCounted
  <2> QED
    BY <2>1, <2>2, <2>3, <2>4 DEF ItemsInv
<1> QED
  BY <1>8, <1>9, <1>10, <1>11 DEF Inv

(* The listener leaves its slab; run() ends. *)
LEMMA RunEndInv ==
  ASSUME Inv, RunEnd
  PROVE  Inv'
<1>1. /\ pc = "process" /\ pc' = "idle" /\ cur = None /\ conns = <<>>
      /\ items' = Without(items, listener.index)
      /\ listener' = [listener EXCEPT !.index = None]
      /\ stats' = Counted(stats, "unregister")
      /\ runs' = runs + 1
      /\ UNCHANGED <<conns, needs, cur, canAccept, acceptLeft, events>>
  BY DEF RunEnd, AllServed, Unregister
<1>2. PICK i : i = listener.index
  OBVIOUS
<1>3. i \in DOMAIN items
  BY <1>1, <1>2 DEF Inv, ItemsInv, ListenerItem
<1>4. DOMAIN items' = DOMAIN items \ {i}
  BY <1>1, <1>2, WithoutEntries
<1>5. DOMAIN conns = {}
  BY <1>1
<1>6. TypeOK'
  <2>1. IsSlab(items', Index, Interest \X (0 .. Conns))
    BY <1>1, WithoutSlab DEF Inv, TypeOK
  <2>2. stats' \in [StatsType -> Nat]
    BY <1>1, CountedType DEF Inv, TypeOK, StatsType
  <2>3. listener' \in [calls : Parity, index : Index \cup {None}]
    BY <1>1 DEF Inv, TypeOK
  <2>4. runs' \in 0 .. Runs
    BY <1>1, ConnsAssumption DEF Inv, TypeOK, Locals
  <2> QED
    BY <2>1, <2>2, <2>3, <2>4, <1>1 DEF Inv, TypeOK, Places
<1>7. Locals' /\ NeedsAreConns' /\ EventsHaveTargets'
  BY <1>1 DEF Inv, Locals, NeedsAreConns, EventsHaveTargets
<1>8. ItemsInv'
  <2>1. ConnItems' /\ ListenerItem'
    BY <1>1, <1>5 DEF ConnItems, ListenerItem
  <2>2. ItemsHaveOwners'
    BY <1>1, <1>2, <1>4, <1>5 DEF Inv, ItemsInv, ItemsHaveOwners
  <2>3. ItemsCounted'
    <3>1. Cardinality(DOMAIN items') = Cardinality(DOMAIN items) - 1
      BY <1>3, <1>4, FiniteSlabs, FS_RemoveElement DEF Inv
    <3> QED
      BY <3>1, <1>1, FiniteSlabs DEF Inv, ItemsInv, ItemsCounted
  <2> QED
    BY <2>1, <2>2, <2>3 DEF ItemsInv
<1> QED
  BY <1>6, <1>7, <1>8 DEF Inv

(* Poll::poll: every event is that of an item, whose owner exists. *)
LEMMA PollInv ==
  ASSUME Inv, Poll
  PROVE  Inv'
<1>1. /\ pc = "process" /\ pc' = "events" /\ cur = None
      /\ stats' = Counted(stats, "poll")
      /\ events' = [i \in DOMAIN items |-> <<items[i][2], items[i][1]>>]
      /\ UNCHANGED <<conns, needs, cur, listener, canAccept, acceptLeft, items, runs>>
  BY DEF Poll, PollEvents
<1>2. ASSUME NEW i \in DOMAIN items
      PROVE  /\ items[i][2] \in 0 .. Conns /\ items[i][1] \in Interest
             /\ items[i][2] = 0 \/ items[i][2] - 1 \in DOMAIN conns
  <2>1. items[i][2] \in 0 .. Conns /\ items[i][1] \in Interest
    BY Types DEF Inv
  <2>2. CASE \E k \in DOMAIN conns : conns[k].index = i
    <3>1. PICK k \in DOMAIN conns : conns[k].index = i
      BY <2>2
    <3>2. items[i] = <<READABLE + WRITABLE, k + 1>> /\ k \in ConnKey
      BY <3>1, Types DEF Inv, ItemsInv, ConnItems
    <3>3. items[i][2] - 1 = k
      BY <3>2, ConnsAssumption DEF ConnKey
    <3> QED
      BY <2>1, <3>3
  <2>3. CASE listener.index = i
    BY <2>1, <2>3, <1>1 DEF Inv, ItemsInv, ListenerItem
  <2> QED
    BY <2>1, <2>2, <2>3 DEF Inv, ItemsInv, ItemsHaveOwners
<1>3. /\ DOMAIN events' = DOMAIN items
      /\ \A i \in DOMAIN items : events'[i] = <<items[i][2], items[i][1]>>
  BY <1>1
<1>4. EventsHaveTargets'
  BY <1>1, <1>2, <1>3 DEF EventsHaveTargets
<1>5. TypeOK'
  <2>1. IsSlab(events', Index, (0 .. Conns) \X Interest)
    BY <1>1, <1>2, <1>3, Types DEF Inv, IsSlab
  <2>2. stats' \in [StatsType -> Nat]
    BY <1>1, CountedType DEF Inv, TypeOK, StatsType
  <2> QED
    BY <2>1, <2>2, <1>1 DEF Inv, TypeOK, Places
<1>6. Locals' /\ NeedsAreConns'
  BY <1>1 DEF Inv, Locals, NeedsAreConns
<1>7. ItemsInv'
  BY <1>1, ItemsKept DEF Inv
<1> QED
  BY <1>4, <1>5, <1>6, <1>7 DEF Inv

(* The event loop looks at the events one by one. *)
LEMMA LaterEventsKept ==
  ASSUME Inv, events' = LaterEvents(events), UNCHANGED conns
  PROVE  IsSlab(events', Index, (0 .. Conns) \X Interest) /\ EventsHaveTargets'
<1>1. PICK m : events' = Without(events, m)
  BY DEF LaterEvents
<1>2. /\ DOMAIN events' \subseteq DOMAIN events
      /\ \A x \in DOMAIN events' : events'[x] = events[x]
  BY <1>1 DEF Without
<1>3. EventsHaveTargets'
  BY <1>2 DEF Inv, EventsHaveTargets
<1>4. IsSlab(events', Index, (0 .. Conns) \X Interest)
  BY <1>1, WithoutSlab DEF Inv, TypeOK
<1> QED
  BY <1>3, <1>4

LEMMA ListenerEventInv ==
  ASSUME Inv, ListenerEvent
  PROVE  Inv'
<1>1. /\ pc = "events" /\ canAccept' = TRUE /\ events' = LaterEvents(events)
      /\ UNCHANGED <<pc, conns, needs, cur, listener, acceptLeft, items, stats, runs>>
  BY DEF ListenerEvent
<1>2. IsSlab(events', Index, (0 .. Conns) \X Interest) /\ EventsHaveTargets'
  BY <1>1, LaterEventsKept
<1>3. TypeOK'
  BY <1>1, <1>2 DEF Inv, TypeOK
<1>4. Locals' /\ NeedsAreConns'
  BY <1>1 DEF Inv, Locals, NeedsAreConns
<1>5. ItemsInv'
  BY <1>1, ItemsKept DEF Inv
<1> QED
  BY <1>2, <1>3, <1>4, <1>5 DEF Inv

(* "remove, then push_back": the connection is on the list once. *)
LEMMA ConnEventInv ==
  ASSUME Inv, ConnEvent
  PROVE  Inv'
<1>1. /\ pc = "events" /\ events' = LaterEvents(events)
      /\ UNCHANGED <<pc, conns, cur, listener, canAccept, acceptLeft, items, stats, runs>>
  BY DEF ConnEvent
<1>2. PICK k \in DOMAIN conns : needs' \in {needs, Append(RemoveFirst(needs, k), k)}
  BY DEF ConnEvent
<1>3. IsSlab(events', Index, (0 .. Conns) \X Interest) /\ EventsHaveTargets'
  BY <1>1, LaterEventsKept
<1>4. cur = None
  BY <1>1 DEF Inv, Locals
<1>5. needs' \in Seq(ConnKey) /\ IsInjective(needs') /\ ToSet(needs') \subseteq DOMAIN conns
  <2>1. needs \in Seq(ConnKey) /\ IsInjective(needs) /\ ToSet(needs) \subseteq DOMAIN conns
    BY DEF Inv, TypeOK, NeedsAreConns
  <2>2. PICK s : s = RemoveFirst(needs, k)
    OBVIOUS
  <2>3. s \in Seq(ConnKey) /\ ToSet(s) = ToSet(needs) \ {k} /\ IsInjective(s)
    BY <2>1, <2>2, RemoveFirstProperties
  <2>4. PICK t : t = Append(s, k)
    OBVIOUS
  <2>5. k \in ConnKey /\ k \notin ToSet(s)
    BY <2>3, Types DEF Inv
  <2>6. t \in Seq(ConnKey) /\ ToSet(t) = ToSet(s) \cup {k} /\ IsInjective(t)
    BY <2>3, <2>4, <2>5, AppendNewProperties
  <2> QED
    BY <2>1, <2>2, <2>3, <2>4, <2>6, <1>2
<1>6. TypeOK'
  BY <1>1, <1>3, <1>5 DEF Inv, TypeOK
<1>7. Locals' /\ NeedsAreConns'
  BY <1>1, <1>4, <1>5 DEF Inv, Locals, NeedsAreConns
<1>8. ItemsInv'
  BY <1>1, ItemsKept DEF Inv
<1> QED
  BY <1>3, <1>6, <1>7, <1>8 DEF Inv

LEMMA EventsDoneInv ==
  ASSUME Inv, EventsDone
  PROVE  Inv'
<1>1. /\ pc = "events" /\ pc' = "accept" /\ events = <<>>
      /\ UNCHANGED <<conns, needs, cur, listener, canAccept, acceptLeft, items,
                     events, stats, runs>>
  BY DEF EventsDone
<1>2. TypeOK'
  BY <1>1 DEF Inv, TypeOK, Places
<1>3. Locals' /\ NeedsAreConns' /\ EventsHaveTargets'
  BY <1>1 DEF Inv, Locals, NeedsAreConns, EventsHaveTargets
<1>4. ItemsInv'
  BY <1>1, ItemsKept DEF Inv
<1> QED
  BY <1>2, <1>3, <1>4 DEF Inv

LEMMA StutterInv == Inv /\ UNCHANGED vars => Inv'
<1> SUFFICES ASSUME Inv, UNCHANGED vars PROVE Inv'
  OBVIOUS
<1>1. TypeOK'
  BY DEF Inv, vars, TypeOK
<1>2. Locals' /\ NeedsAreConns' /\ EventsHaveTargets'
  BY DEF Inv, vars, Locals, NeedsAreConns, EventsHaveTargets
<1>3. ItemsInv'
  BY ItemsKept DEF Inv, vars
<1> QED
  BY <1>1, <1>2, <1>3 DEF Inv

LEMMA NextInv == Inv /\ [Next]_vars => Inv'
<1> SUFFICES ASSUME Inv, Next PROVE Inv'
  BY StutterInv
<1> QED
  BY RunStartInv, AcceptOkInv, AcceptInv, ProcessNextInv, ReadOrBlockedInv,
     WriteOkInv, RunEndInv, PollInv, ListenerEventInv, ConnEventInv,
     EventsDoneInv, StutterInv
     DEF Next, Run, Terminated

-----------------------------------------------------------------------------
(***************************************************************************)
(* The calls of the current run.  Every call the fake I/O answers for      *)
(* itself is made twice, and between the two lies exactly one poll: that   *)
(* pins the polls to the accepts, and the end of the run to the polls.     *)
(***************************************************************************)

(* The calls counted since this run() started. *)
Spent == CallsSince(stats, Conns, runs)

Receiving    == {k \in DOMAIN conns : conns[k].state = "ReceivingRequest"}
ReadBlocked  == {k \in DOMAIN conns : /\ conns[k].state = "ReceivingRequest"
                                      /\ conns[k].calls = 1}
WriteBlocked == {k \in DOMAIN conns : /\ conns[k].state = "SendingResponse"
                                      /\ conns[k].calls = 1}

(* The calls of a run, by how far its connections have come. *)
CallsCounted ==
  pc # "idle" =>
    /\ Spent["register"] = Conns - acceptLeft + 1
    /\ Spent["unregister"] = Conns - acceptLeft - Cardinality(DOMAIN conns)
    /\ Spent["accept"] = 2 * (Conns - acceptLeft) + listener.calls
    /\ Spent["read"] = 2 * (Conns - acceptLeft - Cardinality(Receiving))
                         + Cardinality(ReadBlocked)
    /\ Spent["write"] = 2 * (Conns - acceptLeft - Cardinality(DOMAIN conns))
                          + Cardinality(WriteBlocked)

(* A poll has come since the call that blocked, and not yet the next call. *)
ListenerDue == listener.calls = 1 /\ (canAccept \/ pc = "events")
Due(k) == conns[k].calls = 1 /\ (pc = "events" \/ k \in ToSet(needs) \/ k = cur)

(* Nobody waits for a poll that has already come. *)
NobodyForgotten ==
  /\ \A k \in DOMAIN conns :
       /\ conns[k].calls = 0 => k \in ToSet(needs) \/ k = cur
       /\ pc = "events" => \/ k \in ToSet(needs)
                           \/ \E i \in DOMAIN events :
                                events[i] = <<k + 1, READABLE + WRITABLE>>
  /\ pc # "idle" /\ acceptLeft > 0 =>
       /\ pc = "process" => ~ canAccept
       /\ ~ canAccept \/ pc = "events" => listener.calls = 1
       /\ pc = "events" => canAccept \/ \E i \in DOMAIN events : events[i][1] = 0
  /\ pc # "idle" /\ acceptLeft = 0 => listener.calls = 0

(* The polls the run had made when it accepted the connection: they grow   *)
(* by one between the two reads and by one between the two writes.         *)
Birth(k) == Spent["poll"] - One(Due(k)) - One(conns[k].state = "SendingResponse")

PollsCounted ==
  pc # "idle" =>
    /\ \A k \in DOMAIN conns : Birth(k) \in 1 .. Conns
    /\ acceptLeft > 0 => Conns - acceptLeft = Spent["poll"] - One(ListenerDue)
    /\ acceptLeft = 0 => \/ \E k \in DOMAIN conns : Birth(k) = Conns
                         \/ Spent["poll"] = Conns + 2

(* Between runs nothing is left, and the counts are those of whole runs. *)
CleanBetween ==
  pc = "idle" => /\ conns = <<>> /\ needs = <<>>
                 /\ Spent = ZeroStats
                 /\ runs > 0 => acceptLeft = 0

Acc == CallsCounted /\ NobodyForgotten /\ PollsCounted /\ CleanBetween

-----------------------------------------------------------------------------
LEMMA SpentType ==
  ASSUME TypeOK
  PROVE  Spent \in [StatsType -> Int]
  BY SinceType, ConnsAssumption DEF TypeOK, Spent

(* A call that is counted within a run. *)
LEMMA SpentCounted ==
  ASSUME TypeOK, NEW c \in StatsType, stats' = Counted(stats, c), runs' = runs
  PROVE  /\ Spent'[c] = Spent[c] + 1
         /\ \A k \in StatsType : k # c => Spent'[k] = Spent[k]
<1>1. stats \in [StatsType -> Nat] /\ runs \in Nat /\ Conns \in Nat
  BY ConnsAssumption DEF TypeOK
<1> QED
  BY <1>1, SinceCounted DEF Spent

LEMMA SpentTwice ==
  ASSUME TypeOK, NEW c \in StatsType, NEW d \in StatsType, c # d,
         stats' = Counted(Counted(stats, c), d), runs' = runs
  PROVE  /\ Spent'[c] = Spent[c] + 1
         /\ Spent'[d] = Spent[d] + 1
         /\ \A k \in StatsType \ {c, d} : Spent'[k] = Spent[k]
<1>1. stats \in [StatsType -> Nat] /\ runs \in Nat /\ Conns \in Nat
  BY ConnsAssumption DEF TypeOK
<1>2. PICK b \in [StatsType -> Nat] : b = ExpectedStats(Conns, runs)
  BY <1>1, ExpectedType
<1>3. /\ Spent = [k \in StatsType |-> stats[k] - b[k]]
      /\ Spent' = [k \in StatsType |-> stats'[k] - b[k]]
  BY <1>2 DEF Spent, CallsSince
<1>4. PICK s \in [StatsType -> Nat] : s = Counted(stats, c)
  BY <1>1, CountedOnce
<1>5. s[c] = stats[c] + 1 /\ \A k \in StatsType : k # c => s[k] = stats[k]
  BY <1>1, <1>4, CountedOnce
<1>6. stats'[d] = s[d] + 1 /\ \A k \in StatsType : k # d => stats'[k] = s[k]
  BY <1>4, CountedOnce
<1> QED
  BY <1>1, <1>3, <1>5, <1>6

LEMMA SpentKept ==
  ASSUME UNCHANGED <<stats, runs>>
  PROVE  Spent' = Spent
  BY DEF Spent

(* The end of a run takes one run's calls off. *)
LEMMA SpentAtEnd ==
  ASSUME TypeOK, stats' = Counted(stats, "unregister"), runs' = runs + 1,
         Spent["register"] = Conns + 1, Spent["unregister"] = Conns,
         Spent["poll"] = Conns + 2, Spent["accept"] = 2 * Conns,
         Spent["read"] = 2 * Conns, Spent["write"] = 2 * Conns
  PROVE  Spent' = ZeroStats
<1>1. stats \in [StatsType -> Nat] /\ Conns \in Nat /\ runs \in Nat
  BY ConnsAssumption DEF TypeOK
<1>2. stats' \in [StatsType -> Nat] /\ "unregister" \in StatsType
  BY <1>1, CountedOnce DEF StatsType
<1>3. PICK z : z = CallsSince(stats', Conns, runs)
  OBVIOUS
<1>4. /\ z["unregister"] = Spent["unregister"] + 1
      /\ \A k \in StatsType : k # "unregister" => z[k] = Spent[k]
  <2>1. /\ CallsSince(Counted(stats, "unregister"), Conns, runs)["unregister"]
             = CallsSince(stats, Conns, runs)["unregister"] + 1
        /\ \A k \in StatsType : k # "unregister" =>
             CallsSince(Counted(stats, "unregister"), Conns, runs)[k]
               = CallsSince(stats, Conns, runs)[k]
    BY ONLY <1>1, <1>2, SinceCounted
  <2> QED
    BY <1>3, <2>1 DEF Spent
<1>5. /\ z["register"] = Conns + 1 /\ z["unregister"] = Conns + 1
      /\ z["poll"] = Conns + 2 /\ z["accept"] = 2 * Conns
      /\ z["read"] = 2 * Conns /\ z["write"] = 2 * Conns
  BY <1>4 DEF StatsType
<1>6. CallsSince(stats', Conns, runs + 1) = ZeroStats
  BY <1>1, <1>2, <1>3, <1>5, SinceAtEnd
<1> QED
  BY <1>6 DEF Spent

(* The sets that are counted are finite. *)
LEMMA FiniteCounts ==
  ASSUME TypeOK
  PROVE  /\ IsFiniteSet(Receiving) /\ Cardinality(Receiving) \in Nat
         /\ IsFiniteSet(ReadBlocked) /\ Cardinality(ReadBlocked) \in Nat
         /\ IsFiniteSet(WriteBlocked) /\ Cardinality(WriteBlocked) \in Nat
<1>1. /\ Receiving \in SUBSET DOMAIN conns /\ ReadBlocked \in SUBSET DOMAIN conns
      /\ WriteBlocked \in SUBSET DOMAIN conns
  BY DEF Receiving, ReadBlocked, WriteBlocked
<1> QED
  BY <1>1, FiniteSlabs, FS_Subset, FS_CardinalityType

LEMMA CallsKept ==
  ASSUME CallsCounted, pc # "idle", UNCHANGED <<conns, acceptLeft>>,
         listener'.calls = listener.calls,
         \A k \in StatsType : k # "poll" => Spent'[k] = Spent[k]
  PROVE  CallsCounted'
<1>1. Receiving' = Receiving /\ ReadBlocked' = ReadBlocked /\ WriteBlocked' = WriteBlocked
  BY DEF Receiving, ReadBlocked, WriteBlocked
<1> QED
  BY <1>1 DEF CallsCounted, StatsType

(* A step that neither polls nor ends a connection nor starts one. *)
LEMMA BirthsKept ==
  ASSUME PollsCounted, pc # "idle", DOMAIN conns' = DOMAIN conns,
         \A k \in DOMAIN conns : Birth(k)' = Birth(k),
         acceptLeft' = acceptLeft, Spent'["poll"] = Spent["poll"],
         acceptLeft > 0 => (ListenerDue' <=> ListenerDue)
  PROVE  PollsCounted'
<1>1. acceptLeft > 0 => One(ListenerDue)' = One(ListenerDue)
  BY DEF One
<1>2. \A k \in DOMAIN conns' : Birth(k)' \in 1 .. Conns
  BY DEF PollsCounted
<1>3. acceptLeft' > 0 => Conns - acceptLeft' = Spent'["poll"] - One(ListenerDue)'
  BY <1>1 DEF PollsCounted
<1>4. acceptLeft' = 0 => \/ \E k \in DOMAIN conns' : Birth(k)' = Conns
                         \/ Spent'["poll"] = Conns + 2
  BY DEF PollsCounted
<1> QED
  BY <1>2, <1>3, <1>4 DEF PollsCounted

LEMMA InitAcc == Init => Acc
<1> SUFFICES ASSUME Init PROVE Acc
  OBVIOUS
<1>1. TypeOK
  BY InitInv DEF Inv
<1>2. Spent = ZeroStats
  <2>1. runs = 0 /\ stats = ZeroStats /\ Conns \in Nat
    BY ConnsAssumption DEF Init
  <2> QED
    BY <2>1, SinceStart DEF Spent
<1> QED
  BY <1>2 DEF Init, Acc, CallsCounted, NobodyForgotten, PollsCounted, CleanBetween

LEMMA RunStartAcc ==
  ASSUME Inv, Acc, RunStart
  PROVE  Acc'
<1>1. /\ pc = "idle" /\ pc' = "accept" /\ needs' = <<>> /\ listener'.calls = 0
      /\ canAccept' = TRUE /\ acceptLeft' = Conns
      /\ stats' = Counted(stats, "register")
      /\ UNCHANGED <<conns, cur, events, runs>>
  BY DEF RunStart
<1>2. conns' = <<>> /\ DOMAIN conns' = {} /\ Spent = ZeroStats
  BY <1>1 DEF Acc, CleanBetween
<1>3. Spent'["register"] = 1 /\ \A k \in StatsType : k # "register" => Spent'[k] = 0
  BY <1>1, <1>2, SpentCounted DEF Inv, StatsType, ZeroStats
<1>4. Receiving' = {} /\ ReadBlocked' = {} /\ WriteBlocked' = {}
  BY <1>2 DEF Receiving, ReadBlocked, WriteBlocked
<1>5. Cardinality({}) = 0
  BY FS_EmptySet
<1>6. CallsCounted'
  BY <1>1, <1>2, <1>3, <1>4, <1>5, ConnsAssumption DEF CallsCounted, StatsType
<1>7. NobodyForgotten'
  BY <1>1, <1>2, ConnsAssumption DEF NobodyForgotten
<1>8. PollsCounted'
  <2>1. Spent'["poll"] = 0 /\ One(ListenerDue)' = 0
    BY <1>1, <1>3 DEF One, ListenerDue, StatsType
  <2> QED
    BY <2>1, <1>1, <1>2, ConnsAssumption DEF PollsCounted
<1>9. CleanBetween'
  BY <1>1 DEF CleanBetween
<1> QED
  BY <1>6, <1>7, <1>8, <1>9 DEF Acc

LEMMA AcceptWouldBlockAcc ==
  ASSUME Inv, Acc, AcceptWouldBlock
  PROVE  Acc'
<1>1. /\ pc = "accept" /\ acceptLeft > 0 /\ canAccept
      /\ stats' = Counted(stats, "accept") /\ canAccept' = FALSE
      /\ UNCHANGED <<pc, conns, needs, cur, acceptLeft, items, events, runs>>
  BY DEF AcceptWouldBlock, Accepting
<1>2. listener.calls = 0 /\ listener'.calls = 1
  BY DEF AcceptWouldBlock, Inv, TypeOK, Blocks, NextCall, Parity
<1>3. Spent'["accept"] = Spent["accept"] + 1 /\ \A k \in StatsType : k # "accept" => Spent'[k] = Spent[k]
  BY <1>1, SpentCounted DEF Inv, StatsType
<1>4. CallsCounted'
  <2>1. Receiving' = Receiving /\ ReadBlocked' = ReadBlocked /\ WriteBlocked' = WriteBlocked
    BY <1>1 DEF Receiving, ReadBlocked, WriteBlocked
  <2>2. Spent["accept"] \in Int /\ Conns - acceptLeft \in Int
    BY SpentType, ConnsAssumption DEF Inv, StatsType, TypeOK
  <2> QED
    BY <2>1, <2>2, <1>1, <1>2, <1>3 DEF Acc, CallsCounted, StatsType
<1>5. NobodyForgotten'
  BY <1>1, <1>2 DEF Acc, NobodyForgotten
<1>6. PollsCounted'
  <2>1. ~ ListenerDue /\ ~ ListenerDue'
    BY <1>1, <1>2 DEF ListenerDue
  <2>2. \A k \in DOMAIN conns : Birth(k)' = Birth(k)
    BY <1>1, <1>3 DEF Birth, One, Due, StatsType
  <2> QED
    BY <2>1, <2>2, <1>1, <1>3, BirthsKept DEF Acc, StatsType
<1>7. CleanBetween'
  BY <1>1 DEF CleanBetween
<1> QED
  BY <1>4, <1>5, <1>6, <1>7 DEF Acc

(* The new connection is born at the poll that let it in. *)
LEMMA AcceptOkAcc ==
  ASSUME Inv, Acc, AcceptOk
  PROVE  Acc'
<1>1. PICK k \in ConnKey \ DOMAIN conns, i \in Index \ DOMAIN items :
        /\ conns' = With(conns, k, [state |-> "ReceivingRequest", calls |-> 0,
                                    index |-> i])
        /\ needs' = Append(needs, k)
  BY DEF AcceptOk
<1>2. /\ pc = "accept" /\ acceptLeft > 0 /\ canAccept
      /\ acceptLeft' = acceptLeft - 1
      /\ stats' = Counted(Counted(stats, "accept"), "register")
      /\ UNCHANGED <<pc, cur, canAccept, events, runs>>
  BY DEF AcceptOk, Accepting
<1>3. listener.calls = 1 /\ listener'.calls = 0
  BY DEF AcceptOk, Inv, TypeOK, Blocks, NextCall, Parity
<1>4. /\ DOMAIN conns' = DOMAIN conns \cup {k}
      /\ conns'[k].state = "ReceivingRequest" /\ conns'[k].calls = 0
      /\ \A x \in DOMAIN conns : conns'[x] = conns[x] /\ x # k
  BY <1>1 DEF With
<1>5. ToSet(needs') = ToSet(needs) \cup {k}
  <2>1. k \notin ToSet(needs)
    BY DEF Inv, NeedsAreConns
  <2>2. needs \in Seq(ConnKey) /\ IsInjective(needs)
    BY DEF Inv, TypeOK, NeedsAreConns
  <2> QED
    BY <2>1, <2>2, <1>1, AppendNewProperties
<1>6. /\ Spent'["accept"] = Spent["accept"] + 1
      /\ Spent'["register"] = Spent["register"] + 1
      /\ \A c \in StatsType \ {"accept", "register"} : Spent'[c] = Spent[c]
  BY <1>2, SpentTwice DEF Inv, StatsType
<1>7. /\ \A c \in StatsType : Spent[c] \in Int
      /\ Conns \in Nat \ {0} /\ acceptLeft \in 1 .. Conns
  BY <1>2, SpentType, ConnsAssumption DEF Inv, TypeOK
<1>8. CallsCounted'
  <2>1. Receiving' = Receiving \cup {k} /\ ReadBlocked' = ReadBlocked
        /\ WriteBlocked' = WriteBlocked
    BY <1>4 DEF Receiving, ReadBlocked, WriteBlocked
  <2>2. k \notin Receiving
    BY DEF Receiving
  <2>3. /\ Cardinality(Receiving') = Cardinality(Receiving) + 1
        /\ Cardinality(DOMAIN conns') = Cardinality(DOMAIN conns) + 1
    BY <2>1, <2>2, <1>4, JoinOrLeave, FiniteSlabs, FiniteCounts DEF Inv
  <2>4. /\ Cardinality(Receiving) \in Nat /\ Cardinality(DOMAIN conns) \in Nat
        /\ Cardinality(ReadBlocked) \in Nat /\ Cardinality(WriteBlocked) \in Nat
    BY FiniteSlabs, FiniteCounts DEF Inv
  <2> QED
    BY <2>1, <2>3, <2>4, <1>2, <1>3, <1>6, <1>7 DEF Acc, CallsCounted, StatsType
<1>9. NobodyForgotten'
  BY <1>2, <1>3, <1>4, <1>5 DEF Acc, NobodyForgotten
<1>10. PollsCounted'
  <2>1. Spent'["poll"] = Spent["poll"] /\ Spent["poll"] \in Int
    BY <1>6, <1>7 DEF StatsType
  <2>2. One(ListenerDue) = 1 /\ One(ListenerDue)' = 0
    BY <1>2, <1>3 DEF One, ListenerDue
  <2>3. Conns - acceptLeft = Spent["poll"] - 1
    BY <2>2, <1>2 DEF Acc, PollsCounted
  <2>4. Birth(k)' = Spent["poll"]
    BY <2>1, <1>4 DEF Birth, One, Due
  <2>5. \A x \in DOMAIN conns : Birth(x)' = Birth(x)
    BY <2>1, <1>2, <1>4, <1>5 DEF Birth, One, Due
  <2>6. Birth(k)' = Conns - acceptLeft' /\ Birth(k)' \in 1 .. Conns
    BY <2>1, <2>3, <2>4, <1>2, <1>7
  <2>7. \A x \in DOMAIN conns' : Birth(x)' \in 1 .. Conns
    BY <2>5, <2>6, <1>2, <1>4 DEF Acc, PollsCounted
  <2>8. acceptLeft' = 0 => Birth(k)' = Conns
    BY <2>6, <1>7
  <2> QED
    BY <2>1, <2>2, <2>3, <2>7, <2>8, <1>2, <1>4, <1>7 DEF PollsCounted
<1>11. CleanBetween'
  BY <1>2 DEF CleanBetween
<1> QED
  BY <1>8, <1>9, <1>10, <1>11 DEF Acc

LEMMA AcceptDoneAcc ==
  ASSUME Inv, Acc, AcceptDone
  PROVE  Acc'
<1>1. /\ pc = "accept" /\ pc' = "process" /\ (acceptLeft = 0 \/ ~ canAccept)
      /\ UNCHANGED <<conns, needs, cur, listener, canAccept, acceptLeft, items,
                     events, stats, runs>>
  BY DEF AcceptDone, Accepting, Inv, TypeOK
<1>2. Spent' = Spent
  BY <1>1, SpentKept
<1>3. CallsCounted'
  BY <1>1, <1>2, CallsKept DEF Acc
<1>4. NobodyForgotten'
  BY <1>1 DEF Acc, NobodyForgotten
<1>5. PollsCounted'
  <2>1. \A k \in DOMAIN conns : Birth(k)' = Birth(k)
    BY <1>1, <1>2 DEF Birth, One, Due
  <2> QED
    BY <2>1, <1>1, <1>2, BirthsKept DEF Acc, ListenerDue
<1>6. CleanBetween'
  BY <1>1 DEF CleanBetween
<1> QED
  BY <1>3, <1>4, <1>5, <1>6 DEF Acc

LEMMA ProcessNextAcc ==
  ASSUME Inv, Acc, ProcessNext
  PROVE  Acc'
<1>1. /\ pc = "process" /\ needs # <<>> /\ cur = None
      /\ cur' = Head(needs) /\ needs' = Tail(needs)
      /\ UNCHANGED <<pc, conns, listener, canAccept, acceptLeft, items, events,
                     stats, runs>>
  BY DEF ProcessNext
<1>2. needs \in Seq(ConnKey) /\ IsInjective(needs)
  BY DEF Inv, TypeOK, NeedsAreConns
<1>3. ToSet(needs') = ToSet(needs) \ {cur'} /\ cur' \in ToSet(needs)
  BY <1>1, <1>2, TailProperties, HeadInQueue
<1>4. Spent' = Spent
  BY <1>1, SpentKept
<1>5. \A k \in DOMAIN conns : (k \in ToSet(needs') \/ k = cur') <=> (k \in ToSet(needs) \/ k = cur)
  <2>1. \A k \in DOMAIN conns : k # cur
    BY <1>1, Types, NoneAssumption DEF Inv
  <2> QED
    BY <2>1, <1>3
<1>6. CallsCounted'
  BY <1>1, <1>4, CallsKept DEF Acc
<1>7. NobodyForgotten'
  BY <1>1, <1>5 DEF Acc, NobodyForgotten
<1>8. PollsCounted'
  <2>1. \A k \in DOMAIN conns : Birth(k)' = Birth(k)
    BY <1>1, <1>4, <1>5 DEF Birth, One, Due
  <2> QED
    BY <2>1, <1>1, <1>4, BirthsKept DEF Acc, ListenerDue
<1>9. CleanBetween'
  BY <1>1 DEF CleanBetween
<1> QED
  BY <1>6, <1>7, <1>8, <1>9 DEF Acc

(* The first read and the first write of a connection block. *)
LEMMA BlockedAcc ==
  ASSUME Inv, Acc, ReadWouldBlock \/ WriteWouldBlock
  PROVE  Acc'
<1>1. PICK c : c = cur
  OBVIOUS
<1>2. /\ pc = "process" /\ cur # None /\ cur' = None
      /\ conns' = [conns EXCEPT ![cur].calls = NextCall(@)]
      /\ UNCHANGED <<pc, needs, listener, canAccept, acceptLeft, items, events, runs>>
      /\ Blocks(conns[cur].calls)
  BY DEF ReadWouldBlock, WriteWouldBlock, Blocked, In
<1>3. c \in DOMAIN conns /\ c \notin ToSet(needs) /\ conns[c] \in ConnType
  BY <1>1, <1>2, Types DEF Inv, NeedsAreConns
<1>4. /\ DOMAIN conns' = DOMAIN conns
      /\ conns[c].calls = 0 /\ conns'[c].calls = 1 /\ conns'[c].state = conns[c].state
      /\ \A x \in DOMAIN conns : x # c => conns'[x] = conns[x]
  BY <1>1, <1>2, <1>3 DEF ConnType, Blocks, NextCall, Parity
<1>5. /\ \A k \in StatsType : Spent[k] \in Int
      /\ Conns \in Nat \ {0} /\ acceptLeft \in 0 .. Conns
  BY SpentType, ConnsAssumption DEF Inv, TypeOK
<1>6. Receiving' = Receiving
  BY <1>4 DEF Receiving
<1>7. /\ Cardinality(Receiving) \in Nat /\ Cardinality(DOMAIN conns) \in Nat
      /\ Cardinality(ReadBlocked) \in Nat /\ Cardinality(WriteBlocked) \in Nat
  BY FiniteSlabs, FiniteCounts DEF Inv
<1>8. CallsCounted' /\ Spent'["poll"] = Spent["poll"]
  <2>1. CASE ReadWouldBlock
    <3>1. stats' = Counted(stats, "read") /\ conns[c].state = "ReceivingRequest"
      BY <2>1, <1>1 DEF ReadWouldBlock, Blocked, In
    <3>2. Spent'["read"] = Spent["read"] + 1 /\ \A k \in StatsType : k # "read" => Spent'[k] = Spent[k]
      BY <3>1, <1>2, SpentCounted DEF Inv, StatsType
    <3>3. ReadBlocked' = ReadBlocked \cup {c} /\ c \notin ReadBlocked
          /\ WriteBlocked' = WriteBlocked
      BY <3>1, <1>3, <1>4 DEF ReadBlocked, WriteBlocked
    <3>4. Cardinality(ReadBlocked') = Cardinality(ReadBlocked) + 1
      BY <3>3, JoinOrLeave, FiniteCounts DEF Inv
    <3> QED
      BY <3>2, <3>3, <3>4, <1>2, <1>4, <1>5, <1>6, <1>7 DEF Acc, CallsCounted, StatsType
  <2>2. CASE WriteWouldBlock
    <3>1. stats' = Counted(stats, "write") /\ conns[c].state = "SendingResponse"
      BY <2>2, <1>1 DEF WriteWouldBlock, Blocked, In
    <3>2. Spent'["write"] = Spent["write"] + 1 /\ \A k \in StatsType : k # "write" => Spent'[k] = Spent[k]
      BY <3>1, <1>2, SpentCounted DEF Inv, StatsType
    <3>3. WriteBlocked' = WriteBlocked \cup {c} /\ c \notin WriteBlocked
          /\ ReadBlocked' = ReadBlocked
      BY <3>1, <1>3, <1>4 DEF ReadBlocked, WriteBlocked
    <3>4. Cardinality(WriteBlocked') = Cardinality(WriteBlocked) + 1
      BY <3>3, JoinOrLeave, FiniteCounts DEF Inv
    <3> QED
      BY <3>2, <3>3, <3>4, <1>2, <1>4, <1>5, <1>6, <1>7 DEF Acc, CallsCounted, StatsType
  <2> QED
    BY <2>1, <2>2
<1>9. NobodyForgotten'
  BY <1>1, <1>2, <1>4 DEF Acc, NobodyForgotten
<1>10. PollsCounted'
  <2>1. ASSUME NEW k \in DOMAIN conns PROVE Due(k)' <=> Due(k)
    <3>1. CASE k = c
      BY <3>1, <1>1, <1>2, <1>3, <1>4 DEF Due, Inv, TypeOK, IsSlab
    <3>2. CASE k # c
      <4>1. cur' # k
        BY <1>2, Types, NoneAssumption DEF Inv
      <4> QED
        BY <4>1, <3>2, <1>1, <1>2, <1>4 DEF Due
    <3> QED
      BY <3>1, <3>2
  <2>2. \A k \in DOMAIN conns : conns'[k].state = conns[k].state
    BY <1>4
  <2>3. \A k \in DOMAIN conns : Birth(k)' = Birth(k)
    BY <2>1, <2>2, <1>8 DEF Birth, One
  <2> QED
    BY <2>3, <1>2, <1>4, <1>8, BirthsKept DEF Acc, ListenerDue
<1>11. CleanBetween'
  BY <1>2 DEF CleanBetween
<1> QED
  BY <1>8, <1>9, <1>10, <1>11 DEF Acc

(* The second read yields the request: the poll between the two is the     *)
(* one the stage counts from now on.                                       *)
LEMMA ReadOkAcc ==
  ASSUME Inv, Acc, ReadOk
  PROVE  Acc'
<1>1. PICK c : c = cur
  OBVIOUS
<1>2. /\ pc = "process" /\ cur # None /\ stats' = Counted(stats, "read")
      /\ UNCHANGED <<pc, needs, cur, listener, canAccept, acceptLeft, items, events, runs>>
      /\ ~ Blocks(conns[cur].calls) /\ conns[cur].state = "ReceivingRequest"
  BY DEF ReadOk, In
<1>3. c \in DOMAIN conns /\ c \notin ToSet(needs) /\ conns[c] \in ConnType
  BY <1>1, <1>2, Types DEF Inv, NeedsAreConns
<1>4. /\ DOMAIN conns' = DOMAIN conns
      /\ conns[c].calls = 1 /\ conns[c].state = "ReceivingRequest"
      /\ conns'[c].calls = 0 /\ conns'[c].state = "SendingResponse"
      /\ \A x \in DOMAIN conns : x # c => conns'[x] = conns[x]
  <2>1. conns[c].calls = 1 /\ NextCall(conns[c].calls) = 0
    BY <1>1, <1>2, <1>3 DEF ConnType, Blocks, NextCall, Parity
  <2>2. PICK new : new = [conns[c] EXCEPT !.calls = NextCall(@), !.state = "SendingResponse"]
    OBVIOUS
  <2>3. new.calls = 0 /\ new.state = "SendingResponse"
    BY <2>1, <2>2, <1>3 DEF ConnType
  <2>4. conns' = [conns EXCEPT ![c] = new]
    BY <2>2, <1>1 DEF ReadOk
  <2> QED
    BY <2>1, <2>3, <2>4, <1>1, <1>2, <1>3
<1>5. /\ \A k \in StatsType : Spent[k] \in Int
      /\ Conns \in Nat \ {0} /\ acceptLeft \in 0 .. Conns
  BY SpentType, ConnsAssumption DEF Inv, TypeOK
<1>6. Spent'["read"] = Spent["read"] + 1 /\ \A k \in StatsType : k # "read" => Spent'[k] = Spent[k]
  BY <1>2, SpentCounted DEF Inv, StatsType
<1>7. CallsCounted'
  <2>1. /\ Receiving' = Receiving \ {c} /\ c \in Receiving
        /\ ReadBlocked' = ReadBlocked \ {c} /\ c \in ReadBlocked
        /\ WriteBlocked' = WriteBlocked
    BY <1>3, <1>4 DEF Receiving, ReadBlocked, WriteBlocked
  <2>2. /\ Cardinality(Receiving') = Cardinality(Receiving) - 1
        /\ Cardinality(ReadBlocked') = Cardinality(ReadBlocked) - 1
    BY <2>1, JoinOrLeave, FiniteCounts DEF Inv
  <2>3. /\ Cardinality(Receiving) \in Nat /\ Cardinality(DOMAIN conns) \in Nat
        /\ Cardinality(ReadBlocked) \in Nat /\ Cardinality(WriteBlocked) \in Nat
    BY FiniteSlabs, FiniteCounts DEF Inv
  <2> QED
    BY <2>1, <2>2, <2>3, <1>2, <1>4, <1>5, <1>6 DEF Acc, CallsCounted, StatsType
<1>8. NobodyForgotten'
  BY <1>1, <1>2, <1>4 DEF Acc, NobodyForgotten
<1>9. PollsCounted'
  <2>1. Spent'["poll"] = Spent["poll"] /\ Spent["poll"] \in Int
    BY <1>5, <1>6 DEF StatsType
  <2>2. ASSUME NEW k \in DOMAIN conns PROVE Birth(k)' = Birth(k)
    <3>1. CASE k = c
      BY <3>1, <2>1, <1>1, <1>2, <1>4 DEF Birth, One, Due
    <3>2. CASE k # c
      BY <3>2, <2>1, <1>2, <1>4 DEF Birth, One, Due
    <3> QED
      BY <3>1, <3>2
  <2> QED
    BY <2>1, <2>2, <1>2, <1>4, BirthsKept DEF Acc, ListenerDue
<1>10. CleanBetween'
  BY <1>2 DEF CleanBetween
<1> QED
  BY <1>7, <1>8, <1>9, <1>10 DEF Acc

(* The connection that was accepted last ends two polls later. *)
LEMMA WriteOkAcc ==
  ASSUME Inv, Acc, WriteOk
  PROVE  Acc'
<1>1. PICK c : c = cur
  OBVIOUS
<1>2. /\ pc = "process" /\ cur # None
      /\ stats' = Counted(Counted(stats, "write"), "unregister")
      /\ conns' = Without(conns, cur)
      /\ cur' = None
      /\ UNCHANGED <<pc, needs, listener, canAccept, acceptLeft, events, runs>>
      /\ ~ Blocks(conns[cur].calls) /\ conns[cur].state = "SendingResponse"
  BY DEF WriteOk, In
<1>3. c \in DOMAIN conns /\ c \notin ToSet(needs) /\ conns[c] \in ConnType
  BY <1>1, <1>2, Types DEF Inv, NeedsAreConns
<1>4. conns[c].calls = 1 /\ conns[c].state = "SendingResponse"
  BY <1>1, <1>2, <1>3 DEF ConnType, Blocks, NextCall, Parity
<1>5. /\ DOMAIN conns' = DOMAIN conns \ {c}
      /\ \A x \in DOMAIN conns : x # c => conns'[x] = conns[x]
  BY <1>1, <1>2, WithoutEntries
<1>6. /\ \A k \in StatsType : Spent[k] \in Int
      /\ Conns \in Nat \ {0} /\ acceptLeft \in 0 .. Conns
  BY SpentType, ConnsAssumption DEF Inv, TypeOK
<1>7. /\ Spent'["write"] = Spent["write"] + 1
      /\ Spent'["unregister"] = Spent["unregister"] + 1
      /\ \A k \in StatsType \ {"write", "unregister"} : Spent'[k] = Spent[k]
  BY <1>2, SpentTwice DEF Inv, StatsType
<1>8. CallsCounted'
  <2>1. /\ Receiving' = Receiving /\ ReadBlocked' = ReadBlocked
        /\ WriteBlocked' = WriteBlocked \ {c} /\ c \in WriteBlocked
    BY <1>3, <1>4, <1>5 DEF Receiving, ReadBlocked, WriteBlocked
  <2>2. /\ Cardinality(WriteBlocked') = Cardinality(WriteBlocked) - 1
        /\ Cardinality(DOMAIN conns') = Cardinality(DOMAIN conns) - 1
    BY <2>1, <1>3, <1>5, JoinOrLeave, FiniteCounts, FiniteSlabs DEF Inv
  <2>3. /\ Cardinality(Receiving) \in Nat /\ Cardinality(DOMAIN conns) \in Nat
        /\ Cardinality(ReadBlocked) \in Nat /\ Cardinality(WriteBlocked) \in Nat
    BY FiniteSlabs, FiniteCounts DEF Inv
  <2> QED
    BY <2>1, <2>2, <2>3, <1>2, <1>6, <1>7 DEF Acc, CallsCounted, StatsType
<1>9. NobodyForgotten'
  BY <1>1, <1>2, <1>5 DEF Acc, NobodyForgotten
<1>10. PollsCounted'
  <2>1. Spent'["poll"] = Spent["poll"] /\ Spent["poll"] \in Int
    BY <1>6, <1>7 DEF StatsType
  <2>2. \A k \in DOMAIN conns' : k \in ConnKey /\ k # cur /\ k # cur'
    BY <1>1, <1>2, <1>5, Types, NoneAssumption DEF Inv
  <2>3. ASSUME NEW k \in DOMAIN conns' PROVE Birth(k)' = Birth(k)
    BY <2>1, <2>2, <1>2, <1>5 DEF Birth, One, Due
  <2>4. Birth(c) = Spent["poll"] - 2
    BY <2>1, <1>1, <1>2, <1>4 DEF Birth, One, Due
  <2>5. \A k \in DOMAIN conns' : Birth(k)' \in 1 .. Conns
    BY <2>3, <1>2, <1>5 DEF Acc, PollsCounted
  <2>6. acceptLeft' > 0 => Conns - acceptLeft' = Spent'["poll"] - One(ListenerDue)'
    BY <2>1, <1>2 DEF Acc, PollsCounted, One, ListenerDue
  <2>7. ASSUME acceptLeft' = 0
        PROVE  \/ \E k \in DOMAIN conns' : Birth(k)' = Conns
               \/ Spent'["poll"] = Conns + 2
    <3>1. CASE Spent["poll"] = Conns + 2
      BY <3>1, <2>1
    <3>2. CASE \E k \in DOMAIN conns : Birth(k) = Conns
      <4>1. PICK k \in DOMAIN conns : Birth(k) = Conns
        BY <3>2
      <4>2. CASE k = c
        BY <4>1, <4>2, <2>1, <2>4, <1>6
      <4>3. CASE k # c
        BY <4>1, <4>3, <2>3, <1>5
      <4> QED
        BY <4>2, <4>3
    <3> QED
      BY <3>1, <3>2, <2>7, <1>2 DEF Acc, PollsCounted
  <2> QED
    BY <2>5, <2>6, <2>7 DEF PollsCounted
<1>11. CleanBetween'
  BY <1>2 DEF CleanBetween
<1> QED
  BY <1>8, <1>9, <1>10, <1>11 DEF Acc

(* run() ends with its calls counted in full. *)
LEMMA RunEndAcc ==
  ASSUME Inv, Acc, RunEnd
  PROVE  Acc'
<1>1. /\ pc = "process" /\ pc' = "idle" /\ acceptLeft = 0 /\ conns = <<>> /\ needs = <<>>
      /\ stats' = Counted(stats, "unregister")
      /\ runs' = runs + 1
      /\ UNCHANGED <<conns, needs, cur, canAccept, acceptLeft, events>>
  BY DEF RunEnd, AllServed
<1>2. DOMAIN conns = {} /\ Receiving = {} /\ ReadBlocked = {} /\ WriteBlocked = {}
  BY <1>1 DEF Receiving, ReadBlocked, WriteBlocked
<1>3. Cardinality({}) = 0 /\ listener.calls = 0
  BY <1>1, FS_EmptySet DEF Acc, NobodyForgotten
<1>4. Spent["poll"] = Conns + 2
  BY <1>1, <1>2 DEF Acc, PollsCounted
<1>5. /\ Spent["register"] = Conns + 1 /\ Spent["unregister"] = Conns
      /\ Spent["accept"] = 2 * Conns /\ Spent["read"] = 2 * Conns
      /\ Spent["write"] = 2 * Conns
  BY <1>1, <1>2, <1>3, ConnsAssumption DEF Acc, CallsCounted
<1>6. Spent' = ZeroStats
  BY <1>1, <1>4, <1>5, SpentAtEnd DEF Inv
<1> QED
  BY <1>1, <1>2, <1>6
     DEF Acc, CallsCounted, NobodyForgotten, PollsCounted, CleanBetween

(* Nobody has anything to do: everybody waits for this poll, and the last  *)
(* connection, if it is there, has at most one more to wait for.           *)
LEMMA PollAcc ==
  ASSUME Inv, Acc, Poll
  PROVE  Acc'
<1>1. /\ pc = "process" /\ pc' = "events" /\ cur = None /\ needs = <<>>
      /\ ~ AllServed
      /\ stats' = Counted(stats, "poll")
      /\ events' = [i \in DOMAIN items |-> <<items[i][2], items[i][1]>>]
      /\ UNCHANGED <<conns, needs, cur, listener, canAccept, acceptLeft, items, runs>>
  BY DEF Poll, PollEvents
<1>2. ToSet(needs) = {}
  BY <1>1, EmptyQueue DEF Inv, TypeOK
<1>3. \A k \in DOMAIN conns : k # cur /\ conns[k] \in ConnType
  BY <1>1, Types, NoneAssumption DEF Inv
<1>4. \A k \in DOMAIN conns : conns[k].calls = 1
  BY <1>2, <1>3 DEF Acc, NobodyForgotten, ConnType, Parity
<1>5. Spent'["poll"] = Spent["poll"] + 1 /\ \A k \in StatsType : k # "poll" => Spent'[k] = Spent[k]
  BY <1>1, SpentCounted DEF Inv, StatsType
<1>6. Spent["poll"] \in Int /\ Conns \in Nat \ {0} /\ acceptLeft \in 0 .. Conns
  BY SpentType, ConnsAssumption DEF Inv, StatsType, TypeOK
<1>7. CallsCounted'
  BY <1>1, <1>5, CallsKept DEF Acc
<1>8. NobodyForgotten'
  <2>1. ASSUME NEW k \in DOMAIN conns
        PROVE  \E i \in DOMAIN events' : events'[i] = <<k + 1, READABLE + WRITABLE>>
    <3>1. PICK i \in DOMAIN items : items[i] = <<READABLE + WRITABLE, k + 1>>
      BY DEF Inv, ItemsInv, ConnItems
    <3> QED
      BY <3>1, <1>1
  <2>2. \E i \in DOMAIN events' : events'[i][1] = 0
    <3>1. PICK i \in DOMAIN items : items[i] = <<READABLE, 0>>
      BY <1>1 DEF Inv, ItemsInv, ListenerItem
    <3> QED
      BY <3>1, <1>1
  <2> QED
    BY <2>1, <2>2, <1>1, <1>4, <1>6 DEF Acc, NobodyForgotten
<1>9. PollsCounted'
  <2>1. \A k \in DOMAIN conns : ~ Due(k) /\ Due(k)'
    BY <1>1, <1>2, <1>3, <1>4 DEF Due
  <2>2. ASSUME NEW k \in DOMAIN conns
        PROVE  /\ Birth(k)' = Birth(k) /\ Birth(k) \in 1 .. Conns
               /\ Spent["poll"] <= Birth(k) + 1
    <3>1. PICK s \in {0, 1} : s = One(conns[k].state = "SendingResponse")
      BY DEF One
    <3>2. Birth(k) = Spent["poll"] - 0 - s
      BY <3>1, <2>1 DEF Birth, One
    <3>3. Birth(k)' = Spent'["poll"] - 1 - s
      BY <3>1, <2>1, <1>1 DEF Birth, One
    <3>4. Birth(k) \in 1 .. Conns
      BY <1>1 DEF Acc, PollsCounted
    <3> QED
      BY <3>2, <3>3, <3>4, <1>5, <1>6
  <2>3. ASSUME acceptLeft > 0
        PROVE  Conns - acceptLeft = Spent'["poll"] - One(ListenerDue)'
    <3>1. ~ canAccept /\ listener.calls = 1
      BY <2>3, <1>1 DEF Acc, NobodyForgotten
    <3>2. One(ListenerDue) = 0 /\ One(ListenerDue)' = 1
      BY <3>1, <1>1 DEF One, ListenerDue
    <3>3. Conns - acceptLeft = Spent["poll"] - 0
      BY <3>2, <2>3, <1>1 DEF Acc, PollsCounted
    <3> QED
      BY <3>2, <3>3, <1>5, <1>6
  <2>4. ASSUME acceptLeft = 0
        PROVE  \E k \in DOMAIN conns : Birth(k)' = Conns
    <3>1. PICK k \in DOMAIN conns : TRUE
      <4>1. conns # <<>>
        BY <2>4, <1>1 DEF AllServed
      <4>2. ASSUME DOMAIN conns = {} PROVE conns = <<>>
        BY <4>2 DEF Inv, TypeOK, IsSlab
      <4> QED
        BY <4>1, <4>2
    <3>2. Spent["poll"] # Conns + 2
      BY <3>1, <2>2, <1>6
    <3>3. \E x \in DOMAIN conns : Birth(x) = Conns
      BY <3>2, <2>4, <1>1 DEF Acc, PollsCounted
    <3> QED
      BY <3>3, <2>2
  <2> QED
    BY <2>2, <2>3, <2>4, <1>1 DEF PollsCounted
<1>10. CleanBetween'
  BY <1>1 DEF CleanBetween
<1> QED
  BY <1>7, <1>8, <1>9, <1>10 DEF Acc

(* The events reach everybody. *)
LEMMA ListenerEventAcc ==
  ASSUME Inv, Acc, ListenerEvent
  PROVE  Acc'
<1>1. /\ pc = "events" /\ canAccept' = TRUE
      /\ FirstEvent(events)[1] = 0
      /\ events' = LaterEvents(events)
      /\ UNCHANGED <<pc, conns, needs, cur, listener, acceptLeft, items, stats, runs>>
  BY DEF ListenerEvent
<1>2. PICK m : m = Min(DOMAIN events)
  OBVIOUS
<1>3. /\ DOMAIN events' = DOMAIN events \ {m} /\ events[m][1] = 0
      /\ \A i \in DOMAIN events' : events'[i] = events[i]
  BY <1>1, <1>2 DEF FirstEvent, LaterEvents, Without
<1>4. Spent' = Spent
  BY <1>1, SpentKept
<1>5. CallsCounted'
  BY <1>1, <1>4, CallsKept DEF Acc
<1>6. NobodyForgotten'
  <2>1. ASSUME NEW k \in DOMAIN conns, NEW i \in DOMAIN events,
               events[i] = <<k + 1, READABLE + WRITABLE>>
        PROVE  i # m
    <3>1. k \in ConnKey
      BY Types DEF Inv
    <3>2. k + 1 # 0
      BY <3>1, ConnsAssumption DEF ConnKey
    <3> QED
      BY <3>2, <2>1, <1>3
  <2> QED
    BY <2>1, <1>1, <1>3 DEF Acc, NobodyForgotten
<1>7. PollsCounted'
  <2>1. \A k \in DOMAIN conns : Birth(k)' = Birth(k)
    BY <1>1, <1>4 DEF Birth, One, Due
  <2>2. ListenerDue' <=> ListenerDue
    BY <1>1 DEF ListenerDue
  <2> QED
    BY <2>1, <2>2, <1>1, <1>4, BirthsKept DEF Acc
<1>8. CleanBetween'
  BY <1>1 DEF CleanBetween
<1> QED
  BY <1>5, <1>6, <1>7, <1>8 DEF Acc

LEMMA ConnEventAcc ==
  ASSUME Inv, Acc, ConnEvent
  PROVE  Acc'
<1>1. /\ pc = "events" /\ FirstEvent(events)[1] # 0
      /\ events' = LaterEvents(events)
      /\ UNCHANGED <<pc, conns, cur, listener, canAccept, acceptLeft, items, stats, runs>>
  BY DEF ConnEvent
<1>2. PICK m, key : m = Min(DOMAIN events) /\ key = FirstEvent(events)[1] - 1
  OBVIOUS
<1>3. /\ DOMAIN events' = DOMAIN events \ {m}
      /\ events[m][1] # 0 /\ FirstEvent(events) = events[m]
      /\ \A i \in DOMAIN events' : events'[i] = events[i]
  BY <1>1, <1>2 DEF FirstEvent, LaterEvents, Without
<1>4. ToSet(needs) \subseteq ToSet(needs') /\ (events[m][2] = READABLE + WRITABLE => key \in ToSet(needs'))
  <2>1. key \in DOMAIN conns
        /\ needs' = IF events[m][2] \in {READABLE, WRITABLE, READABLE + WRITABLE}
                    THEN Append(RemoveFirst(needs, key), key) ELSE needs
    BY <1>2, <1>3 DEF ConnEvent
  <2>2. needs \in Seq(ConnKey) /\ IsInjective(needs) /\ key \in ConnKey
    BY <2>1, Types DEF Inv, TypeOK, NeedsAreConns
  <2>3. PICK s : s = RemoveFirst(needs, key)
    OBVIOUS
  <2>4. s \in Seq(ConnKey) /\ ToSet(s) = ToSet(needs) \ {key} /\ IsInjective(s)
    BY <2>2, <2>3, RemoveFirstProperties
  <2>5. key \notin ToSet(s)
    BY <2>4
  <2>6. PICK t : t = Append(s, key)
    OBVIOUS
  <2>7. ToSet(t) = ToSet(s) \cup {key}
    BY <2>2, <2>4, <2>5, <2>6, AppendNewProperties
  <2> QED
    BY <2>1, <2>3, <2>4, <2>6, <2>7
<1>5. Spent' = Spent
  BY <1>1, SpentKept
<1>6. CallsCounted'
  BY <1>1, <1>5, CallsKept DEF Acc
<1>7. NobodyForgotten'
  <2>1. ASSUME NEW k \in DOMAIN conns, events[m] = <<k + 1, READABLE + WRITABLE>>
        PROVE  k \in ToSet(needs')
    <3>1. k \in ConnKey
      BY Types DEF Inv
    <3>2. k = key /\ events[m][2] = READABLE + WRITABLE
      BY <3>1, <2>1, <1>2, <1>3, ConnsAssumption DEF ConnKey
    <3> QED
      BY <3>2, <1>4
  <2> QED
    BY <2>1, <1>1, <1>3, <1>4 DEF Acc, NobodyForgotten
<1>8. PollsCounted'
  <2>1. \A k \in DOMAIN conns : Birth(k)' = Birth(k)
    BY <1>1, <1>5 DEF Birth, One, Due
  <2>2. ListenerDue' <=> ListenerDue
    BY <1>1 DEF ListenerDue
  <2> QED
    BY <2>1, <2>2, <1>1, <1>5, BirthsKept DEF Acc
<1>9. CleanBetween'
  BY <1>1 DEF CleanBetween
<1> QED
  BY <1>6, <1>7, <1>8, <1>9 DEF Acc

LEMMA EventsDoneAcc ==
  ASSUME Inv, Acc, EventsDone
  PROVE  Acc'
<1>1. /\ pc = "events" /\ pc' = "accept" /\ events = <<>>
      /\ UNCHANGED <<conns, needs, cur, listener, canAccept, acceptLeft, items,
                     events, stats, runs>>
  BY DEF EventsDone
<1>2. Spent' = Spent
  BY <1>1, SpentKept
<1>3. DOMAIN events = {}
  BY <1>1
<1>4. \A k \in DOMAIN conns : k \in ToSet(needs)
  BY <1>1, <1>3 DEF Acc, NobodyForgotten
<1>5. acceptLeft > 0 => canAccept
  BY <1>1, <1>3 DEF Acc, NobodyForgotten
<1>6. CallsCounted'
  BY <1>1, <1>2, CallsKept DEF Acc
<1>7. NobodyForgotten'
  BY <1>1, <1>4, <1>5 DEF Acc, NobodyForgotten
<1>8. PollsCounted'
  <2>1. \A k \in DOMAIN conns : Birth(k)' = Birth(k)
    BY <1>1, <1>2, <1>4 DEF Birth, One, Due
  <2>2. acceptLeft > 0 => (ListenerDue' <=> ListenerDue)
    BY <1>1, <1>5 DEF ListenerDue
  <2> QED
    BY <2>1, <2>2, <1>1, <1>2, BirthsKept DEF Acc
<1>9. CleanBetween'
  BY <1>1 DEF CleanBetween
<1> QED
  BY <1>6, <1>7, <1>8, <1>9 DEF Acc

LEMMA StutterAcc == Acc /\ UNCHANGED vars => Acc'
<1> SUFFICES ASSUME Acc, UNCHANGED vars PROVE Acc'
  OBVIOUS
<1>1. Spent' = Spent
  BY SpentKept DEF vars
<1>2. Receiving' = Receiving /\ ReadBlocked' = ReadBlocked /\ WriteBlocked' = WriteBlocked
  BY DEF vars, Receiving, ReadBlocked, WriteBlocked
<1>3. CallsCounted' /\ CleanBetween'
  BY <1>1, <1>2 DEF Acc, CallsCounted, CleanBetween, vars
<1>4. NobodyForgotten'
  BY DEF Acc, NobodyForgotten, vars
<1>5. PollsCounted'
  <2>1. \A k \in DOMAIN conns : Birth(k)' = Birth(k)
    BY <1>1 DEF Birth, One, Due, vars
  <2>2. ListenerDue' <=> ListenerDue
    BY DEF ListenerDue, vars
  <2> QED
    BY <2>1, <2>2, <1>1, BirthsKept DEF Acc, vars, PollsCounted
<1> QED
  BY <1>3, <1>4, <1>5 DEF Acc

LEMMA NextAcc == Inv /\ Acc /\ [Next]_vars => Acc'
<1> SUFFICES ASSUME Inv, Acc, Next PROVE Acc'
  BY StutterAcc
<1> QED
  BY RunStartAcc, AcceptWouldBlockAcc, AcceptOkAcc, AcceptDoneAcc, ProcessNextAcc,
     BlockedAcc, ReadOkAcc, WriteOkAcc, RunEndAcc, PollAcc, ListenerEventAcc,
     ConnEventAcc, EventsDoneAcc, StutterAcc
     DEF Next, Run, Terminated

-----------------------------------------------------------------------------
(***************************************************************************)
(* The counters of module Server.                                          *)
(***************************************************************************)

LEMMA ReceivingIsRest ==
  ASSUME TypeOK
  PROVE  DOMAIN conns \ Sending = Receiving
  BY Types DEF Sending, Receiving, ConnType

LEMMA ReceivingIsRestNext ==
  ASSUME TypeOK'
  PROVE  (DOMAIN conns \ Sending)' = Receiving'
<1>1. \A k \in DOMAIN conns' : conns'[k].state \in {"ReceivingRequest", "SendingResponse"}
  BY DEF TypeOK, IsSlab
<1> QED
  BY <1>1 DEF Sending, Receiving

(* A step that moves no connection and no accept. *)
LEMMA ServerStutters ==
  ASSUME TypeOK, TypeOK', DOMAIN conns' = DOMAIN conns, Receiving' = Receiving,
         accepted' = accepted
  PROVE  UNCHANGED S!vars
<1>1. DOMAIN conns' \ Sending' = Receiving'
  BY ReceivingIsRestNext
<1>2. DOMAIN conns \ Sending = Receiving
  BY ReceivingIsRest
<1> QED
  BY <1>1, <1>2 DEF S!vars

LEMMA InitServer == Init => S!Init
<1> SUFFICES ASSUME Init PROVE S!Init
  OBVIOUS
<1>1. accepted = 0 /\ DOMAIN conns = {}
  BY DEF Init, accepted
<1>2. Cardinality({}) = 0 /\ DOMAIN conns \ Sending = {}
  BY <1>1, FS_EmptySet DEF Sending
<1> QED
  BY <1>1, <1>2 DEF S!Init

LEMMA RunStartServer ==
  ASSUME Inv, Inv', Acc, RunStart
  PROVE  [S!Next]_S!vars
<1>1. pc = "idle" /\ pc' = "accept" /\ acceptLeft' = Conns /\ UNCHANGED <<conns, runs>>
  BY DEF RunStart
<1>2. conns = <<>> /\ DOMAIN conns = {} /\ (runs > 0 => acceptLeft = 0)
  BY <1>1 DEF Acc, CleanBetween
<1>3. accepted' = 0
  BY <1>1, ConnsAssumption DEF accepted
<1>4. Receiving' = Receiving /\ DOMAIN conns' = DOMAIN conns
  BY <1>1 DEF Receiving
<1>5. CASE runs = 0
  <2>1. accepted = 0
    BY <1>1, <1>5 DEF accepted
  <2> QED
    BY <2>1, <1>3, <1>4, ServerStutters DEF Inv
<1>6. CASE runs > 0
  <2>1. accepted = Conns
    BY <1>1, <1>2, <1>6, ConnsAssumption DEF accepted, Inv, TypeOK
  <2>2. /\ DOMAIN conns \ Sending = {} /\ DOMAIN conns = {}
        /\ (DOMAIN conns \ Sending)' = {} /\ (DOMAIN conns)' = {}
    BY <1>1, <1>2
  <2>3. Cardinality({}) = 0
    BY FS_EmptySet
  <2>4. S!Restart
    BY <2>1, <2>2, <2>3, <1>3, ConnsAssumption DEF S!Restart
  <2> QED
    BY <2>4 DEF S!Next
<1> QED
  BY <1>5, <1>6 DEF Inv, TypeOK

LEMMA AcceptOkServer ==
  ASSUME Inv, Inv', AcceptOk
  PROVE  [S!Next]_S!vars
<1>1. PICK k \in ConnKey \ DOMAIN conns, i \in Index \ DOMAIN items :
        conns' = With(conns, k, [state |-> "ReceivingRequest", calls |-> 0,
                                 index |-> i])
  BY DEF AcceptOk
<1>2. pc = "accept" /\ acceptLeft > 0 /\ acceptLeft' = acceptLeft - 1 /\ UNCHANGED <<pc, runs>>
  BY DEF AcceptOk, Accepting
<1>3. DOMAIN conns' = DOMAIN conns \cup {k} /\ Receiving' = Receiving \cup {k} /\ k \notin Receiving
  BY <1>1 DEF With, Receiving
<1>4. /\ Cardinality(Receiving') = Cardinality(Receiving) + 1
      /\ Cardinality(DOMAIN conns') = Cardinality(DOMAIN conns) + 1
  BY <1>3, JoinOrLeave, FiniteCounts, FiniteSlabs DEF Inv
<1>5. accepted \in 0 .. Conns - 1 /\ accepted' = accepted + 1
  BY <1>2, ConnsAssumption DEF accepted, Inv, TypeOK
<1>6. DOMAIN conns \ Sending = Receiving /\ (DOMAIN conns \ Sending)' = Receiving'
  BY ReceivingIsRest, ReceivingIsRestNext DEF Inv
<1>7. Cardinality(Receiving) \in Nat /\ Cardinality(DOMAIN conns) \in Nat
  BY FiniteCounts, FiniteSlabs DEF Inv
<1>8. S!Accept
  <2>1. PICK a \in Nat, r \in Nat, d \in Nat :
           /\ a = accepted /\ r = Cardinality(DOMAIN conns \ Sending)
           /\ d = Cardinality(DOMAIN conns)
    BY <1>4, <1>5, <1>6, <1>7, ConnsAssumption
  <2>2. /\ accepted' = a + 1
        /\ Cardinality(DOMAIN conns \ Sending)' = r + 1
        /\ Cardinality(DOMAIN conns)' = d + 1
        /\ a < Conns
    BY <2>1, <1>4, <1>5, <1>6, <1>7, ConnsAssumption
  <2> QED
    BY <2>1, <2>2, ConnsAssumption DEF S!Accept
<1> QED
  BY <1>8 DEF S!Next

LEMMA ReadOkServer ==
  ASSUME Inv, Inv', ReadOk
  PROVE  [S!Next]_S!vars
<1>1. PICK c : c = cur
  OBVIOUS
<1>2. /\ pc = "process" /\ UNCHANGED <<pc, acceptLeft, runs>>
      /\ c \in DOMAIN conns /\ conns[c].state = "ReceivingRequest"
  BY <1>1 DEF ReadOk, In, Inv, NeedsAreConns
<1>3. PICK new : new = [conns[c] EXCEPT !.calls = NextCall(@), !.state = "SendingResponse"]
  OBVIOUS
<1>4. new.state = "SendingResponse"
  BY <1>2, <1>3, Types DEF Inv, ConnType
<1>5. conns' = [conns EXCEPT ![c] = new]
  BY <1>1, <1>3 DEF ReadOk
<1>6. DOMAIN conns' = DOMAIN conns /\ Receiving' = Receiving \ {c} /\ c \in Receiving
  BY <1>2, <1>4, <1>5 DEF Receiving
<1>7. Cardinality(Receiving') = Cardinality(Receiving) - 1
  BY <1>6, JoinOrLeave, FiniteCounts DEF Inv
<1>8. accepted \in 0 .. Conns /\ accepted' = accepted
  BY <1>2, ConnsAssumption DEF accepted, Inv, TypeOK
<1>9. DOMAIN conns \ Sending = Receiving /\ (DOMAIN conns \ Sending)' = Receiving'
  BY ReceivingIsRest, ReceivingIsRestNext DEF Inv
<1>10. Cardinality(Receiving) \in Nat \ {0} /\ Cardinality(DOMAIN conns) \in Nat
  BY <1>6, <1>7, FiniteCounts, FiniteSlabs, FS_EmptySet DEF Inv
<1>11. S!Receive
  <2>0. /\ Cardinality(DOMAIN conns \ Sending) = Cardinality(Receiving)
        /\ Cardinality(DOMAIN conns \ Sending)' = Cardinality(Receiving)'
        /\ Cardinality(DOMAIN conns)' = Cardinality(DOMAIN conns)
    BY <1>6, <1>9
  <2>1. PICK a \in Nat, r \in Nat, d \in Nat :
           /\ a = accepted /\ r = Cardinality(DOMAIN conns \ Sending)
           /\ d = Cardinality(DOMAIN conns)
    BY <2>0, <1>7, <1>8, <1>10, ConnsAssumption
  <2>2. /\ accepted' = a
        /\ Cardinality(DOMAIN conns \ Sending)' = r - 1
        /\ Cardinality(DOMAIN conns)' = d
        /\ r > 0
    BY <2>0, <2>1, <1>7, <1>8, <1>10, ConnsAssumption
  <2> QED
    BY <2>1, <2>2, ConnsAssumption DEF S!Receive
<1> QED
  BY <1>11 DEF S!Next

LEMMA WriteOkServer ==
  ASSUME Inv, Inv', WriteOk
  PROVE  [S!Next]_S!vars
<1>1. PICK c : c = cur
  OBVIOUS
<1>2. /\ pc = "process" /\ UNCHANGED <<pc, acceptLeft, runs>> /\ conns' = Without(conns, c)
      /\ c \in DOMAIN conns /\ conns[c].state = "SendingResponse"
  BY <1>1 DEF WriteOk, In, Inv, NeedsAreConns
<1>3. DOMAIN conns' = DOMAIN conns \ {c} /\ Receiving' = Receiving
  BY <1>2 DEF Without, Receiving
<1>4. /\ Cardinality(DOMAIN conns') = Cardinality(DOMAIN conns) - 1
      /\ Cardinality(DOMAIN conns) \in Nat /\ Cardinality(Receiving) \in Nat
  BY <1>2, <1>3, JoinOrLeave, FiniteSlabs, FiniteCounts DEF Inv
<1>5. Cardinality(Receiving) <= Cardinality(DOMAIN conns')
  <2>1. Receiving \in SUBSET DOMAIN conns' /\ IsFiniteSet(DOMAIN conns')
    BY <1>2, <1>3, FiniteSlabs, FS_RemoveElement DEF Receiving, Inv
  <2> QED
    BY <2>1, FS_Subset
<1>6. accepted \in 0 .. Conns /\ accepted' = accepted
  BY <1>2, ConnsAssumption DEF accepted, Inv, TypeOK
<1>7. DOMAIN conns \ Sending = Receiving /\ (DOMAIN conns \ Sending)' = Receiving'
  BY ReceivingIsRest, ReceivingIsRestNext DEF Inv
<1>8. S!Respond
  <2>0. /\ Cardinality(DOMAIN conns \ Sending) = Cardinality(Receiving)
        /\ Cardinality(DOMAIN conns \ Sending)' = Cardinality(Receiving)
    BY <1>3, <1>7
  <2>1. PICK a \in Nat, r \in Nat, d \in Nat :
           /\ a = accepted /\ r = Cardinality(DOMAIN conns \ Sending)
           /\ d = Cardinality(DOMAIN conns)
    BY <2>0, <1>4, <1>6, ConnsAssumption
  <2>2. /\ accepted' = a
        /\ Cardinality(DOMAIN conns \ Sending)' = r
        /\ Cardinality(DOMAIN conns)' = d - 1
        /\ r < d
    BY <2>0, <2>1, <1>4, <1>5, <1>6, ConnsAssumption
  <2> QED
    BY <2>1, <2>2, ConnsAssumption DEF S!Respond
<1> QED
  BY <1>8 DEF S!Next

LEMMA NextServer == Inv /\ Acc /\ [Next]_vars => [S!Next]_S!vars
<1> SUFFICES ASSUME Inv, Acc, [Next]_vars PROVE [S!Next]_S!vars
  OBVIOUS
<1>1. Inv'
  BY NextInv
<1>2. CASE RunStart
  BY <1>1, <1>2, RunStartServer
<1>3. CASE AcceptOk
  BY <1>1, <1>3, AcceptOkServer
<1>4. CASE ReadOk
  BY <1>1, <1>4, ReadOkServer
<1>5. CASE WriteOk
  BY <1>1, <1>5, WriteOkServer
<1>6. CASE ReadWouldBlock \/ WriteWouldBlock
  <2>1. PICK c : c = cur
    OBVIOUS
  <2>2. /\ pc = "process" /\ UNCHANGED <<pc, acceptLeft, runs>> /\ c \in DOMAIN conns
        /\ conns' = [conns EXCEPT ![c].calls = NextCall(@)]
    BY <2>1, <1>6 DEF ReadWouldBlock, WriteWouldBlock, Blocked, In, Inv, NeedsAreConns
  <2>3. conns[c] \in ConnType
    BY <2>2, Types DEF Inv
  <2>4. DOMAIN conns' = DOMAIN conns /\ Receiving' = Receiving
    BY <2>2, <2>3 DEF Receiving, ConnType
  <2>5. accepted' = accepted
    BY <2>2 DEF accepted
  <2> QED
    BY <2>4, <2>5, <1>1, ServerStutters DEF Inv
<1>7. CASE RunEnd
  <2>1. /\ pc = "process" /\ pc' = "idle" /\ runs' = runs + 1
        /\ UNCHANGED <<conns, acceptLeft>>
    BY <1>7 DEF RunEnd
  <2>2. accepted' = accepted
    BY <2>1 DEF accepted, Inv, TypeOK
  <2> QED
    BY <2>1, <2>2, <1>1, ServerStutters DEF Inv, Receiving
<1>8. CASE \/ AcceptWouldBlock \/ AcceptDone \/ ProcessNext \/ Poll
           \/ ListenerEvent \/ ConnEvent \/ EventsDone \/ UNCHANGED vars
  <2>1. /\ UNCHANGED <<conns, acceptLeft, runs>>
        /\ pc' = "idle" <=> pc = "idle"
    BY <1>8 DEF AcceptWouldBlock, AcceptDone, ProcessNext, Poll, ListenerEvent,
                ConnEvent, EventsDone, vars, Accepting
  <2>2. accepted' = accepted
    BY <2>1 DEF accepted
  <2> QED
    BY <2>1, <2>2, <1>1, ServerStutters DEF Inv, Receiving
<1> QED
  BY <1>2, <1>3, <1>4, <1>5, <1>6, <1>7, <1>8 DEF Next, Run, Terminated

-----------------------------------------------------------------------------
(***************************************************************************)
(* The theorems.                                                           *)
(***************************************************************************)

(* The invariant holds in every reachable state. *)
THEOREM InvHolds == Spec => []Inv
  BY InitInv, NextInv, PTL DEF Spec

(* needs_process holds live connections, each once, and not the one that   *)
(* is being processed.                                                     *)
THEOREM NeedsValid == Spec => []NeedsAreConns
<1>1. Inv => NeedsAreConns
  BY DEF Inv
<1> QED
  BY <1>1, InvHolds, PTL

(* Poll watches the listener and the live connections, and no event leads  *)
(* to a connection that is gone.                                           *)
THEOREM PollInStep == Spec => []ItemsMatchConns
<1>1. Inv => ItemsMatchConns
  BY ItemsAgree DEF Inv
<1> QED
  BY <1>1, InvHolds, PTL

(* The accounting holds in every reachable state. *)
THEOREM AccHolds == Spec => [](Inv /\ Acc)
<1>1. Init => Inv /\ Acc
  BY InitInv, InitAcc
<1>2. Inv /\ Acc /\ [Next]_vars => Inv' /\ Acc'
  BY NextInv, NextAcc
<1> QED
  BY <1>1, <1>2, PTL DEF Spec

(* A run makes exactly the calls EXPECTED_STATS lists, whatever the number *)
(* of connections and runs, and leaves Poll empty.                         *)
THEOREM RunsExact == Spec => []RunsAreClean
<1>1. Inv /\ Acc => RunsAreClean
  <2> SUFFICES ASSUME Inv, Acc, pc = "idle"
               PROVE  /\ stats = ExpectedStats(Conns, runs)
                      /\ conns = <<>> /\ items = <<>> /\ needs = <<>>
    BY DEF RunsAreClean
  <2>1. conns = <<>> /\ needs = <<>> /\ Spent = ZeroStats
    BY DEF Acc, CleanBetween
  <2>2. items = <<>>
    <3>1. DOMAIN conns = {}
      BY <2>1
    <3>2. DOMAIN items = {}
      BY <3>1 DEF Inv, ItemsInv, ItemsHaveOwners
    <3> QED
      BY <3>2 DEF Inv, TypeOK, IsSlab
  <2>3. stats = ExpectedStats(Conns, runs)
    <3>1. stats \in [StatsType -> Nat] /\ runs \in Nat /\ Conns \in Nat
      BY ConnsAssumption DEF Inv, TypeOK
    <3> QED
      BY <2>1, <3>1, SinceZero DEF Spent
  <2> QED
    BY <2>1, <2>2, <2>3
<1> QED
  BY <1>1, AccHolds, PTL

(* Step by step the event loop does what the abstract server does: no      *)
(* connection answers before its request was read, and no run starts with  *)
(* a connection of the last one unserved.                                  *)
THEOREM ServesLikeServer == Spec => S!Safety
<1>1. Init => S!Init
  BY InitServer
<1>2. Inv /\ Acc /\ [Next]_vars => [S!Next]_S!vars
  BY NextServer
<1> QED
  BY <1>1, <1>2, AccHolds, PTL DEF Spec, S!Safety
=============================================================================
