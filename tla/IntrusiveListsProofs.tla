------------------------ MODULE IntrusiveListsProofs ------------------------
(***************************************************************************)
(* Proofs about module IntrusiveLists, for every number of keys and lists. *)
(***************************************************************************)
EXTENDS IntrusiveLists, DataLemmas

(* The callers' contract keeps each key in one place of one list. *)
OnePlace ==
  \A l, m \in ListId : \A i \in 1 .. Len(queue[l]), j \in 1 .. Len(queue[m]) :
    queue[l][i] = queue[m][j] => l = m /\ i = j

(* The inductive invariant. *)
Inv ==
  /\ TypeOK
  /\ OnePlace
  /\ LinksRepresentQueues

-----------------------------------------------------------------------------
(* Elements of the queues. *)
LEMMA Members ==
  ASSUME TypeOK, NEW l \in ListId
  PROVE  /\ queue[l] \in Seq(Key)
         /\ Len(queue[l]) \in Nat
         /\ \A i \in 1 .. Len(queue[l]) :
              /\ queue[l][i] \in Key
              /\ queue[l][i] # None
              /\ Linked(queue[l][i])
         /\ lists[l] \in L!ListType
<1>1. queue[l] \in Seq(Key) /\ lists[l] \in L!ListType
  BY DEF TypeOK
<1>2. ASSUME NEW i \in 1 .. Len(queue[l])
      PROVE  queue[l][i] \in Key
  BY <1>1, ElementOfSeq
<1>3. Len(queue[l]) \in Nat
  BY <1>1, LenProperties
<1> QED
  BY <1>1, <1>2, <1>3, NoneNotKey DEF Linked, Contains

(* List::insert, on the links: key takes its place between after and nx,   *)
(* and no other link changes.                                              *)
LEMMA InsertLinks ==
  ASSUME NEW ns \in [Key -> L!NodeType], NEW ls \in L!ListType,
         NEW after \in L!Link, NEW key \in Key, NEW nx \in L!Link,
         nx = IF after = None THEN ls.head ELSE ns[after].next,
         after # key, nx # key, (nx # after \/ nx = None),
         NEW r, r = L!Insert(ns, ls, after, key)
  PROVE  /\ r.nodes \in [Key -> L!NodeType]
         /\ r.list \in L!ListType
         /\ r.list.head = IF after = None THEN key ELSE ls.head
         /\ r.list.tail = IF nx = None THEN key ELSE ls.tail
         /\ r.nodes[key].prev = after /\ r.nodes[key].next = nx
         /\ \A x \in Key \ {key} :
              /\ r.nodes[x].prev = IF x = nx THEN key ELSE ns[x].prev
              /\ r.nodes[x].next = IF x = after THEN key ELSE ns[x].next
         /\ \A x \in Key \ {key, nx, after} : r.nodes[x] = ns[x]
<1> DEFINE ns1 == IF after = None THEN ns ELSE [ns EXCEPT ![after].next = key]
           ns2 == [ns1 EXCEPT ![key] = [prev |-> after, next |-> nx]]
           ns3 == IF nx = None THEN ns2 ELSE [ns2 EXCEPT ![nx].prev = key]
<1> USE NoneNotKey DEF L!Link, L!NodeType, L!ListType
<1>0. /\ r.nodes = ns3
      /\ r.list = [head |-> IF after = None THEN key ELSE ls.head,
                   tail |-> IF nx = None THEN key ELSE ls.tail]
  BY DEF L!Insert
<1>1. /\ ns1 \in [Key -> L!NodeType]
      /\ \A x \in Key : /\ ns1[x].prev = ns[x].prev
                        /\ ns1[x].next = IF x = after THEN key ELSE ns[x].next
      /\ \A x \in Key \ {after} : ns1[x] = ns[x]
  OBVIOUS
<1> HIDE DEF ns1
<1>2. /\ ns2 \in [Key -> L!NodeType]
      /\ ns2[key].prev = after /\ ns2[key].next = nx
      /\ \A x \in Key \ {key} : ns2[x] = ns1[x]
  BY <1>1
<1> HIDE DEF ns2
<1>3. /\ ns3 \in [Key -> L!NodeType]
      /\ \A x \in Key : /\ ns3[x].prev = IF x = nx THEN key ELSE ns2[x].prev
                        /\ ns3[x].next = ns2[x].next
      /\ \A x \in Key \ {nx} : ns3[x] = ns2[x]
  BY <1>2
<1> HIDE DEF ns3
<1> QED
  BY <1>0, <1>1, <1>2, <1>3

(* List::remove, on the links: the neighbours of key are linked with each  *)
(* other and key with nothing.                                             *)
LEMMA RemoveLinks ==
  ASSUME NEW ns \in [Key -> L!NodeType], NEW ls \in L!ListType, NEW key \in Key,
         NEW pv, pv = ns[key].prev, NEW nx, nx = ns[key].next,
         pv # key, nx # key, (pv # nx \/ nx = None),
         NEW r, r = L!Remove(ns, ls, key)
  PROVE  /\ r.nodes \in [Key -> L!NodeType]
         /\ r.list \in L!ListType
         /\ r.list.head = IF ls.head = key THEN nx ELSE ls.head
         /\ r.list.tail = IF ls.tail = key THEN pv ELSE ls.tail
         /\ r.nodes[key] = L!NewNode
         /\ \A x \in Key \ {key} :
              /\ r.nodes[x].prev = IF x = nx THEN pv ELSE ns[x].prev
              /\ r.nodes[x].next = IF x = pv THEN nx ELSE ns[x].next
         /\ \A x \in Key \ {key, nx, pv} : r.nodes[x] = ns[x]
<1> DEFINE ns1 == [ns EXCEPT ![key] = L!NewNode]
           ns2 == IF pv = None THEN ns1 ELSE [ns1 EXCEPT ![pv].next = nx]
           ns3 == IF nx = None THEN ns2 ELSE [ns2 EXCEPT ![nx].prev = pv]
<1> USE NoneNotKey DEF L!Link, L!NodeType, L!ListType
<1>0. /\ r.nodes = ns3
      /\ r.list = [head |-> IF ls.head = key THEN nx ELSE ls.head,
                   tail |-> IF ls.tail = key THEN pv ELSE ls.tail]
  BY DEF L!Remove
<1>1. /\ ns1 \in [Key -> L!NodeType]
      /\ ns1[key] = L!NewNode
      /\ \A x \in Key \ {key} : ns1[x] = ns[x]
  BY DEF L!NewNode
<1>2. pv \in Key \cup {None} /\ nx \in Key \cup {None}
  OBVIOUS
<1> HIDE DEF ns1
<1>3. /\ ns2 \in [Key -> L!NodeType]
      /\ \A x \in Key : /\ ns2[x].prev = ns1[x].prev
                        /\ ns2[x].next = IF x = pv THEN nx ELSE ns1[x].next
      /\ \A x \in Key \ {pv} : ns2[x] = ns1[x]
  BY <1>1, <1>2
<1> HIDE DEF ns2
<1>4. /\ ns3 \in [Key -> L!NodeType]
      /\ \A x \in Key : /\ ns3[x].prev = IF x = nx THEN pv ELSE ns2[x].prev
                        /\ ns3[x].next = ns2[x].next
      /\ \A x \in Key \ {nx} : ns3[x] = ns2[x]
  BY <1>2, <1>3
<1> HIDE DEF ns3
<1>5. r.nodes[key] = L!NewNode
  BY <1>0, <1>1, <1>3, <1>4
<1>6. /\ r.nodes \in [Key -> L!NodeType]
      /\ r.list \in L!ListType
      /\ r.list.head = IF ls.head = key THEN nx ELSE ls.head
      /\ r.list.tail = IF ls.tail = key THEN pv ELSE ls.tail
  BY <1>0, <1>2, <1>4
<1>7. ASSUME NEW x \in Key \ {key}
      PROVE  /\ r.nodes[x].prev = IF x = nx THEN pv ELSE ns[x].prev
             /\ r.nodes[x].next = IF x = pv THEN nx ELSE ns[x].next
             /\ x # nx /\ x # pv => r.nodes[x] = ns[x]
  BY <1>0, <1>1, <1>3, <1>4
<1> QED
  BY <1>5, <1>6, <1>7

-----------------------------------------------------------------------------
(* What the step lemmas use of the state before. *)
LEMMA Linkage ==
  ASSUME Inv, NEW l \in ListId
  PROVE  /\ lists[l].head = At(queue[l], 1)
         /\ lists[l].tail = At(queue[l], Len(queue[l]))
         /\ \A i \in 1 .. Len(queue[l]) :
              /\ nodes[queue[l][i]].prev = At(queue[l], i - 1)
              /\ nodes[queue[l][i]].next = At(queue[l], i + 1)
  BY DEF Inv, LinksRepresentQueues, Represents

(* Insert, and push_back, which is an insert behind the tail. *)
LEMMA InsertInv ==
  ASSUME Inv, NEW l \in ListId, NEW k \in Key, NEW i \in 0 .. Len(queue[l]),
         Insert(l, i, k)
  PROVE  Inv'
<1>0. PICK s, n, after, nx : /\ s = queue[l]
                             /\ n = Len(queue[l])
                             /\ after = IF i = 0 THEN None ELSE s[i]
                             /\ nx = At(s, i + 1)
  OBVIOUS
<1>1. /\ s \in Seq(Key) /\ n \in Nat /\ n = Len(s) /\ i \in 0 .. n
      /\ \A j \in 1 .. n : s[j] \in Key /\ s[j] # None /\ Linked(s[j])
      /\ lists[l] \in L!ListType
  BY <1>0, Members DEF Inv
<1>2. /\ lists[l].head = At(s, 1) /\ lists[l].tail = At(s, n)
      /\ \A j \in 1 .. n : /\ nodes[s[j]].prev = At(s, j - 1)
                           /\ nodes[s[j]].next = At(s, j + 1)
  BY <1>0, Linkage
<1>3. \A j, m \in 1 .. n : s[j] = s[m] => j = m
  BY <1>0 DEF Inv, OnePlace
<1>4. ~ Linked(k) /\ k # None
  BY NoneNotKey DEF Insert
<1>5. /\ after \in L!Link /\ after # k
      /\ nx \in L!Link /\ nx # k /\ (nx # after \/ nx = None)
      /\ nx = IF after = None THEN lists[l].head ELSE nodes[after].next
  <2>1. CASE i = 0
    BY <2>1, <1>0, <1>1, <1>2, <1>4 DEF At, L!Link
  <2>2. CASE i # 0
    <3>1. i \in 1 .. n /\ after = s[i] /\ after # None /\ after # k
      BY <2>2, <1>0, <1>1, <1>4
    <3>2. nx \in L!Link /\ nx # k /\ (nx # after \/ nx = None)
      BY <3>1, <1>0, <1>1, <1>3, <1>4 DEF At, L!Link
    <3> QED
      BY <3>1, <3>2, <1>0, <1>2, <1>1 DEF L!Link
  <2> QED
    BY <2>1, <2>2
<1>5a. (after # None => Linked(after)) /\ (nx # None => Linked(nx))
  <2>1. CASE i = 0
    BY <2>1, <1>0, <1>1 DEF At
  <2>2. CASE i # 0
    BY <2>2, <1>0, <1>1 DEF At
  <2> QED
    BY <2>1, <2>2
<1>6. PICK r : r = L!Insert(nodes, lists[l], after, k)
  OBVIOUS
<1>7. /\ nodes' = r.nodes /\ lists' = [lists EXCEPT ![l] = r.list]
      /\ queue' = [queue EXCEPT ![l] = InsertAt(s, i + 1, k)]
      /\ UNCHANGED ret
  BY <1>0, <1>6 DEF Insert
<1>8. /\ nodes' \in [Key -> L!NodeType]
      /\ r.list \in L!ListType
      /\ r.list.head = IF after = None THEN k ELSE lists[l].head
      /\ r.list.tail = IF nx = None THEN k ELSE lists[l].tail
      /\ nodes'[k].prev = after /\ nodes'[k].next = nx
      /\ \A x \in Key \ {k} :
           /\ nodes'[x].prev = IF x = nx THEN k ELSE nodes[x].prev
           /\ nodes'[x].next = IF x = after THEN k ELSE nodes[x].next
      /\ \A x \in Key \ {k, nx, after} : nodes'[x] = nodes[x]
  <2>1. nodes \in [Key -> L!NodeType]
    BY DEF Inv, TypeOK
  <2> QED
    BY ONLY <2>1, <1>1, <1>4, <1>5, <1>6, <1>7, InsertLinks, k \in Key
<1>9. PICK t : t = InsertAt(s, i + 1, k)
  OBVIOUS
<1>10. /\ t \in Seq(Key) /\ Len(t) = n + 1
       /\ \A j \in 1 .. n + 1 :
             t[j] = IF j < i + 1 THEN s[j] ELSE IF j = i + 1 THEN k ELSE s[j - 1]
  <2>1. PICK p : p = i + 1
    OBVIOUS
  <2>2. p \in 1 .. Len(s) + 1 /\ t = InsertAt(s, p, k)
    BY <2>1, <1>1, <1>9
  <2>3. /\ t \in Seq(Key) /\ Len(t) = Len(s) + 1
        /\ \A j \in 1 .. Len(s) + 1 :
              t[j] = IF j < p THEN s[j] ELSE IF j = p THEN k ELSE s[j - 1]
    <3>1. s \in Seq(Key) /\ p \in 1 .. Len(s) + 1
      BY <2>2, <1>1
    <3>2. /\ InsertAt(s, p, k) \in Seq(Key)
          /\ Len(InsertAt(s, p, k)) = Len(s) + 1
          /\ \A j \in 1 .. Len(s) + 1 :
                InsertAt(s, p, k)[j] =
                  IF j < p THEN s[j] ELSE IF j = p THEN k ELSE s[j - 1]
      BY ONLY <3>1, InsertAtElements, k \in Key
    <3> QED
      BY ONLY <2>2, <3>2
  <2> QED
    BY <2>1, <2>3, <1>1
<1>11. queue'[l] = t /\ \A m \in ListId \ {l} : queue'[m] = queue[m]
  BY <1>7, <1>9 DEF Inv, TypeOK
<1>12. TypeOK'
  BY <1>7, <1>8, <1>9, <1>10 DEF Inv, TypeOK
<1>13. \A m \in ListId \ {l} : \A j \in 1 .. Len(queue[m]) :
         /\ queue[m][j] \in Key /\ queue[m][j] # k
         /\ queue[m][j] # after /\ queue[m][j] # nx
  <2> SUFFICES ASSUME NEW m \in ListId \ {l}, NEW j \in 1 .. Len(queue[m])
               PROVE  /\ queue[m][j] \in Key /\ queue[m][j] # k
                      /\ queue[m][j] # after /\ queue[m][j] # nx
    OBVIOUS
  <2>1. queue[m][j] \in Key /\ queue[m][j] # None /\ Linked(queue[m][j])
    BY Members DEF Inv
  <2>2. \A o \in 1 .. n : queue[m][j] # s[o]
    BY <1>0 DEF Inv, OnePlace
  <2> QED
    BY <2>1, <2>2, <1>0, <1>1, <1>4 DEF At
<1>14. OnePlace'
  <2>1. \A j, o \in 1 .. n + 1 : t[j] = t[o] => j = o
    <3> SUFFICES ASSUME NEW j \in 1 .. n + 1, NEW o \in 1 .. n + 1, t[j] = t[o]
                 PROVE  j = o
      OBVIOUS
    <3> DEFINE old(p) == IF p < i + 1 THEN p ELSE p - 1
    <3>1. ASSUME NEW p \in 1 .. n + 1, p # i + 1
          PROVE  old(p) \in 1 .. n /\ t[p] = s[old(p)] /\ t[p] # k
      <4>1. old(p) \in 1 .. n /\ t[p] = s[old(p)]
        BY <3>1, <1>1, <1>10
      <4> QED
        BY <4>1, <1>1, <1>4
    <3>2. t[i + 1] = k
      BY <1>1, <1>10
    <3>3. CASE j = i + 1 \/ o = i + 1
      BY <3>1, <3>2, <3>3
    <3>4. CASE j # i + 1 /\ o # i + 1
      <4>1. old(j) = old(o)
        BY <3>1, <3>4, <1>3
      <4> QED
        BY <4>1, <3>4, <1>1
    <3> QED
      BY <3>3, <3>4
  <2>2. ASSUME NEW m \in ListId \ {l}, NEW j \in 1 .. Len(queue[m]), NEW o \in 1 .. n + 1
        PROVE  queue[m][j] # t[o]
    <3>1. t[o] = k \/ \E p \in 1 .. n : t[o] = s[p]
      BY <1>1, <1>10
    <3> QED
      BY <3>1, <1>0, <1>13 DEF Inv, OnePlace
  <2>3. ASSUME NEW m \in ListId \ {l}, NEW m2 \in ListId \ {l},
               NEW j \in 1 .. Len(queue[m]), NEW o \in 1 .. Len(queue[m2]),
               queue[m][j] = queue[m2][o]
        PROVE  m = m2 /\ j = o
    BY <2>3 DEF Inv, OnePlace
  <2> SUFFICES ASSUME NEW m \in ListId, NEW m2 \in ListId,
                      NEW j \in 1 .. Len(queue'[m]), NEW o \in 1 .. Len(queue'[m2]),
                      queue'[m][j] = queue'[m2][o]
               PROVE  m = m2 /\ j = o
    BY DEF OnePlace
  <2>4. CASE m = l /\ m2 = l
    BY <2>4, <2>1, <1>10, <1>11
  <2>5. CASE m = l /\ m2 # l
    BY <2>5, <2>2, <1>10, <1>11
  <2>6. CASE m # l /\ m2 = l
    BY <2>6, <2>2, <1>10, <1>11
  <2>7. CASE m # l /\ m2 # l
    BY <2>7, <2>3, <1>11
  <2> QED
    BY <2>4, <2>5, <2>6, <2>7
<1>15. ASSUME NEW m \in ListId \ {l}
       PROVE  Represents(m, queue[m])'
  <2>1. \A j \in 1 .. Len(queue[m]) : nodes'[queue[m][j]] = nodes[queue[m][j]]
    BY <1>8, <1>13
  <2>2. lists'[m] = lists[m] /\ queue'[m] = queue[m]
    BY <1>7, <1>11 DEF Inv, TypeOK
  <2>3. Represents(m, queue[m])
    BY DEF Inv, LinksRepresentQueues
  <2> QED
    BY <2>1, <2>2, <2>3 DEF Represents, At
<1>16. Represents(l, queue[l])'
  <2>1. lists'[l] = r.list
    BY <1>7 DEF Inv, TypeOK
  <2>2. lists'[l].head = At(t, 1)
    BY <2>1, <1>0, <1>1, <1>2, <1>8, <1>10 DEF At
  <2>3. lists'[l].tail = At(t, Len(t))
    BY <2>1, <1>0, <1>1, <1>2, <1>8, <1>10 DEF At
  <2>4. ASSUME NEW j \in 1 .. n + 1
        PROVE  nodes'[t[j]].prev = At(t, j - 1) /\ nodes'[t[j]].next = At(t, j + 1)
    <3>1. CASE j = i + 1
      <4>1. t[j] = k /\ nodes'[t[j]].prev = after /\ nodes'[t[j]].next = nx
        BY <3>1, <1>1, <1>8, <1>10
      <4>2. At(t, j - 1) = after
        BY <3>1, <1>0, <1>1, <1>10 DEF At
      <4>3. At(t, j + 1) = nx
        BY <3>1, <1>0, <1>1, <1>10 DEF At
      <4> QED
        BY <4>1, <4>2, <4>3
    <3>2. CASE j < i + 1
      <4>1. t[j] = s[j] /\ j \in 1 .. n /\ i \in 1 .. n /\ after = s[i]
        BY <3>2, <1>0, <1>1, <1>10
      <4>2. s[j] # k /\ s[j] # nx /\ (s[j] = after <=> j = i)
        BY <4>1, <3>2, <1>0, <1>1, <1>3, <1>4 DEF At
      <4>3. /\ nodes'[s[j]].prev = At(s, j - 1)
            /\ nodes'[s[j]].next = IF j = i THEN k ELSE At(s, j + 1)
        BY <4>1, <4>2, <1>1, <1>2, <1>8
      <4>4. At(s, j - 1) = At(t, j - 1)
        BY <4>1, <3>2, <1>1, <1>10 DEF At
      <4>5. At(t, j + 1) = IF j = i THEN k ELSE At(s, j + 1)
        BY <4>1, <3>2, <1>1, <1>10 DEF At
      <4> QED
        BY <4>1, <4>3, <4>4, <4>5
    <3>3. CASE j > i + 1
      <4>1. t[j] = s[j - 1] /\ j - 1 \in 1 .. n
        BY <3>3, <1>1, <1>10
      <4>2. s[j - 1] # k /\ s[j - 1] # after /\ (s[j - 1] = nx <=> j = i + 2)
        BY <4>1, <3>3, <1>0, <1>1, <1>3, <1>4 DEF At
      <4>3. /\ nodes'[s[j - 1]].prev = IF j = i + 2 THEN k ELSE At(s, j - 2)
            /\ nodes'[s[j - 1]].next = At(s, j)
        BY <4>1, <4>2, <1>1, <1>2, <1>8
      <4>4. At(t, j - 1) = IF j = i + 2 THEN k ELSE At(s, j - 2)
        BY <4>1, <3>3, <1>1, <1>10 DEF At
      <4>5. At(t, j + 1) = At(s, j)
        BY <4>1, <3>3, <1>1, <1>10 DEF At
      <4> QED
        BY <4>1, <4>3, <4>4, <4>5
    <3> QED
      BY <3>1, <3>2, <3>3, <1>1
  <2> QED
    BY <2>2, <2>3, <2>4, <1>10, <1>11 DEF Represents, At
<1>17. ASSUME NEW x \in Key
       PROVE  CleanUnlessLinked(x)'
  <2>1. ASSUME Linked(x) PROVE Linked(x)'
    <3>1. PICK m \in ListId : \E j \in 1 .. Len(queue[m]) : queue[m][j] = x
      BY <2>1 DEF Linked, Contains
    <3>2. CASE m # l
      BY <3>1, <3>2, <1>11 DEF Linked, Contains
    <3>3. CASE m = l
      <4>1. PICK j \in 1 .. n : s[j] = x
        BY <3>1, <3>3, <1>0
      <4>2. t[IF j < i + 1 THEN j ELSE j + 1] = x /\ (IF j < i + 1 THEN j ELSE j + 1) \in 1 .. n + 1
        BY <4>1, <1>1, <1>10
      <4> QED
        BY <4>2, <1>10, <1>11 DEF Linked, Contains
    <3> QED
      BY <3>2, <3>3
  <2>2. CASE x = k
    <3>1. t[i + 1] = k /\ i + 1 \in 1 .. n + 1
      BY <1>1, <1>10
    <3> QED
      BY <2>2, <3>1, <1>10, <1>11 DEF CleanUnlessLinked, Linked, Contains
  <2>3. CASE x # k /\ ~ Linked(x)
    <3>1. x # after /\ x # nx
      BY <2>3, <1>5a, NoneNotKey
    <3> QED
      BY <2>3, <3>1, <1>8 DEF Inv, LinksRepresentQueues, CleanUnlessLinked, L!NewNode
  <2> QED
    BY <2>1, <2>2, <2>3 DEF CleanUnlessLinked
<1> QED
  BY <1>12, <1>14, <1>15, <1>16, <1>17 DEF Inv, LinksRepresentQueues

(* What RemoveMember and a successful pop_front do, the answer apart. *)
Removal(l, i) ==
  LET r == L!Remove(nodes, lists[l], queue[l][i])
  IN  /\ nodes' = r.nodes
      /\ lists' = [lists EXCEPT ![l] = r.list]
      /\ queue' = [queue EXCEPT ![l] = RemoveAt(@, i)]
      /\ ret' \in Key \cup {None} \cup BOOLEAN

LEMMA RemovalInv ==
  ASSUME Inv, NEW l \in ListId, NEW i \in 1 .. Len(queue[l]), Removal(l, i)
  PROVE  Inv'
<1>0. PICK s, n, k, pv, nx : /\ s = queue[l]
                             /\ n = Len(queue[l])
                             /\ k = s[i]
                             /\ pv = At(s, i - 1)
                             /\ nx = At(s, i + 1)
  OBVIOUS
<1>1. /\ s \in Seq(Key) /\ n \in Nat /\ n = Len(s) /\ i \in 1 .. n
      /\ \A j \in 1 .. n : s[j] \in Key /\ s[j] # None /\ Linked(s[j])
      /\ lists[l] \in L!ListType
      /\ k \in Key
  BY <1>0, Members DEF Inv
<1>2. /\ lists[l].head = At(s, 1) /\ lists[l].tail = At(s, n)
      /\ \A j \in 1 .. n : /\ nodes[s[j]].prev = At(s, j - 1)
                           /\ nodes[s[j]].next = At(s, j + 1)
  BY <1>0, Linkage
<1>3. \A j, m \in 1 .. n : s[j] = s[m] => j = m
  BY <1>0 DEF Inv, OnePlace
<1>4. (pv # None => Linked(pv)) /\ (nx # None => Linked(nx))
  <2>1. pv # None => Linked(pv)
    BY <1>0, <1>1 DEF At
  <2>2. nx # None => Linked(nx)
    BY <1>0, <1>1 DEF At
  <2> QED
    BY <2>1, <2>2
<1>5. /\ pv = nodes[k].prev /\ nx = nodes[k].next
      /\ pv # k /\ nx # k /\ (pv # nx \/ nx = None)
  <2>1. pv = nodes[k].prev /\ nx = nodes[k].next
    BY <1>0, <1>1, <1>2
  <2>2. pv # k
    BY <1>0, <1>1, <1>3 DEF At
  <2>3. nx # k
    BY <1>0, <1>1, <1>3 DEF At
  <2>4. pv # nx \/ nx = None
    BY <1>0, <1>1, <1>3 DEF At
  <2> QED
    BY <2>1, <2>2, <2>3, <2>4
<1>6. PICK r : r = L!Remove(nodes, lists[l], k)
  OBVIOUS
<1>7. /\ nodes' = r.nodes /\ lists' = [lists EXCEPT ![l] = r.list]
      /\ queue' = [queue EXCEPT ![l] = RemoveAt(s, i)]
      /\ ret' \in Key \cup {None} \cup BOOLEAN
  BY <1>0, <1>6 DEF Removal
<1>8. /\ nodes' \in [Key -> L!NodeType]
      /\ r.list \in L!ListType
      /\ r.list.head = IF lists[l].head = k THEN nx ELSE lists[l].head
      /\ r.list.tail = IF lists[l].tail = k THEN pv ELSE lists[l].tail
      /\ nodes'[k] = L!NewNode
      /\ \A x \in Key \ {k} :
           /\ nodes'[x].prev = IF x = nx THEN pv ELSE nodes[x].prev
           /\ nodes'[x].next = IF x = pv THEN nx ELSE nodes[x].next
      /\ \A x \in Key \ {k, nx, pv} : nodes'[x] = nodes[x]
  <2>1. nodes \in [Key -> L!NodeType]
    BY DEF Inv, TypeOK
  <2> QED
    BY <2>1, <1>1, <1>5, <1>6, <1>7, RemoveLinks
<1>9. PICK t : t = RemoveAt(s, i)
  OBVIOUS
<1>10. /\ t \in Seq(Key) /\ Len(t) = n - 1 /\ n - 1 \in Nat
       /\ \A j \in 1 .. n - 1 : t[j] = s[IF j < i THEN j ELSE j + 1]
  <2>1. /\ t \in Seq(Key) /\ Len(t) = Len(s) - 1
        /\ \A j \in 1 .. Len(s) - 1 : t[j] = s[IF j < i THEN j ELSE j + 1]
    BY <1>1, <1>9, RemoveAtElements
  <2> QED
    BY <2>1, <1>1
<1>11. queue'[l] = t /\ \A m \in ListId \ {l} : queue'[m] = queue[m]
  BY <1>7, <1>9 DEF Inv, TypeOK
<1>12. TypeOK'
  BY <1>7, <1>8, <1>9, <1>10 DEF Inv, TypeOK
<1>13. \A m \in ListId \ {l} : \A j \in 1 .. Len(queue[m]) :
         /\ queue[m][j] \in Key /\ queue[m][j] # k
         /\ queue[m][j] # pv /\ queue[m][j] # nx
  <2> SUFFICES ASSUME NEW m \in ListId \ {l}, NEW j \in 1 .. Len(queue[m])
               PROVE  /\ queue[m][j] \in Key /\ queue[m][j] # k
                      /\ queue[m][j] # pv /\ queue[m][j] # nx
    OBVIOUS
  <2>1. queue[m][j] \in Key /\ queue[m][j] # None
    BY Members DEF Inv
  <2>2. \A o \in 1 .. n : queue[m][j] # s[o]
    BY <1>0 DEF Inv, OnePlace
  <2> QED
    BY <2>1, <2>2, <1>0, <1>1 DEF At
<1>14. OnePlace'
  <2> DEFINE old(p) == IF p < i THEN p ELSE p + 1
  <2>1. ASSUME NEW j \in 1 .. n - 1
        PROVE  old(j) \in 1 .. n /\ t[j] = s[old(j)]
    BY <1>1, <1>10
  <2>2. \A j, o \in 1 .. n - 1 : old(j) = old(o) => j = o
    BY <1>1
  <2> HIDE DEF old
  <2> SUFFICES ASSUME NEW m \in ListId, NEW m2 \in ListId,
                      NEW j \in 1 .. Len(queue'[m]), NEW o \in 1 .. Len(queue'[m2]),
                      queue'[m][j] = queue'[m2][o]
               PROVE  m = m2 /\ j = o
    BY DEF OnePlace
  <2>4. CASE m = l /\ m2 = l
    BY <2>4, <2>1, <2>2, <1>3, <1>10, <1>11
  <2>3. ASSUME NEW m3 \in ListId \ {l}, NEW j3 \in 1 .. Len(queue[m3]), NEW o3 \in 1 .. n - 1
        PROVE  queue[m3][j3] # t[o3]
    <3>1. t[o3] = s[old(o3)] /\ old(o3) \in 1 .. n
      BY <2>1
    <3> QED
      BY <3>1, <1>0 DEF Inv, OnePlace
  <2>5. CASE m = l /\ m2 # l
    BY <2>5, <2>3, <1>10, <1>11
  <2>6. CASE m # l /\ m2 = l
    BY <2>6, <2>3, <1>10, <1>11
  <2>7. CASE m # l /\ m2 # l
    BY <2>7, <1>11 DEF Inv, OnePlace
  <2> QED
    BY <2>4, <2>5, <2>6, <2>7
<1>15. ASSUME NEW m \in ListId \ {l}
       PROVE  Represents(m, queue[m])'
  <2>1. \A j \in 1 .. Len(queue[m]) : nodes'[queue[m][j]] = nodes[queue[m][j]]
    BY <1>8, <1>13
  <2>2. lists'[m] = lists[m] /\ queue'[m] = queue[m]
    BY <1>7, <1>11 DEF Inv, TypeOK
  <2>3. Represents(m, queue[m])
    BY DEF Inv, LinksRepresentQueues
  <2> QED
    BY <2>1, <2>2, <2>3 DEF Represents, At
<1>16. Represents(l, queue[l])'
  <2>1. lists'[l] = r.list
    BY <1>7 DEF Inv, TypeOK
  <2>2. lists'[l].head = At(t, 1)
    <3>1. CASE i = 1
      BY <3>1, <2>1, <1>0, <1>1, <1>2, <1>8, <1>10 DEF At
    <3>2. CASE i # 1
      BY <3>2, <2>1, <1>0, <1>1, <1>2, <1>3, <1>8, <1>10 DEF At
    <3> QED
      BY <3>1, <3>2
  <2>3. lists'[l].tail = At(t, Len(t))
    <3>1. CASE i = n
      BY <3>1, <2>1, <1>0, <1>1, <1>2, <1>8, <1>10 DEF At
    <3>2. CASE i # n
      BY <3>2, <2>1, <1>0, <1>1, <1>2, <1>3, <1>8, <1>10 DEF At
    <3> QED
      BY <3>1, <3>2
  <2>4. ASSUME NEW j \in 1 .. n - 1
        PROVE  nodes'[t[j]].prev = At(t, j - 1) /\ nodes'[t[j]].next = At(t, j + 1)
    <3>1. CASE j < i
      <4>1. t[j] = s[j] /\ j \in 1 .. n
        BY <3>1, <1>1, <1>10
      <4>2. s[j] # k /\ s[j] # nx /\ (s[j] = pv <=> j = i - 1)
        BY <4>1, <3>1, <1>0, <1>1, <1>3 DEF At
      <4>3. /\ nodes'[s[j]].prev = At(s, j - 1)
            /\ nodes'[s[j]].next = IF j = i - 1 THEN nx ELSE At(s, j + 1)
        BY <4>1, <4>2, <1>1, <1>2, <1>8
      <4>4. At(t, j - 1) = At(s, j - 1)
        BY <4>1, <3>1, <1>1, <1>10 DEF At
      <4>5. At(t, j + 1) = IF j = i - 1 THEN nx ELSE At(s, j + 1)
        BY <4>1, <3>1, <1>0, <1>1, <1>10 DEF At
      <4> QED
        BY <4>1, <4>3, <4>4, <4>5
    <3>2. CASE j >= i
      <4>1. t[j] = s[j + 1] /\ j + 1 \in 1 .. n
        BY <3>2, <1>1, <1>10
      <4>2. s[j + 1] # k /\ s[j + 1] # pv /\ (s[j + 1] = nx <=> j = i)
        BY <4>1, <3>2, <1>0, <1>1, <1>3 DEF At
      <4>3. /\ nodes'[s[j + 1]].prev = IF j = i THEN pv ELSE At(s, j)
            /\ nodes'[s[j + 1]].next = At(s, j + 2)
        <5>1. nodes[s[j + 1]].prev = At(s, j) /\ nodes[s[j + 1]].next = At(s, j + 2)
          <6>1. (j + 1) - 1 = j /\ (j + 1) + 1 = j + 2
            BY <1>1
          <6> QED
            BY <4>1, <6>1, <1>2
        <5> QED
          BY <4>1, <4>2, <5>1, <1>1, <1>8
      <4>4. At(t, j - 1) = IF j = i THEN pv ELSE At(s, j)
        <5>1. CASE j = i
          BY <5>1, <4>1, <1>0, <1>1, <1>10 DEF At
        <5>2. CASE j # i
          <6>1. j - 1 \in 1 .. n - 1 /\ t[j - 1] = s[j] /\ j \in 1 .. n
            BY <5>2, <4>1, <3>2, <1>1, <1>10
          <6> QED
            BY <6>1, <5>2, <1>1, <1>10 DEF At
        <5> QED
          BY <5>1, <5>2
      <4>5. At(t, j + 1) = At(s, j + 2)
        BY <4>1, <3>2, <1>1, <1>10 DEF At
      <4> QED
        BY <4>1, <4>3, <4>4, <4>5
    <3> QED
      BY <3>1, <3>2, <1>1
  <2> QED
    BY <2>2, <2>3, <2>4, <1>10, <1>11 DEF Represents, At
<1>17. ASSUME NEW x \in Key
       PROVE  CleanUnlessLinked(x)'
  <2>1. ASSUME Linked(x), x # k PROVE Linked(x)'
    <3>1. PICK m \in ListId : \E j \in 1 .. Len(queue[m]) : queue[m][j] = x
      BY <2>1 DEF Linked, Contains
    <3>2. CASE m # l
      BY <3>1, <3>2, <1>11 DEF Linked, Contains
    <3>3. CASE m = l
      <4>1. PICK j \in 1 .. n : s[j] = x
        BY <3>1, <3>3, <1>0
      <4>2. j # i
        BY <4>1, <2>1, <1>0
      <4>3. /\ t[IF j < i THEN j ELSE j - 1] = x
            /\ (IF j < i THEN j ELSE j - 1) \in 1 .. n - 1
        BY <4>1, <4>2, <1>1, <1>10
      <4> QED
        BY <4>3, <1>10, <1>11 DEF Linked, Contains
    <3> QED
      BY <3>2, <3>3
  <2>2. CASE x = k
    BY <2>2, <1>8 DEF CleanUnlessLinked, L!NewNode
  <2>3. CASE x # k /\ ~ Linked(x)
    <3>1. x # pv /\ x # nx
      BY <2>3, <1>4, NoneNotKey
    <3> QED
      BY <2>3, <3>1, <1>8 DEF Inv, LinksRepresentQueues, CleanUnlessLinked, L!NewNode
  <2> QED
    BY <2>1, <2>2, <2>3 DEF CleanUnlessLinked
<1> QED
  BY <1>12, <1>14, <1>15, <1>16, <1>17 DEF Inv, LinksRepresentQueues

(* concat of an empty list changes nothing ... *)
LEMMA ConcatEmpty ==
  ASSUME Inv, NEW a \in ListId, NEW b \in ListId, Concat(a, b), queue[b] = <<>>
  PROVE  UNCHANGED vars
<1>1. queue[a] \in Seq(Key)
  BY Members DEF Inv
<1>2. lists[b].head = None
  BY Linkage DEF At
<1>3. nodes' = nodes /\ lists' = [lists EXCEPT ![a] = lists[a], ![b] = lists[b]]
  BY <1>2 DEF Concat, L!Concat, L!IsEmpty
<1>4. lists' = lists
  BY <1>3 DEF Inv, TypeOK
<1>5. queue[a] \o queue[b] = queue[a]
  BY <1>1, ConcatEmptySeq
<1>6. queue' = [queue EXCEPT ![a] = queue[a], ![b] = queue[b]]
  BY <1>5 DEF Concat
<1>7. queue' = queue
  BY <1>6 DEF Inv, TypeOK
<1> QED
  BY <1>3, <1>4, <1>7 DEF Concat, vars

(* ... and otherwise links the two chains. *)
LEMMA ConcatInv ==
  ASSUME Inv, NEW a \in ListId, NEW b \in ListId, Concat(a, b), queue[b] # <<>>
  PROVE  Inv'
<1>0. PICK s, u, n, p, after, hkey : /\ s = queue[a] /\ n = Len(queue[a])
                                     /\ u = queue[b] /\ p = Len(queue[b])
                                     /\ after = At(s, n)
                                     /\ hkey = u[1]
  OBVIOUS
<1>1. /\ s \in Seq(Key) /\ n \in Nat /\ n = Len(s)
      /\ u \in Seq(Key) /\ p \in Nat /\ p = Len(u) /\ p # 0
      /\ \A j \in 1 .. n : s[j] \in Key /\ s[j] # None /\ Linked(s[j])
      /\ \A j \in 1 .. p : u[j] \in Key /\ u[j] # None /\ Linked(u[j])
      /\ lists[a] \in L!ListType /\ lists[b] \in L!ListType
      /\ a # b
  BY <1>0, Members, EmptySeq DEF Inv, Concat
<1>2. /\ lists[a].head = At(s, 1) /\ lists[a].tail = after
      /\ \A j \in 1 .. n : /\ nodes[s[j]].prev = At(s, j - 1)
                           /\ nodes[s[j]].next = At(s, j + 1)
      /\ lists[b].head = hkey /\ lists[b].tail = At(u, p)
      /\ \A j \in 1 .. p : /\ nodes[u[j]].prev = At(u, j - 1)
                           /\ nodes[u[j]].next = At(u, j + 1)
  <2>1. /\ lists[a].head = At(s, 1) /\ lists[a].tail = after
        /\ \A j \in 1 .. n : /\ nodes[s[j]].prev = At(s, j - 1)
                             /\ nodes[s[j]].next = At(s, j + 1)
    BY <1>0, Linkage
  <2>2. /\ lists[b].head = At(u, 1) /\ lists[b].tail = At(u, p)
        /\ \A j \in 1 .. p : /\ nodes[u[j]].prev = At(u, j - 1)
                             /\ nodes[u[j]].next = At(u, j + 1)
    BY <1>0, Linkage
  <2>3. At(u, 1) = hkey
    BY <1>0, <1>1 DEF At
  <2> QED
    BY <2>1, <2>2, <2>3
<1>3. /\ \A j, m \in 1 .. n : s[j] = s[m] => j = m
      /\ \A j, m \in 1 .. p : u[j] = u[m] => j = m
      /\ \A j \in 1 .. n, m \in 1 .. p : s[j] # u[m]
  BY <1>0, <1>1 DEF Inv, OnePlace
<1>4. /\ hkey \in Key /\ hkey # None
      /\ after \in L!Link /\ after # hkey
      /\ None = IF after = None THEN lists[a].head ELSE nodes[after].next
  <2>1. hkey \in Key /\ hkey # None
    BY <1>0, <1>1
  <2>2. CASE n = 0
    BY <2>1, <2>2, <1>0, <1>1, <1>2 DEF At, L!Link
  <2>3. CASE n # 0
    <3>1. n \in 1 .. n /\ after = s[n]
      BY <2>3, <1>0, <1>1 DEF At
    <3>2. nodes[after].next = None
      BY <3>1, <1>1, <1>2 DEF At
    <3>3. after # hkey
      BY <3>1, <1>0, <1>1, <1>3
    <3> QED
      BY <2>1, <3>1, <3>2, <3>3, <1>1 DEF L!Link
  <2> QED
    BY <2>2, <2>3
<1>5. PICK r : r = L!Insert(nodes, lists[a], after, hkey)
  OBVIOUS
<1>6. /\ r.nodes \in [Key -> L!NodeType]
      /\ r.list \in L!ListType
      /\ r.list.head = IF after = None THEN hkey ELSE lists[a].head
      /\ r.nodes[hkey].prev = after
      /\ \A x \in Key \ {hkey} :
           /\ r.nodes[x].prev = nodes[x].prev
           /\ r.nodes[x].next = IF x = after THEN hkey ELSE nodes[x].next
      /\ \A x \in Key \ {hkey, after} : r.nodes[x] = nodes[x]
  <2>1. nodes \in [Key -> L!NodeType] /\ None \in L!Link /\ None # hkey
    BY <1>4 DEF Inv, TypeOK, L!Link
  <2>2. PICK nx : nx = None
    OBVIOUS
  <2>3. /\ r.nodes \in [Key -> L!NodeType]
        /\ r.list \in L!ListType
        /\ r.list.head = IF after = None THEN hkey ELSE lists[a].head
        /\ r.nodes[hkey].prev = after
        /\ \A x \in Key \ {hkey} :
             /\ r.nodes[x].prev = IF x = nx THEN hkey ELSE nodes[x].prev
             /\ r.nodes[x].next = IF x = after THEN hkey ELSE nodes[x].next
        /\ \A x \in Key \ {hkey, nx, after} : r.nodes[x] = nodes[x]
    BY <2>1, <2>2, <1>1, <1>4, <1>5, InsertLinks
  <2> QED
    BY <2>2, <2>3, NoneNotKey
<1>7. /\ nodes' = [r.nodes EXCEPT ![hkey].next = nodes[hkey].next]
      /\ lists' = [lists EXCEPT ![a] = [r.list EXCEPT !.tail = lists[b].tail],
                                ![b] = L!EmptyList]
      /\ queue' = [queue EXCEPT ![a] = s \o u, ![b] = <<>>]
      /\ UNCHANGED ret
  BY <1>0, <1>2, <1>4, <1>5 DEF Concat, L!Concat, L!IsEmpty
<1>8. /\ nodes' \in [Key -> L!NodeType]
      /\ nodes'[hkey].prev = after /\ nodes'[hkey].next = nodes[hkey].next
      /\ \A x \in Key \ {hkey} :
           /\ nodes'[x].prev = nodes[x].prev
           /\ nodes'[x].next = IF x = after THEN hkey ELSE nodes[x].next
      /\ \A x \in Key \ {hkey, after} : nodes'[x] = nodes[x]
  <2>1. nodes[hkey].next \in L!Link
    BY <1>4 DEF Inv, TypeOK, L!NodeType
  <2> QED
    BY <2>1, <1>4, <1>6, <1>7 DEF L!NodeType
<1>9. /\ lists' \in [ListId -> L!ListType]
      /\ lists'[a].head = IF after = None THEN hkey ELSE lists[a].head
      /\ lists'[a].tail = lists[b].tail
      /\ lists'[b] = L!EmptyList
      /\ \A m \in ListId \ {a, b} : lists'[m] = lists[m]
  BY <1>1, <1>6, <1>7 DEF Inv, TypeOK, L!ListType, L!EmptyList, L!Link
<1>10. PICK t : t = s \o u
  OBVIOUS
<1>11. /\ t \in Seq(Key) /\ Len(t) = n + p
       /\ \A j \in 1 .. n + p : t[j] = IF j <= n THEN s[j] ELSE u[j - n]
  <2>1. /\ t \in Seq(Key) /\ Len(t) = Len(s) + Len(u)
        /\ \A j \in 1 .. Len(s) + Len(u) : t[j] = IF j <= Len(s) THEN s[j] ELSE u[j - Len(s)]
    BY <1>1, <1>10, ConcatProperties
  <2> QED
    BY <2>1, <1>1
<1>12. /\ queue' \in [ListId -> Seq(Key)]
       /\ queue'[a] = t /\ queue'[b] = <<>>
       /\ \A m \in ListId \ {a, b} : queue'[m] = queue[m]
  <2>1. queue \in [ListId -> Seq(Key)] /\ <<>> \in Seq(Key)
    BY DEF Inv, TypeOK
  <2>2. queue' = [queue EXCEPT ![a] = t, ![b] = <<>>]
    BY <1>7, <1>10
  <2> QED
    BY <2>1, <2>2, <1>1, <1>11
<1>13. TypeOK'
  BY <1>7, <1>8, <1>9, <1>12 DEF Inv, TypeOK
<1>14. ASSUME NEW m \in ListId \ {a, b}, NEW j \in 1 .. Len(queue[m])
       PROVE  /\ queue[m][j] \in Key
              /\ \A o \in 1 .. n : queue[m][j] # s[o]
              /\ \A o \in 1 .. p : queue[m][j] # u[o]
              /\ queue[m][j] # hkey /\ queue[m][j] # after
  <2>1. queue[m][j] \in Key /\ queue[m][j] # None
    BY Members DEF Inv
  <2>2. \A o \in 1 .. n : queue[m][j] # s[o]
    BY <1>0 DEF Inv, OnePlace
  <2>3. \A o \in 1 .. p : queue[m][j] # u[o]
    BY <1>0 DEF Inv, OnePlace
  <2> QED
    BY <2>1, <2>2, <2>3, <1>0, <1>1 DEF At
<1>15. ASSUME NEW j \in 1 .. n + p
       PROVE  \/ j \in 1 .. n /\ t[j] = s[j]
              \/ j - n \in 1 .. p /\ t[j] = u[j - n]
  BY <1>1, <1>11
<1>16. /\ \A j \in 0 .. n : At(t, j) = At(s, j)
       /\ \A o \in 1 .. p + 1 : At(t, n + o) = At(u, o)
       /\ hkey = At(u, 1)
  <2>1. ASSUME NEW j \in 0 .. n PROVE At(t, j) = At(s, j)
    <3>1. CASE j = 0
      BY <3>1, <1>1 DEF At
    <3>2. CASE j # 0
      <4>1. j \in 1 .. n /\ j \in 1 .. n + p
        BY <3>2, <1>1
      <4> QED
        BY <4>1, <1>1, <1>11 DEF At
    <3> QED
      BY <3>1, <3>2
  <2>2. ASSUME NEW o \in 1 .. p + 1 PROVE At(t, n + o) = At(u, o)
    <3>1. CASE o = p + 1
      <4>1. n + o \notin 1 .. n + p /\ o \notin 1 .. p
        BY <3>1, <1>1
      <4> QED
        BY <4>1, <1>1, <1>11 DEF At
    <3>2. CASE o # p + 1
      <4>1. n + o \in 1 .. n + p /\ o \in 1 .. p /\ ~ (n + o <= n) /\ (n + o) - n = o
        BY <3>2, <1>1
      <4>2. t[n + o] = u[o]
        BY <4>1, <1>11
      <4> QED
        BY <4>1, <4>2, <1>1, <1>11 DEF At
    <3> QED
      BY <3>1, <3>2
  <2>3. hkey = At(u, 1)
    BY <1>0, <1>1 DEF At
  <2> QED
    BY <2>1, <2>2, <2>3
<1>17. OnePlace'
  <2> SUFFICES ASSUME NEW m \in ListId, NEW m2 \in ListId,
                      NEW j \in 1 .. Len(queue'[m]), NEW o \in 1 .. Len(queue'[m2]),
                      queue'[m][j] = queue'[m2][o]
               PROVE  m = m2 /\ j = o
    BY DEF OnePlace
  <2>1. m # b /\ m2 # b
    BY <1>12
  <2>2. CASE m = a /\ m2 = a
    <3>1. j \in 1 .. n + p /\ o \in 1 .. n + p /\ t[j] = t[o]
      BY <2>2, <1>11, <1>12
    <3>2. j = o
      <4>1. /\ (j \in 1 .. n /\ t[j] = s[j]) \/ (j - n \in 1 .. p /\ t[j] = u[j - n])
            /\ (o \in 1 .. n /\ t[o] = s[o]) \/ (o - n \in 1 .. p /\ t[o] = u[o - n])
        BY <3>1, <1>15
      <4>2. CASE j \in 1 .. n /\ t[j] = s[j] /\ o \in 1 .. n /\ t[o] = s[o]
        BY <4>2, <3>1, <1>3
      <4>3. CASE j - n \in 1 .. p /\ t[j] = u[j - n] /\ o - n \in 1 .. p /\ t[o] = u[o - n]
        <5>1. j - n = o - n
          BY <4>3, <3>1, <1>3
        <5> QED
          BY <5>1, <3>1, <1>1
      <4>4. CASE \/ j \in 1 .. n /\ t[j] = s[j] /\ o - n \in 1 .. p /\ t[o] = u[o - n]
                 \/ j - n \in 1 .. p /\ t[j] = u[j - n] /\ o \in 1 .. n /\ t[o] = s[o]
        BY <4>4, <3>1, <1>3
      <4> QED
        BY <4>1, <4>2, <4>3, <4>4
    <3> QED
      BY <2>2, <3>2
  <2>3. CASE m = a /\ m2 # a
    <3>1. j \in 1 .. n + p /\ o \in 1 .. Len(queue[m2]) /\ t[j] = queue[m2][o]
      BY <2>1, <2>3, <1>11, <1>12
    <3> QED
      BY <3>1, <2>1, <2>3, <1>14, <1>15
  <2>4. CASE m # a /\ m2 = a
    <3>1. o \in 1 .. n + p /\ j \in 1 .. Len(queue[m]) /\ t[o] = queue[m][j]
      BY <2>1, <2>4, <1>11, <1>12
    <3> QED
      BY <3>1, <2>1, <2>4, <1>14, <1>15
  <2>5. CASE m # a /\ m2 # a
    <3>1. queue'[m] = queue[m] /\ queue'[m2] = queue[m2]
      BY <2>1, <2>5, <1>12
    <3>2. /\ j \in 1 .. Len(queue[m]) /\ o \in 1 .. Len(queue[m2])
          /\ queue[m][j] = queue[m2][o]
      BY <3>1
    <3> QED
      BY <3>2 DEF Inv, OnePlace
  <2> QED
    BY <2>2, <2>3, <2>4, <2>5
<1>18. ASSUME NEW m \in ListId \ {a, b}
       PROVE  Represents(m, queue[m])'
  <2>1. \A j \in 1 .. Len(queue[m]) : nodes'[queue[m][j]] = nodes[queue[m][j]]
    BY <1>8, <1>14
  <2>2. lists'[m] = lists[m] /\ queue'[m] = queue[m]
    BY <1>9, <1>12
  <2>3. Represents(m, queue[m])
    BY DEF Inv, LinksRepresentQueues
  <2> QED
    BY <2>1, <2>2, <2>3 DEF Represents, At
<1>19. Represents(b, queue[b])'
  BY <1>9, <1>12 DEF Represents, At, L!EmptyList
<1>20. Represents(a, queue[a])'
  <2>1. lists'[a].head = At(t, 1)
    <3>1. CASE n = 0
      <4>1. after = None
        BY <3>1, <1>0 DEF At
      <4>2. At(t, 1) = At(u, 1)
        BY <3>1, <1>1, <1>16
      <4> QED
        BY <4>1, <4>2, <1>9, <1>16
    <3>2. CASE n # 0
      <4>1. after # None
        BY <3>2, <1>0, <1>1 DEF At
      <4>2. At(t, 1) = At(s, 1)
        BY <3>2, <1>1, <1>16
      <4> QED
        BY <4>1, <4>2, <1>2, <1>9
    <3> QED
      BY <3>1, <3>2
  <2>2. lists'[a].tail = At(t, Len(t))
    <3>1. At(t, n + p) = At(u, p)
      BY <1>1, <1>16
    <3> QED
      BY <3>1, <1>2, <1>9, <1>11
  <2>3. ASSUME NEW j \in 1 .. n
        PROVE  nodes'[t[j]].prev = At(t, j - 1) /\ nodes'[t[j]].next = At(t, j + 1)
    <3>1. t[j] = s[j] /\ s[j] \in Key
      BY <1>1, <1>11
    <3>2. n \in 1 .. n /\ after = s[n]
      BY <1>0, <1>1 DEF At
    <3>3. s[j] # hkey /\ (s[j] = after <=> j = n)
      BY <3>2, <1>0, <1>1, <1>3
    <3>4. /\ nodes'[s[j]].prev = At(s, j - 1)
          /\ nodes'[s[j]].next = IF j = n THEN hkey ELSE At(s, j + 1)
      BY <3>1, <3>3, <1>2, <1>8
    <3>5. At(t, j - 1) = At(s, j - 1)
      BY <1>1, <1>16
    <3>6. At(t, j + 1) = IF j = n THEN hkey ELSE At(s, j + 1)
      <4>1. CASE j = n
        BY <4>1, <1>1, <1>16
      <4>2. CASE j # n
        BY <4>2, <1>1, <1>16
      <4> QED
        BY <4>1, <4>2
    <3> QED
      BY <3>1, <3>4, <3>5, <3>6
  <2>4. ASSUME NEW o \in 1 .. p
        PROVE  /\ nodes'[t[n + o]].prev = At(t, (n + o) - 1)
               /\ nodes'[t[n + o]].next = At(t, (n + o) + 1)
    <3>1. t[n + o] = u[o] /\ u[o] \in Key
      <4>1. n + o \in 1 .. n + p /\ ~ (n + o <= n) /\ (n + o) - n = o
        BY <1>1
      <4> QED
        BY <4>1, <1>1, <1>11
    <3>2. u[o] = hkey <=> o = 1
      BY <1>0, <1>1, <1>3
    <3>3. u[o] # after
      BY <3>1, <1>0, <1>1, <1>3 DEF At
    <3>4. /\ nodes'[u[o]].prev = IF o = 1 THEN after ELSE At(u, o - 1)
          /\ nodes'[u[o]].next = At(u, o + 1)
      BY <3>1, <3>2, <3>3, <1>2, <1>8
    <3>5. At(t, (n + o) - 1) = IF o = 1 THEN after ELSE At(u, o - 1)
      <4>1. CASE o = 1
        BY <4>1, <1>0, <1>1, <1>16
      <4>2. CASE o # 1
        <5>1. (n + o) - 1 = n + (o - 1) /\ o - 1 \in 1 .. p + 1
          BY <4>2, <1>1
        <5> QED
          BY <4>2, <5>1, <1>16
      <4> QED
        BY <4>1, <4>2
    <3>6. At(t, (n + o) + 1) = At(u, o + 1)
      <4>1. (n + o) + 1 = n + (o + 1) /\ o + 1 \in 1 .. p + 1
        BY <1>1
      <4> QED
        BY <4>1, <1>16
    <3> QED
      BY <3>1, <3>4, <3>5, <3>6
  <2>5. ASSUME NEW j \in 1 .. n + p
        PROVE  nodes'[t[j]].prev = At(t, j - 1) /\ nodes'[t[j]].next = At(t, j + 1)
    <3>1. CASE j \in 1 .. n
      BY <3>1, <2>3
    <3>2. CASE j \notin 1 .. n
      <4>1. j - n \in 1 .. p /\ j = n + (j - n)
        BY <3>2, <1>1
      <4>2. PICK o \in 1 .. p : j = n + o
        BY <4>1
      <4> QED
        BY <4>2, <2>4
    <3> QED
      BY <3>1, <3>2
  <2> QED
    BY <2>1, <2>2, <2>5, <1>11, <1>12 DEF Represents, At
<1>21. ASSUME NEW x \in Key
       PROVE  CleanUnlessLinked(x)'
  <2>1. ASSUME Linked(x) PROVE Linked(x)'
    <3>1. PICK m \in ListId : \E j \in 1 .. Len(queue[m]) : queue[m][j] = x
      BY <2>1 DEF Linked, Contains
    <3>2. CASE m # a /\ m # b
      BY <3>1, <3>2, <1>12 DEF Linked, Contains
    <3>3. CASE m = a
      <4>1. PICK j \in 1 .. n : s[j] = x
        BY <3>1, <3>3, <1>0
      <4>2. j \in 1 .. n + p /\ t[j] = x
        BY <4>1, <1>1, <1>11
      <4> QED
        BY <4>2, <1>11, <1>12 DEF Linked, Contains
    <3>4. CASE m = b
      <4>1. PICK j \in 1 .. p : u[j] = x
        BY <3>1, <3>4, <1>0
      <4>2. j + n \in 1 .. n + p /\ t[j + n] = x
        BY <4>1, <1>1, <1>11
      <4> QED
        BY <4>2, <1>11, <1>12 DEF Linked, Contains
    <3> QED
      BY <3>2, <3>3, <3>4
  <2>2. CASE ~ Linked(x)
    <3>1. x # hkey
      BY <2>2, <1>0, <1>1
    <3>2. x # after
      BY <2>2, <1>0, <1>1, NoneNotKey DEF At
    <3> QED
      BY <2>2, <3>1, <3>2, <1>8
         DEF Inv, LinksRepresentQueues, CleanUnlessLinked, L!NewNode
  <2> QED
    BY <2>1, <2>2 DEF CleanUnlessLinked
<1> QED
  BY <1>13, <1>17, <1>18, <1>19, <1>20, <1>21 DEF Inv, LinksRepresentQueues

-----------------------------------------------------------------------------
(* push_back is an insert behind the tail. *)
LEMMA PushBackInserts ==
  ASSUME Inv, NEW l \in ListId, NEW k \in Key, PushBack(l, k)
  PROVE  Insert(l, Len(queue[l]), k)
<1>1. queue[l] \in Seq(Key) /\ Len(queue[l]) \in Nat
  BY Members DEF Inv
<1>2. lists[l].tail = IF Len(queue[l]) = 0 THEN None ELSE queue[l][Len(queue[l])]
  BY <1>1, Linkage DEF At
<1>3. Append(queue[l], k) = InsertAt(queue[l], Len(queue[l]) + 1, k)
  BY <1>1, AppendIsInsertAt
<1> QED
  BY <1>2, <1>3 DEF PushBack, Insert, L!PushBack

(* pop_front removes the first key and returns it. *)
LEMMA PopFrontRemoves ==
  ASSUME Inv, NEW l \in ListId, PopFront(l)
  PROVE  /\ queue[l] = <<>> => ret' = None /\ UNCHANGED <<nodes, lists, queue>>
         /\ queue[l] # <<>> =>
              /\ Len(queue[l]) \in Nat \ {0}
              /\ ret' = Head(queue[l]) /\ ret' \in Key
              /\ queue' = [queue EXCEPT ![l] = Tail(@)]
              /\ Removal(l, 1)
<1>1. queue[l] \in Seq(Key)
  BY Members DEF Inv
<1>2. lists[l].head = At(queue[l], 1)
  BY Linkage
<1>3. ASSUME queue[l] = <<>>
      PROVE  ret' = None /\ UNCHANGED <<nodes, lists, queue>>
  <2>1. lists[l].head = None
    BY <1>2, <1>3 DEF At
  <2> QED
    BY <2>1, <1>3 DEF PopFront, L!PopFront, Inv, TypeOK
<1>4. ASSUME queue[l] # <<>>
      PROVE  /\ Len(queue[l]) \in Nat \ {0}
             /\ ret' = Head(queue[l]) /\ ret' \in Key
             /\ queue' = [queue EXCEPT ![l] = Tail(@)]
             /\ Removal(l, 1)
  <2>1. Len(queue[l]) \in Nat \ {0}
    BY <1>1, <1>4, EmptySeq
  <2>2. lists[l].head = queue[l][1] /\ queue[l][1] \in Key /\ queue[l][1] # None
    BY <2>1, <1>2, Members DEF Inv, At
  <2>3. Head(queue[l]) = queue[l][1]
    BY <1>1, <2>1
  <2>4. Tail(queue[l]) = RemoveAt(queue[l], 1)
    BY <1>1, <1>4, TailIsRemoveAt
  <2>5. queue' = [queue EXCEPT ![l] = Tail(@)]
    BY <1>4 DEF PopFront
  <2>6. queue' = [queue EXCEPT ![l] = RemoveAt(@, 1)]
    BY <2>4, <2>5
  <2>7. ret' = queue[l][1]
    BY <2>2 DEF PopFront
  <2>8. Removal(l, 1)
    BY <2>2, <2>6, <2>7 DEF PopFront, L!PopFront, Removal
  <2> QED
    BY <2>1, <2>2, <2>3, <2>5, <2>7, <2>8
<1> QED
  BY <1>3, <1>4

(* remove of a key that is in no list: its links are None already. *)
LEMMA RemoveUnlinkedStutters ==
  ASSUME Inv, NEW l \in ListId, NEW k \in Key, RemoveUnlinked(l, k)
  PROVE  UNCHANGED vars
<1>1. nodes[k] = L!NewNode
  BY DEF RemoveUnlinked, Inv, LinksRepresentQueues, CleanUnlessLinked
<1>2. nodes[k].prev = None /\ nodes[k].next = None
  BY <1>1 DEF L!NewNode
<1>3. lists[l].head # k /\ lists[l].tail # k
  <2>1. \A i \in 1 .. Len(queue[l]) : queue[l][i] # k
    BY DEF RemoveUnlinked, Linked, Contains
  <2>2. k # None
    BY NoneNotKey
  <2> QED
    BY <2>1, <2>2, Linkage DEF At
<1>4. nodes' = [nodes EXCEPT ![k] = L!NewNode]
  BY <1>2 DEF RemoveUnlinked, L!Remove
<1>5. lists' = [lists EXCEPT ![l] = [head |-> lists[l].head, tail |-> lists[l].tail]]
  BY <1>3 DEF RemoveUnlinked, L!Remove
<1>6. lists[l] = [head |-> lists[l].head, tail |-> lists[l].tail]
  BY Members DEF Inv, L!ListType
<1> QED
  BY <1>1, <1>4, <1>5, <1>6 DEF RemoveUnlinked, Inv, TypeOK, vars

LEMMA InitInv == Init => Inv
<1> SUFFICES ASSUME Init PROVE Inv
  OBVIOUS
<1>1. TypeOK
  BY DEF Init, TypeOK, L!NodeType, L!ListType, L!Link, L!NewNode, L!EmptyList
<1>2. \A l \in ListId : queue[l] = <<>>
  BY DEF Init
<1>3. OnePlace
  BY <1>2 DEF OnePlace
<1>4. LinksRepresentQueues
  BY <1>2 DEF Init, LinksRepresentQueues, Represents, CleanUnlessLinked, At,
              L!EmptyList
<1> QED
  BY <1>1, <1>3, <1>4 DEF Inv

LEMMA StutterInv == Inv /\ UNCHANGED vars => Inv'
<1> SUFFICES ASSUME Inv, UNCHANGED vars PROVE Inv'
  OBVIOUS
<1>1. TypeOK' /\ OnePlace'
  BY DEF Inv, vars, TypeOK, OnePlace
<1>2. LinksRepresentQueues'
  BY DEF Inv, vars, LinksRepresentQueues, Represents, CleanUnlessLinked, Linked
<1> QED
  BY <1>1, <1>2 DEF Inv

(* is_empty answers for the queue. *)
LEMMA IsEmptyAnswers ==
  ASSUME Inv, NEW l \in ListId, IsEmpty(l)
  PROVE  ret' = (queue[l] = <<>>) /\ UNCHANGED <<nodes, lists, queue>>
<1>1. lists[l].head = None <=> queue[l] = <<>>
  <2>1. CASE queue[l] = <<>>
    BY <2>1, Linkage DEF At
  <2>2. CASE queue[l] # <<>>
    <3>1. Len(queue[l]) \in Nat \ {0}
      BY <2>2, Members, EmptySeq DEF Inv
    <3> QED
      BY <3>1, <2>2, Linkage, Members DEF Inv, At
  <2> QED
    BY <2>1, <2>2
<1> QED
  BY <1>1 DEF IsEmpty, L!IsEmpty

LEMMA NextInv == Inv /\ [Next]_vars => Inv'
<1> SUFFICES ASSUME Inv, Next PROVE Inv'
  BY StutterInv
<1> PICK l \in ListId :
      \/ \E k \in Key : PushBack(l, k)
      \/ \E k \in Key, i \in 0..Len(queue[l]) : Insert(l, i, k)
      \/ \E i \in 1..Len(queue[l]) : RemoveMember(l, i)
      \/ \E k \in Key : RemoveUnlinked(l, k)
      \/ PopFront(l)
      \/ \E m \in ListId : Concat(l, m)
      \/ IsEmpty(l)
  BY DEF Next
<1>1. ASSUME NEW k \in Key, PushBack(l, k) PROVE Inv'
  <2>1. Len(queue[l]) \in 0 .. Len(queue[l])
    BY Members DEF Inv
  <2> QED
    BY <1>1, <2>1, PushBackInserts, InsertInv
<1>2. ASSUME NEW k \in Key, NEW i \in 0 .. Len(queue[l]), Insert(l, i, k) PROVE Inv'
  BY <1>2, InsertInv
<1>3. ASSUME NEW i \in 1 .. Len(queue[l]), RemoveMember(l, i) PROVE Inv'
  <2>1. Removal(l, i)
    BY <1>3 DEF RemoveMember, Removal, Inv, TypeOK
  <2> QED
    BY <2>1, RemovalInv
<1>4. ASSUME NEW k \in Key, RemoveUnlinked(l, k) PROVE Inv'
  BY <1>4, RemoveUnlinkedStutters, StutterInv
<1>5. CASE PopFront(l)
  <2>1. CASE queue[l] = <<>>
    <3>1. ret' = None /\ UNCHANGED <<nodes, lists, queue>>
      BY <1>5, <2>1, PopFrontRemoves
    <3>2. TypeOK' /\ OnePlace'
      BY <3>1 DEF Inv, TypeOK, OnePlace
    <3>3. LinksRepresentQueues'
      BY <3>1 DEF Inv, LinksRepresentQueues, Represents, CleanUnlessLinked, Linked
    <3> QED
      BY <3>2, <3>3 DEF Inv
  <2>2. CASE queue[l] # <<>>
    <3>1. 1 \in 1 .. Len(queue[l]) /\ Removal(l, 1)
      BY <1>5, <2>2, PopFrontRemoves
    <3> QED
      BY <3>1, RemovalInv
  <2> QED
    BY <2>1, <2>2
<1>6. ASSUME NEW m \in ListId, Concat(l, m) PROVE Inv'
  BY <1>6, ConcatEmpty, ConcatInv, StutterInv
<1>7. CASE IsEmpty(l)
  <2>1. ret' \in BOOLEAN /\ UNCHANGED <<nodes, lists, queue>>
    BY <1>7 DEF IsEmpty, L!IsEmpty
  <2>2. TypeOK' /\ OnePlace'
    BY <2>1 DEF Inv, TypeOK, OnePlace
  <2>3. LinksRepresentQueues'
    BY <2>1 DEF Inv, LinksRepresentQueues, Represents, CleanUnlessLinked, Linked
  <2> QED
    BY <2>2, <2>3 DEF Inv
<1> QED
  BY <1>1, <1>2, <1>3, <1>4, <1>5, <1>6, <1>7

-----------------------------------------------------------------------------
(***************************************************************************)
(* The theorems.                                                           *)
(***************************************************************************)

(* The invariant holds in every reachable state. *)
THEOREM InvHolds == Spec => []Inv
  BY InitInv, NextInv, PTL DEF Spec

(* Ends and links of every list are those of its queue, and no other node  *)
(* has a link, after any legal sequence of list.rs operations.             *)
THEOREM LinksFaithful == Spec => []LinksRepresentQueues
<1>1. Inv => LinksRepresentQueues
  BY DEF Inv
<1> QED
  BY <1>1, InvHolds, PTL

(* Every operation on the links is the operation of its name on queues. *)
LEMMA StepRefines ==
  ASSUME Inv, Next
  PROVE  [Q!Next]_(Q!vars)
<1> PICK l \in ListId :
      \/ \E k \in Key : PushBack(l, k)
      \/ \E k \in Key, i \in 0..Len(queue[l]) : Insert(l, i, k)
      \/ \E i \in 1..Len(queue[l]) : RemoveMember(l, i)
      \/ \E k \in Key : RemoveUnlinked(l, k)
      \/ PopFront(l)
      \/ \E m \in ListId : Concat(l, m)
      \/ IsEmpty(l)
  BY DEF Next
<1>1. ASSUME NEW k \in Key, PushBack(l, k) PROVE Q!Next
  <2>1. Q!PushBack(l, k)
    BY <1>1 DEF PushBack, Linked, Contains, Q!PushBack, Q!Linked, Q!Contains
  <2> QED
    BY <2>1 DEF Q!Next
<1>2. ASSUME NEW k \in Key, NEW i \in 0 .. Len(queue[l]), Insert(l, i, k) PROVE Q!Next
  <2>1. Q!Insert(l, i, k)
    BY <1>2 DEF Insert, Linked, Contains, InsertAt, Q!Insert, Q!Linked, Q!Contains, Q!InsertAt
  <2> QED
    BY <2>1 DEF Q!Next
<1>3. ASSUME NEW i \in 1 .. Len(queue[l]), RemoveMember(l, i) PROVE Q!Next
  <2>1. Q!RemoveKey(l, i)
    BY <1>3 DEF RemoveMember, RemoveAt, Q!RemoveKey, Q!RemoveAt
  <2> QED
    BY <2>1 DEF Q!Next
<1>4. ASSUME NEW k \in Key, RemoveUnlinked(l, k) PROVE UNCHANGED Q!vars
  BY <1>4 DEF RemoveUnlinked, Q!vars
<1>5. CASE PopFront(l)
  <2>1. Q!PopFront(l)
    BY <1>5, PopFrontRemoves DEF Q!PopFront
  <2> QED
    BY <2>1 DEF Q!Next
<1>6. ASSUME NEW m \in ListId, Concat(l, m) PROVE Q!Next
  <2>1. Q!Concat(l, m)
    BY <1>6 DEF Concat, Q!Concat
  <2> QED
    BY <2>1 DEF Q!Next
<1>7. CASE IsEmpty(l)
  <2>1. Q!IsEmpty(l)
    BY <1>7, IsEmptyAnswers DEF Q!IsEmpty
  <2> QED
    BY <2>1 DEF Q!Next
<1> QED
  BY <1>1, <1>2, <1>3, <1>4, <1>5, <1>6, <1>7

(* The intrusive lists implement sequences of keys. *)
THEOREM RefinesQueues == Spec => ImplementsQueues
<1>1. Init => Q!Init
  BY DEF Init, Q!Init
<1>2. Inv /\ [Next]_vars => [Q!Next]_(Q!vars)
  <2>1. CASE Next
    BY <2>1, StepRefines
  <2>2. CASE UNCHANGED vars
    BY <2>2 DEF vars, Q!vars
  <2> QED
    BY <2>1, <2>2
<1> QED
  BY <1>1, <1>2, InvHolds, PTL DEF Spec, ImplementsQueues, Q!Spec
=============================================================================
