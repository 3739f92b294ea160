----------------------------- MODULE DataLemmas -----------------------------
(***************************************************************************)
(* Facts about the data the components share.  Queues without duplicates:  *)
(* what removing a key and appending one do to the elements, to            *)
(* injectivity and to the order.  Slabs: what inserting and removing an    *)
(* entry do to the others.  Call counts, less those of whole runs.  Sets   *)
(* that gain or lose an element.                                           *)
(***************************************************************************)
EXTENDS Integers, FiniteSets, QueueOrder, FakeIO, Stats, SequencesExt, SequenceTheorems,
        FiniteSetTheorems, TLAPS

(* Removing a key that is not in the queue does nothing: list.remove of an *)
(* unlinked node, as wake() does it.                                       *)
LEMMA RemoveAbsent ==
  ASSUME NEW A, NEW s \in Seq(A), NEW e, e \notin ToSet(s)
  PROVE  RemoveFirst(s, e) = s
  BY LenProperties DEF RemoveFirst, ToSet

(* In a queue without duplicates the first occurrence is the only one. *)
LEMMA RemoveFirstIsRemoveAt ==
  ASSUME NEW A, NEW s \in Seq(A), IsInjective(s), NEW i \in 1 .. Len(s)
  PROVE  RemoveFirst(s, s[i]) = RemoveAt(s, i)
<1>1. { j \in 1 .. Len(s) : s[j] = s[i] } = { i }
  BY DEF IsInjective
<1>2. Min({ i }) = i
  BY DEF Min
<1>3. SelectInSeq(s, LAMBDA v : v = s[i]) = i
  BY <1>1, <1>2 DEF SelectInSeq
<1> QED
  BY <1>3 DEF RemoveFirst

(* Removing position i shifts the positions behind it by one. *)
LEMMA RemoveAtElements ==
  ASSUME NEW A, NEW s \in Seq(A), NEW i \in 1 .. Len(s)
  PROVE  /\ RemoveAt(s, i) \in Seq(A)
         /\ Len(RemoveAt(s, i)) = Len(s) - 1
         /\ \A j \in 1 .. Len(s) - 1 :
               RemoveAt(s, i)[j] = s[IF j < i THEN j ELSE j + 1]
<1> DEFINE p == SubSeq(s, 1, i - 1)
           q == SubSeq(s, i + 1, Len(s))
<1>1. Len(s) \in Nat /\ \A j \in 1 .. Len(s) : s[j] \in A
  BY LenProperties, ElementOfSeq
<1>2. /\ p \in Seq(A)
      /\ Len(p) = i - 1
      /\ \A j \in 1 .. i - 1 : p[j] = s[j]
  <2>1. \A j \in 1 .. i - 1 : s[j] \in A
    BY <1>1
  <2> QED
    BY <1>1, <2>1, SubSeqProperties
<1>3. /\ q \in Seq(A)
      /\ Len(q) = Len(s) - i
      /\ \A j \in 1 .. Len(s) - i : q[j] = s[i + j]
  <2>1. \A j \in i + 1 .. Len(s) : s[j] \in A
    BY <1>1
  <2> QED
    BY <1>1, <2>1, SubSeqProperties
<1>4. /\ p \o q \in Seq(A)
      /\ Len(p \o q) = Len(p) + Len(q)
      /\ \A j \in 1 .. Len(p) + Len(q) :
           (p \o q)[j] = IF j <= Len(p) THEN p[j] ELSE q[j - Len(p)]
  BY <1>2, <1>3, ConcatProperties
<1>5. RemoveAt(s, i) = p \o q
  BY DEF RemoveAt
<1> HIDE DEF p, q
<1>6. ASSUME NEW j \in 1 .. Len(s) - 1
      PROVE  (p \o q)[j] = s[IF j < i THEN j ELSE j + 1]
  <2>1. CASE j < i
    BY <2>1, <1>1, <1>2, <1>3, <1>4
  <2>2. CASE ~ (j < i)
    <3>1. (p \o q)[j] = q[j - (i - 1)]
      BY <2>2, <1>1, <1>2, <1>3, <1>4
    <3>2. j - (i - 1) \in 1 .. Len(s) - i
      BY <2>2, <1>1
    <3>3. q[j - (i - 1)] = s[i + (j - (i - 1))]
      BY <1>3, <3>2
    <3> QED
      BY <2>2, <3>1, <3>3, <1>1
  <2> QED
    BY <2>1, <2>2
<1>7. Len(p \o q) = Len(s) - 1
  BY <1>1, <1>2, <1>3, <1>4
<1> QED
  BY <1>4, <1>5, <1>6, <1>7

(* Inserting at position i shifts the positions from i on by one. *)
LEMMA InsertAtElements ==
  ASSUME NEW A, NEW s \in Seq(A), NEW i \in 1 .. Len(s) + 1, NEW e \in A
  PROVE  /\ InsertAt(s, i, e) \in Seq(A)
         /\ Len(InsertAt(s, i, e)) = Len(s) + 1
         /\ \A j \in 1 .. Len(s) + 1 :
               InsertAt(s, i, e)[j] =
                 IF j < i THEN s[j] ELSE IF j = i THEN e ELSE s[j - 1]
<1> DEFINE p == SubSeq(s, 1, i - 1)
           q == SubSeq(s, i, Len(s))
           pe == p \o <<e>>
<1>1. Len(s) \in Nat /\ \A j \in 1 .. Len(s) : s[j] \in A
  BY LenProperties, ElementOfSeq
<1>2. /\ p \in Seq(A)
      /\ Len(p) = i - 1
      /\ \A j \in 1 .. i - 1 : p[j] = s[j]
  <2>1. \A j \in 1 .. i - 1 : s[j] \in A
    BY <1>1
  <2> QED
    BY <1>1, <2>1, SubSeqProperties
<1>3. /\ q \in Seq(A)
      /\ Len(q) = Len(s) - i + 1
      /\ \A j \in 1 .. Len(s) - i + 1 : q[j] = s[i + j - 1]
  <2>1. \A j \in i .. Len(s) : s[j] \in A
    BY <1>1
  <2> QED
    BY <1>1, <2>1, SubSeqProperties
<1>4. InsertAt(s, i, e) = pe \o q
  BY DEF InsertAt
<1>5. /\ pe \in Seq(A)
      /\ Len(pe) = i
      /\ \A j \in 1 .. i : pe[j] = IF j < i THEN s[j] ELSE e
  <2>1. <<e>> \in Seq(A) /\ Len(<<e>>) = 1 /\ <<e>>[1] = e
    OBVIOUS
  <2>2. /\ pe \in Seq(A)
        /\ Len(pe) = Len(p) + 1
        /\ \A j \in 1 .. Len(p) + 1 :
              pe[j] = IF j <= Len(p) THEN p[j] ELSE <<e>>[j - Len(p)]
    BY <1>2, <2>1, ConcatProperties
  <2> HIDE DEF p, pe
  <2> QED
    BY <1>2, <2>1, <2>2
<1> HIDE DEF p, q, pe
<1>6. /\ pe \o q \in Seq(A)
      /\ Len(pe \o q) = Len(pe) + Len(q)
      /\ \A j \in 1 .. Len(pe) + Len(q) :
           (pe \o q)[j] = IF j <= Len(pe) THEN pe[j] ELSE q[j - Len(pe)]
  BY <1>3, <1>5, ConcatProperties
<1>7. ASSUME NEW j \in 1 .. Len(s) + 1
      PROVE  (pe \o q)[j] = IF j < i THEN s[j] ELSE IF j = i THEN e ELSE s[j - 1]
  <2>1. CASE j <= i
    BY <2>1, <1>1, <1>3, <1>5, <1>6
  <2>2. CASE ~ (j <= i)
    <3>1. (pe \o q)[j] = q[j - i] /\ j - i \in 1 .. Len(s) - i + 1
      BY <2>2, <1>1, <1>3, <1>5, <1>6
    <3>2. q[j - i] = s[i + (j - i) - 1]
      BY <3>1, <1>3
    <3> QED
      BY <2>2, <3>1, <3>2, <1>1
  <2> QED
    BY <2>1, <2>2
<1>8. Len(pe \o q) = Len(s) + 1
  BY <1>1, <1>3, <1>5, <1>6
<1> QED
  BY <1>4, <1>6, <1>7, <1>8

(* Appending is inserting at the end, and taking the head is removing it. *)
LEMMA AppendIsInsertAt ==
  ASSUME NEW A, NEW s \in Seq(A), NEW e \in A
  PROVE  Append(s, e) = InsertAt(s, Len(s) + 1, e)
<1> DEFINE n == Len(s) + 1
           r == InsertAt(s, n, e)
<1>1. Len(s) \in Nat /\ n \in 1 .. Len(s) + 1
  BY LenProperties
<1>2. /\ r \in Seq(A)
      /\ Len(r) = Len(s) + 1
      /\ \A j \in 1 .. Len(s) + 1 :
            r[j] = IF j < n THEN s[j] ELSE IF j = n THEN e ELSE s[j - 1]
  BY <1>1, InsertAtElements
<1>3. /\ Append(s, e) \in Seq(A)
      /\ Len(Append(s, e)) = Len(s) + 1
      /\ \A j \in 1 .. Len(s) : Append(s, e)[j] = s[j]
      /\ Append(s, e)[Len(s) + 1] = e
  BY AppendProperties
<1> HIDE DEF r
<1>4. \A j \in 1 .. Len(s) + 1 : Append(s, e)[j] = r[j]
  BY <1>1, <1>2, <1>3
<1>5. Append(s, e) = r
  BY <1>2, <1>3, <1>4, SeqEqual
<1> QED
  BY <1>5 DEF r

LEMMA TailIsRemoveAt ==
  ASSUME NEW A, NEW s \in Seq(A), s # <<>>
  PROVE  Tail(s) = RemoveAt(s, 1)
<1>1. Len(s) \in Nat \ {0}
  BY EmptySeq
<1>2. /\ RemoveAt(s, 1) \in Seq(A)
      /\ Len(RemoveAt(s, 1)) = Len(s) - 1
      /\ \A j \in 1 .. Len(s) - 1 : RemoveAt(s, 1)[j] = s[j + 1]
  <2>1. 1 \in 1 .. Len(s)
    BY <1>1
  <2>2. /\ RemoveAt(s, 1) \in Seq(A)
        /\ Len(RemoveAt(s, 1)) = Len(s) - 1
        /\ \A j \in 1 .. Len(s) - 1 :
              RemoveAt(s, 1)[j] = s[IF j < 1 THEN j ELSE j + 1]
    BY <2>1, RemoveAtElements
  <2> QED
    BY <1>1, <2>2
<1>3. /\ Tail(s) \in Seq(A)
      /\ Len(Tail(s)) = Len(s) - 1
      /\ \A j \in 1 .. Len(s) - 1 : Tail(s)[j] = s[j + 1]
  BY HeadTailProperties
<1> QED
  BY <1>2, <1>3, SeqEqual

(* Removing a key from a queue without duplicates removes exactly that key *)
(* and keeps the order of the others.                                      *)
LEMMA RemoveFirstProperties ==
  ASSUME NEW A, NEW s \in Seq(A), IsInjective(s), NEW e
  PROVE  /\ RemoveFirst(s, e) \in Seq(A)
         /\ ToSet(RemoveFirst(s, e)) = ToSet(s) \ {e}
         /\ IsInjective(RemoveFirst(s, e))
         /\ \A t, u \in ToSet(s) \ {e} :
              Before(s, t, u) => Before(RemoveFirst(s, e), t, u)
<1>0. Len(s) \in Nat /\ DOMAIN s = 1 .. Len(s)
  BY LenProperties
<1>1. CASE e \notin ToSet(s)
  BY <1>1, RemoveAbsent
<1>2. CASE e \in ToSet(s)
  <2>1. PICK i \in 1 .. Len(s) : s[i] = e
    BY <1>0, <1>2 DEF ToSet
  <2> DEFINE r == RemoveFirst(s, e)
  <2>2. /\ r \in Seq(A)
        /\ Len(r) = Len(s) - 1
        /\ \A j \in 1 .. Len(s) - 1 : r[j] = s[IF j < i THEN j ELSE j + 1]
    BY <2>1, RemoveFirstIsRemoveAt, RemoveAtElements
  <2>3. DOMAIN r = 1 .. Len(s) - 1
    BY <2>2, LenProperties
  <2> HIDE DEF r
  <2> DEFINE new(k) == IF k < i THEN k ELSE k - 1
  <2>4. ASSUME NEW k \in 1 .. Len(s), k # i
        PROVE  new(k) \in 1 .. Len(s) - 1 /\ r[new(k)] = s[k]
    BY <1>0, <2>2, <2>4
  <2>5. ToSet(r) \subseteq ToSet(s) \ {e}
    <3> SUFFICES ASSUME NEW j \in 1 .. Len(s) - 1
                 PROVE  r[j] \in ToSet(s) /\ r[j] # e
      BY <2>3 DEF ToSet
    <3> DEFINE k == IF j < i THEN j ELSE j + 1
    <3>1. k \in 1 .. Len(s) /\ k # i /\ r[j] = s[k]
      BY <1>0, <2>2
    <3> QED
      BY <3>1, <1>0, <2>1 DEF ToSet, IsInjective
  <2>6. ToSet(s) \ {e} \subseteq ToSet(r)
    <3> SUFFICES ASSUME NEW k \in 1 .. Len(s), s[k] # e
                 PROVE  s[k] \in ToSet(r)
      BY <1>0 DEF ToSet
    <3> QED
      BY <2>1, <2>3, <2>4 DEF ToSet
  <2>7. IsInjective(r)
    <3> SUFFICES ASSUME NEW j \in 1 .. Len(s) - 1, NEW k \in 1 .. Len(s) - 1,
                        r[j] = r[k]
                 PROVE  j = k
      BY <2>3 DEF IsInjective
    <3> DEFINE old(n) == IF n < i THEN n ELSE n + 1
    <3>1. /\ old(j) \in 1 .. Len(s) /\ r[j] = s[old(j)]
          /\ old(k) \in 1 .. Len(s) /\ r[k] = s[old(k)]
      BY <1>0, <2>2
    <3>2. old(j) = old(k)
      BY <3>1, <1>0 DEF IsInjective
    <3> QED
      BY <3>2, <1>0
  <2>8. ASSUME NEW t \in ToSet(s) \ {e}, NEW u \in ToSet(s) \ {e},
               Before(s, t, u)
        PROVE  Before(r, t, u)
    <3>1. PICK j, k \in 1 .. Len(s) : j < k /\ s[j] = t /\ s[k] = u
      BY <2>8 DEF Before
    <3>2. j # i /\ k # i
      BY <3>1, <2>1
    <3>3. new(j) < new(k)
      BY <3>1, <3>2, <1>0
    <3>4. /\ new(j) \in 1 .. Len(r) /\ r[new(j)] = t
          /\ new(k) \in 1 .. Len(r) /\ r[new(k)] = u
      BY <2>2, <2>4, <3>1, <3>2
    <3> HIDE DEF new
    <3> QED
      BY <3>3, <3>4 DEF Before
  <2> QED
    BY <2>2, <2>5, <2>6, <2>7, <2>8 DEF r
<1> QED
  BY <1>1, <1>2

(* Appending a key that is not in the queue adds it, behind all others. *)
LEMMA AppendNewProperties ==
  ASSUME NEW A, NEW s \in Seq(A), IsInjective(s), NEW e \in A, e \notin ToSet(s)
  PROVE  /\ Append(s, e) \in Seq(A)
         /\ ToSet(Append(s, e)) = ToSet(s) \cup {e}
         /\ IsInjective(Append(s, e))
         /\ \A t, u \in ToSet(s) : Before(s, t, u) => Before(Append(s, e), t, u)
         /\ \A t \in ToSet(s) : Before(Append(s, e), t, e)
<1> DEFINE r == Append(s, e)
<1>1. Len(s) \in Nat /\ DOMAIN s = 1 .. Len(s)
  BY LenProperties
<1>2. /\ r \in Seq(A)
      /\ Len(r) = Len(s) + 1
      /\ \A i \in 1 .. Len(s) : r[i] = s[i]
      /\ r[Len(s) + 1] = e
  BY AppendProperties
<1>3. DOMAIN r = 1 .. Len(s) + 1
  BY <1>2, LenProperties
<1> HIDE DEF r
<1>4. ToSet(r) = ToSet(s) \cup {e}
  <2>1. ASSUME NEW i \in 1 .. Len(s) + 1
        PROVE  r[i] \in ToSet(s) \cup {e}
    <3>1. CASE i = Len(s) + 1
      BY <3>1, <1>2
    <3>2. CASE i \in 1 .. Len(s)
      BY <3>2, <1>1, <1>2 DEF ToSet
    <3> QED
      BY <3>1, <3>2, <1>1
  <2>2. ASSUME NEW i \in 1 .. Len(s)
        PROVE  s[i] \in ToSet(r)
    BY <1>1, <1>2, <1>3 DEF ToSet
  <2>3. e \in ToSet(r)
    BY <1>1, <1>2, <1>3 DEF ToSet
  <2> QED
    BY <2>1, <2>2, <2>3, <1>1, <1>3 DEF ToSet
<1>5. IsInjective(r)
  <2> SUFFICES ASSUME NEW i \in 1 .. Len(s) + 1, NEW j \in 1 .. Len(s) + 1,
                      r[i] = r[j]
               PROVE  i = j
    BY <1>3 DEF IsInjective
  <2>1. \A k \in 1 .. Len(s) : s[k] # e
    BY <1>1 DEF ToSet
  <2> QED
    BY <2>1, <1>1, <1>2 DEF IsInjective
<1>6. \A t, u \in ToSet(s) : Before(s, t, u) => Before(r, t, u)
  BY <1>1, <1>2 DEF Before
<1>7. \A t \in ToSet(s) : Before(r, t, e)
  BY <1>1, <1>2 DEF Before, ToSet
<1> QED
  BY <1>2, <1>4, <1>5, <1>6, <1>7 DEF r

(* The head of a non-empty queue is one of its elements. *)
LEMMA HeadInQueue ==
  ASSUME NEW A, NEW s \in Seq(A), s # <<>>
  PROVE  Head(s) \in A /\ Head(s) \in ToSet(s)
<1>1. Len(s) \in Nat \ {0} /\ DOMAIN s = 1 .. Len(s)
  BY EmptySeq, LenProperties
<1>2. Head(s) = s[1] /\ 1 \in DOMAIN s
  BY <1>1
<1> QED
  BY <1>2, <1>1, ElementOfSeq DEF ToSet

(* A queue is empty exactly when no key is in it. *)
LEMMA EmptyQueue ==
  ASSUME NEW A, NEW s \in Seq(A)
  PROVE  s = <<>> <=> ToSet(s) = {}
<1>1. ToSet(<<>>) = {}
  BY DEF ToSet
<1>2. ASSUME s # <<>> PROVE ToSet(s) # {}
  BY <1>2, HeadInQueue
<1> QED
  BY <1>1, <1>2

-----------------------------------------------------------------------------
(* The empty slab. *)
LEMMA EmptySlab ==
  ASSUME NEW D, NEW R
  PROVE  IsSlab(<<>>, D, R)
<1>1. DOMAIN <<>> = {}
  OBVIOUS
<1>2. <<>> \in [{} -> R]
  OBVIOUS
<1> QED
  BY <1>1, <1>2 DEF IsSlab

(* Slab::insert and Slab::remove: what is in the slab afterwards. *)
LEMMA WithEntries ==
  ASSUME NEW f, NEW k, NEW v
  PROVE  /\ DOMAIN With(f, k, v) = DOMAIN f \cup {k}
         /\ With(f, k, v)[k] = v
         /\ \A x \in DOMAIN f : x # k => With(f, k, v)[x] = f[x]
  BY DEF With

LEMMA WithoutEntries ==
  ASSUME NEW f, NEW k
  PROVE  /\ DOMAIN Without(f, k) = DOMAIN f \ {k}
         /\ \A x \in DOMAIN f : x # k => Without(f, k)[x] = f[x]
  BY DEF Without

(* They, and a change of one entry, keep it a slab. *)
LEMMA WithSlab ==
  ASSUME NEW D, NEW R, NEW f, IsSlab(f, D, R), NEW k \in D, NEW v \in R
  PROVE  IsSlab(With(f, k, v), D, R)
  BY DEF IsSlab, With

LEMMA WithoutSlab ==
  ASSUME NEW D, NEW R, NEW f, IsSlab(f, D, R), NEW k
  PROVE  IsSlab(Without(f, k), D, R)
  BY DEF IsSlab, Without

LEMMA ExceptSlab ==
  ASSUME NEW D, NEW R, NEW f, IsSlab(f, D, R), NEW k \in DOMAIN f, NEW v \in R
  PROVE  IsSlab([f EXCEPT ![k] = v], D, R)
  BY DEF IsSlab

(* The entries of a slab that are left. *)
LEMMA RestrictSlab ==
  ASSUME NEW D, NEW R, NEW f, IsSlab(f, D, R), NEW S \in SUBSET DOMAIN f
  PROVE  /\ IsSlab(Restrict(f, S), D, R)
         /\ DOMAIN Restrict(f, S) = S
         /\ \A x \in S : Restrict(f, S)[x] = f[x]
  BY DEF IsSlab, Restrict

-----------------------------------------------------------------------------
(***************************************************************************)
(* The counts of module Stats, less those of n whole runs.                 *)
(***************************************************************************)
CallsSince(s, c, n) == [k \in StatsType |-> s[k] - ExpectedStats(c, n)[k]]

LEMMA ExpectedType ==
  ASSUME NEW c \in Nat, NEW n \in Nat
  PROVE  ExpectedStats(c, n) \in [StatsType -> Nat]
<1>1. n * (c + 1) \in Nat /\ n * (c + 2) \in Nat /\ n * (2 * c) \in Nat
  OBVIOUS
<1>2. ASSUME NEW k \in StatsType
      PROVE  ExpectedStats(c, n)[k] \in Nat
  BY <1>1 DEF ExpectedStats, StatsType
<1> QED
  BY <1>2 DEF ExpectedStats

(* Stats::inc. *)
LEMMA CountedOnce ==
  ASSUME NEW s \in [StatsType -> Nat], NEW call \in StatsType
  PROVE  /\ Counted(s, call) \in [StatsType -> Nat]
         /\ Counted(s, call)[call] = s[call] + 1
         /\ \A k \in StatsType : k # call => Counted(s, call)[k] = s[k]
  BY DEF Counted

LEMMA SinceType ==
  ASSUME NEW s \in [StatsType -> Nat], NEW c \in Nat, NEW n \in Nat
  PROVE  CallsSince(s, c, n) \in [StatsType -> Int]
<1>1. ExpectedStats(c, n) \in [StatsType -> Nat]
  BY ExpectedType
<1>2. ASSUME NEW k \in StatsType PROVE s[k] - ExpectedStats(c, n)[k] \in Int
  BY <1>1
<1> QED
  BY <1>2 DEF CallsSince

LEMMA SinceCounted ==
  ASSUME NEW s \in [StatsType -> Nat], NEW c \in Nat, NEW n \in Nat, NEW call \in StatsType
  PROVE  /\ CallsSince(Counted(s, call), c, n)[call] = CallsSince(s, c, n)[call] + 1
         /\ \A k \in StatsType : k # call =>
              CallsSince(Counted(s, call), c, n)[k] = CallsSince(s, c, n)[k]
<1>1. PICK b \in [StatsType -> Nat] : b = ExpectedStats(c, n)
  BY ExpectedType
<1>2. PICK t \in [StatsType -> Nat] : t = Counted(s, call)
  BY CountedOnce
<1>3. /\ CallsSince(s, c, n) = [k \in StatsType |-> s[k] - b[k]]
      /\ CallsSince(t, c, n) = [k \in StatsType |-> t[k] - b[k]]
  BY <1>1 DEF CallsSince
<1>4. t[call] = s[call] + 1 /\ \A k \in StatsType : k # call => t[k] = s[k]
  BY <1>2, CountedOnce
<1> QED
  BY <1>2, <1>3, <1>4

(* One more run: its calls are off the account. *)
LEMMA SinceAtEnd ==
  ASSUME NEW s \in [StatsType -> Nat], NEW c \in Nat, NEW n \in Nat,
         NEW z, z = CallsSince(s, c, n),
         z["register"] = c + 1, z["unregister"] = c + 1, z["poll"] = c + 2,
         z["accept"] = 2 * c, z["read"] = 2 * c, z["write"] = 2 * c
  PROVE  CallsSince(s, c, n + 1) = ZeroStats
<1>1. PICK r \in Nat, p \in Nat, d \in Nat :
         r = n * (c + 1) /\ p = n * (c + 2) /\ d = n * (2 * c)
  OBVIOUS
<1>2. /\ (n + 1) * (c + 1) = r + (c + 1)
      /\ (n + 1) * (c + 2) = p + (c + 2)
      /\ (n + 1) * (2 * c) = d + 2 * c
  BY <1>1
<1>3. /\ z["register"] = s["register"] - r /\ z["unregister"] = s["unregister"] - r
      /\ z["poll"] = s["poll"] - p /\ z["accept"] = s["accept"] - d
      /\ z["read"] = s["read"] - d /\ z["write"] = s["write"] - d
  BY <1>1 DEF CallsSince, ExpectedStats, StatsType
<1>4. PICK y : y = CallsSince(s, c, n + 1)
  OBVIOUS
<1>5. /\ y["register"] = s["register"] - (r + (c + 1))
      /\ y["unregister"] = s["unregister"] - (r + (c + 1))
      /\ y["poll"] = s["poll"] - (p + (c + 2)) /\ y["accept"] = s["accept"] - (d + 2 * c)
      /\ y["read"] = s["read"] - (d + 2 * c) /\ y["write"] = s["write"] - (d + 2 * c)
  BY <1>2, <1>4 DEF CallsSince, ExpectedStats, StatsType
<1>6. \A k \in StatsType : s[k] \in Nat
  OBVIOUS
<1>7. ASSUME NEW k \in StatsType PROVE y[k] = 0
  BY <1>1, <1>3, <1>5, <1>6 DEF StatsType
<1> QED
  BY <1>4, <1>7 DEF CallsSince, ZeroStats

(* Nothing beyond whole runs. *)
LEMMA SinceZero ==
  ASSUME NEW s \in [StatsType -> Nat], NEW c \in Nat, NEW n \in Nat,
         CallsSince(s, c, n) = ZeroStats
  PROVE  s = ExpectedStats(c, n)
<1>1. PICK b \in [StatsType -> Nat] : b = ExpectedStats(c, n)
  BY ExpectedType
<1>2. ASSUME NEW k \in StatsType PROVE s[k] = b[k]
  <2>1. s[k] - b[k] = 0
    BY <1>1 DEF CallsSince, ZeroStats
  <2>2. s[k] \in Nat /\ b[k] \in Nat
    OBVIOUS
  <2> QED
    BY <2>1, <2>2
<1> QED
  BY <1>1, <1>2

LEMMA SinceStart ==
  ASSUME NEW c \in Nat
  PROVE  CallsSince(ZeroStats, c, 0) = ZeroStats
<1>1. ASSUME NEW k \in StatsType PROVE ExpectedStats(c, 0)[k] = 0
  BY DEF ExpectedStats, StatsType
<1>2. ASSUME NEW k \in StatsType PROVE CallsSince(ZeroStats, c, 0)[k] = 0
  BY <1>1 DEF CallsSince, ZeroStats
<1> QED
  BY <1>2 DEF CallsSince, ZeroStats

(* A finite set that one element joins or leaves. *)
LEMMA JoinOrLeave ==
  ASSUME NEW S, IsFiniteSet(S), NEW e
  PROVE  /\ e \notin S => Cardinality(S \cup {e}) = Cardinality(S) + 1
         /\ e \in S => Cardinality(S \ {e}) = Cardinality(S) - 1
  BY FS_AddElement, FS_RemoveElement


(* For adding up. *)
One(b) == IF b THEN 1 ELSE 0

(* Two finite sets that differ at most in e. *)
LEMMA MovedElement ==
  ASSUME NEW S, IsFiniteSet(S), NEW T, IsFiniteSet(T), NEW e,
         \A x : x # e => (x \in S <=> x \in T)
  PROVE  /\ Cardinality(S) \in Nat /\ Cardinality(T) \in Nat
         /\ Cardinality(T) = Cardinality(S) + One(e \in T) - One(e \in S)
<1>1. Cardinality(S) \in Nat /\ Cardinality(T) \in Nat
  BY FS_CardinalityType
<1>2. CASE e \in S <=> e \in T
  <2>1. S = T
    BY <1>2
  <2> QED
    BY <1>1, <1>2, <2>1 DEF One
<1>3. CASE e \in T /\ e \notin S
  <2>1. T = S \cup {e}
    BY <1>3
  <2> QED
    BY <1>1, <1>3, <2>1, JoinOrLeave DEF One
<1>4. CASE e \in S /\ e \notin T
  <2>1. T = S \ {e}
    BY <1>4
  <2> QED
    BY <1>1, <1>4, <2>1, JoinOrLeave DEF One
<1> QED
  BY <1>1, <1>2, <1>3, <1>4
=============================================================================
