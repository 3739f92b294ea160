--------------------------- MODULE IntrusiveLists ---------------------------
(***************************************************************************)
(* Lists of src/src/list.rs at work: several lists over one collection of  *)
(* nodes, driven by an arbitrary sequence of the public operations under   *)
(* the contract stated in module Queues.                                   *)
(*                                                                         *)
(* `queue' is a history variable: the sequence each list should stand for. *)
(* No operation reads it to decide what to do with the links; it only      *)
(* states the callers' contract and what the links have to represent.      *)
(***************************************************************************)
EXTENDS Naturals, SequencesExt

CONSTANTS Key, ListId, None

ASSUME NoneNotKey == None \notin Key

VARIABLES
  nodes,    \* the caller's Slab<Node<T>>: the links of every node
  lists,    \* lists[l]: the List value (head and tail)
  ret,      \* what the last pop_front or is_empty returned
  queue     \* history variable: the keys of each list, front first

vars == <<nodes, lists, ret, queue>>

L == INSTANCE List

TypeOK ==
  /\ nodes \in [Key -> L!NodeType]
  /\ lists \in [ListId -> L!ListType]
  /\ ret \in Key \cup {None} \cup BOOLEAN
  /\ queue \in [ListId -> Seq(Key)]

Linked(k) == \E l \in ListId : Contains(queue[l], k)

Init ==
  /\ nodes = [k \in Key |-> L!NewNode]
  /\ lists = [l \in ListId |-> L!EmptyList]
  /\ ret = None
  /\ queue = [l \in ListId |-> <<>>]

-----------------------------------------------------------------------------
(* One action per public operation. *)

(* insert(nodes, after, key), with after the i-th key of the list, or None. *)
Insert(l, i, k) ==
  LET after == IF i = 0 THEN None ELSE queue[l][i]
      r     == L!Insert(nodes, lists[l], after, k)
  IN  /\ ~ Linked(k)
      /\ nodes' = r.nodes
      /\ lists' = [lists EXCEPT ![l] = r.list]
      /\ queue' = [queue EXCEPT ![l] = InsertAt(@, i + 1, k)]
      /\ UNCHANGED ret

PushBack(l, k) ==
  LET r == L!PushBack(nodes, lists[l], k)
  IN  /\ ~ Linked(k)
      /\ nodes' = r.nodes
      /\ lists' = [lists EXCEPT ![l] = r.list]
      /\ queue' = [queue EXCEPT ![l] = Append(@, k)]
      /\ UNCHANGED ret

(* remove(nodes, key) of the i-th key of the list. *)
RemoveMember(l, i) ==
  LET r == L!Remove(nodes, lists[l], queue[l][i])
  IN  /\ nodes' = r.nodes
      /\ lists' = [lists EXCEPT ![l] = r.list]
      /\ queue' = [queue EXCEPT ![l] = RemoveAt(@, i)]
      /\ UNCHANGED ret

(* remove(nodes, key) of a key that is in no list ("already removed"). *)
RemoveUnlinked(l, k) ==
  LET r == L!Remove(nodes, lists[l], k)
  IN  /\ ~ Linked(k)
      /\ nodes' = r.nodes
      /\ lists' = [lists EXCEPT ![l] = r.list]
      /\ UNCHANGED <<ret, queue>>

PopFront(l) ==
  LET r == L!PopFront(nodes, lists[l])
  IN  /\ nodes' = r.nodes
      /\ lists' = [lists EXCEPT ![l] = r.list]
      /\ ret' = lists[l].head
      /\ queue' = [queue EXCEPT ![l] = IF @ = <<>> THEN @ ELSE Tail(@)]

(* concat(nodes, other): &mut self and &mut other are distinct lists. *)
Concat(a, b) ==
  LET r == L!Concat(nodes, lists[a], lists[b])
  IN  /\ a # b
      /\ nodes' = r.nodes
      /\ lists' = [lists EXCEPT ![a] = r.list, ![b] = r.other]
      /\ queue' = [queue EXCEPT ![a] = queue[a] \o queue[b], ![b] = <<>>]
      /\ UNCHANGED ret

IsEmpty(l) ==
  /\ ret' = L!IsEmpty(lists[l])
  /\ UNCHANGED <<nodes, lists, queue>>

Next ==
  \E l \in ListId :
    \/ \E k \in Key : PushBack(l, k)
    \/ \E k \in Key, i \in 0..Len(queue[l]) : Insert(l, i, k)
    \/ \E i \in 1..Len(queue[l]) : RemoveMember(l, i)
    \/ \E k \in Key : RemoveUnlinked(l, k)
    \/ PopFront(l)
    \/ \E m \in ListId : Concat(l, m)
    \/ IsEmpty(l)

Spec == Init /\ [][Next]_vars

-----------------------------------------------------------------------------
(***************************************************************************)
(* Properties.                                                             *)
(***************************************************************************)

(* The link that stands for position i of sequence s: None off the ends.   *)
At(s, i) == IF i \in 1..Len(s) THEN s[i] ELSE None

(* The ends of list l and both links of every node in it are those of the  *)
(* sequence s: walking forwards from head and backwards from tail visits   *)
(* the same keys.                                                          *)
Represents(l, s) ==
  /\ lists[l].head = At(s, 1)
  /\ lists[l].tail = At(s, Len(s))
  /\ \A i \in 1..Len(s) :
        /\ nodes[s[i]].prev = At(s, i - 1)
        /\ nodes[s[i]].next = At(s, i + 1)

(* A node in no list has both links None, however it left its list.        *)
CleanUnlessLinked(k) == Linked(k) \/ nodes[k] = L!NewNode

(* After any legal sequence of list.rs operations each list's ends and the *)
(* prev/next links of its nodes represent exactly its sequence of keys,    *)
(* and all other nodes are clean (remove takes both links, pop_front goes  *)
(* through remove, concat moves whole chains): this is what makes the      *)
(* executors' "remove, then push_back" and the test's second remove        *)
(* harmless.                                                               *)
LinksRepresentQueues ==
  /\ \A l \in ListId : Represents(l, queue[l])
  /\ \A k \in Key : CleanUnlessLinked(k)

(* The operations on links implement the operations on sequences, the      *)
(* returned keys and booleans included.                                    *)
Q == INSTANCE Queues
ImplementsQueues == Q!Spec
=============================================================================
