-------------------------------- MODULE List --------------------------------
(***************************************************************************)
(* The intrusive doubly-linked list of src/src/list.rs as pure operators.  *)
(*                                                                         *)
(* The list itself holds only the keys of its two ends; the links are in   *)
(* the nodes, which live in a collection the caller owns (a Slab) and      *)
(* passes to every call.  An operation therefore maps a pair (nodes, list) *)
(* to a new pair.  A node's value plays no part in the operations and is   *)
(* left out.                                                               *)
(***************************************************************************)

CONSTANTS
  Key,    \* the keys of the nodes (slab indices)
  None    \* Option::None

Link == Key \cup {None}

NodeType == [prev : Link, next : Link]
ListType == [head : Link, tail : Link]

(* Node::new and List::default. *)
NewNode   == [prev |-> None, next |-> None]
EmptyList == [head |-> None, tail |-> None]

IsEmpty(l) == l.head = None

(***************************************************************************)
(* Link key into l behind the node `after', or in front when after = None. *)
(***************************************************************************)
Insert(ns, l, after, key) ==
  LET next == IF after = None THEN l.head ELSE ns[after].next
      ns1  == IF after = None THEN ns ELSE [ns EXCEPT ![after].next = key]
      ns2  == [ns1 EXCEPT ![key] = [prev |-> after, next |-> next]]
      ns3  == IF next = None THEN ns2 ELSE [ns2 EXCEPT ![next].prev = key]
  IN  [nodes |-> ns3,
       list  |-> [head |-> IF after = None THEN key ELSE l.head,
                  tail |-> IF next = None THEN key ELSE l.tail]]

(* Mutant: remove reads the links of the node without taking them. *)
MutRemoveKeepsLinks(ns, l, key) ==
  LET prev == ns[key].prev
      next == ns[key].next
      ns2  == IF prev = None THEN ns ELSE [ns EXCEPT ![prev].next = next]
      ns3  == IF next = None THEN ns2 ELSE [ns2 EXCEPT ![next].prev = prev]
  IN  [nodes |-> ns3,
       list  |-> [head |-> IF l.head = key THEN next ELSE l.head,
                  tail |-> IF l.tail = key THEN prev ELSE l.tail]]

(***************************************************************************)
(* Unlink key from l.  Both links of the node are taken (reset to None),   *)
(* so a second removal finds nothing to unlink.                            *)
(***************************************************************************)
Remove(ns, l, key) ==
  LET prev == ns[key].prev
      next == ns[key].next
      ns1  == [ns EXCEPT ![key] = NewNode]
      ns2  == IF prev = None THEN ns1 ELSE [ns1 EXCEPT ![prev].next = next]
      ns3  == IF next = None THEN ns2 ELSE [ns2 EXCEPT ![next].prev = prev]
  IN  [nodes |-> ns3,
       list  |-> [head |-> IF l.head = key THEN next ELSE l.head,
                  tail |-> IF l.tail = key THEN prev ELSE l.tail]]

(* The key returned is l.head (None for an empty list). *)
PopFront(ns, l) ==
  IF l.head = None THEN [nodes |-> ns, list |-> l]
                   ELSE Remove(ns, l, l.head)

PushBack(ns, l, key) == Insert(ns, l, l.tail, key)

(* Mutant: concat does not restore the link to the rest of other. *)
MutConcatCutsChain(ns, l, other) ==
  IF IsEmpty(other)
  THEN [nodes |-> ns, list |-> l, other |-> other]
  ELSE LET ins == Insert(ns, l, l.tail, other.head)
       IN  [nodes |-> ins.nodes,
            list  |-> [ins.list EXCEPT !.tail = other.tail],
            other |-> EmptyList]

(***************************************************************************)
(* Move all of other behind l: the head of other is inserted after the     *)
(* tail of l, which sets its next link to None, and the link is restored.  *)
(***************************************************************************)
Concat(ns, l, other) ==
  IF IsEmpty(other)
  THEN [nodes |-> ns, list |-> l, other |-> other]
  ELSE LET hkey == other.head
           next == ns[hkey].next
           ins  == Insert(ns, l, l.tail, hkey)
       IN  [nodes |-> [ins.nodes EXCEPT ![hkey].next = next],
            list  |-> [ins.list EXCEPT !.tail = other.tail],
            other |-> EmptyList]
=============================================================================
