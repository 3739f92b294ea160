\* Two lists over four nodes: enough for a list with two inner nodes, for a
\* concat of two non-trivial lists, and for every case of insert and remove
\* (front, middle, back, only node, no node).
SPECIFICATION Spec
CONSTANTS
  Key = {k1, k2, k3, k4}
  ListId = {a, b}
  None = None
INVARIANT
  LinksRepresentQueues
PROPERTY
  ImplementsQueues
