CONSTANTS
  Vec = {v, w}
  Heap = {h1, h2}
  Elem = {a, b}
  Raw = raw
  Min = 1
  MaxSize = 3
SPECIFICATION Spec
INVARIANTS InBounds Owned
PROPERTIES Sequence
SYMMETRY Renamings
