\* Two slots, two stations, two transactions and one change at the radio.
SPECIFICATION Spec
CONSTANTS
  Slots = {s1, s2}
  Selections = {v1, v2}
  Empty = Empty
  Keep = Keep
  Kinds = {"write", "clone", "artwork", "delete", "download"}
  MaxBegun = 2
  MaxOutside = 1
SYMMETRY Symmetric
INVARIANT OneOpenWrite
PROPERTIES
  CommitSeen
  CommitFromKnown
  ArtworkOnly
CHECK_DEADLOCK FALSE
