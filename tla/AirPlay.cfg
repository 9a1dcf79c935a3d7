\* Sessions one after the other with one member, crashes and an outsider.
SPECIFICATION PilotSpec
CONSTANTS
  Master = master
  Members = {m1}
  MaxOutside = 1
INVARIANT BoundedAudio
INVARIANT StartsClean
PROPERTY SessionEnds
CHECK_DEADLOCK FALSE
