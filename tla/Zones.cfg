\* Two requests against three radios.
SPECIFICATION ZoneSpec
CONSTANTS
  j1 = j1
  j2 = j2
  r1 = r1
  r2 = r2
  r3 = r3
  None = None
  Radios = {r1, r2, r3}
  Jobs = {j1, j2}
  Kinds = {"clear", "remove", "create", "remote"}
  Volumes = {"common"}
  MaxRounds = 1
  MaxOutside = 1
SYMMETRY Symmetric
PROPERTIES
  ScopeKept
  VerifiedZone
  ZoneLedger
CHECK_DEADLOCK FALSE
