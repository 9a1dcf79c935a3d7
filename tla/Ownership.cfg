\* Two workers, one with two tasks, and two radios; the lock file of one radio
\* may be replaced once.
SPECIFICATION Spec
CONSTANTS
  w1 = w1
  w2 = w2
  t1 = t1
  t2 = t2
  t3 = t3
  dA = dA
  dB = dB
  Workers = {w1, w2}
  Tasks = {t1, t2, t3}
  Devices = {dA, dB}
  NoTask = NoTask
  WorkerOf <- MCWorkerOf
  Rank <- MCRank
  Replaceable = {dA}
  MaxDepth = 2
  MaxInode = 2
SYMMETRY TaskSymmetry
INVARIANTS
  ExclusiveBody
  OneOwner
  NoCircularWait
PROPERTIES
  GrantNewest
