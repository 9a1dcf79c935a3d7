\* Every kind of command once, with the gate, the firmware and outside changes;
\* with the opt-in, commands against two reconnect tasks.
SPECIFICATION Spec
CONSTANTS
  Tasks = {t1, t2}
  OptIns = {TRUE, FALSE}
  Kinds = {"preset", "resume", "stop", "station", "timer", "plain", "select", "power", "lowpower", "manual", "setting"}
  OptInKinds = {"stop", "select", "power"}
  MaxJobs = 1
  MaxPolls = 1
  MaxFaults = 1
INVARIANT AudioSafe
PROPERTY QuietAfterLost
PROPERTY LedgerSpec
PROPERTY NoRevival
CHECK_DEADLOCK FALSE
