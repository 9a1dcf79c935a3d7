SPECIFICATION FairSpec
CONSTANTS
  Ids = {1, 2, 3}
  Versions = {5, 6}
  MaxJobs = 2
  MaxEvents = 32
  Entries = {"app", "data"}
  Data = "data"
  FirstVersion = 5
  MaxFaults = 2
INVARIANTS
  JournalTruthful
  OneGeneration
  CredentialsKept
PROPERTIES
  JournalSpec
  JobSettles
CHECK_DEADLOCK FALSE
