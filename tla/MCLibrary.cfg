CONSTANTS
  Chains = {"a", "b"}
  MinSize = 1
  MaxSize = 4
  BlockSize = 2
  Slack = 1
  MaxBytes = 4
  MaxBlocks = 4
  Hosts = {"g", "h", "k"}
  Keep = 1
  Threads = {"t1", "t2", "t3"}
  MaxExchanges = 5
  MaxPosted = 2
  MaxCalls = 3
  MaxWrites = 2
  MaxAnswers = 3
  Contexts = {"c1", "c2", "c3"}
  MaxConfigs = 2
  MaxRebuilds = 1
  MaxHosts = 2
  Servers <- SomeServers
  Skipped <- SomeSkipped
  Certs <- SomeCerts
  MaxChanges = 3
  MaxFields = 3
  Urls <- SomeUrls
  Users = {"u1", "u2"}
  MaxCaptures = 2
  MaxCommands = 3
  Holds <- SomeHolds
  Signer <- SomeSigner
  AltNames <- SomeAltNames
  TrafficHosts = {"g", "h"}
  MaxCollected = 3
  MaxClears = 1
SPECIFICATION Spec
INVARIANTS ChainHolds CollectorsKept AnsweredOnce TrustKept VerdictsSound RoundTrip StartSynchronised
CHECK_DEADLOCK FALSE
