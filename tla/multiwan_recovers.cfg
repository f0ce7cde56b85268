\* Liveness: one WAN, everything that can happen to it.
SPECIFICATION FairSpec
CONSTANTS
  WanCount = 1
  Addr = {a1}
  X = X
  NOIP = NOIP
  NULL = NULL
  Balancer = Balancer
  FastBalancer = FastBalancer
  Disable = Disable
  Fails = 3
  Passes = 2
  FailRetries <- AllFail
  RecoveryRetries <- AllPass
  FailoverTo <- Chain
  Weighted <- Everyone
  Monitored <- Everyone
  Pinged <- Everyone
  MaxJobs = 2
  Env = {"link", "loss", "route", "resolv", "firewall"}
PROPERTIES BackOnline TakenOut Restored
