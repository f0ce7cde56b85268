\* Two WANs, lost tasks, monitors that die, rules removed by others.
SPECIFICATION Spec
CONSTANTS
  WanCount = 2
  Addr = {a1}
  X = X
  NOIP = NOIP
  NULL = NULL
  Balancer = Balancer
  FastBalancer = FastBalancer
  Disable = Disable
  Fails = 3
  Passes = 2
  FailRetries <- FewerFails
  RecoveryRetries <- FewerPasses
  FailoverTo <- Chain
  Weighted <- Everyone
  Monitored <- Everyone
  Pinged <- Everyone
  MaxJobs = 2
  Env = {"loss", "firewall", "append", "vanish"}
INVARIANTS BalancerSound DnsSound OnceQueued
PROPERTIES KeepsHealth
