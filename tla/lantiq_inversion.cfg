\* A channel is called or hung up while events of its port are handled.
SPECIFICATION FairSpec
CONSTANTS
  Port = {p1}
  Chan = {c1, c2}
  d1 = d1
  Digit = {d1}
  Ext <- MCExt
  MaxDigits = 2
  Handle = {h1, h2}
  Env = {"quiettimer", "idle", "settled", "gooddata", "ioctlok", "onhook", "memory", "short"}
  NULL = NULL
PROPERTY MonitorContinues
CHECK_DEADLOCK FALSE
