\* Calls into the driver interleave with the event handlers of two ports; only the
\* autodial callback runs alone.  Threads may stop for good in the lock inversion.
SPECIFICATION Spec
CONSTANTS
  Port = {p1, p2}
  Chan = {c1, c2, c3}
  d1 = d1
  Digit = {d1}
  Ext <- MCExt
  MaxDigits = 2
  Handle = {h1, h2, h3}
  Env = {"quiettimer", "idle", "settled", "gooddata", "ioctlok", "onhook", "memory", "short"}
  NULL = NULL
SYMMETRY Symmetry
INVARIANTS TypeOK OwnerIsLive NoneDangles CallHasOwner HookAgrees VoicePathUp TimerWhileDialing
PROPERTIES KeepsPromise
CHECK_DEADLOCK FALSE
