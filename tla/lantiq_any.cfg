\* No discipline but a working device and handsets down at load: any interleaving,
\* any request.  Threads may stop for good: lock inversion, lock leak, freed channel.
SPECIFICATION Spec
CONSTANTS
  Port = {p1}
  Chan = {c1, c2}
  d1 = d1
  Digit = {d1}
  Ext <- MCExt
  MaxDigits = 1
  Handle = {h1, h2}
  Env = {"ioctlok", "onhook"}
  NULL = NULL
SYMMETRY Symmetry
INVARIANTS HandleInv DriverLive
CHECK_DEADLOCK FALSE
