\* One operation at a time on a port; the device may refuse any ioctl.  Nothing may stop.
SPECIFICATION FairSpec
CONSTANTS
  Port = {p1}
  Chan = {c1, c2}
  d1 = d1
  Digit = {d1}
  Ext <- MCExt
  MaxDigits = 2
  Handle = {h1, h2}
  Env = {"quiettimer", "quietlegs", "idle", "settled", "gooddata", "onhook", "memory", "short"}
  NULL = NULL
PROPERTIES MonitorContinues HangupArrives NumberIsDialled
