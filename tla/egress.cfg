SPECIFICATION FairSpec
CONSTANTS
  r0 = r0
  NoRequest = NoRequest
  NoTimer = NoTimer
  Projects = {p1}
  Urls = {u1}
  Requests = {r0, r1}
  Duration <- MCDuration
  OpenFor = {1, 2}
  Timers = {t1, t2}
  Faults = {"proxyStop", "cliKilled"}
INVARIANTS
  TypeOK
  TimersMatchWindows
  DenialsAreUnresolved
PROPERTIES
  RestoreOnlyExpired
  OnlyFailuresLeaveOpen
  WindowEnds
