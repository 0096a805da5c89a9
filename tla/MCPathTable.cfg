SPECIFICATION Spec
CONSTANTS
  d1 = d1
  d2 = d2
  A = A
  B = B
  NULL = NULL
  Devs = {d1, d2}
  Wwids = {A, B}
  Luns <- TwoLuns
  Blacklisted = {}
  Addrs = {1, 2, 3}
  FindMultipaths = "off"
  retrigger_tries = 1
  Faults = {"flush", "info", "up", "udev"}
  Operators = {"dmsetup", "cli"}
  MaxEvents = 3
INVARIANTS TablesLinked SettledInSync
