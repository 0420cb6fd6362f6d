\* Two models, one of them in the legacy layout, two devices, one SET.
CONSTANTS
  t1 = t1
  t2 = t2
  m1 = m1
  m2 = m2
  d1 = d1
  d2 = d2
  None = None
  Threads = {t1, t2}
  Models = {m1, m2}
  DefaultModel = m1
  LegacyModel = m2
  Devices = {d1, d2}
  DefaultDevice = d1
  IoMayThrow = TRUE
  MaxSets = 1
SPECIFICATION Spec
SYMMETRY ThreadSymmetry
INVARIANTS
    NoDataRace
PROPERTIES
    ImplementsModelOnce
