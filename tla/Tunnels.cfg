SPECIFICATION Spec
CONSTANTS
  m1 = m1
  m2 = m2
  t1 = t1
  Machines = {m1, m2}
  Transports = {t1}
  TransportOf <- const_TransportOf
  Conns = {1, 2}
  Ports = {1, 2}
  None = None
  MaxAsks = 3
  MaxFaults = 1
  MaxSleepers = 1
  BackoffMax = 2
  HealthInterval = 2
INVARIANTS
  TypeOK
  CountHolds
  ConnectsApart
PROPERTIES
  NeverStranded
  RecoversAlone
