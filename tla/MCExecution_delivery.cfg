CONSTANTS
  c1 = c1
  c2 = c2
  r1 = r1
  relay = relay
  None = None
  Relays = {relay}
  Callers = {c1, c2}
  RelayOf <- OneRelay
  Reservations = {r1}
  Streams = {r1}
  MaxEvents = 5
  MaxCalls <- OneCall
  MaxFaults = 2
SPECIFICATION FairSpec
INVARIANTS
  TypeOK ChargedOnEvidence SentOnce EvidenceHasRoom
PROPERTIES
  NoLateCharge EvidenceArrives
CHECK_DEADLOCK FALSE
