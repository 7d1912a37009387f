SPECIFICATION Spec
CONSTANTS
  r1 = r1  r2 = r2  r3 = r3
  m1 = m1  m2 = m2  m3 = m3  ics = ics
  k1 = k1  k2 = k2  t1 = t1  t2 = t2  t3 = t3
  w1 = w1  w2 = w2  a1 = a1  a2 = a2
  e1 = e1  NoKey = NoKey  Master = Master
  Event = {e1}
  KeyOf <- MCKeyOf  TextOf <- MCTextOf  EventOf <- MCEventOf
  Request = {r1, r2}
  Mail = {m1, m2, m3, ics}
  Asks <- AsksTwice
  Inline = {ics}
  NeverCollapse = {}
  Worker = {}
  Admin = {}
  MAX_ATTEMPTS = 1
  Limit = 1
  LookupFails = {FALSE}
  MaxLost = 0
  MaxAmbiguous = 0
  MaxToggles = 0
  MaxRetries = 0
INVARIANT NotificationNeverFailsAction
CHECK_DEADLOCK FALSE
