SPECIFICATION Spec
CONSTANTS
  b1 = b1  b2 = b2  c1 = c1  c2 = c2  c3 = c3
  s1 = s1  s2 = s2  s3 = s3  ta1 = ta1  ta2 = ta2
  NoSlot = NoSlot  Nobody = Nobody  NoBooking = NoBooking
  Booking = {b1}
  Slot = {s1, s2}
  Session = {c1, c2}
  BookingOf <- TwoTabs
  Recruiter = {}
  Capacities = {1}
  MaxAborts = 0
  MaxDeletes = 0
INVARIANT OneInterviewPerBooking
CHECK_DEADLOCK FALSE
