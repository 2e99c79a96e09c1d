\* Two devices, one of which changes its address; two copies of the phone, one of the Mac; a queue of
\* one.
CONSTANTS
  phone = phone  mac = mac  p1 = p1  p2 = p2  m1 = m1
  Devices = {phone, mac}
  Addrs = {p1, p2, m1}
  Owner <- MCOwner
  NoDevice = NoDevice
  Instances = {NoDevice, phone}
  QueueCap = 1
  MaxCopies <- MCCopies
  StreamCap = 1
SPECIFICATION FairSpec
CHECK_DEADLOCK FALSE
INVARIANTS
  ReportedOnce
PROPERTIES
  NeverGoesBack
  CopyIsTried
