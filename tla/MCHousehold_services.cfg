SPECIFICATION Spec
CONSTANTS
  m1 = m1  m2 = m2  m3 = m3  d1 = d1  d2 = d2  e1 = e1  e2 = e2  x1 = x1  r1 = r1  r2 = r2
  t1 = t1  t2 = t2
  Unconfigured = Unconfigured
  None = None
  Members = {m1}
  Devices = {d1}
  Enrolls = {e1}
  Deenrolls = {x1}
  Registered = {}
  DeviceOf <- NewDeviceEnrolled
  Threads = {t1, t2}
  MaxCrashes = 1
INVARIANTS LossNeedsAnotherService 

