SPECIFICATION Spec
CONSTANTS
  s1 = s1
  s2 = s2
  s3 = s3
  i1 = i1
  i2 = i2
  None = None
  Ips = {i1, i2}
  TypeOf <- AllIPv4
  Syncs = {s1, s2, s3}
  IpOf <- Addresses
  Connects = {s2}
INVARIANTS OneRecord
CHECK_DEADLOCK FALSE
