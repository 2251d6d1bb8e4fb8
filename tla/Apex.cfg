SPECIFICATION Spec
CONSTANTS
  t1 = t1
  t2 = t2
  ip1 = ip1
  ip2 = ip2
  ip3 = ip3
  ip4 = ip4
  Tasks = {t1, t2}
  Elsewhere = {ip3, ip4}
  IPv6 = {ip2}
  Owned <- OwnedByGroup
  MaxFlips = 1
  MaxFaults = 0
PROPERTY OnlyOwnAddresses
