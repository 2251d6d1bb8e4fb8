-------------------------- MODULE MCAddressRecord ---------------------------
(* Two groups with the same record: one with an IPv4 and an IPv6 address,  *)
(* one with an IPv4 address.  Another name of the zone has the latter, and *)
(* one that is in no group.                                                *)
EXTENDS AddressRecord

CONSTANTS t1, t2, ip1, ip2, ip3, ip4

OwnedByGroup == [t \in {t1, t2} |-> IF t = t1 THEN {ip1, ip2} ELSE {ip3}]
=============================================================================
