\* A domain that is marked SYNCED rests, so the system may stop.
CONSTANTS
  MaxVersion = 3
  MaxTime = 3
  MaxFaults = 3
SPECIFICATION Spec
INVARIANTS SyncedIsAdvertised
PROPERTIES KeptAdvertised HttpsConverges
CHECK_DEADLOCK FALSE
