SPECIFICATION CloudsSpec
CONSTANTS
  Kinds <- AllKinds
  Ways = {"aws-snapshot", "aws-image", "aws-ebs", "azure", "ibmvpc", "openstack"}
  MaxFaults = 2
  MaxCrashes = 1
  Nobody = Nobody
  Scans = {r1, r2}
  Limits = {1, 2}
  KeyTypes = 1
INVARIANTS TypesOK ReadyWhole
PROPERTIES  Reclaimed ScansEnd
CHECK_DEADLOCK FALSE
