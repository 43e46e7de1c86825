CONSTANTS
  Backend = {"hash"}
  Patches = {"glue"}
  v1 = v1
  v2 = v2
  v3 = v3
  Versions <- MCVersions
  Default = v1
  Graphs <- MCGraphs
  Tests = {"raw-protocol", "prefix-resume"}
  SelfTests = {"packaged prefix"}
  None = None
  Garbled = Garbled
  MaxFaults = 2
SPECIFICATION Spec
CHECK_DEADLOCK FALSE
INVARIANTS
  AcceptedIsWhole
  AcceptedIsOfOnePackage
  AcceptedExtensionsInstall
  AcceptedIsRelocatable
  SoundPackagesPass
  InstallSearchIsRight
PROPERTIES
  InstallSearchGetsOn
