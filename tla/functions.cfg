SPECIFICATION Spec
CONSTANTS
  EvenRadix = 256
  OddRadix = 128
  Check = 2251
  ScBits = 7
  ScDigits <- MCScDigits
  ScCheck = 1409
  P = 61
  D = 2
  Base <- MCBase
  BaseOrder = 7
  Digits = 4
  Radix = 8
  NumHarts = 2
  Self = 9
  Seeds = {1, 2, 3, 4, 5, 6, 7, 8}
INVARIANTS FieldOpsCorrect FieldCanonical LimbLayouts FieldChainsCorrect ScalarsReduced GroupLaw ScalarMultCorrect SignaturesVerify HashMatchesFips DeviceTreeQueried DeviceTreeFiltered TrapsResume MeasurementFaithful
