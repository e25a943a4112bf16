SPECIFICATION FairSpec
CONSTANTS
  c1 = c1  c2 = c2  c3 = c3
  NoCaller = NoCaller
  Callers <- ThreeCallers
  Cap = 2
  MaxTries = 2
  MaxExpiries = 1
  MaxFaults = 1
INVARIANTS ClientInv LoginsAreShared
PROPERTIES CallsEnd LoneCallerRecovers
