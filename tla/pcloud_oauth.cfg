SPECIFICATION Spec
CONSTANTS
  c1 = c1  c2 = c2  c3 = c3
  NoCaller = NoCaller
  Callers <- TwoCallers
  Cap = 3
  MaxTries = 3
  MaxExpiries = 0
  MaxFaults = 1
INVARIANTS OAuthTokenLasts
