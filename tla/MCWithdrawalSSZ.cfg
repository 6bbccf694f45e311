CONSTANTS
  Radix = 2
  WordBytes = 2
  AddressBytes = 1
SPECIFICATION Spec
INVARIANTS
  RoundTrip
