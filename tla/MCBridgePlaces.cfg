SPECIFICATION Spec
CONSTANTS
  a = a
  b = b
  c = c
  a1 = a1
  a2 = a2
  b1 = b1
  c1 = c1
  NoProcess = NoProcess
  Processes = {a, b, c}
  Drivers <- MCDrivers
  ProcessOf <- MCProcessOf
  NPlaces = 2
INVARIANT IInv
PROPERTIES PlacesGranted FullIsFull
