CONSTANTS
  Size = 3
  Stamps = 5
  Readers = {"bytes", "floats"}
  Need <- MCNeed
  MaxPacket = 3
SPECIFICATION Spec
INVARIANT StaleIsSilent
PROPERTIES ImplementsWindow FreshIsHeard
