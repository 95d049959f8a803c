SPECIFICATION Spec
CONSTANTS
  z = z
  a = a
  Elem = {z, a}
  Zero = z
  Junk = Junk
  Max = 3
  MaxCall = 3
PROPERTY TailReadReturnsNewest
