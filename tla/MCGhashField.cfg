SPECIFICATION Spec
CONSTANTS
  WORD = 2
  REDUCTION = 3
  Modulus <- FieldPolynomial
  POWERS = 4
INVARIANTS
  PowerLoop
  MulIsProduct
CHECK_DEADLOCK FALSE
