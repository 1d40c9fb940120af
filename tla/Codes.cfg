\* A code and its slip, under every parser.
SPECIFICATION SlipSpec
CONSTANTS
  GtinDigits = 6
  SsccDigits = 8
  GlnDigits = 7
  ScDigits = 6
  CzzzDigits = 3
  SuffixWidth = 2
  Lengths <- SomeLengths
INVARIANTS
  SlipTypeOK DigitErrorsDetected SwapsDetected
\* A parse ends.
CHECK_DEADLOCK FALSE
