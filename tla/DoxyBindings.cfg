SPECIFICATION Spec
CONSTANTS
  MaxNodes = 2
  MaxInside = 2
INVARIANTS BuildKeepsKnown ExportFaithful LiteralNeedsNoMixed
CHECK_DEADLOCK FALSE
