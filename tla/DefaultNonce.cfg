\* The form for a QR code, asked for the lot its number starts with.
SPECIFICATION FormsSpec
CONSTANTS
  Texts = {"5"}
  Pairs = {"alice"}
  MaxEdits = 4
  MaxRows = 0
INVARIANTS
  OnlyEmptyIsLeftOut
