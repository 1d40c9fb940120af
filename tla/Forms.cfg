\* The forms: every order of a few edits, with changes of form in between.
SPECIFICATION FormsSpec
CONSTANTS
  Texts = {"5"}
  Pairs = {"alice"}
  MaxEdits = 4
  MaxRows = 2
INVARIANTS
  FormsTypeOK EnteredIsSent ShownIsSent
