\* Texts of at most six bytes, edited in all ways in any order.
CONSTANTS
  Bytes <- MCBytes
  Lead <- MCLead
  Wide = {"w"}
  Joining = {"j"}
  Typed <- MCTyped
  Placeholder <- MCPlaceholder
  Ranges <- MCRange
  NoRange = NoRange
  NoLayout = NoLayout
  MaxBytes = 6
SPECIFICATION Spec
CHECK_DEADLOCK FALSE
INVARIANTS
  RangesFit
  MarkIsComposition
  Utf16Agrees
PROPERTIES
  AnchorIsHeld
