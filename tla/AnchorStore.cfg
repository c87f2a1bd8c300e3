SPECIFICATION Spec
CONSTANTS
  i1 = i1
  i2 = i2
  i3 = i3
  r1 = r1
  a = a
  b = b
  x = x
  y = y
  Importer = {i1, i2, i3}
  Retirer = {r1}
  Anchor = {a, b}
  Text = {x, y}
  Imports <- MCImports
  Retires <- MCRetires
  Updater <- AnchorCommand
  Initializer = {n1}
  Content <- AnchorContent
  Default <- NoAnchors
  Effect <- AnchorEffect
  Absent = Absent
  Raised = Raised
  Free = Free
  Tidy = TRUE
INVARIANT TypeOK
PROPERTIES IsAtomic RetiredStaysRetired CommandsEnd
CHECK_DEADLOCK FALSE
