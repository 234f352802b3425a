SPECIFICATION Spec
CONSTANTS
  Widgets = {tab1, roll, encoder}
  Names = {n1, n2, n3}
  None = None
  MaxInbox = 2
INVARIANTS
  TypeOK
  Accounted
  DeafOnlyInWindow
  RightEvent
PROPERTIES
  ImplementsOscMap
  EventuallyMapped
