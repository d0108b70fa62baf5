SPECIFICATION Spec
CONSTANTS
  Menus <- SmallMenus
  MENU_BOX_H = 2
  MAX_FALLBACK_ENTRIES = 4
  Digits = {0, 1, 2}
  MaxLines = 3
  MaxResets = 1
INVARIANT HighlightInMenu
INVARIANT FallbackInOrder
PROPERTY SavedFallbackIsNext
PROPERTY MenuComesUp
PROPERTY BootEnds
PROPERTY GoodEntryRuns
CHECK_DEADLOCK FALSE
