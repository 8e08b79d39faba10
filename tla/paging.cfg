CHECK_DEADLOCK FALSE
SPECIFICATION PagingSpec
CONSTANTS
  Styles <- MCStyles
  Root = 0
  Entries = {1, 2, 3, 4, 5, 6, 7, 8}
  Dirs <- MCDirs
  Links <- MCLinks
  First <- MCFirst
  Limit = 2
  MaxEdits = 2
INVARIANTS MissesNoMoreThanRemoved TwiceNoMoreThanInserted PanicsOnlyWhenShrunk
PROPERTIES WalkEnds
