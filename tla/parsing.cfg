\* Redis sends nothing more, an argument list is complete.
CHECK_DEADLOCK FALSE
SPECIFICATION MCSpec
CONSTANTS
  AllowDangerous = FALSE
  ExtraBlocked = {}
  MaxArgs = 8
  Symbol <- MCSymbol
  MaxDepth = 1
  MaxBulk = 10
  MaxName = 2
  Scripts <- MCScripts
INVARIANTS
  NeverBlocks
  NoFalseRefusal
  SplitInvisible
  EventsFaithful
