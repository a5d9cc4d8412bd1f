SPECIFICATION Spec
CONSTANTS
  MaxMessages = 3
  MaxCompiles = 4
  MaxHandles = 3
INVARIANTS
  TypeOK
  MessagesInStep
  TrueResult
  FreshScripts
  CompilerGone
PROPERTIES
  EditorReturns
  TalkKept
CHECK_DEADLOCK FALSE
