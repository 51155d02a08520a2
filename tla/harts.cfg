SPECIFICATION FairSpec
CONSTANTS
  HartCount = 2
  Disabled = {}
  HandlerReadsPending = TRUE
  OthersStart = TRUE
  Calls = {"soft", "sfence_vma", "putchar", "getchar", "shutdown", "clear_ipi", "set_timer"}
  Masks = {{1}, {0, 1}}
  MaxCalls = 3
  MaxTyped = 2
INVARIANTS HartsTypeOK HtifExclusive OutputNotLost InputNotLost NoEventStranded TimerNotLost
PROPERTIES SbiCallsReturn WaitingHartsStart
