SPECIFICATION Spec
CONSTANTS
  HartCount = 1
  Disabled = {}
  HandlerReadsPending = FALSE
  OthersStart = FALSE
  Calls = {"soft", "fence_i", "sfence_vma", "putchar", "getchar"}
  Masks = {{0}}
  MaxCalls = 2
  MaxTyped = 1
INVARIANT FencesDone
