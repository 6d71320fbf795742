SPECIFICATION Spec
CONSTANTS
  Immediate = {c}
  Cancelable = {c}
  Deferred = {d}
  Other = {o}
  Listener = {f, g}
  MaxChanges = 3
  MaxCalls = 2
  MaxDepth = 3
INVARIANTS EventInv DeferredDeliveredOnce
PROPERTIES EveryListenerCalled OwnEventDecides
SYMMETRY Symmetry
CHECK_DEADLOCK FALSE
