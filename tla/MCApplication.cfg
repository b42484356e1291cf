SPECIFICATION Spec
CONSTANTS
  Listener = {a, b}
  Null = Null
  InitialCapacity = 1
  CapacityIncrement = 0
  MaxListeners = 4
INVARIANTS
  TypeOK
  RoundComplete
PROPERTIES
  RefinesList
  
