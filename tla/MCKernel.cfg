CONSTANTS
  Capacity = 2
  Setups <- Machines
  MaxDepth = 3
  MaxGuards = 2
SPECIFICATION Spec
INVARIANTS InService GuardsDisable ReadyWhenEnabled OnlyFaultsWait StatesCatchUp ModifiersHeld
PROPERTIES IsEventQueue KeyServed Reported Delivered
