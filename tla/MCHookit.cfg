SPECIFICATION Spec
CONSTANTS
  Programs <- ThePrograms
  text_start <- TheTextStart
  Hook <- TheHook
INVARIANTS
  SweepComplete
  TablesOrdered
  MeasurementOfCallee
  TokenForEveryReturn
  PopTypeOfCallee
PROPERTY
  HookitEnds
CHECK_DEADLOCK FALSE
