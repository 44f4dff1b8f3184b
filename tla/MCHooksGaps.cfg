SPECIFICATION Spec
CONSTANTS
  Fns <- GapFns
  BlSites <- GapBlSites
  BlxSites <- GapBlxSites
  Owner <- GapOwner
  Targets <- GapTargets
  Plain <- GapPlain
  BlxReg <- GapBlxReg
  Roots <- GapRoots
  Callbacks <- GapCallbacks
  PopExits <- GapPopExits
  BxExits <- GapBxExits
  ExitFn <- GapExitFn
  Shape <- GapShape
  btbl <- Gap_btbl
  ftbl <- Gap_ftbl
  fdtbl <- Gap_fdtbl
  Outside = 40
  Wild = 1
  MaxCalls = 5
PROPERTIES
  OnlyGapsDesync
  LandsAtCallOrAlias
CHECK_DEADLOCK FALSE
