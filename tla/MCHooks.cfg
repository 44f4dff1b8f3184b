SPECIFICATION System
CONSTANTS
  Text <- TheText
  text_start <- testdiv
  Hook = 8
  TokenOf <- TheTokenOf
  Fns <- TheFns
  BlSites <- TheBlSites
  BlxSites <- TheBlxSites
  Owner <- TheOwner
  Targets <- TheTargets
  Plain <- NoPlain
  BlxReg <- TheBlxReg
  Roots <- TheRoots
  Callbacks <- NoCallbacks
  PopExits <- ThePopExits
  BxExits <- TheBxExits
  ExitFn <- TheExitFn
  Shape <- TheShape
  btbl <- The_btbl
  ftbl <- The_ftbl
  fdtbl <- The_fdtbl
  Outside = 40
  Wild = 1
  MaxCalls = 7
INVARIANTS
  TypeOK
  ShadowMirrorsFrames
  OnTrack
PROPERTY
  RefinesCallStack
