SPECIFICATION Spec
CONSTANTS
  Spectra <- Few
  Layouts <- SomeLayouts
  Windows = {0, 1}
  ScfsiGroups <- Groups
  Pretab <- Preemphasis
  SlenTab <- Slens
  SfMaxLo = 3
  SfMaxHi = 1
  MaxSubblockGain = 1
  MaxGain = 20
  MaxExponent = 24
  MaxPart23Length = 24
  MaxIters = 30
  Budgets = {1, 12, 30}
INVARIANTS
  FindsFittingGain
  NeverWorseThanPlain
  ScalefactorsSurvive
