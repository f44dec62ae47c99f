SPECIFICATION Spec
CONSTANT Configs <- MCConfigs
INVARIANTS
  CurveAssembled
  ArgumentsPresent
  TablesFit
  WarningTruthful
