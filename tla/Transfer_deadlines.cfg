SPECIFICATION Spec
CONSTANTS
  Unset = Unset
  Malformed = Malformed
  Default <- MCDefault
  Layers <- MCLayers
  Envs <- MCEnvs
  Limits = {0, 4}
  Direct <- MCDirect
  Sizes <- MCSizes
  Second = 2
  MaxDuration = 10
  MaxLayers = 2
  MaxTicks = 12
INVARIANTS
  TypeOK
  LastSettingWins
  DisabledStaysDisabled
  RateIsEnough
PROPERTY WideningNeverShortens
CHECK_DEADLOCK FALSE
