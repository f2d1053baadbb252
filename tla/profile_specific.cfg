SPECIFICATION DetectSpec
CONSTANTS
  Profiles <- MCProfiles
  SdlId = 9
  Devices <- MCDevices
  ForcedIds = {2, 9}
INVARIANT
  MostSpecificSelected
