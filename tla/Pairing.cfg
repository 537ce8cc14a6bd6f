SPECIFICATION Spec
CONSTANTS
  Flows = {f, g}
  Devices = {gw, panel}
  Classic = {gw}
  NoDevice = none
  Page = 1
  Attempts = 1
  ManualAttempts = 2
  MaxIds = 2
  MaxNow = 2
  MaxAcls = 2
INVARIANTS
  TypeOK
  EntryIsOneIdentity
  OneEntryPerGateway
SYMMETRY Symmetry
CHECK_DEADLOCK FALSE
