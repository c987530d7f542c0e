SPECIFICATION Spec
CONSTANTS
  Offsets <- MCOffsets
  Bytes = {0, 1}
  Roms <- MCRoms
  Supported <- MCSupported
  NoRom = NoRom
  Race <- MCRace
  Title <- MCTitle
  MaxPatches = 2
  MaxStates = 1
  MaxTransfer = 2
INVARIANTS
  PatchesAccountForRom
PROPERTY StaleIdsStayStale
