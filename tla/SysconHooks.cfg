SPECIFICATION Spec
CONSTANTS
  Prober = Prober
  None = None
  Callers = {Prober, Driver1}
  Payloads <- MCPayloads
  FileModes <- MCFileModes
  Requests <- MCRequests
INVARIANTS
  WireWellFormed
  PatchesExplained
  TraceTellsTheWire
  ProbeLineTellsTheWire
