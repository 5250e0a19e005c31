SPECIFICATION MCSpec
CONSTANTS
  Sources = {england, football}
  Absent = {football}
  Rewriting = {england}
  BadRefs = {2}
  MaxRef = 3
  MaxTrouble = 1
  Matches = {k1}
  Venues = {v1, v2}
  Unmapped = nowhere
  Clubs = {c1}
  Earlier = {c0}
  Scores = {"1-0", "0-1"}
  Kicks = {q1, q2}
  None = None
  Unknown = tbd
  MaxSeals = 2
INVARIANTS
  GenerationComplete
  QuarantineKeptOut
  HarmlessPasses
PROPERTIES
  ChangesArrive
  EvidenceIsKept
CHECK_DEADLOCK FALSE
