SPECIFICATION MCSpec
CONSTANTS
  p1 = p1
  s1 = s1
  s2 = s2
  NoCapture = NoCapture
  Profiles = {p1}
  Snapshots = {s1, s2}
  MaxObserved = 2
  MaxRearms = 1
  MaxAttempts = 2
  MaxWrites = 2
  Programs <- MCPrograms
INVARIANTS
  PhaseHonest
  CompleteIsExact
  HandledSafely
  WriterNamed
PROPERTIES
  NoAttachAfterFinish
  RecordingsProceed
CHECK_DEADLOCK FALSE
