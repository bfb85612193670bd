SPECIFICATION Spec
CONSTANTS
  a1 = a1
  a2 = a2
  m1 = m1
  m2 = m2
  Instances = {a1, a2}
  Segments = {m1, m2}
  Tracks = {"t"}
  Names = {1, 2}
  None = None
  Scenarios <- RecordingScenarios
INVARIANTS
  OnlyCutCleanUpsLoseAudio
  ManifestsTellTheTruth
  AudioCanBeRecovered
SYMMETRY Symmetry
CHECK_DEADLOCK FALSE
