SPECIFICATION RecordingSpec
CONSTANTS
  MaxVideo = 3
  MaxAudio = 2
  MaxRecordings = 2
INVARIANTS
  NoOrphanRecorder
  NoHoleInARecording
PROPERTIES
  EveryRecordingIsAnswered
