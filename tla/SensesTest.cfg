CONSTANTS
  Handlers = {h1}
  Poses <- LiveGestures
  PoseFrames = 2
  ResumeFrames = 2
  Environments <- Calm
  MaxGeneration = 2
  MaxPackets = 1
  MaxQueue = 1
  MaxReports = 1
  VoiceSettings <- OneTest
  kokoro = kokoro
  eleven = eleven
  MicModes = {"live", "ptt"}
  MaxRequests = 1
  MaxChoices = 1
  Focuses <- VoiceOnly
SPECIFICATION SFairSpec
PROPERTIES
  TestKeepsHearing
CHECK_DEADLOCK FALSE
