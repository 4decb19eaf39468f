CONSTANTS
  Handlers = {h1}
  Poses <- FewGestures
  PoseFrames = 3
  ResumeFrames = 5
  Environments <- Calm
  MaxGeneration = 2
  MaxPackets = 1
  MaxQueue = 1
  MaxReports = 1
  VoiceSettings <- OneTest
  kokoro = kokoro
  eleven = eleven
  MicModes = {"live", "ptt"}
  MaxRequests = 1
  MaxChoices = 1
  Focuses <- HandsOnly
SPECIFICATION SSpec
INVARIANTS
  ButtonFollowsPinch
CHECK_DEADLOCK FALSE
