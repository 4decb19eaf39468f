CONSTANTS
  Handlers = {h1, h2}
  Poses <- LiveGestures
  PoseFrames = 1
  ResumeFrames = 2
  Environments <- CalmCornersAndRough
  MaxGeneration = 2
  MaxPackets = 2
  MaxQueue = 2
  MaxReports = 1
  VoiceSettings <- Settings
  kokoro = kokoro
  eleven = eleven
  MicModes = {"live", "ptt"}
  MaxRequests = 1
  MaxChoices = 1
  Focuses <- AllSenses
SPECIFICATION SFairSpec
INVARIANTS
  SensesTypeOK
  MouseFollowsInterpreter
  SilencedStaysSilent
  MicIsGatedWhileSounding
PROPERTIES
  HandControlEnds
  AnswerSilencesOlder
  MicrophoneOpensAgain
CHECK_DEADLOCK FALSE
