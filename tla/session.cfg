SPECIFICATION Spec
CONSTANTS
  Bit <- MCBit
  BUFFER_SIZE = 2
  KEY_LENGTH = 2
  IV_LENGTH = 1
  Monitor = {"m1", "m2"}
  MAX_JOBS = 2
  MaxCommands = 2
  PrivateKey = {6, 15}
  UserFile <- MCUserFile
  ServerFile <- MCServerFile
INVARIANTS TypeOK KeysAgree TempRemoved NoIncompleteFile UploadIntact RepliesAwaited
PROPERTIES DownloadIntact CommandReturns MonitorReports
