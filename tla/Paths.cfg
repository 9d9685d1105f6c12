CONSTANTS
  Streamers = {1, 2}
  FileLimit = 2
  RotationCount = 3
  LogLevels = {1, 2}
  MaxLines = 11
  Instances = {1, 2}
  Chars = {"a", "n", "quote", "back", "NL", "CTL"}
  MaxChars = 5
  EscapedSize = 12
  OutputSize = 5
  Lengths = {1, 2, 4, 6}
  MaxWords = 5
  WrapWidth = 5
  Pids = {1, 2, 3}
  Named = {x, y}
  MaxTokens = 3
  MaxOptions = 2
  MaxTargets = 2
  MaxProcesses = 2
  StreamTop = 2
SPECIFICATION PathsSpec
INVARIANTS NoFifoLeft PathLeadsToStream LogInOrder OwnAnswer TextSurvives WordsKept TargetsExact
PROPERTIES ReaderGoneEnds StopEnds
CHECK_DEADLOCK FALSE
