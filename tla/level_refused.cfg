SPECIFICATION SafetySpec
CONSTANT Commands = 1
INVARIANT LevelAccepted
