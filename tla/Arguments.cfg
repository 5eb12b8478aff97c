SPECIFICATION Spec
CHECK_DEADLOCK FALSE
CONSTANTS
  Arguments = {"--help", "-f", "-w", "--height", "movie", "", "640", "480", "4294967296"}
  MaxArguments = 5
INVARIANTS
  PlaysWhatItSays
