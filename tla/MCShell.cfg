SPECIFICATION Spec
CONSTANTS
  Dirs = {"home", "sub"}
  Home = "home"
  Names = {"f"}
  MaxSteps = 3
  MaxInPipeline = 2
  MaxRedirections = 1
  MaxPipelines = 2
  MaxCommands = 3
  MaxOutput = 2
  MaxSize = 1
  Disruptions = {"refuse", "disk", "deadline"}
INVARIANTS TypeOK Bounded AndOrLists OutputOfSteps PipesFeed FilesHold
CHECK_DEADLOCK FALSE
