SPECIFICATION Spec
CONSTANTS
  MaxProcesses = 2
  MaxCommands = 3
  MaxEdits = 1
  MaxWorkers = 2
  ConfigPaths <- MCConfigPaths
  Contents <- MCContents
  Unreadable = Unreadable
  Relative <- MCRelative
  Writable <- MCWritable
  Exports <- MCExports
  NoLib = NoLib
  LevelTexts = {"EMERGENCY"}
INVARIANT TypeOK
 
 
INVARIANT FunctionsStayLoaded
 
CHECK_DEADLOCK FALSE
