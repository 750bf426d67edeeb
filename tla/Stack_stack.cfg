SPECIFICATION Spec
CONSTANTS
  File <- MCFile
  Id <- MCId
  Key <- MCKey
  Default <- MCDefault
  Reserved <- MCReserved
  Disks <- MCDisks
  CommandLines <- MCCommandLines
  Library <- MCLibrary
  Directory <- MCDirectory
  BuiltIn <- MCBuiltIn
  SystemPath <- MCSystemPath
  MaxIncludeDepth = 3
  MaxFrames = 7
INVARIANT ConsistentConnects
INVARIANT OwnWins
 
PROPERTY LoadEnds
CHECK_DEADLOCK FALSE
