SPECIFICATION BackendSpec
CONSTANTS
  Subjects = {"s", ""}
  Names = {"n", ""}
  Paths = {"web", ""}
  Bodies <- MCBodies
  Texts <- MCTexts
  None = None
  ScriptDirs <- MCScriptDirs
  LibraryDirs <- MCLibraryDirs
  NoDir = NoDir
  Long = 2
CHECK_DEADLOCK FALSE
PROPERTIES ImplementsStore ServesDirectories AllOrNothing
