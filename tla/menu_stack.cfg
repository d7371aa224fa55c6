SPECIFICATION Spec
CONSTANTS
  Menus <- MCMenus
  Main = "init"
  NoFile = NoFile
  Versions <- MCVersions
  Tags <- MCTags
  MaxLevel = 4
  MaxItems = 10
  ScreenItems = 3
  HaveConsole = TRUE
  Faults = {"tag"}
INVARIANT MenuTrue
INVARIANT ChoicesSafe
PROPERTY BackRestores
