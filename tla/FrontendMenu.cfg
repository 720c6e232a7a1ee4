\* The menu with its boxes and the file browser on a small file system.  As in the
\* program the panel and the settings show all their rows, and the longest list,
\* "General", scrolls.
SPECIFICATION Spec
CONSTANTS
    Drives       <- MCDrives
    HomePath     <- MCHome
    Folders      <- MCFolders
    Files        <- MCFiles
    MaxVisible   = 4
    MenuVisible  = 7
    Below        = 1
    Fit          = 7
    GeneralKeys  <- MCGeneralKeys
    InputKeys    <- MCInputKeys
    RowSize      = 2
    DefaultValue <- MCDefaultValue
    MaxHistory   = 1
    None         = None
INVARIANTS LayersSound CursorShown MenuShowsSettings
PROPERTIES OnlyWhatWasAsked BackLeadsOut
CHECK_DEADLOCK FALSE
