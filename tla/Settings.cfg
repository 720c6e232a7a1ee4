\* The settings: a death in any write, a game that is loaded, reads its options
\* and is unloaded while the menu changes them, and three games for a history
\* of two.
SPECIFICATION Spec
CONSTANTS
    FrontendRows = {}
    CoreToggles = {"dosbox_pure_cycles", "dosbox_pure_menu_time"}
    CoreValues  = {"auto", "max"}
    CoreDefault = "auto"
    Games       = {a, b, c}
    MaxHistory  = 2
    None        = None
    Old         = Old
    Cut         = Cut
SYMMETRY GameSymmetry
INVARIANTS HistorySound CoreGivenSettings DiskHoldsSettings
