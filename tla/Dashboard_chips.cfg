SPECIFICATION PanelSpec
CONSTANTS
    Mappings = {memo, todo}
    Labels = {HotSync, Backup}
    NoLabel = NoLabel
    MaxRuns = 2
    MaxConnects = 2
PROPERTIES ChipsTell
