SPECIFICATION QuerySpec
CONSTANTS
    MaxIds <- Forest
    MaxRows = 6
    Values = {v1}
    KeyValues = {k1}
    Categories = {All}
    All = All
    Locales = {ptBR, enUS}
    DefaultLocale = ptBR
    None = None
    NoRow = NoRow
    MaxUnder = 3
    MaxRefresh = 2
VIEW Stored
CHECK_DEADLOCK FALSE
INVARIANTS
    StoreInv
    HierarchySound
PROPERTIES
    ViewsNotOlder
