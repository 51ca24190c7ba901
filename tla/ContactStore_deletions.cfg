SPECIFICATION QuerySpec
CONSTANTS
    MaxIds <- Everything
    MaxRows = 5
    Values = {v1}
    KeyValues = {k1}
    Categories = {All}
    All = All
    Locales = {ptBR}
    DefaultLocale = ptBR
    None = None
    NoRow = NoRow
    MaxUnder = 4
    MaxRefresh = 0
VIEW Stored
CHECK_DEADLOCK FALSE
INVARIANTS
    RefIntegrity
    WriteBackNeutral
    SearchExact
    OwnerAnswers
PROPERTIES
    AuditedChanges
    EntitiesSurvive
