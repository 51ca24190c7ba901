SPECIFICATION TrailSpec
CONSTANTS
    Threads = {t1, t2}
    Slots = {s1, s2}
    Users = {ana}
    Locales = {ptBR}
    DefaultLocale = ptBR
    NoUser = NoUser
    NoLocale = NoLocale
    SessionUser = mg
    NoSlot = NoSlot
    Faults = {}
    Values = {v1}
    NoRow = NoRow
    NoStatement = NoStatement
    MaxClock = 1
    MaxEntries = 3
SYMMETRY Symmetry
INVARIANT UpdatedByLastChange
