SPECIFICATION Spec
CONSTANTS
    Threads = {t1, t2, t3}
    Slots = {s1, s2}
    Users = {ana}
    Locales = {ptBR, enUS}
    DefaultLocale = ptBR
    NoUser = NoUser
    NoLocale = NoLocale
    SessionUser = mg
    NoSlot = NoSlot
    Faults = {"broken"}
SYMMETRY Symmetry
CHECK_DEADLOCK FALSE
INVARIANTS
    SlotExclusive
    LeakOnlyLost
    AuditAttribution
    LocaleServed
PROPERTY ImplementsContract
