SPECIFICATION Spec
CONSTANTS
    Threads = {t1, t2}
    Slots = {s1, s2}
    Users = {ana}
    Locales = {ptBR}
    DefaultLocale = ptBR
    NoUser = NoUser
    NoLocale = NoLocale
    SessionUser = mg
    NoSlot = NoSlot
    Faults = {"broken"}
CHECK_DEADLOCK FALSE
INVARIANT NoLeak
