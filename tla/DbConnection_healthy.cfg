SPECIFICATION FairSpec
CONSTANTS
    Threads = {t1, t2, t3}
    Slots = {s1, s2}
    Users = {ana}
    Locales = {ptBR}
    DefaultLocale = ptBR
    NoUser = NoUser
    NoLocale = NoLocale
    SessionUser = mg
    NoSlot = NoSlot
    Faults = {}
INVARIANT NoLeak
PROPERTY PoolRecovers
