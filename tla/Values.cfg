SPECIFICATION Spec
CONSTANTS
    Texts <- MCTexts
    Patterns <- MCPatterns
    MaxText = 6
    MIN = 0
    MAX = 3
    Case_sensitive = FALSE
    Accent_sensitive = FALSE
    Codes <- MCCodes
    tolower <- MCtolower
    copy_remove_accent <- MCcopy_remove_accent
    Letters = {"a", "n"}
    DigitChars = {"1"}
    EmailTexts <- MCEmailTexts
    NameParts <- MCNameParts
    LocalMax = 3
    DomainMax = 6
    LabelMax = 3
    PartMax = 5
    NullText <- MCNullText
    NullTexts <- MCNullTexts
    NoMatch = NoMatch
    Base = 2
    Width = 2
    MAX_BYTES = 10
    NoName = NoName
    MaxTries = 3
    NameLength = 2
    Extension <- MCExtension
    CustomExt <- MCCustomExt
CHECK_DEADLOCK FALSE
INVARIANTS
    TextExact
    StringsExact
    IcuExact
    EmailsExact
    AlgorithmsExact
PROPERTIES
    ReplaceEnds
