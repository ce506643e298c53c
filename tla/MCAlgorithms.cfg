SPECIFICATION Spec
CONSTANTS
    Length = 6
    MaxUint = 255
    Ids <- MCIds
    Blank = Blank
    Chars <- MCChars
    Bytes <- MCBytes
    Dna <- MCDna
    Alphanum <- MCAlphanum
    EscapeOf <- MCEscapeOf
    Wishes <- MCWishes
    MaxStringEditLength = 2
    MaxSuggestedStringLength = 5
    MaxCalls = 2
    SystemParts <- MCSystemParts
    ProductTokens <- MCProductTokens
    MaxTokens = 5
    WindowsVersions <- MCWindowsVersions
    SafariVersions <- MCSafariVersions
INVARIANTS
    TypeOK
    RoundTrip
    SingleByteNeverPanics
    NameIsUsable
    StaysSimilar
    ImitatorIsItself
    MobileIsNotDesktop
CHECK_DEADLOCK FALSE
