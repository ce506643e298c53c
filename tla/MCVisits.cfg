SPECIFICATION Spec
CONSTANTS
    Users = {alice, bob}
    Codes = {google, golang}
    Requests <- MCRequests
    MinVersion <- MCMinVersion
    MaxVisits = 3
    MaxDay = 2
    SystemParts <- MCSystemParts
    ProductTokens <- MCProductTokens
    MaxTokens = 4
    WindowsVersions <- MCWindowsVersions
    SafariVersions <- MCSafariVersions
INVARIANTS
    VisitsAreCounted
