------------------------------- MODULE UserAgent -------------------------------
(***************************************************************************)
(* What internal/track reads from a User-Agent header.  A header is a       *)
(* sequence of tokens: the parentheses, the parts between them that ";"     *)
(* separates, and the products around them.  A token is the prefix the code *)
(* knows it by and a version, a sequence of numbers that dots separate.     *)
(***************************************************************************)
EXTENDS Subsequences, SequencesExt, FiniteSetsExt, TLC

CONSTANTS
    SystemParts,        \* what clients send between the parentheses
    ProductTokens,      \* and around them
    MaxTokens,          \* bound of the model: tokens of a header
    WindowsVersions,    \* the maps of user_agent_lists.go, on such versions
    SafariVersions

Versions == Seq(Nat)

\* "." for a version: the dot of one with no number on either side.
NoNumber == -1
OnlyDot == <<NoNumber, NoNumber>>

ASSUME AgentAssumption ==
    /\ SystemParts \cup ProductTokens \subseteq [prefix : STRING, version : Versions]
    /\ \A v \in DOMAIN WindowsVersions : WindowsVersions[v] \in Versions
    /\ \A v \in DOMAIN SafariVersions : SafariVersions[v] \in Versions

VARIABLE ua     \* the header of a request

Browsers == {"Chrome", "Firefox", "Safari", "Opera", "Edge", "IE"}
OperatingSystems == {"Windows", "Mac", "Linux", "Android", "iOS", "Windows Mobile"}

LeftParen == [prefix |-> "(", version |-> << >>]
RightParen == [prefix |-> ")", version |-> << >>]

\* The version up to the n-th dot (getProductVersion, getOSVersion).
UpToDot(n, version) == SubSeq(version, 1, Min({n + 1, Len(version)}))

Lookup(map, version) == IF version \in DOMAIN map THEN map[version] ELSE << >>

HasPrefix(list, prefix) == \E n \in DOMAIN list : list[n].prefix = prefix

\* The first entry with the prefix.
FindPrefix(list, prefix) == list[SelectInSeq(list, LAMBDA t : t.prefix = prefix)]

--------------------------------------------------------------------------------
(* parseUserAgent *)

filterProductPrefix == {"Mozilla/", "AppleWebKit/", "(KHTML,", "like", "Gecko",
                        "Mobile/", "QtWebEngine/"}

IgnoreProduct(t) == t.prefix \in filterProductPrefix

System ==
    LET start == SelectInSeq(ua, LAMBDA t : t = LeftParen)
        end == SelectInSeq(ua, LAMBDA t : t = RightParen)
    IN  IF start > 0 /\ start < end THEN SubSeq(ua, start + 1, end - 1) ELSE << >>

\* What stands between a right parenthesis and a later left one counts twice.
Products ==
    LET start == SelectInSeq(ua, LAMBDA t : t = LeftParen)
        end == SelectInSeq(ua, LAMBDA t : t = RightParen)
        outside == IF start > 0 /\ end > 0
                   THEN SubSeq(ua, 1, start - 1) \o SubSeq(ua, end + 1, Len(ua))
                   ELSE ua
    IN  Subsequence(outside, {n \in DOMAIN outside : ~IgnoreProduct(outside[n])})

--------------------------------------------------------------------------------
(* getOS *)

WindowsMobilePrefixes == {"Windows Phone", "Windows Mobile"}
MacPrefixes == {"Intel Mac OS X", "PPC Mac OS X"}
iOSPrefixes == {"CPU iPhone OS", "CPU OS"}

\* The parts that end the loop, and what they say.  The digits of a "Windows Mobile"
\* found at "Android" are looked for behind a "/" it does not have, its dot is not.
EndsLoop(sys) == sys.prefix \in WindowsMobilePrefixes \cup MacPrefixes
                                   \cup {"Android"} \cup iOSPrefixes

Found(os, sys) == [os |-> os, version |-> UpToDot(2, sys.version)]

Decided(system, sys) ==
    CASE sys.prefix \in WindowsMobilePrefixes -> Found("Windows Mobile", sys)
      [] sys.prefix \in MacPrefixes -> Found("Mac", sys)
      [] sys.prefix \in iOSPrefixes -> Found("iOS", sys)
      [] OTHER -> IF HasPrefix(system, "Windows Mobile")
                  THEN [os |-> "Windows Mobile",
                        version |-> IF Len(FindPrefix(system, "Windows Mobile").version) > 1
                                    THEN OnlyDot ELSE << >>]
                  ELSE Found("Android", sys)

WindowsVersion(sys) == Lookup(WindowsVersions, UpToDot(1, sys.version))

\* What a loop that came to its end has found: "Windows" and "Linux" do not end it,
\* the last of them counts, and "Linux" leaves the version as it is.
Undecided(system) ==
    LET kernel == SelectLastInSeq(system, LAMBDA t : t.prefix \in {"Windows", "Linux"})
        windows == SelectLastInSeq(system, LAMBDA t : t.prefix = "Windows")
    IN  [os |-> IF kernel > 0 THEN system[kernel].prefix ELSE "",
         version |-> IF windows > 0 THEN WindowsVersion(system[windows]) ELSE << >>]

\* Mutant of GetOS: "Windows" and "Linux" decide when they are there.
GetOSKernelFirst(system) ==
    LET end == SelectInSeq(system, EndsLoop)
    IN  IF end > 0 /\ Undecided(system).os = "" THEN Decided(system, system[end])
        ELSE Undecided(system)

\* The first part that ends the loop decides, whatever came before it.
GetOS(system) ==
    LET end == SelectInSeq(system, EndsLoop)
    IN  IF end > 0 THEN Decided(system, system[end]) ELSE Undecided(system)

--------------------------------------------------------------------------------
(* getBrowser *)

ChromePrefixes == {"CriOS/", "Chromium/"}
EdgePrefixes == {"Edg/", "Edge/", "EdgA/", "EdgiOS/"}
FirefoxPrefixes == {"Firefox/", "FxiOS/"}
OperaPrefixes == {"Opera/", "OPR/"}

\* The products that end the loop, and the browsers they name.
BrowserOf == [p \in ChromePrefixes \cup EdgePrefixes \cup FirefoxPrefixes \cup OperaPrefixes |->
                CASE p \in ChromePrefixes -> "Chrome" [] p \in EdgePrefixes -> "Edge"
                  [] p \in FirefoxPrefixes -> "Firefox" [] p \in OperaPrefixes -> "Opera"]

Browser(name, version) == [browser |-> name, version |-> version]

\* isIE: the version of MSIE or rv, whichever of Trident and MSIE comes first.
IEVersion(system) ==
    IF HasPrefix(system, "MSIE ") THEN FindPrefix(system, "MSIE ").version
    ELSE IF HasPrefix(system, "Trident/") /\ HasPrefix(system, "rv:")
         THEN FindPrefix(system, "rv:").version
         ELSE << >>

SafariVersion(products, safari) ==
    IF HasPrefix(products, "Version/")
    THEN UpToDot(1, FindPrefix(products, "Version/").version)
    ELSE Lookup(SafariVersions, UpToDot(1, safari.version))

\* What is left when no product ended the loop.
ChromeOrSafari(products, os) ==
    LET chrome == SelectLastInSeq(products, LAMBDA t : t.prefix = "Chrome/")
        safari == SelectLastInSeq(products, LAMBDA t : t.prefix = "Safari/")
    IN  IF os \in {"Mac", "iOS"} /\ safari > 0 /\ chrome = 0
        THEN Browser("Safari", SafariVersion(products, products[safari]))
        ELSE IF chrome > 0
             THEN Browser("Chrome", UpToDot(1, products[chrome].version))
             ELSE Browser("", << >>)

\* Mutant of GetBrowser: "Chrome/" ends the loop too.
GetBrowserChromeFirst(products, system, os) ==
    LET brand == BrowserOf @@ [p \in {"Chrome/"} |-> "Chrome"]
        first == SelectInSeq(products, LAMBDA t : t.prefix \in DOMAIN brand)
    IN  IF IEVersion(system) # << >> THEN Browser("IE", IEVersion(system))
        ELSE IF first > 0
             THEN Browser(brand[products[first].prefix],
                          UpToDot(1, products[first].version))
             ELSE ChromeOrSafari(products, os)

GetBrowser(products, system, os) ==
    LET first == SelectInSeq(products, LAMBDA t : t.prefix \in DOMAIN BrowserOf)
    IN  IF IEVersion(system) # << >> THEN Browser("IE", IEVersion(system))
        ELSE IF first > 0
             THEN Browser(BrowserOf[products[first].prefix],
                          UpToDot(1, products[first].version))
             ELSE ChromeOrSafari(products, os)

ParseUserAgent ==
    LET os == GetOS(System)
        browser == GetBrowser(Products, System, os.os)
    IN  [OS |-> os.os, OSVersion |-> os.version,
         Browser |-> browser.browser, BrowserVersion |-> browser.version]

IsDesktop(agent) == agent.OS \in {"Windows", "Mac", "Linux"}

IsMobile(agent) == agent.OS \in {"Android", "iOS", "Windows Mobile"}

--------------------------------------------------------------------------------
(* Every header up to MaxTokens, token by token: parts between parentheses,  *)
(* products elsewhere, and parentheses in any order, closed or not.          *)

AgentInit == ua = << >>

Opened == SelectLastInSeq(ua, LAMBDA t : t = LeftParen)
              > SelectLastInSeq(ua, LAMBDA t : t = RightParen)

Token(t) ==
    /\ Len(ua) < MaxTokens
    /\ t \in SystemParts => Opened
    /\ t \in ProductTokens => ~Opened
    /\ ua' = Append(ua, t)

Tokens == SystemParts \cup ProductTokens \cup {LeftParen, RightParen}

AgentNext == \E t \in Tokens : Token(t)

AgentSpec == AgentInit /\ [][AgentNext]_ua

--------------------------------------------------------------------------------
(* Properties. *)

AgentTypeOK ==
    /\ ua \in Seq(Tokens)
    /\ ParseUserAgent.OS \in OperatingSystems \cup {""}
    /\ ParseUserAgent.OSVersion \in Versions \cup {OnlyDot}
    /\ ParseUserAgent.Browser \in Browsers \cup {""}
    /\ ParseUserAgent.BrowserVersion \in Versions

\* A browser that also names those it imitates is taken for itself, wherever its
\* product stands: Edge and Opera send Chrome's and Safari's (getBrowser).
ImitatorIsItself ==
    LET naming == {t \in ToSet(Products) : t.prefix \in DOMAIN BrowserOf}
        brands == {BrowserOf[t.prefix] : t \in naming}
    IN  IEVersion(System) = << >> /\ Cardinality(brands) = 1 =>
            ParseUserAgent.Browser \in brands

\* A device whose operating system is none but a mobile one is not counted as a
\* desktop, though Android says it is a Linux and a Windows phone a Windows, in
\* whatever order (getOS).
MobileIsNotDesktop ==
    LET prefixes == {t.prefix : t \in ToSet(System)}
    IN  /\ prefixes \cap (WindowsMobilePrefixes \cup iOSPrefixes \cup {"Android"}) # {}
        /\ prefixes \cap MacPrefixes = {}
        => IsMobile(ParseUserAgent) /\ ~IsDesktop(ParseUserAgent)
================================================================================
