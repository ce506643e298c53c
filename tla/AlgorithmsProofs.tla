---------------------------- MODULE AlgorithmsProofs ----------------------------
(***************************************************************************)
(* Theorems about the pure algorithms: Base62 for every alphabet and every  *)
(* width of the ids, UserAgent for headers of any length and of any tokens, *)
(* Suggestion for every set of characters and any bound on the edits.       *)
(***************************************************************************)
EXTENDS Algorithms, SequenceLemmas, TLAPS

--------------------------------------------------------------------------------
(* Base62. *)

\* Division with remainder, as the loop of Encode uses it.
LEMMA DivMod ==
    ASSUME NEW n \in Nat, NEW l \in Nat, l > 1
    PROVE  /\ n % l \in 0..l-1
           /\ n \div l \in 0..n
           /\ n = (n % l) + l * (n \div l)
OBVIOUS

\* One symbol moves from what is left to what is decoded.
LEMMA Carry ==
    ASSUME NEW p \in Nat, NEW d \in Nat, NEW l \in Nat, NEW q \in Nat
    PROVE  p * (d + l * q) = d * p + (p * l) * q
OBVIOUS

\* Products of numbers are numbers.
LEMMA Product ==
    ASSUME NEW a \in Nat, NEW b \in Nat
    PROVE  a * b \in Nat
OBVIOUS

\* A part of a sum is no larger than the sum.
LEMMA PartOfSum ==
    ASSUME NEW a \in Nat, NEW b \in Nat, NEW c \in Nat, NEW m \in Nat,
           a + b + c \in 0..m
    PROVE  /\ a + b \in 0..m
           /\ (a + b) % (m + 1) = a + b
OBVIOUS

--------------------------------------------------------------------------------
(* The inductive invariant.  The history says what every written symbol was *)
(* taken from, and DecodeExact that nothing is lost on the way back.        *)

\* Every symbol is the remainder of what was left before it.
SymbolsSplit ==
    /\ Len(quotients) = Len(encoded)
    /\ \A n \in DOMAIN encoded : quotients[n] = encoded[n] + Length * Left(n)

\* What the locals of Encode and Decode are at each stage.
StagesKept ==
    /\ stage \in {"idle", "encode", "encoded"} => i = 0 /\ place = 1 /\ decoded = 0
    /\ stage = "idle" => id = 0 /\ encoded = << >> /\ number = 0
    /\ stage \in {"encoded", "decode", "decoded"} => number = 0
    /\ stage = "decoded" => i = Len(encoded)

IInv == Base62TypeOK /\ SymbolsSplit /\ StagesKept /\ DecodeExact

\* What is left is a number.
LEMMA LeftIsNumber ==
    ASSUME quotients \in Seq(0..MaxUint), number \in 0..MaxUint, NEW n \in Nat
    PROVE  Left(n) \in Nat
<1>1. CASE n < Len(quotients)
    <2>1. n + 1 \in 1..Len(quotients)
        BY <1>1
    <2>2. quotients[n+1] \in 0..MaxUint
        BY <2>1, ElementOfSeq, Zenon
    <2> QED
        BY <1>1, <2>2 DEF Left
<1>2. CASE ~(n < Len(quotients))
    BY <1>2 DEF Left
<1> QED
    BY <1>1, <1>2

\* The machine begins with nothing encoded.
LEMMA InitInvariant == Base62Init => IInv
<1> SUFFICES ASSUME Base62Init PROVE IInv
    OBVIOUS
<1> USE Base62Assumption DEF Base62Init
<1>1. Base62TypeOK
    BY DEF Base62TypeOK
<1>2. SymbolsSplit /\ StagesKept /\ DecodeExact
    BY DEF SymbolsSplit, StagesKept, DecodeExact, Left
<1> QED
    BY <1>1, <1>2 DEF IInv

\* Encode begins with the id it was given.
LEMMA EncodePreserves ==
    ASSUME IInv, NEW n \in Ids, Encode(n)
    PROVE  IInv'
<1> USE Base62Assumption DEF Encode
<1>1. Base62TypeOK'
    BY DEF IInv, Base62TypeOK
<1>2. (SymbolsSplit /\ StagesKept)'
    BY DEF SymbolsSplit, StagesKept
<1>3. DecodeExact'
    BY <1>1 DEF DecodeExact, Left, Base62TypeOK
<1> QED
    BY <1>1, <1>2, <1>3 DEF IInv

\* A pass of the loop of Encode splits what is left once more.
LEMMA EncodeDigitPreserves ==
    ASSUME IInv, EncodeDigit
    PROVE  IInv'
<1> USE Base62Assumption DEF EncodeDigit
<1>1. /\ number \in Nat /\ number \in 0..MaxUint
      /\ encoded \in Seq(0..Length-1)
      /\ quotients \in Seq(0..MaxUint)
      /\ Len(quotients) = Len(encoded)
    BY DEF IInv, Base62TypeOK, SymbolsSplit
<1>2. /\ number % Length \in 0..Length-1
      /\ number \div Length \in 0..number
      /\ number = (number % Length) + Length * (number \div Length)
    BY <1>1, DivMod
<1>3. i = 0 /\ place = 1 /\ decoded = 0
    BY DEF IInv, StagesKept
<1>4. Base62TypeOK'
    BY <1>1, <1>2, <1>3 DEF IInv, Base62TypeOK
<1>5. SymbolsSplit'
    <2>1. Len(quotients') = Len(encoded')
        BY <1>1
    <2>2. ASSUME NEW n \in DOMAIN encoded'
          PROVE  quotients'[n] = encoded'[n] + Length * Left(n)'
        <3>1. n \in 1..Len(encoded) + 1
            BY <1>1
        <3>2. CASE n = Len(encoded) + 1
            BY <1>1, <1>2, <3>2 DEF Left
        <3>3. CASE n \in 1..Len(encoded)
            <4>1. Left(n)' = Left(n)
                BY <1>1, <3>3 DEF Left
            <4>2. quotients'[n] = quotients[n] /\ encoded'[n] = encoded[n]
                BY <1>1, <3>3
            <4>3. quotients[n] = encoded[n] + Length * Left(n)
                BY <1>1, <3>3 DEF IInv, SymbolsSplit
            <4> QED
                BY <4>1, <4>2, <4>3
        <3> QED
            BY <3>1, <3>2, <3>3, <1>1
    <2> QED
        BY <2>1, <2>2 DEF SymbolsSplit
<1>6. StagesKept'
    BY <1>3 DEF IInv, StagesKept
<1>7. DecodeExact'
    <2>1. Left(0)' = Left(0)
        BY <1>1 DEF Left
    <2> QED
        BY <2>1, <1>3 DEF IInv, DecodeExact
<1> QED
    BY <1>4, <1>5, <1>6, <1>7 DEF IInv

\* Neither the end of a loop nor the call of Decode changes a number.
LEMMA TurnPreserves ==
    ASSUME IInv, EncodeEnd \/ Decode \/ DecodeEnd
    PROVE  IInv'
<1> USE DEF EncodeEnd, Decode, DecodeEnd
<1>1. Base62TypeOK'
    BY DEF IInv, Base62TypeOK
<1>2. SymbolsSplit' /\ DecodeExact'
    BY DEF IInv, SymbolsSplit, DecodeExact, Left
<1>3. StagesKept'
    BY DEF IInv, StagesKept
<1> QED
    BY <1>1, <1>2, <1>3 DEF IInv

\* A pass of the loop of Decode adds one symbol, and cannot overflow.
LEMMA DecodeSymbolPreserves ==
    ASSUME IInv, DecodeSymbol
    PROVE  IInv'
<1> USE Base62Assumption DEF DecodeSymbol
<1> DEFINE d == encoded[i+1]
           q == Left(i+1)
<1>1. /\ id \in 0..MaxUint /\ decoded \in 0..MaxUint /\ place \in Nat
      /\ number \in 0..MaxUint
      /\ encoded \in Seq(0..Length-1) /\ quotients \in Seq(0..MaxUint)
      /\ Len(quotients) = Len(encoded)
      /\ i \in Nat /\ i + 1 \in 1..Len(encoded)
    BY DEF IInv, Base62TypeOK, SymbolsSplit
<1>2. d \in Nat /\ q \in Nat
    <2>1. encoded[i+1] \in 0..Length-1
        BY <1>1
    <2>2. Left(i+1) \in Nat
        BY <1>1, LeftIsNumber
    <2> QED
        BY <2>1, <2>2
<1>3. Left(i) = d + Length * q
    <2>1. Left(i) = quotients[i+1]
        BY <1>1 DEF Left
    <2>2. \A n \in DOMAIN encoded : quotients[n] = encoded[n] + Length * Left(n)
        BY DEF IInv, SymbolsSplit
    <2>3. i + 1 \in DOMAIN encoded
        BY <1>1
    <2>4. quotients[i+1] = d + Length * q
        BY <2>2, <2>3, Zenon
    <2> QED
        BY <2>1, <2>4
<1> HIDE DEF d, q
<1>4. decoded + place * (d + Length * q) = id
    BY <1>3 DEF IInv, DecodeExact
<1>5. /\ d * place \in Nat /\ place * Length \in Nat
      /\ (place * Length) * q \in Nat
    BY <1>1, <1>2, Product
<1>6. decoded + d * place + (place * Length) * q = id
    BY <1>1, <1>2, <1>4, <1>5, Carry
<1>7. decoded' = decoded + d * place /\ decoded' \in 0..MaxUint
    <2>1. decoded + d * place + (place * Length) * q \in 0..MaxUint
        BY <1>1, <1>6, Zenon
    <2>2. decoded \in Nat /\ MaxUint \in Nat
        BY <1>1
    <2>3. /\ decoded + d * place \in 0..MaxUint
          /\ (decoded + d * place) % (MaxUint + 1) = decoded + d * place
        BY <1>5, <2>1, <2>2, PartOfSum, Zenon
    <2>4. decoded' = (decoded + d * place) % (MaxUint + 1)
        BY DEF d
    <2> QED
        BY <2>3, <2>4, Zenon
<1>8. Base62TypeOK'
    <2>1. place' \in Nat
        BY <1>5
    <2>2. i' \in 0..Len(encoded')
        BY <1>1
    <2> QED
        BY <1>7, <2>1, <2>2 DEF IInv, Base62TypeOK
<1>9. SymbolsSplit' /\ StagesKept'
    BY DEF IInv, SymbolsSplit, StagesKept, Left
<1>10. DecodeExact'
    <2>1. Left(i)' = q
        BY DEF q, Left
    <2> QED
        BY <2>1, <1>6, <1>7 DEF DecodeExact
<1> QED
    BY <1>8, <1>9, <1>10 DEF IInv

\* Every step keeps the invariant.
LEMMA NextInvariant == IInv /\ [Base62Next]_base62Vars => IInv'
<1> SUFFICES ASSUME IInv, [Base62Next]_base62Vars PROVE IInv'
    OBVIOUS
<1>1. CASE \E n \in Ids : Encode(n)
    BY <1>1, EncodePreserves
<1>2. CASE EncodeDigit
    BY <1>2, EncodeDigitPreserves
<1>3. CASE EncodeEnd \/ Decode \/ DecodeEnd
    BY <1>3, TurnPreserves
<1>4. CASE DecodeSymbol
    BY <1>4, DecodeSymbolPreserves
<1>5. CASE UNCHANGED base62Vars
    BY <1>5 DEF IInv, Base62TypeOK, SymbolsSplit, StagesKept, DecodeExact, Left,
                base62Vars
<1> QED
    BY <1>1, <1>2, <1>3, <1>4, <1>5 DEF Base62Next

\* When Decode ends there is nothing left.
LEMMA InvariantGivesRoundTrip == IInv => RoundTrip
<1> SUFFICES ASSUME IInv, stage = "decoded" PROVE decoded = id
    BY DEF RoundTrip
<1>1. i = Len(encoded) /\ number = 0 /\ place \in Nat /\ decoded \in Nat
    BY DEF IInv, StagesKept, Base62TypeOK
<1>2. Left(i) = 0
    BY <1>1 DEF IInv, SymbolsSplit, Left, Base62TypeOK
<1>3. place * 0 = 0
    BY <1>1
<1> QED
    BY <1>1, <1>2, <1>3 DEF IInv, DecodeExact

\* Decode gives back the id that was encoded, for any alphabet of two symbols or
\* more and any width: base62.Encode never renders two ids alike.
THEOREM RoundTrips == Base62Spec => [](Base62TypeOK /\ DecodeExact /\ RoundTrip)
<1>1. IInv => Base62TypeOK /\ DecodeExact /\ RoundTrip
    BY InvariantGivesRoundTrip DEF IInv
<1> QED
    BY InitInvariant, NextInvariant, <1>1, PTL DEF Base62Spec

--------------------------------------------------------------------------------
(* UserAgent. *)

\* A header is a sequence of tokens, however long.
IsHeader == ua \in Seq(Tokens)

\* Where something is, its first and its last place are positions of the sequence
\* that have it; where nothing is they are 0.
LEMMA SelectFacts ==
    ASSUME NEW S, NEW s \in Seq(S), NEW K \in SUBSET DOMAIN s,
           NEW first, first = IF K # {} THEN Min(K) ELSE 0,
           NEW last, last = IF K # {} THEN Max(K) ELSE 0
    PROVE  /\ first \in 0..Len(s) /\ last \in 0..Len(s)
           /\ K # {} => first \in K /\ first > 0 /\ last \in K /\ last > 0
           /\ \A p \in K : first <= p /\ p <= last
<1>1. Len(s) \in Nat /\ DOMAIN s = 1..Len(s)
  OBVIOUS
<1>2. K # {} => /\ Min(K) \in K /\ \A p \in K : Min(K) <= p
                /\ Max(K) \in K /\ \A p \in K : Max(K) >= p
  BY <1>1, FirstAndLast
<1>. QED BY <1>1, <1>2

\* The parts between the parentheses, and the products around them.
LEMMA Parsed ==
    ASSUME IsHeader
    PROVE  System \in Seq(Tokens) /\ Products \in Seq(Tokens)
<1>. DEFINE start == SelectInSeq(ua, LAMBDA t : t = LeftParen)
            end == SelectInSeq(ua, LAMBDA t : t = RightParen)
            outside == IF start > 0 /\ end > 0
                       THEN SubSeq(ua, 1, start - 1) \o SubSeq(ua, end + 1, Len(ua))
                       ELSE ua
            kept == {n \in DOMAIN outside : ~IgnoreProduct(outside[n])}
<1>1. Len(ua) \in Nat /\ DOMAIN ua = 1..Len(ua) /\ ua \in Seq(Tokens)
  BY DEF IsHeader
<1>2. start \in 0..Len(ua) /\ end \in 0..Len(ua)
  <2>. DEFINE lefts == {n \in 1..Len(ua) : ua[n] = LeftParen}
              rights == {n \in 1..Len(ua) : ua[n] = RightParen}
  <2>1. /\ start = IF lefts # {} THEN Min(lefts) ELSE 0
        /\ end = IF rights # {} THEN Min(rights) ELSE 0
    BY DEF SelectInSeq
  <2>2. lefts \in SUBSET DOMAIN ua /\ rights \in SUBSET DOMAIN ua
    BY <1>1
  <2>. HIDE DEF start, end, lefts, rights
  <2>. QED BY <1>1, <2>1, <2>2, SelectFacts
<1>. HIDE DEF start, end
<1>3. System \in Seq(Tokens)
  <2>1. System = IF start > 0 /\ start < end THEN SubSeq(ua, start + 1, end - 1) ELSE << >>
    BY DEF System, start, end
  <2>2. start > 0 /\ start < end => SubSeq(ua, start + 1, end - 1) \in Seq(Tokens)
    BY <1>1, <1>2
  <2>. QED BY <2>1, <2>2
<1>4. outside \in Seq(Tokens)
  <2>1. CASE start > 0 /\ end > 0
    <3>1. start - 1 \in 0..Len(ua) /\ end + 1 \in 1..(Len(ua) + 1)
      BY <1>1, <1>2, <2>1
    <3>2. SubSeq(ua, 1, start - 1) \in Seq(Tokens) /\ SubSeq(ua, end + 1, Len(ua)) \in Seq(Tokens)
      BY <1>1, <3>1
    <3>. QED BY <2>1, <3>2
  <2>. QED BY <1>1, <2>1
<1>. HIDE DEF outside
<1>5. Subsequence(outside, kept) \in Seq(Tokens)
  <2>1. kept \in SUBSET DOMAIN outside /\ DOMAIN outside = 1..Len(outside)
    BY <1>4
  <2>2. {outside[p] : p \in kept} \in SUBSET Tokens
    BY <1>4, <2>1
  <2>. HIDE DEF kept
  <2>3. Subsequence(outside, kept) \in Seq({outside[p] : p \in kept})
    BY <1>4, <2>1, SubsequenceFacts
  <2>. QED BY <2>2, <2>3
<1>6. Products \in Seq(Tokens)
  BY <1>5 DEF Products, kept, outside, start, end
<1>. QED BY <1>3, <1>6

LEMMA AgentBegins == AgentInit => IsHeader
BY DEF AgentInit, IsHeader

LEMMA HeaderStep == IsHeader /\ [AgentNext]_ua => IsHeader'
BY DEF IsHeader, AgentNext, Token

LEMMA HeaderInductive == AgentSpec => []IsHeader
BY AgentBegins, HeaderStep, PTL DEF AgentSpec

\* The browser that alone ends the loop is the one that is found, wherever its
\* product stands among those it imitates.
THEOREM ImitatorsAreKnown == AgentSpec => []ImitatorIsItself
<1>1. IsHeader => ImitatorIsItself
  <2>. SUFFICES ASSUME IsHeader PROVE ImitatorIsItself
    OBVIOUS
  <2>. DEFINE naming == {t \in ToSet(Products) : t.prefix \in DOMAIN BrowserOf}
              brands == {BrowserOf[t.prefix] : t \in naming}
              places == {n \in 1..Len(Products) : Products[n].prefix \in DOMAIN BrowserOf}
              first == SelectInSeq(Products, LAMBDA t : t.prefix \in DOMAIN BrowserOf)
  <2>. SUFFICES ASSUME IEVersion(System) = << >>, Cardinality(brands) = 1
                PROVE  ParseUserAgent.Browser \in brands
    BY DEF ImitatorIsItself
  <2>1. Products \in Seq(Tokens) /\ DOMAIN Products = 1..Len(Products)
    BY Parsed
  <2>2. naming # {}
    <3>1. brands # {}
      BY FS_EmptySet
    <3>. QED BY <3>1
  <2>3. places # {}
    BY <2>1, <2>2 DEF ToSet
  <2>4. first \in places /\ first > 0
    <3>1. places \in SUBSET DOMAIN Products /\ first = IF places # {} THEN Min(places) ELSE 0
      BY <2>1 DEF SelectInSeq
    <3>. HIDE DEF places, first
    <3>. QED BY <2>1, <2>3, <3>1, SelectFacts
  <2>5. BrowserOf[Products[first].prefix] \in brands
    BY <2>1, <2>4 DEF ToSet
  <2>6. ParseUserAgent.Browser = BrowserOf[Products[first].prefix]
    BY <2>4 DEF ParseUserAgent, GetBrowser, Browser
  <2>. QED BY <2>5, <2>6
<1>. QED BY <1>1, HeaderInductive, PTL

\* The first part that ends the loop is of a mobile system, if one of them is there
\* and no Mac is.
THEOREM MobilesAreKnown == AgentSpec => []MobileIsNotDesktop
<1>1. IsHeader => MobileIsNotDesktop
  <2>. SUFFICES ASSUME IsHeader PROVE MobileIsNotDesktop
    OBVIOUS
  <2>. DEFINE prefixes == {t.prefix : t \in ToSet(System)}
              places == {n \in 1..Len(System) : EndsLoop(System[n])}
              end == SelectInSeq(System, EndsLoop)
  <2>. SUFFICES ASSUME prefixes \cap (WindowsMobilePrefixes \cup iOSPrefixes \cup {"Android"}) # {},
                       prefixes \cap MacPrefixes = {}
                PROVE  IsMobile(ParseUserAgent) /\ ~IsDesktop(ParseUserAgent)
    BY DEF MobileIsNotDesktop
  <2>1. System \in Seq(Tokens) /\ DOMAIN System = 1..Len(System)
    BY Parsed
  <2>2. places # {}
    BY <2>1 DEF ToSet, EndsLoop
  <2>3. end \in places /\ end > 0
    <3>1. places \in SUBSET DOMAIN System /\ end = IF places # {} THEN Min(places) ELSE 0
      BY <2>1 DEF SelectInSeq
    <3>. HIDE DEF places, end
    <3>. QED BY <2>1, <2>2, <3>1, SelectFacts
  <2>4. System[end].prefix \notin MacPrefixes /\ EndsLoop(System[end])
    BY <2>1, <2>3 DEF ToSet
  <2>5. ParseUserAgent.OS = Decided(System, System[end]).os
    BY <2>3 DEF ParseUserAgent, GetOS
  <2>6. Decided(System, System[end]).os \in {"Windows Mobile", "iOS", "Android"}
    BY <2>4 DEF Decided, Found, EndsLoop
  <2>. QED BY <2>5, <2>6 DEF IsMobile, IsDesktop
<1>. QED BY <1>1, HeaderInductive, PTL

--------------------------------------------------------------------------------
(* Suggestion: what its operators return. *)

OneByte == {c \in Chars : Bytes[c] = 1}

\* The sizes of the prefixes are what their definition says.
LEMMA PrefixSizesFacts ==
    ASSUME NEW s \in Seq(Chars)
    PROVE  /\ PrefixSizes(s) \in [0..Len(s) -> Nat]
           /\ PrefixSizes(s)[0] = 0
           /\ \A n \in 1..Len(s) : PrefixSizes(s)[n] = PrefixSizes(s)[n - 1] + Bytes[s[n]]
<1>. DEFINE Rec(f) == [n \in 0..Len(s) |-> IF n = 0 THEN 0 ELSE f[n - 1] + Bytes[s[n]]]
            G == [n \in 1..Len(s) |-> [d \in Nat |-> d + Bytes[s[n]]]]
<1>1. Len(s) \in Nat /\ \A n \in 1..Len(s) : Bytes[s[n]] \in Nat
  BY SuggestionAssumption
<1>2. \E f \in [0..Len(s) -> Nat] : f = Rec(f)
  <2>1. G \in Steps(Len(s), Nat) /\ 0 \in Nat
    BY <1>1 DEF Steps
  <2>2. PICK f \in [0..Len(s) -> Nat] : Follows(f, Len(s), 0, G)
    <3>. HIDE DEF G
    <3>. QED BY <1>1, <2>1, Recursion
  <2>3. f[0] = 0 /\ \A n \in 1..Len(s) : f[n] = f[n - 1] + Bytes[s[n]]
    <3>1. ASSUME NEW n \in 1..Len(s) PROVE f[n] = f[n - 1] + Bytes[s[n]]
      <4>1. f[n - 1] \in Nat
        <5>1. n - 1 \in 0..Len(s)
          BY <1>1
        <5>. QED BY <5>1
      <4>2. f[n] = G[n][f[n - 1]] /\ G[n] = [d \in Nat |-> d + Bytes[s[n]]]
        BY <1>1, <2>2 DEF Follows
      <4>. QED BY <4>1, <4>2
    <3>. QED BY <2>2, <3>1 DEF Follows
  <2>4. f = Rec(f)
    BY <1>1, <2>3
  <2>. HIDE DEF Rec
  <2>. QED BY <2>4
<1>3. PrefixSizes(s) = Rec(PrefixSizes(s))
  <2>1. PrefixSizes(s) = CHOOSE f : f = Rec(f)
    BY DEF PrefixSizes
  <2>. HIDE DEF Rec
  <2>. QED BY <1>2, <2>1
<1>. DEFINE size == PrefixSizes(s)
<1>. HIDE DEF size
<1>4. size[0] = 0 /\ \A n \in 1..Len(s) : size[n] = size[n - 1] + Bytes[s[n]]
  BY <1>1, <1>3 DEF size
<1>5. size \in [0..Len(s) -> Nat]
  <2>. DEFINE U == {n \in 0..Len(s) : size[n] \in Nat}
  <2>1. U = 0..Len(s)
    <3>1. 0 \in U /\ U \in SUBSET (0..Len(s))
      BY <1>1, <1>4
    <3>2. \A n \in U : n < Len(s) => n + 1 \in U
      BY <1>1, <1>4
    <3>. HIDE DEF U
    <3>. QED BY <1>1, <3>1, <3>2, FromZeroOn
  <2>2. size = [n \in 0..Len(s) |-> size[n]]
    BY <1>3 DEF size
  <2>. QED BY <2>1, <2>2
<1>. QED BY <1>4, <1>5 DEF size

\* A text has as many bytes as characters if each has one, and never fewer.
LEMMA SizeFacts ==
    ASSUME NEW s \in Seq(Chars)
    PROVE  /\ Size(s) \in Nat /\ Size(s) >= Len(s)
           /\ SingleByte(s) => Size(s) = Len(s)
<1>. DEFINE size == PrefixSizes(s)
            U == {n \in 0..Len(s) : size[n] >= n /\ (SingleByte(s) => size[n] = n)}
<1>1. /\ Len(s) \in Nat /\ size \in [0..Len(s) -> Nat] /\ size[0] = 0
      /\ \A n \in 1..Len(s) : size[n] = size[n - 1] + Bytes[s[n]]
      /\ \A n \in 1..Len(s) : Bytes[s[n]] \in Nat \ {0}
  BY PrefixSizesFacts, SuggestionAssumption
<1>. HIDE DEF size
<1>2. U = 0..Len(s)
  <2>1. 0 \in U /\ U \in SUBSET (0..Len(s))
    BY <1>1
  <2>2. \A n \in U : n < Len(s) => n + 1 \in U
    BY <1>1 DEF SingleByte
  <2>. HIDE DEF U
  <2>. QED BY <1>1, <2>1, <2>2, FromZeroOn
<1>3. Len(s) \in U
  <2>. HIDE DEF U
  <2>. QED BY <1>1, <1>2
<1>. QED BY <1>1, <1>3 DEF Size, size

\* Text that is added adds a byte for each character at least.
LEMMA SizeOfJoined ==
    ASSUME NEW s \in Seq(Chars), NEW t \in Seq(Chars)
    PROVE  Size(s \o t) >= Size(s) + Len(t)
<1>. DEFINE st == s \o t
            size == PrefixSizes(st)
            U == {n \in 0..Len(st) :
                    IF n <= Len(s) THEN size[n] = PrefixSizes(s)[n]
                    ELSE size[n] >= PrefixSizes(s)[Len(s)] + (n - Len(s))}
<1>1. /\ st \in Seq(Chars) /\ Len(s) \in Nat /\ Len(t) \in Nat /\ Len(st) = Len(s) + Len(t)
      /\ \A n \in 1..Len(s) : st[n] = s[n]
  OBVIOUS
<1>. HIDE DEF st
<1>2. /\ size \in [0..Len(st) -> Nat] /\ size[0] = 0
      /\ \A n \in 1..Len(st) : size[n] = size[n - 1] + Bytes[st[n]] /\ Bytes[st[n]] \in Nat \ {0}
  <2>1. \A n \in 1..Len(st) : Bytes[st[n]] \in Nat \ {0}
    BY <1>1, SuggestionAssumption
  <2>. HIDE DEF U
  <2>2. /\ size \in [0..Len(st) -> Nat] /\ size[0] = 0
        /\ \A n \in 1..Len(st) : size[n] = size[n - 1] + Bytes[st[n]]
    BY <1>1, PrefixSizesFacts
  <2>. QED BY <2>1, <2>2
<1>3. /\ PrefixSizes(s) \in [0..Len(s) -> Nat] /\ PrefixSizes(s)[0] = 0
      /\ \A n \in 1..Len(s) : PrefixSizes(s)[n] = PrefixSizes(s)[n - 1] + Bytes[s[n]]
  BY PrefixSizesFacts
<1>. HIDE DEF size
<1>4. U = 0..Len(st)
  <2>1. 0 \in U /\ U \in SUBSET (0..Len(st))
    BY <1>1, <1>2, <1>3
  <2>2. ASSUME NEW n \in U, n < Len(st) PROVE n + 1 \in U
    <3>1. n \in 0..Len(st) /\ n + 1 \in 1..Len(st)
      BY <1>1, <2>2
    <3>2. size[n + 1] = size[n] + Bytes[st[n + 1]] /\ Bytes[st[n + 1]] \in Nat \ {0}
      BY <1>2, <3>1
    <3>3. CASE n < Len(s)
      <4>1. n + 1 \in 1..Len(s) /\ st[n + 1] = s[n + 1]
        BY <1>1, <3>1, <3>3
      <4>2. PrefixSizes(s)[n + 1] = PrefixSizes(s)[n] + Bytes[s[n + 1]]
        BY <1>3, <3>1, <4>1
      <4>. QED BY <1>1, <3>1, <3>2, <3>3, <4>1, <4>2
    <3>4. CASE n >= Len(s)
      <4>1. size[n] \in Nat /\ PrefixSizes(s)[Len(s)] \in Nat
        BY <1>1, <1>2, <1>3, <3>1
      <4>. QED BY <1>1, <3>1, <3>2, <3>4, <4>1
    <3>. QED BY <1>1, <3>1, <3>3, <3>4
  <2>. HIDE DEF U
  <2>. QED BY <1>1, <2>1, <2>2, FromZeroOn
<1>5. Len(st) \in U
  <2>. HIDE DEF U
  <2>. QED BY <1>1, <1>4
<1>6. size[Len(st)] \in Nat /\ PrefixSizes(s)[Len(s)] \in Nat
  BY <1>1, <1>2, <1>3
<1>. QED BY <1>1, <1>5, <1>6 DEF Size, size, st

LEMMA SumAtLeast ==
    ASSUME NEW a \in Nat, NEW b \in Nat, NEW c \in Nat, NEW d \in Nat, a >= c, b >= d
    PROVE  a + b >= c + d
OBVIOUS

\* What is escaped has characters of one byte only, and as many as it had bytes or
\* more.
LEMMA EscapeFacts ==
    ASSUME NEW s \in Seq(Chars)
    PROVE  QueryEscape(s) \in Seq(OneByte) /\ Len(QueryEscape(s)) >= Size(s)
<1>. DEFINE D == Seq(OneByte)
            pieces == [n \in DOMAIN s |-> EscapeOf[s[n]]]
            Rec(f) == [n \in 1..Len(pieces) |->
                        IF n = 1 THEN pieces[n] ELSE f[n - 1] \o pieces[n]]
            G == [n \in 1..Len(s) |-> [d \in D |-> d \o pieces[n]]]
            size == PrefixSizes(s)
<1>1. Len(s) \in Nat /\ DOMAIN s = 1..Len(s)
  OBVIOUS
<1>2. /\ size[0] = 0 /\ size \in [0..Len(s) -> Nat]
      /\ \A n \in 1..Len(s) : size[n] = size[n - 1] + Bytes[s[n]]
  BY PrefixSizesFacts
<1>3. /\ Len(pieces) = Len(s)
      /\ \A n \in 1..Len(s) : pieces[n] \in D /\ Len(pieces[n]) >= Bytes[s[n]]
                              /\ Bytes[s[n]] \in Nat
  BY <1>1, SuggestionAssumption DEF OneByte
<1>. HIDE DEF pieces, size
<1>4. CASE Len(s) = 0
  <2>1. QueryEscape(s) = << >>
    <3>1. pieces = << >>
      BY <1>1, <1>4 DEF pieces
    <3>. QED BY <1>3, <1>4, <3>1 DEF QueryEscape, FlattenSeq, pieces
  <2>. QED BY <1>2, <1>4, <2>1 DEF Size, size
<1>5. CASE Len(s) # 0
  <2>1. \E f : f = Rec(f)
    <3>1. G \in Steps(Len(s), D) /\ << >> \in D
      BY <1>3 DEF Steps
    <3>2. PICK g \in [0..Len(s) -> D] : Follows(g, Len(s), << >>, G)
      <4>. HIDE DEF G, D
      <4>. QED BY <1>1, <3>1, Recursion
    <3>. DEFINE h == [n \in 1..Len(s) |-> g[n]]
    <3>3. ASSUME NEW n \in 1..Len(s) PROVE g[n] = g[n - 1] \o pieces[n]
      <4>1. g[n - 1] \in D
        <5>1. n - 1 \in 0..Len(s)
          BY <1>1
        <5>. QED BY <5>1
      <4>2. g[n] = G[n][g[n - 1]] /\ G[n] = [d \in D |-> d \o pieces[n]]
        BY <3>2 DEF Follows
      <4>. QED BY <4>1, <4>2
    <3>4. ASSUME NEW n \in 1..Len(s)
          PROVE  h[n] = IF n = 1 THEN pieces[n] ELSE h[n - 1] \o pieces[n]
      <4>1. CASE n = 1
        <5>1. g[0] = << >> /\ pieces[1] \in D
          BY <1>3, <3>2, <4>1 DEF Follows
        <5>2. g[1] = g[0] \o pieces[1]
          <6>1. 1 \in 1..Len(s) /\ 1 - 1 = 0
            BY <1>1, <4>1
          <6>. HIDE DEF G
          <6>. QED BY <3>3, <6>1
        <5>3. << >> \o pieces[1] = pieces[1]
          BY <5>1
        <5>. QED BY <4>1, <5>1, <5>2, <5>3
      <4>2. CASE n # 1
        <5>1. n - 1 \in 1..Len(s)
          BY <1>1, <4>2
        <5>. QED BY <3>3, <4>2, <5>1
      <4>. QED BY <4>1, <4>2
    <3>5. h = Rec(h)
      BY <1>3, <3>4
    <3>. HIDE DEF h, Rec
    <3>. QED BY <3>5
  <2>. DEFINE flat == CHOOSE f : f = Rec(f)
  <2>2. flat = Rec(flat)
    <3>. HIDE DEF Rec
    <3>. QED BY <2>1
  <2>3. QueryEscape(s) = flat[Len(s)]
    BY <1>3, <1>5 DEF QueryEscape, FlattenSeq, pieces
  <2>. HIDE DEF flat
  <2>. DEFINE U == {n \in 0..Len(s) : n > 0 => flat[n] \in D /\ Len(flat[n]) >= size[n]}
  <2>4. ASSUME NEW n \in U, n < Len(s) PROVE n + 1 \in U
    <3>1. n \in 0..Len(s) /\ n + 1 \in 1..Len(s) /\ size[n] \in Nat
      BY <1>1, <1>2, <2>4
    <3>2. /\ pieces[n + 1] \in D /\ Len(pieces[n + 1]) >= Bytes[s[n + 1]]
          /\ Bytes[s[n + 1]] \in Nat /\ size[n + 1] = size[n] + Bytes[s[n + 1]]
      BY <1>2, <1>3, <3>1
    <3>3. flat[n + 1] = IF n = 0 THEN pieces[n + 1] ELSE flat[n] \o pieces[n + 1]
      <4>1. flat[n + 1] = Rec(flat)[n + 1]
        BY <2>2
      <4>. QED BY <1>3, <3>1, <4>1
    <3>4. CASE n = 0
      BY <1>2, <3>1, <3>2, <3>3, <3>4
    <3>5. CASE n # 0
      <4>1. flat[n] \in D /\ Len(flat[n]) >= size[n]
        BY <3>1, <3>5
      <4>2. flat[n + 1] \in D /\ Len(flat[n + 1]) = Len(flat[n]) + Len(pieces[n + 1])
        BY <3>2, <3>3, <3>5, <4>1
      <4>3. Len(flat[n]) \in Nat /\ Len(pieces[n + 1]) \in Nat
        BY <3>2, <4>1
      <4>4. Len(flat[n + 1]) >= size[n + 1]
        <5>. HIDE DEF D, U
        <5>1. Len(flat[n]) + Len(pieces[n + 1]) >= size[n] + Bytes[s[n + 1]]
          BY <3>1, <3>2, <4>1, <4>3, SumAtLeast
        <5>. QED BY <3>2, <4>2, <5>1
      <4>5. n + 1 \in 0..Len(s)
        BY <1>1, <3>1
      <4>. HIDE DEF D
      <4>. QED BY <4>2, <4>4, <4>5
    <3>. QED BY <3>4, <3>5
  <2>5. Len(s) \in U
    <3>1. 0 \in U /\ U \in SUBSET (0..Len(s))
      BY <1>1
    <3>. HIDE DEF U
    <3>. QED BY <1>1, <2>4, <3>1, FromZeroOn
  <2>. QED BY <1>1, <1>5, <2>3, <2>5 DEF Size, size
<1>. QED BY <1>4, <1>5

--------------------------------------------------------------------------------
(* Suggestion: the edits. *)

Slices == Seq(Chars \cup {Blank})

\* Each edit makes a slice of strings into one; a deletion shortens it by one, and a
\* substitution keeps its length.
LEMMA EditFacts ==
    ASSUME NEW w \in Slices, NEW n \in DOMAIN w
    PROVE  /\ Front(ReplaceAt(w, n, Last(w))) \in Slices
           /\ Len(Front(ReplaceAt(w, n, Last(w)))) = Len(w) - 1
           /\ \A base \in Dna : InsertAt(w, n, base) \in Slices
           /\ \A base \in Bases(w[n]) :
                ReplaceAt(w, n, base) \in Slices /\ Len(ReplaceAt(w, n, base)) = Len(w)
<1>1. DOMAIN w = 1..Len(w) /\ Len(w) \in Nat \ {0} /\ n \in 1..Len(w)
  BY DEF Slices
<1>2. \A e \in Chars \cup {Blank} :
        ReplaceAt(w, n, e) \in Slices /\ Len(ReplaceAt(w, n, e)) = Len(w)
  BY <1>1 DEF Slices, ReplaceAt
<1>3. Dna \subseteq Chars \cup {Blank} /\ Bases(w[n]) \subseteq Chars \cup {Blank}
  BY SuggestionAssumption DEF Bases
<1>4. /\ Front(ReplaceAt(w, n, Last(w))) \in Slices
      /\ Len(Front(ReplaceAt(w, n, Last(w)))) = Len(w) - 1
  <2>1. Last(w) \in Chars \cup {Blank}
    BY <1>1 DEF Slices, Last
  <2>. DEFINE r == ReplaceAt(w, n, Last(w))
  <2>2. r \in Slices /\ Len(r) = Len(w)
    BY <1>2, <2>1
  <2>. HIDE DEF r
  <2>3. Front(r) \in Slices /\ Len(Front(r)) = Len(w) - 1
    BY <1>1, <2>2 DEF Slices, Front
  <2>. QED BY <2>3 DEF r
<1>5. ASSUME NEW base \in Dna PROVE InsertAt(w, n, base) \in Slices
  <2>1. SubSeq(w, 1, n - 1) \in Slices /\ SubSeq(w, n, Len(w)) \in Slices /\ << base >> \in Slices
    BY <1>1, <1>3 DEF Slices
  <2>. QED BY <2>1 DEF InsertAt, Slices
<1>. QED BY <1>2, <1>3, <1>4, <1>5

\* Joining a slice leaves characters only.
LEMMA JoinFacts ==
    ASSUME NEW w \in Slices
    PROVE  Join(w) \in Seq(Chars)
<1>. DEFINE K == {n \in DOMAIN w : w[n] # Blank}
<1>1. {w[p] : p \in K} \subseteq Chars
  BY DEF Slices
<1>2. Subsequence(w, K) \in Seq({w[p] : p \in K})
  <2>1. K \in SUBSET DOMAIN w
    OBVIOUS
  <2>. HIDE DEF K
  <2>. QED BY <2>1, SubsequenceFacts DEF Slices
<1>. HIDE DEF K
<1>3. Subsequence(w, K) \in Seq(Chars)
  BY <1>1, <1>2
<1>. QED BY <1>3 DEF Join, K

\* There is a round for every text, and never more of them than bytes.
LEMMA RoundsFacts ==
    ASSUME NEW s \in Seq(Chars), NEW r \in Rounds(s)
    PROVE  r \in 1..MaxStringEditLength /\ r <= Size(s)
<1>1. Size(s) \in Nat /\ MaxStringEditLength \in Nat
  BY SizeFacts, SuggestionAssumption
<1>2. LET m == Min({Size(s), MaxStringEditLength})
      IN  m \in {Size(s), MaxStringEditLength} /\ m <= Size(s) /\ m <= MaxStringEditLength
  BY <1>1 DEF Min
<1>. QED BY <1>1, <1>2 DEF Rounds

Editing == step \in {"delete", "insert", "substitute"}

\* There are as many edits left as the text has bytes, at least, and more for a
\* deletion, which takes an element for each.
EditsFit ==
    /\ step # "idle" => k <= Size(str)
    /\ Editing => round < k /\ edits < k
    /\ step \in {"idle", "choose", "done"} => edits = 0
    /\ step = "delete" => k < Size(str) /\ Len(work) + edits = Len(str)
    /\ step = "substitute" => Len(work) = Len(str)

SuggestionInv == SuggestionTypeOK /\ EditsFit /\ SingleByteNeverPanics /\ NameIsUsable

\* An edit goes on with the round, or ends it with a text.
LEMMA EditedStep ==
    ASSUME SuggestionInv, Editing, NEW w \in Slices, Edited(w),
           step = "delete" => Len(w) = Len(work) - 1,
           step = "substitute" => Len(w) = Len(work)
    PROVE  SuggestionInv'
<1>. USE DEF SuggestionInv, SuggestionTypeOK, EditsFit, Editing
<1>1. Join(w) \in Seq(Chars) /\ k \in Nat /\ edits \in Nat /\ round \in Nat /\ work \in Slices
  BY JoinFacts, SuggestionAssumption DEF Slices
<1>2. CASE edits + 1 < k
  <2>1. /\ work' = w /\ edits' = edits + 1
        /\ UNCHANGED <<step, round, generated, str, k, name, calls>>
    BY <1>2 DEF Edited
  <2>2. SuggestionTypeOK'
    BY <1>1, <1>2, <2>1 DEF Slices
  <2>3. EditsFit'
    <3>1. Len(work) \in Nat
      BY <1>1 DEF Slices
    <3>. QED BY <1>1, <1>2, <2>1, <3>1
  <2>. QED BY <2>1, <2>2, <2>3 DEF SingleByteNeverPanics, NameIsUsable
<1>3. CASE ~(edits + 1 < k)
  <2>1. /\ work' = << >> /\ edits' = 0 /\ generated' = Join(w)
        /\ round' = round + 1 /\ step' = "choose"
        /\ UNCHANGED <<str, k, name, calls>>
    BY <1>3 DEF Edited
  <2>2. SuggestionTypeOK'
    BY <1>1, <2>1
  <2>. QED BY <2>1, <2>2 DEF SingleByteNeverPanics, NameIsUsable
<1>. QED BY <1>2, <1>3

\* Every step of Suggest keeps the invariant.
LEMMA SuggestionStep ==
    ASSUME SuggestionInv, [SuggestionNext]_suggestionVars
    PROVE  SuggestionInv'
<1>. USE DEF SuggestionInv
<1>1. ASSUME NEW s \in Seq(Chars), Call(s), step \in {"idle", "done"} PROVE SuggestionInv'
  <2>1. /\ str' = s /\ k' \in Rounds(s) /\ round' = 0 /\ generated' = << >> /\ name' = << >>
        /\ step' = "choose" /\ calls' = calls + 1 /\ calls < MaxCalls
        /\ UNCHANGED <<work, edits>>
    BY <1>1 DEF Call
  <2>2. k' \in 1..MaxStringEditLength /\ k' <= Size(s)
    BY <2>1, RoundsFacts
  <2>3. SuggestionTypeOK'
    <3>1. /\ k' \in 0..MaxStringEditLength /\ round' \in 0..k' /\ edits' = 0 /\ 0 \in 0..k'
          /\ calls' \in 0..MaxCalls
      BY <1>1, <2>1, <2>2, SuggestionAssumption DEF SuggestionTypeOK, EditsFit
    <3>. QED BY <1>1, <2>1, <3>1 DEF SuggestionTypeOK
  <2>. QED BY <1>1, <2>1, <2>2, <2>3 DEF EditsFit, Editing, SingleByteNeverPanics, NameIsUsable
<1>2. CASE Suggest
  <2>1. Wishes \subseteq Seq(Chars) /\ name \in Seq(Chars)
    BY SuggestionAssumption DEF SuggestionTypeOK
  <2>. QED BY <1>1, <1>2, <2>1 DEF Suggest
<1>3. ASSUME NEW mutation \in {"delete", "insert", "substitute"}, Begin(mutation),
             mutation = "delete" => k < Size(str)
      PROVE  SuggestionInv'
  <2>1. /\ step = "choose" /\ round < k /\ step' = mutation /\ work' = str /\ edits' = 0
        /\ UNCHANGED <<str, k, round, generated, name, calls>>
    BY <1>3 DEF Begin
  <2>2. SuggestionTypeOK' /\ k \in Nat /\ Len(str) \in Nat
    BY <1>3, <2>1, SuggestionAssumption DEF SuggestionTypeOK
  <2>3. EditsFit'
    BY <1>3, <2>1, <2>2 DEF EditsFit, Editing, SuggestionTypeOK
  <2>. QED BY <1>3, <2>1, <2>2, <2>3 DEF SingleByteNeverPanics, NameIsUsable
<1>4. CASE DeleteAll
  <2>1. /\ step = "choose" /\ round < k /\ generated' = << >> /\ round' = round + 1
        /\ UNCHANGED <<step, str, k, work, edits, name, calls>>
    BY <1>4 DEF DeleteAll
  <2>2. SuggestionTypeOK'
    BY <2>1, SuggestionAssumption DEF SuggestionTypeOK
  <2>. QED BY <2>1, <2>2 DEF EditsFit, Editing, SingleByteNeverPanics, NameIsUsable
<1>5. ASSUME Panic, step = "delete" => work = << >>,
             step = "substitute" => edits + 1 > Len(work), Editing, step # "insert"
      PROVE  SuggestionInv'
  <2>1. step' = "panic" /\ UNCHANGED <<str, k, round, work, edits, generated, name, calls>>
    BY <1>5 DEF Panic
  <2>2. SuggestionTypeOK' /\ k \in Nat /\ edits \in Nat /\ Len(str) \in Nat /\ Len(work) \in Nat
    BY <2>1, SuggestionAssumption DEF SuggestionTypeOK
  <2>3. ~SingleByte(str)
    <3>1. SingleByte(str) => Size(str) = Len(str)
      BY SizeFacts DEF SuggestionTypeOK
    <3>2. Len(<< >>) = 0
      OBVIOUS
    <3>. QED BY <1>5, <2>2, <3>1, <3>2 DEF EditsFit, Editing
  <2>. QED BY <1>5, <2>1, <2>2, <2>3 DEF EditsFit, Editing, SingleByteNeverPanics, NameIsUsable
<1>6. CASE Delete
  <2>1. CASE work = << >> /\ Panic
    BY <1>5, <1>6, <2>1 DEF Delete, Editing
  <2>2. ASSUME NEW n \in DOMAIN work, Edited(Front(ReplaceAt(work, n, Last(work))))
        PROVE  SuggestionInv'
    <3>1. work \in Slices
      BY DEF Slices, SuggestionTypeOK
    <3>2. /\ Front(ReplaceAt(work, n, Last(work))) \in Slices
          /\ Len(Front(ReplaceAt(work, n, Last(work)))) = Len(work) - 1
      BY <2>2, <3>1, EditFacts
    <3>. QED BY <1>6, <2>2, <3>2, EditedStep DEF Delete, Editing
  <2>. QED BY <1>6, <2>1, <2>2 DEF Delete
<1>7. CASE Insert
  <2>1. PICK n \in DOMAIN work, base \in Dna : Edited(InsertAt(work, n, base))
    BY <1>7 DEF Insert
  <2>2. InsertAt(work, n, base) \in Slices
    BY <2>1, EditFacts DEF Slices, SuggestionTypeOK
  <2>. QED BY <1>7, <2>1, <2>2, EditedStep DEF Insert, Editing
<1>8. CASE Substitute
  <2>1. CASE edits + 1 > Len(work) /\ Panic
    BY <1>5, <1>8, <2>1 DEF Substitute, Editing
  <2>2. ASSUME edits + 1 <= Len(work), NEW base \in Bases(work[edits + 1]),
               Edited(ReplaceAt(work, edits + 1, base))
        PROVE  SuggestionInv'
    <3>1. edits + 1 \in DOMAIN work /\ work \in Slices
      BY <2>2, SuggestionAssumption DEF Slices, SuggestionTypeOK
    <3>2. /\ ReplaceAt(work, edits + 1, base) \in Slices
          /\ Len(ReplaceAt(work, edits + 1, base)) = Len(work)
      BY <2>2, <3>1, EditFacts
    <3>. QED BY <1>8, <2>2, <3>2, EditedStep DEF Substitute, Editing
  <2>. QED BY <1>8, <2>1, <2>2 DEF Substitute
<1>9. CASE Pad
  <2>. DEFINE size == Size(generated)
  <2>1. /\ step = "choose" /\ step' = "done"
        /\ UNCHANGED <<str, k, round, work, edits, generated, calls>>
    BY <1>9 DEF Pad
  <2>2. generated \in Seq(Chars) /\ size \in Nat /\ MaxSuggestedStringLength \in Nat
    BY SizeFacts, SuggestionAssumption DEF SuggestionTypeOK
  <2>3. \E t \in Seq(Chars) : name' = QueryEscape(t) /\ Size(t) >= MaxSuggestedStringLength
    <3>1. CASE size < MaxSuggestedStringLength
      <4>1. PICK r \in RandString(MaxSuggestedStringLength - size) :
                name' = QueryEscape(generated \o r)
        BY <1>9, <3>1 DEF Pad
      <4>2. MaxSuggestedStringLength - size \in Nat
        BY <2>2, <3>1
      <4>. HIDE DEF size
      <4>3. r \in Seq(Chars) /\ Len(r) = MaxSuggestedStringLength - size
        BY <4>1, <4>2, SuggestionAssumption DEF RandString
      <4>4. generated \o r \in Seq(Chars)
        BY <2>2, <4>3
      <4>5. Size(generated \o r) >= size + Len(r) /\ Size(generated \o r) \in Nat
        BY <2>2, <4>3, <4>4, SizeOfJoined, SizeFacts DEF size
      <4>6. Size(generated \o r) >= MaxSuggestedStringLength
        BY <2>2, <4>3, <4>5
      <4>. QED BY <4>1, <4>4, <4>6
    <3>2. CASE ~(size < MaxSuggestedStringLength)
      BY <1>9, <2>2, <3>2 DEF Pad
    <3>. QED BY <3>1, <3>2
  <2>4. /\ name' \in Seq(OneByte)
        /\ Len(name') >= MaxSuggestedStringLength
    <3>1. PICK t \in Seq(Chars) : name' = QueryEscape(t) /\ Size(t) >= MaxSuggestedStringLength
      BY <2>3
    <3>2. name' \in Seq(OneByte) /\ Len(name') >= Size(t) /\ Size(t) \in Nat
      BY <3>1, EscapeFacts, SizeFacts
    <3>3. Len(name') \in Nat
      BY <3>2
    <3>. QED BY <2>2, <3>1, <3>2, <3>3
  <2>5. name' \in Seq(Chars) /\ SingleByte(name')
    BY <2>4 DEF OneByte, SingleByte
  <2>6. SuggestionTypeOK'
    BY <2>1, <2>5 DEF SuggestionTypeOK
  <2>. QED BY <2>1, <2>4, <2>5, <2>6 DEF EditsFit, Editing, SingleByteNeverPanics, NameIsUsable
<1>10. CASE UNCHANGED suggestionVars
  BY <1>10 DEF suggestionVars, SuggestionTypeOK, EditsFit, Editing, SingleByteNeverPanics,
               NameIsUsable
<1>. QED BY <1>2, <1>3, <1>4, <1>6, <1>7, <1>8, <1>9, <1>10 DEF SuggestionNext

LEMMA SuggestionBegins == SuggestionInit => SuggestionInv
<1>. SUFFICES ASSUME SuggestionInit PROVE SuggestionInv
  OBVIOUS
<1>1. SuggestionTypeOK
  BY SuggestionAssumption DEF SuggestionInit, SuggestionTypeOK
<1>. QED BY <1>1 DEF SuggestionInit, SuggestionInv, EditsFit, Editing,
                     SingleByteNeverPanics, NameIsUsable

LEMMA SuggestionInductive == SuggestionSpec => []SuggestionInv
BY SuggestionBegins, SuggestionStep, PTL DEF SuggestionSpec

\* Edits that are counted in bytes never run out of characters of one byte, for any
\* text and any bound on the edits.
THEOREM NeverPanics == SuggestionSpec => []SingleByteNeverPanics
<1>1. SuggestionInv => SingleByteNeverPanics
  BY DEF SuggestionInv
<1>. QED BY <1>1, SuggestionInductive, PTL

\* What is suggested can be a path, and be given to Suggest again.
THEOREM NamesAreUsable == SuggestionSpec => []NameIsUsable
<1>1. SuggestionInv => NameIsUsable
  BY DEF SuggestionInv
<1>. QED BY <1>1, SuggestionInductive, PTL

--------------------------------------------------------------------------------
(* Suggestion: what the edits leave of the text.  Each of them finds the    *)
(* characters again at other places, all of them or all but one.            *)

\* A count of characters is a number, no greater than the length.
LEMMA OccurrencesFacts ==
    ASSUME NEW s \in Slices, NEW C
    PROVE  /\ Occurrences(s, C) = Cardinality(Positions(s, C))
           /\ Occurrences(s, C) \in 0..Len(s)
<1>1. Occurrences(s, C) = Cardinality(Positions(s, C))
  BY DEF Occurrences, Positions
<1>. QED BY <1>1, PositionsFinite DEF Slices

\* The element that is removed is lost, and the last one moves.
LEMMA DeletionLosesOne ==
    ASSUME NEW w \in Slices, NEW n \in DOMAIN w, NEW C
    PROVE  Occurrences(w, C) <= Occurrences(Front(ReplaceAt(w, n, Last(w))), C) + 1
<1>. DEFINE t == Front(ReplaceAt(w, n, Last(w)))
            f == [p \in Positions(w, C) \ {n} |-> IF p = Len(w) THEN n ELSE p]
<1>1. DOMAIN w = 1..Len(w) /\ Len(w) \in Nat \ {0} /\ n \in 1..Len(w)
  BY DEF Slices
<1>2. t \in Slices /\ Len(t) = Len(w) - 1
  BY EditFacts
<1>3. DOMAIN t = 1..(Len(w) - 1)
  BY <1>1, <1>2 DEF Slices
<1>4. \A p \in 1..(Len(w) - 1) : t[p] = IF p = n THEN w[Len(w)] ELSE w[p]
  <2>. DEFINE r == ReplaceAt(w, n, Last(w))
  <2>1. /\ r \in Seq(Chars \cup {Blank}) /\ Len(r) = Len(w)
        /\ \A p \in 1..Len(w) : r[p] = IF p = n THEN w[Len(w)] ELSE w[p]
    <3>1. Last(w) = w[Len(w)] /\ w[Len(w)] \in Chars \cup {Blank}
      BY <1>1 DEF Slices, Last
    <3>. QED BY <1>1, <3>1 DEF Slices, ReplaceAt
  <2>2. \A p \in 1..(Len(w) - 1) : t[p] = r[p]
    <3>. HIDE DEF r
    <3>1. Front(r) = SubSeq(r, 1, Len(w) - 1)
      BY <2>1 DEF Front
    <3>2. \A p \in 1..(Len(w) - 1) : SubSeq(r, 1, Len(w) - 1)[p] = r[p]
      BY <1>1, <2>1
    <3>. QED BY <3>1, <3>2 DEF r
  <2>. HIDE DEF t, r
  <2>. QED BY <1>1, <2>1, <2>2
<1>. HIDE DEF t
<1>5. f \in [Positions(w, C) \ {n} -> Positions(t, C)]
  BY <1>1, <1>3, <1>4 DEF Positions
<1>6. \A p, q \in Positions(w, C) \ {n} : f[p] = f[q] => p = q
  BY <1>1 DEF Positions
<1>. HIDE DEF f
<1>7. Cardinality(Positions(w, C)) <= Cardinality(Positions(t, C)) + 1
  BY <1>2, <1>5, <1>6, FoundButOne DEF Slices
<1>. QED BY <1>2, <1>7, OccurrencesFacts DEF t

\* Nothing is lost by an insertion.
LEMMA InsertionLosesNone ==
    ASSUME NEW w \in Slices, NEW n \in DOMAIN w, NEW base \in Dna, NEW C
    PROVE  Occurrences(w, C) <= Occurrences(InsertAt(w, n, base), C)
<1>. DEFINE t == InsertAt(w, n, base)
            f == [p \in Positions(w, C) |-> IF p < n THEN p ELSE p + 1]
<1>1. DOMAIN w = 1..Len(w) /\ Len(w) \in Nat /\ n \in 1..Len(w) /\ w \in Seq(Chars \cup {Blank})
  BY DEF Slices
<1>2. t \in Slices
  BY EditFacts
<1>3. /\ Len(t) = Len(w) + 1
      /\ \A p \in 1..Len(w) : IF p < n THEN t[p] = w[p] ELSE t[p + 1] = w[p]
  <2>. DEFINE a == SubSeq(w, 1, n - 1)
              b == SubSeq(w, n, Len(w))
  <2>1. /\ a \in Seq(Chars \cup {Blank}) /\ Len(a) = n - 1
        /\ \A p \in 1..(n - 1) : a[p] = w[p]
    BY <1>1
  <2>2. /\ b \in Seq(Chars \cup {Blank}) /\ Len(b) = Len(w) - n + 1
        /\ \A p \in 1..(Len(w) - n + 1) : b[p] = w[n + p - 1]
    BY <1>1
  <2>3. t = (a \o << base >>) \o b
    BY DEF InsertAt
  <2>4. base \in Chars \cup {Blank}
    BY SuggestionAssumption
  <2>. HIDE DEF a, b, t
  <2>. DEFINE c == a \o << base >>
  <2>5. c \in Seq(Chars \cup {Blank}) /\ Len(c) = n /\ \A p \in 1..(n - 1) : c[p] = w[p]
    BY <1>1, <2>1, <2>4
  <2>. HIDE DEF c
  <2>6. t = c \o b
    BY <2>3 DEF c
  <2>7. Len(t) = Len(w) + 1
    BY <1>1, <2>2, <2>5, <2>6
  <2>8. ASSUME NEW p \in 1..Len(w), p < n PROVE t[p] = w[p]
    <3>1. p \in 1..Len(c) /\ p \in 1..(n - 1)
      BY <1>1, <2>5, <2>8
    <3>2. t[p] = c[p]
      BY <2>2, <2>5, <2>6, <3>1
    <3>. QED BY <2>5, <3>1, <3>2
  <2>9. ASSUME NEW p \in 1..Len(w), ~(p < n) PROVE t[p + 1] = w[p]
    <3>1. p + 1 \in (Len(c) + 1)..(Len(c) + Len(b)) /\ p + 1 - Len(c) = p - n + 1
      BY <1>1, <2>2, <2>5, <2>9
    <3>2. t[p + 1] = b[p - n + 1]
      BY <1>1, <2>2, <2>5, <2>6, <3>1
    <3>3. p - n + 1 \in 1..(Len(w) - n + 1) /\ n + (p - n + 1) - 1 = p
      BY <1>1, <2>9
    <3>. QED BY <2>2, <3>2, <3>3
  <2>. QED BY <2>7, <2>8, <2>9
<1>. HIDE DEF t
<1>4. DOMAIN t = 1..(Len(w) + 1)
  BY <1>2, <1>3 DEF Slices
<1>5. f \in [Positions(w, C) -> Positions(t, C)]
  BY <1>1, <1>3, <1>4 DEF Positions
<1>6. \A p, q \in Positions(w, C) : f[p] = f[q] => p = q
  BY <1>1 DEF Positions
<1>. HIDE DEF f
<1>7. Cardinality(Positions(w, C)) <= Cardinality(Positions(t, C))
  <2>1. Positions(w, C) \in SUBSET Positions(w, C)
    OBVIOUS
  <2>. QED BY <1>2, <1>5, <1>6, <2>1, FoundAgain DEF Slices
<1>. QED BY <1>2, <1>7, OccurrencesFacts DEF t

\* The element that is substituted is lost.
LEMMA SubstitutionLosesOne ==
    ASSUME NEW w \in Slices, NEW n \in DOMAIN w, NEW base \in Bases(w[n]), NEW C
    PROVE  Occurrences(w, C) <= Occurrences(ReplaceAt(w, n, base), C) + 1
<1>. DEFINE t == ReplaceAt(w, n, base)
            f == [p \in Positions(w, C) \ {n} |-> p]
<1>1. t \in Slices
  BY EditFacts
<1>2. DOMAIN t = DOMAIN w /\ \A p \in DOMAIN w \ {n} : t[p] = w[p]
  BY DEF ReplaceAt, Slices
<1>. HIDE DEF t
<1>3. f \in [Positions(w, C) \ {n} -> Positions(t, C)]
  BY <1>2 DEF Positions
<1>4. \A p, q \in Positions(w, C) \ {n} : f[p] = f[q] => p = q
  OBVIOUS
<1>. HIDE DEF f
<1>5. Cardinality(Positions(w, C)) <= Cardinality(Positions(t, C)) + 1
  BY <1>1, <1>3, <1>4, FoundButOne DEF Slices
<1>. QED BY <1>1, <1>5, OccurrencesFacts DEF t

\* Joining a slice loses none of its characters.
LEMMA JoinLosesNone ==
    ASSUME NEW w \in Slices, NEW C \in SUBSET Chars
    PROVE  Occurrences(w, C) <= Occurrences(Join(w), C)
<1>. DEFINE K == {n \in DOMAIN w : w[n] # Blank}
            t == Subsequence(w, K)
            f == [p \in Positions(w, C) |-> Cardinality(K \cap 1..p)]
<1>1. DOMAIN w = 1..Len(w) /\ Len(w) \in Nat /\ K \in SUBSET (1..Len(w))
  BY DEF Slices
<1>2. t = Join(w) /\ t \in Slices
  <2>1. Join(w) \in Seq(Chars)
    BY JoinFacts
  <2>. QED BY <2>1 DEF Join, Slices
<1>3. Positions(w, C) \in SUBSET K
  BY SuggestionAssumption DEF Positions
<1>. HIDE DEF K
<1>4. \A p \in K : /\ Cardinality(K \cap 1..p) \in 1..Cardinality(K)
                   /\ Nth(K, Cardinality(K \cap 1..p)) = p
  BY <1>1, NthOfRank
<1>5. \A p \in K : Cardinality(K \cap 1..p) \in DOMAIN t /\ t[Cardinality(K \cap 1..p)] = w[p]
  BY <1>4 DEF Subsequence
<1>. HIDE DEF t
<1>6. f \in [Positions(w, C) -> Positions(t, C)]
  BY <1>3, <1>5 DEF Positions
<1>7. \A p, q \in Positions(w, C) : f[p] = f[q] => p = q
  BY <1>3, <1>4
<1>. HIDE DEF f
<1>8. Cardinality(Positions(w, C)) <= Cardinality(Positions(t, C))
  <2>1. Positions(w, C) \in SUBSET Positions(w, C)
    OBVIOUS
  <2>. QED BY <1>2, <1>6, <1>7, <2>1, FoundAgain DEF Slices
<1>. QED BY <1>2, <1>8, OccurrencesFacts

--------------------------------------------------------------------------------
(* Suggestion: what is generated stays similar. *)

\* So far a round has lost no more characters than it made edits.
AlikeSoFar ==
    Editing => \A C \in SUBSET Chars : Occurrences(str, C) <= Occurrences(work, C) + edits

AlikeInv == AlikeSoFar /\ StaysSimilar

\* What adds an edit to the bound may lose one character more.
LEMMA EditedAlike ==
    ASSUME SuggestionInv, AlikeInv, Editing, NEW w \in Slices, Edited(w),
           \A C \in SUBSET Chars : Occurrences(work, C) <= Occurrences(w, C) + 1
    PROVE  AlikeInv'
<1>1. /\ str \in Slices /\ work \in Slices /\ k \in Nat /\ edits \in Nat /\ round \in Nat
      /\ edits < k
  BY SuggestionAssumption DEF SuggestionInv, SuggestionTypeOK, EditsFit, Slices
<1>2. \A C \in SUBSET Chars : Occurrences(str, C) <= Occurrences(w, C) + edits + 1
  <2>. TAKE C \in SUBSET Chars
  <2>1. /\ Occurrences(str, C) <= Occurrences(work, C) + edits
        /\ Occurrences(work, C) <= Occurrences(w, C) + 1
    BY DEF AlikeInv, AlikeSoFar
  <2>2. /\ Occurrences(str, C) \in Nat /\ Occurrences(work, C) \in Nat
        /\ Occurrences(w, C) \in Nat
    BY <1>1, OccurrencesFacts DEF Slices
  <2>. QED BY <1>1, <2>1, <2>2
<1>3. CASE edits + 1 < k
  <2>1. /\ work' = w /\ edits' = edits + 1
        /\ UNCHANGED <<step, round, generated, str, k>>
    BY <1>3 DEF Edited
  <2>2. AlikeSoFar'
    <3>. SUFFICES ASSUME NEW C \in SUBSET Chars
                  PROVE  Occurrences(str, C) <= Occurrences(w, C) + (edits + 1)
      BY <2>1 DEF AlikeSoFar, Occurrences
    <3>1. Occurrences(str, C) \in Nat /\ Occurrences(w, C) \in Nat
      BY <1>1, OccurrencesFacts DEF Slices
    <3>. QED BY <1>1, <1>2, <3>1
  <2>3. StaysSimilar'
    BY <2>1 DEF AlikeInv, StaysSimilar, Occurrences
  <2>. QED BY <2>2, <2>3 DEF AlikeInv
<1>4. CASE ~(edits + 1 < k)
  <2>1. /\ generated' = Join(w) /\ step' = "choose" /\ UNCHANGED <<str, k>>
    BY <1>4 DEF Edited
  <2>2. StaysSimilar'
    <3>. SUFFICES ASSUME NEW C \in SUBSET Chars
                  PROVE  Occurrences(str, C) <= Occurrences(Join(w), C) + k
      BY <2>1 DEF StaysSimilar, Occurrences
    <3>1. Occurrences(w, C) <= Occurrences(Join(w), C)
      BY JoinLosesNone
    <3>2. Join(w) \in Slices
      BY JoinFacts DEF Slices
    <3>3. /\ Occurrences(str, C) \in Nat /\ Occurrences(w, C) \in Nat
          /\ Occurrences(Join(w), C) \in Nat
      BY <1>1, <3>2, OccurrencesFacts DEF Slices
    <3>4. Occurrences(str, C) <= Occurrences(w, C) + edits + 1
      BY <1>2
    <3>. QED BY <1>1, <1>4, <3>1, <3>3, <3>4
  <2>. QED BY <2>1, <2>2 DEF AlikeInv, AlikeSoFar, Editing
<1>. QED BY <1>3, <1>4

\* Every step of Suggest leaves what is generated similar.
LEMMA AlikeStep ==
    ASSUME SuggestionInv, AlikeInv, [SuggestionNext]_suggestionVars
    PROVE  AlikeInv'
<1>1. /\ str \in Slices /\ work \in Slices /\ generated \in Slices /\ str \in Seq(Chars)
      /\ k \in Nat /\ edits \in Nat
  BY SuggestionAssumption DEF SuggestionInv, SuggestionTypeOK, Slices
<1>2. ASSUME NEW s, Call(s) PROVE AlikeInv'
  BY <1>2 DEF Call, AlikeInv, AlikeSoFar, StaysSimilar, Editing
<1>3. ASSUME NEW mutation, Begin(mutation) PROVE AlikeInv'
  <2>1. work' = str /\ edits' = 0 /\ UNCHANGED <<str, k, round, generated>>
    BY <1>3 DEF Begin
  <2>2. AlikeSoFar'
    <3>. SUFFICES ASSUME NEW C \in SUBSET Chars
                  PROVE  Occurrences(str, C) <= Occurrences(str, C) + 0
      BY <2>1 DEF AlikeSoFar, Occurrences
    <3>1. Occurrences(str, C) \in Nat
      BY <1>1, OccurrencesFacts DEF Slices
    <3>. QED BY <3>1
  <2>. QED BY <2>1, <2>2 DEF AlikeInv, StaysSimilar, Occurrences
<1>4. CASE DeleteAll
  <2>1. /\ step = "choose" /\ k >= Size(str) /\ generated' = << >>
        /\ UNCHANGED <<step, str, k>>
    BY <1>4 DEF DeleteAll
  <2>2. StaysSimilar'
    <3>. SUFFICES ASSUME NEW C \in SUBSET Chars
                  PROVE  Occurrences(str, C) <= Occurrences(<< >>, C) + k
      BY <2>1 DEF StaysSimilar, Occurrences
    <3>1. Len(str) <= Size(str) /\ Size(str) \in Nat /\ Len(str) \in Nat
      BY <1>1, SizeFacts
    <3>2. << >> \in Slices
      BY DEF Slices
    <3>3. Occurrences(str, C) \in 0..Len(str) /\ Occurrences(<< >>, C) \in Nat
      BY <1>1, <3>2, OccurrencesFacts
    <3>. QED BY <1>1, <2>1, <3>1, <3>3
  <2>. QED BY <2>1, <2>2 DEF AlikeInv, AlikeSoFar, Editing
<1>5. ASSUME Panic PROVE AlikeInv'
  BY <1>5 DEF Panic, AlikeInv, AlikeSoFar, StaysSimilar, Editing, Occurrences
<1>6. ASSUME Delete PROVE AlikeInv'
  <2>1. CASE work = << >> /\ Panic
    BY <1>5, <2>1
  <2>2. ASSUME NEW n \in DOMAIN work, Edited(Front(ReplaceAt(work, n, Last(work))))
        PROVE  AlikeInv'
    <3>1. Front(ReplaceAt(work, n, Last(work))) \in Slices
      BY <1>1, EditFacts
    <3>2. \A C \in SUBSET Chars :
            Occurrences(work, C) <= Occurrences(Front(ReplaceAt(work, n, Last(work))), C) + 1
      BY <1>1, DeletionLosesOne
    <3>. QED BY <1>6, <2>2, <3>1, <3>2, EditedAlike DEF Delete, Editing
  <2>. QED BY <1>6, <2>1, <2>2 DEF Delete
<1>7. ASSUME Insert PROVE AlikeInv'
  <2>1. PICK n \in DOMAIN work, base \in Dna : Edited(InsertAt(work, n, base))
    BY <1>7 DEF Insert
  <2>2. InsertAt(work, n, base) \in Slices
    BY <1>1, EditFacts
  <2>3. \A C \in SUBSET Chars : Occurrences(work, C) <= Occurrences(InsertAt(work, n, base), C) + 1
    <3>. TAKE C \in SUBSET Chars
    <3>1. Occurrences(work, C) <= Occurrences(InsertAt(work, n, base), C)
      BY <1>1, InsertionLosesNone
    <3>2. Occurrences(work, C) \in Nat /\ Occurrences(InsertAt(work, n, base), C) \in Nat
      BY <1>1, <2>2, OccurrencesFacts DEF Slices
    <3>. QED BY <3>1, <3>2
  <2>. QED BY <1>7, <2>1, <2>2, <2>3, EditedAlike DEF Insert, Editing
<1>8. ASSUME Substitute PROVE AlikeInv'
  <2>1. CASE edits + 1 > Len(work) /\ Panic
    BY <1>5, <2>1
  <2>2. ASSUME edits + 1 <= Len(work), NEW base \in Bases(work[edits + 1]),
               Edited(ReplaceAt(work, edits + 1, base))
        PROVE  AlikeInv'
    <3>1. edits + 1 \in DOMAIN work
      BY <1>1, <2>2 DEF Slices
    <3>2. ReplaceAt(work, edits + 1, base) \in Slices
      BY <1>1, <2>2, <3>1, EditFacts
    <3>3. \A C \in SUBSET Chars :
            Occurrences(work, C) <= Occurrences(ReplaceAt(work, edits + 1, base), C) + 1
      BY <1>1, <2>2, <3>1, SubstitutionLosesOne
    <3>. QED BY <1>8, <2>2, <3>2, <3>3, EditedAlike DEF Substitute, Editing
  <2>. QED BY <1>8, <2>1, <2>2 DEF Substitute
<1>9. ASSUME Pad PROVE AlikeInv'
  BY <1>9 DEF Pad, AlikeInv, AlikeSoFar, StaysSimilar, Editing, Occurrences
<1>10. CASE UNCHANGED suggestionVars
  BY <1>10 DEF suggestionVars, AlikeInv, AlikeSoFar, StaysSimilar, Editing, Occurrences
<1>. QED BY <1>2, <1>3, <1>4, <1>6, <1>7, <1>8, <1>9, <1>10 DEF SuggestionNext, Suggest

\* However many rounds are made, what is generated lacks k characters of the text at
\* most: rounds do not add up.
THEOREM RoundsDoNotAddUp == SuggestionSpec => []StaysSimilar
<1>1. SuggestionInit => AlikeInv
  BY DEF SuggestionInit, AlikeInv, AlikeSoFar, StaysSimilar, Editing
<1>2. SuggestionInv /\ AlikeInv /\ [SuggestionNext]_suggestionVars => AlikeInv'
  BY AlikeStep
<1>3. AlikeInv => StaysSimilar
  BY DEF AlikeInv
<1>. QED BY <1>1, <1>2, <1>3, SuggestionInductive, PTL DEF SuggestionSpec

--------------------------------------------------------------------------------
(* The types of the three computations. *)

\* Every token has a version, if only an empty one.
LEMMA TokenFacts ==
    ASSUME NEW t \in Tokens
    PROVE  t.version \in Versions
<1>1. << >> \in Versions
  BY DEF Versions
<1>. QED BY <1>1, AgentAssumption DEF Tokens, LeftParen, RightParen

\* A version that is cut at a dot is a version, and so is what a table has for it.
LEMMA VersionFacts ==
    ASSUME NEW t \in Tokens
    PROVE  /\ \A n \in Nat : UpToDot(n, t.version) \in Versions
           /\ \A version : Lookup(WindowsVersions, version) \in Versions
           /\ \A version : Lookup(SafariVersions, version) \in Versions
<1>1. t.version \in Seq(Nat) /\ Len(t.version) \in Nat
  BY TokenFacts DEF Versions
<1>2. ASSUME NEW n \in Nat PROVE UpToDot(n, t.version) \in Versions
  <2>. DEFINE len == Len(t.version)
              K == {n + 1, len}
              last == Min(K)
  <2>1. last \in K /\ last <= len
    <3>1. n + 1 \in Nat /\ len \in Nat
      BY <1>1
    <3>. HIDE DEF len
    <3>2. \E x \in K : \A y \in K : x <= y
      BY <3>1
    <3>. HIDE DEF K
    <3>3. last \in K /\ \A y \in K : last <= y
      BY <3>2 DEF Min
    <3>. QED BY <3>3 DEF K
  <2>2. last \in 0..len
    BY <1>1, <2>1
  <2>. HIDE DEF last
  <2>3. SubSeq(t.version, 1, last) \in Seq(Nat)
    BY <1>1, <2>2
  <2>. QED BY <2>3 DEF UpToDot, Versions, last
<1>3. << >> \in Versions
  BY DEF Versions
<1>. QED BY <1>2, <1>3, AgentAssumption DEF Lookup

\* What getOS finds is an operating system, and a version of it.
LEMMA SystemFacts ==
    ASSUME NEW list \in Seq(Tokens)
    PROVE  /\ GetOS(list).os \in
                {"", "Windows", "Mac", "Linux", "Android", "iOS", "Windows Mobile"}
           /\ GetOS(list).version \in Versions \cup {OnlyDot}
<1>. DEFINE end == SelectInSeq(list, EndsLoop)
            kernel == SelectLastInSeq(list, LAMBDA t : t.prefix \in {"Windows", "Linux"})
            windows == SelectLastInSeq(list, LAMBDA t : t.prefix = "Windows")
            none == << >>
            nameless == ""
            FoundSystem ==
                /\ GetOS(list).os \in
                    {nameless, "Windows", "Mac", "Linux", "Android", "iOS", "Windows Mobile"}
                /\ GetOS(list).version \in Versions \cup {OnlyDot}
<1>1. DOMAIN list = 1..Len(list) /\ Len(list) \in Nat
  OBVIOUS
<1>2. end \in 0..Len(list)
  <2>. DEFINE K == {n \in 1..Len(list) : EndsLoop(list[n])}
  <2>1. K \in SUBSET DOMAIN list /\ end = IF K # {} THEN Min(K) ELSE 0
    BY DEF SelectInSeq
  <2>. HIDE DEF K, end
  <2>. QED BY <2>1, SelectFacts
<1>3. kernel \in 0..Len(list) /\ (kernel > 0 => list[kernel].prefix \in {"Windows", "Linux"})
  <2>. DEFINE K == {n \in 1..Len(list) : list[n].prefix \in {"Windows", "Linux"}}
  <2>1. K \in SUBSET DOMAIN list /\ kernel = IF K # {} THEN Max(K) ELSE 0
    BY DEF SelectLastInSeq
  <2>2. kernel \in 0..Len(list) /\ (K # {} => kernel \in K)
    <3>. HIDE DEF K, kernel
    <3>. QED BY <2>1, SelectFacts
  <2>3. K = {} => kernel = 0
    BY <2>1
  <2>. HIDE DEF kernel
  <2>. QED BY <2>2, <2>3
<1>4. windows \in 0..Len(list)
  <2>. DEFINE K == {n \in 1..Len(list) : list[n].prefix = "Windows"}
  <2>1. K \in SUBSET DOMAIN list /\ windows = IF K # {} THEN Max(K) ELSE 0
    BY DEF SelectLastInSeq
  <2>. HIDE DEF K, windows
  <2>. QED BY <2>1, SelectFacts
<1>5. none \in Versions
  BY DEF Versions
<1>6. GetOS(list) = IF end > 0 THEN Decided(list, list[end]) ELSE Undecided(list)
  BY DEF GetOS
<1>7. Undecided(list) =
        [os |-> IF kernel > 0 THEN list[kernel].prefix ELSE nameless,
         version |-> IF windows > 0 THEN WindowsVersion(list[windows]) ELSE none]
  BY DEF Undecided
<1>. HIDE DEF end, kernel, windows, none, nameless
<1>8. ASSUME end > 0 PROVE FoundSystem
  <2>1. list[end] \in Tokens
    BY <1>1, <1>2, <1>8
  <2>2. UpToDot(2, list[end].version) \in Versions
    BY <2>1, VersionFacts
  <2>. HIDE DEF Versions
  <2>3. Decided(list, list[end]) \in
          [os : {"Windows Mobile", "Mac", "iOS", "Android"}, version : Versions \cup {OnlyDot}]
    <3>. HIDE DEF OnlyDot
    <3>1. \A b \in BOOLEAN : (IF b THEN OnlyDot ELSE none) \in Versions \cup {OnlyDot}
      BY <1>5
    <3>. QED BY <1>5, <2>2, <3>1 DEF Decided, Found, none
  <2>4. GetOS(list) \in [os : {"Windows Mobile", "Mac", "iOS", "Android"},
                         version : Versions \cup {OnlyDot}]
    BY <1>6, <1>8, <2>3
  <2>. QED BY <2>4
<1>9. ASSUME ~(end > 0) PROVE FoundSystem
  <2>1. windows > 0 => WindowsVersion(list[windows]) \in Versions
    <3>1. windows > 0 => list[windows] \in Tokens
      BY <1>1, <1>4
    <3>. QED BY <3>1, VersionFacts DEF WindowsVersion
  <2>. HIDE DEF Versions
  <2>2. Undecided(list) \in [os : {nameless, "Windows", "Linux"}, version : Versions]
    BY <1>3, <1>4, <1>5, <1>7, <2>1
  <2>. QED BY <1>6, <1>9, <2>2
<1>10. FoundSystem
  BY <1>8, <1>9
<1>. QED BY <1>10, Zenon DEF nameless

\* What FindPrefix finds is a token of the list, if there is one.
LEMMA PrefixFound ==
    ASSUME NEW list \in Seq(Tokens), NEW prefix, HasPrefix(list, prefix)
    PROVE  FindPrefix(list, prefix) \in Tokens
<1>. DEFINE K == {n \in 1..Len(list) : list[n].prefix = prefix}
            first == SelectInSeq(list, LAMBDA t : t.prefix = prefix)
<1>1. /\ K \in SUBSET DOMAIN list /\ K # {}
      /\ first = IF K # {} THEN Min(K) ELSE 0
  BY DEF SelectInSeq, HasPrefix
<1>2. first \in DOMAIN list
  <2>. HIDE DEF K, first
  <2>. QED BY <1>1, SelectFacts
<1>. QED BY <1>2 DEF FindPrefix

\* What getBrowser finds is a browser, and a version of it.
LEMMA BrowserFacts ==
    ASSUME NEW products \in Seq(Tokens), NEW list \in Seq(Tokens), NEW os
    PROVE  /\ GetBrowser(products, list, os).browser \in
                {"", "Chrome", "Firefox", "Safari", "Opera", "Edge", "IE"}
           /\ GetBrowser(products, list, os).version \in Versions
<1>. DEFINE first == SelectInSeq(products, LAMBDA t : t.prefix \in DOMAIN BrowserOf)
            chrome == SelectLastInSeq(products, LAMBDA t : t.prefix = "Chrome/")
            safari == SelectLastInSeq(products, LAMBDA t : t.prefix = "Safari/")
            none == << >>
            nameless == ""
            FoundBrowser ==
                /\ GetBrowser(products, list, os).browser \in
                    {nameless, "Chrome", "Firefox", "Safari", "Opera", "Edge", "IE"}
                /\ GetBrowser(products, list, os).version \in Versions
<1>1. DOMAIN products = 1..Len(products) /\ Len(products) \in Nat
  OBVIOUS
<1>2. first \in 0..Len(products)
      /\ (first > 0 => products[first].prefix \in DOMAIN BrowserOf)
  <2>. DEFINE K == {n \in 1..Len(products) : products[n].prefix \in DOMAIN BrowserOf}
  <2>1. K \in SUBSET DOMAIN products /\ first = IF K # {} THEN Min(K) ELSE 0
    BY DEF SelectInSeq
  <2>2. first \in 0..Len(products) /\ (K # {} => first \in K)
    <3>. HIDE DEF K, first
    <3>. QED BY <2>1, SelectFacts
  <2>3. K = {} => first = 0
    BY <2>1
  <2>. HIDE DEF first
  <2>. QED BY <2>2, <2>3
<1>3. chrome \in 0..Len(products)
  <2>. DEFINE K == {n \in 1..Len(products) : products[n].prefix = "Chrome/"}
  <2>1. K \in SUBSET DOMAIN products /\ chrome = IF K # {} THEN Max(K) ELSE 0
    BY DEF SelectLastInSeq
  <2>. HIDE DEF K, chrome
  <2>. QED BY <2>1, SelectFacts
<1>4. safari \in 0..Len(products)
  <2>. DEFINE K == {n \in 1..Len(products) : products[n].prefix = "Safari/"}
  <2>1. K \in SUBSET DOMAIN products /\ safari = IF K # {} THEN Max(K) ELSE 0
    BY DEF SelectLastInSeq
  <2>. HIDE DEF K, safari
  <2>. QED BY <2>1, SelectFacts
<1>5. none \in Versions
  BY DEF Versions
<1>6. \A p \in DOMAIN BrowserOf : BrowserOf[p] \in {"Chrome", "Firefox", "Opera", "Edge"}
  BY DEF BrowserOf, ChromePrefixes, EdgePrefixes, FirefoxPrefixes, OperaPrefixes
<1>7. IEVersion(list) \in Versions
  <2>1. \A prefix : HasPrefix(list, prefix) => FindPrefix(list, prefix).version \in Versions
    BY PrefixFound, TokenFacts
  <2>. HIDE DEF Versions
  <2>. QED BY <1>5, <2>1 DEF IEVersion
<1>8. \A n \in DOMAIN products : UpToDot(1, products[n].version) \in Versions
  <2>1. \A n \in DOMAIN products : products[n] \in Tokens
    OBVIOUS
  <2>. QED BY <2>1, VersionFacts
<1>9. \A t : SafariVersion(products, t) \in Versions
  <2>1. HasPrefix(products, "Version/") =>
          UpToDot(1, FindPrefix(products, "Version/").version) \in Versions
    BY PrefixFound, VersionFacts
  <2>2. \A version : Lookup(SafariVersions, version) \in Versions
    BY <1>5, AgentAssumption DEF Lookup
  <2>. QED BY <2>1, <2>2 DEF SafariVersion
<1>10. ChromeOrSafari(products, os) =
         IF os \in {"Mac", "iOS"} /\ safari > 0 /\ chrome = 0
         THEN Browser("Safari", SafariVersion(products, products[safari]))
         ELSE IF chrome > 0
              THEN Browser("Chrome", UpToDot(1, products[chrome].version))
              ELSE Browser(nameless, none)
  BY DEF ChromeOrSafari
<1>11. GetBrowser(products, list, os) =
         IF IEVersion(list) # none THEN Browser("IE", IEVersion(list))
         ELSE IF first > 0
              THEN Browser(BrowserOf[products[first].prefix],
                           UpToDot(1, products[first].version))
              ELSE ChromeOrSafari(products, os)
  BY DEF GetBrowser
<1>. HIDE DEF first, chrome, safari, none, nameless, Versions
<1>12. \A n, version : /\ Browser(n, version).browser = n
                          /\ Browser(n, version).version = version
  BY DEF Browser
<1>13. /\ ChromeOrSafari(products, os).browser \in {nameless, "Chrome", "Safari"}
       /\ ChromeOrSafari(products, os).version \in Versions
  <2>1. chrome > 0 => UpToDot(1, products[chrome].version) \in Versions
    BY <1>1, <1>3, <1>8
  <2>2. CASE os \in {"Mac", "iOS"} /\ safari > 0 /\ chrome = 0
    BY <1>3, <1>4, <1>9, <1>10, <1>12, <2>2
  <2>3. CASE ~(os \in {"Mac", "iOS"} /\ safari > 0 /\ chrome = 0)
    BY <1>3, <1>4, <1>5, <1>10, <1>12, <2>1, <2>3
  <2>. QED BY <2>2, <2>3
<1>14. first > 0 => UpToDot(1, products[first].version) \in Versions
  BY <1>1, <1>2, <1>8
<1>15. ASSUME IEVersion(list) # none PROVE FoundBrowser
  BY <1>7, <1>11, <1>12, <1>15
<1>16. ASSUME IEVersion(list) = none, first > 0 PROVE FoundBrowser
  BY <1>2, <1>6, <1>11, <1>14, <1>12, <1>16
<1>17. ASSUME IEVersion(list) = none, ~(first > 0) PROVE FoundBrowser
  BY <1>2, <1>11, <1>13, <1>17
<1>18. FoundBrowser
  <2>. HIDE DEF FoundBrowser
  <2>. QED BY <1>15, <1>16, <1>17
<1>. QED BY <1>18, Zenon DEF nameless

\* What is read of a header is of its type.
LEMMA AgentTyped == IsHeader => AgentTypeOK
<1>. SUFFICES ASSUME IsHeader PROVE AgentTypeOK
  OBVIOUS
<1>1. System \in Seq(Tokens) /\ Products \in Seq(Tokens)
  BY Parsed
<1>2. /\ ParseUserAgent.OS = GetOS(System).os
      /\ ParseUserAgent.OSVersion = GetOS(System).version
      /\ ParseUserAgent.Browser = GetBrowser(Products, System, GetOS(System).os).browser
      /\ ParseUserAgent.BrowserVersion = GetBrowser(Products, System, GetOS(System).os).version
  BY DEF ParseUserAgent
<1>3. \A nameless : \A x :
        /\ x \in {nameless, "Windows", "Mac", "Linux", "Android", "iOS", "Windows Mobile"} =>
               x \in OperatingSystems \cup {nameless}
        /\ x \in {nameless, "Chrome", "Firefox", "Safari", "Opera", "Edge", "IE"} =>
               x \in Browsers \cup {nameless}
  BY DEF OperatingSystems, Browsers
<1>4. /\ ParseUserAgent.OS \in OperatingSystems \cup {""}
      /\ ParseUserAgent.Browser \in Browsers \cup {""}
  BY <1>1, <1>2, <1>3, SystemFacts, BrowserFacts, Zenon
<1>5. /\ ParseUserAgent.OSVersion \in Versions \cup {OnlyDot}
      /\ ParseUserAgent.BrowserVersion \in Versions
  BY <1>1, <1>2, SystemFacts, BrowserFacts, Zenon
<1>. QED BY <1>4, <1>5, Zenon DEF AgentTypeOK, IsHeader

\* Each computation keeps its types while the others rest, whatever the alphabet, the
\* characters and the tokens: the algorithms never leave their types.
THEOREM TypeCorrect == Spec => []TypeOK
<1>1. Init => IInv /\ SuggestionInv /\ IsHeader
  BY InitInvariant, SuggestionBegins, AgentBegins DEF Init
<1>2. IInv /\ SuggestionInv /\ IsHeader /\ [Next]_vars => (IInv /\ SuggestionInv /\ IsHeader)'
  <2>1. [Next]_vars => [Base62Next]_base62Vars
    BY DEF Next, vars, suggestionVars
  <2>2. [Next]_vars => [SuggestionNext]_suggestionVars
    BY DEF Next, vars, base62Vars
  <2>3. [Next]_vars => [AgentNext]_ua
    BY DEF Next, vars, base62Vars, suggestionVars
  <2>. QED BY <2>1, <2>2, <2>3, NextInvariant, SuggestionStep, HeaderStep
<1>3. IInv /\ SuggestionInv /\ IsHeader => TypeOK
  BY AgentTyped DEF IInv, SuggestionInv, TypeOK
<1>. QED BY <1>1, <1>2, <1>3, PTL DEF Spec

================================================================================
