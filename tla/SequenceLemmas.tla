----------------------------- MODULE SequenceLemmas ----------------------------
(***************************************************************************)
(* What the channels, queues and histories of this project need to know of  *)
(* sequences: the elements they have, and where those are, when one is      *)
(* added at the end, taken from the head, or two sequences are joined.      *)
(***************************************************************************)
EXTENDS Integers, Functions, FiniteSetsExt, Subsequences, SequenceTheorems,
        FiniteSetTheorems, TLAPS

\* The empty sequence has no elements.
LEMMA EmptyFacts == Range(<< >>) = {} /\ IsInjective(<< >>)
BY DEF Range, IsInjective

\* Append adds one element, a new one if it is to be without repetition.
LEMMA AppendFacts ==
    ASSUME NEW S, NEW s \in Seq(S), NEW e \in S
    PROVE  /\ Range(Append(s, e)) = Range(s) \cup {e}
           /\ IsInjective(s) /\ e \notin Range(s) => IsInjective(Append(s, e))
<1>1. /\ Len(s) \in Nat /\ DOMAIN s = 1..Len(s)
      /\ DOMAIN Append(s, e) = 1..(Len(s) + 1)
      /\ \A i \in 1..Len(s) : Append(s, e)[i] = s[i]
      /\ Append(s, e)[Len(s) + 1] = e
  OBVIOUS
<1>2. 1..(Len(s) + 1) = 1..Len(s) \cup {Len(s) + 1}
  BY <1>1
<1>3. Range(Append(s, e)) = Range(s) \cup {e}
  BY <1>1, <1>2 DEF Range
<1>4. IsInjective(s) /\ e \notin Range(s) => IsInjective(Append(s, e))
  BY <1>1, <1>2 DEF Range, IsInjective
<1>. QED BY <1>3, <1>4

\* Tail leaves the head out, for good where nothing is repeated.
LEMMA TailFacts ==
    ASSUME NEW S, NEW s \in Seq(S), s # << >>
    PROVE  /\ Head(s) \in Range(s)
           /\ Range(s) = {Head(s)} \cup Range(Tail(s))
           /\ IsInjective(s) => IsInjective(Tail(s)) /\ Head(s) \notin Range(Tail(s))
<1>1. Len(s) \in Nat \ {0} /\ DOMAIN s = 1..Len(s) /\ Head(s) = s[1]
  OBVIOUS
<1>2. /\ DOMAIN Tail(s) = 1..(Len(s) - 1)
      /\ \A i \in 1..(Len(s) - 1) : Tail(s)[i] = s[i + 1]
  BY <1>1
<1>3. Range(Tail(s)) \subseteq Range(s)
  BY <1>1, <1>2 DEF Range
<1>4. ASSUME NEW i \in 1..Len(s) PROVE s[i] \in {Head(s)} \cup Range(Tail(s))
  <2>1. CASE i = 1
    BY <1>1, <2>1
  <2>2. CASE i # 1
    <3>1. i - 1 \in DOMAIN Tail(s) /\ Tail(s)[i - 1] = s[i]
      BY <1>1, <1>2, <2>2
    <3>. QED BY <3>1 DEF Range
  <2>. QED BY <2>1, <2>2
<1>5. Head(s) \in Range(s) /\ Range(s) = {Head(s)} \cup Range(Tail(s))
  BY <1>1, <1>3, <1>4 DEF Range
<1>6. IsInjective(s) => IsInjective(Tail(s)) /\ Head(s) \notin Range(Tail(s))
  BY <1>1, <1>2 DEF Range, IsInjective
<1>. QED BY <1>5, <1>6

\* A joined sequence has the elements of both, and begins with the first.
LEMMA ConcatFacts ==
    ASSUME NEW S, NEW s \in Seq(S), NEW t \in Seq(S)
    PROVE  /\ Range(s \o t) = Range(s) \cup Range(t)
           /\ IsInjective(s) /\ IsInjective(t) /\ Range(s) \cap Range(t) = {}
                => IsInjective(s \o t)
           /\ SubSeq(s \o t, 1, Len(s)) = s
<1>1. /\ s \o t \in Seq(S) /\ Len(s \o t) = Len(s) + Len(t)
      /\ Len(s) \in Nat /\ Len(t) \in Nat
      /\ DOMAIN s = 1..Len(s) /\ DOMAIN t = 1..Len(t)
      /\ DOMAIN (s \o t) = 1..(Len(s) + Len(t))
  OBVIOUS
<1>2. /\ \A i \in 1..Len(s) : (s \o t)[i] = s[i]
      /\ \A i \in 1..Len(t) : (s \o t)[i + Len(s)] = t[i]
      /\ \A i \in (Len(s) + 1)..(Len(s) + Len(t)) : (s \o t)[i] = t[i - Len(s)]
  BY <1>1
<1>3. Range(s \o t) = Range(s) \cup Range(t)
  <2>1. ASSUME NEW i \in 1..(Len(s) + Len(t)) PROVE (s \o t)[i] \in Range(s) \cup Range(t)
    <3>1. CASE i <= Len(s)
      BY <1>1, <1>2, <3>1 DEF Range
    <3>2. CASE i > Len(s)
      <4>1. (s \o t)[i] = t[i - Len(s)] /\ i - Len(s) \in 1..Len(t)
        BY <1>1, <1>2, <3>2
      <4>. QED BY <1>1, <4>1 DEF Range
    <3>. QED BY <1>1, <3>1, <3>2
  <2>2. ASSUME NEW i \in 1..Len(s) PROVE s[i] \in Range(s \o t)
    <3>1. i \in DOMAIN (s \o t) /\ (s \o t)[i] = s[i]
      BY <1>1, <1>2
    <3>. QED BY <3>1 DEF Range
  <2>3. ASSUME NEW i \in 1..Len(t) PROVE t[i] \in Range(s \o t)
    <3>1. i + Len(s) \in DOMAIN (s \o t) /\ (s \o t)[i + Len(s)] = t[i]
      BY <1>1, <1>2
    <3>. QED BY <3>1 DEF Range
  <2>4. Range(s \o t) \subseteq Range(s) \cup Range(t)
    BY <1>1, <2>1 DEF Range
  <2>5. Range(s) \subseteq Range(s \o t) /\ Range(t) \subseteq Range(s \o t)
    BY <1>1, <2>2, <2>3 DEF Range
  <2>. QED BY <2>4, <2>5
<1>4. ASSUME IsInjective(s), IsInjective(t), Range(s) \cap Range(t) = {}
      PROVE  IsInjective(s \o t)
  <2> SUFFICES ASSUME NEW i \in 1..(Len(s) + Len(t)), NEW j \in 1..(Len(s) + Len(t)),
                      (s \o t)[i] = (s \o t)[j]
               PROVE  i = j
    BY <1>1 DEF IsInjective
  <2>1. \A k \in 1..Len(s), l \in 1..Len(t) : s[k] # t[l]
    BY <1>1, <1>4 DEF Range
  <2>2. CASE i <= Len(s) /\ j <= Len(s)
    BY <1>1, <1>2, <1>4, <2>2 DEF IsInjective
  <2>3. CASE i > Len(s) /\ j > Len(s)
    <3>1. t[i - Len(s)] = t[j - Len(s)]
      BY <1>1, <1>2, <2>3
    <3>. QED BY <1>1, <1>4, <2>3, <3>1 DEF IsInjective
  <2>4. CASE i <= Len(s) /\ j > Len(s)
    BY <1>1, <1>2, <2>1, <2>4
  <2>5. CASE i > Len(s) /\ j <= Len(s)
    BY <1>1, <1>2, <2>1, <2>5
  <2>. QED BY <1>1, <2>2, <2>3, <2>4, <2>5
<1>5. SubSeq(s \o t, 1, Len(s)) = s
  <2>1. /\ SubSeq(s \o t, 1, Len(s)) \in Seq(S)
        /\ Len(SubSeq(s \o t, 1, Len(s))) = Len(s)
        /\ \A i \in 1..Len(s) : SubSeq(s \o t, 1, Len(s))[i] = (s \o t)[i]
    BY <1>1
  <2>. QED BY <1>1, <1>2, <2>1
<1>. QED BY <1>3, <1>4, <1>5

\* To move the head of one sequence to the end of another does not change the two
\* joined.
LEMMA MoveFacts ==
    ASSUME NEW S, NEW s \in Seq(S), NEW t \in Seq(S), t # << >>
    PROVE  Append(s, Head(t)) \o Tail(t) = s \o t
<1> DEFINE u == Append(s, Head(t)) \o Tail(t)
<1>1. /\ Len(s) \in Nat /\ Len(t) \in Nat \ {0} /\ Head(t) = t[1] /\ t[1] \in S
      /\ Tail(t) \in Seq(S) /\ Len(Tail(t)) = Len(t) - 1
      /\ \A i \in 1..(Len(t) - 1) : Tail(t)[i] = t[i + 1]
  OBVIOUS
<1>2. /\ Append(s, Head(t)) \in Seq(S) /\ Len(Append(s, Head(t))) = Len(s) + 1
      /\ \A i \in 1..Len(s) : Append(s, Head(t))[i] = s[i]
      /\ Append(s, Head(t))[Len(s) + 1] = t[1]
  BY <1>1
<1>3. /\ s \o t \in Seq(S) /\ Len(s \o t) = Len(s) + Len(t)
      /\ \A i \in 1..(Len(s) + Len(t)) :
            (s \o t)[i] = IF i <= Len(s) THEN s[i] ELSE t[i - Len(s)]
  BY <1>1
<1>4. /\ u \in Seq(S) /\ Len(u) = Len(s) + Len(t)
      /\ \A i \in 1..(Len(s) + Len(t)) :
            u[i] = IF i <= Len(s) + 1 THEN Append(s, Head(t))[i] ELSE Tail(t)[i - (Len(s) + 1)]
  BY <1>1, <1>2
<1>5. ASSUME NEW i \in 1..(Len(s) + Len(t)) PROVE u[i] = (s \o t)[i]
  <2>1. CASE i <= Len(s)
    BY <1>1, <1>2, <1>3, <1>4, <2>1
  <2>2. CASE i = Len(s) + 1
    BY <1>1, <1>2, <1>3, <1>4, <2>2
  <2>3. CASE i > Len(s) + 1
    BY <1>1, <1>3, <1>4, <2>3
  <2>. QED BY <1>1, <2>1, <2>2, <2>3
<1>6. u = s \o t
  <2> HIDE DEF u
  <2>1. u \in Seq(S) /\ s \o t \in Seq(S) /\ Len(u) = Len(s \o t)
    BY <1>3, <1>4
  <2>2. \A i \in 1..Len(u) : u[i] = (s \o t)[i]
    BY <1>4, <1>5
  <2>. QED BY <2>1, <2>2, SeqEqual
<1>. QED BY <1>6

\* To take the head of a first sequence is to take the head of the two joined.
LEMMA JoinedHead ==
    ASSUME NEW S, NEW s \in Seq(S), NEW t \in Seq(S), s # << >>
    PROVE  Tail(s) \o t = Tail(s \o t) /\ s \o t # << >> /\ Head(s) = (s \o t)[1]
<1>0. /\ s \o t \in Seq(S) /\ Len(s \o t) = Len(s) + Len(t)
      /\ Len(s) \in Nat /\ Len(t) \in Nat
      /\ \A i \in 1..(Len(s) + Len(t)) :
            (s \o t)[i] = IF i <= Len(s) THEN s[i] ELSE t[i - Len(s)]
  OBVIOUS
<1>1. /\ Len(s) > 0 /\ Tail(s) \in Seq(S) /\ Len(Tail(s)) = Len(s) - 1 /\ Head(s) = s[1]
      /\ \A i \in 1..(Len(s) - 1) : Tail(s)[i] = s[i + 1]
  BY <1>0
<1>2. /\ s \o t # << >> /\ Head(s) = (s \o t)[1]
      /\ Tail(s \o t) \in Seq(S) /\ Len(Tail(s \o t)) = Len(s) + Len(t) - 1
      /\ \A i \in 1..(Len(s) + Len(t) - 1) : Tail(s \o t)[i] = (s \o t)[i + 1]
  BY <1>0, <1>1
<1>3. /\ Tail(s) \o t \in Seq(S) /\ Len(Tail(s) \o t) = Len(s) + Len(t) - 1
      /\ \A i \in 1..(Len(s) + Len(t) - 1) :
            (Tail(s) \o t)[i] = IF i <= Len(s) - 1 THEN Tail(s)[i] ELSE t[i - (Len(s) - 1)]
  BY <1>0, <1>1
<1>4. ASSUME NEW i \in 1..(Len(s) + Len(t) - 1) PROVE (Tail(s) \o t)[i] = Tail(s \o t)[i]
  BY <1>0, <1>1, <1>2, <1>3
<1>5. Tail(s) \o t = Tail(s \o t)
  BY <1>0, <1>1, <1>2, <1>3, <1>4
<1>. QED BY <1>2, <1>5

\* To add to the end of a second sequence is to add to the end of the two joined.
LEMMA JoinedEnd ==
    ASSUME NEW S, NEW s \in Seq(S), NEW t \in Seq(S), NEW e \in S
    PROVE  s \o Append(t, e) = Append(s \o t, e)
<1>0. /\ s \o t \in Seq(S) /\ Len(s \o t) = Len(s) + Len(t)
      /\ Len(s) \in Nat /\ Len(t) \in Nat
      /\ \A i \in 1..(Len(s) + Len(t)) :
            (s \o t)[i] = IF i <= Len(s) THEN s[i] ELSE t[i - Len(s)]
  OBVIOUS
<1>1. /\ Append(t, e) \in Seq(S) /\ Len(Append(t, e)) = Len(t) + 1
      /\ \A i \in 1..Len(t) : Append(t, e)[i] = t[i]
      /\ Append(t, e)[Len(t) + 1] = e
  BY <1>0
<1>2. /\ s \o Append(t, e) \in Seq(S) /\ Len(s \o Append(t, e)) = Len(s) + Len(t) + 1
      /\ \A i \in 1..(Len(s) + Len(t) + 1) :
            (s \o Append(t, e))[i] = IF i <= Len(s) THEN s[i] ELSE Append(t, e)[i - Len(s)]
  BY <1>0, <1>1
<1>3. /\ Append(s \o t, e) \in Seq(S) /\ Len(Append(s \o t, e)) = Len(s) + Len(t) + 1
      /\ \A i \in 1..(Len(s) + Len(t)) : Append(s \o t, e)[i] = (s \o t)[i]
      /\ Append(s \o t, e)[Len(s) + Len(t) + 1] = e
  BY <1>0
<1>4. ASSUME NEW i \in 1..(Len(s) + Len(t) + 1)
      PROVE (s \o Append(t, e))[i] = Append(s \o t, e)[i]
  <2>1. CASE i <= Len(s)
    BY <1>0, <1>2, <1>3, <2>1
  <2>2. CASE i > Len(s) /\ i <= Len(s) + Len(t)
    BY <1>0, <1>1, <1>2, <1>3, <2>2
  <2>3. CASE i = Len(s) + Len(t) + 1
    BY <1>0, <1>1, <1>2, <1>3, <2>3
  <2>. QED BY <1>0, <2>1, <2>2, <2>3
<1>. QED BY <1>2, <1>3, <1>4

--------------------------------------------------------------------------------
(* Positions, and how many there are of them. *)

\* A set of naturals up to n that has 0 and with each number below n the next one
\* has them all: else adding 1 would map the numbers it has below the first gap
\* into one place less.
LEMMA FromZeroOn ==
    ASSUME NEW n \in Nat, NEW U \in SUBSET (0..n), 0 \in U,
           \A i \in U : i < n => i + 1 \in U
    PROVE  U = 0..n
<1>. SUFFICES ASSUME NEW m \in 0..n, m \notin U PROVE FALSE
  OBVIOUS
<1>. DEFINE V == {i \in U : i < m}
            f == [i \in V |-> i + 1]
<1>1. \A i \in V : i + 1 \in V \ {0}
  <2>. SUFFICES ASSUME NEW i \in V PROVE i + 1 \in V \ {0}
    OBVIOUS
  <2>1. i \in U /\ i < m /\ i \in Nat /\ i < n
    OBVIOUS
  <2>2. i + 1 \in U /\ i + 1 # m
    BY <2>1
  <2>. QED BY <2>1, <2>2
<1>2. 0 \in V
  OBVIOUS
<1>3. /\ IsFiniteSet(V) /\ IsFiniteSet(V \ {0}) /\ Cardinality(V) \in Nat
      /\ Cardinality(V \ {0}) = Cardinality(V) - 1
  <2>1. IsFiniteSet(0..n)
    BY FS_Interval
  <2>2. V \in SUBSET (0..n)
    OBVIOUS
  <2>3. IsFiniteSet(V)
    BY <2>1, <2>2, FS_Subset
  <2>. HIDE DEF V
  <2>. QED BY <1>2, <2>3, FS_RemoveElement, FS_CardinalityType
<1>4. f \in Injection(V, V \ {0})
  <2>1. f \in [V -> V \ {0}]
    BY <1>1
  <2>2. \A a, b \in V : f[a] = f[b] => a = b
    OBVIOUS
  <2>3. DOMAIN f = V
    OBVIOUS
  <2>. HIDE DEF V, f
  <2>. QED BY <2>1, <2>2, <2>3 DEF Injection, IsInjective
<1>5. Cardinality(V) <= Cardinality(V \ {0})
  <2>. HIDE DEF V, f
  <2>. QED BY <1>3, <1>4, FS_Injection DEF ExistsInjection
<1>. QED BY <1>3, <1>5

\* A set of positions that is not empty has a first and a last one.
LEMMA FirstAndLast ==
    ASSUME NEW n \in Nat, NEW K \in SUBSET (1..n), K # {}
    PROVE  /\ Min(K) \in K /\ \A i \in K : Min(K) <= i
           /\ Max(K) \in K /\ \A i \in K : Max(K) >= i
<1>1. \E i \in K : \A j \in K : i <= j
  <2>. SUFFICES ASSUME \A i \in K : \E j \in K : j < i PROVE FALSE
    OBVIOUS
  <2>. DEFINE U == {i \in 0..n : \A j \in K : j > i}
  <2>1. ASSUME NEW i \in U, i < n PROVE i + 1 \in U
    <3>1. i + 1 \notin K
      OBVIOUS
    <3>. QED BY <2>1, <3>1
  <2>2. 0 \in U /\ U \in SUBSET (0..n)
    OBVIOUS
  <2>3. U = 0..n
    <3>. HIDE DEF U
    <3>. QED BY <2>1, <2>2, FromZeroOn
  <2>4. n \in U
    <3>. HIDE DEF U
    <3>. QED BY <2>3
  <2>5. PICK j \in K : TRUE
    OBVIOUS
  <2>. QED BY <2>4, <2>5
<1>2. \E i \in K : \A j \in K : i >= j
  <2>. SUFFICES ASSUME \A i \in K : \E j \in K : j > i PROVE FALSE
    OBVIOUS
  <2>. DEFINE U == {i \in 0..n : \A j \in K : j <= n - i}
  <2>1. ASSUME NEW i \in U, i < n PROVE i + 1 \in U
    <3>1. n - i \notin K
      OBVIOUS
    <3>. QED BY <2>1, <3>1
  <2>2. 0 \in U /\ U \in SUBSET (0..n)
    OBVIOUS
  <2>3. U = 0..n
    <3>. HIDE DEF U
    <3>. QED BY <2>1, <2>2, FromZeroOn
  <2>4. n \in U
    <3>. HIDE DEF U
    <3>. QED BY <2>3
  <2>5. PICK j \in K : TRUE
    OBVIOUS
  <2>. QED BY <2>4, <2>5
<1>. QED BY <1>1, <1>2 DEF Min, Max

LEMMA UptoFacts ==
    ASSUME NEW n \in Nat
    PROVE  IsFiniteSet(1..n) /\ Cardinality(1..n) = n
<1>1. 1 \in Int /\ n \in Int /\ (1 > n <=> n = 0)
  OBVIOUS
<1>2. /\ IsFiniteSet(1..n)
      /\ Cardinality(1..n) = IF 1 > n THEN 0 ELSE n - 1 + 1
  BY <1>1, FS_Interval
<1>. QED BY <1>1, <1>2

\* The prefixes of a set of positions grow one element at a time, so that each
\* number up to the size of the set is the size of one.
LEMMA NthExists ==
    ASSUME NEW n \in Nat, NEW K \in SUBSET (1..n), NEW i \in 1..Cardinality(K)
    PROVE  /\ Nth(K, i) \in K
           /\ Cardinality(K \cap 1..Nth(K, i)) = i
<1>. DEFINE Upto(m) == Cardinality(K \cap 1..m)
            U == {m \in 0..n : Upto(m) < i}
<1>1. \A m \in 0..n : IsFiniteSet(K \cap 1..m) /\ Upto(m) \in Nat
  <2>. TAKE m \in 0..n
  <2>1. IsFiniteSet(1..m)
    BY FS_Interval
  <2>2. K \cap 1..m \in SUBSET (1..m)
    OBVIOUS
  <2>. QED BY <2>1, <2>2, FS_Subset, FS_CardinalityType
<1>2. Upto(0) = 0 /\ K \cap 1..n = K
  <2>1. K \cap 1..0 = {}
    OBVIOUS
  <2>. QED BY <2>1, FS_EmptySet
<1>3. i \in Nat \ {0} /\ n \notin U /\ 0 \in U
  <2>1. Cardinality(K) \in Nat
    BY <1>1, <1>2
  <2>. QED BY <2>1, <1>1, <1>2
<1>4. PICK m \in U : m < n /\ m + 1 \notin U
  <2>1. U \in SUBSET (0..n) /\ U # 0..n
    BY <1>3
  <2>. HIDE DEF U
  <2>. QED BY <1>3, <2>1, FromZeroOn
<1>5. m \in 0..n /\ m + 1 \in 1..n /\ Upto(m) < i /\ Upto(m + 1) >= i
  BY <1>1, <1>3, <1>4
<1>6. m + 1 \in K /\ K \cap 1..(m + 1) = (K \cap 1..m) \cup {m + 1}
  <2>1. 1..(m + 1) = 1..m \cup {m + 1}
    BY <1>5
  <2>2. CASE m + 1 \notin K
    <3>1. K \cap 1..(m + 1) = K \cap 1..m
      BY <2>1, <2>2
    <3>. QED BY <1>1, <1>3, <1>5, <3>1
  <2>. QED BY <2>1, <2>2
<1>7. Upto(m + 1) = Upto(m) + 1
  <2>1. m + 1 \notin K \cap 1..m
    BY <1>5
  <2>. QED BY <1>1, <1>5, <1>6, <2>1, FS_AddElement
<1>8. Upto(m + 1) = i
  BY <1>1, <1>3, <1>5, <1>7
<1>. QED BY <1>6, <1>8 DEF Nth

\* A subsequence has the elements at its positions, and is the whole sequence if
\* those are all.
LEMMA SubsequenceFacts ==
    ASSUME NEW S, NEW s \in Seq(S), NEW K \in SUBSET DOMAIN s
    PROVE  /\ IsFiniteSet(K)
           /\ Len(Subsequence(s, K)) = Cardinality(K)
           /\ \A i \in DOMAIN Subsequence(s, K) : \E p \in K : Subsequence(s, K)[i] = s[p]
           /\ Subsequence(s, K) \in Seq({s[p] : p \in K})
           /\ K = DOMAIN s => Subsequence(s, K) = s
<1>1. DOMAIN s = 1..Len(s) /\ Len(s) \in Nat /\ s = [i \in 1..Len(s) |-> s[i]]
  OBVIOUS
<1>2. IsFiniteSet(K) /\ Cardinality(K) \in Nat
  <2>1. IsFiniteSet(1..Len(s)) /\ K \in SUBSET (1..Len(s))
    BY <1>1, UptoFacts
  <2>. QED BY <2>1, FS_Subset, FS_CardinalityType
<1>3. \A i \in 1..Cardinality(K) : Nth(K, i) \in K /\ Cardinality(K \cap 1..Nth(K, i)) = i
  BY <1>1, NthExists
<1>4. \A i \in 1..Cardinality(K) : Subsequence(s, K)[i] \in {s[p] : p \in K}
  BY <1>3 DEF Subsequence
<1>5. /\ Len(Subsequence(s, K)) = Cardinality(K)
      /\ DOMAIN Subsequence(s, K) = 1..Cardinality(K)
      /\ Subsequence(s, K) \in Seq({s[p] : p \in K})
  BY <1>2, <1>4 DEF Subsequence
<1>6. ASSUME K = DOMAIN s PROVE Subsequence(s, K) = s
  <2>1. Cardinality(K) = Len(s)
    BY <1>1, <1>6, UptoFacts
  <2>2. ASSUME NEW i \in 1..Len(s) PROVE Nth(K, i) = i
    <3>1. Nth(K, i) \in 1..Len(s) /\ Cardinality(K \cap 1..Nth(K, i)) = i
      BY <1>1, <1>3, <1>6, <2>1
    <3>2. K \cap 1..Nth(K, i) = 1..Nth(K, i)
      BY <1>1, <1>6, <3>1
    <3>3. Nth(K, i) \in Nat
      BY <1>1, <3>1
    <3>4. Cardinality(1..Nth(K, i)) = Nth(K, i)
      BY <3>3, UptoFacts
    <3>. QED BY <3>1, <3>2, <3>4
  <2>. QED BY <1>1, <2>1, <2>2 DEF Subsequence
<1>. QED BY <1>2, <1>4, <1>5, <1>6

\* A function defined by recursion over the numbers up to n, with a function for each
\* step, exists.
Steps(n, D) == [1..n -> [D -> D]]

Follows(f, n, a, G) == f[0] = a /\ \A i \in 1..n : f[i] = G[i][f[i - 1]]

LEMMA Recursion ==
    ASSUME NEW n \in Nat, NEW D, NEW a \in D, NEW G \in Steps(n, D)
    PROVE  \E f \in [0..n -> D] : Follows(f, n, a, G)
<1>. USE DEF Steps
<1>. DEFINE Begins(f, m) == f[0] = a /\ \A i \in 1..m : f[i] = G[i][f[i - 1]]
            U == {m \in 0..n : \E f \in [0..n -> D] : Begins(f, m)}
<1>1. 0 \in U
  <2>1. [i \in 0..n |-> a] \in [0..n -> D] /\ Begins([i \in 0..n |-> a], 0)
    OBVIOUS
  <2>2. \E f \in [0..n -> D] : Begins(f, 0)
    <3>. HIDE DEF Begins
    <3>. QED BY <2>1
  <2>. QED BY <2>2
<1>2. ASSUME NEW m \in U, m < n PROVE m + 1 \in U
  <2>1. PICK f \in [0..n -> D] : Begins(f, m)
    OBVIOUS
  <2>. DEFINE g == [f EXCEPT ![m + 1] = G[m + 1][f[m]]]
  <2>2. m \in 0..n /\ m + 1 \in 1..n /\ f[m] \in D
    BY <1>2
  <2>3. g \in [0..n -> D] /\ g[0] = a /\ g[m + 1] = G[m + 1][g[m]]
    BY <2>1, <2>2
  <2>4. \A i \in 1..m : g[i] = f[i] /\ g[i - 1] = f[i - 1]
    BY <2>2
  <2>5. \A i \in 1..m : g[i] = G[i][g[i - 1]]
    BY <2>1, <2>4
  <2>6. Begins(g, m + 1)
    BY <2>2, <2>3, <2>5
  <2>7. \E h \in [0..n -> D] : Begins(h, m + 1)
    <3>. HIDE DEF Begins, g
    <3>. QED BY <2>3, <2>6
  <2>. QED BY <2>2, <2>7
<1>3. n \in U
  <2>1. U \in SUBSET (0..n)
    OBVIOUS
  <2>. HIDE DEF U
  <2>. QED BY <1>1, <1>2, <2>1, FromZeroOn
<1>. QED BY <1>3 DEF Follows

\* The i-th element at a position in K is the one that has i - 1 before it.
LEMMA NthOfRank ==
    ASSUME NEW n \in Nat, NEW K \in SUBSET (1..n), NEW p \in K
    PROVE  /\ Cardinality(K \cap 1..p) \in 1..Cardinality(K)
           /\ Nth(K, Cardinality(K \cap 1..p)) = p
<1>1. \A q \in K : IsFiniteSet(K \cap 1..q) /\ Cardinality(K \cap 1..q) \in Nat
  <2>. TAKE q \in K
  <2>1. IsFiniteSet(1..q) /\ K \cap 1..q \in SUBSET (1..q)
    BY UptoFacts
  <2>. QED BY <2>1, FS_Subset, FS_CardinalityType
<1>2. IsFiniteSet(K) /\ Cardinality(K) \in Nat
  BY UptoFacts, FS_Subset, FS_CardinalityType
<1>3. Cardinality(K \cap 1..p) \in 1..Cardinality(K)
  <2>1. Cardinality(K \cap 1..p) <= Cardinality(K)
    <3>1. K \cap 1..p \in SUBSET K
      OBVIOUS
    <3>. QED BY <1>2, <3>1, FS_Subset
  <2>2. Cardinality(K \cap 1..p) # 0
    <3>1. p \in K \cap 1..p
      OBVIOUS
    <3>. QED BY <1>1, <3>1, FS_EmptySet
  <2>. QED BY <1>1, <1>2, <2>1, <2>2
<1>4. ASSUME NEW q \in K, NEW r \in K, q < r
      PROVE  Cardinality(K \cap 1..q) # Cardinality(K \cap 1..r)
  <2>. DEFINE Q == K \cap 1..q
              R == K \cap 1..r
  <2>1. Q \in SUBSET (R \ {r}) /\ r \in R
    BY <1>4
  <2>2. IsFiniteSet(R) /\ Cardinality(R) \in Nat /\ Cardinality(Q) \in Nat
    BY <1>1
  <2>. HIDE DEF Q, R
  <2>3. IsFiniteSet(R \ {r}) /\ Cardinality(R \ {r}) = Cardinality(R) - 1
    BY <2>1, <2>2, FS_RemoveElement
  <2>4. Cardinality(Q) <= Cardinality(R \ {r})
    BY <2>1, <2>3, FS_Subset
  <2>5. Cardinality(Q) # Cardinality(R)
    BY <2>2, <2>3, <2>4
  <2>. QED BY <2>5 DEF Q, R
<1>5. /\ Nth(K, Cardinality(K \cap 1..p)) \in K
      /\ Cardinality(K \cap 1..Nth(K, Cardinality(K \cap 1..p))) = Cardinality(K \cap 1..p)
  BY <1>3, NthExists
<1>6. ASSUME NEW q \in K, Cardinality(K \cap 1..q) = Cardinality(K \cap 1..p) PROVE q = p
  <2>1. q \in Nat /\ p \in Nat
    OBVIOUS
  <2>2. ~(q < p) /\ ~(p < q)
    BY <1>4, <1>6
  <2>. QED BY <2>1, <2>2
<1>. QED BY <1>3, <1>5, <1>6

--------------------------------------------------------------------------------
(* How many elements of a sequence are in a set. *)

Positions(s, C) == {i \in DOMAIN s : s[i] \in C}

LEMMA PositionsFinite ==
    ASSUME NEW S, NEW s \in Seq(S), NEW C
    PROVE  IsFiniteSet(Positions(s, C)) /\ Cardinality(Positions(s, C)) \in 0..Len(s)
<1>1. Positions(s, C) \in SUBSET (1..Len(s)) /\ Len(s) \in Nat
  BY DEF Positions
<1>2. IsFiniteSet(1..Len(s)) /\ Cardinality(1..Len(s)) = Len(s)
  BY <1>1, UptoFacts
<1>3. IsFiniteSet(Positions(s, C)) /\ Cardinality(Positions(s, C)) <= Len(s)
  BY <1>1, <1>2, FS_Subset
<1>4. Cardinality(Positions(s, C)) \in Nat
  BY <1>3, FS_CardinalityType
<1>. QED BY <1>1, <1>3, <1>4

\* Where elements of s are found again at places of their own, t has as many.
LEMMA FoundAgain ==
    ASSUME NEW S, NEW s \in Seq(S), NEW t \in Seq(S), NEW C,
           NEW A \in SUBSET Positions(s, C), NEW f \in [A -> Positions(t, C)],
           \A i, j \in A : f[i] = f[j] => i = j
    PROVE  /\ IsFiniteSet(A) /\ Cardinality(A) \in Nat
           /\ Cardinality(A) <= Cardinality(Positions(t, C))
<1>1. IsFiniteSet(A) /\ Cardinality(A) \in Nat /\ IsFiniteSet(Positions(t, C))
  BY PositionsFinite, FS_Subset, FS_CardinalityType
<1>2. f \in Injection(A, Positions(t, C))
  BY DEF Injection, IsInjective
<1>. QED BY <1>1, <1>2, FS_Injection DEF ExistsInjection

\* The same when one of them is left out: t has one less, at most.
LEMMA FoundButOne ==
    ASSUME NEW S, NEW s \in Seq(S), NEW t \in Seq(S), NEW C, NEW n \in DOMAIN s,
           NEW f \in [Positions(s, C) \ {n} -> Positions(t, C)],
           \A i, j \in Positions(s, C) \ {n} : f[i] = f[j] => i = j
    PROVE  Cardinality(Positions(s, C)) <= Cardinality(Positions(t, C)) + 1
<1>. DEFINE A == Positions(s, C) \ {n}
<1>1. /\ IsFiniteSet(Positions(s, C)) /\ Cardinality(Positions(s, C)) \in Nat
      /\ Cardinality(Positions(t, C)) \in Nat
  BY PositionsFinite
<1>2. Cardinality(A) <= Cardinality(Positions(t, C)) /\ Cardinality(A) \in Nat
  <2>1. A \in SUBSET Positions(s, C) /\ f \in [A -> Positions(t, C)]
        /\ \A i, j \in A : f[i] = f[j] => i = j
    OBVIOUS
  <2>. HIDE DEF A
  <2>. QED BY <2>1, FoundAgain
<1>3. Cardinality(Positions(s, C)) <= Cardinality(A) + 1
  <2>. DEFINE P == Positions(s, C)
  <2>1. IsFiniteSet(P) /\ Cardinality(P) \in Nat /\ Cardinality(A) \in Nat /\ A = P \ {n}
    BY <1>1, <1>2
  <2>. HIDE DEF A, P
  <2>2. CASE n \in P
    <3>1. Cardinality(P \ {n}) = Cardinality(P) - 1
      BY <2>1, <2>2, FS_RemoveElement
    <3>2. Cardinality(A) = Cardinality(P) - 1
      BY <2>1, <3>1
    <3>3. Cardinality(P) <= Cardinality(A) + 1
      BY <2>1, <3>2
    <3>. QED BY <3>3 DEF P
  <2>3. CASE n \notin P
    <3>1. A = P
      BY <2>1, <2>3
    <3>2. Cardinality(A) \in Nat /\ Cardinality(A) = Cardinality(P)
      BY <2>1, <3>1, Zenon
    <3>3. Cardinality(P) <= Cardinality(A) + 1
      BY <3>2
    <3>. QED BY <3>3 DEF P
  <2>. QED BY <2>2, <2>3
<1>4. ASSUME NEW x \in Nat, NEW y \in Nat, NEW z \in Nat, x <= y + 1, y <= z PROVE x <= z + 1
  BY <1>4
<1>. HIDE DEF A
<1>. QED BY <1>1, <1>2, <1>3, <1>4

================================================================================
