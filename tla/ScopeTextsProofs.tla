---------------------------- MODULE ScopeTextsProofs ----------------------------
(***************************************************************************)
(* Lemmas about texts and the operations on them: cutting and joining, the *)
(* last place of a character, prefixes, the two filters by scope.          *)
(***************************************************************************)
EXTENDS ScopeTexts, SequenceTheorems, WellFoundedInduction, TLAPS

\* A text is what it is cut into.
LEMMA CutAndJoined ==
    ASSUME NEW T, NEW x \in Seq(T), NEW n \in 1..Len(x)
    PROVE  /\ SubSeq(x, 1, n - 1) \in Seq(T) /\ SubSeq(x, n + 1, Len(x)) \in Seq(T)
           /\ Len(SubSeq(x, 1, n - 1)) = n - 1
           /\ Len(SubSeq(x, n + 1, Len(x))) = Len(x) - n
           /\ \A i \in 1..(n - 1) : SubSeq(x, 1, n - 1)[i] = x[i]
           /\ \A i \in 1..(Len(x) - n) : SubSeq(x, n + 1, Len(x))[i] = x[n + i]
  OBVIOUS

\* What stands where in a concatenation.
LEMMA Concatenated ==
    ASSUME NEW T, NEW u \in Seq(T), NEW v \in Seq(T)
    PROVE  /\ u \o v \in Seq(T) /\ Len(u \o v) = Len(u) + Len(v)
           /\ \A i \in 1..Len(u) : (u \o v)[i] = u[i]
           /\ \A i \in 1..Len(v) : (u \o v)[Len(u) + i] = v[i]
  OBVIOUS

\* A set of naturals up to some bound has a greatest element.
LEMMA GreatestExists ==
    ASSUME NEW n \in Nat, NEW S \in SUBSET (0..n), S # {}
    PROVE  \E m \in S : \A i \in S : m >= i
  <1> DEFINE below == {n - i : i \in S}
  <1>1. below \subseteq Nat /\ below # {}
    <2>1. ASSUME NEW i \in S
          PROVE  n - i \in Nat
      <3>1. i \in 0..n
        OBVIOUS
      <3> QED
        BY <3>1
    <2>2. PICK i \in S : TRUE
      OBVIOUS
    <2>3. n - i \in below
      OBVIOUS
    <2> QED
      BY <2>1, <2>3
  <1>2. IsWellFoundedOn({ss \in Nat \X Nat : ss[1] < ss[2]}, Nat)
    BY NatLessThanWellFounded DEF OpToRel
  <1> DEFINE R == {ss \in Nat \X Nat : ss[1] < ss[2]}
  <1>3. IsWellFoundedOn(R, Nat)
    BY <1>2
  <1> HIDE DEF below, R
  <1>4. \E x \in below : \A y \in below : ~ (<<y, x>> \in R)
    BY <1>1, <1>3, WFMin
  <1>5. PICK x \in below : \A y \in below : ~ (<<y, x>> \in R)
    BY <1>4
  <1>6. \A y \in below : ~(y < x)
    BY <1>1, <1>5 DEF R
  <1>7. PICK m \in S : x = n - m
    BY DEF below
  <1>8. ASSUME NEW i \in S
        PROVE  m >= i
    <2>1. n - i \in below
      BY DEF below
    <2>2. ~(n - i < n - m)
      BY <2>1, <1>6, <1>7
    <2> QED
      BY <2>2
  <1> QED
    BY <1>8

\* The last position of a character is one, and there is none behind it.
LEMMA LastOfExists ==
    ASSUME NEW T, NEW text \in Seq(T), NEW c, \E i \in DOMAIN text : text[i] = c
    PROVE  /\ LastOf(c, text) \in 1..Len(text)
           /\ text[LastOf(c, text)] = c
           /\ \A i \in 1..Len(text) : text[i] = c => i <= LastOf(c, text)
  <1> DEFINE S == {i \in DOMAIN text : text[i] = c}
  <1>1. S \in SUBSET (0..Len(text)) /\ S # {} /\ Len(text) \in Nat
    OBVIOUS
  <1>2. \A i \in S : i \in 1..Len(text) /\ text[i] = c
    OBVIOUS
  <1>3. \A i \in 1..Len(text) : text[i] = c => i \in S
    OBVIOUS
  <1> HIDE DEF S
  <1>4. \E m \in S : \A i \in S : m >= i
    BY <1>1, GreatestExists
  <1>5. Max(S) \in S /\ \A i \in S : Max(S) >= i
    BY <1>4 DEF Max
  <1> HIDE DEF Max
  <1>6. LastOf(c, text) = Max(S)
    BY DEF LastOf, S
  <1>7. \A i \in 1..Len(text) : text[i] = c => i <= Max(S)
    BY <1>1, <1>3, <1>5
  <1> QED
    BY <1>2, <1>5, <1>6, <1>7

\* The last position of a character.
LEMMA LastOfIs ==
    ASSUME NEW T, NEW text \in Seq(T), NEW c, NEW n \in 1..Len(text), text[n] = c,
           \A i \in 1..Len(text) : i > n => text[i] # c
    PROVE  LastOf(c, text) = n
  <1> DEFINE S == {i \in DOMAIN text : text[i] = c}
  <1>1. n \in S /\ n \in Nat /\ \A y \in S : n >= y /\ y \in Nat
    OBVIOUS
  <1> HIDE DEF S
  <1>2. Max(S) = n
    <2>1. Max(S) \in S /\ \A y \in S : Max(S) >= y
      BY <1>1 DEF Max
    <2>2. Max(S) \in Nat /\ n >= Max(S) /\ Max(S) >= n
      BY <1>1, <2>1
    <2> HIDE DEF Max
    <2> QED
      BY <1>1, <2>2
  <1> QED
    BY <1>2 DEF LastOf, S

\* What a prefix is, position by position.
LEMMA PrefixIs ==
    ASSUME NEW T, NEW s \in Seq(T), NEW t \in Seq(T)
    PROVE  IsPrefix(s, t) <=> Len(s) <= Len(t) /\ \A i \in 1..Len(s) : s[i] = t[i]
  <1> DEFINE a == SubSeq(s, 1, Len(s))
             b == SubSeq(t, 1, Len(s))
  <1>1. Len(s) \in Nat /\ Len(t) \in Nat
    OBVIOUS
  <1>2. a \in Seq(T) /\ Len(a) = Len(s) /\ \A i \in 1..Len(s) : a[i] = s[i]
    OBVIOUS
  <1>3. Len(s) <= Len(t) =>
            b \in Seq(T) /\ Len(b) = Len(s) /\ \A i \in 1..Len(s) : b[i] = t[i]
    OBVIOUS
  <1>4. IsPrefix(s, t) <=> Len(s) <= Len(t) /\ a = b
    BY DEF IsPrefix
  <1> HIDE DEF a, b
  <1>5. ASSUME Len(s) <= Len(t)
        PROVE  a = b <=> \A i \in 1..Len(s) : s[i] = t[i]
    <2>1. ASSUME a = b
          PROVE  \A i \in 1..Len(s) : s[i] = t[i]
      BY <1>2, <1>3, <1>5, <2>1
    <2>2. ASSUME \A i \in 1..Len(s) : s[i] = t[i]
          PROVE  a = b
      <3>1. \A i \in 1..Len(a) : a[i] = b[i]
        BY <1>2, <1>3, <1>5, <2>2
      <3> QED
        BY <1>2, <1>3, <1>5, <3>1, SeqEqual
    <2> QED
      BY <2>1, <2>2
  <1> QED
    BY <1>4, <1>5

\* What stands where after a slash is appended.
LEMMA SlashAppended ==
    ASSUME NEW T, NEW s \in Seq(T), "/" \in T
    PROVE  /\ Append(s, "/") \in Seq(T)
           /\ Len(Append(s, "/")) = Len(s) + 1
           /\ \A i \in 1..Len(s) : Append(s, "/")[i] = s[i]
           /\ Append(s, "/")[Len(s) + 1] = "/"
  OBVIOUS

\* The filter of list takes whatever an ancestor may read
\* (scope.rs:80-90, fileverse.rs:244-251).
LEMMA AncestorsList ==
    ASSUME NEW T, NEW s \in Seq(T), NEW d \in Seq(T), "/" \in T, IsAncestorText(s, d)
    PROVE  InList(s, d)
  <1>1. CASE s = RootText \/ s = d
    BY <1>1 DEF InList
  <1>2. CASE IsPrefix(s, d) /\ Len(d) > Len(s) /\ d[Len(s) + 1] = "/"
    <2> DEFINE a == Append(s, "/")
    <2>1. /\ a \in Seq(T) /\ Len(a) = Len(s) + 1 /\ a[Len(s) + 1] = "/"
          /\ \A i \in 1..Len(s) : a[i] = s[i]
      BY SlashAppended
    <2>2. \A i \in 1..Len(s) : s[i] = d[i]
      BY <1>2, PrefixIs
    <2>3. Len(s) \in Nat /\ Len(d) \in Nat
      OBVIOUS
    <2> HIDE DEF a
    <2>4. Len(a) <= Len(d)
      BY <1>2, <2>1, <2>3
    <2>5. \A i \in 1..Len(a) : i \in 1..Len(s) \/ i = Len(s) + 1
      BY <2>1, <2>3
    <2>6. \A i \in 1..Len(a) : a[i] = d[i]
      BY <1>2, <2>1, <2>2, <2>5
    <2>7. IsPrefix(a, d)
      BY <2>1, <2>4, <2>6, PrefixIs
    <2> QED
      BY <2>7 DEF InList, a
  <1> QED
    BY <1>1, <1>2 DEF IsAncestorText

\* And takes nothing else: it is the ancestor test in other words.
LEMMA ListedHaveAncestors ==
    ASSUME NEW T, NEW s \in Seq(T), NEW d \in Seq(T), "/" \in T, InList(s, d)
    PROVE  IsAncestorText(s, d)
  <1> DEFINE a == Append(s, "/")
  <1>1. /\ a \in Seq(T) /\ Len(a) = Len(s) + 1 /\ a[Len(s) + 1] = "/"
        /\ \A i \in 1..Len(s) : a[i] = s[i]
    BY SlashAppended
  <1>2. Len(s) \in Nat /\ Len(d) \in Nat
    OBVIOUS
  <1>3. CASE s = d \/ s = RootText
    BY <1>3 DEF IsAncestorText
  <1>4. CASE IsPrefix(a, d)
    <2> HIDE DEF a
    <2>1. Len(a) <= Len(d) /\ \A i \in 1..Len(a) : a[i] = d[i]
      BY <1>1, <1>4, PrefixIs
    <2>2. Len(d) > Len(s) /\ Len(s) <= Len(d)
      BY <1>1, <1>2, <2>1
    <2>3. Len(s) + 1 \in 1..Len(a) /\ \A i \in 1..Len(s) : i \in 1..Len(a)
      BY <1>1, <1>2
    <2>4. d[Len(s) + 1] = "/" /\ \A i \in 1..Len(s) : s[i] = d[i]
      BY <1>1, <2>1, <2>3
    <2>5. IsPrefix(s, d)
      BY <2>2, <2>4, PrefixIs
    <2> QED
      BY <2>2, <2>4, <2>5 DEF IsAncestorText
  <1> QED
    BY <1>3, <1>4 DEF InList

===============================================================================
