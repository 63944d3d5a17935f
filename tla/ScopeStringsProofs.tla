--------------------------- MODULE ScopeStringsProofs ---------------------------
(***************************************************************************)
(* Proofs about ScopeStrings, for texts of any length over any letters.    *)
(***************************************************************************)
EXTENDS ScopeStrings, ScopeTextsProofs, FiniteSetTheorems

-------------------------------------------------------------------------------
(* The moves stay within the scopes *)

\* The root is a scope.
LEMMA RootIsValid == RootText \in Seq(Char) /\ Valid(RootText)
  <1>1. /\ RootText \in Seq(Char) /\ Len(RootText) = 1 /\ RootText[1] = "/"
        /\ RootText # <<>>
    BY DEF RootText, Char
  <1>2. 1..(1 - 1) = {} /\ 2..1 = {}
    OBVIOUS
  <1> QED
    BY <1>1, <1>2 DEF Valid

\* The parent of a scope is a scope (scope.rs:107-116).
LEMMA ParentIsValid ==
    ASSUME NEW s \in Seq(Char), Valid(s)
    PROVE  Parent(s) \in Seq(Char) /\ Valid(Parent(s))
  <1> DEFINE pos == LastOf("/", s)
             p == SubSeq(s, 1, pos - 1)
  <1>1. /\ s # <<>> /\ s[1] = "/"
        /\ \A i \in 1..(Len(s) - 1) : ~(s[i] = "/" /\ s[i + 1] = "/")
        /\ \A i \in 2..Len(s) : s[i] \in Letter \cup {"/"}
        /\ Len(s) \in Nat /\ 1 \in DOMAIN s
    BY DEF Valid
  <1>2. pos \in 1..Len(s) /\ s[pos] = "/"
    BY <1>1, LastOfExists
  <1>3. Parent(s) = IF pos = 1 THEN RootText ELSE p
    BY DEF Parent
  <1> HIDE DEF pos
  <1>4. CASE pos = 1
    BY <1>3, <1>4, RootIsValid
  <1>5. CASE pos # 1
    <2>1. /\ p \in Seq(Char) /\ Len(p) = pos - 1
          /\ \A i \in 1..(pos - 1) : p[i] = s[i]
      BY <1>2, CutAndJoined
    <2>2. pos - 1 \in 1..(Len(s) - 1) /\ (pos - 1) + 1 = pos /\ pos - 1 \in Nat
      BY <1>1, <1>2, <1>5
    <2> HIDE DEF p
    <2>3. p # <<>> /\ p[1] = "/"
      <3>1. 1 \in 1..(pos - 1)
        BY <2>2
      <3>2. p # <<>>
        BY <2>1, <2>2
      <3> QED
        BY <1>1, <2>1, <3>1, <3>2
    <2>4. Last(p) # "/"
      <3>1. Last(p) = s[pos - 1]
        BY <2>1, <2>2 DEF Last
      <3> QED
        BY <1>1, <1>2, <2>2, <3>1
    <2>5. ASSUME NEW i \in 1..(Len(p) - 1)
          PROVE  ~(p[i] = "/" /\ p[i + 1] = "/")
      <3>1. i \in 1..(Len(s) - 1) /\ i \in 1..(pos - 1) /\ i + 1 \in 1..(pos - 1)
        BY <1>1, <2>1, <2>2
      <3> QED
        BY <1>1, <2>1, <3>1
    <2>6. ASSUME NEW i \in 2..Len(p)
          PROVE  p[i] \in Letter \cup {"/"}
      <3>1. i \in 2..Len(s) /\ i \in 1..(pos - 1)
        BY <1>1, <2>1, <2>2
      <3> QED
        BY <1>1, <2>1, <3>1
    <2>7. Valid(p)
      BY <2>3, <2>4, <2>5, <2>6 DEF Valid
    <2> QED
      BY <1>3, <1>5, <2>1, <2>7
  <1> QED
    BY <1>4, <1>5

\* So is a child (scope.rs:119-143).
LEMMA ChildIsValid ==
    ASSUME NEW s \in Seq(Char), Valid(s), NEW segment \in Seq(Char), ValidSegment(segment)
    PROVE  Child(s, segment) \in Seq(Char) /\ Valid(Child(s, segment))
  <1> DEFINE base == IF s = RootText THEN RootText ELSE Append(s, "/")
             c == base \o segment
  <1>1. /\ s # <<>> /\ s[1] = "/" /\ Len(s) \in Nat
        /\ Len(s) > 1 => Last(s) # "/"
        /\ \A i \in 1..(Len(s) - 1) : ~(s[i] = "/" /\ s[i + 1] = "/")
        /\ \A i \in 2..Len(s) : s[i] \in Letter \cup {"/"}
    BY DEF Valid
  <1>2. /\ segment # <<>> /\ Len(segment) \in Nat /\ Len(segment) >= 1
        /\ \A i \in 1..Len(segment) : segment[i] \in Letter /\ segment[i] # "/"
    <2>1. segment # <<>> /\ \A i \in 1..Len(segment) : segment[i] \in Letter
      BY DEF ValidSegment
    <2>2. \A l \in Letter : l # "/"
      BY LetterAssumption
    <2> QED
      BY <2>1, <2>2
  <1>3. Child(s, segment) = c
    BY DEF Child
  \* The text in front of the segment: a scope's, with the only slash at its end.
  <1>4. /\ base \in Seq(Char) /\ Len(base) \in Nat /\ Len(base) >= 1
        /\ base[1] = "/" /\ base[Len(base)] = "/"
        /\ \A i \in 1..(Len(base) - 1) : ~(base[i] = "/" /\ base[i + 1] = "/")
        /\ \A i \in 2..Len(base) : base[i] \in Letter \cup {"/"}
    <2>1. CASE s = RootText
      <3>1. base = RootText
        BY <2>1
      <3>2. Len(RootText) = 1 /\ RootText[1] = "/" /\ RootText \in Seq(Char)
        BY RootIsValid DEF RootText
      <3>3. 1..(1 - 1) = {} /\ 2..1 = {} /\ 1 \in Nat
        OBVIOUS
      <3> HIDE DEF base
      <3> QED
        BY <3>1, <3>2, <3>3
    <2>2. CASE s # RootText
      <3>0. base = Append(s, "/")
        BY <2>2
      <3>1. "/" \in Char
        BY DEF Char
      <3> HIDE DEF base
      <3>2. /\ base \in Seq(Char) /\ Len(base) = Len(s) + 1 /\ base[Len(s) + 1] = "/"
            /\ \A i \in 1..Len(s) : base[i] = s[i]
        BY <3>0, <3>1, SlashAppended
      <3>3. Len(s) > 1
        <4>1. Len(s) # 0
          BY <1>1, EmptySeq
        <4>2. Len(s) # 1
          <5> SUFFICES ASSUME Len(s) = 1
                       PROVE  FALSE
            OBVIOUS
          <5>1. RootText \in Seq(Char) /\ Len(RootText) = 1 /\ RootText[1] = "/"
            BY RootIsValid DEF RootText
          <5>2. \A i \in 1..Len(s) : s[i] = RootText[i]
            BY <1>1, <5>1
          <5>3. s = RootText
            BY <5>1, <5>2, SeqEqual
          <5> QED
            BY <2>2, <5>3
        <4> QED
          BY <1>1, <4>1, <4>2
      <3>4. s[Len(s)] # "/"
        BY <1>1, <3>3 DEF Last
      <3>5. ASSUME NEW i \in 1..(Len(base) - 1)
            PROVE  ~(base[i] = "/" /\ base[i + 1] = "/")
        <4>1. CASE i = Len(s)
          BY <1>1, <3>2, <3>3, <3>4, <4>1
        <4>2. CASE i # Len(s)
          <5>1. i \in 1..(Len(s) - 1) /\ i \in 1..Len(s) /\ i + 1 \in 1..Len(s)
            BY <1>1, <3>2, <4>2
          <5> QED
            BY <1>1, <3>2, <5>1
        <4> QED
          BY <4>1, <4>2
      <3>6. ASSUME NEW i \in 2..Len(base)
            PROVE  base[i] \in Letter \cup {"/"}
        <4>1. i = Len(s) + 1 \/ (i \in 2..Len(s) /\ i \in 1..Len(s))
          BY <1>1, <3>2
        <4> QED
          BY <1>1, <3>2, <4>1
      <3>7. base[1] = "/" /\ Len(base) \in Nat /\ Len(base) >= 1
        BY <1>1, <3>2, <3>3
      <3> QED
        BY <3>2, <3>5, <3>6, <3>7
    <2> QED
      BY <2>1, <2>2
  <1> HIDE DEF base
  <1>5. /\ c \in Seq(Char) /\ Len(c) = Len(base) + Len(segment)
        /\ \A i \in 1..Len(base) : c[i] = base[i]
        /\ \A i \in 1..Len(segment) : c[Len(base) + i] = segment[i]
    BY <1>4, Concatenated
  <1> HIDE DEF c
  <1>6. ASSUME NEW i \in 1..Len(c), ~(i \in 1..Len(base))
        PROVE  c[i] \in Letter /\ c[i] # "/"
    <2>1. i - Len(base) \in 1..Len(segment) /\ Len(base) + (i - Len(base)) = i
      BY <1>2, <1>4, <1>5, <1>6
    <2>2. c[i] = segment[i - Len(base)]
      BY <1>5, <2>1
    <2> QED
      BY <1>2, <2>1, <2>2
  <1>7. c # <<>> /\ c[1] = "/" /\ Len(c) \in Nat
    <2>1. 1 \in 1..Len(base)
      BY <1>4
    <2>2. Len(c) # 0
      BY <1>2, <1>4, <1>5
    <2>3. Len(c) \in Nat
      BY <1>5
    <2> QED
      BY <1>4, <1>5, <2>1, <2>2, <2>3, EmptySeq
  <1>8. Last(c) # "/"
    <2>1. Len(c) \in 1..Len(c) /\ ~(Len(c) \in 1..Len(base))
      BY <1>2, <1>4, <1>5, <1>7
    <2>2. c[Len(c)] # "/"
      BY <1>6, <2>1
    <2> QED
      BY <2>2 DEF Last
  <1>9. ASSUME NEW i \in 1..(Len(c) - 1)
        PROVE  ~(c[i] = "/" /\ c[i + 1] = "/")
    <2>1. i \in 1..Len(c) /\ i + 1 \in 1..Len(c)
      BY <1>7
    <2>2. CASE i + 1 \in 1..Len(base)
      <3>1. i \in 1..(Len(base) - 1) /\ i \in 1..Len(base)
        BY <1>4, <2>1, <2>2
      <3> QED
        BY <1>4, <1>5, <2>2, <3>1
    <2>3. CASE ~(i + 1 \in 1..Len(base))
      BY <1>6, <2>1, <2>3
    <2> QED
      BY <2>2, <2>3
  <1>10. ASSUME NEW i \in 2..Len(c)
         PROVE  c[i] \in Letter \cup {"/"}
    <2>1. i \in 1..Len(c)
      BY <1>7
    <2>2. CASE i \in 1..Len(base)
      <3>1. i \in 2..Len(base)
        BY <1>4, <2>2
      <3> QED
        BY <1>4, <1>5, <2>2, <3>1
    <2>3. CASE ~(i \in 1..Len(base))
      BY <1>6, <2>1, <2>3
    <2> QED
      BY <2>2, <2>3
  <1>11. Valid(c)
    BY <1>7, <1>8, <1>9, <1>10 DEF Valid
  <1> QED
    BY <1>3, <1>5, <1>11

-------------------------------------------------------------------------------
(* Slashes *)

\* The positions of the slashes, as a set.
SlashesOf(s) == {i \in 1..Len(s) : s[i] = "/"}

\* How many slashes there are up to a position.
Rank(s, i) == Cardinality({j \in SlashesOf(s) : j <= i})

\* The slashes in order are the slashes.
LEMMA SlashesInOrder ==
    ASSUME NEW s \in Seq(Char)
    PROVE  LET d == Cardinality(SlashesOf(s))
           IN  /\ d \in Nat /\ Slashes(s) \in Seq(1..Len(s)) /\ Len(Slashes(s)) = d
               /\ \A n \in 1..d : /\ Slashes(s)[n] \in SlashesOf(s)
                                  /\ Rank(s, Slashes(s)[n]) = n
               /\ \A i \in SlashesOf(s) : Rank(s, i) \in 1..d /\ Slashes(s)[Rank(s, i)] = i
               /\ \A n, k \in 1..d : n < k => Slashes(s)[n] < Slashes(s)[k]
  <1> DEFINE at == SlashesOf(s)
             upTo(i) == {j \in at : j <= i}
             rank == [i \in at |-> Cardinality(upTo(i))]
             d == Cardinality(at)
  <1>1. Len(s) \in Nat /\ at \subseteq 1..Len(s) /\ IsFiniteSet(at) /\ d \in Nat
    <2>1. Len(s) \in Nat
      OBVIOUS
    <2>2. IsFiniteSet(1..Len(s))
      BY <2>1, FS_Interval
    <2>3. at \subseteq 1..Len(s)
      BY DEF SlashesOf
    <2> QED
      BY <2>1, <2>2, <2>3, FS_Subset, FS_CardinalityType
  <1>2. Slashes(s) = [n \in 1..d |-> CHOOSE i \in at : Cardinality(upTo(i)) = n]
    BY DEF Slashes, SlashesOf
  <1> HIDE DEF at
  <1>3. ASSUME NEW i \in at
        PROVE  /\ rank[i] \in 1..d /\ rank[i] = Cardinality(upTo(i))
               /\ IsFiniteSet(upTo(i))
    <2>1. IsFiniteSet(upTo(i)) /\ Cardinality(upTo(i)) <= d
      BY <1>1, FS_Subset
    <2>2. i \in upTo(i)
      BY <1>1
    <2>3. Cardinality(upTo(i)) \in Nat /\ Cardinality(upTo(i)) # 0
      BY <2>1, <2>2, FS_EmptySet, FS_CardinalityType
    <2> QED
      BY <1>1, <2>1, <2>3
  <1>4. ASSUME NEW i \in at, NEW k \in at, i < k
        PROVE  rank[i] < rank[k]
    <2>1. i \in Nat /\ k \in Nat /\ \A j \in at : j \in Nat
      BY <1>1
    <2>2. \A j \in at : j <= i => j <= k
      BY <1>4, <2>1
    <2>3. k <= k /\ ~(k <= i)
      BY <1>4, <2>1
    <2>4. upTo(i) \subseteq upTo(k) /\ k \in upTo(k) /\ k \notin upTo(i)
      BY <2>2, <2>3
    <2>5. Cardinality(upTo(i)) <= Cardinality(upTo(k)) /\ Cardinality(upTo(i)) # Cardinality(upTo(k))
      BY <1>3, <2>4, FS_Subset
    <2>6. rank[i] \in Nat /\ rank[k] \in Nat
      BY <1>3
    <2> QED
      BY <1>3, <2>5, <2>6
  <1>5. \A i \in at : Rank(s, i) = Cardinality(upTo(i))
    BY DEF Rank, at
  <1> HIDE DEF upTo, rank
  <1>6. \A i, k \in at : rank[i] = rank[k] => i = k
    <2>1. \A i, k \in at : i = k \/ i < k \/ k < i
      BY <1>1
    <2>2. \A i \in at : rank[i] \in Nat
      BY <1>3
    <2> QED
      BY <1>4, <2>1, <2>2
  <1>7. rank \in Injection(at, 1..d)
    BY <1>3, <1>6 DEF rank, Injection, IsInjective
  <1>8. IsFiniteSet(1..d) /\ Cardinality(1..d) = d
    BY <1>1, FS_Interval
  <1>9. rank \in Surjection(at, 1..d)
    BY <1>1, <1>7, <1>8, FS_Injection
  <1>10. \A n \in 1..d : \E i \in at : rank[i] = n
    BY <1>9 DEF Surjection
  <1>11. \A n \in 1..d : Slashes(s)[n] \in at /\ rank[Slashes(s)[n]] = n
    <2>1. \A n \in 1..d : Slashes(s)[n] = CHOOSE i \in at : Cardinality(upTo(i)) = n
      BY <1>2
    <2>2. \A n \in 1..d : \E i \in at : Cardinality(upTo(i)) = n
      BY <1>3, <1>10
    <2>3. \A n \in 1..d : Slashes(s)[n] \in at /\ Cardinality(upTo(Slashes(s)[n])) = n
      BY <2>1, <2>2
    <2> QED
      BY <1>3, <2>3
  <1>12. \A i \in at : Slashes(s)[rank[i]] = i
    BY <1>3, <1>6, <1>11
  <1>13. \A n, k \in 1..d : n < k => Slashes(s)[n] < Slashes(s)[k]
    <2> SUFFICES ASSUME NEW n \in 1..d, NEW k \in 1..d, n < k
                 PROVE  Slashes(s)[n] < Slashes(s)[k]
      OBVIOUS
    <2> DEFINE i == Slashes(s)[n]
               j == Slashes(s)[k]
    <2>1. i \in at /\ j \in at /\ rank[i] = n /\ rank[j] = k
      BY <1>11
    <2> HIDE DEF i, j
    <2>2. i \in Nat /\ j \in Nat /\ n \in Nat /\ k \in Nat
      BY <1>1, <2>1
    <2>3. i = j => n = k
      BY <2>1
    <2>4. j < i => k < n
      BY <1>4, <2>1
    <2>5. i < j
      BY <2>2, <2>3, <2>4
    <2> QED
      BY <2>5 DEF i, j
  <1>14. Slashes(s) \in Seq(1..Len(s)) /\ Len(Slashes(s)) = d
    <2>1. \A n \in 1..d : Slashes(s)[n] \in 1..Len(s)
      BY <1>1, <1>11
    <2>2. Slashes(s) \in [1..d -> 1..Len(s)]
      BY <1>2, <2>1
    <2> QED
      BY <1>1, <2>2
  <1>15. \A i \in at : Rank(s, i) = rank[i]
    BY <1>3, <1>5
  <1>16. \A n \in 1..d : Rank(s, Slashes(s)[n]) = n
    BY <1>11, <1>15
  <1>17. \A i \in at : Rank(s, i) \in 1..d /\ Slashes(s)[Rank(s, i)] = i
    BY <1>3, <1>12, <1>15
  <1>18. \A n \in 1..d : Slashes(s)[n] \in at
    BY <1>11
  <1> QED
    BY <1>1, <1>13, <1>14, <1>16, <1>17, <1>18 DEF at

-------------------------------------------------------------------------------
(* Cuts *)

\* How many slashes a text has.
Count(s) == Cardinality(SlashesOf(s))

\* Where a text is cut: at the slashes and behind its end.
Cut(s) == Append(Slashes(s), Len(s) + 1)

\* A piece of a text.
LEMMA Piece ==
    ASSUME NEW T, NEW x \in Seq(T), NEW a \in Nat, NEW b \in Nat, 1 <= a, a <= b + 1, b <= Len(x)
    PROVE  /\ SubSeq(x, a, b) \in Seq(T) /\ Len(SubSeq(x, a, b)) = b - a + 1
           /\ \A i \in 1..(b - a + 1) : SubSeq(x, a, b)[i] = x[a + i - 1]
  OBVIOUS

\* What Valid says of a scope other than the root.
LEMMA ValidScope ==
    ASSUME NEW s \in Seq(Char), Valid(s), s # RootText
    PROVE  /\ Len(s) \in Nat /\ Len(s) > 1 /\ s[1] = "/" /\ s[Len(s)] # "/"
           /\ \A i \in 1..(Len(s) - 1) : ~(s[i] = "/" /\ s[i + 1] = "/")
           /\ \A i \in 1..Len(s) : s[i] # "/" => s[i] \in Letter
  <1>1. /\ s # <<>> /\ s[1] = "/" /\ Len(s) \in Nat
        /\ Len(s) > 1 => Last(s) # "/"
        /\ \A i \in 1..(Len(s) - 1) : ~(s[i] = "/" /\ s[i + 1] = "/")
        /\ \A i \in 2..Len(s) : s[i] \in Letter \cup {"/"}
    BY DEF Valid
  <1>2. Len(s) # 0
    BY <1>1, EmptySeq
  <1>3. Len(s) # 1
    <2> SUFFICES ASSUME Len(s) = 1
                 PROVE  FALSE
      OBVIOUS
    <2>1. RootText \in Seq(Char) /\ Len(RootText) = 1 /\ RootText[1] = "/"
      BY DEF RootText, Char
    <2>2. \A i \in 1..Len(s) : s[i] = RootText[i]
      BY <1>1, <2>1
    <2> QED
      BY <2>1, <2>2, SeqEqual
  <1>4. \A i \in 1..Len(s) : i = 1 \/ i \in 2..Len(s)
    BY <1>1
  <1>5. Len(s) > 1
    <2>1. \A n \in Nat : n # 0 /\ n # 1 => n > 1
      OBVIOUS
    <2>2. Len(s) \in Nat
      OBVIOUS
    <2> QED
      BY <2>1, <2>2, <1>2, <1>3, Zenon
  <1>6. s[Len(s)] # "/"
    BY <1>1, <1>5 DEF Last
  <1> QED
    BY <1>1, <1>4, <1>5, <1>6

\* A scope is cut at its first character, behind its end, and between them at the
\* other slashes, with letters in between.
LEMMA Cuts ==
    ASSUME NEW s \in Seq(Char), Valid(s), s # RootText
    PROVE  LET d == Count(s)
               c == Cut(s)
           IN  /\ d \in Nat /\ d >= 1 /\ Len(c) = d + 1 /\ c \in Seq(Nat)
               /\ c[1] = 1 /\ c[d + 1] = Len(s) + 1
               /\ \A n \in 1..d : /\ c[n] \in 1..Len(s) /\ c[n + 1] \in 1..(Len(s) + 1)
                                  /\ c[n] = Slashes(s)[n]
                                  /\ s[c[n]] = "/" /\ c[n] + 2 <= c[n + 1]
               /\ \A n \in 1..d : \A i \in 1..Len(s) :
                      c[n] < i /\ i < c[n + 1] => s[i] \in Letter
  <1> DEFINE d == Count(s)
             c == Cut(s)
             sl == Slashes(s)
  <1>1. /\ Len(s) \in Nat /\ Len(s) > 1 /\ s[1] = "/" /\ s[Len(s)] # "/"
        /\ \A i \in 1..(Len(s) - 1) : ~(s[i] = "/" /\ s[i + 1] = "/")
        /\ \A i \in 1..Len(s) : s[i] # "/" => s[i] \in Letter
    BY ValidScope
  <1>2. /\ d \in Nat /\ sl \in Seq(1..Len(s)) /\ Len(sl) = d
        /\ \A n \in 1..d : sl[n] \in SlashesOf(s)
        /\ \A i \in SlashesOf(s) : Rank(s, i) \in 1..d /\ sl[Rank(s, i)] = i
        /\ \A n, k \in 1..d : n < k => sl[n] < sl[k]
    BY SlashesInOrder DEF Count
  <1>3. \A n \in 1..d : sl[n] \in 1..Len(s) /\ s[sl[n]] = "/"
    BY <1>2 DEF SlashesOf
  <1>4. 1 \in SlashesOf(s)
    BY <1>1 DEF SlashesOf
  <1> HIDE DEF sl, d
  <1>5. d >= 1
    BY <1>2, <1>4
  <1>6. sl[1] = 1
    <2> DEFINE r == Rank(s, 1)
    <2>1. r \in 1..d /\ sl[r] = 1
      BY <1>2, <1>4
    <2> HIDE DEF r
    <2>2. 1 \in 1..d /\ r \in Nat
      BY <1>2, <1>5, <2>1
    <2>3. 1 < r => sl[1] < 1
      BY <1>2, <2>1, <2>2
    <2>4. sl[1] \in 1..Len(s)
      BY <1>3, <2>2
    <2>5. ~(1 < r)
      BY <2>3, <2>4
    <2>6. r = 1
      BY <2>1, <2>2, <2>5
    <2> QED
      BY <2>1, <2>6
  <1>7. c = Append(sl, Len(s) + 1)
    BY DEF sl, Cut
  <1> HIDE DEF c
  <1>8. sl \in Seq(Nat)
    <2>1. \A n \in 1..d : sl[n] \in Nat
      BY <1>1, <1>3
    <2>2. sl \in [1..d -> Nat]
      BY <1>2, <2>1
    <2> QED
      BY <1>2, <2>2
  <1>9. /\ c \in Seq(Nat) /\ Len(c) = d + 1 /\ c[d + 1] = Len(s) + 1
        /\ \A n \in 1..d : c[n] = sl[n]
    <2>1. Len(s) + 1 \in Nat
      BY <1>1
    <2>2. /\ c \in Seq(Nat) /\ Len(c) = Len(sl) + 1 /\ c[Len(sl) + 1] = Len(s) + 1
          /\ \A n \in 1..Len(sl) : c[n] = sl[n]
      BY <1>7, <1>8, <2>1
    <2> QED
      BY <1>2, <2>2
  <1>10. c[1] = 1
    BY <1>2, <1>5, <1>6, <1>9
  <1>11. ASSUME NEW n \in 1..d
         PROVE  /\ c[n] \in 1..Len(s) /\ c[n + 1] \in 1..(Len(s) + 1)
                /\ c[n] = Slashes(s)[n] /\ s[c[n]] = "/" /\ c[n] + 2 <= c[n + 1]
                /\ \A i \in 1..Len(s) : c[n] < i /\ i < c[n + 1] => s[i] \in Letter
    <2>1. c[n] = sl[n] /\ c[n] \in 1..Len(s) /\ s[c[n]] = "/"
      BY <1>3, <1>9
    <2>2. n \in Nat /\ (n + 1 \in 1..d \/ n = d)
      BY <1>2
    <2>3. CASE n + 1 \in 1..d
      <3>1. c[n + 1] = sl[n + 1] /\ c[n + 1] \in 1..Len(s) /\ s[c[n + 1]] = "/" /\ c[n] < c[n + 1]
        BY <1>2, <1>3, <1>9, <2>1, <2>2, <2>3
      <3> DEFINE a == c[n]
                 b == c[n + 1]
      <3>2. a \in 1..Len(s) /\ b \in 1..Len(s) /\ s[a] = "/" /\ s[b] = "/" /\ a < b
        BY <2>1, <3>1
      <3> HIDE DEF a, b
      <3>3. a + 1 # b
        <4>1. a + 1 = b => a \in 1..(Len(s) - 1)
          BY <1>1, <3>2
        <4> QED
          BY <1>1, <3>2, <4>1
      <3>4. a + 2 <= b /\ b \in 1..(Len(s) + 1)
        BY <1>1, <3>2, <3>3
      <3>5. ASSUME NEW i \in 1..Len(s), a < i, i < b
            PROVE  s[i] \in Letter
        <4> SUFFICES ASSUME s[i] = "/"
                     PROVE  FALSE
          BY <1>1
        <4> DEFINE r == Rank(s, i)
        <4>1. r \in 1..d /\ sl[r] = i
          BY <1>2 DEF SlashesOf
        <4> HIDE DEF r
        <4>2. a = sl[n] /\ b = sl[n + 1]
          BY <2>1, <3>1 DEF a, b
        <4>3. r \in Nat /\ (r < n \/ r = n \/ r = n + 1 \/ n + 1 < r)
          BY <2>2, <4>1
        <4>4. r < n => i < a
          BY <1>2, <4>1, <4>2
        <4>5. n + 1 < r => b < i
          BY <1>2, <2>3, <4>1, <4>2
        <4>6. a \in Nat /\ b \in Nat /\ i \in Nat
          BY <1>1, <3>2
        <4>7. r # n /\ r # n + 1
          BY <3>5, <4>1, <4>2, <4>6
        <4> QED
          BY <3>5, <4>3, <4>4, <4>5, <4>6, <4>7
      <3> QED
        BY <2>1, <3>4, <3>5 DEF a, b, sl
    <2>4. CASE n = d
      <3>1. c[n + 1] = Len(s) + 1
        BY <1>9, <2>4
      <3> DEFINE a == c[n]
      <3>2. a \in 1..Len(s) /\ s[a] = "/"
        BY <2>1
      <3> HIDE DEF a
      <3>3. a # Len(s)
        BY <1>1, <3>2
      <3>4. a + 2 <= Len(s) + 1 /\ Len(s) + 1 \in 1..(Len(s) + 1)
        BY <1>1, <3>2, <3>3
      <3>5. ASSUME NEW i \in 1..Len(s), a < i
            PROVE  s[i] \in Letter
        <4> SUFFICES ASSUME s[i] = "/"
                     PROVE  FALSE
          BY <1>1
        <4> DEFINE r == Rank(s, i)
        <4>1. r \in 1..d /\ sl[r] = i
          BY <1>2 DEF SlashesOf
        <4> HIDE DEF r
        <4>2. a = sl[n]
          BY <2>1 DEF a
        <4>3. r \in Nat /\ (r < n \/ r = n)
          BY <2>2, <2>4, <4>1
        <4>4. r < n => i < a
          BY <1>2, <4>1, <4>2
        <4>5. a \in Nat /\ i \in Nat
          BY <1>1, <3>2
        <4>6. r # n
          BY <3>5, <4>1, <4>2, <4>5
        <4> QED
          BY <3>5, <4>3, <4>4, <4>5, <4>6
      <3> QED
        BY <2>1, <3>1, <3>4, <3>5 DEF a, sl
    <2> QED
      BY <2>2, <2>3, <2>4
  <1> QED
    BY <1>2, <1>5, <1>9, <1>10, <1>11 DEF d, c

\* The components lie between the cuts.
LEMMA ComponentsAre ==
    ASSUME NEW s \in Seq(Char), Valid(s), s # RootText
    PROVE  /\ Components(s) \in Seq(Seq(Letter)) /\ Len(Components(s)) = Count(s)
           /\ \A n \in 1..Count(s) :
                  /\ Components(s)[n] = SubSeq(s, Cut(s)[n] + 1, Cut(s)[n + 1] - 1)
                  /\ Components(s)[n] \in Seq(Letter)
                  /\ Len(Components(s)[n]) = Cut(s)[n + 1] - Cut(s)[n] - 1
                  /\ \A i \in 1..(Cut(s)[n + 1] - Cut(s)[n] - 1) :
                         Components(s)[n][i] = s[Cut(s)[n] + i]
  <1> DEFINE d == Count(s)
             c == Cut(s)
             piece(n) == SubSeq(s, c[n] + 1, c[n + 1] - 1)
  <1>1. /\ d \in Nat /\ d >= 1 /\ Len(c) = d + 1
        /\ \A n \in 1..d : /\ c[n] \in 1..Len(s) /\ c[n + 1] \in 1..(Len(s) + 1)
                           /\ c[n] + 2 <= c[n + 1]
        /\ \A n \in 1..d : \A i \in 1..Len(s) : c[n] < i /\ i < c[n + 1] => s[i] \in Letter
    BY Cuts
  <1>2. Components(s) = [n \in 1..(Len(c) - 1) |-> piece(n)]
    BY DEF Components, Cut
  <1>3. Len(s) \in Nat
    OBVIOUS
  <1> HIDE DEF c, d
  <1>4. Components(s) = [n \in 1..d |-> piece(n)]
    <2>1. Len(c) - 1 = d
      BY <1>1
    <2> QED
      BY <1>2, <2>1
  <1>5. ASSUME NEW n \in 1..d
        PROVE  /\ piece(n) \in Seq(Letter) /\ Len(piece(n)) = c[n + 1] - c[n] - 1
               /\ \A i \in 1..(c[n + 1] - c[n] - 1) : piece(n)[i] = s[c[n] + i]
    <2> DEFINE a == c[n]
               b == c[n + 1]
               p == SubSeq(s, a + 1, b - 1)
               m == b - a - 1
    <2>1. a \in 1..Len(s) /\ b \in 1..(Len(s) + 1) /\ a + 2 <= b
          /\ \A i \in 1..Len(s) : a < i /\ i < b => s[i] \in Letter
      BY <1>1
    <2> HIDE DEF a, b
    <2>2. /\ a + 1 \in Nat /\ b - 1 \in Nat /\ 1 <= a + 1 /\ a + 1 <= (b - 1) + 1
          /\ b - 1 <= Len(s) /\ (b - 1) - (a + 1) + 1 = m /\ m \in Nat
      BY <1>3, <2>1
    <2>3. /\ p \in Seq(Char) /\ Len(p) = (b - 1) - (a + 1) + 1
          /\ \A i \in 1..((b - 1) - (a + 1) + 1) : p[i] = s[(a + 1) + i - 1]
      BY <2>2, Piece
    <2> HIDE DEF p
    <2>4. \A i \in 1..m : /\ (a + 1) + i - 1 = a + i /\ a + i \in 1..Len(s)
                          /\ a < a + i /\ a + i < b
      BY <1>3, <2>1
    <2>5. Len(p) = m /\ \A i \in 1..m : p[i] = s[a + i] /\ p[i] \in Letter
      BY <2>1, <2>2, <2>3, <2>4
    <2>6. p \in Seq(Letter)
      <3>1. p \in [1..m -> Letter]
        BY <2>3, <2>5
      <3> QED
        BY <2>2, <3>1
    <2> QED
      BY <2>5, <2>6 DEF p, a, b
  <1>6. /\ Components(s) \in Seq(Seq(Letter)) /\ Len(Components(s)) = d
        /\ \A n \in 1..d : Components(s)[n] = piece(n)
    <2>1. \A n \in 1..d : piece(n) \in Seq(Letter)
      BY <1>5
    <2> HIDE DEF piece
    <2>2. Components(s) \in [1..d -> Seq(Letter)]
      BY <1>4, <2>1
    <2>3. \A n \in 1..d : Components(s)[n] = piece(n)
      BY <1>4
    <2>4. DOMAIN Components(s) = 1..d
      BY <1>4
    <2> QED
      BY <1>1, <2>2, <2>3, <2>4
  <1> QED
    BY <1>5, <1>6 DEF d, c

-------------------------------------------------------------------------------
(* Paths *)

\* What holds of 0 and is passed on holds up to any number.
LEMMA UpTo ==
    ASSUME NEW m \in Nat, NEW S, 0 \in S, \A n \in 0..(m - 1) : n \in S => n + 1 \in S
    PROVE  \A n \in 0..m : n \in S
  <1> DEFINE R == OpToRel(<, Nat)
             bad == {n \in 0..m : n \notin S}
  <1> SUFFICES ASSUME bad # {}
               PROVE  FALSE
    OBVIOUS
  <1>1. IsWellFoundedOn(R, Nat)
    BY NatLessThanWellFounded
  <1>2. bad \subseteq Nat
    OBVIOUS
  <1>3. \A x, y \in Nat : y < x => <<y, x>> \in R
    BY DEF OpToRel
  <1> HIDE DEF R
  <1>4. \E x \in bad : \A y \in bad : ~(<<y, x>> \in R)
    <2> HIDE DEF bad
    <2> QED
      BY <1>1, <1>2, WFMin
  <1>5. PICK x \in bad : \A y \in bad : ~(<<y, x>> \in R)
    BY <1>4
  <1>6. x \in 0..m /\ x \notin S
    OBVIOUS
  <1>7. x # 0
    BY <1>6
  <1>8. x - 1 \in 0..(m - 1) /\ x - 1 \in 0..m /\ (x - 1) + 1 = x /\ x - 1 < x
        /\ x \in Nat /\ x - 1 \in Nat
    BY <1>6, <1>7
  <1>9. x - 1 \notin S
    BY <1>6, <1>8
  <1>10. x - 1 \in bad
    BY <1>8, <1>9
  <1> QED
    BY <1>3, <1>5, <1>8, <1>10

\* A family of paths, one for each number of components.
Unfolds(p, c, m) ==
    p = [n \in 0..m |-> IF n = 0 THEN <<>> ELSE p[n - 1] \o <<"/">> \o c[n]]

\* There is one for every list.
LEMMA UnfoldingExists ==
    ASSUME NEW c, NEW m \in Nat
    PROVE  \E p : Unfolds(p, c, m)
  <1> DEFINE S == {k \in Nat : \E p : Unfolds(p, c, k)}
  <1>1. 0 \in S
    <2> DEFINE p == [n \in 0..0 |-> <<>>]
    <2>1. p = [n \in 0..0 |-> IF n = 0 THEN <<>> ELSE p[n - 1] \o <<"/">> \o c[n]]
      <3>1. \A n \in 0..0 : n = 0
        OBVIOUS
      <3> QED
        BY <3>1
    <2> QED
      BY <2>1 DEF Unfolds
  <1>2. ASSUME NEW k \in 0..(m - 1), k \in S
        PROVE  k + 1 \in S
    <2>1. PICK p : Unfolds(p, c, k)
      BY <1>2
    <2> DEFINE q == [n \in 0..(k + 1) |->
                        IF n = k + 1 THEN p[k] \o <<"/">> \o c[k + 1] ELSE p[n]]
    <2>2. k \in Nat /\ k + 1 \in Nat /\ (k + 1) - 1 = k /\ k + 1 # 0 /\ k # k + 1
          /\ k \in 0..k /\ k \in 0..(k + 1) /\ k + 1 \in 0..(k + 1)
      OBVIOUS
    <2>3. p[0] = <<>> /\ \A n \in 0..k : n # 0 => p[n] = p[n - 1] \o <<"/">> \o c[n]
      <3>1. p = [n \in 0..k |-> IF n = 0 THEN <<>> ELSE p[n - 1] \o <<"/">> \o c[n]]
        BY <2>1 DEF Unfolds
      <3>2. \A n \in 0..k : p[n] = IF n = 0 THEN <<>> ELSE p[n - 1] \o <<"/">> \o c[n]
        BY <3>1
      <3>3. 0 \in 0..k
        BY <2>2
      <3> QED
        BY <3>2, <3>3
    <2>4. \A n \in 0..k : q[n] = p[n]
      <3>1. \A n \in 0..k : n \in 0..(k + 1) /\ n # k + 1
        BY <2>2
      <3> QED
        BY <3>1
    <2>5. q[k + 1] = p[k] \o <<"/">> \o c[k + 1]
      BY <2>2
    <2>6. q = [n \in 0..(k + 1) |-> q[n]]
      OBVIOUS
    <2> HIDE DEF q
    <2>7. ASSUME NEW n \in 0..(k + 1)
          PROVE  q[n] = IF n = 0 THEN <<>> ELSE q[n - 1] \o <<"/">> \o c[n]
      <3>1. n = k + 1 \/ n = 0 \/ (n \in 0..k /\ n # 0 /\ n - 1 \in 0..k)
        BY <2>2
      <3>2. CASE n = k + 1
        <4>1. q[n] = q[k] \o <<"/">> \o c[n]
          BY <2>2, <2>4, <2>5, <3>2
        <4>2. n # 0 /\ n - 1 = k
          BY <2>2, <3>2
        <4> QED
          BY <4>1, <4>2
      <3>3. CASE n = 0
        <4>1. 0 \in 0..k
          BY <2>2
        <4> QED
          BY <2>3, <2>4, <3>3, <4>1
      <3>4. CASE n \in 0..k /\ n # 0 /\ n - 1 \in 0..k
        BY <2>3, <2>4, <3>4
      <3> QED
        BY <3>1, <3>2, <3>3, <3>4
    <2>8. q = [n \in 0..(k + 1) |-> IF n = 0 THEN <<>> ELSE q[n - 1] \o <<"/">> \o c[n]]
      BY <2>6, <2>7, Zenon
    <2>9. Unfolds(q, c, k + 1)
      BY <2>8 DEF Unfolds
    <2> QED
      BY <2>2, <2>9
  <1> HIDE DEF S
  <1>3. \A n \in 0..m : n \in S
    BY <1>1, <1>2, UpTo
  <1>4. m \in S
    BY <1>3
  <1> QED
    BY <1>4 DEF S

\* So Paths does what it says: nothing at first, then one component after another.
LEMMA PathsAre ==
    ASSUME NEW c, Len(c) \in Nat
    PROVE  /\ Paths(c)[0] = <<>>
           /\ \A n \in 1..Len(c) : Paths(c)[n] = Paths(c)[n - 1] \o <<"/">> \o c[n]
  <1> DEFINE m == Len(c)
             p == Paths(c)
  <1>1. \E q : Unfolds(q, c, m)
    BY UnfoldingExists
  <1>2. p = CHOOSE q : q = [n \in 0..m |-> IF n = 0 THEN <<>> ELSE q[n - 1] \o <<"/">> \o c[n]]
    BY DEF Paths
  <1> HIDE DEF p
  <1>3. p = [n \in 0..m |-> IF n = 0 THEN <<>> ELSE p[n - 1] \o <<"/">> \o c[n]]
    BY <1>1, <1>2, Zenon DEF Unfolds
  <1>4. \A n \in 0..m : p[n] = IF n = 0 THEN <<>> ELSE p[n - 1] \o <<"/">> \o c[n]
    BY <1>3, Zenon
  <1>5. 0 \in 0..m /\ \A n \in 1..m : n \in 0..m /\ n # 0
    OBVIOUS
  <1> QED
    BY <1>4, <1>5 DEF p

\* Where two lists agree, so do the paths.
LEMMA PathsAgree ==
    ASSUME NEW c, NEW e, Len(c) \in Nat, Len(e) \in Nat, NEW m \in Nat,
           m <= Len(c), m <= Len(e), \A n \in 1..m : c[n] = e[n]
    PROVE  \A n \in 0..m : Paths(c)[n] = Paths(e)[n]
  <1> DEFINE p == Paths(c)
             q == Paths(e)
             S == {n \in 0..m : p[n] = q[n]}
  <1>1. /\ p[0] = <<>> /\ \A n \in 1..Len(c) : p[n] = p[n - 1] \o <<"/">> \o c[n]
        /\ q[0] = <<>> /\ \A n \in 1..Len(e) : q[n] = q[n - 1] \o <<"/">> \o e[n]
    BY PathsAre
  <1> HIDE DEF p, q
  <1>2. 0 \in S
    BY <1>1
  <1>3. ASSUME NEW n \in 0..(m - 1), n \in S
        PROVE  n + 1 \in S
    <2>1. /\ n + 1 \in 1..m /\ n + 1 \in 1..Len(c) /\ n + 1 \in 1..Len(e)
          /\ n + 1 \in 0..m /\ (n + 1) - 1 = n
      OBVIOUS
    <2>2. p[n] = q[n]
      BY <1>3
    <2>3. p[n + 1] = p[n] \o <<"/">> \o c[n + 1] /\ q[n + 1] = q[n] \o <<"/">> \o e[n + 1]
      BY <1>1, <2>1
    <2>4. p[n + 1] = q[n + 1]
      BY <2>1, <2>2, <2>3
    <2> QED
      BY <2>1, <2>4
  <1> HIDE DEF S
  <1>4. \A n \in 0..m : n \in S
    BY <1>2, <1>3, UpTo
  <1> QED
    BY <1>4 DEF S, p, q

-------------------------------------------------------------------------------
(* A scope and its components *)

\* Two texts with a slash in between.
LEMMA JoinedBySlash ==
    ASSUME NEW u \in Seq(Char), NEW v \in Seq(Char)
    PROVE  /\ u \o <<"/">> \o v \in Seq(Char)
           /\ Len(u \o <<"/">> \o v) = Len(u) + 1 + Len(v)
           /\ \A i \in 1..Len(u) : (u \o <<"/">> \o v)[i] = u[i]
           /\ (u \o <<"/">> \o v)[Len(u) + 1] = "/"
           /\ \A i \in 1..Len(v) : (u \o <<"/">> \o v)[Len(u) + 1 + i] = v[i]
  <1>1. "/" \in Char
    BY DEF Char
  <1> QED
    BY <1>1

\* A text up to a slash, the slash, and what follows it.
LEMMA Joined ==
    ASSUME NEW x \in Seq(Char), NEW a \in 1..Len(x), NEW b \in 1..(Len(x) + 1),
           a < b, x[a] = "/"
    PROVE  SubSeq(x, 1, a - 1) \o <<"/">> \o SubSeq(x, a + 1, b - 1) = SubSeq(x, 1, b - 1)
  <1> DEFINE u == SubSeq(x, 1, a - 1)
             v == SubSeq(x, a + 1, b - 1)
             w == SubSeq(x, 1, b - 1)
             usv == u \o <<"/">> \o v
  <1>0. /\ Len(x) \in Nat /\ a \in Nat /\ b \in Nat /\ 1 <= a /\ a <= Len(x) /\ b <= Len(x) + 1
        /\ "/" \in Char
    BY DEF Char
  <1>1. u \in Seq(Char) /\ Len(u) = a - 1 /\ \A i \in 1..(a - 1) : u[i] = x[i]
    BY CutAndJoined
  <1>2. v \in Seq(Char) /\ Len(v) = b - a - 1 /\ \A i \in 1..(b - a - 1) : v[i] = x[a + i]
    <2>1. /\ a + 1 \in Nat /\ b - 1 \in Nat /\ 1 <= a + 1 /\ a + 1 <= (b - 1) + 1
          /\ b - 1 <= Len(x) /\ (b - 1) - (a + 1) + 1 = b - a - 1
      BY <1>0
    <2>2. /\ v \in Seq(Char) /\ Len(v) = (b - 1) - (a + 1) + 1
          /\ \A i \in 1..((b - 1) - (a + 1) + 1) : v[i] = x[(a + 1) + i - 1]
      BY <2>1, Piece
    <2>3. \A i \in 1..(b - a - 1) : (a + 1) + i - 1 = a + i
      BY <1>0
    <2> HIDE DEF v
    <2> QED
      BY <2>1, <2>2, <2>3
  <1>3. w \in Seq(Char) /\ Len(w) = b - 1 /\ \A i \in 1..(b - 1) : w[i] = x[i]
    <2>1. 1 \in Nat /\ b - 1 \in Nat /\ 1 <= 1 /\ 1 <= (b - 1) + 1
          /\ b - 1 <= Len(x) /\ (b - 1) - 1 + 1 = b - 1
      BY <1>0
    <2>2. /\ w \in Seq(Char) /\ Len(w) = (b - 1) - 1 + 1
          /\ \A i \in 1..((b - 1) - 1 + 1) : w[i] = x[1 + i - 1]
      BY <2>1, Piece
    <2>3. \A i \in 1..(b - 1) : 1 + i - 1 = i
      BY <1>0
    <2> HIDE DEF w
    <2> QED
      BY <2>1, <2>2, <2>3
  <1> HIDE DEF u, v, w
  <1>4. /\ usv \in Seq(Char) /\ Len(usv) = Len(u) + 1 + Len(v)
        /\ (\A i \in 1..Len(u) : usv[i] = u[i])
        /\ usv[Len(u) + 1] = "/"
        /\ \A i \in 1..Len(v) : usv[Len(u) + 1 + i] = v[i]
    BY <1>1, <1>2, JoinedBySlash
  <1> HIDE DEF usv
  <1>5. /\ usv \in Seq(Char) /\ Len(usv) = a + Len(v)
        /\ (\A i \in 1..(a - 1) : usv[i] = x[i]) /\ usv[a] = x[a]
        /\ \A i \in 1..Len(v) : usv[a + i] = v[i]
    BY <1>0, <1>1, <1>2, <1>4
  <1>6. Len(usv) = Len(w)
    BY <1>0, <1>2, <1>3, <1>5
  <1>7. ASSUME NEW i \in 1..Len(usv)
        PROVE  usv[i] = w[i]
    <2>1. i \in 1..(b - 1) /\ w[i] = x[i]
      BY <1>0, <1>2, <1>3, <1>5
    <2>2. CASE i < a
      BY <1>0, <1>5, <2>1, <2>2
    <2>3. CASE i = a
      BY <1>0, <1>5, <2>1, <2>3
    <2>4. CASE a < i
      <3>1. i - a \in 1..(b - a - 1) /\ a + (i - a) = i
        BY <1>0, <2>1, <2>4
      <3> QED
        BY <1>2, <1>5, <2>1, <3>1
    <2> QED
      BY <1>0, <2>1, <2>2, <2>3, <2>4
  <1>8. usv = w
    BY <1>3, <1>5, <1>6, <1>7, SeqEqual
  <1> QED
    BY <1>8 DEF usv, u, v, w

\* A text is the whole of itself.
LEMMA Whole ==
    ASSUME NEW x \in Seq(Char)
    PROVE  SubSeq(x, 1, (Len(x) + 1) - 1) = x
  <1>1. (Len(x) + 1) - 1 = Len(x)
    OBVIOUS
  <1>2. SubSeq(x, 1, Len(x)) = x
    OBVIOUS
  <1> QED
    BY <1>1, <1>2

\* The first components are the text up to a cut.
LEMMA PathsOfComponents ==
    ASSUME NEW s \in Seq(Char), Valid(s), s # RootText
    PROVE  \A n \in 0..Count(s) : Paths(Components(s))[n] = SubSeq(s, 1, Cut(s)[n + 1] - 1)
  <1> DEFINE d == Count(s)
             c == Cut(s)
             p == Paths(Components(s))
             S == {n \in 0..d : p[n] = SubSeq(s, 1, c[n + 1] - 1)}
  <1>1. /\ d \in Nat /\ d >= 1 /\ c[1] = 1
        /\ \A n \in 1..d : /\ c[n] \in 1..Len(s) /\ c[n + 1] \in 1..(Len(s) + 1)
                           /\ s[c[n]] = "/" /\ c[n] + 2 <= c[n + 1]
    BY Cuts
  <1>2. /\ Len(Components(s)) = d
        /\ \A n \in 1..d : Components(s)[n] = SubSeq(s, c[n] + 1, c[n + 1] - 1)
    BY ComponentsAre
  <1> HIDE DEF d, c
  <1>3. p[0] = <<>> /\ \A n \in 1..d : p[n] = p[n - 1] \o <<"/">> \o Components(s)[n]
    BY <1>1, <1>2, PathsAre
  <1> HIDE DEF p
  <1>4. 0 \in S
    <2>1. SubSeq(s, 1, 1 - 1) = <<>>
      OBVIOUS
    <2>2. 0 + 1 = 1 /\ 0 \in 0..d
      BY <1>1
    <2>3. SubSeq(s, 1, c[0 + 1] - 1) = <<>>
      BY <1>1, <2>1, <2>2, Zenon
    <2>4. p[0] = <<>>
      BY <1>3
    <2> QED
      BY <2>2, <2>3, <2>4, Zenon
  <1>5. ASSUME NEW n \in 0..(d - 1), n \in S
        PROVE  n + 1 \in S
    <2> DEFINE a == c[n + 1]
               b == c[(n + 1) + 1]
    <2>1. n + 1 \in 1..d /\ n + 1 \in 0..d /\ (n + 1) - 1 = n
      BY <1>1
    <2>2. a \in 1..Len(s) /\ b \in 1..(Len(s) + 1) /\ s[a] = "/" /\ a + 2 <= b
      BY <1>1, <2>1
    <2>3. p[n] = SubSeq(s, 1, a - 1)
      BY <1>5
    <2>4. p[n + 1] = p[n] \o <<"/">> \o SubSeq(s, a + 1, b - 1)
      BY <1>2, <1>3, <2>1
    <2> HIDE DEF a, b
    <2>5. a < b
      BY <2>2
    <2>6. p[n + 1] = SubSeq(s, 1, b - 1)
      BY <2>2, <2>3, <2>4, <2>5, Joined
    <2> QED
      BY <2>1, <2>6 DEF b
  <1> HIDE DEF S
  <1>6. \A n \in 0..d : n \in S
    BY <1>1, <1>4, <1>5, UpTo
  <1> QED
    BY <1>6 DEF S, c, d, p

\* A scope is the path of its components, and its depth is their number.
LEMMA ComponentsBack ==
    ASSUME NEW s \in Seq(Char), Valid(s)
    PROVE  Path(Components(s)) = s /\ Depth(s) = Len(Components(s))
  <1>1. CASE s = RootText
    <2>1. Components(s) = <<>> /\ Depth(s) = 0
      BY <1>1 DEF Components, Depth
    <2> QED
      BY <1>1, <2>1 DEF Path
  <1>2. CASE s # RootText
    <2> DEFINE d == Count(s)
    <2>1. d \in Nat /\ d >= 1 /\ Cut(s)[d + 1] = Len(s) + 1 /\ Len(Components(s)) = d
          /\ Components(s) \in Seq(Seq(Letter))
      BY <1>2, Cuts, ComponentsAre
    <2>2. Paths(Components(s))[d] = SubSeq(s, 1, Cut(s)[d + 1] - 1)
      BY <1>2, <2>1, PathsOfComponents
    <2>3. Depth(s) = d
      BY <1>2 DEF Depth, Count, SlashesOf
    <2> HIDE DEF d
    <2>4. Paths(Components(s))[d] = s
      BY <2>1, <2>2, Whole
    <2>5. Components(s) # <<>>
      BY <2>1
    <2>6. Path(Components(s)) = Paths(Components(s))[d]
      BY <2>1, <2>5 DEF Path
    <2> QED
      BY <2>1, <2>3, <2>4, <2>6
  <1> QED
    BY <1>1, <1>2

-------------------------------------------------------------------------------
(* Ancestors *)

\* A text is cut where its beginning is, up to the slash that ends that.
LEMMA BeginningCuts ==
    ASSUME NEW s \in Seq(Char), NEW t \in Seq(Char), Len(s) < Len(t),
           \A i \in 1..Len(s) : s[i] = t[i], t[Len(s) + 1] = "/"
    PROVE  /\ Count(s) \in Nat /\ Count(t) \in Nat /\ Count(s) + 1 <= Count(t)
           /\ \A n \in 1..(Count(s) + 1) : Cut(t)[n] = Cut(s)[n]
  <1> DEFINE d == Count(s)
             e == Count(t)
             m == Len(s) + 1
  <1>1. Len(s) \in Nat /\ Len(t) \in Nat /\ m \in 1..Len(t)
    OBVIOUS
  <1>2. /\ d \in Nat /\ Slashes(s) \in Seq(1..Len(s)) /\ Len(Slashes(s)) = d
        /\ \A n \in 1..d : /\ Slashes(s)[n] \in SlashesOf(s)
                           /\ Rank(s, Slashes(s)[n]) = n
    BY SlashesInOrder DEF Count
  <1>3. /\ e \in Nat /\ Slashes(t) \in Seq(1..Len(t)) /\ Len(Slashes(t)) = e
        /\ \A i \in SlashesOf(t) : Rank(t, i) \in 1..e /\ Slashes(t)[Rank(t, i)] = i
    BY SlashesInOrder DEF Count
  <1>4. /\ SlashesOf(s) \subseteq 1..Len(s) /\ SlashesOf(t) \subseteq 1..Len(t)
        /\ \A i \in 1..Len(s) : i \in SlashesOf(s) <=> i \in SlashesOf(t)
        /\ m \in SlashesOf(t)
    <2>1. \A i \in 1..Len(s) : i \in 1..Len(t)
      BY <1>1
    <2> QED
      BY <1>1, <2>1 DEF SlashesOf
  <1>5. ASSUME NEW i \in SlashesOf(s)
        PROVE  i \in SlashesOf(t) /\ Rank(t, i) = Rank(s, i)
    <2>1. \A j \in SlashesOf(t) : j <= i => j \in SlashesOf(s)
      <3> SUFFICES ASSUME NEW j \in SlashesOf(t), j <= i
                   PROVE  j \in SlashesOf(s)
        OBVIOUS
      <3>1. i \in 1..Len(s) /\ j \in 1..Len(t)
        BY <1>4
      <3>2. j \in 1..Len(s)
        BY <1>1, <3>1
      <3> QED
        BY <1>4, <3>2
    <2>2. \A j \in SlashesOf(s) : j \in SlashesOf(t)
      BY <1>4
    <2>3. {j \in SlashesOf(t) : j <= i} = {j \in SlashesOf(s) : j <= i}
      BY <2>1, <2>2
    <2> QED
      BY <2>2, <2>3 DEF Rank
  <1>6. Rank(t, m) = d + 1
    <2>1. {j \in SlashesOf(t) : j <= m} = SlashesOf(s) \cup {m}
      <3>1. \A j \in SlashesOf(t) : j <= m => j \in 1..Len(s) \/ j = m
        BY <1>1, <1>4
      <3>2. \A j \in SlashesOf(s) : j \in SlashesOf(t) /\ j <= m
        BY <1>1, <1>4
      <3>3. m <= m
        BY <1>1
      <3> HIDE DEF m
      <3> QED
        BY <1>4, <3>1, <3>2, <3>3
    <2>2. m \notin SlashesOf(s)
      BY <1>1, <1>4
    <2>3. IsFiniteSet(SlashesOf(s))
      <3>1. IsFiniteSet(1..Len(s))
        BY <1>1, FS_Interval
      <3> QED
        BY <1>4, <3>1, FS_Subset
    <2> HIDE DEF m
    <2>4. Cardinality(SlashesOf(s) \cup {m}) = Cardinality(SlashesOf(s)) + 1
      BY <2>2, <2>3, FS_AddElement
    <2> QED
      BY <2>1, <2>4 DEF Rank, Count
  <1> HIDE DEF d, e, m
  <1>7. d + 1 <= e /\ d + 1 \in 1..e /\ Slashes(t)[d + 1] = m
    <2>1. d + 1 \in 1..e /\ Slashes(t)[d + 1] = m
      BY <1>3, <1>4, <1>6
    <2> QED
      BY <1>2, <1>3, <2>1
  <1>8. \A n \in 1..d : Slashes(t)[n] = Slashes(s)[n]
    <2> SUFFICES ASSUME NEW n \in 1..d
                 PROVE  Slashes(t)[n] = Slashes(s)[n]
      OBVIOUS
    <2> DEFINE i == Slashes(s)[n]
    <2>1. i \in SlashesOf(s) /\ Rank(s, i) = n
      BY <1>2
    <2> HIDE DEF i
    <2>2. Rank(t, i) = n /\ i \in SlashesOf(t)
      BY <1>5, <2>1
    <2>3. Slashes(t)[n] = i
      BY <1>3, <2>2
    <2> QED
      BY <2>3 DEF i
  <1>9. /\ \A n \in 1..d : Cut(s)[n] = Slashes(s)[n]
        /\ Cut(s)[d + 1] = m
    BY <1>2 DEF Cut, m
  <1>10. \A n \in 1..e : Cut(t)[n] = Slashes(t)[n]
    BY <1>3 DEF Cut
  <1>11. \A n \in 1..(d + 1) : n \in 1..e /\ (n \in 1..d \/ n = d + 1)
    BY <1>2, <1>3, <1>7
  <1>12. \A n \in 1..(d + 1) : Cut(t)[n] = Cut(s)[n]
    BY <1>7, <1>8, <1>9, <1>10, <1>11
  <1> QED
    BY <1>2, <1>3, <1>7, <1>12 DEF d, e

\* So its components begin with those of its beginning.
LEMMA BeginningComponents ==
    ASSUME NEW s \in Seq(Char), NEW t \in Seq(Char), Valid(s), Valid(t),
           s # RootText, t # RootText, Len(s) < Len(t),
           \A i \in 1..Len(s) : s[i] = t[i], t[Len(s) + 1] = "/"
    PROVE  /\ Count(s) \in Nat /\ Count(t) \in Nat /\ Count(s) + 1 <= Count(t)
           /\ \A n \in 1..Count(s) : Components(s)[n] = Components(t)[n]
  <1> DEFINE d == Count(s)
             e == Count(t)
  <1>1. /\ d \in Nat /\ e \in Nat /\ d + 1 <= e
        /\ \A n \in 1..(d + 1) : Cut(t)[n] = Cut(s)[n]
    BY BeginningCuts
  <1>2. /\ \A n \in 1..d : /\ Cut(s)[n] \in 1..Len(s) /\ Cut(s)[n + 1] \in 1..(Len(s) + 1)
                           /\ Cut(s)[n] + 2 <= Cut(s)[n + 1]
    BY Cuts
  <1>3. \A n \in 1..d :
            /\ Components(s)[n] \in Seq(Letter)
            /\ Len(Components(s)[n]) = Cut(s)[n + 1] - Cut(s)[n] - 1
            /\ \A i \in 1..(Cut(s)[n + 1] - Cut(s)[n] - 1) :
                   Components(s)[n][i] = s[Cut(s)[n] + i]
    BY ComponentsAre
  <1>4. \A n \in 1..e :
            /\ Components(t)[n] \in Seq(Letter)
            /\ Len(Components(t)[n]) = Cut(t)[n + 1] - Cut(t)[n] - 1
            /\ \A i \in 1..(Cut(t)[n + 1] - Cut(t)[n] - 1) :
                   Components(t)[n][i] = t[Cut(t)[n] + i]
    BY ComponentsAre
  <1>5. Len(s) \in Nat
    OBVIOUS
  <1> HIDE DEF d, e
  <1>6. ASSUME NEW n \in 1..d
        PROVE  Components(s)[n] = Components(t)[n]
    <2> DEFINE a == Cut(s)[n]
               b == Cut(s)[n + 1]
               x == Components(s)[n]
               y == Components(t)[n]
    <2>1. n \in 1..e /\ Cut(t)[n] = a /\ Cut(t)[n + 1] = b
      BY <1>1
    <2>2. /\ x \in Seq(Letter) /\ Len(x) = b - a - 1
          /\ \A i \in 1..(b - a - 1) : x[i] = s[a + i]
      BY <1>3
    <2>3. /\ y \in Seq(Letter) /\ Len(y) = b - a - 1
          /\ \A i \in 1..(b - a - 1) : y[i] = t[a + i]
      BY <1>4, <2>1, Zenon
    <2>4. a \in 1..Len(s) /\ b \in 1..(Len(s) + 1) /\ a + 2 <= b
      BY <1>2
    <2> HIDE DEF a, b, x, y
    <2>5. \A i \in 1..(b - a - 1) : a + i \in 1..Len(s)
      BY <1>5, <2>4
    <2>6. \A i \in 1..Len(x) : x[i] = y[i]
      BY <2>2, <2>3, <2>5
    <2>7. x = y
      BY <2>2, <2>3, <2>6, SeqEqual
    <2> QED
      BY <2>7 DEF x, y
  <1> QED
    BY <1>1, <1>6 DEF d, e

\* The ancestor test on strings is the prefix test on components.
LEMMA AncestorsArePrefixes ==
    ASSUME NEW s \in Seq(Char), NEW t \in Seq(Char), Valid(s), Valid(t)
    PROVE  IsAncestorText(s, t) <=> IsPrefix(Components(s), Components(t))
  <1> DEFINE cs == Components(s)
             ct == Components(t)
             d == Count(s)
             e == Count(t)
  <1>1. cs \in Seq(Seq(Letter)) /\ ct \in Seq(Seq(Letter))
    <2>1. <<>> \in Seq(Seq(Letter))
      OBVIOUS
    <2>2. \A u \in {s, t} : u = RootText => Components(u) = <<>>
      BY DEF Components
    <2> QED
      BY <2>1, <2>2, ComponentsAre
  <1>2. Len(s) \in Nat /\ Len(t) \in Nat
    OBVIOUS
  <1>3. IsPrefix(s, t) <=> Len(s) <= Len(t) /\ \A i \in 1..Len(s) : s[i] = t[i]
    BY PrefixIs
  <1>4. IsPrefix(cs, ct) <=> Len(cs) <= Len(ct) /\ \A n \in 1..Len(cs) : cs[n] = ct[n]
    <2> HIDE DEF cs, ct
    <2> QED
      BY <1>1, PrefixIs
  <1>5. IsAncestorText(s, t) <=>
            s = RootText \/ s = t \/ (IsPrefix(s, t) /\ Len(t) > Len(s) /\ t[Len(s) + 1] = "/")
    BY DEF IsAncestorText
  <1>6. CASE s = RootText
    <2>1. cs = <<>>
      BY <1>6 DEF Components
    <2>2. Len(<<>>) = 0 /\ 1..0 = {}
      OBVIOUS
    <2>3. Len(ct) \in Nat
      BY <1>1
    <2>4. IsPrefix(cs, ct)
      <3> HIDE DEF cs, ct
      <3> QED
        BY <1>4, <2>1, <2>2, <2>3
    <2> QED
      BY <1>5, <1>6, <2>4
  <1>7. CASE s # RootText /\ t = RootText
    <2>1. ct = <<>> /\ Len(ct) = 0 /\ Len(t) = 1
      BY <1>7 DEF Components, RootText
    <2>2. Len(cs) = d /\ d \in Nat /\ d >= 1 /\ Len(s) > 1
      BY <1>7, ComponentsAre, Cuts, ValidScope
    <2>3. ~IsPrefix(cs, ct)
      <3> HIDE DEF cs, ct, d
      <3> QED
        BY <1>4, <2>1, <2>2
    <2>4. ~(Len(t) > Len(s))
      BY <1>2, <2>1, <2>2
    <2> QED
      BY <1>5, <1>7, <2>3, <2>4
  <1>8. CASE s # RootText /\ t # RootText
    <2>1. /\ d \in Nat /\ d >= 1 /\ Len(cs) = d /\ e \in Nat /\ e >= 1 /\ Len(ct) = e
      BY <1>8, ComponentsAre, Cuts
    <2>2. ASSUME s = t
          PROVE  IsPrefix(cs, ct)
      <3> HIDE DEF cs, ct
      <3>1. cs = ct
        BY <2>2 DEF cs, ct
      <3>2. Len(cs) <= Len(ct)
        BY <2>1, <3>1
      <3> QED
        BY <1>4, <3>1, <3>2
    <2>3. ASSUME IsPrefix(s, t), Len(t) > Len(s), t[Len(s) + 1] = "/"
          PROVE  IsPrefix(cs, ct)
      <3>1. Len(s) < Len(t) /\ \A i \in 1..Len(s) : s[i] = t[i]
        BY <1>2, <1>3, <2>3
      <3>2. d + 1 <= e /\ \A n \in 1..d : cs[n] = ct[n]
        BY <1>8, <2>3, <3>1, BeginningComponents
      <3> HIDE DEF cs, ct, d, e
      <3> QED
        BY <1>4, <2>1, <3>2
    <2>4. ASSUME IsPrefix(cs, ct)
          PROVE  IsAncestorText(s, t)
      <3> DEFINE m == Cut(t)[d + 1] - 1
      <3>1. d <= e /\ \A n \in 1..d : cs[n] = ct[n]
        <4> HIDE DEF cs, ct, d, e
        <4> QED
          BY <1>4, <2>1, <2>4
      <3>2. d \in 0..d /\ d \in 0..e
        BY <2>1, <3>1
      <3>3. Paths(cs)[d] = Paths(ct)[d]
        <4>1. Len(cs) \in Nat /\ Len(ct) \in Nat /\ d <= Len(cs) /\ d <= Len(ct)
          BY <2>1, <3>1
        <4>2. \A n \in 0..d : Paths(cs)[n] = Paths(ct)[n]
          <5> HIDE DEF cs, ct, d
          <5> QED
            BY <2>1, <3>1, <4>1, PathsAgree
        <4> HIDE DEF cs, ct, d
        <4> QED
          BY <3>2, <4>2
      <3>4. Paths(cs)[d] = SubSeq(s, 1, Cut(s)[d + 1] - 1) /\ Cut(s)[d + 1] = Len(s) + 1
        BY <1>8, <3>2, PathsOfComponents, Cuts
      <3>5. Paths(ct)[d] = SubSeq(t, 1, m)
        BY <1>8, <3>2, PathsOfComponents
      <3>6. s = SubSeq(t, 1, m)
        <4> HIDE DEF cs, ct, d, m
        <4> QED
          BY <3>3, <3>4, <3>5, Whole
      <3>7. /\ Cut(t)[d + 1] \in 1..(Len(t) + 1)
            /\ d + 1 <= e => Cut(t)[d + 1] \in 1..Len(t) /\ t[Cut(t)[d + 1]] = "/"
            /\ Cut(t)[e + 1] = Len(t) + 1
        <4>1. /\ \A n \in 1..e : Cut(t)[n] \in 1..Len(t) /\ t[Cut(t)[n]] = "/"
              /\ Cut(t)[e + 1] = Len(t) + 1
          BY <1>8, Cuts
        <4>2. Len(t) + 1 \in 1..(Len(t) + 1)
          BY <1>2
        <4>3. d + 1 <= e => d + 1 \in 1..e
          BY <2>1
        <4>4. d = e \/ d + 1 <= e
          BY <2>1, <3>1
        <4>5. \A i \in 1..Len(t) : i \in 1..(Len(t) + 1)
          BY <1>2
        <4> HIDE DEF d, e
        <4> QED
          BY <4>1, <4>2, <4>3, <4>4, <4>5
      <3>8. m \in Nat /\ m <= Len(t)
        BY <1>2, <3>7
      <3>9. Len(s) = m /\ \A i \in 1..m : s[i] = t[i]
        <4> DEFINE u == SubSeq(t, 1, m)
        <4>1. u \in Seq(Char) /\ Len(u) = m - 1 + 1 /\ \A i \in 1..(m - 1 + 1) : u[i] = t[1 + i - 1]
          <5> HIDE DEF m
          <5>1. 1 \in Nat /\ 1 <= 1 /\ 1 <= m + 1
            BY <3>8
          <5> QED
            BY <3>8, <5>1, Piece
        <4>2. m - 1 + 1 = m /\ \A i \in 1..m : 1 + i - 1 = i
          BY <3>8
        <4>3. s = u
          BY <3>6
        <4> HIDE DEF u, m
        <4>4. Len(s) = m /\ \A i \in 1..m : u[i] = t[i]
          BY <4>1, <4>2, <4>3
        <4> QED
          BY <4>3, <4>4
      <3>10. CASE d = e
        <4>1. Len(s) = Len(t)
          BY <1>2, <3>7, <3>9, <3>10
        <4>2. \A i \in 1..Len(s) : s[i] = t[i]
          BY <3>9
        <4>3. s = t
          BY <4>1, <4>2, SeqEqual
        <4> QED
          BY <1>5, <4>3
      <3>11. CASE d + 1 <= e
        <4>1. Cut(t)[d + 1] = Len(s) + 1 /\ Len(s) + 1 \in 1..Len(t) /\ t[Len(s) + 1] = "/"
          <5>1. Cut(t)[d + 1] = Len(s) + 1
            BY <1>2, <3>7, <3>9
          <5> HIDE DEF d, e
          <5> QED
            BY <3>7, <3>11, <5>1
        <4>2. Len(t) > Len(s) /\ IsPrefix(s, t)
          BY <1>2, <1>3, <3>9, <4>1
        <4> QED
          BY <1>5, <4>1, <4>2
      <3>12. d = e \/ d + 1 <= e
        BY <2>1, <3>1
      <3> QED
        BY <3>10, <3>11, <3>12
    <2> QED
      BY <1>5, <1>8, <2>2, <2>3, <2>4
  <1>9. (s = RootText) \/ (s # RootText /\ t = RootText) \/ (s # RootText /\ t # RootText)
    OBVIOUS
  <1> QED
    BY <1>6, <1>7, <1>8, <1>9

-------------------------------------------------------------------------------
(* Moves *)

\* The last slash of a scope is its last cut but one.
LEMMA LastSlash ==
    ASSUME NEW s \in Seq(Char), Valid(s), s # RootText
    PROVE  LastOf("/", s) = Cut(s)[Count(s)]
  <1> DEFINE d == Count(s)
             n == Cut(s)[d]
  <1>1. /\ d \in Nat /\ d >= 1 /\ Cut(s)[d + 1] = Len(s) + 1 /\ d \in 1..d
    BY Cuts
  <1>2. /\ n \in 1..Len(s) /\ s[n] = "/"
        /\ \A i \in 1..Len(s) : n < i /\ i < Cut(s)[d + 1] => s[i] \in Letter
    BY <1>1, Cuts
  <1>3. \A l \in Letter : l # "/"
    BY LetterAssumption
  <1>4. Len(s) \in Nat
    OBVIOUS
  <1> HIDE DEF n
  <1>5. \A i \in 1..Len(s) : i > n => s[i] # "/"
    <2> SUFFICES ASSUME NEW i \in 1..Len(s), i > n
                 PROVE  s[i] # "/"
      OBVIOUS
    <2>1. n < i /\ i < Len(s) + 1
      BY <1>2, <1>4
    <2> HIDE DEF d
    <2> QED
      BY <1>1, <1>2, <1>3, <2>1
  <1>6. LastOf("/", s) = n
    BY <1>2, <1>5, LastOfIs
  <1> QED
    BY <1>6 DEF n

\* All components but the last.
LEMMA FrontIs ==
    ASSUME NEW T, NEW x \in Seq(T), Len(x) >= 1
    PROVE  /\ Front(x) \in Seq(T) /\ Len(Front(x)) = Len(x) - 1
           /\ \A i \in 1..(Len(x) - 1) : Front(x)[i] = x[i]
  <1>1. Front(x) = SubSeq(x, 1, Len(x) - 1)
    BY DEF Front
  <1> DEFINE f == SubSeq(x, 1, Len(x) - 1)
  <1>2. Len(x) \in 1..Len(x)
    OBVIOUS
  <1>3. /\ f \in Seq(T) /\ Len(f) = Len(x) - 1
        /\ \A i \in 1..(Len(x) - 1) : f[i] = x[i]
    BY <1>2, CutAndJoined
  <1> HIDE DEF f
  <1>4. Front(x) = f
    BY <1>1 DEF f
  <1> QED
    BY <1>3, <1>4

\* The parent has all components but the last.
LEMMA ParentComponents ==
    ASSUME NEW s \in Seq(Char), Valid(s), s # RootText
    PROVE  Components(Parent(s)) = Front(Components(s))
  <1> DEFINE d == Count(s)
             c == Cut(s)
             pos == LastOf("/", s)
             p == SubSeq(s, 1, pos - 1)
             cs == Components(s)
  <1>1. /\ d \in Nat /\ d >= 1 /\ c[1] = 1
        /\ \A n \in 1..d : c[n] \in 1..Len(s) /\ s[c[n]] = "/" /\ c[n] = Slashes(s)[n]
    BY Cuts
  <1>2. pos = c[d] /\ pos \in 1..Len(s) /\ s[pos] = "/"
    <2>1. pos = c[d]
      BY LastSlash
    <2>2. d \in 1..d
      BY <1>1
    <2> HIDE DEF c, d, pos
    <2> QED
      BY <1>1, <2>1, <2>2
  <1>3. \A n, k \in 1..d : n < k => c[n] < c[k]
    <2>1. \A n, k \in 1..d : n < k => Slashes(s)[n] < Slashes(s)[k]
      BY SlashesInOrder DEF Count
    <2> HIDE DEF c, d
    <2> QED
      BY <1>1, <2>1
  <1>4. cs \in Seq(Seq(Letter)) /\ Len(cs) = d
    BY ComponentsAre
  <1>5. /\ Front(cs) \in Seq(Seq(Letter)) /\ Len(Front(cs)) = d - 1
        /\ \A n \in 1..(d - 1) : Front(cs)[n] = cs[n]
    <2> HIDE DEF cs, d
    <2> QED
      BY <1>1, <1>4, FrontIs
  <1>6. Parent(s) = IF pos = 1 THEN RootText ELSE p
    BY DEF Parent
  <1>7. Len(s) \in Nat
    OBVIOUS
  <1>8. CASE pos = 1
    <2>1. d = 1
      <3>1. 1 \in 1..d /\ d \in 1..d
        BY <1>1
      <3>2. 1 < d => c[1] < c[d]
        BY <1>3, <3>1
      <3> HIDE DEF c, d, pos
      <3>3. ~(1 < d)
        BY <1>1, <1>2, <1>8, <3>2
      <3> QED
        BY <1>1, <3>3
    <2>2. Len(Front(cs)) = 0
      BY <1>5, <2>1
    <2>3. Front(cs) = <<>>
      <3> HIDE DEF cs
      <3> QED
        BY <1>5, <2>2, EmptySeq
    <2>4. Parent(s) = RootText
      BY <1>6, <1>8
    <2>5. Components(RootText) = <<>>
      BY DEF Components
    <2> QED
      BY <2>3, <2>4, <2>5
  <1>9. CASE pos # 1
    <2>1. Parent(s) = p /\ p \in Seq(Char) /\ Valid(p)
      BY <1>6, <1>9, ParentIsValid
    <2>2. /\ Len(p) = pos - 1 /\ \A i \in 1..(pos - 1) : p[i] = s[i]
      BY <1>2, CutAndJoined
    <2>3. s[1] = "/" /\ ~(s[1] = "/" /\ s[1 + 1] = "/")
      <3>1. s[1] = "/" /\ Len(s) > 1 /\ \A i \in 1..(Len(s) - 1) : ~(s[i] = "/" /\ s[i + 1] = "/")
        BY ValidScope
      <3>2. 1 \in 1..(Len(s) - 1)
        BY <1>7, <3>1
      <3> QED
        BY <3>1, <3>2
    <2>4. pos # 2
      BY <1>2, <2>3
    <2> HIDE DEF p, pos
    <2>5. p # RootText
      <3>1. Len(RootText) = 1
        BY DEF RootText
      <3>2. Len(p) # 1
        BY <1>2, <2>2, <2>4
      <3> QED
        BY <3>1, <3>2
    <2>6. Len(p) < Len(s) /\ s[Len(p) + 1] = "/" /\ \A i \in 1..Len(p) : p[i] = s[i]
      <3>1. Len(p) + 1 = pos
        BY <1>2, <2>2
      <3>2. Len(p) < Len(s)
        BY <1>2, <1>7, <2>2
      <3> QED
        BY <1>2, <2>2, <3>1, <3>2
    <2> DEFINE k == Count(p)
    <2>7. /\ k \in Nat /\ k + 1 <= d /\ c[k + 1] = Cut(p)[k + 1]
          /\ Cut(p)[k + 1] = Len(p) + 1
      <3>1. k \in Nat /\ k + 1 <= d /\ \A n \in 1..(k + 1) : c[n] = Cut(p)[n]
        BY <2>1, <2>6, BeginningCuts
      <3>2. Cut(p)[k + 1] = Len(p) + 1
        BY <2>1, <2>5, Cuts
      <3>3. k + 1 \in 1..(k + 1)
        BY <3>1
      <3> QED
        BY <3>1, <3>2, <3>3
    <2>8. k = d - 1
      <3>1. c[k + 1] = c[d]
        <4> HIDE DEF k, c, d
        <4> QED
          BY <1>2, <2>2, <2>7
      <3>2. k + 1 \in 1..d /\ d \in 1..d
        BY <1>1, <2>7
      <3>3. k + 1 < d => c[k + 1] < c[d]
        BY <1>3, <3>2
      <3>4. c[d] \in 1..Len(s)
        BY <1>1, <3>2
      <3> HIDE DEF k, c, d
      <3>5. ~(k + 1 < d)
        BY <1>7, <3>1, <3>3, <3>4
      <3> QED
        BY <1>1, <2>7, <3>5
    <2> DEFINE cp == Components(p)
    <2>9. \A n \in 1..k : cp[n] = cs[n]
      BY <2>1, <2>5, <2>6, BeginningComponents
    <2>10. cp \in Seq(Seq(Letter)) /\ Len(cp) = k
      BY <2>1, <2>5, ComponentsAre
    <2>11. Len(cp) = Len(Front(cs))
      BY <1>5, <2>8, <2>10
    <2>12. \A n \in 1..Len(cp) : cp[n] = Front(cs)[n]
      <3> HIDE DEF cp, cs, k, d
      <3> QED
        BY <1>5, <2>8, <2>9, <2>10
    <2>13. cp = Front(cs)
      <3> HIDE DEF cp, cs
      <3> QED
        BY <1>5, <2>10, <2>11, <2>12, SeqEqual
    <2> QED
      BY <2>1, <2>13
  <1> QED
    BY <1>8, <1>9

\* A segment with a slash in front is what a child has more than its parent.
LEMMA ChildIs ==
    ASSUME NEW s \in Seq(Char), Valid(s), NEW segment \in Seq(Char), ValidSegment(segment)
    PROVE  LET t == Child(s, segment)
               m == IF s = RootText THEN 1 ELSE Len(s) + 1
           IN  /\ t \in Seq(Char) /\ t # RootText /\ Len(segment) >= 1
               /\ m \in 1..Len(t) /\ Len(t) = m + Len(segment) /\ t[m] = "/"
               /\ \A i \in 1..Len(segment) : t[m + i] = segment[i] /\ segment[i] \in Letter
               /\ s # RootText => \A i \in 1..Len(s) : t[i] = s[i]
  <1> DEFINE base == IF s = RootText THEN RootText ELSE Append(s, "/")
             t == base \o segment
             m == IF s = RootText THEN 1 ELSE Len(s) + 1
  <1>1. Len(s) \in Nat /\ Len(segment) \in Nat /\ "/" \in Char
    BY DEF Char
  <1>2. Len(segment) >= 1 /\ \A i \in 1..Len(segment) : segment[i] \in Letter
    <2>1. segment # <<>> /\ \A i \in 1..Len(segment) : segment[i] \in Letter
      BY DEF ValidSegment
    <2>2. Len(segment) # 0
      BY <2>1, EmptySeq
    <2> QED
      BY <1>1, <2>1, <2>2
  <1>3. /\ base \in Seq(Char) /\ Len(base) = m /\ base[m] = "/" /\ m \in Nat /\ m >= 1
        /\ s # RootText => \A i \in 1..Len(s) : base[i] = s[i]
    <2>1. CASE s = RootText
      <3>1. base = RootText /\ m = 1
        BY <2>1
      <3>2. Len(RootText) = 1 /\ RootText[1] = "/" /\ RootText \in Seq(Char)
        BY RootIsValid DEF RootText
      <3> HIDE DEF base, m
      <3> QED
        BY <2>1, <3>1, <3>2
    <2>2. CASE s # RootText
      <3>1. base = Append(s, "/") /\ m = Len(s) + 1
        BY <2>2
      <3> HIDE DEF base, m
      <3>2. /\ base \in Seq(Char) /\ Len(base) = Len(s) + 1 /\ base[Len(s) + 1] = "/"
            /\ \A i \in 1..Len(s) : base[i] = s[i]
        BY <1>1, <3>1, SlashAppended
      <3> QED
        BY <1>1, <3>1, <3>2
    <2> QED
      BY <2>1, <2>2
  <1>4. Child(s, segment) = t
    BY DEF Child
  <1> HIDE DEF base, m
  <1>5. /\ t \in Seq(Char) /\ Len(t) = Len(base) + Len(segment)
        /\ \A i \in 1..Len(base) : t[i] = base[i]
        /\ \A i \in 1..Len(segment) : t[Len(base) + i] = segment[i]
    <2>1. base \in Seq(Char)
      BY <1>3
    <2> QED
      BY <2>1, Concatenated
  <1> HIDE DEF t
  <1>6. m \in 1..Len(t) /\ Len(t) = m + Len(segment) /\ t[m] = "/" /\ Len(t) > 1
    <2>1. m \in 1..m /\ Len(t) = m + Len(segment)
      BY <1>3, <1>5
    <2>2. t[m] = "/"
      BY <1>3, <1>5, <2>1
    <2> QED
      BY <1>1, <1>2, <1>3, <2>1, <2>2
  <1>7. \A i \in 1..Len(segment) : t[m + i] = segment[i] /\ segment[i] \in Letter
    BY <1>2, <1>3, <1>5
  <1>8. s # RootText => \A i \in 1..Len(s) : t[i] = s[i]
    <2> SUFFICES ASSUME s # RootText, NEW i \in 1..Len(s)
                 PROVE  t[i] = s[i]
      OBVIOUS
    <2>1. m = Len(s) + 1
      BY DEF m
    <2>2. i \in 1..Len(base)
      BY <1>1, <1>3, <2>1
    <2> QED
      BY <1>3, <1>5, <2>2
  <1>9. t # RootText
    <2>1. Len(RootText) = 1
      BY DEF RootText
    <2>2. Len(t) # 1
      BY <1>6
    <2> QED
      BY <2>1, <2>2
  <1> QED
    BY <1>2, <1>4, <1>5, <1>6, <1>7, <1>8, <1>9 DEF m

\* The parent of a child is what it is the child of.
LEMMA ParentOfChild ==
    ASSUME NEW s \in Seq(Char), Valid(s), NEW segment \in Seq(Char), ValidSegment(segment)
    PROVE  /\ Parent(Child(s, segment)) = s
           /\ LastOf("/", Child(s, segment)) + Len(segment) = Len(Child(s, segment))
           /\ LastOf("/", Child(s, segment)) \in Nat
  <1> DEFINE t == Child(s, segment)
             m == IF s = RootText THEN 1 ELSE Len(s) + 1
  <1>1. /\ t \in Seq(Char) /\ t # RootText /\ Len(segment) >= 1
        /\ m \in 1..Len(t) /\ Len(t) = m + Len(segment) /\ t[m] = "/"
        /\ \A i \in 1..Len(segment) : t[m + i] = segment[i] /\ segment[i] \in Letter
        /\ s # RootText => \A i \in 1..Len(s) : t[i] = s[i]
    BY ChildIs
  <1>2. Len(s) \in Nat /\ Len(segment) \in Nat /\ \A l \in Letter : l # "/"
    BY LetterAssumption
  <1>3. s # RootText => Len(s) > 1
    BY ValidScope
  <1> HIDE DEF t
  <1>4. LastOf("/", t) = m
    <2> HIDE DEF m
    <2>1. \A i \in 1..Len(t) : i > m => t[i] # "/"
      <3> SUFFICES ASSUME NEW i \in 1..Len(t), i > m
                   PROVE  t[i] # "/"
        OBVIOUS
      <3>1. i - m \in 1..Len(segment) /\ m + (i - m) = i
        BY <1>1, <1>2
      <3> QED
        BY <1>1, <1>2, <3>1
    <2> QED
      BY <1>1, <2>1, LastOfIs
  <1>5. Parent(t) = IF m = 1 THEN RootText ELSE SubSeq(t, 1, m - 1)
    BY <1>4 DEF Parent
  <1>6. Parent(t) = s
    <2>1. CASE s = RootText
      BY <1>5, <2>1
    <2>2. CASE s # RootText
      <3>1. m = Len(s) + 1 /\ m # 1 /\ m - 1 = Len(s)
        BY <1>2, <1>3, <2>2
      <3> HIDE DEF m
      <3> DEFINE p == SubSeq(t, 1, m - 1)
      <3>2. p \in Seq(Char) /\ Len(p) = m - 1 /\ \A i \in 1..(m - 1) : p[i] = t[i]
        BY <1>1, CutAndJoined
      <3>3. Parent(t) = p
        BY <1>5, <3>1
      <3> HIDE DEF p
      <3>4. Len(p) = Len(s) /\ \A i \in 1..Len(p) : p[i] = s[i]
        BY <1>1, <2>2, <3>1, <3>2
      <3>5. p = s
        BY <3>2, <3>4, SeqEqual
      <3> QED
        BY <3>3, <3>5
    <2> QED
      BY <2>1, <2>2
  <1>7. m \in Nat /\ m + Len(segment) = Len(t)
    BY <1>1
  <1> QED
    BY <1>4, <1>6, <1>7 DEF t

\* Whatever has all but the last element of a list has the list once that is added.
LEMMA FrontAndLast ==
    ASSUME NEW T, NEW x \in Seq(T), Len(x) >= 1
    PROVE  x = Append(Front(x), x[Len(x)])
  BY DEF Front

\* A child has one component more.
LEMMA ChildComponents ==
    ASSUME NEW s \in Seq(Char), Valid(s), NEW segment \in Seq(Char), ValidSegment(segment)
    PROVE  Components(Child(s, segment)) = Append(Components(s), segment)
  <1> DEFINE t == Child(s, segment)
             d == Count(t)
             ct == Components(t)
             m == LastOf("/", t)
  <1>1. t \in Seq(Char) /\ Valid(t) /\ t # RootText
    BY ChildIs, ChildIsValid
  <1>2. Parent(t) = s /\ m + Len(segment) = Len(t) /\ m \in Nat
    BY ParentOfChild
  <1>3. /\ Len(segment) \in Nat /\ Len(segment) >= 1 /\ Len(t) \in Nat
        /\ \A i \in 1..Len(segment) : t[m + i] = segment[i]
    <2> DEFINE k == IF s = RootText THEN 1 ELSE Len(s) + 1
    <2>1. /\ Len(segment) >= 1 /\ Len(t) = k + Len(segment) /\ k \in 1..Len(t)
          /\ \A i \in 1..Len(segment) : t[k + i] = segment[i]
      BY ChildIs
    <2>2. Len(segment) \in Nat /\ Len(t) \in Nat
      BY <1>1
    <2> HIDE DEF k, t, m
    <2>3. k = m
      BY <1>2, <2>1, <2>2
    <2> QED
      BY <2>1, <2>2, <2>3
  <1> HIDE DEF t
  <1>4. Components(s) = Front(ct)
    BY <1>1, <1>2, ParentComponents
  <1>5. m = Cut(t)[d] /\ Cut(t)[d + 1] = Len(t) + 1 /\ d \in Nat /\ d >= 1
    BY <1>1, LastSlash, Cuts
  <1>6. /\ ct \in Seq(Seq(Letter)) /\ Len(ct) = d /\ ct[d] \in Seq(Letter)
        /\ Len(ct[d]) = Cut(t)[d + 1] - Cut(t)[d] - 1
        /\ \A i \in 1..(Cut(t)[d + 1] - Cut(t)[d] - 1) : ct[d][i] = t[Cut(t)[d] + i]
    <2>1. d \in 1..d
      BY <1>5
    <2> QED
      BY <1>1, <2>1, ComponentsAre
  <1> HIDE DEF d, ct, m
  <1>7. ct[d] = segment
    <2> DEFINE x == ct[d]
    <2>1. x \in Seq(Letter) /\ Len(x) = Len(segment)
      BY <1>2, <1>3, <1>5, <1>6
    <2>2. \A i \in 1..Len(x) : x[i] = t[m + i]
      BY <1>2, <1>3, <1>5, <1>6
    <2> HIDE DEF x
    <2>3. \A i \in 1..Len(x) : x[i] = segment[i]
      BY <1>3, <2>1, <2>2
    <2>4. x = segment
      BY <2>1, <2>3, SeqEqual
    <2> QED
      BY <2>4 DEF x
  <1>8. ct = Append(Front(ct), ct[Len(ct)])
    BY <1>5, <1>6, FrontAndLast
  <1>9. ct = Append(Components(s), segment)
    BY <1>4, <1>6, <1>7, <1>8
  <1> QED
    BY <1>9 DEF ct, t

-------------------------------------------------------------------------------
(* Well-formed paths *)

\* The path of a list of segments is a scope.
LEMMA PathIsValid ==
    ASSUME NEW c \in Seq(Seq(Letter) \ {<<>>})
    PROVE  Path(c) \in Seq(Char) /\ Valid(Path(c))
  <1> DEFINE p == Paths(c)
             m == Len(c)
             S == {n \in 0..m : n # 0 => p[n] \in Seq(Char) /\ Valid(p[n]) /\ p[n] # RootText}
  <1>1. m \in Nat /\ \A n \in 1..m : c[n] \in Seq(Letter) /\ c[n] # <<>>
    OBVIOUS
  <1>2. p[0] = <<>> /\ \A n \in 1..m : p[n] = p[n - 1] \o <<"/">> \o c[n]
    BY <1>1, PathsAre
  <1>3. \A n \in 1..m : c[n] \in Seq(Char) /\ ValidSegment(c[n])
    <2> SUFFICES ASSUME NEW n \in 1..m
                 PROVE  c[n] \in Seq(Char) /\ ValidSegment(c[n])
      OBVIOUS
    <2> DEFINE x == c[n]
    <2>1. x \in Seq(Letter) /\ x # <<>>
      BY <1>1
    <2> HIDE DEF x
    <2>2. x \in Seq(Char)
      <3>1. \A i \in 1..Len(x) : x[i] \in Char
        BY <2>1 DEF Char
      <3>2. x \in [1..Len(x) -> Char] /\ Len(x) \in Nat
        BY <2>1, <3>1
      <3> QED
        BY <3>2
    <2>3. ValidSegment(x)
      BY <2>1 DEF ValidSegment
    <2> QED
      BY <2>2, <2>3 DEF x
  <1> HIDE DEF p, m
  <1>4. 0 \in S
    BY <1>1
  <1>5. ASSUME NEW n \in 0..(m - 1), n \in S
        PROVE  n + 1 \in S
    <2> DEFINE x == c[n + 1]
               y == p[n]
               z == p[n + 1]
    <2>1. n + 1 \in 1..m /\ n + 1 \in 0..m /\ (n + 1) - 1 = n /\ n + 1 # 0
      BY <1>1
    <2>2. x \in Seq(Char) /\ ValidSegment(x)
      BY <1>3, <2>1
    <2>3. z = y \o <<"/">> \o x
      BY <1>2, <2>1
    <2>4. n # 0 => y \in Seq(Char) /\ Valid(y) /\ y # RootText
      BY <1>5
    <2>5. n = 0 => y = <<>>
      BY <1>2
    <2> HIDE DEF x, y, z
    <2> DEFINE s == IF n = 0 THEN RootText ELSE y
    <2>6. s \in Seq(Char) /\ Valid(s)
      BY <2>4, RootIsValid
    <2>7. z = Child(s, x)
      <3>1. CASE n = 0
        <4>1. <<>> \o <<"/">> = RootText
          BY DEF RootText
        <4>2. z = RootText \o x
          BY <2>3, <2>5, <3>1, <4>1
        <4> QED
          BY <3>1, <4>2 DEF Child
      <3>2. CASE n # 0
        <4>1. y \in Seq(Char) /\ "/" \in Char
          BY <2>4, <3>2 DEF Char
        <4>2. y \o <<"/">> = Append(y, "/")
          BY <4>1
        <4>3. z = Append(y, "/") \o x
          BY <2>3, <4>2
        <4> QED
          BY <2>4, <3>2, <4>3 DEF Child
      <3> QED
        BY <3>1, <3>2
    <2> HIDE DEF s
    <2>8. z \in Seq(Char) /\ Valid(z)
      BY <2>2, <2>6, <2>7, ChildIsValid
    <2>9. z # RootText
      BY <2>2, <2>6, <2>7, ChildIs
    <2> QED
      BY <2>1, <2>8, <2>9 DEF z
  <1> HIDE DEF S
  <1>6. \A n \in 0..m : n \in S
    BY <1>1, <1>4, <1>5, UpTo
  <1>7. CASE c = <<>>
    BY <1>7, RootIsValid DEF Path
  <1>8. CASE c # <<>>
    <2>1. m # 0 /\ m \in 0..m
      BY <1>1, <1>8, EmptySeq DEF m
    <2>2. m \in S
      BY <1>6, <2>1
    <2>3. p[m] \in Seq(Char) /\ Valid(p[m])
      BY <2>1, <2>2 DEF S
    <2>4. Path(c) = p[m]
      BY <1>8 DEF Path, p, m
    <2> QED
      BY <2>3, <2>4
  <1> QED
    BY <1>7, <1>8

\* Every component takes two characters at least, so a text holds at most half as
\* many components as characters.
LEMMA TwoCharactersEach ==
    ASSUME NEW s \in Seq(Char), Valid(s), s # RootText
    PROVE  2 * Count(s) <= Len(s)
  <1> DEFINE d == Count(s)
             c == Cut(s)
             S == {n \in 0..d : 2 * n + 1 <= c[n + 1]}
  <1>1. /\ d \in Nat /\ d >= 1 /\ c[1] = 1 /\ c[d + 1] = Len(s) + 1
        /\ \A n \in 1..d : /\ c[n] \in 1..Len(s) /\ c[n + 1] \in 1..(Len(s) + 1)
                           /\ c[n] + 2 <= c[n + 1]
    BY Cuts
  <1>2. Len(s) \in Nat
    OBVIOUS
  <1> HIDE DEF c, d
  <1>3. 0 \in S
    <2>1. 0 + 1 = 1 /\ 2 * 0 + 1 = 1 /\ 1 <= 1 /\ 0 \in 0..d
      BY <1>1
    <2>2. c[0 + 1] = 1
      BY <1>1, <2>1, Zenon
    <2>3. 2 * 0 + 1 <= c[0 + 1]
      BY <2>1, <2>2
    <2> QED
      BY <2>1, <2>3
  <1>4. ASSUME NEW n \in 0..(d - 1), n \in S
        PROVE  n + 1 \in S
    <2> DEFINE a == c[n + 1]
               b == c[(n + 1) + 1]
    <2>1. n + 1 \in 1..d /\ n + 1 \in 0..d /\ n \in Nat
      BY <1>1
    <2>2. a \in 1..Len(s) /\ b \in 1..(Len(s) + 1) /\ a + 2 <= b
      BY <1>1, <2>1
    <2>3. 2 * n + 1 <= a
      BY <1>4
    <2> HIDE DEF a, b
    <2>4. 2 * (n + 1) + 1 <= b
      BY <1>2, <2>1, <2>2, <2>3
    <2> QED
      BY <2>1, <2>4 DEF b
  <1> HIDE DEF S
  <1>5. \A n \in 0..d : n \in S
    BY <1>1, <1>3, <1>4, UpTo
  <1>6. d \in S
    BY <1>1, <1>5
  <1>7. 2 * d + 1 <= c[d + 1]
    BY <1>6 DEF S
  <1>8. 2 * d + 1 <= Len(s) + 1
    BY <1>1, <1>7
  <1>9. 2 * d <= Len(s)
    BY <1>1, <1>2, <1>8
  <1> QED
    BY <1>9 DEF d

\* A scope of up to MaxText characters is the path of its components.
LEMMA ScopeIsWellFormed ==
    ASSUME NEW s \in Seq(Char), Valid(s), Len(s) <= MaxText
    PROVE  s \in WellFormedPaths
  <1> DEFINE c == Components(s)
             k == MaxText \div 2
             segments == BoundedSeq(Letter, MaxText - 1) \ {<<>>}
  <1>1. Path(c) = s
    BY ComponentsBack
  <1>2. MaxText \in Nat /\ MaxText >= 1 /\ Len(s) \in Nat
    BY MaxTextAssumption
  <1>3. c \in BoundedSeq(segments, k)
    <2>1. k \in Nat /\ \A d \in Nat : 2 * d <= MaxText => d \in 0..k
      BY <1>2
    <2>2. CASE s = RootText
      <3>1. c = <<>> /\ 0 \in 0..k
        BY <2>1, <2>2 DEF Components
      <3>2. <<>> \in [1..0 -> segments]
        <4> HIDE DEF segments
        <4> QED
          OBVIOUS
      <3> HIDE DEF c, k, segments
      <3> QED
        BY <3>1, <3>2 DEF BoundedSeq, SeqOf
    <2>3. CASE s # RootText
      <3> DEFINE d == Count(s)
      <3>1. /\ d \in Nat /\ c \in Seq(Seq(Letter)) /\ Len(c) = d
            /\ \A n \in 1..d :
                  /\ Cut(s)[n] \in 1..Len(s) /\ Cut(s)[n + 1] \in 1..(Len(s) + 1)
                  /\ Cut(s)[n] + 2 <= Cut(s)[n + 1]
                  /\ c[n] \in Seq(Letter)
                  /\ Len(c[n]) = Cut(s)[n + 1] - Cut(s)[n] - 1
        BY <2>3, Cuts, ComponentsAre
      <3>2. 2 * d <= Len(s)
        BY <2>3, TwoCharactersEach
      <3> HIDE DEF d, k
      <3>3. d \in 0..k
        BY <1>2, <2>1, <3>1, <3>2
      <3>4. ASSUME NEW n \in 1..d
            PROVE  c[n] \in segments
        <4> DEFINE x == c[n]
                   a == Cut(s)[n]
                   b == Cut(s)[n + 1]
        <4>1. a \in 1..Len(s) /\ b \in 1..(Len(s) + 1) /\ a + 2 <= b
              /\ x \in Seq(Letter) /\ Len(x) = b - a - 1
          BY <3>1
        <4> HIDE DEF x, a, b
        <4>2. Len(x) \in 0..(MaxText - 1) /\ Len(x) # 0
          BY <1>2, <4>1
        <4>3. x # <<>>
          BY <4>2
        <4>4. x \in [1..Len(x) -> Letter]
          BY <4>1
        <4>5. x \in BoundedSeq(Letter, MaxText - 1)
          BY <4>2, <4>4 DEF BoundedSeq, SeqOf
        <4> QED
          BY <4>3, <4>5 DEF x
      <3>5. c \in [1..d -> segments]
        <4> HIDE DEF c, segments
        <4> QED
          BY <3>1, <3>4
      <3> HIDE DEF c, segments
      <3> QED
        BY <3>3, <3>5 DEF BoundedSeq, SeqOf
    <2> QED
      BY <2>2, <2>3
  <1> HIDE DEF c
  <1> QED
    BY <1>1, <1>3 DEF WellFormedPaths

\* And the well-formed paths are scopes.
LEMMA WellFormedIsScope ==
    ASSUME NEW s \in WellFormedPaths
    PROVE  Valid(s)
  <1> DEFINE segments == BoundedSeq(Letter, MaxText - 1) \ {<<>>}
  <1>1. PICK c \in BoundedSeq(segments, MaxText \div 2) : s = Path(c)
    BY DEF WellFormedPaths
  <1>2. segments \subseteq Seq(Letter) \ {<<>>}
    <2> SUFFICES ASSUME NEW x \in segments
                 PROVE  x \in Seq(Letter)
      OBVIOUS
    <2>1. PICK n \in 0..(MaxText - 1) : x \in [1..n -> Letter]
      BY DEF BoundedSeq, SeqOf
    <2> QED
      BY <2>1
  <1> HIDE DEF segments
  <1>3. PICK n \in 0..(MaxText \div 2) : c \in [1..n -> segments]
    BY <1>1 DEF BoundedSeq, SeqOf
  <1>4. n \in Nat
    OBVIOUS
  <1>5. c \in Seq(Seq(Letter) \ {<<>>})
    <2>1. c \in [1..n -> Seq(Letter) \ {<<>>}]
      BY <1>2, <1>3
    <2> QED
      BY <1>4, <2>1
  <1> QED
    BY <1>1, <1>5, PathIsValid

-------------------------------------------------------------------------------
(* Theorems *)

\* What is typed and held are texts of at most MaxText characters, and what is
\* held is a scope.
IInv ==
    /\ text \in Seq(Char) /\ Len(text) <= MaxText
    /\ scope \in Seq(Char) /\ Len(scope) <= MaxText
    /\ Valid(scope)

\* A parent is no longer than its child.
LEMMA ParentIsNoLonger ==
    ASSUME NEW s \in Seq(Char), Valid(s)
    PROVE  Len(Parent(s)) <= Len(s)
  <1> DEFINE pos == LastOf("/", s)
             p == SubSeq(s, 1, pos - 1)
  <1>1. s # <<>> /\ s[1] = "/" /\ Len(s) \in Nat /\ 1 \in DOMAIN s
    BY DEF Valid
  <1>2. pos \in 1..Len(s)
    BY <1>1, LastOfExists
  <1>3. Parent(s) = IF pos = 1 THEN RootText ELSE p
    BY DEF Parent
  <1> HIDE DEF pos
  <1>4. Len(p) = pos - 1
    BY <1>2, CutAndJoined
  <1>5. Len(RootText) = 1
    BY DEF RootText
  <1> HIDE DEF p
  <1>6. pos - 1 <= Len(s) /\ 1 <= Len(s)
    BY <1>1, <1>2
  <1>7. CASE pos = 1
    BY <1>3, <1>5, <1>6, <1>7
  <1>8. CASE pos # 1
    BY <1>3, <1>4, <1>6, <1>8
  <1> QED
    BY <1>7, <1>8

\* Whatever is typed, and whichever way one walks, what is held is a scope that
\* Scope::new accepts, though parent and child do not ask it (scope.rs:107-143).
THEOREM Invariance == Spec => []IInv
  <1>1. Init => IInv
    <2>1. <<>> \in Seq(Char) /\ Len(<<>>) = 0 /\ Len(RootText) = 1
      BY DEF RootText
    <2>2. 0 <= MaxText /\ 1 <= MaxText
      BY MaxTextAssumption
    <2> QED
      BY <2>1, <2>2, RootIsValid DEF Init, IInv
  <1>2. ASSUME IInv, [Next]_vars
        PROVE  IInv'
    <2>1. ASSUME NEW c \in Char, Type(c)
          PROVE  IInv'
      <3>1. text' \in Seq(Char) /\ Len(text') = Len(text) + 1
        BY <1>2, <2>1 DEF Type, IInv
      <3>2. Len(text) \in Nat /\ MaxText \in Nat /\ Len(text) < MaxText
        BY <1>2, <2>1, MaxTextAssumption DEF Type, IInv
      <3>3. Len(text') <= MaxText
        BY <3>1, <3>2
      <3> QED
        BY <1>2, <2>1, <3>1, <3>3 DEF Type, IInv
    <2>2. CASE Clear
      <3>1. <<>> \in Seq(Char) /\ Len(<<>>) <= MaxText
        BY MaxTextAssumption
      <3> QED
        BY <1>2, <2>2, <3>1 DEF Clear, IInv
    <2>3. CASE NewScope
      BY <1>2, <2>3 DEF NewScope, IInv
    <2>4. CASE GoUp
      <3> DEFINE p == Parent(scope)
      <3>1. p \in Seq(Char) /\ Valid(p) /\ Len(p) <= Len(scope)
        BY <1>2, ParentIsValid, ParentIsNoLonger DEF IInv
      <3> HIDE DEF p
      <3>2. Len(p) \in Nat /\ Len(scope) \in Nat /\ Len(scope) <= MaxText /\ MaxText \in Nat
        BY <1>2, <3>1, MaxTextAssumption DEF IInv
      <3>3. Len(p) <= MaxText
        BY <3>1, <3>2
      <3>4. scope' = p /\ text' = text
        BY <2>4 DEF GoUp, p
      <3> QED
        BY <1>2, <3>1, <3>3, <3>4 DEF IInv
    <2>5. CASE GoDown
      BY <1>2, <2>5, ChildIsValid DEF GoDown, IInv
    <2>6. CASE UNCHANGED vars
      BY <1>2, <2>6 DEF vars, IInv
    <2> QED
      BY <1>2, <2>1, <2>2, <2>3, <2>4, <2>5, <2>6 DEF Next
  <1> QED
    BY <1>1, <1>2, PTL DEF Spec

\* Scope::new accepts exactly the well-formed paths, and what new, parent and
\* child make is one (scope.rs:25-68, 107-143).
THEOREM ScopesWellFormed == Spec => []ScopesAreWellFormed
  <1>1. ASSUME IInv
        PROVE  ScopesAreWellFormed
    <2>1. Valid(text) => text \in WellFormedPaths
      BY <1>1, ScopeIsWellFormed DEF IInv
    <2>2. text \in WellFormedPaths => Valid(text)
      BY WellFormedIsScope
    <2>3. scope \in WellFormedPaths
      BY <1>1, ScopeIsWellFormed DEF IInv
    <2> QED
      BY <2>1, <2>2, <2>3 DEF ScopesAreWellFormed
  <1> QED
    BY <1>1, Invariance, PTL

\* A scope is the path of its components, and its depth is their number
\* (scope.rs:88-104).
THEOREM ComponentsDetermine == Spec => []ComponentsDetermineScope
  <1>1. ASSUME IInv
        PROVE  ComponentsDetermineScope
    BY <1>1, ComponentsBack DEF IInv, ComponentsDetermineScope
  <1> QED
    BY <1>1, Invariance, PTL

\* Between scopes, the ancestor test on strings is the prefix test on components
\* (scope.rs:74-84).
THEOREM AncestorsOnComponents == Spec => []AncestorIsComponentPrefix
  <1>1. ASSUME IInv
        PROVE  AncestorIsComponentPrefix
    <2> SUFFICES ASSUME Valid(text)
                 PROVE  /\ IsAncestorText(scope, text) <=> IsPrefix(Components(scope), Components(text))
                        /\ IsAncestorText(text, scope) <=> IsPrefix(Components(text), Components(scope))
      BY DEF AncestorIsComponentPrefix
    <2>1. text \in Seq(Char) /\ scope \in Seq(Char) /\ Valid(scope)
      BY <1>1 DEF IInv
    <2> QED
      BY <2>1, AncestorsArePrefixes
  <1> QED
    BY <1>1, Invariance, PTL

\* Going up removes the last component, going down adds one (scope.rs:107-143).
THEOREM MovesByOneComponent == Spec => MovesAreByOneComponent
  <1> DEFINE Move == /\ GoUp => Components(scope') = Front(Components(scope))
                     /\ GoDown => Components(scope') = Append(Components(scope), text)
  <1>1. ASSUME IInv, [Next]_vars
        PROVE  [Move]_vars
    <2>1. ASSUME GoUp
          PROVE  Components(scope') = Front(Components(scope))
      BY <1>1, <2>1, ParentComponents DEF GoUp, IInv
    <2>2. ASSUME GoDown
          PROVE  Components(scope') = Append(Components(scope), text)
      BY <1>1, <2>2, ChildComponents DEF GoDown, IInv
    <2> QED
      BY <2>1, <2>2
  <1>2. Spec => [][Move]_vars
    BY <1>1, Invariance, PTL DEF Spec
  <1> QED
    BY <1>2 DEF MovesAreByOneComponent

\* The filter of the backends and the scope check of decryption agree.
THEOREM ListingIsAccess == Spec => []ListingMatchesAccess
  <1>1. ASSUME IInv
        PROVE  ListingMatchesAccess
    <2>1. text \in Seq(Char) /\ scope \in Seq(Char) /\ "/" \in Char
      BY <1>1 DEF IInv, Char
    <2>2. InList(scope, text) => IsAncestorText(scope, text)
      BY <2>1, ListedHaveAncestors
    <2>3. IsAncestorText(scope, text) => InList(scope, text)
      BY <2>1, AncestorsList
    <2> QED
      BY <2>2, <2>3 DEF ListingMatchesAccess
  <1> QED
    BY <1>1, Invariance, PTL

===============================================================================
