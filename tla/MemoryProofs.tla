------------------------------ MODULE MemoryProofs ------------------------------
(***************************************************************************)
(* Proofs about Memory, for all scopes and key names: storage names keep   *)
(* memories apart, listing takes titles apart as they were joined, and a   *)
(* sync leaves the store with its batch.                                   *)
(***************************************************************************)
EXTENDS Memory, ScopeTextsProofs, FiniteSetTheorems

-------------------------------------------------------------------------------
(* Texts *)

\* Two texts around a separating character.
Joined(s, c, k) == s \o <<c>> \o k

\* What stands where in it.
HasShape(x, s, c, k) ==
    /\ x \in Seq(Char \cup {c})
    /\ Len(x) = Len(s) + 1 + Len(k)
    /\ \A i \in 1..Len(s) : x[i] = s[i]
    /\ x[Len(s) + 1] = c
    /\ \A i \in 1..Len(k) : x[Len(s) + 1 + i] = k[i]

\* The elements of a joined text.
LEMMA JoinedShape ==
    ASSUME NEW s \in Seq(Char), NEW k \in Seq(Char), NEW c
    PROVE  HasShape(Joined(s, c, k), s, c, k)
  <1> DEFINE C == Char \cup {c}
             left == s \o <<c>>
  <1>1. s \in Seq(C) /\ k \in Seq(C) /\ <<c>> \in Seq(C)
    OBVIOUS
  <1>2. /\ left \in Seq(C) /\ Len(left) = Len(s) + 1
        /\ \A i \in 1..Len(s) : left[i] = s[i]
        /\ left[Len(s) + 1] = c
    BY <1>1
  <1>3. Joined(s, c, k) = left \o k
    BY DEF Joined
  <1> HIDE DEF left, C
  <1>4. /\ left \o k \in Seq(C)
        /\ Len(left \o k) = Len(left) + Len(k)
        /\ \A i \in 1..Len(left) : (left \o k)[i] = left[i]
        /\ \A i \in 1..Len(k) : (left \o k)[Len(left) + i] = k[i]
    BY <1>1, <1>2
  <1>5. Len(s) \in Nat /\ Len(k) \in Nat
    OBVIOUS
  <1> QED
    BY <1>2, <1>3, <1>4, <1>5 DEF C, HasShape

\* A text without the separator in front: the joined text determines both.
LEMMA JoinedDeterminesLeft ==
    ASSUME NEW s \in Seq(Char), NEW k \in Seq(Char), NEW c,
           NEW t \in Seq(Char), NEW l \in Seq(Char),
           ~Has(s, c), ~Has(t, c), Joined(s, c, k) = Joined(t, c, l)
    PROVE  s = t /\ k = l
  <1> DEFINE x == Joined(s, c, k)
  <1>s. /\ Len(x) = Len(s) + 1 + Len(k)
        /\ \A i \in 1..Len(s) : x[i] = s[i]
        /\ x[Len(s) + 1] = c
        /\ \A i \in 1..Len(k) : x[Len(s) + 1 + i] = k[i]
    <2>1. HasShape(x, s, c, k)
      BY JoinedShape
    <2> HIDE DEF x
    <2> QED
      BY <2>1 DEF HasShape
  <1>t. /\ Len(x) = Len(t) + 1 + Len(l)
        /\ \A i \in 1..Len(t) : x[i] = t[i]
        /\ x[Len(t) + 1] = c
        /\ \A i \in 1..Len(l) : x[Len(t) + 1 + i] = l[i]
    <2>1. x = Joined(t, c, l)
      OBVIOUS
    <2>2. HasShape(x, t, c, l)
      BY <2>1, JoinedShape
    <2> HIDE DEF x
    <2> QED
      BY <2>2 DEF HasShape
  <1> HIDE DEF x
  <1>1. Len(s) \in Nat /\ Len(t) \in Nat /\ Len(k) \in Nat /\ Len(l) \in Nat
    OBVIOUS
  <1>2. ~(Len(s) < Len(t))
    <2> SUFFICES ASSUME Len(s) < Len(t)
                 PROVE  FALSE
      OBVIOUS
    <2>1. Len(s) + 1 \in 1..Len(t)
      BY <1>1
    <2>2. t[Len(s) + 1] = c
      BY <2>1, <1>1, <1>s, <1>t
    <2> QED
      BY <2>1, <2>2 DEF Has
  <1>3. ~(Len(t) < Len(s))
    <2> SUFFICES ASSUME Len(t) < Len(s)
                 PROVE  FALSE
      OBVIOUS
    <2>1. Len(t) + 1 \in 1..Len(s)
      BY <1>1
    <2>2. s[Len(t) + 1] = c
      BY <2>1, <1>1, <1>s, <1>t
    <2> QED
      BY <2>1, <2>2 DEF Has
  <1>4. Len(s) = Len(t)
    BY <1>1, <1>2, <1>3
  <1>5. Len(k) = Len(l)
    BY <1>1, <1>4, <1>1, <1>s, <1>t
  <1>6. \A i \in 1..Len(s) : s[i] = t[i]
    BY <1>4, <1>1, <1>s, <1>t
  <1>7. \A i \in 1..Len(k) : k[i] = l[i]
    BY <1>4, <1>5, <1>1, <1>s, <1>t
  <1> QED
    BY <1>4, <1>5, <1>6, <1>7, SeqEqual

\* The same with the separator missing behind.
LEMMA JoinedDeterminesRight ==
    ASSUME NEW s \in Seq(Char), NEW k \in Seq(Char), NEW c,
           NEW t \in Seq(Char), NEW l \in Seq(Char),
           ~Has(k, c), ~Has(l, c), Joined(s, c, k) = Joined(t, c, l)
    PROVE  s = t /\ k = l
  <1> DEFINE x == Joined(s, c, k)
  <1>s. /\ Len(x) = Len(s) + 1 + Len(k)
        /\ \A i \in 1..Len(s) : x[i] = s[i]
        /\ x[Len(s) + 1] = c
        /\ \A i \in 1..Len(k) : x[Len(s) + 1 + i] = k[i]
    <2>1. HasShape(x, s, c, k)
      BY JoinedShape
    <2> HIDE DEF x
    <2> QED
      BY <2>1 DEF HasShape
  <1>t. /\ Len(x) = Len(t) + 1 + Len(l)
        /\ \A i \in 1..Len(t) : x[i] = t[i]
        /\ x[Len(t) + 1] = c
        /\ \A i \in 1..Len(l) : x[Len(t) + 1 + i] = l[i]
    <2>1. x = Joined(t, c, l)
      OBVIOUS
    <2>2. HasShape(x, t, c, l)
      BY <2>1, JoinedShape
    <2> HIDE DEF x
    <2> QED
      BY <2>2 DEF HasShape
  <1> HIDE DEF x
  <1>1. Len(s) \in Nat /\ Len(t) \in Nat /\ Len(k) \in Nat /\ Len(l) \in Nat
    OBVIOUS
  <1>0. Len(s) + Len(k) = Len(t) + Len(l)
    <2>1. Len(s) + 1 + Len(k) = Len(t) + 1 + Len(l)
      BY <1>s, <1>t
    <2>2. \A a, b, m, n \in Nat : a + 1 + b = m + 1 + n => a + b = m + n
      OBVIOUS
    <2> QED
      BY <1>1, <2>1, <2>2, SMTT(60)
  <1>2. ~(Len(s) < Len(t))
    <2> SUFFICES ASSUME Len(s) < Len(t)
                 PROVE  FALSE
      OBVIOUS
    <2>1. /\ Len(t) - Len(s) \in 1..Len(k)
          /\ Len(s) + 1 + (Len(t) - Len(s)) = Len(t) + 1
      BY <1>0, <1>1
    <2>2. k[Len(t) - Len(s)] = c
      BY <2>1, <1>1, <1>s, <1>t
    <2> QED
      BY <2>1, <2>2 DEF Has
  <1>3. ~(Len(t) < Len(s))
    <2> SUFFICES ASSUME Len(t) < Len(s)
                 PROVE  FALSE
      OBVIOUS
    <2>1. /\ Len(s) - Len(t) \in 1..Len(l)
          /\ Len(t) + 1 + (Len(s) - Len(t)) = Len(s) + 1
      BY <1>0, <1>1
    <2>2. l[Len(s) - Len(t)] = c
      BY <2>1, <1>1, <1>s, <1>t
    <2> QED
      BY <2>1, <2>2 DEF Has
  <1>4. Len(s) = Len(t)
    BY <1>1, <1>2, <1>3
  <1>5. Len(k) = Len(l)
    BY <1>0, <1>1, <1>4
  <1>6. \A i \in 1..Len(s) : s[i] = t[i]
    BY <1>4, <1>1, <1>s, <1>t
  <1>7. \A i \in 1..Len(k) : k[i] = l[i]
    BY <1>4, <1>5, <1>1, <1>s, <1>t
  <1> QED
    BY <1>4, <1>5, <1>6, <1>7, SeqEqual

\* No scope has a colon (scope.rs:25-68).
LEMMA ScopesHaveNoColon ==
    ASSUME NEW s \in Seq(Char), Valid(s)
    PROVE  ~Has(s, ":") /\ s # <<>> /\ Len(s) >= 1
  <1>1. s[1] = "/" /\ s # <<>>
    BY DEF Valid
  <1>2. \A i \in 2..Len(s) : s[i] \in Letter \cup {"/"}
    BY DEF Valid
  <1>3. \A i \in 1..Len(s) : i = 1 \/ i \in 2..Len(s)
    OBVIOUS
  <1>4. \A i \in DOMAIN s : s[i] # ":"
    BY <1>1, <1>2, <1>3, ColonAssumption
  <1> QED
    BY <1>1, <1>4 DEF Has

-------------------------------------------------------------------------------
(* Storage names *)

\* A pair of a scope and a key name.
Pair(p) == p \in Seq(Char) \X Seq(Char) /\ Valid(p[1])

\* A storage name joins the scope and the key name with the separator of the
\* backend.
LEMMA StorageNameIs ==
    ASSUME NEW p
    PROVE  StorageName(p) = Joined(p[1], IF backend = "Fileverse" THEN ":" ELSE "/", p[2])
  BY DEF StorageName, TitleOf, CompositeKey, Joined

\* Pairs with a storage name of their own: no two of them share it.
LEMMA StorageNamesDiffer ==
    ASSUME NEW p, NEW q, Pair(p), Pair(q), Separate(p), Separate(q),
           StorageName(p) = StorageName(q)
    PROVE  p = q
  <1>1. /\ p[1] \in Seq(Char) /\ p[2] \in Seq(Char) /\ q[1] \in Seq(Char) /\ q[2] \in Seq(Char)
        /\ p = <<p[1], p[2]>> /\ q = <<q[1], q[2]>>
        /\ Valid(p[1]) /\ Valid(q[1])
    BY DEF Pair
  <1>2. CASE backend = "Fileverse"
    <2>1. Joined(p[1], ":", p[2]) = Joined(q[1], ":", q[2])
      BY <1>2, StorageNameIs
    <2>2. ~Has(p[1], ":") /\ ~Has(q[1], ":")
      BY <1>1, ScopesHaveNoColon
    <2>3. p[1] = q[1] /\ p[2] = q[2]
      BY <1>1, <2>1, <2>2, JoinedDeterminesLeft
    <2> QED
      BY <1>1, <2>3
  <1>3. CASE backend # "Fileverse"
    <2>1. Joined(p[1], "/", p[2]) = Joined(q[1], "/", q[2])
      BY <1>3, StorageNameIs
    <2>2. ~Has(p[2], "/") /\ ~Has(q[2], "/")
      BY <1>3 DEF Separate
    <2>3. p[1] = q[1] /\ p[2] = q[2]
      BY <1>1, <2>1, <2>2, JoinedDeterminesRight
    <2> QED
      BY <1>1, <2>3
  <1> QED
    BY <1>2, <1>3

\* A joined text is cut into what it was joined from.
LEMMA JoinedIsCut ==
    ASSUME NEW s \in Seq(Char), NEW k \in Seq(Char), NEW c
    PROVE  /\ SubSeq(Joined(s, c, k), 1, Len(s)) = s
           /\ SubSeq(Joined(s, c, k), Len(s) + 2, Len(Joined(s, c, k))) = k
  <1> DEFINE x == Joined(s, c, k)
  <1>1. HasShape(x, s, c, k)
    BY JoinedShape
  <1> HIDE DEF x
  <1>2. /\ x \in Seq(Char \cup {c}) /\ Len(x) = Len(s) + 1 + Len(k)
        /\ \A i \in 1..Len(s) : x[i] = s[i]
        /\ \A i \in 1..Len(k) : x[Len(s) + 1 + i] = k[i]
        /\ Len(s) \in Nat /\ Len(k) \in Nat /\ Len(s) + 1 \in 1..Len(x)
    BY <1>1 DEF HasShape
  <1> DEFINE left == SubSeq(x, 1, (Len(s) + 1) - 1)
             right == SubSeq(x, (Len(s) + 1) + 1, Len(x))
  <1>3. /\ left \in Seq(Char \cup {c}) /\ right \in Seq(Char \cup {c})
        /\ Len(left) = (Len(s) + 1) - 1 /\ Len(right) = Len(x) - (Len(s) + 1)
        /\ \A i \in 1..((Len(s) + 1) - 1) : left[i] = x[i]
        /\ \A i \in 1..(Len(x) - (Len(s) + 1)) : right[i] = x[(Len(s) + 1) + i]
    BY <1>2, CutAndJoined
  <1>4. left = SubSeq(x, 1, Len(s)) /\ right = SubSeq(x, Len(s) + 2, Len(x))
    <2>1. (Len(s) + 1) - 1 = Len(s) /\ (Len(s) + 1) + 1 = Len(s) + 2
      BY <1>2
    <2> QED
      BY <2>1
  <1>5. (Len(s) + 1) - 1 = Len(s) /\ Len(x) - (Len(s) + 1) = Len(k)
    BY <1>2
  <1> HIDE DEF left, right
  <1>6. s \in Seq(Char \cup {c}) /\ k \in Seq(Char \cup {c})
    OBVIOUS
  <1>7. left = s
    BY <1>2, <1>3, <1>5, <1>6, SeqEqual
  <1>8. right = k
    BY <1>2, <1>3, <1>5, <1>6, SeqEqual
  <1> QED
    BY <1>4, <1>7, <1>8 DEF x

\* The separator that comes last is the joining one if the second part has none.
LEMMA LastOfJoined ==
    ASSUME NEW s \in Seq(Char), NEW k \in Seq(Char), NEW c, ~Has(k, c)
    PROVE  LastOf(c, Joined(s, c, k)) = Len(s) + 1
  <1> DEFINE x == Joined(s, c, k)
  <1>1. HasShape(x, s, c, k)
    BY JoinedShape
  <1> HIDE DEF x
  <1>2. /\ x \in Seq(Char \cup {c}) /\ Len(x) = Len(s) + 1 + Len(k)
        /\ x[Len(s) + 1] = c
        /\ \A i \in 1..Len(k) : x[Len(s) + 1 + i] = k[i]
        /\ Len(s) \in Nat /\ Len(k) \in Nat /\ Len(s) + 1 \in 1..Len(x)
    BY <1>1 DEF HasShape
  <1>3. ASSUME NEW i \in 1..Len(x), i > Len(s) + 1
        PROVE  x[i] # c
    <2>1. i - (Len(s) + 1) \in 1..Len(k) /\ Len(s) + 1 + (i - (Len(s) + 1)) = i
      BY <1>2, <1>3
    <2>2. x[i] = k[i - (Len(s) + 1)]
      BY <2>1, <1>2
    <2> QED
      BY <2>1, <2>2 DEF Has
  <1>4. LastOf(c, x) = Len(s) + 1
    BY <1>2, <1>3, LastOfIs
  <1> QED
    BY <1>4 DEF x

\* A title whose key name is plain is parsed into what it was made of
\* (fileverse.rs:75-86).
LEMMA PlainTitlesParse ==
    ASSUME NEW s \in Seq(Char), NEW k \in Seq(Char), Valid(s), k # <<>>, ~Has(k, ":")
    PROVE  ParseTitle(Joined(s, ":", k)) = <<s, k>>
  <1> DEFINE x == Joined(s, ":", k)
  <1>1. HasShape(x, s, ":", k)
    BY JoinedShape
  <1>2. LastOf(":", x) = Len(s) + 1
    BY LastOfJoined
  <1>3. SubSeq(x, 1, Len(s)) = s /\ SubSeq(x, Len(s) + 2, Len(x)) = k
    BY JoinedIsCut
  <1> HIDE DEF x
  <1>4. /\ Len(x) = Len(s) + 1 + Len(k) /\ x \in Seq(Char \cup {":"})
        /\ x[Len(s) + 1] = ":" /\ Len(s) + 1 \in DOMAIN x
    <2>1. Len(s) \in Nat /\ Len(k) \in Nat
      OBVIOUS
    <2> QED
      BY <1>1, <2>1 DEF HasShape
  <1>5. Len(s) >= 1 /\ Len(k) >= 1 /\ Len(s) \in Nat /\ Len(k) \in Nat
    BY ScopesHaveNoColon
  <1>6. Len(s) + 1 \notin {1, Len(x)}
    BY <1>4, <1>5
  <1>7. (Len(s) + 1) - 1 = Len(s) /\ (Len(s) + 1) + 1 = Len(s) + 2
    BY <1>5
  <1>8. ParseTitle(x) = <<SubSeq(x, 1, (Len(s) + 1) - 1), SubSeq(x, (Len(s) + 1) + 1, Len(x))>>
    BY <1>2, <1>4, <1>6 DEF ParseTitle
  <1>9. ParseTitle(x) = <<s, k>>
    BY <1>3, <1>7, <1>8
  <1> QED
    BY <1>9 DEF x

\* A title that parses: it is cut at its last colon, which is not left of the
\* one it was joined with, and joining the parts gives the title again.
LEMMA ParsedTitles ==
    ASSUME NEW s \in Seq(Char), NEW k \in Seq(Char), Valid(s),
           ParseTitle(Joined(s, ":", k)) # None
    PROVE  LET x == Joined(s, ":", k)
               p == ParseTitle(x)
           IN  /\ p = <<p[1], p[2]>>
               /\ p[1] \in Seq(Char \cup {":"}) /\ p[2] \in Seq(Char \cup {":"})
               /\ Len(p[1]) >= Len(s) /\ Len(p[1]) \in Nat
               /\ \A i \in 1..Len(s) : p[1][i] = s[i]
               /\ Len(p[1]) > Len(s) => p[1][Len(s) + 1] = ":"
               /\ Joined(p[1], ":", p[2]) = x
               /\ p[2] # <<>> /\ ~Has(p[2], ":")
  <1> DEFINE C == Char \cup {":"}
             x == Joined(s, ":", k)
             n == LastOf(":", x)
             left == SubSeq(x, 1, n - 1)
             right == SubSeq(x, n + 1, Len(x))
             p == ParseTitle(x)
  <1>1. HasShape(x, s, ":", k)
    BY JoinedShape
  <1>0. p # None
    OBVIOUS
  <1> HIDE DEF x
  <1>2. /\ x \in Seq(C) /\ Len(x) = Len(s) + 1 + Len(k)
        /\ \A i \in 1..Len(s) : x[i] = s[i]
        /\ x[Len(s) + 1] = ":"
        /\ Len(s) \in Nat /\ Len(k) \in Nat /\ Len(x) \in Nat /\ Len(s) + 1 \in 1..Len(x)
    <2>1. Len(s) \in Nat /\ Len(k) \in Nat
      OBVIOUS
    <2> QED
      BY <1>1, <2>1 DEF HasShape
  <1>3. Has(x, ":")
    BY <1>2 DEF Has
  <1>4. n \in 1..Len(x) /\ x[n] = ":" /\ Len(s) + 1 <= n
    BY <1>2, <1>3, LastOfExists DEF Has
  <1>13. \A i \in 1..Len(x) : x[i] = ":" => i <= n
    BY <1>2, <1>3, LastOfExists DEF Has
  <1>5. n # Len(x) /\ p = <<left, right>>
    BY <1>0, <1>3 DEF ParseTitle, Has
  <1> HIDE DEF n, p, C
  <1>6. /\ left \in Seq(C) /\ right \in Seq(C)
        /\ Len(left) = n - 1 /\ Len(right) = Len(x) - n
        /\ \A i \in 1..(n - 1) : left[i] = x[i]
        /\ \A i \in 1..(Len(x) - n) : right[i] = x[n + i]
    BY <1>2, <1>4, CutAndJoined
  <1> HIDE DEF left, right
  <1>7. n \in Nat /\ n - 1 \in Nat /\ Len(x) - n \in Nat /\ Len(x) - n >= 1
    BY <1>2, <1>4, <1>5
  <1>8. right # <<>>
    BY <1>6, <1>7
  <1>9. /\ Len(left) >= Len(s) /\ Len(left) \in Nat
        /\ \A i \in 1..Len(s) : left[i] = s[i]
        /\ Len(left) > Len(s) => left[Len(s) + 1] = ":"
    BY <1>2, <1>4, <1>6, <1>7
  <1>10. Joined(left, ":", right) = x
    <2> DEFINE y == left \o <<":">>
               z == y \o right
    <2>1. ":" \in C /\ <<":">> \in Seq(C)
      BY DEF C
    <2>2. /\ y \in Seq(C) /\ Len(y) = n
          /\ \A i \in 1..(n - 1) : y[i] = x[i]
          /\ y[n] = x[n]
      BY <1>4, <1>6, <1>7, <2>1
    <2>3. \A i \in 1..n : y[i] = x[i]
      BY <2>2, <1>7
    <2> HIDE DEF y
    <2>0. y \in Seq(C) /\ right \in Seq(C) /\ Len(y) = n
      BY <1>6, <2>2
    <2>4. /\ z \in Seq(C) /\ Len(z) = Len(y) + Len(right)
          /\ \A i \in 1..Len(y) : z[i] = y[i]
          /\ \A i \in 1..Len(right) : z[Len(y) + i] = right[i]
      <3>1. \A u, v \in Seq(C) :
                /\ u \o v \in Seq(C) /\ Len(u \o v) = Len(u) + Len(v)
                /\ \A i \in 1..Len(u) : (u \o v)[i] = u[i]
                /\ \A i \in 1..Len(v) : (u \o v)[Len(u) + i] = v[i]
        BY Concatenated
      <3> QED
        BY <2>0, <3>1
    <2> HIDE DEF z
    <2>5. Len(z) = Len(x)
      BY <1>2, <1>6, <1>7, <2>0, <2>4
    <2>6. \A i \in 1..Len(x) : z[i] = x[i]
      <3> SUFFICES ASSUME NEW i \in 1..Len(x)
                   PROVE  z[i] = x[i]
        OBVIOUS
      <3>1. CASE i <= n
        <4>1. i \in 1..n
          BY <3>1, <1>7
        <4> QED
          BY <4>1, <2>0, <2>3, <2>4
      <3>2. CASE i > n
        <4>1. i - n \in 1..(Len(x) - n) /\ n + (i - n) = i
          BY <3>2, <1>2, <1>7
        <4>2. i - n \in 1..Len(right)
          BY <4>1, <1>6
        <4>3. z[Len(y) + (i - n)] = right[i - n]
          BY <4>2, <2>4
        <4>4. right[i - n] = x[i]
          BY <4>1, <1>6
        <4> QED
          BY <4>1, <4>3, <4>4, <2>0
      <3> QED
        BY <3>1, <3>2, <1>2, <1>7
    <2>7. z = x
      BY <1>2, <2>4, <2>5, <2>6, SeqEqual
    <2> QED
      BY <2>7 DEF Joined, y, z
  <1>12. ~Has(right, ":")
    <2> SUFFICES ASSUME NEW i \in 1..(Len(x) - n), right[i] = ":"
                 PROVE  FALSE
      BY <1>6, <1>7 DEF Has
    <2>1. n + i \in 1..Len(x) /\ x[n + i] = ":" /\ ~(n + i <= n)
      BY <1>2, <1>4, <1>6, <1>7
    <2> QED
      BY <1>13, <2>1
  <1>11. /\ p = <<p[1], p[2]>> /\ p[1] = left /\ p[2] = right
    BY <1>5
  <1> QED
    BY <1>6, <1>8, <1>9, <1>10, <1>11, <1>12 DEF x, p, C

-------------------------------------------------------------------------------
(* Entries are changed one at a time *)

\* Programs write valid pairs.
LEMMA NamesArePairs ==
    ASSUME NEW p \in Name
    PROVE  Pair(p)
  BY NameAssumption DEF Pair

\* A step leaves every entry alone but those of this storage name.
OnlyAt(at) ==
    \A d : d[1] # at =>
        /\ d \in DOMAIN docs' <=> d \in DOMAIN docs
        /\ d \in DOMAIN docs => docs'[d] = docs[d]

\* A put changes one document, of its storage name, whether it sees the others
\* or not: one that decodes, or a new one.
LEMMA PutIs ==
    ASSUME NEW name, NEW data, Put(name, data) \/ PutUnseen(name, data)
    PROVE  \E d :
               /\ d[1] = StorageName(name) /\ docs' = With(d, name, data)
               /\ \/ d \in DOMAIN docs /\ UNCHANGED doubted
                  \/ /\ d \notin DOMAIN docs /\ d[2] \in Copy
                     /\ \/ /\ \/ Under(StorageName(name)) = {}
                              \/ \E first \in Under(StorageName(name)) :
                                     docs[first].data.form = "not Base64"
                           /\ UNCHANGED doubted
                        \/ /\ backend = "Fileverse"
                           /\ doubted' = doubted \cup {StorageName(name)}
  <1>1. ASSUME Update(name, data), UNCHANGED doubted
        PROVE  \E d : /\ d[1] = StorageName(name) /\ docs' = With(d, name, data)
                      /\ d \in DOMAIN docs
    BY <1>1 DEF Update, Under
  <1>2. ASSUME Create(name, data)
        PROVE  \E d : /\ d[1] = StorageName(name) /\ docs' = With(d, name, data)
                      /\ d \notin DOMAIN docs /\ d[2] \in Copy
    <2>1. PICK copy \in Copy : /\ <<StorageName(name), copy>> \notin DOMAIN docs
                               /\ docs' = With(<<StorageName(name), copy>>, name, data)
      BY <1>2 DEF Create
    <2> QED
      BY <2>1
  <1>3. CASE Put(name, data) /\ Update(name, data)
    BY <1>1, <1>3 DEF Put
  <1>4. CASE Put(name, data) /\ ~Update(name, data)
    BY <1>2, <1>4 DEF Put
  <1>5. CASE PutUnseen(name, data)
    BY <1>2, <1>5 DEF PutUnseen
  <1> QED
    BY <1>3, <1>4, <1>5

\* There is such a name for every step.
LEMMA OneEntryChanges ==
    ASSUME [Next]_vars
    PROVE  /\ backend' = backend
           /\ \E at : OnlyAt(at)
  <1>0. ASSUME docs' = docs
        PROVE  OnlyAt(0)
    BY <1>0 DEF OnlyAt
  <1>s. ASSUME NEW name, NEW data, Put(name, data) \/ PutUnseen(name, data)
        PROVE  OnlyAt(StorageName(name))
    <2>1. PICK d : d[1] = StorageName(name) /\ docs' = With(d, name, data)
      BY <1>s, PutIs
    <2> QED
      BY <2>1 DEF With, OnlyAt
  <1>1. ASSUME NEW owner \in Owner, NEW name \in Name, NEW content \in Content,
               Write(owner, name, content)
        PROVE  backend' = backend /\ \E at : OnlyAt(at)
    <2>1. backend' = backend
      BY <1>1 DEF Write, Change
    <2>2. OnlyAt(StorageName(name))
      BY <1>1, <1>s DEF Write
    <2> QED
      BY <2>1, <2>2
  <1>2. ASSUME NEW d \in DOMAIN docs, Delete(d)
        PROVE  backend' = backend /\ \E at : OnlyAt(at)
    <2>1. backend' = backend /\ OnlyAt(d[1])
      BY <1>2 DEF Delete, Change, OnlyAt
    <2> QED
      BY <2>1
  <1>3. ASSUME NEW d \in DOMAIN docs, NEW form, Edit(d, form)
        PROVE  backend' = backend /\ \E at : OnlyAt(at)
    <2>1. backend' = backend /\ OnlyAt(d[1])
      BY <1>3 DEF Edit, Change, OnlyAt
    <2> QED
      BY <2>1
  <1>4. ASSUME NEW session \in Session, NEW batch \in Batch, SyncBegin(session, batch)
        PROVE  backend' = backend /\ \E at : OnlyAt(at)
    BY <1>0, <1>4 DEF SyncBegin
  <1>5. CASE SyncRead
    BY <1>0, <1>5 DEF SyncRead
  <1>6. CASE SyncStore
    <2>1. backend' = backend
      BY <1>6 DEF SyncStore
    <2> DEFINE data == Sealed(sync.session.owner, Current.name[1], Current.content)
    <2>2. \/ docs' = docs
          \/ Put(Current.name, data) \/ PutUnseen(Current.name, data)
      BY <1>6 DEF SyncStore
    <2>3. OnlyAt(0) \/ OnlyAt(StorageName(Current.name))
      BY <1>0, <1>s, <2>2
    <2> QED
      BY <2>1, <2>3
  <1>7. CASE UNCHANGED vars
    BY <1>0, <1>7 DEF vars
  <1> QED
    BY <1>1, <1>2, <1>3, <1>4, <1>5, <1>6, <1>7 DEF Next, Finished

\* Memories with names of their own never share an entry.
THEOREM MemoriesStaySeparate == Spec => MemoriesAreSeparate
  <1>1. ASSUME [Next]_vars, NEW p \in Name, NEW q \in Name, p # q,
               Separate(p), Separate(q), DataOf(p)' # DataOf(p)
        PROVE  DataOf(q)' = DataOf(q)
    <2>1. backend' = backend
      BY <1>1, OneEntryChanges
    <2>2. PICK at : OnlyAt(at)
      BY <1>1, OneEntryChanges
    <2>3. StorageName(p)' = StorageName(p) /\ StorageName(q)' = StorageName(q)
      BY <2>1 DEF StorageName
    <2>4. ASSUME NEW CONSTANT r, StorageName(r)' = StorageName(r), StorageName(r) # at
          PROVE  DataOf(r)' = DataOf(r)
      <3> DEFINE x == StorageName(r)
                 before == {d \in DOMAIN docs : d[1] = x}
                 after == {d \in DOMAIN docs' : d[1] = x}
      <3>1. DataOf(r) = {<<d, docs[d].data>> : d \in before}
        BY DEF DataOf, Under
      <3>2. DataOf(r)' = {<<d, docs'[d].data>> : d \in after}
        BY <2>4 DEF DataOf, Under
      <3>3. x # at
        BY <2>4
      <3> HIDE DEF x
      <3>4. after = before /\ \A d \in before : docs'[d] = docs[d]
        BY <2>2, <3>3 DEF OnlyAt
      <3> HIDE DEF before, after
      <3>5. {<<d, docs'[d].data>> : d \in after} = {<<d, docs[d].data>> : d \in before}
        BY <3>4
      <3> QED
        BY <3>1, <3>2, <3>5
    <2>5. StorageName(p) = at
      BY <1>1, <2>3, <2>4
    <2>6. StorageName(q) # at
      BY <1>1, <2>5, NamesArePairs, StorageNamesDiffer
    <2> QED
      BY <2>3, <2>4, <2>6
  <1>2. [Next]_vars =>
            [\A p \in Name :
                 Separate(p) /\ DataOf(p)' # DataOf(p) =>
                     \A q \in Name \ {p} : Separate(q) => DataOf(q)' = DataOf(q)]_vars
    BY <1>1
  <1> QED
    BY <1>2, PTL DEF Spec, MemoriesAreSeparate

-------------------------------------------------------------------------------
(* Listing *)

\* The other way round, also for what a title gives back as the scope when its
\* key name has colons: the scope itself, or the scope, a colon and more.
LEMMA ListedAreBelow ==
    ASSUME NEW prefix \in Seq(Char), Valid(prefix),
           NEW s \in Seq(Char), NEW p \in Seq(Char \cup {":"}),
           Len(p) >= Len(s), \A i \in 1..Len(s) : p[i] = s[i],
           Len(p) > Len(s) => p[Len(s) + 1] = ":",
           InList(prefix, p)
    PROVE  IsAncestorText(prefix, s)
  <1> DEFINE T == Char \cup {":"}
             a == Append(prefix, "/")
  <1>1. ~Has(prefix, ":")
    BY ScopesHaveNoColon
  <1>2. prefix \in Seq(T) /\ s \in Seq(T) /\ "/" \in T
    BY DEF Char
  <1>3. /\ Len(s) \in Nat /\ Len(p) \in Nat /\ Len(prefix) \in Nat
    OBVIOUS
  <1>4. /\ a \in Seq(T) /\ Len(a) = Len(prefix) + 1 /\ a[Len(prefix) + 1] = "/"
        /\ \A i \in 1..Len(prefix) : a[i] = prefix[i]
    BY <1>2, SlashAppended
  <1>5. CASE prefix = RootText
    BY <1>5 DEF IsAncestorText
  <1>6. CASE prefix = p
    <2>1. ~(Len(p) > Len(s))
      <3> SUFFICES ASSUME Len(p) > Len(s)
                   PROVE  FALSE
        OBVIOUS
      <3>1. Len(s) + 1 \in 1..Len(prefix) /\ prefix[Len(s) + 1] = ":"
        BY <1>3, <1>6
      <3> QED
        BY <1>1, <3>1 DEF Has
    <2>2. Len(p) = Len(s)
      BY <1>3, <2>1
    <2>3. p = s
      BY <1>2, <2>2, SeqEqual
    <2> QED
      BY <1>6, <2>3 DEF IsAncestorText
  <1>7. CASE IsPrefix(a, p)
    <2> HIDE DEF a, T
    <2>1. Len(a) <= Len(p) /\ \A i \in 1..Len(a) : a[i] = p[i]
      <3>1. p \in Seq(T)
        BY DEF T
      <3> QED
        BY <1>4, <1>7, <3>1, PrefixIs
    <2>2. ~(Len(a) > Len(s))
      <3> SUFFICES ASSUME Len(a) > Len(s)
                   PROVE  FALSE
        OBVIOUS
      <3>1. Len(s) + 1 \in 1..Len(a) /\ p[Len(s) + 1] = ":"
        BY <1>3, <1>4, <2>1
      <3>2. a[Len(s) + 1] = ":"
        BY <2>1, <3>1
      <3>3. Len(s) + 1 \in 1..Len(prefix) \/ Len(s) + 1 = Len(prefix) + 1
        BY <1>3, <1>4, <3>1
      <3>4. CASE Len(s) + 1 \in 1..Len(prefix)
        BY <1>1, <1>4, <3>2, <3>4 DEF Has
      <3>5. CASE Len(s) + 1 = Len(prefix) + 1
        BY <1>4, <3>2, <3>5
      <3> QED
        BY <3>3, <3>4, <3>5
    <2>3. Len(s) > Len(prefix) /\ Len(prefix) <= Len(s)
      BY <1>3, <1>4, <2>2
    <2>4. \A i \in 1..Len(prefix) : i \in 1..Len(a) /\ i \in 1..Len(s)
      BY <1>3, <1>4, <2>3
    <2>5. \A i \in 1..Len(prefix) : prefix[i] = s[i]
      BY <1>4, <2>1, <2>4
    <2>6. IsPrefix(prefix, s)
      BY <1>2, <2>3, <2>5, PrefixIs
    <2>7. Len(prefix) + 1 \in 1..Len(a) /\ Len(prefix) + 1 \in 1..Len(s)
      BY <1>3, <1>4, <2>3
    <2>8. s[Len(prefix) + 1] = "/"
      BY <1>4, <2>1, <2>7
    <2> QED
      BY <2>3, <2>6, <2>8 DEF IsAncestorText
  <1> QED
    BY <1>5, <1>6, <1>7 DEF InList

\* A text is one over more characters, too.
LEMMA TextOfMore ==
    ASSUME NEW T, NEW U, NEW x \in Seq(T)
    PROVE  x \in Seq(T \cup U)
  OBVIOUS

\* A text without colons.
LEMMA WithoutColon ==
    ASSUME NEW x \in Seq(Char \cup {":"}), ~Has(x, ":")
    PROVE  x \in Seq(Char)
  <1>1. \A i \in 1..Len(x) : x[i] \in Char
    BY DEF Has
  <1>2. x = [i \in 1..Len(x) |-> x[i]] /\ Len(x) \in Nat
    OBVIOUS
  <1> QED
    BY <1>1, <1>2

\* A valid scope is made of the characters scopes are made of.
LEMMA ValidText ==
    ASSUME NEW x \in Seq(Char \cup {":"}), Valid(x)
    PROVE  x \in Seq(Char)
  <1>1. x # <<>> /\ x[1] = "/" /\ \A i \in 2..Len(x) : x[i] \in Letter \cup {"/"}
    BY DEF Valid
  <1>2. \A i \in 1..Len(x) : i = 1 \/ i \in 2..Len(x)
    OBVIOUS
  <1>3. ~Has(x, ":")
    BY <1>1, <1>2, ColonAssumption DEF Has
  <1> QED
    BY <1>3, WithoutColon

\* A resource URI is read for the name it was made from, if the key name has
\* no slash (resources.rs:5-7, tools.rs:673-690).
LEMMA UriReadBack ==
    ASSUME NEW s \in Seq(Char), NEW k \in Seq(Char), Valid(s), k # <<>>, ~Has(k, "/")
    PROVE  ParseUri(MemoryUri(<<s, k>>)) = <<s, k>>
  <1> DEFINE x == Joined(s, "/", k)
  <1>0. MemoryUri(<<s, k>>) = x
    BY DEF MemoryUri, Joined
  <1>1. HasShape(x, s, "/", k)
    BY JoinedShape
  <1>2. LastOf("/", x) = Len(s) + 1
    BY LastOfJoined
  <1>3. SubSeq(x, 1, Len(s)) = s /\ SubSeq(x, Len(s) + 2, Len(x)) = k
    BY JoinedIsCut
  <1> HIDE DEF x
  <1>4. /\ Len(x) = Len(s) + 1 + Len(k) /\ x \in Seq(Char \cup {"/"})
        /\ x[Len(s) + 1] = "/" /\ Len(s) + 1 \in DOMAIN x
    <2>1. Len(s) \in Nat /\ Len(k) \in Nat
      OBVIOUS
    <2> QED
      BY <1>1, <2>1 DEF HasShape
  <1>5. Len(s) >= 1 /\ Len(k) >= 1 /\ Len(s) \in Nat /\ Len(k) \in Nat
    BY ScopesHaveNoColon
  <1>6. Len(s) + 1 # Len(x) /\ Len(s) + 1 # 1
    BY <1>4, <1>5
  <1>7. (Len(s) + 1) - 1 = Len(s) /\ (Len(s) + 1) + 1 = Len(s) + 2
    BY <1>5
  <1>8. ParseUri(x) = <<SubSeq(x, 1, (Len(s) + 1) - 1), SubSeq(x, (Len(s) + 1) + 1, Len(x))>>
    BY <1>2, <1>4, <1>6 DEF ParseUri
  <1> QED
    BY <1>0, <1>3, <1>7, <1>8

\* What the backend says of an entry with a plain key name.
LEMMA PlainEntriesListed ==
    ASSUME TypeOK, NEW d \in DOMAIN docs, PlainKey(docs[d].name[2])
    PROVE  NameListed(d) = docs[d].name
  <1> DEFINE name == docs[d].name
             at == d[1]
  <1>1. /\ name \in Seq(Char) \X Seq(Char) /\ Valid(name[1]) /\ at = StorageName(name)
    BY DEF TypeOK
  <1>2. PlainKey(name[2])
    OBVIOUS
  <1>3. NameListed(d) = IF backend = "Fileverse" THEN ParseTitle(at) ELSE name
    BY DEF NameListed
  <1> HIDE DEF name, at
  <1>4. CASE backend = "Fileverse"
    <2>1. name[2] # <<>> /\ ~Has(name[2], ":")
      BY <1>2, <1>4 DEF PlainKey
    <2>2. at = Joined(name[1], ":", name[2])
      BY <1>1, <1>4, StorageNameIs
    <2>3. name[1] \in Seq(Char) /\ name[2] \in Seq(Char) /\ name = <<name[1], name[2]>>
      BY <1>1
    <2>4. ParseTitle(at) = <<name[1], name[2]>>
      BY <1>1, <2>1, <2>2, <2>3, PlainTitlesParse
    <2> QED
      BY <1>3, <1>4, <2>3, <2>4 DEF name
  <1>5. CASE backend # "Fileverse"
    BY <1>3, <1>5 DEF name
  <1> QED
    BY <1>4, <1>5

\* Whatever is listed for a prefix was written at or below it, and is stored
\* under the name it is listed with.
LEMMA ListedIsStored ==
    ASSUME TypeOK, NEW d \in DOMAIN docs, NameListed(d) # None
    PROVE  /\ StorageName(NameListed(d)) = d[1]
           /\ NameListed(d)[1] \in Seq(Char \cup {":"})
           /\ NameListed(d)[2] \in Seq(Char)
           /\ NameListed(d) = <<NameListed(d)[1], NameListed(d)[2]>>
           /\ \A prefix \in Seq(Char) :
                  Valid(prefix) /\ InList(prefix, NameListed(d)[1])
                      => IsAncestorText(prefix, docs[d].name[1])
  <1> DEFINE name == docs[d].name
             p == NameListed(d)
             at == d[1]
  <1>1. /\ name \in Seq(Char) \X Seq(Char) /\ Valid(name[1]) /\ at = StorageName(name)
    BY DEF TypeOK
  <1>2. p = IF backend = "Fileverse" THEN ParseTitle(at) ELSE name
    BY DEF NameListed
  <1>3. p # None
    OBVIOUS
  <1> HIDE DEF p, name, at
  <1>4. name[1] \in Seq(Char) /\ name[2] \in Seq(Char) /\ name = <<name[1], name[2]>>
    BY <1>1
  <1> DEFINE Below1(q) == \A prefix \in Seq(Char) :
                              Valid(prefix) /\ InList(prefix, q) => IsAncestorText(prefix, name[1])
  <1>5. ASSUME NEW q \in Seq(Char \cup {":"}), Len(q) >= Len(name[1]),
               \A i \in 1..Len(name[1]) : q[i] = name[1][i],
               Len(q) > Len(name[1]) => q[Len(name[1]) + 1] = ":"
        PROVE  Below1(q)
    BY <1>4, <1>5, ListedAreBelow
  <1> HIDE DEF Below1
  <1>6. /\ StorageName(p) = at
        /\ p[1] \in Seq(Char \cup {":"}) /\ p[2] \in Seq(Char)
        /\ p = <<p[1], p[2]>>
        /\ Below1(p[1])
    <2>1. CASE backend = "Fileverse"
      <3> DEFINE x == Joined(name[1], ":", name[2])
      <3>1. at = x /\ p = ParseTitle(x) /\ ParseTitle(x) # None
        BY <1>1, <1>2, <1>3, <2>1, StorageNameIs
      <3>2. /\ p = <<p[1], p[2]>>
            /\ p[1] \in Seq(Char \cup {":"}) /\ p[2] \in Seq(Char \cup {":"})
            /\ Len(p[1]) >= Len(name[1])
            /\ \A i \in 1..Len(name[1]) : p[1][i] = name[1][i]
            /\ Len(p[1]) > Len(name[1]) => p[1][Len(name[1]) + 1] = ":"
            /\ Joined(p[1], ":", p[2]) = x
            /\ ~Has(p[2], ":")
        BY <1>1, <1>4, <3>1, ParsedTitles
      <3>3. StorageName(p) = Joined(p[1], ":", p[2])
        BY <2>1, StorageNameIs
      <3>5. p[2] \in Seq(Char)
        BY <3>2, WithoutColon
      <3> HIDE DEF x
      <3>4. Below1(p[1])
        BY <1>5, <3>2
      <3> QED
        BY <3>1, <3>2, <3>3, <3>4, <3>5
    <2>2. CASE backend # "Fileverse"
      <3>1. p = name
        BY <1>2, <2>2
      <3>2. p[1] \in Seq(Char \cup {":"}) /\ p[2] \in Seq(Char \cup {":"})
        BY <1>4, <3>1
      <3>3. Len(p[1]) = Len(name[1]) /\ ~(Len(p[1]) > Len(name[1])) /\ Len(p[1]) >= Len(name[1])
        BY <1>4, <3>1
      <3>4. Below1(p[1])
        BY <1>5, <3>1, <3>2, <3>3
      <3> QED
        BY <1>1, <1>4, <3>1, <3>2, <3>4
    <2> QED
      BY <2>1, <2>2
  <1> QED
    BY <1>6 DEF p, name, at, Below1

\* The scopes of readers are valid.
LEMMA ReadersHaveScopes ==
    ASSUME NEW reader \in Reader
    PROVE  reader.scope \in Seq(Char) /\ Valid(reader.scope) /\ reader.owner \in Owner
  BY NameAssumption DEF Reader

\* An entry that a reader can decrypt has its name and scope in the clear.
LEMMA DecryptedEntries ==
    ASSUME TypeOK, NEW reader \in Reader, NEW d \in DOMAIN docs, Decrypts(docs[d].data, reader)
    PROVE  /\ docs[d].data.form = "envelope"
           /\ IsAncestorText(reader.scope, docs[d].name[1])
           /\ d \in Below(reader)
  <1>1. docs[d].data.form = "envelope"
    BY DEF Decrypts
  <1>2. docs[d].data.scope = docs[d].name[1]
    BY <1>1 DEF TypeOK
  <1>3. IsAncestorText(reader.scope, docs[d].name[1])
    BY <1>2 DEF Decrypts
  <1> QED
    BY <1>1, <1>3 DEF Below

\* A complete search lists the readable memories.
LEMMA CompleteFromType ==
    ASSUME TypeOK
    PROVE  ListIsComplete
  <1> SUFFICES ASSUME NEW reader \in Reader,
                      \A d \in Below(reader) :
                          /\ docs[d].data.form # "not an envelope"
                          /\ Decrypts(docs[d].data, reader) => PlainKey(docs[d].name[2])
               PROVE  /\ ~ListFails(reader, DOMAIN docs)
                      /\ List(reader, DOMAIN docs) = Readable(reader)
    BY DEF ListIsComplete
  <1> DEFINE H == DOMAIN docs
             listed == ListedBy(reader.scope, H)
  <1>1. reader.scope \in Seq(Char) /\ Valid(reader.scope)
    BY ReadersHaveScopes
  <1>2. ASSUME NEW d \in H, Decrypts(docs[d].data, reader)
        PROVE  /\ d \in listed
               /\ NameListed(d) = docs[d].name
               /\ Valid(NameListed(d)[1])
    <2>1. /\ docs[d].data.form = "envelope" /\ d \in Below(reader)
          /\ IsAncestorText(reader.scope, docs[d].name[1])
      BY <1>2, DecryptedEntries
    <2>2. NameListed(d) = docs[d].name
      BY <1>2, <2>1, PlainEntriesListed
    <2>3. docs[d].name \in Seq(Char) \X Seq(Char) /\ Valid(docs[d].name[1])
      BY DEF TypeOK
    <2>4. docs[d].name # None
      <3>1. \A x \in Seq(Char) : x \in Seq(Char \cup {":"})
        BY TextOfMore
      <3>2. docs[d].name \in Seq(Char \cup {":"}) \X Seq(Char \cup {":"})
        BY <2>3, <3>1
      <3> QED
        BY <3>2, NoneAssumption
    <2>5. docs[d].name[1] \in Seq(Char) /\ "/" \in Char
      BY <2>3 DEF Char
    <2>6. InList(reader.scope, docs[d].name[1])
      BY <1>1, <2>1, <2>5, AncestorsList
    <2>7. d \in listed
      BY <2>1, <2>2, <2>4, <2>6 DEF ListedBy
    <2> QED
      BY <2>2, <2>3, <2>7
  <1>3. ASSUME NEW d \in listed
        PROVE  /\ d \in H
               /\ docs[d].data.form # "not an envelope"
    <2>1. d \in H /\ NameListed(d) # None /\ InList(reader.scope, NameListed(d)[1])
      BY <1>3 DEF ListedBy
    <2>2. IsAncestorText(reader.scope, docs[d].name[1])
      BY <1>1, <2>1, ListedIsStored
    <2>3. d \in Below(reader)
      BY <2>1, <2>2 DEF Below
    <2> QED
      BY <2>1, <2>3
  <1>4. {x \in listed : Decrypts(docs[x].data, reader)} = {x \in H : Decrypts(docs[x].data, reader)}
    BY <1>2, <1>3
  <1>5. ~ListFails(reader, H)
    <2> SUFFICES ASSUME NEW d \in listed,
                        \/ docs[d].data.form = "not an envelope"
                        \/ Decrypts(docs[d].data, reader) /\ ~Valid(NameListed(d)[1])
                 PROVE  FALSE
      BY DEF ListFails
    <2> QED
      BY <1>2, <1>3
  <1>6. List(reader, H) = {[name |-> NameListed(d), content |-> docs[d].data.content] :
                               d \in {x \in listed : Decrypts(docs[x].data, reader)}}
    BY DEF List
  <1>7. Readable(reader) = {[name |-> docs[d].name, content |-> docs[d].data.content] :
                               d \in {x \in H : Decrypts(docs[x].data, reader)}}
    BY DEF Readable
  <1> HIDE DEF listed
  <1>8. \A d \in {x \in H : Decrypts(docs[x].data, reader)} : NameListed(d) = docs[d].name
    BY <1>2
  <1>9. List(reader, H) = Readable(reader)
    BY <1>4, <1>6, <1>7, <1>8
  <1> QED
    BY <1>5, <1>9

\* A listed memory may be read under its name; its resource reads the same.
LEMMA ListedMayBeRead ==
    ASSUME TypeOK, NEW reader \in Reader, NEW hits \in SearchResults,
           ~ListFails(reader, hits), NEW memory \in List(reader, hits)
    PROVE  /\ memory.content \in Reads(reader, memory.name)
           /\ \E d \in Under(StorageName(memory.name)) :
                  Opened(docs[d].data, reader) = memory.content
           /\ memory.name[2] # <<>> /\ ~Has(memory.name[2], "/") =>
                  ReadsResource(reader, MemoryUri(memory.name)) = Reads(reader, memory.name)
  <1>1. hits \subseteq DOMAIN docs
    BY DEF SearchResults
  <1>2. PICK d \in ListedBy(reader.scope, hits) :
            /\ Decrypts(docs[d].data, reader)
            /\ memory = [name |-> NameListed(d), content |-> docs[d].data.content]
    BY DEF List
  <1>3. d \in DOMAIN docs /\ NameListed(d) # None
    BY <1>1 DEF ListedBy
  <1> DEFINE name == NameListed(d)
  <1>4. /\ StorageName(name) = d[1]
        /\ name[1] \in Seq(Char \cup {":"}) /\ name[2] \in Seq(Char)
        /\ name = <<name[1], name[2]>>
    BY <1>3, ListedIsStored
  <1>5. Valid(name[1])
    BY <1>2 DEF ListFails
  <1>6. memory.name = name /\ memory.content = docs[d].data.content
    BY <1>2
  <1> HIDE DEF name
  <1>7. d \in Under(StorageName(name)) /\ Opened(docs[d].data, reader) = memory.content
    BY <1>2, <1>3, <1>4, <1>6 DEF Under, Opened
  <1>8. memory.content \in Reads(reader, name)
    BY <1>7 DEF Reads
  <1>9. ASSUME name[2] # <<>>, ~Has(name[2], "/")
        PROVE  ReadsResource(reader, MemoryUri(name)) = Reads(reader, name)
    <2>0. name[1] \in Seq(Char)
      BY <1>4, <1>5, ValidText
    <2>1. ParseUri(MemoryUri(<<name[1], name[2]>>)) = <<name[1], name[2]>>
      BY <1>4, <1>5, <1>9, <2>0, UriReadBack
    <2>2. ParseUri(MemoryUri(name)) = name
      BY <1>4, <2>1
    <2>3. name # None
      BY <1>3 DEF name
    <2> QED
      BY <1>5, <2>2, <2>3 DEF ReadsResource
  <1> QED
    BY <1>6, <1>7, <1>8, <1>9

-------------------------------------------------------------------------------
(* The inductive invariant *)

\* Where a backend of this kind puts a memory.
NameIn(kind, name) ==
    IF kind = "Fileverse" THEN TitleOf(name[1], name[2]) ELSE CompositeKey(name[1], name[2])

\* The documents of a store that have this storage name.
OfName(stored, at) == {d \in DOMAIN stored : d[1] = at}

\* A store may show a reader this content under this name.
Shows(kind, stored, reader, name, content) ==
    \E d \in OfName(stored, NameIn(kind, name)) :
        Decrypts(stored[d].data, reader) /\ stored[d].data.content = content

\* It shows nothing else.
ShowsOnly(kind, stored, reader, name, content) ==
    /\ OfName(stored, NameIn(kind, name)) # {}
    /\ \A d \in OfName(stored, NameIn(kind, name)) :
           Decrypts(stored[d].data, reader) /\ stored[d].data.content = content

\* The reader with the root read key of an owner.
RootReader(owner) == [owner |-> owner, scope |-> RootText]

\* An entry as it is stored under an id of a backend.
EntryOK(kind, d, entry) ==
    /\ entry \in [name : Seq(Char) \X Seq(Char), data : Data]
    /\ Valid(entry.name[1])
    /\ d[1] = NameIn(kind, entry.name) /\ d[2] \in Copy
    /\ entry.data \in Data
    /\ entry.data.form = "envelope" => entry.data.scope = entry.name[1]

\* All entries of a store.
EntriesOK(kind, stored) ==
    /\ IsFiniteSet(DOMAIN stored)
    /\ \A d \in DOMAIN stored : EntryOK(kind, d, stored[d])

\* A storage name beyond doubt has at most one document, which decodes.
Orderly(kind, stored, damaged) ==
    /\ kind = "InMemory" => damaged = {}
    /\ \A d \in DOMAIN stored :
           d[1] \notin damaged =>
               /\ stored[d].data.form # "not Base64"
               /\ \A e \in OfName(stored, d[1]) : e = d

\* The values of the variable sync.
SyncRecord ==
    [at : {"idle", "read", "store"}, session : Session \cup {None},
     batch : Batch \cup {<<>>}, next : Nat, written : Nat, proposed : Nat,
     alone : BOOLEAN, known : BOOLEAN, calls : Nat]

\* A call under way has a session and an entry to look at, and one about to
\* store is an owner's, with a scope that was checked.
SyncRunning(kind, call) ==
    /\ call.calls > 0 => kind = "Fileverse" /\ call.session \in Session /\ call.batch \in Batch
    /\ call.at # "idle" => call.calls > 0 /\ call.next \in DOMAIN call.batch
    /\ call.at = "store" => call.session.role = "owner" /\ Valid(call.batch[call.next].name[1])

\* What was known when the call began still is, and nothing was counted.
KnownStays(kind, stored, call) ==
    call.alone /\ call.known =>
        /\ call.at # "store" /\ call.written = 0 /\ call.proposed = 0
        /\ \A i \in DOMAIN call.batch :
               ShowsOnly(kind, stored, SessionReader(call.session),
                         call.batch[i].name, call.batch[i].content)

\* The call is past this entry of its batch.
Processed(call, i) == call.at = "idle" \/ i < call.next

\* It is the last for its pair among those the call is past.
LatestProcessed(call, i) ==
    \A j \in DOMAIN call.batch :
        j > i /\ Processed(call, j) => call.batch[j].name # call.batch[i].name

\* What an undisturbed owner's call is past may be read as the batch has it last.
BatchStored(kind, stored, call) ==
    call.calls > 0 /\ call.alone /\ call.session.role = "owner" =>
        \A i \in DOMAIN call.batch :
            Processed(call, i) /\ Valid(call.batch[i].name[1]) /\ LatestProcessed(call, i) =>
                Shows(kind, stored, RootReader(call.session.owner),
                      call.batch[i].name, call.batch[i].content)

\* The inductive invariant.
IInv ==
    /\ backend \in {"Fileverse", "InMemory"}
    /\ changes \in Nat
    /\ sync \in SyncRecord
    /\ EntriesOK(backend, docs)
    /\ Orderly(backend, docs, doubted)
    /\ SyncRunning(backend, sync)
    /\ KnownStays(backend, docs, sync)
    /\ BatchStored(backend, docs, sync)

\* What may be read is what some document of the name shows.
LEMMA ReadShows ==
    ASSUME NEW reader, NEW name, NEW content \in Content
    PROVE  /\ content \in Reads(reader, name) <=> Shows(backend, docs, reader, name, content)
           /\ Reads(reader, name) = {content} <=> ShowsOnly(backend, docs, reader, name, content)
  <1> DEFINE ids == Under(StorageName(name))
             reads == Reads(reader, name)
  <1>1. content # None
    BY NoneAssumption
  <1>2. ids = OfName(docs, NameIn(backend, name))
    BY DEF StorageName, NameIn, Under, OfName
  <1>3. reads = IF ids = {} THEN {None} ELSE {Opened(docs[d].data, reader) : d \in ids}
    BY DEF Reads
  <1>4. \A d : Opened(docs[d].data, reader) = content
                   <=> Decrypts(docs[d].data, reader) /\ docs[d].data.content = content
    BY <1>1 DEF Opened
  <1> HIDE DEF ids, reads
  <1>5. content \in reads <=> \E d \in ids : Opened(docs[d].data, reader) = content
    BY <1>1, <1>3
  <1>6. reads = {content} <=> ids # {} /\ \A d \in ids : Opened(docs[d].data, reader) = content
    BY <1>1, <1>3
  <1> QED
    BY <1>2, <1>4, <1>5, <1>6 DEF Shows, ShowsOnly, reads

\* What only this is shown of, this is shown of.
LEMMA OnlyShows ==
    ASSUME NEW kind, NEW stored, NEW reader, NEW name, NEW content,
           ShowsOnly(kind, stored, reader, name, content)
    PROVE  Shows(kind, stored, reader, name, content)
  BY DEF Shows, ShowsOnly

\* A name beyond doubt shows nothing else than what it shows.
LEMMA OrderlyShowsOnly ==
    ASSUME NEW kind, NEW stored, NEW damaged, NEW reader, NEW name, NEW content,
           Orderly(kind, stored, damaged), NameIn(kind, name) \notin damaged,
           Shows(kind, stored, reader, name, content)
    PROVE  ShowsOnly(kind, stored, reader, name, content)
  <1>1. PICK d \in OfName(stored, NameIn(kind, name)) :
            Decrypts(stored[d].data, reader) /\ stored[d].data.content = content
    BY DEF Shows
  <1>2. d \in DOMAIN stored /\ d[1] = NameIn(kind, name)
    BY DEF OfName
  <1>3. \A e \in OfName(stored, NameIn(kind, name)) : e = d
    BY <1>2 DEF Orderly
  <1> QED
    BY <1>1, <1>3 DEF ShowsOnly

\* What a key of some scope shows, the root's key shows.
LEMMA RootShows ==
    ASSUME NEW kind, NEW stored, NEW reader, NEW name, NEW content,
           Shows(kind, stored, reader, name, content)
    PROVE  Shows(kind, stored, RootReader(reader.owner), name, content)
  BY DEF Shows, Decrypts, RootReader, IsAncestorText

\* The entries of a batch.
LEMMA BatchEntries ==
    ASSUME NEW batch \in Batch
    PROVE  /\ Len(batch) \in Nat /\ DOMAIN batch = 1..Len(batch)
           /\ \A i \in DOMAIN batch :
                  /\ batch[i].name \in Seq(Char) \X Seq(Char)
                  /\ batch[i].content \in Content
  <1> DEFINE E == [name : Seq(Char) \X Seq(Char), content : Content]
  <1>1. batch \in Seq(E)
    BY BatchAssumption
  <1>2. \A e \in E : e.name \in Seq(Char) \X Seq(Char) /\ e.content \in Content
    OBVIOUS
  <1> HIDE DEF E
  <1>3. Len(batch) \in Nat /\ DOMAIN batch = 1..Len(batch) /\ \A i \in 1..Len(batch) : batch[i] \in E
    BY <1>1
  <1> QED
    BY <1>2, <1>3

\* The invariant has the type correctness of the model.
LEMMA InvariantHasType ==
    ASSUME IInv
    PROVE  TypeOK
  <1>1. /\ backend \in {"Fileverse", "InMemory"} /\ changes \in Nat
        /\ IsFiniteSet(DOMAIN docs)
    BY DEF IInv, EntriesOK
  <1>2. ASSUME NEW d \in DOMAIN docs
        PROVE  /\ docs[d].name \in Seq(Char) \X Seq(Char)
               /\ Valid(docs[d].name[1])
               /\ d[1] = StorageName(docs[d].name) /\ d[2] \in Copy
               /\ docs[d].data \in Data
               /\ docs[d].data.form = "envelope" => docs[d].data.scope = docs[d].name[1]
    <2>1. EntryOK(backend, d, docs[d])
      BY DEF IInv, EntriesOK
    <2>2. StorageName(docs[d].name) = NameIn(backend, docs[d].name)
      BY DEF StorageName, NameIn
    <2> QED
      BY <2>1, <2>2 DEF EntryOK
  <1>3. sync.at \in {"idle", "read", "store"}
    BY DEF IInv, SyncRecord
  <1>4. sync.at # "idle" => sync.batch \in Batch /\ sync.next \in DOMAIN sync.batch
    BY DEF IInv, SyncRunning
  <1> QED
    BY <1>1, <1>2, <1>3, <1>4 DEF TypeOK

\* It holds at the start.
LEMMA InitInvariant ==
    ASSUME Init
    PROVE  IInv
  <1>1. /\ backend \in {"Fileverse", "InMemory"} /\ changes \in Nat
        /\ DOMAIN docs = {} /\ doubted = {}
    BY DEF Init
  <1>2. sync \in SyncRecord /\ sync.at = "idle" /\ sync.calls = 0 /\ ~sync.known
    BY DEF Init, NoSync, SyncRecord
  <1>3. EntriesOK(backend, docs)
    BY <1>1, FS_EmptySet DEF EntriesOK
  <1>4. SyncRunning(backend, sync)
    BY <1>2 DEF SyncRunning
  <1>5. KnownStays(backend, docs, sync) /\ BatchStored(backend, docs, sync)
    BY <1>2 DEF KnownStays, BatchStored
  <1>6. Orderly(backend, docs, doubted)
    BY <1>1 DEF Orderly
  <1> QED
    BY <1>1, <1>2, <1>3, <1>4, <1>5, <1>6 DEF IInv

\* This is stored under this id, the rest stays.
PutAt(stored, after, d, entry) ==
    /\ DOMAIN after = DOMAIN stored \cup {d}
    /\ after[d] = entry
    /\ \A x \in DOMAIN stored : x # d => after[x] = stored[x]

\* It is what a put does.  A document that decodes is changed, or one is created:
\* for want of another, after one that does not decode, or in doubt.
LEMMA PutPuts ==
    ASSUME IInv, NEW name, NEW data, Put(name, data) \/ PutUnseen(name, data)
    PROVE  \E d :
               /\ d[1] = NameIn(backend, name) /\ d[2] \in Copy
               /\ PutAt(docs, docs', d, Entry(name, data))
               /\ doubted \subseteq doubted'
               /\ backend = "InMemory" => doubted' = doubted
               /\ \A x \in OfName(docs, d[1]) : x = d \/ d[1] \in doubted'
  <1>1. PICK d :
            /\ d[1] = StorageName(name) /\ docs' = With(d, name, data)
            /\ \/ d \in DOMAIN docs /\ UNCHANGED doubted
               \/ /\ d \notin DOMAIN docs /\ d[2] \in Copy
                  /\ \/ /\ \/ Under(StorageName(name)) = {}
                           \/ \E first \in Under(StorageName(name)) :
                                  docs[first].data.form = "not Base64"
                        /\ UNCHANGED doubted
                     \/ /\ backend = "Fileverse"
                        /\ doubted' = doubted \cup {StorageName(name)}
    BY PutIs
  <1>2. /\ Orderly(backend, docs, doubted) /\ EntriesOK(backend, docs)
    BY DEF IInv
  <1> DEFINE at == NameIn(backend, name)
  <1>3. StorageName(name) = at
    BY DEF StorageName, NameIn
  <1>4. Under(at) = OfName(docs, at)
    BY DEF Under, OfName
  <1> HIDE DEF at
  <1>5. d[1] = at /\ PutAt(docs, docs', d, Entry(name, data))
    BY <1>1, <1>3 DEF With, PutAt
  <1>6. d[2] \in Copy
    BY <1>1, <1>2 DEF EntriesOK, EntryOK
  <1>7. /\ doubted \subseteq doubted'
        /\ backend = "InMemory" => doubted' = doubted
    BY <1>1
  <1>8. ASSUME NEW x \in OfName(docs, at), x # d
        PROVE  at \in doubted'
    <2>0. x \in DOMAIN docs /\ x[1] = at
      BY <1>8 DEF OfName
    <2>1. CASE d \in DOMAIN docs /\ UNCHANGED doubted
      <3>1. d \in OfName(docs, at)
        BY <1>5, <2>1 DEF OfName
      <3>2. at \in doubted
        BY <1>2, <1>8, <2>0, <3>1 DEF Orderly
      <3> QED
        BY <2>1, <3>2
    <2>2. CASE /\ Under(at) = {} \/ \E first \in Under(at) : docs[first].data.form = "not Base64"
               /\ UNCHANGED doubted
      <3>1. PICK first \in OfName(docs, at) : docs[first].data.form = "not Base64"
        BY <1>4, <1>8, <2>2
      <3>2. first \in DOMAIN docs /\ first[1] = at
        BY DEF OfName
      <3>3. at \in doubted
        BY <1>2, <3>1, <3>2 DEF Orderly
      <3> QED
        BY <2>2, <3>3
    <2>3. CASE doubted' = doubted \cup {at}
      BY <2>3
    <2> QED
      BY <1>1, <1>3, <2>1, <2>2, <2>3
  <1>9. d[1] = NameIn(backend, name)
    BY <1>5 DEF at
  <1> QED
    BY <1>5, <1>6, <1>7, <1>8, <1>9

\* A sealed entry under its name keeps the entries typed, and the names beyond
\* doubt in order.
LEMMA PutKeepsEntries ==
    ASSUME NEW kind, NEW stored, NEW after, NEW damaged, NEW further,
           EntriesOK(kind, stored), Orderly(kind, stored, damaged),
           NEW name \in Seq(Char) \X Seq(Char), Valid(name[1]),
           NEW owner \in Owner, NEW content \in Content, NEW d,
           d[1] = NameIn(kind, name), d[2] \in Copy,
           PutAt(stored, after, d, Entry(name, Sealed(owner, name[1], content))),
           damaged \subseteq further, kind = "InMemory" => further = damaged,
           \A x \in OfName(stored, d[1]) : x = d \/ d[1] \in further
    PROVE  EntriesOK(kind, after) /\ Orderly(kind, after, further)
  <1> DEFINE sealed == Sealed(owner, name[1], content)
             e == Entry(name, sealed)
  <1>1. DOMAIN after = DOMAIN stored \cup {d} /\ after[d] = e
        /\ \A x \in DOMAIN stored : x # d => after[x] = stored[x]
    BY DEF PutAt
  <1>2. e.data = sealed /\ sealed.form = "envelope"
    BY DEF Entry, Sealed
  <1>3. EntryOK(kind, d, e)
    <2>1. sealed \in Data
      BY DEF Data, Sealed
    <2>2. /\ e.name = name /\ e.data = sealed
          /\ e \in [name : Seq(Char) \X Seq(Char), data : Data]
      BY <2>1 DEF Entry
    <2>3. sealed.scope = name[1]
      BY DEF Sealed
    <2> HIDE DEF e, sealed
    <2> QED
      BY <2>1, <2>2, <2>3 DEF EntryOK
  <1> HIDE DEF e, sealed
  <1>4. IsFiniteSet(DOMAIN after)
    BY <1>1, FS_AddElement DEF EntriesOK
  <1>5. ASSUME NEW x \in DOMAIN after
        PROVE  EntryOK(kind, x, after[x])
    BY <1>1, <1>3 DEF EntriesOK
  <1>6. ASSUME NEW x \in DOMAIN after, x[1] \notin further
        PROVE  /\ after[x].data.form # "not Base64"
               /\ \A y \in OfName(after, x[1]) : y = x
    <2>1. x[1] \notin damaged
      BY <1>6
    <2>2. CASE x[1] = d[1]
      <3>1. \A y \in OfName(stored, x[1]) : y = d
        BY <1>6, <2>2
      <3>2. \A y \in OfName(after, x[1]) : y = d
        BY <1>1, <3>1 DEF OfName
      <3>3. x = d
        BY <1>6, <3>2 DEF OfName
      <3> QED
        BY <1>1, <1>2, <3>2, <3>3
    <2>3. CASE x[1] # d[1]
      <3>1. x \in DOMAIN stored /\ after[x] = stored[x]
        BY <1>1, <2>3
      <3>2. \A y \in OfName(after, x[1]) : y \in OfName(stored, x[1])
        BY <1>1, <2>3 DEF OfName
      <3> QED
        BY <2>1, <3>1, <3>2 DEF Orderly
    <2> QED
      BY <2>2, <2>3
  <1>7. kind = "InMemory" => further = {}
    BY DEF Orderly
  <1> QED
    BY <1>4, <1>5, <1>6, <1>7 DEF EntriesOK, Orderly

\* A change by others keeps the invariant: the call is no longer alone.
LEMMA ChangeKeeps ==
    ASSUME IInv, Change, EntriesOK(backend, docs'), Orderly(backend, docs', doubted')
    PROVE  IInv'
  <1>1. backend' = backend /\ changes' = changes + 1 /\ sync' = [sync EXCEPT !.alone = FALSE]
    BY DEF Change
  <1>2. sync \in SyncRecord
    BY DEF IInv
  <1>3. /\ sync' \in SyncRecord /\ ~sync'.alone
        /\ sync'.at = sync.at /\ sync'.calls = sync.calls /\ sync'.session = sync.session
        /\ sync'.batch = sync.batch /\ sync'.next = sync.next
    BY <1>1, <1>2 DEF SyncRecord
  <1>4. SyncRunning(backend', sync')
    BY <1>1, <1>3 DEF IInv, SyncRunning
  <1>5. KnownStays(backend', docs', sync') /\ BatchStored(backend', docs', sync')
    BY <1>3 DEF KnownStays, BatchStored
  <1>6. backend' \in {"Fileverse", "InMemory"} /\ changes' \in Nat
    BY <1>1 DEF IInv
  <1> QED
    BY <1>1, <1>3, <1>4, <1>5, <1>6 DEF IInv

\* What is stored by others is typed.
LEMMA WriteKeeps ==
    ASSUME IInv, NEW owner \in Owner, NEW name \in Name, NEW content \in Content,
           Write(owner, name, content)
    PROVE  IInv'
  <1>1. name \in Seq(Char) \X Seq(Char) /\ Valid(name[1])
    BY NameAssumption
  <1> DEFINE data == Sealed(owner, name[1], content)
  <1>2. Put(name, data) \/ PutUnseen(name, data)
    BY DEF Write
  <1>3. PICK d :
            /\ d[1] = NameIn(backend, name) /\ d[2] \in Copy
            /\ PutAt(docs, docs', d, Entry(name, data))
            /\ doubted \subseteq doubted'
            /\ backend = "InMemory" => doubted' = doubted
            /\ \A x \in OfName(docs, d[1]) : x = d \/ d[1] \in doubted'
    <2> HIDE DEF data
    <2> QED
      BY <1>2, PutPuts
  <1>4. EntriesOK(backend, docs) /\ Orderly(backend, docs, doubted)
    BY DEF IInv
  <1>5. EntriesOK(backend, docs') /\ Orderly(backend, docs', doubted')
    BY <1>1, <1>3, <1>4, PutKeepsEntries
  <1> QED
    BY <1>5, ChangeKeeps DEF Write

\* Deleting an entry leaves the others.
LEMMA DeleteKeeps ==
    ASSUME IInv, NEW d \in DOMAIN docs, Delete(d)
    PROVE  IInv'
  <1>1. docs' = [x \in DOMAIN docs \ {d} |-> docs[x]] /\ doubted' = doubted
    BY DEF Delete
  <1>2. DOMAIN docs' = DOMAIN docs \ {d} /\ \A x \in DOMAIN docs' : docs'[x] = docs[x]
    BY <1>1
  <1>3. IsFiniteSet(DOMAIN docs')
    BY <1>2, FS_RemoveElement DEF IInv, EntriesOK
  <1>4. EntriesOK(backend, docs')
    <2>1. \A x \in DOMAIN docs : EntryOK(backend, x, docs[x])
      BY DEF IInv, EntriesOK
    <2>2. \A x \in DOMAIN docs' : EntryOK(backend, x, docs'[x])
      BY <1>2, <2>1
    <2> QED
      BY <1>3, <2>2 DEF EntriesOK
  <1>5. Orderly(backend, docs', doubted')
    <2>1. Orderly(backend, docs, doubted)
      BY DEF IInv
    <2>2. \A at : OfName(docs', at) \subseteq OfName(docs, at)
      BY <1>2 DEF OfName
    <2> QED
      BY <1>1, <1>2, <2>1, <2>2 DEF Orderly
  <1>6. backend' = backend
    BY DEF Delete, Change
  <1> QED
    BY <1>4, <1>5, ChangeKeeps DEF Delete

\* Editing a document leaves its name and the others.
LEMMA EditKeeps ==
    ASSUME IInv, NEW d \in DOMAIN docs, NEW form \in {"not Base64", "not an envelope"},
           Edit(d, form)
    PROVE  IInv'
  <1>1. docs' = [docs EXCEPT ![d].data = Garbled(form)]
    BY DEF Edit
  <1>2. DOMAIN docs' = DOMAIN docs /\ \A x \in DOMAIN docs : x # d => docs'[x] = docs[x]
    BY <1>1
  <1>3. EntryOK(backend, d, docs[d])
    BY DEF IInv, EntriesOK
  <1>4. docs'[d] = [docs[d] EXCEPT !.data = Garbled(form)]
    BY <1>1
  <1>5. EntryOK(backend, d, docs'[d]) /\ docs'[d].data.form = form
    <2> DEFINE g == Garbled(form)
               e == docs[d]
               f == docs'[d]
    <2>1. g \in Data /\ g.form # "envelope" /\ g.form = form
      BY DEF Data, Garbled
    <2>2. e \in [name : Seq(Char) \X Seq(Char), data : Data]
      BY <1>3 DEF EntryOK
    <2>3. Valid(e.name[1]) /\ d[1] = NameIn(backend, e.name) /\ d[2] \in Copy
      BY <1>3 DEF EntryOK
    <2>4. f = [e EXCEPT !.data = g]
      BY <1>4
    <2> HIDE DEF g, e, f
    <2>5. /\ f \in [name : Seq(Char) \X Seq(Char), data : Data]
          /\ f.name = e.name /\ f.data = g
      BY <2>1, <2>2, <2>4
    <2>6. EntryOK(backend, d, f)
      BY <2>1, <2>3, <2>5 DEF EntryOK
    <2> QED
      BY <2>1, <2>5, <2>6 DEF f
  <1>6. EntriesOK(backend, docs')
    BY <1>2, <1>5 DEF IInv, EntriesOK
  <1>7. /\ backend = "Fileverse"
        /\ doubted' = IF form = "not Base64" THEN doubted \cup {d[1]} ELSE doubted
    BY DEF Edit
  <1>8. Orderly(backend, docs', doubted')
    <2>1. Orderly(backend, docs, doubted)
      BY DEF IInv
    <2>2. \A at : OfName(docs', at) = OfName(docs, at)
      BY <1>2 DEF OfName
    <2>3. ASSUME NEW x \in DOMAIN docs', x[1] \notin doubted'
          PROVE  /\ docs'[x].data.form # "not Base64"
                 /\ \A y \in OfName(docs', x[1]) : y = x
      <3>1. x \in DOMAIN docs /\ x[1] \notin doubted
        BY <1>2, <1>7, <2>3
      <3>2. docs[x].data.form # "not Base64" /\ \A y \in OfName(docs, x[1]) : y = x
        BY <2>1, <3>1 DEF Orderly
      <3>3. docs'[x].data.form # "not Base64"
        BY <1>2, <1>5, <1>7, <2>3, <3>1, <3>2
      <3> QED
        BY <2>2, <3>2, <3>3
    <2> QED
      BY <1>7, <2>3 DEF Orderly
  <1> QED
    BY <1>6, <1>8, ChangeKeeps DEF Edit

\* A call begins.
LEMMA SyncBeginKeeps ==
    ASSUME IInv, NEW session \in Session, NEW batch \in Batch, SyncBegin(session, batch)
    PROVE  IInv'
  <1> DEFINE k == AllKnown(session, batch)
  <1>1. /\ backend = "Fileverse" /\ backend' = backend /\ docs' = docs /\ doubted' = doubted
        /\ changes' = changes
        /\ sync' = [NoSync EXCEPT !.at = IF batch = <<>> THEN "idle" ELSE "read",
                                  !.session = session, !.batch = batch,
                                  !.known = k, !.calls = sync.calls + 1]
    BY DEF SyncBegin
  <1>2. sync.calls \in Nat
    BY DEF IInv, SyncRecord
  <1>3. k \in BOOLEAN
    BY DEF AllKnown
  <1>4. k => \A i \in DOMAIN batch :
                 ShowsOnly(backend, docs, SessionReader(session), batch[i].name, batch[i].content)
    BY ReadShows, BatchEntries DEF AllKnown
  <1> HIDE DEF k
  <1>5. /\ sync'.at = (IF batch = <<>> THEN "idle" ELSE "read") /\ sync'.session = session
        /\ sync'.batch = batch /\ sync'.next = 1 /\ sync'.written = 0 /\ sync'.proposed = 0
        /\ sync'.alone = TRUE /\ sync'.known = k /\ sync'.calls = sync.calls + 1
    BY <1>1 DEF NoSync
  <1>6. sync' \in SyncRecord
    <2>1. sync' = [at |-> IF batch = <<>> THEN "idle" ELSE "read", session |-> session,
                   batch |-> batch, next |-> 1, written |-> 0, proposed |-> 0,
                   alone |-> TRUE, known |-> k, calls |-> sync.calls + 1]
      BY <1>1 DEF NoSync
    <2>2. sync.calls + 1 \in Nat /\ 0 \in Nat /\ 1 \in Nat
      BY <1>2
    <2>3. (IF batch = <<>> THEN "idle" ELSE "read") \in {"idle", "read", "store"}
      OBVIOUS
    <2> QED
      BY <1>3, <2>1, <2>2, <2>3 DEF SyncRecord
  <1>7. Len(batch) \in Nat /\ DOMAIN batch = 1..Len(batch)
    BY BatchEntries
  <1>8. batch # <<>> => 1 \in DOMAIN batch
    <2>1. batch \in Seq([name : Seq(Char) \X Seq(Char), content : Content])
      BY BatchAssumption
    <2>2. batch # <<>> => Len(batch) # 0
      BY <2>1, EmptySeq
    <2> QED
      BY <1>7, <2>2
  <1>9. SyncRunning(backend', sync')
    BY <1>1, <1>2, <1>5, <1>8 DEF SyncRunning
  <1>10. KnownStays(backend', docs', sync')
    BY <1>1, <1>4, <1>5 DEF KnownStays
  <1>11. BatchStored(backend', docs', sync')
    <2>1. \A i \in DOMAIN batch : batch # <<>> /\ ~(i < 1)
      <3>1. batch = <<>> => DOMAIN batch = {}
        BY EmptySeq
      <3> QED
        BY <1>7, <3>1
    <2>2. \A i \in DOMAIN sync'.batch : ~Processed(sync', i)
      BY <1>5, <2>1 DEF Processed
    <2> QED
      BY <2>2 DEF BatchStored
  <1>12. EntriesOK(backend', docs') /\ Orderly(backend', docs', doubted')
    BY <1>1 DEF IInv
  <1> QED
    BY <1>1, <1>6, <1>9, <1>10, <1>11, <1>12 DEF IInv

\* What going on to the next entry does.
LEMMA AdvancedIs ==
    ASSUME NEW call \in SyncRecord
    PROVE  /\ Advanced(call) \in SyncRecord
           /\ Advanced(call).session = call.session /\ Advanced(call).batch = call.batch
           /\ Advanced(call).written = call.written /\ Advanced(call).proposed = call.proposed
           /\ Advanced(call).alone = call.alone /\ Advanced(call).known = call.known
           /\ Advanced(call).calls = call.calls
           /\ call.next < Len(call.batch) =>
                  Advanced(call).at = "read" /\ Advanced(call).next = call.next + 1
           /\ ~(call.next < Len(call.batch)) =>
                  Advanced(call).at = "idle" /\ Advanced(call).next = call.next
  <1> DEFINE a == Advanced(call)
  <1>1. CASE call.next < Len(call.batch)
    <2>1. a = [call EXCEPT !.next = @ + 1, !.at = "read"]
      BY <1>1 DEF Advanced
    <2>2. call.next + 1 \in Nat
      BY DEF SyncRecord
    <2> HIDE DEF a
    <2>3. a \in SyncRecord
      BY <2>1, <2>2 DEF SyncRecord
    <2>4. /\ a.session = call.session /\ a.batch = call.batch
          /\ a.written = call.written /\ a.proposed = call.proposed
          /\ a.alone = call.alone /\ a.known = call.known /\ a.calls = call.calls
          /\ a.at = "read" /\ a.next = call.next + 1
      BY <2>1 DEF SyncRecord
    <2> QED
      BY <1>1, <2>3, <2>4 DEF a
  <1>2. CASE ~(call.next < Len(call.batch))
    <2>1. a = [call EXCEPT !.at = "idle"]
      BY <1>2 DEF Advanced
    <2> HIDE DEF a
    <2>3. a \in SyncRecord
      BY <2>1 DEF SyncRecord
    <2>4. /\ a.session = call.session /\ a.batch = call.batch
          /\ a.written = call.written /\ a.proposed = call.proposed
          /\ a.alone = call.alone /\ a.known = call.known /\ a.calls = call.calls
          /\ a.at = "idle" /\ a.next = call.next
      BY <2>1 DEF SyncRecord
    <2> QED
      BY <1>2, <2>3, <2>4 DEF a
  <1> QED
    BY <1>1, <1>2

\* The entries a call is past, after it went on.
LEMMA AdvancedProcessed ==
    ASSUME NEW call \in SyncRecord, call.batch \in Batch, call.next \in DOMAIN call.batch,
           call.at # "idle"
    PROVE  /\ \A i \in DOMAIN call.batch :
                  Processed(Advanced(call), i) <=> Processed(call, i) \/ i = call.next
           /\ Advanced(call).at # "idle" => Advanced(call).next \in DOMAIN call.batch
           /\ Advanced(call).at # "store"
  <1> DEFINE a == Advanced(call)
             len == Len(call.batch)
  <1>1. len \in Nat /\ DOMAIN call.batch = 1..len
    BY BatchEntries
  <1>2. /\ call.next < len => a.at = "read" /\ a.next = call.next + 1
        /\ ~(call.next < len) => a.at = "idle" /\ a.next = call.next
    BY AdvancedIs
  <1> HIDE DEF a, len
  <1>3. call.next \in 1..len
    BY <1>1
  <1>4. CASE call.next < len
    <2>1. \A i \in 1..len : i < call.next + 1 <=> i < call.next \/ i = call.next
      BY <1>1, <1>3
    <2>2. call.next + 1 \in 1..len
      BY <1>1, <1>3, <1>4
    <2> QED
      BY <1>1, <1>2, <1>4, <2>1, <2>2 DEF Processed, a
  <1>5. CASE ~(call.next < len)
    <2>1. \A i \in 1..len : i < call.next \/ i = call.next
      BY <1>1, <1>3, <1>5
    <2> QED
      BY <1>1, <1>2, <1>5, <2>1 DEF Processed, a
  <1> QED
    BY <1>4, <1>5

\* What is shown under other names stays, and what is put is shown.
LEMMA PutShows ==
    ASSUME NEW kind, NEW stored, NEW after, NEW d, NEW name, NEW owner, NEW content,
           d[1] = NameIn(kind, name),
           PutAt(stored, after, d, Entry(name, Sealed(owner, name[1], content)))
    PROVE  /\ Shows(kind, after, RootReader(owner), name, content)
           /\ \A reader, other, c :
                  Shows(kind, stored, reader, other, c) /\ NameIn(kind, other) # NameIn(kind, name)
                      => Shows(kind, after, reader, other, c)
  <1>1. Shows(kind, after, RootReader(owner), name, content)
    <2> DEFINE data == Sealed(owner, name[1], content)
    <2>1. d \in DOMAIN after /\ after[d] = Entry(name, data)
      BY DEF PutAt
    <2>2. Entry(name, data).data = data
      BY DEF Entry
    <2>3. Decrypts(data, RootReader(owner)) /\ data.content = content
      BY DEF Decrypts, RootReader, IsAncestorText, Sealed
    <2> HIDE DEF data
    <2>4. after[d].data = data /\ d \in OfName(after, NameIn(kind, name))
      BY <2>1, <2>2 DEF OfName
    <2> QED
      BY <2>3, <2>4 DEF Shows
  <1>2. ASSUME NEW reader, NEW other, NEW c,
               Shows(kind, stored, reader, other, c), NameIn(kind, other) # NameIn(kind, name)
        PROVE  Shows(kind, after, reader, other, c)
    <2> DEFINE y == NameIn(kind, other)
    <2>1. PICK x \in OfName(stored, y) : Decrypts(stored[x].data, reader) /\ stored[x].data.content = c
      BY <1>2 DEF Shows
    <2>2. x \in DOMAIN stored /\ x[1] = y /\ y # d[1]
      BY <1>2 DEF OfName
    <2> HIDE DEF y
    <2>3. x \in OfName(after, y) /\ after[x] = stored[x]
      BY <2>2 DEF PutAt, OfName
    <2> QED
      BY <2>1, <2>3 DEF Shows, y
  <1> QED
    BY <1>1, <1>2

\* Names of valid pairs differ on Fileverse.
LEMMA NamesInDiffer ==
    ASSUME NEW p, NEW q, Pair(p), Pair(q), NameIn("Fileverse", p) = NameIn("Fileverse", q)
    PROVE  p = q
  <1>1. /\ p[1] \in Seq(Char) /\ p[2] \in Seq(Char) /\ q[1] \in Seq(Char) /\ q[2] \in Seq(Char)
        /\ p = <<p[1], p[2]>> /\ q = <<q[1], q[2]>>
        /\ Valid(p[1]) /\ Valid(q[1])
    BY DEF Pair
  <1>2. Joined(p[1], ":", p[2]) = Joined(q[1], ":", q[2])
    BY DEF NameIn, TitleOf, Joined
  <1>3. ~Has(p[1], ":") /\ ~Has(q[1], ":")
    BY <1>1, ScopesHaveNoColon
  <1>4. p[1] = q[1] /\ p[2] = q[2]
    BY <1>1, <1>2, <1>3, JoinedDeterminesLeft
  <1> QED
    BY <1>1, <1>4

\* The call goes on from an entry that needs nothing, or that an agent would
\* change: an invalid scope, an entry that reads as it should, or a proposal.
LEMMA GoingOnKeeps ==
    ASSUME IInv, UNCHANGED <<backend, changes>>,
           EntriesOK(backend, docs'), Orderly(backend, docs', doubted'),
           sync.at # "idle", NEW call \in SyncRecord, sync' = Advanced(call),
           call.at = sync.at, call.session = sync.session, call.batch = sync.batch,
           call.next = sync.next, call.calls = sync.calls, call.known = sync.known,
           KnownStays(backend, docs', Advanced(call)),
           call.alone /\ sync.session.role = "owner" =>
               /\ sync.alone
               /\ Valid(Current.name[1]) =>
                      Shows(backend, docs', RootReader(sync.session.owner),
                            Current.name, Current.content)
               /\ \A i \in DOMAIN sync.batch :
                      /\ Valid(sync.batch[i].name[1])
                      /\ sync.batch[i].name # Current.name
                      /\ Shows(backend, docs, RootReader(sync.session.owner),
                               sync.batch[i].name, sync.batch[i].content)
                      => Shows(backend, docs', RootReader(sync.session.owner),
                               sync.batch[i].name, sync.batch[i].content)
    PROVE  IInv'
  <1>1. /\ backend \in {"Fileverse", "InMemory"} /\ changes \in Nat
        /\ sync \in SyncRecord /\ SyncRunning(backend, sync) /\ BatchStored(backend, docs, sync)
    BY DEF IInv
  <1>2. /\ sync.calls > 0 /\ backend = "Fileverse" /\ sync.session \in Session
        /\ sync.batch \in Batch /\ sync.next \in DOMAIN sync.batch
    BY <1>1 DEF SyncRunning
  <1>3. /\ sync' \in SyncRecord
        /\ sync'.session = sync.session /\ sync'.batch = sync.batch
        /\ sync'.alone = call.alone /\ sync'.calls = sync.calls
    BY AdvancedIs
  <1>4. /\ \A i \in DOMAIN sync.batch : Processed(sync', i) <=> Processed(call, i) \/ i = sync.next
        /\ sync'.at # "idle" => sync'.next \in DOMAIN sync.batch
        /\ sync'.at # "store"
    BY <1>2, AdvancedProcessed
  <1>5. SyncRunning(backend', sync')
    BY <1>2, <1>3, <1>4 DEF SyncRunning
  <1>6. BatchStored(backend', docs', sync')
    <2> SUFFICES ASSUME sync'.alone, sync'.session.role = "owner", NEW i \in DOMAIN sync'.batch,
                        Processed(sync', i), Valid(sync'.batch[i].name[1]), LatestProcessed(sync', i)
                 PROVE  Shows(backend', docs', RootReader(sync'.session.owner),
                              sync'.batch[i].name, sync'.batch[i].content)
      BY DEF BatchStored
    <2>1. /\ sync.alone /\ sync.session.role = "owner" /\ i \in DOMAIN sync.batch
          /\ Valid(sync.batch[i].name[1])
      BY <1>3
    <2>2. Processed(call, i) <=> Processed(sync, i)
      BY DEF Processed
    <2>3. CASE i = sync.next
      BY <1>3, <2>1, <2>3 DEF Current
    <2>4. CASE i # sync.next
      <3>1. Processed(sync, i) /\ i < sync.next
        BY <1>4, <2>1, <2>2, <2>4 DEF Processed
      <3>2. Processed(sync', sync.next)
        BY <1>2, <1>4
      <3>3. sync.batch[i].name # Current.name
        <4>0. Len(sync.batch) \in Nat /\ DOMAIN sync.batch = 1..Len(sync.batch)
          BY <1>2, BatchEntries
        <4>1. sync.next > i
          BY <1>2, <2>1, <3>1, <4>0
        <4>2. sync'.batch[sync.next].name # sync'.batch[i].name
          BY <1>2, <1>3, <3>2, <4>1 DEF LatestProcessed
        <4> QED
          BY <1>3, <4>2 DEF Current
      <3>4. LatestProcessed(sync, i)
        <4> SUFFICES ASSUME NEW j \in DOMAIN sync.batch, j > i, Processed(sync, j)
                     PROVE  sync.batch[j].name # sync.batch[i].name
          BY DEF LatestProcessed
        <4>1. Processed(sync', j)
          <5>1. Processed(call, j)
            BY DEF Processed
          <5> QED
            BY <1>4, <5>1
        <4> QED
          BY <1>3, <4>1 DEF LatestProcessed
      <3>5. Shows(backend, docs, RootReader(sync.session.owner),
                  sync.batch[i].name, sync.batch[i].content)
        BY <1>1, <1>2, <2>1, <3>1, <3>4 DEF BatchStored
      <3>6. Shows(backend, docs', RootReader(sync.session.owner),
                  sync.batch[i].name, sync.batch[i].content)
        BY <1>3, <2>1, <3>3, <3>5
      <3> QED
        BY <1>3, <3>6
    <2> QED
      BY <2>3, <2>4
  <1> QED
    BY <1>1, <1>3, <1>5, <1>6 DEF IInv

\* An entry is read and compared.
LEMMA SyncReadKeeps ==
    ASSUME IInv, SyncRead
    PROVE  IInv'
  <1>1. /\ sync.at = "read" /\ UNCHANGED <<backend, docs, doubted, changes>>
    BY DEF SyncRead
  <1>2. PICK answered \in BOOLEAN, found \in Reads(SessionReader(sync.session), Current.name) :
            LET seen == [sync EXCEPT !.alone = @ /\ answered]
            IN  sync' =
                IF ~Valid(Current.name[1]) \/ UpToDate(answered, found) THEN Advanced(seen)
                ELSE IF sync.session.role = "agent"
                     THEN Advanced([seen EXCEPT !.proposed = @ + 1])
                     ELSE [seen EXCEPT !.at = "store"]
    BY DEF SyncRead
  <1> DEFINE seen == [sync EXCEPT !.alone = @ /\ answered]
  <1>3. /\ sync \in SyncRecord /\ SyncRunning(backend, sync) /\ KnownStays(backend, docs, sync)
        /\ BatchStored(backend, docs, sync) /\ EntriesOK(backend, docs)
        /\ Orderly(backend, docs, doubted)
    BY DEF IInv
  <1>4. /\ sync.calls > 0 /\ backend = "Fileverse" /\ sync.session \in Session
        /\ sync.batch \in Batch /\ sync.next \in DOMAIN sync.batch
    BY <1>1, <1>3 DEF SyncRunning
  <1>5. EntriesOK(backend, docs') /\ Orderly(backend, docs', doubted')
    BY <1>1, <1>3
  <1>6. /\ Current.content \in Content
        /\ Current = sync.batch[sync.next]
    BY <1>4, BatchEntries DEF Current
  <1>7. /\ seen \in SyncRecord
        /\ seen.at = sync.at /\ seen.session = sync.session /\ seen.batch = sync.batch
        /\ seen.next = sync.next /\ seen.calls = sync.calls /\ seen.known = sync.known
        /\ seen.written = sync.written /\ seen.proposed = sync.proposed
        /\ seen.alone = (sync.alone /\ answered)
    BY <1>3 DEF SyncRecord
  <1>8. /\ UpToDate(answered, found) =>
               Shows(backend, docs, SessionReader(sync.session), Current.name, Current.content)
        /\ answered /\ ShowsOnly(backend, docs, SessionReader(sync.session),
                                 Current.name, Current.content)
               => UpToDate(answered, found)
    BY <1>2, <1>6, ReadShows DEF UpToDate
  <1>9. SessionReader(sync.session).owner = sync.session.owner
    BY DEF SessionReader
  \* An undisturbed call that knew everything finds the entry up to date.
  <1>10. seen.alone /\ sync.known => UpToDate(answered, found)
    BY <1>3, <1>4, <1>6, <1>7, <1>8 DEF KnownStays
  <1>11. CASE ~Valid(Current.name[1]) \/ UpToDate(answered, found)
    <2>1. sync' = Advanced(seen)
      BY <1>2, <1>11
    <2> HIDE DEF seen
    <2>2. KnownStays(backend, docs', Advanced(seen))
      <3>1. /\ Advanced(seen).session = sync.session /\ Advanced(seen).batch = sync.batch
            /\ Advanced(seen).written = sync.written /\ Advanced(seen).proposed = sync.proposed
            /\ Advanced(seen).alone = seen.alone /\ Advanced(seen).known = sync.known
        BY <1>7, AdvancedIs
      <3>2. Advanced(seen).at # "store"
        BY <1>1, <1>4, <1>7, AdvancedProcessed
      <3> QED
        BY <1>1, <1>3, <1>7, <3>1, <3>2 DEF KnownStays
    <2>3. Valid(Current.name[1]) => Shows(backend, docs', RootReader(sync.session.owner),
                                          Current.name, Current.content)
      BY <1>1, <1>8, <1>9, <1>11, RootShows
    <2> QED
      BY <1>1, <1>5, <1>7, <2>1, <2>2, <2>3, GoingOnKeeps
  <1>12. CASE Valid(Current.name[1]) /\ ~UpToDate(answered, found) /\ sync.session.role = "agent"
    <2> DEFINE told == [seen EXCEPT !.proposed = @ + 1]
    <2>1. sync' = Advanced(told)
      BY <1>2, <1>12
    <2> HIDE DEF seen
    <2>2. /\ told \in SyncRecord
          /\ told.at = sync.at /\ told.session = sync.session /\ told.batch = sync.batch
          /\ told.next = sync.next /\ told.calls = sync.calls /\ told.known = sync.known
          /\ told.alone = seen.alone
      <3>1. seen.proposed + 1 \in Nat
        BY <1>7 DEF SyncRecord
      <3> QED
        BY <1>7, <3>1 DEF SyncRecord
    <2> HIDE DEF told
    <2>3. KnownStays(backend, docs', Advanced(told))
      <3>1. Advanced(told).alone = seen.alone /\ Advanced(told).known = sync.known
        BY <2>2, AdvancedIs
      <3> QED
        BY <1>10, <1>12, <3>1 DEF KnownStays
    <2>4. sync.session.role # "owner"
      BY <1>12
    <2> QED
      BY <1>1, <1>5, <2>1, <2>2, <2>3, <2>4, GoingOnKeeps
  <1>13. CASE Valid(Current.name[1]) /\ ~UpToDate(answered, found) /\ sync.session.role # "agent"
    <2>1. sync' = [seen EXCEPT !.at = "store"]
      BY <1>2, <1>13
    <2> HIDE DEF seen
    <2>2. /\ sync' \in SyncRecord
          /\ sync'.at = "store" /\ sync'.session = sync.session /\ sync'.batch = sync.batch
          /\ sync'.next = sync.next /\ sync'.calls = sync.calls /\ sync'.known = sync.known
          /\ sync'.alone = seen.alone
      BY <1>7, <2>1 DEF SyncRecord
    <2>3. sync.session.role = "owner"
      BY <1>4, <1>13 DEF Session
    <2>4. SyncRunning(backend', sync')
      BY <1>1, <1>4, <1>6, <1>13, <2>2, <2>3 DEF SyncRunning
    <2>5. KnownStays(backend', docs', sync')
      BY <1>10, <1>13, <2>2 DEF KnownStays
    <2>6. BatchStored(backend', docs', sync')
      <3>1. \A i : Processed(sync', i) <=> Processed(sync, i)
        BY <1>1, <2>2 DEF Processed
      <3>2. \A i : LatestProcessed(sync', i) <=> LatestProcessed(sync, i)
        BY <2>2, <3>1 DEF LatestProcessed
      <3> QED
        BY <1>1, <1>3, <1>7, <2>2, <3>1, <3>2 DEF BatchStored
    <2> QED
      BY <1>1, <1>3, <2>2, <2>4, <2>5, <2>6 DEF IInv
  <1> QED
    BY <1>11, <1>12, <1>13

\* An owner's call stores an entry, or the store does not take it.
LEMMA SyncStoreKeeps ==
    ASSUME IInv, SyncStore
    PROVE  IInv'
  <1>1. sync.at = "store" /\ UNCHANGED <<backend, changes>>
    BY DEF SyncStore
  <1> DEFINE owner == sync.session.owner
             name == Current.name
             content == Current.content
             data == Sealed(owner, name[1], content)
             disturbed == [sync EXCEPT !.alone = FALSE]
  <1>2. \/ /\ Put(name, data)
           /\ sync' = Advanced([sync EXCEPT !.written = @ + 1]) \/ sync' = Advanced(disturbed)
        \/ /\ PutUnseen(name, data)
           /\ sync' = Advanced([disturbed EXCEPT !.written = @ + 1]) \/ sync' = Advanced(disturbed)
        \/ UNCHANGED <<docs, doubted>> /\ sync' = Advanced(disturbed)
    BY DEF SyncStore
  <1>3. /\ sync \in SyncRecord /\ SyncRunning(backend, sync) /\ KnownStays(backend, docs, sync)
        /\ BatchStored(backend, docs, sync) /\ EntriesOK(backend, docs)
        /\ Orderly(backend, docs, doubted)
    BY DEF IInv
  <1>4. /\ sync.calls > 0 /\ backend = "Fileverse" /\ sync.session \in Session
        /\ sync.batch \in Batch /\ sync.next \in DOMAIN sync.batch
        /\ Valid(Current.name[1])
    BY <1>1, <1>3 DEF SyncRunning, Current
  <1>5. name \in Seq(Char) \X Seq(Char) /\ Valid(name[1]) /\ content \in Content /\ owner \in Owner
    BY <1>4, BatchEntries DEF Current, Session
  <1>7. ~(sync.alone /\ sync.known)
    BY <1>1, <1>3 DEF KnownStays
  <1> HIDE DEF owner, name, content, data, disturbed
  \* What a put does to the store.
  <1>8. ASSUME Put(name, data) \/ PutUnseen(name, data)
        PROVE  /\ EntriesOK(backend, docs') /\ Orderly(backend, docs', doubted')
               /\ Shows(backend, docs', RootReader(owner), name, content)
               /\ \A i \in DOMAIN sync.batch :
                      /\ Valid(sync.batch[i].name[1]) /\ sync.batch[i].name # name
                      /\ Shows(backend, docs, RootReader(owner),
                               sync.batch[i].name, sync.batch[i].content)
                      => Shows(backend, docs', RootReader(owner),
                               sync.batch[i].name, sync.batch[i].content)
    <2>1. PICK d :
              /\ d[1] = NameIn(backend, name) /\ d[2] \in Copy
              /\ PutAt(docs, docs', d, Entry(name, data))
              /\ doubted \subseteq doubted'
              /\ backend = "InMemory" => doubted' = doubted
              /\ \A x \in OfName(docs, d[1]) : x = d \/ d[1] \in doubted'
      BY <1>8, PutPuts
    <2>2. PutAt(docs, docs', d, Entry(name, Sealed(owner, name[1], content)))
      BY <2>1 DEF data
    <2>3. EntriesOK(backend, docs') /\ Orderly(backend, docs', doubted')
      BY <1>3, <1>5, <2>1, <2>2, PutKeepsEntries
    <2>4. Shows(backend, docs', RootReader(owner), name, content)
      BY <2>1, <2>2, PutShows
    <2>5. ASSUME NEW i \in DOMAIN sync.batch, Valid(sync.batch[i].name[1]),
                 sync.batch[i].name # name,
                 Shows(backend, docs, RootReader(owner), sync.batch[i].name, sync.batch[i].content)
          PROVE  Shows(backend, docs', RootReader(owner), sync.batch[i].name, sync.batch[i].content)
      <3>1. sync.batch[i].name \in Seq(Char) \X Seq(Char)
        BY <1>4, BatchEntries
      <3>2. NameIn(backend, sync.batch[i].name) # NameIn(backend, name)
        BY <1>4, <1>5, <2>5, <3>1, NamesInDiffer DEF Pair
      <3> QED
        BY <2>1, <2>2, <2>5, <3>2, PutShows
    <2> QED
      BY <2>3, <2>4, <2>5
  \* A call that was disturbed promises nothing more.
  <1>9. ASSUME NEW call \in SyncRecord, sync' = Advanced(call),
               call.at = sync.at, call.session = sync.session, call.batch = sync.batch,
               call.next = sync.next, call.calls = sync.calls, call.known = sync.known,
               call.alone = FALSE,
               EntriesOK(backend, docs'), Orderly(backend, docs', doubted')
        PROVE  IInv'
    <2>1. KnownStays(backend, docs', Advanced(call))
      <3>1. Advanced(call).alone = FALSE
        BY <1>9, AdvancedIs
      <3> QED
        BY <3>1 DEF KnownStays
    <2> QED
      BY <1>1, <1>9, <2>1, GoingOnKeeps
  <1>10. /\ disturbed \in SyncRecord /\ disturbed.written = sync.written
         /\ disturbed.at = sync.at /\ disturbed.session = sync.session
         /\ disturbed.batch = sync.batch /\ disturbed.next = sync.next
         /\ disturbed.calls = sync.calls /\ disturbed.known = sync.known
         /\ disturbed.alone = FALSE
    BY <1>3 DEF SyncRecord, disturbed
  <1>11. ASSUME NEW base \in SyncRecord
         PROVE  LET call == [base EXCEPT !.written = @ + 1]
                IN  /\ call \in SyncRecord
                    /\ call.at = base.at /\ call.session = base.session /\ call.batch = base.batch
                    /\ call.next = base.next /\ call.calls = base.calls
                    /\ call.known = base.known /\ call.alone = base.alone
    <2>1. base.written + 1 \in Nat
      BY DEF SyncRecord
    <2> QED
      BY <2>1 DEF SyncRecord
  <1>12. CASE Put(name, data) /\ sync' = Advanced([sync EXCEPT !.written = @ + 1])
    <2> DEFINE call == [sync EXCEPT !.written = @ + 1]
    <2>2. /\ call \in SyncRecord
          /\ call.at = sync.at /\ call.session = sync.session /\ call.batch = sync.batch
          /\ call.next = sync.next /\ call.calls = sync.calls /\ call.known = sync.known
          /\ call.alone = sync.alone
      BY <1>3, <1>11
    <2>3. sync' = Advanced(call)
      BY <1>12
    <2> HIDE DEF call
    <2>4. KnownStays(backend, docs', Advanced(call))
      <3>1. Advanced(call).alone = sync.alone /\ Advanced(call).known = sync.known
        BY <2>2, AdvancedIs
      <3> QED
        BY <1>7, <3>1 DEF KnownStays
    <2> QED
      BY <1>1, <1>8, <1>12, <2>2, <2>3, <2>4, GoingOnKeeps DEF owner, name, content
  <1>13. CASE (Put(name, data) \/ PutUnseen(name, data)) /\ sync' = Advanced(disturbed)
    BY <1>8, <1>9, <1>10, <1>13
  <1>14. CASE PutUnseen(name, data) /\ sync' = Advanced([disturbed EXCEPT !.written = @ + 1])
    <2> DEFINE call == [disturbed EXCEPT !.written = @ + 1]
    <2>1. /\ call \in SyncRecord
          /\ call.at = sync.at /\ call.session = sync.session /\ call.batch = sync.batch
          /\ call.next = sync.next /\ call.calls = sync.calls /\ call.known = sync.known
          /\ call.alone = FALSE
      BY <1>10, <1>11
    <2>2. sync' = Advanced(call)
      BY <1>14
    <2> HIDE DEF call
    <2> QED
      BY <1>8, <1>9, <1>14, <2>1, <2>2
  <1>15. CASE UNCHANGED <<docs, doubted>> /\ sync' = Advanced(disturbed)
    <2>1. EntriesOK(backend, docs') /\ Orderly(backend, docs', doubted')
      BY <1>3, <1>15
    <2> QED
      BY <1>9, <1>10, <1>15, <2>1
  <1> QED
    BY <1>2, <1>12, <1>13, <1>14, <1>15

\* Every step keeps it.
LEMMA StepInvariant ==
    ASSUME IInv, [Next]_vars
    PROVE  IInv'
  <1>1. CASE UNCHANGED vars
    BY <1>1 DEF vars, IInv
  <1>2. ASSUME NEW d \in DOMAIN docs, NEW form \in {"not Base64", "not an envelope"}, Edit(d, form)
        PROVE  IInv'
    BY <1>2, EditKeeps
  <1> QED
    BY <1>1, <1>2, WriteKeeps, DeleteKeeps, SyncBeginKeeps, SyncReadKeeps, SyncStoreKeeps
       DEF Next, Finished

\* The inductive invariant holds throughout.
THEOREM Invariance == Spec => []IInv
  BY InitInvariant, StepInvariant, PTL DEF Spec

-------------------------------------------------------------------------------
(* What follows *)

\* Entries lie under the storage name of the pair they were written for.
THEOREM TypeCorrect == Spec => []TypeOK
  BY Invariance, InvariantHasType, PTL

\* A search that is not cut short lists what its reader can read.
THEOREM ListingIsComplete == Spec => []ListIsComplete
  BY TypeCorrect, CompleteFromType, PTL

\* What is listed may be read back under its name and its resource, and nothing
\* else can unless the title is in doubt.
THEOREM ListingReadsBack == Spec => []ListedMemoriesReadBack
  <1>1. ASSUME IInv, NEW hits \in SearchResults, NEW reader \in Reader,
               ~ListFails(reader, hits), NEW memory \in List(reader, hits),
               StorageName(memory.name) \notin doubted
        PROVE  Reads(reader, memory.name) = {memory.content}
    <2> DEFINE at == StorageName(memory.name)
    <2>1. TypeOK
      BY <1>1, InvariantHasType
    <2>2. PICK d \in Under(at) : Opened(docs[d].data, reader) = memory.content
      BY <1>1, <2>1, ListedMayBeRead
    <2>3. d \in DOMAIN docs /\ d[1] = at
      BY DEF Under
    <2>4. Reads(reader, memory.name) = IF Under(at) = {} THEN {None}
                                       ELSE {Opened(docs[x].data, reader) : x \in Under(at)}
      BY DEF Reads
    <2> HIDE DEF at
    <2>5. \A x \in Under(at) : x = d
      BY <1>1, <2>3 DEF at, IInv, Orderly, OfName, Under
    <2> QED
      BY <2>2, <2>4, <2>5
  <1>2. IInv => ListedMemoriesReadBack
    BY <1>1, InvariantHasType, ListedMayBeRead DEF ListedMemoriesReadBack
  <1> QED
    BY <1>2, Invariance, PTL

\* A sync of what is stored already writes and proposes nothing.
THEOREM KnownIsSkipped == Spec => []SyncSkipsKnown
  <1>1. IInv => SyncSkipsKnown
    BY DEF IInv, KnownStays, SyncSkipsKnown
  <1> QED
    BY <1>1, Invariance, PTL

\* An undisturbed owner's sync leaves the store with its batch.
THEOREM SyncStoresBatch == Spec => []SyncLeavesBatch
  <1>1. ASSUME IInv
        PROVE  SyncLeavesBatch
    <2> DEFINE reader == [owner |-> sync.session.owner, scope |-> RootText]
    <2> SUFFICES ASSUME sync.at = "idle", sync.calls > 0, sync.alone, sync.session.role = "owner",
                        NEW i \in DOMAIN sync.batch, Valid(sync.batch[i].name[1]), LastForName(i)
                 PROVE  /\ sync.batch[i].content \in Reads(reader, sync.batch[i].name)
                        /\ StorageName(sync.batch[i].name) \notin doubted =>
                               Reads(reader, sync.batch[i].name) = {sync.batch[i].content}
      BY DEF SyncLeavesBatch
    <2> DEFINE name == sync.batch[i].name
               content == sync.batch[i].content
    <2>1. Processed(sync, i) /\ LatestProcessed(sync, i)
      BY DEF Processed, LatestProcessed, LastForName
    <2>2. Shows(backend, docs, reader, name, content)
      BY <1>1, <2>1 DEF IInv, BatchStored, RootReader
    <2>3. sync.batch \in Batch
      BY <1>1 DEF IInv, SyncRunning
    <2>4. content \in Content
      BY <2>3, BatchEntries
    <2> HIDE DEF reader, name, content
    <2>5. StorageName(name) \notin doubted => ShowsOnly(backend, docs, reader, name, content)
      <3>1. StorageName(name) = NameIn(backend, name)
        BY DEF StorageName, NameIn
      <3>2. Orderly(backend, docs, doubted)
        BY <1>1 DEF IInv
      <3> QED
        BY <2>2, <3>1, <3>2, OrderlyShowsOnly
    <2>6. /\ content \in Reads(reader, name)
          /\ StorageName(name) \notin doubted => Reads(reader, name) = {content}
      BY <2>2, <2>4, <2>5, ReadShows
    <2> QED
      BY <2>6 DEF name, content
  <1> QED
    BY <1>1, Invariance, PTL

===============================================================================
