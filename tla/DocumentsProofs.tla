---------------------------- MODULE DocumentsProofs ----------------------------
(***************************************************************************)
(* Proofs about Documents: what is read of files, written to the end or    *)
(* cut; what decrypt-sections has done when it ends; what rekeying a       *)
(* section leaves alone; what a credential discloses; who reads a chunk.   *)
(***************************************************************************)
EXTENDS Documents, WellFoundedInduction, FiniteSetTheorems, SequenceTheorems, TLAPS

-------------------------------------------------------------------------------
(* Keys *)

\* The path to a scope begins with the path to each of its ancestors.
LEMMA PathToDescendant ==
    ASSUME NEW s \in Scope, NEW t \in Scope, IsAncestorOf(s, t)
    PROVE  PathTo(t) =
             PathTo(s) \o [i \in 1..(Len(t) - Len(s)) |-> PathPrefix(t, Len(s) + i)]
  <1> DEFINE step == [i \in 1..(Len(t) - Len(s)) |-> PathPrefix(t, Len(s) + i)]
             d == Len(t) - Len(s)
  <1>1. /\ s \in Seq(Segment) /\ t \in Seq(Segment)
        /\ Len(s) \in Nat /\ Len(t) \in Nat /\ d \in Nat
    BY ScopeAssumption DEF IsAncestorOf, IsPrefix
  <1>2. \A i \in 1..Len(s) : PathPrefix(s, i) = PathPrefix(t, i)
    BY <1>1 DEF IsAncestorOf, IsPrefix, PathPrefix
  <1>3. step \in Seq(Scope) /\ Len(step) = d /\ \A i \in 1..d : step[i] = PathPrefix(t, Len(s) + i)
    BY <1>1, ScopeAssumption
  <1>4. \A u \in Scope : /\ PathTo(u) \in Seq(Scope) /\ Len(PathTo(u)) = Len(u)
                         /\ \A i \in 1..Len(u) : PathTo(u)[i] = PathPrefix(u, i)
    BY ScopeAssumption DEF PathTo
  <1> HIDE DEF step
  <1>5. /\ PathTo(s) \o step \in Seq(Scope)
        /\ Len(PathTo(s) \o step) = Len(s) + d
        /\ \A i \in 1..(Len(s) + d) :
             (PathTo(s) \o step)[i] = IF i <= Len(s) THEN PathTo(s)[i] ELSE step[i - Len(s)]
    <2>1. PathTo(s) \in Seq(Scope) /\ Len(PathTo(s)) = Len(s)
      BY <1>4
    <2>2. /\ PathTo(s) \o step \in Seq(Scope)
          /\ Len(PathTo(s) \o step) = Len(PathTo(s)) + Len(step)
          /\ \A i \in 1..(Len(PathTo(s)) + Len(step)) :
               (PathTo(s) \o step)[i] = IF i <= Len(PathTo(s)) THEN PathTo(s)[i]
                                        ELSE step[i - Len(PathTo(s))]
      BY <1>3, <2>1, ConcatProperties
    <2> HIDE DEF d
    <2> QED
      BY <1>3, <2>1, <2>2
  <1>6. ASSUME NEW i \in 1..Len(t)
        PROVE  PathTo(t)[i] = (PathTo(s) \o step)[i]
    <2>1. i \in 1..(Len(s) + d) /\ (i <= Len(s) => i \in 1..Len(s))
          /\ (i > Len(s) => i - Len(s) \in 1..d /\ Len(s) + (i - Len(s)) = i)
          /\ (i <= Len(s) \/ i > Len(s))
      BY <1>1
    <2> QED
      BY <1>2, <1>3, <1>4, <1>5, <2>1
  <1>7. Len(PathTo(s) \o step) = Len(PathTo(t))
    BY <1>1, <1>4, <1>5
  <1>8. PathTo(t) = PathTo(s) \o step
    BY <1>4, <1>5, <1>6, <1>7, SeqEqual
  <1> QED
    BY <1>8 DEF step

\* Deriving on from the secret of a scope leads to the secret of a scope below.
LEMMA DerivedSecret ==
    ASSUME NEW o \in Owner, NEW s \in Scope, NEW t \in Scope, IsAncestorOf(s, t)
    PROVE  DeriveChildSecret(CanonicalSecret(o, s), s, t) = CanonicalSecret(o, t)
  <1> DEFINE step == [i \in 1..(Len(t) - Len(s)) |-> PathPrefix(t, Len(s) + i)]
  <1>1. PathTo(t) = PathTo(s) \o step
    BY PathToDescendant
  <1>2. DeriveChildSecret(CanonicalSecret(o, s), s, t)
          = [CanonicalSecret(o, s) EXCEPT !.chain = CanonicalSecret(o, s).chain \o step]
    BY DEF DeriveChildSecret
  <1> HIDE DEF step
  <1> QED
    BY <1>1, <1>2 DEF CanonicalSecret

\* The key of a scope holds the secret of the scope, and so does the key that a
\* writer derives.
LEMMA ScopeKeys ==
    ASSUME NEW o \in Owner, NEW s \in Scope
    PROVE  /\ ScopeKeySecret(o, s) = CanonicalSecret(o, s)
           /\ CanonicalSecret(o, s) \in Secret
           /\ CliKey(o, s).secret = CanonicalSecret(o, s)
           /\ CliKey(o, s).scope = s
  <1>1. PathTo(Root) = <<>> /\ Root \in Scope /\ IsAncestorOf(Root, s)
    BY ScopeAssumption DEF PathTo, Root, IsAncestorOf, IsPrefix
  <1>2. RootReadKey(o).secret = CanonicalSecret(o, Root) /\ RootReadKey(o).scope = Root
    BY <1>1 DEF RootReadKey, CanonicalSecret
  <1>3. DeriveChild(RootReadKey(o), s).secret = CanonicalSecret(o, s)
        /\ DeriveChild(RootReadKey(o), s).scope = s
    BY <1>1, <1>2, DerivedSecret DEF DeriveChild
  <1>4. PathTo(s) \in Seq(Scope)
    BY ScopeAssumption DEF PathTo
  <1> QED
    BY <1>2, <1>3, <1>4 DEF ScopeKeySecret, CliKey, CanonicalSecret, Secret

\* So the keys in use do.
LEMMA KeysInUse ==
    ASSUME NEW k \in Keys
    PROVE  \E o \in Owner : k.scope \in Scope /\ k.secret = CanonicalSecret(o, k.scope)
  BY FilesAssumption, ScopeKeys

-------------------------------------------------------------------------------
(* Envelopes *)

\* Envelopes for the key of their scope.
Scoped(e) ==
    /\ e.mode = "ScopeBased"
    /\ e.entries = {Entry(e.algorithm, CanonicalSecret(Author, e.scope), e.scope)}

\* Envelopes for recipients, as builders, credentials and rekeys make them.
Shared(e) ==
    /\ e.mode = "Recipient" /\ e.algorithm = "Classical"
    /\ e.entries # {} /\ IsFiniteSet(e.entries)
    /\ e.entries \subseteq {Entry("Classical", k.secret, e.scope) : k \in Keys}

\* The envelopes that come about.
WrittenEnvelope ==
    {e \in Envelope : e.data.author = Author /\ (Scoped(e) \/ Shared(e))}

\* Access entries are of their type.
LEMMA EntryType ==
    ASSUME NEW a, NEW r \in Secret, NEW s \in Scope
    PROVE  Entry(a, r, s) \in AccessEntry
  <1>1. KeyId(r) \in KeyIds
    BY DEF KeyId, KeyIds
  <1>2. Kek(a, r, s) \in [x25519 : Secret] \cup [x25519 : Secret, mlkem : Secret \X Scope]
    BY DEF Kek
  <1> QED
    BY <1>1, <1>2 DEF Entry, AccessEntry

\* Envelopes for a scope are of this form.
LEMMA ScopeEnvelope ==
    ASSUME NEW d \in [author : {Author}, nonce : Nonce], NEW a \in Algorithm, NEW s \in Scope
    PROVE  SealToScope(Author, d, a, s) \in WrittenEnvelope
  <1> DEFINE e == SealToScope(Author, d, a, s)
             listed == {Entry(a, CanonicalSecret(Author, s), s)}
  <1>1. e = [data |-> d, algorithm |-> a, scope |-> s, mode |-> "ScopeBased",
             signer |-> Author, entries |-> listed]
    <2>1. ScopeKeySecret(Author, s) = CanonicalSecret(Author, s)
      BY ScopeKeys, FilesAssumption
    <2> QED
      BY <2>1 DEF SealToScope
  <1>2. listed \subseteq AccessEntry
    BY EntryType, ScopeKeys, FilesAssumption
  <1> HIDE DEF listed
  <1>3. e \in Envelope
    BY <1>1, <1>2, FilesAssumption DEF Envelope, AccessMode, DataKey
  <1> QED
    BY <1>1, <1>3 DEF WrittenEnvelope, Scoped, listed

\* What is listed for some recipients.
LEMMA ListedRecipients ==
    ASSUME NEW s \in Scope, NEW R \in Recipients, R # {}
    PROVE  LET listed == {Entry("Classical", r, s) : r \in R}
           IN  /\ listed \subseteq AccessEntry /\ listed # {} /\ IsFiniteSet(listed)
               /\ listed \subseteq {Entry("Classical", k.secret, s) : k \in Keys}
  <1> DEFINE listed == {Entry("Classical", r, s) : r \in R}
             f == [r \in R |-> Entry("Classical", r, s)]
  <1>1. R \subseteq {k.secret : k \in Keys} /\ IsFiniteSet(R)
    BY FilesAssumption
  <1>2. \A r \in R : r \in Secret
    BY <1>1, KeysInUse, ScopeKeys
  <1>3. listed \subseteq AccessEntry
    BY <1>2, EntryType
  <1>4. f \in Surjection(R, listed)
    BY DEF Surjection
  <1>5. IsFiniteSet(listed)
    BY <1>1, <1>4, FS_Surjection
  <1> QED
    BY <1>1, <1>3, <1>5

\* So are those for recipients.
LEMMA SharedEnvelope ==
    ASSUME NEW d \in [author : {Author}, nonce : Nonce], NEW s \in Scope, NEW R \in Recipients,
           R # {}
    PROVE  /\ SealToRecipients(Author, d, s, R) \in WrittenEnvelope
           /\ Shared(SealToRecipients(Author, d, s, R))
  <1> DEFINE listed == {Entry("Classical", r, s) : r \in R}
             e == SealToRecipients(Author, d, s, R)
  <1>1. /\ listed \subseteq AccessEntry /\ listed # {} /\ IsFiniteSet(listed)
        /\ listed \subseteq {Entry("Classical", k.secret, s) : k \in Keys}
    BY ListedRecipients
  <1>2. e = [data |-> d, algorithm |-> "Classical", scope |-> s, mode |-> "Recipient",
             signer |-> Author, entries |-> listed]
    BY DEF SealToRecipients
  <1> HIDE DEF listed
  <1>3. e \in Envelope
    BY <1>1, <1>2, FilesAssumption DEF Envelope, AccessMode, DataKey, Algorithm
  <1> QED
    BY <1>1, <1>2, <1>3 DEF WrittenEnvelope, Shared

\* A rekey keeps scope and content, and makes an envelope for recipients of one
\* that its caller could unwrap.
LEMMA RekeyedEnvelope ==
    ASSUME NEW e \in WrittenEnvelope, NEW o \in Owner, NEW R \in Recipients, R # {},
           NEW k, Unwraps(e, k)
    PROVE  /\ Rekeyed(o, e, R) \in WrittenEnvelope
           /\ Shared(Rekeyed(o, e, R))
           /\ Rekeyed(o, e, R).scope = e.scope
           /\ Rekeyed(o, e, R).data = e.data
  <1> DEFINE listed == {Entry("Classical", r, e.scope) : r \in R}
  <1>1. e \in Envelope /\ e.data.author = Author /\ e.scope \in Scope
    BY DEF WrittenEnvelope, Envelope
  <1>2. e.algorithm = "Classical"
    BY DEF WrittenEnvelope, Unwraps, Scoped, Shared
  <1>3. /\ listed \subseteq AccessEntry /\ listed # {} /\ IsFiniteSet(listed)
        /\ listed \subseteq {Entry("Classical", c.secret, e.scope) : c \in Keys}
    BY <1>1, ListedRecipients
  <1>4. Rekeyed(o, e, R) = [e EXCEPT !.entries = listed, !.signer = o, !.mode = "Recipient"]
    BY DEF Rekeyed
  <1> HIDE DEF listed
  <1>5. Rekeyed(o, e, R) \in Envelope
    BY <1>1, <1>3, <1>4 DEF Envelope, AccessMode
  <1>6. /\ Rekeyed(o, e, R).scope = e.scope /\ Rekeyed(o, e, R).data = e.data
        /\ Rekeyed(o, e, R).algorithm = "Classical"
        /\ Rekeyed(o, e, R).entries = listed /\ Rekeyed(o, e, R).mode = "Recipient"
    BY <1>1, <1>2, <1>4 DEF Envelope
  <1>7. Shared(Rekeyed(o, e, R))
    BY <1>3, <1>6 DEF Shared
  <1> QED
    BY <1>1, <1>5, <1>6, <1>7 DEF WrittenEnvelope

\* Decryption of an envelope for recipients depends on nothing but its signature
\* and the list.
LEMMA SharedOutcome ==
    ASSUME NEW e, Shared(e), NEW k, NEW vk
    PROVE  /\ e.signer # vk => Outcome(e, k, vk) = "SignatureVerificationFailed"
           /\ e.signer = vk /\ Entitled(e, k) => Outcome(e, k, vk) = "Plaintext"
           /\ e.signer = vk /\ ~Entitled(e, k) => Outcome(e, k, vk) = "NoMatchingAccessEntry"
  <1>1. ~ScopeDecides(e) /\ ScopeCheckPasses(e, k) /\ DecryptSecret(e, k) = k.secret
    BY DEF Shared, ScopeDecides, ScopeCheckPasses, DecryptSecret
  <1>2. Entitled(e, k) <=> \E entry \in e.entries : entry.id = KeyId(k.secret)
    BY DEF Entitled, Shared
  <1>3. ASSUME NEW entry \in e.entries, entry.id = KeyId(k.secret)
        PROVE  entry.kek = Kek(e.algorithm, k.secret, e.scope)
    <2>1. PICK c \in Keys : entry = Entry("Classical", c.secret, e.scope)
      BY DEF Shared
    <2>2. c.secret = k.secret
      BY <1>3, <2>1 DEF Entry, KeyId
    <2> QED
      BY <2>1, <2>2 DEF Entry, Shared
  <1> QED
    BY <1>1, <1>2, <1>3 DEF Outcome

\* Decryption of any envelope depends on its signature and on who is meant to
\* read it; a reader is never left with an entry it cannot unwrap.
LEMMA OutcomeOf ==
    ASSUME NEW e \in WrittenEnvelope, NEW k \in Keys, NEW vk
    PROVE  /\ e.signer # vk => Outcome(e, k, vk) = "SignatureVerificationFailed"
           /\ e.signer = vk /\ Entitled(e, k) => Outcome(e, k, vk) = "Plaintext"
           /\ e.signer = vk => Outcome(e, k, vk) = "Plaintext" \/ Skipped(Outcome(e, k, vk))
           /\ Outcome(e, k, vk) = "Plaintext" => e.signer = vk /\ Entitled(e, k)
  <1>1. CASE Shared(e)
    BY <1>1, SharedOutcome DEF Skipped
  <1>2. CASE Scoped(e)
    <2>1. PICK o \in Owner : k.scope \in Scope /\ k.secret = CanonicalSecret(o, k.scope)
      BY KeysInUse
    <2>2. e.scope \in Scope /\ e.data.author = Author
      BY DEF WrittenEnvelope, Envelope
    <2> DEFINE secret == CanonicalSecret(o, e.scope)
               mine == {entry \in e.entries : entry.id = KeyId(secret)}
               own == Entry(e.algorithm, CanonicalSecret(Author, e.scope), e.scope)
    <2>3. CanAccess(k, e.scope) => DecryptSecret(e, k) = secret
      <3>1. k.scope = e.scope => k.secret = secret
        BY <2>1
      <3>2. CanAccess(k, e.scope) => DeriveChild(k, e.scope).secret = secret
        BY <2>1, <2>2, DerivedSecret DEF CanAccess, DeriveChild
      <3> QED
        BY <3>1, <3>2, <1>2 DEF DecryptSecret, ScopeDecides, Scoped
    <2>4. /\ e.entries = {own} /\ own.id = KeyId(CanonicalSecret(Author, e.scope))
          /\ own.kek = Kek(e.algorithm, CanonicalSecret(Author, e.scope), e.scope)
      BY <1>2 DEF Scoped, Entry
    <2>5. own.id = KeyId(secret) <=> o = Author
      BY <2>4 DEF KeyId, CanonicalSecret
    <2>6. ScopeCheckPasses(e, k) <=> CanAccess(k, e.scope)
      BY <1>2 DEF ScopeCheckPasses, ScopeDecides, Scoped
    <2>7. Entitled(e, k) <=> CanAccess(k, e.scope) /\ o = Author
      BY <1>2, <2>1, <2>2 DEF Entitled, Scoped, CanAccess, CanonicalSecret
    <2> HIDE DEF secret, own
    <2>8. CASE vk = e.signer /\ CanAccess(k, e.scope) /\ o = Author
      <3>1. own.id = KeyId(secret) /\ own.kek = Kek(e.algorithm, secret, e.scope)
        BY <2>4, <2>5, <2>8 DEF secret
      <3>2. Outcome(e, k, vk) = "Plaintext"
        BY <3>1, <2>3, <2>4, <2>6, <2>8 DEF Outcome
      <3> QED
        BY <3>2, <2>7, <2>8
    <2>9. CASE vk = e.signer /\ CanAccess(k, e.scope) /\ o # Author
      <3>1. Outcome(e, k, vk) = "NoMatchingAccessEntry"
        BY <2>3, <2>4, <2>5, <2>6, <2>9 DEF Outcome
      <3> QED
        BY <3>1, <2>7, <2>9 DEF Skipped
    <2>10. CASE vk = e.signer /\ ~CanAccess(k, e.scope)
      <3>1. Outcome(e, k, vk) = "ScopeMismatch"
        BY <2>6, <2>10 DEF Outcome
      <3> QED
        BY <3>1, <2>7, <2>10 DEF Skipped
    <2>11. CASE vk # e.signer
      BY <2>11 DEF Outcome
    <2> QED
      BY <2>8, <2>9, <2>10, <2>11
  <1> QED
    BY <1>1, <1>2 DEF WrittenEnvelope

-------------------------------------------------------------------------------
(* Envelopes in files *)

\* An envelope is not an error.
LEMMA SignedIsReadable ==
    ASSUME NEW e \in Envelope
    PROVE  Signed(e) # Unreadable
  BY WireAssumption DEF Signed

\* A field whose size the two bytes can tell announces its size.
LEMMA PrefixedAligned ==
    ASSUME NEW kind, NEW value, NEW size \in Nat, size < Width
    PROVE  Aligned(Prefixed(kind, value, size))
  BY WireAssumption DEF Aligned, Prefixed

\* Reading the binary form returns the envelope, or an error where a size is cut.
LEMMA BinaryEnvelope ==
    ASSUME NEW e \in Envelope
    PROVE  /\ EnvelopeFromBytes(EnvelopeToBytes(e)) \in {Signed(e), Unreadable}
           /\ /\ ScopeSize(e.scope) < Width
              /\ IsFiniteSet(e.entries) /\ Cardinality(e.entries) < Width
              => EnvelopeFromBytes(EnvelopeToBytes(e)) = Signed(e)
  <1> DEFINE f == EnvelopeToBytes(e)
             read == [envelope |->
                        [data |-> f[7].value, algorithm |-> f[3].value, scope |-> f[5].value,
                         mode |-> f[4].value, signer |-> f[8].value.signer,
                         entries |-> f[6].value],
                      over |-> f[8].value.over]
  <1>1. /\ DOMAIN f = 1..8
        /\ f[1] = Fixed("ROK", 1) /\ f[2] = Fixed("version", CURRENT_VERSION)
        /\ f[3] = Fixed("algorithm", e.algorithm) /\ f[4] = Fixed("mode", e.mode)
        /\ f[5] = Prefixed("scope", e.scope, ScopeSize(e.scope))
        /\ f[6] = Prefixed("entries", e.entries, Cardinality(e.entries))
        /\ f[7] = Fixed("payload", e.data)
        /\ f[8] = Fixed("seal", [signer |-> e.signer, over |-> e])
    BY DEF EnvelopeToBytes
  <1> HIDE DEF f
  <1>2. Has(f, 2, "version") /\ f[2].value >= 2
    BY <1>1 DEF Has, Fixed, CURRENT_VERSION
  <1>3. read = Signed(e)
    BY <1>1 DEF Signed, Fixed, Prefixed, Envelope
  <1>4. EnvelopeFromBytes(f) =
            IF /\ HasAll(f, 1, <<"ROK", "version", "algorithm">>) /\ Has(f, 4, "mode")
               /\ HasAll(f, 5, <<"scope", "entries", "payload", "seal">>)
            THEN read ELSE Unreadable
    BY <1>2 DEF EnvelopeFromBytes
  <1>5. HasAll(f, 1, <<"ROK", "version", "algorithm">>) /\ Has(f, 4, "mode")
    BY <1>1 DEF HasAll, Has, Aligned, Fixed
  <1>6. ASSUME Aligned(f[5]), Aligned(f[6])
        PROVE  HasAll(f, 5, <<"scope", "entries", "payload", "seal">>)
    BY <1>1, <1>6 DEF HasAll, Has, Aligned, Fixed, Prefixed
  <1>7. ASSUME ScopeSize(e.scope) < Width, IsFiniteSet(e.entries), Cardinality(e.entries) < Width
        PROVE  Aligned(f[5]) /\ Aligned(f[6])
    <2>1. ScopeSize(e.scope) \in Nat
      BY ScopeAssumption DEF ScopeSize, Envelope
    <2>2. Cardinality(e.entries) \in Nat
      BY <1>7, FS_CardinalityType
    <2> QED
      BY <1>1, <1>7, <2>1, <2>2, PrefixedAligned
  <1> HIDE DEF read
  <1> QED
    BY <1>3, <1>4, <1>5, <1>6, <1>7 DEF f

\* The fields of the protobuf form.
LEMMA ProtoFields ==
    ASSUME NEW e \in Envelope
    PROVE  LET f == EnvelopeToProto(e)
           IN  /\ f[1] = Fixed("version", CURRENT_VERSION)
               /\ f[2] = Fixed("algorithm", e.algorithm)
               /\ f[3] = Fixed("scope", e.scope) /\ f[4] = Fixed("entries", e.entries)
               /\ f[5] = Fixed("payload", e.data)
               /\ f[6] = Fixed("seal", [signer |-> e.signer, over |-> e])
               /\ e.mode = "Recipient" => Len(f) = 6 /\ DOMAIN f = 1..6
               /\ e.mode = "ScopeBased" =>
                      Len(f) = 7 /\ DOMAIN f = 1..7 /\ f[7] = Fixed("mode", e.mode)
               /\ \E S : f \in Seq(S)
  <1> DEFINE m == ModelessProto(e)
             S == {m[i] : i \in 1..6} \cup {Fixed("mode", e.mode)}
  <1>1. /\ m[1] = Fixed("version", CURRENT_VERSION)
        /\ m[2] = Fixed("algorithm", e.algorithm)
        /\ m[3] = Fixed("scope", e.scope) /\ m[4] = Fixed("entries", e.entries)
        /\ m[5] = Fixed("payload", e.data)
        /\ m[6] = Fixed("seal", [signer |-> e.signer, over |-> e])
        /\ Len(m) = 6 /\ DOMAIN m = 1..6
    BY DEF ModelessProto
  <1>2. m \in Seq(S)
    BY <1>1 DEF ModelessProto
  <1> HIDE DEF m
  <1>3. CASE e.mode = "Recipient"
    <2>1. EnvelopeToProto(e) = m
      BY <1>2, <1>3, ConcatEmptySeq DEF EnvelopeToProto, m
    <2> QED
      BY <1>1, <1>2, <1>3, <2>1
  <1>4. CASE e.mode = "ScopeBased"
    <2> DEFINE last == <<Fixed("mode", e.mode)>>
    <2>1. EnvelopeToProto(e) = m \o last
      BY <1>4 DEF EnvelopeToProto, m
    <2>2. last \in Seq(S) /\ Len(last) = 1 /\ last[1] = Fixed("mode", e.mode)
      OBVIOUS
    <2> HIDE DEF last, S
    <2>3. /\ m \o last \in Seq(S) /\ Len(m \o last) = 7
          /\ \A i \in 1..7 : (m \o last)[i] = IF i <= 6 THEN m[i] ELSE last[i - 6]
      <3>1. /\ m \o last \in Seq(S) /\ Len(m \o last) = Len(m) + Len(last)
            /\ \A i \in 1..(Len(m) + Len(last)) :
                   (m \o last)[i] = IF i <= Len(m) THEN m[i] ELSE last[i - Len(m)]
        BY <1>2, <2>2, ConcatProperties
      <3>2. Len(m) = 6 /\ Len(last) = 1 /\ 6 + 1 = 7
        BY <1>1, <2>2
      <3> QED
        BY <3>1, <3>2
    <2>4. DOMAIN (m \o last) = 1..7
      BY <2>3, LenProperties
    <2>5. /\ (m \o last)[1] = m[1] /\ (m \o last)[2] = m[2] /\ (m \o last)[3] = m[3]
          /\ (m \o last)[4] = m[4] /\ (m \o last)[5] = m[5] /\ (m \o last)[6] = m[6]
          /\ (m \o last)[7] = last[1]
      BY <2>3
    <2> QED
      BY <1>1, <1>4, <2>1, <2>2, <2>3, <2>4, <2>5
  <1> QED
    BY <1>3, <1>4 DEF Envelope, AccessMode

\* Reading the protobuf form returns the envelope.
LEMMA ProtoEnvelope ==
    ASSUME NEW e \in Envelope
    PROVE  EnvelopeFromProto(EnvelopeToProto(e)) = Signed(e)
  <1> DEFINE f == EnvelopeToProto(e)
  <1>1. /\ f[1] = Fixed("version", CURRENT_VERSION)
        /\ f[2] = Fixed("algorithm", e.algorithm)
        /\ f[3] = Fixed("scope", e.scope) /\ f[4] = Fixed("entries", e.entries)
        /\ f[5] = Fixed("payload", e.data)
        /\ f[6] = Fixed("seal", [signer |-> e.signer, over |-> e])
        /\ e.mode = "Recipient" => DOMAIN f = 1..6
        /\ e.mode = "ScopeBased" => DOMAIN f = 1..7 /\ f[7] = Fixed("mode", e.mode)
    BY ProtoFields
  <1> HIDE DEF f
  <1>2. e.mode \in {"Recipient", "ScopeBased"}
    BY DEF Envelope, AccessMode
  <1>3. 1..6 \subseteq DOMAIN f
    BY <1>1, <1>2
  <1>4. HasAll(f, 1, <<"version", "algorithm", "scope", "entries", "payload", "seal">>)
    BY <1>1, <1>3 DEF HasAll, Has, Aligned, Fixed
  <1>5. \A i \in DOMAIN f : f[i].kind # "cut"
    <2>1. \A i \in DOMAIN f : i \in {1, 2, 3, 4, 5, 6} \/ (i = 7 /\ e.mode = "ScopeBased")
      BY <1>1, <1>2
    <2> QED
      BY <1>1, <2>1 DEF Fixed
  <1>6. (IF Has(f, 7, "mode") THEN f[7].value ELSE "Recipient") = e.mode
    BY <1>1, <1>2 DEF Has, Fixed
  <1> QED
    BY <1>1, <1>4, <1>5, <1>6 DEF EnvelopeFromProto, Signed, Fixed, Envelope, f

-------------------------------------------------------------------------------
(* Sections in files *)

\* The sections of documents.
Section == [name : Name \cup {Single}, envelope : WrittenEnvelope]

\* A field that was written in part.
IsCut(field) == field.kind = "cut"

\* Fields of which the first n are those of another list, and perhaps a cut.
Portion(g, f, n) ==
    \E m \in {n, n + 1} :
        /\ Len(g) = m /\ DOMAIN g = 1..m
        /\ \A i \in 1..n : g[i] = f[i]
        /\ m = n + 1 => IsCut(g[m])

\* One list of fields after another.
LEMMA Concatenated ==
    ASSUME NEW S, NEW s \in Seq(S), NEW t \in Seq(S)
    PROVE  /\ s \o t \in Seq(S)
           /\ Len(s \o t) = Len(s) + Len(t) /\ DOMAIN (s \o t) = 1..(Len(s) + Len(t))
           /\ \A i \in 1..Len(s) : (s \o t)[i] = s[i]
           /\ \A i \in 1..Len(t) : (s \o t)[Len(s) + i] = t[i]
  <1>1. Len(s) \in Nat /\ Len(t) \in Nat
    OBVIOUS
  <1>2. /\ s \o t \in Seq(S)
        /\ Len(s \o t) = Len(s) + Len(t)
        /\ \A i \in 1..(Len(s) + Len(t)) :
             (s \o t)[i] = IF i <= Len(s) THEN s[i] ELSE t[i - Len(s)]
    BY ConcatProperties
  <1>3. \A i \in 1..Len(s) : (s \o t)[i] = s[i]
    BY <1>1, <1>2
  <1>4. ASSUME NEW i \in 1..Len(t)
        PROVE  (s \o t)[Len(s) + i] = t[i]
    <2>1. Len(s) + i \in 1..(Len(s) + Len(t)) /\ ~(Len(s) + i <= Len(s)) /\ Len(s) + i - Len(s) = i
      BY <1>1
    <2> QED
      BY <1>2, <2>1
  <1> QED
    BY <1>2, <1>3, <1>4, LenProperties

\* What is left of a file that was cut.
LEMMA CutPortion ==
    ASSUME NEW S, NEW f \in Seq(S), NEW n \in 0..Len(f),
           NEW rest \in {<<>>, <<Fixed("cut", 0)>>}
    PROVE  Portion(SubSeq(f, 1, n) \o rest, f, n)
  <1> DEFINE s == SubSeq(f, 1, n)
             T == S \cup {Fixed("cut", 0)}
  <1>1. s \in Seq(T) /\ Len(s) = n /\ \A i \in 1..n : s[i] = f[i]
    OBVIOUS
  <1>2. /\ rest \in Seq(T) /\ Len(rest) \in {0, 1}
        /\ Len(rest) = 1 => IsCut(rest[1])
    <2>1. CASE rest = <<>>
      BY <2>1
    <2>2. CASE rest = <<Fixed("cut", 0)>>
      <3>1. IsCut(Fixed("cut", 0))
        BY DEF IsCut, Fixed
      <3>2. rest \in Seq(T) /\ Len(rest) = 1 /\ rest[1] = Fixed("cut", 0)
        BY <2>2
      <3> QED
        BY <3>1, <3>2
    <2> QED
      BY <2>1, <2>2
  <1> HIDE DEF s, T
  <1>4. /\ Len(s \o rest) = n + Len(rest) /\ DOMAIN (s \o rest) = 1..(n + Len(rest))
        /\ \A i \in 1..n : (s \o rest)[i] = s[i]
        /\ \A i \in 1..Len(rest) : (s \o rest)[n + i] = rest[i]
    <2>1. /\ Len(s \o rest) = Len(s) + Len(rest)
          /\ DOMAIN (s \o rest) = 1..(Len(s) + Len(rest))
          /\ \A i \in 1..Len(s) : (s \o rest)[i] = s[i]
          /\ \A i \in 1..Len(rest) : (s \o rest)[Len(s) + i] = rest[i]
      <3>1. s \in Seq(T) /\ rest \in Seq(T)
        BY <1>1, <1>2
      <3> QED
        BY <3>1, Concatenated
    <2> QED
      BY <1>1, <2>1
  <1>5. n \in Nat
    OBVIOUS
  <1> HIDE DEF T
  <1>6. CASE Len(rest) = 0
    BY <1>1, <1>4, <1>5, <1>6 DEF Portion, s
  <1>7. CASE Len(rest) = 1
    <2>1. (s \o rest)[n + 1] = rest[1] /\ IsCut(rest[1])
      BY <1>2, <1>4, <1>7
    <2>2. Len(s \o rest) = n + 1 /\ DOMAIN (s \o rest) = 1..(n + 1)
      BY <1>4, <1>7
    <2> QED
      BY <1>1, <1>4, <2>1, <2>2 DEF Portion, s
  <1> QED
    BY <1>2, <1>6, <1>7

\* A whole list of fields is a portion of itself.
LEMMA WholePortion ==
    ASSUME NEW S, NEW f \in Seq(S)
    PROVE  Portion(f, f, Len(f))
  BY DEF Portion

\* The fields of the binary form of sections.
LEMMA BinaryFields ==
    ASSUME NEW sections \in Seq(Section)
    PROVE  LET f == SectionsToBytes(sections)
               n == Len(sections)
           IN  /\ Len(f) = 3 + n /\ n \in Nat
               /\ f[1] = Fixed("ROKS", 1) /\ f[2] = Fixed("version", 1)
               /\ f[3] = Prefixed("count", n, n)
               /\ \A i \in 1..n :
                      f[3 + i] = Prefixed("section",
                                     [name |-> sections[i].name,
                                      envelope |-> EnvelopeToBytes(sections[i].envelope)],
                                     NameSize(sections[i].name))
               /\ \E S : f \in Seq(S)
  <1> DEFINE n == Len(sections)
             head == << Fixed("ROKS", 1), Fixed("version", 1), Prefixed("count", n, n) >>
             field(i) == Prefixed("section",
                             [name |-> sections[i].name,
                              envelope |-> EnvelopeToBytes(sections[i].envelope)],
                             NameSize(sections[i].name))
             list == [i \in DOMAIN sections |-> field(i)]
             S == {head[i] : i \in 1..3}
                      \cup {field(i) : i \in 1..n}
  <1>1. n \in Nat /\ DOMAIN sections = 1..n
    OBVIOUS
  <1>2. SectionsToBytes(sections) = head \o list
    BY DEF SectionsToBytes
  <1>3. /\ head \in Seq(S) /\ Len(head) = 3 /\ head[1] = Fixed("ROKS", 1)
        /\ head[2] = Fixed("version", 1) /\ head[3] = Prefixed("count", n, n)
    OBVIOUS
  <1> HIDE DEF head, n
  <1>4. list \in Seq(S) /\ Len(list) = n /\ \A i \in 1..n : list[i] = field(i)
    BY <1>1
  <1> HIDE DEF list, S, field
  <1>5. /\ head \o list \in Seq(S) /\ Len(head \o list) = 3 + n
        /\ \A i \in 1..3 : (head \o list)[i] = head[i]
        /\ \A i \in 1..n : (head \o list)[3 + i] = list[i]
    <2>1. /\ head \o list \in Seq(S) /\ Len(head \o list) = Len(head) + Len(list)
          /\ \A i \in 1..Len(head) : (head \o list)[i] = head[i]
          /\ \A i \in 1..Len(list) : (head \o list)[Len(head) + i] = list[i]
      <3>1. head \in Seq(S) /\ list \in Seq(S)
        BY <1>3, <1>4
      <3> QED
        BY <3>1, Concatenated
    <2> QED
      BY <1>3, <1>4, <2>1
  <1>6. /\ (head \o list)[1] = head[1] /\ (head \o list)[2] = head[2]
        /\ (head \o list)[3] = head[3]
    <2>1. 1 \in 1..3 /\ 2 \in 1..3 /\ 3 \in 1..3
      OBVIOUS
    <2> QED
      BY <1>5, <2>1
  <1>7. \A i \in 1..n : (head \o list)[3 + i] = field(i)
    BY <1>4, <1>5
  <1>8. \E T : head \o list \in Seq(S)
    BY <1>5
  <1> QED
    BY <1>1, <1>2, <1>3, <1>5, <1>6, <1>7, <1>8 DEF field, n

\* The fields of the protobuf form of sections.
LEMMA ProtoSectionFields ==
    ASSUME NEW sections \in Seq(Section)
    PROVE  LET f == SectionsToProto(sections)
               n == Len(sections)
           IN  /\ Len(f) = 1 + n /\ n \in Nat
               /\ f[1] = Fixed("version", 1)
               /\ \A i \in 1..n :
                      f[1 + i] = Fixed("section",
                                     [name |-> sections[i].name,
                                      envelope |-> EnvelopeToProto(sections[i].envelope)])
               /\ \E S : f \in Seq(S)
  <1> DEFINE n == Len(sections)
             head == << Fixed("version", 1) >>
             field(i) == Fixed("section", [name |-> sections[i].name,
                                           envelope |-> EnvelopeToProto(sections[i].envelope)])
             list == [i \in DOMAIN sections |-> field(i)]
             S == {Fixed("version", 1)}
                      \cup {field(i) : i \in 1..n}
  <1>1. n \in Nat /\ DOMAIN sections = 1..n
    OBVIOUS
  <1>2. SectionsToProto(sections) = head \o list
    BY DEF SectionsToProto
  <1>3. head \in Seq(S) /\ Len(head) = 1 /\ head[1] = Fixed("version", 1)
    OBVIOUS
  <1> HIDE DEF head, n
  <1>4. list \in Seq(S) /\ Len(list) = n /\ \A i \in 1..n : list[i] = field(i)
    BY <1>1
  <1> HIDE DEF list, S, field
  <1>5. /\ head \o list \in Seq(S) /\ Len(head \o list) = 1 + n
        /\ \A i \in 1..1 : (head \o list)[i] = head[i]
        /\ \A i \in 1..n : (head \o list)[1 + i] = list[i]
    <2>1. /\ head \o list \in Seq(S) /\ Len(head \o list) = Len(head) + Len(list)
          /\ \A i \in 1..Len(head) : (head \o list)[i] = head[i]
          /\ \A i \in 1..Len(list) : (head \o list)[Len(head) + i] = list[i]
      <3>1. head \in Seq(S) /\ list \in Seq(S)
        BY <1>3, <1>4
      <3> QED
        BY <3>1, Concatenated
    <2> QED
      BY <1>3, <1>4, <2>1
  <1>6. (head \o list)[1] = head[1]
    <2>1. 1 \in 1..1
      OBVIOUS
    <2> QED
      BY <1>5, <2>1
  <1>7. \A i \in 1..n : (head \o list)[1 + i] = field(i)
    BY <1>4, <1>5
  <1>8. \E T : head \o list \in Seq(S)
    BY <1>5
  <1> QED
    BY <1>1, <1>2, <1>3, <1>5, <1>6, <1>7, <1>8 DEF field, n

\* The sections that are read where all goes well up to the m-th.
FirstRead(sections, m) ==
    [i \in 1..m |-> [name |-> sections[i].name, envelope |-> Signed(sections[i].envelope)]]

\* What a portion is, for the prover.
LEMMA PortionIs ==
    ASSUME NEW g, NEW f, NEW n \in Nat, Portion(g, f, n)
    PROVE  \E m \in Nat :
               /\ m = n \/ m = n + 1
               /\ Len(g) = m /\ DOMAIN g = 1..m
               /\ \A i \in 1..n : i \in DOMAIN g /\ g[i] = f[i]
               /\ m = n + 1 => IsCut(g[m])
               /\ \A i \in DOMAIN g : IsCut(g[i]) \/ (i \in 1..n /\ g[i] = f[i])
  <1>1. PICK m \in {n, n + 1} :
            /\ Len(g) = m /\ DOMAIN g = 1..m
            /\ \A i \in 1..n : g[i] = f[i]
            /\ m = n + 1 => IsCut(g[m])
    BY DEF Portion
  <1>2. m \in Nat /\ (m = n \/ m = n + 1)
    OBVIOUS
  <1>3. \A i \in 1..n : i \in 1..m
    BY <1>2
  <1>4. \A i \in 1..m : i \in 1..n \/ (i = n + 1 /\ m = n + 1)
    BY <1>2
  <1> QED
    BY <1>1, <1>2, <1>3, <1>4

\* The envelopes of sections are envelopes.
LEMMA SectionType ==
    ASSUME NEW sections \in Seq(Section), NEW i \in 1..Len(sections)
    PROVE  /\ sections[i].envelope \in WrittenEnvelope /\ sections[i].envelope \in Envelope
           /\ sections[i].name \in Name \cup {Single}
  <1>1. sections[i] \in Section
    OBVIOUS
  <1> QED
    BY <1>1 DEF Section, WrittenEnvelope

\* What is read of a binary file are the sections that its count announces.
LEMMA BinarySectionsRead ==
    ASSUME NEW sections \in Seq(Section), NEW g, NEW n \in 0..(3 + Len(sections)),
           Portion(g, SectionsToBytes(sections), n),
           SectionsFromBytes(g) # Unreadable
    PROVE  LET m == Len(sections) % Width
           IN  /\ m \in 0..Len(sections) /\ m + 3 <= n
               /\ SectionsFromBytes(g) = FirstRead(sections, m)
  <1> DEFINE f == SectionsToBytes(sections)
             m == Len(sections) % Width
             read(i) == EnvelopeFromBytes(g[3 + i].value.envelope)
  <1>1. /\ Len(sections) \in Nat
        /\ f[3] = Prefixed("count", Len(sections), Len(sections))
        /\ \A i \in 1..Len(sections) :
               f[3 + i] = Prefixed("section",
                              [name |-> sections[i].name,
                               envelope |-> EnvelopeToBytes(sections[i].envelope)],
                              NameSize(sections[i].name))
    BY BinaryFields
  <1>2. /\ Has(g, 3, "count") /\ SectionsFromBytes(g) = ReadSections(g, g[3].announced)
    BY DEF SectionsFromBytes
  <1>3. n \in Nat
    BY <1>1
  <1>4. \A i \in DOMAIN g : IsCut(g[i]) \/ (i \in 1..n /\ g[i] = f[i])
    BY <1>3, PortionIs
  <1> HIDE DEF f
  <1>5. 3 <= n /\ g[3] = f[3]
    BY <1>2, <1>3, <1>4 DEF Has, IsCut
  <1>6. g[3].announced = m
    BY <1>1, <1>5 DEF Prefixed
  <1>7. m \in 0..Len(sections)
    BY <1>1, WireAssumption
  <1> HIDE DEF m
  <1>8. /\ \A i \in 1..m : HasAll(g, 3 + i, <<"section">>) /\ read(i) # Unreadable
        /\ SectionsFromBytes(g) =
               [i \in 1..m |-> [name |-> g[3 + i].value.name, envelope |-> read(i)]]
    BY <1>2, <1>6 DEF ReadSections
  <1>9. ASSUME NEW i \in 1..m
        PROVE  /\ 3 + i <= n
               /\ g[3 + i].value.name = sections[i].name
               /\ read(i) = Signed(sections[i].envelope)
    <2>1. i \in Nat /\ 3 + i \in Nat /\ i \in 1..Len(sections)
      BY <1>1, <1>7
    <2>2. 3 + i \in DOMAIN g /\ g[3 + i].kind = "section"
      <3>1. HasAll(g, 3 + i, <<"section">>)
        BY <1>8
      <3>2. Has(g, 3 + i + 1 - 1, <<"section">>[1])
        BY <3>1 DEF HasAll
      <3>3. 3 + i + 1 - 1 = 3 + i
        BY <2>1
      <3> QED
        BY <3>2, <3>3 DEF Has
    <2>3. 3 + i \in 1..n /\ g[3 + i] = f[3 + i]
      BY <2>2, <1>4 DEF IsCut
    <2>4. 3 + i <= n
      BY <2>1, <2>3, <1>3
    <2>5. g[3 + i].value = [name |-> sections[i].name,
                            envelope |-> EnvelopeToBytes(sections[i].envelope)]
      <3> DEFINE value == [name |-> sections[i].name,
                           envelope |-> EnvelopeToBytes(sections[i].envelope)]
      <3>1. g[3 + i] = Prefixed("section", value, NameSize(sections[i].name))
        BY <1>1, <2>1, <2>3
      <3> HIDE DEF value
      <3>2. Prefixed("section", value, NameSize(sections[i].name)).value = value
        BY DEF Prefixed
      <3>3. g[3 + i].value = value
        BY <3>1, <3>2
      <3> QED
        BY <3>3 DEF value
    <2>6. read(i) = EnvelopeFromBytes(EnvelopeToBytes(sections[i].envelope))
      BY <2>5
    <2> QED
      BY <1>8, <2>1, <2>4, <2>5, <2>6, SectionType, BinaryEnvelope
  <1> HIDE DEF read
  <1>10. SectionsFromBytes(g) = FirstRead(sections, m)
    BY <1>8, <1>9 DEF FirstRead
  <1>11. m + 3 <= n
    BY <1>5, <1>7, <1>9
  <1> QED
    BY <1>7, <1>10, <1>11 DEF m

\* What is read of a protobuf file are the sections before the cut.
LEMMA ProtoSectionsRead ==
    ASSUME NEW sections \in Seq(Section), NEW g, NEW n \in 0..(1 + Len(sections)),
           Portion(g, SectionsToProto(sections), n),
           SectionsFromProto(g) # Unreadable
    PROVE  \E m \in 0..Len(sections) :
               SectionsFromProto(g) = FirstRead(sections, m) /\ (n > 0 => m = n - 1)
  <1> DEFINE f == SectionsToProto(sections)
             first == IF Has(g, 1, "version") THEN 1 ELSE 0
             read(i) == EnvelopeFromProto(g[first + i].value.envelope)
             count == Len(g) - first
  <1>1. /\ Len(sections) \in Nat
        /\ f[1] = Fixed("version", 1)
        /\ \A i \in 1..Len(sections) :
               f[1 + i] = Fixed("section",
                              [name |-> sections[i].name,
                               envelope |-> EnvelopeToProto(sections[i].envelope)])
    BY ProtoSectionFields
  <1>0. n \in Nat
    BY <1>1
  <1>2. PICK size \in Nat :
            /\ size = n \/ size = n + 1
            /\ Len(g) = size /\ DOMAIN g = 1..size
            /\ \A i \in 1..n : i \in DOMAIN g /\ g[i] = f[i]
            /\ size = n + 1 => IsCut(g[size])
    BY <1>0, PortionIs
  <1>3. /\ \A i \in 1..count : g[first + i].kind = "section"
        /\ SectionsFromProto(g) =
               [i \in 1..count |-> [name |-> g[first + i].value.name, envelope |-> read(i)]]
    BY DEF SectionsFromProto
  <1> HIDE DEF f
  <1>4. CASE n = 0
    <2>1. size = 1 => first = 0 /\ 1 \in 1..count /\ IsCut(g[first + 1])
      <3>1. size = 1 => 1 \in DOMAIN g /\ IsCut(g[1])
        BY <1>2, <1>4
      <3>2. size = 1 => first = 0
        BY <3>1 DEF Has, IsCut
      <3> QED
        BY <1>2, <3>1, <3>2
    <2>2. size # 1
      BY <1>3, <2>1 DEF IsCut
    <2>3. size = 0 /\ first = 0
      BY <1>2, <1>4, <2>2 DEF Has
    <2>4. 1..count = {} /\ 1..0 = {}
      BY <1>2, <2>3
    <2>5. SectionsFromProto(g) = FirstRead(sections, 0)
      BY <1>3, <2>4 DEF FirstRead
    <2> QED
      BY <1>1, <1>4, <2>5
  <1>5. CASE n > 0
    <2>1. g[1] = f[1] /\ 1 \in DOMAIN g
      <3>1. 1 \in 1..n
        BY <1>0, <1>5
      <3> QED
        BY <1>2, <3>1
    <2>2. first = 1
      BY <1>1, <2>1 DEF Has, Fixed
    <2>3. size # n + 1
      <3>1. size = n + 1 => n \in 1..count /\ IsCut(g[first + n])
        <4>1. size = n + 1 => n \in 1..count /\ first + n = size
          BY <1>0, <1>2, <1>5, <2>2
        <4> QED
          BY <1>2, <4>1
      <3> QED
        BY <1>3, <3>1 DEF IsCut
    <2>4. count = n - 1 /\ n - 1 \in 0..Len(sections)
      BY <1>0, <1>1, <1>2, <1>5, <2>2, <2>3
    <2>5. ASSUME NEW i \in 1..(n - 1)
          PROVE  /\ g[1 + i].value.name = sections[i].name
                 /\ EnvelopeFromProto(g[1 + i].value.envelope) = Signed(sections[i].envelope)
      <3>1. 1 + i \in 1..n /\ i \in 1..Len(sections)
        BY <1>1, <1>5, <2>4
      <3>2. g[1 + i].value = [name |-> sections[i].name,
                              envelope |-> EnvelopeToProto(sections[i].envelope)]
        <4> DEFINE value == [name |-> sections[i].name,
                             envelope |-> EnvelopeToProto(sections[i].envelope)]
        <4>1. g[1 + i] = Fixed("section", value)
          BY <1>1, <1>2, <3>1
        <4> HIDE DEF value
        <4>2. Fixed("section", value).value = value
          BY DEF Fixed
        <4>3. g[1 + i].value = value
          BY <4>1, <4>2
        <4> QED
          BY <4>3 DEF value
      <3> QED
        BY <3>1, <3>2, SectionType, ProtoEnvelope
    <2>6. SectionsFromProto(g) = FirstRead(sections, n - 1)
      BY <1>3, <2>2, <2>4, <2>5 DEF FirstRead
    <2> QED
      BY <2>4, <2>6
  <1> QED
    BY <1>0, <1>4, <1>5

\* An envelope is written before anything that a list of sections starts with.
LEMMA EnvelopeReadAsSections ==
    ASSUME NEW e \in Envelope, NEW g, NEW n \in Nat
    PROVE  /\ Portion(g, EnvelopeToBytes(e), n) => SectionsFromBytes(g) = Unreadable
           /\ Portion(g, EnvelopeToProto(e), n) => SectionsFromProto(g) \in {Unreadable, <<>>}
           /\ SectionsFromProto(EnvelopeToProto(e)) = Unreadable
           /\ ~Has(EnvelopeToBytes(e), 1, "ROKS")
  <1> DEFINE f == EnvelopeToProto(e)
  <1>1. /\ EnvelopeToBytes(e)[1] = Fixed("ROK", 1)
        /\ f[1] = Fixed("version", CURRENT_VERSION) /\ f[2] = Fixed("algorithm", e.algorithm)
        /\ Len(f) \in {6, 7} /\ DOMAIN f = 1..Len(f)
    BY ProtoFields DEF EnvelopeToBytes, Envelope, AccessMode
  <1> HIDE DEF f
  <1>2. ASSUME Portion(g, EnvelopeToBytes(e), n)
        PROVE  ~Has(g, 1, "ROKS")
    <2>1. 1 \in DOMAIN g => g[1].kind \in {"cut", "ROK"}
      BY <1>1, <1>2, PortionIs DEF IsCut, Fixed
    <2> QED
      BY <2>1 DEF Has
  <1>3. \A h : ~Has(h, 1, "ROKS") => SectionsFromBytes(h) = Unreadable
    <2>1. \A h : HasAll(h, 1, <<"ROKS", "version">>) => Has(h, 1, "ROKS")
      BY DEF HasAll
    <2> QED
      BY <2>1 DEF SectionsFromBytes
  <1>4. ASSUME NEW h, Len(h) \in Nat, Len(h) >= 2, Has(h, 1, "version"),
               h[2].kind \in {"algorithm", "cut"}
        PROVE  SectionsFromProto(h) = Unreadable
    <2>1. 1 \in 1..(Len(h) - 1) /\ h[1 + 1].kind # "section"
      BY <1>4
    <2> QED
      BY <1>4, <2>1 DEF SectionsFromProto
  <1>5. ASSUME Portion(g, f, n)
        PROVE  SectionsFromProto(g) \in {Unreadable, <<>>}
    <2>1. PICK size \in Nat :
              /\ size = n \/ size = n + 1
              /\ Len(g) = size /\ DOMAIN g = 1..size
              /\ \A i \in DOMAIN g : IsCut(g[i]) \/ (i \in 1..n /\ g[i] = f[i])
              /\ \A i \in 1..n : i \in DOMAIN g /\ g[i] = f[i]
      BY <1>5, PortionIs
    <2>2. CASE size = 0
      <3>1. ~Has(g, 1, "version") /\ 1..(Len(g) - 0) = {}
        BY <2>1, <2>2 DEF Has
      <3> QED
        BY <3>1 DEF SectionsFromProto
    <2>3. CASE size = 1
      <3>1. CASE Has(g, 1, "version")
        <4> DEFINE first == IF Has(g, 1, "version") THEN 1 ELSE 0
                   read(i) == EnvelopeFromProto(g[first + i].value.envelope)
                   list == [i \in 1..(Len(g) - first) |->
                                [name |-> g[first + i].value.name, envelope |-> read(i)]]
        <4>1. 1..(Len(g) - first) = {}
          BY <2>1, <2>3, <3>1
        <4>2. SectionsFromProto(g) = list
          BY <4>1 DEF SectionsFromProto
        <4> HIDE DEF first, read
        <4>3. list = <<>>
          BY <4>1
        <4> QED
          BY <4>2, <4>3
      <3>2. CASE ~Has(g, 1, "version")
        <4>1. 1 \in DOMAIN g /\ f[1].kind = "version"
          BY <1>1, <2>1, <2>3 DEF Fixed
        <4>2. g[1] # f[1]
          BY <3>2, <4>1 DEF Has
        <4>3. IsCut(g[1])
          BY <2>1, <4>1, <4>2
        <4>4. 1 \in 1..(Len(g) - 0) /\ g[0 + 1].kind # "section"
          BY <2>1, <2>3, <4>3 DEF IsCut
        <4> QED
          BY <3>2, <4>4 DEF SectionsFromProto
      <3> QED
        BY <3>1, <3>2
    <2>4. CASE size >= 2
      <3>1. 1 \in 1..n /\ 1 \in DOMAIN g /\ 2 \in DOMAIN g
        BY <2>1, <2>4
      <3>2. Has(g, 1, "version")
        <4>1. g[1] = Fixed("version", CURRENT_VERSION)
          BY <1>1, <2>1, <3>1
        <4> QED
          BY <3>1, <4>1 DEF Has, Fixed
      <3>3. g[2].kind \in {"algorithm", "cut"}
        <4>1. IsCut(g[2]) \/ g[2] = Fixed("algorithm", e.algorithm)
          BY <1>1, <2>1, <3>1
        <4> QED
          BY <4>1 DEF Fixed, IsCut
      <3> QED
        BY <1>4, <2>1, <2>4, <3>2, <3>3
    <2> QED
      BY <2>1, <2>2, <2>3, <2>4
  <1>6. SectionsFromProto(f) = Unreadable
    <2>1. Has(f, 1, "version") /\ f[2].kind = "algorithm" /\ Len(f) \in Nat /\ Len(f) >= 2
      BY <1>1 DEF Has, Fixed
    <2> QED
      BY <1>4, <2>1
  <1>7. ~Has(EnvelopeToBytes(e), 1, "ROKS")
    BY <1>1 DEF Has, Fixed
  <1> QED
    BY <1>2, <1>3, <1>5, <1>6, <1>7 DEF f

\* An envelope that was cut in binary is refused.
LEMMA CutBinaryEnvelope ==
    ASSUME NEW e \in Envelope, NEW n \in 0..7, NEW g, Portion(g, EnvelopeToBytes(e), n)
    PROVE  EnvelopeFromBytes(g) = Unreadable
  <1> DEFINE f == EnvelopeToBytes(e)
  <1>1. f[2] = Fixed("version", CURRENT_VERSION)
    BY DEF EnvelopeToBytes
  <1>2. \A i \in DOMAIN g : IsCut(g[i]) \/ (i \in 1..n /\ g[i] = f[i])
    BY PortionIs
  <1> HIDE DEF f
  <1>3. ASSUME Has(g, 2, "version")
        PROVE  g[2].value >= 2
    <2>1. g[2] = f[2]
      BY <1>2, <1>3 DEF Has, IsCut
    <2> QED
      BY <1>1, <2>1 DEF Fixed, CURRENT_VERSION
  <1>4. ~Has(g, 8, "seal")
    <2>1. Has(g, 8, "seal") => 8 \in 1..n
      BY <1>2 DEF Has, IsCut
    <2> QED
      BY <2>1
  <1>5. HasAll(g, 1, <<"ROK", "version", "algorithm">>) => Has(g, 2, "version")
    <2>1. HasAll(g, 1, <<"ROK", "version", "algorithm">>) =>
              Has(g, 1 + 2 - 1, <<"ROK", "version", "algorithm">>[2])
      BY DEF HasAll
    <2> QED
      BY <2>1
  <1>6. HasAll(g, 5, <<"scope", "entries", "payload", "seal">>) => Has(g, 8, "seal")
    <2>1. HasAll(g, 5, <<"scope", "entries", "payload", "seal">>) =>
              Has(g, 5 + 4 - 1, <<"scope", "entries", "payload", "seal">>[4])
      BY DEF HasAll
    <2> QED
      BY <2>1
  <1> DEFINE hasMode == Has(g, 2, "version") /\ g[2].value >= 2
             s == IF hasMode THEN 5 ELSE 4
  <1>7. ~(/\ HasAll(g, 1, <<"ROK", "version", "algorithm">>)
          /\ hasMode => Has(g, 4, "mode")
          /\ HasAll(g, s, <<"scope", "entries", "payload", "seal">>))
    BY <1>3, <1>4, <1>5, <1>6
  <1> QED
    BY <1>7, Zenon DEF EnvelopeFromBytes

\* An envelope that was cut in protobuf is refused, or it has lost its mode, which
\* was signed.
LEMMA CutProtoEnvelope ==
    ASSUME NEW e \in Envelope, NEW n \in Nat, n < Len(EnvelopeToProto(e)), NEW g,
           Portion(g, EnvelopeToProto(e), n), EnvelopeFromProto(g) # Unreadable
    PROVE  EnvelopeFromProto(g).over # EnvelopeFromProto(g).envelope
  <1> DEFINE f == EnvelopeToProto(e)
  <1>1. /\ f[6] = Fixed("seal", [signer |-> e.signer, over |-> e])
        /\ e.mode = "Recipient" => Len(f) = 6
        /\ e.mode = "ScopeBased" => Len(f) = 7
    BY ProtoFields
  <1>2. n < Len(f)
    OBVIOUS
  <1>3. PICK size \in Nat :
            /\ size = n \/ size = n + 1
            /\ DOMAIN g = 1..size
            /\ size = n + 1 => IsCut(g[size])
            /\ \A i \in DOMAIN g : IsCut(g[i]) \/ (i \in 1..n /\ g[i] = f[i])
    BY PortionIs
  <1> HIDE DEF f
  <1> DEFINE kinds == <<"version", "algorithm", "scope", "entries", "payload", "seal">>
             read == [envelope |->
                        [data |-> g[5].value, algorithm |-> g[2].value, scope |-> g[3].value,
                         mode |-> IF Has(g, 7, "mode") THEN g[7].value ELSE "Recipient",
                         signer |-> g[6].value.signer, entries |-> g[4].value],
                      over |-> g[6].value.over]
  <1>4. /\ HasAll(g, 1, kinds) /\ \A i \in DOMAIN g : ~IsCut(g[i])
        /\ EnvelopeFromProto(g) = read
    <2>1. EnvelopeFromProto(g) =
              IF HasAll(g, 1, kinds) /\ \A i \in DOMAIN g : g[i].kind # "cut"
              THEN read ELSE Unreadable
      BY Zenon DEF EnvelopeFromProto
    <2>2. \A i \in DOMAIN g : IsCut(g[i]) <=> g[i].kind = "cut"
      BY DEF IsCut
    <2> HIDE DEF read, kinds
    <2> QED
      BY <2>1, <2>2
  <1>5. Has(g, 6, "seal")
    <2>1. HasAll(g, 1, kinds) => Has(g, 1 + 6 - 1, kinds[6])
      BY DEF HasAll
    <2> QED
      BY <1>4, <2>1
  <1>6. 6 \in DOMAIN g /\ 6 \in 1..n /\ g[6] = f[6]
    BY <1>3, <1>4, <1>5 DEF Has
  <1>7. e.mode = "ScopeBased" /\ n = 6
    <2>1. e.mode \in AccessMode
      BY DEF Envelope
    <2>2. e.mode = "ScopeBased" \/ e.mode = "Recipient"
      BY <2>1 DEF AccessMode
    <2>3. n \in Nat /\ 6 <= n
      BY <1>6
    <2>4. n < 7 /\ e.mode # "Recipient"
      <3>1. ASSUME NEW length, n < length, length = 6
            PROVE  FALSE
        BY <2>3, <3>1
      <3> DEFINE length == Len(f)
      <3>2. length = 6 \/ length = 7
        BY <1>1, <2>2
      <3>3. n < length
        BY <1>2
      <3>4. e.mode = "Recipient" => length = 6
        BY <1>1
      <3> HIDE DEF length
      <3> QED
        BY <3>1, <3>2, <3>3, <3>4
    <2> QED
      BY <2>2, <2>3, <2>4
  <1>8. size = 6
    <2>1. size = 7 => 7 \in DOMAIN g /\ IsCut(g[7])
      BY <1>3, <1>7
    <2> QED
      BY <1>3, <1>4, <1>7, <2>1
  <1>9. ~Has(g, 7, "mode")
    BY <1>3, <1>8 DEF Has
  <1>10. read.envelope.mode = "Recipient"
    BY <1>9
  <1>11. read.over = e
    <2>1. g[6] = Fixed("seal", [signer |-> e.signer, over |-> e])
      BY <1>1, <1>6
    <2>2. g[6].value.over = e
      BY <2>1 DEF Fixed
    <2> QED
      BY <2>2
  <1> HIDE DEF read
  <1> QED
    BY <1>4, <1>7, <1>10, <1>11

-------------------------------------------------------------------------------
(* Files *)

\* Sections with names of their own.
Named(sections) ==
    /\ sections \in Seq(Section) /\ sections # <<>>
    /\ \A i \in DOMAIN sections : sections[i].name \in Name
    /\ \A i, j \in DOMAIN sections : sections[i].name = sections[j].name => i = j

\* A document of one envelope.
Alone(sections) ==
    \E e \in WrittenEnvelope : sections = <<[name |-> Single, envelope |-> e]>>

\* A file that was written, up to its end or in part.
GoodFile(f) ==
    /\ f.format \in Format /\ f.whole \in BOOLEAN
    /\ \/ f.kind = "Sections" /\ Named(f.sections)
       \/ f.kind = "Envelope" /\ Alone(f.sections)
    /\ LET fields == Encoded(f.format, f.kind, f.sections)
       IN  IF f.whole THEN f.fields = fields
           ELSE \E n \in Nat : n < Len(fields) /\ Portion(f.fields, fields, n)

\* The fields of a document are a sequence.
LEMMA EncodedIsSeq ==
    ASSUME NEW format \in Format, NEW kind \in {"Sections", "Envelope"}, NEW sections,
           IF kind = "Sections" THEN Named(sections) ELSE Alone(sections)
    PROVE  \E S : Encoded(format, kind, sections) \in Seq(S)
  <1>1. CASE kind = "Sections"
    BY <1>1, BinaryFields, ProtoSectionFields DEF Encoded, Named
  <1>2. CASE kind = "Envelope"
    <2>1. PICK e \in WrittenEnvelope : sections = <<[name |-> Single, envelope |-> e]>>
      BY <1>2 DEF Alone
    <2>2. sections[1].envelope = e /\ e \in Envelope
      BY <2>1 DEF WrittenEnvelope
    <2>3. \E S : EnvelopeToBytes(e) \in Seq(S)
      <3>1. EnvelopeToBytes(e) \in Seq({EnvelopeToBytes(e)[i] : i \in 1..8})
        BY DEF EnvelopeToBytes
      <3> QED
        BY <3>1
    <2>4. \E S : EnvelopeToProto(e) \in Seq(S)
      BY <2>2, ProtoFields
    <2> QED
      BY <1>2, <2>2, <2>3, <2>4 DEF Encoded
  <1> QED
    BY <1>1, <1>2

\* What fs::write leaves.
LEMMA FileWritten ==
    ASSUME NEW format \in Format, NEW kind \in {"Sections", "Envelope"}, NEW sections,
           IF kind = "Sections" THEN Named(sections) ELSE Alone(sections),
           WriteFile(format, kind, sections)
    PROVE  GoodFile(file')
  <1> DEFINE fields == Encoded(format, kind, sections)
  <1>1. PICK S : fields \in Seq(S)
    BY EncodedIsSeq
  <1> HIDE DEF fields
  <1>2. CASE file' = [format |-> format, kind |-> kind, sections |-> sections,
                      fields |-> fields, whole |-> TRUE]
    BY <1>2 DEF GoodFile, fields
  <1>3. ASSUME NEW n \in 0..(Len(fields) - 1), NEW rest \in {<<>>, <<Fixed("cut", 0)>>},
               file' = [format |-> format, kind |-> kind, sections |-> sections,
                        fields |-> SubSeq(fields, 1, n) \o rest, whole |-> FALSE]
        PROVE  GoodFile(file')
    <2> DEFINE part == SubSeq(fields, 1, n) \o rest
    <2>1. n \in Nat /\ n < Len(fields) /\ n \in 0..Len(fields)
      BY <1>1
    <2>2. Portion(part, fields, n)
      BY <1>1, <2>1, CutPortion
    <2> HIDE DEF part
    <2>3. file' = [format |-> format, kind |-> kind, sections |-> sections,
                   fields |-> part, whole |-> FALSE]
      BY <1>3 DEF part
    <2> QED
      BY <2>1, <2>2, <2>3 DEF GoodFile, fields
  <1> QED
    BY <1>2, <1>3 DEF WriteFile, fields

\* What is read of a file with sections are the first of them; of a file that was
\* cut, only in protobuf, or where the count is cut too.
LEMMA SectionsFileRead ==
    ASSUME NEW f, GoodFile(f), f.kind = "Sections", ReadSectioned(f) # Unreadable
    PROVE  \E m \in 0..Len(f.sections) :
               /\ ReadSectioned(f) = FirstRead(f.sections, m)
               /\ ~f.whole => f.format = "Proto" \/ Width <= Len(f.sections)
  <1> DEFINE sections == f.sections
             length == Len(sections)
  <1>1. Named(sections) /\ sections \in Seq(Section) /\ length \in Nat
    BY DEF GoodFile, Named
  <1>2. CASE f.format = "Binary"
    <2> DEFINE fields == SectionsToBytes(sections)
    <2>1. Len(fields) = 3 + length /\ \E S : fields \in Seq(S)
      BY <1>1, BinaryFields
    <2>2. IF f.whole THEN f.fields = fields
          ELSE \E n \in Nat : n < Len(fields) /\ Portion(f.fields, fields, n)
      BY <1>2 DEF GoodFile, Encoded
    <2>3. f.whole => Portion(f.fields, fields, 3 + length)
      BY <2>1, <2>2, WholePortion
    <2> HIDE DEF fields
    <2>4. PICK n \in Nat : /\ Portion(f.fields, fields, n) /\ n <= 3 + length
                           /\ ~f.whole => n < 3 + length
      BY <1>1, <2>1, <2>2, <2>3
    <2> DEFINE m == length % Width
    <2>5. n \in 0..(3 + length)
      BY <1>1, <2>4
    <2>6. SectionsFromBytes(f.fields) # Unreadable /\ ReadSectioned(f) = SectionsFromBytes(f.fields)
      BY <1>2 DEF ReadSectioned
    <2>7. /\ m \in 0..length /\ m + 3 <= n
          /\ ReadSectioned(f) = FirstRead(sections, m)
      BY <1>1, <2>4, <2>5, <2>6, BinarySectionsRead DEF fields
    <2>8. length < Width => m = length
      <3>1. Width \in Nat \ {0}
        BY WireAssumption
      <3>2. \A l \in Nat, w \in Nat \ {0} : l < w => l % w = l
        OBVIOUS
      <3> HIDE DEF length
      <3> QED
        BY <1>1, <3>1, <3>2
    <2> HIDE DEF m
    <2>9. ~f.whole => Width <= length
      <3>1. Width \in Nat
        BY WireAssumption
      <3> HIDE DEF length
      <3> QED
        BY <3>1, <1>1, <2>4, <2>7, <2>8
    <2> QED
      BY <2>7, <2>9
  <1>3. CASE f.format = "Proto"
    <2> DEFINE fields == SectionsToProto(sections)
    <2>1. Len(fields) = 1 + length /\ \E S : fields \in Seq(S)
      BY <1>1, ProtoSectionFields
    <2>2. IF f.whole THEN f.fields = fields
          ELSE \E n \in Nat : n < Len(fields) /\ Portion(f.fields, fields, n)
      BY <1>3 DEF GoodFile, Encoded
    <2>3. f.whole => Portion(f.fields, fields, 1 + length)
      BY <2>1, <2>2, WholePortion
    <2> HIDE DEF fields
    <2>4. PICK n \in Nat : Portion(f.fields, fields, n) /\ n <= 1 + length
      BY <1>1, <2>1, <2>2, <2>3
    <2>5. n \in 0..(1 + length)
      BY <1>1, <2>4
    <2>6. SectionsFromProto(f.fields) # Unreadable /\ ReadSectioned(f) = SectionsFromProto(f.fields)
      BY <1>3 DEF ReadSectioned
    <2> QED
      BY <1>1, <1>3, <2>4, <2>5, <2>6, ProtoSectionsRead DEF fields
  <1> QED
    BY <1>2, <1>3 DEF GoodFile, Format

\* What is read of a file with an envelope, as sections, is nothing; as an envelope,
\* it is the envelope, or it has no valid signature.
LEMMA EnvelopeFileRead ==
    ASSUME NEW f, GoodFile(f), f.kind = "Envelope"
    PROVE  \E e \in WrittenEnvelope :
               /\ f.sections = <<[name |-> Single, envelope |-> e]>>
               /\ ReadSectioned(f) \in {Unreadable, <<>>}
               /\ f.whole => ReadEnvelope(f) \in {Signed(e), Unreadable}
               /\ ~f.whole => \/ ReadEnvelope(f) = Unreadable
                              \/ ReadEnvelope(f).over # ReadEnvelope(f).envelope
  <1>1. PICK e \in WrittenEnvelope : f.sections = <<[name |-> Single, envelope |-> e]>>
    BY DEF GoodFile, Alone
  <1>2. e \in Envelope /\ f.sections[1].envelope = e
    BY <1>1 DEF WrittenEnvelope
  <1>3. CASE f.format = "Binary"
    <2> DEFINE fields == EnvelopeToBytes(e)
    <2>1. Len(fields) = 8 /\ \E S : fields \in Seq(S)
      <3>1. EnvelopeToBytes(e) \in Seq({EnvelopeToBytes(e)[i] : i \in 1..8})
        BY DEF EnvelopeToBytes
      <3>2. Len(EnvelopeToBytes(e)) = 8
        BY DEF EnvelopeToBytes
      <3> QED
        BY <3>1, <3>2
    <2>2. IF f.whole THEN f.fields = fields
          ELSE \E n \in Nat : n < Len(fields) /\ Portion(f.fields, fields, n)
      BY <1>2, <1>3 DEF GoodFile, Encoded
    <2>3. f.whole => Portion(f.fields, fields, 8)
      BY <2>1, <2>2, WholePortion
    <2> HIDE DEF fields
    <2>4. /\ ReadSectioned(f) = SectionsFromBytes(f.fields)
          /\ ReadEnvelope(f) = EnvelopeFromBytes(f.fields)
      BY <1>3 DEF ReadSectioned, ReadEnvelope
    <2>5. \E n \in Nat : Portion(f.fields, fields, n)
      BY <2>2, <2>3
    <2>6. SectionsFromBytes(f.fields) = Unreadable
      BY <1>2, <2>5, EnvelopeReadAsSections DEF fields
    <2>7. f.whole => EnvelopeFromBytes(f.fields) \in {Signed(e), Unreadable}
      BY <1>2, <2>2, BinaryEnvelope DEF fields
    <2>8. ~f.whole => EnvelopeFromBytes(f.fields) = Unreadable
      <3>1. ~f.whole => \E n \in 0..7 : Portion(f.fields, fields, n)
        BY <2>1, <2>2
      <3> QED
        BY <1>2, <3>1, CutBinaryEnvelope DEF fields
    <2> QED
      BY <1>1, <2>4, <2>6, <2>7, <2>8
  <1>4. CASE f.format = "Proto"
    <2> DEFINE fields == EnvelopeToProto(e)
    <2>1. \E S : fields \in Seq(S)
      BY <1>2, ProtoFields
    <2>2. IF f.whole THEN f.fields = fields
          ELSE \E n \in Nat : n < Len(fields) /\ Portion(f.fields, fields, n)
      BY <1>2, <1>4 DEF GoodFile, Encoded
    <2>3. f.whole => Portion(f.fields, fields, Len(fields)) /\ Len(fields) \in Nat
      BY <2>1, <2>2, WholePortion
    <2> HIDE DEF fields
    <2>4. /\ ReadSectioned(f) = SectionsFromProto(f.fields)
          /\ ReadEnvelope(f) = EnvelopeFromProto(f.fields)
      BY <1>4 DEF ReadSectioned, ReadEnvelope
    <2>5. \E n \in Nat : Portion(f.fields, fields, n)
      BY <2>2, <2>3
    <2>6. SectionsFromProto(f.fields) \in {Unreadable, <<>>}
      BY <1>2, <2>5, EnvelopeReadAsSections DEF fields
    <2>7. f.whole => EnvelopeFromProto(f.fields) = Signed(e)
      BY <1>2, <2>2, ProtoEnvelope DEF fields
    <2>8. ~f.whole => \/ EnvelopeFromProto(f.fields) = Unreadable
                      \/ EnvelopeFromProto(f.fields).over # EnvelopeFromProto(f.fields).envelope
      BY <1>2, <2>2, CutProtoEnvelope DEF fields
    <2> QED
      BY <1>1, <2>4, <2>6, <2>7, <2>8
  <1> QED
    BY <1>3, <1>4 DEF GoodFile, Format

\* The first sections are a prefix of all.
LEMMA FirstReadIsPrefix ==
    ASSUME NEW sections \in Seq(Section), NEW m \in 0..Len(sections)
    PROVE  IsPrefix(FirstRead(sections, m), Expected(sections))
  <1> DEFINE signed(i) == [name |-> sections[i].name, envelope |-> Signed(sections[i].envelope)]
             S == {signed(i) : i \in 1..Len(sections)}
  <1>1. /\ Len(sections) \in Nat /\ m \in Nat /\ m <= Len(sections)
        /\ DOMAIN sections = 1..Len(sections)
    OBVIOUS
  <1>2. FirstRead(sections, m) = [i \in 1..m |-> signed(i)]
        /\ Expected(sections) = [i \in 1..Len(sections) |-> signed(i)]
    BY <1>1 DEF FirstRead, Expected
  <1> HIDE DEF signed
  <1>3. \A i \in 1..m : i \in 1..Len(sections)
    BY <1>1
  <1>4. /\ Len(FirstRead(sections, m)) = m /\ Len(Expected(sections)) = Len(sections)
        /\ \A i \in 1..m : FirstRead(sections, m)[i] = Expected(sections)[i]
    BY <1>1, <1>2, <1>3
  <1>5. FirstRead(sections, m) \in Seq(S) /\ Expected(sections) \in Seq(S)
    BY <1>1, <1>2, <1>3
  <1>6. FirstRead(sections, m) = SubSeq(Expected(sections), 1, m)
    BY <1>1, <1>4, <1>5
  <1> QED
    BY <1>1, <1>4, <1>5, <1>6 DEF IsPrefix

\* CutFilesYieldAPrefix, from what files are.
LEMMA CutFileYieldsAPrefix ==
    ASSUME file # Nothing => GoodFile(file)
    PROVE  CutFilesYieldAPrefix
  <1> SUFFICES ASSUME file # Nothing, ~file.whole, GoodFile(file)
               PROVE  IF file.kind = "Sections"
                      THEN \/ ReadSectioned(file) = Unreadable
                           \/ /\ file.format = "Proto" \/ Width <= Len(file.sections)
                              /\ IsPrefix(ReadSectioned(file), Expected(file.sections))
                      ELSE \/ ReadEnvelope(file) = Unreadable
                           \/ \A k \in Keys, vk \in Owner :
                                  ReadOutcome(ReadEnvelope(file), k, vk)
                                      = "SignatureVerificationFailed"
    BY DEF CutFilesYieldAPrefix
  <1>1. CASE file.kind = "Sections"
    <2>1. file.sections \in Seq(Section)
      BY <1>1 DEF GoodFile, Named
    <2> QED
      BY <1>1, <2>1, SectionsFileRead, FirstReadIsPrefix
  <1>2. CASE file.kind = "Envelope"
    BY <1>2, EnvelopeFileRead DEF ReadOutcome
  <1> QED
    BY <1>1, <1>2 DEF GoodFile

\* The lists of recipients of envelopes are finite.
LEMMA EntriesFinite ==
    ASSUME NEW e \in WrittenEnvelope
    PROVE  IsFiniteSet(e.entries)
  <1>1. CASE Scoped(e)
    BY <1>1, FS_Singleton DEF Scoped
  <1>2. CASE Shared(e)
    BY <1>2 DEF Shared
  <1> QED
    BY <1>1, <1>2 DEF WrittenEnvelope

\* What should be read is none of the errors.
LEMMA ExpectedIsReadable ==
    ASSUME NEW sections, Named(sections)
    PROVE  Expected(sections) # Unreadable /\ Expected(sections) # <<>>
  <1> DEFINE Read == [name : Name, envelope : [envelope : Envelope, over : Envelope]]
             length == Len(sections)
  <1>1. sections \in Seq(Section) /\ length \in Nat /\ DOMAIN sections = 1..length
        /\ length # 0
    BY DEF Named
  <1>2. ASSUME NEW i \in 1..length
        PROVE  [name |-> sections[i].name, envelope |-> Signed(sections[i].envelope)] \in Read
    <2>1. sections[i].envelope \in Envelope /\ sections[i].name \in Name
      BY <1>1, SectionType DEF Named
    <2> QED
      BY <2>1 DEF Signed
  <1> HIDE DEF Read
  <1>3. Expected(sections) \in Seq(Read) /\ Len(Expected(sections)) = length
    BY <1>1, <1>2 DEF Expected
  <1>4. Unreadable \notin Seq(Read)
    BY WireAssumption DEF Read
  <1> QED
    BY <1>1, <1>3, <1>4

\* Sections that were written in binary come back, if their sizes fit.
LEMMA BinarySectionsReadBack ==
    ASSUME NEW sections \in Seq(Section), Fits(sections)
    PROVE  SectionsFromBytes(SectionsToBytes(sections)) = Expected(sections)
  <1> DEFINE f == SectionsToBytes(sections)
             length == Len(sections)
             read(i) == EnvelopeFromBytes(f[3 + i].value.envelope)
             value(i) == [name |-> sections[i].name,
                          envelope |-> EnvelopeToBytes(sections[i].envelope)]
  <1>1. /\ length \in Nat /\ Len(f) = 3 + length /\ \E S : f \in Seq(S)
        /\ f[1] = Fixed("ROKS", 1) /\ f[2] = Fixed("version", 1)
        /\ f[3] = Prefixed("count", length, length)
        /\ \A i \in 1..length :
               f[3 + i] = Prefixed("section", value(i), NameSize(sections[i].name))
        /\ DOMAIN sections = 1..length
    BY BinaryFields
  <1>2. DOMAIN f = 1..(3 + length)
    BY <1>1
  <1> HIDE DEF f
  <1>3. length < Width
    BY DEF Fits
  <1>4. HasAll(f, 1, <<"ROKS", "version">>)
    <2>1. 1 \in DOMAIN f /\ 2 \in DOMAIN f
      BY <1>1, <1>2
    <2>2. Has(f, 1, "ROKS") /\ Aligned(f[1]) /\ Has(f, 2, "version") /\ Aligned(f[2])
      BY <1>1, <2>1 DEF Has, Aligned, Fixed
    <2>3. \A i \in DOMAIN <<"ROKS", "version">> : i = 1 \/ i = 2
      OBVIOUS
    <2>4. 1 + 1 - 1 = 1 /\ 1 + 2 - 1 = 2
      OBVIOUS
    <2> QED
      BY <2>2, <2>3, <2>4 DEF HasAll
  <1>5. Has(f, 3, "count")
    <2>1. 3 \in DOMAIN f
      BY <1>1, <1>2
    <2> QED
      BY <1>1, <2>1 DEF Has, Prefixed
  <1>6. f[3].announced = length
    <2>1. f[3].announced = length % Width
      BY <1>1 DEF Prefixed
    <2>2. Width \in Nat \ {0}
      BY WireAssumption
    <2>3. \A l \in Nat, w \in Nat \ {0} : l < w => l % w = l
      OBVIOUS
    <2> HIDE DEF length
    <2> QED
      BY <1>1, <1>3, <2>1, <2>2, <2>3
  <1>7. ASSUME NEW i \in 1..length
        PROVE  /\ HasAll(f, 3 + i, <<"section">>)
               /\ f[3 + i].value = value(i)
               /\ read(i) = Signed(sections[i].envelope)
               /\ read(i) # Unreadable
    <2>1. i \in Nat /\ 3 + i \in DOMAIN f
      BY <1>1, <1>2
    <2>2. sections[i].envelope \in WrittenEnvelope /\ sections[i].envelope \in Envelope
      BY <1>1, SectionType
    <2>3. f[3 + i] = Prefixed("section", value(i), NameSize(sections[i].name))
      BY <1>1
    <2> HIDE DEF value
    <2>4. NameSize(sections[i].name) \in Nat /\ NameSize(sections[i].name) < Width
      BY <1>1, WireAssumption DEF Fits, NameSize
    <2>5. f[3 + i].kind = "section" /\ f[3 + i].value = value(i) /\ Aligned(f[3 + i])
      BY <2>3, <2>4, PrefixedAligned DEF Prefixed
    <2>6. HasAll(f, 3 + i, <<"section">>)
      <3>1. \A j \in DOMAIN <<"section">> : j = 1 /\ <<"section">>[j] = "section"
        OBVIOUS
      <3>2. 3 + i + 1 - 1 = 3 + i
        BY <2>1
      <3> QED
        BY <2>1, <2>5, <3>1, <3>2 DEF HasAll, Has
    <2>7. ScopeSize(sections[i].envelope.scope) < Width
          /\ Cardinality(sections[i].envelope.entries) < Width
      BY <1>1 DEF Fits
    <2>8. EnvelopeFromBytes(EnvelopeToBytes(sections[i].envelope)) = Signed(sections[i].envelope)
      BY <2>2, <2>7, EntriesFinite, BinaryEnvelope
    <2>9. f[3 + i].value.envelope = EnvelopeToBytes(sections[i].envelope)
      BY <2>5 DEF value
    <2> QED
      BY <2>2, <2>5, <2>6, <2>8, <2>9, SignedIsReadable
  <1> HIDE DEF read
  <1>8. ReadSections(f, length) =
            [i \in 1..length |-> [name |-> f[3 + i].value.name, envelope |-> read(i)]]
    BY <1>7 DEF ReadSections, read
  <1>9. \A i \in 1..length : f[3 + i].value.name = sections[i].name
    <2>1. \A i \in 1..length : value(i).name = sections[i].name
      OBVIOUS
    <2>2. \A i \in 1..length : f[3 + i].value = value(i)
      BY <1>7
    <2> HIDE DEF value
    <2> QED
      BY <2>1, <2>2
  <1>10. ReadSections(f, length) = Expected(sections)
    BY <1>1, <1>7, <1>8, <1>9 DEF Expected
  <1> QED
    BY <1>4, <1>5, <1>6, <1>10 DEF SectionsFromBytes, f

\* Sections that were written in protobuf come back.
LEMMA ProtoSectionsReadBack ==
    ASSUME NEW sections \in Seq(Section)
    PROVE  SectionsFromProto(SectionsToProto(sections)) = Expected(sections)
  <1> DEFINE f == SectionsToProto(sections)
             length == Len(sections)
             read(i) == EnvelopeFromProto(f[1 + i].value.envelope)
             value(i) == [name |-> sections[i].name,
                          envelope |-> EnvelopeToProto(sections[i].envelope)]
  <1>1. /\ length \in Nat /\ Len(f) = 1 + length /\ \E S : f \in Seq(S)
        /\ f[1] = Fixed("version", 1)
        /\ \A i \in 1..length : f[1 + i] = Fixed("section", value(i))
        /\ DOMAIN sections = 1..length
    BY ProtoSectionFields
  <1>2. DOMAIN f = 1..(1 + length) /\ Len(f) - 1 = length
    BY <1>1
  <1> HIDE DEF f
  <1>3. Has(f, 1, "version")
    <2>1. 1 \in DOMAIN f
      BY <1>1, <1>2
    <2> QED
      BY <1>1, <2>1 DEF Has, Fixed
  <1>4. ASSUME NEW i \in 1..length
        PROVE  /\ f[1 + i].kind = "section"
               /\ f[1 + i].value = value(i)
               /\ read(i) = Signed(sections[i].envelope)
               /\ read(i) # Unreadable
    <2>1. sections[i].envelope \in Envelope
      BY <1>1, SectionType
    <2>2. f[1 + i] = Fixed("section", value(i))
      BY <1>1
    <2> HIDE DEF value
    <2>3. f[1 + i].kind = "section" /\ f[1 + i].value = value(i)
      BY <2>2 DEF Fixed
    <2>4. f[1 + i].value.envelope = EnvelopeToProto(sections[i].envelope)
      BY <2>3 DEF value
    <2> QED
      BY <2>1, <2>3, <2>4, ProtoEnvelope, SignedIsReadable
  <1> HIDE DEF read
  <1>5. SectionsFromProto(f) =
            [i \in 1..length |-> [name |-> f[1 + i].value.name, envelope |-> read(i)]]
    <2> DEFINE first == IF Has(f, 1, "version") THEN 1 ELSE 0
               all == \A i \in 1..(Len(f) - first) :
                         /\ f[first + i].kind = "section"
                         /\ EnvelopeFromProto(f[first + i].value.envelope) # Unreadable
               found == [i \in 1..(Len(f) - first) |->
                            [name |-> f[first + i].value.name,
                             envelope |-> EnvelopeFromProto(f[first + i].value.envelope)]]
    <2>1. SectionsFromProto(f) = IF all THEN found ELSE Unreadable
      BY Zenon DEF SectionsFromProto
    <2>2. first = 1
      BY <1>3
    <2> HIDE DEF first
    <2>3. all /\ found = [i \in 1..length |-> [name |-> f[1 + i].value.name, envelope |-> read(i)]]
      BY <1>2, <1>4, <2>2 DEF read
    <2> QED
      BY <2>1, <2>3
  <1>6. \A i \in 1..length : f[1 + i].value.name = sections[i].name
    <2>1. \A i \in 1..length : value(i).name = sections[i].name
      OBVIOUS
    <2>2. \A i \in 1..length : f[1 + i].value = value(i)
      BY <1>4
    <2> HIDE DEF value
    <2> QED
      BY <2>1, <2>2
  <1> QED
    BY <1>1, <1>4, <1>5, <1>6 DEF Expected, f

\* WrittenFileReadsBack, from what files are.
LEMMA WholeFileReadsBack ==
    ASSUME file # Nothing => GoodFile(file)
    PROVE  WrittenFileReadsBack
  <1> DEFINE sections == file.sections
  <1> SUFFICES ASSUME file # Nothing, file.whole, file.format = "Binary" => Fits(sections),
                      GoodFile(file)
               PROVE  /\ Inspect(file) = Expected(sections)
                      /\ file.kind = "Sections" => ReadSectioned(file) = Expected(sections)
    BY DEF WrittenFileReadsBack
  <1>1. file.fields = Encoded(file.format, file.kind, sections)
    BY DEF GoodFile
  <1>2. CASE file.kind = "Sections"
    <2>1. Named(sections) /\ sections \in Seq(Section)
      BY <1>2 DEF GoodFile, Named
    <2>2. ReadSectioned(file) = Expected(sections)
      BY <1>1, <1>2, <2>1, BinarySectionsReadBack, ProtoSectionsReadBack
         DEF GoodFile, Format, ReadSectioned, Encoded
    <2>3. file.format = "Binary" => Has(file.fields, 1, "ROKS")
      <3>1. ASSUME file.format = "Binary"
            PROVE  Has(file.fields, 1, "ROKS")
        <4> DEFINE f == SectionsToBytes(sections)
                   n == Len(sections)
        <4>1. Len(f) = 3 + n /\ n \in Nat /\ f[1] = Fixed("ROKS", 1) /\ \E S : f \in Seq(S)
          BY <2>1, BinaryFields
        <4>2. file.fields = f
          BY <1>1, <1>2, <3>1 DEF Encoded
        <4> HIDE DEF f
        <4>3. 1 \in DOMAIN f
          BY <4>1
        <4> QED
          BY <4>1, <4>2, <4>3 DEF Has, Fixed
      <3> QED
        BY <3>1
    <2> QED
      BY <2>1, <2>2, <2>3, ExpectedIsReadable DEF Inspect
  <1>3. CASE file.kind = "Envelope"
    <2>1. PICK e \in WrittenEnvelope :
              /\ sections = <<[name |-> Single, envelope |-> e]>>
              /\ ReadSectioned(file) \in {Unreadable, <<>>}
      BY <1>3, EnvelopeFileRead
    <2>2. e \in Envelope /\ sections[1].envelope = e /\ DOMAIN sections = {1}
      BY <2>1 DEF WrittenEnvelope
    <2>3. ReadEnvelope(file) = Signed(e)
      <3>1. CASE file.format = "Binary"
        <4>1. ScopeSize(e.scope) < Width /\ Cardinality(e.entries) < Width
          BY <2>2, <3>1 DEF Fits
        <4> QED
          BY <1>1, <1>3, <2>2, <3>1, <4>1, EntriesFinite, BinaryEnvelope DEF Encoded, ReadEnvelope
      <3>2. CASE file.format = "Proto"
        BY <1>1, <1>3, <2>2, <3>2, ProtoEnvelope DEF Encoded, ReadEnvelope
      <3> QED
        BY <3>1, <3>2 DEF GoodFile, Format
    <2>4. file.format = "Binary" => ~Has(file.fields, 1, "ROKS")
      BY <1>1, <1>3, <2>2, EnvelopeReadAsSections DEF Encoded
    <2>5. Inspect(file) = <<[name |-> Single, envelope |-> Signed(e)]>>
      BY <2>1, <2>2, <2>3, <2>4, SignedIsReadable DEF Inspect
    <2>6. Expected(sections) = <<[name |-> Single, envelope |-> Signed(e)]>>
      <3>1. Expected(sections) = [i \in {1} |-> [name |-> Single, envelope |-> Signed(e)]]
        BY <2>1, <2>2 DEF Expected
      <3> QED
        BY <3>1
    <2> QED
      BY <1>3, <2>5, <2>6
  <1> QED
    BY <1>2, <1>3 DEF GoodFile

\* A file with sections is not read as a single envelope.
LEMMA SectionsReadAsEnvelope ==
    ASSUME NEW f, GoodFile(f), f.kind = "Sections"
    PROVE  ReadEnvelope(f) = Unreadable
  <1> DEFINE sections == f.sections
             g == f.fields
  <1>1. Named(sections) /\ sections \in Seq(Section) /\ Len(sections) \in Nat /\ Len(sections) # 0
    BY DEF GoodFile, Named
  <1>2. CASE f.format = "Binary"
    <2> DEFINE fields == SectionsToBytes(sections)
    <2>1. \E S : fields \in Seq(S)
      BY <1>1, BinaryFields
    <2>2. fields[1] = Fixed("ROKS", 1)
      BY <1>1, BinaryFields
    <2>3. IF f.whole THEN g = fields
          ELSE \E n \in Nat : n < Len(fields) /\ Portion(g, fields, n)
      BY <1>2 DEF GoodFile, Encoded
    <2> HIDE DEF fields
    <2>4. PICK n \in Nat : Portion(g, fields, n)
      BY <2>1, <2>3, WholePortion
    <2>5. \A i \in DOMAIN g : IsCut(g[i]) \/ g[i] = fields[i]
      BY <2>4, PortionIs
    <2>6. ~Has(g, 1, "ROK")
      <3>1. fields[1].kind = "ROKS"
        BY <2>2 DEF Fixed
      <3> QED
        BY <2>5, <3>1 DEF Has, IsCut
    <2>7. HasAll(g, 1, <<"ROK", "version", "algorithm">>) => Has(g, 1, "ROK")
      <3>1. HasAll(g, 1, <<"ROK", "version", "algorithm">>) =>
                Has(g, 1 + 1 - 1, <<"ROK", "version", "algorithm">>[1])
        BY DEF HasAll
      <3> QED
        BY <3>1
    <2>8. EnvelopeFromBytes(g) = Unreadable
      BY <2>6, <2>7, Zenon DEF EnvelopeFromBytes
    <2> QED
      BY <1>2, <2>8 DEF ReadEnvelope
  <1>3. CASE f.format = "Proto"
    <2> DEFINE fields == SectionsToProto(sections)
               kinds == <<"version", "algorithm", "scope", "entries", "payload", "seal">>
    <2>1. \E S : fields \in Seq(S)
      BY <1>1, ProtoSectionFields
    <2>2. fields[2].kind = "section"
      <3> DEFINE value(i) == [name |-> sections[i].name,
                              envelope |-> EnvelopeToProto(sections[i].envelope)]
      <3>1. \A i \in 1..Len(sections) : fields[1 + i] = Fixed("section", value(i))
        BY <1>1, ProtoSectionFields
      <3> HIDE DEF value, fields
      <3>2. 1 \in 1..Len(sections) /\ 1 + 1 = 2
        BY <1>1
      <3>3. fields[2] = Fixed("section", value(1))
        BY <3>1, <3>2
      <3> QED
        BY <3>3 DEF Fixed
    <2>3. IF f.whole THEN g = fields
          ELSE \E n \in Nat : n < Len(fields) /\ Portion(g, fields, n)
      BY <1>3 DEF GoodFile, Encoded
    <2> HIDE DEF fields
    <2>4. PICK n \in Nat : Portion(g, fields, n)
      BY <2>1, <2>3, WholePortion
    <2>5. \A i \in DOMAIN g : IsCut(g[i]) \/ g[i] = fields[i]
      BY <2>4, PortionIs
    <2>6. ~Has(g, 2, "algorithm")
      BY <2>2, <2>5 DEF Has, IsCut
    <2>7. HasAll(g, 1, kinds) => Has(g, 2, "algorithm")
      <3>1. HasAll(g, 1, kinds) => Has(g, 1 + 2 - 1, kinds[2])
        BY DEF HasAll
      <3> QED
        BY <3>1
    <2>8. EnvelopeFromProto(g) = Unreadable
      BY <2>6, <2>7, Zenon DEF EnvelopeFromProto
    <2> QED
      BY <1>3, <2>8 DEF ReadEnvelope
  <1> QED
    BY <1>2, <1>3 DEF GoodFile, Format

\* What rok decrypt gets out of a file is the data of the envelope in it.
LEMMA DecryptedData ==
    ASSUME NEW f, GoodFile(f), NEW k, NEW vk, ReadEnvelope(f) # Unreadable,
           ReadOutcome(ReadEnvelope(f), k, vk) = "Plaintext"
    PROVE  ReadEnvelope(f).envelope.data \in DataKey
  <1>1. f.kind = "Envelope"
    BY SectionsReadAsEnvelope DEF GoodFile
  <1>2. PICK e \in WrittenEnvelope :
            /\ f.whole => ReadEnvelope(f) \in {Signed(e), Unreadable}
            /\ ~f.whole => \/ ReadEnvelope(f) = Unreadable
                           \/ ReadEnvelope(f).over # ReadEnvelope(f).envelope
    BY <1>1, EnvelopeFileRead
  <1>3. f.whole
    BY <1>2 DEF ReadOutcome
  <1>4. ReadEnvelope(f).envelope = e
    BY <1>2, <1>3 DEF Signed
  <1> QED
    BY <1>4 DEF WrittenEnvelope, Envelope

-------------------------------------------------------------------------------
(* Commands *)

\* The sections that a command has read.
ReadSection ==
    [name : Name, envelope : [envelope : WrittenEnvelope, over : Envelope]]

\* The output directory and the output of rok decrypt.
Output == [Path \cup {Single} -> DataKey \cup {Nothing, Unreadable}]

\* decrypt-sections commands that got to the loop.
Command ==
    [at : {"running", "done", "failed", "unwritten"}, args : DecryptSectionsArgs,
     key : Keys, sections : Seq(ReadSection), next : Nat, before : Output]

\* The command c is to write its section i.
Mine(c, i) ==
    /\ c.args.asked = {} \/ c.sections[i].name \in c.args.asked
    /\ Entitled(c.sections[i].envelope.envelope, c.key)

\* The file for section i of the command c.
Goes(c, i) == PathOf[c.sections[i].name]

\* After m sections of the command c the file p has the last of those that belong
\* in it, and is as it was if there is none.
Right(c, m, o, p) ==
    /\ \A i \in 1..m :
           /\ Mine(c, i) /\ Goes(c, i) = p
           /\ \A j \in 1..m : i < j /\ Mine(c, j) => Goes(c, j) # p
           => o[p] = c.sections[i].envelope.envelope.data
    /\ (\A i \in 1..m : Mine(c, i) => Goes(c, i) # p) => o[p] = c.before[p]

\* What a command has done: the files are right up to the next section, but for
\* the one that could not be written.
Progress(c, o) ==
    /\ \A i \in DOMAIN c.sections : c.sections[i].envelope.over = c.sections[i].envelope.envelope
    /\ c.next \in 1..(Len(c.sections) + 1)
    /\ \A p \in Path :
           \/ Right(c, c.next - 1, o, p)
           \/ c.at = "unwritten" /\ p = Goes(c, c.next)
    /\ c.at = "done" => c.next = Len(c.sections) + 1
    /\ c.at = "failed" => c.sections[c.next].envelope.envelope.signer # c.args.vk
    /\ c.at = "unwritten" =>
           Mine(c, c.next) /\ c.sections[c.next].envelope.envelope.signer = c.args.vk

\* The part of the inductive invariant about commands.
CommandInv ==
    /\ out \in Output
    /\ cmd # Nothing => \/ cmd.at = "refused"
                        \/ cmd \in Command /\ Progress(cmd, out)

\* What files are to be depends on what the command was given, and not on how far
\* it is.
LEMMA SameCommand ==
    ASSUME NEW c, NEW d, d.args = c.args, d.key = c.key, d.sections = c.sections,
           d.before = c.before
    PROVE  /\ \A i : (Mine(d, i) <=> Mine(c, i)) /\ Goes(d, i) = Goes(c, i)
           /\ \A m, o, p : Right(d, m, o, p) <=> Right(c, m, o, p)
  <1>1. \A i : (Mine(d, i) <=> Mine(c, i)) /\ Goes(d, i) = Goes(c, i)
    BY DEF Mine, Goes
  <1> QED
    BY <1>1 DEF Right

\* One file of two outputs is right if it is in one.
LEMMA SameFile ==
    ASSUME NEW c, NEW m, NEW p, NEW o, NEW q, q[p] = o[p], Right(c, m, o, p)
    PROVE  Right(c, m, q, p)
  BY DEF Right

\* A section that is written makes its file right.
LEMMA WrittenIsRight ==
    ASSUME NEW c, NEW n \in Nat \ {0}, NEW o, Mine(c, n),
           o[Goes(c, n)] = c.sections[n].envelope.envelope.data
    PROVE  Right(c, n, o, Goes(c, n))
  <1>1. n \in 1..n /\ \A i \in 1..n : i = n \/ i < n
    OBVIOUS
  <1> QED
    BY <1>1 DEF Right

\* A section that does not go to a file leaves it right.
LEMMA PassedIsRight ==
    ASSUME NEW c, NEW n \in Nat \ {0}, NEW o, NEW p, Right(c, n - 1, o, p),
           Mine(c, n) => Goes(c, n) # p
    PROVE  Right(c, n, o, p)
  <1>1. \A i \in 1..n : i = n \/ i \in 1..(n - 1)
    OBVIOUS
  <1>2. \A i \in 1..(n - 1) : i \in 1..n
    OBVIOUS
  <1> QED
    BY <1>1, <1>2 DEF Right

\* What was exported and encoded is imported as it was.
LEMMA ImportedKey ==
    ASSUME NEW args \in DecryptSectionsArgs, DecodeExportedReadKey(args.key) # Unreadable
    PROVE  Import(DecodeExportedReadKey(args.key)) \in Keys
  <1>1. CASE \E k \in Keys : args.key = EncodeExportedReadKey(Export(k))
    <2>1. PICK k \in Keys : args.key = EncodeExportedReadKey(Export(k))
      BY <1>1
    <2> DEFINE x == Export(k)
    <2>2. k = [secret |-> k.secret, scope |-> k.scope, parent |-> k.parent]
      <3>1. PICK o \in Owner, s \in Scope : k = CliKey(o, s)
        BY FilesAssumption
      <3> QED
        BY <3>1 DEF CliKey, RootReadKey, DeriveChild
    <2>3. DecodeExportedReadKey(args.key) = x
      <3>1. x = [secret |-> x.secret, public |-> x.public, scope |-> x.scope, parent |-> x.parent]
        BY DEF Export
      <3> HIDE DEF x
      <3>2. CASE x.parent = NoParent
        <4> DEFINE p == <<x.secret, x.public, 0, x.scope>>
        <4>1. args.key = [tag |-> "ReadSecret", payload |-> p, checked |-> TRUE]
          BY <2>1, <3>2 DEF EncodeExportedReadKey, Text, x
        <4>2. p[1] = x.secret /\ p[2] = x.public /\ p[3] # 1 /\ p[4] = x.scope
          OBVIOUS
        <4> HIDE DEF p
        <4> QED
          BY <3>1, <3>2, <4>1, <4>2 DEF DecodeExportedReadKey
      <3>3. CASE x.parent # NoParent
        <4> DEFINE p == <<x.secret, x.public, 1, x.parent, x.scope>>
        <4>1. args.key = [tag |-> "ReadSecret", payload |-> p, checked |-> TRUE]
          BY <2>1, <3>3 DEF EncodeExportedReadKey, Text, x
        <4>2. p[1] = x.secret /\ p[2] = x.public /\ p[3] = 1 /\ p[4] = x.parent /\ p[5] = x.scope
          OBVIOUS
        <4> HIDE DEF p
        <4> QED
          BY <3>1, <3>3, <4>1, <4>2 DEF DecodeExportedReadKey
      <3> QED
        BY <3>2, <3>3
    <2> QED
      BY <2>2, <2>3 DEF Import, Export
  <1>2. CASE \E x : args.key = Damaged(EncodeExportedReadKey(x))
    BY <1>2 DEF DecodeExportedReadKey, Damaged, EncodeExportedReadKey, Text
  <1>3. CASE \E k : args.key = EncodeReadPublic(k)
    BY <1>3 DEF DecodeExportedReadKey, EncodeReadPublic, Text
  <1> QED
    BY <1>1, <1>2, <1>3 DEF DecryptSectionsArgs

\* A command that begins has a key in use and sections that were written.
LEMMA BeginKeeps ==
    ASSUME CommandInv, file # Nothing => GoodFile(file), NEW args \in DecryptSectionsArgs,
           DecryptSectionsBegin(args)
    PROVE  CommandInv'
  <1> DEFINE exported == DecodeExportedReadKey(args.key)
             read == ReadSectioned(file)
  <1>1. out' = out /\ file # Nothing /\ GoodFile(file)
    BY DEF DecryptSectionsBegin
  <1>2. CASE cmd' = [at |-> "refused"]
    BY <1>1, <1>2 DEF CommandInv
  <1>3. CASE cmd' # [at |-> "refused"]
    <2> DEFINE k == Import(exported)
    <2>1. /\ exported # Unreadable /\ read # Unreadable
          /\ cmd' = [at |-> "running", args |-> args, key |-> k, sections |-> read,
                     next |-> 1, before |-> out]
      BY <1>3 DEF DecryptSectionsBegin
    <2>2. k \in Keys
      BY <2>1, ImportedKey
    <2>3. /\ read \in Seq(ReadSection)
          /\ \A i \in DOMAIN read : read[i].envelope.over = read[i].envelope.envelope
      <3>1. CASE file.kind = "Sections"
        <4> DEFINE sections == file.sections
        <4>1. Named(sections) /\ sections \in Seq(Section) /\ DOMAIN sections = 1..Len(sections)
              /\ Len(sections) \in Nat
          BY <1>1, <3>1 DEF GoodFile, Named
        <4>2. PICK m \in 0..Len(sections) : read = FirstRead(sections, m)
          BY <1>1, <2>1, <3>1, SectionsFileRead
        <4>3. \A i \in 1..m : i \in 1..Len(sections)
          BY <4>1
        <4>4. \A i \in 1..m : /\ sections[i].name \in Name
                              /\ sections[i].envelope \in WrittenEnvelope
                              /\ sections[i].envelope \in Envelope
          BY <4>1, <4>3, SectionType DEF Named
        <4> HIDE DEF read
        <4>6. m \in Nat
          BY <4>1
        <4>7. DOMAIN read = 1..m /\ \A i \in 1..m :
                  read[i] = [name |-> sections[i].name, envelope |-> Signed(sections[i].envelope)]
          BY <4>2 DEF FirstRead
        <4>8. ASSUME NEW i \in 1..m
              PROVE  [name |-> sections[i].name, envelope |-> Signed(sections[i].envelope)]
                       \in ReadSection
          BY <4>4 DEF ReadSection, Signed
        <4>9. read \in Seq(ReadSection)
          BY <4>2, <4>6, <4>8 DEF FirstRead
        <4>10. \A i \in 1..m : /\ read[i].name = sections[i].name
                               /\ read[i].envelope.over = read[i].envelope.envelope
          BY <4>7 DEF Signed
        <4> QED
          BY <4>7, <4>9, <4>10
      <3>2. CASE file.kind = "Envelope"
        <4>1. read = <<>>
          BY <1>1, <2>1, <3>2, EnvelopeFileRead
        <4> HIDE DEF read
        <4> QED
          BY <4>1
      <3> QED
        BY <1>1, <3>1, <3>2 DEF GoodFile
    <2> HIDE DEF k, read
    <2>4. cmd' \in Command
      BY <2>1, <2>2, <2>3 DEF Command, CommandInv
    <2>5. 1 \in 1..(Len(read) + 1) /\ 1..(1 - 1) = {}
      BY <2>3
    <2>6. /\ cmd'.sections = read /\ cmd'.next = 1 /\ cmd'.at = "running"
          /\ cmd'.before = out
      BY <2>1
    <2>7. \A p \in Path : Right(cmd', 1 - 1, out', p)
      BY <1>1, <2>5, <2>6 DEF Right
    <2>8. Progress(cmd', out')
      BY <2>3, <2>5, <2>6, <2>7 DEF Progress
    <2> QED
      BY <1>1, <2>4, <2>8 DEF CommandInv
  <1> QED
    BY <1>2, <1>3

\* Members of sequences, for the prover.
LEMMA MemberOfSeq ==
    ASSUME NEW S, NEW s \in Seq(S), NEW i \in 1..Len(s)
    PROVE  s[i] \in S
  OBVIOUS

\* The sections that a command has read, one by one.
LEMMA ReadSectionType ==
    ASSUME cmd \in Command, NEW i \in 1..Len(cmd.sections)
    PROVE  /\ cmd.sections[i].name \in Name
           /\ cmd.sections[i].envelope.envelope \in WrittenEnvelope
  <1>1. cmd.sections \in Seq(ReadSection)
    BY DEF Command
  <1>2. cmd.sections[i] \in ReadSection
    BY <1>1, MemberOfSeq
  <1> QED
    BY <1>2 DEF ReadSection

\* A round of the loop: what the key may read is written to its file and nothing
\* else is; the loop ends early at a foreign signature or a failed write only.
LEMMA DecryptSectionKeeps ==
    ASSUME CommandInv, DecryptSection
    PROVE  CommandInv'
  <1> DEFINE n == cmd.next
             s == cmd.sections[n]
             e == s.envelope.envelope
             outcome == ReadOutcome(s.envelope, cmd.key, cmd.args.vk)
             asked == cmd.args.asked = {} \/ s.name \in cmd.args.asked
  <1>1. cmd # Nothing /\ cmd.at = "running" /\ n \in DOMAIN cmd.sections
    BY DEF DecryptSection, Running
  <1>2. cmd \in Command /\ Progress(cmd, out) /\ out \in Output
    BY <1>1 DEF CommandInv
  <1>3. cmd.sections \in Seq(ReadSection) /\ cmd.key \in Keys /\ n \in Nat
        /\ DOMAIN cmd.sections = 1..Len(cmd.sections) /\ Len(cmd.sections) \in Nat
    BY <1>2 DEF Command
  <1>4. s.name \in Name /\ e \in WrittenEnvelope /\ s.envelope.over = e
    <2>1. n \in 1..Len(cmd.sections)
      BY <1>1, <1>3
    <2>2. s.envelope.over = e
      BY <1>1, <1>2 DEF Progress
    <2> QED
      BY <1>2, <2>1, <2>2, ReadSectionType
  <1>5. /\ e.signer # cmd.args.vk => outcome = "SignatureVerificationFailed"
        /\ e.signer = cmd.args.vk /\ Entitled(e, cmd.key) => outcome = "Plaintext"
        /\ e.signer = cmd.args.vk => outcome = "Plaintext" \/ Skipped(outcome)
        /\ outcome = "Plaintext" => e.signer = cmd.args.vk /\ Entitled(e, cmd.key)
    BY <1>3, <1>4, OutcomeOf DEF ReadOutcome
  <1>6. /\ \/ /\ asked /\ outcome = "Plaintext"
              /\ out' = [out EXCEPT ![Goes(cmd, n)] = e.data]
              /\ cmd' = [cmd EXCEPT !.next = n + 1]
           \/ /\ asked /\ outcome = "Plaintext"
              /\ \E left \in {out[Goes(cmd, n)], Unreadable} :
                     out' = [out EXCEPT ![Goes(cmd, n)] = left]
              /\ cmd' = [cmd EXCEPT !.at = "unwritten"]
           \/ /\ ~asked \/ Skipped(outcome)
              /\ cmd' = [cmd EXCEPT !.next = n + 1]
              /\ out' = out
           \/ /\ asked /\ outcome # "Plaintext" /\ ~Skipped(outcome)
              /\ cmd' = [cmd EXCEPT !.at = "failed"]
              /\ out' = out
    BY DEF DecryptSection, WriteFails, Goes
  <1>7. Mine(cmd, n) <=> asked /\ Entitled(e, cmd.key)
    BY DEF Mine
  <1>8. Goes(cmd, n) \in Path
    BY <1>4, FilesAssumption DEF Goes
  <1>9. \A p \in Path : Right(cmd, n - 1, out, p)
    BY <1>1, <1>2 DEF Progress
  <1>10. n \in Nat \ {0} /\ n + 1 \in 1..(Len(cmd.sections) + 1) /\ (n + 1) - 1 = n
         /\ n \in 1..(Len(cmd.sections) + 1)
    BY <1>1, <1>3
  <1>11. e.data \in DataKey
    BY <1>4 DEF WrittenEnvelope, Envelope
  <1>12. \A i \in DOMAIN cmd.sections :
             cmd.sections[i].envelope.over = cmd.sections[i].envelope.envelope
    BY <1>2 DEF Progress
  <1>13. e = cmd.sections[n].envelope.envelope
    OBVIOUS
  <1> HIDE DEF outcome, asked, e, s
  <1>14. ASSUME out' \in Output, cmd' = [cmd EXCEPT !.next = n + 1],
                \A p \in Path : Right(cmd, n, out', p)
         PROVE  CommandInv'
    <2> DEFINE c == cmd'
               o == out'
    <2>1. /\ c \in Command /\ c.at = "running" /\ c.next = n + 1
          /\ c.sections = cmd.sections /\ c.args = cmd.args /\ c.key = cmd.key
          /\ c.before = cmd.before
      BY <1>1, <1>2, <1>3, <1>14 DEF Command
    <2> HIDE DEF c, o
    <2>2. \A p \in Path : Right(c, c.next - 1, o, p)
      BY <1>10, <1>14, <2>1, SameCommand DEF o
    <2>3. Progress(c, o)
      BY <1>10, <1>12, <2>1, <2>2 DEF Progress
    <2> QED
      BY <1>14, <2>1, <2>3 DEF CommandInv, c, o
  <1>15. ASSUME NEW at \in {"failed", "unwritten"}, out' \in Output,
                cmd' = [cmd EXCEPT !.at = at],
                at = "failed" => e.signer # cmd.args.vk,
                at = "unwritten" => e.signer = cmd.args.vk /\ Mine(cmd, n),
                \A p \in Path : \/ Right(cmd, n - 1, out', p)
                                \/ at = "unwritten" /\ p = Goes(cmd, n)
         PROVE  CommandInv'
    <2> DEFINE c == cmd'
               o == out'
    <2>1. /\ c \in Command /\ c.at = at /\ c.next = n
          /\ c.sections = cmd.sections /\ c.args = cmd.args /\ c.key = cmd.key
          /\ c.before = cmd.before
      BY <1>2, <1>15 DEF Command
    <2> HIDE DEF c, o
    <2>2. \A p \in Path : \/ Right(c, c.next - 1, o, p)
                          \/ c.at = "unwritten" /\ p = Goes(c, c.next)
      BY <1>15, <2>1, SameCommand DEF o
    <2>3. c.at = "failed" => c.sections[c.next].envelope.envelope.signer # c.args.vk
      BY <1>13, <1>15, <2>1
    <2>4. c.at = "unwritten" => /\ Mine(c, c.next)
                                /\ c.sections[c.next].envelope.envelope.signer = c.args.vk
      BY <1>13, <1>15, <2>1, SameCommand
    <2>5. Progress(c, o)
      BY <1>10, <1>12, <2>1, <2>2, <2>3, <2>4 DEF Progress
    <2> QED
      BY <1>15, <2>1, <2>5 DEF CommandInv, c, o
  <1>16. CASE /\ asked /\ outcome = "Plaintext"
              /\ out' = [out EXCEPT ![Goes(cmd, n)] = e.data]
              /\ cmd' = [cmd EXCEPT !.next = n + 1]
    <2>1. out' \in Output
      BY <1>2, <1>11, <1>16 DEF Output
    <2>2. Mine(cmd, n) /\ out'[Goes(cmd, n)] = cmd.sections[n].envelope.envelope.data
      BY <1>2, <1>5, <1>7, <1>8, <1>13, <1>16 DEF Output
    <2>3. ASSUME NEW p \in Path, p # Goes(cmd, n)
          PROVE  Right(cmd, n, out', p)
      <3>1. out'[p] = out[p]
        BY <1>2, <1>16, <2>3 DEF Output
      <3>2. Right(cmd, n - 1, out', p)
        BY <1>9, <3>1, SameFile
      <3> QED
        BY <1>10, <2>3, <3>2, PassedIsRight
    <2>4. Right(cmd, n, out', Goes(cmd, n))
      BY <1>10, <2>2, WrittenIsRight
    <2> QED
      BY <1>14, <1>16, <2>1, <2>3, <2>4
  <1>17. CASE /\ asked /\ outcome = "Plaintext"
              /\ \E left \in {out[Goes(cmd, n)], Unreadable} :
                     out' = [out EXCEPT ![Goes(cmd, n)] = left]
              /\ cmd' = [cmd EXCEPT !.at = "unwritten"]
    <2>1. out' \in Output
      BY <1>2, <1>8, <1>17 DEF Output
    <2>2. e.signer = cmd.args.vk /\ Mine(cmd, n)
      BY <1>5, <1>7, <1>17
    <2>3. ASSUME NEW p \in Path, p # Goes(cmd, n)
          PROVE  Right(cmd, n - 1, out', p)
      <3>1. out'[p] = out[p]
        BY <1>2, <1>17, <2>3 DEF Output
      <3> QED
        BY <1>9, <3>1, SameFile
    <2>4. \A p \in Path : \/ Right(cmd, n - 1, out', p)
                          \/ "unwritten" = "unwritten" /\ p = Goes(cmd, n)
      BY <2>3
    <2>5. "unwritten" \in {"failed", "unwritten"} /\ "unwritten" # "failed"
      OBVIOUS
    <2>6. cmd' = [cmd EXCEPT !.at = "unwritten"]
      BY <1>17
    <2> QED
      BY ONLY <1>15, <2>1, <2>2, <2>4, <2>5, <2>6, Zenon
  <1>18. CASE /\ ~asked \/ Skipped(outcome)
              /\ cmd' = [cmd EXCEPT !.next = n + 1]
              /\ out' = out
    <2>1. ~Mine(cmd, n)
      <3>1. ~Skipped("Plaintext") /\ ~Skipped("SignatureVerificationFailed")
        BY DEF Skipped
      <3> QED
        BY <1>5, <1>7, <1>18, <3>1
    <2>2. \A p \in Path : Right(cmd, n, out, p)
      BY <1>9, <1>10, <2>1, PassedIsRight
    <2> QED
      BY <1>2, <1>14, <1>18, <2>2
  <1>19. CASE /\ asked /\ outcome # "Plaintext" /\ ~Skipped(outcome)
              /\ cmd' = [cmd EXCEPT !.at = "failed"]
              /\ out' = out
    <2>1. e.signer # cmd.args.vk
      BY <1>5, <1>19
    <2>2. "failed" \in {"failed", "unwritten"} /\ "failed" # "unwritten"
      OBVIOUS
    <2>3. /\ out' \in Output /\ cmd' = [cmd EXCEPT !.at = "failed"]
          /\ \A p \in Path : \/ Right(cmd, n - 1, out', p)
                             \/ "failed" = "unwritten" /\ p = Goes(cmd, n)
      BY <1>2, <1>9, <1>19
    <2> QED
      BY ONLY <1>15, <2>1, <2>2, <2>3, Zenon
  <1> QED
    BY <1>6, <1>16, <1>17, <1>18, <1>19

\* The loop ends behind the last section.
LEMMA DecryptSectionsEndKeeps ==
    ASSUME CommandInv, DecryptSectionsEnd
    PROVE  CommandInv'
  <1>1. /\ cmd # Nothing /\ cmd.at = "running" /\ cmd.next = Len(cmd.sections) + 1
        /\ cmd' = [cmd EXCEPT !.at = "done"] /\ out' = out
    BY DEF DecryptSectionsEnd, Running
  <1>2. cmd \in Command /\ Progress(cmd, out)
    BY <1>1 DEF CommandInv
  <1> DEFINE c == cmd'
  <1>3. /\ c \in Command /\ c.at = "done" /\ c.next = cmd.next
        /\ c.sections = cmd.sections /\ c.args = cmd.args /\ c.key = cmd.key
        /\ c.before = cmd.before
    BY <1>1, <1>2 DEF Command
  <1> HIDE DEF c
  <1>4. \A p \in Path : Right(c, c.next - 1, out, p)
    BY <1>1, <1>2, <1>3, SameCommand DEF Progress
  <1>5. Progress(c, out)
    BY <1>1, <1>2, <1>3, <1>4 DEF Progress
  <1> QED
    BY <1>1, <1>3, <1>5 DEF CommandInv, c

\* What rok decrypt writes is in no section's place.
LEMMA DecryptKeeps ==
    ASSUME CommandInv, file # Nothing => GoodFile(file), NEW k \in Keys, NEW vk \in Owner,
           Decrypt(k, vk)
    PROVE  CommandInv'
  <1> DEFINE d == ReadEnvelope(file).envelope.data
  <1>1. /\ cmd' = cmd
        /\ \E left \in {d, out[Single], Unreadable} : out' = [out EXCEPT ![Single] = left]
    BY DEF Decrypt, WriteFails
  <1>2. d \in DataKey
    BY DecryptedData DEF Decrypt
  <1> HIDE DEF d
  <1>3. out' \in Output /\ \A p \in Path : out'[p] = out[p]
    BY <1>1, <1>2, FilesAssumption DEF CommandInv, Output
  <1>4. ASSUME cmd # Nothing, cmd \in Command, Progress(cmd, out)
        PROVE  Progress(cmd, out')
    BY <1>3, <1>4, SameFile DEF Progress
  <1> QED
    BY <1>1, <1>3, <1>4 DEF CommandInv

\* DecryptSectionsIsComplete, from how far commands are.
LEMMA CommandsAreComplete ==
    ASSUME CommandInv
    PROVE  DecryptSectionsIsComplete
  <1> SUFFICES ASSUME cmd # Nothing, cmd.at \in {"done", "failed", "unwritten"}
               PROVE  DecryptSectionsIsComplete
    BY DEF DecryptSectionsIsComplete
  <1>1. cmd \in Command /\ Progress(cmd, out)
    BY DEF CommandInv
  <1>2. Len(cmd.sections) \in Nat
    BY <1>1 DEF Command
  <1> DEFINE m == cmd.next - 1
             past == 1..(IF cmd.at = "done" THEN Len(cmd.sections) ELSE cmd.next - 1)
             spoiled(p) == cmd.at = "unwritten" /\ p = Target(cmd.next)
  <1>3. past = 1..m
    BY <1>1, <1>2 DEF Progress
  <1>4. /\ \A i : Due(i) <=> Mine(cmd, i)
        /\ \A i : Target(i) = Goes(cmd, i)
    BY DEF Due, Mine, Target, Goes
  <1>5. \A p \in Path : spoiled(p) \/ Right(cmd, m, out, p)
    BY <1>1, <1>4 DEF Progress
  <1>6. \A i \in 1..m : Target(i) \in Path
    <2>1. \A i \in 1..m : i \in 1..Len(cmd.sections)
      BY <1>1, <1>2 DEF Progress
    <2> QED
      BY <1>1, <2>1, ReadSectionType, FilesAssumption DEF Target
  <1> HIDE DEF m, past, spoiled
  <1>7. ASSUME NEW i \in past, Due(i), ~spoiled(Target(i)),
               \A j \in past : i < j /\ Due(j) => Target(j) # Target(i)
        PROVE  out[Target(i)] = cmd.sections[i].envelope.envelope.data
    <2>1. Right(cmd, m, out, Target(i)) /\ i \in 1..m
      BY <1>3, <1>5, <1>6, <1>7
    <2>2. Mine(cmd, i) /\ Goes(cmd, i) = Target(i)
          /\ \A j \in 1..m : i < j /\ Mine(cmd, j) => Goes(cmd, j) # Target(i)
      BY <1>3, <1>4, <1>7
    <2> QED
      BY <2>1, <2>2 DEF Right
  <1>8. ASSUME NEW p \in Path, \A i \in past : Due(i) => Target(i) # p, ~spoiled(p)
        PROVE  out[p] = cmd.before[p]
    <2>1. Right(cmd, m, out, p)
      BY <1>5, <1>8
    <2>2. \A i \in 1..m : Mine(cmd, i) => Goes(cmd, i) # p
      BY <1>3, <1>4, <1>8
    <2> QED
      BY <2>1, <2>2 DEF Right
  <1>9. /\ cmd.at = "failed" => cmd.sections[cmd.next].envelope.envelope.signer # cmd.args.vk
        /\ cmd.at = "unwritten" =>
               Due(cmd.next) /\ cmd.sections[cmd.next].envelope.envelope.signer = cmd.args.vk
    BY <1>1, <1>4 DEF Progress
  <1> QED
    BY <1>7, <1>8, <1>9 DEF DecryptSectionsIsComplete, past, spoiled

-------------------------------------------------------------------------------
(* Documents *)

\* Documents with their history.
DocumentRecord ==
    [kind : {"Sections", "Envelope", "Credential"}, sections : Seq(Section),
     before : Seq(Section), rekeyed : Seq(Name)]

\* The part of the inductive invariant about documents: types, the locality of
\* rekeying, names of their own in sectioned envelopes, and that a credential has
\* nothing but envelopes for recipients.
DocumentInv ==
    /\ writes \in 0..MaxWrites
    /\ doc # Nothing => /\ doc \in DocumentRecord
                        /\ doc.kind = "Sections" => Named(doc.sections)
                        /\ doc.kind = "Credential" =>
                               \A i \in DOMAIN doc.sections : Shared(doc.sections[i].envelope)
    /\ RekeyIsLocal

\* The part about the file.
FileInv == file # Nothing => GoodFile(file)

\* Where a name occurs, SectionOf is its first place.
LEMMA FirstOfName ==
    ASSUME NEW sections \in Seq(Section), NEW name,
           \E j \in DOMAIN sections : sections[j].name = name
    PROVE  /\ SectionOf(sections, name) \in DOMAIN sections
           /\ sections[SectionOf(sections, name)].name = name
  <1> DEFINE places == {j \in DOMAIN sections : sections[j].name = name}
  <1>1. places \subseteq Nat /\ places # {}
    OBVIOUS
  <1>2. PICK i \in places : \A j \in places : <<j, i>> \notin OpToRel(<, Nat)
    BY <1>1, NatLessThanWellFounded, WFMin
  <1>3. \A j \in places : ~(j < i)
    BY <1>1, <1>2 DEF OpToRel
  <1>4. \A j \in 1..(i - 1) : sections[j].name # name
    BY <1>3
  <1> QED
    BY <1>4 DEF SectionOf

\* There is a nonce for every section that is written.
LEMMA DataOfSections ==
    ASSUME writes \in Nat, writes < MaxWrites, NEW i \in 1..MaxSections
    PROVE  Data(i) \in [author : {Author}, nonce : Nonce]
  <1>1. ASSUME NEW s \in Nat \ {0}, NEW w \in Nat, NEW m \in Nat, NEW j \in 1..s, w < m
        PROVE  s * w + j \in 1..(s * m)
    <2>1. PICK d \in Nat : m = w + 1 + d
      <3>1. m - (w + 1) \in Nat /\ m = w + 1 + (m - (w + 1))
        BY <1>1
      <3> QED
        BY <3>1
    <2>2. s * m = s * w + s + s * d
      BY <2>1
    <2>3. s * w \in Nat /\ s * d \in Nat /\ s * m \in Nat
      OBVIOUS
    <2> QED
      BY <2>2, <2>3
  <1>2. MaxSections * writes + i \in 1..(MaxSections * MaxWrites)
    BY <1>1, FilesAssumption
  <1> QED
    BY <1>2, FilesAssumption DEF Data

\* Sections from names and envelopes.
LEMMA SectionsOf ==
    ASSUME NEW n \in 1..MaxSections, NEW names \in [1..n -> Name],
           NEW envelopes \in [1..n -> WrittenEnvelope], NEW sections,
           sections = [i \in DOMAIN names |-> [name |-> names[i], envelope |-> envelopes[i]]]
    PROVE  /\ sections \in Seq(Section)
           /\ DOMAIN sections = 1..n /\ \A i \in 1..n : sections[i].envelope = envelopes[i]
           /\ DistinctNames(names) => Named(sections)
  <1>1. n \in Nat /\ n # 0
    BY FilesAssumption
  <1>2. sections = [i \in 1..n |-> [name |-> names[i], envelope |-> envelopes[i]]]
    OBVIOUS
  <1>3. \A i \in 1..n : [name |-> names[i], envelope |-> envelopes[i]] \in Section
    BY DEF Section
  <1>4. sections \in Seq(Section) /\ Len(sections) = n
    BY <1>1, <1>2, <1>3
  <1>5. DOMAIN sections = 1..n
        /\ \A i \in 1..n : sections[i].name = names[i] /\ sections[i].envelope = envelopes[i]
    BY <1>2
  <1>6. sections # <<>>
    BY <1>1, <1>4
  <1> QED
    BY <1>4, <1>5, <1>6 DEF Named, DistinctNames

\* A document that is written starts its history.
LEMMA Remembered ==
    ASSUME DocumentInv, NEW kind \in {"Sections", "Envelope", "Credential"},
           NEW sections \in Seq(Section), Remember(kind, sections),
           writes < MaxWrites, writes' = writes + 1,
           kind = "Sections" => Named(sections),
           kind = "Credential" => \A i \in DOMAIN sections : Shared(sections[i].envelope)
    PROVE  DocumentInv'
  <1>1. doc' = [kind |-> kind, sections |-> sections, before |-> sections, rekeyed |-> <<>>]
    BY DEF Remember
  <1>2. doc' \in DocumentRecord
    BY <1>1 DEF DocumentRecord
  <1>3. writes' \in 0..MaxWrites
    BY FilesAssumption DEF DocumentInv
  <1>4. /\ doc'.sections = sections /\ doc'.before = sections /\ doc'.kind = kind
    BY <1>1
  <1>5. RekeyIsLocal'
    BY <1>4 DEF RekeyIsLocal
  <1> QED
    BY <1>2, <1>3, <1>4, <1>5 DEF DocumentInv

\* Sections for their scopes make a document.
LEMMA EncryptSectionsKeeps ==
    ASSUME DocumentInv, NEW n \in 1..MaxSections, NEW names \in [1..n -> Name],
           NEW scopes \in [1..n -> Scope], NEW a \in Algorithm, NEW format \in Format,
           EncryptSections(names, scopes, a, format)
    PROVE  DocumentInv' /\ FileInv'
  <1> DEFINE envelopes == [i \in 1..n |-> SealToScope(Author, Data(i), a, scopes[i])]
             sections == [i \in DOMAIN names |->
                 [name |-> names[i], envelope |-> SealToScope(Author, Data(i), a, scopes[i])]]
  <1>1. writes \in Nat /\ writes < MaxWrites /\ \A i \in 1..n : i \in 1..MaxSections
    BY FilesAssumption DEF DocumentInv, EncryptSections
  <1>2. envelopes \in [1..n -> WrittenEnvelope]
    BY <1>1, DataOfSections, ScopeEnvelope
  <1>3. sections = [i \in DOMAIN names |-> [name |-> names[i], envelope |-> envelopes[i]]]
    OBVIOUS
  <1>4. /\ Remember("Sections", sections) /\ writes' = writes + 1
        /\ WriteFile(format, "Sections", sections) /\ DistinctNames(names)
    BY DEF EncryptSections
  <1> HIDE DEF sections, envelopes
  <1>5. sections \in Seq(Section) /\ Named(sections)
    BY <1>2, <1>3, <1>4, SectionsOf
  <1> QED
    BY <1>1, <1>4, <1>5, Remembered, FileWritten DEF FileInv

\* So with a builder whose envelopes are for recipients.
LEMMA BuildSharedKeeps ==
    ASSUME DocumentInv, NEW n \in 1..MaxSections, NEW names \in [1..n -> Name],
           NEW s \in Scope, NEW R \in Recipients, NEW format \in Format,
           BuildShared(names, s, R, format)
    PROVE  DocumentInv' /\ FileInv'
  <1> DEFINE envelopes == [i \in 1..n |-> SealToRecipients(Author, Data(i), s, R)]
             sections == [i \in DOMAIN names |->
                 [name |-> names[i], envelope |-> SealToRecipients(Author, Data(i), s, R)]]
  <1>1. writes \in Nat /\ writes < MaxWrites /\ \A i \in 1..n : i \in 1..MaxSections
    BY FilesAssumption DEF DocumentInv, BuildShared
  <1>2. R # {}
    BY DEF BuildShared
  <1>3. envelopes \in [1..n -> WrittenEnvelope]
    BY <1>1, <1>2, DataOfSections, SharedEnvelope
  <1>4. sections = [i \in DOMAIN names |-> [name |-> names[i], envelope |-> envelopes[i]]]
    OBVIOUS
  <1>5. /\ Remember("Sections", sections) /\ writes' = writes + 1
        /\ WriteFile(format, "Sections", sections) /\ DistinctNames(names)
    BY DEF BuildShared
  <1> HIDE DEF sections, envelopes
  <1>6. sections \in Seq(Section) /\ Named(sections)
    BY <1>3, <1>4, <1>5, SectionsOf
  <1> QED
    BY <1>1, <1>5, <1>6, Remembered, FileWritten DEF FileInv

\* A single envelope is a document of one section.
LEMMA EncryptKeeps ==
    ASSUME DocumentInv, NEW s \in Scope, NEW scopeBased \in BOOLEAN, NEW R \in Recipients,
           NEW a \in Algorithm, NEW format \in Format,
           Encrypt(s, scopeBased, R, a, format)
    PROVE  DocumentInv' /\ FileInv'
  <1> DEFINE e == IF scopeBased THEN SealToScope(Author, Data(1), a, s)
                                ELSE SealToRecipients(Author, Data(1), s, R)
             sections == <<[name |-> Single, envelope |-> e]>>
  <1>1. writes \in Nat /\ writes < MaxWrites /\ 1 \in 1..MaxSections
    BY FilesAssumption DEF DocumentInv, Encrypt
  <1>2. Data(1) \in [author : {Author}, nonce : Nonce]
    BY <1>1, DataOfSections
  <1>3. ~scopeBased => R # {}
    BY DEF Encrypt, Algorithm
  <1>4. e \in WrittenEnvelope
    BY <1>2, <1>3, ScopeEnvelope, SharedEnvelope
  <1>5. /\ Remember("Envelope", sections) /\ writes' = writes + 1
        /\ WriteFile(format, "Envelope", sections)
    BY DEF Encrypt
  <1> HIDE DEF e
  <1>6. sections \in Seq(Section) /\ Alone(sections)
    BY <1>4 DEF Section, Alone
  <1> HIDE DEF sections
  <1> QED
    BY <1>1, <1>5, <1>6, Remembered, FileWritten DEF FileInv

\* A credential has envelopes for recipients only.
LEMMA IssueKeeps ==
    ASSUME DocumentInv, NEW n \in 1..MaxSections, NEW names \in [1..n -> Name],
           NEW scopes \in [1..n -> Scope], NEW R \in Recipients, Issue(names, scopes, R)
    PROVE  DocumentInv'
  <1> DEFINE envelopes == [i \in 1..n |-> SealToRecipients(Author, Data(i), scopes[i], R)]
             sections == [i \in DOMAIN names |->
                 [name |-> names[i],
                  envelope |-> SealToRecipients(Author, Data(i), scopes[i], R)]]
  <1>1. writes \in Nat /\ writes < MaxWrites /\ \A i \in 1..n : i \in 1..MaxSections
    BY FilesAssumption DEF DocumentInv, Issue
  <1>2. R # {}
    BY DEF Issue
  <1>3. \A i \in 1..n : /\ SealToRecipients(Author, Data(i), scopes[i], R) \in WrittenEnvelope
                        /\ Shared(SealToRecipients(Author, Data(i), scopes[i], R))
    BY <1>1, <1>2, DataOfSections, SharedEnvelope
  <1>4. /\ envelopes \in [1..n -> WrittenEnvelope]
        /\ \A i \in 1..n : Shared(envelopes[i])
    BY <1>3
  <1>5. sections = [i \in DOMAIN names |-> [name |-> names[i], envelope |-> envelopes[i]]]
    OBVIOUS
  <1>6. Remember("Credential", sections) /\ writes' = writes + 1
    BY DEF Issue
  <1> HIDE DEF sections, envelopes
  <1>7. sections \in Seq(Section) /\ \A i \in DOMAIN sections : Shared(sections[i].envelope)
    <2>1. envelopes \in [1..n -> WrittenEnvelope]
      BY <1>4
    <2>2. sections \in Seq(Section)
      <3>1. sections = [i \in 1..n |-> [name |-> names[i], envelope |-> envelopes[i]]]
        BY <1>5
      <3>2. \A i \in 1..n : [name |-> names[i], envelope |-> envelopes[i]] \in Section
        BY <2>1 DEF Section
      <3>3. n \in Nat
        BY FilesAssumption
      <3> QED
        BY <3>1, <3>2, <3>3
    <2>3. DOMAIN sections = 1..n /\ \A i \in 1..n : sections[i].envelope = envelopes[i]
      BY <1>5, <2>1
    <2> QED
      BY <1>4, <2>2, <2>3
  <1> QED
    BY <1>1, <1>6, <1>7, Remembered

\* A rekey changes the envelope of the section it names, and that one's readers
\* and signer only.
LEMMA RekeySectionKeeps ==
    ASSUME DocumentInv, FileInv, NEW name \in Name, NEW k \in Keys, NEW R \in Recipients,
           NEW o \in Owner, NEW format \in Format, RekeySection(name, k, R, o, format)
    PROVE  DocumentInv' /\ FileInv'
  <1> DEFINE at == SectionOf(doc.sections, name)
             old == doc.sections[at]
             new == Rekeyed(o, old.envelope, R)
             sections == [doc.sections EXCEPT ![at].envelope = new]
  <1>1. /\ doc # Nothing /\ writes' = writes /\ doc.kind # "Envelope"
        /\ \E j \in DOMAIN doc.sections : doc.sections[j].name = name
        /\ doc' = [doc EXCEPT !.sections = sections, !.rekeyed = Append(@, name)]
        /\ Unwraps(old.envelope, k) /\ R # {}
        /\ IF doc.kind = "Sections" THEN WriteFile(format, "Sections", sections)
                                    ELSE UNCHANGED file
    BY DEF RekeySection
  <1>2. doc \in DocumentRecord
    BY <1>1 DEF DocumentInv
  <1>3. doc.sections \in Seq(Section) /\ doc.rekeyed \in Seq(Name)
    BY <1>2 DEF DocumentRecord
  <1>4. at \in DOMAIN doc.sections /\ old.name = name
    BY <1>1, <1>3, FirstOfName
  <1> HIDE DEF at
  <1>5. old \in Section /\ old.envelope \in WrittenEnvelope
    <2>1. old \in Section
      BY <1>3, <1>4
    <2> QED
      BY <2>1 DEF Section
  <1>6. /\ new \in WrittenEnvelope /\ new.scope = old.envelope.scope
        /\ new.data = old.envelope.data
        /\ Shared(new)
    BY <1>1, <1>5, RekeyedEnvelope
  <1> HIDE DEF old, new
  <1> DEFINE section == [old EXCEPT !.envelope = new]
             history == Append(doc.rekeyed, name)
  <1>7. /\ sections = [doc.sections EXCEPT ![at] = section]
        /\ doc' = [doc EXCEPT !.sections = sections, !.rekeyed = history]
        /\ IF doc.kind = "Sections" THEN WriteFile(format, "Sections", sections)
                                    ELSE UNCHANGED file
    BY <1>1 DEF old
  <1>8. section \in Section /\ section.envelope = new /\ section.name = name
    BY <1>4, <1>5, <1>6 DEF Section
  <1>14. history \in Seq(Name)
    BY <1>3
  <1> HIDE DEF section, history, sections
  <1>9. /\ sections \in Seq(Section) /\ DOMAIN sections = DOMAIN doc.sections
        /\ sections[at].envelope = new /\ sections[at].name = name
        /\ \A i \in DOMAIN doc.sections : i # at => sections[i] = doc.sections[i]
    BY <1>3, <1>4, <1>7, <1>8
  <1>10. /\ doc' \in DocumentRecord
         /\ doc'.sections = sections /\ doc'.before = doc.before /\ doc'.kind = doc.kind
         /\ doc'.rekeyed = history
    BY <1>2, <1>7, <1>9, <1>14 DEF DocumentRecord
  <1>11. /\ \A n \in DOMAIN doc.rekeyed :
               n \in DOMAIN doc'.rekeyed /\ doc'.rekeyed[n] = doc.rekeyed[n]
         /\ \E n \in DOMAIN doc'.rekeyed : doc'.rekeyed[n] = name
    <2>1. /\ Len(doc.rekeyed) + 1 \in DOMAIN Append(doc.rekeyed, name)
          /\ Append(doc.rekeyed, name)[Len(doc.rekeyed) + 1] = name
          /\ \A n \in DOMAIN doc.rekeyed : /\ n \in DOMAIN Append(doc.rekeyed, name)
                                          /\ Append(doc.rekeyed, name)[n] = doc.rekeyed[n]
      BY <1>3
    <2> QED
      BY <2>1, <1>10 DEF history
  <1>12. RekeyIsLocal'
    <2>1. DOMAIN doc.sections = DOMAIN doc.before
      BY <1>1 DEF DocumentInv, RekeyIsLocal
    <2>2. ASSUME NEW i \in DOMAIN sections, sections[i] # doc.before[i]
          PROVE  /\ \E n \in DOMAIN doc'.rekeyed : doc'.rekeyed[n] = sections[i].name
                 /\ sections[i].name = doc.before[i].name
                 /\ sections[i].envelope.scope = doc.before[i].envelope.scope
                 /\ sections[i].envelope.data = doc.before[i].envelope.data
      <3>1. doc.sections[i] # doc.before[i] =>
                /\ \E n \in DOMAIN doc.rekeyed : doc.rekeyed[n] = doc.sections[i].name
                /\ doc.sections[i].name = doc.before[i].name
                /\ doc.sections[i].envelope.scope = doc.before[i].envelope.scope
                /\ doc.sections[i].envelope.data = doc.before[i].envelope.data
        BY <1>1, <1>9, <2>2 DEF DocumentInv, RekeyIsLocal
      <3>2. CASE i = at
        <4>1. /\ old.name = doc.before[i].name
              /\ old.envelope.scope = doc.before[i].envelope.scope
              /\ old.envelope.data = doc.before[i].envelope.data
          BY <3>1, <3>2 DEF old
        <4> QED
          BY <4>1, <3>2, <1>4, <1>6, <1>9, <1>11
      <3>3. CASE i # at
        BY <3>1, <3>3, <2>2, <1>9, <1>11
      <3> QED
        BY <3>2, <3>3
    <2> QED
      BY <2>1, <2>2, <1>9, <1>10 DEF RekeyIsLocal
  <1>13. doc'.kind = "Credential" => \A i \in DOMAIN doc'.sections : Shared(doc'.sections[i].envelope)
    <2>1. doc.kind = "Credential" => \A i \in DOMAIN doc.sections : Shared(doc.sections[i].envelope)
      BY <1>1 DEF DocumentInv
    <2> QED
      BY <2>1, <1>6, <1>9, <1>10
  <1>15. doc.kind = "Sections" => Named(sections)
    <2>1. doc.kind = "Sections" => Named(doc.sections)
      BY <1>1 DEF DocumentInv
    <2>2. \A i \in DOMAIN doc.sections : sections[i].name = doc.sections[i].name
      <3>1. doc.sections[at].name = name
        BY <1>4 DEF old
      <3> QED
        BY <1>9, <3>1
    <2>3. at \in DOMAIN sections
      BY <1>4, <1>9
    <2>4. sections # <<>>
      BY <2>3
    <2> QED
      BY <1>9, <2>1, <2>2, <2>4 DEF Named
  <1>16. FileInv'
    BY <1>7, <1>15, FileWritten DEF FileInv
  <1>17. DocumentInv'
    BY <1>1, <1>10, <1>12, <1>13, <1>15 DEF DocumentInv
  <1> QED
    BY <1>16, <1>17

\* Reading leaves documents and files alone.
LEMMA OthersKeep ==
    ASSUME DocumentInv, FileInv, UNCHANGED <<doc, file, writes>>
    PROVE  DocumentInv' /\ FileInv'
  BY DEF DocumentInv, FileInv, RekeyIsLocal

-------------------------------------------------------------------------------
(* The pipeline and the keyring *)

\* The public keys that a pipeline is given.
ConsumerSecrets == {k.secret : k \in Consumer}

\* A chunk with those it was encrypted for.
Chunk ==
    {[envelope |-> SealToRecipients(Producer, data, StreamScope, R), for |-> R] :
        data \in [author : {Producer}, nonce : 1..MaxChunks],
        R \in {S \in SUBSET ConsumerSecrets : S # {}}}

\* What the keyring has under an id.
Stored(id) ==
    [exported : {Export(k) : k \in {c \in Consumer : KeyId(c.secret) = id}},
     revoked : BOOLEAN]

\* The inductive invariant of the stream: the histories are what the list of
\* consumers and the keyring say.
StreamInv ==
    /\ consumers \in Seq(ConsumerSecrets)
    /\ joined = ToSet(consumers)
    /\ chunks \in Seq(Chunk)
    /\ ring = [id \in DOMAIN ring |-> ring[id]]
    /\ DOMAIN ring \subseteq {KeyId(k.secret) : k \in Consumer}
    /\ \A id \in DOMAIN ring : ring[id] \in Stored(id)
    /\ held = {secret \in ConsumerSecrets : Loadable(KeyId(secret))}

\* The positions in order are the positions.
LEMMA NthOfPositions ==
    ASSUME NEW P, P \subseteq Nat, IsFiniteSet(P)
    PROVE  /\ Cardinality(P) \in Nat
           /\ \A n \in 1..Cardinality(P) : NthOf(P, n) \in P
           /\ \A i \in P : \E n \in 1..Cardinality(P) : NthOf(P, n) = i
  <1> DEFINE upTo(i) == {j \in P : j <= i}
             rank == [i \in P |-> Cardinality(upTo(i))]
             size == Cardinality(P)
  <1>1. size \in Nat
    BY FS_CardinalityType
  <1>2. ASSUME NEW i \in P
        PROVE  /\ rank[i] \in 1..size /\ rank[i] = Cardinality(upTo(i))
               /\ IsFiniteSet(upTo(i))
    <2>1. IsFiniteSet(upTo(i)) /\ Cardinality(upTo(i)) <= size
      BY FS_Subset
    <2>2. i \in upTo(i)
      OBVIOUS
    <2>3. Cardinality(upTo(i)) \in Nat /\ Cardinality(upTo(i)) # 0
      BY <2>1, <2>2, FS_EmptySet, FS_CardinalityType
    <2> QED
      BY <1>1, <2>1, <2>3
  <1>3. ASSUME NEW i \in P, NEW k \in P, i < k
        PROVE  rank[i] # rank[k]
    <2>1. i \in Nat /\ k \in Nat /\ \A j \in P : j \in Nat
      OBVIOUS
    <2>2. \A j \in P : j <= i => j <= k
      BY <1>3, <2>1
    <2>3. k <= k /\ ~(k <= i)
      BY <1>3, <2>1
    <2>4. upTo(i) \subseteq upTo(k) /\ k \in upTo(k) /\ k \notin upTo(i)
      BY <2>2, <2>3
    <2> QED
      BY <1>2, <2>4, FS_Subset
  <1> HIDE DEF upTo, rank
  <1>4. \A i, k \in P : rank[i] = rank[k] => i = k
    <2>1. \A i, k \in P : i = k \/ i < k \/ k < i
      OBVIOUS
    <2> QED
      BY <1>3, <2>1
  <1>5. rank \in Injection(P, 1..size)
    BY <1>2, <1>4 DEF rank, Injection, IsInjective
  <1>6. IsFiniteSet(1..size) /\ Cardinality(1..size) = size
    BY <1>1, FS_Interval
  <1>7. rank \in Surjection(P, 1..size)
    BY <1>5, <1>6, FS_Injection
  <1>8. \A n \in 1..size : \E i \in P : rank[i] = n
    BY <1>7 DEF Surjection
  <1>9. \A n \in 1..size : NthOf(P, n) \in P /\ rank[NthOf(P, n)] = n
    BY <1>2, <1>8 DEF NthOf, upTo
  <1>10. \A i \in P : NthOf(P, rank[i]) = i
    BY <1>2, <1>4, <1>9
  <1> QED
    BY <1>1, <1>2, <1>9, <1>10

\* Removing a consumer takes all entries of its key from the list, and no other.
LEMMA RemoveConsumerKeeps ==
    ASSUME StreamInv, NEW id, RemoveConsumer(id)
    PROVE  StreamInv'
  <1> DEFINE kept == {i \in DOMAIN consumers : KeyId(consumers[i]) # id}
             list == [n \in 1..Cardinality(kept) |-> consumers[NthOf(kept, n)]]
  <1>1. /\ consumers' = list
        /\ joined' = {secret \in joined : KeyId(secret) # id}
        /\ UNCHANGED <<chunks, ring, held>>
    BY DEF RemoveConsumer
  <1>2. kept \subseteq Nat /\ IsFiniteSet(kept)
    <2>1. DOMAIN consumers = 1..Len(consumers) /\ Len(consumers) \in Nat
      BY DEF StreamInv
    <2>2. IsFiniteSet(1..Len(consumers))
      BY <2>1, FS_Interval
    <2> QED
      BY <2>1, <2>2, FS_Subset
  <1>3. /\ Cardinality(kept) \in Nat
        /\ \A n \in 1..Cardinality(kept) : NthOf(kept, n) \in kept
        /\ \A i \in kept : \E n \in 1..Cardinality(kept) : NthOf(kept, n) = i
    BY <1>2, NthOfPositions
  <1>4. \A i \in DOMAIN consumers : consumers[i] \in ConsumerSecrets
    BY DEF StreamInv
  <1>5. list \in Seq(ConsumerSecrets)
    BY <1>3, <1>4
  <1>6. ToSet(list) = {secret \in ToSet(consumers) : KeyId(secret) # id}
    BY <1>3 DEF ToSet
  <1> HIDE DEF list
  <1>7. held' = {secret \in ConsumerSecrets : Loadable(KeyId(secret))}'
    BY <1>1 DEF StreamInv, Loadable
  <1> QED
    BY <1>1, <1>5, <1>6, <1>7 DEF StreamInv

\* A consumer more on the list is one more of those who joined.
LEMMA AddConsumerKeeps ==
    ASSUME StreamInv, NEW k \in Consumer, AddConsumer(k.secret)
    PROVE  StreamInv'
  <1>1. /\ consumers' = Append(consumers, k.secret)
        /\ joined' = joined \cup {k.secret}
        /\ UNCHANGED <<chunks, ring, held>>
    BY DEF AddConsumer
  <1>2. k.secret \in ConsumerSecrets
    BY DEF ConsumerSecrets
  <1>3. consumers \in Seq(ConsumerSecrets)
    BY DEF StreamInv
  <1>4. /\ Append(consumers, k.secret) \in Seq(ConsumerSecrets)
        /\ ToSet(Append(consumers, k.secret)) = ToSet(consumers) \cup {k.secret}
    <2> DEFINE list == Append(consumers, k.secret)
               n == Len(consumers)
    <2>1. /\ list \in Seq(ConsumerSecrets) /\ DOMAIN list = 1..(n + 1) /\ n \in Nat
          /\ DOMAIN consumers = 1..n
          /\ list[n + 1] = k.secret
          /\ \A i \in 1..n : list[i] = consumers[i]
      BY <1>2, <1>3
    <2> HIDE DEF list, n
    <2>2. \A i \in 1..(n + 1) : i \in 1..n \/ i = n + 1
      BY <2>1
    <2>3. n + 1 \in 1..(n + 1) /\ 1..n \subseteq 1..(n + 1)
      BY <2>1
    <2>4. ToSet(list) = ToSet(consumers) \cup {k.secret}
      BY <2>1, <2>2, <2>3 DEF ToSet
    <2> QED
      BY <2>1, <2>4 DEF list
  <1>5. held' = {secret \in ConsumerSecrets : Loadable(KeyId(secret))}'
    BY <1>1 DEF StreamInv, Loadable
  <1> QED
    BY <1>1, <1>4, <1>5 DEF StreamInv

\* A chunk is encrypted for those who have joined.
LEMMA EncryptChunkKeeps ==
    ASSUME StreamInv, EncryptChunk
    PROVE  StreamInv'
  <1> DEFINE data == [author |-> Producer, nonce |-> Len(chunks) + 1]
             chunk == [envelope |-> SealToRecipients(Producer, data, StreamScope, joined),
                       for |-> joined]
  <1>1. /\ chunks' = Append(chunks, chunk)
        /\ UNCHANGED <<consumers, ring, joined, held>>
    BY DEF EncryptChunk, StreamInv
  <1>2. Len(chunks) \in Nat /\ Len(chunks) < MaxChunks /\ chunks \in Seq(Chunk)
    BY DEF EncryptChunk, StreamInv
  <1>3. data \in [author : {Producer}, nonce : 1..MaxChunks]
    BY <1>2, StreamAssumption
  <1>4. joined \subseteq ConsumerSecrets /\ joined # {}
    <2>1. consumers \in Seq(ConsumerSecrets) /\ consumers # <<>> /\ joined = ToSet(consumers)
      BY DEF StreamInv, EncryptChunk
    <2>2. 1 \in DOMAIN consumers /\ \A i \in DOMAIN consumers : consumers[i] \in ConsumerSecrets
      BY <2>1
    <2> QED
      BY <2>1, <2>2 DEF ToSet
  <1> HIDE DEF data
  <1>5. chunk \in Chunk
    BY <1>3, <1>4 DEF Chunk
  <1> HIDE DEF chunk
  <1>6. chunks' \in Seq(Chunk)
    BY <1>1, <1>2, <1>5
  <1>7. held' = {secret \in ConsumerSecrets : Loadable(KeyId(secret))}'
    BY <1>1 DEF StreamInv, Loadable
  <1> QED
    BY <1>1, <1>6, <1>7 DEF StreamInv

\* A key is found under its id from the time it is stored.
LEMMA StoreReadKeyKeeps ==
    ASSUME StreamInv, NEW k \in Consumer, StoreReadKey(k)
    PROVE  StreamInv'
  <1> DEFINE new == [exported |-> Export(k), revoked |-> FALSE]
             id == KeyId(k.secret)
  <1>1. /\ ring' = [i \in DOMAIN ring \cup {id} |-> IF i = id THEN new ELSE ring[i]]
        /\ held' = held \cup {k.secret}
        /\ UNCHANGED <<consumers, chunks, joined>>
    BY DEF StoreReadKey
  <1>2. new \in Stored(id) /\ new.revoked = FALSE
    BY DEF Stored
  <1> HIDE DEF new
  <1>3. DOMAIN ring' = DOMAIN ring \cup {id}
    BY <1>1
  <1>4. \A i \in DOMAIN ring' : ring'[i] = IF i = id THEN new ELSE ring[i]
    BY <1>1, <1>3
  <1>5. /\ ring' = [i \in DOMAIN ring' |-> ring'[i]]
        /\ DOMAIN ring' \subseteq {KeyId(c.secret) : c \in Consumer}
        /\ \A i \in DOMAIN ring' : ring'[i] \in Stored(i)
    BY <1>1, <1>2, <1>3, <1>4 DEF StreamInv
  <1>6. \A secret : Loadable(KeyId(secret))' <=> Loadable(KeyId(secret)) \/ secret = k.secret
    BY <1>2, <1>3, <1>4 DEF Loadable, KeyId
  <1>7. k.secret \in ConsumerSecrets
    BY DEF ConsumerSecrets
  <1>8. held' = {secret \in ConsumerSecrets : Loadable(KeyId(secret))'}
    BY <1>1, <1>6, <1>7 DEF StreamInv
  <1> QED
    BY <1>1, <1>5, <1>8 DEF StreamInv

\* A revoked key cannot be loaded.
LEMMA RevokeKeyKeeps ==
    ASSUME StreamInv, NEW id, RevokeKey(id)
    PROVE  StreamInv'
  <1>1. /\ id \in DOMAIN ring
        /\ ring' = [ring EXCEPT ![id].revoked = TRUE]
        /\ held' = {secret \in held : KeyId(secret) # id}
        /\ UNCHANGED <<consumers, chunks, joined>>
    BY DEF RevokeKey
  <1> DEFINE new == [ring[id] EXCEPT !.revoked = TRUE]
  <1>2. ring[id] \in Stored(id)
    BY <1>1 DEF StreamInv
  <1>3. new \in Stored(id) /\ new.revoked = TRUE
    BY <1>2 DEF Stored
  <1>4. ring' = [ring EXCEPT ![id] = new]
    BY <1>1
  <1> HIDE DEF new
  <1>5. /\ DOMAIN ring' = DOMAIN ring
        /\ \A i \in DOMAIN ring : ring'[i] = IF i = id THEN new ELSE ring[i]
    BY <1>1, <1>4 DEF StreamInv
  <1>6. /\ ring' = [i \in DOMAIN ring' |-> ring'[i]]
        /\ \A i \in DOMAIN ring' : ring'[i] \in Stored(i)
    BY <1>3, <1>4, <1>5 DEF StreamInv
  <1>7. \A secret : Loadable(KeyId(secret))' <=> Loadable(KeyId(secret)) /\ KeyId(secret) # id
    BY <1>3, <1>5 DEF Loadable
  <1>8. held' = {secret \in ConsumerSecrets : Loadable(KeyId(secret))'}
    BY <1>1, <1>7 DEF StreamInv
  <1> QED
    BY <1>1, <1>5, <1>6, <1>8 DEF StreamInv

\* Nor can a key that was deleted.
LEMMA DeleteKeyKeeps ==
    ASSUME StreamInv, NEW id, DeleteKey(id)
    PROVE  StreamInv'
  <1>1. /\ ring' = [i \in DOMAIN ring \ {id} |-> ring[i]]
        /\ held' = {secret \in held : KeyId(secret) # id}
        /\ UNCHANGED <<consumers, chunks, joined>>
    BY DEF DeleteKey
  <1>2. /\ DOMAIN ring' = DOMAIN ring \ {id}
        /\ \A i \in DOMAIN ring' : ring'[i] = ring[i]
    BY <1>1
  <1>3. /\ ring' = [i \in DOMAIN ring' |-> ring'[i]]
        /\ DOMAIN ring' \subseteq {KeyId(c.secret) : c \in Consumer}
        /\ \A i \in DOMAIN ring' : ring'[i] \in Stored(i)
    BY <1>1, <1>2 DEF StreamInv
  <1>4. \A secret : Loadable(KeyId(secret))' <=> Loadable(KeyId(secret)) /\ KeyId(secret) # id
    BY <1>2 DEF Loadable
  <1>5. held' = {secret \in ConsumerSecrets : Loadable(KeyId(secret))'}
    BY <1>1, <1>4 DEF StreamInv
  <1> QED
    BY <1>1, <1>3, <1>5 DEF StreamInv

\* Whatever leaves the stream alone keeps it.
LEMMA StreamUnchanged ==
    ASSUME StreamInv, UNCHANGED streamVars
    PROVE  StreamInv'
  BY DEF StreamInv, streamVars, Loadable

\* A step of the pipeline or of a keyring keeps the invariant of the stream.
LEMMA StreamNextKeeps ==
    ASSUME StreamInv, StreamNext
    PROVE  StreamInv'
  BY AddConsumerKeeps, RemoveConsumerKeeps, EncryptChunkKeeps, StoreReadKeyKeeps,
     RevokeKeyKeeps, DeleteKeyKeeps
     DEF StreamNext

-------------------------------------------------------------------------------
(* The whole *)

\* The inductive invariant.
IInv == DocumentInv /\ FileInv /\ CommandInv /\ StreamInv

\* A step on files keeps documents, files and commands.
LEMMA FilesNextKeeps ==
    ASSUME DocumentInv, FileInv, CommandInv, FilesNext
    PROVE  DocumentInv' /\ FileInv' /\ CommandInv'
  <1>1. ASSUME UNCHANGED <<cmd, out>>
        PROVE  CommandInv'
    BY <1>1 DEF CommandInv, Progress
  <1>2. ASSUME NEW n \in 1..MaxSections, NEW names \in [1..n -> Name],
               NEW scopes \in [1..n -> Scope], NEW format \in Format,
               \/ \E a \in Algorithm : EncryptSections(names, scopes, a, format)
               \/ \E R \in Recipients :
                      BuildShared(names, scopes[1], R, format) \/ Issue(names, scopes, R)
        PROVE  DocumentInv' /\ FileInv' /\ CommandInv'
    <2>1. scopes[1] \in Scope
      BY FilesAssumption
    <2>2. ASSUME NEW a \in Algorithm, EncryptSections(names, scopes, a, format)
          PROVE  DocumentInv' /\ FileInv' /\ UNCHANGED <<cmd, out>>
      BY <2>2, EncryptSectionsKeeps DEF EncryptSections
    <2>3. ASSUME NEW R \in Recipients, BuildShared(names, scopes[1], R, format)
          PROVE  DocumentInv' /\ FileInv' /\ UNCHANGED <<cmd, out>>
      BY <2>1, <2>3, BuildSharedKeeps DEF BuildShared
    <2>4. ASSUME NEW R \in Recipients, Issue(names, scopes, R)
          PROVE  DocumentInv' /\ FileInv' /\ UNCHANGED <<cmd, out>>
      BY <2>4, IssueKeeps DEF Issue, FileInv
    <2> QED
      BY <1>1, <1>2, <2>2, <2>3, <2>4
  <1>3. ASSUME NEW s \in Scope, NEW scopeBased \in BOOLEAN, NEW R \in Recipients,
               NEW a \in Algorithm, NEW format \in Format, Encrypt(s, scopeBased, R, a, format)
        PROVE  DocumentInv' /\ FileInv' /\ CommandInv'
    BY <1>1, <1>3, EncryptKeeps DEF Encrypt
  <1>4. ASSUME NEW name \in Name, NEW k \in Keys, NEW R \in Recipients, NEW o \in Owner,
               NEW format \in Format, RekeySection(name, k, R, o, format)
        PROVE  DocumentInv' /\ FileInv' /\ CommandInv'
    BY <1>1, <1>4, RekeySectionKeeps DEF RekeySection
  <1>5. ASSUME NEW args \in DecryptSectionsArgs, DecryptSectionsBegin(args)
        PROVE  DocumentInv' /\ FileInv' /\ CommandInv'
    BY <1>5, BeginKeeps, OthersKeep DEF DecryptSectionsBegin, FileInv
  <1>6. CASE DecryptSection
    BY <1>6, DecryptSectionKeeps, OthersKeep DEF DecryptSection
  <1>7. CASE DecryptSectionsEnd
    BY <1>7, DecryptSectionsEndKeeps, OthersKeep DEF DecryptSectionsEnd
  <1>8. ASSUME NEW k \in Keys, NEW vk \in Owner, Decrypt(k, vk)
        PROVE  DocumentInv' /\ FileInv' /\ CommandInv'
    BY <1>8, DecryptKeeps, OthersKeep DEF Decrypt, FileInv
  <1> QED
    BY <1>2, <1>3, <1>4, <1>5, <1>6, <1>7, <1>8 DEF FilesNext

\* The inductive invariant holds throughout.
THEOREM Invariance == Spec => []IInv
  <1>1. Init => IInv
    <2>1. ASSUME Init
          PROVE  DocumentInv /\ FileInv /\ CommandInv
      BY <2>1, FilesAssumption
         DEF Init, FilesInit, DocumentInv, FileInv, CommandInv, RekeyIsLocal, Output
    <2>2. ASSUME Init
          PROVE  StreamInv
      BY <2>2 DEF Init, StreamInit, StreamInv, ToSet, Loadable
    <2> QED
      BY <2>1, <2>2 DEF IInv
  <1>2. ASSUME DocumentInv, FileInv, CommandInv, UNCHANGED fileVars
        PROVE  DocumentInv' /\ FileInv' /\ CommandInv'
    BY <1>2, OthersKeep DEF fileVars, CommandInv, Progress
  <1>3. ASSUME IInv, [Next]_vars
        PROVE  IInv'
    <2>1. CASE FilesNext /\ UNCHANGED streamVars
      BY <1>3, <2>1, FilesNextKeeps, StreamUnchanged DEF IInv
    <2>2. CASE StreamNext /\ UNCHANGED fileVars
      BY <1>2, <1>3, <2>2, StreamNextKeeps DEF IInv
    <2>3. CASE UNCHANGED vars
      BY <1>2, <1>3, <2>3, StreamUnchanged DEF IInv, vars
    <2> QED
      BY <1>3, <2>1, <2>2, <2>3 DEF Next, Finished
  <1> QED
    BY <1>1, <1>3, PTL DEF Spec

\* Envelopes in documents have readers.
LEMMA WrittenIsWellFormed ==
    ASSUME NEW e \in WrittenEnvelope
    PROVE  WellFormed(e)
  BY DEF WrittenEnvelope, WellFormed, Scoped, Shared

\* So have those of chunks.
LEMMA ChunkIsWellFormed ==
    ASSUME NEW chunk \in Chunk
    PROVE  WellFormed(chunk.envelope)
  <1>1. PICK data \in [author : {Producer}, nonce : 1..MaxChunks],
             R \in {S \in SUBSET ConsumerSecrets : S # {}} :
             chunk.envelope = SealToRecipients(Producer, data, StreamScope, R)
    BY DEF Chunk
  <1> DEFINE listed == {Entry("Classical", r, StreamScope) : r \in R}
  <1>2. data \in DataKey /\ StreamScope \in Scope /\ Producer \in Owner
    BY StreamAssumption DEF DataKey
  <1>3. \A r \in R : r \in Secret
    BY StreamAssumption DEF ConsumerSecrets, ReadKey
  <1>4. listed \subseteq AccessEntry /\ listed # {}
    BY <1>2, <1>3, EntryType
  <1>5. chunk.envelope = [data |-> data, algorithm |-> "Classical", scope |-> StreamScope,
                          mode |-> "Recipient", signer |-> Producer, entries |-> listed]
    BY <1>1 DEF SealToRecipients
  <1> HIDE DEF listed
  <1> QED
    BY <1>2, <1>4, <1>5 DEF WellFormed, Envelope, AccessMode, Algorithm

\* Types, and that nothing is encrypted for nobody.
THEOREM TypeCorrectness == Spec => []TypeOK
  <1>1. ASSUME IInv, doc # Nothing, NEW i \in DOMAIN doc.sections
        PROVE  /\ doc.sections[i].name \in Name \cup {Single}
               /\ WellFormed(doc.sections[i].envelope)
    <2>1. doc.sections \in Seq(Section)
      BY <1>1 DEF IInv, DocumentInv, DocumentRecord
    <2>2. i \in 1..Len(doc.sections)
      BY <1>1, <2>1
    <2> QED
      BY <2>1, <2>2, SectionType, WrittenIsWellFormed
  <1>2. ASSUME IInv
        PROVE  /\ doc # Nothing => doc.kind \in {"Sections", "Envelope", "Credential"}
               /\ file # Nothing => file.format \in Format /\ file.whole \in BOOLEAN
               /\ cmd # Nothing => 
                      cmd.at \in {"refused", "running", "done", "failed", "unwritten"}
               /\ out \in [Path \cup {Single} -> DataKey \cup {Nothing, Unreadable}]
               /\ writes \in 0..MaxWrites
    BY <1>2 DEF IInv, DocumentInv, DocumentRecord, FileInv, GoodFile, CommandInv, Command,
            Output
  <1>3. ASSUME IInv
        PROVE  /\ consumers \in Seq({k.secret : k \in Consumer})
               /\ \A i \in DOMAIN chunks : WellFormed(chunks[i].envelope)
    <2>1. chunks \in Seq(Chunk) /\ consumers \in Seq(ConsumerSecrets)
      BY <1>3 DEF IInv, StreamInv
    <2>2. \A i \in DOMAIN chunks : chunks[i] \in Chunk
      BY <2>1
    <2> QED
      BY <2>1, <2>2, ChunkIsWellFormed DEF ConsumerSecrets
  <1>4. ASSUME IInv, NEW id \in DOMAIN ring
        PROVE  ring[id].exported \in ExportedReadKey /\ ring[id].exported.public = id
    <2>1. PICK k \in Consumer : ring[id].exported = Export(k) /\ KeyId(k.secret) = id
      BY <1>4 DEF IInv, StreamInv, Stored
    <2>2. /\ k.secret \in Secret /\ k.scope \in Scope
          /\ k.parent \in KeyIds \cup {NoParent} /\ KeyId(k.secret) \in KeyIds
      BY StreamAssumption DEF ReadKey, KeyId, KeyIds
    <2> QED
      BY <2>1, <2>2 DEF Export, ExportedReadKey
  <1>5. IInv => TypeOK
    BY <1>1, <1>2, <1>3, <1>4 DEF TypeOK
  <1> QED
    BY <1>5, Invariance, PTL

\* What was written to the end is read back, through the command for its kind and
\* through inspect.
THEOREM WrittenFilesReadBack == Spec => []WrittenFileReadsBack
  <1>1. IInv => WrittenFileReadsBack
    BY WholeFileReadsBack DEF IInv, FileInv
  <1> QED
    BY <1>1, Invariance, PTL

\* What was not is refused, or shows sections that were written, or fails at its
\* signature.
THEOREM CutFilesAreSafe == Spec => []CutFilesYieldAPrefix
  <1>1. IInv => CutFilesYieldAPrefix
    BY CutFileYieldsAPrefix DEF IInv, FileInv
  <1> QED
    BY <1>1, Invariance, PTL

\* Whatever names share a path and whichever write fails, decrypt-sections leaves
\* exactly what its key may read of the sections it got through.
THEOREM DecryptSectionsAreComplete == Spec => []DecryptSectionsIsComplete
  <1>1. IInv => DecryptSectionsIsComplete
    BY CommandsAreComplete DEF IInv
  <1> QED
    BY <1>1, Invariance, PTL

\* Sections that are not named keep all they have, and the others their scope and
\* content, through any number of rekeys.
THEOREM RekeysAreLocal == Spec => []RekeyIsLocal
  BY Invariance, PTL DEF IInv, DocumentInv

\* A key gets the attributes below its scope that list it, or nothing.
THEOREM DisclosuresAreExact == Spec => []DisclosureIsExact
  <1>1. ASSUME IInv, doc # Nothing, doc.kind = "Credential", NEW k \in Keys
        PROVE  LET below == {i \in DOMAIN doc.sections :
                                IsAncestorOf(k.scope, doc.sections[i].envelope.scope)}
                   foreign == {i \in below : doc.sections[i].envelope.signer # Author}
               IN  Disclose(doc.sections, k) =
                       IF foreign # {} THEN Unreadable
                       ELSE {[name |-> doc.sections[i].name,
                              data |-> doc.sections[i].envelope.data] :
                                 i \in {j \in below : Entitled(doc.sections[j].envelope, k)}}
    <2> DEFINE below == {i \in DOMAIN doc.sections :
                            IsAncestorOf(k.scope, doc.sections[i].envelope.scope)}
               foreign == {i \in below : doc.sections[i].envelope.signer # Author}
               outcome(i) == Outcome(doc.sections[i].envelope, k, Author)
               failing == \E i \in below : outcome(i) \notin {"Plaintext", "NoMatchingAccessEntry"}
               read == {j \in below : outcome(j) = "Plaintext"}
               meant == {j \in below : Entitled(doc.sections[j].envelope, k)}
               shown(S) == {[name |-> doc.sections[i].name,
                             data |-> doc.sections[i].envelope.data] : i \in S}
    <2>1. Disclose(doc.sections, k) = IF failing THEN Unreadable ELSE shown(read)
      BY DEF Disclose, Disclosable, CanAccess
    <2>2. \A i \in below :
              /\ doc.sections[i].envelope.signer # Author =>
                     outcome(i) = "SignatureVerificationFailed"
              /\ doc.sections[i].envelope.signer = Author =>
                     outcome(i) = IF Entitled(doc.sections[i].envelope, k)
                                  THEN "Plaintext" ELSE "NoMatchingAccessEntry"
      BY <1>1, SharedOutcome DEF IInv, DocumentInv
    <2> HIDE DEF outcome
    <2>3. failing <=> foreign # {}
      BY <2>2
    <2>4. foreign = {} => read = meant
      BY <2>2
    <2> HIDE DEF failing, read, meant
    <2>5. Disclose(doc.sections, k) = IF foreign # {} THEN Unreadable ELSE shown(meant)
      BY <2>1, <2>3, <2>4
    <2> QED
      BY <2>5 DEF meant
  <1>2. IInv => DisclosureIsExact
    BY <1>1 DEF DisclosureIsExact
  <1> QED
    BY <1>2, Invariance, PTL

\* A chunk is read with a key from the keyring exactly if the key was a consumer's
\* at the time and is held.
THEOREM ReadersAreConsumers == Spec => []ReadersAreConsumersWithKeys
  <1>1. ASSUME StreamInv, NEW i \in DOMAIN chunks, NEW k \in Consumer
        PROVE  ReadsChunk(chunks[i], KeyId(k.secret)) <=> k.secret \in chunks[i].for \cap held
    <2> DEFINE id == KeyId(k.secret)
               key == Import(ring[id].exported)
    <2>1. chunks[i] \in Chunk
      BY <1>1 DEF StreamInv
    <2>2. PICK data, R : chunks[i] = [envelope |-> SealToRecipients(Producer, data, StreamScope, R),
                                      for |-> R]
      BY <2>1 DEF Chunk
    <2> DEFINE e == chunks[i].envelope
    <2>3. /\ e.mode = "Recipient" /\ e.algorithm = "Classical" /\ e.signer = Producer
          /\ e.entries = {Entry("Classical", r, StreamScope) : r \in R} /\ e.scope = StreamScope
          /\ chunks[i].for = R
      BY <2>2 DEF SealToRecipients
    <2> HIDE DEF e
    <2>4. Loadable(id) <=> k.secret \in held
      BY <1>1 DEF StreamInv, ConsumerSecrets
    <2>5. ASSUME Loadable(id)
          PROVE  Importable(ring[id].exported) /\ key.secret = k.secret
      <3>1. ring[id] \in Stored(id)
        BY <1>1, <2>5 DEF StreamInv, Loadable
      <3>2. PICK c \in Consumer : ring[id].exported = Export(c) /\ KeyId(c.secret) = id
        BY <3>1 DEF Stored
      <3>3. c.secret = k.secret
        BY <3>2 DEF KeyId
      <3> QED
        BY <3>2, <3>3 DEF Importable, Export, Import
    <2> HIDE DEF key
    <2>6. ~ScopeDecides(e) /\ ScopeCheckPasses(e, key) /\ DecryptSecret(e, key) = key.secret
      BY <2>3 DEF ScopeDecides, ScopeCheckPasses, DecryptSecret
    <2>7. ASSUME Loadable(id)
          PROVE  Outcome(e, key, Producer) = "Plaintext" <=> k.secret \in R
      <3>1. key.secret = k.secret
        BY <2>5, <2>7
      <3>2. \A entry \in e.entries :
                entry.id = KeyId(k.secret) => entry = Entry("Classical", k.secret, StreamScope)
        BY <2>3 DEF Entry, KeyId
      <3>3. Entry("Classical", k.secret, StreamScope) \in e.entries <=> k.secret \in R
        BY <2>3 DEF Entry, KeyId
      <3>4. /\ Entry("Classical", k.secret, StreamScope).id = KeyId(k.secret)
            /\ Entry("Classical", k.secret, StreamScope).kek
                 = Kek("Classical", k.secret, StreamScope)
        BY DEF Entry
      <3> QED
        BY <2>3, <2>6, <3>1, <3>2, <3>3, <3>4 DEF Outcome
    <2> QED
      BY <2>3, <2>4, <2>5, <2>7 DEF ReadsChunk, e, key
  <1>2. IInv => ReadersAreConsumersWithKeys
    BY <1>1 DEF ReadersAreConsumersWithKeys, IInv
  <1> QED
    BY <1>2, Invariance, PTL

================================================================================
