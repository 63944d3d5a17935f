--------------------------- MODULE DelegationProofs ---------------------------
(***************************************************************************)
(* Proofs about Delegation: its types, the canonicity of every read key in *)
(* circulation, and what follows from it.                                  *)
(***************************************************************************)
EXTENDS Delegation, SequenceTheorems, TLAPS

-------------------------------------------------------------------------------
(* Scopes and the paths that lead to them *)

\* is_ancestor_of is a partial order (scope.rs:74-84).
LEMMA AncestorOrder ==
    ASSUME NEW s \in Seq(Segment), NEW t \in Seq(Segment), NEW u \in Seq(Segment)
    PROVE  /\ IsAncestorOf(s, s)
           /\ IsAncestorOf(s, t) /\ IsAncestorOf(t, u) => IsAncestorOf(s, u)
           /\ IsAncestorOf(s, t) /\ IsAncestorOf(t, s) => s = t
  <1>1. IsAncestorOf(s, s)
    BY DEF IsAncestorOf, IsPrefix
  <1>2. IsAncestorOf(s, t) /\ IsAncestorOf(t, u) => IsAncestorOf(s, u)
    BY DEF IsAncestorOf, IsPrefix
  <1>3. IsAncestorOf(s, t) /\ IsAncestorOf(t, s) => s = t
    BY DEF IsAncestorOf, IsPrefix
  <1> QED
    BY <1>1, <1>2, <1>3

\* The path to a scope passes only through scopes.
LEMMA PathToType ==
    ASSUME NEW s \in Scope
    PROVE  PathTo(s) \in Seq(Scope) /\ Len(PathTo(s)) = Len(s)
  BY ScopeAssumption DEF PathTo

\* The path to a descendant begins with the path to the ancestor: what
\* derive_child_read_secret appends to one gives the other.
LEMMA PathToDescendant ==
    ASSUME NEW s \in Scope, NEW t \in Scope, IsAncestorOf(s, t)
    PROVE  PathTo(t) =
             PathTo(s) \o [i \in 1..(Len(t) - Len(s)) |-> PathPrefix(t, Len(s) + i)]
  <1> DEFINE step == [i \in 1..(Len(t) - Len(s)) |-> PathPrefix(t, Len(s) + i)]
  <1>1. /\ s \in Seq(Segment) /\ t \in Seq(Segment)
        /\ Len(s) \in Nat /\ Len(t) \in Nat /\ Len(s) <= Len(t)
    BY ScopeAssumption DEF IsAncestorOf, IsPrefix
  <1>2. \A i \in 1..Len(s) : PathPrefix(s, i) = PathPrefix(t, i)
    BY <1>1 DEF IsAncestorOf, IsPrefix, PathPrefix
  <1>3. step \in Seq(Scope) /\ Len(step) = Len(t) - Len(s)
    BY <1>1, ScopeAssumption
  <1>4. PathTo(s) \in Seq(Scope) /\ Len(PathTo(s)) = Len(s)
    BY PathToType
  <1>5. PathTo(t) \in Seq(Scope) /\ Len(PathTo(t)) = Len(t)
    BY PathToType
  <1>6. \A i \in 1..Len(step) : step[i] = PathPrefix(t, Len(s) + i)
    BY <1>1, <1>3
  <1> HIDE DEF step
  <1>7. /\ PathTo(s) \o step \in Seq(Scope)
        /\ Len(PathTo(s) \o step) = Len(t)
        /\ \A i \in 1..Len(t) :
             (PathTo(s) \o step)[i] =
                IF i <= Len(s) THEN PathTo(s)[i] ELSE step[i - Len(s)]
    <2>1. /\ PathTo(s) \o step \in Seq(Scope)
          /\ Len(PathTo(s) \o step) = Len(PathTo(s)) + Len(step)
          /\ \A i \in 1..(Len(PathTo(s)) + Len(step)) :
               (PathTo(s) \o step)[i] =
                  IF i <= Len(PathTo(s)) THEN PathTo(s)[i]
                  ELSE step[i - Len(PathTo(s))]
      BY <1>3, <1>4, ConcatProperties
    <2>2. Len(PathTo(s)) + Len(step) = Len(t)
      BY <1>1, <1>3, <1>4
    <2> QED
      BY <2>1, <2>2, <1>4
  <1>8. \A i \in 1..Len(t) : PathTo(t)[i] = (PathTo(s) \o step)[i]
    <2> SUFFICES ASSUME NEW i \in 1..Len(t)
                 PROVE  PathTo(t)[i] = (PathTo(s) \o step)[i]
      OBVIOUS
    <2>1. CASE i <= Len(s)
      <3>1. PathTo(s)[i] = PathPrefix(s, i)
        BY <2>1, <1>1 DEF PathTo
      <3> QED
        BY <3>1, <2>1, <1>1, <1>2, <1>7 DEF PathTo
    <2>2. CASE i > Len(s)
      <3>1. i - Len(s) \in 1..Len(step) /\ Len(s) + (i - Len(s)) = i
        BY <2>2, <1>1, <1>3
      <3>2. step[i - Len(s)] = PathPrefix(t, i)
        BY <3>1, <1>6
      <3> QED
        BY <3>2, <2>2, <1>1, <1>7 DEF PathTo
    <2>3. i <= Len(s) \/ i > Len(s)
      BY <1>1
    <2> QED
      BY <2>1, <2>2, <2>3
  <1>9. PathTo(t) = PathTo(s) \o step
    BY <1>5, <1>7, <1>8, SeqEqual
  <1> QED
    BY <1>9 DEF step

\* The path to one scope begins with the path to another only if the latter
\* is an ancestor: no chain of derivations leads sideways.
LEMMA PathToReflects ==
    ASSUME NEW s \in Scope, NEW t \in Scope, IsPrefix(PathTo(s), PathTo(t))
    PROVE  IsAncestorOf(s, t)
  <1>1. s \in Seq(Segment) /\ t \in Seq(Segment)
    BY ScopeAssumption
  <1>2. Len(s) <= Len(t)
    BY PathToType DEF IsPrefix
  <1>3. CASE Len(s) = 0
    BY <1>1, <1>3 DEF IsAncestorOf, IsPrefix
  <1>4. CASE Len(s) > 0
    <2>1. PathTo(s)[Len(s)] = PathTo(t)[Len(s)]
      BY <1>1, <1>2, <1>4, PathToType DEF IsPrefix
    <2>2. PathPrefix(s, Len(s)) = PathPrefix(t, Len(s))
      BY <2>1, <1>1, <1>2, <1>4 DEF PathTo
    <2> QED
      BY <2>2, <1>1, <1>2 DEF PathPrefix, IsAncestorOf, IsPrefix
  <1> QED
    BY <1>1, <1>3, <1>4

-------------------------------------------------------------------------------
(* Derivation *)

\* No derivation leads to the root scope.
LEMMA RootPath == PathTo(Root) = <<>> /\ Root \in Scope
  BY ScopeAssumption DEF PathTo, Root

\* Canonical secrets are secrets.
LEMMA CanonicalSecretType ==
    ASSUME NEW o \in Owner, NEW s \in Scope
    PROVE  CanonicalSecret(o, s) \in Secret
  BY PathToType DEF CanonicalSecret, Secret

\* The derivation of a descendant does not depend on the route: from the
\* canonical secret of s it leads to the canonical secret of t.
LEMMA DerivationIsPathIndependent ==
    ASSUME NEW o \in Owner, NEW s \in Scope, NEW t \in Scope, IsAncestorOf(s, t)
    PROVE  DeriveChildSecret(CanonicalSecret(o, s), s, t) = CanonicalSecret(o, t)
  <1> DEFINE step == [i \in 1..(Len(t) - Len(s)) |-> PathPrefix(t, Len(s) + i)]
  <1>1. PathTo(t) = PathTo(s) \o step
    BY PathToDescendant
  <1>2. DeriveChildSecret(CanonicalSecret(o, s), s, t)
          = [CanonicalSecret(o, s) EXCEPT !.chain = CanonicalSecret(o, s).chain \o step]
    BY DEF DeriveChildSecret
  <1> HIDE DEF step
  <1> QED
    BY <1>1, <1>2 DEF CanonicalSecret

\* The key a writer derives for a scope has the canonical secret.
LEMMA ScopeKeyIsCanonical ==
    ASSUME NEW o \in Owner, NEW s \in Scope
    PROVE  ScopeKeySecret(o, s) = CanonicalSecret(o, s)
  <1>1. RootReadKey(o).secret = CanonicalSecret(o, Root)
    BY RootPath DEF RootReadKey, CanonicalSecret
  <1>2. IsAncestorOf(Root, s)
    BY ScopeAssumption DEF IsAncestorOf, IsPrefix, Root
  <1>3. DeriveChild(RootReadKey(o), s).secret
          = DeriveChildSecret(CanonicalSecret(o, Root), Root, s)
    BY <1>1 DEF DeriveChild, RootReadKey
  <1> QED
    BY <1>1, <1>2, <1>3, RootPath, DerivationIsPathIndependent DEF ScopeKeySecret

\* Different scopes have different canonical secrets, and so have different
\* owners.
LEMMA CanonicalSecretInjective ==
    ASSUME NEW o \in Owner, NEW q \in Owner, NEW s \in Scope, NEW t \in Scope,
           CanonicalSecret(o, s) = CanonicalSecret(q, t)
    PROVE  o = q /\ s = t
  <1>1. o = q /\ PathTo(s) = PathTo(t)
    BY DEF CanonicalSecret
  <1>2. IsAncestorOf(s, t) /\ IsAncestorOf(t, s)
    BY <1>1, PathToType, PathToReflects DEF IsPrefix
  <1> QED
    BY <1>1, <1>2, ScopeAssumption, AncestorOrder

\* A child derived from a canonical key is canonical, and a read key.
LEMMA DeriveChildCanonical ==
    ASSUME NEW k \in ReadKey, NEW s \in Scope,
           Canonical(k), IsProperDescendant(s, k.scope)
    PROVE  /\ DeriveChild(k, s) \in ReadKey
           /\ Canonical(DeriveChild(k, s))
           /\ DeriveChild(k, s).secret = CanonicalSecret(k.secret.seed, s)
           /\ DeriveChild(k, s).scope = s
  <1>1. k.secret.seed \in Owner /\ k.scope \in Scope /\ k.secret \in Secret
    BY DEF ReadKey, Secret
  <1>2. DeriveChildSecret(k.secret, k.scope, s) = CanonicalSecret(k.secret.seed, s)
    BY <1>1, DerivationIsPathIndependent DEF Canonical, IsProperDescendant
  <1>3. CanonicalSecret(k.secret.seed, s) \in Secret
    BY <1>1, CanonicalSecretType
  <1>4. KeyId(k.secret) \in KeyIds /\ KeyId(k.secret) = KeyId(CanonicalSecret(k.secret.seed, k.scope))
    BY <1>1 DEF KeyId, KeyIds, Canonical
  <1>5. DeriveChild(k, s) \in ReadKey
    BY <1>2, <1>3, <1>4 DEF DeriveChild, ReadKey
  <1>6. CanonicalSecret(k.secret.seed, s).seed = k.secret.seed
    BY DEF CanonicalSecret
  <1>7. Canonical(DeriveChild(k, s))
    BY <1>1, <1>2, <1>4, <1>6 DEF DeriveChild, Canonical
  <1> QED
    BY <1>2, <1>5, <1>7 DEF DeriveChild

-------------------------------------------------------------------------------
(* The invariant *)

\* Nobody holds or has handed over anything at first.
LEMMA InitIInv == Init => IInv
  BY DEF Init, IInv, TypeOK, KeysAreCanonical, EnvelopesAreCanonical, KeysAreEntitled

\* Entitlements are never withdrawn.
LEMMA EntitledMonotone ==
    ASSUME exports \subseteq exports', NEW q \in Principal, NEW j, Entitled(q, j)
    PROVE  Entitled(q, j)'
  <1>1. Entitlements(q) \subseteq Entitlements(q)'
    BY DEF Entitlements
  <1> QED
    BY <1>1 DEF Entitled

\* Taking up a canonical key one is entitled to.
LEMMA HoldPreserves ==
    ASSUME IInv, NEW p \in Principal, NEW k \in ReadKey,
           Canonical(k), Entitled(p, k),
           Hold(p, k), UNCHANGED <<exports, envelopes>>
    PROVE  IInv'
  <1> USE DEF IInv
  <1>1. keys' = [keys EXCEPT ![p] = @ \cup {k}]
    BY DEF Hold
  <1>2. keys \in [Principal -> SUBSET ReadKey]
    BY DEF TypeOK
  <1>3. \A q \in Principal : keys'[q] = IF q = p THEN keys[q] \cup {k} ELSE keys[q]
    BY <1>1, <1>2
  <1>4. TypeOK'
    BY <1>1, <1>2 DEF TypeOK
  <1>5. KeysAreCanonical'
    BY <1>3 DEF KeysAreCanonical
  <1>6. EnvelopesAreCanonical'
    BY DEF EnvelopesAreCanonical
  <1>7. KeysAreEntitled'
    <2> SUFFICES ASSUME NEW q \in Principal, NEW j \in keys'[q]
                 PROVE  Entitled(q, j)'
      BY DEF KeysAreEntitled
    <2>1. Entitled(q, j)
      BY <1>3 DEF KeysAreEntitled
    <2> QED
      BY <2>1, EntitledMonotone
  <1> QED
    BY <1>4, <1>5, <1>6, <1>7

\* Publishing a well-formed envelope.
LEMMA PublishPreserves ==
    ASSUME IInv, NEW e \in Envelope, CanonicalEnvelope(e), Publish(e)
    PROVE  IInv'
  <1> USE DEF IInv, Publish
  <1>1. TypeOK'
    BY DEF TypeOK
  <1>2. KeysAreCanonical'
    BY DEF KeysAreCanonical
  <1>3. EnvelopesAreCanonical'
    BY DEF EnvelopesAreCanonical
  <1>4. KeysAreEntitled'
    BY EntitledMonotone DEF KeysAreEntitled
  <1> QED
    BY <1>1, <1>2, <1>3, <1>4

\* A listed key makes a well-typed entry, whatever the algorithm.
LEMMA EntryType ==
    ASSUME NEW a \in Algorithm, NEW r \in Secret, NEW s \in Scope
    PROVE  Entry(a, r, s) \in AccessEntry
  BY DEF Entry, Kek, AccessEntry, KeyId, KeyIds

\* Encryption for a scope makes a canonical envelope.
LEMMA SealToScopePreserves ==
    ASSUME IInv, NEW o \in Owner, NEW n \in Nonce, NEW a \in Algorithm, NEW s \in Scope,
           EncryptToScope(o, n, a, s)
    PROVE  IInv'
  <1> DEFINE e == SealToScope(o, [author |-> o, nonce |-> n], a, s)
  <1>1. CanonicalSecret(o, s) \in Secret /\ ScopeKeySecret(o, s) = CanonicalSecret(o, s)
    BY CanonicalSecretType, ScopeKeyIsCanonical
  <1>2. Entry(a, ScopeKeySecret(o, s), s) \in AccessEntry
    BY <1>1, EntryType
  <1>3. e \in Envelope
    BY <1>2 DEF SealToScope, Envelope, DataKey, AccessMode
  <1>4. CanonicalEnvelope(e)
    BY <1>1 DEF SealToScope, CanonicalEnvelope
  <1>5. Publish(e)
    BY DEF EncryptToScope
  <1> QED
    BY <1>3, <1>4, <1>5, PublishPreserves

\* What a recipient list can name are canonical secrets.
LEMMA KnownSecretsAreCanonical ==
    ASSUME IInv, NEW r \in KnownSecrets
    PROVE  /\ r \in Secret
           /\ \E o \in Owner, s \in Scope : r = CanonicalSecret(o, s)
  <1>1. PICK p \in Principal : \E k \in keys[p] : r = k.secret
    BY DEF KnownSecrets
  <1>2. PICK k \in keys[p] : r = k.secret
    BY <1>1
  <1>3. k \in ReadKey /\ Canonical(k)
    BY DEF IInv, TypeOK, KeysAreCanonical
  <1> QED
    BY <1>2, <1>3 DEF ReadKey, Secret, Canonical

\* The access entries made for a recipient list.
LEMMA ListedEntries ==
    ASSUME IInv, NEW R \in SUBSET KnownSecrets, NEW s \in Scope
    PROVE  /\ {Entry("Classical", r, s) : r \in R} \subseteq AccessEntry
           /\ \A entry \in {Entry("Classical", r, s) : r \in R} :
                \E o \in Owner, t \in Scope :
                    entry = Entry("Classical", CanonicalSecret(o, t), s)
  <1>1. \A r \in R : r \in Secret /\ \E o \in Owner, t \in Scope : r = CanonicalSecret(o, t)
    BY KnownSecretsAreCanonical
  <1>2. "Classical" \in Algorithm
    BY DEF Algorithm
  <1> QED
    BY <1>1, <1>2, EntryType

\* Encryption for a recipient list makes one as well.
LEMMA SealToRecipientsPreserves ==
    ASSUME IInv, NEW o \in Owner, NEW n \in Nonce, NEW s \in Scope,
           NEW R \in RecipientLists, EncryptToRecipients(o, n, s, R)
    PROVE  IInv'
  <1> DEFINE e == SealToRecipients(o, [author |-> o, nonce |-> n], s, R)
  <1>1. R \in SUBSET KnownSecrets
    BY DEF RecipientLists
  <1>2. e \in Envelope
    BY <1>1, ListedEntries DEF SealToRecipients, Envelope, DataKey, AccessMode, Algorithm
  <1>3. CanonicalEnvelope(e)
    BY <1>1, ListedEntries DEF SealToRecipients, CanonicalEnvelope
  <1>4. Publish(e)
    BY DEF EncryptToRecipients
  <1> QED
    BY <1>2, <1>3, <1>4, PublishPreserves

\* So does a rekey, whoever calls it.
LEMMA RekeyPreserves ==
    ASSUME IInv, NEW o \in Owner, NEW e \in envelopes, NEW k \in keys[o],
           NEW R \in RecipientLists, Rekey(o, k, e, R)
    PROVE  IInv'
  <1> DEFINE f == Rekeyed(o, e, R)
  <1>1. R \in SUBSET KnownSecrets
    BY DEF RecipientLists
  <1>2. /\ e \in Envelope
        /\ e.mode = "Recipient"
        /\ e.algorithm = "Classical"
    BY DEF IInv, TypeOK, EnvelopesAreCanonical, CanonicalEnvelope, Rekey, Unwraps
  <1>3. e.scope \in Scope
    BY <1>2 DEF Envelope
  <1>4. f = [data |-> e.data, algorithm |-> e.algorithm, scope |-> e.scope,
             mode |-> "Recipient", signer |-> o,
             entries |-> {Entry("Classical", r, e.scope) : r \in R}]
    <2> DEFINE E == {Entry("Classical", r, e.scope) : r \in R}
    <2>1. f = [e EXCEPT !.entries = E, !.signer = o, !.mode = "Recipient"]
      BY DEF Rekeyed
    <2> HIDE DEF E, f
    <2>2. f = [data |-> e.data, algorithm |-> e.algorithm, scope |-> e.scope,
               mode |-> "Recipient", signer |-> o, entries |-> E]
      BY <2>1, <1>2 DEF Envelope
    <2> QED
      BY <2>2 DEF E
  <1>5. f \in Envelope
    BY <1>1, <1>2, <1>3, <1>4, ListedEntries DEF Envelope
  <1>6. CanonicalEnvelope(f)
    BY <1>1, <1>2, <1>3, <1>4, ListedEntries DEF CanonicalEnvelope
  <1>7. Publish(f)
    BY DEF Rekey
  <1> QED
    BY <1>5, <1>6, <1>7, PublishPreserves

\* The root read key of an owner is canonical, and the owner is entitled to it.
LEMMA DeriveRootPreserves ==
    ASSUME IInv, NEW o \in Owner, DeriveRoot(o)
    PROVE  IInv'
  <1> DEFINE k == RootReadKey(o)
  <1>1. o \in Principal
    BY PrincipalAssumption
  <1>2. k.secret = CanonicalSecret(o, Root) /\ CanonicalSecret(o, Root).seed = o
    BY RootPath DEF RootReadKey, CanonicalSecret
  <1>3. k \in ReadKey
    BY <1>2, RootPath, CanonicalSecretType DEF RootReadKey, ReadKey
  <1>4. Canonical(k)
    BY <1>2 DEF RootReadKey, Canonical
  <1>5. Entitled(o, k)
    <2>1. [seed |-> o, scope |-> Root] \in Entitlements(o)
      BY DEF Entitlements
    <2>2. IsAncestorOf(Root, k.scope)
      BY RootPath, ScopeAssumption, AncestorOrder DEF RootReadKey
    <2> QED
      BY <1>2, <2>1, <2>2 DEF Entitled
  <1> QED
    BY <1>1, <1>3, <1>4, <1>5, HoldPreserves DEF DeriveRoot

\* A key derived from one's own lies below it.
LEMMA DeriveForSelfPreserves ==
    ASSUME IInv, NEW p \in Principal, NEW k \in keys[p], NEW s \in Scope,
           DeriveForSelf(p, k, s)
    PROVE  IInv'
  <1> DEFINE c == DeriveChild(k, s)
  <1>1. k \in ReadKey /\ Canonical(k) /\ Entitled(p, k)
    BY DEF IInv, TypeOK, KeysAreCanonical, KeysAreEntitled
  <1>2. IsProperDescendant(s, k.scope)
    BY DEF DeriveForSelf
  <1>3. /\ c \in ReadKey
        /\ Canonical(c)
        /\ c.secret = CanonicalSecret(k.secret.seed, s)
        /\ c.scope = s
    BY <1>1, <1>2, DeriveChildCanonical
  <1>4. Entitled(p, c)
    <2>1. PICK t \in Entitlements(p) : t.seed = k.secret.seed /\ IsAncestorOf(t.scope, k.scope)
      BY <1>1 DEF Entitled
    <2>2. t.scope \in Scope
      BY RootPath DEF Entitlements, IInv, TypeOK, ExportRecord, ExportedReadKey
    <2>3. IsAncestorOf(t.scope, s)
      BY <1>1, <1>2, <2>1, <2>2, ScopeAssumption, AncestorOrder
         DEF IsProperDescendant, ReadKey
    <2> QED
      BY <1>3, <2>1, <2>3 DEF Entitled, CanonicalSecret
  <1> QED
    BY <1>3, <1>4, HoldPreserves DEF DeriveForSelf

\* What is handed over is a canonical key, exported.
LEMMA HandOverPreserves ==
    ASSUME IInv, NEW p \in Principal, NEW q \in Principal, NEW k \in keys[p],
           NEW s \in Scope, HandOver(p, k, s, q)
    PROVE  IInv'
  <1> DEFINE c == IF s = k.scope THEN k ELSE DeriveChild(k, s)
             x == [from |-> p, to |-> q, key |-> Export(c)]
  <1>1. k \in ReadKey /\ Canonical(k)
    BY DEF IInv, TypeOK, KeysAreCanonical
  <1>2. c \in ReadKey /\ Canonical(c)
    BY <1>1, DeriveChildCanonical DEF HandOver
  <1>3. exports' = exports \cup {x} /\ UNCHANGED <<keys, envelopes>>
    BY DEF HandOver
  <1> HIDE DEF c
  <1>4. Import(x.key) = c /\ Importable(x.key) /\ x.key \in ExportedReadKey
    BY <1>2 DEF Export, Import, Importable, ExportedReadKey, ReadKey, KeyId, KeyIds
  <1>5. x \in ExportRecord
    BY <1>4 DEF ExportRecord
  <1> HIDE DEF x
  <1>6. TypeOK'
    BY <1>3, <1>5 DEF IInv, TypeOK
  <1>7. KeysAreCanonical'
    BY <1>2, <1>3, <1>4 DEF IInv, KeysAreCanonical
  <1>8. EnvelopesAreCanonical'
    BY <1>3 DEF IInv, EnvelopesAreCanonical
  <1>9. KeysAreEntitled'
    BY <1>3, EntitledMonotone DEF IInv, KeysAreEntitled
  <1> QED
    BY <1>6, <1>7, <1>8, <1>9 DEF IInv

\* An imported key is one that was handed over.
LEMMA ImportPreserves ==
    ASSUME IInv, NEW x \in exports, ImportKey(x)
    PROVE  IInv'
  <1> DEFINE k == Import(x.key)
  <1>1. x \in ExportRecord
    BY DEF IInv, TypeOK
  <1>2. x.to \in Principal /\ k \in ReadKey
    BY <1>1 DEF ExportRecord, ExportedReadKey, ReadKey, Import
  <1>3. Canonical(k)
    BY DEF IInv, KeysAreCanonical
  <1>4. [seed |-> x.key.secret.seed, scope |-> x.key.scope] \in Entitlements(x.to)
    BY DEF Entitlements
  <1>5. Entitled(x.to, k)
    BY <1>2, <1>4, ScopeAssumption, AncestorOrder DEF Entitled, Import, ReadKey
  <1> QED
    BY <1>2, <1>3, <1>5, HoldPreserves DEF ImportKey

\* Every step keeps the invariant.
LEMMA StepIInv == IInv /\ [Next]_vars => IInv'
  <1> SUFFICES ASSUME IInv, [Next]_vars
               PROVE  IInv'
    OBVIOUS
  <1>1. ASSUME NEW o \in Owner, DeriveRoot(o) PROVE IInv'
    BY <1>1, DeriveRootPreserves
  <1>2. ASSUME NEW p \in Principal, NEW k \in keys[p], NEW s \in Scope,
               DeriveForSelf(p, k, s)
        PROVE  IInv'
    BY <1>2, DeriveForSelfPreserves
  <1>3. ASSUME NEW p \in Principal, NEW k \in keys[p], NEW s \in Scope,
               NEW q \in Principal \ {p}, HandOver(p, k, s, q)
        PROVE  IInv'
    BY <1>3, HandOverPreserves
  <1>4. ASSUME NEW x \in exports, ImportKey(x) PROVE IInv'
    BY <1>4, ImportPreserves
  <1>5. ASSUME NEW o \in Owner, NEW s \in Scope, NEW n \in Nonce, NEW a \in Algorithm,
               EncryptToScope(o, n, a, s)
        PROVE  IInv'
    BY <1>5, SealToScopePreserves
  <1>6. ASSUME NEW o \in Owner, NEW s \in Scope, NEW n \in Nonce,
               NEW R \in RecipientLists, EncryptToRecipients(o, n, s, R)
        PROVE  IInv'
    BY <1>6, SealToRecipientsPreserves
  <1>7. ASSUME NEW o \in Owner, NEW e \in envelopes, NEW k \in keys[o],
               NEW R \in RecipientLists, Rekey(o, k, e, R)
        PROVE  IInv'
    BY <1>7, RekeyPreserves
  <1>8. CASE UNCHANGED vars
    BY <1>8 DEF vars, IInv, TypeOK, KeysAreCanonical, EnvelopesAreCanonical,
            KeysAreEntitled, Entitled, Entitlements
  <1> QED
    BY <1>1, <1>2, <1>3, <1>4, <1>5, <1>6, <1>7, <1>8 DEF Next

\* The inductive invariant holds throughout.
THEOREM Invariance == Spec => []IInv
  <1> QED
    BY InitIInv, StepIInv, PTL DEF Spec

\* Keyrings, exported keys and envelopes keep their types.
THEOREM TypeCorrect == Spec => []TypeOK
  <1>1. IInv => TypeOK
    BY DEF IInv
  <1> QED
    BY <1>1, Invariance, PTL

\* Every read key in circulation has the secret its owner would derive for its
\* scope, by whatever route of derivations, exports and imports it came about.
THEOREM CanonicalKeys == Spec => []KeysAreCanonical
  <1>1. IInv => KeysAreCanonical
    BY DEF IInv
  <1> QED
    BY <1>1, Invariance, PTL

-------------------------------------------------------------------------------
(* What follows for readers *)

\* What opens an envelope is a key below something one was entitled to.
LEMMA IInvConfinement == IInv => Confinement
  <1> SUFFICES ASSUME IInv, NEW p \in Principal, NEW e \in envelopes, CanOpen(p, e)
               PROVE  \E t \in Entitlements(p), entry \in e.entries, s \in Scope :
                          /\ entry.kek.x25519 = CanonicalSecret(t.seed, s)
                          /\ IsAncestorOf(t.scope, s)
    BY DEF Confinement
  <1>1. PICK k \in keys[p], entry \in e.entries : Reaches(k.secret, entry.kek.x25519)
    BY DEF CanOpen
  <1>2. k \in ReadKey /\ Canonical(k) /\ Entitled(p, k)
    BY DEF IInv, TypeOK, KeysAreCanonical, KeysAreEntitled
  <1>3. PICK o \in Owner, s \in Scope :
            entry = Entry(e.algorithm, CanonicalSecret(o, s), e.scope)
    BY DEF IInv, EnvelopesAreCanonical, CanonicalEnvelope
  <1>4. entry.kek.x25519 = CanonicalSecret(o, s)
    BY <1>3 DEF Entry, Kek
  <1>5. k.secret.seed = o /\ IsPrefix(PathTo(k.scope), PathTo(s))
    BY <1>1, <1>2, <1>4 DEF Reaches, Canonical, CanonicalSecret
  <1>6. k.scope \in Scope /\ IsAncestorOf(k.scope, s)
    BY <1>2, <1>5, PathToReflects DEF ReadKey
  <1>7. PICK t \in Entitlements(p) : t.seed = k.secret.seed /\ IsAncestorOf(t.scope, k.scope)
    BY <1>2 DEF Entitled
  <1>8. t.scope \in Scope
    BY RootPath DEF Entitlements, IInv, TypeOK, ExportRecord, ExportedReadKey
  <1>9. IsAncestorOf(t.scope, s)
    BY <1>6, <1>7, <1>8, ScopeAssumption, AncestorOrder
  <1> QED
    BY <1>4, <1>5, <1>7, <1>9

\* Nobody can open an envelope, by derivation of any kind, without having been
\* entitled to a scope at or above that of a key the envelope lists.
THEOREM KeysNeverEscalate == Spec => []Confinement
  <1> QED
    BY Invariance, IInvConfinement, PTL

\* In scope-based mode the comparison of scopes and the derivation agree.
LEMMA IInvReadIffAuthorised == IInv => ReadIffAuthorised
  <1> SUFFICES ASSUME IInv, NEW p \in Principal, NEW k \in keys[p], NEW e \in envelopes,
                      e.mode = "ScopeBased"
               PROVE  Decrypts(e, k) <=>
                        k.secret.seed = e.signer /\ IsAncestorOf(k.scope, e.scope)
    BY DEF ReadIffAuthorised
  <1> DEFINE o == k.secret.seed
             sealed == CanonicalSecret(e.signer, e.scope)
  <1>1. /\ k \in ReadKey /\ Canonical(k) /\ e \in Envelope
        /\ o \in Owner /\ k.scope \in Scope /\ e.scope \in Scope /\ e.signer \in Owner
    BY DEF IInv, TypeOK, KeysAreCanonical, ReadKey, Secret, Envelope
  <1>2. e.entries = {Entry(e.algorithm, sealed, e.scope)}
    BY DEF IInv, EnvelopesAreCanonical, CanonicalEnvelope
  <1>3. ASSUME ~ IsAncestorOf(k.scope, e.scope)
        PROVE  ~ Decrypts(e, k)
    BY <1>3 DEF Decrypts, Outcome, ScopeCheckPasses, ScopeDecides, CanAccess
  <1>4. ASSUME IsAncestorOf(k.scope, e.scope)
        PROVE  Decrypts(e, k) <=> o = e.signer
    <2>1. DecryptSecret(e, k) = CanonicalSecret(o, e.scope)
      <3>1. CASE k.scope = e.scope
        BY <3>1, <1>1 DEF DecryptSecret, Canonical
      <3>2. CASE k.scope # e.scope
        <4>1. IsProperDescendant(e.scope, k.scope)
          BY <3>2, <1>4 DEF IsProperDescendant
        <4>2. DeriveChild(k, e.scope).secret = CanonicalSecret(o, e.scope)
          BY <4>1, <1>1, DeriveChildCanonical
        <4> QED
          BY <4>2, <3>2 DEF DecryptSecret, ScopeDecides
      <3> QED
        BY <3>1, <3>2
    <2>2. ScopeCheckPasses(e, k)
      BY <1>4 DEF ScopeCheckPasses, CanAccess
    <2>3. CASE o = e.signer
      <3>1. \E entry \in e.entries :
                /\ entry.id = KeyId(DecryptSecret(e, k))
                /\ entry.kek = Kek(e.algorithm, DecryptSecret(e, k), e.scope)
        BY <2>1, <2>3, <1>2 DEF Entry
      <3> QED
        BY <3>1, <2>2, <2>3 DEF Decrypts, Outcome
    <2>4. CASE o # e.signer
      <3>1. CanonicalSecret(o, e.scope) # sealed
        BY <2>4, <1>1, CanonicalSecretInjective
      <3>2. \A entry \in e.entries : entry.id # KeyId(DecryptSecret(e, k))
        BY <3>1, <2>1, <1>2 DEF Entry, KeyId
      <3> QED
        BY <3>2, <2>2, <2>4 DEF Decrypts, Outcome
    <2> QED
      BY <2>3, <2>4
  <1> QED
    BY <1>3, <1>4

\* A key opens a scope-based envelope exactly when it descends from the
\* signer's spend key and its scope covers that of the envelope.
THEOREM ScopeDecidesAccess == Spec => []ReadIffAuthorised
  <1> QED
    BY Invariance, IInvReadIffAuthorised, PTL

\* A listed key is the one the decryption goes on with.
LEMMA IInvListedKeyDecrypts == IInv => ListedKeyDecrypts
  <1> SUFFICES ASSUME IInv, NEW p \in Principal, NEW k \in keys[p], NEW e \in envelopes,
                      NEW entry \in e.entries, entry.id = KeyId(k.secret)
               PROVE  Decrypts(e, k)
    BY DEF ListedKeyDecrypts
  <1>1. /\ k \in ReadKey /\ Canonical(k) /\ e \in Envelope /\ CanonicalEnvelope(e)
        /\ k.secret.seed \in Owner /\ k.scope \in Scope
        /\ e.scope \in Scope /\ e.signer \in Owner /\ e.mode \in AccessMode
    BY DEF IInv, TypeOK, KeysAreCanonical, EnvelopesAreCanonical, ReadKey, Secret, Envelope
  <1>2. PICK o \in Owner, s \in Scope :
            entry = Entry(e.algorithm, CanonicalSecret(o, s), e.scope)
    BY <1>1 DEF CanonicalEnvelope
  <1>3. k.secret = CanonicalSecret(o, s)
    BY <1>2 DEF Entry, KeyId
  <1>4. entry = Entry(e.algorithm, k.secret, e.scope)
    BY <1>2, <1>3
  <1>5. DecryptSecret(e, k) = k.secret /\ ScopeCheckPasses(e, k)
    <2>1. CASE e.mode = "ScopeBased"
      <3>1. entry = Entry(e.algorithm, CanonicalSecret(e.signer, e.scope), e.scope)
        BY <2>1, <1>1 DEF CanonicalEnvelope
      <3>2. k.secret = CanonicalSecret(e.signer, e.scope)
        BY <3>1 DEF Entry, KeyId
      <3>3. k.scope = e.scope
        BY <3>2, <1>1, CanonicalSecretInjective DEF Canonical
      <3>4. IsAncestorOf(k.scope, e.scope)
        BY <3>3, <1>1, ScopeAssumption, AncestorOrder
      <3> QED
        BY <3>3, <3>4 DEF DecryptSecret, ScopeCheckPasses, CanAccess
    <2>2. CASE e.mode = "Recipient"
      BY <2>2, <1>1 DEF CanonicalEnvelope, DecryptSecret, ScopeCheckPasses, ScopeDecides
    <2> QED
      BY <2>1, <2>2, <1>1 DEF AccessMode
  <1> QED
    BY <1>4, <1>5 DEF Decrypts, Outcome, Entry

\* Holders of listed keys can decrypt, whatever their scope.
THEOREM ListedKeysDecrypt == Spec => []ListedKeyDecrypts
  <1> QED
    BY Invariance, IInvListedKeyDecrypts, PTL

\* Rekeying hands an envelope on to a signer that could read it.
LEMMA RekeyKeepsSignersHadAccess ==
    ASSUME IInv, SignersHadAccess, NEW o \in Owner, NEW e \in envelopes,
           NEW k \in keys[o], NEW R \in RecipientLists, Rekey(o, k, e, R)
    PROVE  SignersHadAccess'
  <1> DEFINE f == Rekeyed(o, e, R)
  <1>1. envelopes' = envelopes \cup {f} /\ keys' = keys
    BY DEF Rekey, Publish
  <1>2. e \in Envelope /\ e.mode = "Recipient" /\ e.algorithm = "Classical"
    BY DEF IInv, TypeOK, EnvelopesAreCanonical, CanonicalEnvelope, Rekey, Unwraps
  <1>3. f.data = e.data /\ f.signer = o
    BY <1>2 DEF Rekeyed, Envelope
  <1>4. Decrypts(e, k)
    BY <1>2 DEF Rekey, Unwraps, Decrypts, Outcome, ScopeCheckPasses, ScopeDecides,
                DecryptSecret, Entry
  <1> HIDE DEF f
  <1>5. ASSUME o # e.data.author
        PROVE  \E g \in envelopes, j \in keys[o] :
                   g.data = e.data /\ g.signer # o /\ Decrypts(g, j)
    <2>1. CASE e.signer # o
      BY <2>1, <1>4
    <2>2. CASE e.signer = o
      BY <2>2, <1>5 DEF SignersHadAccess
    <2> QED
      BY <2>1, <2>2
  <1> QED
    BY <1>1, <1>3, <1>5 DEF SignersHadAccess

\* Steps that only add keys, or an envelope its author signs.
LEMMA OthersKeepSignersHadAccess ==
    ASSUME SignersHadAccess,
           \A p \in Principal : keys[p] \subseteq keys'[p],
           envelopes \subseteq envelopes',
           \A e \in envelopes' \ envelopes : e.signer = e.data.author,
           \A e \in envelopes : e.signer \in Owner
    PROVE  SignersHadAccess'
  BY PrincipalAssumption DEF SignersHadAccess

\* An envelope with a new signer comes from a rekey, whose caller unwrapped an
\* earlier envelope of the same data key.
LEMMA StepSignersHadAccess ==
    IInv /\ SignersHadAccess /\ [Next]_vars => SignersHadAccess'
  <1> SUFFICES ASSUME IInv, SignersHadAccess, [Next]_vars
               PROVE  SignersHadAccess'
    OBVIOUS
  <1>1. /\ \A e \in envelopes : e.signer \in Owner
        /\ keys \in [Principal -> SUBSET ReadKey]
    BY DEF IInv, TypeOK, Envelope
  <1>2. ASSUME NEW p \in Principal, NEW k, Hold(p, k), UNCHANGED <<exports, envelopes>>
        PROVE  SignersHadAccess'
    <2>1. \A q \in Principal : keys[q] \subseteq keys'[q]
      BY <1>1, <1>2 DEF Hold
    <2> QED
      BY <1>1, <1>2, <2>1, OthersKeepSignersHadAccess
  <1>3. ASSUME NEW o \in Owner, DeriveRoot(o) PROVE SignersHadAccess'
    BY <1>2, <1>3, PrincipalAssumption DEF DeriveRoot
  <1>4. ASSUME NEW p \in Principal, NEW k \in keys[p], NEW s \in Scope,
               DeriveForSelf(p, k, s)
        PROVE  SignersHadAccess'
    BY <1>2, <1>4 DEF DeriveForSelf
  <1>5. ASSUME NEW p \in Principal, NEW k \in keys[p], NEW s \in Scope,
               NEW q \in Principal \ {p}, HandOver(p, k, s, q)
        PROVE  SignersHadAccess'
    BY <1>1, <1>5, OthersKeepSignersHadAccess DEF HandOver
  <1>6. ASSUME NEW x \in exports, ImportKey(x) PROVE SignersHadAccess'
    <2>1. x.to \in Principal
      BY DEF IInv, TypeOK, ExportRecord
    <2> QED
      BY <1>2, <1>6, <2>1 DEF ImportKey
  <1>7. ASSUME NEW o \in Owner, NEW s \in Scope, NEW n \in Nonce, NEW a \in Algorithm,
               EncryptToScope(o, n, a, s)
        PROVE  SignersHadAccess'
    BY <1>1, <1>7, OthersKeepSignersHadAccess DEF EncryptToScope, Publish, SealToScope
  <1>8. ASSUME NEW o \in Owner, NEW s \in Scope, NEW n \in Nonce,
               NEW R \in RecipientLists, EncryptToRecipients(o, n, s, R)
        PROVE  SignersHadAccess'
    BY <1>1, <1>8, OthersKeepSignersHadAccess
       DEF EncryptToRecipients, Publish, SealToRecipients
  <1>9. ASSUME NEW o \in Owner, NEW e \in envelopes, NEW k \in keys[o],
               NEW R \in RecipientLists, Rekey(o, k, e, R)
        PROVE  SignersHadAccess'
    BY <1>9, RekeyKeepsSignersHadAccess
  <1>10. CASE UNCHANGED vars
    BY <1>10 DEF vars, SignersHadAccess
  <1> QED
    BY <1>3, <1>4, <1>5, <1>6, <1>7, <1>8, <1>9, <1>10 DEF Next

\* An owner signs over another owner's data only after it could read it.
THEOREM SignersCouldRead == Spec => []SignersHadAccess
  <1>1. Init => SignersHadAccess
    BY DEF Init, SignersHadAccess
  <1> QED
    BY <1>1, Invariance, StepSignersHadAccess, PTL DEF Spec

===============================================================================
