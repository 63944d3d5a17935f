------------------------------ MODULE Delegation ------------------------------
(***************************************************************************)
(* Who can read what once read keys have been derived, exported, carried to *)
(* other principals, imported and derived from again, while owners encrypt *)
(* to scopes or to listed keys and replace recipient lists.                *)
(*                                                                         *)
(* Exported keys travel out of band (a Base58 string handed over): they    *)
(* may be imported at any later time, any number of times, or never.       *)
(***************************************************************************)
EXTENDS Envelopes, FiniteSets

CONSTANTS
    Principal,       \* everyone who holds keys, the owners among them
    MaxKeys,         \* bound: read keys one principal holds
    MaxExports,      \* bound: exported keys in circulation
    MaxEnvelopes,    \* bound: envelopes produced
    MaxRecipients    \* bound: length of a recipient list

ASSUME PrincipalAssumption == Owner \subseteq Principal

VARIABLES
    keys,        \* keys[p]: the read keys p holds
    exports,     \* exported keys, with the principal they were handed to
    envelopes    \* every envelope produced so far; none is ever altered

vars == <<keys, exports, envelopes>>

-------------------------------------------------------------------------------
Init ==
    /\ keys = [p \in Principal |-> {}]
    /\ exports = {}
    /\ envelopes = {}

Hold(p, k) ==
    /\ Cardinality(keys[p] \cup {k}) <= MaxKeys
    /\ keys' = [keys EXCEPT ![p] = @ \cup {k}]

\* SpendKeyPair::derive_root_read_key
DeriveRoot(o) ==
    /\ Hold(o, RootReadKey(o))
    /\ UNCHANGED <<exports, envelopes>>

\* ReadKeyPair::derive_child by a holder of k, for itself.
DeriveForSelf(p, k, s) ==
    /\ IsProperDescendant(s, k.scope)
    /\ Hold(p, DeriveChild(k, s))
    /\ UNCHANGED <<exports, envelopes>>

\* Export of a held key as it is, or of a child derived for the occasion
\* (rok grant, MemoryStore::grant_access), to q.
HandOver(p, k, s, q) ==
    /\ s = k.scope \/ IsProperDescendant(s, k.scope)
    /\ Cardinality(exports) < MaxExports
    /\ exports' = exports \cup
           {[from |-> p, to |-> q,
             key |-> Export(IF s = k.scope THEN k ELSE DeriveChild(k, s))]}
    /\ UNCHANGED <<keys, envelopes>>

\* ReadKeyPair::import
ImportKey(x) ==
    /\ Importable(x.key)
    /\ Hold(x.to, Import(x.key))
    /\ UNCHANGED <<exports, envelopes>>

Fresh(o, nonce) ==
    \A e \in envelopes : e.data # [author |-> o, nonce |-> nonce]

Publish(e) ==
    /\ Cardinality(envelopes) < MaxEnvelopes
    /\ envelopes' = envelopes \cup {e}
    /\ UNCHANGED <<keys, exports>>

\* EncryptBuilder::encrypt in scope-based mode, or hybrid_encrypt.
EncryptToScope(o, nonce, algorithm, s) ==
    /\ Fresh(o, nonce)
    /\ Publish(SealToScope(o, [author |-> o, nonce |-> nonce], algorithm, s))

\* The keys a recipient list can name: those somebody holds.
KnownSecrets == {k.secret : k \in UNION {keys[p] : p \in Principal}}

RecipientLists ==
    {R \in SUBSET KnownSecrets : R # {} /\ Cardinality(R) <= MaxRecipients}

\* EncryptBuilder::encrypt in recipient mode; an empty list is refused.
EncryptToRecipients(o, nonce, s, R) ==
    /\ Fresh(o, nonce)
    /\ R # {}
    /\ Publish(SealToRecipients(o, [author |-> o, nonce |-> nonce], s, R))

\* A slip: any envelope can be rekeyed, listed key or not.
RekeyUnlisted(o, k, e, R) ==
    /\ R # {}
    /\ e.mode = "Recipient"
    /\ Publish(Rekeyed(o, e, R))

\* rekey_recipients by a holder of a spend key and of a listed read key.  It
\* checks the signature against the key named in the envelope itself.
Rekey(o, k, e, R) ==
    /\ R # {}
    /\ Unwraps(e, k)
    /\ Publish(Rekeyed(o, e, R))

Next ==
    \/ \E o \in Owner : DeriveRoot(o)
    \/ \E p \in Principal : \E k \in keys[p], s \in Scope :
           \/ DeriveForSelf(p, k, s)
           \/ \E q \in Principal \ {p} : HandOver(p, k, s, q)
    \/ \E x \in exports : ImportKey(x)
    \/ \E o \in Owner, s \in Scope, n \in Nonce :
           \/ \E a \in Algorithm : EncryptToScope(o, n, a, s)
           \/ \E R \in RecipientLists : EncryptToRecipients(o, n, s, R)
    \/ \E o \in Owner, e \in envelopes : \E k \in keys[o], R \in RecipientLists :
           Rekey(o, k, e, R)

Spec == Init /\ [][Next]_vars

-------------------------------------------------------------------------------
(* Properties *)

ExportRecord == [from : Principal, to : Principal, key : ExportedReadKey]

\* Type correctness of keyrings, exported keys and envelopes (read.rs,
\* envelope.rs).
TypeOK ==
    /\ keys \in [Principal -> SUBSET ReadKey]
    /\ exports \subseteq ExportRecord
    /\ envelopes \subseteq Envelope

\* Whatever the route by which a read key of owner o and scope s came about
\* (in one derivation or several, through exports and imports), its secret is
\* the one o would derive for s, and its parent id is that of the key of a
\* scope strictly above s (derive.rs:44-82, read.rs:79-144).
Canonical(k) ==
    /\ k.secret = CanonicalSecret(k.secret.seed, k.scope)
    /\ \/ k.parent = NoParent /\ k.scope = Root
       \/ \E a \in Scope :
              /\ IsProperDescendant(k.scope, a)
              /\ k.parent = KeyId(CanonicalSecret(k.secret.seed, a))

KeysAreCanonical ==
    /\ \A p \in Principal : \A k \in keys[p] : Canonical(k)
    /\ \A x \in exports : Canonical(Import(x.key)) /\ Importable(x.key)

\* A key opens a scope-based envelope, classical or hybrid, exactly when it
\* descends from the signer's spend key and its scope is the envelope's or
\* above it: the key the reader derives is the key the writer derived
\* (encrypt.rs:308-375, rok-pq/envelope.rs:99-182).
ReadIffAuthorised ==
    \A p \in Principal : \A k \in keys[p], e \in envelopes :
        e.mode = "ScopeBased" =>
            (Decrypts(e, k) <=>
                /\ k.secret.seed = e.signer
                /\ IsAncestorOf(k.scope, e.scope))

\* Every access entry locks its data key under the canonical key of some scope
\* and, in scope-based mode, of the envelope's own scope (encrypt.rs:233-246,
\* rok-pq/envelope.rs:29-71).
CanonicalEnvelope(e) ==
    /\ \A entry \in e.entries : \E o \in Owner, s \in Scope :
           entry = Entry(e.algorithm, CanonicalSecret(o, s), e.scope)
    /\ e.mode = "ScopeBased" =>
           e.entries = {Entry(e.algorithm, CanonicalSecret(e.signer, e.scope), e.scope)}
    /\ e.mode = "Recipient" => e.algorithm = "Classical"

EnvelopesAreCanonical == \A e \in envelopes : CanonicalEnvelope(e)

\* Every secret that HKDF lets the holder of a secret reach, with whatever
\* info it likes: the same seed, and a chain that prolongs the one it has.
Reaches(secret, target) ==
    /\ secret.seed = target.seed
    /\ IsPrefix(secret.chain, target.chain)

\* Holding the keys of p, and no scope check standing in the way, e opens.
CanOpen(p, e) ==
    \E k \in keys[p], entry \in e.entries : Reaches(k.secret, entry.kek.x25519)

\* What p was entitled to: its own tree if it is an owner, and what was
\* handed to it.
Entitlements(p) ==
    {[seed |-> x.key.secret.seed, scope |-> x.key.scope] : x \in {y \in exports : y.to = p}}
        \cup (IF p \in Owner THEN {[seed |-> p, scope |-> Root]} ELSE {})

\* Every key somebody holds lies in a subtree it was entitled to.
Entitled(p, k) ==
    \E t \in Entitlements(p) :
        t.seed = k.secret.seed /\ IsAncestorOf(t.scope, k.scope)

KeysAreEntitled == \A p \in Principal : \A k \in keys[p] : Entitled(p, k)

\* No principal can open an envelope, by derivation of any kind and even
\* without the scope check of decrypt, unless something it was handed (or its
\* own spend key) covers the scope of one of the listed keys.  Keys never
\* reach upwards or sideways (README.md:677, derive.rs:44-82).
Confinement ==
    \A p \in Principal, e \in envelopes :
        CanOpen(p, e) =>
            \E t \in Entitlements(p), entry \in e.entries, s \in Scope :
                /\ entry.kek.x25519 = CanonicalSecret(t.seed, s)
                /\ IsAncestorOf(t.scope, s)

\* Whoever holds a key an envelope lists can decrypt it, whatever the scope of
\* the key in recipient mode, and a change of the recipient list does not spoil
\* that for the new recipients (encrypt.rs:320-375, 386-477).
ListedKeyDecrypts ==
    \A p \in Principal : \A k \in keys[p], e \in envelopes :
        (\E entry \in e.entries : entry.id = KeyId(k.secret)) => Decrypts(e, k)

\* If an owner has signed an envelope whose data key another owner generated,
\* it could read an envelope with that data key that someone else signed: a
\* recipient list changes hands only through a listed reader
\* (encrypt.rs:417-430).
SignersHadAccess ==
    \A e \in envelopes :
        e.signer # e.data.author =>
            \E f \in envelopes, k \in keys[e.signer] :
                /\ f.data = e.data
                /\ f.signer # e.signer
                /\ Decrypts(f, k)

\* The inductive invariant of the proofs: what the properties above rest on,
\* strong enough to be preserved by every step.
IInv ==
    /\ TypeOK
    /\ KeysAreCanonical
    /\ EnvelopesAreCanonical
    /\ KeysAreEntitled

===============================================================================
