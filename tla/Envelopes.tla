------------------------------- MODULE Envelopes -------------------------------
(***************************************************************************)
(* Encrypted envelopes: rok-core/src/encrypt.rs and rok-pq/src/envelope.rs.*)
(* A signature is the name of the signer, an access entry is the data key  *)
(* locked by a key-encryption key (kek) under the key id it is listed for. *)
(* Both algorithms are here: the hybrid one adds an ML-KEM part, derived   *)
(* from the read secret and the scope, to the kek.                         *)
(***************************************************************************)
EXTENDS ReadKeys

CONSTANT Nonce     \* distinguishes the data keys one owner generates

DataKey == [author : Owner, nonce : Nonce]

Kek(algorithm, secret, scope) ==
    IF algorithm = "Classical"
    THEN [x25519 |-> secret]
    ELSE [x25519 |-> secret, mlkem |-> <<secret, scope>>]

\* wrap_data_key
Entry(algorithm, secret, scope) ==
    [id |-> KeyId(secret), kek |-> Kek(algorithm, secret, scope)]

AccessEntry ==
    [id : KeyIds, kek : [x25519 : Secret] \cup [x25519 : Secret, mlkem : Secret \X Scope]]

Algorithm == {"Classical", "Hybrid"}
AccessMode == {"ScopeBased", "Recipient"}

Envelope ==
    [data : DataKey, algorithm : Algorithm, scope : Scope, mode : AccessMode,
     signer : Owner, entries : SUBSET AccessEntry]

\* EncryptBuilder::encrypt after set_scope_based, and hybrid_encrypt: the only
\* recipient is the key of the scope itself.
SealToScope(o, data, algorithm, s) ==
    [data |-> data, algorithm |-> algorithm, scope |-> s, mode |-> "ScopeBased",
     signer |-> o, entries |-> {Entry(algorithm, ScopeKeySecret(o, s), s)}]

\* EncryptBuilder::encrypt with a recipient list (classical only).
SealToRecipients(o, data, s, recipients) ==
    [data |-> data, algorithm |-> "Classical", scope |-> s, mode |-> "Recipient",
     signer |-> o, entries |-> {Entry("Classical", r, s) : r \in recipients}]

\* decrypt works below the scope of the key only in scope-based mode;
\* hybrid_decrypt does not look at the mode.
ScopeDecides(e) == e.mode = "ScopeBased" \/ e.algorithm = "Hybrid"

\* The secret decryption goes on with: the reader's own, or the one it derives
\* for the scope of the envelope.
DecryptSecret(e, k) ==
    IF ScopeDecides(e) /\ k.scope # e.scope
    THEN DeriveChild(k, e.scope).secret
    ELSE k.secret

\* A slip: the scope is checked in recipient mode too.
ScopeCheckedInBothModes(e, k) == CanAccess(k, e.scope)

ScopeCheckPasses(e, k) == ScopeDecides(e) => CanAccess(k, e.scope)

\* A slip: an ancestor's key is used as it is, without deriving down.
OutcomeWithoutDerivation(e, k, vk) ==
    IF vk # e.signer THEN "SignatureVerificationFailed"
    ELSE IF ~ScopeCheckPasses(e, k) THEN "ScopeMismatch"
    ELSE IF \A entry \in e.entries : entry.id # KeyId(k.secret)
         THEN "NoMatchingAccessEntry"
    ELSE "Plaintext"

\* decrypt and hybrid_decrypt, chosen by the algorithm of the envelope as
\* rok-cli's decrypt does: the first check that fails decides the error.
Outcome(e, k, vk) ==
    IF vk # e.signer THEN "SignatureVerificationFailed"
    ELSE IF ~ScopeCheckPasses(e, k) THEN "ScopeMismatch"
    ELSE LET secret == DecryptSecret(e, k)
             mine == {entry \in e.entries : entry.id = KeyId(secret)}
         IN  IF mine = {} THEN "NoMatchingAccessEntry"
             ELSE IF \E entry \in mine : entry.kek = Kek(e.algorithm, secret, e.scope)
                  THEN "Plaintext"
                  ELSE "DecryptionError"

Decrypts(e, k) == Outcome(e, k, e.signer) = "Plaintext"

\* rekey_recipients unwraps the data key with this key: the mode, the listing
\* and the classical unwrap are its guards.
Unwraps(e, k) ==
    /\ e.mode = "Recipient"
    /\ Entry("Classical", k.secret, e.scope) \in e.entries

\* The envelope rekey_recipients returns: same data key and ciphertext.
Rekeyed(o, e, recipients) ==
    [e EXCEPT !.entries = {Entry("Classical", r, e.scope) : r \in recipients},
              !.signer = o,
              !.mode = "Recipient"]

===============================================================================
