------------------------------- MODULE ReadKeys -------------------------------
(***************************************************************************)
(* Read keys and their derivation (rok-core/src/derive.rs, keys/read.rs,   *)
(* keys/spend.rs), with symbolic cryptography.  HKDF is a free             *)
(* constructor: a secret is the spend seed it comes from and the chain of  *)
(* scope paths the derivation went through.  A public key, and the key id  *)
(* that is its hash, is the image of the secret under an injective         *)
(* function; collisions of the 8-byte id are outside the model.            *)
(***************************************************************************)
EXTENDS Scopes

CONSTANTS
    Owner,      \* holders of a spend key, which stands for its seed as well
    NoParent    \* the parent key id of a root read key

Secret == [seed : Owner, chain : Seq(Scope)]

KeyId(secret) == [keyOf |-> secret]

KeyIds == [keyOf : Secret]

ReadKey == [secret : Secret, scope : Scope, parent : KeyIds \cup {NoParent}]

\* SpendKeyPair::derive_root_read_key
RootReadKey(o) ==
    [secret |-> [seed |-> o, chain |-> <<>>], scope |-> Root, parent |-> NoParent]

\* Plausible slips in the derivation loop: one HKDF step straight to the
\* child, and a step that leaves the path out of the HKDF info.
DeriveInOneStep(secret, from, to) ==
    [secret EXCEPT !.chain = Append(@, to)]
DeriveWithoutPath(secret, from, to) ==
    [secret EXCEPT !.chain = @ \o [i \in 1..(Len(to) - Len(from)) |-> Root]]

\* derive_child_read_secret: one HKDF step per level below `from`, each keyed
\* by the previous secret and with the intermediate path as its info.
DeriveChildSecret(secret, from, to) ==
    [secret EXCEPT !.chain =
        @ \o [i \in 1..(Len(to) - Len(from)) |-> PathPrefix(to, Len(from) + i)]]

CanAccess(k, s) == IsAncestorOf(k.scope, s)

\* A slip: the parent's secret, not its id, is recorded in the child.
DeriveChildLeakingSecret(k, s) ==
    [secret |-> DeriveChildSecret(k.secret, k.scope, s),
     scope  |-> s,
     parent |-> k.secret]

\* ReadKeyPair::derive_child, defined where IsProperDescendant(s, k.scope).
DeriveChild(k, s) ==
    [secret |-> DeriveChildSecret(k.secret, k.scope, s),
     scope  |-> s,
     parent |-> KeyId(k.secret)]

\* ExportedReadKey: the fields of the key and its public half.
ExportedReadKey ==
    [secret : Secret, public : KeyIds, scope : Scope, parent : KeyIds \cup {NoParent}]

Export(k) ==
    [secret |-> k.secret, public |-> KeyId(k.secret),
     scope |-> k.scope, parent |-> k.parent]

\* ReadKeyPair::import: refused unless the public half belongs to the secret.
Importable(x) == x.public = KeyId(x.secret)

Import(x) == [secret |-> x.secret, scope |-> x.scope, parent |-> x.parent]

\* What the derivation is meant to produce for scope s, whatever the route.
CanonicalSecret(o, s) == [seed |-> o, chain |-> PathTo(s)]

\* The key of scope s that the spend key of o leads to.
ScopeKeySecret(o, s) ==
    IF s = Root THEN RootReadKey(o).secret
    ELSE DeriveChild(RootReadKey(o), s).secret

===============================================================================
