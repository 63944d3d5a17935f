--------------------------------- MODULE Vault ---------------------------------
(***************************************************************************)
(* The document vault (rok-sdk/src/vault.rs) with recipients taken from an *)
(* access policy, as the policy's documentation has it (policy.rs:6-9).    *)
(*                                                                         *)
(* Rekeying walks over the documents one by one, in the order of a hash    *)
(* map, and returns at the first failure.  The vault is borrowed meanwhile, *)
(* the policy is not.  A document is encrypted for recipients, so that a   *)
(* key opens it exactly if it is among them (ListedKeyDecrypts).           *)
(***************************************************************************)
EXTENDS AccessPolicy

CONSTANTS
    Doc,        \* names of documents
    None,       \* no rekeying
    MaxRekeys   \* bound: calls of rekey

VARIABLES
    docs,       \* docs[d]: scope and readers of document d, where there is one
    rekey,      \* the rekeying under way, or the last one
    rekeys,     \* calls of rekey so far
    out         \* history: pairs <<key, scope>> shut out by a rekeying

vaultVars == <<docs, rekey, rekeys, out>>
vars == <<policyVars, vaultVars>>

Init == PolicyInit /\ docs = <<>> /\ rekey = None /\ rekeys = 0 /\ out = {}

Rekeying == rekey # None /\ rekey.at = "running"

-------------------------------------------------------------------------------
\* A slip: a document without readers is stored all the same.
StoreForNobody(doc, scope) ==
    /\ ~Rekeying
    /\ docs' = [d \in DOMAIN docs \cup {doc} |->
                   IF d = doc THEN [scope |-> scope, readers |-> KeyIdsForScope(scope)]
                   ELSE docs[d]]
    /\ rekey' = None
    /\ UNCHANGED <<policyVars, rekeys, out>>

\* Vault::store, for the keys of the policy; encrypt refuses an empty list.
Store(doc, scope) ==
    /\ ~Rekeying
    /\ KeyIdsForScope(scope) # {}
    /\ docs' = [d \in DOMAIN docs \cup {doc} |->
                   IF d = doc THEN [scope |-> scope, readers |-> KeyIdsForScope(scope)]
                   ELSE docs[d]]
    /\ rekey' = None
    /\ UNCHANGED <<policyVars, rekeys, out>>

\* Vault::retrieve
Retrieves(doc, key) == doc \in DOMAIN docs /\ key \in docs[doc].readers

\* The keys that the policy lists nowhere at or below a scope.
Unlisted(scope) ==
    {key \in Key : \A s \in Scope : IsAncestorOf(scope, s) => key \notin KeyIdsForScope(s)}

\* A slip: documents of exactly the scope.
DocsOfScope(scope) == {d \in DOMAIN docs : docs[d].scope = scope}

\* names_to_rekey: the documents at the scope and below.
DocsBelow(scope) == {d \in DOMAIN docs : IsAncestorOf(scope, docs[d].scope)}

\* Vault::rekey begins: the names are collected, the recipients were asked for.
RekeyBegin(scope, key) ==
    /\ ~Rekeying
    /\ rekeys < MaxRekeys
    /\ rekeys' = rekeys + 1
    /\ rekey' = [at |-> "running", scope |-> scope, key |-> key,
                 readers |-> KeyIdsForScope(scope), left |-> DocsBelow(scope),
                 shut |-> Unlisted(scope), before |-> docs]
    /\ UNCHANGED <<policyVars, docs, out>>

\* A slip: a document that cannot be rekeyed is passed over.
RekeyDocOrSkip(doc) ==
    /\ Rekeying /\ doc \in rekey.left
    /\ docs' = IF rekey.key \in docs[doc].readers /\ rekey.readers # {}
               THEN [docs EXCEPT ![doc].readers = rekey.readers] ELSE docs
    /\ rekey' = [rekey EXCEPT !.left = @ \ {doc}]
    /\ UNCHANGED <<policyVars, rekeys, out>>

\* One document: decrypted with the given key and encrypted for the new
\* recipients; a failure of either ends the call.
RekeyDoc(doc) ==
    /\ Rekeying /\ doc \in rekey.left
    /\ IF rekey.key \in docs[doc].readers /\ rekey.readers # {}
       THEN /\ docs' = [docs EXCEPT ![doc].readers = rekey.readers]
            /\ rekey' = [rekey EXCEPT !.left = @ \ {doc}]
       ELSE rekey' = [rekey EXCEPT !.at = "failed"] /\ UNCHANGED docs
    /\ UNCHANGED <<policyVars, rekeys, out>>

\* Ok(count)
RekeyEnd ==
    /\ Rekeying /\ rekey.left = {}
    /\ rekey' = [rekey EXCEPT !.at = "done"]
    /\ out' = out \cup (rekey.shut \X {rekey.scope})
    /\ UNCHANGED <<policyVars, docs, rekeys>>

-------------------------------------------------------------------------------
\* A grant ends what an earlier rekeying had shut out.
Readmitted(scope, key) ==
    {p \in Key \X Scope : p[1] = key /\ (IsAncestorOf(p[2], scope) \/ IsAncestorOf(scope, p[2]))}

PolicyStep ==
    \/ \E scope \in Scope, key \in Key, expires \in Expiry \cup {NoExpiry} :
           /\ Grant(scope, key, expires)
           /\ out' = out \ Readmitted(scope, key)
           /\ rekey' = IF Rekeying /\ <<key, rekey.scope>> \in Readmitted(scope, key)
                       THEN [rekey EXCEPT !.shut = @ \ {key}] ELSE rekey
           /\ UNCHANGED <<docs, rekeys>>
    \/ /\ (\E scope \in Scope, key \in Key : Revoke(scope, key)) \/ SaveAndLoad \/ Tick
       /\ UNCHANGED vaultVars

\* The bounds are reached.
Finished ==
    /\ grants = MaxGrants /\ now = MaxTime /\ rekeys = MaxRekeys /\ ~Rekeying
    /\ UNCHANGED vars

Next ==
    \/ PolicyStep
    \/ \E scope \in Scope :
           (\E doc \in Doc : Store(doc, scope)) \/ (\E key \in Key : RekeyBegin(scope, key))
    \/ \E doc \in Doc : RekeyDoc(doc)
    \/ RekeyEnd
    \/ Finished

Spec == Init /\ [][Next]_vars

-------------------------------------------------------------------------------
(* Properties *)

Document == [scope : Scope, readers : (SUBSET Key) \ {{}}]
Documents(set) == UNION {[names -> Document] : names \in SUBSET set}

\* Type correctness: every document has a reader, and what a rekeying has left
\* to do are documents at its scope and below.
TypeOK ==
    /\ PolicyTypeOK
    /\ docs \in Documents(Doc)
    /\ rekey # None =>
           /\ rekey.at \in {"running", "failed", "done"}
           /\ rekey.scope \in Scope /\ rekey.key \in Key
           /\ rekey.readers \subseteq Key /\ rekey.shut \subseteq Key
           /\ rekey.before \in Documents(Doc)
           /\ rekey.left \subseteq DocsBelow(rekey.scope)
    /\ rekeys \in Nat
    /\ out \subseteq Key \X Scope

\* The documents a rekeying is about, as they were when it began.
Concerned == {d \in DOMAIN rekey.before : IsAncestorOf(rekey.scope, rekey.before[d].scope)}
Resealed(d) == [scope |-> rekey.before[d].scope, readers |-> rekey.readers]

\* Whatever the order of the hash map: a rekeying that returns Ok has left every
\* document at the scope and below to exactly the new recipients, one that fails
\* met a document its key does not open or had no recipients, and a document is
\* never lost, moved, or given other readers than the old or the new ones
\* (vault.rs:93-125).
RekeyIsExplained ==
    rekey # None =>
        /\ DOMAIN docs = DOMAIN rekey.before
        /\ \A d \in DOMAIN docs :
               docs[d] # rekey.before[d] => d \in Concerned /\ docs[d] = Resealed(d)
        /\ rekey.at = "done" => \A d \in Concerned : docs[d] = Resealed(d)
        /\ rekey.at = "failed" =>
               \E d \in Concerned :
                   /\ docs[d] = rekey.before[d]
                   /\ rekey.key \notin docs[d].readers \/ rekey.readers = {}

\* No grant has named a time of zero, which loading turns into no expiry.
NoZeroGrants == \A t \in terms : t[2] # 0

\* Revocation that works: a key that the policy lists nowhere at or below a scope
\* when a rekeying of that scope begins opens no document there once it has
\* returned Ok, and none stored later, until the key is granted again; expiry,
\* saved policies and grants to others meanwhile make no difference
\* (policy.rs:49-87, vault.rs:88-125).
RevokedStaysOut ==
    NoZeroGrants =>
        \A p \in out, d \in DOMAIN docs :
            IsAncestorOf(p[2], docs[d].scope) => ~Retrieves(d, p[1])

===============================================================================
