------------------------------ MODULE AccessPolicy ------------------------------
(***************************************************************************)
(* The access policy of the SDK (rok-sdk/src/policy.rs): which keys are to *)
(* be given access at which scope, with an optional expiry.                *)
(*                                                                         *)
(* The code keeps a list of rules; grant looks for the rule of its scope   *)
(* and makes one only if there is none, so that a scope never has two, and *)
(* the order of rules and of keys does not show in what is asked of them.  *)
(***************************************************************************)
EXTENDS Scopes, Functions

CONSTANTS
    Key,        \* ids of read keys
    Expiry,     \* Unix times a grant may name
    NoExpiry,   \* ... or none (None in Rust)
    MaxTime,    \* bound: the clock
    MaxGrants   \* bound: grants

ASSUME ExpiryAssumption == Expiry \subseteq Nat /\ NoExpiry \notin Nat

VARIABLES
    rules,      \* rules[s]: the rule of scope s, where there is one
    now,        \* the system clock, in seconds
    grants,     \* how many grants there were
    terms,      \* history: pairs <<scope, expiry>> of all grants
    granted     \* history: the last expiry granted to <<scope, key>>, until it
                \* is revoked

policyVars == <<rules, now, grants, terms, granted>>

Rule(keys, expires) == [keys |-> keys, expires |-> expires]

PolicyInit == rules = <<>> /\ now = 0 /\ grants = 0 /\ terms = {} /\ granted = <<>>

-------------------------------------------------------------------------------
\* A rule that exists gets the key and keeps its own expiry.
Grant(scope, key, expires) ==
    /\ grants < MaxGrants
    /\ rules' = IF scope \in DOMAIN rules
                THEN [rules EXCEPT ![scope].keys = @ \cup {key}]
                ELSE [s \in DOMAIN rules \cup {scope} |->
                         IF s = scope THEN Rule({key}, expires) ELSE rules[s]]
    /\ grants' = grants + 1
    /\ terms' = terms \cup {<<scope, expires>>}
    /\ granted' = [p \in DOMAIN granted \cup {<<scope, key>>} |->
                       IF p = <<scope, key>> THEN expires ELSE granted[p]]
    /\ UNCHANGED now

\* The rule stays, even without keys.
Revoke(scope, key) ==
    /\ rules' = [s \in DOMAIN rules |->
                    IF s = scope THEN [rules[s] EXCEPT !.keys = @ \ {key}] ELSE rules[s]]
    /\ granted' = Restrict(granted, DOMAIN granted \ {<<scope, key>>})
    /\ UNCHANGED <<now, grants, terms>>

\* Protobuf has no "none": a zero stands for it.
ThroughProto(expires) == IF expires = 0 THEN NoExpiry ELSE expires

\* to_proto_bytes and from_proto_bytes: the policy is saved and loaded.  (Through
\* JSON it comes back as it was.)
SaveAndLoad ==
    /\ rules' = [s \in DOMAIN rules |-> [rules[s] EXCEPT !.expires = ThroughProto(@)]]
    /\ UNCHANGED <<now, grants, terms, granted>>

Tick == now < MaxTime /\ now' = now + 1 /\ UNCHANGED <<rules, grants, terms, granted>>

\* A slip: a rule ends with the second it names.
ExpiredAt(expires) == expires # NoExpiry /\ now >= expires

Expired(expires) == expires # NoExpiry /\ now > expires

\* AccessPolicy::key_ids_for_scope
KeyIdsForScope(scope) ==
    UNION {rules[s].keys : s \in {r \in DOMAIN rules :
        IsAncestorOf(r, scope) /\ ~Expired(rules[r].expires)}}

-------------------------------------------------------------------------------
(* Properties *)

PolicyTypeOK ==
    /\ DOMAIN rules \subseteq Scope
    /\ \A s \in DOMAIN rules :
           rules[s] \in [keys : SUBSET Key, expires : Expiry \cup {NoExpiry}]
    /\ now \in Nat
    /\ grants \in Nat
    /\ terms \subseteq Scope \X (Expiry \cup {NoExpiry})
    /\ DOMAIN granted \subseteq Scope \X Key
    /\ \A p \in DOMAIN granted : granted[p] \in Expiry \cup {NoExpiry}

\* Every grant at the scope, ever, named the same expiry, and not zero.
Uniform(scope) ==
    /\ <<scope, 0>> \notin terms
    /\ \A t, u \in terms : t[1] = scope /\ u[1] = scope => t = u

\* The keys granted at a scope or above, not revoked since where they were
\* granted, and not expired.
Entitled(scope) ==
    {key \in Key : \E s \in Scope :
        /\ IsAncestorOf(s, scope)
        /\ <<s, key>> \in DOMAIN granted
        /\ granted[<<s, key>>] = NoExpiry \/ granted[<<s, key>>] >= now}

\* Where the grants at each scope named one expiry, the keys listed for a scope
\* are those entitled to it, across other grants, revocations, time, saving and
\* loading (policy.rs:30-87, 105-171).
AccessMatchesGrants ==
    \A scope \in Scope :
        (\A s \in Scope : IsAncestorOf(s, scope) => Uniform(s)) =>
            KeyIdsForScope(scope) = Entitled(scope)

\* "Grant access with optional expiry" (README.md:554): a key is listed as long
\* as its own grant lasts, and no longer.
ExpiryHonoured == \A scope \in Scope : KeyIdsForScope(scope) = Entitled(scope)

===============================================================================
