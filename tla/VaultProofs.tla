------------------------------ MODULE VaultProofs ------------------------------
(***************************************************************************)
(* Proofs about Vault and the access policy it takes its recipients from:  *)
(* what the policy lists, what a rekeying leaves behind, and that who was  *)
(* shut out stays out.                                                     *)
(***************************************************************************)
EXTENDS Vault, TLAPS

-------------------------------------------------------------------------------
(* Scopes *)

\* is_ancestor_of is reflexive and transitive (scope.rs:74-84).
LEMMA AncestorOrder ==
    ASSUME NEW s \in Scope, NEW t \in Scope, NEW u \in Scope
    PROVE  /\ IsAncestorOf(s, s)
           /\ IsAncestorOf(s, t) /\ IsAncestorOf(t, u) => IsAncestorOf(s, u)
  <1>1. s \in Seq(Segment) /\ t \in Seq(Segment) /\ u \in Seq(Segment)
    BY ScopeAssumption
  <1>2. IsAncestorOf(s, s)
    BY <1>1 DEF IsAncestorOf, IsPrefix
  <1>3. IsAncestorOf(s, t) /\ IsAncestorOf(t, u) => IsAncestorOf(s, u)
    BY <1>1 DEF IsAncestorOf, IsPrefix
  <1> QED
    BY <1>2, <1>3

\* Two ancestors of a scope are comparable: scopes form a tree.
LEMMA AncestorsAreAChain ==
    ASSUME NEW s \in Scope, NEW t \in Scope, NEW u \in Scope,
           IsAncestorOf(s, u), IsAncestorOf(t, u)
    PROVE  IsAncestorOf(s, t) \/ IsAncestorOf(t, s)
  <1>1. /\ s \in Seq(Segment) /\ t \in Seq(Segment) /\ u \in Seq(Segment)
        /\ Len(s) \in Nat /\ Len(t) \in Nat /\ Len(u) \in Nat
    BY ScopeAssumption
  <1>2. CASE Len(s) <= Len(t)
    BY <1>1, <1>2 DEF IsAncestorOf, IsPrefix
  <1>3. CASE Len(t) <= Len(s)
    BY <1>1, <1>3 DEF IsAncestorOf, IsPrefix
  <1> QED
    BY <1>1, <1>2, <1>3

-------------------------------------------------------------------------------
(* The policy *)

\* What the rules say of the grants so far.  A rule has the keys granted at its
\* scope and not revoked since; its expiry is one that was granted there, or it
\* came from a zero when the policy was loaded.
PolicyInv ==
    /\ PolicyTypeOK
    /\ \A s \in DOMAIN rules :
           /\ \A k \in Key : k \in rules[s].keys <=> <<s, k>> \in DOMAIN granted
           /\ <<s, rules[s].expires>> \in terms \/ <<s, 0>> \in terms
           /\ rules[s].expires = 0 => <<s, 0>> \in terms
    /\ \A s \in Scope, k \in Key :
           <<s, k>> \in DOMAIN granted =>
               s \in DOMAIN rules /\ <<s, granted[<<s, k>>]>> \in terms

\* A step of the policy alone.
PolicyMoves ==
    \/ \E scope \in Scope, key \in Key, expires \in Expiry \cup {NoExpiry} :
           Grant(scope, key, expires)
    \/ \E scope \in Scope, key \in Key : Revoke(scope, key)
    \/ SaveAndLoad
    \/ Tick

\* What a grant does to the rules: the rule of the scope has the key from then
\* on, and keeps its expiry if it was there (policy.rs:30-46).
LEMMA GrantEffect ==
    ASSUME PolicyTypeOK, NEW scope \in Scope, NEW key \in Key,
           NEW expires \in Expiry \cup {NoExpiry}, Grant(scope, key, expires)
    PROVE  /\ DOMAIN rules' = DOMAIN rules \cup {scope}
           /\ \A s \in DOMAIN rules : s # scope => rules'[s] = rules[s]
           /\ scope \in DOMAIN rules =>
                 rules'[scope] = Rule(rules[scope].keys \cup {key}, rules[scope].expires)
           /\ scope \notin DOMAIN rules => rules'[scope] = Rule({key}, expires)
           /\ DOMAIN granted' = DOMAIN granted \cup {<<scope, key>>}
           /\ granted'[<<scope, key>>] = expires
           /\ \A p \in DOMAIN granted : p # <<scope, key>> => granted'[p] = granted[p]
  <1>1. CASE scope \in DOMAIN rules
    <2>1. rules' = [rules EXCEPT ![scope].keys = @ \cup {key}]
      BY <1>1 DEF Grant
    <2>2. rules[scope] \in [keys : SUBSET Key, expires : Expiry \cup {NoExpiry}]
      BY <1>1 DEF PolicyTypeOK
    <2>3. /\ rules'[scope] = [rules[scope] EXCEPT !.keys = @ \cup {key}]
          /\ DOMAIN rules' = DOMAIN rules
          /\ \A s \in DOMAIN rules : s # scope => rules'[s] = rules[s]
      BY <1>1, <2>1
    <2>4. rules'[scope] = Rule(rules[scope].keys \cup {key}, rules[scope].expires)
      BY <2>2, <2>3 DEF Rule
    <2>5. DOMAIN rules \cup {scope} = DOMAIN rules
      BY <1>1
    <2> QED
      BY <1>1, <2>3, <2>4, <2>5 DEF Grant
  <1>2. CASE scope \notin DOMAIN rules
    <2>1. rules' = [s \in DOMAIN rules \cup {scope} |->
                       IF s = scope THEN Rule({key}, expires) ELSE rules[s]]
      BY <1>2 DEF Grant
    <2> QED
      BY <1>2, <2>1 DEF Grant
  <1> QED
    BY <1>1, <1>2

\* What a revocation does: the key leaves the rule of the scope, where there is
\* one (policy.rs:49-56).
LEMMA RevokeEffect ==
    ASSUME PolicyTypeOK, NEW scope \in Scope, NEW key \in Key, Revoke(scope, key)
    PROVE  /\ DOMAIN rules' = DOMAIN rules
           /\ \A s \in DOMAIN rules :
                 rules'[s] = IF s = scope THEN Rule(rules[s].keys \ {key}, rules[s].expires)
                                          ELSE rules[s]
           /\ DOMAIN granted' = DOMAIN granted \ {<<scope, key>>}
           /\ \A p \in DOMAIN granted' : granted'[p] = granted[p]
  <1>1. \A s \in DOMAIN rules :
           rules[s] \in [keys : SUBSET Key, expires : Expiry \cup {NoExpiry}]
    BY DEF PolicyTypeOK
  <1>2. /\ DOMAIN rules' = DOMAIN rules
        /\ \A s \in DOMAIN rules :
              rules'[s] = IF s = scope THEN [rules[s] EXCEPT !.keys = @ \ {key}] ELSE rules[s]
    BY DEF Revoke
  <1>3. \A s \in DOMAIN rules :
           [rules[s] EXCEPT !.keys = @ \ {key}] = Rule(rules[s].keys \ {key}, rules[s].expires)
    <2> SUFFICES ASSUME NEW s \in DOMAIN rules
                 PROVE  [rules[s] EXCEPT !.keys = @ \ {key}]
                          = Rule(rules[s].keys \ {key}, rules[s].expires)
      OBVIOUS
    <2>1. rules[s] \in [keys : SUBSET Key, expires : Expiry \cup {NoExpiry}]
      BY <1>1
    <2> QED
      BY <2>1 DEF Rule
  <1>4. /\ DOMAIN granted' = DOMAIN granted \ {<<scope, key>>}
        /\ \A p \in DOMAIN granted' : granted'[p] = granted[p]
    BY DEF Revoke, Restrict
  <1> QED
    BY <1>2, <1>3, <1>4

\* What saving and loading does: an expiry of zero is lost (policy.rs:116-166).
LEMMA SaveAndLoadEffect ==
    ASSUME PolicyTypeOK, SaveAndLoad
    PROVE  /\ DOMAIN rules' = DOMAIN rules
           /\ \A s \in DOMAIN rules :
                 rules'[s] = Rule(rules[s].keys, ThroughProto(rules[s].expires))
  <1>1. \A s \in DOMAIN rules :
           rules[s] \in [keys : SUBSET Key, expires : Expiry \cup {NoExpiry}]
    BY DEF PolicyTypeOK
  <1>2. /\ DOMAIN rules' = DOMAIN rules
        /\ \A s \in DOMAIN rules :
              rules'[s] = [rules[s] EXCEPT !.expires = ThroughProto(@)]
    BY DEF SaveAndLoad
  <1> QED
    BY <1>1, <1>2 DEF Rule

\* A grant keeps what relates the rules to the entitlements.
LEMMA GrantKeepsPolicy ==
    ASSUME PolicyInv, NEW scope \in Scope, NEW key \in Key,
           NEW expires \in Expiry \cup {NoExpiry}, Grant(scope, key, expires)
    PROVE  PolicyInv'
  <1> DEFINE RuleType == [keys : SUBSET Key, expires : Expiry \cup {NoExpiry}]
  <1>0. PolicyTypeOK
    BY DEF PolicyInv
  <1>1. /\ DOMAIN rules' = DOMAIN rules \cup {scope}
        /\ \A s \in DOMAIN rules : s # scope => rules'[s] = rules[s]
        /\ scope \in DOMAIN rules =>
              rules'[scope] = Rule(rules[scope].keys \cup {key}, rules[scope].expires)
        /\ scope \notin DOMAIN rules => rules'[scope] = Rule({key}, expires)
        /\ DOMAIN granted' = DOMAIN granted \cup {<<scope, key>>}
        /\ granted'[<<scope, key>>] = expires
        /\ \A p \in DOMAIN granted : p # <<scope, key>> => granted'[p] = granted[p]
    BY <1>0, GrantEffect
  <1>2. terms' = terms \cup {<<scope, expires>>} /\ now' = now /\ grants' = grants + 1
    BY DEF Grant
  <1>3. \A s \in DOMAIN rules : rules[s] \in RuleType
    BY <1>0 DEF PolicyTypeOK
  <1>4. rules'[scope] \in RuleType
    <2>1. CASE scope \in DOMAIN rules
      BY <2>1, <1>1, <1>3 DEF Rule
    <2>2. CASE scope \notin DOMAIN rules
      BY <2>2, <1>1 DEF Rule
    <2> QED
      BY <2>1, <2>2
  <1>5. \A s \in DOMAIN rules' : rules'[s] \in RuleType
    <2> HIDE DEF RuleType
    <2> QED
      BY <1>1, <1>3, <1>4
  <1>6. PolicyTypeOK'
    <2>1. DOMAIN rules' \subseteq Scope
      BY <1>0, <1>1 DEF PolicyTypeOK
    <2>2. now' \in Nat /\ grants' \in Nat
      BY <1>0, <1>2 DEF PolicyTypeOK
    <2>3. terms' \subseteq Scope \X (Expiry \cup {NoExpiry})
      BY <1>0, <1>2 DEF PolicyTypeOK
    <2>4. DOMAIN granted' \subseteq Scope \X Key
      BY <1>0, <1>1 DEF PolicyTypeOK
    <2>5. \A p \in DOMAIN granted' : granted'[p] \in Expiry \cup {NoExpiry}
      BY <1>0, <1>1 DEF PolicyTypeOK
    <2> QED
      BY <1>5, <2>1, <2>2, <2>3, <2>4, <2>5 DEF PolicyTypeOK
  <1>7. ASSUME NEW s \in DOMAIN rules'
        PROVE  /\ \A k \in Key : k \in rules'[s].keys <=> <<s, k>> \in DOMAIN granted'
               /\ <<s, rules'[s].expires>> \in terms' \/ <<s, 0>> \in terms'
               /\ rules'[s].expires = 0 => <<s, 0>> \in terms'
    <2>1. CASE s # scope
      <3>1. s \in DOMAIN rules /\ rules'[s] = rules[s]
        BY <1>1, <1>7, <2>1
      <3>2. \A k \in Key : <<s, k>> \in DOMAIN granted' <=> <<s, k>> \in DOMAIN granted
        BY <1>1, <2>1
      <3> QED
        BY <3>1, <3>2, <1>2 DEF PolicyInv
    <2>2. CASE s = scope /\ scope \in DOMAIN rules
      <3>1. rules'[s].keys = rules[s].keys \cup {key} /\ rules'[s].expires = rules[s].expires
        BY <1>1, <2>2 DEF Rule
      <3>2. \A k \in Key : <<s, k>> \in DOMAIN granted' <=> k = key \/ <<s, k>> \in DOMAIN granted
        BY <1>1, <2>2
      <3> QED
        BY <3>1, <3>2, <1>2, <2>2 DEF PolicyInv
    <2>3. CASE s = scope /\ scope \notin DOMAIN rules
      <3>1. rules'[s].keys = {key} /\ rules'[s].expires = expires
        BY <1>1, <2>3 DEF Rule
      <3>2. \A k \in Key : <<s, k>> \in DOMAIN granted' <=> k = key
        BY <1>1, <2>3 DEF PolicyInv
      <3> QED
        BY <3>1, <3>2, <1>2, <2>3
    <2> QED
      BY <2>1, <2>2, <2>3
  <1>8. ASSUME NEW s \in Scope, NEW k \in Key, <<s, k>> \in DOMAIN granted'
        PROVE  s \in DOMAIN rules' /\ <<s, granted'[<<s, k>>]>> \in terms'
    <2>1. CASE <<s, k>> = <<scope, key>>
      BY <2>1, <1>1, <1>2
    <2>2. CASE <<s, k>> # <<scope, key>>
      <3>1. <<s, k>> \in DOMAIN granted /\ granted'[<<s, k>>] = granted[<<s, k>>]
        BY <1>1, <1>8, <2>2
      <3> QED
        BY <3>1, <1>1, <1>2 DEF PolicyInv
    <2> QED
      BY <2>1, <2>2
  <1> QED
    BY <1>6, <1>7, <1>8 DEF PolicyInv

\* So does a revocation.
LEMMA RevokeKeepsPolicy ==
    ASSUME PolicyInv, NEW scope \in Scope, NEW key \in Key, Revoke(scope, key)
    PROVE  PolicyInv'
  <1>0. PolicyTypeOK
    BY DEF PolicyInv
  <1>1. /\ DOMAIN rules' = DOMAIN rules
        /\ \A s \in DOMAIN rules :
              rules'[s] = IF s = scope THEN Rule(rules[s].keys \ {key}, rules[s].expires)
                                       ELSE rules[s]
        /\ DOMAIN granted' = DOMAIN granted \ {<<scope, key>>}
        /\ \A p \in DOMAIN granted' : granted'[p] = granted[p]
    BY <1>0, RevokeEffect
  <1>2. now' = now /\ grants' = grants /\ terms' = terms
    BY DEF Revoke
  <1>3. \A s \in DOMAIN rules :
           /\ rules'[s].keys = IF s = scope THEN rules[s].keys \ {key} ELSE rules[s].keys
           /\ rules'[s].expires = rules[s].expires
    <2> SUFFICES ASSUME NEW s \in DOMAIN rules
                 PROVE  /\ rules'[s].keys = IF s = scope THEN rules[s].keys \ {key}
                                            ELSE rules[s].keys
                        /\ rules'[s].expires = rules[s].expires
      OBVIOUS
    <2>1. CASE s = scope
      <3>1. rules'[s] = Rule(rules[s].keys \ {key}, rules[s].expires)
        BY <1>1, <2>1
      <3> QED
        BY <3>1, <2>1 DEF Rule
    <2>2. CASE s # scope
      BY <1>1, <2>2
    <2> QED
      BY <2>1, <2>2
  <1>4. \A s \in DOMAIN rules' :
           rules'[s] \in [keys : SUBSET Key, expires : Expiry \cup {NoExpiry}]
    BY <1>0, <1>1 DEF PolicyTypeOK, Rule
  <1>5. PolicyTypeOK'
    BY <1>0, <1>1, <1>2, <1>4 DEF PolicyTypeOK
  <1>6. \A s \in DOMAIN rules : \A k \in Key :
           k \in rules'[s].keys <=> <<s, k>> \in DOMAIN granted'
    BY <1>1, <1>3 DEF PolicyInv
  <1> QED
    BY <1>1, <1>2, <1>3, <1>5, <1>6 DEF PolicyInv

\* So does a trip through the encoding.
LEMMA SaveAndLoadKeepsPolicy ==
    ASSUME PolicyInv, SaveAndLoad
    PROVE  PolicyInv'
  <1>0. PolicyTypeOK
    BY DEF PolicyInv
  <1>1. /\ DOMAIN rules' = DOMAIN rules
        /\ \A s \in DOMAIN rules :
              rules'[s] = Rule(rules[s].keys, ThroughProto(rules[s].expires))
    BY <1>0, SaveAndLoadEffect
  <1>2. now' = now /\ grants' = grants /\ terms' = terms /\ granted' = granted
    BY DEF SaveAndLoad
  <1>3. \A s \in DOMAIN rules :
           /\ rules'[s].keys = rules[s].keys
           /\ rules'[s].expires = ThroughProto(rules[s].expires)
    BY <1>1 DEF Rule
  <1>4. \A s \in DOMAIN rules' :
           rules'[s] \in [keys : SUBSET Key, expires : Expiry \cup {NoExpiry}]
    BY <1>0, <1>1 DEF PolicyTypeOK, Rule, ThroughProto
  <1>5. PolicyTypeOK'
    BY <1>0, <1>1, <1>2, <1>4 DEF PolicyTypeOK
  <1>6. \A s \in DOMAIN rules :
           /\ <<s, rules'[s].expires>> \in terms \/ <<s, 0>> \in terms
           /\ rules'[s].expires # 0
    <2> SUFFICES ASSUME NEW s \in DOMAIN rules
                 PROVE  /\ <<s, rules'[s].expires>> \in terms \/ <<s, 0>> \in terms
                        /\ rules'[s].expires # 0
      OBVIOUS
    <2>1. CASE rules[s].expires = 0
      <3>1. rules'[s].expires = NoExpiry /\ <<s, 0>> \in terms
        BY <2>1, <1>3 DEF PolicyInv, ThroughProto
      <3> QED
        BY <3>1, ExpiryAssumption
    <2>2. CASE rules[s].expires # 0
      <3>1. rules'[s].expires = rules[s].expires
        BY <2>2, <1>3 DEF ThroughProto
      <3> QED
        BY <3>1, <2>2 DEF PolicyInv
    <2> QED
      BY <2>1, <2>2
  <1> QED
    BY <1>1, <1>2, <1>3, <1>5, <1>6 DEF PolicyInv

\* Every step of the policy keeps its invariant.
LEMMA PolicyKept ==
    PolicyInv /\ (PolicyMoves \/ UNCHANGED policyVars) => PolicyInv'
  <1> SUFFICES ASSUME PolicyInv, PolicyMoves \/ UNCHANGED policyVars
               PROVE  PolicyInv'
    OBVIOUS
  <1>1. CASE Tick
    BY <1>1 DEF PolicyInv, PolicyTypeOK, Tick
  <1>2. CASE UNCHANGED policyVars
    BY <1>2 DEF PolicyInv, PolicyTypeOK, policyVars
  <1> QED
    BY <1>1, <1>2, GrantKeepsPolicy, RevokeKeepsPolicy, SaveAndLoadKeepsPolicy
    DEF PolicyMoves

-------------------------------------------------------------------------------
(* Who is listed *)

\* A key is listed for a scope by a rule at or above it that has not expired.
LEMMA Listed ==
    ASSUME NEW t, NEW k
    PROVE  k \in KeyIdsForScope(t) <=>
             \E s \in DOMAIN rules :
                IsAncestorOf(s, t) /\ ~Expired(rules[s].expires) /\ k \in rules[s].keys
  BY DEF KeyIdsForScope

\* What is listed for a scope is listed for those below it.
LEMMA ListedBelow ==
    ASSUME PolicyTypeOK, NEW s \in Scope, NEW t \in Scope, IsAncestorOf(s, t)
    PROVE  KeyIdsForScope(s) \subseteq KeyIdsForScope(t)
  <1> SUFFICES ASSUME NEW k \in KeyIdsForScope(s)
               PROVE  k \in KeyIdsForScope(t)
    OBVIOUS
  <1>1. PICK r \in DOMAIN rules :
           IsAncestorOf(r, s) /\ ~Expired(rules[r].expires) /\ k \in rules[r].keys
    BY Listed
  <1>2. r \in Scope
    BY DEF PolicyTypeOK
  <1>3. IsAncestorOf(r, t)
    BY <1>1, <1>2, AncestorOrder
  <1> QED
    BY <1>1, <1>3, Listed

\* Nobody comes to be listed by revocation, by time, or by saving and loading a
\* policy that names no zero.
LEMMA ListingShrinks ==
    ASSUME PolicyInv, NoZeroGrants, NEW t \in Scope,
           (\E scope \in Scope, key \in Key : Revoke(scope, key)) \/ SaveAndLoad \/ Tick
    PROVE  KeyIdsForScope(t)' \subseteq KeyIdsForScope(t)
  <1>0. PolicyTypeOK
    BY DEF PolicyInv
  <1> SUFFICES ASSUME NEW k \in KeyIdsForScope(t)'
               PROVE  k \in KeyIdsForScope(t)
    OBVIOUS
  <1>1. PICK r \in DOMAIN rules' :
           /\ IsAncestorOf(r, t) /\ k \in rules'[r].keys
           /\ ~(rules'[r].expires # NoExpiry /\ now' > rules'[r].expires)
    BY DEF KeyIdsForScope, Expired
  <1>2. CASE \E scope \in Scope, key \in Key : Revoke(scope, key)
    <2>1. PICK scope \in Scope, key \in Key : Revoke(scope, key)
      BY <1>2
    <2>2. /\ DOMAIN rules' = DOMAIN rules
          /\ \A s \in DOMAIN rules :
                rules'[s] = IF s = scope THEN Rule(rules[s].keys \ {key}, rules[s].expires)
                                         ELSE rules[s]
      BY <1>0, <2>1, RevokeEffect
    <2>3. rules'[r].expires = rules[r].expires /\ rules'[r].keys \subseteq rules[r].keys
      <3>1. CASE r = scope
        <4>1. rules'[r] = Rule(rules[r].keys \ {key}, rules[r].expires)
          BY <3>1, <2>2, <1>1
        <4> QED
          BY <4>1 DEF Rule
      <3>2. CASE r # scope
        BY <3>2, <2>2, <1>1
      <3> QED
        BY <3>1, <3>2
    <2>4. now' = now
      BY <2>1 DEF Revoke
    <2> QED
      BY <1>1, <2>2, <2>3, <2>4, Listed DEF Expired
  <1>3. CASE SaveAndLoad
    <2>1. /\ r \in DOMAIN rules
          /\ rules'[r] = Rule(rules[r].keys, ThroughProto(rules[r].expires))
      BY <1>0, <1>1, <1>3, SaveAndLoadEffect
    <2>2. rules[r].expires # 0
      BY <2>1 DEF PolicyInv, NoZeroGrants
    <2>3. rules'[r].keys = rules[r].keys /\ rules'[r].expires = rules[r].expires
      BY <2>1, <2>2 DEF Rule, ThroughProto
    <2>4. now' = now
      BY <1>3 DEF SaveAndLoad
    <2> QED
      BY <1>1, <2>1, <2>3, <2>4, Listed DEF Expired
  <1>4. CASE Tick
    <2>1. rules' = rules /\ now' = now + 1 /\ now \in Nat
      BY <1>0, <1>4 DEF Tick, PolicyTypeOK
    <2>2. rules[r].expires \in Nat \/ rules[r].expires = NoExpiry
      BY <1>0, <1>1, <2>1, ExpiryAssumption DEF PolicyTypeOK
    <2>3. ~Expired(rules[r].expires)
      BY <1>1, <2>1, <2>2 DEF Expired
    <2> QED
      BY <1>1, <2>1, <2>3, Listed
  <1> QED
    BY <1>2, <1>3, <1>4

\* A grant lists its key, at its scope and below, and nobody else.
LEMMA GrantListing ==
    ASSUME PolicyInv, NEW scope \in Scope, NEW key \in Key,
           NEW expires \in Expiry \cup {NoExpiry}, Grant(scope, key, expires),
           NEW t \in Scope, NEW k \in KeyIdsForScope(t)'
    PROVE  k \in KeyIdsForScope(t) \/ (k = key /\ IsAncestorOf(scope, t))
  <1>0. PolicyTypeOK
    BY DEF PolicyInv
  <1>1. PICK r \in DOMAIN rules' :
           /\ IsAncestorOf(r, t) /\ k \in rules'[r].keys
           /\ ~(rules'[r].expires # NoExpiry /\ now' > rules'[r].expires)
    BY DEF KeyIdsForScope, Expired
  <1>2. /\ DOMAIN rules' = DOMAIN rules \cup {scope}
        /\ \A s \in DOMAIN rules : s # scope => rules'[s] = rules[s]
        /\ scope \in DOMAIN rules =>
              rules'[scope] = Rule(rules[scope].keys \cup {key}, rules[scope].expires)
        /\ scope \notin DOMAIN rules => rules'[scope] = Rule({key}, expires)
    BY <1>0, GrantEffect
  <1>3. now' = now
    BY DEF Grant
  <1>4. CASE r # scope
    <2>1. r \in DOMAIN rules /\ rules'[r] = rules[r]
      BY <1>1, <1>2, <1>4
    <2> QED
      BY <2>1, <1>1, <1>3, Listed DEF Expired
  <1>5. CASE r = scope /\ scope \in DOMAIN rules
    <2>1. rules'[r].keys = rules[r].keys \cup {key} /\ rules'[r].expires = rules[r].expires
      BY <1>2, <1>5 DEF Rule
    <2> QED
      BY <2>1, <1>1, <1>3, <1>5, Listed DEF Expired
  <1>6. CASE r = scope /\ scope \notin DOMAIN rules
    BY <1>1, <1>2, <1>6 DEF Rule
  <1> QED
    BY <1>4, <1>5, <1>6

\* If all grants at each scope on the way name one expiry, those listed are those
\* entitled (policy.rs:61-87).
LEMMA ListingIsEntitlement ==
    PolicyInv => AccessMatchesGrants
  <1> SUFFICES ASSUME PolicyInv, NEW scope \in Scope,
                      \A s \in Scope : IsAncestorOf(s, scope) => Uniform(s)
               PROVE  KeyIdsForScope(scope) = Entitled(scope)
    BY DEF AccessMatchesGrants
  <1>0. PolicyTypeOK
    BY DEF PolicyInv
  <1>1. ASSUME NEW s \in Scope, NEW k \in Key, IsAncestorOf(s, scope),
               <<s, k>> \in DOMAIN granted
        PROVE  /\ s \in DOMAIN rules /\ k \in rules[s].keys
               /\ rules[s].expires = granted[<<s, k>>]
               /\ ~Expired(rules[s].expires) <=>
                     granted[<<s, k>>] = NoExpiry \/ granted[<<s, k>>] >= now
    <2>1. s \in DOMAIN rules /\ <<s, granted[<<s, k>>]>> \in terms
      BY <1>1 DEF PolicyInv
    <2>2. k \in rules[s].keys
      BY <1>1, <2>1 DEF PolicyInv
    <2>3. Uniform(s)
      BY <1>1
    <2>4. <<s, rules[s].expires>> \in terms
      BY <2>1, <2>3 DEF PolicyInv, Uniform
    <2>5. rules[s].expires = granted[<<s, k>>]
      BY <2>1, <2>3, <2>4 DEF Uniform
    <2>6. /\ now \in Nat
          /\ granted[<<s, k>>] \in Nat \/ granted[<<s, k>>] = NoExpiry
      BY <1>0, <1>1, ExpiryAssumption DEF PolicyTypeOK
    <2>7. ~Expired(rules[s].expires) <=>
             granted[<<s, k>>] = NoExpiry \/ granted[<<s, k>>] >= now
      BY <2>5, <2>6 DEF Expired
    <2> QED
      BY <2>1, <2>2, <2>5, <2>7
  <1>2. ASSUME NEW k \in KeyIdsForScope(scope)
        PROVE  k \in Entitled(scope)
    <2>1. PICK s \in DOMAIN rules :
             IsAncestorOf(s, scope) /\ ~Expired(rules[s].expires) /\ k \in rules[s].keys
      BY <1>2, Listed
    <2>2. s \in Scope /\ k \in Key
      BY <1>0, <2>1 DEF PolicyTypeOK
    <2>3. <<s, k>> \in DOMAIN granted
      BY <2>1, <2>2 DEF PolicyInv
    <2> QED
      BY <2>1, <2>2, <2>3, <1>1 DEF Entitled
  <1>3. ASSUME NEW k \in Entitled(scope)
        PROVE  k \in KeyIdsForScope(scope)
    <2>1. PICK s \in Scope :
             /\ k \in Key
             /\ IsAncestorOf(s, scope)
             /\ <<s, k>> \in DOMAIN granted
             /\ granted[<<s, k>>] = NoExpiry \/ granted[<<s, k>>] >= now
      BY <1>3 DEF Entitled
    <2> QED
      BY <2>1, <1>1, Listed
  <1> QED
    BY <1>2, <1>3

-------------------------------------------------------------------------------
(* The vault *)

\* The record of a rekeying.
RekeyRecord ==
    [at : {"running", "failed", "done"}, scope : Scope, key : Key, readers : SUBSET Key,
     left : SUBSET Doc, shut : SUBSET Key, before : Documents(Doc)]

\* Types of the documents and of the rekey that runs.
VaultTypeInv ==
    /\ docs \in Documents(Doc)
    /\ rekey # None => rekey \in RekeyRecord
    /\ rekeys \in Nat
    /\ out \subseteq Key \X Scope

\* How far a rekeying has come: what is left lies at its scope and below, and is
\* as it was before; the rest of what it is about is sealed anew.
RekeyProgress ==
    rekey # None =>
        /\ DOMAIN docs = DOMAIN rekey.before
        /\ rekey.left \subseteq Concerned
        /\ \A d \in DOMAIN docs :
               docs[d] = IF d \in Concerned /\ d \notin rekey.left THEN Resealed(d)
                                                                  ELSE rekey.before[d]
        /\ rekey.at = "done" => rekey.left = {}
        /\ rekey.at = "failed" =>
               \E d \in rekey.left : rekey.key \notin docs[d].readers \/ rekey.readers = {}

\* The policy lists a key nowhere at or below a scope.
NotListed(k, s) == \A t \in Scope : IsAncestorOf(s, t) => k \notin KeyIdsForScope(t)

\* Who is shut out is listed nowhere there, reads nothing there, and is not
\* among those for whom a rekeying is under way that could reach there.
ShutOutInv ==
    NoZeroGrants =>
        /\ \A p \in out : NotListed(p[1], p[2])
        /\ \A p \in out : \A d \in DOMAIN docs :
               IsAncestorOf(p[2], docs[d].scope) => p[1] \notin docs[d].readers
        /\ Rekeying =>
               /\ \A k \in rekey.shut : NotListed(k, rekey.scope) /\ k \notin rekey.readers
               /\ \A p \in out :
                      IsAncestorOf(p[2], rekey.scope) \/ IsAncestorOf(rekey.scope, p[2]) =>
                          p[1] \notin rekey.readers

\* The inductive invariant.
IInv == PolicyInv /\ VaultTypeInv /\ RekeyProgress /\ ShutOutInv

\* A set of documents under a set of names.
LEMMA DocumentsAre ==
    ASSUME NEW f
    PROVE  f \in Documents(Doc) <=> \E names \in SUBSET Doc : f \in [names -> Document]
  BY DEF Documents

\* The fields of a document.
LEMMA DocumentsHave ==
    ASSUME NEW f \in Documents(Doc)
    PROVE  /\ DOMAIN f \subseteq Doc
           /\ \A d \in DOMAIN f :
                 /\ f[d] \in Document
                 /\ f[d].scope \in Scope /\ f[d].readers \subseteq Key
                 /\ f[d].readers # {}
                 /\ f[d] = [scope |-> f[d].scope, readers |-> f[d].readers]
  <1>1. PICK names \in SUBSET Doc : f \in [names -> Document]
    BY DocumentsAre
  <1>2. \A d \in DOMAIN f : f[d] \in Document
    BY <1>1
  <1>3. \A x \in Document :
           /\ x.scope \in Scope /\ x.readers \subseteq Key /\ x.readers # {}
           /\ x = [scope |-> x.scope, readers |-> x.readers]
    BY DEF Document
  <1> QED
    BY <1>1, <1>2, <1>3

\* The policy lists keys.
LEMMA ListedAreKeys ==
    ASSUME PolicyTypeOK, NEW s
    PROVE  KeyIdsForScope(s) \subseteq Key
  BY DEF KeyIdsForScope, PolicyTypeOK

\* Storing a document.
LEMMA StoreKeeps ==
    ASSUME IInv, NEW doc \in Doc, NEW scope \in Scope, Store(doc, scope)
    PROVE  IInv'
  <1>0. PolicyInv /\ PolicyTypeOK /\ VaultTypeInv
    BY DEF IInv, PolicyInv
  <1>1. PolicyInv'
    BY <1>0, PolicyKept DEF Store
  <1>2. /\ rekey' = None /\ rekeys' = rekeys /\ out' = out
        /\ UNCHANGED policyVars
        /\ DOMAIN docs' = DOMAIN docs \cup {doc}
        /\ docs'[doc] = [scope |-> scope, readers |-> KeyIdsForScope(scope)]
        /\ \A d \in DOMAIN docs : d # doc => docs'[d] = docs[d]
        /\ KeyIdsForScope(scope) # {}
    BY DEF Store
  <1>3. docs' \in Documents(Doc)
    <2>1. docs'[doc] \in Document
      BY <1>0, <1>2, ListedAreKeys DEF Document
    <2>2. \A d \in DOMAIN docs' : docs'[d] \in Document
      BY <1>0, <1>2, <2>1, DocumentsHave DEF VaultTypeInv
    <2>3. DOMAIN docs' \in SUBSET Doc
      BY <1>0, <1>2, DocumentsHave DEF VaultTypeInv
    <2>4. docs' = [d \in DOMAIN docs' |-> docs'[d]]
      BY DEF Store
    <2> HIDE DEF Document
    <2>5. docs' \in [DOMAIN docs' -> Document]
      BY <2>2, <2>4
    <2> QED
      BY <2>3, <2>5, DocumentsAre
  <1>4. VaultTypeInv'
    BY <1>0, <1>2, <1>3 DEF VaultTypeInv
  <1>5. RekeyProgress'
    BY <1>2 DEF RekeyProgress
  <1>6. ShutOutInv'
    <2> SUFFICES ASSUME NoZeroGrants'
                 PROVE  /\ \A p \in out : NotListed(p[1], p[2])'
                        /\ \A p \in out : \A d \in DOMAIN docs' :
                               IsAncestorOf(p[2], docs'[d].scope) => p[1] \notin docs'[d].readers
      BY <1>2 DEF ShutOutInv, Rekeying
    <2>1. NoZeroGrants
      BY <1>2 DEF NoZeroGrants, policyVars
    <2>2. \A p \in out : NotListed(p[1], p[2])
      BY <2>1 DEF IInv, ShutOutInv
    <2>3. \A p \in out : NotListed(p[1], p[2])'
      BY <2>2, <1>2 DEF NotListed, KeyIdsForScope, Expired, policyVars
    <2>4. ASSUME NEW p \in out, NEW d \in DOMAIN docs', IsAncestorOf(p[2], docs'[d].scope)
          PROVE  p[1] \notin docs'[d].readers
      <3>1. CASE d = doc
        BY <3>1, <2>2, <2>4, <1>2 DEF NotListed
      <3>2. CASE d # doc
        BY <3>2, <2>1, <2>4, <1>2 DEF IInv, ShutOutInv
      <3> QED
        BY <3>1, <3>2
    <2> QED
      BY <2>3, <2>4
  <1> QED
    BY <1>1, <1>4, <1>5, <1>6 DEF IInv

\* The beginning of a rekeying.
LEMMA RekeyBeginKeeps ==
    ASSUME IInv, NEW scope \in Scope, NEW key \in Key, RekeyBegin(scope, key)
    PROVE  IInv'
  <1>0. PolicyInv /\ PolicyTypeOK /\ VaultTypeInv
    BY DEF IInv, PolicyInv
  <1>1. PolicyInv'
    BY <1>0, PolicyKept DEF RekeyBegin
  <1>2. /\ rekeys' = rekeys + 1 /\ docs' = docs /\ out' = out
        /\ UNCHANGED policyVars
        /\ rekey' = [at |-> "running", scope |-> scope, key |-> key,
                     readers |-> KeyIdsForScope(scope), left |-> DocsBelow(scope),
                     shut |-> Unlisted(scope), before |-> docs]
    BY DEF RekeyBegin
  <1>3. /\ rekey'.at = "running" /\ rekey'.scope = scope /\ rekey'.key = key
        /\ rekey'.readers = KeyIdsForScope(scope) /\ rekey'.left = DocsBelow(scope)
        /\ rekey'.shut = Unlisted(scope) /\ rekey'.before = docs
    BY <1>2
  <1>4. VaultTypeInv'
    <2>1. DocsBelow(scope) \subseteq Doc
      BY <1>0, DocumentsHave DEF DocsBelow, VaultTypeInv
    <2>2. KeyIdsForScope(scope) \subseteq Key /\ Unlisted(scope) \subseteq Key
      BY <1>0, ListedAreKeys DEF Unlisted
    <2>3. docs \in Documents(Doc)
      BY <1>0 DEF VaultTypeInv
    <2>4. rekey' \in RekeyRecord
      BY <1>2, <2>1, <2>2, <2>3 DEF RekeyRecord
    <2> QED
      BY <1>0, <1>2, <2>4 DEF VaultTypeInv
  <1>5. RekeyProgress'
    <2>1. Concerned' = DocsBelow(scope)
      BY <1>3 DEF Concerned, DocsBelow
    <2> QED
      BY <1>2, <1>3, <2>1 DEF RekeyProgress, Concerned
  <1>6. ShutOutInv'
    <2> SUFFICES ASSUME NoZeroGrants'
                 PROVE  /\ \A p \in out : NotListed(p[1], p[2])'
                        /\ \A p \in out : \A d \in DOMAIN docs :
                               IsAncestorOf(p[2], docs[d].scope) => p[1] \notin docs[d].readers
                        /\ \A k \in Unlisted(scope) :
                               NotListed(k, scope)' /\ k \notin KeyIdsForScope(scope)
                        /\ \A p \in out :
                               IsAncestorOf(p[2], scope) \/ IsAncestorOf(scope, p[2]) =>
                                   p[1] \notin KeyIdsForScope(scope)
      BY <1>2, <1>3 DEF ShutOutInv, NotListed
    <2>1. NoZeroGrants
      BY <1>2 DEF NoZeroGrants, policyVars
    <2>2. /\ \A p \in out : NotListed(p[1], p[2])
          /\ \A p \in out : \A d \in DOMAIN docs :
                 IsAncestorOf(p[2], docs[d].scope) => p[1] \notin docs[d].readers
      BY <2>1 DEF IInv, ShutOutInv
    <2>3. \A k, s : NotListed(k, s)' <=> NotListed(k, s)
      BY <1>2 DEF NotListed, KeyIdsForScope, Expired, policyVars
    <2>4. \A k \in Unlisted(scope) : NotListed(k, scope) /\ k \notin KeyIdsForScope(scope)
      BY AncestorOrder DEF Unlisted, NotListed
    <2>5. ASSUME NEW p \in out, IsAncestorOf(p[2], scope) \/ IsAncestorOf(scope, p[2])
          PROVE  p[1] \notin KeyIdsForScope(scope)
      <3>1. p[2] \in Scope
        BY <1>0 DEF VaultTypeInv
      <3>2. NotListed(p[1], p[2])
        BY <2>2
      <3>3. CASE IsAncestorOf(p[2], scope)
        BY <3>2, <3>3 DEF NotListed
      <3>4. CASE IsAncestorOf(scope, p[2])
        <4>1. p[1] \notin KeyIdsForScope(p[2])
          BY <3>1, <3>2, AncestorOrder DEF NotListed
        <4> QED
          BY <4>1, <3>1, <3>4, <1>0, ListedBelow
      <3> QED
        BY <2>5, <3>3, <3>4
    <2> QED
      BY <2>2, <2>3, <2>4, <2>5
  <1> QED
    BY <1>1, <1>4, <1>5, <1>6 DEF IInv

\* Changing one field of the record of a rekeying leaves the others: what is left,
LEMMA RekeyWithLeft ==
    ASSUME NEW r \in RekeyRecord, NEW x \in SUBSET Doc
    PROVE  /\ [r EXCEPT !.left = x] \in RekeyRecord
           /\ [r EXCEPT !.left = x].at = r.at
           /\ [r EXCEPT !.left = x].scope = r.scope
           /\ [r EXCEPT !.left = x].key = r.key
           /\ [r EXCEPT !.left = x].readers = r.readers
           /\ [r EXCEPT !.left = x].left = x
           /\ [r EXCEPT !.left = x].shut = r.shut
           /\ [r EXCEPT !.left = x].before = r.before
  BY DEF RekeyRecord

\* ... who is shut out,
LEMMA RekeyWithShut ==
    ASSUME NEW r \in RekeyRecord, NEW x \in SUBSET Key
    PROVE  /\ [r EXCEPT !.shut = x] \in RekeyRecord
           /\ [r EXCEPT !.shut = x].at = r.at
           /\ [r EXCEPT !.shut = x].scope = r.scope
           /\ [r EXCEPT !.shut = x].key = r.key
           /\ [r EXCEPT !.shut = x].readers = r.readers
           /\ [r EXCEPT !.shut = x].left = r.left
           /\ [r EXCEPT !.shut = x].shut = x
           /\ [r EXCEPT !.shut = x].before = r.before
  BY DEF RekeyRecord

\* ... and how far it is.
LEMMA RekeyWithAt ==
    ASSUME NEW r \in RekeyRecord, NEW x \in {"running", "failed", "done"}
    PROVE  /\ [r EXCEPT !.at = x] \in RekeyRecord
           /\ [r EXCEPT !.at = x].at = x
           /\ [r EXCEPT !.at = x].scope = r.scope
           /\ [r EXCEPT !.at = x].key = r.key
           /\ [r EXCEPT !.at = x].readers = r.readers
           /\ [r EXCEPT !.at = x].left = r.left
           /\ [r EXCEPT !.at = x].shut = r.shut
           /\ [r EXCEPT !.at = x].before = r.before
  BY DEF RekeyRecord

\* A document that is rekeyed.
LEMMA RekeyDocKeeps ==
    ASSUME IInv, NEW doc \in Doc, RekeyDoc(doc),
           rekey.key \in docs[doc].readers /\ rekey.readers # {}
    PROVE  IInv'
  <1>0. /\ PolicyInv /\ PolicyTypeOK /\ VaultTypeInv /\ RekeyProgress
        /\ Rekeying /\ rekey # None /\ rekey.at = "running" /\ doc \in rekey.left
        /\ rekey \in RekeyRecord
    BY DEF IInv, PolicyInv, RekeyDoc, Rekeying, VaultTypeInv
  <1>1. PolicyInv'
    BY <1>0, PolicyKept DEF RekeyDoc
  <1>2. /\ docs' = [docs EXCEPT ![doc].readers = rekey.readers]
        /\ rekey' = [rekey EXCEPT !.left = @ \ {doc}]
        /\ rekeys' = rekeys /\ out' = out
        /\ UNCHANGED policyVars
    BY DEF RekeyDoc
  <1>3. /\ rekey.readers \subseteq Key /\ rekey.left \subseteq Doc /\ rekey.scope \in Scope
        /\ rekey.before \in Documents(Doc)
    BY <1>0 DEF RekeyRecord
  <1>4. /\ rekey' \in RekeyRecord
        /\ rekey'.left = rekey.left \ {doc}
        /\ rekey'.at = rekey.at /\ rekey'.scope = rekey.scope /\ rekey'.key = rekey.key
        /\ rekey'.readers = rekey.readers /\ rekey'.shut = rekey.shut
        /\ rekey'.before = rekey.before
    <2>1. rekey.left \ {doc} \in SUBSET Doc
      BY <1>3
    <2> QED
      BY <2>1, <1>0, <1>2, RekeyWithLeft
  <1>5. /\ doc \in Concerned /\ doc \in DOMAIN docs
        /\ docs[doc] = rekey.before[doc]
        /\ IsAncestorOf(rekey.scope, docs[doc].scope)
    BY <1>0 DEF RekeyProgress, Concerned
  <1>6. /\ docs[doc].scope \in Scope
        /\ docs[doc] = [scope |-> docs[doc].scope, readers |-> docs[doc].readers]
    BY <1>0, <1>5, DocumentsHave DEF VaultTypeInv
  <1>7. /\ DOMAIN docs' = DOMAIN docs
        /\ docs'[doc] = [docs[doc] EXCEPT !.readers = rekey.readers]
        /\ \A d \in DOMAIN docs : d # doc => docs'[d] = docs[d]
    BY <1>2, <1>5
  <1>8. docs'[doc] = [scope |-> docs[doc].scope, readers |-> rekey.readers]
    BY <1>6, <1>7
  <1>9. docs'[doc].scope = docs[doc].scope /\ docs'[doc].readers = rekey.readers
    BY <1>8
  <1>10. VaultTypeInv'
    <2>1. docs'[doc] \in Document
      BY <1>3, <1>6, <1>8 DEF Document, RekeyDoc
    <2>2. \A d \in DOMAIN docs : docs[d] \in Document
      BY <1>0, DocumentsHave DEF VaultTypeInv
    <2>3. DOMAIN docs \in SUBSET Doc
      BY <1>0, DocumentsHave DEF VaultTypeInv
    <2>4. docs' = [d \in DOMAIN docs |-> docs'[d]]
      BY <1>2
    <2> HIDE DEF Document
    <2>5. docs' \in [DOMAIN docs -> Document]
      BY <2>1, <2>2, <2>4, <1>7
    <2>6. docs' \in Documents(Doc)
      BY <2>3, <2>5, DocumentsAre
    <2> QED
      BY <1>0, <1>2, <1>4, <2>6 DEF VaultTypeInv
  <1>11. RekeyProgress'
    <2>1. Concerned' = Concerned /\ \A d : Resealed(d)' = Resealed(d)
      BY <1>4 DEF Concerned, Resealed
    <2>2. docs'[doc] = Resealed(doc)
      BY <1>5, <1>8 DEF Resealed
    <2>3. /\ DOMAIN docs' = DOMAIN rekey'.before
          /\ rekey'.left \subseteq Concerned
      BY <1>0, <1>4, <1>7 DEF RekeyProgress
    <2>4. ASSUME NEW d \in DOMAIN docs'
          PROVE  docs'[d] = IF d \in Concerned /\ d \notin rekey'.left THEN Resealed(d)
                            ELSE rekey'.before[d]
      <3>1. CASE d = doc
        BY <3>1, <1>4, <1>5, <2>2
      <3>2. CASE d # doc
        BY <3>2, <1>0, <1>4, <1>7 DEF RekeyProgress
      <3> QED
        BY <3>1, <3>2
    <2>5. rekey'.at = "running"
      BY <1>0, <1>4
    <2> QED
      BY <2>1, <2>3, <2>4, <2>5 DEF RekeyProgress
  <1>12. ShutOutInv'
    <2> SUFFICES ASSUME NoZeroGrants'
                 PROVE  /\ \A p \in out : NotListed(p[1], p[2])'
                        /\ \A p \in out : \A d \in DOMAIN docs :
                               IsAncestorOf(p[2], docs'[d].scope) => p[1] \notin docs'[d].readers
                        /\ \A k \in rekey.shut :
                               NotListed(k, rekey.scope)' /\ k \notin rekey.readers
                        /\ \A p \in out :
                               IsAncestorOf(p[2], rekey.scope) \/ IsAncestorOf(rekey.scope, p[2]) =>
                                   p[1] \notin rekey.readers
      BY <1>2, <1>4, <1>7 DEF ShutOutInv, NotListed
    <2>1. NoZeroGrants
      BY <1>2 DEF NoZeroGrants, policyVars
    <2>2. /\ \A p \in out : NotListed(p[1], p[2])
          /\ \A p \in out : \A d \in DOMAIN docs :
                 IsAncestorOf(p[2], docs[d].scope) => p[1] \notin docs[d].readers
          /\ \A k \in rekey.shut : NotListed(k, rekey.scope) /\ k \notin rekey.readers
          /\ \A p \in out :
                 IsAncestorOf(p[2], rekey.scope) \/ IsAncestorOf(rekey.scope, p[2]) =>
                     p[1] \notin rekey.readers
      BY <1>0, <2>1 DEF IInv, ShutOutInv
    <2>3. \A k, s : NotListed(k, s)' <=> NotListed(k, s)
      BY <1>2 DEF NotListed, KeyIdsForScope, Expired, policyVars
    <2>4. ASSUME NEW p \in out, NEW d \in DOMAIN docs, IsAncestorOf(p[2], docs'[d].scope)
          PROVE  p[1] \notin docs'[d].readers
      <3>1. CASE d = doc
        <4>1. p[2] \in Scope
          BY <1>0 DEF VaultTypeInv
        <4>2. IsAncestorOf(p[2], rekey.scope) \/ IsAncestorOf(rekey.scope, p[2])
          BY <4>1, <3>1, <2>4, <1>3, <1>5, <1>6, <1>9, AncestorsAreAChain
        <4> QED
          BY <4>2, <3>1, <2>2, <1>9
      <3>2. CASE d # doc
        BY <3>2, <2>2, <2>4, <1>7
      <3> QED
        BY <3>1, <3>2
    <2>5. \A k \in rekey.shut : NotListed(k, rekey.scope)'
      BY <2>2, <1>4, <1>2 DEF NotListed, KeyIdsForScope, Expired, policyVars
    <2> QED
      BY <2>2, <2>3, <2>4, <2>5
  <1> QED
    BY <1>1, <1>10, <1>11, <1>12 DEF IInv

\* A document that cannot be rekeyed ends the call.
LEMMA RekeyFailureKeeps ==
    ASSUME IInv, NEW doc \in Doc, RekeyDoc(doc),
           ~(rekey.key \in docs[doc].readers /\ rekey.readers # {})
    PROVE  IInv'
  <1>0. /\ PolicyInv /\ VaultTypeInv /\ RekeyProgress
        /\ Rekeying /\ rekey # None /\ rekey.at = "running" /\ doc \in rekey.left
        /\ rekey \in RekeyRecord
    BY DEF IInv, RekeyDoc, Rekeying, VaultTypeInv
  <1>1. PolicyInv'
    BY <1>0, PolicyKept DEF RekeyDoc
  <1>2. /\ docs' = docs
        /\ rekey' = [rekey EXCEPT !.at = "failed"]
        /\ rekeys' = rekeys /\ out' = out
        /\ UNCHANGED policyVars
    BY DEF RekeyDoc
  <1>3. /\ rekey' \in RekeyRecord
        /\ rekey'.left = rekey.left
        /\ rekey'.at = "failed" /\ rekey'.scope = rekey.scope /\ rekey'.key = rekey.key
        /\ rekey'.readers = rekey.readers /\ rekey'.shut = rekey.shut
        /\ rekey'.before = rekey.before
    BY <1>0, <1>2, RekeyWithAt
  <1>4. VaultTypeInv'
    BY <1>0, <1>2, <1>3 DEF VaultTypeInv
  <1>5. RekeyProgress'
    <2>1. Concerned' = Concerned /\ \A d : Resealed(d)' = Resealed(d)
      BY <1>3 DEF Concerned, Resealed
    <2> QED
      BY <1>0, <1>2, <1>3, <2>1 DEF RekeyProgress
  <1>6. ShutOutInv'
    <2>1. NoZeroGrants' <=> NoZeroGrants
      BY <1>2 DEF NoZeroGrants, policyVars
    <2>2. \A k, s : NotListed(k, s)' <=> NotListed(k, s)
      BY <1>2 DEF NotListed, KeyIdsForScope, Expired, policyVars
    <2>3. ~Rekeying'
      BY <1>3 DEF Rekeying
    <2>4. ShutOutInv
      BY DEF IInv
    <2> QED
      BY <1>2, <2>1, <2>2, <2>3, <2>4 DEF ShutOutInv, NotListed
  <1> QED
    BY <1>1, <1>4, <1>5, <1>6 DEF IInv

\* A rekeying that returns: now the keys are out.
LEMMA RekeyEndKeeps ==
    ASSUME IInv, RekeyEnd
    PROVE  IInv'
  <1>0. /\ PolicyInv /\ VaultTypeInv /\ RekeyProgress
        /\ Rekeying /\ rekey # None /\ rekey.at = "running" /\ rekey.left = {}
        /\ rekey \in RekeyRecord
    BY DEF IInv, RekeyEnd, Rekeying, VaultTypeInv
  <1>1. PolicyInv'
    BY <1>0, PolicyKept DEF RekeyEnd
  <1>2. /\ docs' = docs
        /\ rekey' = [rekey EXCEPT !.at = "done"]
        /\ rekeys' = rekeys /\ out' = out \cup (rekey.shut \X {rekey.scope})
        /\ UNCHANGED policyVars
    BY DEF RekeyEnd
  <1>3. /\ rekey' \in RekeyRecord
        /\ rekey'.left = rekey.left
        /\ rekey'.at = "done" /\ rekey'.scope = rekey.scope /\ rekey'.key = rekey.key
        /\ rekey'.readers = rekey.readers /\ rekey'.shut = rekey.shut
        /\ rekey'.before = rekey.before
    BY <1>0, <1>2, RekeyWithAt
  <1>4. VaultTypeInv'
    <2>1. rekey.shut \subseteq Key /\ rekey.scope \in Scope
      BY <1>0 DEF RekeyRecord
    <2> QED
      BY <2>1, <1>0, <1>2, <1>3 DEF VaultTypeInv
  <1>5. RekeyProgress'
    <2>1. Concerned' = Concerned /\ \A d : Resealed(d)' = Resealed(d)
      BY <1>3 DEF Concerned, Resealed
    <2> QED
      BY <1>0, <1>2, <1>3, <2>1 DEF RekeyProgress
  <1>6. ShutOutInv'
    <2> SUFFICES ASSUME NoZeroGrants'
                 PROVE  /\ \A p \in out' : NotListed(p[1], p[2])'
                        /\ \A p \in out' : \A d \in DOMAIN docs :
                               IsAncestorOf(p[2], docs[d].scope) => p[1] \notin docs[d].readers
      BY <1>2, <1>3 DEF ShutOutInv, Rekeying
    <2>1. NoZeroGrants
      BY <1>2 DEF NoZeroGrants, policyVars
    <2>2. \A k, s : NotListed(k, s)' <=> NotListed(k, s)
      BY <1>2 DEF NotListed, KeyIdsForScope, Expired, policyVars
    <2>3. /\ \A p \in out : NotListed(p[1], p[2])
          /\ \A p \in out : \A d \in DOMAIN docs :
                 IsAncestorOf(p[2], docs[d].scope) => p[1] \notin docs[d].readers
          /\ \A k \in rekey.shut : NotListed(k, rekey.scope) /\ k \notin rekey.readers
      BY <1>0, <2>1 DEF IInv, ShutOutInv
    <2>4. \A p \in rekey.shut \X {rekey.scope} : p[1] \in rekey.shut /\ p[2] = rekey.scope
      OBVIOUS
    <2>5. ASSUME NEW d \in DOMAIN docs, IsAncestorOf(rekey.scope, docs[d].scope)
          PROVE  docs[d].readers = rekey.readers
      <3>1. d \in Concerned
        <4>1. /\ d \in DOMAIN rekey.before
              /\ docs[d] = IF d \in Concerned THEN Resealed(d) ELSE rekey.before[d]
          BY <1>0 DEF RekeyProgress
        <4>2. CASE d \notin Concerned
          BY <4>1, <4>2, <2>5 DEF Concerned
        <4> QED
          BY <4>2
      <3>2. docs[d] = Resealed(d)
        BY <3>1, <1>0 DEF RekeyProgress
      <3> QED
        BY <3>2 DEF Resealed
    <2> QED
      BY <1>2, <2>2, <2>3, <2>4, <2>5
  <1> QED
    BY <1>1, <1>4, <1>5, <1>6 DEF IInv

\* A grant, and what it readmits.
LEMMA GrantKeeps ==
    ASSUME IInv, NEW scope \in Scope, NEW key \in Key, NEW expires \in Expiry \cup {NoExpiry},
           Grant(scope, key, expires),
           out' = out \ Readmitted(scope, key),
           rekey' = IF Rekeying /\ <<key, rekey.scope>> \in Readmitted(scope, key)
                    THEN [rekey EXCEPT !.shut = @ \ {key}] ELSE rekey,
           UNCHANGED <<docs, rekeys>>
    PROVE  IInv'
  <1>0. /\ PolicyInv /\ VaultTypeInv /\ RekeyProgress
        /\ rekey # None => rekey \in RekeyRecord
    BY DEF IInv, VaultTypeInv
  <1>1. PolicyInv'
    BY <1>0, GrantKeepsPolicy
  <1>2. CASE rekey = None
    <2>1. rekey' = None
      BY <1>2 DEF Rekeying
    <2>2. VaultTypeInv' /\ RekeyProgress'
      BY <1>0, <2>1 DEF VaultTypeInv, RekeyProgress
    <2>3. NoZeroGrants' => NoZeroGrants
      BY DEF Grant, NoZeroGrants
    <2>4. ASSUME NoZeroGrants, NEW p \in out'
          PROVE  NotListed(p[1], p[2])'
      <3>1. NotListed(p[1], p[2]) /\ p \in Key \X Scope
        BY <2>4, <1>0 DEF IInv, ShutOutInv, VaultTypeInv
      <3>2. SUFFICES ASSUME NEW t \in Scope, IsAncestorOf(p[2], t), p[1] \in KeyIdsForScope(t)'
                     PROVE  FALSE
        BY DEF NotListed
      <3>3. p[1] = key /\ IsAncestorOf(scope, t)
        BY <1>0, <3>1, <3>2, GrantListing DEF NotListed
      <3>4. IsAncestorOf(p[2], scope) \/ IsAncestorOf(scope, p[2])
        BY <3>1, <3>2, <3>3, AncestorsAreAChain
      <3> QED
        BY <3>1, <3>3, <3>4, <2>4 DEF Readmitted
    <2> QED
      BY <1>1, <2>1, <2>2, <2>3, <2>4 DEF IInv, ShutOutInv, Rekeying
  <1>3. CASE rekey # None
    <2>0. rekey \in RekeyRecord
      BY <1>0, <1>3
    <2>1. /\ rekey' \in RekeyRecord
          /\ rekey'.at = rekey.at /\ rekey'.scope = rekey.scope /\ rekey'.key = rekey.key
          /\ rekey'.readers = rekey.readers /\ rekey'.left = rekey.left
          /\ rekey'.before = rekey.before
          /\ rekey'.shut \subseteq rekey.shut
          /\ Rekeying /\ <<key, rekey.scope>> \in Readmitted(scope, key) => key \notin rekey'.shut
      <3>1. rekey.shut \ {key} \in SUBSET Key
        BY <2>0 DEF RekeyRecord
      <3>2. CASE Rekeying /\ <<key, rekey.scope>> \in Readmitted(scope, key)
        <4>1. rekey' = [rekey EXCEPT !.shut = rekey.shut \ {key}]
          BY <3>2
        <4> QED
          BY <4>1, <3>1, <2>0, RekeyWithShut
      <3>3. CASE ~(Rekeying /\ <<key, rekey.scope>> \in Readmitted(scope, key))
        BY <3>3, <2>0
      <3> QED
        BY <3>2, <3>3
    <2>2. VaultTypeInv'
      BY <1>0, <2>1 DEF VaultTypeInv
    <2>3. RekeyProgress'
      <3>1. Concerned' = Concerned /\ \A d : Resealed(d)' = Resealed(d)
        BY <2>1 DEF Concerned, Resealed
      <3> QED
        BY <1>0, <1>3, <2>1, <3>1 DEF RekeyProgress
    <2>4. NoZeroGrants' => NoZeroGrants
      BY DEF Grant, NoZeroGrants
    <2>5. ASSUME NEW k \in Key, NEW s \in Scope, NotListed(k, s),
                 ~(k = key /\ <<key, s>> \in Readmitted(scope, key))
          PROVE  \A t \in Scope : IsAncestorOf(s, t) => k \notin KeyIdsForScope(t)'
      <3> SUFFICES ASSUME NEW t \in Scope, IsAncestorOf(s, t), k \in KeyIdsForScope(t)'
                   PROVE  FALSE
        OBVIOUS
      <3>1. k = key /\ IsAncestorOf(scope, t)
        BY <1>0, <2>5, GrantListing DEF NotListed
      <3>2. IsAncestorOf(s, scope) \/ IsAncestorOf(scope, s)
        BY <3>1, AncestorsAreAChain
      <3> QED
        BY <3>1, <3>2, <2>5 DEF Readmitted
    <2>6. ShutOutInv'
      <3> SUFFICES ASSUME NoZeroGrants'
                   PROVE  /\ \A p \in out' : NotListed(p[1], p[2])'
                          /\ \A p \in out' : \A d \in DOMAIN docs :
                                 IsAncestorOf(p[2], docs[d].scope) => p[1] \notin docs[d].readers
                          /\ Rekeying =>
                               /\ \A k \in rekey'.shut : NotListed(k, rekey.scope)' /\ k \notin rekey.readers
                               /\ \A p \in out' :
                                    IsAncestorOf(p[2], rekey.scope) \/ IsAncestorOf(rekey.scope, p[2]) =>
                                      p[1] \notin rekey.readers
        BY <1>3, <2>1 DEF ShutOutInv, Rekeying, NotListed
      <3>1. NoZeroGrants /\ ShutOutInv
        BY <2>4 DEF IInv
      <3>2. ASSUME NEW p \in out'
            PROVE  NotListed(p[1], p[2])'
        <4>1. p \in out /\ p[1] \in Key /\ p[2] \in Scope /\ p = <<p[1], p[2]>>
          BY <3>2, <1>0 DEF VaultTypeInv
        <4>2. NotListed(p[1], p[2])
          BY <4>1, <3>1 DEF ShutOutInv
        <4>3. ~(p[1] = key /\ <<key, p[2]>> \in Readmitted(scope, key))
          BY <4>1, <3>2
        <4> QED
          BY <4>1, <4>2, <4>3, <2>5 DEF NotListed
      <3>3. ASSUME Rekeying, NEW k \in rekey'.shut
            PROVE  NotListed(k, rekey.scope)' /\ k \notin rekey.readers
        <4>1. k \in Key /\ rekey.scope \in Scope /\ k \in rekey.shut
          BY <2>0, <2>1, <3>3 DEF RekeyRecord
        <4>2. NotListed(k, rekey.scope) /\ k \notin rekey.readers
          BY <4>1, <3>1, <3>3 DEF ShutOutInv
        <4>3. ~(k = key /\ <<key, rekey.scope>> \in Readmitted(scope, key))
          BY <2>1, <3>3
        <4>4. \A t \in Scope : IsAncestorOf(rekey.scope, t) => k \notin KeyIdsForScope(t)'
          BY <4>1, <4>2, <4>3, <2>5
        <4> QED
          BY <4>2, <4>4, <2>1 DEF NotListed
      <3> QED
        BY <3>1, <3>2, <3>3 DEF ShutOutInv
    <2> QED
      BY <1>1, <2>2, <2>3, <2>6 DEF IInv
  <1> QED
    BY <1>2, <1>3

\* Revocation, time, and saving and loading.
LEMMA OtherPolicyStepsKeep ==
    ASSUME IInv,
           (\E scope \in Scope, key \in Key : Revoke(scope, key)) \/ SaveAndLoad \/ Tick,
           UNCHANGED vaultVars
    PROVE  IInv'
  <1>1. PolicyInv'
    BY PolicyKept DEF IInv, PolicyMoves
  <1>2. VaultTypeInv' /\ RekeyProgress'
    BY DEF IInv, VaultTypeInv, RekeyProgress, Concerned, Resealed, vaultVars
  <1>3. ShutOutInv'
    <2>1. /\ docs' = docs /\ rekey' = rekey /\ out' = out
          /\ NoZeroGrants' => NoZeroGrants
          /\ Rekeying' <=> Rekeying
      BY DEF vaultVars, NoZeroGrants, Revoke, SaveAndLoad, Tick, Rekeying
    <2>2. ASSUME NoZeroGrants, NEW k, NEW s, NotListed(k, s)
          PROVE  \A t \in Scope : IsAncestorOf(s, t) => k \notin KeyIdsForScope(t)'
      BY <2>2, ListingShrinks DEF IInv, NotListed
    <2>3. ASSUME NoZeroGrants, NEW k, NEW s, NotListed(k, s)
          PROVE  NotListed(k, s)'
      BY <2>2, <2>3 DEF NotListed
    <2>4. ASSUME NoZeroGrants, NEW k, NotListed(k, rekey.scope)
          PROVE  NotListed(k, rekey.scope)'
      BY <2>1, <2>2, <2>4 DEF NotListed
    <2> QED
      BY <2>1, <2>3, <2>4 DEF IInv, ShutOutInv
  <1> QED
    BY <1>1, <1>2, <1>3 DEF IInv

\* Nothing changes.
LEMMA StutterKeeps ==
    ASSUME IInv, UNCHANGED vars
    PROVE  IInv'
  <1>1. UNCHANGED policyVars /\ UNCHANGED vaultVars
    BY DEF vars
  <1>2. PolicyInv'
    BY <1>1, PolicyKept DEF IInv
  <1>3. VaultTypeInv' /\ RekeyProgress'
    BY <1>1 DEF IInv, VaultTypeInv, RekeyProgress, Concerned, Resealed, vaultVars
  <1>4. ShutOutInv'
    BY <1>1 DEF IInv, ShutOutInv, NoZeroGrants, NotListed, KeyIdsForScope, Expired, Rekeying,
                vaultVars, policyVars
  <1> QED
    BY <1>2, <1>3, <1>4 DEF IInv

\* The invariant holds of an empty policy and an empty vault.
LEMMA InitEstablishes ==
    Init => IInv
  <1> SUFFICES ASSUME Init
               PROVE  IInv
    OBVIOUS
  <1>1. /\ rules = <<>> /\ now = 0 /\ grants = 0 /\ terms = {} /\ granted = <<>>
        /\ docs = <<>> /\ rekey = None /\ rekeys = 0 /\ out = {}
    BY DEF Init, PolicyInit
  <1>2. PolicyInv
    BY <1>1 DEF PolicyInv, PolicyTypeOK
  <1>3. docs \in Documents(Doc)
    <2>1. docs \in [{} -> Document]
      BY <1>1
    <2> QED
      BY <2>1, DocumentsAre
  <1> QED
    BY <1>1, <1>2, <1>3 DEF IInv, VaultTypeInv, RekeyProgress, ShutOutInv, Rekeying

\* Every step keeps the invariant.
LEMMA StepKeeps ==
    IInv /\ [Next]_vars => IInv'
  <1> SUFFICES ASSUME IInv, [Next]_vars
               PROVE  IInv'
    OBVIOUS
  <1>1. CASE PolicyStep
    BY <1>1, GrantKeeps, OtherPolicyStepsKeep DEF PolicyStep
  <1>2. ASSUME NEW scope \in Scope, NEW doc \in Doc, Store(doc, scope)
        PROVE  IInv'
    BY <1>2, StoreKeeps
  <1>3. ASSUME NEW scope \in Scope, NEW key \in Key, RekeyBegin(scope, key)
        PROVE  IInv'
    BY <1>3, RekeyBeginKeeps
  <1>4. ASSUME NEW doc \in Doc, RekeyDoc(doc)
        PROVE  IInv'
    BY <1>4, RekeyDocKeeps, RekeyFailureKeeps
  <1>5. CASE RekeyEnd
    BY <1>5, RekeyEndKeeps
  <1>6. CASE Finished \/ UNCHANGED vars
    BY <1>6, StutterKeeps DEF Finished
  <1> QED
    BY <1>1, <1>2, <1>3, <1>4, <1>5, <1>6 DEF Next

-------------------------------------------------------------------------------
(* The theorems *)

\* The inductive invariant holds throughout.
THEOREM Invariance == Spec => []IInv
  BY InitEstablishes, StepKeeps, PTL DEF Spec

\* Types are kept; no document is ever without a reader, and what a rekeying has
\* left to do lies at its scope and below (vault.rs:41-125).
THEOREM TypeCorrect == Spec => []TypeOK
  <1>1. IInv => TypeOK
    <2> SUFFICES ASSUME IInv
                 PROVE  TypeOK
      OBVIOUS
    <2>1. PolicyTypeOK /\ VaultTypeInv /\ RekeyProgress
      BY DEF IInv, PolicyInv
    <2>2. ASSUME rekey # None
          PROVE  /\ rekey.at \in {"running", "failed", "done"}
                 /\ rekey.scope \in Scope /\ rekey.key \in Key
                 /\ rekey.readers \subseteq Key /\ rekey.shut \subseteq Key
                 /\ rekey.before \in Documents(Doc)
                 /\ rekey.left \subseteq DocsBelow(rekey.scope)
      <3>1. /\ rekey.at \in {"running", "failed", "done"}
            /\ rekey.scope \in Scope /\ rekey.key \in Key
            /\ rekey.readers \subseteq Key /\ rekey.shut \subseteq Key
            /\ rekey.before \in Documents(Doc)
        BY <2>1, <2>2 DEF VaultTypeInv, RekeyRecord
      <3>2. rekey.left \subseteq DocsBelow(rekey.scope)
        BY <2>1, <2>2 DEF RekeyProgress, Concerned, DocsBelow
      <3> QED
        BY <3>1, <3>2
    <2> QED
      BY <2>1, <2>2 DEF TypeOK, VaultTypeInv
  <1> QED
    BY <1>1, Invariance, PTL

\* The policy lists who is entitled, where all grants at each scope agree on their
\* expiry: through any number of grants and revocations, time, and trips through
\* a file (policy.rs:30-87, 105-171).
THEOREM PolicyIsHonoured == Spec => []AccessMatchesGrants
  <1>1. IInv => AccessMatchesGrants
    BY ListingIsEntitlement DEF IInv
  <1> QED
    BY <1>1, Invariance, PTL

\* A rekeying does all of what it is about and nothing else, or has met a document
\* it cannot open; no document is lost on the way (vault.rs:93-125).
THEOREM RekeyingIsExplained == Spec => []RekeyIsExplained
  <1>1. IInv => RekeyIsExplained
    <2> SUFFICES ASSUME RekeyProgress, VaultTypeInv, rekey # None
                 PROVE  /\ DOMAIN docs = DOMAIN rekey.before
                        /\ \A d \in DOMAIN docs :
                               docs[d] # rekey.before[d] => d \in Concerned /\ docs[d] = Resealed(d)
                        /\ rekey.at = "done" => \A d \in Concerned : docs[d] = Resealed(d)
                        /\ rekey.at = "failed" =>
                               \E d \in Concerned :
                                   /\ docs[d] = rekey.before[d]
                                   /\ rekey.key \notin docs[d].readers \/ rekey.readers = {}
      BY DEF IInv, RekeyIsExplained
    <2>1. Concerned \subseteq DOMAIN rekey.before
      BY DEF Concerned
    <2> QED
      BY <2>1 DEF RekeyProgress
  <1> QED
    BY <1>1, Invariance, PTL

\* Who was left out of a rekeying that returned reads nothing at or below its
\* scope, then or later, until granted access again (policy.rs:49-87,
\* vault.rs:88-125).
THEOREM RevocationLasts == Spec => []RevokedStaysOut
  <1>1. IInv => RevokedStaysOut
    BY DEF IInv, ShutOutInv, RevokedStaysOut, Retrieves
  <1> QED
    BY <1>1, Invariance, PTL

===============================================================================
