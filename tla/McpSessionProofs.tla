---------------------------- MODULE McpSessionProofs ----------------------------
(***************************************************************************)
(* Proofs about McpSession, for any number of tool calls, credentials,     *)
(* restarts and memories: its inductive invariant, and with it that a call *)
(* works under one session, that only owners store, that counts are never  *)
(* too high and that an only setup survives a restart.                     *)
(***************************************************************************)
EXTENDS McpSession, FiniteSetTheorems, TLAPS

-------------------------------------------------------------------------------
(* Memories and records *)

\* What a key sees is a number, and grows with the memories
\* (tools.rs:728-733).
LEMMA VisibleGrows ==
    ASSUME NEW cred, NEW scope, memories \in [Scope -> Nat], memories' \in [Scope -> Nat],
           \A s \in Scope : memories[s] <= memories'[s]
    PROVE  /\ Visible(cred, scope) \in Nat
           /\ Visible(cred, scope) <= Visible(cred, scope)'
  BY DEF Visible, ReadScope, Scope

\* A session built from a credential is a session, its count apart
\* (session.rs:84-124).
LEMMA SessionType ==
    ASSUME NEW cred \in Cred, NEW scope \in Scope, NEW count \in Nat
    PROVE  NewSession(cred, scope, count) \in SessionRecord
  BY DEF NewSession, SessionRecord

\* A credential is not None.
LEMMA CredIsSomething == None \notin Cred /\ None \notin Call
  BY CredAssumption DEF Cred

-------------------------------------------------------------------------------
(* The inductive invariant *)

\* No call is under way at the start (main.rs:32-42).
LEMMA InitInvariant ==
    ASSUME Init
    PROVE  IInv
  <1> USE DEF Init, NoCall
  <1>0. /\ disk \in Cred \cup {None, "Empty", "Torn"}
        /\ session \in SessionRecord \cup {None}
        /\ session # None => session = NewSession(disk, "/", 0) /\ disk \in Cred
    BY InitialDiskAssumption, SessionType DEF FromConfig, Scope
  <1>1. TypeOK
    BY <1>0 DEF TypeOK, CallRecord, Scope
  <1>2. LockMatches
    BY CredIsSomething DEF LockMatches, ReadKinds, WriteKinds
  <1>3. OneSessionPerCall /\ PuttersAreOwners /\ CallsAreMade /\ CountsAreReached
    BY DEF OneSessionPerCall, PuttersAreOwners, CallsAreMade, CountsAreReached
  <1>4. CountNeverOverstates
    BY <1>0 DEF CountNeverOverstates, NewSession, Visible, Scope
  <1>5. SetupOwnsConfig
    BY DEF SetupOwnsConfig, OnlySetup
  <1> QED
    BY <1>1, <1>2, <1>3, <1>4, <1>5 DEF IInv

\* A call that is not at the lock moves on or fails outside it
\* (tools.rs:217-245, 299-300): nothing the other calls rely on changes.
LEMMA OutsideTheLock ==
    ASSUME IInv, NEW c \in Call, NEW call \in CallRecord,
           call.pc \in {"writing", "permitting", "counting", "failed"},
           call.kind = calls[c].kind, call.cred = calls[c].cred,
           calls[c].pc \in {"truncating", "writing", "permitting", "counting"},
           calls' = [calls EXCEPT ![c] = call],
           UNCHANGED <<session, stored, lock, restarts>>,
           disk' \in Cred \cup {None, "Empty", "Torn"}
    PROVE  /\ TypeOK' /\ LockMatches' /\ OneSessionPerCall' /\ PuttersAreOwners'
           /\ CallsAreMade' /\ CountNeverOverstates' /\ CountsAreReached'
  <1> USE DEF lock, stored
  <1>0. calls \in [Call -> CallRecord] /\ queue \in Seq(Call)
    BY DEF IInv, TypeOK
  <1>1. \A d \in Call : calls'[d] = IF d = c THEN call ELSE calls[d]
    BY <1>0
  <1>2. TypeOK'
    BY <1>0 DEF IInv, TypeOK
  <1>3. LockMatches'
    BY <1>0, <1>1 DEF IInv, LockMatches
  <1>4. OneSessionPerCall' /\ PuttersAreOwners'
    BY <1>0, <1>1 DEF IInv, OneSessionPerCall, PuttersAreOwners, OwnerInForce
  <1>5. CallsAreMade' /\ CountNeverOverstates' /\ CountsAreReached'
    BY <1>0, <1>1 DEF IInv, CallsAreMade, CountNeverOverstates, CountsAreReached, Visible
  <1> QED
    BY <1>2, <1>3, <1>4, <1>5

\* What is left of a call that is over (tools.rs:254, 305, 319, 412).
LEMMA EndedType ==
    ASSUME NEW call \in CallRecord, NEW p \in {"ok", "failed", "killed"}
    PROVE  /\ Ended(call, p) \in CallRecord
           /\ Ended(call, p).kind = call.kind /\ Ended(call, p).cred = call.cred
           /\ Ended(call, p).pc = p
  BY DEF Ended, CallRecord, Scope

\* A call that was away from the lock takes its place at the end of the queue,
\* where it was not before (tools.rs:247, 314, 324: write().await and
\* read().await of tokio's lock).
LEMMA QueueGrows ==
    ASSUME calls \in [Call -> CallRecord], queue \in Seq(Call), LockMatches,
           NEW c \in Call, calls[c].pc \notin {"queued", "holding", "putting"},
           NEW call, call.pc = "queued", call.kind \in WriteKinds \cup ReadKinds,
           calls' = [calls EXCEPT ![c] = call], Enqueue(c)
    PROVE  queue' \in Seq(Call) /\ LockMatches'
  <1>1. \A d \in Call : calls'[d] = IF d = c THEN call ELSE calls[d]
    OBVIOUS
  <1>2. /\ queue' = Append(queue, c) /\ queue' \in Seq(Call)
        /\ UNCHANGED <<readers, writer>>
    BY DEF Enqueue
  <1>3. \A i \in DOMAIN queue : queue[i] \in Call /\ queue[i] # c
    BY DEF LockMatches
  <1>4. /\ DOMAIN queue' = 1..(Len(queue) + 1) /\ DOMAIN queue = 1..Len(queue)
        /\ Len(queue) \in Nat /\ queue'[Len(queue) + 1] = c
        /\ \A i \in DOMAIN queue : queue'[i] = queue[i]
    BY <1>2
  <1>5. \A i \in DOMAIN queue' :
           \/ i \in DOMAIN queue /\ queue'[i] = queue[i]
           \/ i = Len(queue) + 1 /\ queue'[i] = c
    BY <1>4
  <1>6. \A i \in DOMAIN queue' : calls'[queue'[i]].pc = "queued"
    BY <1>1, <1>3, <1>5 DEF LockMatches
  <1>7. \A i, j \in DOMAIN queue' : queue'[i] = queue'[j] => i = j
    BY <1>3, <1>5 DEF LockMatches
  <1>8. \A d \in Call :
           /\ d \in readers' <=> calls'[d].kind \in ReadKinds /\ calls'[d].pc \in {"holding", "putting"}
           /\ d = writer' <=> calls'[d].kind \in WriteKinds /\ calls'[d].pc = "holding"
    BY <1>1, <1>2 DEF LockMatches
  <1> QED
    BY <1>2, <1>6, <1>7, <1>8 DEF LockMatches

\* A call arrives (tools.rs:194-215); unless it is a setup or a login it asks
\* for the lock at once.
LEMMA CallArrives ==
    ASSUME IInv, NEW c \in Call, NEW kind \in WriteKinds \cup ReadKinds,
           NEW cred \in Cred \cup {None}, NEW scope \in Scope, NEW entries \in Nat,
           kind \in {"setup", "login"} => cred \in Cred,
           Start(c, kind, cred, scope, entries)
    PROVE  IInv'
  <1> DEFINE begin == CASE kind = "setup" -> "truncating"
                        [] kind = "login" -> "counting"
                        [] OTHER -> "queued"
             call == [kind |-> kind, pc |-> begin, cred |-> cred, scope |-> scope,
                      count |-> entries, seen |-> None]
  <1>0. /\ calls \in [Call -> CallRecord] /\ queue \in Seq(Call)
        /\ calls[c] = NoCall /\ calls' = [calls EXCEPT ![c] = call]
        /\ UNCHANGED <<session, disk, memories, late, restarts, readers, writer>>
        /\ queue' = IF begin = "queued" THEN Append(queue, c) ELSE queue
    BY DEF IInv, TypeOK, Start, Enqueue, lock, stored
  <1>1. /\ begin \in {"truncating", "counting", "queued"}
        /\ begin = "queued" => kind \notin {"setup", "login"}
        /\ kind = "setup" => begin = "truncating"
        /\ kind # "none"
    BY DEF WriteKinds, ReadKinds
  <1>2. /\ call.kind = kind /\ call.pc = begin /\ call.cred = cred /\ call.scope = scope
        /\ call \in CallRecord
    BY <1>1 DEF CallRecord
  <1>3. /\ calls[c].kind = "none" /\ calls[c].pc = "idle"
    BY <1>0 DEF NoCall
  <1> HIDE DEF call, begin
  <1>4. \A d \in Call : calls'[d] = IF d = c THEN call ELSE calls[d]
    BY <1>0
  <1>5. TypeOK'
    <2>1. queue' \in Seq(Call)
      BY <1>0
    <2> QED
      BY <1>0, <1>2, <2>1 DEF IInv, TypeOK
  <1>6. LockMatches'
    <2>2. CASE begin # "queued"
      <3>1. UNCHANGED <<queue, readers, writer>>
        BY <1>0, <2>2
      <3>2. \A i \in DOMAIN queue : queue[i] \in Call /\ queue[i] # c
        BY <1>0, <1>3 DEF IInv, LockMatches
      <3> QED
        BY <1>1, <1>2, <1>3, <1>4, <2>2, <3>1, <3>2 DEF IInv, LockMatches
    <2>3. CASE begin = "queued"
      <3>1. Enqueue(c)
        BY <1>0, <2>3 DEF Enqueue
      <3> QED
        BY <1>0, <1>2, <1>3, <2>3, <3>1, QueueGrows DEF IInv
    <2> QED
      BY <2>2, <2>3
  <1>7. OneSessionPerCall' /\ PuttersAreOwners'
    BY <1>0, <1>1, <1>2, <1>4 DEF IInv, OneSessionPerCall, PuttersAreOwners, OwnerInForce
  <1>8. CallsAreMade' /\ CountNeverOverstates' /\ CountsAreReached'
    BY <1>0, <1>1, <1>2, <1>4
    DEF IInv, CallsAreMade, CountNeverOverstates, CountsAreReached, Visible
  <1>9. SetupOwnsConfig'
    <2> SUFFICES ASSUME NEW d \in Call, OnlySetup(d)'
                 PROVE  /\ calls'[d].pc = "writing" => disk' = "Empty"
                        /\ calls'[d].pc \in {"permitting", "counting", "queued", "holding", "ok"} =>
                              disk' = calls'[d].cred
      BY DEF SetupOwnsConfig
    <2>1. CASE d = c
      BY <1>1, <1>2, <1>4, <2>1 DEF OnlySetup
    <2>2. CASE d # c
      <3>1. OnlySetup(d)
        BY <1>3, <1>4, <2>2 DEF OnlySetup
      <3> QED
        BY <1>0, <1>4, <2>2, <3>1 DEF IInv, SetupOwnsConfig
    <2> QED
      BY <2>1, <2>2
  <1> QED
    BY <1>5, <1>6, <1>7, <1>8, <1>9 DEF IInv

\* Calls keep their kind and credentials once they have arrived.
LEMMA SetupsStay ==
    ASSUME IInv, NEW c \in Call, NEW new, calls' = [calls EXCEPT ![c] = new],
           new.kind = calls[c].kind, new.cred = calls[c].cred
    PROVE  \A d \in Call : OnlySetup(d)' <=> OnlySetup(d)
  <1>1. calls \in [Call -> CallRecord]
    BY DEF IInv, TypeOK
  <1>2. \A d \in Call : calls'[d].kind = calls[d].kind
    BY <1>1
  <1> QED
    BY <1>2 DEF OnlySetup

\* The steps of setup before it takes the lock (tools.rs:217-240).
LEMMA SetupStep ==
    ASSUME IInv, NEW c \in Call, Truncate(c) \/ WriteConfig(c) \/ EnsurePermissions(c)
    PROVE  IInv'
  <1>0. /\ calls \in [Call -> CallRecord] /\ calls[c].kind = "setup"
        /\ calls[c].pc \in {"truncating", "writing", "permitting"}
        /\ calls[c].cred \in Cred /\ disk \in Cred \cup {None, "Empty", "Torn"}
        /\ UNCHANGED <<session, stored, lock, restarts>>
    BY DEF IInv, TypeOK, CallsAreMade, Truncate, WriteConfig, EnsurePermissions, At, Fail
  <1>1. PICK call \in CallRecord :
           /\ calls' = [calls EXCEPT ![c] = call]
           /\ call.pc \in {"writing", "permitting", "counting", "failed"}
           /\ call.kind = calls[c].kind /\ call.cred = calls[c].cred
           /\ call.pc = "writing" => disk' = "Empty"
           /\ call.pc = "permitting" => disk' \in {calls[c].cred, "Torn"}
                                        /\ (disk = "Empty" => disk' = calls[c].cred)
                                        /\ calls[c].pc = "writing"
           /\ call.pc = "counting" => disk' = disk /\ calls[c].pc = "permitting"
           /\ disk' \in {disk, "Empty", "Torn", calls[c].cred}
    <2>1. CASE Fail(c) /\ UNCHANGED disk
      <3>1. calls' = [calls EXCEPT ![c] = Ended(calls[c], "failed")]
        BY <1>0, <2>1 DEF Fail
      <3> QED
        BY <1>0, <2>1, <3>1, EndedType
    <2>2. CASE ~(Fail(c) /\ UNCHANGED disk)
      <3>1. PICK p \in {"writing", "permitting", "counting"} :
               /\ Goto(c, p)
               /\ p = "writing" => disk' = "Empty"
               /\ p = "permitting" => disk' \in {calls[c].cred, "Torn"}
                                      /\ (disk = "Empty" => disk' = calls[c].cred)
                                      /\ calls[c].pc = "writing"
               /\ p = "counting" => disk' = disk /\ calls[c].pc = "permitting"
               /\ disk' \in {disk, "Empty", "Torn", calls[c].cred}
        BY <2>2 DEF Truncate, WriteConfig, EnsurePermissions, At
      <3> DEFINE call == [calls[c] EXCEPT !.pc = p]
      <3>2. calls' = [calls EXCEPT ![c] = call]
        BY <1>0, <3>1 DEF Goto
      <3>3. /\ call \in CallRecord /\ call.pc = p
            /\ call.kind = calls[c].kind /\ call.cred = calls[c].cred
        BY <1>0, <3>1 DEF CallRecord
      <3> QED
        BY <3>1, <3>2, <3>3
    <2> QED
      BY <2>1, <2>2
  <1>2. disk' \in Cred \cup {None, "Empty", "Torn"}
    BY <1>0, <1>1
  <1>3. /\ TypeOK' /\ LockMatches' /\ OneSessionPerCall' /\ PuttersAreOwners'
        /\ CallsAreMade' /\ CountNeverOverstates' /\ CountsAreReached'
    BY <1>0, <1>1, <1>2, OutsideTheLock
  <1>4. \A d \in Call : calls'[d] = IF d = c THEN call ELSE calls[d]
    BY <1>0, <1>1
  <1>5. SetupOwnsConfig'
    <2> SUFFICES ASSUME NEW d \in Call, OnlySetup(d)'
                 PROVE  /\ calls'[d].pc = "writing" => disk' = "Empty"
                        /\ calls'[d].pc \in {"permitting", "counting", "queued", "holding", "ok"} =>
                              disk' = calls'[d].cred
      BY DEF SetupOwnsConfig
    <2>1. OnlySetup(d) /\ d = c
      BY <1>0, <1>1, <1>4 DEF OnlySetup
    <2> QED
      BY <1>0, <1>1, <1>4, <2>1 DEF IInv, SetupOwnsConfig
  <1> QED
    BY <1>3, <1>5 DEF IInv

\* A setup or login counts what its key sees, and asks for the lock
\* (tools.rs:219-232, 728-733).
LEMMA CountStep ==
    ASSUME IInv, NEW c \in Call, Count(c)
    PROVE  IInv'
  <1>0. /\ calls \in [Call -> CallRecord] /\ queue \in Seq(Call)
        /\ calls[c].kind \in {"setup", "login"} /\ calls[c].pc = "counting"
        /\ calls[c].cred \in Cred
        /\ UNCHANGED <<session, disk, memories, late, restarts>>
        /\ memories \in [Scope -> Nat] /\ disk \in Cred \cup {None, "Empty", "Torn"}
    BY DEF IInv, TypeOK, CallsAreMade, Count, At, stored
  <1>1. CASE Fail(c)
    <2> DEFINE call == Ended(calls[c], "failed")
    <2>1. calls' = [calls EXCEPT ![c] = call] /\ UNCHANGED lock
      BY <1>0, <1>1 DEF Fail
    <2>2. /\ call \in CallRecord /\ call.pc = "failed"
          /\ call.kind = calls[c].kind /\ call.cred = calls[c].cred
      BY <1>0, EndedType
    <2> HIDE DEF call
    <2>3. /\ TypeOK' /\ LockMatches' /\ OneSessionPerCall' /\ PuttersAreOwners'
          /\ CallsAreMade' /\ CountNeverOverstates' /\ CountsAreReached'
      BY <1>0, <2>1, <2>2, OutsideTheLock DEF stored
    <2>4. SetupOwnsConfig'
      <3>1. \A d \in Call : calls'[d] = IF d = c THEN call ELSE calls[d]
        BY <1>0, <2>1
      <3>2. \A d \in Call : OnlySetup(d)' <=> OnlySetup(d)
        BY <2>2, <3>1 DEF OnlySetup
      <3> QED
        BY <1>0, <2>2, <3>1, <3>2 DEF IInv, SetupOwnsConfig
    <2> QED
      BY <2>3, <2>4 DEF IInv
  <1>2. CASE ~Fail(c)
    <2> DEFINE seen == Visible(calls[c].cred, calls[c].scope)
               call == [calls[c] EXCEPT !.pc = "queued", !.count = seen]
    <2>1. calls' = [calls EXCEPT ![c] = call] /\ Enqueue(c)
      BY <1>0, <1>2 DEF Count
    <2>2. seen \in Nat
      BY <1>0 DEF Visible, ReadScope, Scope, CallRecord
    <2>3. /\ call.kind = calls[c].kind /\ call.cred = calls[c].cred /\ call.pc = "queued"
          /\ call.count = seen /\ call.scope = calls[c].scope /\ call \in CallRecord
      BY <1>0, <2>2 DEF CallRecord
    <2> HIDE DEF call
    <2>4. \A d \in Call : calls'[d] = IF d = c THEN call ELSE calls[d]
      BY <1>0, <2>1
    <2>5. queue' \in Seq(Call) /\ LockMatches'
      BY <1>0, <2>1, <2>3, QueueGrows DEF IInv, WriteKinds
    <2>6. TypeOK'
      BY <1>0, <2>1, <2>3, <2>5 DEF IInv, TypeOK, Enqueue
    <2>7. OneSessionPerCall' /\ PuttersAreOwners' /\ CallsAreMade'
      BY <1>0, <2>3, <2>4
      DEF IInv, OneSessionPerCall, PuttersAreOwners, OwnerInForce, CallsAreMade
    <2>8. CountNeverOverstates'
      BY <1>0 DEF IInv, CountNeverOverstates, Visible
    <2>9. CountsAreReached'
      <3> SUFFICES ASSUME NEW d \in Call, calls'[d].kind \in {"setup", "login"},
                          calls'[d].pc \in {"queued", "holding"}
                   PROVE  calls'[d].count <= Visible(calls[d].cred, calls[d].scope)'
        BY DEF CountsAreReached
      <3>1. CASE d = c
        <4>1. calls'[d].count = seen /\ Visible(calls[d].cred, calls[d].scope)' = seen
          BY <1>0, <2>3, <2>4, <3>1 DEF Visible
        <4> QED
          BY <2>2, <4>1
      <3>2. CASE d # c
        BY <1>0, <2>4, <3>2 DEF IInv, CountsAreReached, Visible
      <3> QED
        BY <3>1, <3>2
    <2>10. SetupOwnsConfig'
      <3>1. \A d \in Call : OnlySetup(d)' <=> OnlySetup(d)
        BY <2>3, <2>4 DEF OnlySetup
      <3> QED
        BY <1>0, <2>3, <2>4, <3>1 DEF IInv, SetupOwnsConfig
    <2> QED
      BY <2>5, <2>6, <2>7, <2>8, <2>9, <2>10 DEF IInv
  <1> QED
    BY <1>1, <1>2

\* The first in the queue gets the lock, for reading or alone
\* (tokio's read().await and write().await).
LEMMA AcquireStep ==
    ASSUME IInv, NEW c \in Call, Acquire(c)
    PROVE  IInv'
  <1>0. /\ calls \in [Call -> CallRecord] /\ queue \in Seq(Call) /\ queue # <<>>
        /\ c = Head(queue) /\ queue' = Tail(queue) /\ writer = None
        /\ session \in SessionRecord \cup {None} /\ None \notin Call
        /\ UNCHANGED <<session, disk, memories, late, restarts>>
    BY CredIsSomething DEF IInv, TypeOK, Acquire, stored
  <1> DEFINE call == [calls[c] EXCEPT !.pc = "holding", !.seen = session]
  <1>1. calls' = [calls EXCEPT ![c] = call]
    BY <1>0 DEF Acquire
  <1>2. /\ call.kind = calls[c].kind /\ call.cred = calls[c].cred /\ call.pc = "holding"
        /\ call.count = calls[c].count /\ call.scope = calls[c].scope /\ call.seen = session
        /\ call \in CallRecord
    BY <1>0 DEF CallRecord
  <1> HIDE DEF call
  <1>3. \A d \in Call : calls'[d] = IF d = c THEN call ELSE calls[d]
    BY <1>0, <1>1
  <1>4. /\ queue' \in Seq(Call) /\ Len(queue) \in Nat \ {0} /\ queue[1] = c
        /\ DOMAIN queue = 1..Len(queue) /\ DOMAIN queue' = 1..(Len(queue) - 1)
        /\ \A i \in DOMAIN queue' : queue'[i] = queue[i + 1]
    BY <1>0
  <1>5. \A i \in DOMAIN queue' : i + 1 \in DOMAIN queue /\ queue'[i] \in Call /\ queue'[i] # c
    <2>1. 1 \in DOMAIN queue
      BY <1>4
    <2>2. \A i \in DOMAIN queue' : i + 1 \in DOMAIN queue /\ i + 1 # 1 /\ queue'[i] \in Call
      BY <1>4
    <2> QED
      BY <1>4, <2>1, <2>2 DEF IInv, LockMatches
  <1>6. calls[c].pc = "queued"
    <2>1. 1 \in DOMAIN queue
      BY <1>4
    <2> QED
      BY <1>4, <2>1 DEF IInv, LockMatches
  <1>7. \/ calls[c].kind \in ReadKinds /\ readers' = readers \cup {c} /\ writer' = writer
        \/ calls[c].kind \in WriteKinds /\ readers = {} /\ readers' = readers /\ writer' = c
    BY DEF Acquire
  <1>8. TypeOK'
    BY <1>0, <1>1, <1>2, <1>4, <1>7 DEF IInv, TypeOK
  <1>9. LockMatches'
    <2>1. writer' # None => readers' = {}
      BY <1>0, <1>7
    <2>2. \A i \in DOMAIN queue' : calls'[queue'[i]].pc = "queued"
      BY <1>3, <1>4, <1>5 DEF IInv, LockMatches
    <2>3. \A i, j \in DOMAIN queue' : queue'[i] = queue'[j] => i = j
      <3>1. ASSUME NEW i \in DOMAIN queue', NEW j \in DOMAIN queue', queue'[i] = queue'[j]
            PROVE  i + 1 = j + 1
        BY <1>4, <1>5, <3>1 DEF IInv, LockMatches
      <3>2. \A i \in DOMAIN queue' : i \in Nat
        BY <1>4
      <3> QED
        BY <3>1, <3>2
    <2>4. \A d \in Call :
             /\ d \in readers' <=> calls'[d].kind \in ReadKinds /\ calls'[d].pc \in {"holding", "putting"}
             /\ d = writer' <=> calls'[d].kind \in WriteKinds /\ calls'[d].pc = "holding"
      BY <1>0, <1>2, <1>3, <1>6, <1>7 DEF IInv, LockMatches, ReadKinds, WriteKinds
    <2> QED
      BY <2>1, <2>2, <2>3, <2>4 DEF LockMatches
  <1>10. OneSessionPerCall' /\ PuttersAreOwners' /\ CallsAreMade'
    BY <1>0, <1>2, <1>3, <1>6
    DEF IInv, OneSessionPerCall, PuttersAreOwners, OwnerInForce, CallsAreMade
  <1>11. CountNeverOverstates' /\ CountsAreReached'
    BY <1>0, <1>2, <1>3, <1>6 DEF IInv, CountNeverOverstates, CountsAreReached, Visible
  <1>12. SetupOwnsConfig'
    <2>1. \A d \in Call : OnlySetup(d)' <=> OnlySetup(d)
      BY <1>2, <1>3 DEF OnlySetup
    <2> QED
      BY <1>0, <1>2, <1>3, <1>6, <2>1 DEF IInv, SetupOwnsConfig
  <1> QED
    BY <1>8, <1>9, <1>10, <1>11, <1>12 DEF IInv

\* The memories of the store only become more: no tool deletes any
\* (tools.rs:408-410, 487-489, 554).
MemoriesGrow ==
    /\ memories' \in [Scope -> Nat]
    /\ \A s \in Scope : memories[s] <= memories'[s]

\* So a count that was right stays right: that of a session in force
\* (tools.rs:248-252, 303-305).
LEMMA SessionCountStays ==
    ASSUME IInv, UNCHANGED session, MemoriesGrow
    PROVE  CountNeverOverstates'
  <1> SUFFICES ASSUME session # None
               PROVE  session.count <= Visible(session.cred, session.scope)'
    BY DEF CountNeverOverstates
  <1>1. session \in SessionRecord /\ memories \in [Scope -> Nat]
    BY DEF IInv, TypeOK
  <1>2. session.count <= Visible(session.cred, session.scope) /\ session.count \in Nat
    BY <1>1 DEF IInv, CountNeverOverstates, SessionRecord
  <1>3. /\ Visible(session.cred, session.scope) \in Nat
        /\ Visible(session.cred, session.scope)' \in Nat
        /\ Visible(session.cred, session.scope) <= Visible(session.cred, session.scope)'
    BY <1>1 DEF MemoriesGrow, Visible, ReadScope, Scope
  <1> QED
    BY <1>2, <1>3

\* and that of a call that waits to install its session (tools.rs:244-247,
\* 299-302).
LEMMA CallCountsStay ==
    ASSUME IInv, MemoriesGrow,
           \A d \in Call : calls'[d].kind \in {"setup", "login"}
                          /\ calls'[d].pc \in {"queued", "holding"} => calls'[d] = calls[d]
    PROVE  CountsAreReached'
  <1> SUFFICES ASSUME NEW d \in Call, calls'[d].kind \in {"setup", "login"},
                      calls'[d].pc \in {"queued", "holding"}
               PROVE  calls'[d].count <= Visible(calls[d].cred, calls[d].scope)'
    BY DEF CountsAreReached
  <1>0. calls \in [Call -> CallRecord] /\ memories \in [Scope -> Nat]
    BY DEF IInv, TypeOK
  <1>1. calls'[d] = calls[d]
    OBVIOUS
  <1> DEFINE cred == calls[d].cred
             scope == calls[d].scope
  <1>2. calls[d].count <= Visible(cred, scope) /\ calls[d].count \in Nat
    BY <1>0, <1>1 DEF IInv, CountsAreReached, CallRecord
  <1>3. /\ Visible(cred, scope) \in Nat
        /\ Visible(calls[d].cred, calls[d].scope)' \in Nat
        /\ Visible(cred, scope) <= Visible(calls[d].cred, calls[d].scope)'
    BY <1>0, <1>1 DEF MemoriesGrow, Visible, ReadScope, Scope
  <1> QED
    BY <1>1, <1>2, <1>3

\* A call returns and drops its guard (tools.rs:247-260, 313-320, 394-415): a
\* reader has changed no session, and while a writer changed it nobody else
\* held the lock.
LEMMA ReturnStep ==
    ASSUME IInv, NEW c \in Call, NEW p \in {"ok", "failed"},
           calls[c].pc \in {"holding", "putting"}, Return(c, p),
           calls[c].kind \in WriteKinds \cup ReadKinds,
           UNCHANGED <<disk, restarts>>,
           MemoriesGrow, late' \in [Scope -> Nat],
           session' \in SessionRecord \cup {None},
           session' = session \/ calls[c].kind \in WriteKinds,
           CountNeverOverstates'
    PROVE  IInv'
  <1>0. /\ calls \in [Call -> CallRecord] /\ queue \in Seq(Call) /\ queue' = queue
        /\ readers' = readers \ {c} /\ writer' = IF writer = c THEN None ELSE writer
        /\ memories \in [Scope -> Nat] /\ None \notin Call
    BY CredIsSomething DEF IInv, TypeOK, Return, Release
  <1> DEFINE call == Ended(calls[c], p)
  <1>1. calls' = [calls EXCEPT ![c] = call]
    BY <1>0 DEF Return
  <1>2. /\ call.kind = calls[c].kind /\ call.cred = calls[c].cred /\ call.pc = p
        /\ call \in CallRecord
    BY <1>0, EndedType
  <1> HIDE DEF call
  <1>3. \A d \in Call : calls'[d] = IF d = c THEN call ELSE calls[d]
    BY <1>0, <1>1
  <1>4. TypeOK'
    BY <1>0, <1>1, <1>2 DEF IInv, TypeOK, MemoriesGrow
  <1>5. LockMatches'
    <2>1. \A i \in DOMAIN queue : queue[i] \in Call /\ queue[i] # c
      BY <1>0 DEF IInv, LockMatches
    <2> QED
      BY <1>0, <1>2, <1>3, <2>1 DEF IInv, LockMatches
  <1>6. OneSessionPerCall' /\ PuttersAreOwners'
    <2>1. CASE session' = session
      BY <1>2, <1>3, <2>1 DEF IInv, OneSessionPerCall, PuttersAreOwners, OwnerInForce
    <2>2. CASE calls[c].kind \in WriteKinds
      <3>1. writer = c /\ readers = {}
        BY <1>0, <2>2 DEF IInv, LockMatches, PuttersAreOwners, WriteKinds
      <3>2. \A d \in Call \ {c} : calls[d].pc \notin {"holding", "putting"}
        <4> SUFFICES ASSUME NEW d \in Call \ {c}, calls[d].pc \in {"holding", "putting"}
                     PROVE  FALSE
          OBVIOUS
        <4>1. calls[d].kind \in WriteKinds \cup ReadKinds
          BY <1>0 DEF IInv, CallsAreMade, CallRecord
        <4> QED
          BY <3>1, <4>1 DEF IInv, LockMatches, PuttersAreOwners, ReadKinds
      <3> QED
        BY <1>2, <1>3, <3>2 DEF OneSessionPerCall, PuttersAreOwners
    <2> QED
      BY <2>1, <2>2
  <1>7. CallsAreMade'
    BY <1>2, <1>3 DEF IInv, CallsAreMade
  <1>8. CountsAreReached'
    BY <1>2, <1>3, CallCountsStay
  <1>9. SetupOwnsConfig'
    <2>1. \A d \in Call : OnlySetup(d)' <=> OnlySetup(d)
      BY <1>2, <1>3 DEF OnlySetup
    <2>2. calls[c].kind = "setup" => calls[c].pc = "holding"
      BY DEF IInv, PuttersAreOwners
    <2>3. ASSUME NEW d \in Call, OnlySetup(d)
          PROVE  /\ calls'[d].pc = "writing" => disk' = "Empty"
                 /\ calls'[d].pc \in {"permitting", "counting", "queued", "holding", "ok"} =>
                        disk' = calls'[d].cred
      <3>1. CASE d = c
        <4>1. disk' = calls[c].cred
          BY <2>2, <2>3, <3>1 DEF IInv, SetupOwnsConfig, OnlySetup
        <4> QED
          BY <1>2, <1>3, <3>1, <4>1
      <3>2. CASE d # c
        BY <1>3, <2>3, <3>2 DEF IInv, SetupOwnsConfig
      <3> QED
        BY <3>1, <3>2
    <2> QED
      BY <2>1, <2>3 DEF SetupOwnsConfig
  <1> QED
    BY <1>4, <1>5, <1>6, <1>7, <1>8, <1>9 DEF IInv

\* setup and login install their session (tools.rs:247-252, 302-305), logout
\* takes it away (tools.rs:313-320), and a reading call leaves it alone.
LEMMA HoldersReturn ==
    ASSUME IInv, NEW c \in Call, Install(c) \/ Logout(c) \/ Read(c)
    PROVE  IInv'
  <1>0. /\ calls \in [Call -> CallRecord] /\ calls[c].pc = "holding"
        /\ session \in SessionRecord \cup {None} /\ memories \in [Scope -> Nat]
        /\ UNCHANGED <<disk, memories, late, restarts>> /\ late \in [Scope -> Nat]
        /\ MemoriesGrow
    BY DEF IInv, TypeOK, Install, Logout, Read, At, stored, MemoriesGrow
  <1>1. CASE Install(c)
    <2>1. /\ calls[c].kind \in {"setup", "login"} /\ calls[c].cred \in Cred
          /\ session' = NewSession(calls[c].cred, calls[c].scope, calls[c].count)
          /\ Return(c, "ok")
          /\ calls[c].scope \in Scope /\ calls[c].count \in Nat
      BY <1>0, <1>1 DEF IInv, CallsAreMade, CallRecord, Install, At
    <2>2. session' \in SessionRecord
      BY <2>1, SessionType
    <2>3. calls[c].count <= Visible(calls[c].cred, calls[c].scope)
      BY <1>0, <2>1 DEF IInv, CountsAreReached
    <2>4. CountNeverOverstates'
      <3>1. /\ session'.cred = calls[c].cred /\ session'.scope = calls[c].scope
            /\ session'.count = calls[c].count
        BY <2>1 DEF NewSession
      <3> QED
        BY <1>0, <2>3, <3>1 DEF CountNeverOverstates, Visible
    <2> QED
      BY <1>0, <2>1, <2>2, <2>4, ReturnStep DEF WriteKinds
  <1>2. CASE Logout(c)
    <2>1. CountNeverOverstates'
      BY <1>2 DEF Logout, CountNeverOverstates
    <2> QED
      BY <1>0, <1>2, <2>1, ReturnStep DEF Logout, At, WriteKinds
  <1>3. CASE Read(c)
    BY <1>0, <1>3, ReturnStep, SessionCountStays DEF Read, At, ReadKinds
  <1> QED
    BY <1>1, <1>2, <1>3

\* One more.
LEMMA OneMore ==
    ASSUME NEW f \in [Scope -> Nat], NEW s \in Scope
    PROVE  /\ [f EXCEPT ![s] = @ + 1] \in [Scope -> Nat]
           /\ \A t \in Scope : f[t] <= [f EXCEPT ![s] = @ + 1][t]
  <1> DEFINE g == [f EXCEPT ![s] = @ + 1]
  <1>1. g = [t \in Scope |-> IF t = s THEN f[t] + 1 ELSE f[t]]
    OBVIOUS
  <1>2. \A t \in Scope : f[t] \in Nat
    OBVIOUS
  <1> HIDE DEF g
  <1>3. g \in [Scope -> Nat] /\ \A t \in Scope : f[t] <= g[t]
    BY <1>1, <1>2
  <1> QED
    BY <1>3 DEF g

\* What the store does with a memory that was sent, or does not
\* (tools.rs:408-410, 487-489, 554).
LEMMA PutGrows ==
    ASSUME IInv, NEW c \in Call, Put(c)
    PROVE  MemoriesGrow /\ late' \in [Scope -> Nat]
  <1> DEFINE s == calls[c].scope
  <1>1. memories \in [Scope -> Nat] /\ late \in [Scope -> Nat] /\ s \in Scope
    BY DEF IInv, TypeOK, CallRecord
  <1>2. /\ memories' = memories \/ memories' = [memories EXCEPT ![s] = @ + 1]
        /\ late' = late \/ late' = [late EXCEPT ![s] = @ + 1]
    BY DEF Put, Stores, Delays, stored
  <1> HIDE DEF s
  <1>3. MemoriesGrow
    <2>1. CASE memories' = memories
      BY <1>1, <2>1 DEF MemoriesGrow
    <2>2. CASE memories' = [memories EXCEPT ![s] = @ + 1]
      BY <1>1, <2>2, OneMore DEF MemoriesGrow
    <2> QED
      BY <1>2, <2>1, <2>2
  <1>4. late' \in [Scope -> Nat]
    BY <1>1, <1>2, OneMore
  <1> QED
    BY <1>3, <1>4

\* A call goes to the store, or goes on with the next entry, under its guard
\* (tools.rs:400-410, 476-489, 530-554).
LEMMA SendStep ==
    ASSUME IInv, NEW c \in Call, NEW call \in CallRecord, calls' = [calls EXCEPT ![c] = call],
           call.kind = calls[c].kind, call.cred = calls[c].cred, call.seen = calls[c].seen,
           call.pc = "putting", calls[c].pc \in {"holding", "putting"},
           calls[c].kind \in {"write", "sync"}, OwnerInForce,
           UNCHANGED <<session, disk, lock, restarts>>,
           MemoriesGrow, late' \in [Scope -> Nat]
    PROVE  IInv'
  <1>0. /\ calls \in [Call -> CallRecord] /\ queue \in Seq(Call)
        /\ UNCHANGED <<queue, readers, writer>>
    BY DEF IInv, TypeOK, lock
  <1>1. \A d \in Call : calls'[d] = IF d = c THEN call ELSE calls[d]
    BY <1>0
  <1>2. TypeOK'
    BY <1>0 DEF IInv, TypeOK, MemoriesGrow
  <1>3. LockMatches'
    <2>1. \A i \in DOMAIN queue : queue[i] \in Call /\ queue[i] # c
      BY <1>0 DEF IInv, LockMatches
    <2> QED
      BY <1>0, <1>1, <2>1 DEF IInv, LockMatches, WriteKinds, ReadKinds
  <1>4. OneSessionPerCall' /\ PuttersAreOwners' /\ CallsAreMade'
    BY <1>0, <1>1 DEF IInv, OneSessionPerCall, PuttersAreOwners, OwnerInForce, CallsAreMade
  <1>5. CountNeverOverstates' /\ CountsAreReached'
    BY <1>1, SessionCountStays, CallCountsStay
  <1>6. SetupOwnsConfig'
    BY <1>0, <1>1 DEF IInv, SetupOwnsConfig, OnlySetup
  <1> QED
    BY <1>2, <1>3, <1>4, <1>5, <1>6 DEF IInv

\* A call that writes is turned away, or goes to the store as long as it has
\* something to store (tools.rs:389-415, 464-490, 511-562).
LEMMA WriteStep ==
    ASSUME IInv, NEW c \in Call, Write(c) \/ Put(c)
    PROVE  IInv'
  <1>0. /\ calls \in [Call -> CallRecord] /\ calls[c].kind \in {"write", "sync"}
        /\ calls[c].pc \in {"holding", "putting"}
        /\ session \in SessionRecord \cup {None} /\ memories \in [Scope -> Nat]
        /\ UNCHANGED <<session, disk, restarts>>
    BY DEF IInv, TypeOK, Write, Put, At
  <1>1. MemoriesGrow /\ late' \in [Scope -> Nat]
    <2>1. CASE Write(c)
      BY <2>1 DEF Write, IInv, TypeOK, MemoriesGrow, stored
    <2> QED
      BY <2>1, PutGrows
  <1>2. ASSUME NEW p \in {"ok", "failed"}, Return(c, p)
        PROVE  IInv'
    BY <1>0, <1>1, <1>2, ReturnStep, SessionCountStays DEF ReadKinds
  <1>3. CASE Goto(c, "putting") /\ UNCHANGED lock /\ OwnerInForce
    <2> DEFINE call == [calls[c] EXCEPT !.pc = "putting"]
    <2>1. calls' = [calls EXCEPT ![c] = call]
      BY <1>0, <1>3 DEF Goto
    <2>2. /\ call \in CallRecord /\ call.kind = calls[c].kind /\ call.cred = calls[c].cred
          /\ call.seen = calls[c].seen /\ call.pc = "putting"
      BY <1>0 DEF CallRecord
    <2> HIDE DEF call
    <2> QED
      BY <1>0, <1>1, <1>3, <2>1, <2>2, SendStep
  <1>4. CASE Put(c) /\ NextEntry(c)
    <2>0. PICK s \in Scope : calls' = [calls EXCEPT ![c].scope = s, ![c].count = @ - 1]
      BY <1>4 DEF NextEntry
    <2> DEFINE call == [calls[c] EXCEPT !.scope = s, !.count = @ - 1]
    <2>1. calls' = [calls EXCEPT ![c] = call]
      BY <1>0, <2>0
    <2>2. calls[c].count - 1 \in Nat /\ calls[c].pc = "putting" /\ UNCHANGED lock
      BY <1>0, <1>4 DEF NextEntry, CallRecord, Put, At
    <2>3. /\ call \in CallRecord /\ call.kind = calls[c].kind /\ call.cred = calls[c].cred
          /\ call.seen = calls[c].seen /\ call.pc = "putting"
      BY <1>0, <2>2 DEF CallRecord
    <2>4. OwnerInForce
      BY <2>2 DEF IInv, PuttersAreOwners
    <2> HIDE DEF call
    <2> QED
      BY <1>0, <1>1, <2>1, <2>2, <2>3, <2>4, SendStep
  <1> QED
    BY <1>2, <1>3, <1>4 DEF Write, Put, Answered

\* A request that nobody waits for is carried out (fileverse.rs:165-170), and
\* no call and no session knows.
LEMMA ArrivesStep ==
    ASSUME IInv, NEW s \in Scope, Arrives(s)
    PROVE  IInv'
  <1>0. /\ memories \in [Scope -> Nat] /\ late \in [Scope -> Nat] /\ late[s] > 0
        /\ late' = [late EXCEPT ![s] = @ - 1]
        /\ UNCHANGED <<session, disk, queue, readers, writer, calls, restarts>>
    BY DEF IInv, TypeOK, Arrives, lock
  <1>1. MemoriesGrow
    <2>1. CASE memories' = memories
      BY <1>0, <2>1 DEF MemoriesGrow
    <2>2. CASE memories' = [memories EXCEPT ![s] = @ + 1]
      BY <1>0, <2>2, OneMore DEF MemoriesGrow
    <2> QED
      BY <2>1, <2>2 DEF Arrives
  <1>2. late' \in [Scope -> Nat]
    BY <1>0
  <1>3. TypeOK'
    BY <1>0, <1>1, <1>2 DEF IInv, TypeOK, MemoriesGrow
  <1>4. CountNeverOverstates' /\ CountsAreReached'
    BY <1>0, <1>1, SessionCountStays, CallCountsStay
  <1> QED
    BY <1>0, <1>3, <1>4
    DEF IInv, LockMatches, OneSessionPerCall, PuttersAreOwners, OwnerInForce, CallsAreMade,
        SetupOwnsConfig, OnlySetup

\* The server starts again from its file, and no call has survived
\* (main.rs:32-42).
LEMMA RestartStep ==
    ASSUME IInv, Restart
    PROVE  IInv'
  <1>0. /\ calls \in [Call -> CallRecord] /\ memories \in [Scope -> Nat]
        /\ disk \in Cred \cup {None, "Empty", "Torn"} /\ restarts \in Nat
        /\ UNCHANGED <<disk, memories>> /\ session' = FromConfig(disk)
        /\ queue' = <<>> /\ readers' = {} /\ writer' = None /\ restarts' = restarts + 1
    BY DEF IInv, TypeOK, Restart
  <1>1. /\ session' \in SessionRecord \cup {None}
        /\ session' # None => session' = NewSession(disk, "/", 0) /\ disk \in Cred
    BY <1>0, SessionType DEF FromConfig, Scope
  <1>2. \A c \in Call :
           /\ calls'[c] \in CallRecord
           /\ calls'[c].kind = calls[c].kind /\ calls'[c].cred = calls[c].cred
           /\ \/ calls[c].pc \in {"idle", "ok", "failed"} /\ calls'[c] = calls[c]
              \/ calls[c].pc \notin {"idle", "ok", "failed"} /\ calls'[c].pc = "killed"
    <2> TAKE c \in Call
    <2>1. calls'[c] = IF calls[c].pc \in {"idle", "ok", "failed"} THEN calls[c]
                      ELSE Ended(calls[c], "killed")
      BY DEF Restart
    <2>2. calls[c] \in CallRecord
      BY <1>0
    <2> QED
      BY <2>1, <2>2, EndedType
  <1>3. TypeOK'
    <2>1. calls' \in [Call -> CallRecord]
      <3>1. calls' = [c \in Call |-> calls'[c]]
        BY DEF Restart
      <3> QED
        BY <1>2, <3>1
    <2>2. late' \in [Scope -> Nat]
      <3>1. \A s \in Scope : Cardinality(Waiting(s)) \in Nat
        BY CallAssumption, FS_Subset, FS_CardinalityType DEF Waiting
      <3>2. late \in [Scope -> Nat] /\ late' = [s \in Scope |-> late[s] + Cardinality(Waiting(s))]
        BY DEF IInv, TypeOK, Restart
      <3> QED
        BY <3>1, <3>2
    <2> QED
      BY <1>0, <1>1, <2>1, <2>2 DEF TypeOK
  <1>4. LockMatches'
    BY <1>0, <1>2, CredIsSomething DEF LockMatches
  <1>5. OneSessionPerCall' /\ PuttersAreOwners' /\ CallsAreMade' /\ CountsAreReached'
    BY <1>2 DEF IInv, OneSessionPerCall, PuttersAreOwners, CallsAreMade, CountsAreReached
  <1>6. CountNeverOverstates'
    BY <1>0, <1>1 DEF CountNeverOverstates, NewSession, Visible, Scope
  <1>7. SetupOwnsConfig'
    <2>1. \A d \in Call : OnlySetup(d)' <=> OnlySetup(d)
      BY <1>2 DEF OnlySetup
    <2> QED
      BY <1>0, <1>2, <2>1 DEF IInv, SetupOwnsConfig
  <1> QED
    BY <1>3, <1>4, <1>5, <1>6, <1>7 DEF IInv

\* Every step keeps the invariant (tools.rs:189-786, main.rs:27-60).
LEMMA NextInvariant ==
    ASSUME IInv, [Next]_vars
    PROVE  IInv'
  <1>1. ASSUME NEW c \in Call, StartAny(c)
        PROVE  IInv'
    <2>1. ASSUME NEW n \in 1..MaxEntries
          PROVE  n - 1 \in Nat
      BY EntriesAssumption
    <2> QED
      BY <1>1, <2>1, CallArrives DEF StartAny, WriteKinds, ReadKinds, Scope
  <1>2. ASSUME NEW c \in Call, Step(c)
        PROVE  IInv'
    BY <1>2, SetupStep, CountStep, AcquireStep, HoldersReturn, WriteStep DEF Step
  <1>3. CASE UNCHANGED vars
    BY <1>3 DEF vars, IInv, TypeOK, LockMatches, OneSessionPerCall, PuttersAreOwners,
        OwnerInForce, CallsAreMade, CountNeverOverstates, CountsAreReached, Visible,
        SetupOwnsConfig, OnlySetup
  <1> QED
    BY <1>1, <1>2, <1>3, ArrivesStep, RestartStep DEF Next, Finished

-------------------------------------------------------------------------------
(* Theorems *)

\* The invariant holds in every state of every behaviour of the server
\* (tools.rs:189-786, main.rs:27-60).
THEOREM Invariance == Spec => []IInv
  <1>1. Init => IInv
    BY InitInvariant
  <1>2. IInv /\ [Next]_vars => IInv'
    BY NextInvariant
  <1> QED
    BY <1>1, <1>2, PTL DEF Spec

\* The session, its file, the lock and the calls keep their shape (session.rs:84-124).
THEOREM TypeCorrect == Spec => []TypeOK
  <1>1. IInv => TypeOK
    BY DEF IInv
  <1> QED
    BY <1>1, Invariance, PTL

\* A call works under the session it found when it got the lock, whatever
\* setups, logins and logouts run beside it (tools.rs:324, 362, 389).
THEOREM SessionIsStable == Spec => []OneSessionPerCall
  <1>1. IInv => OneSessionPerCall
    BY DEF IInv
  <1> QED
    BY <1>1, Invariance, PTL

\* The count of a session never exceeds what its key sees
\* (tools.rs:299-305, 728-733).
THEOREM CountsAreCautious == Spec => []CountNeverOverstates
  <1>1. IInv => CountNeverOverstates
    BY DEF IInv
  <1> QED
    BY <1>1, Invariance, PTL

\* What an only setup has installed, a restart restores
\* (tools.rs:224-228, main.rs:32-37).
THEOREM SetupIsPersistent == Spec => []SetupSurvivesRestart
  <1>1. IInv => SetupSurvivesRestart
    BY DEF IInv, SetupSurvivesRestart, SetupOwnsConfig, CallsAreMade, OnlySetup, FromConfig
  <1> QED
    BY <1>1, Invariance, PTL

\* Memories are sent to the store only while an owner's session is in force;
\* a request that arrives late was sent then (tools.rs:394-399, 476-503,
\* 547-562).
THEOREM StoresByOwnersOnly == Spec => OnlyOwnersStore
  <1>1. ASSUME IInv, [Next]_vars, NEW s \in Scope, Sent(s)' > Sent(s)
        PROVE  OwnerInForce
    <2>0. memories[s] \in Nat /\ late[s] \in Nat
      BY <1>1 DEF IInv, TypeOK
    <2>1. ~UNCHANGED stored
      BY <1>1, <2>0 DEF stored, Sent
    <2>2. ASSUME NEW c \in Call, StartAny(c) \/ Step(c)
          PROVE  Put(c)
      BY <2>1, <2>2
      DEF StartAny, Start, Step, Truncate, WriteConfig, EnsurePermissions, Count, Acquire,
          Install, Logout, Read, Write
    <2>3. ASSUME NEW t \in Scope
          PROVE  ~Arrives(t)
      <3> SUFFICES ASSUME Arrives(t)
                   PROVE  FALSE
        OBVIOUS
      <3>1. /\ memories \in [Scope -> Nat] /\ late \in [Scope -> Nat]
            /\ late' = [late EXCEPT ![t] = @ - 1]
            /\ memories' = memories \/ memories' = [memories EXCEPT ![t] = @ + 1]
        BY <1>1 DEF IInv, TypeOK, Arrives
      <3>2. /\ late'[s] = IF s = t THEN late[s] - 1 ELSE late[s]
            /\ memories'[s] \in {memories[s], IF s = t THEN memories[s] + 1 ELSE memories[s]}
        BY <3>1
      <3> QED
        BY <1>1, <2>0, <3>2 DEF Sent
    <2>4. CASE \E c \in Call : Put(c)
      BY <1>1, <2>4 DEF Put, At, IInv, PuttersAreOwners
    <2>5. CASE Restart
      <3>1. Waiting(s) # {}
        <4> SUFFICES ASSUME Waiting(s) = {}
                     PROVE  FALSE
          OBVIOUS
        <4>1. Cardinality(Waiting(s)) = 0
          BY FS_EmptySet
        <4>2. late'[s] = late[s] + Cardinality(Waiting(s)) /\ memories'[s] = memories[s]
          BY <1>1, <2>5 DEF Restart
        <4>3. Sent(s)' = Sent(s)
          BY <2>0, <4>1, <4>2 DEF Sent
        <4> QED
          BY <1>1, <2>0, <4>3 DEF Sent
      <3> QED
        BY <1>1, <3>1 DEF Waiting, IInv, PuttersAreOwners
    <2> QED
      BY <1>1, <2>1, <2>2, <2>3, <2>4, <2>5 DEF Next, Finished, vars, stored
  <1>2. IInv /\ [Next]_vars => [(\E s \in Scope : Sent(s)' > Sent(s)) => OwnerInForce]_vars
    BY <1>1
  <1> QED
    BY <1>2, Invariance, PTL DEF Spec, OnlyOwnersStore

===============================================================================
