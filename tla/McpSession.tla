------------------------------ MODULE McpSession ------------------------------
(***************************************************************************)
(* The session of the MCP server (rok-mcp/src/tools.rs, session.rs,        *)
(* main.rs): tool calls run concurrently, share one optional session       *)
(* behind tokio's RwLock, and setup keeps the credentials in               *)
(* ~/.rok/session.json, from which the next start restores the session.    *)
(*                                                                         *)
(* tokio's RwLock is external: it serves its waiters in the order in which *)
(* they asked.  The memories behind the session are only counted here, for *)
(* one owner and one document server; Fileverse models how they get there. *)
(***************************************************************************)
EXTENDS Naturals, Sequences, FiniteSets

CONSTANTS
    Call,           \* tool calls, each made at most once
    OwnerCred,      \* credentials with the owner's spend seed
    AgentCred,      \* credentials with a read key and the owner's public key
    Garbled,        \* those agent credentials that do not decode
    AgentScope,     \* AgentCred -> Scope: the scope of an agent's read key
    None,           \* no session, no config, nobody
    InitialDisk,    \* what earlier runs may have left in session.json
    MaxWrites,      \* bound: memories stored, and requests under way late
    MaxEntries,     \* bound: entries of one sync
    MaxRestarts     \* bound: restarts of the server

ASSUME CallAssumption == IsFiniteSet(Call)
ASSUME EntriesAssumption == MaxEntries \in Nat
ASSUME CredAssumption ==
    /\ Garbled \subseteq AgentCred
    /\ OwnerCred \cap AgentCred = {}
    /\ None \notin OwnerCred \cup AgentCred \cup Call

Cred == OwnerCred \cup AgentCred

\* A scope and one below it: enough to tell the scope of the session, that of
\* the read key and that of a memory apart.
Scope == {"/", "/sub"}
ASSUME AgentScopeAssumption == AgentScope \in [AgentCred -> Scope]
ASSUME InitialDiskAssumption == InitialDisk \subseteq Cred \cup {None, "Empty", "Torn"}

VARIABLES
    session,    \* the session, or None
    disk,       \* session.json: None, a credential, or "Empty" or "Torn"
    memories,   \* memories[s]: how many memories are stored at scope s
    late,       \* late[s]: requests to store at s whose caller no longer waits
    queue,      \* calls waiting for the lock, in order
    readers,    \* calls holding the lock for reading
    writer,     \* the call holding it for writing, or None
    calls,      \* calls[c]: what the call is and where it is
    restarts

vars == <<session, disk, memories, late, queue, readers, writer, calls, restarts>>
lock == <<queue, readers, writer>>
stored == <<memories, late>>

-------------------------------------------------------------------------------
\* Session::new_owner and Session::new_agent
NewSession(cred, scope, count) ==
    [role |-> IF cred \in OwnerCred THEN "Owner" ELSE "Agent",
     cred |-> cred, scope |-> scope, count |-> count]

\* build_session_from_config: an agent's strings are not looked into, and the
\* scope is the root whatever the key is for.
FromConfig(config) ==
    IF config \in Cred THEN NewSession(config, "/", 0) ELSE None

\* Session::read_key: the scope of the key a session reads with.
ReadScope(cred, scope) == IF cred \in OwnerCred THEN scope ELSE AgentScope[cred]

\* What MemoryReader::list returns, counted.
Visible(cred, scope) ==
    IF ReadScope(cred, scope) = "/" THEN memories["/"] + memories["/sub"]
    ELSE memories["/sub"]

\* The check of the tools that need the spend seed.
OwnerInForce == session # None /\ session.role = "Owner"

NoCall == [kind |-> "none", pc |-> "idle", cred |-> None, scope |-> "/",
           count |-> 0, seen |-> None]

Init ==
    /\ disk \in InitialDisk
    /\ session = FromConfig(disk)
    /\ memories = [s \in Scope |-> 0] /\ late = [s \in Scope |-> 0]
    /\ queue = <<>> /\ readers = {} /\ writer = None
    /\ calls = [c \in Call |-> NoCall]
    /\ restarts = 0

At(c, kinds, pc) == calls[c].kind \in kinds /\ calls[c].pc = pc
Goto(c, pc) == calls' = [calls EXCEPT ![c].pc = pc]

WriteKinds == {"setup", "login", "logout"}
ReadKinds == {"write", "sync", "read"}

Enqueue(c) == queue' = Append(queue, c) /\ UNCHANGED <<readers, writer>>

Release(c) ==
    /\ readers' = readers \ {c}
    /\ writer' = IF writer = c THEN None ELSE writer
    /\ UNCHANGED queue

\* A call is over: its scope and what it counted and saw are forgotten.
Ended(call, pc) == [call EXCEPT !.pc = pc, !.scope = "/", !.count = 0, !.seen = None]

\* A call that holds the lock returns, and its guard is dropped.
Return(c, pc) ==
    /\ Release(c)
    /\ calls' = [calls EXCEPT ![c] = Ended(@, pc)]

-------------------------------------------------------------------------------
\* A tool call arrives.  "read" stands for the calls that only read under the
\* lock: list, read, status, grant, list_resources, read_resource, and propose
\* by an agent; "write" for write, and for propose by an owner; "sync" for
\* sync, which stores entry by entry: scope is that of the entry in hand, and
\* count says how many are left.
Start(c, kind, cred, scope, entries) ==
    /\ calls[c] = NoCall
    /\ LET begin == CASE kind = "setup" -> "truncating"
                      [] kind = "login" -> "counting"
                      [] OTHER -> "queued"
       IN  /\ calls' = [calls EXCEPT ![c] =
                  [kind |-> kind, pc |-> begin, cred |-> cred, scope |-> scope,
                   count |-> entries, seen |-> None]]
           /\ IF begin = "queued" THEN Enqueue(c) ELSE UNCHANGED lock
    /\ UNCHANGED <<session, disk, stored, restarts>>

\* An early return with an error, before the lock is taken.
Fail(c) == calls' = [calls EXCEPT ![c] = Ended(@, "failed")] /\ UNCHANGED lock

\* A slip: a config that is there already is kept.
TruncateIfMissing(c) ==
    /\ At(c, {"setup"}, "truncating")
    /\ disk' = IF disk = None THEN "Empty" ELSE disk
    /\ Goto(c, IF disk = None THEN "writing" ELSE "permitting")
    /\ UNCHANGED <<session, stored, lock, restarts>>

\* setup: std::fs::write opens session.json, which empties it.
Truncate(c) ==
    /\ At(c, {"setup"}, "truncating")
    /\ \/ disk' = "Empty" /\ Goto(c, "writing") /\ UNCHANGED lock
       \/ Fail(c) /\ UNCHANGED disk
    /\ UNCHANGED <<session, stored, restarts>>

\* and writes it.  If another setup has written meanwhile, the end of the
\* longer text may be left behind the shorter one.
WriteConfig(c) ==
    /\ At(c, {"setup"}, "writing")
    /\ \/ /\ disk' \in {calls[c].cred} \cup (IF disk = "Empty" THEN {} ELSE {"Torn"})
          /\ Goto(c, "permitting")
          /\ UNCHANGED lock
       \/ Fail(c) /\ UNCHANGED disk
    /\ UNCHANGED <<session, stored, restarts>>

\* ensure_permissions, which fails on settings it cannot parse.
EnsurePermissions(c) ==
    /\ At(c, {"setup"}, "permitting")
    /\ \/ Goto(c, "counting") /\ UNCHANGED lock
       \/ Fail(c)
    /\ UNCHANGED <<session, disk, stored, restarts>>

\* A slip: everything stored is counted, visible to the key or not.
CountEverything(c) ==
    /\ At(c, {"setup", "login"}, "counting")
    /\ \/ /\ calls[c].cred \notin Garbled
          /\ calls' = [calls EXCEPT
                 ![c].pc = "queued",
                 ![c].count = memories["/"] + memories["/sub"]]
          /\ Enqueue(c)
       \/ Fail(c)
    /\ UNCHANGED <<session, disk, stored, restarts>>

\* A slip: the count is made under a read guard, which is still held when the
\* write guard is asked for.
CountUnderGuard(c) ==
    /\ At(c, {"setup", "login"}, "counting")
    /\ writer = None
    /\ \/ /\ calls[c].cred \notin Garbled
          /\ calls' = [calls EXCEPT
                 ![c].pc = "queued",
                 ![c].count = Visible(calls[c].cred, calls[c].scope)]
          /\ queue' = Append(queue, c)
          /\ readers' = readers \cup {c}
          /\ UNCHANGED writer
       \/ Fail(c)
    /\ UNCHANGED <<session, disk, stored, restarts>>

\* count_memories decodes the credentials and lists the memories, before the
\* lock is asked for.
Count(c) ==
    /\ At(c, {"setup", "login"}, "counting")
    /\ \/ /\ calls[c].cred \notin Garbled
          /\ calls' = [calls EXCEPT
                 ![c].pc = "queued",
                 ![c].count = Visible(calls[c].cred, calls[c].scope)]
          /\ Enqueue(c)
       \/ Fail(c)
    /\ UNCHANGED <<session, disk, stored, restarts>>

\* The first in the queue gets the lock.
Acquire(c) ==
    /\ queue # <<>> /\ Head(queue) = c
    /\ writer = None
    /\ queue' = Tail(queue)
    /\ \/ /\ calls[c].kind \in ReadKinds
          /\ readers' = readers \cup {c}
          /\ UNCHANGED writer
       \/ /\ calls[c].kind \in WriteKinds
          /\ readers = {}
          /\ writer' = c
          /\ UNCHANGED readers
    /\ calls' = [calls EXCEPT ![c].pc = "holding", ![c].seen = session]
    /\ UNCHANGED <<session, disk, stored, restarts>>

\* The end of setup and login.
Install(c) ==
    /\ At(c, {"setup", "login"}, "holding")
    /\ session' = NewSession(calls[c].cred, calls[c].scope, calls[c].count)
    /\ Return(c, "ok")
    /\ UNCHANGED <<disk, stored, restarts>>

Logout(c) ==
    /\ At(c, {"logout"}, "holding")
    /\ session' = None
    /\ Return(c, IF session = None THEN "failed" ELSE "ok")
    /\ UNCHANGED <<disk, stored, restarts>>

\* A reading call, and its result.
Read(c) ==
    /\ At(c, {"read"}, "holding")
    /\ Return(c, "ok") \/ Return(c, "failed")
    /\ UNCHANGED <<session, disk, stored, restarts>>

\* A slip: the guard is dropped before the memory is sent to the store.
WriteUnguarded(c) ==
    /\ At(c, {"write", "sync"}, "holding")
    /\ OwnerInForce
    /\ Release(c)
    /\ Goto(c, "putting")
    /\ UNCHANGED <<session, disk, stored, restarts>>

\* A slip: any session may write.
WriteAnyRole(c) ==
    /\ At(c, {"write", "sync"}, "holding")
    /\ \/ session # None /\ Goto(c, "putting") /\ UNCHANGED lock
       \/ session = None /\ Return(c, "failed")
    /\ UNCHANGED <<session, disk, stored, restarts>>

\* A writing call: only an owner's session gets as far as the store.  A sync
\* may find nothing to store, and by an agent it only stages proposals.
Write(c) ==
    /\ At(c, {"write", "sync"}, "holding")
    /\ \/ OwnerInForce /\ Goto(c, "putting") /\ UNCHANGED lock
       \/ ~OwnerInForce /\ Return(c, "failed")
       \/ calls[c].kind = "sync" /\ session # None /\ Return(c, "ok")
    /\ UNCHANGED <<session, disk, stored, restarts>>

Room == memories["/"] + memories["/sub"] + late["/"] + late["/sub"] < MaxWrites

\* The store takes a memory, new or in place of another.
Stores(s) ==
    /\ \/ Room /\ memories' = [memories EXCEPT ![s] = @ + 1]
       \/ memories[s] > 0 /\ UNCHANGED memories
    /\ UNCHANGED late

\* The time limit of the request is over, but the request is not.
Delays(s) == Room /\ late' = [late EXCEPT ![s] = @ + 1] /\ UNCHANGED memories

\* A sync takes note of the outcome and goes on with the next entry that is
\* not stored yet, if there is one.
NextEntry(c) ==
    /\ calls[c].count > 0
    /\ \E s \in Scope :
           calls' = [calls EXCEPT ![c].scope = s, ![c].count = @ - 1]
    /\ UNCHANGED lock

Answered(c, result) ==
    \/ calls[c].kind = "write" /\ Return(c, result)
    \/ calls[c].kind = "sync" /\ (Return(c, "ok") \/ NextEntry(c))

\* A memory is sent to the store, which answers or does not; the guard is
\* dropped when the call returns.
Put(c) ==
    /\ At(c, {"write", "sync"}, "putting")
    /\ LET s == calls[c].scope
       IN  \/ Stores(s) /\ (Answered(c, "ok") \/ Answered(c, "failed"))
           \/ (Delays(s) \/ UNCHANGED stored) /\ Answered(c, "failed")
    /\ UNCHANGED <<session, disk, restarts>>

\* A late request is carried out after all, or refused.
Arrives(s) ==
    /\ late[s] > 0
    /\ late' = [late EXCEPT ![s] = @ - 1]
    /\ memories' = [memories EXCEPT ![s] = @ + 1] \/ UNCHANGED memories
    /\ UNCHANGED <<session, disk, lock, calls, restarts>>

\* The requests that calls are waiting for at scope s.
Waiting(s) == {c \in Call : calls[c].pc = "putting" /\ calls[c].scope = s}

\* The server is stopped, at any moment, and started again: main loads the
\* config and builds the session from it.  Requests on their way go on.
Restart ==
    /\ restarts < MaxRestarts
    /\ restarts' = restarts + 1
    /\ session' = FromConfig(disk)
    /\ queue' = <<>> /\ readers' = {} /\ writer' = None
    /\ calls' = [c \in Call |->
           IF calls[c].pc \in {"idle", "ok", "failed"} THEN calls[c]
           ELSE Ended(calls[c], "killed")]
    /\ late' = [s \in Scope |-> late[s] + Cardinality(Waiting(s))]
    /\ UNCHANGED <<disk, memories>>

Step(c) ==
    \/ Truncate(c) \/ WriteConfig(c) \/ EnsurePermissions(c) \/ Count(c)
    \/ Acquire(c) \/ Install(c) \/ Logout(c) \/ Read(c) \/ Write(c) \/ Put(c)

\* Every call has been made and has ended.
Finished ==
    /\ \A c \in Call : calls[c].pc \in {"ok", "failed", "killed"}
    /\ UNCHANGED vars

StartAny(c) ==
    \/ \E cred \in Cred : Start(c, "setup", cred, "/", 0)
    \/ \E cred \in Cred, s \in Scope : Start(c, "login", cred, s, 0)
    \/ \E s \in Scope : Start(c, "write", None, s, 0)
    \/ \E s \in Scope, n \in 1..MaxEntries : Start(c, "sync", None, s, n - 1)
    \/ \E kind \in {"logout", "read"} : Start(c, kind, None, "/", 0)

Next ==
    \/ \E c \in Call : StartAny(c) \/ Step(c)
    \/ \E s \in Scope : Arrives(s)
    \/ Restart
    \/ Finished

Spec == Init /\ [][Next]_vars

\* Every call runs on: its file operations end, its requests have a time limit
\* and the lock is handed on.
FairSpec == Spec /\ \A c \in Call : WF_vars(Step(c))

-------------------------------------------------------------------------------
(* Properties *)

SessionRecord == [role : {"Owner", "Agent"}, cred : Cred, scope : Scope, count : Nat]
CallRecord ==
    [kind : WriteKinds \cup ReadKinds \cup {"none"},
     pc : {"idle", "truncating", "writing", "permitting", "counting", "queued",
           "holding", "putting", "ok", "failed", "killed"},
     cred : Cred \cup {None}, scope : Scope, count : Nat,
     seen : SessionRecord \cup {None}]

\* Type correctness of the session, its file, the lock and the calls.
TypeOK ==
    /\ session \in SessionRecord \cup {None}
    /\ disk \in Cred \cup {None, "Empty", "Torn"}
    /\ memories \in [Scope -> Nat] /\ late \in [Scope -> Nat]
    /\ queue \in Seq(Call)
    /\ readers \subseteq Call
    /\ writer \in Call \cup {None}
    /\ calls \in [Call -> CallRecord]
    /\ restarts \in Nat

\* The session a call looked at when it got the lock is the session until the
\* call returns, across its requests to the store (tools.rs:324, 362, 389).
OneSessionPerCall ==
    \A c \in Call : calls[c].pc \in {"holding", "putting"} => calls[c].seen = session

\* Who holds the lock and who waits for it is what the calls say, and a writer
\* holds it alone.
LockMatches ==
    /\ writer # None => readers = {}
    /\ \A c \in Call :
           /\ c \in readers <=> calls[c].kind \in ReadKinds /\ calls[c].pc \in {"holding", "putting"}
           /\ c = writer <=> calls[c].kind \in WriteKinds /\ calls[c].pc = "holding"
    /\ \A i \in DOMAIN queue : calls[queue[i]].pc = "queued"
    /\ \A i, j \in DOMAIN queue : queue[i] = queue[j] => i = j

\* A call goes to the store only on behalf of an owner.
PuttersAreOwners ==
    \A c \in Call :
        calls[c].pc = "putting" => calls[c].kind \in {"write", "sync"} /\ OwnerInForce

\* Whatever logins, logouts and restarts happen around it, a memory is sent to
\* the store only while an owner's session is in force; what is stored later
\* was sent then (tools.rs:394-399, 476-503, 547-562).
Sent(s) == memories[s] + late[s]
OnlyOwnersStore ==
    [][(\E s \in Scope : Sent(s)' > Sent(s)) => OwnerInForce]_vars

\* The count in a session is of what its key sees, which for an agent is not what
\* lies at the scope of its session, and it may lag behind, for it is never
\* refreshed (tools.rs:299-305, 728-733).  No program of the repository takes
\* memories away, so that it cannot be too high; a deletion by hand could make
\* it so, and is not in this model.
CountNeverOverstates ==
    session # None => session.count <= Visible(session.cred, session.scope)

\* The call is the only setup there has been.
OnlySetup(c) == calls[c].kind = "setup" /\ \A d \in Call \ {c} : calls[d].kind # "setup"

\* A setup that reported success is what a restart restores, if it is the only
\* setup since the start: whatever was in the file before, the credentials
\* it wrote are there (tools.rs:224-228, main.rs:32-37).
SetupSurvivesRestart ==
    \A c \in Call :
        OnlySetup(c) /\ calls[c].pc = "ok"
            => FromConfig(disk) = NewSession(calls[c].cred, "/", 0)

\* A call that is under way is one of the tools, and setup and login come with
\* credentials.
CallsAreMade ==
    \A c \in Call :
        /\ calls[c].kind = "none" => calls[c].pc = "idle"
        /\ calls[c].kind \in {"setup", "login"} => calls[c].cred \in Cred

\* What a call counted is still there when it installs its session.
CountsAreReached ==
    \A c \in Call :
        calls[c].kind \in {"setup", "login"} /\ calls[c].pc \in {"queued", "holding"}
            => calls[c].count <= Visible(calls[c].cred, calls[c].scope)

\* What an only setup has done to the file by the time it gets somewhere.
SetupOwnsConfig ==
    \A c \in Call :
        OnlySetup(c) =>
            /\ calls[c].pc = "writing" => disk = "Empty"
            /\ calls[c].pc \in {"permitting", "counting", "queued", "holding", "ok"} =>
                   disk = calls[c].cred

\* The inductive invariant of the proofs.
IInv ==
    /\ TypeOK
    /\ LockMatches
    /\ OneSessionPerCall
    /\ PuttersAreOwners
    /\ CallsAreMade
    /\ CountNeverOverstates
    /\ CountsAreReached
    /\ SetupOwnsConfig

\* Every tool call ends: no call waits for the lock for ever.
CallsFinish ==
    \A c \in Call : calls[c].pc # "idle" ~> calls[c].pc \in {"ok", "failed", "killed"}

===============================================================================
