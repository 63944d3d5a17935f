------------------------------- MODULE Fileverse -------------------------------
(***************************************************************************)
(* The Fileverse storage backend (rok-sdk/src/storage/fileverse.rs) against *)
(* its document server.  Every call is one or two HTTP requests: put first *)
(* searches for the title, and then updates the document found or creates  *)
(* a new one.  Calls of several clients (tool calls of one server, several *)
(* servers, the command line) interleave between the two requests.         *)
(*                                                                         *)
(* The server is external: it gives documents ids it never uses twice,     *)
(* answers a search with the live documents, and carries out a request it  *)
(* has received even when the client no longer waits for the answer.  What *)
(* it stores is what clients put: nobody edits documents (Memory has that).*)
(***************************************************************************)
EXTENDS Naturals, Sequences, FiniteSets

CONSTANTS
    Client,     \* callers of the backend, each with one call at a time
    Title,      \* "rok:{scope}:{key}"
    Content,    \* envelope bytes
    None,       \* no content, no title
    MaxFaults,  \* bound: requests that fail, are lost or are answered too late
    MaxCalls    \* bound: calls one client makes

ASSUME ClientAssumption == IsFiniteSet(Client)
ASSUME NoneAssumption == None \notin Content /\ None \notin Title
ASSUME BoundsAssumption == MaxFaults \in Nat /\ MaxCalls \in Nat

VARIABLES
    docs,       \* the documents of the server, by id; a deleted one has content None
    flight,     \* requests the server has not carried out yet
    pc,         \* pc[c]: where the call of c is
    task,       \* task[c]: the call of c: operation, title, content
    calls,      \* calls[c]: how many calls c has begun
    last,       \* last[c]: the last call of c that returned, and its result
    faults      \* how many requests have failed, got lost or come too late

vars == <<docs, flight, pc, task, calls, last, faults>>

-------------------------------------------------------------------------------
Task(op, title, content) == [op |-> op, title |-> title, content |-> content]
Completed(op, title, result) == [op |-> op, title |-> title, result |-> result]

Live(i) == docs[i].content # None

\* A slip: the search result is taken as it comes, other titles included.
HitsOfSearch(t) == {i \in DOMAIN docs : Live(i)}

\* The documents with exactly this title (the code filters what the search
\* endpoint returns).
Hits(t) == {i \in DOMAIN docs : Live(i) /\ docs[i].title = t}

Init ==
    /\ docs = <<>>
    /\ flight = {}
    /\ pc = [c \in Client |-> "idle"]
    /\ task = [c \in Client |-> Task("none", None, None)]
    /\ calls = [c \in Client |-> 0]
    /\ last = [c \in Client |-> Completed("none", None, None)]
    /\ faults = 0

Fault == faults < MaxFaults /\ faults' = faults + 1
NoFault == UNCHANGED faults

Begin(c, where, newTask) ==
    /\ pc[c] = "idle"
    /\ calls[c] < MaxCalls
    /\ pc' = [pc EXCEPT ![c] = where]
    /\ calls' = [calls EXCEPT ![c] = @ + 1]
    /\ task' = [task EXCEPT ![c] = newTask]
    /\ UNCHANGED last

Return(c, result) ==
    /\ pc' = [pc EXCEPT ![c] = "idle"]
    /\ last' = [last EXCEPT ![c] = Completed(task[c].op, task[c].title, result)]
    /\ UNCHANGED <<task, calls>>

Request(c, kind, i) ==
    [client |-> c, call |-> calls[c], kind |-> kind, id |-> i,
     title |-> task[c].title, content |-> task[c].content]

Send(c, kind, i) ==
    /\ flight' = flight \cup {Request(c, kind, i)}
    /\ pc' = [pc EXCEPT ![c] = "waiting"]
    /\ UNCHANGED <<docs, task, calls, last>>

-------------------------------------------------------------------------------
\* put and get_by_key begin with the same search.
Put(c, t, v) ==
    Begin(c, "searching", Task("put", t, v)) /\ NoFault /\ UNCHANGED <<docs, flight>>

GetByKey(c, t) ==
    Begin(c, "searching", Task("get", t, None)) /\ NoFault /\ UNCHANGED <<docs, flight>>

\* delete: one request, for an id the caller got from put or list.
Delete(c, i) ==
    /\ Begin(c, "waiting", Task("delete", docs[i].title, None))
    /\ flight' = flight \cup
           {[client |-> c, call |-> calls[c] + 1, kind |-> "delete", id |-> i,
             title |-> docs[i].title, content |-> None]}
    /\ NoFault
    /\ UNCHANGED docs

\* get_by_key returns: any of the documents with the title may come first.
GetFinds(c) ==
    /\ pc[c] = "searching" /\ task[c].op = "get"
    /\ \/ \E i \in Hits(task[c].title) : Return(c, docs[i].content)
       \/ Hits(task[c].title) = {} /\ Return(c, "error")
    /\ NoFault
    /\ UNCHANGED <<docs, flight>>

\* A slip: put sends back the content it found.
PutSendsBack(c) ==
    /\ pc[c] = "searching" /\ task[c].op = "put"
    /\ \E i \in Hits(task[c].title) :
           flight' = flight \cup {[Request(c, "update", i) EXCEPT !.content = docs[i].content]}
    /\ pc' = [pc EXCEPT ![c] = "waiting"]
    /\ NoFault
    /\ UNCHANGED <<docs, task, calls, last>>

\* put has found a document and updates it.
PutUpdates(c) ==
    /\ pc[c] = "searching" /\ task[c].op = "put"
    /\ \E i \in Hits(task[c].title) : Send(c, "update", i)
    /\ NoFault

\* A slip: put creates without looking at what it found.
PutAlwaysCreates(c) ==
    /\ pc[c] = "searching" /\ task[c].op = "put"
    /\ Send(c, "create", 0)
    /\ NoFault

\* put has found none and creates one.
PutCreates(c) ==
    /\ pc[c] = "searching" /\ task[c].op = "put"
    /\ Hits(task[c].title) = {}
    /\ Send(c, "create", 0)
    /\ NoFault

\* The search fails: get_by_key passes the error on, put takes any error for
\* "there is no such document".
SearchFails(c) ==
    /\ Fault
    /\ pc[c] = "searching"
    /\ \/ task[c].op = "get" /\ Return(c, "error") /\ UNCHANGED <<docs, flight>>
       \/ task[c].op = "put" /\ Send(c, "create", 0)

\* The client still waits for this very request.
Awaited(r) == pc[r.client] = "waiting" /\ calls[r.client] = r.call

\* What the server does with a request.
Document(r) == [title |-> r.title, content |-> r.content]
Accepts(r) == r.kind = "create" \/ Live(r.id)
Effect(r) ==
    IF ~Accepts(r) THEN docs
    ELSE IF r.kind = "create" THEN Append(docs, Document(r))
    ELSE [docs EXCEPT ![r.id] = Document(r)]

\* The answer is lost, or nobody waits for it any more.
Unheard(r) ==
    /\ IF Awaited(r) THEN Fault ELSE NoFault
    /\ UNCHANGED <<pc, task, calls, last>>

\* A slip: the status of the answer is not looked at.
ServeUnchecked(r) ==
    /\ docs' = Effect(r)
    /\ flight' = flight \ {r}
    /\ \/ Awaited(r) /\ Return(r.client, "ok") /\ NoFault
       \/ Unheard(r)

\* The server carries out a request; the answer reaches a client that waits
\* for it, unless it is lost.
Serve(r) ==
    /\ docs' = Effect(r)
    /\ flight' = flight \ {r}
    /\ \/ Awaited(r) /\ Return(r.client, IF Accepts(r) THEN "ok" ELSE "error") /\ NoFault
       \/ Unheard(r)

\* The request is lost or refused, and has no effect.
Refuse(r) ==
    /\ flight' = flight \ {r}
    /\ \/ Awaited(r) /\ Return(r.client, "error") /\ Fault
       \/ ~Awaited(r) /\ UNCHANGED <<pc, task, calls, last, faults>>
    /\ UNCHANGED docs

\* The client's own request has not been carried out yet.
Pending(c) == \E r \in flight : r.client = c /\ Awaited(r)

\* A slip: no time limit once the request has been taken by the server.
GiveUpUnlessTaken(c) ==
    /\ pc[c] = "waiting"
    /\ Pending(c)
    /\ Fault
    /\ Return(c, "error")
    /\ UNCHANGED <<docs, flight>>

\* The HTTP client times out: the call fails.  Either the answer got lost, or
\* the request is still in flight and comes too late.
GiveUp(c) ==
    /\ pc[c] = "waiting"
    /\ IF Pending(c) THEN Fault ELSE NoFault
    /\ Return(c, "error")
    /\ UNCHANGED <<docs, flight>>

\* Every client has made its calls.
Finished ==
    /\ \A c \in Client : pc[c] = "idle" /\ calls[c] = MaxCalls
    /\ UNCHANGED vars

Next ==
    \/ \E c \in Client :
           \/ \E t \in Title : (\E v \in Content : Put(c, t, v)) \/ GetByKey(c, t)
           \/ \E i \in DOMAIN docs : Delete(c, i)
           \/ GetFinds(c)
           \/ PutUpdates(c)
           \/ PutCreates(c)
           \/ SearchFails(c)
           \/ GiveUp(c)
    \/ \E r \in flight : Serve(r) \/ Refuse(r)
    \/ Finished

Spec == Init /\ [][Next]_vars

\* A search is answered or fails, and a request is carried out, refused or
\* given up: the HTTP client has a time limit.
CallProgress(c) ==
    \/ GetFinds(c) \/ PutUpdates(c) \/ PutCreates(c) \/ SearchFails(c) \/ GiveUp(c)
    \/ \E r \in flight : r.client = c /\ Awaited(r) /\ Serve(r)

FairSpec == Spec /\ \A c \in Client : WF_vars(CallProgress(c))

-------------------------------------------------------------------------------
(* Properties *)

TaskRecord == [op : {"none", "put", "get", "delete"},
               title : Title \cup {None}, content : Content \cup {None}]
RequestRecord == [client : Client, call : Nat, kind : {"create", "update", "delete"},
                  id : Nat, title : Title, content : Content \cup {None}]
CallRecord == [op : {"none", "put", "get", "delete"}, title : Title \cup {None},
               result : Content \cup {None, "ok", "error"}]

\* Type correctness of the documents, the requests in flight and the calls.
TypeOK ==
    /\ docs \in Seq([title : Title, content : Content \cup {None}])
    /\ flight \subseteq RequestRecord
    /\ pc \in [Client -> {"idle", "searching", "waiting"}]
    /\ task \in [Client -> TaskRecord]
    /\ calls \in [Client -> Nat]
    /\ last \in [Client -> CallRecord]
    /\ faults \in Nat

\* A request in flight never holds anything a document of another title could
\* be overwritten with, however long it is delayed and whatever is deleted
\* meanwhile (fileverse.rs:120-177, 217-222).
WritesStayInTheirTitle ==
    \A r \in flight :
        r.kind # "create" => r.id \in DOMAIN docs /\ docs[r.id].title = r.title

\* The request of a call that waits for an answer is the one it sent, and the
\* requests of earlier calls that were given up can be told from it.
RequestsMatch ==
    \A r \in flight :
        /\ r.call <= calls[r.client]
        /\ pc[r.client] = "searching" => r.call # calls[r.client]
        /\ Awaited(r) =>
               /\ r.title = task[r.client].title
               /\ r.content = task[r.client].content
               /\ r.kind = "delete" <=> task[r.client].op = "delete"

\* A search is for a title, and a put has something to store.
SearchesMatch ==
    \A c \in Client :
        pc[c] = "searching" =>
            /\ task[c].title \in Title
            /\ \/ task[c].op = "put" /\ task[c].content \in Content
               \/ task[c].op = "get"

\* What the calls and their requests have to do with each other.
CallInv == TypeOK /\ WritesStayInTheirTitle /\ RequestsMatch /\ SearchesMatch

\* When a put is acknowledged its content is there, in a live document of its
\* title, although the document it found may have been deleted or overwritten
\* between the search and the update (fileverse.rs:125-176).
AckedMeansStored ==
    [][\A c \in Client :
           /\ last'[c] # last[c] \/ (pc[c] # "idle" /\ pc'[c] = "idle")
           /\ last'[c].op = "put" /\ last'[c].result = "ok"
           => \E i \in DOMAIN docs' :
                  docs'[i] = [title |-> task[c].title, content |-> task[c].content]]_vars

\* A title never has more documents than there are clients, and one more for
\* each fault: among programs that store envelopes, duplicates come from puts
\* that searched before the first document was created, from searches that
\* failed and from creations that were given up (fileverse.rs:124-171).  Here
\* every content decodes; Memory has the documents that somebody made
\* undecodable, over which put creates another as well.
Creates(t) == {r \in flight : r.kind = "create" /\ r.title = t}
DuplicatesBounded ==
    \A t \in Title :
        Cardinality(Hits(t)) + Cardinality(Creates(t)) <= Cardinality(Client) + faults

\* A call has one request in flight, and each request that nobody waits for
\* any more was a fault.
OneRequestPerCall ==
    \A r, q \in flight : r.client = q.client /\ r.call = q.call => r = q

Abandoned == {r \in flight : ~Awaited(r)}

LateRequestsAreFaults == IsFiniteSet(flight) /\ Cardinality(Abandoned) <= faults

\* The inductive invariant of the proofs.
IInv == CallInv /\ OneRequestPerCall /\ LateRequestsAreFaults /\ DuplicatesBounded

\* Every call returns, whatever is lost: the HTTP client has a time limit.
CallsReturn == \A c \in Client : pc[c] # "idle" ~> pc[c] = "idle"

\* The content a get would return, when the title has one document.
StoredAt(t) ==
    IF Hits(t) = {} THEN None ELSE docs[CHOOSE i \in Hits(t) : TRUE].content

\* A single client whose requests do not fail sees the map the trait promises:
\* each call takes effect, once, at the moment it returns.
KV == INSTANCE KVStore WITH store <- [t \in Title |-> StoredAt(t)]
ImplementsKVStore == KV!Spec

\* "Check if document already exists (update instead of create)"
\* (fileverse.rs:124): a title has at most one document.
UniqueTitles == \A t \in Title : Cardinality(Hits(t)) <= 1

===============================================================================
