-------------------------------- MODULE Memory --------------------------------
(***************************************************************************)
(* Encrypted memories (rok-sdk/src/memory.rs) over the two storage         *)
(* backends, and the MCP tools that list, read and sync them.  A memory is *)
(* named by a scope and a key name; a backend turns the two into one name: *)
(* the title "rok:{scope}:{key}" on Fileverse, "{scope}/{key}" in memory.  *)
(* Listing on Fileverse takes titles apart again.                          *)
(*                                                                         *)
(* A call of the backend is one step here; Fileverse has its inside.       *)
(* Owners share the storage, whose documents may also be changed by hand.  *)
(* On Fileverse a title may come to have several documents: put updates    *)
(* only a document it finds and can decode, and creates one otherwise.     *)
(***************************************************************************)
EXTENDS ScopeTexts

CONSTANTS
    Owner,      \* holders of spend keys
    Name,       \* pairs <<scope, key name>> that programs write
    Content,    \* plaintexts
    Batch,      \* what a sync call may be given: sequences of entries
    None,       \* nothing found
    Copy,       \* tells documents of one title apart; bounds how many there are
    ListLimit,  \* documents a search returns at most (1000 in the code)
    MaxChanges, \* bound: changes other than those of a sync
    MaxSyncs    \* bound: sync calls

ASSUME NameAssumption ==
    \A name \in Name : name \in Seq(Char) \X Seq(Char) /\ Valid(name[1])
ASSUME ColonAssumption == ":" \notin Letter
ASSUME BatchAssumption ==
    \A batch \in Batch : batch \in Seq([name : Seq(Char) \X Seq(Char), content : Content])
ASSUME NoneAssumption ==
    None \notin Content /\ None \notin Seq(Char \cup {":"}) \X Seq(Char \cup {":"})

VARIABLES
    backend,    \* "Fileverse" or "InMemory"
    docs,       \* stored entries, by id: a storage name and a copy
    doubted,    \* history: the titles that had a document made undecodable by
                \* hand, or one created although another was there
    sync,       \* the sync call under way, or the last one
    changes     \* how many changes other than those of a sync there were

vars == <<backend, docs, doubted, sync, changes>>

-------------------------------------------------------------------------------
(* Names *)

\* A slip: titles are joined as the other backend joins its keys.
TitleWithSlash(scope, key) == scope \o <<"/">> \o key

\* The title of a document, without the constant "rok:" in front.
TitleOf(scope, key) == scope \o <<":">> \o key

CompositeKey(scope, key) == scope \o <<"/">> \o key

\* Where the backend puts and looks for a memory.
StorageName(name) ==
    IF backend = "Fileverse" THEN TitleOf(name[1], name[2]) ELSE CompositeKey(name[1], name[2])

\* A title is split at its last colon; both parts must have a character.
ParseTitle(title) ==
    IF \A i \in DOMAIN title : title[i] # ":" THEN None
    ELSE LET pos == LastOf(":", title)
         IN  IF pos \in {1, Len(title)} THEN None
             ELSE <<SubSeq(title, 1, pos - 1), SubSeq(title, pos + 1, Len(title))>>

\* The path of a resource URI, after "rok://memory".
MemoryUri(name) == name[1] \o <<"/">> \o name[2]

\* The scope and key name a resource URI is read for.
ParseUri(path) ==
    IF \A i \in DOMAIN path : path[i] # "/" THEN None
    ELSE LET pos == LastOf("/", path)
         IN  IF pos = Len(path) THEN None
             ELSE <<IF pos = 1 THEN RootText ELSE SubSeq(path, 1, pos - 1),
                    SubSeq(path, pos + 1, Len(path))>>

-------------------------------------------------------------------------------
(* Entries *)

\* A slip: everything is sealed at the root.
SealedAtRoot(owner, scope, content) ==
    [form |-> "envelope", signer |-> owner, scope |-> RootText, content |-> content]

\* What an entry holds: a scope-based envelope, or what somebody made of it.
Sealed(owner, scope, content) ==
    [form |-> "envelope", signer |-> owner, scope |-> scope, content |-> content]
Garbled(form) == [form |-> form, signer |-> None, scope |-> None, content |-> None]

Entry(name, data) == [name |-> name, data |-> data]

\* A read key with its owner's verifying key.
Reader == [owner : Owner, scope : {name[1] : name \in Name}]

Decrypts(data, reader) ==
    /\ data.form = "envelope"
    /\ data.signer = reader.owner
    /\ IsAncestorText(reader.scope, data.scope)

\* The documents of a storage name.
Under(at) == {d \in DOMAIN docs : d[1] = at}

Opened(data, reader) == IF Decrypts(data, reader) THEN data.content ELSE None

\* What MemoryStore::read and MemoryReader::read may find: get_by_key takes the
\* first document of the name, and which is first is up to the server.
Reads(reader, name) ==
    IF Under(StorageName(name)) = {} THEN {None}
    ELSE {Opened(docs[d].data, reader) : d \in Under(StorageName(name))}

ReadsResource(reader, path) ==
    LET name == ParseUri(path)
    IN  IF name = None \/ ~Valid(name[1]) THEN {None} ELSE Reads(reader, name)

\* The scope and key name a backend says an entry has.
NameListed(d) == IF backend = "Fileverse" THEN ParseTitle(d[1]) ELSE docs[d].name

\* StorageBackend::list, for the documents the search returned: titles that do
\* not parse and contents that are not Base64 are left out.
ListedBy(prefix, hits) ==
    {d \in hits :
        /\ NameListed(d) # None
        /\ InList(prefix, NameListed(d)[1])
        /\ docs[d].data.form # "not Base64"}

\* A slip: an entry that does not decrypt stops the listing.
ListFailsOnStrangers(reader, hits) ==
    \E d \in ListedBy(reader.scope, hits) :
        \/ ~Decrypts(docs[d].data, reader)
        \/ ~Valid(NameListed(d)[1])

\* MemoryReader::list fails: an entry is no envelope, or one that decrypts
\* is listed under a scope that Scope::new refuses.
ListFails(reader, hits) ==
    \E d \in ListedBy(reader.scope, hits) :
        \/ docs[d].data.form = "not an envelope"
        \/ Decrypts(docs[d].data, reader) /\ ~Valid(NameListed(d)[1])

\* What it returns otherwise: entries that do not decrypt are skipped.
List(reader, hits) ==
    {[name |-> NameListed(d), content |-> docs[d].data.content] :
        d \in {x \in ListedBy(reader.scope, hits) : Decrypts(docs[x].data, reader)}}

\* The documents a search may return.
SearchResults ==
    IF backend = "InMemory" \/ Cardinality(DOMAIN docs) <= ListLimit THEN {DOMAIN docs}
    ELSE {hits \in SUBSET DOMAIN docs : Cardinality(hits) = ListLimit}

-------------------------------------------------------------------------------
(* Actions *)

NoSync == [at |-> "idle", session |-> None, batch |-> <<>>, next |-> 1,
           written |-> 0, proposed |-> 0, alone |-> TRUE, known |-> FALSE, calls |-> 0]

Init ==
    /\ backend \in {"Fileverse", "InMemory"}
    /\ docs = <<>>
    /\ doubted = {}
    /\ sync = NoSync
    /\ changes = 0

\* A change by someone else than the sync call.
Change ==
    /\ changes < MaxChanges
    /\ changes' = changes + 1
    /\ sync' = [sync EXCEPT !.alone = FALSE]
    /\ UNCHANGED backend

\* A document of the name is put into place, the rest stays.
With(d, name, data) ==
    [x \in DOMAIN docs \cup {d} |-> IF x = d THEN Entry(name, data) ELSE docs[x]]

\* The first document found is updated.  In memory there is only one.
Update(name, data) ==
    \E d \in Under(StorageName(name)) :
        /\ docs[d].data.form # "not Base64"
        /\ docs' = With(d, name, data)

Create(name, data) ==
    \E copy \in Copy :
        /\ <<StorageName(name), copy>> \notin DOMAIN docs
        /\ docs' = With(<<StorageName(name), copy>>, name, data)

\* A slip: nobody looks whether the document is there.
PutWithoutSearch(name, data) ==
    /\ Create(name, data)
    /\ UNCHANGED doubted

\* StorageBackend::put: get_by_key finds no document, or first one that is not
\* Base64, and put takes either for a missing one.
Put(name, data) ==
    /\ \/ Update(name, data)
       \/ /\ \/ Under(StorageName(name)) = {}
             \/ \E first \in Under(StorageName(name)) : docs[first].data.form = "not Base64"
          /\ Create(name, data)
    /\ UNCHANGED doubted

\* The search of a put fails, or was answered before another client created
\* the document that is there.
PutUnseen(name, data) ==
    /\ backend = "Fileverse"
    /\ Under(StorageName(name)) # {}
    /\ Create(name, data)
    /\ doubted' = doubted \cup {StorageName(name)}

\* MemoryStore::write: encrypt for the scope and put.  MemoryStore::
\* accept_proposal is the same call, for what an agent proposed.
Write(owner, name, content) ==
    /\ Change
    /\ LET data == Sealed(owner, name[1], content)
       IN  Put(name, data) \/ PutUnseen(name, data)

\* StorageBackend::delete
Delete(d) ==
    /\ Change
    /\ docs' = [x \in DOMAIN docs \ {d} |-> docs[x]]
    /\ UNCHANGED doubted

\* Somebody edits a document on the server.
Edit(d, form) ==
    /\ backend = "Fileverse"
    /\ Change
    /\ docs' = [docs EXCEPT ![d].data = Garbled(form)]
    /\ doubted' = IF form = "not Base64" THEN doubted \cup {d[1]} ELSE doubted

Session == [role : {"owner", "agent"}, owner : Owner, scope : {name[1] : name \in Name}]

\* The read key and the verifying key of a session.
SessionReader(session) == [owner |-> session.owner, scope |-> session.scope]

\* Every entry of the batch is stored as it is, where the session can see it.
AllKnown(session, batch) ==
    \A i \in DOMAIN batch :
        Reads(SessionReader(session), batch[i].name) = {batch[i].content}

\* rok_memory:sync is called; only Fileverse sessions exist.
SyncBegin(session, batch) ==
    /\ backend = "Fileverse"
    /\ sync.at = "idle" /\ sync.calls < MaxSyncs
    /\ sync' = [NoSync EXCEPT !.at = IF batch = <<>> THEN "idle" ELSE "read",
                              !.session = session, !.batch = batch,
                              !.known = AllKnown(session, batch), !.calls = sync.calls + 1]
    /\ UNCHANGED <<backend, docs, doubted, changes>>

Current == sync.batch[sync.next]

\* A slip: an entry that is there at all is taken to be up to date.
UpToDateIfPresent(answered, found) == answered /\ found # None

\* A slip: nothing is compared.
NeverUpToDate(answered, found) == FALSE

\* The entry reads as the batch has it; a read that fails for any reason
\* counts as a difference.
UpToDate(answered, found) == answered /\ found = Current.content

\* On to the next entry, or the end of the call.
Advanced(record) ==
    IF record.next < Len(record.batch) THEN [record EXCEPT !.next = @ + 1, !.at = "read"]
    ELSE [record EXCEPT !.at = "idle"]

\* The scope of an entry is checked, the memory is read and compared, and what
\* an agent would change is counted as proposed.  The store may not answer.
SyncRead ==
    /\ sync.at = "read"
    /\ \E answered \in BOOLEAN, found \in Reads(SessionReader(sync.session), Current.name) :
           LET seen == [sync EXCEPT !.alone = @ /\ answered]
           IN  sync' =
               IF ~Valid(Current.name[1]) \/ UpToDate(answered, found) THEN Advanced(seen)
               ELSE IF sync.session.role = "agent"
                    THEN Advanced([seen EXCEPT !.proposed = @ + 1])
                    ELSE [seen EXCEPT !.at = "store"]
    /\ UNCHANGED <<backend, docs, doubted, changes>>

\* The owner's sync stores the entry.  A put that fails has stored it or not.
SyncStore ==
    /\ sync.at = "store"
    /\ LET data == Sealed(sync.session.owner, Current.name[1], Current.content)
           disturbed == [sync EXCEPT !.alone = FALSE]
       IN  \/ /\ Put(Current.name, data)
              /\ \/ sync' = Advanced([sync EXCEPT !.written = @ + 1])
                 \/ sync' = Advanced(disturbed)
           \/ /\ PutUnseen(Current.name, data)
              /\ \/ sync' = Advanced([disturbed EXCEPT !.written = @ + 1])
                 \/ sync' = Advanced(disturbed)
           \/ /\ UNCHANGED <<docs, doubted>>
              /\ sync' = Advanced(disturbed)
    /\ UNCHANGED <<backend, changes>>

\* The bounds are reached.
Finished ==
    /\ changes = MaxChanges /\ sync.at = "idle"
    /\ UNCHANGED vars

Next ==
    \/ \E owner \in Owner, name \in Name, content \in Content : Write(owner, name, content)
    \/ \E d \in DOMAIN docs :
           Delete(d) \/ \E form \in {"not Base64", "not an envelope"} : Edit(d, form)
    \/ \E session \in Session, batch \in Batch : SyncBegin(session, batch)
    \/ SyncRead
    \/ SyncStore
    \/ Finished

Spec == Init /\ [][Next]_vars

-------------------------------------------------------------------------------
(* Properties *)

Data == [form : {"envelope"}, signer : Owner, scope : Seq(Char), content : Content]
        \cup {Garbled("not Base64"), Garbled("not an envelope")}

\* Type correctness: entries lie under the storage name of the pair they were
\* written for, in envelopes of that pair's scope.
TypeOK ==
    /\ backend \in {"Fileverse", "InMemory"}
    /\ IsFiniteSet(DOMAIN docs)
    /\ \A d \in DOMAIN docs :
           /\ docs[d].name \in Seq(Char) \X Seq(Char)
           /\ Valid(docs[d].name[1])
           /\ d[1] = StorageName(docs[d].name) /\ d[2] \in Copy
           /\ docs[d].data \in Data
           /\ docs[d].data.form = "envelope" => docs[d].data.scope = docs[d].name[1]
    /\ sync.at \in {"idle", "read", "store"}
    /\ sync.at # "idle" => sync.batch \in Batch /\ sync.next \in DOMAIN sync.batch
    /\ changes \in Nat

Has(text, char) == \E i \in DOMAIN text : text[i] = char

\* The data stored for a pair.
DataOf(name) == {<<d, docs[d].data>> : d \in Under(StorageName(name))}

\* Pairs that have a storage name of their own.
Separate(name) == backend = "Fileverse" \/ ~Has(name[2], "/")

\* Two memories never share an entry: a step that changes one leaves the other
\* alone.  On Fileverse this holds for all key names, in memory for those
\* without a slash (fileverse.rs:122, storage/mod.rs:69).
MemoriesAreSeparate ==
    [][\A p \in Name :
           Separate(p) /\ DataOf(p)' # DataOf(p) =>
               \A q \in Name \ {p} : Separate(q) => DataOf(q)' = DataOf(q)]_vars

\* Key names that survive as part of a title.
PlainKey(key) == backend = "Fileverse" => key # <<>> /\ ~Has(key, ":")

\* The memories of the reader's owner that its key can read.
Readable(reader) ==
    {[name |-> docs[d].name, content |-> docs[d].data.content] :
        d \in {x \in DOMAIN docs : Decrypts(docs[x].data, reader)}}

\* The entries written at or below the scope of the reader.
Below(reader) == {d \in DOMAIN docs : IsAncestorText(reader.scope, docs[d].name[1])}

\* While no search is cut short, and nobody has damaged an entry at or below
\* the reader's scope, list returns exactly the owner's memories there, provided
\* their key names are plain; entries elsewhere and those of other owners make
\* no difference, whatever they hold (memory.rs:67-94, 145-168;
\* fileverse.rs:228-264).
ListIsComplete ==
    \A reader \in Reader :
        /\ SearchResults = {DOMAIN docs}
        /\ \A d \in Below(reader) :
               /\ docs[d].data.form # "not an envelope"
               /\ Decrypts(docs[d].data, reader) => PlainKey(docs[d].name[2])
        => /\ ~ListFails(reader, DOMAIN docs)
           /\ List(reader, DOMAIN docs) = Readable(reader)

\* What a listing shows may be read under the name it is shown with, also when
\* the search was cut short.  Nothing else can be read there unless a document
\* of that title was made undecodable by hand, or created by a put that did not
\* see the one there: puts and syncs keep one document of each other title
\* (fileverse.rs:121-176, 199-226).  The resource of that name reads
\* the same, when the key name has no slash (memory.rs:145-168,
\* resources.rs:5-7, tools.rs:673-720).
ListedMemoriesReadBack ==
    \A hits \in SearchResults, reader \in Reader :
        ~ListFails(reader, hits) =>
            \A memory \in List(reader, hits) :
                LET reads == Reads(reader, memory.name)
                IN  /\ memory.content \in reads
                    /\ StorageName(memory.name) \notin doubted => reads = {memory.content}
                    /\ memory.name[2] # <<>> /\ ~Has(memory.name[2], "/") =>
                           ReadsResource(reader, MemoryUri(memory.name)) = reads

\* The entry of the batch that comes last for its pair.
LastForName(i) ==
    \A j \in DOMAIN sync.batch : j > i => sync.batch[j].name # sync.batch[i].name

\* When an owner's sync returns, and neither others nor failures came in between,
\* each pair of the batch may be read as the batch had it last, and reads as
\* nothing else unless its title had an undecodable document or one too many
\* (tools.rs:532-567, fileverse.rs:121-176).
SyncLeavesBatch ==
    sync.at = "idle" /\ sync.calls > 0 /\ sync.alone /\ sync.session.role = "owner" =>
        \A i \in DOMAIN sync.batch :
            Valid(sync.batch[i].name[1]) /\ LastForName(i) =>
                LET name == sync.batch[i].name
                    reads == Reads([owner |-> sync.session.owner, scope |-> RootText], name)
                IN  /\ sync.batch[i].content \in reads
                    /\ StorageName(name) \notin doubted => reads = {sync.batch[i].content}

\* A sync of what is stored already, as far as the session sees, writes and
\* proposes nothing (tools.rs:541-547).
SyncSkipsKnown ==
    sync.alone /\ sync.known => sync.written = 0 /\ sync.proposed = 0

\* "List and decrypt all memories visible to a read key" (memory.rs:66): the
\* list has whatever the key can read, whatever the key names are.
ListShowsReadable ==
    \A reader \in Reader :
        /\ SearchResults = {DOMAIN docs}
        /\ \A d \in DOMAIN docs : docs[d].data.form = "envelope"
        => ~ListFails(reader, DOMAIN docs) /\ List(reader, DOMAIN docs) = Readable(reader)

===============================================================================
