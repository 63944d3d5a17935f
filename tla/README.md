# A TLA+ model of rok (Read-Only Keys)

rok encrypts data under a hierarchy of scopes (`/`, `/work`, `/work/notes`).
An owner holds a *spend key*; from it descend *read keys*, one per scope, and
a read key opens what is encrypted at its scope and below. Read keys are
exported, handed to other people or to agents, and imported there. On top of
this sit an encrypted memory store with pluggable storage and an MCP server
that gives agents access to it.

The modules here are translated from the Rust sources under `src/crates`;
line numbers in comments refer to them. `PROJECT.json` maps each definition to
its lines.

## 1. The system

### Components, their state and what makes them correct

| component (source) | state | operations | correct when |
|---|---|---|---|
| scopes (`rok-core/keys/scope.rs`) | none (strings) | `new`, `is_ancestor_of`, `components`, `depth`, `parent`, `child` | the string tests agree with the tree of components; siblings with common leading letters stay apart |
| key hierarchy (`keys/read.rs`, `spend.rs`, `key_id.rs`, `derive.rs`) | a holder's keys; exported keys in circulation | `derive_root_read_key`, `derive_child`, `export`, `import` | a key depends on owner and scope only, not on the route; nobody reaches upwards or sideways |
| encryption (`encrypt.rs`, `rok-pq/envelope.rs`) | the envelopes produced | `encrypt` (scope-based, recipients), `hybrid_encrypt`, `decrypt`, `hybrid_decrypt`, `rekey_recipients` | a reader opens exactly what it is entitled to; replacing recipients keeps both sides of that |
| formats (`envelope.rs`, `proto.rs`, `encoding.rs`) | none | `to_bytes`/`from_bytes`, protobuf, Base58 text | what is written is read back; what was cut or damaged is not taken for whole |
| sectioned envelopes (`sectioned.rs`) | named sections, one envelope each | `add_section`, `build`, `rekey_section` | a rekey touches the section it names and nothing of it but readers and signer |
| keyring (`rok-sdk/keyring.rs`) | keys and their revoked marks | `store`, `load`, `revoke`, `list`, `delete` | a key is usable exactly if it was stored since it was last revoked or deleted |
| access policy (`rok-sdk/policy.rs`) | rules with expiry | `grant`, `revoke`, `key_ids_for_scope`, protobuf | the recipients of a scope are those whose grant covers it and has not run out |
| vault (`vault.rs`) | documents by name | `store`, `retrieve`, `list`, `rekey` | a document has the old recipients or the new ones, and after a whole rekey the new ones; whom that leaves out is out |
| pipeline (`pipeline.rs`) | consumers | `add_consumer`, `remove_consumer`, `encrypt_chunk` | a chunk goes to the consumers of its moment |
| credentials (`identity.rs`) | the attributes of a credential | `issue`, `disclose` | a verifier sees the attributes it has a key for |
| memory store (`memory.rs`) | its backend | `write`, `read`, `list`, `grant_access` | what was written is found and read |
| storage backends (`storage/mod.rs`, `storage/fileverse.rs`) | a map from scope and key to bytes; for Fileverse, the documents of a server | `put`, `get`, `get_by_key`, `list`, `delete` | the map of the `StorageBackend` trait |
| MCP server (`rok-mcp/tools.rs`, `session.rs`, `main.rs`) | the session behind a `tokio::sync::RwLock`; `~/.rok/session.json` | `setup`, `login`, `logout`, `list`, `read`, `write`, `propose`, `sync`, `status`, resources; start | a call works under one session; agents cannot store; a restart restores what setup wrote |
| command line (`rok-cli`) | files | `encrypt`, `encrypt-sections`, `decrypt`, `decrypt-sections`, `inspect`, keys, `memory` | a reader gets every section it is entitled to, and no other |
| plugin, examples | none | calls of the above | (I/O around the above) |

How they interact: the MCP tools call `MemoryStore`/`MemoryReader`, these call
`encrypt`/`decrypt` and a `StorageBackend`; the Fileverse backend makes one or
two blocking HTTP requests per operation; `setup` and the start of the server
share `session.json`. Nothing calls back upwards. Concurrency enters in two
places: tool calls of one server share the session, and clients of one
Fileverse server share its documents.

### Hard behaviours

* **Routes of keys.** The same key can come about in one derivation or in
  many, across exports and imports; readers derive what writers derived only
  if all routes agree.
* **Two requests for one put.** The Fileverse `put` searches and then creates
  or updates; others act in between, each request may fail, and one that timed
  out may still be carried out.
* **One session, many calls.** Calls read the session under a lock that they
  keep across requests; `login` and `setup` work before they take the lock;
  the server may stop anywhere, in the middle of rewriting its config as well.
* **Partial failures** of operations over many items: `Vault::rekey`,
  `disclose`, `list`, `sync`, `decrypt-sections` stop or go on at the first
  item that fails, each in its own way.
* **Names in text.** Backends join scope and key name with a separator that
  key names may contain, and list takes the name apart again; scopes are
  compared as strings.
* **Lengths and cuts.** Lengths are written in 16 bits, and a program may be
  stopped while it writes a file.

`PROJECT.json` lists these as hazards, each at its line with the properties
that cover it; for those without one a note says why.

## 2. Modules

| module | models | composed with |
|---|---|---|
| `Scopes` | scopes as sequences of components | |
| `ScopeTexts` | the operations on scopes as strings, and the filters by scope | |
| `ScopeStrings` | texts that are typed, validated and walked; shows that `Scopes` and `ScopeTexts` agree | `ScopeTexts` |
| `ReadKeys` | read keys and derivation, symbolically | `Scopes` |
| `Envelopes` | sealing, opening and rekeying of envelopes | `ReadKeys` |
| `Delegation` | holders, exported keys and envelopes | `Envelopes` |
| `KVStore` | abstract: what a storage backend promises | |
| `Fileverse` | the Fileverse backend, its requests and the document server | implements `KVStore` for a single client |
| `McpSession` | tool calls, session, lock, config file and restarts | |
| `Memory` | memories in both backends by the text of their names; list, read, resources and `sync` | `ScopeTexts` |
| `AccessPolicy` | grants, revocation, expiry, and the trip through an encoding | `Scopes` |
| `Vault` | documents and their rekeying from a policy | `AccessPolicy` |
| `Wire` | binary and protobuf files as sequences of fields, keys as text | `Envelopes` |
| `SectionedFiles` | the commands that write and read files, rekeying of sections, credentials | `Wire` |
| `Stream` | a pipeline and the keyrings of its consumers | `Envelopes` |
| `Documents` | `SectionedFiles` and `Stream` in one specification | both |

`MCDelegation`, `MCFileverse`, `MCMcpSession`, `MCMemory`, `MCSharing` and
`MCDocuments` give the constants of the runs their values. The proofs are in
`DelegationProofs`, `FileverseProofs`, `McpSessionProofs`, `MemoryProofs`,
`VaultProofs`, `DocumentsProofs`, `ScopeStringsProofs`, and the lemmas about
texts in `ScopeTextsProofs`. Operators whose comment begins with "A slip" are
plausible errors: each replaces the definition it stands before when a
property is tried out against it.

### Plan

The order was: first who can read what (`Delegation`), then what storage does
to it (`Fileverse`), who acts when (`McpSession`), names (`Memory`), recipients
over time (`AccessPolicy`, `Vault`), and files (`Wire`, `SectionedFiles`,
`Stream`). All of it is written. What could be added:

1. the protobuf form of exported keys (`proto.rs:75-181`) beside the text form
   in `Wire`, and files of version 1;
2. `Memory` over `Fileverse` in one specification, so that a `sync` meets the
   two requests of a put; the state space is the product of two that fill
   their runs, and so far `Memory` takes a request as one step;
3. proofs that relate modules: that the operations of `ScopeTexts` on
   well-formed texts are those of `Scopes` on their components
   (`ScopeStringsProofs` has the facts, for one text or two).

### Delegation (`Scopes`, `ReadKeys`, `Envelopes`, `Delegation`)

Cryptography is symbolic. A read secret is the spend seed it descends from and
the *chain* of scope paths that the HKDF steps went through
(`derive.rs:44-82`); a key id is an injective image of the secret; an access
entry holds the key-encryption key it was locked with, which a reader has to
reproduce. So a slip in the derivation loop (a step too few, a path left out)
is visible as another secret, as it would be in the program.

* `keys[p]` — what a principal holds: `SpendKeyPair::derive_root_read_key`
  (`DeriveRoot`), `ReadKeyPair::derive_child` (`DeriveForSelf`),
  `ReadKeyPair::import` (`ImportKey`).
* `exports` — exported keys handed over (`HandOver`; `rok grant`,
  `MemoryStore::grant_access`). They travel out of band: an import may come at
  any later time, several times, or never.
* `envelopes` — every envelope produced: `EncryptToScope` (classical and
  hybrid), `EncryptToRecipients`, `Rekey`.

`Outcome` is `decrypt`/`hybrid_decrypt` with its checks in the code's order.

### Storage (`KVStore`, `Fileverse`)

`KVStore` has one action per trait method; a call takes effect in one step and
`last[c]` is what the caller was told. `Fileverse` splits a call at its
requests. `put` and `get_by_key` begin with a search (`Put`, `GetByKey`); the
answer to the search is one step with what the client does next (`GetFinds`,
`PutUpdates`, `PutCreates`), because nothing the client does in between is
visible to others. Updates, creations and deletions are requests in `flight`
that the server carries out later (`Serve`), perhaps after the client gave up
(`GiveUp`). `SearchFails`, `Refuse`, a lost answer (`Unheard`) and a time-out
of a pending request are *faults*, counted in `faults`. The server is external
and is assumed to do what the backend takes for granted: it never reuses an
id, lists the live documents, and answers an update of a deleted document with
an error status. Titles are model values here, and contents are what clients
put, so that every content decodes; the text of titles, and documents that
somebody has made undecodable, are in `Memory`.

### Session (`McpSession`)

Each tool call is a record in `calls`: its kind, its place in the code, the
credentials and scope it was given. `setup` runs through `Truncate`,
`WriteConfig`, `EnsurePermissions`, `Count` and then, like `login`, asks for
the write lock and installs the session; `std::fs::write` is two steps because
it empties the file before it writes. `write`, and `propose` by an owner, keep
the read lock across the request to the store (`Write`, `Put`), `sync` across
one request after another (`NextEntry`); the other tools only read under it
(`Read`). `late` counts requests whose call timed out or whose server was
stopped, and which the document server may still carry out (`Arrives`).
`Restart` may come at any moment: running calls are lost, the session is what
`build_session_from_config` makes of the file. The lock is tokio's, external,
fair: waiters are served in order. `memories` only counts, at a scope and one
below it, for one owner and one document server; which entries `sync` skips
and what `list` does with entries that do not parse is in `Memory`.

### Memories (`ScopeTexts`, `Memory`)

A text is a sequence of characters from a small alphabet. `StorageName` is
what a backend makes of a scope and a key name: `"{scope}:{key}"`, after the
constant `rok:`, as a title on Fileverse, `"{scope}/{key}"` in memory.
`ListedBy` filters by scope as the backends do, after `ParseTitle` has cut the
title at its last colon; `List` and `ListFails` are what `MemoryReader::list`
(and `MemoryStore::list`, for the owner's root key) makes of it: an entry that
does not decrypt is skipped, one that is no envelope, or whose scope does not
parse, ends the call. `ReadsResource` goes through the URI that a listing
shows.

* `docs` — the stored entries, by storage name and copy: on Fileverse a title
  may have several documents. `Reads` is what a read may return, since
  `get_by_key` takes the first document of the title and the server says which
  that is. `Put` updates that document; if there is none, or if the first is
  not Base64, so that `get_by_key` fails in `ddoc_to_entry`
  (`fileverse.rs:89-91`), it creates one more. `PutUnseen` is a put whose
  search fails, or came before the document another client created: it creates
  one more as well. `Write` is `MemoryStore::write` (and `accept_proposal`),
  `Delete` the trait's `delete`, `Edit` a document that somebody changed on the
  server, to something that is not Base64 or that is no envelope.
* `doubted` — history: the titles that had an undecodable document, or one too
  many through `PutUnseen`. What a read finds under any other title is one
  thing only; under these it may find the other document, or fail.
* `sync` — a call of `rok_memory:sync`, entry by entry: `SyncRead` checks the
  scope, reads, compares, and counts a proposal for an agent; `SyncStore` puts
  for an owner. Others may change `docs` between any two of its steps, and any
  request of it may fail.
* `SearchResults` — a Fileverse search returns at most `ListLimit` documents
  (1000 in the code), whichever they are.

### Sharing (`AccessPolicy`, `Vault`)

`rules` are the policy's rules, each with its keys and one expiry; `granted`
and `terms` record what was asked for. `Grant` adds a key to the rule of its
scope *without* its expiry if there is a rule (`policy.rs:35`); `SaveAndLoad`
is `to_proto` and `from_proto`, which turn an expiry of zero into none;
`Tick` is the clock, and `Expired` compares with `<`, so that the second of
the expiry still counts.

`Vault` stores documents for the keys the policy lists for their scope.
`RekeyBegin` collects the documents at a scope and below, `RekeyDoc` takes one
of them (in the order of a hash map, so: any) and fails the whole call if the
key given does not open it or the new list is empty, `RekeyEnd` returns. The
policy may be changed between the steps, the vault, borrowed, may not. The
recipients are those the policy lists for the scope of the rekey, when it
begins.

### Documents (`Wire`, `SectionedFiles`, `Stream`)

A file is a sequence of fields; a section is one field, whose value has the
name and the fields of its envelope. A field with a length in front has the
length it announces, cut to 16 bits, beside the size it has; where the two differ,
whoever reads goes on in the middle of a field and finds nothing that makes
sense. Protobuf has lengths of its own, and no sequence of sections is too
long for it. `ReadSections` and `EnvelopeFromBytes` follow the order of the
code's checks; `over` is what a signature was made over, so that a signature
fails for an envelope that is not the one signed.

* `file` — what the last command wrote: `WriteFile` writes all fields, or some
  and a part of the next. `file.sections` is history: what was to be written.
* `doc` — the document in memory: of `encrypt-sections` (`EncryptSections`), a
  builder (`BuildShared`), `encrypt` (`Encrypt`), a credential (`Issue`); and
  of `RekeySection`, which replaces the envelope of the first section of a
  name. `before` and `rekeyed` are history.
* `cmd`, `out` — `decrypt-sections`, which reads the file at once and makes its
  output directory (`DecryptSectionsBegin`), then decrypts and writes section by
  section (`DecryptSection`), while the file may be written anew; what another
  command left in the directory stays there. `out` is by path: `PathOf` joins
  the output directory with the name of a section, and names that
  `add_section` tells apart may be one path (`a` and `./a`), or one outside the
  directory. `WriteFails` is `fs::write` returning an error, which ends the
  command and leaves the file as it was or torn. `cmd.before` is history: the
  files when the command began. All commands use one output directory, and no
  section's path is the input file, or the file that `rok decrypt` writes.
* `consumers`, `chunks`, `ring` — the pipeline's list, its chunks, and the
  keyring of those who read; `joined` (the consumers, as a set) and `held` (the
  secrets that can be loaded) are history. A consumer may be added twice, a key
  be revoked and stored again. `retain` of `remove_consumer` is written with
  the places of those who stay, in their order (`NthOf`), for the provers know
  nothing of `SelectSeq`.

## 3. Runs

All runs check deadlock; where a model may stop because its bounds are
exhausted, an explicit `Finished` step says so.

| run | shows | states |
|---|---|---|
| `delegation` | two owners and a third principal over `/`, `/a`, `/a/b`, `/b`: `KeysAreCanonical` (a key depends on owner and scope only), `ReadIffAuthorised` (a key opens a scope-based envelope exactly if entitled), `Confinement` (nobody reaches above what it was handed), `ListedKeyDecrypts` and `SignersHadAccess` across rekeys; and `IInv`, the inductive invariant | 481,715 |
| `scope_strings` | all texts up to five characters: `AncestorIsComponentPrefix`, `ComponentsDetermineScope`, `ScopesAreWellFormed`, `MovesAreByOneComponent` (string operations against components), `ListingMatchesAccess` (the filter of `list` against the scope check of `decrypt`) | 69,615 |
| `fileverse_single` | a single client without faults sees the map of the trait: `ImplementsKVStore` (refinement) | 3,371 |
| `fileverse_clients` | two clients and one fault: `WritesStayInTheirTitle`, `DuplicatesBounded`, `AckedMeansStored`, `CallsReturn`; and `IInv` | 187,293 |
| `mcp_session` | three concurrent calls, a restart, late store requests, a config from before: `OneSessionPerCall`, `OnlyOwnersStore`, `CountNeverOverstates`, `SetupSurvivesRestart`; and `IInv` | 782,518 |
| `mcp_liveness` | three concurrent calls of any kind all end (`CallsFinish`) | 312,663 |
| `memory` | two owners and a sync on either backend: `ListIsComplete`, `ListedMemoriesReadBack`, `MemoriesAreSeparate`, `SyncLeavesBatch`, `SyncSkipsKnown` | 217,171 |
| `sharing` | a policy that changes, expires and is saved, and a vault rekeyed from it: `AccessMatchesGrants`, `RekeyIsExplained`, `RevokedStaysOut` | 713,547 |
| `documents` | files in both encodings, cut and whole, credentials, rekeyed sections, and a stream: `WrittenFileReadsBack`, `CutFilesYieldAPrefix`, `DecryptSectionsIsComplete`, `DisclosureIsExact`, `RekeyIsLocal`, `ReadersAreConsumersWithKeys` | 257,981 |
| `fileverse_race` | *violation* of `UniqueTitles`, fileverse.rs:124: two puts of a new title leave two documents, no fault needed | |
| `policy_expiry` | *violation* of `ExpiryHonoured`, README.md:554: a grant at a scope that has a rule gets the expiry of that rule | |
| `memory_names` | *violation* of `ListShowsReadable`, memory.rs:66: a key name with a colon can be read but not listed, and may make the listing fail for all | |

Where the run with the violation stands, the passing run beside it has the
condition under which the code does keep its word: `DuplicatesBounded`,
`AccessMatchesGrants` (one expiry for all grants at a scope) and
`ListIsComplete` (plain key names).

### Bounds and why they are enough

* Scopes: `/a/b` is two levels below the root, which distinguishes one
  derivation from two; `/b` is a sibling with the name of a grandchild. In
  `delegation` two keys per holder and an export make a chain of derivation,
  hand-over and import by another holder, and two envelopes are what one rekey
  needs; the theorems remove the bounds.
* Texts of five characters reach every case of the string code: a root, one
  and two components, equal, nested and look-alike siblings, both kinds of
  misplaced slash.
* `fileverse_clients`: two clients with two calls each cover put against put,
  put against delete and get against both; one fault covers each kind once,
  and the client goes on with a second call while its first request is still
  in flight. `fileverse_single` has five calls, so that a title is created,
  updated, deleted and created again.
* `mcp_session`: three calls put a reader inside the lock, a writer behind it
  and another call before its lock; a sync has two entries, and one memory,
  stored or late, is enough for a count to lag behind. Calls are symmetric (a
  permutation of `Call` changes nothing the safety properties say).
  `mcp_liveness` has no symmetry, no memories, on whose number no step of a
  call depends, and no restart, which could only end calls sooner.
* `memory`: key names with a slash, with a colon and the empty one, below
  scopes of which one is a prefix of the other in letters only; two changes by
  others make two entries that may collide, or an entry and what spoils it; a
  batch gives a pair two values, or names an invalid scope and then one that a
  session may not see. Two changes and the puts of a sync make a title of an
  undecodable document and a good one; a title has at most three documents.
  With `ListLimit` 2 and three entries the search is cut short. Owners and
  copies are symmetric.
* `sharing`: two keys, a scope and its parent, two documents: a rekey can fail
  before, between and after them. Two grants at one scope differ in their
  expiry, 0 or 1, of a clock that reaches 2: not yet, just and no longer
  expired. Two rekeys, so that one that failed can be repeated. Keys and
  documents are symmetric.
* `documents`: two sections and a width of three lengths (two bytes in the
  code), so that a name can be too long and everything else fits; a file may
  be cut at every field. Lists of recipients are empty, of the two keys of an
  owner on one path, and of a stranger. Two consumers in the list may be the
  same one, and two chunks may have different readers. The files and the
  stream share no state, so that a behaviour is one of the one or the other.
  The two names lead to one path, so that two sections overwrite each other
  unless one is skipped, and a second path is there to be left alone; a rekey
  gives a file of sections with two signers. Names that have a path each, and a
  directory in which earlier commands have left files, change nothing in the
  argument: for them there is the theorem (`DecryptSectionsAreComplete`).

### Fairness

`Fileverse!FairSpec` has weak fairness of each client's call in progress: the
blocking `reqwest` client has a default time limit of 30 s, so a request is
answered or given up. Nothing is assumed of requests nobody waits for, and
clients need not begin calls. `McpSession!FairSpec` has weak fairness of each
call's next step: file operations end, requests have the same time limit, and
tokio's lock hands itself on in order.

## 4. Proofs

The theorems hold for every value of the constants that meets the `ASSUME`s
of the modules: any owners, principals, scopes closed under parents
(`ScopeAssumption`), clients in a finite set (`ClientAssumption`), any bounds,
any credentials kept apart from each other (`CredAssumption`), names whose
scopes are valid (`NameAssumption`), an alphabet whose letters do not include
the colon (`ColonAssumption`), keys that derive from the owners'
(`FilesAssumption`; it also says that recipients are finitely many, that every
name has a path, which is not that of `rok decrypt`, and that there are nonces
enough for the bounds), readers' errors that are not among
what they return (`WireAssumption`), consumers whose keys are read keys
(`StreamAssumption`), and texts of any positive length (`MaxTextAssumption`).
Each proof
module has the same plan: an invariant `IInv` (defined beside the properties
and checked in a run as well for `Delegation`, `Fileverse` and `McpSession`, in
the proof module for the others) holds initially (`Init => IInv`) and is kept by
every step, with one lemma for each action or family of actions; the
properties follow from it.

### Delegation (`DelegationProofs`)

`IInv` is `TypeOK`, `KeysAreCanonical`, `EnvelopesAreCanonical` and
`KeysAreEntitled`. `ReadIffAuthorised` is not inductive: that a key opens an
envelope depends on how both came about. `KeysAreCanonical` and
`EnvelopesAreCanonical` forget the route and keep the result, and what they
need from the derivation loop is one lemma, that the path to a descendant is
the path to the ancestor prolonged (`PathToDescendant`). From `IInv`:

* `ScopeDecidesAccess` (`ReadIffAuthorised`): a secret derived to the
  envelope's scope is the writer's if and only if seed and chain agree;
* `KeysNeverEscalate` (`Confinement`): chains only grow, so what a holder can
  reach begins with a chain it was handed;
* `ListedKeysDecrypt` (`ListedKeyDecrypts`) for both modes and any chain of
  rekeys;
* `SignersCouldRead` (`SignersHadAccess`), an invariant of its own on top of
  `IInv`: envelopes and keys are never taken back.

### Fileverse (`FileverseProofs`)

`IInv` relates three things: the calls and the requests they sent
(`CallInv`), one request per call (`OneRequestPerCall`), and the count of
requests nobody waits for (`LateRequestsAreFaults`). The bound of
`DuplicatesBounded` is a counting argument. When a client finds no document
and sends a creation, every other creation of that title in flight is either
awaited, and then belongs to another client, one each, or abandoned, and then
was paid for by a fault; so there are fewer than |Client| + faults of them,
and room for one more. When a search fails, the fault pays for the creation.
Every other step leaves the sum or lowers it.

* `TitlesAreKept`, `DuplicatesAreRare`: parts of `IInv`;
* `PutsAreStored` (`AckedMeansStored`): the step in which an acknowledgement
  arrives is the step in which the server stored the content;
* `OnlyClientSeesMap` (`ImplementsKVStore`): with one client and no faults
  every step of `Fileverse` is a step of `KVStore` or a stutter, under the
  mapping of the documents to a map. The invariant it rests on
  (`OnlyClientInv`) says that a title has one document, that a creation is in
  flight only while there is none, and that the client has at most one
  request. The run `fileverse_race` shows that two clients are too many.

### Session (`McpSessionProofs`)

The heart of `IInv` is `LockMatches`: who holds the lock and who waits for it
is what the places of the calls say, a writer is alone, and no call is in the
queue twice. A step that changes the session is made by a call that holds the
lock for writing, so no other call is between its lock and its return
(`ReturnStep`). With that,

* `SessionIsStable` (`OneSessionPerCall`) and `StoresByOwnersOnly`
  (`OnlyOwnersStore`, with `PuttersAreOwners`) follow;
* `CountsAreCautious` (`CountNeverOverstates`) needs that the count a call
  carries through the queue stays within what its key sees
  (`CountsAreReached`), because no tool and no command deletes memories;
* `SetupIsPersistent` (`SetupSurvivesRestart`) needs what the only setup has
  done to the file at each of its steps (`SetupOwnsConfig`). The condition on
  the only setup is needed: of two overlapping ones, the second may leave a
  torn file (`WriteConfig`).

### Texts and scopes (`ScopeTextsProofs`, `ScopeStringsProofs`)

The library has no theorem about the last place of a character, so that
`ScopeTextsProofs` has: it exists (`LastOfExists`, from the well-foundedness of
the naturals), and what is before and behind it is known. `IInv` of
`ScopeStrings` says that the text and the scope have at most `MaxText`
characters and that the scope held is valid. `ParentIsValid` and
`ChildIsValid` are the two steps that need an argument, because the code makes
a `Scope` there without calling `Scope::new`. `ListingIsAccess`
(`ListingMatchesAccess`) then compares the two string tests place by place,
for texts of any length over any alphabet.

The other theorems are about components, and rest on two descriptions of a
valid text other than the root:

* *where it is cut*. A slash is numbered by how many slashes there are up to
  it (`SlashesInOrder`: the numbering and `Slashes` are inverse to each other,
  by counting). `Cuts` says that a scope with d slashes has d + 1 cuts, the
  first at its first character, the last behind its end, letters and nothing
  else between one and the next, at least one of them (`ComponentsAre`);
* *what it is joined from*. `Paths` is a recursive function, and that a
  function satisfying its equation exists is itself an induction on the
  length of the list (`UnfoldingExists`, from the least number with a
  property, `UpTo`). `PathsOfComponents`: the path of the first n components
  is the text up to its cut n + 1.

With them, `ComponentsDetermine` (`ComponentsDetermineScope`) is the second
description at the last cut. For `AncestorsOnComponents`
(`AncestorIsComponentPrefix`), a text that continues another with a slash is
cut where that is (`BeginningCuts`: the numbers of the slashes are the same),
and conversely lists that agree have paths that agree (`PathsAgree`), so that
the shorter text is the longer one up to a cut. `MovesByOneComponent`
(`MovesAreByOneComponent`): the last slash is the last cut but one
(`LastSlash`), so a parent ends where its last component began; and the
parent of a child is the scope itself (`ParentOfChild`), so that a child has
the components of its parent and one more. `ScopesWellFormed`
(`ScopesAreWellFormed`) builds the path of a list as a child of the path of
its beginning (`PathIsValid`), and finds the bound on the number of components
in that each takes two characters (`TwoCharactersEach`).

### Memories (`MemoryProofs`)

Two facts about names carry everything. A joined name determines its parts if
the separator is not in the left part (Fileverse: scopes have no colon,
`ColonAssumption`), or in the right one (in memory: plain key names). And a
title is parsed back into its parts if the key name is not empty and has no
colon. From them and a step-wise argument, `MemoriesStaySeparate`
(`MemoriesAreSeparate`): a step changes the entry of one storage name, and no
two separate pairs share one.

`IInv` is the types, `EntriesOK` (a document lies under the storage name of its
pair, in an envelope of its scope), `Orderly` (a title that is not in `doubted`
has at most one document, and one that decodes), `SyncRunning` (a sync stores
only for an owner and under a scope that was checked), `KnownStays` (while
nobody interferes, what the session saw when the call began is what it sees
now) and `BatchStored` (the pairs already processed may be read as the batch
has them last, and read as nothing else unless they are in `doubted`).
`Orderly` is what a put has to keep: it creates a document only where there is
none, unless the title is in `doubted` already or `PutUnseen` puts it there.
`ListingIsComplete` needs `TypeOK` alone, `ListingReadsBack` needs `Orderly`
too, `KnownIsSkipped` and `SyncStoresBatch` need the rest.

### Sharing (`VaultProofs`)

`IInv` is the conjunction of

* `PolicyInv`: a rule lists a key exactly if it was granted and not revoked,
  there; its expiry was asked for at its scope, or a zero was, which an encoding
  turned into none;
* `VaultTypeInv`: types of documents and of the rekey;
* `RekeyProgress`: a document still to be done is as it was, one that is done
  has the new readers, the others are untouched;
* `ShutOutInv`: who has been shut out of a scope is listed nowhere at or below
  it, reads no document there, and is not among the readers of a rekey under
  way that could reach there. That is inductive only because the listing shrinks with time and with
  every step but a grant (`ListingShrinks`), and because a grant withdraws the
  record of the key.

From these, `PolicyIsHonoured`, `RekeyingIsExplained` and `RevocationLasts`.

### Documents (`DocumentsProofs`)

`IInv` is the conjunction of

* `DocumentInv`: a document has sections with the form of envelopes that
  writing and rekeying produce, names of their own where it is a sectioned
  one, envelopes for recipients where it is a credential; and `RekeyIsLocal`
  itself;
* `FileInv`: a whole file has the fields of the encoding of the sections it
  was written for, a cut one a beginning of them and a torn field (`GoodFile`);
* `CommandInv`: what a running or ended `decrypt-sections` has read are
  sections whose signatures are those of their envelopes, and each file is
  right as far as the command has come (`Progress`): it has the last of the
  sections before the command's place that were asked for, that its key may
  read and whose name leads there, or what it had when the command began,
  but for a file that could not be written;
* `StreamInv`: `joined` is the set of the consumers, `held` are the secrets
  that the keyring gives out, and every chunk is an envelope for those who had
  joined.

Each encoding has its reader proved against it, envelope by envelope and for
any number of sections: what it makes of all the fields, and what it can make
of a beginning of them. `WrittenFilesReadBack` and `CutFilesAreSafe` are the two
together with `GoodFile`. The count in front of binary sections is cut to 16
bits, so that a file of more sections than that can be cut and yet be read, as
one with fewer: `CutFilesYieldAPrefix` says so. `DecryptSectionsAreComplete`
follows from `CommandInv`. A round of the loop concerns one path: there the
section is now the last (`WrittenIsRight`), at every other path nothing has
changed, for no section was added that belongs there (`PassedIsRight`). That
the command ends early at a foreign signature or a failed write only is
`OutcomeOf`: whoever is meant to read gets the plaintext, and whoever is not
gets one of the two errors that are skipped. `RekeysAreLocal` follows
from the place `SectionOf` finds being one of the name (`FirstOfName`),
`DisclosuresAreExact` from `SharedOutcome`: in recipient mode decryption
depends on the signature and the list only, so that the scope check of
`disclose` is the only one there is. `ReadersAreConsumers` needs of
`remove_consumer` only that what stays is all of the others
(`NthOfPositions`), whatever their order.

### What stays with TLC

Liveness (`CallsReturn`, `CallsFinish`), and with it fairness and `ENABLED`.
Every other property of the passing runs is a theorem. The violations are
single behaviours. No theorem says that the models are the code: that the
definitions are faithful is for the reader of `PROJECT.json`.

## 5. Not modelled, and why

* Cryptographic primitives, the random source, id collisions: symbolic.
* Generated protobuf code; plugin hooks, examples and demonstrations: scripts
  around the modelled operations.
* `sign` and `verify` of single files keep no state. The CLI's keyring,
  `revoke` and `delete` commands make a fresh `MemoryKeyring` in each
  invocation, so that nothing they do is seen by the next.
* The spend-key half of the keyring, and `list_read_keys`: one map beside the
  other, without a step in common.
* Exported keys in protobuf (`proto.rs:75-181`), files of version 1, a file read
  in another format than it was written in, and malformed values inside a
  protobuf message.
* Time stamps, previews and messages of the tools: no property is about them.
* The settings file that `setup` edits belongs to the editor.

Behaviours met on the way that a reader of the code may want to know, and that
the models have where they are modelled:

* In recipient mode the scope is not checked (`encrypt.rs:325`): a listed key
  opens an envelope at a sibling or an ancestor scope, and the root key does
  not open one that does not list it. README.md:675-676 describes scope-based
  envelopes, as `ReadIffAuthorised` does; `vault.rs:91-92`, where documents are
  said to be decrypted with the spend key by way of the root read key, needs
  the root key in the list.
* A failed search counts as absence (`fileverse.rs:124-125`): the put then
  creates a second document and is acknowledged, and a later get may return
  the older one.
* `setup` writes agent credentials to the config before anything has decoded
  them (`tools.rs:208-209`), and `logout` leaves the config as it is
  (`tools.rs:312-318`): the next start brings the session back.
* A rekey of the vault whose caller is not among the new recipients and which
  fails in the middle cannot be repeated by that caller: the documents already
  done do not open any more.
* `rok encrypt-sections` is always scope-based, as no flag takes its default
  back, so that `rekey_section` applies to sections of other programs only.
* The container of a sectioned file is not signed. In protobuf, a file cut
  between two sections is a file with fewer sections; in binary it is refused.
* Counts and lengths of 65,536 and more are cut to 16 bits without an error;
  such a file is written, and cannot be read.
* `decrypt-sections` does not clear its output directory, and sections whose
  names are one path overwrite each other there without a word.
* A put over a document that is not Base64 creates a second document of that
  title (`fileverse.rs:89-91, 125`): `list` shows the new one, while a read may
  still meet the old one and fail.
* `rok derive`, `grant` and `keyring` refuse `--scope /`, where
  `MemoryStore::grant_access` takes it.
