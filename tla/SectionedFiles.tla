----------------------------- MODULE SectionedFiles -----------------------------
(***************************************************************************)
(* Files of envelopes: rok encrypt, encrypt-sections, decrypt,             *)
(* decrypt-sections and inspect (rok-cli/src/commands), the rekeying of a  *)
(* section (rok-core/src/sectioned.rs), and credentials, which are the     *)
(* same list of named envelopes kept in memory (rok-sdk/src/identity.rs).  *)
(*                                                                         *)
(* A program that writes a file may be stopped at any field.  Decrypting   *)
(* sections writes their plaintexts one by one, and any of these writes    *)
(* may fail; the file was read before, and may be written anew meanwhile.  *)
(***************************************************************************)
EXTENDS Wire

CONSTANTS
    Author,       \* the owner who encrypts
    Keys,         \* the read keys in use
    Recipients,   \* the lists of recipients in use, as sets of secrets
    Single,       \* where rok decrypt writes its output
    Path,         \* the files that decrypt-sections may write
    PathOf,       \* PathOf[n]: the output directory joined with the name n
    Nothing,      \* no document, file, command or output
    MaxWrites,    \* bound: documents encrypted
    MaxCommands,  \* bound: calls of decrypt-sections
    MaxRekeys,    \* bound: sections rekeyed in one document
    MaxSections   \* bound: sections of a document

VARIABLES
    doc,      \* the document in memory that was written last, with its history
    file,     \* the file: its format, kind and fields, and what was to be written
    cmd,      \* the decrypt-sections command that is running or ran last
    out,      \* out[p]: the plaintext in the file p; unreadable if it is torn
    writes,   \* documents encrypted so far
    commands  \* calls of decrypt-sections so far

fileVars == <<doc, file, cmd, out, writes, commands>>

FilesInit ==
    /\ doc = Nothing /\ file = Nothing /\ cmd = Nothing
    /\ out = [p \in Path \cup {Single} |-> Nothing]
    /\ writes = 0 /\ commands = 0

Format == {"Binary", "Proto"}

\* The key that keygen prints for "/", and derive, grant and keyring export for
\* the scopes below.
CliKey(o, s) == IF s = Root THEN RootReadKey(o) ELSE DeriveChild(RootReadKey(o), s)

ASSUME FilesAssumption ==
    /\ Author \in Owner
    /\ Keys \subseteq {CliKey(o, s) : o \in Owner, s \in Scope}
    /\ Recipients \subseteq SUBSET {k.secret : k \in Keys}
    /\ \A recipients \in Recipients : IsFiniteSet(recipients)
    /\ Single \notin Name \cup Path
    /\ PathOf \in [Name -> Path]
    /\ MaxSections \in Nat \ {0} /\ MaxWrites \in Nat
    /\ 1..(MaxSections * MaxWrites) \subseteq Nonce

-------------------------------------------------------------------------------
(* Writing *)

Encoded(format, kind, sections) ==
    IF kind = "Sections"
    THEN IF format = "Binary" THEN SectionsToBytes(sections) ELSE SectionsToProto(sections)
    ELSE IF format = "Binary" THEN EnvelopeToBytes(sections[1].envelope)
                              ELSE EnvelopeToProto(sections[1].envelope)

\* fs::write: the whole file, or what was there when the program was stopped.
WriteFile(format, kind, sections) ==
    LET fields == Encoded(format, kind, sections)
    IN  \/ file' = [format |-> format, kind |-> kind, sections |-> sections,
                    fields |-> fields, whole |-> TRUE]
        \/ \E n \in 0..(Len(fields) - 1), rest \in {<<>>, <<Fixed("cut", 0)>>} :
               file' = [format |-> format, kind |-> kind, sections |-> sections,
                        fields |-> SubSeq(fields, 1, n) \o rest, whole |-> FALSE]

Remember(kind, sections) ==
    doc' = [kind |-> kind, sections |-> sections, before |-> sections, rekeyed |-> <<>>]

Data(i) == [author |-> Author, nonce |-> MaxSections * writes + i]

\* SectionedEnvelopeBuilder: add_section refuses a name that is there already.
DistinctNames(names) == \A i, j \in DOMAIN names : names[i] = names[j] => i = j

\* encrypt_sections::run, with --scope-based as it is by default, which no flag
\* takes back: hybrid or classical, every section is for its scope.
EncryptSections(names, scopes, algorithm, format) ==
    LET sections == [i \in DOMAIN names |->
            [name |-> names[i],
             envelope |-> SealToScope(Author, Data(i), algorithm, scopes[i])]]
    IN  /\ writes < MaxWrites
        /\ names # <<>> /\ DistinctNames(names)
        /\ WriteFile(format, "Sections", sections)
        /\ Remember("Sections", sections)
        /\ writes' = writes + 1
        /\ UNCHANGED <<cmd, out, commands>>

\* A program that puts envelopes for recipients into a SectionedEnvelopeBuilder.
BuildShared(names, s, recipients, format) ==
    LET sections == [i \in DOMAIN names |->
            [name |-> names[i],
             envelope |-> SealToRecipients(Author, Data(i), s, recipients)]]
    IN  /\ writes < MaxWrites
        /\ recipients # {} /\ names # <<>> /\ DistinctNames(names)
        /\ WriteFile(format, "Sections", sections)
        /\ Remember("Sections", sections)
        /\ writes' = writes + 1
        /\ UNCHANGED <<cmd, out, commands>>

\* encrypt::run: hybrid with --scope-based only, classical for the scope or for
\* at least one recipient.
Encrypt(s, scopeBased, recipients, algorithm, format) ==
    LET e == IF scopeBased THEN SealToScope(Author, Data(1), algorithm, s)
                           ELSE SealToRecipients(Author, Data(1), s, recipients)
    IN  /\ writes < MaxWrites
        /\ algorithm = "Hybrid" => scopeBased /\ recipients = {}
        /\ algorithm = "Classical" => scopeBased \/ recipients # {}
        /\ WriteFile(format, "Envelope", <<[name |-> Single, envelope |-> e]>>)
        /\ Remember("Envelope", <<[name |-> Single, envelope |-> e]>>)
        /\ writes' = writes + 1
        /\ UNCHANGED <<cmd, out, commands>>

\* Credential::issue: every attribute under its own scope, all of them for the
\* same recipients; nothing is written, and the names are not compared.
Issue(names, scopes, recipients) ==
    /\ writes < MaxWrites
    /\ recipients # {}
    /\ Remember("Credential", [i \in DOMAIN names |->
           [name |-> names[i],
            envelope |-> SealToRecipients(Author, Data(i), scopes[i], recipients)]])
    /\ writes' = writes + 1
    /\ UNCHANGED <<file, cmd, out, commands>>

\* A slip: the caller's key is tried on the first section, whatever its name.
FirstOfAll(sections, name) == 1

\* The first section of a name.
SectionOf(sections, name) ==
    CHOOSE i \in DOMAIN sections :
        /\ sections[i].name = name
        /\ \A j \in 1..(i - 1) : sections[j].name # name

\* SectionedEnvelope::rekey_section on the document in memory, which is then
\* written anew; the envelope of an attribute is public and rekeyed the same way.
\* Where the name, the mode, the key or the new list is refused nothing happens.
RekeySection(name, k, recipients, o, format) ==
    LET i == SectionOf(doc.sections, name)
        e == doc.sections[i].envelope
        sections == [doc.sections EXCEPT ![i].envelope = Rekeyed(o, e, recipients)]
    IN  /\ doc # Nothing /\ doc.kind # "Envelope"
        /\ \E j \in DOMAIN doc.sections : doc.sections[j].name = name
        /\ Unwraps(e, k) /\ recipients # {}
        /\ Len(doc.rekeyed) < MaxRekeys
        /\ doc' = [doc EXCEPT !.sections = sections, !.rekeyed = Append(@, name)]
        /\ IF doc.kind = "Sections" THEN WriteFile(format, "Sections", sections)
                                    ELSE UNCHANGED file
        /\ UNCHANGED <<cmd, out, writes, commands>>

-------------------------------------------------------------------------------
(* Reading *)

ReadSectioned(f) ==
    IF f.format = "Binary" THEN SectionsFromBytes(f.fields) ELSE SectionsFromProto(f.fields)

ReadEnvelope(f) ==
    IF f.format = "Binary" THEN EnvelopeFromBytes(f.fields) ELSE EnvelopeFromProto(f.fields)

\* inspect::run: the magic tells in binary; in protobuf a sectioned envelope is
\* tried first, and one without sections is read as a single envelope.
Inspect(f) ==
    LET sections == ReadSectioned(f)
        single == ReadEnvelope(f)
        tried == IF f.format = "Binary" THEN Has(f.fields, 1, "ROKS")
                                        ELSE sections # Unreadable /\ sections # <<>>
    IN  IF tried THEN sections
        ELSE IF single # Unreadable THEN <<[name |-> Single, envelope |-> single]>>
        ELSE Unreadable

\* decrypt or hybrid_decrypt of an envelope that was read, the signature first.
ReadOutcome(p, k, vk) ==
    IF p.over # p.envelope THEN "SignatureVerificationFailed"
    ELSE Outcome(p.envelope, k, vk)

Running == cmd # Nothing /\ cmd.at = "running"

\* To ask for all names is the same as to ask for none.
DecryptSectionsArgs ==
    [key : {EncodeExportedReadKey(Export(k)) : k \in Keys}
           \cup {Damaged(EncodeExportedReadKey(Export(CliKey(Author, Root)))),
                 EncodeReadPublic(CliKey(Author, Root))},
     vk : Owner, asked : SUBSET Name \ {Name}]

\* decrypt_sections::run up to the loop: the key is decoded and imported, the
\* file is read as what it was written, the directory is made or cannot be.
DecryptSectionsBegin(args) ==
    LET exported == DecodeExportedReadKey(args.key)
        sections == ReadSectioned(file)
    IN  /\ ~Running /\ file # Nothing
        /\ commands < MaxCommands
        /\ commands' = commands + 1
        /\ \/ cmd' = [at |-> "refused"]
           \/ /\ exported # Unreadable /\ sections # Unreadable
              /\ cmd' = [at |-> "running", args |-> args, key |-> Import(exported),
                         sections |-> sections, next |-> 1, before |-> out]
        /\ UNCHANGED <<doc, file, out, writes>>

\* A slip: to be listed by nobody is taken for a failure.
SkippedForScopeOnly(outcome) == outcome = "ScopeMismatch"

\* The errors that stand for "no access".
Skipped(outcome) == outcome \in {"ScopeMismatch", "NoMatchingAccessEntry"}

\* fs::write fails: before the file is opened, as for a name that is a directory
\* or lies in one that is not there, or after it was emptied.  A program that is
\* stopped in the middle of it leaves the same.
WriteFails(path) ==
    \E left \in {out[path], Unreadable} : out' = [out EXCEPT ![path] = left]

\* One round of the loop; with no names all sections are asked for.
DecryptSection ==
    /\ Running /\ cmd.next \in DOMAIN cmd.sections
    /\ LET s == cmd.sections[cmd.next]
           outcome == ReadOutcome(s.envelope, cmd.key, cmd.args.vk)
           asked == cmd.args.asked = {} \/ s.name \in cmd.args.asked
       IN  \/ /\ asked /\ outcome = "Plaintext"
              /\ out' = [out EXCEPT ![PathOf[s.name]] = s.envelope.envelope.data]
              /\ cmd' = [cmd EXCEPT !.next = @ + 1]
           \/ /\ asked /\ outcome = "Plaintext"
              /\ WriteFails(PathOf[s.name])
              /\ cmd' = [cmd EXCEPT !.at = "unwritten"]
           \/ /\ ~asked \/ Skipped(outcome)
              /\ cmd' = [cmd EXCEPT !.next = @ + 1]
              /\ UNCHANGED out
           \/ /\ asked /\ outcome # "Plaintext" /\ ~Skipped(outcome)
              /\ cmd' = [cmd EXCEPT !.at = "failed"]
              /\ UNCHANGED out
    /\ UNCHANGED <<doc, file, writes, commands>>

DecryptSectionsEnd ==
    /\ Running /\ cmd.next = Len(cmd.sections) + 1
    /\ cmd' = [cmd EXCEPT !.at = "done"]
    /\ UNCHANGED <<doc, file, out, writes, commands>>

\* decrypt::run: writes the plaintext, unless that fails, or fails before and
\* writes nothing.
Decrypt(k, vk) ==
    /\ file # Nothing
    /\ ReadEnvelope(file) # Unreadable
    /\ ReadOutcome(ReadEnvelope(file), k, vk) = "Plaintext"
    /\ \/ out' = [out EXCEPT ![Single] = ReadEnvelope(file).envelope.data]
       \/ WriteFails(Single)
    /\ UNCHANGED <<doc, file, cmd, writes, commands>>

\* A slip: attributes out of the key's scope are decrypted too.
DisclosableByListing(a, k) == TRUE

\* The first check of Credential::disclose.
Disclosable(a, k) == CanAccess(k, a.envelope.scope)

\* Credential::disclose: what it returns, an error if there is one.
Disclose(attributes, k) ==
    LET outcome(a) == Outcome(a.envelope, k, Author)
        tried == {i \in DOMAIN attributes : Disclosable(attributes[i], k)}
    IN  IF \E i \in tried : outcome(attributes[i]) \notin {"Plaintext", "NoMatchingAccessEntry"}
        THEN Unreadable
        ELSE {[name |-> attributes[i].name, data |-> attributes[i].envelope.data] :
                 i \in {j \in tried : outcome(attributes[j]) = "Plaintext"}}

-------------------------------------------------------------------------------
FilesNext ==
    \/ \E n \in 1..MaxSections :
           \E names \in [1..n -> Name], scopes \in [1..n -> Scope], format \in Format :
               \/ \E algorithm \in Algorithm : EncryptSections(names, scopes, algorithm, format)
               \/ \E recipients \in Recipients :
                      \/ BuildShared(names, scopes[1], recipients, format)
                      \/ Issue(names, scopes, recipients)
    \/ \E s \in Scope, scopeBased \in BOOLEAN, recipients \in Recipients,
          algorithm \in Algorithm, format \in Format :
           Encrypt(s, scopeBased, recipients, algorithm, format)
    \/ \E name \in Name, k \in Keys, recipients \in Recipients, o \in Owner, format \in Format :
           RekeySection(name, k, recipients, o, format)
    \/ \E args \in DecryptSectionsArgs : DecryptSectionsBegin(args)
    \/ DecryptSection
    \/ DecryptSectionsEnd
    \/ \E k \in Keys, vk \in Owner : Decrypt(k, vk)

-------------------------------------------------------------------------------
(* Properties *)

\* The sizes that the two bytes in front of them can tell.
Fits(sections) ==
    /\ Len(sections) < Width
    /\ \A i \in DOMAIN sections :
           /\ NameSize(sections[i].name) < Width
           /\ ScopeSize(sections[i].envelope.scope) < Width
           /\ Cardinality(sections[i].envelope.entries) < Width

Expected(sections) ==
    [i \in DOMAIN sections |->
        [name |-> sections[i].name, envelope |-> Signed(sections[i].envelope)]]

\* A file that was written to the end shows, through the command for its kind and
\* through inspect, the document that was written, with signatures that hold,
\* in either format, if the sizes fit into the two bytes that the binary format
\* has for them (envelope.rs:105-274, sectioned.rs:119-202, proto.rs:227-435).
WrittenFileReadsBack ==
    file # Nothing /\ file.whole /\ (file.format = "Binary" => Fits(file.sections)) =>
        /\ Inspect(file) = Expected(file.sections)
        /\ file.kind = "Sections" => ReadSectioned(file) = Expected(file.sections)

\* A file that was cut is refused, or it is a sectioned one in protobuf, or in
\* binary one of more sections than its count can tell, of which sections before
\* the cut are read as they were; a single envelope that is read all the same has
\* no valid signature (no reader, envelope.rs:143-152, sectioned.rs:143-152).
CutFilesYieldAPrefix ==
    file # Nothing /\ ~file.whole =>
        IF file.kind = "Sections"
        THEN \/ ReadSectioned(file) = Unreadable
             \/ /\ file.format = "Proto" \/ Width <= Len(file.sections)
                /\ IsPrefix(ReadSectioned(file), Expected(file.sections))
        ELSE \/ ReadEnvelope(file) = Unreadable
             \/ \A k \in Keys, vk \in Owner :
                    ReadOutcome(ReadEnvelope(file), k, vk) = "SignatureVerificationFailed"

\* Who is meant to read an envelope: the keys on the way to its scope, or the
\* keys it lists.
Entitled(e, k) ==
    IF e.mode = "ScopeBased"
    THEN /\ k.secret = CanonicalSecret(e.data.author, k.scope)
         /\ IsAncestorOf(k.scope, e.scope)
    ELSE \E entry \in e.entries : entry.id = KeyId(k.secret)

\* The command is to put the section it read as the i-th into the directory.
Due(i) ==
    /\ cmd.args.asked = {} \/ cmd.sections[i].name \in cmd.args.asked
    /\ Entitled(cmd.sections[i].envelope.envelope, cmd.key)

\* The file that section goes to.
Target(i) == PathOf[cmd.sections[i].name]

\* What decrypt-sections leaves when it ends, well or not, even if the file was
\* written anew meanwhile: of the sections it got through it has written exactly
\* those that were asked for and that the key is entitled to; a file has the last
\* of them whose name leads to it, for names that add_section tells apart may be
\* one path, and any other file is as it was.  It ends early at a section that is
\* signed by another key than the one given, or at a file that could not be
\* written, which is the only one left undefined (decrypt_sections.rs:37-80).
DecryptSectionsIsComplete ==
    cmd # Nothing /\ cmd.at \in {"done", "failed", "unwritten"} =>
        LET past == 1..(IF cmd.at = "done" THEN Len(cmd.sections) ELSE cmd.next - 1)
            spoiled(p) == cmd.at = "unwritten" /\ p = Target(cmd.next)
            signer == cmd.sections[cmd.next].envelope.envelope.signer
        IN  /\ \A i \in past :
                   /\ Due(i) /\ ~spoiled(Target(i))
                   /\ \A j \in past : i < j /\ Due(j) => Target(j) # Target(i)
                   => out[Target(i)] = cmd.sections[i].envelope.envelope.data
            /\ \A p \in Path :
                   (\A i \in past : Due(i) => Target(i) # p) /\ ~spoiled(p)
                   => out[p] = cmd.before[p]
            /\ cmd.at = "failed" => signer # cmd.args.vk
            /\ cmd.at = "unwritten" => Due(cmd.next) /\ signer = cmd.args.vk

\* A credential discloses to a key exactly the attributes below the key's scope
\* that list the key, and nothing at all once one of those below its scope has
\* been signed by another than the issuer (identity.rs:65-88).
DisclosureIsExact ==
    doc # Nothing /\ doc.kind = "Credential" =>
        \A k \in Keys :
            LET below == {i \in DOMAIN doc.sections :
                             IsAncestorOf(k.scope, doc.sections[i].envelope.scope)}
                foreign == {i \in below : doc.sections[i].envelope.signer # Author}
            IN  Disclose(doc.sections, k) =
                    IF foreign # {} THEN Unreadable
                    ELSE {[name |-> doc.sections[i].name,
                           data |-> doc.sections[i].envelope.data] :
                              i \in {j \in below : Entitled(doc.sections[j].envelope, k)}}

\* Rekeying sections one after the other, by different keys, changes those that
\* were named and of those nothing but who reads and signs them: names, order,
\* scopes and content stay (sectioned.rs:81-106).
RekeyIsLocal ==
    doc # Nothing =>
        /\ DOMAIN doc.sections = DOMAIN doc.before
        /\ \A i \in DOMAIN doc.sections :
               LET s == doc.sections[i]
                   b == doc.before[i]
               IN  s # b =>
                       /\ \E n \in DOMAIN doc.rekeyed : doc.rekeyed[n] = s.name
                       /\ s.name = b.name /\ s.envelope.scope = b.envelope.scope
                       /\ s.envelope.data = b.envelope.data

===============================================================================
