---------------------------------- MODULE Wire ----------------------------------
(***************************************************************************)
(* What is written to files and handed over as text: the binary and the    *)
(* protobuf form of an envelope and of a sectioned envelope                *)
(* (rok-core/src/envelope.rs, sectioned.rs, proto.rs), and the Base58 form *)
(* of keys (rok-core/src/encoding.rs).                                     *)
(*                                                                         *)
(* A file is a sequence of fields.  A field with a length in front has the *)
(* length it announces, which the writer cuts to 16 bits (to Width here),  *)
(* beside the size it has.  Readers go by what is announced; where that    *)
(* differs from the size they go on in the middle of a field, and what     *)
(* they make of it is refused at once or has no valid signature: both are  *)
(* Unreadable.  A field that was written in part is a "cut".               *)
(***************************************************************************)
EXTENDS Envelopes, FiniteSets

CONSTANTS
    Name,         \* names of sections
    LongName,     \* one whose length does not fit in its two bytes
    Width,        \* how many lengths two bytes can tell apart
    Unreadable    \* the reader returned an error

ASSUME WireAssumption ==
    /\ LongName \in Name /\ Width \in Nat \ {0, 1}
    \* An error is none of the values that readers return.
    /\ Unreadable \notin [envelope : Envelope, over : Envelope]
    /\ Unreadable \notin Seq([name : Name, envelope : [envelope : Envelope, over : Envelope]])

-------------------------------------------------------------------------------
(* Fields *)

Fixed(kind, value) == [kind |-> kind, value |-> value, size |-> 0, announced |-> 0]

Prefixed(kind, value, size) ==
    [kind |-> kind, value |-> value, size |-> size, announced |-> size % Width]

Aligned(field) == field.announced = field.size

Has(fields, i, kind) == i \in DOMAIN fields /\ fields[i].kind = kind

HasAll(fields, first, kinds) ==
    \A i \in DOMAIN kinds :
        Has(fields, first + i - 1, kinds[i]) /\ Aligned(fields[first + i - 1])

NameSize(name) == IF name = LongName THEN Width ELSE 1
ScopeSize(s) == IF s = Root THEN 1 ELSE Len(s)

-------------------------------------------------------------------------------
(* Envelopes.  What is read back is the envelope and what its signature was *)
(* made over, here the whole envelope (signable_bytes).                     *)

Signed(e) == [envelope |-> e, over |-> e]

CURRENT_VERSION == 2

\* EncryptedEnvelope::to_bytes.  Payload stands for nonce, ciphertext and tag,
\* seal for spend key and signature; the ephemeral keys are in the entries.
EnvelopeToBytes(e) ==
    << Fixed("ROK", 1), Fixed("version", CURRENT_VERSION),
       Fixed("algorithm", e.algorithm), Fixed("mode", e.mode),
       Prefixed("scope", e.scope, ScopeSize(e.scope)),
       Prefixed("entries", e.entries, Cardinality(e.entries)),
       Fixed("payload", e.data), Fixed("seal", [signer |-> e.signer, over |-> e]) >>

\* EncryptedEnvelope::from_bytes: a mode is there from version 2 on.  What
\* follows the signature is not looked at.
EnvelopeFromBytes(fields) ==
    LET hasMode == Has(fields, 2, "version") /\ fields[2].value >= 2
        s == IF hasMode THEN 5 ELSE 4
    IN  IF /\ HasAll(fields, 1, <<"ROK", "version", "algorithm">>)
           /\ hasMode => Has(fields, 4, "mode")
           /\ HasAll(fields, s, <<"scope", "entries", "payload", "seal">>)
        THEN [envelope |->
                [data |-> fields[s + 2].value, algorithm |-> fields[3].value,
                 scope |-> fields[s].value,
                 mode |-> IF hasMode THEN fields[4].value ELSE "Recipient",
                 signer |-> fields[s + 3].value.signer, entries |-> fields[s + 1].value],
              over |-> fields[s + 3].value.over]
        ELSE Unreadable

\* The fields without the mode; a slip to leave it at that.
ModelessProto(e) ==
    << Fixed("version", CURRENT_VERSION), Fixed("algorithm", e.algorithm),
       Fixed("scope", e.scope), Fixed("entries", e.entries),
       Fixed("payload", e.data), Fixed("seal", [signer |-> e.signer, over |-> e]) >>

\* From<&NativeEnvelope>: in the order of the field numbers; the mode comes last
\* and is not written where it is Recipient, the default.
EnvelopeToProto(e) ==
    ModelessProto(e)
    \o IF e.mode = "Recipient" THEN <<>> ELSE <<Fixed("mode", e.mode)>>

\* TryFrom<&rok::EncryptedEnvelope>: a missing field has its default value,
\* which is refused for the algorithm and for everything of a fixed length.
EnvelopeFromProto(fields) ==
    IF /\ HasAll(fields, 1, <<"version", "algorithm", "scope", "entries", "payload", "seal">>)
       /\ \A i \in DOMAIN fields : fields[i].kind # "cut"
    THEN [envelope |->
            [data |-> fields[5].value, algorithm |-> fields[2].value,
             scope |-> fields[3].value,
             mode |-> IF Has(fields, 7, "mode") THEN fields[7].value ELSE "Recipient",
             signer |-> fields[6].value.signer, entries |-> fields[4].value],
          over |-> fields[6].value.over]
    ELSE Unreadable

-------------------------------------------------------------------------------
(* Sectioned envelopes: sequences of named envelopes *)

\* SectionedEnvelope::to_bytes.  What a section announces is the length of its
\* name; that of its envelope always fits into the four bytes it has.
SectionsToBytes(sections) ==
    << Fixed("ROKS", 1), Fixed("version", 1),
       Prefixed("count", Len(sections), Len(sections)) >>
    \o [i \in DOMAIN sections |->
           Prefixed("section", [name |-> sections[i].name,
                                envelope |-> EnvelopeToBytes(sections[i].envelope)],
                    NameSize(sections[i].name))]

\* The loop of from_bytes, for a number of sections.
ReadSections(fields, count) ==
    LET read(i) == EnvelopeFromBytes(fields[3 + i].value.envelope)
    IN  IF \A i \in 1..count : HasAll(fields, 3 + i, <<"section">>) /\ read(i) # Unreadable
        THEN [i \in 1..count |-> [name |-> fields[3 + i].value.name, envelope |-> read(i)]]
        ELSE Unreadable

\* A slip: the end of the data ends the list of sections.
SectionsFromBytesToTheEnd(fields) ==
    IF HasAll(fields, 1, <<"ROKS", "version">>) /\ Has(fields, 3, "count")
    THEN ReadSections(fields, Len(fields) - 3)
    ELSE Unreadable

\* SectionedEnvelope::from_bytes
SectionsFromBytes(fields) ==
    IF HasAll(fields, 1, <<"ROKS", "version">>) /\ Has(fields, 3, "count")
    THEN ReadSections(fields, fields[3].announced)
    ELSE Unreadable

\* From<&NativeSectionedEnvelope>
SectionsToProto(sections) ==
    <<Fixed("version", 1)>>
    \o [i \in DOMAIN sections |->
           Fixed("section", [name |-> sections[i].name,
                             envelope |-> EnvelopeToProto(sections[i].envelope)])]

\* TryFrom<&rok::SectionedEnvelope>: no section has to be there, and a field
\* that is no section under the number of one is refused.  The version, where it
\* is there, comes first.
SectionsFromProto(fields) ==
    LET first == IF Has(fields, 1, "version") THEN 1 ELSE 0
        read(i) == EnvelopeFromProto(fields[first + i].value.envelope)
        count == Len(fields) - first
    IN  IF \A i \in 1..count : fields[first + i].kind = "section" /\ read(i) # Unreadable
        THEN [i \in 1..count |->
                 [name |-> fields[first + i].value.name, envelope |-> read(i)]]
        ELSE Unreadable

-------------------------------------------------------------------------------
(* Keys as text *)

\* encode_with_tag
Text(tag, payload) == [tag |-> tag, payload |-> payload, checked |-> TRUE]

\* A text that was damaged on the way: the checksum does not fit.
Damaged(text) == [text EXCEPT !.checked = FALSE]

\* encode_read_public
EncodeReadPublic(k) == Text("ReadPublic", <<KeyId(k.secret), k.scope>>)

\* encode_exported_read_key: the parent is there if the flag says so.
EncodeExportedReadKey(x) ==
    Text("ReadSecret",
         IF x.parent = NoParent THEN <<x.secret, x.public, 0, x.scope>>
                                ELSE <<x.secret, x.public, 1, x.parent, x.scope>>)

\* decode_exported_read_key after decode_with_tag
DecodeExportedReadKey(text) ==
    LET p == text.payload
    IN  IF text.tag # "ReadSecret" \/ ~text.checked THEN Unreadable
        ELSE [secret |-> p[1], public |-> p[2],
              scope  |-> IF p[3] = 1 THEN p[5] ELSE p[4],
              parent |-> IF p[3] = 1 THEN p[4] ELSE NoParent]

===============================================================================
