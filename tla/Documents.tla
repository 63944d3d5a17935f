-------------------------------- MODULE Documents --------------------------------
(***************************************************************************)
(* Those who work with encrypted documents: through files and credentials  *)
(* (SectionedFiles), or through a pipeline and a keyring (Stream).  The two *)
(* share the envelopes and no state, so that a behaviour is one of the one *)
(* or of the other.                                                        *)
(***************************************************************************)
EXTENDS SectionedFiles, Stream

vars == <<fileVars, streamVars>>

Init == FilesInit /\ StreamInit

StreamUntouched == consumers = <<>> /\ chunks = <<>> /\ ring = <<>>

\* Nothing but the bounds stops either.
Finished == UNCHANGED vars

Next ==
    \/ StreamUntouched /\ FilesNext /\ UNCHANGED streamVars
    \/ writes = 0 /\ StreamNext /\ UNCHANGED fileVars
    \/ Finished

Spec == Init /\ [][Next]_vars

WellFormed(e) == e \in Envelope /\ e.entries # {}

\* Type correctness; no envelope is without readers.
TypeOK ==
    /\ doc # Nothing =>
           /\ doc.kind \in {"Sections", "Envelope", "Credential"}
           /\ \A i \in DOMAIN doc.sections :
                  /\ doc.sections[i].name \in Name \cup {Single}
                  /\ WellFormed(doc.sections[i].envelope)
    /\ file # Nothing => file.format \in Format /\ file.whole \in BOOLEAN
    /\ cmd # Nothing => cmd.at \in {"refused", "running", "done", "failed", "unwritten"}
    /\ out \in [Path \cup {Single} -> DataKey \cup {Nothing, Unreadable}]
    /\ writes \in 0..MaxWrites
    /\ consumers \in Seq({k.secret : k \in Consumer})
    /\ \A i \in DOMAIN chunks : WellFormed(chunks[i].envelope)
    /\ \A id \in DOMAIN ring :
           /\ ring[id].exported \in ExportedReadKey
           /\ ring[id].exported.public = id

===============================================================================
