---------------------------------- MODULE Stream ----------------------------------
(***************************************************************************)
(* A pipeline that encrypts chunks for its consumers (rok-sdk/src/         *)
(* pipeline.rs), and consumers that keep their read keys in a keyring      *)
(* (rok-sdk/src/keyring.rs, rok-core/src/keyring.rs) and load them from    *)
(* there to decrypt a chunk.                                               *)
(***************************************************************************)
EXTENDS Envelopes, FiniteSets

CONSTANTS
    Producer,       \* the owner whose spend key signs the chunks
    StreamScope,    \* the scope of the pipeline
    Consumer,       \* the read keys of those who may become consumers
    MaxConsumers,   \* bound: length of the consumer list
    MaxChunks       \* bound: chunks encrypted

VARIABLES
    consumers,   \* the list of consumers, as public keys
    chunks,      \* the chunks, in the order they were encrypted
    ring,        \* ring[id]: the exported key under an id, and whether it is revoked
    joined,      \* history: those added and not removed since
    held         \* history: the secrets stored and neither revoked nor deleted since

ASSUME StreamAssumption ==
    /\ Producer \in Owner /\ StreamScope \in Scope
    /\ Consumer \subseteq ReadKey
    /\ MaxChunks \in Nat /\ 1..MaxChunks \subseteq Nonce

streamVars == <<consumers, chunks, ring, joined, held>>

StreamInit ==
    /\ consumers = <<>> /\ chunks = <<>> /\ ring = <<>>
    /\ joined = {} /\ held = {}

\* Pipeline::add_consumer: the same one may be added again.
AddConsumer(secret) ==
    /\ Len(consumers) < MaxConsumers
    /\ consumers' = Append(consumers, secret)
    /\ joined' = joined \cup {secret}
    /\ UNCHANGED <<chunks, ring, held>>

\* A slip: the first entry of the key goes, and no other.
RemoveConsumerOnce(id) ==
    /\ consumers' = IF \E i \in DOMAIN consumers : KeyId(consumers[i]) = id
                    THEN RemoveAt(consumers, CHOOSE i \in DOMAIN consumers :
                                                 KeyId(consumers[i]) = id)
                    ELSE consumers
    /\ joined' = {secret \in joined : KeyId(secret) # id}
    /\ UNCHANGED <<chunks, ring, held>>

\* The n-th smallest member of a set of positions.
NthOf(positions, n) ==
    CHOOSE i \in positions : Cardinality({j \in positions : j <= i}) = n

\* Pipeline::remove_consumer: the others stay, in their order.
RemoveConsumer(id) ==
    /\ LET kept == {i \in DOMAIN consumers : KeyId(consumers[i]) # id}
       IN  consumers' = [n \in 1..Cardinality(kept) |-> consumers[NthOf(kept, n)]]
    /\ joined' = {secret \in joined : KeyId(secret) # id}
    /\ UNCHANGED <<chunks, ring, held>>

\* A slip: a chunk is encrypted for nobody.
EncryptChunkForNobody ==
    /\ Len(chunks) < MaxChunks
    /\ LET data == [author |-> Producer, nonce |-> Len(chunks) + 1]
       IN  chunks' = Append(chunks,
               [envelope |-> SealToRecipients(Producer, data, StreamScope, ToSet(consumers)),
                for |-> joined])
    /\ UNCHANGED <<consumers, ring, joined, held>>

\* Pipeline::encrypt_chunk: an error where there is no consumer.
EncryptChunk ==
    /\ Len(chunks) < MaxChunks
    /\ consumers # <<>>
    /\ LET data == [author |-> Producer, nonce |-> Len(chunks) + 1]
       IN  chunks' = Append(chunks,
               [envelope |-> SealToRecipients(Producer, data, StreamScope, ToSet(consumers)),
                for |-> joined])
    /\ UNCHANGED <<consumers, ring, joined, held>>

\* MemoryKeyring::store_read_key: a key that was there and revoked is usable again.
StoreReadKey(k) ==
    /\ ring' = [id \in DOMAIN ring \cup {KeyId(k.secret)} |->
                   IF id = KeyId(k.secret) THEN [exported |-> Export(k), revoked |-> FALSE]
                                           ELSE ring[id]]
    /\ held' = held \cup {k.secret}
    /\ UNCHANGED <<consumers, chunks, joined>>

\* MemoryKeyring::revoke_key
RevokeKey(id) ==
    /\ id \in DOMAIN ring
    /\ ring' = [ring EXCEPT ![id].revoked = TRUE]
    /\ held' = {secret \in held : KeyId(secret) # id}
    /\ UNCHANGED <<consumers, chunks, joined>>

\* MemoryKeyring::delete_key
DeleteKey(id) ==
    /\ id \in DOMAIN ring
    /\ ring' = [i \in DOMAIN ring \ {id} |-> ring[i]]
    /\ held' = {secret \in held : KeyId(secret) # id}
    /\ UNCHANGED <<consumers, chunks, joined>>

\* MemoryKeyring::load_read_key
Loadable(id) == id \in DOMAIN ring /\ ~ring[id].revoked

\* Pipeline::decrypt_chunk with a key from the keyring.
ReadsChunk(chunk, id) ==
    /\ Loadable(id)
    /\ Importable(ring[id].exported)
    /\ Outcome(chunk.envelope, Import(ring[id].exported), Producer) = "Plaintext"

StreamNext ==
    \/ \E k \in Consumer : AddConsumer(k.secret) \/ StoreReadKey(k)
    \/ \E id \in {KeyId(k.secret) : k \in Consumer} :
           RemoveConsumer(id) \/ RevokeKey(id) \/ DeleteKey(id)
    \/ EncryptChunk

-------------------------------------------------------------------------------
(* Properties *)

\* A chunk is read with a key from the keyring exactly if the key belonged to a
\* consumer when the chunk was encrypted, however often that one had been added
\* and removed before, and has been stored since it was last revoked or deleted;
\* being removed later does not take earlier chunks back (pipeline.rs:31-62,
\* keyring.rs:59-116).
ReadersAreConsumersWithKeys ==
    \A i \in DOMAIN chunks, k \in Consumer :
        ReadsChunk(chunks[i], KeyId(k.secret)) <=> k.secret \in chunks[i].for \cap held

===============================================================================
