-------------------------------- MODULE KVStore --------------------------------
(***************************************************************************)
(* What a storage backend promises (the StorageBackend trait,              *)
(* rok-sdk/src/storage/mod.rs): a map from titles (scope and key) to       *)
(* contents.  A call takes effect at once, and last holds what the caller  *)
(* was told.                                                               *)
(***************************************************************************)
CONSTANTS
    Client,     \* the callers
    Title,      \* a scope with a key
    Content,    \* what is stored: envelope bytes
    None        \* no content, no title

VARIABLES
    store,      \* store[t]: the content at t, or None
    last        \* last[c]: the last call of c that returned, and its result

vars == <<store, last>>

Completed(op, title, result) == [op |-> op, title |-> title, result |-> result]

Init ==
    /\ store = [t \in Title |-> None]
    /\ last = [c \in Client |-> Completed("none", None, None)]

\* put
Put(c, t, v) ==
    /\ store' = [store EXCEPT ![t] = v]
    /\ last' = [last EXCEPT ![c] = Completed("put", t, "ok")]

\* get_by_key
Get(c, t) ==
    /\ last' = [last EXCEPT ![c] =
           Completed("get", t, IF store[t] = None THEN "error" ELSE store[t])]
    /\ UNCHANGED store

\* delete, by the id of an entry
Delete(c, t) ==
    /\ store[t] # None
    /\ store' = [store EXCEPT ![t] = None]
    /\ last' = [last EXCEPT ![c] = Completed("delete", t, "ok")]

\* delete, when the id is gone
DeleteNothing(c, t) ==
    /\ last' = [last EXCEPT ![c] = Completed("delete", t, "error")]
    /\ UNCHANGED store

Next ==
    \E c \in Client, t \in Title :
        \/ \E v \in Content : Put(c, t, v)
        \/ Get(c, t)
        \/ Delete(c, t)
        \/ DeleteNothing(c, t)

Spec == Init /\ [][Next]_vars

===============================================================================
