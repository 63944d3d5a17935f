---------------------------- MODULE FileverseProofs ----------------------------
(***************************************************************************)
(* Proofs about Fileverse, for any number of clients, titles, calls and    *)
(* faults: its inductive invariant, and what an acknowledged put means.    *)
(***************************************************************************)
EXTENDS Fileverse, FiniteSetTheorems, TLAPS

-------------------------------------------------------------------------------
(* The inductive invariant *)

\* An element of a sequence.
LEMMA ElementType ==
    ASSUME NEW S, NEW s \in Seq(S), NEW i \in DOMAIN s
    PROVE  s[i] \in S /\ i \in Nat
  OBVIOUS

\* There are no calls and no requests at the beginning (fileverse.rs:61-68).
LEMMA InitCallInv == Init => CallInv
  BY NoneAssumption
  DEF Init, CallInv, TypeOK, WritesStayInTheirTitle, RequestsMatch, SearchesMatch,
      Task, Completed, TaskRecord, CallRecord, RequestRecord

\* A search begins: put and get_by_key (fileverse.rs:120-125, 200-207).
LEMMA SearchBegins ==
    ASSUME CallInv, NEW c \in Client, NEW t \in Title,
           NEW op \in {"put", "get"}, NEW v \in Content \cup {None},
           op = "put" => v \in Content,
           Begin(c, "searching", Task(op, t, v)), NoFault, UNCHANGED <<docs, flight>>
    PROVE  CallInv'
  <1> USE DEF Begin, NoFault
  <1>1. TypeOK'
    BY DEF CallInv, TypeOK, Task, TaskRecord
  <1>2. WritesStayInTheirTitle'
    BY DEF CallInv, WritesStayInTheirTitle
  <1>3. RequestsMatch'
    <2> SUFFICES ASSUME NEW r \in flight
                 PROVE  /\ r.call <= calls'[r.client]
                        /\ pc'[r.client] = "searching" => r.call # calls'[r.client]
                        /\ Awaited(r)' =>
                              /\ r.title = task'[r.client].title
                              /\ r.content = task'[r.client].content
                              /\ r.kind = "delete" <=> task'[r.client].op = "delete"
      BY DEF RequestsMatch
    <2>1. r.client \in Client /\ r.call \in Nat /\ calls \in [Client -> Nat]
      BY DEF CallInv, TypeOK, RequestRecord
    <2>2. CASE r.client = c
      BY <2>1, <2>2 DEF CallInv, TypeOK, RequestsMatch, Awaited
    <2>3. CASE r.client # c
      BY <2>1, <2>3 DEF CallInv, TypeOK, RequestsMatch, Awaited
    <2> QED
      BY <2>2, <2>3
  <1>4. SearchesMatch'
    BY DEF CallInv, TypeOK, SearchesMatch, Task
  <1> QED
    BY <1>1, <1>2, <1>3, <1>4 DEF CallInv

\* The deletion of a document begins (fileverse.rs:266-284).
LEMMA DeleteBegins ==
    ASSUME CallInv, NEW c \in Client, NEW i \in DOMAIN docs, Delete(c, i)
    PROVE  CallInv'
  <1> DEFINE req == [client |-> c, call |-> calls[c] + 1, kind |-> "delete", id |-> i,
                     title |-> docs[i].title, content |-> None]
  <1>1. /\ docs[i].title \in Title /\ i \in Nat
        /\ calls \in [Client -> Nat]
    <2>1. docs \in Seq([title : Title, content : Content \cup {None}])
      BY DEF CallInv, TypeOK
    <2>2. docs[i] \in [title : Title, content : Content \cup {None}] /\ i \in Nat
      BY <2>1, ElementType
    <2> QED
      BY <2>2 DEF CallInv, TypeOK
  <1> USE DEF Delete, Begin, NoFault
  <1>2. TypeOK'
    <2>1. req \in RequestRecord
      BY <1>1 DEF RequestRecord
    <2>2. flight' \subseteq RequestRecord
      BY <2>1 DEF CallInv, TypeOK
    <2> QED
      BY <1>1, <2>2 DEF CallInv, TypeOK, Task, TaskRecord
  <1>3. WritesStayInTheirTitle'
    BY DEF CallInv, WritesStayInTheirTitle
  <1>4. RequestsMatch'
    <2> SUFFICES ASSUME NEW r \in flight'
                 PROVE  /\ r.call <= calls'[r.client]
                        /\ pc'[r.client] = "searching" => r.call # calls'[r.client]
                        /\ Awaited(r)' =>
                              /\ r.title = task'[r.client].title
                              /\ r.content = task'[r.client].content
                              /\ r.kind = "delete" <=> task'[r.client].op = "delete"
      BY DEF RequestsMatch
    <2>1. CASE r = req
      BY <1>1, <2>1 DEF CallInv, TypeOK, Task
    <2>2. CASE r \in flight
      <3>1. r.client \in Client /\ r.call \in Nat
        BY <2>2 DEF CallInv, TypeOK, RequestRecord
      <3>2. CASE r.client = c
        BY <1>1, <2>2, <3>1, <3>2 DEF CallInv, TypeOK, RequestsMatch, Awaited
      <3>3. CASE r.client # c
        BY <1>1, <2>2, <3>1, <3>3 DEF CallInv, TypeOK, RequestsMatch, Awaited
      <3> QED
        BY <3>2, <3>3
    <2> QED
      BY <2>1, <2>2
  <1>5. SearchesMatch'
    BY DEF CallInv, TypeOK, SearchesMatch
  <1> QED
    BY <1>2, <1>3, <1>4, <1>5 DEF CallInv

\* A put sends its second request (fileverse.rs:131-139, 160-167).
LEMMA PutSends ==
    ASSUME CallInv, NEW c \in Client, pc[c] = "searching", task[c].op = "put",
           NEW kind \in {"create", "update"}, NEW i \in Nat,
           kind = "update" => i \in Hits(task[c].title),
           Send(c, kind, i), faults' \in Nat
    PROVE  CallInv'
  <1> DEFINE req == Request(c, kind, i)
  <1> USE DEF Send
  <1>1. /\ task[c].title \in Title /\ task[c].content \in Content
        /\ calls[c] \in Nat
    BY DEF CallInv, TypeOK, SearchesMatch
  <1>2. TypeOK'
    <2>1. req \in RequestRecord
      BY <1>1 DEF Request, RequestRecord
    <2>2. flight' \subseteq RequestRecord
      BY <2>1 DEF CallInv, TypeOK
    <2> QED
      BY <2>2 DEF CallInv, TypeOK
  <1>3. WritesStayInTheirTitle'
    BY DEF CallInv, WritesStayInTheirTitle, Request, Hits
  <1>4. RequestsMatch'
    <2> SUFFICES ASSUME NEW r \in flight'
                 PROVE  /\ r.call <= calls[r.client]
                        /\ pc'[r.client] = "searching" => r.call # calls[r.client]
                        /\ Awaited(r)' =>
                              /\ r.title = task[r.client].title
                              /\ r.content = task[r.client].content
                              /\ r.kind = "delete" <=> task[r.client].op = "delete"
      BY DEF RequestsMatch
    <2>1. CASE r = req
      BY <1>1, <2>1 DEF CallInv, TypeOK, Request
    <2>2. CASE r \in flight
      <3>1. r.client \in Client /\ r.call \in Nat
        BY <2>2 DEF CallInv, TypeOK, RequestRecord
      <3>2. CASE r.client = c
        BY <1>1, <2>2, <3>1, <3>2 DEF CallInv, TypeOK, RequestsMatch, Awaited
      <3>3. CASE r.client # c
        BY <1>1, <2>2, <3>1, <3>3 DEF CallInv, TypeOK, RequestsMatch, Awaited
      <3> QED
        BY <3>2, <3>3
    <2> QED
      BY <2>1, <2>2
  <1>5. SearchesMatch'
    BY DEF CallInv, TypeOK, SearchesMatch
  <1> QED
    BY <1>2, <1>3, <1>4, <1>5 DEF CallInv

\* A call returns; the server's documents and the requests in flight may
\* change with it, as long as the requests left are among those before and
\* documents keep their titles (fileverse.rs:141-151, 168-176, 275-283).
LEMMA CallReturns ==
    ASSUME CallInv, NEW c \in Client, NEW result \in Content \cup {None, "ok", "error"},
           Return(c, result), flight' \subseteq flight, faults' \in Nat,
           docs' \in Seq([title : Title, content : Content \cup {None}]),
           \A i \in DOMAIN docs : i \in DOMAIN docs' /\ docs'[i].title = docs[i].title
    PROVE  CallInv'
  <1> USE DEF Return
  <1>1. TypeOK'
    BY DEF CallInv, TypeOK, Completed, TaskRecord, CallRecord
  <1>2. WritesStayInTheirTitle'
    BY DEF CallInv, WritesStayInTheirTitle
  <1>3. RequestsMatch'
    <2> SUFFICES ASSUME NEW r \in flight
                 PROVE  /\ r.call <= calls[r.client]
                        /\ pc'[r.client] = "searching" => r.call # calls[r.client]
                        /\ Awaited(r)' =>
                              /\ r.title = task[r.client].title
                              /\ r.content = task[r.client].content
                              /\ r.kind = "delete" <=> task[r.client].op = "delete"
      BY DEF RequestsMatch
    <2>1. r.client \in Client
      BY DEF CallInv, TypeOK, RequestRecord
    <2>2. CASE r.client = c
      BY <2>1, <2>2 DEF CallInv, TypeOK, RequestsMatch, Awaited
    <2>3. CASE r.client # c
      BY <2>1, <2>3 DEF CallInv, TypeOK, RequestsMatch, Awaited
    <2> QED
      BY <2>2, <2>3
  <1>4. SearchesMatch'
    BY DEF CallInv, TypeOK, SearchesMatch
  <1> QED
    BY <1>1, <1>2, <1>3, <1>4 DEF CallInv

\* A call returns without a change to the documents (fileverse.rs:70-72,
\* 217-226).
LEMMA CallReturnsUnchanged ==
    ASSUME CallInv, NEW c \in Client, NEW result \in Content \cup {None, "ok", "error"},
           Return(c, result), flight' \subseteq flight, faults' \in Nat, docs' = docs
    PROVE  CallInv'
  <1>1. docs' \in Seq([title : Title, content : Content \cup {None}])
    BY DEF CallInv, TypeOK
  <1>2. \A i \in DOMAIN docs : i \in DOMAIN docs' /\ docs'[i].title = docs[i].title
    OBVIOUS
  <1> QED
    BY <1>1, <1>2, CallReturns

\* The server takes a request out of flight and no client hears of it.
LEMMA RequestVanishes ==
    ASSUME CallInv, flight' \subseteq flight, faults' \in Nat,
           UNCHANGED <<pc, task, calls, last>>,
           docs' \in Seq([title : Title, content : Content \cup {None}]),
           \A i \in DOMAIN docs : i \in DOMAIN docs' /\ docs'[i].title = docs[i].title
    PROVE  CallInv'
  <1>1. TypeOK'
    BY DEF CallInv, TypeOK
  <1>2. WritesStayInTheirTitle'
    BY DEF CallInv, WritesStayInTheirTitle
  <1>3. RequestsMatch'
    BY DEF CallInv, RequestsMatch, Awaited
  <1>4. SearchesMatch'
    BY DEF CallInv, SearchesMatch
  <1> QED
    BY <1>1, <1>2, <1>3, <1>4 DEF CallInv

\* Whatever request the server carries out, documents stay documents, none
\* disappears and none changes its title.
LEMMA EffectKeepsTitles ==
    ASSUME CallInv, NEW r \in flight
    PROVE  /\ Effect(r) \in Seq([title : Title, content : Content \cup {None}])
           /\ \A i \in DOMAIN docs :
                 i \in DOMAIN Effect(r) /\ Effect(r)[i].title = docs[i].title
  <1> DEFINE D == [title : Title, content : Content \cup {None}]
  <1>1. docs \in Seq(D) /\ Document(r) \in D
    BY DEF CallInv, TypeOK, RequestRecord, Document
  <1>2. CASE ~Accepts(r)
    BY <1>1, <1>2 DEF Effect
  <1>3. CASE Accepts(r) /\ r.kind = "create"
    <2>1. Effect(r) = Append(docs, Document(r))
      BY <1>3 DEF Effect
    <2> QED
      BY <1>1, <2>1
  <1>4. CASE Accepts(r) /\ r.kind # "create"
    <2>1. Effect(r) = [docs EXCEPT ![r.id] = Document(r)]
      BY <1>4 DEF Effect
    <2>2. r.id \in DOMAIN docs /\ docs[r.id].title = Document(r).title
      BY <1>4 DEF CallInv, WritesStayInTheirTitle, Document
    <2> HIDE DEF D
    <2>3. Effect(r) \in Seq(D)
      BY <1>1, <2>1, <2>2
    <2> QED
      BY <1>1, <2>1, <2>2, <2>3 DEF D
  <1> QED
    BY <1>2, <1>3, <1>4

\* Every step preserves the invariant.
LEMMA NextCallInv ==
    ASSUME CallInv, [Next]_vars
    PROVE  CallInv'
  <1> USE DEF Fault, NoFault
  <1>0. /\ faults \in Nat
        /\ docs \in Seq([title : Title, content : Content \cup {None}])
        /\ \A i \in DOMAIN docs : docs[i] \in [title : Title, content : Content \cup {None}]
    <2>1. docs \in Seq([title : Title, content : Content \cup {None}]) /\ faults \in Nat
      BY DEF CallInv, TypeOK
    <2> QED
      BY <2>1, ElementType
  <1>1. ASSUME NEW c \in Client, NEW t \in Title, NEW v \in Content, Put(c, t, v)
        PROVE  CallInv'
    BY <1>1, SearchBegins DEF Put
  <1>2. ASSUME NEW c \in Client, NEW t \in Title, GetByKey(c, t)
        PROVE  CallInv'
    BY <1>2, SearchBegins DEF GetByKey
  <1>3. ASSUME NEW c \in Client, NEW i \in DOMAIN docs, Delete(c, i)
        PROVE  CallInv'
    BY <1>3, DeleteBegins
  <1>4. ASSUME NEW c \in Client, GetFinds(c)
        PROVE  CallInv'
    <2>1. PICK result \in Content \cup {None, "ok", "error"} : Return(c, result)
      BY <1>0, <1>4 DEF GetFinds, Hits
    <2> QED
      BY <1>0, <1>4, <2>1, CallReturnsUnchanged DEF GetFinds
  <1>5. ASSUME NEW c \in Client, PutUpdates(c)
        PROVE  CallInv'
    <2>1. PICK i \in Hits(task[c].title) : Send(c, "update", i)
      BY <1>5 DEF PutUpdates
    <2>2. i \in Nat
      BY <1>0 DEF Hits
    <2> QED
      BY <1>0, <1>5, <2>1, <2>2, PutSends DEF PutUpdates
  <1>6. ASSUME NEW c \in Client, PutCreates(c)
        PROVE  CallInv'
    BY <1>0, <1>6, PutSends DEF PutCreates
  <1>7. ASSUME NEW c \in Client, SearchFails(c)
        PROVE  CallInv'
    <2>1. CASE task[c].op = "get"
      <3>1. Return(c, "error") /\ flight' = flight /\ docs' = docs /\ faults' \in Nat
        BY <1>0, <1>7, <2>1 DEF SearchFails
      <3> QED
        BY <3>1, CallReturnsUnchanged
    <2>2. CASE task[c].op = "put"
      BY <1>0, <1>7, <2>2, PutSends DEF SearchFails
    <2> QED
      BY <1>7, <2>1, <2>2 DEF SearchFails
  <1>8. ASSUME NEW c \in Client, GiveUp(c)
        PROVE  CallInv'
    <2>1. Return(c, "error") /\ flight' = flight /\ docs' = docs /\ faults' \in Nat
      BY <1>0, <1>8 DEF GiveUp
    <2> QED
      BY <2>1, CallReturnsUnchanged
  <1>9. ASSUME NEW r \in flight, Serve(r)
        PROVE  CallInv'
    <2>1. r.client \in Client
      BY DEF CallInv, TypeOK, RequestRecord
    <2>2. CASE Awaited(r) /\ Return(r.client, IF Accepts(r) THEN "ok" ELSE "error") /\ NoFault
      <3>1. docs' = Effect(r) /\ flight' \subseteq flight /\ faults' \in Nat
        BY <1>0, <1>9, <2>2 DEF Serve
      <3>2. docs' \in Seq([title : Title, content : Content \cup {None}])
        BY <3>1, EffectKeepsTitles
      <3>3. \A i \in DOMAIN docs : i \in DOMAIN docs' /\ docs'[i].title = docs[i].title
        BY <3>1, EffectKeepsTitles
      <3>4. CASE Accepts(r)
        BY <2>1, <2>2, <3>1, <3>2, <3>3, <3>4, CallReturns
      <3>5. CASE ~Accepts(r)
        BY <2>1, <2>2, <3>1, <3>2, <3>3, <3>5, CallReturns
      <3> QED
        BY <3>4, <3>5
    <2>3. CASE Unheard(r)
      <3>1. docs' = Effect(r) /\ flight' \subseteq flight /\ faults' \in Nat
        BY <1>0, <1>9, <2>3 DEF Serve, Unheard
      <3>2. docs' \in Seq([title : Title, content : Content \cup {None}])
        BY <3>1, EffectKeepsTitles
      <3>3. \A i \in DOMAIN docs : i \in DOMAIN docs' /\ docs'[i].title = docs[i].title
        BY <3>1, EffectKeepsTitles
      <3> QED
        BY <2>3, <3>1, <3>2, <3>3, RequestVanishes DEF Unheard
    <2> QED
      BY <1>9, <2>2, <2>3 DEF Serve
  <1>10. ASSUME NEW r \in flight, Refuse(r)
         PROVE  CallInv'
    <2>1. r.client \in Client
      BY DEF CallInv, TypeOK, RequestRecord
    <2>2. CASE Awaited(r)
      <3>1. /\ Return(r.client, "error") /\ flight' \subseteq flight
            /\ docs' = docs /\ faults' \in Nat
        BY <1>0, <1>10, <2>2 DEF Refuse
      <3> QED
        BY <2>1, <3>1, CallReturnsUnchanged
    <2>3. CASE ~Awaited(r)
      BY <1>0, <1>10, <2>3, RequestVanishes DEF Refuse
    <2> QED
      BY <2>2, <2>3
  <1>11. CASE UNCHANGED vars
    BY <1>11, <1>0, RequestVanishes DEF vars
  <1> QED
    BY <1>1, <1>2, <1>3, <1>4, <1>5, <1>6, <1>7, <1>8, <1>9, <1>10, <1>11
    DEF Next, Finished

-------------------------------------------------------------------------------
(* Counting requests and documents *)

\* What one step does to the requests that nobody waits for: it leaves them,
\* takes some away, or adds one and is a fault (fileverse.rs:70-72).
AbandonedStep ==
    \/ Abandoned' \subseteq Abandoned /\ faults' \in {faults, faults + 1}
    \/ (\E r \in flight : Abandoned' \subseteq Abandoned \cup {r}) /\ faults' = faults + 1

\* A request of a call that is not waiting, or of an earlier call, is abandoned.
LEMMA AbandonedSteps ==
    ASSUME CallInv, OneRequestPerCall, [Next]_vars
    PROVE  AbandonedStep
  <1> USE DEF Fault, NoFault
  <1>0. /\ \A r \in flight : r.client \in Client /\ r.call \in Nat /\ r.call <= calls[r.client]
        /\ calls \in [Client -> Nat] /\ faults \in Nat
        /\ pc \in [Client -> {"idle", "searching", "waiting"}]
    BY DEF CallInv, TypeOK, RequestRecord, RequestsMatch
  <1>1. ASSUME NEW c \in Client, NEW w \in {"searching", "waiting"}, NEW k,
               Begin(c, w, k), NoFault,
               \A r \in flight' : r \in flight \/ (r.client = c /\ r.call = calls[c] + 1 /\ w = "waiting")
        PROVE  AbandonedStep
    <2> SUFFICES ASSUME NEW r \in Abandoned'
                 PROVE  r \in Abandoned
      BY <1>1 DEF AbandonedStep
    <2>1. r \in flight' /\ ~(pc'[r.client] = "waiting" /\ calls'[r.client] = r.call)
      BY DEF Abandoned, Awaited
    <2>2. CASE r \in flight
      BY <1>0, <1>1, <2>1, <2>2 DEF Abandoned, Awaited, Begin
    <2>3. CASE r \notin flight
      BY <1>0, <1>1, <2>1, <2>3 DEF Begin
    <2> QED
      BY <2>2, <2>3
  <1>2. ASSUME NEW c \in Client, NEW t \in Title, NEW v \in Content, Put(c, t, v)
        PROVE  AbandonedStep
    BY <1>1, <1>2 DEF Put
  <1>3. ASSUME NEW c \in Client, NEW t \in Title, GetByKey(c, t)
        PROVE  AbandonedStep
    BY <1>1, <1>3 DEF GetByKey
  <1>4. ASSUME NEW c \in Client, NEW i \in DOMAIN docs, Delete(c, i)
        PROVE  AbandonedStep
    <2>1. Begin(c, "waiting", Task("delete", docs[i].title, None)) /\ NoFault
      BY <1>4 DEF Delete
    <2>2. \A r \in flight' : r \in flight \/ (r.client = c /\ r.call = calls[c] + 1)
      BY <1>4 DEF Delete
    <2> QED
      BY <1>1, <2>1, <2>2
  <1>5. ASSUME NEW c \in Client, NEW kind, NEW i, pc[c] = "searching", Send(c, kind, i),
               faults' \in {faults, faults + 1}
        PROVE  AbandonedStep
    <2> SUFFICES ASSUME NEW r \in Abandoned'
                 PROVE  r \in Abandoned
      BY <1>5 DEF AbandonedStep
    <2>1. r \in flight' /\ ~(pc'[r.client] = "waiting" /\ calls'[r.client] = r.call)
      BY DEF Abandoned, Awaited
    <2>2. CASE r \in flight
      BY <1>0, <1>5, <2>1, <2>2 DEF Abandoned, Awaited, Send
    <2>3. CASE r = Request(c, kind, i)
      BY <1>0, <1>5, <2>1, <2>3 DEF Send, Request
    <2> QED
      BY <1>5, <2>1, <2>2, <2>3 DEF Send
  <1>6. ASSUME NEW c \in Client, NEW result, Return(c, result), flight' \subseteq flight,
               faults' \in {faults, faults + 1},
               \A r \in flight' : r.client = c => ~Awaited(r)
        PROVE  AbandonedStep
    BY <1>0, <1>6 DEF AbandonedStep, Abandoned, Awaited, Return
  <1>7. ASSUME NEW c \in Client, GetFinds(c)
        PROVE  AbandonedStep
    <2>1. PICK result : Return(c, result)
      BY <1>7 DEF GetFinds
    <2> QED
      BY <1>6, <1>7, <2>1 DEF GetFinds, Awaited
  <1>8. ASSUME NEW c \in Client, PutUpdates(c)
        PROVE  AbandonedStep
    BY <1>5, <1>8 DEF PutUpdates
  <1>9. ASSUME NEW c \in Client, PutCreates(c)
        PROVE  AbandonedStep
    BY <1>5, <1>9 DEF PutCreates
  <1>10. ASSUME NEW c \in Client, SearchFails(c)
         PROVE  AbandonedStep
    <2>1. CASE Return(c, "error") /\ UNCHANGED <<docs, flight>>
      BY <1>6, <1>10, <2>1 DEF SearchFails, Awaited
    <2>2. CASE Send(c, "create", 0)
      BY <1>5, <1>10, <2>2 DEF SearchFails
    <2> QED
      BY <1>10, <2>1, <2>2 DEF SearchFails
  <1>11. ASSUME NEW c \in Client, GiveUp(c)
         PROVE  AbandonedStep
    <2>1. Return(c, "error") /\ flight' = flight
      BY <1>11 DEF GiveUp
    <2>2. CASE Pending(c)
      <3>1. PICK q \in flight : q.client = c /\ Awaited(q)
        BY <2>2 DEF Pending
      <3>2. Abandoned' \subseteq Abandoned \cup {q}
        <4> SUFFICES ASSUME NEW r \in flight, r \notin Abandoned, r.client = c
                     PROVE  r = q
          BY <1>0, <2>1 DEF Abandoned, Awaited, Return
        <4> QED
          BY <3>1 DEF Abandoned, Awaited, OneRequestPerCall
      <3> QED
        BY <1>11, <2>2, <3>2 DEF GiveUp, AbandonedStep
    <2>3. CASE ~Pending(c)
      BY <1>6, <1>11, <2>1, <2>3 DEF GiveUp, Pending
    <2> QED
      BY <2>2, <2>3
  <1>12. ASSUME NEW r \in flight, flight' = flight \ {r}, UNCHANGED <<pc, calls>>,
                faults' \in {faults, faults + 1}
         PROVE  AbandonedStep
    BY <1>12 DEF AbandonedStep, Abandoned, Awaited
  <1>13. ASSUME NEW r \in flight, NEW result, Awaited(r), Return(r.client, result),
                flight' = flight \ {r}, faults' \in {faults, faults + 1}
         PROVE  AbandonedStep
    <2>1. \A q \in flight' : q.client = r.client => ~Awaited(q)
      BY <1>13 DEF Awaited, OneRequestPerCall
    <2> QED
      BY <1>0, <1>6, <1>13, <2>1
  <1>14. ASSUME NEW r \in flight, Serve(r)
         PROVE  AbandonedStep
    <2>1. CASE Unheard(r)
      BY <1>12, <1>14, <2>1 DEF Serve, Unheard
    <2>2. CASE Awaited(r) /\ Return(r.client, IF Accepts(r) THEN "ok" ELSE "error") /\ NoFault
      BY <1>13, <1>14, <2>2 DEF Serve
    <2> QED
      BY <1>14, <2>1, <2>2 DEF Serve
  <1>15. ASSUME NEW r \in flight, Refuse(r)
         PROVE  AbandonedStep
    <2>1. CASE Awaited(r)
      BY <1>13, <1>15, <2>1 DEF Refuse
    <2>2. CASE ~Awaited(r)
      BY <1>12, <1>15, <2>2 DEF Refuse
    <2> QED
      BY <2>1, <2>2
  <1>16. CASE UNCHANGED vars
    BY <1>16 DEF vars, AbandonedStep, Abandoned, Awaited
  <1> QED
    BY <1>2, <1>3, <1>4, <1>7, <1>8, <1>9, <1>10, <1>11, <1>14, <1>15, <1>16
    DEF Next, Finished

\* Requests in flight stay finitely many, and a call sends only one
\* (fileverse.rs:131-139, 160-167, 266-273).
LEMMA NextRequests ==
    ASSUME CallInv, OneRequestPerCall, IsFiniteSet(flight), [Next]_vars
    PROVE  OneRequestPerCall' /\ IsFiniteSet(flight')
  <1>0. /\ \A r \in flight : r.client \in Client /\ r.call \in Nat /\ r.call <= calls[r.client]
        /\ calls \in [Client -> Nat]
    BY DEF CallInv, TypeOK, RequestRecord, RequestsMatch
  <1>1. ASSUME flight' \subseteq flight
        PROVE  OneRequestPerCall' /\ IsFiniteSet(flight')
    BY <1>1, FS_Subset DEF OneRequestPerCall
  <1>2. ASSUME NEW q, flight' = flight \cup {q},
               \A r \in flight : r.client = q.client => r.call # q.call
        PROVE  OneRequestPerCall' /\ IsFiniteSet(flight')
    BY <1>2, FS_AddElement DEF OneRequestPerCall
  <1>3. ASSUME NEW c \in Client, NEW i \in DOMAIN docs, Delete(c, i)
        PROVE  OneRequestPerCall' /\ IsFiniteSet(flight')
    <2> DEFINE q == [client |-> c, call |-> calls[c] + 1, kind |-> "delete", id |-> i,
                     title |-> docs[i].title, content |-> None]
    <2>1. flight' = flight \cup {q}
      BY <1>3 DEF Delete
    <2>2. \A r \in flight : r.client = q.client => r.call # q.call
      BY <1>0
    <2> HIDE DEF q
    <2> QED
      BY <1>2, <2>1, <2>2
  <1>4. ASSUME NEW c \in Client, NEW kind, NEW i, pc[c] = "searching", Send(c, kind, i)
        PROVE  OneRequestPerCall' /\ IsFiniteSet(flight')
    <2> DEFINE q == Request(c, kind, i)
    <2>1. flight' = flight \cup {q}
      BY <1>4 DEF Send
    <2>2. \A r \in flight : r.client = q.client => r.call # q.call
      BY <1>4 DEF CallInv, RequestsMatch, Request
    <2> HIDE DEF q
    <2> QED
      BY <1>2, <2>1, <2>2
  <1>5. \/ flight' \subseteq flight
        \/ \E c \in Client : \E i \in DOMAIN docs : Delete(c, i)
        \/ \E c \in Client : pc[c] = "searching" /\ \E kind, i : Send(c, kind, i)
    BY DEF Next, Finished, vars, Put, GetByKey, GetFinds, PutUpdates, PutCreates,
           SearchFails, GiveUp, Serve, Refuse
  <1> QED
    BY <1>1, <1>3, <1>4, <1>5

\* Requests that nobody waits for are at most as many as the faults
\* (fileverse.rs:70-72).
LEMMA NextLateRequests ==
    ASSUME CallInv, OneRequestPerCall, LateRequestsAreFaults, [Next]_vars
    PROVE  LateRequestsAreFaults'
  <1>1. IsFiniteSet(flight) /\ IsFiniteSet(flight')
    BY NextRequests DEF LateRequestsAreFaults
  <1>2. /\ IsFiniteSet(Abandoned) /\ Cardinality(Abandoned) \in Nat
        /\ Cardinality(Abandoned) <= faults /\ faults \in Nat
    BY <1>1, FS_Subset, FS_CardinalityType
    DEF LateRequestsAreFaults, Abandoned, CallInv, TypeOK
  <1>3. AbandonedStep
    BY AbandonedSteps
  <1>4. CASE Abandoned' \subseteq Abandoned /\ faults' \in {faults, faults + 1}
    <2>1. Cardinality(Abandoned') \in Nat /\ Cardinality(Abandoned') <= Cardinality(Abandoned)
      BY <1>2, <1>4, FS_Subset, FS_CardinalityType
    <2> QED
      BY <1>1, <1>2, <1>4, <2>1 DEF LateRequestsAreFaults
  <1>5. ASSUME NEW r \in flight, Abandoned' \subseteq Abandoned \cup {r}, faults' = faults + 1
        PROVE  LateRequestsAreFaults'
    <2>1. /\ IsFiniteSet(Abandoned \cup {r}) /\ Cardinality(Abandoned \cup {r}) \in Nat
          /\ Cardinality(Abandoned \cup {r}) <= Cardinality(Abandoned) + 1
      <3> DEFINE A == Abandoned
      <3>1. IsFiniteSet(A) /\ Cardinality(A) \in Nat
        BY <1>2
      <3> HIDE DEF A
      <3>2. /\ IsFiniteSet(A \cup {r})
            /\ Cardinality(A \cup {r}) =
                 IF r \in A THEN Cardinality(A) ELSE Cardinality(A) + 1
        BY <3>1, FS_AddElement
      <3>3. /\ IsFiniteSet(A \cup {r}) /\ Cardinality(A \cup {r}) \in Nat
            /\ Cardinality(A \cup {r}) <= Cardinality(A) + 1
        BY <3>1, <3>2
      <3> QED
        BY <3>3 DEF A
    <2>2. Cardinality(Abandoned') \in Nat
          /\ Cardinality(Abandoned') <= Cardinality(Abandoned \cup {r})
      BY <1>5, <2>1, FS_Subset, FS_CardinalityType
    <2> QED
      BY <1>1, <1>2, <1>5, <2>1, <2>2 DEF LateRequestsAreFaults
  <1> QED
    BY <1>3, <1>4, <1>5 DEF AbandonedStep

\* While a client searches, no more creations are in flight than the other
\* clients wait for or were given up (fileverse.rs:125, 160-167).
LEMMA CreationsBounded ==
    ASSUME CallInv, OneRequestPerCall, LateRequestsAreFaults,
           NEW c \in Client, pc[c] = "searching", NEW t \in Title
    PROVE  /\ IsFiniteSet(Creates(t))
           /\ Cardinality(Creates(t)) + 1 <= Cardinality(Client) + faults
  <1> DEFINE W == {r \in Creates(t) : Awaited(r)}
             Others == Client \ {c}
             f == [r \in W |-> r.client]
  <1>1. /\ IsFiniteSet(Abandoned) /\ Cardinality(Abandoned) \in Nat
        /\ Cardinality(Abandoned) <= faults /\ faults \in Nat
    BY FS_Subset, FS_CardinalityType DEF LateRequestsAreFaults, Abandoned, CallInv, TypeOK
  <1>2. /\ IsFiniteSet(Others) /\ Cardinality(Others) = Cardinality(Client) - 1
        /\ Cardinality(Client) \in Nat /\ Cardinality(Others) \in Nat
    BY ClientAssumption, FS_RemoveElement, FS_CardinalityType
  <1>3. f \in Injection(W, Others)
    <2>1. f \in [W -> Others]
      BY DEF CallInv, TypeOK, RequestRecord, Creates, Awaited
    <2>2. ASSUME NEW r \in W, NEW q \in W, f[r] = f[q]
          PROVE  r = q
      BY <2>2 DEF Creates, Awaited, OneRequestPerCall
    <2> QED
      BY <2>1, <2>2 DEF Injection, IsInjective
  <1> HIDE DEF f, Others
  <1>4. IsFiniteSet(W) /\ Cardinality(W) \in Nat /\ Cardinality(W) <= Cardinality(Others)
    BY <1>2, <1>3, FS_Injection, FS_CardinalityType
  <1>5. /\ IsFiniteSet(W \cup Abandoned)
        /\ Cardinality(W \cup Abandoned) \in Nat
        /\ Cardinality(W \cup Abandoned) <= Cardinality(W) + Cardinality(Abandoned)
    <2>1. Cardinality(W \cap Abandoned) \in Nat
      BY <1>1, FS_Intersection, FS_CardinalityType
    <2> HIDE DEF W
    <2>2. /\ IsFiniteSet(W \cup Abandoned)
          /\ Cardinality(W \cup Abandoned) =
               Cardinality(W) + Cardinality(Abandoned) - Cardinality(W \cap Abandoned)
      BY <1>1, <1>4, FS_Union
    <2>3. Cardinality(W \cup Abandoned) \in Nat
      BY <2>2, FS_CardinalityType
    <2> QED
      BY <1>1, <1>4, <2>1, <2>2, <2>3
  <1>6. Creates(t) \subseteq W \cup Abandoned
    BY DEF Creates, Abandoned
  <1>7. /\ IsFiniteSet(Creates(t)) /\ Cardinality(Creates(t)) \in Nat
        /\ Cardinality(Creates(t)) <= Cardinality(W \cup Abandoned)
    BY <1>5, <1>6, FS_Subset, FS_CardinalityType
  <1> QED
    BY <1>1, <1>2, <1>4, <1>5, <1>7

\* Cardinalities of a subset, and of a set with at most one more element.
LEMMA AtMostOneMore ==
    ASSUME NEW S, NEW T, NEW x, IsFiniteSet(S)
    PROVE  /\ Cardinality(S) \in Nat
           /\ T \subseteq S => IsFiniteSet(T) /\ Cardinality(T) \in Nat
                               /\ Cardinality(T) <= Cardinality(S)
           /\ T \subseteq S \cup {x} => IsFiniteSet(T) /\ Cardinality(T) \in Nat
                                        /\ Cardinality(T) <= Cardinality(S) + 1
  <1>1. Cardinality(S) \in Nat
    BY FS_CardinalityType
  <1>2. T \subseteq S => IsFiniteSet(T) /\ Cardinality(T) \in Nat
                         /\ Cardinality(T) <= Cardinality(S)
    BY FS_Subset, FS_CardinalityType
  <1>3. ASSUME T \subseteq S \cup {x}
        PROVE  IsFiniteSet(T) /\ Cardinality(T) \in Nat
               /\ Cardinality(T) <= Cardinality(S) + 1
    <2> DEFINE U == S \cup {x}
    <2>1. /\ IsFiniteSet(U)
          /\ Cardinality(U) = IF x \in S THEN Cardinality(S) ELSE Cardinality(S) + 1
      BY FS_AddElement
    <2> HIDE DEF U
    <2>2. IsFiniteSet(T) /\ Cardinality(T) <= Cardinality(U)
      BY <1>3, <2>1, FS_Subset DEF U
    <2>3. Cardinality(T) \in Nat
      BY <2>2, FS_CardinalityType
    <2> QED
      BY <1>1, <2>1, <2>2, <2>3
  <1> QED
    BY <1>1, <1>2, <1>3

\* Finitely many documents have a title.
LEMMA HitsFinite ==
    ASSUME CallInv, NEW t
    PROVE  IsFiniteSet(Hits(t)) /\ DOMAIN docs = 1..Len(docs) /\ Len(docs) \in Nat
  <1>1. docs \in Seq([title : Title, content : Content \cup {None}])
    BY DEF CallInv, TypeOK
  <1>2. DOMAIN docs = 1..Len(docs) /\ Len(docs) \in Nat
    BY <1>1
  <1>3. IsFiniteSet(1..Len(docs))
    BY <1>2, FS_Interval
  <1> QED
    BY <1>2, <1>3, FS_Subset DEF Hits

\* What the server does to the documents with a title: it adds one when it
\* carries out a creation for that title, and otherwise none
\* (fileverse.rs:131-139, 160-167, 266-273).
LEMMA ServedHits ==
    ASSUME CallInv, NEW t \in Title, NEW r \in flight, Serve(r)
    PROVE  /\ Hits(t)' \subseteq Hits(t) \cup {Len(docs) + 1}
           /\ r \notin Creates(t) => Hits(t)' \subseteq Hits(t)
  <1>1. docs \in Seq([title : Title, content : Content \cup {None}]) /\ docs' = Effect(r)
    BY DEF CallInv, TypeOK, Serve
  <1>2. CASE ~Accepts(r)
    BY <1>1, <1>2 DEF Effect, Hits, Live
  <1>3. CASE r.kind = "create"
    <2>1. docs' = Append(docs, Document(r))
      BY <1>1, <1>3 DEF Effect, Accepts
    <2>2. /\ DOMAIN docs' = 1..(Len(docs) + 1) /\ DOMAIN docs = 1..Len(docs)
          /\ Len(docs) \in Nat
          /\ \A i \in 1..Len(docs) : docs'[i] = docs[i]
          /\ docs'[Len(docs) + 1] = Document(r)
      BY <1>1, <2>1
    <2>3. Hits(t)' \subseteq Hits(t) \cup {Len(docs) + 1}
      BY <2>2 DEF Hits, Live
    <2>4. ASSUME r \notin Creates(t)
          PROVE  Hits(t)' \subseteq Hits(t)
      <3>1. Document(r).title # t
        BY <1>3, <2>4 DEF Creates, Document
      <3> QED
        BY <2>2, <3>1 DEF Hits, Live
    <2> QED
      BY <2>3, <2>4
  <1>4. CASE Accepts(r) /\ r.kind # "create"
    <2>1. docs' = [docs EXCEPT ![r.id] = Document(r)]
      BY <1>1, <1>4 DEF Effect
    <2>2. Live(r.id) /\ r.id \in DOMAIN docs /\ docs[r.id].title = Document(r).title
      BY <1>4 DEF Accepts, CallInv, WritesStayInTheirTitle, Document
    <2>3. DOMAIN docs' = DOMAIN docs
      BY <2>1
    <2>4. \A i \in DOMAIN docs : docs'[i] = IF i = r.id THEN Document(r) ELSE docs[i]
      BY <2>1
    <2> QED
      BY <2>2, <2>3, <2>4 DEF Hits, Live
  <1> QED
    BY <1>2, <1>3, <1>4

\* Duplicates stay within their bound (fileverse.rs:124-171).
LEMMA NextDuplicates ==
    ASSUME IInv, [Next]_vars, NEW t \in Title
    PROVE  Cardinality(Hits(t)') + Cardinality(Creates(t)')
             <= Cardinality(Client) + faults'
  <1> USE DEF Fault, NoFault
  <1>0. /\ CallInv /\ faults \in Nat /\ Cardinality(Client) \in Nat
        /\ IsFiniteSet(Hits(t)) /\ Cardinality(Hits(t)) \in Nat
        /\ IsFiniteSet(Creates(t)) /\ Cardinality(Creates(t)) \in Nat
        /\ Cardinality(Hits(t)) + Cardinality(Creates(t)) <= Cardinality(Client) + faults
    <2>1. CallInv /\ faults \in Nat /\ Cardinality(Client) \in Nat
      BY ClientAssumption, FS_CardinalityType DEF IInv, CallInv, TypeOK
    <2>2. IsFiniteSet(Hits(t)) /\ Cardinality(Hits(t)) \in Nat
      BY <2>1, HitsFinite, FS_CardinalityType
    <2>3. IsFiniteSet(Creates(t)) /\ Cardinality(Creates(t)) \in Nat
      BY FS_Subset, FS_CardinalityType DEF IInv, LateRequestsAreFaults, Creates
    <2> QED
      BY <2>1, <2>2, <2>3 DEF IInv, DuplicatesBounded
  <1>1. ASSUME Hits(t)' \subseteq Hits(t), Creates(t)' \subseteq Creates(t),
               faults' \in {faults, faults + 1}
        PROVE  Cardinality(Hits(t)') + Cardinality(Creates(t)')
                 <= Cardinality(Client) + faults'
    <2>1. Cardinality(Hits(t)') \in Nat /\ Cardinality(Hits(t)') <= Cardinality(Hits(t))
      BY <1>0, <1>1, AtMostOneMore
    <2>2. /\ Cardinality(Creates(t)') \in Nat
          /\ Cardinality(Creates(t)') <= Cardinality(Creates(t))
      BY <1>0, <1>1, AtMostOneMore
    <2> QED
      BY <1>0, <1>1, <2>1, <2>2
  <1>2. ASSUME NEW c \in Client, NEW kind, NEW i, Send(c, kind, i)
        PROVE  /\ Hits(t)' = Hits(t)
               /\ Creates(t)' \subseteq Creates(t) \cup {Request(c, kind, i)}
               /\ kind # "create" \/ task[c].title # t => Creates(t)' \subseteq Creates(t)
    BY <1>2 DEF Send, Request, Hits, Live, Creates
  <1>3. ASSUME NEW c \in Client, PutUpdates(c)
        PROVE  Cardinality(Hits(t)') + Cardinality(Creates(t)')
                 <= Cardinality(Client) + faults'
    BY <1>0, <1>1, <1>2, <1>3 DEF PutUpdates
  <1>4. ASSUME NEW c \in Client, PutCreates(c)
        PROVE  Cardinality(Hits(t)') + Cardinality(Creates(t)')
                 <= Cardinality(Client) + faults'
    <2>1. Send(c, "create", 0) /\ faults' = faults
      BY <1>4 DEF PutCreates
    <2>2. CASE task[c].title # t
      BY <1>0, <1>1, <1>2, <2>1, <2>2
    <2>3. CASE task[c].title = t
      <3>1. Hits(t)' = {}
        BY <1>2, <1>4, <2>1, <2>3 DEF PutCreates
      <3>2. /\ IsFiniteSet(Creates(t)) /\ Cardinality(Creates(t)) \in Nat
            /\ Cardinality(Creates(t)) + 1 <= Cardinality(Client) + faults
        BY <1>0, <1>4, CreationsBounded DEF IInv, PutCreates
      <3>3. /\ Cardinality(Creates(t)') \in Nat
            /\ Cardinality(Creates(t)') <= Cardinality(Creates(t)) + 1
        BY <1>2, <2>1, <3>2, AtMostOneMore
      <3> QED
        BY <1>0, <2>1, <3>1, <3>2, <3>3, FS_EmptySet
    <2> QED
      BY <2>2, <2>3
  <1>5. ASSUME NEW c \in Client, SearchFails(c)
        PROVE  Cardinality(Hits(t)') + Cardinality(Creates(t)')
                 <= Cardinality(Client) + faults'
    <2>1. CASE UNCHANGED <<docs, flight>>
      BY <1>0, <1>1, <1>5, <2>1 DEF SearchFails, Hits, Live, Creates
    <2>2. CASE Send(c, "create", 0)
      <3>1. Hits(t)' = Hits(t) /\ faults' = faults + 1
        BY <1>2, <1>5, <2>2 DEF SearchFails
      <3>2. /\ Cardinality(Creates(t)') \in Nat
            /\ Cardinality(Creates(t)') <= Cardinality(Creates(t)) + 1
        BY <1>0, <1>2, <2>2, AtMostOneMore
      <3> QED
        BY <1>0, <3>1, <3>2
    <2> QED
      BY <1>5, <2>1, <2>2 DEF SearchFails
  <1>6. ASSUME NEW r \in flight, Serve(r)
        PROVE  Cardinality(Hits(t)') + Cardinality(Creates(t)')
                 <= Cardinality(Client) + faults'
    <2>1. flight' = flight \ {r} /\ faults' \in {faults, faults + 1}
      BY <1>6 DEF Serve, Unheard
    <2>2. Creates(t)' = Creates(t) \ {r}
      BY <2>1 DEF Creates
    <2>3. CASE r \notin Creates(t)
      BY <1>0, <1>1, <1>6, <2>1, <2>2, <2>3, ServedHits
    <2>4. CASE r \in Creates(t)
      <3>1. Hits(t)' \subseteq Hits(t) \cup {Len(docs) + 1}
        BY <1>0, <1>6, ServedHits
      <3>2. Cardinality(Hits(t)') \in Nat /\ Cardinality(Hits(t)') <= Cardinality(Hits(t)) + 1
        BY <1>0, <3>1, AtMostOneMore
      <3>3. Cardinality(Creates(t)') = Cardinality(Creates(t)) - 1
        BY <1>0, <2>2, <2>4, FS_RemoveElement
      <3> QED
        BY <1>0, <2>1, <3>2, <3>3
    <2> QED
      BY <2>3, <2>4
  <1>7. CASE /\ docs' = docs /\ flight' \subseteq flight
             /\ faults' \in {faults, faults + 1}
    BY <1>1, <1>7 DEF Hits, Live, Creates
  <1>8. ASSUME NEW c \in Client, NEW i \in DOMAIN docs, Delete(c, i)
        PROVE  Cardinality(Hits(t)') + Cardinality(Creates(t)')
                 <= Cardinality(Client) + faults'
    <2>1. /\ docs' = docs /\ faults' = faults
          /\ \A r \in flight' : r \in flight \/ r.kind = "delete"
      BY <1>8 DEF Delete
    <2> QED
      BY <1>0, <1>1, <2>1 DEF Hits, Live, Creates
  <1> QED
    BY <1>0, <1>3, <1>4, <1>5, <1>6, <1>7, <1>8
    DEF Next, Finished, vars, Put, GetByKey, GetFinds, GiveUp, Refuse

\* There is nothing to count at the beginning.
LEMMA InitInvariant ==
    ASSUME Init
    PROVE  IInv
  <1>1. CallInv /\ flight = {} /\ docs = <<>> /\ faults = 0
    BY InitCallInv DEF Init
  <1>2. OneRequestPerCall
    BY <1>1 DEF OneRequestPerCall
  <1>3. LateRequestsAreFaults
    BY <1>1, FS_EmptySet DEF LateRequestsAreFaults, Abandoned
  <1>4. DuplicatesBounded
    <2>1. \A t \in Title : Hits(t) = {} /\ Creates(t) = {}
      BY <1>1 DEF Hits, Creates
    <2>2. Cardinality(Client) \in Nat /\ Cardinality({}) = 0
      BY ClientAssumption, FS_CardinalityType, FS_EmptySet
    <2>3. ASSUME NEW t \in Title
          PROVE  Cardinality(Hits(t)) = 0 /\ Cardinality(Creates(t)) = 0
      BY <2>1, <2>2
    <2> HIDE DEF Hits, Creates
    <2> QED
      BY <1>1, <2>2, <2>3 DEF DuplicatesBounded
  <1> QED
    BY <1>1, <1>2, <1>3, <1>4 DEF IInv

\* Every step preserves the inductive invariant.
LEMMA NextInvariant ==
    ASSUME IInv, [Next]_vars
    PROVE  IInv'
  <1>1. CallInv'
    BY NextCallInv DEF IInv
  <1>2. OneRequestPerCall'
    BY NextRequests DEF IInv, LateRequestsAreFaults
  <1>3. LateRequestsAreFaults'
    BY NextLateRequests DEF IInv
  <1>4. DuplicatesBounded'
    BY NextDuplicates DEF DuplicatesBounded
  <1> QED
    BY <1>1, <1>2, <1>3, <1>4 DEF IInv

\* The inductive invariant holds throughout (fileverse.rs:120-284).
THEOREM Invariance == Spec => []IInv
  <1>1. Init => IInv
    BY InitInvariant
  <1>2. IInv /\ [Next]_vars => IInv'
    BY NextInvariant
  <1> QED
    BY <1>1, <1>2, PTL DEF Spec

\* Types (fileverse.rs:15-56).
THEOREM TypeCorrect == Spec => []TypeOK
  BY Invariance, PTL DEF IInv, CallInv

\* No request in flight can overwrite a document of another title, however
\* late it comes (fileverse.rs:120-177, 217-222).
THEOREM TitlesAreKept == Spec => []WritesStayInTheirTitle
  BY Invariance, PTL DEF IInv, CallInv

\* A title has at most one document for each client and each fault
\* (fileverse.rs:124-171).
THEOREM DuplicatesAreRare == Spec => []DuplicatesBounded
  BY Invariance, PTL DEF IInv

-------------------------------------------------------------------------------
(* What an acknowledgement means *)

\* An acknowledged put is stored, in a live document of its title, even if the
\* document it found was changed or deleted meanwhile (fileverse.rs:125-176).
THEOREM PutsAreStored == Spec => AckedMeansStored
  <1> DEFINE Stored(c) == \E i \in DOMAIN docs' :
                 docs'[i] = [title |-> task[c].title, content |-> task[c].content]
             Returned(c) == /\ last'[c] # last[c] \/ (pc[c] # "idle" /\ pc'[c] = "idle")
                            /\ last'[c].op = "put" /\ last'[c].result = "ok"
  <1>1. ASSUME CallInv, [Next]_vars, NEW c \in Client, Returned(c)
        PROVE  Stored(c)
    <2>0. /\ last \in [Client -> CallRecord] /\ pc \in [Client -> {"idle", "searching", "waiting"}]
          /\ docs \in Seq([title : Title, content : Content \cup {None}])
      BY <1>1 DEF CallInv, TypeOK
    <2>1. \/ \E r \in flight : r.client = c /\ Serve(r) /\ Awaited(r) /\ Accepts(r)
                              /\ Return(c, "ok")
          \/ task[c].op = "get" /\ \E result : Return(c, result)
          \/ Return(c, "error")
      <3>1. pc'[c] # pc[c] \/ last'[c] # last[c]
        BY <1>1
      <3>2. ASSUME NEW d \in Client, d # c, NEW result, Return(d, result)
            PROVE  FALSE
        BY <2>0, <3>1, <3>2 DEF Return
      <3>3. ASSUME NEW d \in Client, NEW w \in {"searching", "waiting"}, NEW k, Begin(d, w, k)
            PROVE  FALSE
        BY <1>1, <2>0, <3>3 DEF Begin
      <3>4. ASSUME NEW d \in Client, NEW kind, NEW i, Send(d, kind, i)
            PROVE  FALSE
        BY <1>1, <2>0, <3>4 DEF Send
      <3>5. ASSUME NEW d \in Client, GetFinds(d)
            PROVE  task[c].op = "get" /\ \E result : Return(c, result)
        BY <3>2, <3>5 DEF GetFinds
      <3>6. ASSUME NEW r \in flight, Serve(r)
            PROVE  \/ r.client = c /\ Awaited(r) /\ Accepts(r) /\ Return(c, "ok")
                   \/ Return(c, "error")
        <4>1. r.client \in Client
          BY <1>1 DEF CallInv, TypeOK, RequestRecord
        <4>2. ~Unheard(r)
          BY <3>1 DEF Unheard
        <4> QED
          BY <3>2, <3>6, <4>1, <4>2 DEF Serve
      <3>7. ASSUME NEW r \in flight, Refuse(r)
            PROVE  Return(c, "error")
        <4>1. r.client \in Client
          BY <1>1 DEF CallInv, TypeOK, RequestRecord
        <4> QED
          BY <3>1, <3>2, <3>7, <4>1 DEF Refuse
      <3>8. ASSUME NEW d \in Client, GiveUp(d)
            PROVE  Return(c, "error")
        BY <3>2, <3>8 DEF GiveUp
      <3>9. ASSUME NEW d \in Client, SearchFails(d)
            PROVE  Return(c, "error")
        BY <3>2, <3>4, <3>9 DEF SearchFails
      <3> QED
        BY <1>1, <3>1, <3>3, <3>4, <3>5, <3>6, <3>7, <3>8, <3>9
        DEF Next, Finished, vars, Put, GetByKey, Delete, PutUpdates, PutCreates
    <2>2. ASSUME NEW result, Return(c, result)
          PROVE  last'[c].op = task[c].op /\ last'[c].result = result
      BY <2>0, <2>2 DEF Return, Completed
    <2>3. PICK r \in flight : /\ r.client = c /\ Serve(r) /\ Awaited(r) /\ Accepts(r)
                             /\ Return(c, "ok")
      BY <1>1, <2>1, <2>2
    <2>4. task[c].op = "put"
      BY <1>1, <2>2, <2>3
    <2>5. /\ r.title = task[c].title /\ r.content = task[c].content
          /\ r.kind \in {"create", "update"}
      BY <1>1, <2>3, <2>4 DEF CallInv, TypeOK, RequestRecord, RequestsMatch
    <2>6. Document(r) = [title |-> task[c].title, content |-> task[c].content]
      BY <2>5 DEF Document
    <2>7. CASE r.kind = "create"
      <3>1. docs' = Append(docs, Document(r))
        BY <2>3, <2>7 DEF Serve, Effect
      <3>2. Len(docs) + 1 \in DOMAIN docs' /\ docs'[Len(docs) + 1] = Document(r)
        BY <2>0, <3>1
      <3> QED
        BY <2>6, <3>2
    <2>8. CASE r.kind = "update"
      <3>1. docs' = [docs EXCEPT ![r.id] = Document(r)] /\ r.id \in DOMAIN docs
        BY <1>1, <2>3, <2>8 DEF Serve, Effect, CallInv, WritesStayInTheirTitle
      <3>2. r.id \in DOMAIN docs' /\ docs'[r.id] = Document(r)
        BY <3>1
      <3> QED
        BY <2>6, <3>2
    <2> QED
      BY <2>5, <2>7, <2>8
  <1>2. CallInv /\ [Next]_vars => [\A c \in Client : Returned(c) => Stored(c)]_vars
    BY <1>1
  <1>3. Spec => []CallInv
    BY Invariance, PTL DEF IInv
  <1> QED
    BY <1>2, <1>3, PTL DEF Spec, AckedMeansStored

-------------------------------------------------------------------------------
(* A single client sees the map of the StorageBackend trait *)

\* What the requests of an only client are like as long as nothing fails: it
\* waits for each of them, and a document that is to be updated is there.
OnlyClientRequests(c) ==
    /\ pc[c] = "waiting" => Pending(c) /\ task[c].op \in {"put", "delete"}
    /\ \A r \in flight :
           /\ r.kind = "update" => Live(r.id)
           /\ IF r.kind = "delete" THEN r.content = None ELSE r.content \in Content

\* The invariant of a client that is alone and whose requests do not fail.
OnlyClientInv(c) == IInv /\ faults = 0 /\ OnlyClientRequests(c)

\* A set of at most one element.
LEMMA SmallSet ==
    ASSUME NEW S, IsFiniteSet(S), Cardinality(S) <= 1, NEW x \in S
    PROVE  S = {x} /\ Cardinality(S) = 1 /\ (CHOOSE y \in S : TRUE) = x
  <1>1. Cardinality(S) \in Nat /\ Cardinality(S) # 0
    BY FS_CardinalityType, FS_EmptySet
  <1>2. Cardinality(S) = 1
    BY <1>1
  <1>3. S = {x}
    BY <1>2, FS_Singleton
  <1> QED
    BY <1>2, <1>3

\* A title has at most one document, and none while its creation is in flight;
\* nobody but the client waits, so there is at most one request.
LEMMA OnlyClientFacts ==
    ASSUME NEW c, Client = {c}, OnlyClientInv(c)
    PROVE  /\ \A t \in Title : \A i \in Hits(t) : Hits(t) = {i} /\ StoredAt(t) = docs[i].content
           /\ \A t \in Title : Hits(t) = {} => StoredAt(t) = None
           /\ \A r \in flight : /\ Awaited(r) /\ r.client = c /\ flight = {r}
                                /\ r.kind = "create" => Hits(r.title) = {}
  <1>0. /\ IInv /\ CallInv /\ faults = 0 /\ Cardinality(Client) = 1
        /\ IsFiniteSet(flight)
    BY FS_Singleton DEF OnlyClientInv, IInv, LateRequestsAreFaults
  <1>1. ASSUME NEW t \in Title
        PROVE  /\ IsFiniteSet(Hits(t)) /\ Cardinality(Hits(t)) \in Nat
               /\ IsFiniteSet(Creates(t)) /\ Cardinality(Creates(t)) \in Nat
               /\ Cardinality(Hits(t)) + Cardinality(Creates(t)) <= 1
    <2>1. IsFiniteSet(Hits(t)) /\ IsFiniteSet(Creates(t))
      BY <1>0, HitsFinite, FS_Subset DEF Creates
    <2>2. Cardinality(Hits(t)) \in Nat /\ Cardinality(Creates(t)) \in Nat
      BY <2>1, FS_CardinalityType
    <2>3. Cardinality(Hits(t)) + Cardinality(Creates(t)) <= 1
      BY <1>0 DEF IInv, DuplicatesBounded
    <2> QED
      BY <2>1, <2>2, <2>3
  <1>2. ASSUME NEW t \in Title, NEW i \in Hits(t)
        PROVE  Hits(t) = {i} /\ StoredAt(t) = docs[i].content /\ Creates(t) = {}
    <2>1. Cardinality(Hits(t)) <= 1
      BY <1>1
    <2>2. Hits(t) = {i} /\ Cardinality(Hits(t)) = 1 /\ (CHOOSE j \in Hits(t) : TRUE) = i
      BY <1>1, <2>1, SmallSet
    <2>3. Cardinality(Creates(t)) = 0
      <3>1. /\ Cardinality(Hits(t)) = 1 /\ Cardinality(Creates(t)) \in Nat
            /\ Cardinality(Hits(t)) + Cardinality(Creates(t)) <= 1
        BY <1>1, <2>2
      <3> HIDE DEF Hits, Creates
      <3> QED
        BY <3>1
    <2> QED
      BY <1>1, <2>2, <2>3, FS_EmptySet DEF StoredAt
  <1>3. ASSUME NEW r \in flight
        PROVE  /\ Awaited(r) /\ r.client = c /\ flight = {r}
               /\ r.kind = "create" => Hits(r.title) = {}
    <2>1. Abandoned = {}
      <3>1. IsFiniteSet(Abandoned) /\ Cardinality(Abandoned) <= 0
        BY <1>0, FS_Subset DEF IInv, LateRequestsAreFaults, Abandoned
      <3>2. Cardinality(Abandoned) = 0
        BY <3>1, FS_CardinalityType
      <3> QED
        BY <3>1, <3>2, FS_EmptySet
    <2>2. \A q \in flight : q.client = c /\ q.title \in Title /\ Awaited(q)
      BY <1>0, <2>1 DEF CallInv, TypeOK, RequestRecord, Abandoned
    <2>3. flight = {r}
      BY <1>0, <2>2 DEF IInv, OneRequestPerCall, Awaited
    <2>4. r.kind = "create" => Hits(r.title) = {}
      BY <1>2, <2>2 DEF Creates
    <2> QED
      BY <2>2, <2>3, <2>4
  <1> QED
    BY <1>2, <1>3 DEF StoredAt

\* The invariant of the only client is preserved when nothing fails.
LEMMA NextOnlyClient ==
    ASSUME NEW c, Client = {c}, MaxFaults = 0, OnlyClientInv(c), [Next]_vars
    PROVE  OnlyClientInv(c)'
  <1> USE DEF NoFault
  <1>0. /\ IInv /\ CallInv /\ faults = 0 /\ ~Fault
        /\ pc \in [Client -> {"idle", "searching", "waiting"}]
        /\ task \in [Client -> TaskRecord] /\ calls \in [Client -> Nat]
        /\ flight \subseteq RequestRecord
    BY DEF OnlyClientInv, IInv, CallInv, TypeOK, Fault
  <1>1. IInv'
    BY <1>0, NextInvariant
  <1>2. OnlyClientRequests(c)
    BY DEF OnlyClientInv
  <1>3. \A r \in flight : Awaited(r) /\ r.client = c /\ flight = {r}
    BY OnlyClientFacts
  <1>4. pc[c] # "waiting" => flight = {}
    BY <1>3 DEF Awaited
  <1>5. ASSUME NEW k, pc[c] = "idle", Begin(c, "searching", k), UNCHANGED flight
        PROVE  OnlyClientRequests(c)'
    BY <1>0, <1>4, <1>5 DEF Begin, OnlyClientRequests
  <1>6. ASSUME NEW i \in DOMAIN docs, Delete(c, i)
        PROVE  OnlyClientRequests(c)'
    <2> DEFINE q == [client |-> c, call |-> calls[c] + 1, kind |-> "delete", id |-> i,
                     title |-> docs[i].title, content |-> None]
    <2>1. flight' = {q} /\ pc'[c] = "waiting" /\ task'[c].op = "delete"
          /\ calls'[c] = calls[c] + 1
      BY <1>0, <1>4, <1>6 DEF Delete, Begin, Task
    <2>2. Pending(c)'
      BY <2>1 DEF Pending, Awaited
    <2> QED
      BY <2>1, <2>2 DEF OnlyClientRequests
  <1>7. ASSUME NEW kind \in {"create", "update"}, NEW i, pc[c] = "searching",
               task[c].op = "put", Send(c, kind, i), kind = "update" => i \in Hits(task[c].title)
        PROVE  OnlyClientRequests(c)'
    <2>1. /\ flight' = {Request(c, kind, i)} /\ pc'[c] = "waiting" /\ task' = task
          /\ calls' = calls /\ docs' = docs
      BY <1>0, <1>4, <1>7 DEF Send
    <2>2. task[c].content \in Content
      BY <1>0, <1>7 DEF CallInv, SearchesMatch
    <2>3. Pending(c)'
      BY <2>1 DEF Pending, Awaited, Request
    <2> QED
      BY <1>7, <2>1, <2>2, <2>3 DEF Request, Hits, Live, OnlyClientRequests
  <1>8. ASSUME NEW result, Return(c, result), flight' = {}
        PROVE  OnlyClientRequests(c)'
    BY <1>0, <1>8 DEF Return, OnlyClientRequests
  <1>9. ASSUME NEW r \in flight, Serve(r)
        PROVE  OnlyClientRequests(c)'
    <2>1. flight' = {} /\ ~Unheard(r)
      BY <1>0, <1>3, <1>9 DEF Serve, Unheard
    <2> QED
      BY <1>3, <1>8, <1>9, <2>1 DEF Serve
  <1>10. ~\E r \in flight : Refuse(r)
    BY <1>0, <1>3 DEF Refuse
  <1>11. ~SearchFails(c) /\ ~GiveUp(c)
    BY <1>0, <1>2 DEF SearchFails, GiveUp, OnlyClientRequests
  <1>12. ASSUME GetFinds(c)
         PROVE  OnlyClientRequests(c)'
    BY <1>4, <1>8, <1>12 DEF GetFinds
  <1>13. ASSUME UNCHANGED vars
         PROVE  OnlyClientRequests(c)'
    BY <1>2, <1>13 DEF vars, Pending, Awaited, Live, OnlyClientRequests
  <1>14. OnlyClientRequests(c)'
    <2>1. ASSUME NEW t \in Title, NEW v \in Content, Put(c, t, v)
          PROVE  OnlyClientRequests(c)'
      BY <1>5, <2>1 DEF Put, Begin
    <2>2. ASSUME NEW t \in Title, GetByKey(c, t)
          PROVE  OnlyClientRequests(c)'
      BY <1>5, <2>2 DEF GetByKey, Begin
    <2>3. ASSUME PutUpdates(c)
          PROVE  OnlyClientRequests(c)'
      BY <1>7, <2>3 DEF PutUpdates
    <2>4. ASSUME PutCreates(c)
          PROVE  OnlyClientRequests(c)'
      BY <1>7, <2>4 DEF PutCreates
    <2> QED
      BY <1>6, <1>9, <1>10, <1>11, <1>12, <1>13, <2>1, <2>2, <2>3, <2>4 DEF Next, Finished
  <1>15. faults' = 0
    BY <1>0, <1>3, <1>10, <1>11
    DEF Next, Finished, vars, Put, GetByKey, Delete, GetFinds, PutUpdates, PutCreates, Serve, Unheard
  <1> QED
    BY <1>1, <1>14, <1>15 DEF OnlyClientInv

\* A get returns what is stored, and nothing is stored where it finds nothing.
StoredIsFound ==
    /\ \A t \in Title : \A i \in Hits(t) : StoredAt(t) = docs[i].content
    /\ \A t \in Title : Hits(t) = {} => StoredAt(t) = None

\* What the only client searches for is what is stored.
OnlyClientFinds == \A c : Client = {c} /\ OnlyClientInv(c) => StoredIsFound

\* So it is, for whichever client is the only one.
LEMMA OnlyClientAlwaysFinds == OnlyClientFinds
  BY OnlyClientFacts DEF OnlyClientFinds, StoredIsFound

\* Each step of the only client is a call of the trait, or leaves the map and
\* what the client was told alone (fileverse.rs:120-284, storage/mod.rs:31-57).
LEMMA StepsAreCalls ==
    ASSUME NEW c, Client = {c}, MaxFaults = 0, OnlyClientInv(c), [Next]_vars
    PROVE  [KV!Next]_(KV!vars)
  <1> DEFINE Map == [t \in Title |-> StoredAt(t)]
  <1> USE DEF NoFault
  <1>0. /\ IInv /\ CallInv /\ ~Fault /\ OnlyClientInv(c)'
        /\ \A i \in DOMAIN docs : docs[i].title \in Title
        /\ DOMAIN docs = 1..Len(docs) /\ Len(docs) \in Nat
        /\ task \in [Client -> TaskRecord] /\ last \in [Client -> CallRecord]
    <2>1. docs \in Seq([title : Title, content : Content \cup {None}])
          /\ task \in [Client -> TaskRecord] /\ faults = 0 /\ IInv /\ CallInv
          /\ last \in [Client -> CallRecord]
      BY DEF OnlyClientInv, IInv, CallInv, TypeOK
    <2>2. ASSUME NEW i \in DOMAIN docs
          PROVE  docs[i].title \in Title
      <3>1. docs[i] \in [title : Title, content : Content \cup {None}]
        BY <2>1, ElementType
      <3> QED
        BY <3>1
    <2>3. DOMAIN docs = 1..Len(docs) /\ Len(docs) \in Nat
      BY <2>1, HitsFinite
    <2>4. OnlyClientInv(c)'
      BY NextOnlyClient
    <2> QED
      BY <2>1, <2>2, <2>3, <2>4 DEF Fault
  <1>1. /\ StoredIsFound
        /\ \A t \in Title : \A i \in Hits(t) : Hits(t) = {i}
        /\ \A r \in flight : Awaited(r) /\ r.client = c
                             /\ (r.kind = "create" => Hits(r.title) = {})
    BY OnlyClientFacts DEF StoredIsFound
  <1>2. StoredIsFound'
    <2>1. OnlyClientFinds'
      BY OnlyClientAlwaysFinds, PTL
    <2> QED
      BY <1>0, <2>1 DEF OnlyClientFinds
  \* A step that leaves the documents and the answers alone.
  <1>3. ASSUME docs' = docs
        PROVE  Map' = Map
    BY <1>3 DEF StoredAt, Hits, Live
  <1>4. ASSUME docs' = docs, last' = last
        PROVE  [KV!Next]_(KV!vars)
    BY <1>3, <1>4 DEF KV!vars
  <1>5. ASSUME NEW result, Return(c, result)
        PROVE  last' = [last EXCEPT ![c] = KV!Completed(task[c].op, task[c].title, result)]
    BY <1>5 DEF Return, Completed, KV!Completed
  <1>6. ASSUME GetFinds(c)
        PROVE  KV!Next
    <2> DEFINE t == task[c].title
    <2>1. t \in Title /\ task[c].op = "get" /\ docs' = docs
      BY <1>0, <1>6 DEF GetFinds, CallInv, SearchesMatch
    <2>2. \/ \E i \in Hits(t) : Return(c, docs[i].content)
          \/ Hits(t) = {} /\ Return(c, "error")
      BY <1>6 DEF GetFinds
    <2>3. ASSUME NEW i \in Hits(t), Return(c, docs[i].content)
          PROVE  KV!Get(c, t)
      <3>1. Map[t] = docs[i].content /\ Map[t] # None
        BY <1>1, <2>1 DEF StoredIsFound, Hits, Live
      <3> QED
        BY <1>3, <1>5, <2>1, <2>3, <3>1 DEF KV!Get
    <2>4. ASSUME Hits(t) = {}, Return(c, "error")
          PROVE  KV!Get(c, t)
      <3>1. Map[t] = None
        BY <1>1, <2>1, <2>4 DEF StoredIsFound
      <3> QED
        BY <1>3, <1>5, <2>1, <2>4, <3>1 DEF KV!Get
    <2> QED
      BY <2>1, <2>2, <2>3, <2>4 DEF KV!Next
  <1>7. ASSUME NEW r \in flight, Serve(r)
        PROVE  KV!Next
    <2> DEFINE t == r.title
    <2>1. /\ t \in Title /\ t = task[c].title /\ docs' = Effect(r)
          /\ Awaited(r) /\ r.client = c
          /\ r.kind \in {"create", "update", "delete"}
          /\ Return(c, IF Accepts(r) THEN "ok" ELSE "error")
      BY <1>0, <1>1, <1>7
      DEF CallInv, TypeOK, RequestRecord, RequestsMatch, Serve, Unheard
    <2>2. /\ task[c].op = IF r.kind = "delete" THEN "delete" ELSE "put"
          /\ r.kind # "delete" => r.content \in Content
          /\ r.kind = "delete" => r.content = None
          /\ r.kind = "update" => Live(r.id)
          /\ r.kind # "create" => r.id \in DOMAIN docs /\ docs[r.id].title = t
      BY <1>0, <2>1
      DEF OnlyClientInv, OnlyClientRequests, CallInv, RequestsMatch, WritesStayInTheirTitle, Awaited
    <2>3. ASSUME r.kind # "delete"
          PROVE  KV!Put(c, t, r.content)
      <3>1. Accepts(r) /\ Document(r).title = t /\ Document(r).content = r.content
            /\ r.content # None
        BY <2>1, <2>2, <2>3, NoneAssumption DEF Accepts, Document
      <3>2. \E i \in Hits(t)' : docs'[i].content = r.content
        <4>1. CASE r.kind = "create"
          BY <1>0, <2>1, <3>1, <4>1 DEF Effect, Hits, Live, CallInv, TypeOK
        <4>2. CASE r.kind = "update"
          BY <2>1, <2>2, <3>1, <4>2 DEF Effect, Hits, Live
        <4> QED
          BY <2>1, <2>3, <4>1, <4>2
      <3>3. \A u \in Title \ {t} :
               /\ Hits(u)' = Hits(u)
               /\ \A i \in Hits(u) : docs'[i] = docs[i]
        <4>1. CASE r.kind = "create"
          BY <1>0, <2>1, <3>1, <4>1 DEF Effect, Hits, Live, CallInv, TypeOK
        <4>2. CASE r.kind = "update"
          BY <2>1, <2>2, <3>1, <4>2 DEF Effect, Hits, Live
        <4> QED
          BY <2>1, <2>3, <4>1, <4>2
      <3>4. StoredAt(t)' = r.content
        BY <1>2, <2>1, <3>2 DEF StoredIsFound
      <3>5. \A u \in Title \ {t} : StoredAt(u)' = StoredAt(u)
        BY <1>1, <1>2, <3>3 DEF StoredIsFound
      <3>6. Map' = [Map EXCEPT ![t] = r.content]
        BY <2>1, <3>4, <3>5
      <3> QED
        BY <1>5, <2>1, <2>2, <2>3, <3>1, <3>6 DEF KV!Put
    <2>4. ASSUME r.kind = "delete", Accepts(r)
          PROVE  KV!Delete(c, t)
      <3>1. docs' = [docs EXCEPT ![r.id] = Document(r)] /\ Live(r.id)
            /\ Document(r).content = None
        BY <2>1, <2>2, <2>4 DEF Effect, Accepts, Document
      <3>2. Hits(t) = {r.id} /\ StoredAt(t) = docs[r.id].content
        BY <1>1, <2>1, <2>2, <2>4, <3>1 DEF Hits, StoredIsFound
      <3>3. Hits(t)' = {}
        BY <2>2, <2>4, <3>1, <3>2 DEF Hits, Live, Document
      <3>4. \A u \in Title \ {t} :
               /\ Hits(u)' = Hits(u)
               /\ \A i \in Hits(u) : docs'[i] = docs[i]
        BY <2>2, <2>4, <3>1 DEF Hits, Live, Document
      <3>5. StoredAt(t)' = None /\ \A u \in Title \ {t} : StoredAt(u)' = StoredAt(u)
        BY <1>1, <1>2, <2>1, <3>3, <3>4 DEF StoredIsFound
      <3>6. Map' = [Map EXCEPT ![t] = None] /\ Map[t] # None
        BY <2>1, <3>1, <3>2, <3>5 DEF Live
      <3> QED
        BY <1>5, <2>1, <2>2, <2>4, <3>6 DEF KV!Delete
    <2>5. ASSUME r.kind = "delete", ~Accepts(r)
          PROVE  KV!DeleteNothing(c, t)
      <3>1. docs' = docs
        BY <2>1, <2>5 DEF Effect
      <3> QED
        BY <1>3, <1>5, <2>1, <2>2, <2>5, <3>1 DEF KV!DeleteNothing
    <2> QED
      BY <2>1, <2>2, <2>3, <2>4, <2>5 DEF KV!Next
  <1>8. /\ ~\E r \in flight : Refuse(r)
        /\ ~SearchFails(c) /\ ~GiveUp(c)
    BY <1>0, <1>1 DEF Refuse, SearchFails, GiveUp, OnlyClientInv, OnlyClientRequests
  <1>9. \/ docs' = docs /\ last' = last
        \/ GetFinds(c)
        \/ \E r \in flight : Serve(r)
    BY <1>8 DEF Next, Finished, vars, Put, GetByKey, Delete, Begin, PutUpdates, PutCreates, Send
  <1> QED
    BY <1>4, <1>6, <1>7, <1>9

\* A single client whose requests do not fail sees the map the StorageBackend
\* trait promises: every call takes effect at one moment, in order, and is told
\* the truth (storage/mod.rs:31-57, fileverse.rs:120-284).
THEOREM OnlyClientSeesMap ==
    ASSUME NEW c, Client = {c}, MaxFaults = 0
    PROVE  Spec => ImplementsKVStore
  <1>1. Init => OnlyClientInv(c) /\ KV!Init
    <2> SUFFICES ASSUME Init
                 PROVE  OnlyClientInv(c) /\ KV!Init
      OBVIOUS
    <2>1. OnlyClientInv(c)
      BY InitInvariant DEF Init, OnlyClientInv, OnlyClientRequests
    <2>2. \A t \in Title : StoredAt(t) = None
      BY DEF Init, StoredAt, Hits
    <2> QED
      BY <2>1, <2>2 DEF Init, KV!Init, Completed, KV!Completed
  <1>2. OnlyClientInv(c) /\ [Next]_vars => OnlyClientInv(c)'
    BY NextOnlyClient
  <1>3. OnlyClientInv(c) /\ [Next]_vars => [KV!Next]_(KV!vars)
    BY StepsAreCalls
  <1> QED
    BY <1>1, <1>2, <1>3, PTL DEF Spec, ImplementsKVStore, KV!Spec

===============================================================================
