------------------------------ MODULE Indexing ------------------------------
(***************************************************************************)
(* index(): documents go into a vector store, and their keys into a record *)
(* manager that remembers which of them are in the store and when they     *)
(* were last given. The two are separate services, and every call to one   *)
(* of them is an await: an action here is the code from one await to the   *)
(* next, and a call may fail at each.                                      *)
(*                                                                         *)
(* A document is its hash, which is its uid, and that settles its source   *)
(* and its loader (docId), as both are metadata that is hashed. A load is  *)
(* the sequence of batches of the documents that a call is given, without  *)
(* the duplicates of a batch. The delete method of a vector store node     *)
(* runs the last three steps of index() by itself ("remove"). Time is the  *)
(* seconds of the record manager's database.                               *)
(***************************************************************************)
EXTENDS Naturals, Sequences, FiniteSets

CONSTANTS Docs,        \* documents, by their uid
          SourceOf,    \* the source of each
          LoaderOf,    \* the loader (docId) of each
          Jobs,        \* what index() and delete may be asked for
          Calls,       \* calls that may be under way at a time
          None,        \* no call
          CleanupBatch,\* cleanupBatchSize
          Careful,     \* are calls kept apart, as in Apart below?
          MaxClock,    \* bound: seconds
          MaxCalls,    \* bound: calls
          MaxFaults    \* bound: calls that fail

ASSUME IndexingAssumption ==
    /\ \A job \in Jobs :
          /\ job.mode \in {"none", "full", "incremental", "remove"}
          /\ job.load \in Seq(SUBSET Docs)
          /\ job.mode = "remove" => job.load = <<>>
    /\ None \notin Jobs
    /\ CleanupBatch \in Nat \ {0}
    /\ {MaxClock, MaxCalls, MaxFaults} \subseteq Nat
    /\ Careful \in BOOLEAN

VARIABLES
    store,     \* the documents in the vector store
    late,      \* those whose deletion was sent but has not come to the store
    updatedAt, \* the record manager: when each key was written, 0 if there is none
    clock,
    awaits,    \* does the store's delete method wait for its client?
    active,    \* the job of each call
    pc,        \* and the await it is at
    start,     \* indexStartDt
    batch,     \* the number of the batch it works on
    new,       \* docsToIndex
    todo,      \* the keys that update still has to write
    at,        \* the time update has read, 0 before that
    gone,      \* uidsToDelete
    failed,    \* history: the jobs that failed and were not made good since
    broken,    \* history: the documents deleted by a call that failed before their keys were
    calls, faults

local == <<pc, start, batch, new, todo, at, gone>>
vars == <<store, late, updatedAt, clock, awaits, active, pc, start, batch, new, todo, at, gone,
          failed, broken, calls, faults>>

Store == INSTANCE IndexedStore WITH content <- store \ late
Want(job)  == Store!Want(job)
Scope(job) == Store!Scope(job)

Keys     == {d \in Docs : updatedAt[d] # 0}
Batch(c) == active[c].load[batch[c]]

Init ==
    /\ store = {} /\ late = {}
    /\ updatedAt = [d \in Docs |-> 0]
    /\ clock = 1
    /\ awaits \in BOOLEAN
    /\ active = [c \in Calls |-> None]
    /\ pc = [c \in Calls |-> "idle"]
    /\ start = [c \in Calls |-> 0]
    /\ batch = [c \in Calls |-> 0]
    /\ new = [c \in Calls |-> {}]
    /\ todo = [c \in Calls |-> {}]
    /\ at = [c \in Calls |-> 0]
    /\ gone = [c \in Calls |-> {}]
    /\ failed = {} /\ broken = {}
    /\ calls = 0 /\ faults = 0

\* What index() relies on and does not see to: calls that are under way answer for
\* different documents; a key written by an earlier call is a second old, as cleanup
\* takes what was written before the second it started in; deletions sent earlier have
\* come to the store; and where they are not waited for, the documents of a source
\* come in one batch, as a batch clears what later batches still have to give.
Apart(job) ==
    /\ \A c \in Calls : active[c] # None => Scope(active[c]) \cap Scope(job) = {}
    /\ \A d \in Scope(job) : updatedAt[d] < clock
    /\ late \cap Scope(job) = {}
    /\ job.mode = "incremental" => awaits \/ Len(job.load) <= 1

Goto(c, stage) == pc' = [pc EXCEPT ![c] = stage]

\* Mutant: one batch too many.
StagePast(job, i) ==
    IF i <= Len(job.load) THEN "exists" ELSE IF job.mode \in {"full", "remove"} THEN "list" ELSE "count"

\* The await after batch i is done.
Stage(job, i) ==
    IF i < Len(job.load) THEN "exists" ELSE IF job.mode \in {"full", "remove"} THEN "list" ELSE "count"

\* index() reads the time and turns to its first batch; delete turns to its keys.
Begin(c, job) ==
    /\ pc[c] = "idle"
    /\ calls < MaxCalls
    /\ Careful => Apart(job)
    /\ calls' = calls + 1
    /\ active' = [active EXCEPT ![c] = job]
    /\ start' = [start EXCEPT ![c] = clock]
    /\ batch' = [batch EXCEPT ![c] = 1]
    /\ Goto(c, Stage(job, 0))
    /\ UNCHANGED <<store, late, updatedAt, clock, awaits, new, todo, at, gone, failed, broken, faults>>

\* docsToIndex: the documents of the batch without a key.
NewDocs(c) == Batch(c) \ Keys

\* recordManager.exists
Exists(c) ==
    /\ pc[c] = "exists"
    /\ new' = [new EXCEPT ![c] = NewDocs(c)]
    /\ todo' = [todo EXCEPT ![c] = Batch(c) \ NewDocs(c)]
    /\ at' = [at EXCEPT ![c] = 0]
    /\ Goto(c, IF NewDocs(c) # Batch(c) THEN "touch" ELSE IF Batch(c) # {} THEN "add" ELSE "record")
    /\ UNCHANGED <<store, late, updatedAt, clock, awaits, active, start, batch, gone, failed, broken,
                   calls, faults>>

\* recordManager.update reads the time ...
ReadTime(c) ==
    /\ pc[c] \in {"touch", "record"}
    /\ at[c] = 0
    /\ at' = [at EXCEPT ![c] = clock]
    /\ UNCHANGED <<store, late, updatedAt, clock, awaits, active, pc, start, batch, new, todo, gone,
                   failed, broken, calls, faults>>

\* ... and writes the keys one by one.
WriteKey(c) == \E d \in todo[c] :
    /\ pc[c] \in {"touch", "record"}
    /\ at[c] # 0
    /\ updatedAt' = [updatedAt EXCEPT ![d] = at[c]]
    /\ todo' = [todo EXCEPT ![c] = @ \ {d}]
    /\ UNCHANGED <<store, late, clock, awaits, active, pc, start, batch, new, at, gone, failed, broken,
                   calls, faults>>

\* Mutant: a batch with known documents has no new ones.
TouchedOnly(c) ==
    /\ pc[c] = "touch" /\ at[c] # 0 /\ todo[c] = {}
    /\ todo' = [todo EXCEPT ![c] = Batch(c)]
    /\ at' = [at EXCEPT ![c] = 0]
    /\ Goto(c, "record")
    /\ UNCHANGED <<store, late, updatedAt, clock, awaits, active, start, batch, new, gone, failed, broken,
                   calls, faults>>

\* The known documents are stamped: the new ones are added next.
Touched(c) ==
    /\ pc[c] = "touch" /\ at[c] # 0 /\ todo[c] = {}
    /\ todo' = [todo EXCEPT ![c] = IF new[c] # {} THEN {} ELSE Batch(c)]
    /\ at' = [at EXCEPT ![c] = 0]
    /\ Goto(c, IF new[c] # {} THEN "add" ELSE "record")
    /\ UNCHANGED <<store, late, updatedAt, clock, awaits, active, start, batch, new, gone, failed, broken,
                   calls, faults>>

\* vectorStore.addDocuments, with the uids as ids: a document that is there is replaced.
Add(c) ==
    /\ pc[c] = "add"
    /\ store' = store \cup new[c]
    /\ broken' = broken \ new[c]
    /\ todo' = [todo EXCEPT ![c] = Batch(c)]
    /\ at' = [at EXCEPT ![c] = 0]
    /\ Goto(c, "record")
    /\ UNCHANGED <<late, updatedAt, clock, awaits, active, start, batch, new, gone, failed, calls, faults>>

\* Mutant: incremental cleanup is forgotten.
RecordedUncleaned(c) ==
    /\ pc[c] = "record" /\ at[c] # 0 /\ todo[c] = {}
    /\ Goto(c, Stage(active[c], batch[c]))
    /\ batch' = [batch EXCEPT ![c] = @ + 1]
    /\ UNCHANGED <<store, late, updatedAt, clock, awaits, active, start, new, todo, at, gone, failed,
                   broken, calls, faults>>

\* All keys of the batch are written: incremental cleanup is next, or the next batch.
Recorded(c) ==
    /\ pc[c] = "record" /\ at[c] # 0 /\ todo[c] = {}
    /\ IF active[c].mode = "incremental"
       THEN Goto(c, "list") /\ UNCHANGED batch
       ELSE /\ Goto(c, Stage(active[c], batch[c]))
            /\ batch' = [batch EXCEPT ![c] = @ + 1]
    /\ UNCHANGED <<store, late, updatedAt, clock, awaits, active, start, new, todo, at, gone, failed,
                   broken, calls, faults>>

\* Mutant: `before' takes the second of the start as well.
StaleInclusive(c) ==
    CASE active[c].mode = "full" -> {d \in Keys : updatedAt[d] <= start[c]}
      [] active[c].mode = "incremental" ->
            {d \in Keys : updatedAt[d] <= start[c] /\ \E e \in Batch(c) : SourceOf[e] = SourceOf[d]}
      [] OTHER -> {d \in Keys : LoaderOf[d] = active[c].loader}

\* Mutant: incremental cleanup does not look at the sources.
StaleAll(c) ==
    CASE active[c].mode \in {"full", "incremental"} -> {d \in Keys : updatedAt[d] < start[c]}
      [] OTHER -> {d \in Keys : LoaderOf[d] = active[c].loader}

\* The keys that listKeys gives: before the start, of the sources of the batch; or of the loader.
Stale(c) ==
    CASE active[c].mode = "full" -> {d \in Keys : updatedAt[d] < start[c]}
      [] active[c].mode = "incremental" ->
            {d \in Keys : updatedAt[d] < start[c] /\ \E e \in Batch(c) : SourceOf[e] = SourceOf[d]}
      [] OTHER -> {d \in Keys : LoaderOf[d] = active[c].loader}

\* recordManager.listKeys: full cleanup takes a limited number at a time, until none is left.
List(c) ==
    /\ pc[c] = "list"
    /\ IF active[c].mode = "full" /\ Stale(c) = {}
       THEN Goto(c, "count") /\ UNCHANGED gone
       ELSE /\ \E found \in SUBSET Stale(c) :
                  /\ \/ found = Stale(c)
                     \/ active[c].mode = "full" /\ Cardinality(found) = CleanupBatch
                  /\ active[c].mode = "full" => Cardinality(found) <= CleanupBatch
                  /\ gone' = [gone EXCEPT ![c] = found]
            /\ Goto(c, "delete")
    /\ UNCHANGED <<store, late, updatedAt, clock, awaits, active, start, batch, new, todo, at, failed,
                   broken, calls, faults>>

\* vectorStore.delete: Qdrant and Postgres send the deletion and do not wait for it.
Delete(c) ==
    /\ pc[c] = "delete"
    /\ IF awaits THEN store' = store \ gone[c] /\ UNCHANGED late
                 ELSE late' = late \cup (store \cap gone[c]) /\ UNCHANGED store
    /\ Goto(c, "forget")
    /\ UNCHANGED <<updatedAt, clock, awaits, active, start, batch, new, todo, at, gone, failed, broken,
                   calls, faults>>

\* Mutant: the keys of the deleted documents stay.
ForgetNothing(c) ==
    /\ pc[c] = "forget"
    /\ gone' = [gone EXCEPT ![c] = {}]
    /\ batch' = [batch EXCEPT ![c] = IF active[c].mode = "incremental" THEN @ + 1 ELSE @]
    /\ Goto(c, IF active[c].mode = "incremental" THEN Stage(active[c], batch[c])
               ELSE IF active[c].mode = "full" THEN "list" ELSE "count")
    /\ UNCHANGED <<store, late, updatedAt, clock, awaits, active, start, new, todo, at, failed, broken,
                   calls, faults>>

\* recordManager.deleteKeys; then full cleanup looks for more, incremental cleanup turns to
\* the next batch.
Forget(c) ==
    /\ pc[c] = "forget"
    /\ updatedAt' = [d \in Docs |-> IF d \in gone[c] THEN 0 ELSE updatedAt[d]]
    /\ broken' = broken \ gone[c]
    /\ gone' = [gone EXCEPT ![c] = {}]
    /\ batch' = [batch EXCEPT ![c] = IF active[c].mode = "incremental" THEN @ + 1 ELSE @]
    /\ Goto(c, IF active[c].mode = "incremental" THEN Stage(active[c], batch[c])
               ELSE IF active[c].mode = "full" THEN "list" ELSE "count")
    /\ UNCHANGED <<store, late, clock, awaits, active, start, new, todo, at, failed, calls, faults>>

Over(c) ==
    /\ active' = [active EXCEPT ![c] = None]
    /\ start' = [start EXCEPT ![c] = 0]
    /\ batch' = [batch EXCEPT ![c] = 0]
    /\ new' = [new EXCEPT ![c] = {}]
    /\ todo' = [todo EXCEPT ![c] = {}]
    /\ at' = [at EXCEPT ![c] = 0]
    /\ gone' = [gone EXCEPT ![c] = {}]
    /\ Goto(c, "idle")

\* The keys are counted and the call returns.
Finish(c) ==
    /\ pc[c] = "count"
    /\ Over(c)
    /\ failed' = IF Store!Clean(active[c]) THEN failed \ {active[c]} ELSE failed
    /\ UNCHANGED <<store, late, updatedAt, clock, awaits, broken, calls, faults>>

\* The call throws at an await, or the server goes down: what was sent may be done in part.
Fail(c) ==
    /\ pc[c] # "idle"
    /\ faults < MaxFaults
    /\ faults' = faults + 1
    /\ \/ pc[c] = "add" /\ \E part \in SUBSET new[c] : store' = store \cup part
       \/ pc[c] = "delete" /\ awaits /\ \E part \in SUBSET gone[c] : store' = store \ part
       \/ UNCHANGED store
    /\ broken' = (broken \cup (IF pc[c] \in {"delete", "forget"} THEN gone[c] ELSE {})) \ (store' \ late)
    /\ failed' = failed \cup {active[c]}
    /\ Over(c)
    /\ UNCHANGED <<late, updatedAt, clock, awaits, calls>>

\* A deletion that was sent comes to the store. That it fails there is left out.
Arrive(d) ==
    /\ d \in late
    /\ late' = late \ {d}
    /\ store' = store \ {d}
    /\ UNCHANGED <<updatedAt, clock, awaits, active, local, failed, broken, calls, faults>>

Tick ==
    /\ clock < MaxClock
    /\ clock' = clock + 1
    /\ UNCHANGED <<store, late, updatedAt, awaits, active, local, failed, broken, calls, faults>>

Work(c) ==
    \/ Exists(c)
    \/ ReadTime(c)
    \/ WriteKey(c)
    \/ Touched(c)
    \/ Add(c)
    \/ Recorded(c)
    \/ List(c)
    \/ Delete(c)
    \/ Forget(c)
    \/ Finish(c)

Next ==
    \/ \E c \in Calls : Work(c) \/ Fail(c) \/ \E job \in Jobs : Begin(c, job)
    \/ \E d \in Docs : Arrive(d)
    \/ Tick

\* Each await is answered, and so is each deletion that was sent.
Fairness ==
    /\ \A c \in Calls : WF_vars(Work(c))
    /\ \A d \in Docs : WF_vars(Arrive(d))

Spec == Init /\ [][Next]_vars /\ Fairness

-----------------------------------------------------------------------------
TypeOK ==
    /\ store \subseteq Docs /\ late \subseteq Docs /\ broken \subseteq Docs
    /\ updatedAt \in [Docs -> Nat]
    /\ clock \in Nat \ {0}
    /\ awaits \in BOOLEAN
    /\ active \in [Calls -> Jobs \cup {None}]
    /\ pc \in [Calls -> {"idle", "exists", "touch", "add", "record", "list", "delete", "forget", "count"}]
    /\ start \in [Calls -> Nat] /\ at \in [Calls -> Nat] /\ batch \in [Calls -> Nat]
    /\ new \in [Calls -> SUBSET Docs] /\ todo \in [Calls -> SUBSET Docs] /\ gone \in [Calls -> SUBSET Docs]
    /\ failed \subseteq Jobs
    /\ \A c \in Calls : pc[c] \in {"exists", "touch", "add", "record"} =>
          batch[c] \in 1 .. Len(active[c].load)
    /\ calls \in Nat /\ faults \in Nat

\* A document with a key is in the store: index() skips it on that word alone, now and for
\* good. The exceptions are the deletions under way and those that were cut in two by a failure.
KeysHaveDocuments ==
    \A d \in Keys :
       \/ d \in store \ late
       \/ d \in broken
       \/ \E c \in Calls : pc[c] = "forget" /\ d \in gone[c]

\* What a failure cut in two lies in the scope of a job that has yet to be made good: to do the
\* same job again puts it right.
RetryHeals == broken \subseteq UNION {Scope(job) : job \in failed}

\* A document that a call was given is not taken out of the store while the call runs, so that
\* a search finds it all the time; batches of incremental cleanup clear what later ones give.
WantedStays == [][\A c \in Calls :
    (active[c] # None /\ active'[c] = active[c]
       /\ (active[c].mode = "incremental" => Len(active[c].load) <= 1))
    => (store \ late) \cap Want(active[c]) \subseteq store' \ late']_vars

\* The store is used as IndexedStore promises.
Promise == Store!Spec

\* Every call ends: full cleanup lists the keys it has to delete until there is none.
CallsEnd == \A c \in Calls : (pc[c] # "idle") ~> (pc[c] = "idle")
=============================================================================
