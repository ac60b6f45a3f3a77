--------------------------- MODULE Indexing_proofs ---------------------------
(***************************************************************************)
(* Theorems about Indexing for any documents, jobs, calls and failures:    *)
(* its type, that a key in the record manager is no lie, that a job done   *)
(* again after a failure puts things right, that a search finds what a     *)
(* call was given while it runs, and that index() keeps the promise of     *)
(* IndexedStore.                                                           *)
(*                                                                         *)
(* A key is written after its document was added, or after the key was     *)
(* found. Between that and the write the call only remembers that the      *)
(* document is there, so what has to be shown is that nobody takes it away *)
(* meanwhile: calls that are under way delete in scopes of their own, and  *)
(* a deletion that is still on its way was sent by a call that has given   *)
(* all its documents (KInv). For the promise, what a call has done so far  *)
(* is followed batch by batch: what was given bears a stamp no older than  *)
(* the call, nothing else of its scope does, and the sources it is done    *)
(* with are clean; what a failure left behind is blamed on the job that    *)
(* failed (PInv).                                                          *)
(***************************************************************************)
EXTENDS Indexing, TLAPS

Stages == {"idle", "exists", "touch", "add", "record", "list", "delete", "forget", "count"}
Giving == {"exists", "touch", "add", "record"}

LEMMA StageType == ASSUME NEW job \in Jobs, NEW i \in Nat
                   PROVE  /\ Stage(job, i) \in {"exists", "list", "count"}
                          /\ Stage(job, i) = "exists" => i + 1 \in 1 .. Len(job.load)
<1>1. job.load \in Seq(SUBSET Docs)
  BY IndexingAssumption
<1>2. Len(job.load) \in Nat
  BY <1>1
<1> QED
  BY <1>2 DEF Stage

LEMMA BatchType == ASSUME TypeOK, NEW c \in Calls, pc[c] \in Giving, active[c] \in Jobs
                   PROVE  Batch(c) \subseteq Docs
<1>1. batch[c] \in 1 .. Len(active[c].load)
  BY DEF TypeOK, Giving
<1>2. active[c].load \in Seq(SUBSET Docs)
  BY IndexingAssumption
<1> QED
  BY <1>1, <1>2 DEF Batch

-----------------------------------------------------------------------------
(* Where a call is *)

\* A call is idle when it has no job, and a job that takes out a loader gives nothing.
Busy == \A c \in Calls : active[c] \in Jobs <=> pc[c] # "idle"

TInv == TypeOK /\ Busy

LEMMA Jobbed == ASSUME TInv, NEW c \in Calls, pc[c] # "idle" PROVE active[c] \in Jobs /\ active[c] # None
BY IndexingAssumption DEF TInv, Busy

\* A step of one call within its job, from one stage to another.
LEMMA Steps ==
    ASSUME TInv, NEW c \in Calls, NEW to \in Stages \ {"idle"}, pc[c] # "idle",
           Goto(c, to), UNCHANGED <<active, clock, awaits, calls, faults, start>>,
           store' \subseteq Docs, late' \subseteq Docs, broken' \subseteq Docs, failed' \subseteq Jobs,
           updatedAt' \in [Docs -> Nat], at' \in [Calls -> Nat], batch' \in [Calls -> Nat],
           new' \in [Calls -> SUBSET Docs], todo' \in [Calls -> SUBSET Docs],
           gone' \in [Calls -> SUBSET Docs],
           \A b \in Calls \ {c} : batch'[b] = batch[b],
           to \in Giving => batch'[c] \in 1 .. Len(active[c].load)
    PROVE  TInv'
<1>1. pc' \in [Calls -> Stages]
  BY DEF TInv, TypeOK, Goto, Stages
<1>2. \A b \in Calls \ {c} : pc'[b] = pc[b]
  BY DEF TInv, TypeOK, Goto
<1>3. pc'[c] = to
  BY DEF TInv, TypeOK, Goto
<1>4. Busy'
  BY <1>2, <1>3 DEF TInv, Busy, Stages
<1>5. \A b \in Calls : pc'[b] \in Giving => batch'[b] \in 1 .. Len(active'[b].load)
  BY <1>2, <1>3 DEF TInv, TypeOK, Giving
<1> QED
  BY <1>1, <1>4, <1>5 DEF TInv, TypeOK, Stages, Giving

LEMMA OverTyped ==
    ASSUME TInv, NEW c \in Calls, Over(c), UNCHANGED <<clock, awaits, updatedAt, calls>>,
           store' \subseteq Docs, late' \subseteq Docs, broken' \subseteq Docs, failed' \subseteq Jobs,
           faults' \in Nat
    PROVE  TInv'
<1>1. \A b \in Calls \ {c} : pc'[b] = pc[b] /\ active'[b] = active[b] /\ batch'[b] = batch[b]
  BY DEF TInv, TypeOK, Over, Goto
<1>2. pc'[c] = "idle" /\ active'[c] = None
  BY DEF TInv, TypeOK, Over, Goto
<1>3. Busy'
  BY <1>1, <1>2, IndexingAssumption DEF TInv, Busy
<1>4. pc' \in [Calls -> Stages] /\ active' \in [Calls -> Jobs \cup {None}]
  BY DEF TInv, TypeOK, Over, Goto, Stages
<1>5. /\ start' \in [Calls -> Nat] /\ at' \in [Calls -> Nat] /\ batch' \in [Calls -> Nat]
      /\ new' \in [Calls -> SUBSET Docs] /\ todo' \in [Calls -> SUBSET Docs]
      /\ gone' \in [Calls -> SUBSET Docs]
  BY DEF TInv, TypeOK, Over
<1>6. \A b \in Calls : pc'[b] \in Giving => batch'[b] \in 1 .. Len(active'[b].load)
  BY <1>1, <1>2 DEF TInv, TypeOK, Giving
<1> QED
  BY <1>3, <1>4, <1>5, <1>6 DEF TInv, TypeOK, Stages, Giving

LEMMA BeginTyped == ASSUME TInv, NEW c \in Calls, NEW job \in Jobs, Begin(c, job) PROVE TInv'
<1>1. \A b \in Calls \ {c} : pc'[b] = pc[b] /\ active'[b] = active[b] /\ batch'[b] = batch[b]
  BY DEF TInv, TypeOK, Begin, Goto
<1>2. pc'[c] = Stage(job, 0) /\ active'[c] = job /\ batch'[c] = 1
  BY DEF TInv, TypeOK, Begin, Goto
<1>3. Stage(job, 0) \in {"exists", "list", "count"}
      /\ (Stage(job, 0) = "exists" => 1 \in 1 .. Len(job.load))
  BY StageType
<1>4. Busy'
  BY <1>1, <1>2, <1>3 DEF TInv, Busy
<1>5. pc' \in [Calls -> Stages] /\ active' \in [Calls -> Jobs \cup {None}]
  BY <1>3 DEF TInv, TypeOK, Begin, Goto, Stages
<1>6. start' \in [Calls -> Nat] /\ batch' \in [Calls -> Nat] /\ calls' \in Nat
  BY DEF TInv, TypeOK, Begin
<1>7. \A b \in Calls : pc'[b] \in Giving => batch'[b] \in 1 .. Len(active'[b].load)
  BY <1>1, <1>2, <1>3 DEF TInv, TypeOK, Giving
<1> QED
  BY <1>4, <1>5, <1>6, <1>7 DEF TInv, TypeOK, Begin, Stages, Giving

LEMMA WorkTyped == ASSUME TInv, NEW c \in Calls, Work(c) PROVE TInv'
<1> USE DEF Stages
<1>0. pc[c] # "idle"
  BY DEF Work, Exists, ReadTime, WriteKey, Touched, Add, Recorded, List, Delete, Forget, Finish
<1>1. active[c] \in Jobs
  BY <1>0, Jobbed
<1>2. pc[c] \in Giving => Batch(c) \subseteq Docs /\ batch[c] \in 1 .. Len(active[c].load)
  BY <1>1, BatchType DEF TInv, TypeOK, Giving
<1>3. CASE Exists(c)
  <2> DEFINE to == IF NewDocs(c) # Batch(c) THEN "touch" ELSE IF Batch(c) # {} THEN "add" ELSE "record"
  <2>1. Batch(c) \subseteq Docs /\ batch[c] \in 1 .. Len(active[c].load)
    BY <1>2, <1>3 DEF Exists, Giving
  <2>2. new' \in [Calls -> SUBSET Docs] /\ todo' \in [Calls -> SUBSET Docs] /\ at' \in [Calls -> Nat]
    BY <1>3, <2>1 DEF Exists, TInv, TypeOK, NewDocs
  <2>3. Goto(c, to) /\ to \in Stages \ {"idle"}
    BY <1>3 DEF Exists
  <2> HIDE DEF to
  <2> QED
    BY <1>0, <1>3, <2>1, <2>2, <2>3, Steps DEF Exists, TInv, TypeOK
<1>4. CASE ReadTime(c)
  <2>1. Goto(c, pc[c]) /\ pc[c] \in Giving
    BY <1>4 DEF ReadTime, Goto, TInv, TypeOK, Giving
  <2>2. at' \in [Calls -> Nat]
    BY <1>4 DEF ReadTime, TInv, TypeOK
  <2> QED
    BY <1>0, <1>2, <1>4, <2>1, <2>2, Steps DEF ReadTime, TInv, TypeOK, Giving
<1>5. CASE WriteKey(c)
  <2>1. Goto(c, pc[c]) /\ pc[c] \in Giving
    BY <1>5 DEF WriteKey, Goto, TInv, TypeOK, Giving
  <2>2. updatedAt' \in [Docs -> Nat] /\ todo' \in [Calls -> SUBSET Docs]
    BY <1>5 DEF WriteKey, TInv, TypeOK
  <2>3. UNCHANGED <<active, clock, awaits, calls, faults, start, store, late, broken, failed, at, batch, new, gone>>
    BY <1>5 DEF WriteKey
  <2> QED
    BY <1>0, <1>2, <2>1, <2>2, <2>3, Steps DEF TInv, TypeOK, Giving
<1>6. CASE Touched(c)
  <2> DEFINE to == IF new[c] # {} THEN "add" ELSE "record"
  <2>1. Batch(c) \subseteq Docs /\ batch[c] \in 1 .. Len(active[c].load)
    BY <1>2, <1>6 DEF Touched, Giving
  <2>2. todo' \in [Calls -> SUBSET Docs] /\ at' \in [Calls -> Nat]
    BY <1>6, <2>1 DEF Touched, TInv, TypeOK
  <2>3. Goto(c, to) /\ to \in Stages \ {"idle"}
    BY <1>6 DEF Touched
  <2> HIDE DEF to
  <2> QED
    BY <1>0, <1>6, <2>1, <2>2, <2>3, Steps DEF Touched, TInv, TypeOK
<1>7. CASE Add(c)
  <2>1. Batch(c) \subseteq Docs /\ batch[c] \in 1 .. Len(active[c].load)
    BY <1>2, <1>7 DEF Add, Giving
  <2>2. todo' \in [Calls -> SUBSET Docs] /\ at' \in [Calls -> Nat]
    BY <1>7, <2>1 DEF Add, TInv, TypeOK
  <2>3. store' \subseteq Docs /\ broken' \subseteq Docs
    BY <1>7 DEF Add, TInv, TypeOK
  <2> QED
    BY <1>0, <1>7, <2>1, <2>2, <2>3, Steps DEF Add, TInv, TypeOK
<1>8. CASE Recorded(c)
  <2>1. batch[c] \in Nat
    BY DEF TInv, TypeOK
  <2>2. CASE active[c].mode = "incremental"
    BY <1>0, <1>8, <2>2, Steps DEF Recorded, TInv, TypeOK, Giving
  <2>3. CASE active[c].mode # "incremental"
    <3> DEFINE to == Stage(active[c], batch[c])
    <3>1. /\ Goto(c, to)
          /\ batch' = [batch EXCEPT ![c] = @ + 1]
      BY <1>8, <2>3 DEF Recorded
    <3>2. to \in {"exists", "list", "count"} /\ (to = "exists" => batch[c] + 1 \in 1 .. Len(active[c].load))
      BY <1>1, <2>1, StageType
    <3>3. batch' \in [Calls -> Nat] /\ batch'[c] = batch[c] + 1 /\ \A b \in Calls \ {c} : batch'[b] = batch[b]
      BY <3>1 DEF TInv, TypeOK
    <3>4. to \in Stages \ {"idle"} /\ (to \in Giving => batch'[c] \in 1 .. Len(active[c].load))
      BY <3>2, <3>3 DEF Giving
    <3> HIDE DEF to
    <3> QED
      BY <1>0, <1>8, <3>1, <3>3, <3>4, Steps DEF Recorded, TInv, TypeOK
  <2> QED
    BY <2>2, <2>3
<1>9. CASE List(c)
  <2>1. Stale(c) \subseteq Docs
    BY DEF Stale, Keys
  <2>2. gone' \in [Calls -> SUBSET Docs]
    BY <1>9, <2>1 DEF List, TInv, TypeOK
  <2>3. PICK to \in {"count", "delete"} : Goto(c, to)
    BY <1>9 DEF List
  <2>4. UNCHANGED <<active, clock, awaits, calls, faults, start, store, late, broken, failed, updatedAt, at,
                    batch, new, todo>>
    BY <1>9 DEF List
  <2> QED
    BY <1>0, <2>2, <2>3, <2>4, Steps DEF TInv, TypeOK, Giving
<1>10. CASE Delete(c)
  <2>1. store' \subseteq Docs /\ late' \subseteq Docs
    BY <1>10 DEF Delete, TInv, TypeOK
  <2> QED
    BY <1>0, <1>10, <2>1, Steps DEF Delete, TInv, TypeOK, Giving
<1>11. CASE Forget(c)
  <2>1. batch[c] \in Nat
    BY DEF TInv, TypeOK
  <2> DEFINE to == IF active[c].mode = "incremental" THEN Stage(active[c], batch[c])
                   ELSE IF active[c].mode = "full" THEN "list" ELSE "count"
  <2>2. Goto(c, to)
    BY <1>11 DEF Forget
  <2>3. Stage(active[c], batch[c]) \in {"exists", "list", "count"}
        /\ (Stage(active[c], batch[c]) = "exists" => batch[c] + 1 \in 1 .. Len(active[c].load))
    BY <1>1, <2>1, StageType
  <2>4. /\ batch' \in [Calls -> Nat] /\ \A b \in Calls \ {c} : batch'[b] = batch[b]
        /\ active[c].mode = "incremental" => batch'[c] = batch[c] + 1
    BY <1>11 DEF Forget, TInv, TypeOK
  <2>5. to \in Stages \ {"idle"} /\ (to \in Giving => batch'[c] \in 1 .. Len(active[c].load))
    BY <2>3, <2>4 DEF Giving
  <2> QED
    BY <1>0, <1>11, <2>2, <2>4, <2>5, Steps DEF Forget, TInv, TypeOK
<1>12. CASE Finish(c)
  <2>1. failed' \subseteq Jobs
    BY <1>12 DEF Finish, TInv, TypeOK
  <2> QED
    BY <1>12, <2>1, OverTyped DEF Finish, TInv, TypeOK
<1> QED
  BY <1>3, <1>4, <1>5, <1>6, <1>7, <1>8, <1>9, <1>10, <1>11, <1>12 DEF Work

LEMMA NextTyped == ASSUME TInv, [Next]_vars PROVE TInv'
<1>1. ASSUME NEW c \in Calls, Work(c) PROVE TInv'
  BY <1>1, WorkTyped
<1>2. ASSUME NEW c \in Calls, Fail(c) PROVE TInv'
  <2>1. new[c] \subseteq Docs /\ gone[c] \subseteq Docs /\ store \subseteq Docs
    BY DEF TInv, TypeOK
  <2>2. store' \subseteq Docs
    BY <1>2, <2>1 DEF Fail
  <2>3. broken' \subseteq Docs
    BY <1>2, <2>1 DEF Fail, TInv, TypeOK
  <2>4. failed' \subseteq Jobs
    BY <1>2, Jobbed DEF Fail, TInv, TypeOK
  <2>5. late' \subseteq Docs /\ faults' \in Nat
    BY <1>2 DEF Fail, TInv, TypeOK
  <2>6. Over(c) /\ UNCHANGED <<clock, awaits, updatedAt, calls>>
    BY <1>2 DEF Fail
  <2> QED
    BY <2>2, <2>3, <2>4, <2>5, <2>6, OverTyped
<1>3. ASSUME NEW c \in Calls, NEW job \in Jobs, Begin(c, job) PROVE TInv'
  BY <1>3, BeginTyped
<1>4. ASSUME NEW d \in Docs, Arrive(d) PROVE TInv'
  BY <1>4 DEF Arrive, local, TInv, TypeOK, Busy
<1>5. CASE Tick
  BY <1>5 DEF Tick, local, TInv, TypeOK, Busy
<1>6. CASE UNCHANGED vars
  BY <1>6 DEF vars, TInv, TypeOK, Busy
<1> QED
  BY <1>1, <1>2, <1>3, <1>4, <1>5, <1>6 DEF Next

LEMMA InitTyped == Init => TInv
BY IndexingAssumption DEF Init, TInv, TypeOK, Busy

\* Whatever calls run, overlap and fail, index() turns only to batches that it was given, and
\* every variable keeps its type.
THEOREM IndexingTyped == Spec => []TypeOK
<1>1. TInv => TypeOK
  BY DEF TInv
<1> QED
  BY <1>1, InitTyped, NextTyped, PTL DEF Spec

-----------------------------------------------------------------------------
(* What the calls may count on *)

\* The documents that are there for a call that finds their key.
Has == (store \ late) \cup broken

\* Calls that are under way answer for different documents.
Disjoint == \A b, c \in Calls : b # c /\ pc[b] # "idle" /\ pc[c] # "idle" =>
                Scope(active[b]) \cap Scope(active[c]) = {}

\* A deletion that is waited for is never late.
Awaited == awaits => late = {}

\* What a call knows of its batch, and what it lists for deletion.
Local(c) ==
    /\ pc[c] # "idle" => batch[c] >= 1
    /\ pc[c] # "idle" /\ active[c].mode = "incremental" => awaits \/ Len(active[c].load) <= 1
    /\ pc[c] = "list" => /\ active[c].mode # "none"
                         /\ active[c].mode = "incremental" => batch[c] \in 1 .. Len(active[c].load)
    /\ pc[c] \in {"delete", "forget"} => gone[c] \subseteq Scope(active[c])
    /\ pc[c] \in Giving => late \cap Scope(active[c]) = {}
    /\ pc[c] \in {"touch", "record"} => todo[c] \subseteq Batch(c)
    /\ pc[c] \in {"touch", "add"} => new[c] \subseteq Batch(c) /\ Batch(c) \ new[c] \subseteq Has
    /\ pc[c] = "touch" => todo[c] \cap new[c] = {}
    /\ pc[c] = "record" => Batch(c) \subseteq Has

KInv == /\ TInv
        /\ Disjoint
        /\ Awaited
        /\ \A c \in Calls : Local(c)
        /\ KeysHaveDocuments

LEMMA WantInScope == ASSUME NEW job \in Jobs, NEW i \in 1 .. Len(job.load)
                     PROVE  job.load[i] \subseteq Scope(job)
<1>1. job.load \in Seq(SUBSET Docs) /\ job.mode # "remove"
  BY IndexingAssumption
<1>2. job.load[i] \subseteq Want(job) /\ job.load[i] \subseteq Docs
  BY <1>1 DEF Want, Store!Want
<1>3. job.mode \in {"none", "full", "incremental", "remove"}
  BY IndexingAssumption
<1> QED
  BY <1>1, <1>2, <1>3 DEF Scope, Store!Scope, Want

LEMMA BatchInScope == ASSUME TInv, NEW c \in Calls, pc[c] \in Giving
                      PROVE  Batch(c) \subseteq Scope(active[c])
<1>1. active[c] \in Jobs /\ batch[c] \in 1 .. Len(active[c].load)
  BY Jobbed DEF TInv, TypeOK, Giving
<1> QED
  BY <1>1, WantInScope DEF Batch

LEMMA StaleInScope ==
    ASSUME TInv, NEW c \in Calls, pc[c] = "list",
           active[c].mode = "incremental" => batch[c] \in 1 .. Len(active[c].load),
           active[c].mode # "none"
    PROVE  Stale(c) \subseteq Scope(active[c])
<1>1. active[c] \in Jobs
  BY Jobbed
<1>2. active[c].mode \in {"none", "full", "incremental", "remove"}
  BY <1>1, IndexingAssumption
<1>3. CASE active[c].mode = "full"
  BY <1>3 DEF Stale, Scope, Store!Scope, Keys
<1>4. CASE active[c].mode = "incremental"
  <2>1. Batch(c) \subseteq Want(active[c])
    BY <1>4 DEF Batch, Want, Store!Want
  <2> QED
    BY <1>4, <2>1 DEF Stale, Scope, Store!Scope, Keys, Want
<1>5. CASE active[c].mode = "remove"
  BY <1>5 DEF Stale, Scope, Store!Scope, Keys
<1> QED
  BY <1>2, <1>3, <1>4, <1>5

\* A step of one call changes nothing for another one.
LEMMA Others ==
    ASSUME KInv, NEW c \in Calls, NEW b \in Calls \ {c}, pc[c] # "idle",
           pc'[b] = pc[b], active'[b] = active[b], batch'[b] = batch[b], new'[b] = new[b],
           todo'[b] = todo[b], gone'[b] = gone[b], UNCHANGED awaits,
           Has \ Scope(active[c]) \subseteq Has', late' \ Scope(active[c]) \subseteq late
    PROVE  Local(b)'
<1>1. CASE pc[b] = "idle"
  BY <1>1 DEF Local, Giving
<1>2. CASE pc[b] # "idle"
  <2>1. Scope(active[b]) \cap Scope(active[c]) = {}
    BY <1>2 DEF KInv, Disjoint
  <2>2. pc[b] \in Giving => Batch(b) \subseteq Scope(active[b])
    BY BatchInScope DEF KInv
  <2>3. Local(b)
    BY DEF KInv
  <2>4. Scope(active'[b]) = Scope(active[b]) /\ Batch(b)' = Batch(b)
    BY DEF Batch
  <2> QED
    BY <2>1, <2>2, <2>3, <2>4 DEF Local, Giving
<1> QED
  BY <1>1, <1>2

\* Only call c moves.
Mine(c) == \A b \in Calls \ {c} :
    /\ pc'[b] = pc[b] /\ active'[b] = active[b] /\ batch'[b] = batch[b]
    /\ new'[b] = new[b] /\ todo'[b] = todo[b] /\ gone'[b] = gone[b]
    /\ start'[b] = start[b] /\ at'[b] = at[b]

\* A step within a job keeps the invariant when it does so for its own call and its own scope.
LEMMA Within ==
    ASSUME KInv, TInv', NEW c \in Calls, pc[c] # "idle", pc'[c] # "idle", Mine(c),
           UNCHANGED <<active, awaits>>, Local(c)', Awaited', KeysHaveDocuments',
           Has \ Scope(active[c]) \subseteq Has', late' \ Scope(active[c]) \subseteq late
    PROVE  KInv'
<1>1. \A b \in Calls \ {c} : Local(b)'
  BY Others DEF Mine
<1>2. Disjoint'
  <2> SUFFICES ASSUME NEW a \in Calls, NEW b \in Calls, a # b, pc'[a] # "idle", pc'[b] # "idle"
               PROVE  Scope(active[a]) \cap Scope(active[b]) = {}
    BY DEF Disjoint
  <2>1. pc[a] # "idle" /\ pc[b] # "idle"
    BY DEF Mine
  <2> QED
    BY <2>1 DEF KInv, Disjoint
<1> QED
  BY <1>1, <1>2 DEF KInv

LEMMA KeysKept ==
    ASSUME KeysHaveDocuments, Keys' \subseteq Keys, Has \subseteq Has',
           \A c \in Calls : pc[c] = "forget" => pc'[c] = "forget" /\ gone'[c] = gone[c]
    PROVE  KeysHaveDocuments'
BY DEF KeysHaveDocuments, Has

LEMMA ExistsKeeps == ASSUME KInv, TInv', NEW c \in Calls, Exists(c) PROVE KInv'
<1>1. /\ pc[c] = "exists" /\ active[c] \in Jobs /\ pc[c] \in Giving /\ Local(c)
      /\ UNCHANGED <<active, awaits, store, late, broken, updatedAt, batch, gone>>
  BY Jobbed DEF KInv, Exists, Giving
<1>2. Mine(c)
  BY DEF Exists, Mine, Goto, KInv, TInv, TypeOK
<1>3. Batch(c) \subseteq Scope(active[c]) /\ Batch(c)' = Batch(c)
  BY <1>1, BatchInScope DEF KInv, Batch
<1>4. /\ new'[c] = NewDocs(c) /\ todo'[c] = Batch(c) \ NewDocs(c)
      /\ pc'[c] = IF NewDocs(c) # Batch(c) THEN "touch" ELSE IF Batch(c) # {} THEN "add" ELSE "record"
  BY DEF Exists, Goto, KInv, TInv, TypeOK
<1>5. Batch(c) \cap Keys \subseteq Has
  <2> SUFFICES ASSUME NEW d \in Batch(c) \cap Keys PROVE d \in Has
    OBVIOUS
  <2>1. ASSUME NEW b \in Calls, pc[b] = "forget", d \in gone[b] PROVE FALSE
    <3>1. b # c /\ d \in Scope(active[b]) /\ d \in Scope(active[c])
      BY <1>1, <1>3, <2>1 DEF KInv, Local
    <3> QED
      BY <1>1, <2>1, <3>1 DEF KInv, Disjoint
  <2> QED
    BY <2>1 DEF KInv, KeysHaveDocuments, Has
<1>6. Local(c)'
  BY <1>1, <1>3, <1>4, <1>5 DEF Local, NewDocs, Has, Giving
<1>7. KeysHaveDocuments'
  BY <1>1, <1>2, <1>4, KeysKept DEF KInv, Keys, Has, Mine
<1> QED
  BY <1>1, <1>2, <1>4, <1>6, <1>7, Within DEF Awaited, KInv, Has

LEMMA ReadTimeKeeps == ASSUME KInv, TInv', NEW c \in Calls, ReadTime(c) PROVE KInv'
<1>1. UNCHANGED <<active, awaits, store, late, broken, updatedAt, batch, gone, new, todo, pc>>
  BY DEF ReadTime
<1>2. \A b \in Calls : Local(b)'
  BY <1>1 DEF KInv, Local, Has, Giving, Batch
<1> QED
  BY <1>1, <1>2 DEF KInv, Disjoint, Awaited, KeysHaveDocuments, Keys

LEMMA WriteKeyKeeps == ASSUME KInv, TInv', NEW c \in Calls, WriteKey(c) PROVE KInv'
<1>1. PICK d \in todo[c] : updatedAt' = [updatedAt EXCEPT ![d] = at[c]] /\ todo' = [todo EXCEPT ![c] = @ \ {d}]
  BY DEF WriteKey
<1>2. /\ pc[c] \in {"touch", "record"} /\ Local(c)
      /\ UNCHANGED <<active, awaits, store, late, broken, batch, gone, new, pc, start, at>>
  BY DEF WriteKey, KInv
<1>3. Mine(c) /\ todo'[c] = todo[c] \ {d} /\ Keys' \subseteq Keys \cup {d}
  BY <1>1, <1>2 DEF Mine, KInv, TInv, TypeOK, Keys
<1>4. d \in Has
  BY <1>2 DEF Local
<1>5. Local(c)'
  BY <1>2, <1>3 DEF Local, Has, Giving, Batch
<1>6. KeysHaveDocuments'
  BY <1>2, <1>3, <1>4 DEF KInv, KeysHaveDocuments, Has
<1> QED
  BY <1>2, <1>3, <1>5, <1>6, Within DEF Awaited, KInv, Has

LEMMA TouchedKeeps == ASSUME KInv, TInv', NEW c \in Calls, Touched(c) PROVE KInv'
<1>1. /\ pc[c] = "touch" /\ Local(c)
      /\ UNCHANGED <<active, awaits, store, late, broken, updatedAt, batch, gone, new>>
  BY DEF Touched, KInv
<1>2. Mine(c)
  BY DEF Touched, Mine, Goto, KInv, TInv, TypeOK
<1>3. /\ todo'[c] = IF new[c] # {} THEN {} ELSE Batch(c)
      /\ pc'[c] = IF new[c] # {} THEN "add" ELSE "record"
      /\ Batch(c)' = Batch(c)
  BY <1>1 DEF Touched, Goto, KInv, TInv, TypeOK, Batch
<1>4. Local(c)'
  BY <1>1, <1>3 DEF Local, Has, Giving
<1>5. KeysHaveDocuments'
  BY <1>1, <1>2, <1>3, KeysKept DEF KInv, Keys, Has, Mine
<1> QED
  BY <1>1, <1>2, <1>3, <1>4, <1>5, Within DEF Awaited, KInv, Has

LEMMA AddKeeps == ASSUME KInv, TInv', NEW c \in Calls, Add(c) PROVE KInv'
<1>1. /\ pc[c] = "add" /\ pc[c] \in Giving /\ Local(c)
      /\ store' = store \cup new[c] /\ broken' = broken \ new[c]
      /\ UNCHANGED <<active, awaits, late, updatedAt, batch, gone, new>>
  BY DEF Add, KInv, Giving
<1>2. Mine(c)
  BY DEF Add, Mine, Goto, KInv, TInv, TypeOK
<1>3. Batch(c) \subseteq Scope(active[c]) /\ Batch(c)' = Batch(c)
  BY <1>1, BatchInScope DEF KInv, Batch
<1>4. todo'[c] = Batch(c) /\ pc'[c] = "record"
  BY DEF Add, Goto, KInv, TInv, TypeOK
<1>5. Has \subseteq Has' /\ new[c] \subseteq Has'
  BY <1>1, <1>3 DEF Has, Local
<1>6. Local(c)'
  BY <1>1, <1>3, <1>4, <1>5 DEF Local, Giving
<1>7. KeysHaveDocuments'
  BY <1>1, <1>2, <1>4, <1>5, KeysKept DEF KInv, Keys, Mine
<1> QED
  BY <1>1, <1>2, <1>4, <1>5, <1>6, <1>7, Within DEF Awaited, KInv

LEMMA RecordedKeeps == ASSUME KInv, TInv', NEW c \in Calls, Recorded(c) PROVE KInv'
<1>1. /\ pc[c] = "record" /\ pc[c] \in Giving /\ active[c] \in Jobs /\ Local(c)
      /\ UNCHANGED <<active, awaits, store, late, broken, updatedAt, gone, new, todo>>
  BY Jobbed DEF Recorded, KInv, Giving
<1>2. Mine(c)
  BY DEF Recorded, Mine, Goto, KInv, TInv, TypeOK
<1>3. batch[c] \in 1 .. Len(active[c].load) /\ batch[c] \in Nat
  BY <1>1 DEF KInv, TInv, TypeOK, Giving
<1>4. /\ active[c].mode = "incremental" => pc'[c] = "list" /\ batch'[c] = batch[c]
      /\ active[c].mode # "incremental" =>
            pc'[c] = Stage(active[c], batch[c]) /\ batch'[c] = batch[c] + 1
  BY DEF Recorded, Goto, KInv, TInv, TypeOK
<1>5. /\ Stage(active[c], batch[c]) \in {"exists", "list", "count"}
      /\ Stage(active[c], batch[c]) = "list" => active[c].mode # "none"
  BY <1>1, <1>3, StageType DEF Stage
<1>6. Local(c)'
  BY <1>1, <1>3, <1>4, <1>5 DEF Local, Giving
<1>7. KeysHaveDocuments'
  BY <1>1, <1>2, KeysKept DEF KInv, Keys, Has, Mine
<1> QED
  BY <1>1, <1>2, <1>4, <1>5, <1>6, <1>7, Within DEF Awaited, KInv, Has

LEMMA ListKeeps == ASSUME KInv, TInv', NEW c \in Calls, List(c) PROVE KInv'
<1>1. /\ pc[c] = "list" /\ Local(c)
      /\ UNCHANGED <<active, awaits, store, late, broken, updatedAt, batch, new, todo>>
  BY DEF List, KInv
<1>2. Mine(c)
  BY DEF List, Mine, Goto, KInv, TInv, TypeOK
<1>3. Stale(c) \subseteq Scope(active[c])
  BY <1>1, StaleInScope DEF KInv, Local
<1>4. \/ pc'[c] = "count"
      \/ pc'[c] = "delete" /\ gone'[c] \subseteq Stale(c)
  BY DEF List, Goto, KInv, TInv, TypeOK
<1>5. Local(c)'
  BY <1>1, <1>3, <1>4 DEF Local, Giving
<1>6. KeysHaveDocuments'
  BY <1>1, <1>2, KeysKept DEF KInv, Keys, Has, Mine
<1> QED
  BY <1>1, <1>2, <1>4, <1>5, <1>6, Within DEF Awaited, KInv, Has

LEMMA DeleteKeeps == ASSUME KInv, TInv', NEW c \in Calls, Delete(c) PROVE KInv'
<1>1. /\ pc[c] = "delete" /\ Local(c) /\ gone[c] \subseteq Scope(active[c])
      /\ UNCHANGED <<active, awaits, broken, updatedAt, batch, new, todo, gone>>
  BY DEF Delete, KInv, Local
<1>2. Mine(c) /\ pc'[c] = "forget"
  BY DEF Delete, Mine, Goto, KInv, TInv, TypeOK
<1>3. /\ Has \ gone[c] \subseteq Has' /\ late' \ gone[c] \subseteq late
      /\ Awaited'
  BY DEF Delete, Has, KInv, Awaited
<1>4. Local(c)'
  BY <1>1, <1>2 DEF Local, Giving
<1>5. KeysHaveDocuments'
  BY <1>1, <1>2, <1>3 DEF KInv, KeysHaveDocuments, Has, Mine, Keys
<1> QED
  BY <1>1, <1>2, <1>3, <1>4, <1>5, Within

LEMMA ForgetKeeps == ASSUME KInv, TInv', NEW c \in Calls, Forget(c) PROVE KInv'
<1>1. /\ pc[c] = "forget" /\ active[c] \in Jobs /\ Local(c) /\ gone[c] \subseteq Scope(active[c])
      /\ UNCHANGED <<active, awaits, store, late, new, todo>>
      /\ updatedAt' = [d \in Docs |-> IF d \in gone[c] THEN 0 ELSE updatedAt[d]]
      /\ broken' = broken \ gone[c]
  BY Jobbed DEF Forget, KInv, Local
<1>2. Mine(c)
  BY DEF Forget, Mine, Goto, KInv, TInv, TypeOK
<1>3. /\ active[c].mode = "incremental" =>
            pc'[c] = Stage(active[c], batch[c]) /\ batch'[c] = batch[c] + 1
      /\ active[c].mode # "incremental" => pc'[c] \in {"list", "count"} /\ batch'[c] = batch[c]
      /\ pc'[c] = "list" /\ active[c].mode # "incremental" => active[c].mode = "full"
  BY DEF Forget, Goto, KInv, TInv, TypeOK
<1>4. Len(active[c].load) \in Nat /\ batch[c] \in Nat
  BY <1>1, IndexingAssumption DEF KInv, TInv, TypeOK
<1>5. /\ active[c].mode = "incremental" => Stage(active[c], batch[c]) \in {"exists", "count"}
      /\ Stage(active[c], batch[c]) = "exists" => batch[c] < Len(active[c].load)
  BY <1>4 DEF Stage
<1>6. active[c].mode = "incremental" /\ pc'[c] = "exists" => awaits
  BY <1>1, <1>3, <1>4, <1>5 DEF Local
<1>7. Local(c)'
  BY <1>1, <1>3, <1>4, <1>5, <1>6 DEF Local, Giving, KInv, Awaited
<1>8. Has \ gone[c] \subseteq Has' /\ Keys' = Keys \ gone[c]
  BY <1>1 DEF Has, Keys, KInv, TInv, TypeOK
<1>9. KeysHaveDocuments'
  BY <1>1, <1>2, <1>8 DEF KInv, KeysHaveDocuments, Has, Mine
<1> QED
  BY <1>1, <1>2, <1>3, <1>5, <1>7, <1>8, <1>9, Within DEF Awaited, KInv

\* A call that begins apart from the others.
LEMMA BeginKeeps ==
    ASSUME KInv, TInv', Careful, NEW c \in Calls, NEW job \in Jobs, Begin(c, job)
    PROVE  KInv'
<1>1. /\ pc[c] = "idle" /\ Apart(job)
      /\ UNCHANGED <<awaits, store, late, broken, updatedAt, new, todo, gone>>
  BY DEF Begin
<1>2. Mine(c) /\ active'[c] = job /\ pc'[c] = Stage(job, 0) /\ batch'[c] = 1
  BY DEF Begin, Mine, Goto, KInv, TInv, TypeOK
<1>3. /\ Stage(job, 0) \in {"exists", "list", "count"}
      /\ Stage(job, 0) = "list" => job.mode \in {"full", "remove"}
  BY StageType DEF Stage
<1>4. \A b \in Calls : pc[b] # "idle" => active[b] # None
  BY Jobbed DEF KInv
<1>5. Disjoint'
  BY <1>1, <1>2, <1>4 DEF KInv, Disjoint, Apart, Mine
<1>6. Local(c)'
  BY <1>1, <1>2, <1>3 DEF Local, Apart, Giving
<1>7. \A b \in Calls \ {c} : Local(b)'
  <2> SUFFICES ASSUME NEW b \in Calls \ {c} PROVE Local(b)'
    OBVIOUS
  <2>1. Local(b) /\ Batch(b)' = Batch(b) /\ Has' = Has
    BY <1>1, <1>2 DEF KInv, Mine, Batch, Has
  <2> QED
    BY <1>1, <1>2, <2>1 DEF Mine, Local, Giving
<1>8. KeysHaveDocuments'
  BY <1>1, <1>2, KeysKept DEF KInv, Keys, Has, Mine
<1> QED
  BY <1>1, <1>5, <1>6, <1>7, <1>8 DEF KInv, Awaited

\* A call that ends, well or not.
LEMMA OverKeeps ==
    ASSUME KInv, TInv', NEW c \in Calls, pc[c] # "idle", Over(c), UNCHANGED awaits, Awaited',
           KeysHaveDocuments', Has \ Scope(active[c]) \subseteq Has',
           late' \ Scope(active[c]) \subseteq late
    PROVE  KInv'
<1>1. Mine(c) /\ pc'[c] = "idle"
  BY DEF Over, Mine, Goto, KInv, TInv, TypeOK
<1>2. \A b \in Calls \ {c} : Local(b)'
  BY <1>1, Others DEF Mine
<1>3. Local(c)'
  BY <1>1 DEF Local, Giving
<1>4. Disjoint'
  BY <1>1 DEF Mine, KInv, Disjoint
<1> QED
  BY <1>2, <1>3, <1>4 DEF KInv

LEMMA FinishKeeps == ASSUME KInv, TInv', NEW c \in Calls, Finish(c) PROVE KInv'
<1>1. pc[c] = "count" /\ Over(c) /\ UNCHANGED <<awaits, store, late, broken, updatedAt>>
  BY DEF Finish
<1>2. Mine(c)
  BY <1>1 DEF Over, Mine, Goto, KInv, TInv, TypeOK
<1>3. KeysHaveDocuments'
  BY <1>1, <1>2, KeysKept DEF KInv, Keys, Has, Mine
<1> QED
  BY <1>1, <1>3, OverKeeps DEF KInv, Awaited, Has

LEMMA FailKeeps == ASSUME KInv, TInv', NEW c \in Calls, Fail(c) PROVE KInv'
<1> DEFINE cut == IF pc[c] \in {"delete", "forget"} THEN gone[c] ELSE {}
<1>1. /\ pc[c] # "idle" /\ Over(c) /\ UNCHANGED <<awaits, late, updatedAt>>
      /\ broken' = (broken \cup cut) \ (store' \ late)
  BY DEF Fail
<1>2. Mine(c) /\ Local(c)
  BY <1>1 DEF Over, Mine, Goto, KInv, TInv, TypeOK
<1>3. cut \subseteq Scope(active[c])
  BY <1>2 DEF Local
<1>4. store \ cut \subseteq store'
  BY DEF Fail
<1>5. Has \subseteq Has' /\ cut \subseteq Has'
  BY <1>1, <1>4 DEF Has
<1>6. KeysHaveDocuments'
  <2> SUFFICES ASSUME NEW d \in Keys
               PROVE  d \in Has' \/ \E b \in Calls : pc'[b] = "forget" /\ d \in gone'[b]
    BY <1>1 DEF KeysHaveDocuments, Keys, Has
  <2>1. CASE d \in Has
    BY <1>5, <2>1
  <2>2. ASSUME NEW b \in Calls, pc[b] = "forget", d \in gone[b] PROVE d \in Has' \/ (pc'[b] = "forget" /\ d \in gone'[b])
    BY <1>2, <1>5, <2>2 DEF Mine
  <2> QED
    BY <2>1, <2>2 DEF KInv, KeysHaveDocuments, Has
<1> HIDE DEF cut
<1> QED
  BY <1>1, <1>5, <1>6, OverKeeps DEF KInv, Awaited

LEMMA NextKeeps == ASSUME Careful, KInv, [Next]_vars PROVE KInv'
<1>1. TInv'
  BY NextTyped DEF KInv
<1>2. ASSUME NEW c \in Calls, Work(c) PROVE KInv'
  BY <1>1, <1>2, ExistsKeeps, ReadTimeKeeps, WriteKeyKeeps, TouchedKeeps, AddKeeps, RecordedKeeps,
     ListKeeps, DeleteKeeps, ForgetKeeps, FinishKeeps DEF Work
<1>3. ASSUME NEW c \in Calls, Fail(c) PROVE KInv'
  BY <1>1, <1>3, FailKeeps
<1>4. ASSUME NEW c \in Calls, NEW job \in Jobs, Begin(c, job) PROVE KInv'
  BY <1>1, <1>4, BeginKeeps
<1>5. ASSUME NEW d \in Docs, Arrive(d) PROVE KInv'
  <2>1. /\ UNCHANGED <<awaits, active, local, broken, updatedAt>>
        /\ Has' = Has /\ late' \subseteq late /\ Awaited' /\ store' \ late' = store \ late
    BY <1>5 DEF Arrive, Has, KInv, Awaited
  <2>2. \A c \in Calls : Local(c)'
    BY <2>1 DEF local, KInv, Local, Giving, Batch
  <2> QED
    BY <1>1, <2>1, <2>2 DEF local, KInv, Disjoint, KeysHaveDocuments, Keys
<1>6. CASE Tick \/ UNCHANGED vars
  <2>1. UNCHANGED <<awaits, active, pc, batch, new, todo, gone, broken, updatedAt, store, late>>
    BY <1>6 DEF Tick, local, vars
  <2>2. \A c \in Calls : Local(c)'
    BY <2>1 DEF KInv, Local, Giving, Batch, Has
  <2> QED
    BY <1>1, <2>1, <2>2 DEF KInv, Disjoint, Awaited, KeysHaveDocuments, Keys
<1> QED
  BY <1>2, <1>3, <1>4, <1>5, <1>6 DEF Next

LEMMA InitKeeps == Init => KInv
<1> SUFFICES ASSUME Init PROVE KInv
  OBVIOUS
<1>1. \A c \in Calls : pc[c] = "idle"
  BY DEF Init
<1> QED
  BY <1>1, InitTyped DEF Init, KInv, Disjoint, Awaited, Local, Giving, KeysHaveDocuments, Keys

\* index() may take a key's word for its document: while calls keep apart as in Apart, a key
\* without a document in the store is one that is about to be deleted, or that was when a
\* call failed between its two deletions; for all documents, jobs, batches and calls.
THEOREM KeysTell == Careful => (Spec => []KeysHaveDocuments)
<1> SUFFICES ASSUME Careful PROVE Spec => []KeysHaveDocuments
  OBVIOUS
<1>1. KInv => KeysHaveDocuments
  BY DEF KInv
<1> QED
  BY <1>1, InitKeeps, NextKeeps, PTL DEF Spec

-----------------------------------------------------------------------------
(* What a call has done to its scope *)

Content  == store \ late
Clearing == {"list", "delete", "forget"}

\* Call c has given batch k of its load: its documents are there and their keys are stamped.
Given(c, k) == k < batch[c] \/ (k = batch[c] /\ pc[c] \in Clearing)

\* Document d is one that the job takes away: it is not given, or an earlier batch of the
\* same source clears it before it is.
Clears(job, d) ==
    /\ d \in Scope(job)
    /\ \/ job.mode \in {"full", "remove"} /\ d \notin Want(job)
       \/ /\ job.mode = "incremental"
          /\ \E k \in 1 .. Len(job.load) :
                /\ \E e \in job.load[k] : SourceOf[e] = SourceOf[d]
                /\ \A m \in 1 .. k : d \notin job.load[m]

Timed(c) == /\ start[c] \in 1 .. clock
            /\ pc[c] \in {"touch", "record"} /\ at[c] # 0 => at[c] >= start[c]

\* What was given bears a stamp of this call ...
Stamped(c) ==
    /\ \A k \in 1 .. Len(active[c].load) :
          Given(c, k) => \A d \in active[c].load[k] : updatedAt[d] >= start[c]
    /\ pc[c] = "record" => \A d \in Batch(c) \ todo[c] : updatedAt[d] >= start[c]

\* ... and nothing else of its scope does.
Fresh(c) == \A d \in Scope(active[c]) : updatedAt[d] >= start[c] =>
                \E k \in 1 .. Len(active[c].load) : k <= batch[c] /\ d \in active[c].load[k]

\* What the call deletes is stale, and all that is unless it goes by limited numbers.
Listed(c) ==
    /\ pc[c] \in Clearing =>
          active[c].mode # "none" /\ (active[c].mode = "incremental" <=> batch[c] <= Len(active[c].load))
    /\ pc[c] \in {"delete", "forget"} => /\ gone[c] \subseteq Stale(c)
                                         /\ active[c].mode # "full" => gone[c] = Stale(c)
    /\ pc[c] = "forget" => gone[c] \cap Content = {}

Counted(c) == pc[c] = "count" =>
    /\ batch[c] > Len(active[c].load)
    /\ active[c].mode = "full" => \A d \in Keys : updatedAt[d] >= start[c]
    /\ active[c].mode = "remove" => Keys \cap Scope(active[c]) = {}

\* The sources of the batches that incremental cleanup is done with are clean.
Swept(c) == active[c].mode = "incremental" =>
    \A k \in 1 .. Len(active[c].load) : k < batch[c] =>
        \A d \in Docs : (\E e \in active[c].load[k] : SourceOf[e] = SourceOf[d]) =>
            /\ d \in Keys => updatedAt[d] >= start[c]
            /\ d \in broken => \E m \in 1 .. k : d \in active[c].load[m]

Progress(c) == pc[c] # "idle" =>
    Timed(c) /\ Stamped(c) /\ Fresh(c) /\ Listed(c) /\ Counted(c) /\ Swept(c)

\* A document whose deletion was cut in two has its key still, and a job failed that would
\* have taken it away.
Blamed == \A d \in broken : d \in Keys /\ (\E f \in failed : Clears(f, d))

\* A document without a key is about to get one, or a job failed that gave it.
Unkeyed == \A d \in Content :
    \/ d \in Keys
    \/ \E c \in Calls : pc[c] = "record" /\ d \in todo[c]
    \/ \E f \in failed : d \in Want(f)

PInv == /\ KInv
        /\ \A c \in Calls : Progress(c)
        /\ Blamed
        /\ Unkeyed

LEMMA JobFacts == ASSUME NEW job \in Jobs
                  PROVE  /\ job.mode \in {"none", "full", "incremental", "remove"}
                         /\ Len(job.load) \in Nat
                         /\ \A k \in 1 .. Len(job.load) : job.load[k] \subseteq Docs
                         /\ job.mode = "remove" => Len(job.load) = 0
                         /\ Scope(job) \subseteq Docs
                         /\ job.mode = "full" => Scope(job) = Docs
                         /\ job.mode = "remove" => Scope(job) = {d \in Docs : LoaderOf[d] = job.loader}
                         /\ job.mode = "none" => Scope(job) = Want(job)
<1>1. /\ job.mode \in {"none", "full", "incremental", "remove"} /\ job.load \in Seq(SUBSET Docs)
      /\ job.mode = "remove" => job.load = <<>>
  BY IndexingAssumption
<1>2. Want(job) \subseteq Docs
  BY <1>1 DEF Want, Store!Want
<1> QED
  BY <1>1, <1>2 DEF Scope, Store!Scope, Want

LEMMA WantIs == ASSUME NEW job \in Jobs
                PROVE  \A d : d \in Want(job) <=> \E k \in 1 .. Len(job.load) : d \in job.load[k]
BY DEF Want, Store!Want

\* The documents that share a source with one that incremental cleanup is given are in its scope.
LEMMA SourceInScope ==
    ASSUME NEW job \in Jobs, job.mode = "incremental", NEW k \in 1 .. Len(job.load),
           NEW e \in job.load[k], NEW d \in Docs, SourceOf[e] = SourceOf[d]
    PROVE  d \in Scope(job)
<1>1. e \in Want(job)
  BY WantIs
<1> QED
  BY <1>1 DEF Scope, Store!Scope, Want

\* ... and they are all there is to it.
LEMMA ScopeHasSource ==
    ASSUME NEW job \in Jobs, job.mode = "incremental", NEW d \in Scope(job)
    PROVE  d \in Docs /\ \E k \in 1 .. Len(job.load) : \E e \in job.load[k] : SourceOf[e] = SourceOf[d]
<1>1. d \in Docs /\ \E e \in Want(job) : SourceOf[e] = SourceOf[d]
  BY DEF Scope, Store!Scope, Want
<1> QED
  BY <1>1, WantIs

LEMMA StaleFacts ==
    ASSUME TInv, NEW c \in Calls, Local(c), Listed(c), pc[c] \in Clearing
    PROVE  /\ Stale(c) \subseteq Scope(active[c])
           /\ Stale(c) \subseteq Keys
           /\ active[c].mode \in {"full", "incremental"} => \A d \in Stale(c) : updatedAt[d] < start[c]
<1>1. active[c] \in Jobs
  BY Jobbed DEF Clearing
<1>2. /\ active[c].mode \in {"full", "incremental", "remove"}
      /\ active[c].mode = "incremental" => batch[c] \in 1 .. Len(active[c].load)
  BY <1>1, JobFacts DEF Listed, Local, TInv, TypeOK, Clearing
<1>3. Keys \subseteq Docs
  BY DEF Keys
<1>4. CASE active[c].mode = "full"
  BY <1>1, <1>3, <1>4, JobFacts DEF Stale
<1>5. CASE active[c].mode = "incremental"
  <2>1. \A d \in Stale(c) : d \in Keys /\ updatedAt[d] < start[c] /\ \E e \in Batch(c) : SourceOf[e] = SourceOf[d]
    BY <1>5 DEF Stale
  <2> QED
    BY <1>1, <1>2, <1>3, <1>5, <2>1, SourceInScope DEF Batch
<1>6. CASE active[c].mode = "remove"
  BY <1>1, <1>3, <1>6, JobFacts DEF Stale
<1> QED
  BY <1>2, <1>4, <1>5, <1>6

\* What a call has done stays done while nothing happens in its scope.
LEMMA ProgressFrame ==
    ASSUME TInv, TInv', NEW b \in Calls, Local(b), Progress(b), clock' >= clock,
           pc'[b] = pc[b], active'[b] = active[b], batch'[b] = batch[b], start'[b] = start[b],
           at'[b] = at[b], todo'[b] = todo[b], gone'[b] = gone[b],
           \A d \in Scope(active[b]) : /\ updatedAt'[d] = updatedAt[d]
                                       /\ d \in broken' => d \in broken
                                       /\ d \in Content' => d \in Content
    PROVE  Progress(b)'
<1> SUFFICES ASSUME pc[b] # "idle" PROVE Progress(b)'
  BY DEF Progress
<1>1. active[b] \in Jobs
  BY Jobbed
<1>2. /\ \A k \in 1 .. Len(active[b].load) : active[b].load[k] \subseteq Scope(active[b])
      /\ Scope(active[b]) \subseteq Docs
      /\ Scope(active[b])' = Scope(active[b])
  BY <1>1, WantInScope, JobFacts
<1>3. \A d \in Scope(active[b]) : d \in Keys' <=> d \in Keys
  BY <1>2 DEF Keys
<1>4. Timed(b)'
  BY DEF Progress, Timed, TInv, TypeOK
<1>5. Stamped(b)'
  <2>1. pc[b] \in Giving => batch[b] \in 1 .. Len(active[b].load)
    BY DEF TInv, TypeOK, Giving
  <2> QED
    BY <1>2, <2>1 DEF Progress, Stamped, Given, Batch, Giving
<1>6. Fresh(b)'
  BY <1>2 DEF Progress, Fresh
<1>7. Listed(b)'
  <2> SUFFICES ASSUME pc[b] \in Clearing PROVE Listed(b)'
    BY DEF Listed, Clearing
  <2>1. Listed(b) /\ Batch(b)' = Batch(b) /\ Keys \subseteq Docs /\ Keys' \subseteq Docs
    BY DEF Progress, Batch, Keys
  <2>2. active[b].mode = "incremental" => batch[b] \in 1 .. Len(active[b].load)
    BY <1>1, <2>1, JobFacts DEF Listed, Local, TInv, TypeOK, Clearing
  <2>3. active[b].mode \in {"full", "incremental", "remove"}
    BY <1>1, <2>1, JobFacts DEF Listed
  <2>4. CASE active[b].mode = "full"
    BY <1>1, <1>2, <1>3, <2>1, <2>4, JobFacts DEF Listed, Stale, Clearing
  <2>5. CASE active[b].mode = "incremental"
    <3>1. \A d \in Docs : (\E e \in Batch(b) : SourceOf[e] = SourceOf[d]) => d \in Scope(active[b])
      BY <1>1, <2>2, <2>5, SourceInScope DEF Batch
    <3>2. Stale(b)' = Stale(b)
      BY <1>3, <2>1, <2>5, <3>1 DEF Stale
    <3>3. gone[b] \cap Content = {} => gone'[b] \cap Content' = {} \/ pc[b] # "forget"
      BY <1>2, <2>1, <3>1, <3>2, <2>5 DEF Listed, Stale
    <3> QED
      BY <2>1, <3>2, <3>3 DEF Listed
  <2>6. CASE active[b].mode = "remove"
    BY <1>1, <1>2, <1>3, <2>1, <2>6, JobFacts DEF Listed, Stale, Clearing
  <2> QED
    BY <2>3, <2>4, <2>5, <2>6
<1>8. Counted(b)'
  BY <1>1, <1>2, <1>3, JobFacts DEF Progress, Counted, Keys
<1>9. Swept(b)'
  <2>1. active[b].mode = "incremental" => \A k \in 1 .. Len(active[b].load) : \A d \in Docs :
          (\E e \in active[b].load[k] : SourceOf[e] = SourceOf[d]) => d \in Scope(active[b])
    BY <1>1, SourceInScope
  <2> QED
    BY <1>3, <2>1 DEF Progress, Swept
<1> QED
  BY <1>4, <1>5, <1>6, <1>7, <1>8, <1>9 DEF Progress

\* A step of one call keeps the invariant when it does so for its own call and changes nothing
\* outside its scope.
LEMMA StepFrame ==
    ASSUME PInv, KInv', NEW c \in Calls, pc[c] # "idle", Mine(c), UNCHANGED clock,
           \A d \in Docs \ Scope(active[c]) : /\ updatedAt'[d] = updatedAt[d]
                                              /\ d \in broken' => d \in broken
                                              /\ d \in Content' => d \in Content,
           Progress(c)', Blamed', Unkeyed'
    PROVE  PInv'
<1>1. ASSUME NEW b \in Calls \ {c}, pc[b] # "idle" PROVE Progress(b)'
  <2>1. Scope(active[b]) \cap Scope(active[c]) = {} /\ Local(b) /\ Progress(b)
    BY <1>1 DEF PInv, KInv, Disjoint
  <2>2. Scope(active[b]) \subseteq Docs
    BY <1>1, Jobbed, JobFacts DEF PInv, KInv
  <2>3. TInv /\ TInv'
    BY DEF PInv, KInv
  <2>4. clock' >= clock
    BY <2>3 DEF TInv, TypeOK
  <2> QED
    BY <2>1, <2>2, <2>3, <2>4, ProgressFrame DEF Mine
<1>2. ASSUME NEW b \in Calls \ {c}, pc[b] = "idle" PROVE Progress(b)'
  BY <1>2 DEF Progress, Mine
<1> QED
  BY <1>1, <1>2 DEF PInv

LEMMA BlamedKept == ASSUME Blamed, broken' \subseteq broken, Keys \cap broken' \subseteq Keys', failed \subseteq failed'
                    PROVE  Blamed'
BY DEF Blamed

\* A step that gives documents without stamping any.
LEMMA GivingStep ==
    ASSUME PInv, KInv', NEW c \in Calls, pc[c] \in Giving, pc'[c] \in Giving, Mine(c),
           UNCHANGED <<clock, active, updatedAt>>, batch'[c] = batch[c], start'[c] = start[c],
           failed \subseteq failed', broken' \subseteq broken,
           at'[c] = 0 \/ at'[c] >= start[c],
           pc'[c] = "record" => \A d \in Batch(c) \ todo'[c] : updatedAt[d] >= start[c],
           \A d \in Content' : d \in Content \/ (d \in Scope(active[c]) /\ pc'[c] = "record" /\ d \in todo'[c]),
           pc[c] = "record" => pc'[c] = "record" /\ todo'[c] = todo[c]
    PROVE  PInv'
<1>1. pc[c] # "idle" /\ pc'[c] # "idle" /\ pc[c] \notin Clearing /\ pc'[c] \notin Clearing
  BY DEF Giving, Clearing
<1>2. Progress(c) /\ Timed(c) /\ Stamped(c) /\ Fresh(c) /\ Swept(c)
  BY <1>1 DEF PInv, Progress
<1>3. Batch(c)' = Batch(c) /\ Keys' = Keys
  BY DEF Batch, Keys
<1>4. Timed(c)'
  BY <1>2 DEF Timed
<1>5. Stamped(c)'
  BY <1>1, <1>2, <1>3 DEF Stamped, Given
<1>6. Fresh(c)' /\ Swept(c)'
  BY <1>2, <1>3 DEF Fresh, Swept
<1>7. Listed(c)' /\ Counted(c)'
  BY <1>1 DEF Listed, Counted, Giving, Clearing
<1>8. Progress(c)'
  BY <1>4, <1>5, <1>6, <1>7 DEF Progress
<1>9. Blamed'
  BY <1>3, BlamedKept DEF PInv
<1>10. Unkeyed'
  BY <1>3 DEF PInv, Unkeyed, Mine
<1> QED
  BY <1>1, <1>8, <1>9, <1>10, StepFrame

LEMMA ExistsProgress == ASSUME PInv, KInv', NEW c \in Calls, Exists(c) PROVE PInv'
<1>1. /\ pc[c] = "exists" /\ UNCHANGED <<clock, active, updatedAt, batch, start, failed, broken, store, late>>
  BY DEF Exists
<1>2. Mine(c)
  BY DEF Exists, Mine, Goto, PInv, KInv, TInv, TypeOK
<1>3. /\ pc'[c] = IF NewDocs(c) # Batch(c) THEN "touch" ELSE IF Batch(c) # {} THEN "add" ELSE "record"
      /\ at'[c] = 0
  BY DEF Exists, Goto, PInv, KInv, TInv, TypeOK
<1>4. pc'[c] \in Giving /\ (pc'[c] = "record" => Batch(c) = {})
  BY <1>3 DEF Giving
<1> QED
  BY <1>1, <1>2, <1>3, <1>4, GivingStep DEF Giving, Content

LEMMA ReadTimeProgress == ASSUME PInv, KInv', NEW c \in Calls, ReadTime(c) PROVE PInv'
<1>1. /\ pc[c] \in Giving /\ at' = [at EXCEPT ![c] = clock]
      /\ UNCHANGED <<clock, active, pc, updatedAt, batch, start, failed, broken, store, late, new, todo, gone>>
  BY DEF ReadTime, Giving
<1>2. Mine(c) /\ at'[c] = clock
  BY <1>1 DEF Mine, PInv, KInv, TInv, TypeOK
<1>3. Timed(c) /\ Stamped(c)
  BY <1>1 DEF PInv, Progress, Giving
<1>4. clock >= start[c] /\ (pc[c] = "record" => \A d \in Batch(c) \ todo[c] : updatedAt[d] >= start[c])
  BY <1>3 DEF Timed, Stamped, PInv, KInv, TInv, TypeOK
<1> QED
  BY <1>1, <1>2, <1>4, GivingStep DEF Content

LEMMA TouchedProgress == ASSUME PInv, KInv', NEW c \in Calls, Touched(c) PROVE PInv'
<1>1. pc[c] = "touch" /\ UNCHANGED <<clock, active, updatedAt, batch, start, failed, broken, store, late>>
  BY DEF Touched
<1>2. Mine(c)
  BY DEF Touched, Mine, Goto, PInv, KInv, TInv, TypeOK
<1>3. /\ todo'[c] = IF new[c] # {} THEN {} ELSE Batch(c)
      /\ pc'[c] = IF new[c] # {} THEN "add" ELSE "record"
      /\ at'[c] = 0
  BY DEF Touched, Goto, PInv, KInv, TInv, TypeOK
<1> QED
  BY <1>1, <1>2, <1>3, GivingStep DEF Giving, Content

LEMMA AddProgress == ASSUME PInv, KInv', NEW c \in Calls, Add(c) PROVE PInv'
<1>1. /\ pc[c] = "add" /\ store' = store \cup new[c] /\ broken' = broken \ new[c]
      /\ UNCHANGED <<clock, active, updatedAt, batch, start, failed, late>>
  BY DEF Add
<1>2. Mine(c)
  BY DEF Add, Mine, Goto, PInv, KInv, TInv, TypeOK
<1>3. todo'[c] = Batch(c) /\ pc'[c] = "record" /\ at'[c] = 0
  BY DEF Add, Goto, PInv, KInv, TInv, TypeOK
<1>4. new[c] \subseteq Batch(c) /\ Batch(c) \subseteq Scope(active[c])
  BY <1>1, BatchInScope DEF PInv, KInv, Local, Giving
<1>5. \A d \in Content' : d \in Content \/ (d \in Scope(active[c]) /\ d \in todo'[c])
  BY <1>1, <1>3, <1>4 DEF Content
<1> QED
  BY <1>1, <1>2, <1>3, <1>5, GivingStep DEF Giving

LEMMA WriteKeyProgress == ASSUME PInv, KInv', NEW c \in Calls, WriteKey(c) PROVE PInv'
<1>1. PICK d \in todo[c] : updatedAt' = [updatedAt EXCEPT ![d] = at[c]] /\ todo' = [todo EXCEPT ![c] = @ \ {d}]
  BY DEF WriteKey
<1>2. /\ pc[c] \in {"touch", "record"} /\ at[c] # 0
      /\ UNCHANGED <<active, awaits, store, late, broken, batch, gone, new, pc, start, at, clock, failed>>
  BY DEF WriteKey
<1>3. Mine(c) /\ todo'[c] = todo[c] \ {d}
  BY <1>1, <1>2 DEF Mine, PInv, KInv, TInv, TypeOK
<1>4. /\ Timed(c) /\ Stamped(c) /\ Fresh(c) /\ Swept(c) /\ Local(c)
      /\ active[c] \in Jobs /\ batch[c] \in 1 .. Len(active[c].load)
  BY <1>2, Jobbed DEF PInv, KInv, TInv, TypeOK, Progress
<1>5. /\ d \in Batch(c) /\ d \in Scope(active[c]) /\ d \in Docs
      /\ start[c] \in Nat \ {0} /\ at[c] \in Nat /\ at[c] >= start[c]
  BY <1>2, <1>4, BatchInScope, JobFacts DEF Local, Timed, PInv, KInv, TInv, TypeOK, Giving
<1>6. /\ \A e \in Docs \ {d} : updatedAt'[e] = updatedAt[e]
      /\ updatedAt'[d] = at[c] /\ updatedAt'[d] >= start[c] /\ updatedAt' \in [Docs -> Nat]
      /\ Keys' = Keys \cup {d} /\ Batch(c)' = Batch(c)
  BY <1>1, <1>2, <1>5 DEF PInv, KInv, TInv, TypeOK, Keys, Batch
<1>7. \A k \in 1 .. Len(active[c].load) : active[c].load[k] \subseteq Docs
  BY <1>4, JobFacts
<1>8. Timed(c)'
  BY <1>2, <1>4 DEF Timed
<1>9. Stamped(c)'
  BY <1>2, <1>3, <1>4, <1>5, <1>6, <1>7 DEF Stamped, Given, Batch
<1>10. Fresh(c)'
  <2>1. Scope(active[c]) \subseteq Docs
    BY <1>4, JobFacts
  <2>2. batch[c] <= batch[c]
    BY <1>4
  <2> QED
    BY <1>2, <1>4, <1>5, <1>6, <2>1, <2>2 DEF Fresh, Batch
<1>11. Swept(c)'
  BY <1>2, <1>4, <1>5, <1>6 DEF Swept
<1>12. Listed(c)' /\ Counted(c)'
  BY <1>2 DEF Listed, Counted, Clearing
<1>13. Blamed'
  BY <1>2, <1>6, BlamedKept DEF PInv
<1>14. Unkeyed'
  BY <1>2, <1>3, <1>6 DEF PInv, Unkeyed, Mine, Content
<1>15. Progress(c)'
  BY <1>8, <1>9, <1>10, <1>11, <1>12 DEF Progress
<1> QED
  BY <1>2, <1>3, <1>5, <1>6, <1>13, <1>14, <1>15, StepFrame DEF Content

LEMMA RecordedProgress == ASSUME PInv, KInv', NEW c \in Calls, Recorded(c) PROVE PInv'
<1>1. /\ pc[c] = "record" /\ todo[c] = {}
      /\ UNCHANGED <<clock, active, awaits, store, late, broken, updatedAt, gone, new, todo, start, at, failed>>
  BY DEF Recorded
<1>2. Mine(c)
  BY DEF Recorded, Mine, Goto, PInv, KInv, TInv, TypeOK
<1>3. /\ Timed(c) /\ Stamped(c) /\ Fresh(c) /\ Swept(c)
      /\ active[c] \in Jobs /\ batch[c] \in 1 .. Len(active[c].load)
  BY <1>1, Jobbed DEF PInv, KInv, TInv, TypeOK, Progress
<1>4. /\ active[c].mode = "incremental" => pc'[c] = "list" /\ batch'[c] = batch[c]
      /\ active[c].mode # "incremental" =>
            pc'[c] = Stage(active[c], batch[c]) /\ batch'[c] = batch[c] + 1
  BY DEF Recorded, Goto, PInv, KInv, TInv, TypeOK
<1>5. Len(active[c].load) \in Nat /\ batch[c] \in Nat
  BY <1>3, JobFacts
<1>6. Keys' = Keys /\ Content' = Content
  BY <1>1 DEF Keys, Content
<1>7. \A d \in active[c].load[batch[c]] : updatedAt[d] >= start[c]
  BY <1>1, <1>3 DEF Stamped, Batch
<1>8. pc'[c] \in {"exists", "list", "count"}
  BY <1>4 DEF Stage
<1>9. \A k \in 1 .. Len(active[c].load) : Given(c, k)' => k < batch[c] \/ k = batch[c]
  BY <1>3, <1>4, <1>5 DEF Given, Stage, Clearing
<1>10. Timed(c)'
  BY <1>1, <1>2, <1>3, <1>8 DEF Timed
<1>11. Stamped(c)'
  BY <1>1, <1>3, <1>7, <1>8, <1>9 DEF Stamped, Given
<1>12. Fresh(c)'
  BY <1>1, <1>3, <1>4, <1>5 DEF Fresh
<1>13. Swept(c)'
  BY <1>1, <1>3, <1>4, <1>6 DEF Swept
<1>14. Listed(c)' /\ Counted(c)'
  BY <1>1, <1>3, <1>4, <1>5 DEF Listed, Counted, Clearing, Stage
<1>15. Progress(c)'
  BY <1>10, <1>11, <1>12, <1>13, <1>14 DEF Progress
<1>16. Blamed' /\ Unkeyed'
  BY <1>1, <1>2, <1>6 DEF PInv, Blamed, Unkeyed, Mine
<1> QED
  BY <1>1, <1>2, <1>6, <1>15, <1>16, StepFrame

LEMMA ListProgress == ASSUME PInv, KInv', NEW c \in Calls, List(c) PROVE PInv'
<1>1. /\ pc[c] = "list"
      /\ UNCHANGED <<clock, active, awaits, store, late, broken, updatedAt, new, todo, start, at, batch, failed>>
  BY DEF List
<1>2. Mine(c)
  BY DEF List, Mine, Goto, PInv, KInv, TInv, TypeOK
<1>3. /\ Timed(c) /\ Stamped(c) /\ Fresh(c) /\ Swept(c) /\ Listed(c)
      /\ active[c] \in Jobs
  BY <1>1, Jobbed DEF PInv, KInv, Progress
<1>4. Keys' = Keys /\ Content' = Content /\ Stale(c)' = Stale(c)
  BY <1>1 DEF Keys, Content, Stale, Batch
<1>5. \/ /\ pc'[c] = "count" /\ active[c].mode = "full" /\ Stale(c) = {}
      \/ /\ pc'[c] = "delete" /\ gone'[c] \subseteq Stale(c)
         /\ active[c].mode # "full" => gone'[c] = Stale(c)
  BY DEF List, Goto, PInv, KInv, TInv, TypeOK
<1>6. Timed(c)' /\ Fresh(c)'
  BY <1>1, <1>2, <1>3, <1>5 DEF Timed, Fresh
<1>7. Stamped(c)'
  BY <1>1, <1>3, <1>5 DEF Stamped, Given, Clearing
<1>8. Swept(c)'
  BY <1>1, <1>3, <1>4 DEF Swept
<1>9. Listed(c)'
  BY <1>1, <1>3, <1>4, <1>5 DEF Listed, Clearing
<1>10. Counted(c)'
  <2> SUFFICES ASSUME pc'[c] = "count" PROVE Counted(c)'
    BY DEF Counted
  <2>1. active[c].mode = "full" /\ Stale(c) = {}
    BY <1>5
  <2>2. batch[c] > Len(active[c].load)
    BY <1>1, <1>3, <2>1, JobFacts DEF Listed, Clearing, PInv, KInv, TInv, TypeOK
  <2>3. \A d \in Keys : updatedAt[d] >= start[c]
    BY <2>1 DEF Stale, Keys, PInv, KInv, TInv, TypeOK
  <2> QED
    BY <1>1, <1>4, <2>1, <2>2, <2>3 DEF Counted
<1>11. Progress(c)'
  BY <1>6, <1>7, <1>8, <1>9, <1>10 DEF Progress
<1>12. Blamed' /\ Unkeyed'
  BY <1>1, <1>2, <1>4 DEF PInv, Blamed, Unkeyed, Mine
<1> QED
  BY <1>1, <1>2, <1>4, <1>11, <1>12, StepFrame

LEMMA DeleteProgress == ASSUME PInv, KInv', NEW c \in Calls, Delete(c) PROVE PInv'
<1>1. /\ pc[c] = "delete"
      /\ UNCHANGED <<clock, active, broken, updatedAt, new, todo, start, at, batch, failed, gone>>
  BY DEF Delete
<1>2. Mine(c) /\ pc'[c] = "forget"
  BY DEF Delete, Mine, Goto, PInv, KInv, TInv, TypeOK
<1>3. Timed(c) /\ Stamped(c) /\ Fresh(c) /\ Swept(c) /\ Listed(c)
  BY <1>1 DEF PInv, Progress
<1>4. /\ Keys' = Keys /\ Stale(c)' = Stale(c)
      /\ Content' \subseteq Content /\ gone[c] \cap Content' = {}
  BY <1>1 DEF Delete, Keys, Content, Stale, Batch
<1>5. Timed(c)' /\ Fresh(c)' /\ Stamped(c)' /\ Swept(c)'
  BY <1>1, <1>2, <1>3, <1>4 DEF Timed, Fresh, Stamped, Given, Clearing, Swept
<1>6. Listed(c)' /\ Counted(c)'
  BY <1>1, <1>2, <1>3, <1>4 DEF Listed, Clearing, Counted
<1>7. Progress(c)'
  BY <1>5, <1>6 DEF Progress
<1>8. Blamed' /\ Unkeyed'
  BY <1>1, <1>2, <1>4 DEF PInv, Blamed, Unkeyed, Mine
<1> QED
  BY <1>1, <1>2, <1>4, <1>7, <1>8, StepFrame

LEMMA ForgetProgress == ASSUME PInv, KInv', NEW c \in Calls, Forget(c) PROVE PInv'
<1>1. /\ pc[c] = "forget"
      /\ UNCHANGED <<clock, active, store, late, new, todo, start, at, failed>>
      /\ updatedAt' = [d \in Docs |-> IF d \in gone[c] THEN 0 ELSE updatedAt[d]]
      /\ broken' = broken \ gone[c]
  BY DEF Forget
<1>2. Mine(c) /\ gone'[c] = {}
  BY DEF Forget, Mine, Goto, PInv, KInv, TInv, TypeOK
<1>3. /\ Timed(c) /\ Stamped(c) /\ Fresh(c) /\ Swept(c) /\ Listed(c) /\ Local(c)
      /\ active[c] \in Jobs
  BY <1>1, Jobbed DEF PInv, KInv, Progress
<1> DEFINE job == active[c]
           N == Len(active[c].load)
<1>4. /\ job.mode = "incremental" => pc'[c] = Stage(job, batch[c]) /\ batch'[c] = batch[c] + 1
      /\ job.mode = "full" => pc'[c] = "list" /\ batch'[c] = batch[c]
      /\ job.mode = "remove" => pc'[c] = "count" /\ batch'[c] = batch[c]
  BY DEF Forget, Goto, PInv, KInv, TInv, TypeOK
<1>5. /\ N \in Nat /\ batch[c] \in Nat /\ job.mode \in {"full", "incremental", "remove"}
      /\ job.mode = "incremental" => batch[c] \in 1 .. N
      /\ job.mode # "incremental" => batch[c] > N
      /\ \A k \in 1 .. N : job.load[k] \subseteq Docs
      /\ job.mode = "remove" => N = 0
      /\ Scope(job) \subseteq Docs
  BY <1>1, <1>3, JobFacts DEF Listed, Clearing, PInv, KInv, TInv, TypeOK, Local
<1>6. /\ gone[c] \subseteq Stale(c) /\ (job.mode # "full" => gone[c] = Stale(c)) /\ gone[c] \cap Content = {}
      /\ gone[c] \subseteq Scope(job) /\ gone[c] \subseteq Keys
      /\ job.mode \in {"full", "incremental"} => \A d \in gone[c] : updatedAt[d] < start[c]
  BY <1>1, <1>3, StaleFacts DEF Listed, Clearing, PInv, KInv
<1>7. /\ Content' = Content /\ Keys' = Keys \ gone[c]
      /\ start[c] \in Nat \ {0} /\ updatedAt \in [Docs -> Nat]
      /\ \A d \in Docs : updatedAt'[d] = IF d \in gone[c] THEN 0 ELSE updatedAt[d]
  BY <1>1, <1>3 DEF Content, Keys, PInv, KInv, TInv, TypeOK, Timed
<1>8. pc'[c] \in {"exists", "list", "count"}
  BY <1>4, <1>5 DEF Stage
<1>9. \A k \in 1 .. N : Given(c, k)' => Given(c, k)
  BY <1>1, <1>4, <1>5, <1>8 DEF Given, Clearing, Stage
<1>10. Timed(c)'
  BY <1>1, <1>2, <1>3, <1>8 DEF Timed
<1>11. Stamped(c)'
  <2> SUFFICES ASSUME NEW k \in 1 .. N, Given(c, k), NEW d \in job.load[k] PROVE updatedAt'[d] >= start[c]
    BY <1>1, <1>8, <1>9 DEF Stamped
  <2>1. updatedAt[d] >= start[c] /\ d \in Docs
    BY <1>3, <1>5 DEF Stamped
  <2>2. d \notin gone[c]
    BY <1>5, <1>6, <1>7, <2>1
  <2> QED
    BY <1>7, <2>1, <2>2
<1>12. Fresh(c)'
  <2> SUFFICES ASSUME NEW d \in Scope(job), updatedAt'[d] >= start[c]
               PROVE  \E k \in 1 .. N : k <= batch'[c] /\ d \in job.load[k]
    BY <1>1 DEF Fresh
  <2>1. updatedAt[d] >= start[c]
    BY <1>5, <1>7
  <2>2. batch[c] <= batch'[c]
    BY <1>4, <1>5
  <2> QED
    BY <1>3, <1>4, <1>5, <2>1 DEF Fresh
<1>13. Swept(c)'
  <2> SUFFICES ASSUME job.mode = "incremental", NEW k \in 1 .. N, k < batch'[c], NEW d \in Docs,
                      NEW e \in job.load[k], SourceOf[e] = SourceOf[d]
               PROVE  /\ d \in Keys' => updatedAt'[d] >= start[c]
                      /\ d \in broken' => \E m \in 1 .. k : d \in job.load[m]
    BY <1>1 DEF Swept
  <2>1. CASE k < batch[c]
    BY <1>1, <1>3, <1>7, <2>1 DEF Swept
  <2>2. CASE k = batch[c]
    <3>1. d \in Keys /\ updatedAt[d] < start[c] => d \in gone[c]
      BY <1>6, <2>2 DEF Stale, Batch
    <3>2. d \in Keys' => updatedAt'[d] >= start[c]
      BY <1>7, <3>1
    <3>3. ASSUME d \in broken' PROVE \E m \in 1 .. k : d \in job.load[m]
      <4>1. d \in Keys /\ d \notin gone[c]
        BY <1>1, <3>3 DEF PInv, Blamed
      <4>2. updatedAt[d] >= start[c] /\ d \in Scope(job)
        BY <1>3, <1>7, <3>1, <4>1, SourceInScope
      <4> QED
        BY <1>3, <1>5, <2>2, <4>2 DEF Fresh
    <3> QED
      BY <3>2, <3>3
  <2> QED
    BY <1>4, <1>5, <2>1, <2>2
<1>14. Listed(c)'
  BY <1>1, <1>4, <1>5, <1>8 DEF Listed, Clearing, Stage
<1>15. Counted(c)'
  <2> SUFFICES ASSUME pc'[c] = "count" PROVE Counted(c)'
    BY DEF Counted
  <2>1. batch'[c] > N /\ job.mode # "full"
    BY <1>4, <1>5 DEF Stage
  <2>2. job.mode = "remove" => Keys' \cap Scope(job) = {}
    BY <1>3, <1>6, <1>7, JobFacts DEF Stale
  <2> QED
    BY <1>1, <2>1, <2>2 DEF Counted
<1>16. Progress(c)'
  BY <1>10, <1>11, <1>12, <1>13, <1>14, <1>15 DEF Progress
<1>17. Blamed'
  BY <1>1, <1>7, BlamedKept DEF PInv
<1>18. Unkeyed'
  BY <1>1, <1>2, <1>6, <1>7 DEF PInv, Unkeyed, Mine
<1>19. \A d \in Docs \ Scope(job) : /\ updatedAt'[d] = updatedAt[d]
                                    /\ d \in broken' => d \in broken
                                    /\ d \in Content' => d \in Content
  BY <1>1, <1>6, <1>7
<1> QED
  BY <1>1, <1>2, <1>16, <1>17, <1>18, <1>19, StepFrame

\* Where a call counts its keys it has done all of its job: what it was given has keys, nothing
\* else of its scope has, and what it had to take away is not left broken.
LEMMA AtEnd ==
    ASSUME PInv, NEW c \in Calls, pc[c] = "count"
    PROVE  /\ active[c] \in Jobs
           /\ Want(active[c]) \subseteq Keys
           /\ Keys \cap Scope(active[c]) \subseteq Want(active[c])
           /\ \A d \in broken : ~ Clears(active[c], d)
<1> DEFINE job == active[c]
           N == Len(active[c].load)
<1>1. /\ job \in Jobs /\ Stamped(c) /\ Fresh(c) /\ Swept(c) /\ Counted(c) /\ Timed(c)
      /\ TInv /\ batch[c] > N /\ batch[c] \in Nat /\ start[c] \in Nat \ {0} /\ updatedAt \in [Docs -> Nat]
  BY Jobbed DEF PInv, KInv, Progress, Counted, TInv, TypeOK, Timed
<1>2. /\ N \in Nat /\ job.mode \in {"none", "full", "incremental", "remove"}
      /\ \A k \in 1 .. N : job.load[k] \subseteq Docs
      /\ Scope(job) \subseteq Docs
  BY <1>1, JobFacts
<1>3. Want(job) \subseteq Keys
  <2> SUFFICES ASSUME NEW k \in 1 .. N, NEW d \in job.load[k] PROVE d \in Keys
    BY <1>1, WantIs
  <2>1. updatedAt[d] >= start[c] /\ d \in Docs
    BY <1>1, <1>2 DEF Stamped, Given
  <2> QED
    BY <1>1, <2>1 DEF Keys
<1>4. \A d \in Scope(job) : updatedAt[d] >= start[c] => d \in Want(job)
  BY <1>1, WantIs DEF Fresh
<1>5. Keys \cap Scope(job) \subseteq Want(job)
  <2> SUFFICES ASSUME NEW d \in Scope(job), d \in Keys PROVE d \in Want(job)
    OBVIOUS
  <2>1. CASE job.mode = "full" \/ job.mode = "remove"
    BY <1>1, <1>4, <2>1 DEF Counted
  <2>2. CASE job.mode = "incremental"
    <3>1. PICK k \in 1 .. N : \E e \in job.load[k] : SourceOf[e] = SourceOf[d]
      BY <1>1, <2>2, ScopeHasSource
    <3>2. k < batch[c] /\ d \in Docs
      BY <1>1, <1>2
    <3>3. updatedAt[d] >= start[c]
      BY <1>1, <2>2, <3>1, <3>2 DEF Swept
    <3> QED
      BY <1>4, <3>3
  <2>3. CASE job.mode = "none"
    BY <1>1, <2>3, JobFacts
  <2> QED
    BY <1>2, <2>1, <2>2, <2>3
<1>6. ASSUME NEW d \in broken, Clears(job, d) PROVE FALSE
  <2>1. d \in Keys /\ d \in Scope(job)
    BY <1>6 DEF PInv, Blamed, Clears
  <2>2. CASE job.mode \in {"full", "remove"}
    BY <1>5, <1>6, <2>1, <2>2 DEF Clears
  <2>3. CASE job.mode = "incremental"
    <3>1. PICK k \in 1 .. N : /\ \E e \in job.load[k] : SourceOf[e] = SourceOf[d]
                              /\ \A m \in 1 .. k : d \notin job.load[m]
      BY <1>6, <2>3 DEF Clears
    <3>2. k < batch[c] /\ d \in Docs
      BY <1>1, <1>2, <2>1
    <3> QED
      BY <1>1, <1>6, <2>3, <3>1, <3>2 DEF Swept
  <2> QED
    BY <1>6, <2>2, <2>3 DEF Clears
<1> QED
  BY <1>1, <1>3, <1>5, <1>6

\* ... so that, unless another job failed on its scope, the scope holds what the call was given.
LEMMA EndsClean ==
    ASSUME PInv, NEW c \in Calls, pc[c] = "count", Store!Clean(active[c])
    PROVE  Content \cap Scope(active[c]) = Want(active[c])
<1> DEFINE job == active[c]
<1>1. /\ job \in Jobs /\ Want(job) \subseteq Keys /\ Keys \cap Scope(job) \subseteq Want(job)
      /\ \A d \in broken : ~ Clears(job, d)
      /\ \A d \in Want(job) : d \in Scope(job)
  <2>1. active[c] \in Jobs
    BY AtEnd
  <2>2. \A d \in Want(job) : d \in Scope(job)
    BY <2>1, WantIs, WantInScope
  <2> QED
    BY <2>2, AtEnd
<1>2. \A f \in failed : f = job \/ Scope(f) \cap Scope(job) = {}
  BY DEF Store!Clean, Scope
<1>3. ASSUME NEW d \in Content, d \in Scope(job) PROVE d \in Want(job)
  <2>1. CASE d \in Keys
    BY <1>1, <1>3, <2>1
  <2>2. ASSUME NEW b \in Calls, pc[b] = "record", d \in todo[b] PROVE FALSE
    <3>1. d \in Scope(active[b])
      BY <2>2, BatchInScope DEF PInv, KInv, Local, Giving
    <3> QED
      BY <1>3, <2>2, <3>1 DEF PInv, KInv, Disjoint
  <2>3. ASSUME NEW f \in failed, d \in Want(f) PROVE d \in Want(job)
    <3>1. f \in Jobs
      BY DEF PInv, KInv, TInv, TypeOK
    <3>2. d \in Scope(f)
      BY <2>3, <3>1, WantIs, WantInScope
    <3> QED
      BY <1>2, <1>3, <2>3, <3>2
  <2> QED
    BY <2>1, <2>2, <2>3 DEF PInv, Unkeyed
<1>4. ASSUME NEW d \in Want(job) PROVE d \in Content
  <2>1. d \in Keys /\ d \in Scope(job)
    BY <1>1
  <2>2. ASSUME d \in broken PROVE FALSE
    <3>1. PICK f \in failed : Clears(f, d)
      BY <2>2 DEF PInv, Blamed
    <3>2. d \in Scope(f)
      BY <3>1 DEF Clears
    <3>3. f = job
      BY <1>2, <2>1, <3>2
    <3> QED
      BY <1>1, <2>2, <3>1, <3>3
  <2>3. ASSUME NEW b \in Calls, pc[b] = "forget", d \in gone[b] PROVE FALSE
    <3>1. d \in Scope(active[b])
      BY <2>3 DEF PInv, KInv, Local
    <3> QED
      BY <2>1, <2>3, <3>1 DEF PInv, KInv, Disjoint
  <2> QED
    BY <2>1, <2>2, <2>3 DEF PInv, KInv, KeysHaveDocuments, Content
<1> QED
  BY <1>1, <1>3, <1>4

LEMMA FinishProgress == ASSUME PInv, KInv', NEW c \in Calls, Finish(c) PROVE PInv'
<1>1. /\ pc[c] = "count" /\ Over(c)
      /\ UNCHANGED <<store, late, updatedAt, clock, broken>>
      /\ failed' = failed \/ failed' = failed \ {active[c]}
  BY DEF Finish
<1>2. Mine(c) /\ pc'[c] = "idle"
  BY <1>1 DEF Over, Mine, Goto, PInv, KInv, TInv, TypeOK
<1>3. Keys' = Keys /\ Content' = Content
  BY <1>1 DEF Keys, Content
<1>4. Blamed'
  BY <1>1, <1>3, AtEnd DEF PInv, Blamed
<1>5. Unkeyed'
  BY <1>1, <1>2, <1>3, AtEnd DEF PInv, Unkeyed, Mine
<1>6. Progress(c)'
  BY <1>2 DEF Progress
<1> QED
  BY <1>1, <1>2, <1>3, <1>4, <1>5, <1>6, StepFrame

LEMMA FailProgress == ASSUME PInv, KInv', NEW c \in Calls, Fail(c) PROVE PInv'
<1> DEFINE cut == IF pc[c] \in {"delete", "forget"} THEN gone[c] ELSE {}
           job == active[c]
<1>1. /\ pc[c] # "idle" /\ Over(c) /\ UNCHANGED <<clock, late, updatedAt>>
      /\ broken' = (broken \cup cut) \ (store' \ late)
      /\ failed' = failed \cup {job}
  BY DEF Fail
<1>2. Mine(c) /\ pc'[c] = "idle"
  BY <1>1 DEF Over, Mine, Goto, PInv, KInv, TInv, TypeOK
<1>3. job \in Jobs /\ Local(c) /\ Stamped(c) /\ Listed(c) /\ TInv
  BY <1>1, Jobbed DEF PInv, KInv, Progress
<1>4. \A d \in cut : d \in Keys /\ Clears(job, d)
  <2> SUFFICES ASSUME NEW d \in gone[c], pc[c] \in {"delete", "forget"} PROVE d \in Keys /\ Clears(job, d)
    OBVIOUS
  <2>1. d \in Stale(c) /\ d \in Keys /\ d \in Scope(job) /\ d \in Docs
    BY <1>3, StaleFacts, JobFacts DEF Listed, Clearing
  <2>2. /\ batch[c] \in Nat /\ Len(job.load) \in Nat /\ updatedAt \in [Docs -> Nat] /\ start[c] \in Nat
        /\ job.mode \in {"full", "incremental", "remove"}
        /\ job.mode = "incremental" <=> batch[c] <= Len(job.load)
        /\ job.mode = "remove" => Len(job.load) = 0
    BY <1>3, JobFacts DEF TInv, TypeOK, Listed, Clearing
  <2>3. CASE job.mode = "remove"
    BY <1>3, <2>1, <2>2, <2>3, WantIs DEF Clears
  <2>4. CASE job.mode \in {"full", "incremental"}
    <3>1. updatedAt[d] < start[c]
      BY <1>3, <2>1, <2>4, StaleFacts DEF Clearing
    <3>2. \A k \in 1 .. Len(job.load) : k <= batch[c] => d \notin job.load[k]
      BY <1>3, <2>1, <2>2, <3>1 DEF Stamped, Given, Clearing
    <3>3. CASE job.mode = "full"
      BY <1>3, <2>1, <2>2, <3>2, <3>3, WantIs DEF Clears
    <3>4. CASE job.mode = "incremental"
      <4>1. batch[c] \in 1 .. Len(job.load)
        BY <1>1, <1>3, <2>2, <3>4 DEF Local
      <4>2. \E e \in job.load[batch[c]] : SourceOf[e] = SourceOf[d]
        BY <2>1, <3>4 DEF Stale, Batch
      <4> QED
        BY <2>1, <2>2, <3>2, <3>4, <4>1, <4>2 DEF Clears
    <3> QED
      BY <2>4, <3>3, <3>4
  <2> QED
    BY <2>2, <2>3, <2>4
<1>5. Keys' = Keys
  BY <1>1 DEF Keys
<1>6. Blamed'
  BY <1>1, <1>4, <1>5 DEF PInv, Blamed
<1>7. \A d \in Content' : d \in Content \/ d \in Want(job)
  <2>1. CASE pc[c] = "add"
    <3>1. new[c] \subseteq Batch(c) /\ batch[c] \in 1 .. Len(job.load)
      BY <1>3, <2>1 DEF Local, TInv, TypeOK
    <3>2. new[c] \subseteq Want(job)
      BY <1>3, <3>1, WantIs DEF Batch
    <3> QED
      BY <1>1, <3>2 DEF Fail, Content
  <2>2. CASE pc[c] # "add"
    BY <1>1, <2>2 DEF Fail, Content
  <2> QED
    BY <2>1, <2>2
<1>8. Unkeyed'
  <2>1. pc[c] = "record" => todo[c] \subseteq Want(job)
    <3> SUFFICES ASSUME pc[c] = "record" PROVE todo[c] \subseteq Want(job)
      OBVIOUS
    <3>1. todo[c] \subseteq Batch(c) /\ batch[c] \in 1 .. Len(job.load)
      BY <1>3 DEF Local, TInv, TypeOK
    <3> QED
      BY <1>3, <3>1, WantIs DEF Batch
  <2> QED
    BY <1>1, <1>2, <1>5, <1>7, <2>1 DEF PInv, Unkeyed, Mine
<1>9. \A d \in Docs \ Scope(job) : /\ updatedAt'[d] = updatedAt[d]
                                   /\ d \in broken' => d \in broken
                                   /\ d \in Content' => d \in Content
  <2>1. \A d \in cut : d \in Scope(job)
    BY <1>4 DEF Clears
  <2>2. \A d \in Want(job) : d \in Scope(job)
    BY <1>3, WantIs, WantInScope
  <2> QED
    BY <1>1, <1>7, <2>1, <2>2
<1>10. Progress(c)'
  BY <1>2 DEF Progress
<1> HIDE DEF cut
<1> QED
  BY <1>1, <1>2, <1>6, <1>8, <1>9, <1>10, StepFrame

\* A step that is no call's own.
LEMMA QuietFrame ==
    ASSUME PInv, KInv', UNCHANGED <<active, local, updatedAt, broken, failed>>, clock' >= clock,
           Content' = Content
    PROVE  PInv'
<1>1. UNCHANGED <<pc, start, batch, new, todo, at, gone>>
  BY DEF local
<1>2. ASSUME NEW b \in Calls PROVE Progress(b)'
  <2>1. TInv /\ TInv' /\ Local(b) /\ Progress(b)
    BY DEF PInv, KInv
  <2> QED
    BY <1>1, <2>1, ProgressFrame
<1>3. Blamed' /\ Unkeyed'
  BY <1>1 DEF PInv, Blamed, Unkeyed, Keys
<1> QED
  BY <1>2, <1>3 DEF PInv

LEMMA BeginProgress ==
    ASSUME PInv, KInv', Careful, NEW c \in Calls, NEW job \in Jobs, Begin(c, job)
    PROVE  PInv'
<1>1. /\ pc[c] = "idle" /\ Apart(job)
      /\ UNCHANGED <<store, late, updatedAt, clock, broken, failed, new, todo, at, gone>>
  BY DEF Begin
<1>2. Mine(c) /\ active'[c] = job /\ pc'[c] = Stage(job, 0) /\ batch'[c] = 1 /\ start'[c] = clock
  BY DEF Begin, Mine, Goto, PInv, KInv, TInv, TypeOK
<1>3. /\ Len(job.load) \in Nat /\ Scope(job) \subseteq Docs /\ clock \in Nat \ {0}
      /\ job.mode \in {"none", "full", "incremental", "remove"}
      /\ updatedAt \in [Docs -> Nat]
      /\ \A d \in Scope(job) : updatedAt[d] < clock
  BY <1>1, JobFacts DEF PInv, KInv, TInv, TypeOK, Apart
<1>4. Timed(c)'
  BY <1>1, <1>2, <1>3 DEF Timed, Stage
<1>5. Stamped(c)'
  BY <1>1, <1>2, <1>3 DEF Stamped, Given, Clearing, Stage
<1>6. Fresh(c)'
  BY <1>1, <1>2, <1>3 DEF Fresh
<1>7. Listed(c)' /\ Counted(c)' /\ Swept(c)'
  <2>1. Listed(c)'
    BY <1>1, <1>2, <1>3 DEF Listed, Clearing, Stage
  <2>2. Counted(c)'
    BY <1>1, <1>2, <1>3 DEF Counted, Stage
  <2>3. Swept(c)'
    BY <1>2, <1>3 DEF Swept
  <2> QED
    BY <2>1, <2>2, <2>3
<1>8. Progress(c)'
  BY <1>4, <1>5, <1>6, <1>7 DEF Progress
<1>9. ASSUME NEW b \in Calls \ {c} PROVE Progress(b)'
  <2>1. TInv /\ TInv' /\ Local(b) /\ Progress(b)
    BY DEF PInv, KInv
  <2>2. clock' >= clock /\ Content' = Content
    BY <1>1, <1>3 DEF Content
  <2> QED
    BY <1>1, <1>2, <2>1, <2>2, ProgressFrame DEF Mine
<1>10. Keys' = Keys /\ Content' = Content
  BY <1>1 DEF Keys, Content
<1>11. Blamed'
  BY <1>1, <1>10 DEF PInv, Blamed
<1>12. Unkeyed'
  BY <1>1, <1>2, <1>10 DEF PInv, Unkeyed, Mine
<1> QED
  BY <1>8, <1>9, <1>11, <1>12 DEF PInv

LEMMA NextProgress == ASSUME Careful, PInv, [Next]_vars PROVE PInv'
<1>1. KInv'
  BY NextKeeps DEF PInv
<1>2. ASSUME NEW c \in Calls, Work(c) PROVE PInv'
  BY <1>1, <1>2, ExistsProgress, ReadTimeProgress, WriteKeyProgress, TouchedProgress, AddProgress,
     RecordedProgress, ListProgress, DeleteProgress, ForgetProgress, FinishProgress DEF Work
<1>3. ASSUME NEW c \in Calls, Fail(c) PROVE PInv'
  BY <1>1, <1>3, FailProgress
<1>4. ASSUME NEW c \in Calls, NEW job \in Jobs, Begin(c, job) PROVE PInv'
  BY <1>1, <1>4, BeginProgress
<1>5. clock \in Nat
  BY DEF PInv, KInv, TInv, TypeOK
<1>6. ASSUME NEW d \in Docs, Arrive(d) PROVE PInv'
  BY <1>1, <1>5, <1>6, QuietFrame DEF Arrive, Content
<1>7. CASE Tick \/ UNCHANGED vars
  BY <1>1, <1>5, <1>7, QuietFrame DEF Tick, vars, local, Content
<1> QED
  BY <1>2, <1>3, <1>4, <1>6, <1>7 DEF Next

LEMMA InitProgress == Init => PInv
<1> SUFFICES ASSUME Init PROVE PInv
  OBVIOUS
<1>1. \A c \in Calls : pc[c] = "idle"
  BY DEF Init
<1> QED
  BY <1>1, InitKeeps DEF Init, PInv, Progress, Blamed, Unkeyed, Content

-----------------------------------------------------------------------------
(* What index() promises *)

\* Where a failure cut a deletion in two, the document lies in the scope of a job that failed and
\* has not ended well since: to do that job again puts it right, for all jobs, batches and calls
\* that keep apart.
THEOREM RetryPutsRight == Careful => (Spec => []RetryHeals)
<1> SUFFICES ASSUME Careful PROVE Spec => []RetryHeals
  OBVIOUS
<1>1. PInv => RetryHeals
  BY DEF PInv, Blamed, RetryHeals, Clears
<1> QED
  BY <1>1, InitProgress, NextProgress, PTL DEF Spec

\* The step of any call takes out of the store nothing that a call under way was given.
LEMMA WantedStay ==
    ASSUME Careful, PInv, [Next]_vars, NEW c \in Calls, active[c] # None, active'[c] = active[c],
           active[c].mode = "incremental" => Len(active[c].load) <= 1
    PROVE  Content \cap Want(active[c]) \subseteq Content'
<1> DEFINE job == active[c]
<1>1. pc[c] # "idle" /\ job \in Jobs /\ Local(c) /\ Progress(c) /\ TInv
  BY DEF PInv, KInv, TInv, TypeOK, Busy
<1>2. \A d \in Want(job) : d \in Scope(job)
  BY <1>1, WantIs, WantInScope
<1>3. ASSUME NEW b \in Calls \ {c}, pc[b] \in {"delete", "forget"} PROVE gone[b] \cap Want(job) = {}
  BY <1>1, <1>2, <1>3 DEF PInv, KInv, Disjoint, Local
<1>4. ASSUME NEW b \in Calls, Fail(b) PROVE Content \cap Want(job) \subseteq Content'
  <2>1. b # c
    <3> SUFFICES ASSUME b = c PROVE FALSE
      OBVIOUS
    <3>1. active'[c] = None
      BY <1>4 DEF Fail, Over, PInv, KInv, TInv, TypeOK
    <3> QED
      BY <3>1
  <2> QED
    BY <1>3, <1>4, <2>1 DEF Fail, Content
<1>5. ASSUME NEW b \in Calls, Delete(b) PROVE Content \cap Want(job) \subseteq Content'
  <2>1. gone[b] \cap Want(job) = {}
    <3>1. CASE b # c
      BY <1>3, <1>5, <3>1 DEF Delete
    <3>2. CASE b = c
      <4> SUFFICES ASSUME NEW d \in gone[c], d \in Want(job) PROVE FALSE
        BY <3>2
      <4>1. pc[c] = "delete" /\ Listed(c) /\ Stamped(c)
        BY <1>1, <1>5, <3>2 DEF Delete, Progress
      <4>2. PICK k \in 1 .. Len(job.load) : d \in job.load[k]
        BY <1>1, WantIs
      <4>3. /\ Len(job.load) \in Nat /\ batch[c] \in Nat /\ job.mode \in {"full", "incremental", "remove"}
            /\ job.mode = "remove" => Len(job.load) = 0
            /\ d \in Docs
            /\ updatedAt \in [Docs -> Nat] /\ start[c] \in Nat
        BY <1>1, <4>1, <4>2, JobFacts DEF TInv, TypeOK, Listed, Clearing
      <4>4. Given(c, k)
        BY <1>1, <4>1, <4>3 DEF Given, Listed, Clearing, Local
      <4>5. updatedAt[d] >= start[c]
        BY <4>1, <4>2, <4>4 DEF Stamped
      <4>6. job.mode \in {"full", "incremental"}
        BY <4>2, <4>3
      <4>7. updatedAt[d] < start[c]
        BY <1>1, <4>1, <4>6, StaleFacts DEF Listed, Clearing
      <4> QED
        BY <4>3, <4>5, <4>7
    <3> QED
      BY <3>1, <3>2
  <2> QED
    BY <1>5, <2>1 DEF Delete, Content
<1>6. ASSUME NEW b \in Calls, Work(b), ~Delete(b) PROVE Content \cap Want(job) \subseteq Content'
  BY <1>6 DEF Work, Exists, ReadTime, WriteKey, Touched, Add, Recorded, List, Forget, Finish, Content
<1>7. ASSUME NEW b \in Calls, NEW j \in Jobs, Begin(b, j) PROVE Content \cap Want(job) \subseteq Content'
  BY <1>7 DEF Begin, Content
<1>8. ASSUME NEW d \in Docs, Arrive(d) PROVE Content \cap Want(job) \subseteq Content'
  BY <1>8 DEF Arrive, Content
<1>9. CASE Tick \/ UNCHANGED vars
  BY <1>9 DEF Tick, vars, Content
<1> QED
  BY <1>4, <1>5, <1>6, <1>7, <1>8, <1>9 DEF Next

\* A search finds what a call was given all the while that it runs: neither its own cleanup nor
\* another call takes it out, whatever fails; batches of incremental cleanup are the exception.
THEOREM WantedIsFound == Careful => (Spec => WantedStays)
<1> SUFFICES ASSUME Careful PROVE Spec => WantedStays
  OBVIOUS
<1>1. PInv /\ [Next]_vars =>
        [\A c \in Calls :
            (active[c] # None /\ active'[c] = active[c]
               /\ (active[c].mode = "incremental" => Len(active[c].load) <= 1))
            => (store \ late) \cap Want(active[c]) \subseteq store' \ late']_vars
  BY WantedStay DEF Content
<1> QED
  BY <1>1, InitProgress, NextProgress, PTL DEF Spec, WantedStays

\* Every step of a call is one that the store's promise allows.
LEMMA StepKeepsPromise == ASSUME Careful, PInv, [Next]_vars PROVE [Store!Next]_(Store!vars)
<1> USE DEF Content
<1>1. ASSUME NEW c \in Calls, pc[c] # "idle"
      PROVE  active[c] \in Jobs /\ active[c] # None /\ Local(c) /\ TInv
  BY <1>1, Jobbed DEF PInv, KInv
<1>2. ASSUME NEW c \in Calls, NEW job \in Jobs, Begin(c, job) PROVE Store!Begin(c, job)
  <2>1. active[c] = None
    BY <1>2 DEF Begin, PInv, KInv, TInv, TypeOK, Busy
  <2> QED
    BY <1>2, <2>1 DEF Begin, Apart, Store!Begin, Scope
<1>3. ASSUME NEW c \in Calls, Add(c) PROVE Store!Change(c)
  <2>1. pc[c] = "add" /\ pc[c] # "idle" /\ store' = store \cup new[c] /\ UNCHANGED <<late, active, failed>>
    BY <1>3 DEF Add
  <2>2. /\ active[c] \in Jobs /\ active[c] # None /\ Local(c) /\ batch[c] \in 1 .. Len(active[c].load)
        /\ TypeOK
    BY <1>1, <2>1 DEF TInv, TypeOK
  <2>3. new[c] \subseteq Want(active[c]) /\ new[c] \subseteq Docs
    BY <2>1, <2>2, WantIs DEF Local, Batch, TypeOK
  <2> QED
    BY <2>1, <2>2, <2>3 DEF Store!Change, Want, TypeOK
<1>4. ASSUME NEW c \in Calls, Delete(c) PROVE Store!Change(c)
  <2>1. /\ pc[c] = "delete" /\ pc[c] # "idle" /\ UNCHANGED <<active, failed>>
        /\ (store \ late) \ gone[c] = store' \ late'
    BY <1>4 DEF Delete
  <2>2. active[c] # None /\ gone[c] \subseteq Scope(active[c]) /\ store \subseteq Docs
    BY <1>1, <2>1 DEF Local, TInv, TypeOK
  <2> QED
    BY <2>1, <2>2 DEF Store!Change, Scope
<1>5. ASSUME NEW c \in Calls, Finish(c) PROVE Store!End(c)
  <2>1. /\ pc[c] = "count" /\ pc[c] # "idle" /\ UNCHANGED <<store, late>>
        /\ failed' = IF Store!Clean(active[c]) THEN failed \ {active[c]} ELSE failed
        /\ active' = [active EXCEPT ![c] = None]
    BY <1>5 DEF Finish, Over
  <2>2. active[c] # None /\ (Store!Clean(active[c]) => (store \ late) \cap Scope(active[c]) = Want(active[c]))
    BY <1>1, <2>1, EndsClean
  <2> QED
    BY <2>1, <2>2 DEF Store!End, Scope, Want
<1>6. ASSUME NEW c \in Calls, Fail(c) PROVE Store!Abort(c)
  <2>1. /\ pc[c] # "idle" /\ UNCHANGED late
        /\ failed' = failed \cup {active[c]}
        /\ active' = [active EXCEPT ![c] = None]
        /\ \/ pc[c] = "add" /\ \E part \in SUBSET new[c] : store' = store \cup part
           \/ pc[c] = "delete" /\ \E part \in SUBSET gone[c] : store' = store \ part
           \/ UNCHANGED store
    BY <1>6 DEF Fail, Over
  <2>2. active[c] \in Jobs /\ active[c] # None /\ Local(c)
        /\ (pc[c] = "add" => batch[c] \in 1 .. Len(active[c].load))
    BY <1>1, <2>1 DEF TInv, TypeOK
  <2>3. /\ pc[c] = "add" => new[c] \subseteq Want(active[c])
        /\ pc[c] = "delete" => gone[c] \subseteq Scope(active[c])
    BY <2>2, WantIs DEF Local, Batch
  <2>4. /\ (store' \ late') \ (store \ late) \subseteq Want(active[c])
        /\ (store \ late) \ (store' \ late') \subseteq Scope(active[c])
    BY <2>1, <2>3
  <2> QED
    BY <2>1, <2>2, <2>4 DEF Store!Abort, Scope, Want
<1>7. ASSUME NEW c \in Calls, Work(c), ~Add(c), ~Delete(c), ~Finish(c)
      PROVE  UNCHANGED <<store, late, active, failed>>
  BY <1>7 DEF Work, Exists, ReadTime, WriteKey, Touched, Recorded, List, Forget
<1>8. ASSUME NEW d \in Docs, Arrive(d) PROVE UNCHANGED <<store \ late, active, failed>>
  BY <1>8 DEF Arrive
<1>9. CASE Tick \/ UNCHANGED vars
  BY <1>9 DEF Tick, vars, Store!vars
<1> QED
  BY <1>2, <1>3, <1>4, <1>5, <1>6, <1>7, <1>8, <1>9 DEF Next, Work, Store!Next, Store!vars

\* index() with its batches, its record manager, its four modes and its failures keeps the promise
\* of IndexedStore: when a call ends and no other failed on its scope, the scope holds exactly the
\* documents it was given.
THEOREM IndexingImplementsStore == Careful => (Spec => Promise)
<1> SUFFICES ASSUME Careful PROVE Spec => Promise
  OBVIOUS
<1>1. Init => Store!Init
  BY DEF Init, Store!Init
<1>2. PInv /\ [Next]_vars => [Store!Next]_(Store!vars)
  BY StepKeepsPromise
<1> QED
  BY <1>1, <1>2, InitProgress, NextProgress, PTL DEF Spec, Promise, Store!Spec
=============================================================================
