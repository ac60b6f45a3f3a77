---------------------------- MODULE IndexedStore ----------------------------
(***************************************************************************)
(* What index() promises of a vector store, whatever its batches, its      *)
(* record manager and its failures: a call answers for a scope of          *)
(* documents. While it runs it adds only documents it was given and takes  *)
(* away only documents of its scope, and when it ends its scope holds      *)
(* exactly the documents it was given. A call that fails promises nothing  *)
(* for its scope until the same call has been made again and has ended.    *)
(***************************************************************************)
EXTENDS Naturals, Sequences

CONSTANTS Docs, SourceOf, LoaderOf, Jobs, Calls, None

VARIABLES content, active, failed
vars == <<content, active, failed>>

\* The documents a call is given (docsSource); the deletion of a loader is given none.
Want(job) == UNION {job.load[i] : i \in 1 .. Len(job.load)}

\* The documents a call answers for.
Scope(job) ==
    CASE job.mode = "full" -> Docs
      [] job.mode = "incremental" -> {d \in Docs : \E e \in Want(job) : SourceOf[d] = SourceOf[e]}
      [] job.mode = "remove" -> {d \in Docs : LoaderOf[d] = job.loader}
      [] OTHER -> Want(job)

\* No other call has failed on the scope since.
Clean(job) == \A f \in failed : f = job \/ Scope(f) \cap Scope(job) = {}

Init ==
    /\ content = {}
    /\ active = [c \in Calls |-> None]
    /\ failed = {}

Begin(c, job) ==
    /\ active[c] = None
    /\ \A b \in Calls : active[b] # None => Scope(active[b]) \cap Scope(job) = {}
    /\ active' = [active EXCEPT ![c] = job]
    /\ UNCHANGED <<content, failed>>

Change(c) ==
    /\ active[c] # None
    /\ content' \ content \subseteq Want(active[c])
    /\ content \ content' \subseteq Scope(active[c])
    /\ content' \subseteq Docs
    /\ UNCHANGED <<active, failed>>

End(c) ==
    /\ active[c] # None
    /\ Clean(active[c]) => content \cap Scope(active[c]) = Want(active[c])
    /\ failed' = IF Clean(active[c]) THEN failed \ {active[c]} ELSE failed
    /\ active' = [active EXCEPT ![c] = None]
    /\ UNCHANGED content

\* A call that fails may leave a last change half done.
Abort(c) ==
    /\ active[c] # None
    /\ content' \ content \subseteq Want(active[c])
    /\ content \ content' \subseteq Scope(active[c])
    /\ failed' = failed \cup {active[c]}
    /\ active' = [active EXCEPT ![c] = None]

Next == \E c \in Calls :
    \/ \E job \in Jobs : Begin(c, job)
    \/ Change(c)
    \/ End(c)
    \/ Abort(c)

Spec == Init /\ [][Next]_vars
=============================================================================
