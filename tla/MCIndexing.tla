----------------------------- MODULE MCIndexing -----------------------------
(***************************************************************************)
(* Three documents: a and b of one source and loader, x of another of      *)
(* each.                                                                   *)
(***************************************************************************)
EXTENDS Indexing, TLC

CONSTANTS a, b, x, s, t

MCSourceOf == (a :> s) @@ (b :> s) @@ (x :> t)

Upsert(mode, load) == [mode |-> mode, load |-> load, loader |-> None]
Removal(loader)    == [mode |-> "remove", load |-> <<>>, loader |-> loader]

\* A document may come twice, and the documents of a source in two batches.
MCJobs == {
    Upsert("full", <<{b}, {a, b}>>),
    Upsert("full", <<{x}>>),
    Upsert("incremental", <<{a}, {b}>>),
    Upsert("incremental", <<{b}>>),
    Upsert("none", <<{a, x}>>),
    Removal(s)}
=============================================================================
