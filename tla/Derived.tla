------------------------------ MODULE Derived ------------------------------
(***************************************************************************)
(* What the derived layer promises: the memories table is a function of    *)
(* history, the fold over the recorded calls of the atomic meaning of one  *)
(* call.  The dispatch of Memory.tla takes several commits for a call and  *)
(* is what Harness.tla runs, live and in a rebuild.                        *)
(***************************************************************************)
EXTENDS Refinement

NewIdentity(c) == [origin |-> wakes[turns[c.src].wake].kind,
                   supersedes |-> Target(c), superseded_by |-> None]

With(rows, c) ==
    [i \in DOMAIN rows \cup {NewId(c)} |->
        IF i \in DOMAIN rows THEN rows[i] ELSE NewIdentity(c)]

Duplicate(rows, c) ==
    \E i \in DOMAIN rows :
        rows[i].superseded_by = None /\ <<Text(c), i.text>> \in Near

\* The meaning of one write ...
Written(rows, c) ==
    IF Text(c) = None \/ NewId(c) \in DOMAIN rows \/ Duplicate(rows, c)
    THEN rows
    ELSE With(rows, c)

\* ... and of one supersede: the replacement is there, and the target is
\* retired unless it was already.
Superseded(rows, c) ==
    IF Text(c) = None \/ Target(c) \notin DOMAIN rows
    THEN rows
    ELSE [With(rows, c) EXCEPT ![Target(c)].superseded_by =
            IF @ = None THEN NewId(c) ELSE @]

Meaning(rows, c) ==
    IF CallOf(c).tool = "write" THEN Written(rows, c) ELSE Superseded(rows, c)

\* Every memory the model decided on, as history has it.
Recorded ==
    {c \in UNION {CallsOf(s) : s \in DOMAIN turns} :
        CallOf(c).tool \in {"write", "supersede"}}

Latest(calls) == CHOOSE c \in calls : \A d \in calls \ {c} : Precedes(d, c)

\* The table that some of the recorded calls make, one after the other.
Fold[calls \in SUBSET Recorded] ==
    IF calls = {} THEN [i \in {} |-> None]
    ELSE Meaning(Fold[calls \ {Latest(calls)}], Latest(calls))

\* The live store is the one history derives: between two calls it is the
\* fold of every recorded call but those still to run, during and after any
\* mixture of wakes, full rebuilds and their restarts ("everything after
\* [open_wake] is derived, retryable, and reproducible by rebuild").
LiveIsDerived ==
    (\A p \in Procs : op[p] = None /\ pc[p] \notin {"cleared", "replay"})
        => Identities(memories) = Fold[Recorded \ UNION {todo[p] : p \in Procs}]

\* A rebuild that reports leaves the store history derives, whatever the
\* store held before and however often an earlier rebuild was cut short.
RebuildIsDerived ==
    (\E p \in Procs : pc[p] = "rebuilt") => Identities(memories) = Fold[Recorded]

\* What is known survives a rebuild: every live row is in what history
\* derives, perhaps retired by a later call, or a near-duplicate of it is
\* ("Everything in the memory layer is reproducible from it").
NothingIsLost ==
    (\A p \in Procs : pc[p] = "idle") =>
        \A i \in Live : \E j \in DOMAIN Fold[Recorded] : <<i.text, j.text>> \in Near

\* What a record says the model was shown can be looked up.
RetrievedResolve ==
    (\A p \in Procs : pc[p] = "idle")
        => \A w \in DOMAIN wakes : wakes[w].retrieved \subseteq Ids

\* Row j was let in by the duplicate check although row i was there: an earlier
\* turn made i, or both were written.
Twins(i, j) ==
    /\ i # j /\ <<i.text, j.text>> \in Near
    /\ memories[j].supersedes = None
    /\ \/ i.src < j.src
       \/ i.src = j.src /\ memories[i].supersedes = None

\* The duplicate check is a read and the upsert a later commit: two live rows
\* that say the same only come from wakes of two different processes.  No process
\* writes both, in one wake or in several, whatever the others do in between,
\* nor does a rebuild from an empty table or what a crash leaves.
TwinsNeedTwoProcesses ==
    \A i, j \in Live : Twins(i, j) =>
        wakes[turns[i.src].wake].opener # wakes[turns[j.src].wake].opener
=============================================================================
