------------------------------- MODULE Evals -------------------------------
(***************************************************************************)
(* runtime/evals.py, its scoring: what counts as finding a memory again    *)
(* after it has been consolidated, and whether the store keeps the links   *)
(* the scoring follows.  The corpus may be any rows: the harness writes it *)
(* through Memory.write like all others.  Averages over queries are left   *)
(* out; a query is judged by its first hit.                                *)
(***************************************************************************)
EXTENDS Derived, FiniteSetsExt

\* Mutant: only the row itself and the one it replaces.
DirectAncestors(i) == {i} \cup ({memories[i].supersedes} \ {None})

\* One step along the links there are ...
Further(link, ids) == ids \cup ({link[j] : j \in ids \cap DOMAIN link} \ {None})

\* ... and all from i: no more steps add an id than there are links.
Reaching(link, i) ==
    LET reached[n \in 0 .. Cardinality(DOMAIN link)] ==
            IF n = 0 THEN {i} ELSE Further(link, reached[n - 1])
    IN  reached

Reached(link, i) == Reaching(link, i)[Cardinality(DOMAIN link)]

\* ancestor_ids: the id plus everything it (transitively) supersedes.
AncestorIds(i) == Reached([j \in Ids |-> memories[j].supersedes], i)

\* run_eval, one query: the rank of the first result that covers an expected
\* id, None when none does.
FirstHit(returned, expected) ==
    LET hits == {r \in DOMAIN returned : expected \cap AncestorIds(returned[r]) # {}}
    IN  IF hits = {} THEN None ELSE Min(hits)
----------------------------------------------------------------------------
\* Following superseded_by from a row: the rows passed, and the live one.
Chain(i) == Reached([j \in Ids |-> memories[j].superseded_by], i)

LiveEnd(i) == CHOOSE j \in Chain(i) : j \in Live

\* A row that several calls of its turn made: the first one fixed what it
\* supersedes, the others found it there.
MadeTwice(i) ==
    \E k, m \in DOMAIN turns[i.src].calls :
        /\ k # m
        /\ \A n \in {k, m} :
              /\ turns[i.src].calls[n].tool \in {"write", "supersede"}
              /\ Canon[turns[i.src].calls[n].text] = i.text

\* Consolidation costs no recall: a search that returns the live row at the end
\* of a chain is a hit for every row the chain has retired, however long and
\* through whatever crashes and rebuilds, unless a row of the chain was made
\* twice in its turn.
RecallIsFlat ==
    \A i \in Ids :
        \/ \E j \in Chain(i) \ {i} : MadeTwice(j)
        \/ FirstHit(<<LiveEnd(i)>>, {i}) = 1
=============================================================================
