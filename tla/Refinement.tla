----------------------------- MODULE Refinement -----------------------------
(***************************************************************************)
(* The program implements Ledger.tla: where its log and table are.         *)
(***************************************************************************)
EXTENDS Harness

\* The memories decided on in a turn: its calls, with the text as it is stored.
DecisionsOf(t) ==
    {[text |-> Canon[t.calls[k].text], supersedes |-> t.calls[k].target] :
        k \in {k \in DOMAIN t.calls : t.calls[k].tool \in {"write", "supersede"}}}

Log == [s \in DOMAIN turns |-> [origin |-> wakes[turns[s].wake].kind,
                                decisions |-> DecisionsOf(turns[s])]]

\* The code's key of a row, without its date.
Identity(row) == [origin |-> row.origin, supersedes |-> row.supersedes,
                  superseded_by |-> row.superseded_by]

Identities(rows) == [i \in DOMAIN rows |-> Identity(rows[i])]

L == INSTANCE Ledger WITH log <- Log, table <- Identities(memories)

\* The program does nothing to what it has decided and knows that the ledger
\* does not: a row is derived from a committed turn, once, and never rewritten
\* or taken out but with all the others; it is retired only after its
\* replacement is there.  Any number of processes, crashes and rebuilds.
ImplementsLedger == L!Spec
=============================================================================
