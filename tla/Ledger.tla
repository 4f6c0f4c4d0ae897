------------------------------- MODULE Ledger -------------------------------
(***************************************************************************)
(* What history and memory promise together, without processes, wakes,     *)
(* commits or replies: a log of decisions that only grows, and a table of  *)
(* memories that is never more than what the log decided.                  *)
(*                                                                         *)
(* One entry of the log is a turn: the kind of the wake it belongs to, and *)
(* the memories the model decided on in it.                                *)
(***************************************************************************)
EXTENDS Records

VARIABLES
    log,        \* the turns, in the order they were committed
    table       \* id -> the row, without its date

vars == <<log, table>>

Init == log = << >> /\ table = [i \in {} |-> None]

\* The decision that made row i, or would.
Decided(i, supersedes) ==
    /\ i.src \in DOMAIN log
    /\ [text |-> i.text, supersedes |-> supersedes] \in log[i.src].decisions

\* A turn is committed.  What it supersedes, if there was ever such a row, an
\* earlier turn decided on.
Decide ==
    /\ Len(log') = Len(log) + 1
    /\ \A s \in DOMAIN log : log'[s] = log[s]
    /\ \A d \in log'[Len(log')].decisions :
          \/ d.supersedes = None
          \/ /\ d.supersedes.src \in DOMAIN log
             /\ \E e \in log[d.supersedes.src].decisions : e.text = d.supersedes.text
    /\ UNCHANGED table

\* A row comes into the table, once, as it was decided.
Derive ==
    \E i \in DOMAIN table' \ DOMAIN table :
        /\ Decided(i, table'[i].supersedes)
        /\ table'[i] = [origin |-> log[i.src].origin,
                        supersedes |-> table'[i].supersedes,
                        superseded_by |-> None]
        /\ DOMAIN table' = DOMAIN table \cup {i}
        /\ \A j \in DOMAIN table : table'[j] = table[j]
    /\ UNCHANGED log

\* A row is retired by one that was decided to, later, and that is there: what
\* is known is never gone before what replaces it.  Of two processes that
\* retire the same row the last one prevails.
Retire ==
    \E i, j \in DOMAIN table :
        /\ i.src < j.src /\ Decided(j, i)
        /\ table' = [table EXCEPT ![i].superseded_by = j]
    /\ UNCHANGED log

\* The table can be thrown away, the log never.
Forget == table' = [i \in {} |-> None] /\ UNCHANGED log

Next == Decide \/ Derive \/ Retire \/ Forget

Spec == Init /\ [][Next]_vars
=============================================================================
