------------------------------ MODULE History ------------------------------
(***************************************************************************)
(* history/history.py: the append-only record of wakes and their turns.    *)
(* Every action is one SQLite transaction (one execute and its commit).    *)
(* `turns` is the one turns table: a turn's position is its seq and names  *)
(* its source_id; idx order within a wake is position order.               *)
(***************************************************************************)
EXTENDS Records

VARIABLES
    wakes,      \* the wakes table, ordered by seq
    turns       \* the turns table, ordered by seq

historyVars == <<wakes, turns>>

\* `opener`, the process that opens the wake, is no column of the table: it is
\* kept here for what the properties say of wakes of different processes, and
\* no action reads it.
WakeRecord(kind, snapshot, p) ==
    [kind |-> kind, snapshot |-> snapshot, opener |-> p, retrieved |-> {},
     decision |-> None, stop_reason |-> None, budget_used |-> None,
     state_after |-> None, successor_requested |-> FALSE, closed |-> FALSE]

Turn(w, role, calls, finish) ==
    [wake |-> w, role |-> role, calls |-> calls, finish |-> finish]

HistoryInit == wakes = << >> /\ turns = << >>

\* _require_open: a closed wake raises "history is append-only".
Open(w) == w \in DOMAIN wakes /\ ~wakes[w].closed

\* Mutant: the seq is read before the INSERT.
StaleSeq == IF wakes = << >> THEN 1 ELSE Len(wakes)

\* The seq (AUTOINCREMENT) of the wake being inserted, and of its turn.
NewWakeSeq == Len(wakes) + 1
NewTurnSeq == Len(turns) + 1

OpenWake(kind, snapshot, p) ==
    /\ wakes' = Append(wakes, WakeRecord(kind, snapshot, p))
    /\ UNCHANGED turns

AppendTurn(w, role, calls, finish) ==
    /\ Open(w)
    /\ turns' = Append(turns, Turn(w, role, calls, finish))
    /\ UNCHANGED wakes

\* Appends the ids not seen yet; the order of first sight is abstracted.
RecordRetrieval(w, ids) ==
    /\ Open(w)
    /\ wakes' = [wakes EXCEPT ![w].retrieved = @ \cup ids]
    /\ UNCHANGED turns

\* Mutant: the snapshot is brought up to date with the new state.
RefreshAndClose(w, decision, stop_reason, budget, state_after, successor) ==
    /\ Open(w)
    /\ wakes' = [wakes EXCEPT ![w].snapshot = @ \cup {w},
                              ![w].decision = decision,
                              ![w].stop_reason = stop_reason,
                              ![w].budget_used = budget,
                              ![w].state_after = state_after,
                              ![w].successor_requested = successor,
                              ![w].closed = TRUE]
    /\ UNCHANGED turns

CloseWake(w, decision, stop_reason, budget, state_after, successor) ==
    /\ Open(w)
    /\ wakes' = [wakes EXCEPT ![w].decision = decision,
                              ![w].stop_reason = stop_reason,
                              ![w].budget_used = budget,
                              ![w].state_after = state_after,
                              ![w].successor_requested = successor,
                              ![w].closed = TRUE]
    /\ UNCHANGED turns
----------------------------------------------------------------------------
\* What the other components read back.

SourceTurns(w) == {s \in DOMAIN turns : turns[s].wake = w}

\* The decisions rebuild replays: one entry per call, by turn and position.
CallsOf(s) == {[src |-> s, idx |-> k] : k \in DOMAIN turns[s].calls}

CallOf(c) == turns[c.src].calls[c.idx]

\* ToolCall.from_dict makes a dict of the arguments or, when they count as
\* false, of {}; that raises for those of a misshapen call: no wake with such a
\* turn is ever read back.
Readable(w) ==
    \A s \in SourceTurns(w) : \A k \in DOMAIN turns[s].calls :
        turns[s].calls[k].tool # "misshapen"

\* replay(): wakes in seq order, their turns in idx order, a turn's calls in
\* the order of the message.
Precedes(c, d) ==
    LET w == turns[c.src].wake
        v == turns[d.src].wake
    IN  \/ w < v
        \/ w = v /\ c.src < d.src
        \/ c.src = d.src /\ c.idx < d.idx
=============================================================================
