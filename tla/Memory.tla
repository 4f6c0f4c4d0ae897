------------------------------- MODULE Memory -------------------------------
(***************************************************************************)
(* memory/memory.py over memory/store.py: the derived layer.  The row of   *)
(* an id is a function value; ids carry the source turn and the text.      *)
(*                                                                         *)
(* dispatch runs the calls a process has to do, `todo[p]`, in order.  The  *)
(* store commits at every upsert and at every mark, and reads before each: *)
(* op[p] is the call in progress between a read and the commit it leads    *)
(* to.  Both are empty while the process is not dispatching.               *)
(***************************************************************************)
EXTENDS History

CONSTANTS
    Procs,      \* processes sharing the database file
    Near,       \* pairs of texts whose cosine reaches duplicate_threshold
    K           \* how many rows a search returns at most

ASSUME MemoryAssumption ==
    /\ Near \subseteq Texts \X Texts
    /\ \A t \in Texts : <<t, t>> \in Near
    /\ \A t, u \in Texts : <<t, u>> \in Near => <<u, t>> \in Near
    /\ K \in Nat \ {0}

VARIABLES
    memories,   \* the memories table: id -> row
    todo,       \* per process, the calls still to dispatch
    op          \* per process, the write in progress, or None

memoryVars == <<memories, todo, op>>

\* Mutant: the origin is not bound by the caller.
RowWithoutOrigin(origin, supersedes, at) ==
    [origin |-> None, supersedes |-> supersedes, superseded_by |-> None,
     occurred_at |-> at]

\* Mutant: the replacement does not say what it replaces.
RowWithoutTarget(origin, supersedes, at) ==
    [origin |-> origin, supersedes |-> None, superseded_by |-> None,
     occurred_at |-> at]

\* `supersedes` and `superseded_by` are ids or None.  occurred_at defaults to
\* the time of the write: the clock is read as the number of turns committed.
Row(origin, supersedes, at) ==
    [origin |-> origin, supersedes |-> supersedes, superseded_by |-> None,
     occurred_at |-> at]

Now == Len(turns)

Ids == DOMAIN memories

Live == {i \in Ids : memories[i].superseded_by = None}

NearDuplicate(text) == \E i \in Live : <<text, i.text>> \in Near

MemoryInit ==
    /\ memories = [i \in {} |-> None]
    /\ todo = [p \in Procs |-> {}]
    /\ op = [p \in Procs |-> None]

\* search and recent: `nearest` over the live rows, at most k of them above
\* the floor, never padded; recent takes every live row when they are few.
Searches(text) ==
    {R \in SUBSET Live : Cardinality(R) <= K /\ (text = None => R = {})}

Recents == {R \in SUBSET Live :
              /\ Cardinality(R) <= 2 * K
              /\ R = Live \/ Cardinality(R) = 2 * K}
----------------------------------------------------------------------------
\* One call of dispatch.  c is the first call the process has to do.

Text(c) == Canon[CallOf(c).text]

\* Mutant: the id is bound to the wake, not to the turn.
IdOfWake(c) == MemoryId(turns[c.src].wake, Text(c))

NewId(c) == MemoryId(c.src, Text(c))

Target(c) == CallOf(c).target

IsNext(p, c) ==
    /\ op[p] = None
    /\ c \in todo[p]
    /\ \A d \in todo[p] : ~Precedes(d, c)

\* Mutant: a call that has its reply is dispatched again.
AnsweredForNothing(p, c) ==
    /\ op' = [op EXCEPT ![p] = None]
    /\ UNCHANGED todo

\* The call has its reply; the next one is up.
Answered(p, c) ==
    /\ todo' = [todo EXCEPT ![p] = @ \ {c}]
    /\ op' = [op EXCEPT ![p] = None]

Going(p, c, step, at) ==
    /\ op' = [op EXCEPT ![p] = [step |-> step, call |-> c, at |-> at]]
    /\ UNCHANGED todo

\* Mutant: near-duplicates are let in.
ExactOnly(c) == Text(c) = None \/ NewId(c) \in Ids

\* write: blank text, an id written before, and a near-duplicate of a live
\* row leave the store as it is.
WriteRejected(c) ==
    \/ Text(c) = None
    \/ NewId(c) \in Ids
    \/ NearDuplicate(Text(c))

RejectWrite(p) ==
    \E c \in todo[p] :
        /\ IsNext(p, c) /\ CallOf(c).tool = "write" /\ WriteRejected(c)
        /\ Answered(p, c)
        /\ UNCHANGED memories

AcceptWrite(p) ==
    \E c \in todo[p] :
        /\ IsNext(p, c) /\ CallOf(c).tool = "write" /\ ~WriteRejected(c)
        /\ Going(p, c, "upsert", Now)
        /\ UNCHANGED memories

\* supersede does something when its target is there (else KeyError) and its
\* text is not blank (else ValueError), unless both the row and the mark are
\* there already; dispatch turns the two errors into a reply.
SupersedeVoid(c) ==
    Target(c) \in Ids /\ Text(c) # None
        => NewId(c) \in Ids /\ memories[Target(c)].superseded_by # None

VoidSupersede(p) ==
    \E c \in todo[p] :
        /\ IsNext(p, c) /\ CallOf(c).tool = "supersede" /\ SupersedeVoid(c)
        /\ Answered(p, c)
        /\ UNCHANGED memories

\* The row exists already (a replay, or the same text twice in one turn):
\* only the mark is applied.
ReapplyMark(p) ==
    \E c \in todo[p] :
        /\ IsNext(p, c) /\ CallOf(c).tool = "supersede" /\ ~SupersedeVoid(c)
        /\ NewId(c) \in Ids
        /\ Going(p, c, "mark", Now)
        /\ UNCHANGED memories

\* Mutant: the target is retired before its replacement is written.
RetireFirst(p) ==
    \E c \in todo[p] :
        /\ IsNext(p, c) /\ CallOf(c).tool = "supersede" /\ ~SupersedeVoid(c)
        /\ NewId(c) \notin Ids
        /\ Going(p, c, "mark", memories[Target(c)].occurred_at)
        /\ UNCHANGED memories

\* No duplicate check here; the replacement inherits occurred_at.
AcceptSupersede(p) ==
    \E c \in todo[p] :
        /\ IsNext(p, c) /\ CallOf(c).tool = "supersede" /\ ~SupersedeVoid(c)
        /\ NewId(c) \notin Ids
        /\ Going(p, c, "upsert", memories[Target(c)].occurred_at)
        /\ UNCHANGED memories

\* store.upsert: INSERT OR REPLACE, committed before any mark.
Upsert(p) ==
    LET c == op[p].call
        row == Row(wakes[turns[c.src].wake].kind, Target(c), op[p].at)
    IN  /\ op[p] # None /\ op[p].step = "upsert"
        /\ memories' = [i \in Ids \cup {NewId(c)} |->
                            IF i = NewId(c) THEN row ELSE memories[i]]
        /\ IF CallOf(c).tool = "supersede"
           THEN Going(p, c, "mark", op[p].at)
           ELSE Answered(p, c)

\* Mutant: a mark is never refused for another one.
Gone(c) == Target(c) \notin Ids

\* store.mark_superseded, its check: a target that is gone, or superseded by
\* another row, raises; the replacement row just written stays.
Unmarkable(c) ==
    Target(c) \in Ids
        => memories[Target(c)].superseded_by \notin {None, NewId(c)}

RefuseMark(p) ==
    /\ op[p] # None /\ op[p].step = "mark" /\ Unmarkable(op[p].call)
    /\ Answered(p, op[p].call)
    /\ UNCHANGED memories

CheckMark(p) ==
    /\ op[p] # None /\ op[p].step = "mark" /\ ~Unmarkable(op[p].call)
    /\ Going(p, op[p].call, "set", op[p].at)
    /\ UNCHANGED memories

\* ... and its UPDATE, which matches no row when the target has gone.
SetMark(p) ==
    LET c == op[p].call
    IN  /\ op[p] # None /\ op[p].step = "set"
        /\ memories' = [i \in Ids |->
                          IF i = Target(c)
                          THEN [memories[i] EXCEPT !.superseded_by = NewId(c)]
                          ELSE memories[i]]
        /\ Answered(p, c)

\* memory_search, and _note_search_results: what the model is shown goes to
\* the wake's retrieved ids.
DispatchSearch(p) ==
    \E c \in todo[p] :
        /\ IsNext(p, c) /\ CallOf(c).tool = "search"
        /\ \E R \in Searches(Text(c)) : RecordRetrieval(turns[c.src].wake, R)
        /\ Answered(p, c)
        /\ UNCHANGED memories

\* Arguments that are no object.
NoObject(c) == CallOf(c).tool \in {"misshapen", "falsy"}

\* A supersede, or an unknown tool, without an object: a TypeError at most, and
\* a reply.  So is a replayed call whose arguments were read back as {}.
RejectMisshapen(p) ==
    \E c \in todo[p] :
        /\ IsNext(p, c) /\ NoObject(c)
        /\ Answered(p, c)
        /\ UNCHANGED memories

\* A write or a search asks its arguments, as they were decoded, for a key with
\* .get: an AttributeError when they are no object, which dispatch lets through.
Raises(p) == \E c \in todo[p] : IsNext(p, c) /\ NoObject(c)

\* The next call of p asks the embedder for a vector, which may raise: every
\* search, and each write or supersede that gets past its early returns.
Embeds(p) ==
    \E c \in todo[p] :
        /\ IsNext(p, c) /\ Text(c) # None
        /\ \/ CallOf(c).tool = "search"
           \/ CallOf(c).tool = "write" /\ NewId(c) \notin Ids
           \/ /\ CallOf(c).tool = "supersede" /\ ~SupersedeVoid(c)
              /\ NewId(c) \notin Ids

\* A vector of another length than configured is a ValueError, which dispatch
\* turns into a reply like the others: the call has done nothing.
WrongDimension(p) ==
    /\ Embeds(p)
    /\ \E c \in todo[p] : IsNext(p, c) /\ Answered(p, c)
    /\ UNCHANGED <<memories, historyVars>>

\* A dispatch that raised, or whose process died, is not resumed.
Abandon(p) ==
    /\ todo' = [todo EXCEPT ![p] = {}]
    /\ op' = [op EXCEPT ![p] = None]

Dispatch(p) ==
    \/ (RejectWrite(p) \/ AcceptWrite(p) \/ VoidSupersede(p) \/ ReapplyMark(p)
        \/ AcceptSupersede(p) \/ Upsert(p) \/ RefuseMark(p) \/ CheckMark(p)
        \/ SetMark(p) \/ RejectMisshapen(p)) /\ UNCHANGED historyVars
    \/ DispatchSearch(p)
=============================================================================
