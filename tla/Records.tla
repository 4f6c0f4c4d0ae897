------------------------------ MODULE Records ------------------------------
(***************************************************************************)
(* The vocabulary of history/records.py.  A wake is numbered by its `seq`, *)
(* a turn by its `seq` too: a turn's source_id is unique, so its number    *)
(* stands for it.  A memory id is the hash of (source_id, canonical text), *)
(* modelled by the pair itself (hash collisions are left out).             *)
(***************************************************************************)
EXTENDS Naturals, Sequences, FiniteSets

CONSTANTS
    None,       \* Python's None
    Texts,      \* canonical texts: what preprocess may return
    Canon       \* preprocess: raw text -> canonical text, or None when blank

RawTexts == DOMAIN Canon

ASSUME TextsAssumption ==
    /\ Canon \in [RawTexts -> Texts \cup {None}]
    /\ None \notin Texts

TriggerKinds == {"interaction", "reflection", "autonomous"}

Decisions == {"respond", "act", "reflect", "sleep"}

\* A trigger; `cue` says that its payload is text the wake observes with: a
\* non-empty user message, or a due open question.
Triggers == [kind : TriggerKinds, cue : BOOLEAN]

MemoryIds == [src : Nat, text : Texts]

ASSUME NoneAssumption == None \notin MemoryIds /\ None \notin Decisions

\* deterministic_memory_id
MemoryId(src, text) == [src |-> src, text |-> text]

\* A tool call of the model: its arguments are a raw text and, for a
\* supersede, the memory it names (None: an id that no row has).  Arguments
\* missing or of a wrong type, in an object, and an unknown tool name, have no
\* effect on any state, as a call with blank text, and are represented by it.
\* Arguments that are no JSON object are kept as they were decoded: such a call
\* is "falsy" when they count as false (null, [], 0, false, "") and can be read
\* back, as {}; any others make it "misshapen".
ToolNames == {"write", "supersede", "search", "misshapen", "falsy"}

ToolCalls == [tool : ToolNames,
              text : RawTexts, target : MemoryIds \cup {None}]

Write(raw) == [tool |-> "write", text |-> raw, target |-> None]
Supersede(id, raw) == [tool |-> "supersede", text |-> raw, target |-> id]
Search(raw) == [tool |-> "search", text |-> raw, target |-> None]
Misshapen(raw) == [tool |-> "misshapen", text |-> raw, target |-> None]
Falsy(raw) == [tool |-> "falsy", text |-> raw, target |-> None]

\* A call of the finish tool: the decision argument as the model spelled it,
\* "garbled" for a value that is no Decision.
FinishCalls == [decision : Decisions \cup {"garbled"}, successor : BOOLEAN]
=============================================================================
