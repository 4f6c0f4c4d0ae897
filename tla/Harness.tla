------------------------------ MODULE Harness ------------------------------
(***************************************************************************)
(* The whole program: one-shot processes (chat, wake, rebuild) over one    *)
(* database file, and the properties of the composition.                   *)
(***************************************************************************)
EXTENDS Rebuild

CONSTANTS
    Wakings,    \* the triggers the commands are given
    MaxWakes    \* bound: no run starts once this many wakes exist

ASSUME HarnessAssumption == Wakings \subseteq Triggers /\ MaxWakes \in Nat

vars == <<wakes, turns, memories, todo, op, pc, run, cyc, current_state>>

Init == HistoryInit /\ MemoryInit /\ OrchestratorInit

Begin(p) ==
    \/ /\ NoRebuild /\ Len(wakes) < MaxWakes
       /\ \E t \in Wakings : Start(p, t)
    \/ StartRebuild(p)
    \/ StartTopUp(p)

\* Nobody has anything to do; a process stuck in mid-run is a deadlock.
Rest == (\A p \in Procs : pc[p] = "idle") /\ UNCHANGED vars

Next ==
    \/ \E p \in Procs :
          \/ Begin(p) \/ RunStep(p) \/ RebuildStep(p)
          \/ Misfortune(p) \/ ReplayFails(p) \/ ReplayMisfits(p)
    \/ Rest

Spec == Init /\ [][Next]_vars

\* A started process keeps running: the scheduler is fair to it, and a model
\* call or an embedding returns or raises.
FairSpec == Spec /\ \A p \in Procs : WF_vars(RunStep(p) \/ RebuildStep(p))
----------------------------------------------------------------------------
Rows == [origin : TriggerKinds, supersedes : MemoryIds \cup {None},
         superseded_by : MemoryIds \cup {None}, occurred_at : Nat]

StopReasons == {"completed", "idle", "error", "budget:iterations",
                "budget:tokens", "budget:tool_calls", "budget:wall_clock"}

States == SUBSET Nat

WakeRecords ==
    [kind : TriggerKinds, snapshot : States, opener : Procs,
     retrieved : SUBSET MemoryIds,
     decision : Decisions \cup {None}, stop_reason : StopReasons \cup {None},
     budget_used : Budgets \cup {None}, state_after : States \cup {None},
     successor_requested : BOOLEAN, closed : BOOLEAN]

Turns == [wake : Nat, role : {"user", "assistant", "tool"},
          calls : Seq(ToolCalls), finish : FinishCalls \cup {None}]

Calls == [src : Nat, idx : Nat]

Operations == [step : {"upsert", "mark", "set"}, call : Calls, at : Nat]

Runs == [kind : TriggerKinds, cue : BOOLEAN, records : Nat,
         budget : Budgets, model_calls : Nat]

Cycles == [wake : Nat, prior : States, src : Nat,
           decision : Decisions \cup {None}, successor : BOOLEAN,
           stop_reason : StopReasons, state_after : States \cup {None}]

\* Every variable holds a value of its kind.
TypeOK ==
    /\ wakes \in Seq(WakeRecords)
    /\ turns \in Seq(Turns)
    /\ DOMAIN memories \subseteq MemoryIds
    /\ memories \in [DOMAIN memories -> Rows]
    /\ todo \in [Procs -> SUBSET Calls]
    /\ op \in [Procs -> Operations \cup {None}]
    /\ pc \in [Procs -> {"idle"} \cup RunSteps \cup RebuildSteps]
    /\ run \in [Procs -> Runs]
    /\ cyc \in [Procs -> Cycles]
    /\ current_state \in States
----------------------------------------------------------------------------
\* Every row in the store can be traced: its source is a committed assistant
\* turn, one of that turn's calls produces exactly this row (same text, same
\* target), and its origin is the kind of the wake the turn belongs to.
\* Crashes, rebuilds and other processes do not change that.
Provenance ==
    \A i \in Ids :
        /\ i.src \in DOMAIN turns
        /\ turns[i.src].role = "assistant"
        /\ memories[i].origin = wakes[turns[i.src].wake].kind
        /\ \E k \in DOMAIN turns[i.src].calls :
              LET c == turns[i.src].calls[k]
              IN  /\ c.tool \in {"write", "supersede"}
                  /\ Canon[c.text] = i.text
                  /\ c.target = memories[i].supersedes

\* Supersession goes forward in history: a row is retired by a row that is in
\* the store and whose source turn is later.  So chains are finite, acyclic,
\* and end in a live row.
ForwardSupersession ==
    \A i \in Ids :
        LET j == memories[i].superseded_by
        IN  j # None => j \in Ids /\ i.src < j.src

\* Rows are written once.  As long as a row is in the store its origin, its
\* target and its date stay, and a mark, once set, is never moved or removed
\* (store.mark_superseded refuses another one).
RowsAreFinal ==
    [][\A i \in Ids : i \in DOMAIN memories' =>
          \/ memories'[i] = memories[i]
          \/ /\ memories[i].superseded_by = None
             /\ \E j \in Ids : memories'[i] =
                                  [memories[i] EXCEPT !.superseded_by = j]]_vars

HoldsWake(p) == pc[p] \in {"user", "observe", "loop", "tools", "decided",
                           "saved", "error"}

\* From its commit to its close a wake belongs to one process, the one that
\* opened it, and is open: no append, no retrieval and no close ever raises
\* "history is append-only".
OwnsOpenWake ==
    \A p \in Procs : HoldsWake(p) =>
        /\ Open(cyc[p].wake)
        /\ wakes[cyc[p].wake].kind = run[p].kind
        /\ \A q \in Procs \ {p} : HoldsWake(q) => cyc[q].wake # cyc[p].wake

\* History only grows: turns are never changed, a wake keeps its trigger and
\* its snapshot, loses no retrieved id, and does not change once closed.
HistoryIsAppendOnly ==
    [][/\ Len(turns) <= Len(turns')
       /\ \A s \in DOMAIN turns : turns'[s] = turns[s]
       /\ Len(wakes) <= Len(wakes')
       /\ \A w \in DOMAIN wakes :
             /\ wakes'[w].kind = wakes[w].kind
             /\ wakes'[w].snapshot = wakes[w].snapshot
             /\ wakes'[w].opener = wakes[w].opener
             /\ wakes[w].retrieved \subseteq wakes'[w].retrieved
             /\ wakes[w].closed => wakes'[w] = wakes[w]]_vars

AssistantTurns(w) == {s \in SourceTurns(w) : turns[s].role = "assistant"}

Outcome(s) == Settled(NoCycle, turns[s].calls, turns[s].finish).decision

\* A closed record and its transcript agree: a decision is the one the last
\* assistant turn settled, none means an error or a turn that settled nothing
\* before the budget ran out; a turn that settles is never followed by
\* another assistant turn; only a wake that decided to do something and
\* completed carries a state_after.
RecordTellsDecision ==
    \A w \in DOMAIN wakes : wakes[w].closed =>
        /\ \A s \in AssistantTurns(w) :
              (\E r \in AssistantTurns(w) : s < r) => Outcome(s) = None
        /\ wakes[w].decision # None =>
              \E s \in AssistantTurns(w) : Outcome(s) = wakes[w].decision
        /\ wakes[w].decision = None /\ wakes[w].stop_reason # "error" =>
              /\ \A s \in AssistantTurns(w) : Outcome(s) = None
              /\ wakes[w].stop_reason \notin {"completed", "idle"}
        /\ wakes[w].stop_reason # "error" =>
              (wakes[w].decision = "sleep" <=> wakes[w].stop_reason = "idle")
        /\ wakes[w].state_after # None =>
              /\ wakes[w].decision \notin {None, "sleep"}
              /\ wakes[w].stop_reason = "completed"

WithinAllowance(b) ==
    /\ b.iterations <= MaxIterations
    /\ b.tokens = 0 \/ \E n \in Usages : b.tokens < MaxTokens + n
    /\ b.tool_calls = 0 \/ b.tool_calls < MaxToolCalls + MaxCallsPerTurn

\* A run and all its successors spend one allowance: iterations never pass
\* the limit, tokens and tool calls pass theirs only within the completion
\* that reached it, and the model calls that are not charged are at most one
\* for each record.
OneAllowance ==
    /\ \A p \in Procs :
          /\ WithinAllowance(run[p].budget)
          /\ run[p].records <= MaxSuccessors + 1
          /\ run[p].model_calls <= run[p].budget.iterations + run[p].records
    /\ \A w \in DOMAIN wakes :
          wakes[w].closed => WithinAllowance(wakes[w].budget_used)
----------------------------------------------------------------------------
\* What state the records say is current after wake n.
StateAfter(n) ==
    LET S == {w \in 1 .. n : wakes[w].state_after # None}
    IN  IF S = {} THEN {}
        ELSE wakes[CHOOSE w \in S : \A v \in S : v <= w].state_after

\* current_state can be regenerated from history, and every wake was given
\* the state the records before it say was current.  Between the save and
\* the close of the wake that made it the new state is not in history yet.
StateRegenerable ==
    /\ (\A p \in Procs : pc[p] # "saved") => current_state = StateAfter(Len(wakes))
    /\ \A w \in DOMAIN wakes : wakes[w].snapshot = StateAfter(w - 1)

\* The state that a rebuild brings back is the last one a wake has committed
\* ("current_state comes back from the last committed `state_after`", rebuild.py).
RestoresTheState ==
    [][\A p \in Procs :
          pc[p] = "restore" /\ pc'[p] = "rebuilt" /\ cyc[p].state_after # None
          => current_state' = StateAfter(Len(wakes))]_vars

\* "Idle wake": deciding sleep writes nothing derived; the record is the
\* wake's entire effect (docs/README.md, "On `sleep` ...").
SleepWritesNothing ==
    \A w \in DOMAIN wakes : wakes[w].decision = "sleep" =>
        \A i \in Ids : turns[i.src].wake # w

Unclosed == {w \in DOMAIN wakes : ~wakes[w].closed}

\* An error closes the record: a wake still open is one a process is in.
ErrorsCloseTheRecord ==
    \A w \in Unclosed : \E p \in Procs : HoldsWake(p) /\ cyc[p].wake = w

\* Every command ends, whatever the model answers.
RunsEnd == \A p \in Procs : (pc[p] # "idle") ~> (pc[p] = "idle")

\* Every wake that is opened gets closed, by its end or by the error clause.
WakesGetClosed ==
    \A w \in 1 .. (MaxWakes + MaxSuccessors) :
        (w \in Unclosed) ~> (w \in DOMAIN wakes /\ w \notin Unclosed)
=============================================================================
