--------------------------- MODULE HarnessProofs ---------------------------
(***************************************************************************)
(* Theorems about Harness.tla, for every value of its constants.           *)
(***************************************************************************)
EXTENDS Harness, TLAPS

\* At most one process at a time, as one user and no timer have it.
OneProcess == \A p, q \in Procs : p = q

\* The operator's discipline, which nothing in the code enforces: no rebuild in
\* the middle of another process's wake, and no wake in the middle of a rebuild.
RebuildsApart == OneProcess \/ ~Beside

IsCall(c) == c.src \in DOMAIN turns /\ c.idx \in DOMAIN turns[c.src].calls

\* What the types alone do not say: a turn belongs to a wake, and whatever a
\* process has in hand (a call to do, a write in progress, the turn whose
\* results it gathers) is committed in history.
TurnsHaveWakes == \A s \in DOMAIN turns : turns[s].wake \in DOMAIN wakes

TodoCommitted == \A p \in Procs : \A c \in todo[p] : IsCall(c)

OpCommitted ==
    \A p \in Procs : op[p] # None =>
        /\ IsCall(op[p].call)
        /\ CallOf(op[p].call).tool \in {"write", "supersede"}
        /\ Text(op[p].call) # None

SrcCommitted == \A p \in Procs : pc[p] = "tools" => cyc[p].src \in DOMAIN turns

TypeInv ==
    TypeOK /\ TurnsHaveWakes /\ TodoCommitted /\ OpCommitted /\ SrcCommitted
----------------------------------------------------------------------------
\* A step leaves what it finds in history, but for the fields of an open wake.
Grows ==
    /\ DOMAIN wakes \subseteq DOMAIN wakes'
    /\ \A w \in DOMAIN wakes :
          wakes'[w].kind = wakes[w].kind /\ wakes'[w].opener = wakes[w].opener
    /\ DOMAIN turns \subseteq DOMAIN turns'
    /\ \A s \in DOMAIN turns : turns'[s] = turns[s]

HistoryOK == wakes \in Seq(WakeRecords) /\ turns \in Seq(Turns) /\ TurnsHaveWakes

\* history.py keeps its tables well formed and growing: opening a wake ...
LEMMA OpenWakeHistory ==
    ASSUME HistoryOK, NEW kind \in TriggerKinds, NEW snapshot \in States,
           NEW p \in Procs, OpenWake(kind, snapshot, p)
    PROVE  HistoryOK' /\ Grows /\ NewWakeSeq \in Nat
  <1>1. WakeRecord(kind, snapshot, p) \in WakeRecords
    BY DEF WakeRecord, WakeRecords
  <1>2. wakes' \in Seq(WakeRecords) /\ turns' \in Seq(Turns)
    BY <1>1 DEF OpenWake, HistoryOK
  <1>3. /\ DOMAIN wakes' = DOMAIN wakes \cup {Len(wakes) + 1}
        /\ \A w \in DOMAIN wakes : wakes'[w] = wakes[w]
    BY DEF OpenWake, HistoryOK
  <1> QED
    BY <1>2, <1>3 DEF OpenWake, HistoryOK, TurnsHaveWakes, Grows, NewWakeSeq

\* ... appending a turn ...
LEMMA AppendTurnHistory ==
    ASSUME HistoryOK, NEW w \in Nat, NEW role \in {"user", "assistant", "tool"},
           NEW calls \in Seq(ToolCalls), NEW finish \in FinishCalls \cup {None},
           AppendTurn(w, role, calls, finish)
    PROVE  /\ HistoryOK' /\ Grows /\ wakes' = wakes
           /\ NewTurnSeq \in DOMAIN turns'
           /\ turns'[NewTurnSeq] = Turn(w, role, calls, finish)
  <1>1. Turn(w, role, calls, finish) \in Turns
    BY DEF Turn, Turns
  <1>2. wakes' = wakes /\ turns' \in Seq(Turns)
    BY <1>1 DEF AppendTurn, HistoryOK
  <1>3. /\ DOMAIN turns' = DOMAIN turns \cup {Len(turns) + 1}
        /\ \A s \in DOMAIN turns : turns'[s] = turns[s]
        /\ turns'[Len(turns) + 1] = Turn(w, role, calls, finish)
    BY DEF AppendTurn, HistoryOK
  <1>4. Turn(w, role, calls, finish).wake \in DOMAIN wakes
    BY DEF AppendTurn, Open, Turn
  <1>5. TurnsHaveWakes'
    BY <1>2, <1>3, <1>4 DEF HistoryOK, TurnsHaveWakes
  <1> QED
    BY <1>2, <1>3, <1>5 DEF HistoryOK, Grows, NewTurnSeq

\* ... noting what a search returned ...
LEMMA RetrievalHistory ==
    ASSUME HistoryOK, NEW w, NEW ids \in SUBSET MemoryIds,
           RecordRetrieval(w, ids)
    PROVE  HistoryOK' /\ Grows /\ turns' = turns
  <1>1. w \in DOMAIN wakes /\ turns' = turns
    BY DEF RecordRetrieval, Open
  <1> DEFINE noted == [wakes[w] EXCEPT !.retrieved = @ \cup ids]
  <1>2. wakes[w] \in WakeRecords
    BY <1>1 DEF HistoryOK
  <1>3. /\ noted \in WakeRecords /\ noted.kind = wakes[w].kind
        /\ noted.opener = wakes[w].opener
    BY <1>2 DEF WakeRecords
  <1>4. wakes' = [wakes EXCEPT ![w] = noted]
    BY DEF RecordRetrieval
  <1> HIDE DEF noted
  <1>5. /\ wakes' \in Seq(WakeRecords) /\ DOMAIN wakes' = DOMAIN wakes
        /\ \A v \in DOMAIN wakes :
              wakes'[v].kind = wakes[v].kind /\ wakes'[v].opener = wakes[v].opener
    BY <1>1, <1>3, <1>4 DEF HistoryOK
  <1> QED
    BY <1>1, <1>5 DEF HistoryOK, TurnsHaveWakes, Grows

\* ... and closing the wake.
LEMMA CloseWakeHistory ==
    ASSUME HistoryOK, NEW w, NEW decision \in Decisions \cup {None},
           NEW stop_reason \in StopReasons, NEW budget \in Budgets,
           NEW state_after \in States \cup {None}, NEW successor \in BOOLEAN,
           CloseWake(w, decision, stop_reason, budget, state_after, successor)
    PROVE  HistoryOK' /\ Grows /\ turns' = turns
  <1> DEFINE closed == [wakes[w] EXCEPT !.decision = decision,
                                        !.stop_reason = stop_reason,
                                        !.budget_used = budget,
                                        !.state_after = state_after,
                                        !.successor_requested = successor,
                                        !.closed = TRUE]
  <1>1. /\ w \in DOMAIN wakes
        /\ wakes' = [wakes EXCEPT ![w] = closed]
        /\ turns' = turns
    BY DEF CloseWake, Open
  <1>2. wakes[w] \in WakeRecords
    BY <1>1 DEF HistoryOK
  <1>3. /\ closed \in WakeRecords /\ closed.kind = wakes[w].kind
        /\ closed.opener = wakes[w].opener
    BY <1>2 DEF WakeRecords
  <1> HIDE DEF closed
  <1>4. /\ wakes' \in Seq(WakeRecords) /\ DOMAIN wakes' = DOMAIN wakes
        /\ \A v \in DOMAIN wakes :
              wakes'[v].kind = wakes[v].kind /\ wakes'[v].opener = wakes[v].opener
    BY <1>1, <1>3 DEF HistoryOK
  <1> QED
    BY <1>1, <1>4 DEF HistoryOK, TurnsHaveWakes, Grows
----------------------------------------------------------------------------
\* A step that takes no call on its list, and in hand only one of the list.
KeepsCalls ==
    /\ \A q \in Procs : todo'[q] \subseteq todo[q]
    /\ \A q \in Procs : op'[q] # None =>
          \/ op[q] # None /\ op'[q].call = op[q].call
          \/ /\ op'[q].call \in todo[q]
             /\ CallOf(op'[q].call).tool \in {"write", "supersede"}
             /\ Text(op'[q].call) # None

\* A step that starts no round of calls.
KeepsRound ==
    \A q \in Procs : pc'[q] = "tools" =>
        pc[q] = "tools" /\ cyc'[q].src = cyc[q].src

\* What was committed stays committed.
LEMMA CommittedStays ==
    ASSUME TypeInv, Grows, KeepsCalls, KeepsRound
    PROVE  TodoCommitted' /\ OpCommitted' /\ SrcCommitted'
  <1>1. ASSUME NEW c, IsCall(c)
        PROVE  /\ c.src \in DOMAIN turns' /\ turns'[c.src] = turns[c.src]
               /\ c.idx \in DOMAIN turns'[c.src].calls
    BY <1>1 DEF IsCall, Grows
  <1>2. TodoCommitted'
    BY <1>1 DEF TypeInv, TodoCommitted, IsCall, KeepsCalls
  <1>3. ASSUME NEW q \in Procs, op'[q] # None
        PROVE  /\ IsCall(op'[q].call)
               /\ CallOf(op'[q].call).tool \in {"write", "supersede"}
               /\ Text(op'[q].call) # None
    BY <1>3 DEF TypeInv, TodoCommitted, OpCommitted, KeepsCalls
  <1>4. OpCommitted'
    BY <1>3 DEF OpCommitted, IsCall, CallOf, Text, Grows
  <1>5. SrcCommitted'
    BY DEF TypeInv, SrcCommitted, Grows, KeepsRound
  <1> QED
    BY <1>2, <1>4, <1>5

\* The kinds of what a call carries.
LEMMA CallTypes ==
    ASSUME TypeInv, NEW c, IsCall(c)
    PROVE  /\ CallOf(c) \in ToolCalls
           /\ Text(c) \in Texts \cup {None}
           /\ Target(c) \in MemoryIds \cup {None}
           /\ c.src \in Nat
           /\ turns[c.src].wake \in DOMAIN wakes
           /\ wakes[turns[c.src].wake].kind \in TriggerKinds
           /\ Text(c) # None => NewId(c) \in MemoryIds
  <1>1. turns[c.src] \in Turns /\ c.src \in Nat
    BY DEF IsCall, TypeInv, TypeOK
  <1>2. CallOf(c) \in ToolCalls
    BY <1>1 DEF IsCall, CallOf, Turns
  <1>3. Text(c) \in Texts \cup {None} /\ Target(c) \in MemoryIds \cup {None}
    BY <1>2, TextsAssumption DEF Text, Target, ToolCalls
  <1>4. turns[c.src].wake \in DOMAIN wakes
    BY DEF IsCall, TypeInv, TurnsHaveWakes
  <1>5. wakes[turns[c.src].wake] \in WakeRecords
    BY <1>4 DEF TypeInv, TypeOK
  <1>6. wakes[turns[c.src].wake].kind \in TriggerKinds
    BY <1>5 DEF WakeRecords
  <1> QED
    BY <1>1, <1>2, <1>3, <1>4, <1>6 DEF NewId, MemoryId, MemoryIds

MemoryOK ==
    /\ DOMAIN memories \subseteq MemoryIds
    /\ memories \in [DOMAIN memories -> Rows]
    /\ todo \in [Procs -> SUBSET Calls]
    /\ op \in [Procs -> Operations \cup {None}]

\* The steps of dispatch keep the store well formed, and take their calls
\* from the list.
LEMMA DispatchMemory ==
    ASSUME TypeInv, NEW p \in Procs, Dispatch(p)
    PROVE  MemoryOK' /\ HistoryOK' /\ Grows /\ KeepsCalls
  <1> USE DEF TypeInv, KeepsCalls
  <1>0. MemoryOK /\ HistoryOK
    BY DEF TypeOK, MemoryOK, HistoryOK
  <1>h. ASSUME UNCHANGED historyVars
        PROVE  HistoryOK' /\ Grows
    BY <1>0, <1>h DEF HistoryOK, TurnsHaveWakes, Grows, historyVars
  <1>a. ASSUME NEW c, Answered(p, c), UNCHANGED memories
        PROVE  /\ MemoryOK'
               /\ \A q \in Procs : todo'[q] \subseteq todo[q]
               /\ \A q \in Procs : op'[q] # None => op'[q] = op[q]
    BY <1>0, <1>a DEF MemoryOK, Answered
  <1>g. ASSUME NEW c \in Calls, NEW step \in {"upsert", "mark", "set"},
               NEW at \in Nat, Going(p, c, step, at), UNCHANGED memories
        PROVE  /\ MemoryOK' /\ todo' = todo
               /\ op'[p].call = c
               /\ \A q \in Procs \ {p} : op'[q] = op[q]
    BY <1>0, <1>g DEF MemoryOK, Going, Operations
  <1>1. CASE RejectWrite(p) /\ UNCHANGED historyVars
    BY <1>1, <1>h, <1>a DEF RejectWrite
  <1>2. CASE AcceptWrite(p) /\ UNCHANGED historyVars
    <2>1. PICK c \in todo[p] :
             /\ CallOf(c).tool = "write" /\ ~WriteRejected(c)
             /\ Going(p, c, "upsert", Now) /\ UNCHANGED memories
      BY <1>2 DEF AcceptWrite
    <2>2. c \in Calls /\ Now \in Nat /\ Text(c) # None
      BY <2>1 DEF TypeOK, Now, WriteRejected
    <2> QED
      BY <1>2, <1>h, <1>g, <2>1, <2>2
  <1>3. CASE VoidSupersede(p) /\ UNCHANGED historyVars
    BY <1>3, <1>h, <1>a DEF VoidSupersede
  <1>4. CASE ReapplyMark(p) /\ UNCHANGED historyVars
    <2>1. PICK c \in todo[p] :
             /\ CallOf(c).tool = "supersede" /\ ~SupersedeVoid(c)
             /\ Going(p, c, "mark", Now) /\ UNCHANGED memories
      BY <1>4 DEF ReapplyMark
    <2>2. c \in Calls /\ Now \in Nat /\ Text(c) # None
      BY <2>1 DEF TypeOK, Now, SupersedeVoid
    <2> QED
      BY <1>4, <1>h, <1>g, <2>1, <2>2
  <1>5. CASE AcceptSupersede(p) /\ UNCHANGED historyVars
    <2>1. PICK c \in todo[p] :
             /\ CallOf(c).tool = "supersede" /\ ~SupersedeVoid(c)
             /\ Going(p, c, "upsert", memories[Target(c)].occurred_at)
             /\ UNCHANGED memories
      BY <1>5 DEF AcceptSupersede
    <2>2. c \in Calls /\ Text(c) # None /\ Target(c) \in Ids
      BY <2>1 DEF TypeOK, SupersedeVoid
    <2>3. memories[Target(c)].occurred_at \in Nat
      BY <2>2 DEF TypeOK, Ids, Rows
    <2> QED
      BY <1>5, <1>h, <1>g, <2>1, <2>2, <2>3
  <1>6. CASE Upsert(p) /\ UNCHANGED historyVars
    <2> DEFINE c == op[p].call
               row == Row(wakes[turns[c.src].wake].kind, Target(c), op[p].at)
    <2>1. op[p] # None /\ op[p] \in Operations
      BY <1>6 DEF Upsert, TypeOK
    <2>2. IsCall(c) /\ Text(c) # None /\ c \in Calls /\ op[p].at \in Nat
      BY <2>1 DEF OpCommitted, Operations
    <2>3. row \in Rows /\ NewId(c) \in MemoryIds
      BY <2>2, CallTypes DEF Row, Rows
    <2> HIDE DEF row
    <2>4. memories' = [i \in Ids \cup {NewId(c)} |->
                          IF i = NewId(c) THEN row ELSE memories[i]]
      BY <1>6 DEF Upsert, row
    <2>5. /\ DOMAIN memories' \subseteq MemoryIds
          /\ memories' \in [DOMAIN memories' -> Rows]
      BY <1>0, <2>3, <2>4 DEF MemoryOK, Ids
    <2>6. CASE CallOf(c).tool = "supersede"
      <3>1. Going(p, c, "mark", op[p].at)
        BY <1>6, <2>6 DEF Upsert
      <3>2. /\ todo' = todo /\ op' \in [Procs -> Operations \cup {None}]
            /\ op'[p].call = c /\ \A q \in Procs \ {p} : op'[q] = op[q]
        BY <1>0, <2>2, <3>1 DEF Going, MemoryOK, Operations
      <3> QED
        BY <1>0, <1>6, <1>h, <2>1, <2>5, <3>2 DEF MemoryOK
    <2>7. CASE CallOf(c).tool # "supersede"
      <3>1. Answered(p, c)
        BY <1>6, <2>7 DEF Upsert
      <3>2. /\ todo' \in [Procs -> SUBSET Calls]
            /\ op' \in [Procs -> Operations \cup {None}]
            /\ \A q \in Procs : todo'[q] \subseteq todo[q]
            /\ \A q \in Procs : op'[q] # None => op'[q] = op[q]
        BY <1>0, <3>1 DEF Answered, MemoryOK
      <3> QED
        BY <1>6, <1>h, <2>5, <3>2 DEF MemoryOK
    <2> QED
      BY <2>6, <2>7
  <1>7. CASE RefuseMark(p) /\ UNCHANGED historyVars
    BY <1>7, <1>h, <1>a DEF RefuseMark
  <1>8. CASE CheckMark(p) /\ UNCHANGED historyVars
    <2>1. /\ op[p] # None /\ Going(p, op[p].call, "set", op[p].at)
          /\ UNCHANGED memories
      BY <1>8 DEF CheckMark
    <2>2. op[p].call \in Calls /\ op[p].at \in Nat
      BY <2>1 DEF TypeOK, Operations
    <2> QED
      BY <1>8, <1>h, <1>g, <2>1, <2>2
  <1>9. CASE SetMark(p) /\ UNCHANGED historyVars
    <2> DEFINE c == op[p].call
    <2>1. op[p] # None /\ op[p] \in Operations
      BY <1>9 DEF SetMark, TypeOK
    <2>2. IsCall(c) /\ Text(c) # None
      BY <2>1 DEF OpCommitted
    <2>3. NewId(c) \in MemoryIds
      BY <2>2, CallTypes
    <2>4. \A i \in Ids : [memories[i] EXCEPT !.superseded_by = NewId(c)] \in Rows
      BY <1>0, <2>3 DEF MemoryOK, Ids, Rows
    <2>5. memories' = [i \in Ids |->
                         IF i = Target(c)
                         THEN [memories[i] EXCEPT !.superseded_by = NewId(c)]
                         ELSE memories[i]]
      BY <1>9 DEF SetMark
    <2>6. /\ DOMAIN memories' \subseteq MemoryIds
          /\ memories' \in [DOMAIN memories' -> Rows]
      BY <1>0, <2>4, <2>5 DEF MemoryOK, Ids
    <2>7. Answered(p, c)
      BY <1>9 DEF SetMark
    <2>8. /\ todo' \in [Procs -> SUBSET Calls]
          /\ op' \in [Procs -> Operations \cup {None}]
          /\ \A q \in Procs : todo'[q] \subseteq todo[q]
          /\ \A q \in Procs : op'[q] # None => op'[q] = op[q]
      BY <1>0, <2>7 DEF Answered, MemoryOK
    <2> QED
      BY <1>9, <1>h, <2>6, <2>8 DEF MemoryOK
  <1>10. CASE DispatchSearch(p)
    <2>1. PICK c \in todo[p], R \in SUBSET Live :
             /\ RecordRetrieval(turns[c.src].wake, R)
             /\ Answered(p, c) /\ UNCHANGED memories
      BY <1>10 DEF DispatchSearch, Searches
    <2>2. R \in SUBSET MemoryIds
      BY <1>0 DEF Live, Ids, MemoryOK
    <2>3. HistoryOK' /\ Grows
      BY <1>0, <2>1, <2>2, RetrievalHistory
    <2>4. /\ MemoryOK'
          /\ \A q \in Procs : todo'[q] \subseteq todo[q]
          /\ \A q \in Procs : op'[q] # None => op'[q] = op[q]
      BY <1>0, <2>1 DEF MemoryOK, Answered
    <2> QED
      BY <2>3, <2>4
  <1>11. CASE RejectMisshapen(p) /\ UNCHANGED historyVars
    BY <1>11, <1>h, <1>a DEF RejectMisshapen
  <1> QED
    BY <1>1, <1>2, <1>3, <1>4, <1>5, <1>6, <1>7, <1>8, <1>9, <1>10, <1>11 DEF Dispatch

ProcOK ==
    /\ pc \in [Procs -> {"idle"} \cup RunSteps \cup RebuildSteps]
    /\ run \in [Procs -> Runs]
    /\ cyc \in [Procs -> Cycles]
    /\ current_state \in States

\* The initial locals are well typed, charging keeps a budget well typed, and a
\* refused budget names a stop reason.
LEMMA LocalTypes ==
    /\ FreshBudget \in Budgets /\ NoRun \in Runs /\ NoCycle \in Cycles
    /\ \A b \in Budgets, n, m \in Nat : ChargeToolCalls(Charge(b, n), m) \in Budgets
    /\ \A b \in Budgets : ~Allows(b) => Exceeded(b) \in StopReasons
  <1>1. FreshBudget \in Budgets
    BY DEF FreshBudget, Budgets
  <1>2. NoRun \in Runs
    BY <1>1 DEF NoRun, Runs, TriggerKinds
  <1>3. NoCycle \in Cycles
    BY DEF NoCycle, Cycles, States, StopReasons
  <1>4. ASSUME NEW b \in Budgets, NEW n \in Nat, NEW m \in Nat
        PROVE  ChargeToolCalls(Charge(b, n), m) \in Budgets
    <2>1. b.iterations + 1 \in Nat /\ b.tokens + n \in Nat /\ b.tool_calls + m \in Nat
      BY DEF Budgets
    <2>2. Charge(b, n) \in Budgets /\ Charge(b, n).tool_calls = b.tool_calls
      BY <2>1, Zenon DEF Charge, Budgets
    <2> QED
      BY <2>1, <2>2, Zenon DEF ChargeToolCalls, Budgets
  <1>5. ASSUME NEW b \in Budgets, ~Allows(b)
        PROVE  Exceeded(b) \in StopReasons
    BY <1>5 DEF Allows, Exceeded, StopReasons
  <1> QED
    BY <1>1, <1>2, <1>3, <1>4, <1>5

\* An id that was decided is an id.
LEMMA DecidedTypes ==
    ASSUME TypeInv
    PROVE  DecidedIds \subseteq MemoryIds
  <1>1. ASSUME NEW c, \E s \in DOMAIN turns : c \in CallsOf(s), Text(c) # None
        PROVE  NewId(c) \in MemoryIds
    <2>1. IsCall(c)
      BY <1>1 DEF CallsOf, IsCall
    <2> QED
      BY <1>1, <2>1, CallTypes
  <1> QED
    BY <1>1 DEF DecidedIds

\* What a turn settles is a decision.
LEMMA SettledTypes ==
    ASSUME NEW c \in Cycles, NEW calls, NEW f \in FinishCalls \cup {None}
    PROVE  Settled(c, calls, f) \in Cycles
  BY DEF Settled, ParseDecision, FinishCalls, Cycles, Decisions

\* An empty database and idle processes are well formed.
LEMMA TypeInvInit == Init => TypeInv
  <1> SUFFICES ASSUME Init PROVE TypeInv
    OBVIOUS
  <1>1. TypeOK
    BY LocalTypes DEF Init, HistoryInit, MemoryInit, OrchestratorInit, TypeOK,
       States, Rows
  <1> QED
    BY <1>1 DEF Init, HistoryInit, MemoryInit, OrchestratorInit, TypeInv,
       TurnsHaveWakes, TodoCommitted, OpCommitted, SrcCommitted

\* Every step keeps TypeInv, and history only grows.
LEMMA TypeInvNext == TypeInv /\ [Next]_vars => TypeInv' /\ Grows
  <1> SUFFICES ASSUME TypeInv, [Next]_vars
               PROVE  TypeInv' /\ Grows
    OBVIOUS
  <1> USE LocalTypes
  <1>0. HistoryOK /\ MemoryOK /\ ProcOK
    BY DEF TypeInv, TypeOK, HistoryOK, MemoryOK, ProcOK
  <1>all. ASSUME HistoryOK', Grows, MemoryOK', ProcOK', KeepsCalls, KeepsRound
          PROVE  TypeInv' /\ Grows
    BY <1>all, CommittedStays
       DEF TypeInv, TypeOK, HistoryOK, MemoryOK, ProcOK
  <1>h. ASSUME UNCHANGED historyVars
        PROVE  HistoryOK' /\ Grows
    BY <1>0, <1>h DEF HistoryOK, TurnsHaveWakes, Grows, historyVars
  <1>m. ASSUME UNCHANGED memoryVars
        PROVE  MemoryOK' /\ KeepsCalls
    BY <1>0, <1>m DEF MemoryOK, KeepsCalls, memoryVars
  <1>r. ASSUME NEW p \in Procs, NEW l \in {"idle"} \cup RunSteps \cup RebuildSteps,
               l # "tools", Goto(p, l)
        PROVE  /\ pc' \in [Procs -> {"idle"} \cup RunSteps \cup RebuildSteps]
               /\ \A q \in Procs : pc'[q] = "tools" => q # p /\ pc[q] = "tools"
    BY <1>0, <1>r DEF ProcOK, Goto
  <1>e. ASSUME NEW p \in Procs, Exit(p), current_state' = current_state
        PROVE  ProcOK' /\ KeepsRound
    BY <1>0, <1>e, <1>r DEF ProcOK, Exit, KeepsRound, Goto
  <1>1. ASSUME NEW p \in Procs, NEW t \in Wakings, Start(p, t)
        PROVE  TypeInv' /\ Grows
    <2>1. [NoRun EXCEPT !.kind = t.kind, !.cue = t.cue] \in Runs
      BY HarnessAssumption DEF Triggers, Runs
    <2>2. run' \in [Procs -> Runs]
      BY <1>0, <1>1, <2>1 DEF Start, ProcOK
    <2>3. ProcOK' /\ KeepsRound
      BY <1>0, <1>1, <1>r, <2>2 DEF Start, ProcOK, KeepsRound, RunSteps
    <2> QED
      BY <1>1, <1>all, <1>h, <1>m, <2>3 DEF Start
  <1>2. ASSUME NEW p \in Procs, LoadState(p)
        PROVE  TypeInv' /\ Grows
    <2>1. [NoCycle EXCEPT !.prior = current_state] \in Cycles
      BY <1>0 DEF ProcOK, Cycles
    <2>2. cyc' \in [Procs -> Cycles]
      BY <1>0, <1>2, <2>1 DEF LoadState, ProcOK
    <2>3. ProcOK' /\ KeepsRound
      BY <1>0, <1>2, <1>r, <2>2 DEF LoadState, ProcOK, KeepsRound, RunSteps
    <2> QED
      BY <1>2, <1>all, <1>h, <1>m, <2>3 DEF LoadState
  <1>3. ASSUME NEW p \in Procs, OpenCycle(p)
        PROVE  TypeInv' /\ Grows
    <2>1. run[p] \in Runs /\ cyc[p] \in Cycles
      BY <1>0 DEF ProcOK
    <2>2. run[p].kind \in TriggerKinds /\ cyc[p].prior \in States
      BY <2>1 DEF Runs, Cycles
    <2>3. HistoryOK' /\ Grows /\ NewWakeSeq \in Nat
      BY <1>0, <1>3, <2>2, OpenWakeHistory DEF OpenCycle
    <2>4. [cyc[p] EXCEPT !.wake = NewWakeSeq] \in Cycles
      BY <2>1, <2>3 DEF Cycles
    <2>5. cyc' \in [Procs -> Cycles]
      BY <1>0, <1>3, <2>4 DEF OpenCycle, ProcOK
    <2>6. run[p].records + 1 \in Nat
      <3>1. run[p].records \in Nat
        BY <2>1, Zenon DEF Runs
      <3> QED
        BY <3>1
    <2>7. [run[p] EXCEPT !.records = @ + 1] \in Runs
      BY <2>1, <2>6, Zenon DEF Runs
    <2>8. run' \in [Procs -> Runs]
      BY <1>0, <1>3, <2>7 DEF OpenCycle, ProcOK
    <2>9. ProcOK' /\ KeepsRound
      BY <1>0, <1>3, <1>r, <2>5, <2>8 DEF OpenCycle, ProcOK, KeepsRound, RunSteps
    <2> QED
      BY <1>3, <1>all, <1>m, <2>3, <2>9 DEF OpenCycle
  <1>4. ASSUME NEW p \in Procs, UserTurn(p)
        PROVE  TypeInv' /\ Grows
    <2>1. cyc[p].wake \in Nat /\ << >> \in Seq(ToolCalls)
      BY <1>0 DEF ProcOK, Cycles
    <2>2. HistoryOK' /\ Grows
      BY <1>0, <1>4, <2>1, AppendTurnHistory DEF UserTurn
    <2>3. ProcOK' /\ KeepsRound
      BY <1>0, <1>4, <1>r DEF UserTurn, ProcOK, KeepsRound, RunSteps
    <2> QED
      BY <1>4, <1>all, <1>m, <2>2, <2>3 DEF UserTurn
  <1>5. ASSUME NEW p \in Procs, Observe(p)
        PROVE  TypeInv' /\ Grows
    <2>1. PICK R \in SUBSET Live : RecordRetrieval(cyc[p].wake, R)
      BY <1>5 DEF Observe
    <2>2. HistoryOK' /\ Grows
      BY <1>0, <2>1, RetrievalHistory DEF Live, Ids, MemoryOK
    <2>3. ProcOK' /\ KeepsRound
      BY <1>0, <1>5, <1>r DEF Observe, ProcOK, KeepsRound, RunSteps
    <2> QED
      BY <1>5, <1>all, <1>m, <2>2, <2>3 DEF Observe
  <1>6. ASSUME NEW p \in Procs, Complete(p)
        PROVE  TypeInv' /\ Grows
    <2>1. PICK calls \in MemoryCalls, f \in Finishes \cup {None}, n \in Usages :
             /\ AppendTurn(cyc[p].wake, "assistant", calls, f)
             /\ run' = [run EXCEPT
                   ![p].budget = ChargeToolCalls(Charge(run[p].budget, n), Len(calls)),
                   ![p].model_calls = @ + 1]
             /\ todo' = [todo EXCEPT ![p] =
                           {[src |-> NewTurnSeq, idx |-> k] : k \in DOMAIN calls}]
             /\ IF calls = << >>
                THEN /\ cyc' = [cyc EXCEPT ![p] = Settled(@, calls, f)]
                     /\ Goto(p, "decided")
                ELSE /\ cyc' = [cyc EXCEPT ![p].src = NewTurnSeq]
                     /\ Goto(p, "tools")
      BY <1>6, Zenon DEF Complete
    <2>2. /\ calls \in Seq(ToolCalls) /\ f \in FinishCalls \cup {None} /\ n \in Nat
          /\ Len(calls) \in Nat
      <3>1. Menu \subseteq ToolCalls
        BY DecidedTypes DEF Menu, ToolCalls, ToolNames, Write, Search, Supersede,
           Misshapen, Falsy
      <3>2. PICK l \in 0 .. MaxCallsPerTurn : calls \in [1 .. l -> Menu]
        BY DEF MemoryCalls
      <3>3. l \in Nat /\ calls \in [1 .. l -> ToolCalls]
        BY <3>1, <3>2, OrchestratorAssumption
      <3>4. calls \in Seq(ToolCalls)
        BY <3>3
      <3> QED
        BY <3>4, OrchestratorAssumption
    <2>3. run[p] \in Runs /\ cyc[p] \in Cycles /\ cyc[p].wake \in Nat
      BY <1>0 DEF ProcOK, Cycles
    <2>4. /\ HistoryOK' /\ Grows
          /\ NewTurnSeq \in DOMAIN turns' /\ turns'[NewTurnSeq].calls = calls
      <3>1. AppendTurn(cyc[p].wake, "assistant", calls, f)
        BY <2>1
      <3>2. "assistant" \in {"user", "assistant", "tool"}
        OBVIOUS
      <3>3. /\ HistoryOK' /\ Grows /\ NewTurnSeq \in DOMAIN turns'
            /\ turns'[NewTurnSeq] = Turn(cyc[p].wake, "assistant", calls, f)
        BY <1>0, <2>2, <2>3, <3>1, <3>2, AppendTurnHistory, Zenon
      <3> QED
        BY <3>3 DEF Turn
    <2>5. NewTurnSeq \in Nat
      BY <1>0 DEF HistoryOK, NewTurnSeq
    <2>6. MemoryOK'
      <3>1. {[src |-> NewTurnSeq, idx |-> k] : k \in DOMAIN calls} \subseteq Calls
        BY <2>2, <2>5 DEF Calls
      <3> QED
        BY <1>0, <1>6, <2>1, <3>1 DEF MemoryOK, Complete
    <2>7. run' \in [Procs -> Runs]
      <3>1. /\ run[p].budget \in Budgets /\ run[p].model_calls \in Nat
        BY <2>3, Zenon DEF Runs
      <3>2. ChargeToolCalls(Charge(run[p].budget, n), Len(calls)) \in Budgets
        BY <2>2, <3>1, LocalTypes, Zenon
      <3>3. run[p].model_calls + 1 \in Nat
        BY <3>1
      <3>4. [run[p] EXCEPT
               !.budget = ChargeToolCalls(Charge(run[p].budget, n), Len(calls)),
               !.model_calls = @ + 1] \in Runs
        BY <2>3, <3>2, <3>3, Zenon DEF Runs
      <3> QED
        BY <1>0, <2>1, <3>4 DEF ProcOK
    <2>8. cyc' \in [Procs -> Cycles]
      <3>1. Settled(cyc[p], calls, f) \in Cycles
        BY <2>2, <2>3, SettledTypes
      <3>2. [cyc[p] EXCEPT !.src = NewTurnSeq] \in Cycles
        BY <2>3, <2>5 DEF Cycles
      <3> QED
        BY <1>0, <2>1, <3>1, <3>2 DEF ProcOK
    <2>9. ProcOK'
      BY <1>0, <1>6, <2>1, <2>7, <2>8 DEF ProcOK, Complete, Goto, RunSteps
    <2>10. TodoCommitted' /\ OpCommitted' /\ SrcCommitted'
      <3>1. TodoCommitted'
        BY <2>1, <2>4 DEF TypeInv, TodoCommitted, IsCall, Grows, TypeOK
      <3>2. OpCommitted'
        <4>1. op' = op
          BY <1>6 DEF Complete
        <4> QED
          BY <2>4, <4>1 DEF TypeInv, OpCommitted, IsCall, CallOf, Text, Grows
      <3>3. ASSUME NEW q \in Procs, pc'[q] = "tools"
            PROVE  cyc'[q].src \in DOMAIN turns'
        <4>1. CASE q = p
          <5>1. calls # << >>
            BY <1>0, <2>1, <3>3, <4>1 DEF Goto, ProcOK
          <5>2. cyc' = [cyc EXCEPT ![p].src = NewTurnSeq]
            BY <2>1, <5>1
          <5>3. cyc'[p].src = NewTurnSeq
            BY <1>0, <2>3, <5>2 DEF ProcOK, Cycles
          <5> QED
            BY <2>4, <4>1, <5>3
        <4>2. CASE q # p
          <5>1. pc[q] = "tools" /\ cyc'[q] = cyc[q]
            BY <1>0, <2>1, <3>3, <4>2 DEF Goto, ProcOK
          <5> QED
            BY <2>4, <5>1 DEF TypeInv, SrcCommitted, Grows
        <4> QED
          BY <4>1, <4>2
      <3> QED
        BY <3>1, <3>2, <3>3 DEF SrcCommitted
    <2> QED
      BY <2>4, <2>6, <2>9, <2>10 DEF TypeInv, TypeOK, HistoryOK, MemoryOK, ProcOK
  <1>7. ASSUME NEW p \in Procs, BudgetStop(p)
        PROVE  TypeInv' /\ Grows
    <2>1. cyc[p] \in Cycles /\ Exceeded(run[p].budget) \in StopReasons
      <3>1. run[p] \in Runs
        BY <1>0 DEF ProcOK
      <3>2. run[p].budget \in Budgets
        BY <3>1, Zenon DEF Runs
      <3> QED
        BY <1>0, <1>7, <3>2 DEF BudgetStop, ProcOK
    <2>2. [cyc[p] EXCEPT !.stop_reason = Exceeded(run[p].budget)] \in Cycles
      BY <2>1 DEF Cycles
    <2>3. cyc' \in [Procs -> Cycles]
      BY <1>0, <1>7, <2>2 DEF BudgetStop, ProcOK
    <2>4. ProcOK' /\ KeepsRound
      BY <1>0, <1>7, <1>r, <2>3 DEF BudgetStop, ProcOK, KeepsRound, RunSteps
    <2> QED
      BY <1>7, <1>all, <1>h, <1>m, <2>4 DEF BudgetStop
  <1>8. ASSUME NEW p \in Procs, Dispatch(p), UNCHANGED orchestratorVars
        PROVE  TypeInv' /\ Grows
    <2>1. ProcOK' /\ KeepsRound
      BY <1>0, <1>8 DEF orchestratorVars, ProcOK, KeepsRound
    <2> QED
      BY <1>8, <1>all, <2>1, DispatchMemory
  <1>9. ASSUME NEW p \in Procs, ToolTurn(p)
        PROVE  TypeInv' /\ Grows
    <2> DEFINE t == turns[cyc[p].src]
    <2>1. t \in Turns
      BY <1>0, <1>9 DEF ToolTurn, TypeInv, SrcCommitted, HistoryOK
    <2>2. cyc[p] \in Cycles /\ cyc[p].wake \in Nat /\ << >> \in Seq(ToolCalls)
      BY <1>0 DEF ProcOK, Cycles
    <2>3. HistoryOK' /\ Grows
      BY <1>0, <1>9, <2>2, AppendTurnHistory DEF ToolTurn
    <2>4. Settled(cyc[p], t.calls, t.finish) \in Cycles
      BY <2>1, <2>2, SettledTypes DEF Turns
    <2>5. cyc' \in [Procs -> Cycles]
      BY <1>0, <1>9, <2>4 DEF ToolTurn, ProcOK
    <2>6. AfterTurn(t.calls, t.finish) \in {"decided", "loop"}
      BY DEF AfterTurn
    <2>7. ProcOK' /\ KeepsRound
      BY <1>0, <1>9, <1>r, <2>5, <2>6 DEF ToolTurn, ProcOK, KeepsRound, RunSteps
    <2> QED
      BY <1>9, <1>all, <1>m, <2>3, <2>7 DEF ToolTurn
  <1>10. ASSUME NEW p \in Procs, CloseSleep(p) \/ CloseCycle(p) \/ CloseOnError(p)
         PROVE  HistoryOK' /\ Grows
    <2>1. run[p] \in Runs /\ cyc[p] \in Cycles
      BY <1>0 DEF ProcOK
    <2>2. run[p].budget \in Budgets
      BY <2>1, Zenon DEF Runs
    <2>3. /\ cyc[p].decision \in Decisions \cup {None}
          /\ cyc[p].stop_reason \in StopReasons
          /\ cyc[p].state_after \in States \cup {None}
          /\ cyc[p].successor \in BOOLEAN
      BY <2>1 DEF Cycles
    <2>4. /\ "sleep" \in Decisions /\ {"idle", "error"} \subseteq StopReasons
          /\ FALSE \in BOOLEAN
      BY DEF Decisions, StopReasons
    <2> QED
      BY <1>0, <1>10, <2>2, <2>3, <2>4, CloseWakeHistory
         DEF CloseSleep, CloseCycle, CloseOnError
  <1>11. ASSUME NEW p \in Procs, CloseSleep(p) \/ CloseCycle(p)
         PROVE  TypeInv' /\ Grows
    <2>1. ProcOK' /\ KeepsRound
      BY <1>0, <1>11, <1>r DEF CloseSleep, CloseCycle, ProcOK, KeepsRound, RunSteps
    <2> QED
      BY <1>10, <1>11, <1>all, <1>m, <2>1 DEF CloseSleep, CloseCycle
  <1>12. ASSUME NEW p \in Procs, CloseOnError(p)
         PROVE  TypeInv' /\ Grows
    BY <1>10, <1>12, <1>all, <1>m, <1>e DEF CloseOnError
  <1>13. ASSUME NEW p \in Procs, UpdateState(p)
         PROVE  TypeInv' /\ Grows
    <2>1. run[p] \in Runs /\ cyc[p] \in Cycles
      BY <1>0 DEF ProcOK
    <2>2. PICK s \in {cyc[p].prior, cyc[p].prior \cup {cyc[p].wake}} :
             current_state' = s /\ cyc' = [cyc EXCEPT ![p].state_after = s]
      BY <1>13 DEF UpdateState
    <2>3. s \in States
      BY <2>1 DEF Cycles, States
    <2>4. [cyc[p] EXCEPT !.state_after = s] \in Cycles
      BY <2>1, <2>3 DEF Cycles
    <2>5. cyc' \in [Procs -> Cycles]
      BY <1>0, <2>2, <2>4 DEF ProcOK
    <2>6. run[p].model_calls \in Nat
      BY <2>1, Zenon DEF Runs
    <2>7. run[p].model_calls + 1 \in Nat
      BY <2>6
    <2>8. [run[p] EXCEPT !.model_calls = @ + 1] \in Runs
      BY <2>1, <2>7, Zenon DEF Runs
    <2>9. run' \in [Procs -> Runs]
      BY <1>0, <1>13, <2>8 DEF UpdateState, ProcOK
    <2>10. ProcOK' /\ KeepsRound
      BY <1>0, <1>13, <1>r, <2>2, <2>3, <2>5, <2>9
         DEF UpdateState, ProcOK, KeepsRound, RunSteps
    <2> QED
      BY <1>13, <1>all, <1>h, <1>m, <2>10 DEF UpdateState
  <1>14. ASSUME NEW p \in Procs, CompleteFails(p) \/ UpdateFails(p) \/ GetFails(p)
         PROVE  TypeInv' /\ Grows
    <2>1. ProcOK' /\ KeepsRound
      BY <1>0, <1>14, <1>r
         DEF CompleteFails, UpdateFails, GetFails, ProcOK, KeepsRound, RunSteps
    <2> QED
      BY <1>14, <1>all, <1>h, <1>m, <2>1 DEF CompleteFails, UpdateFails, GetFails
  <1>15. ASSUME NEW p \in Procs, Successor(p)
         PROVE  TypeInv' /\ Grows
    <2>1. run[p] \in Runs
      BY <1>0 DEF ProcOK
    <2>2. [run[p] EXCEPT !.cue = FALSE] \in Runs
      BY <2>1 DEF Runs
    <2>3. run' \in [Procs -> Runs]
      BY <1>0, <1>15, <2>2 DEF Successor, ProcOK
    <2>4. ProcOK' /\ KeepsRound
      BY <1>0, <1>15, <1>r, <2>3 DEF Successor, ProcOK, KeepsRound, RunSteps
    <2> QED
      BY <1>15, <1>all, <1>h, <1>m, <2>4 DEF Successor
  <1>16. ASSUME NEW p \in Procs, Finish(p) \/ ObserveFails(p) \/ Report(p) \/ ReplayRaises(p)
         PROVE  TypeInv' /\ Grows
    BY <1>16, <1>all, <1>h, <1>m, <1>e DEF Finish, ObserveFails, Report, ReplayRaises
  <1>17. ASSUME NEW p \in Procs, ClockRunsOut(p)
         PROVE  TypeInv' /\ Grows
    <2>1. run[p] \in Runs
      BY <1>0 DEF ProcOK
    <2>2. run[p].budget \in Budgets
      BY <2>1, Zenon DEF Runs
    <2>3. [run[p].budget EXCEPT !.late = TRUE] \in Budgets
      BY <2>2 DEF Budgets
    <2>4. [run[p] EXCEPT !.budget = [@ EXCEPT !.late = TRUE]] \in Runs
      BY <2>1, <2>3, Zenon DEF Runs
    <2>5. run' \in [Procs -> Runs]
      BY <1>0, <1>17, <2>4 DEF ClockRunsOut, ProcOK
    <2>6. ProcOK' /\ KeepsRound
      BY <1>0, <1>17, <2>5 DEF ClockRunsOut, ProcOK, KeepsRound
    <2> QED
      BY <1>17, <1>all, <1>h, <1>m, <2>6 DEF ClockRunsOut
  <1>18. ASSUME NEW p \in Procs, Abandon(p), UNCHANGED <<memories, historyVars>>
         PROVE  HistoryOK' /\ Grows /\ MemoryOK' /\ KeepsCalls
    BY <1>0, <1>18, <1>h DEF Abandon, MemoryOK, KeepsCalls
  <1>19. ASSUME NEW p \in Procs, Crash(p) \/ ReplayFails(p)
         PROVE  TypeInv' /\ Grows
    BY <1>18, <1>19, <1>all, <1>e DEF Crash, ReplayFails
  <1>L. ASSUME NEW p \in Procs, LockedOut(p)
         PROVE  TypeInv' /\ Grows
    <2>1. HistoryOK' /\ Grows /\ MemoryOK' /\ KeepsCalls /\ current_state' = current_state
      BY <1>18, <1>L DEF LockedOut
    <2>2. CASE Exit(p)
      BY <1>all, <1>e, <2>1, <2>2
    <2>3. ASSUME NEW d \in {cyc[p].decision, None}, Goto(p, "error"),
                 cyc' = [cyc EXCEPT ![p].decision = d], run' = run
          PROVE  ProcOK' /\ KeepsRound
      <3>1. cyc[p] \in Cycles
        BY <1>0 DEF ProcOK
      <3>2. [cyc[p] EXCEPT !.decision = d] \in Cycles
        BY <3>1 DEF Cycles
      <3>3. cyc' \in [Procs -> Cycles]
        BY <1>0, <2>3, <3>2 DEF ProcOK
      <3> QED
        BY <1>0, <1>r, <2>1, <2>3, <3>3 DEF ProcOK, KeepsRound, RunSteps
    <2>4. CASE ~Exit(p)
      <3>1. PICK d \in {cyc[p].decision, None} :
               /\ Goto(p, "error") /\ run' = run
               /\ cyc' = [cyc EXCEPT ![p].decision = d]
        BY <1>L, <2>4 DEF LockedOut
      <3> QED
        BY <1>all, <2>1, <2>3, <3>1
    <2> QED
      BY <2>2, <2>4
  <1>20. ASSUME NEW p \in Procs, DispatchFails(p) \/ DispatchRaises(p)
         PROVE  TypeInv' /\ Grows
    <2>1. ProcOK' /\ KeepsRound
      BY <1>0, <1>20, <1>r DEF DispatchFails, DispatchRaises, ProcOK, KeepsRound, RunSteps
    <2> QED
      BY <1>18, <1>20, <1>all, <2>1 DEF DispatchFails, DispatchRaises
  <1>21. ASSUME NEW p \in Procs, WrongDimension(p), UNCHANGED orchestratorVars
         PROVE  TypeInv' /\ Grows
    <2>1. ProcOK' /\ KeepsRound
      BY <1>0, <1>21 DEF orchestratorVars, ProcOK, KeepsRound
    <2>2. PICK c \in todo[p] : Answered(p, c)
      BY <1>21 DEF WrongDimension
    <2>3. MemoryOK' /\ KeepsCalls
      BY <1>0, <1>21, <2>2 DEF WrongDimension, Answered, MemoryOK, KeepsCalls
    <2> QED
      BY <1>21, <1>all, <1>h, <2>1, <2>3 DEF WrongDimension
  <1>22. ASSUME NEW p \in Procs, StartRebuild(p) \/ StartTopUp(p)
         PROVE  TypeInv' /\ Grows
    <2>1. ProcOK' /\ KeepsRound
      BY <1>0, <1>22, <1>r DEF StartRebuild, StartTopUp, ProcOK, KeepsRound, RebuildSteps
    <2> QED
      BY <1>22, <1>all, <1>h, <1>m, <2>1 DEF StartRebuild, StartTopUp
  <1>C. ASSUME NEW p \in Procs, Clear(p)
         PROVE  TypeInv' /\ Grows
    <2>1. MemoryOK' /\ KeepsCalls
      BY <1>0, <1>C DEF Clear, MemoryOK, KeepsCalls
    <2>2. ProcOK' /\ KeepsRound
      BY <1>0, <1>C, <1>r DEF Clear, ProcOK, KeepsRound, RebuildSteps
    <2> QED
      BY <1>C, <1>all, <1>h, <2>1, <2>2 DEF Clear
  <1>23. ASSUME NEW p \in Procs, OpenCursor(p)
         PROVE  TypeInv' /\ Grows
    <2>1. Script \subseteq Calls /\ \A c \in Script : IsCall(c)
      <3>1. ASSUME NEW c \in Script
            PROVE  c \in Calls /\ IsCall(c)
        <4>1. PICK s \in DOMAIN turns :
                 \E k \in DOMAIN turns[s].calls : c = [src |-> s, idx |-> k]
          BY <3>1 DEF Script, CallsOf
        <4>2. turns[s] \in Turns /\ s \in Nat
          BY <1>0 DEF HistoryOK
        <4>3. turns[s].calls \in Seq(ToolCalls)
          BY <4>2 DEF Turns
        <4>4. PICK k \in DOMAIN turns[s].calls : c = [src |-> s, idx |-> k]
          BY <4>1
        <4>5. k \in Nat
          BY <4>3
        <4> QED
          BY <4>1, <4>2, <4>4, <4>5 DEF Calls, IsCall
      <3> QED
        BY <3>1
    <2>2. HistoryOK' /\ Grows /\ UNCHANGED historyVars
      BY <1>23, <1>h DEF OpenCursor
    <2>3. MemoryOK' /\ op' = op
      BY <1>0, <1>23, <2>1 DEF OpenCursor, MemoryOK
    <2>4. ProcOK' /\ KeepsRound
      BY <1>0, <1>23, <1>r DEF OpenCursor, ProcOK, KeepsRound, RebuildSteps
    <2>5. TodoCommitted'
      BY <1>0, <1>23, <2>1, <2>2
         DEF OpenCursor, TypeInv, TodoCommitted, IsCall, MemoryOK, historyVars
    <2>6. OpCommitted' /\ SrcCommitted'
      BY <2>2, <2>3, <2>4 DEF TypeInv, OpCommitted, SrcCommitted, KeepsRound,
         IsCall, CallOf, Text, historyVars
    <2> QED
      BY <2>2, <2>3, <2>4, <2>5, <2>6 DEF TypeInv, TypeOK, HistoryOK, MemoryOK, ProcOK
  <1>E. ASSUME NEW p \in Procs, EndReplay(p)
         PROVE  TypeInv' /\ Grows
    <2>1. \A w \in DOMAIN wakes : FinalStateOf(w) => wakes[w].state_after \in States
      <3>1. \A w \in DOMAIN wakes : wakes[w] \in WakeRecords
        BY <1>0 DEF HistoryOK
      <3> QED
        BY <3>1 DEF FinalStateOf, WakeRecords
    <2>2. cyc[p] \in Cycles
      BY <1>0 DEF ProcOK
    <2>3. \A s \in States : [cyc[p] EXCEPT !.state_after = s] \in Cycles
      BY <2>2 DEF Cycles
    <2>4. cyc' \in [Procs -> Cycles]
      BY <1>0, <1>E, <2>1, <2>3 DEF EndReplay, ProcOK
    <2>5. ProcOK' /\ KeepsRound
      BY <1>0, <1>E, <1>r, <2>4 DEF EndReplay, ProcOK, KeepsRound, RebuildSteps
    <2> QED
      BY <1>E, <1>all, <1>h, <1>m, <2>5 DEF EndReplay
  <1>24. ASSUME NEW p \in Procs, RestoreState(p)
         PROVE  TypeInv' /\ Grows
    <2>1. cyc[p] \in Cycles
      BY <1>0 DEF ProcOK
    <2>2. current_state' \in States
      BY <1>0, <1>24, <2>1 DEF RestoreState, ProcOK, Cycles
    <2>3. ProcOK' /\ KeepsRound
      BY <1>0, <1>24, <1>r, <2>2 DEF RestoreState, ProcOK, KeepsRound, RebuildSteps
    <2> QED
      BY <1>24, <1>all, <1>h, <1>m, <2>3 DEF RestoreState
  <1>25. CASE UNCHANGED vars
    <2>1. ProcOK' /\ KeepsRound /\ UNCHANGED historyVars /\ UNCHANGED memoryVars
      BY <1>0, <1>25 DEF vars, historyVars, memoryVars, ProcOK, KeepsRound
    <2> QED
      BY <1>all, <1>h, <1>m, <2>1
  <1>26. ASSUME NEW p \in Procs, RunStep(p)
         PROVE  TypeInv' /\ Grows
    BY <1>2, <1>3, <1>4, <1>5, <1>6, <1>7, <1>8, <1>9, <1>11, <1>12, <1>13,
       <1>14, <1>15, <1>16, <1>20, <1>26 DEF RunStep, DispatchCall
  <1>27. ASSUME NEW p \in Procs, Misfortune(p) \/ ReplayFails(p) \/ ReplayMisfits(p)
         PROVE  TypeInv' /\ Grows
    BY <1>14, <1>16, <1>17, <1>19, <1>20, <1>21, <1>L, <1>27
       DEF Misfortune, DispatchMisfits, ReplayMisfits
  <1>28. ASSUME NEW p \in Procs, Begin(p) \/ RebuildStep(p)
         PROVE  TypeInv' /\ Grows
    BY <1>1, <1>8, <1>16, <1>22, <1>23, <1>24, <1>C, <1>E, <1>28
       DEF Begin, RebuildStep, ReplayCall
  <1> QED
    BY <1>25, <1>26, <1>27, <1>28 DEF Next, Rest

\* Every variable always holds a value of its kind, whatever the texts, the
\* number of processes and the faults: in particular whatever a process has in
\* hand is a call that history holds.
THEOREM TypeCorrect == Spec => []TypeOK
  <1>1. TypeInv => TypeOK
    BY DEF TypeInv
  <1> QED
    BY <1>1, TypeInvInit, TypeInvNext, PTL DEF Spec
----------------------------------------------------------------------------
\* What writes the store: an upsert, a mark, or the emptying of a rebuild.
LEMMA MemorySteps ==
    ASSUME [Next]_vars
    PROVE  \/ memories' = memories
           \/ \E p \in Procs :
                 (Upsert(p) \/ SetMark(p)) /\ UNCHANGED historyVars
           \/ \E p \in Procs : Clear(p)
  <1> DEFINE Goal == \/ memories' = memories
                     \/ \E p \in Procs :
                           (Upsert(p) \/ SetMark(p)) /\ UNCHANGED historyVars
                     \/ \E p \in Procs : Clear(p)
  <1>1. ASSUME NEW p \in Procs, DispatchCall(p) \/ ReplayCall(p)
        PROVE  Goal
    <2>1. Dispatch(p)
      BY <1>1 DEF DispatchCall, ReplayCall
    <2>2. \/ memories' = memories
          \/ (Upsert(p) \/ SetMark(p)) /\ UNCHANGED historyVars
      BY <2>1 DEF Dispatch, RejectWrite, AcceptWrite, VoidSupersede, ReapplyMark,
         AcceptSupersede, RefuseMark, CheckMark, DispatchSearch, RejectMisshapen
    <2> QED
      BY <2>1, <2>2
  <1>2. ASSUME NEW p \in Procs, RunStep(p)
        PROVE  Goal
    BY <1>1, <1>2 DEF RunStep, LoadState, OpenCycle, UserTurn, Observe, Complete,
       BudgetStop, DispatchRaises, ToolTurn, CloseSleep, GetFails, UpdateState,
       CloseCycle, CloseOnError, Successor, Finish, memoryVars
  <1>3. ASSUME NEW p \in Procs, Misfortune(p) \/ ReplayFails(p) \/ ReplayMisfits(p)
        PROVE  Goal
    BY <1>3 DEF Misfortune, ObserveFails, CompleteFails, DispatchFails,
       DispatchMisfits, UpdateFails, ClockRunsOut, Crash, LockedOut, ReplayFails,
       ReplayMisfits, WrongDimension, memoryVars
  <1>4. ASSUME NEW p \in Procs, Begin(p) \/ RebuildStep(p)
        PROVE  Goal
    <2>1. EndReplay(p) \/ RestoreState(p) => memories' = memories
      BY DEF EndReplay, RestoreState, memoryVars
    <2> QED
      BY <1>1, <1>4, <2>1 DEF Begin, Start, StartRebuild, StartTopUp, RebuildStep,
         OpenCursor, ReplayRaises, Report, memoryVars
  <1> QED
    BY <1>2, <1>3, <1>4 DEF Next, Rest, vars

\* What writes the turns: only a completion appends a turn with calls.
LEMMA TurnSteps ==
    ASSUME TypeInv, [Next]_vars
    PROVE  \/ turns' = turns
           \/ \E t :
                 /\ turns' = Append(turns, t)
                 /\ t.calls # << >> => t.role = "assistant" /\ t.calls \in MemoryCalls
  <1> DEFINE Goal == \/ turns' = turns
                     \/ \E t :
                           /\ turns' = Append(turns, t)
                           /\ t.calls # << >> =>
                                 t.role = "assistant" /\ t.calls \in MemoryCalls
  <1>1. ASSUME NEW p \in Procs, UserTurn(p) \/ ToolTurn(p)
        PROVE  Goal
    BY <1>1 DEF UserTurn, ToolTurn, AppendTurn, Turn
  <1>2. ASSUME NEW p \in Procs, Complete(p)
        PROVE  Goal
    <2>1. PICK calls \in MemoryCalls, f \in Finishes \cup {None} :
             AppendTurn(cyc[p].wake, "assistant", calls, f)
      BY <1>2, Zenon DEF Complete
    <2> QED
      BY <2>1 DEF AppendTurn, Turn
  <1>3. ASSUME NEW p \in Procs, DispatchCall(p) \/ ReplayCall(p)
        PROVE  Goal
    <2>1. Dispatch(p)
      BY <1>3 DEF DispatchCall, ReplayCall
    <2> QED
      BY <2>1 DEF Dispatch, DispatchSearch, RecordRetrieval, historyVars
  <1>4. ASSUME NEW p \in Procs, RunStep(p)
        PROVE  Goal
    BY <1>1, <1>2, <1>3, <1>4 DEF RunStep, LoadState, OpenCycle, OpenWake,
       Observe, RecordRetrieval, BudgetStop, DispatchRaises, CloseSleep,
       GetFails, UpdateState, CloseCycle, CloseOnError, CloseWake, Successor,
       Finish, historyVars
  <1>5. ASSUME NEW p \in Procs, Misfortune(p) \/ ReplayFails(p) \/ ReplayMisfits(p)
        PROVE  Goal
    BY <1>5 DEF Misfortune, ObserveFails, CompleteFails, DispatchFails,
       DispatchMisfits, UpdateFails, ClockRunsOut, Crash, LockedOut, ReplayFails,
       ReplayMisfits, WrongDimension, historyVars
  <1>6. ASSUME NEW p \in Procs, Begin(p) \/ RebuildStep(p)
        PROVE  Goal
    <2>1. EndReplay(p) \/ RestoreState(p) => turns' = turns
      BY DEF EndReplay, RestoreState, historyVars
    <2> QED
      BY <1>3, <1>6, <2>1 DEF Begin, Start, StartRebuild, StartTopUp, RebuildStep,
         Clear, OpenCursor, ReplayRaises, Report, historyVars
  <1> QED
    BY <1>4, <1>5, <1>6 DEF Next, Rest, vars

\* Calls are made by assistant turns only.
CallsAreAssistant ==
    \A s \in DOMAIN turns : turns[s].calls # << >> => turns[s].role = "assistant"

ProvenanceInv == CallsAreAssistant /\ Provenance

\* Every step keeps the rows traceable: an upsert stores the row of the call in
\* hand, a mark changes neither origin nor target.
LEMMA ProvenanceNext ==
    TypeInv /\ TypeInv' /\ Grows /\ ProvenanceInv /\ [Next]_vars => ProvenanceInv'
  <1> SUFFICES ASSUME TypeInv, TypeInv', Grows, ProvenanceInv, [Next]_vars
               PROVE  ProvenanceInv'
    OBVIOUS
  <1>1. CallsAreAssistant'
    <2>1. CASE turns' = turns
      BY <2>1 DEF ProvenanceInv, CallsAreAssistant
    <2>2. ASSUME NEW t, turns' = Append(turns, t),
                 t.calls # << >> => t.role = "assistant"
          PROVE  CallsAreAssistant'
      <3>1. turns \in Seq(Turns)
        BY DEF TypeInv, TypeOK
      <3>2. ASSUME NEW s \in DOMAIN turns'
            PROVE  (s \in DOMAIN turns /\ turns'[s] = turns[s]) \/ turns'[s] = t
        BY <2>2, <3>1
      <3> QED
        BY <2>2, <3>2 DEF ProvenanceInv, CallsAreAssistant
    <2> QED
      BY <2>1, <2>2, TurnSteps
  \* A row that is traced stays traced when its origin and target stay.
  <1>2. ASSUME NEW i \in Ids, NEW j \in DOMAIN memories', i = j,
               memories'[i].origin = memories[i].origin,
               memories'[i].supersedes = memories[i].supersedes
        PROVE  /\ i.src \in DOMAIN turns'
               /\ turns'[i.src].role = "assistant"
               /\ memories'[i].origin = wakes'[turns'[i.src].wake].kind
               /\ \E k \in DOMAIN turns'[i.src].calls :
                     /\ turns'[i.src].calls[k].tool \in {"write", "supersede"}
                     /\ Canon[turns'[i.src].calls[k].text] = i.text
                     /\ turns'[i.src].calls[k].target = memories'[i].supersedes
    <2>1. i.src \in DOMAIN turns /\ turns'[i.src] = turns[i.src]
      BY DEF ProvenanceInv, Provenance, Grows
    <2>2. wakes'[turns[i.src].wake].kind = wakes[turns[i.src].wake].kind
      BY <2>1 DEF TypeInv, TurnsHaveWakes, Grows
    <2> QED
      BY <1>2, <2>1, <2>2 DEF ProvenanceInv, Provenance, Grows
  <1>3. Provenance'
    <2>1. CASE memories' = memories
      BY <1>2, <2>1 DEF Provenance, Ids
    <2>2. ASSUME NEW p \in Procs, Upsert(p), UNCHANGED historyVars
          PROVE  Provenance'
      <3> DEFINE c == op[p].call
      <3>1. /\ IsCall(c) /\ CallOf(c).tool \in {"write", "supersede"} /\ Text(c) # None
            /\ op[p] # None
        BY <2>2 DEF Upsert, TypeInv, OpCommitted
      <3>2. /\ Ids' = Ids \cup {NewId(c)}
            /\ memories'[NewId(c)].origin = wakes[turns[c.src].wake].kind
            /\ memories'[NewId(c)].supersedes = CallOf(c).target
            /\ \A i \in Ids \ {NewId(c)} : memories'[i] = memories[i]
        BY <2>2 DEF Upsert, Row, Ids, Target
      <3>3. NewId(c).src = c.src /\ NewId(c).text = Canon[CallOf(c).text]
        BY DEF NewId, MemoryId, Text
      <3>4. turns[c.src].role = "assistant"
        BY <3>1 DEF IsCall, ProvenanceInv, CallsAreAssistant
      <3>5. UNCHANGED <<wakes, turns>>
        BY <2>2 DEF historyVars
      <3> HIDE DEF c
      <3>6. ASSUME NEW i \in Ids', i = NewId(c)
            PROVE  /\ i.src \in DOMAIN turns
                   /\ turns[i.src].role = "assistant"
                   /\ memories'[i].origin = wakes[turns[i.src].wake].kind
                   /\ \E k \in DOMAIN turns[i.src].calls :
                         /\ turns[i.src].calls[k].tool \in {"write", "supersede"}
                         /\ Canon[turns[i.src].calls[k].text] = i.text
                         /\ turns[i.src].calls[k].target = memories'[i].supersedes
        BY <3>1, <3>2, <3>3, <3>4, <3>6 DEF IsCall, CallOf
      <3>7. ASSUME NEW i \in Ids', i # NewId(c)
            PROVE  i \in Ids /\ i \in DOMAIN memories' /\ memories'[i] = memories[i]
        BY <3>2, <3>7 DEF Ids
      <3> QED
        BY <1>2, <3>5, <3>6, <3>7 DEF Provenance
    <2>3. ASSUME NEW p \in Procs, SetMark(p)
          PROVE  Provenance'
      <3>1. /\ Ids' = Ids
            /\ \A i \in Ids : /\ memories'[i].origin = memories[i].origin
                              /\ memories'[i].supersedes = memories[i].supersedes
        <4>1. \A i \in Ids : memories[i] \in Rows
          BY DEF TypeInv, TypeOK, Ids
        <4> QED
          BY <2>3, <4>1 DEF SetMark, Ids, Rows
      <3> QED
        BY <1>2, <3>1 DEF Provenance, Ids
    <2>4. ASSUME NEW p \in Procs, Clear(p)
          PROVE  Provenance'
      BY <2>4 DEF Clear, Provenance, Ids
    <2> QED
      BY <2>1, <2>2, <2>3, <2>4, MemorySteps
  <1> QED
    BY <1>1, <1>3 DEF ProvenanceInv

\* Every row of the store can be traced to the call of a committed assistant
\* turn that decided on it, across crashes, rebuilds and other processes.
THEOREM ProvenanceHolds == Spec => []Provenance
  <1>1. Init => ProvenanceInv
    BY DEF Init, HistoryInit, MemoryInit, ProvenanceInv, CallsAreAssistant,
       Provenance, Ids
  <1>2. ProvenanceInv => Provenance
    BY DEF ProvenanceInv
  <1> QED
    BY <1>1, <1>2, TypeInvInit, TypeInvNext, ProvenanceNext, PTL DEF Spec
----------------------------------------------------------------------------
\* What writes the wakes.
Closes(w) ==
    \E d, s, b, st, su : CloseWake(w, d, s, b, st, su)

\* What writes the wakes: opening one, noting a retrieval, or closing one.
LEMMA WakeSteps ==
    ASSUME [Next]_vars
    PROVE  \/ wakes' = wakes
           \/ \E kind, snapshot, p : OpenWake(kind, snapshot, p)
           \/ \E w, ids : RecordRetrieval(w, ids)
           \/ \E w : Closes(w)
  <1> DEFINE Goal == \/ wakes' = wakes
                     \/ \E kind, snapshot, p : OpenWake(kind, snapshot, p)
                     \/ \E w, ids : RecordRetrieval(w, ids)
                     \/ \E w : Closes(w)
  <1>1. ASSUME NEW p \in Procs, DispatchCall(p) \/ ReplayCall(p) \/ Observe(p)
        PROVE  Goal
    <2>1. Dispatch(p) \/ Observe(p)
      BY <1>1 DEF DispatchCall, ReplayCall
    <2> QED
      BY <2>1 DEF Observe, Dispatch, DispatchSearch, historyVars
  <1>2. ASSUME NEW p \in Procs, CloseSleep(p) \/ CloseCycle(p) \/ CloseOnError(p)
        PROVE  Goal
    BY <1>2 DEF CloseSleep, CloseCycle, CloseOnError, Closes
  <1>3. ASSUME NEW p \in Procs, RunStep(p)
        PROVE  Goal
    BY <1>1, <1>2, <1>3 DEF RunStep, LoadState, OpenCycle, UserTurn, Complete,
       AppendTurn, BudgetStop, DispatchRaises, ToolTurn, GetFails, UpdateState,
       Successor, Finish, historyVars
  <1>4. ASSUME NEW p \in Procs, Misfortune(p) \/ ReplayFails(p) \/ ReplayMisfits(p)
        PROVE  Goal
    BY <1>4 DEF Misfortune, ObserveFails, CompleteFails, DispatchFails,
       DispatchMisfits, UpdateFails, ClockRunsOut, Crash, LockedOut, ReplayFails,
       ReplayMisfits, WrongDimension, historyVars
  <1>5. ASSUME NEW p \in Procs, Begin(p) \/ RebuildStep(p)
        PROVE  Goal
    <2>1. EndReplay(p) \/ RestoreState(p) => wakes' = wakes
      BY DEF EndReplay, RestoreState, historyVars
    <2> QED
      BY <1>1, <1>5, <2>1 DEF Begin, Start, StartRebuild, StartTopUp, RebuildStep,
         Clear, OpenCursor, ReplayRaises, Report, historyVars
  <1> QED
    BY <1>3, <1>4, <1>5 DEF Next, Rest, vars

\* The content of HistoryIsAppendOnly, as a step.
AppendOnlyStep ==
    /\ Len(turns) <= Len(turns')
    /\ \A s \in DOMAIN turns : turns'[s] = turns[s]
    /\ Len(wakes) <= Len(wakes')
    /\ \A w \in DOMAIN wakes :
          /\ wakes'[w].kind = wakes[w].kind
          /\ wakes'[w].snapshot = wakes[w].snapshot
          /\ wakes'[w].opener = wakes[w].opener
          /\ wakes[w].retrieved \subseteq wakes'[w].retrieved
          /\ wakes[w].closed => wakes'[w] = wakes[w]

\* No step rewrites what history holds.
LEMMA AppendOnlyNext ==
    ASSUME TypeInv, TypeInv', [Next]_vars
    PROVE  AppendOnlyStep
  <1>1. /\ wakes \in Seq(WakeRecords) /\ turns \in Seq(Turns)
        /\ \A w \in DOMAIN wakes : wakes[w] \in WakeRecords
    BY DEF TypeInv, TypeOK
  <1>2. Len(turns) <= Len(turns') /\ \A s \in DOMAIN turns : turns'[s] = turns[s]
    BY <1>1, TurnSteps
  <1> DEFINE Kept == /\ Len(wakes) <= Len(wakes')
                     /\ \A w \in DOMAIN wakes :
                           /\ wakes'[w].kind = wakes[w].kind
                           /\ wakes'[w].snapshot = wakes[w].snapshot
                           /\ wakes'[w].opener = wakes[w].opener
                           /\ wakes[w].retrieved \subseteq wakes'[w].retrieved
                           /\ wakes[w].closed => wakes'[w] = wakes[w]
  <1>3. ASSUME wakes' = wakes PROVE Kept
    BY <1>1, <1>3
  <1>4. ASSUME NEW kind, NEW snapshot, NEW p, OpenWake(kind, snapshot, p)
        PROVE  Kept
    BY <1>1, <1>4 DEF OpenWake
  \* An open wake: what the two updates leave alone.
  <1>5. ASSUME NEW w \in DOMAIN wakes, ~wakes[w].closed,
               NEW r, wakes' = [wakes EXCEPT ![w] = r],
               r.kind = wakes[w].kind, r.snapshot = wakes[w].snapshot,
               r.opener = wakes[w].opener,
               wakes[w].retrieved \subseteq r.retrieved
        PROVE  Kept
    <2>1. DOMAIN wakes' = DOMAIN wakes /\ Len(wakes') = Len(wakes)
      BY <1>1, <1>5
    <2>2. /\ wakes'[w] = r
          /\ \A v \in DOMAIN wakes \ {w} : wakes'[v] = wakes[v]
      BY <1>5
    <2> QED
      BY <1>1, <1>5, <2>1, <2>2
  <1>6. ASSUME NEW w, NEW ids, RecordRetrieval(w, ids)
        PROVE  Kept
    <2> DEFINE r == [wakes[w] EXCEPT !.retrieved = @ \cup ids]
    <2>1. w \in DOMAIN wakes /\ ~wakes[w].closed
      BY <1>6 DEF RecordRetrieval, Open
    <2>2. wakes' = [wakes EXCEPT ![w] = r]
      BY <1>6 DEF RecordRetrieval
    <2>3. /\ r.kind = wakes[w].kind /\ r.snapshot = wakes[w].snapshot
          /\ r.opener = wakes[w].opener
          /\ wakes[w].retrieved \subseteq r.retrieved
      BY <1>1, <2>1 DEF WakeRecords
    <2> HIDE DEF r
    <2> QED
      BY <1>5, <2>1, <2>2, <2>3
  <1>7. ASSUME NEW w, Closes(w)
        PROVE  Kept
    <2>1. PICK d, s, b, st, su : CloseWake(w, d, s, b, st, su)
      BY <1>7 DEF Closes
    <2> DEFINE r == [wakes[w] EXCEPT !.decision = d, !.stop_reason = s,
                                     !.budget_used = b, !.state_after = st,
                                     !.successor_requested = su,
                                     !.closed = TRUE]
    <2>2. w \in DOMAIN wakes /\ ~wakes[w].closed
      BY <2>1 DEF CloseWake, Open
    <2>3. wakes' = [wakes EXCEPT ![w] = r]
      BY <2>1 DEF CloseWake
    <2>4. /\ r.kind = wakes[w].kind /\ r.snapshot = wakes[w].snapshot
          /\ r.opener = wakes[w].opener
          /\ wakes[w].retrieved \subseteq r.retrieved
      BY <1>1, <2>2 DEF WakeRecords
    <2> HIDE DEF r
    <2> QED
      BY <1>5, <2>2, <2>3, <2>4
  <1>8. Kept
    BY <1>3, <1>4, <1>6, <1>7, WakeSteps
  <1> QED
    BY <1>2, <1>8 DEF AppendOnlyStep

\* History is append-only for every number of processes, with crashes and
\* rebuilds: no turn changes, no closed wake changes, and an open wake keeps
\* its trigger, its snapshot and what it has retrieved.
THEOREM AppendOnly == Spec => HistoryIsAppendOnly
  <1>1. TypeInv /\ TypeInv' /\ [Next]_vars => [AppendOnlyStep]_vars
    BY AppendOnlyNext
  <1> QED
    BY <1>1, TypeInvInit, TypeInvNext, PTL DEF Spec, HistoryIsAppendOnly, AppendOnlyStep
----------------------------------------------------------------------------
\* The processes that hold a wake hold it on, and it stays open.
LEMMA WakesKept ==
    ASSUME TypeInv, Grows, OwnsOpenWake,
           \A q \in Procs : HoldsWake(q)' =>
              /\ HoldsWake(q)
              /\ cyc'[q].wake = cyc[q].wake /\ run'[q].kind = run[q].kind
              /\ ~wakes'[cyc[q].wake].closed
    PROVE  OwnsOpenWake'
  <1>1. ASSUME NEW p \in Procs, HoldsWake(p)'
        PROVE  /\ cyc'[p].wake \in DOMAIN wakes' /\ ~wakes'[cyc'[p].wake].closed
               /\ wakes'[cyc'[p].wake].kind = run'[p].kind
               /\ \A q \in Procs \ {p} : HoldsWake(q)' => cyc'[q].wake # cyc'[p].wake
    BY <1>1 DEF OwnsOpenWake, Open, Grows
  <1> QED
    BY <1>1 DEF OwnsOpenWake, Open

\* Every step keeps the wakes owned: opening takes a number nobody has, and
\* whoever closes one lets it go.
LEMMA OwnsNext ==
    ASSUME TypeInv, Grows, OwnsOpenWake, [Next]_vars
    PROVE  OwnsOpenWake'
  <1> DEFINE Held(q) == /\ HoldsWake(q)
                        /\ cyc'[q].wake = cyc[q].wake /\ run'[q].kind = run[q].kind
  <1>0. /\ wakes \in Seq(WakeRecords) /\ \A w \in DOMAIN wakes : wakes[w] \in WakeRecords
        /\ pc \in [Procs -> {"idle"} \cup RunSteps \cup RebuildSteps]
        /\ run \in [Procs -> Runs] /\ cyc \in [Procs -> Cycles]
    BY DEF TypeInv, TypeOK
  <1>open. ASSUME NEW q \in Procs, HoldsWake(q)
           PROVE  cyc[q].wake \in DOMAIN wakes /\ ~wakes[cyc[q].wake].closed
    BY <1>open DEF OwnsOpenWake, Open
  <1>same. ASSUME wakes' = wakes, \A q \in Procs : HoldsWake(q)' => Held(q)
           PROVE  OwnsOpenWake'
    BY <1>same, <1>open, WakesKept
  <1>exit. ASSUME NEW p \in Procs, Exit(p)
           PROVE  \A q \in Procs : HoldsWake(q)' => q # p /\ Held(q)
    BY <1>0, <1>exit DEF Exit, Goto, HoldsWake
  <1>note. ASSUME NEW w, NEW ids, RecordRetrieval(w, ids),
                  \A q \in Procs : HoldsWake(q)' => Held(q)
           PROVE  OwnsOpenWake'
    <2>1. \A v \in DOMAIN wakes : ~wakes[v].closed => ~wakes'[v].closed
      <3>1. /\ w \in DOMAIN wakes
            /\ wakes' = [wakes EXCEPT ![w] = [wakes[w] EXCEPT !.retrieved = @ \cup ids]]
        BY <1>note DEF RecordRetrieval, Open
      <3>2. wakes[w] \in WakeRecords
        BY <1>0, <3>1
      <3>3. [wakes[w] EXCEPT !.retrieved = @ \cup ids].closed = wakes[w].closed
        BY <3>2 DEF WakeRecords
      <3> QED
        BY <3>1, <3>3
    <2> QED
      BY <1>note, <1>open, <2>1, WakesKept
  \* The closing process lets its wake go; the others hold another one.
  <1>close. ASSUME NEW p \in Procs, HoldsWake(p), Closes(cyc[p].wake),
                   \A q \in Procs : HoldsWake(q)' => q # p /\ Held(q)
            PROVE  OwnsOpenWake'
    <2>1. \A v \in DOMAIN wakes \ {cyc[p].wake} : wakes'[v] = wakes[v]
      <3>1. wakes \in Seq(WakeRecords)
        BY <1>0
      <3>2. PICK d, s, b, st, su : CloseWake(cyc[p].wake, d, s, b, st, su)
        BY <1>close DEF Closes
      <3> HIDE DEF Held, Closes
      <3> QED
        BY ONLY <3>1, <3>2 DEF CloseWake
    <2>2. ASSUME NEW q \in Procs, HoldsWake(q)'
          PROVE  /\ HoldsWake(q)
                 /\ cyc'[q].wake = cyc[q].wake /\ run'[q].kind = run[q].kind
                 /\ ~wakes'[cyc[q].wake].closed
      <3>1. q # p /\ Held(q)
        BY <1>close, <2>2
      <3>2. cyc[q].wake # cyc[p].wake
        BY <1>close, <3>1 DEF OwnsOpenWake
      <3> QED
        BY <1>open, <2>1, <3>1, <3>2
    <2> QED
      BY <2>2, WakesKept
  <1>1. ASSUME NEW p \in Procs, OpenCycle(p)
        PROVE  OwnsOpenWake'
    <2>1. /\ wakes' = Append(wakes, WakeRecord(run[p].kind, cyc[p].prior, p))
          /\ cyc' = [cyc EXCEPT ![p].wake = Len(wakes) + 1]
          /\ run' = [run EXCEPT ![p].records = @ + 1]
          /\ \A q \in Procs \ {p} : pc'[q] = pc[q]
      BY <1>0, <1>1 DEF OpenCycle, OpenWake, NewWakeSeq, Goto
    <2>2. /\ Len(wakes) + 1 \in DOMAIN wakes' /\ Len(wakes) + 1 \notin DOMAIN wakes
          /\ wakes'[Len(wakes) + 1] = WakeRecord(run[p].kind, cyc[p].prior, p)
          /\ \A v \in DOMAIN wakes : v \in DOMAIN wakes' /\ wakes'[v] = wakes[v]
      BY <1>0, <2>1
    <2>3. run[p] \in Runs /\ cyc[p] \in Cycles
      BY <1>0
    <2>4. /\ cyc'[p].wake = Len(wakes) + 1
          /\ run'[p].kind = run[p].kind
          /\ \A q \in Procs \ {p} : cyc'[q] = cyc[q] /\ run'[q] = run[q]
      BY <1>0, <2>1, <2>3 DEF Cycles, Runs
    <2>5. ASSUME NEW q \in Procs \ {p}, HoldsWake(q)'
          PROVE  /\ HoldsWake(q) /\ cyc'[q].wake \in DOMAIN wakes
                 /\ ~wakes'[cyc'[q].wake].closed
                 /\ wakes'[cyc'[q].wake].kind = run'[q].kind
      BY <1>open, <2>1, <2>2, <2>4, <2>5 DEF HoldsWake, OwnsOpenWake
    <2>6. /\ ~wakes'[cyc'[p].wake].closed
          /\ wakes'[cyc'[p].wake].kind = run'[p].kind
      BY <2>2, <2>4 DEF WakeRecord
    <2>7. ASSUME NEW q \in Procs \ {p}, NEW r \in Procs \ {p}, q # r,
                 HoldsWake(q)', HoldsWake(r)'
          PROVE  cyc'[q].wake # cyc'[r].wake
      BY <2>4, <2>5, <2>7 DEF OwnsOpenWake
    <2>8. ASSUME NEW q \in Procs, HoldsWake(q)'
          PROVE  /\ cyc'[q].wake \in DOMAIN wakes' /\ ~wakes'[cyc'[q].wake].closed
                 /\ wakes'[cyc'[q].wake].kind = run'[q].kind
      BY <2>2, <2>4, <2>5, <2>6, <2>8
    <2>9. ASSUME NEW q \in Procs, NEW r \in Procs \ {q}, HoldsWake(q)', HoldsWake(r)'
          PROVE  cyc'[r].wake # cyc'[q].wake
      BY <2>2, <2>4, <2>5, <2>7, <2>9
    <2> QED
      BY <2>8, <2>9 DEF OwnsOpenWake, Open
  <1>2. ASSUME NEW p \in Procs, Observe(p) \/ UserTurn(p)
        PROVE  OwnsOpenWake'
    <2>1. \A q \in Procs : HoldsWake(q)' => Held(q)
      BY <1>0, <1>2 DEF Observe, UserTurn, Goto, HoldsWake
    <2>2. CASE UserTurn(p)
      BY <1>same, <2>1, <2>2 DEF UserTurn, AppendTurn
    <2>3. CASE Observe(p)
      BY <1>note, <2>1, <2>3 DEF Observe
    <2> QED
      BY <1>2, <2>2, <2>3
  <1>3. ASSUME NEW p \in Procs, Complete(p)
        PROVE  OwnsOpenWake'
    <2>1. wakes' = wakes
      BY <1>3 DEF Complete, AppendTurn
    <2>2. \A q \in Procs : HoldsWake(q)' => HoldsWake(q)
      BY <1>0, <1>3 DEF Complete, Goto, HoldsWake
    <2>3. cyc[p] \in Cycles /\ run[p] \in Runs
      BY <1>0
    <2>4. PICK b, m : run' = [run EXCEPT ![p].budget = b, ![p].model_calls = m]
      BY <1>3 DEF Complete
    <2>5. \A q \in Procs : run'[q].kind = run[q].kind
      BY <1>0, <2>3, <2>4 DEF Runs
    <2>6. PICK calls, f : \/ cyc' = [cyc EXCEPT ![p] = Settled(@, calls, f)]
                         \/ cyc' = [cyc EXCEPT ![p].src = NewTurnSeq]
      BY <1>3 DEF Complete
    <2>7. Settled(cyc[p], calls, f).wake = cyc[p].wake
      BY <2>3 DEF Settled, Cycles
    <2>8. \A q \in Procs : cyc'[q].wake = cyc[q].wake
      BY <1>0, <2>3, <2>6, <2>7 DEF Cycles
    <2> QED
      BY <1>same, <2>1, <2>2, <2>5, <2>8
  <1>4. ASSUME NEW p \in Procs, ToolTurn(p)
        PROVE  OwnsOpenWake'
    <2> DEFINE t == turns[cyc[p].src]
    <2>1. cyc[p] \in Cycles
      BY <1>0
    <2>2. Settled(cyc[p], t.calls, t.finish).wake = cyc[p].wake
      BY <2>1 DEF Settled, Cycles
    <2>3. \A q \in Procs : cyc'[q].wake = cyc[q].wake
      BY <1>0, <1>4, <2>2 DEF ToolTurn
    <2>4. \A q \in Procs : HoldsWake(q)' => HoldsWake(q)
      BY <1>0, <1>4 DEF ToolTurn, Goto, HoldsWake
    <2> QED
      BY <1>4, <1>same, <2>3, <2>4 DEF ToolTurn, AppendTurn
  <1>5. ASSUME NEW p \in Procs,
               BudgetStop(p) \/ UpdateState(p) \/ ClockRunsOut(p)
        PROVE  OwnsOpenWake'
    <2>1. cyc[p] \in Cycles /\ run[p] \in Runs
      BY <1>0
    <2>2. \A q \in Procs : cyc'[q].wake = cyc[q].wake
      <3>1. PICK x : \/ cyc' = cyc
                     \/ cyc' = [cyc EXCEPT ![p].stop_reason = x]
                     \/ cyc' = [cyc EXCEPT ![p].state_after = x]
        BY <1>5 DEF BudgetStop, UpdateState, ClockRunsOut
      <3>2. /\ [cyc[p] EXCEPT !.stop_reason = x].wake = cyc[p].wake
            /\ [cyc[p] EXCEPT !.state_after = x].wake = cyc[p].wake
        BY <2>1 DEF Cycles
      <3> QED
        BY <1>0, <3>1, <3>2
    <2>3. \A q \in Procs : run'[q].kind = run[q].kind
      <3>1. PICK x : \/ run' = run
                     \/ run' = [run EXCEPT ![p].model_calls = x]
                     \/ run' = [run EXCEPT ![p].budget = x]
        <4>1. CASE BudgetStop(p)
          BY <4>1 DEF BudgetStop
        <4>2. CASE UpdateState(p)
          BY <4>2 DEF UpdateState
        <4>3. CASE ClockRunsOut(p)
          <5>1. run' = [run EXCEPT ![p].budget = [run[p].budget EXCEPT !.late = TRUE]]
            BY <4>3 DEF ClockRunsOut
          <5> QED
            BY <5>1
        <4> QED
          BY <1>5, <4>1, <4>2, <4>3
      <3>2. /\ [run[p] EXCEPT !.model_calls = x].kind = run[p].kind
            /\ [run[p] EXCEPT !.budget = x].kind = run[p].kind
        BY <2>1 DEF Runs
      <3> QED
        BY <1>0, <3>1, <3>2
    <2>4. \A q \in Procs : HoldsWake(q)' => HoldsWake(q)
      BY <1>0, <1>5 DEF BudgetStop, UpdateState, ClockRunsOut, Goto, HoldsWake
    <2>5. wakes' = wakes
      BY <1>5 DEF BudgetStop, UpdateState, ClockRunsOut, historyVars
    <2> QED
      BY <1>same, <2>2, <2>3, <2>4, <2>5
  <1>6. ASSUME NEW p \in Procs, CloseSleep(p) \/ CloseCycle(p) \/ CloseOnError(p)
        PROVE  OwnsOpenWake'
    <2>1. HoldsWake(p) /\ Closes(cyc[p].wake)
      BY <1>6 DEF CloseSleep, CloseCycle, CloseOnError, HoldsWake, Closes
    <2>2. \A q \in Procs : HoldsWake(q)' => q # p /\ Held(q)
      BY <1>0, <1>6, <1>exit
         DEF CloseSleep, CloseCycle, CloseOnError, Goto, HoldsWake
    <2> QED
      BY <1>close, <2>1, <2>2
  <1>7. ASSUME NEW p \in Procs, Dispatch(p), UNCHANGED orchestratorVars
        PROVE  OwnsOpenWake'
    <2>1. \A q \in Procs : HoldsWake(q)' => Held(q)
      BY <1>7 DEF orchestratorVars, HoldsWake
    <2>2. CASE wakes' = wakes
      BY <1>same, <2>1, <2>2
    <2>3. CASE \E w, ids : RecordRetrieval(w, ids)
      BY <1>note, <2>1, <2>3
    <2> QED
      BY <1>7, <2>2, <2>3 DEF Dispatch, DispatchSearch, historyVars
  <1>8. ASSUME NEW p \in Procs,
               \/ Finish(p) \/ ObserveFails(p) \/ Report(p) \/ Crash(p)
               \/ ReplayFails(p) \/ ReplayRaises(p)
        PROVE  OwnsOpenWake'
    BY <1>8, <1>same, <1>exit
       DEF Finish, ObserveFails, Report, Crash, ReplayFails, ReplayRaises, historyVars
  <1>L. ASSUME NEW p \in Procs, LockedOut(p)
        PROVE  OwnsOpenWake'
    <2>1. wakes' = wakes
      BY <1>L DEF LockedOut, historyVars
    <2>2. CASE Exit(p)
      BY <1>same, <1>exit, <2>1, <2>2
    <2>3. CASE ~Exit(p)
      <3>1. PICK d : /\ pc[p] \in {"loop", "tools", "decided", "saved"}
                     /\ Goto(p, "error") /\ run' = run
                     /\ cyc' = [cyc EXCEPT ![p].decision = d]
        BY <1>L, <2>3 DEF LockedOut
      <3>2. cyc[p] \in Cycles
        BY <1>0
      <3>3. \A q \in Procs : cyc'[q].wake = cyc[q].wake
        BY <1>0, <3>1, <3>2 DEF Cycles
      <3>4. \A q \in Procs : HoldsWake(q)' => HoldsWake(q)
        BY <1>0, <3>1 DEF Goto, HoldsWake
      <3> QED
        BY <1>same, <2>1, <3>1, <3>3, <3>4
    <2> QED
      BY <2>2, <2>3
  <1>E. ASSUME NEW p \in Procs, EndReplay(p)
        PROVE  OwnsOpenWake'
    <2>1. PICK s : cyc' = cyc \/ cyc' = [cyc EXCEPT ![p].state_after = s]
      BY <1>E DEF EndReplay
    <2>2. /\ wakes' = wakes /\ run' = run
          /\ \A q \in Procs : HoldsWake(q)' => q # p /\ HoldsWake(q)
      BY <1>0, <1>E DEF EndReplay, Goto, HoldsWake, historyVars
    <2>3. \A q \in Procs \ {p} : cyc'[q] = cyc[q]
      BY <1>0, <2>1
    <2> QED
      BY <1>same, <2>2, <2>3
  \* The steps that only move a process, or touch what is not its wake.
  <1>9. ASSUME NEW p \in Procs,
               \/ CompleteFails(p) \/ UpdateFails(p) \/ DispatchFails(p)
               \/ DispatchRaises(p) \/ GetFails(p)
               \/ StartRebuild(p) \/ Clear(p) \/ StartTopUp(p)
               \/ OpenCursor(p) \/ RestoreState(p)
        PROVE  OwnsOpenWake'
    <2>1. wakes' = wakes /\ UNCHANGED <<run, cyc>>
      BY <1>9 DEF CompleteFails, UpdateFails, DispatchFails, DispatchRaises,
         GetFails, StartRebuild, Clear, StartTopUp, OpenCursor, RestoreState, historyVars
    <2>2. \A q \in Procs : HoldsWake(q)' => HoldsWake(q)
      BY <1>0, <1>9 DEF CompleteFails, UpdateFails, DispatchFails, DispatchRaises,
         GetFails, StartRebuild, Clear, StartTopUp, OpenCursor, RestoreState, Goto,
         HoldsWake
    <2> QED
      BY <1>same, <2>1, <2>2
  <1>10. ASSUME NEW p \in Procs,
                (\E t \in Wakings : Start(p, t)) \/ LoadState(p) \/ Successor(p)
         PROVE  OwnsOpenWake'
    <2>1. /\ ~HoldsWake(p)'
          /\ \A q \in Procs \ {p} : pc'[q] = pc[q] /\ cyc'[q] = cyc[q] /\ run'[q] = run[q]
      BY <1>0, <1>10 DEF Start, LoadState, Successor, Goto, HoldsWake
    <2>2. \A q \in Procs : HoldsWake(q)' => Held(q)
      BY <2>1 DEF HoldsWake
    <2>3. wakes' = wakes
      BY <1>10 DEF Start, LoadState, Successor, historyVars
    <2> QED
      BY <1>same, <2>2, <2>3
  <1>11. ASSUME NEW p \in Procs, WrongDimension(p), UNCHANGED orchestratorVars
         PROVE  OwnsOpenWake'
    BY <1>11, <1>same DEF WrongDimension, orchestratorVars, historyVars, HoldsWake
  <1>12. CASE UNCHANGED vars
    BY <1>12, <1>same DEF vars, HoldsWake
  <1>13. ASSUME NEW p \in Procs, RunStep(p)
         PROVE  OwnsOpenWake'
    BY <1>1, <1>2, <1>3, <1>4, <1>5, <1>6, <1>7, <1>8, <1>9, <1>10, <1>13
       DEF RunStep, DispatchCall
  <1>14. ASSUME NEW p \in Procs, Misfortune(p) \/ ReplayFails(p) \/ ReplayMisfits(p)
         PROVE  OwnsOpenWake'
    BY <1>5, <1>8, <1>9, <1>11, <1>L, <1>14
       DEF Misfortune, DispatchMisfits, ReplayMisfits
  <1>15. ASSUME NEW p \in Procs, Begin(p) \/ RebuildStep(p)
         PROVE  OwnsOpenWake'
    BY <1>7, <1>8, <1>9, <1>10, <1>E, <1>15 DEF Begin, RebuildStep, ReplayCall
  <1> QED
    BY <1>12, <1>13, <1>14, <1>15 DEF Next, Rest

\* However the processes interleave and die, the wake a process works on is
\* its own and open: none of its appends, retrievals and closes is refused.
THEOREM WakesAreOwned == Spec => []OwnsOpenWake
  <1>1. Init => OwnsOpenWake
    BY DEF Init, OrchestratorInit, OwnsOpenWake, HoldsWake
  <1>2. TypeInv /\ Grows /\ OwnsOpenWake /\ [Next]_vars => OwnsOpenWake'
    BY OwnsNext
  <1> QED
    BY <1>1, <1>2, TypeInvInit, TypeInvNext, PTL DEF Spec
----------------------------------------------------------------------------
\* A write in progress is the first call of a process that dispatches.
OpInHand ==
    \A p \in Procs : op[p] # None =>
        pc[p] \in {"tools", "replay"} /\ op[p].call \in todo[p]

RebuildAlone ==
    /\ RebuildsApart
    /\ \A p \in Procs : pc[p] \in RebuildSteps => \A q \in Procs \ {p} : pc[q] = "idle"

LEMMA DispatchInHand ==
    ASSUME TypeInv, OpInHand, NEW p \in Procs, Dispatch(p)
    PROVE  /\ \A q \in Procs \ {p} : op'[q] = op[q] /\ todo'[q] = todo[q]
           /\ op'[p] # None => op'[p].call \in todo'[p]
  <1>0. todo \in [Procs -> SUBSET Calls] /\ op \in [Procs -> Operations \cup {None}]
    BY DEF TypeInv, TypeOK
  <1>1. ASSUME NEW c, Answered(p, c)
        PROVE  op'[p] = None /\ \A q \in Procs \ {p} : op'[q] = op[q] /\ todo'[q] = todo[q]
    BY <1>0, <1>1 DEF Answered
  <1>2. ASSUME NEW c, NEW step, NEW at, Going(p, c, step, at), c \in todo[p]
        PROVE  /\ op'[p].call \in todo'[p]
               /\ \A q \in Procs \ {p} : op'[q] = op[q] /\ todo'[q] = todo[q]
    BY <1>0, <1>2 DEF Going
  <1>3. CASE RejectWrite(p) \/ VoidSupersede(p) \/ DispatchSearch(p)
             \/ RefuseMark(p) \/ SetMark(p) \/ RejectMisshapen(p)
    BY <1>1, <1>3 DEF RejectWrite, VoidSupersede, DispatchSearch, RefuseMark,
       SetMark, RejectMisshapen
  <1>4. CASE AcceptWrite(p) \/ ReapplyMark(p) \/ AcceptSupersede(p)
    BY <1>2, <1>4 DEF AcceptWrite, ReapplyMark, AcceptSupersede
  <1>5. CASE CheckMark(p)
    BY <1>2, <1>5 DEF CheckMark, OpInHand
  <1>6. CASE Upsert(p)
    BY <1>1, <1>2, <1>6 DEF Upsert, OpInHand
  <1> QED
    BY <1>3, <1>4, <1>5, <1>6 DEF Dispatch

\* Every step keeps the write in hand the process's own, and a rebuild alone.
LEMMA InHandNext ==
    ASSUME TypeInv, TypeInv', OpInHand, RebuildAlone, [Next]_vars
    PROVE  OpInHand' /\ RebuildAlone'
  <1>0. /\ pc \in [Procs -> {"idle"} \cup RunSteps \cup RebuildSteps]
        /\ todo \in [Procs -> SUBSET Calls] /\ op \in [Procs -> Operations \cup {None}]
    BY DEF TypeInv, TypeOK
  <1>r. RebuildsApart /\ RebuildsApart'
    BY DEF RebuildAlone, RebuildsApart, OneProcess, Beside
  \* One process moves, its hands empty afterwards, and into a rebuild only
  \* from there or from rest with everybody else at rest.
  <1>move. ASSUME NEW p \in Procs, NEW l, Goto(p, l), op'[p] = None,
                  \A q \in Procs \ {p} : op'[q] = op[q] /\ todo'[q] = todo[q],
                  l \in RebuildSteps => pc[p] \in RebuildSteps \/ Alone(p),
                  l # "idle" /\ pc[p] = "idle" => NoRebuild
           PROVE  OpInHand' /\ RebuildAlone'
    <2>1. pc'[p] = l /\ \A q \in Procs \ {p} : pc'[q] = pc[q]
      BY <1>0, <1>move DEF Goto
    <2>2. OpInHand'
      BY <1>move, <2>1 DEF OpInHand
    <2>3. ASSUME NEW q \in Procs, pc'[q] \in RebuildSteps, NEW r \in Procs \ {q}
          PROVE  pc'[r] = "idle"
      BY <1>r, <1>move, <2>1, <2>3
         DEF RebuildAlone, RebuildsApart, OneProcess, Alone, NoRebuild, RebuildSteps
    <2> QED
      BY <1>r, <2>2, <2>3 DEF RebuildAlone
  <1>empty. ASSUME NEW p \in Procs, pc[p] \notin {"tools", "replay"} \/ todo[p] = {}
            PROVE  op[p] = None
    BY <1>empty DEF OpInHand
  <1>stay. ASSUME UNCHANGED <<pc, todo, op>>
           PROVE  OpInHand' /\ RebuildAlone'
    BY <1>r, <1>stay DEF OpInHand, RebuildAlone
  <1>1. ASSUME NEW p \in Procs, Dispatch(p), UNCHANGED orchestratorVars,
               pc[p] \in {"tools", "replay"}
        PROVE  OpInHand' /\ RebuildAlone'
    <2>1. pc' = pc
      BY <1>1 DEF orchestratorVars
    <2>2. OpInHand'
      BY <1>1, <2>1, DispatchInHand DEF OpInHand
    <2> QED
      BY <1>r, <2>1, <2>2 DEF RebuildAlone
  <1>2. ASSUME NEW p \in Procs, WrongDimension(p), UNCHANGED orchestratorVars
        PROVE  OpInHand' /\ RebuildAlone'
    <2>1. /\ pc' = pc /\ op'[p] = None
          /\ \A q \in Procs \ {p} : op'[q] = op[q] /\ todo'[q] = todo[q]
      BY <1>0, <1>2 DEF WrongDimension, Answered, orchestratorVars
    <2> QED
      BY <1>r, <2>1 DEF OpInHand, RebuildAlone
  <1>3. ASSUME NEW p \in Procs,
               \/ LoadState(p) \/ OpenCycle(p) \/ UserTurn(p) \/ Observe(p)
               \/ BudgetStop(p) \/ ToolTurn(p) \/ CloseSleep(p)
               \/ UpdateState(p) \/ CloseCycle(p) \/ Successor(p)
               \/ CompleteFails(p) \/ UpdateFails(p) \/ GetFails(p)
        PROVE  OpInHand' /\ RebuildAlone'
    <2>1. PICK l \in RunSteps : Goto(p, l)
      BY <1>3 DEF LoadState, OpenCycle, UserTurn, Observe, BudgetStop, ToolTurn,
         CloseSleep, UpdateState, CloseCycle, Successor, CompleteFails,
         UpdateFails, GetFails, AfterTurn, RunSteps
    <2>2. /\ pc[p] # "idle" /\ UNCHANGED <<todo, op>>
          /\ pc[p] \notin {"tools", "replay"} \/ todo[p] = {}
      BY <1>3 DEF LoadState, OpenCycle, UserTurn, Observe, BudgetStop, ToolTurn,
         CloseSleep, UpdateState, CloseCycle, Successor, CompleteFails,
         UpdateFails, GetFails, memoryVars
    <2>3. l \notin RebuildSteps
      BY <2>1 DEF RunSteps, RebuildSteps
    <2> QED
      BY <1>move, <1>empty, <2>1, <2>2, <2>3
  <1>4. ASSUME NEW p \in Procs, Complete(p)
        PROVE  OpInHand' /\ RebuildAlone'
    <2>1. PICK l \in {"decided", "tools"} : Goto(p, l)
      BY <1>4 DEF Complete
    <2>2. PICK calls : todo' = [todo EXCEPT ![p] = calls]
      BY <1>4 DEF Complete
    <2>3. op' = op /\ pc[p] = "loop"
      BY <1>4 DEF Complete
    <2>4. \A q \in Procs \ {p} : op'[q] = op[q] /\ todo'[q] = todo[q]
      BY <1>0, <2>2, <2>3
    <2>5. op'[p] = None
      BY <1>empty, <2>3
    <2>6. l \notin RebuildSteps
      BY DEF RebuildSteps
    <2> QED
      BY <1>move, <2>1, <2>3, <2>4, <2>5, <2>6
  <1>5. ASSUME NEW p \in Procs,
               \/ CloseOnError(p) \/ Finish(p) \/ ObserveFails(p) \/ Report(p)
               \/ ReplayRaises(p)
        PROVE  OpInHand' /\ RebuildAlone'
    <2>1. Goto(p, "idle") /\ UNCHANGED <<todo, op>>
      BY <1>5 DEF CloseOnError, Finish, ObserveFails, Report, ReplayRaises, Exit,
         memoryVars
    <2>2. pc[p] \notin {"tools", "replay"} \/ todo[p] = {}
      BY <1>5 DEF CloseOnError, Finish, ObserveFails, Report, ReplayRaises
    <2>3. "idle" \notin RebuildSteps
      BY DEF RebuildSteps
    <2> QED
      BY <1>move, <1>empty, <2>1, <2>2, <2>3
  <1>6. ASSUME NEW p \in Procs, Crash(p) \/ ReplayFails(p) \/ DispatchFails(p) \/ DispatchRaises(p)
        PROVE  OpInHand' /\ RebuildAlone'
    <2>1. /\ op'[p] = None
          /\ \A q \in Procs \ {p} : op'[q] = op[q] /\ todo'[q] = todo[q]
      BY <1>0, <1>6 DEF Crash, ReplayFails, DispatchFails, DispatchRaises, Abandon
    <2>2. PICK l \in {"idle", "error"} : Goto(p, l) /\ (l = "error" => pc[p] = "tools")
      BY <1>6 DEF Crash, ReplayFails, DispatchFails, DispatchRaises, Exit
    <2>3. l \notin RebuildSteps
      BY DEF RebuildSteps
    <2> QED
      BY <1>move, <2>1, <2>2, <2>3
  <1>L. ASSUME NEW p \in Procs, LockedOut(p)
        PROVE  OpInHand' /\ RebuildAlone'
    <2>1. /\ op'[p] = None /\ pc[p] # "idle"
          /\ \A q \in Procs \ {p} : op'[q] = op[q] /\ todo'[q] = todo[q]
      BY <1>0, <1>L DEF LockedOut, Abandon
    <2>2. PICK l \in {"idle", "error"} : Goto(p, l)
      BY <1>L DEF LockedOut, Exit
    <2>3. l \notin RebuildSteps
      BY DEF RebuildSteps
    <2> QED
      BY <1>move, <2>1, <2>2, <2>3
  <1>7. ASSUME NEW p \in Procs, ClockRunsOut(p) \/ UNCHANGED vars
        PROVE  OpInHand' /\ RebuildAlone'
    BY <1>7, <1>stay DEF ClockRunsOut, vars, memoryVars
  <1>8. ASSUME NEW p \in Procs, Begin(p)
        PROVE  OpInHand' /\ RebuildAlone'
    <2>1. pc[p] = "idle" /\ op' = op
      BY <1>8 DEF Begin, Start, StartRebuild, StartTopUp, memoryVars
    <2>2. PICK l : Goto(p, l) /\ (l = "load" \/ (l \in RebuildSteps /\ Alone(p)))
      <3>1. \/ Goto(p, "load")
            \/ Goto(p, "clear") /\ Alone(p)
            \/ Goto(p, "cleared") /\ Alone(p)
        BY <1>8 DEF Begin, Start, StartRebuild, StartTopUp
      <3>2. "clear" \in RebuildSteps /\ "cleared" \in RebuildSteps
        BY DEF RebuildSteps
      <3> QED
        BY <3>1, <3>2 DEF Goto
    <2>3. \A q \in Procs \ {p} : todo'[q] = todo[q]
      BY <1>0, <1>8 DEF Begin, Start, StartRebuild, StartTopUp, memoryVars
    <2>4. "load" \notin RebuildSteps /\ "idle" \notin RebuildSteps
      BY DEF RebuildSteps
    <2>5. NoRebuild
      BY <1>8, <2>1, <2>4
         DEF Begin, Start, StartRebuild, StartTopUp, Alone, NoRebuild
    <2> QED
      BY <1>move, <1>empty, <2>1, <2>2, <2>3, <2>4, <2>5
  <1>9. ASSUME NEW p \in Procs,
               Clear(p) \/ OpenCursor(p) \/ EndReplay(p) \/ RestoreState(p)
        PROVE  OpInHand' /\ RebuildAlone'
    <2>1. /\ op' = op /\ pc[p] \in RebuildSteps /\ pc[p] # "idle"
          /\ pc[p] \notin {"tools", "replay"} \/ todo[p] = {}
          /\ \A q \in Procs \ {p} : todo'[q] = todo[q]
      <3>1. CASE Clear(p) \/ OpenCursor(p)
        BY <1>0, <3>1 DEF Clear, OpenCursor, RebuildSteps
      <3>2. CASE EndReplay(p) \/ RestoreState(p)
        BY <3>2 DEF EndReplay, RestoreState, memoryVars, RebuildSteps
      <3> QED
        BY <1>9, <3>1, <3>2
    <2>2. PICK l \in RebuildSteps : Goto(p, l)
      BY <1>9 DEF Clear, OpenCursor, EndReplay, RestoreState, RebuildSteps
    <2> QED
      BY <1>move, <1>empty, <2>1, <2>2
  <1>10. ASSUME NEW p \in Procs, RunStep(p)
         PROVE  OpInHand' /\ RebuildAlone'
    BY <1>1, <1>3, <1>4, <1>5, <1>6, <1>10 DEF RunStep, DispatchCall
  <1>11. ASSUME NEW p \in Procs, Misfortune(p) \/ ReplayFails(p) \/ ReplayMisfits(p)
         PROVE  OpInHand' /\ RebuildAlone'
    BY <1>2, <1>3, <1>5, <1>6, <1>7, <1>L, <1>11
       DEF Misfortune, DispatchMisfits, ReplayMisfits
  <1>12. ASSUME NEW p \in Procs, RebuildStep(p)
         PROVE  OpInHand' /\ RebuildAlone'
    BY <1>1, <1>5, <1>9, <1>12 DEF RebuildStep, ReplayCall
  <1> QED
    BY <1>stay, <1>8, <1>10, <1>11, <1>12 DEF Next, Rest, vars

\* A call names rows older than itself, and where a mark is due the row that
\* makes it is in the store.
CallsNameOlder ==
    \A s \in DOMAIN turns : \A k \in DOMAIN turns[s].calls :
        LET t == turns[s].calls[k].target IN t \in MemoryIds => t.src < s

MarkReady ==
    \A p \in Procs : op[p] # None /\ op[p].step # "upsert" => NewId(op[p].call) \in Ids

SupersessionInv ==
    OpInHand /\ RebuildAlone /\ CallsNameOlder /\ MarkReady /\ ForwardSupersession

\* A supersede names a row of an earlier turn: the model can only name an id
\* that was decided before it answered.
LEMMA CallsNameOlderNext ==
    ASSUME TypeInv, CallsNameOlder, [Next]_vars
    PROVE  CallsNameOlder'
  <1>1. turns \in Seq(Turns)
    BY DEF TypeInv, TypeOK
  <1>2. CASE turns' = turns
    BY <1>2 DEF CallsNameOlder
  <1>3. ASSUME NEW t, turns' = Append(turns, t),
               t.calls # << >> => t.calls \in MemoryCalls
        PROVE  CallsNameOlder'
    <2>1. ASSUME NEW k \in DOMAIN t.calls, t.calls # << >>, t.calls[k].target \in MemoryIds
          PROVE  t.calls[k].target.src < Len(turns) + 1
      <3>1. t.calls[k] \in Menu
        BY <1>3, <2>1 DEF MemoryCalls
      <3>2. t.calls[k].target \in DecidedIds \cup {None}
        BY <3>1 DEF Menu, Write, Search, Supersede, Misshapen, Falsy
      <3>3. t.calls[k].target \in DecidedIds
        BY <2>1, <3>2, NoneAssumption
      <3>4. t.calls[k].target.src \in DOMAIN turns
        BY <3>3 DEF DecidedIds, CallsOf, NewId, MemoryId
      <3> QED
        BY <1>1, <3>4
    <2>2. DOMAIN turns' = DOMAIN turns \cup {Len(turns) + 1}
      BY <1>1, <1>3
    <2>3. turns'[Len(turns) + 1] = t /\ \A s \in DOMAIN turns : turns'[s] = turns[s]
      BY <1>1, <1>3
    <2>4. ASSUME NEW s \in DOMAIN turns', NEW k \in DOMAIN turns'[s].calls,
                 turns'[s].calls[k].target \in MemoryIds
          PROVE  turns'[s].calls[k].target.src < s
      <3>1. CASE s \in DOMAIN turns
        BY <2>3, <2>4, <3>1 DEF CallsNameOlder
      <3>2. CASE s = Len(turns) + 1
        <4>1. t.calls # << >>
          BY <2>3, <2>4, <3>2
        <4> QED
          BY <2>1, <2>3, <2>4, <3>2, <4>1
      <3> QED
        BY <2>2, <3>1, <3>2
    <2> QED
      BY <2>4 DEF CallsNameOlder
  <1> QED
    BY <1>2, <1>3, TurnSteps

\* The id of a call does not change as history grows.
LEMMA NewIdStays ==
    ASSUME Grows, NEW c, IsCall(c)
    PROVE  /\ MemoryId(c.src, Canon[turns'[c.src].calls[c.idx].text]) = NewId(c)
           /\ turns'[c.src].calls[c.idx].target = Target(c)
  BY DEF Grows, IsCall, NewId, Text, CallOf, Target

\* No step but the emptying of a rebuild takes an id from the store.
LEMMA MarkReadyNext ==
    ASSUME TypeInv, Grows, SupersessionInv, [Next]_vars
    PROVE  MarkReady'
  <1> USE DEF SupersessionInv
  <1>0. op \in [Procs -> Operations \cup {None}]
    BY DEF TypeInv, TypeOK
  <1>1. ASSUME NEW p \in Procs, Clear(p)
        PROVE  MarkReady'
    <2>1. \A q \in Procs : op[q] = None
      BY <1>1 DEF Clear, OpInHand, RebuildAlone, RebuildSteps
    <2>2. op' = op
      BY <1>1 DEF Clear
    <2> QED
      BY <2>1, <2>2 DEF MarkReady
  \* An operation that was there, and its rows, are there still.
  <1>2. ASSUME Ids \subseteq Ids',
               \A q \in Procs : op'[q] # None /\ op'[q].step # "upsert" =>
                  IsCall(op'[q].call) /\ NewId(op'[q].call) \in Ids'
        PROVE  MarkReady'
    <2>1. ASSUME NEW q \in Procs, op'[q] # None, op'[q].step # "upsert"
          PROVE  MemoryId(op'[q].call.src,
                          Canon[turns'[op'[q].call.src].calls[op'[q].call.idx].text])
                    \in Ids'
      BY <1>2, <2>1, NewIdStays
    <2> QED
      BY <2>1 DEF MarkReady, NewId, Text, CallOf
  <1>3. ASSUME NEW q \in Procs, op[q] # None, op[q].step # "upsert"
        PROVE  IsCall(op[q].call) /\ NewId(op[q].call) \in Ids
    BY <1>3 DEF MarkReady, TypeInv, OpCommitted
  <1>4. ASSUME Ids \subseteq Ids', \A q \in Procs : op'[q] # None => op'[q] = op[q]
        PROVE  MarkReady'
    BY <1>2, <1>3, <1>4
  <1>5. ASSUME NEW p \in Procs, Dispatch(p)
        PROVE  MarkReady'
    <2>1. Ids \subseteq Ids'
      BY <1>5 DEF Dispatch, RejectWrite, AcceptWrite, VoidSupersede, ReapplyMark,
         AcceptSupersede, Upsert, RefuseMark, CheckMark, SetMark,
         RejectMisshapen, DispatchSearch, Ids
    <2>2. ASSUME NEW c, Answered(p, c)
          PROVE  MarkReady'
      BY <1>0, <1>4, <2>1, <2>2 DEF Answered
    <2>3. ASSUME NEW c, NEW step, NEW at, Going(p, c, step, at), IsCall(c),
                 step = "upsert" \/ NewId(c) \in Ids'
          PROVE  MarkReady'
      <3>1. op'[p].call = c /\ op'[p].step = step
        BY <1>0, <2>3 DEF Going
      <3>2. \A q \in Procs \ {p} : op'[q] = op[q]
        BY <1>0, <2>3 DEF Going
      <3>3. ASSUME NEW q \in Procs, op'[q] # None, op'[q].step # "upsert"
            PROVE  IsCall(op'[q].call) /\ NewId(op'[q].call) \in Ids'
        <4>1. CASE q = p
          BY <2>3, <3>1, <3>3, <4>1
        <4>2. CASE q # p
          BY <1>3, <2>1, <3>2, <3>3, <4>2
        <4> QED
          BY <4>1, <4>2
      <3> QED
        BY <1>2, <2>1, <3>3
    <2>4. CASE AcceptWrite(p) \/ AcceptSupersede(p)
      BY <2>3, <2>4 DEF AcceptWrite, AcceptSupersede, TypeInv, TodoCommitted
    <2>5. CASE ReapplyMark(p)
      BY <2>1, <2>3, <2>5 DEF ReapplyMark, TypeInv, TodoCommitted
    <2>6. CASE Upsert(p)
      <3>1. IsCall(op[p].call) /\ NewId(op[p].call) \in Ids'
        BY <2>6 DEF Upsert, TypeInv, OpCommitted, Ids
      <3> QED
        BY <2>2, <2>3, <2>6, <3>1 DEF Upsert
    <2>7. CASE CheckMark(p)
      BY <1>3, <2>1, <2>3, <2>7 DEF CheckMark
    <2> QED
      BY <1>5, <2>2, <2>4, <2>5, <2>6, <2>7
         DEF Dispatch, RejectWrite, VoidSupersede, RefuseMark, SetMark,
             RejectMisshapen, DispatchSearch
  <1>6. ASSUME NEW p \in Procs, RunStep(p)
        PROVE  MarkReady'
    <2>1. CASE DispatchCall(p)
      BY <1>5, <2>1 DEF DispatchCall
    <2>2. CASE ~DispatchCall(p)
      <3>1. memories' = memories
        BY <1>6, <2>2 DEF RunStep, LoadState, OpenCycle, UserTurn, Observe,
           Complete, BudgetStop, DispatchRaises, ToolTurn, CloseSleep, GetFails,
           UpdateState, CloseCycle, CloseOnError, Successor, Finish, memoryVars
      <3>2. op' = op \/ op' = [op EXCEPT ![p] = None]
        BY <1>6, <2>2 DEF RunStep, LoadState, OpenCycle, UserTurn, Observe,
           Complete, BudgetStop, DispatchRaises, Abandon, ToolTurn, CloseSleep,
           GetFails, UpdateState, CloseCycle, CloseOnError, Successor, Finish,
           memoryVars
      <3> QED
        BY <1>0, <1>4, <3>1, <3>2 DEF Ids
    <2> QED
      BY <2>1, <2>2
  <1>7. ASSUME NEW p \in Procs, Misfortune(p) \/ ReplayFails(p) \/ ReplayMisfits(p)
        PROVE  MarkReady'
    <2>1. memories' = memories
      BY <1>7 DEF Misfortune, ObserveFails, CompleteFails, DispatchFails,
         DispatchMisfits, UpdateFails, ClockRunsOut, Crash, LockedOut, ReplayFails,
         ReplayMisfits, WrongDimension, memoryVars
    <2>2. op' = op \/ op' = [op EXCEPT ![p] = None]
      BY <1>7 DEF Misfortune, ObserveFails, CompleteFails, DispatchFails,
         DispatchMisfits, UpdateFails, ClockRunsOut, Crash, LockedOut, ReplayFails,
         ReplayMisfits, WrongDimension, Answered, Abandon, memoryVars
    <2> QED
      BY <1>0, <1>4, <2>1, <2>2 DEF Ids
  <1>8. ASSUME NEW p \in Procs, Begin(p) \/ RebuildStep(p)
        PROVE  MarkReady'
    <2>1. CASE ReplayCall(p)
      BY <1>5, <2>1 DEF ReplayCall
    <2>2. CASE ~ReplayCall(p) /\ ~Clear(p)
      <3>1. memories' = memories /\ op' = op
        <4>1. EndReplay(p) \/ RestoreState(p) => memories' = memories /\ op' = op
          BY DEF EndReplay, RestoreState, memoryVars
        <4> QED
          BY <1>8, <2>2, <4>1 DEF Begin, Start, StartRebuild, StartTopUp, RebuildStep,
             OpenCursor, ReplayRaises, Report, memoryVars
      <3> QED
        BY <1>4, <3>1 DEF Ids
    <2> QED
      BY <1>1, <2>1, <2>2
  <1> QED
    BY <1>4, <1>6, <1>7, <1>8 DEF Next, Rest, vars, Ids

\* Every step keeps supersession forward: a mark is set when the replacement,
\* whose turn is later than the target's, is in the store.
LEMMA ForwardNext ==
    ASSUME TypeInv, SupersessionInv, [Next]_vars
    PROVE  ForwardSupersession'
  <1> USE DEF SupersessionInv
  <1>0. memories \in [Ids -> Rows] /\ Ids \subseteq MemoryIds
    BY DEF TypeInv, TypeOK, Ids
  <1>1. CASE memories' = memories
    BY <1>1 DEF ForwardSupersession, Ids
  <1>2. ASSUME NEW p \in Procs, Clear(p)
        PROVE  ForwardSupersession'
    BY <1>2 DEF Clear, ForwardSupersession, Ids
  <1>3. ASSUME NEW p \in Procs, Upsert(p)
        PROVE  ForwardSupersession'
    <2>1. /\ Ids' = Ids \cup {NewId(op[p].call)}
          /\ memories'[NewId(op[p].call)].superseded_by = None
          /\ \A i \in Ids \ {NewId(op[p].call)} : memories'[i] = memories[i]
      BY <1>3 DEF Upsert, Row, Ids
    <2>2. ASSUME NEW i \in Ids', memories'[i].superseded_by # None
          PROVE  /\ memories'[i].superseded_by \in Ids'
                 /\ i.src < memories'[i].superseded_by.src
      BY <2>1, <2>2 DEF ForwardSupersession
    <2> QED
      BY <2>2 DEF ForwardSupersession
  <1>4. ASSUME NEW p \in Procs, SetMark(p)
        PROVE  ForwardSupersession'
    <2> DEFINE c == op[p].call
    <2>1. op[p] # None /\ op[p].step = "set" /\ IsCall(c)
      BY <1>4 DEF SetMark, TypeInv, OpCommitted
    <2>2. NewId(c) \in Ids /\ NewId(c).src = c.src
      BY <2>1 DEF MarkReady, NewId, MemoryId
    <2>3. Target(c) \in MemoryIds => Target(c).src < c.src
      BY <2>1 DEF IsCall, CallsNameOlder, Target, CallOf
    <2>4. Ids' = Ids /\ \A i \in Ids \ {Target(c)} : memories'[i] = memories[i]
      BY <1>4 DEF SetMark, Ids
    <2>5. Target(c) \in Ids => memories'[Target(c)].superseded_by = NewId(c)
      BY <1>0, <1>4 DEF SetMark, Rows
    <2> HIDE DEF c
    <2>6. ASSUME NEW i \in Ids', memories'[i].superseded_by # None
          PROVE  /\ memories'[i].superseded_by \in Ids'
                 /\ i.src < memories'[i].superseded_by.src
      <3>1. CASE i = Target(c)
        BY <1>0, <2>2, <2>3, <2>4, <2>5, <2>6, <3>1
      <3>2. CASE i # Target(c)
        BY <2>4, <2>6, <3>2 DEF ForwardSupersession
      <3> QED
        BY <3>1, <3>2
    <2> QED
      BY <2>6 DEF ForwardSupersession
  <1> QED
    BY <1>1, <1>2, <1>3, <1>4, MemorySteps

\* Supersession goes forward in history, whatever the processes and the crashes
\* and however often a rebuild runs, if none runs beside another process: a
\* retired row names a later row that is in the store.
THEOREM SupersessionIsForward ==
    ASSUME RebuildsApart
    PROVE  Spec => []ForwardSupersession
  <1>1. Init => ProvenanceInv /\ SupersessionInv
    BY DEF Init, HistoryInit, MemoryInit, OrchestratorInit, ProvenanceInv,
       CallsAreAssistant, Provenance, SupersessionInv, OpInHand, RebuildAlone,
       RebuildSteps, CallsNameOlder, MarkReady, ForwardSupersession, Ids
  <1>2. TypeInv /\ TypeInv' /\ Grows /\ ProvenanceInv /\ SupersessionInv /\ [Next]_vars
           => SupersessionInv'
    BY InHandNext, CallsNameOlderNext, MarkReadyNext, ForwardNext
       DEF SupersessionInv
  <1>3. SupersessionInv => ForwardSupersession
    BY DEF SupersessionInv
  <1> QED
    BY <1>1, <1>2, <1>3, TypeInvInit, TypeInvNext, ProvenanceNext, PTL DEF Spec
=============================================================================
