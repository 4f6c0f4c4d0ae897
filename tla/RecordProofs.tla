---------------------------- MODULE RecordProofs ----------------------------
(***************************************************************************)
(* What a run spends and what its records tell: theorems about Harness.tla *)
(* for every limit, every number of successors and every model.            *)
(***************************************************************************)
EXTENDS HarnessProofs

CloseSteps(p) == CloseSleep(p) \/ CloseCycle(p) \/ CloseOnError(p)

\* A wake comes to be closed only by the process that holds it.
LEMMA ClosedByHolder ==
    ASSUME TypeInv, [Next]_vars, NEW w \in DOMAIN wakes', wakes'[w].closed
    PROVE  \/ w \in DOMAIN wakes /\ wakes[w].closed /\ wakes'[w] = wakes[w]
           \/ \E p \in Procs : cyc[p].wake = w /\ CloseSteps(p)
  <1> DEFINE Goal == \/ w \in DOMAIN wakes /\ wakes[w].closed /\ wakes'[w] = wakes[w]
                     \/ \E p \in Procs : cyc[p].wake = w /\ CloseSteps(p)
  <1>1. wakes \in Seq(WakeRecords) /\ \A v \in DOMAIN wakes : wakes[v] \in WakeRecords
    BY DEF TypeInv, TypeOK
  <1>2. CASE wakes' = wakes
    BY <1>2
  <1>3. ASSUME NEW kind, NEW snapshot, NEW p, OpenWake(kind, snapshot, p)
        PROVE  Goal
    BY <1>1, <1>3 DEF OpenWake, WakeRecord
  <1>4. ASSUME NEW v, NEW ids, RecordRetrieval(v, ids)
        PROVE  Goal
    <2>1. /\ v \in DOMAIN wakes /\ ~wakes[v].closed
          /\ wakes' = [wakes EXCEPT ![v] = [wakes[v] EXCEPT !.retrieved = @ \cup ids]]
      BY <1>4 DEF RecordRetrieval, Open
    <2>2. [wakes[v] EXCEPT !.retrieved = @ \cup ids].closed = wakes[v].closed
      BY <1>1, <2>1 DEF WakeRecords
    <2> QED
      BY <2>1, <2>2
  <1>5. ASSUME NEW p \in Procs, CloseSteps(p)
        PROVE  Goal
    <2>1. Closes(cyc[p].wake)
      BY <1>5 DEF CloseSteps, CloseSleep, CloseCycle, CloseOnError, Closes
    <2>2. \A v \in DOMAIN wakes' :
             v \in DOMAIN wakes /\ (v # cyc[p].wake => wakes'[v] = wakes[v])
      <3>1. PICK d, s, b, st, su : CloseWake(cyc[p].wake, d, s, b, st, su)
        BY <2>1 DEF Closes
      <3> QED
        BY <1>1, <3>1 DEF CloseWake
    <2> QED
      BY <1>5, <2>2
  <1>6. ASSUME NEW p \in Procs, DispatchCall(p) \/ ReplayCall(p) \/ Observe(p)
        PROVE  Goal
    BY <1>2, <1>4, <1>6 DEF DispatchCall, ReplayCall, Observe, Dispatch,
       DispatchSearch, historyVars
  <1>7. ASSUME NEW p \in Procs, RunStep(p)
        PROVE  Goal
    <2>1. CASE CloseSleep(p) \/ CloseCycle(p) \/ CloseOnError(p)
      BY <1>5, <2>1 DEF CloseSteps
    <2>2. CASE OpenCycle(p)
      BY <1>3, <2>2 DEF OpenCycle
    <2>3. CASE DispatchCall(p) \/ Observe(p)
      BY <1>6, <2>3
    <2> QED
      BY <1>2, <1>7, <2>1, <2>2, <2>3 DEF RunStep, LoadState, UserTurn, Complete,
         AppendTurn, BudgetStop, DispatchRaises, ToolTurn, GetFails, UpdateState,
         Successor, Finish, historyVars
  <1>8. ASSUME NEW p \in Procs, Misfortune(p) \/ ReplayFails(p) \/ ReplayMisfits(p)
        PROVE  Goal
    BY <1>2, <1>8 DEF Misfortune, ObserveFails, CompleteFails, DispatchFails,
       DispatchMisfits, UpdateFails, ClockRunsOut, Crash, LockedOut, ReplayFails,
       ReplayMisfits, WrongDimension, historyVars
  <1>9. ASSUME NEW p \in Procs, Begin(p) \/ RebuildStep(p)
        PROVE  Goal
    <2>1. EndReplay(p) \/ RestoreState(p) => wakes' = wakes
      BY DEF EndReplay, RestoreState, historyVars
    <2> QED
      BY <1>2, <1>6, <1>9, <2>1 DEF Begin, Start, StartRebuild, StartTopUp, RebuildStep,
         Clear, OpenCursor, ReplayRaises, Report, historyVars
  <1> QED
    BY <1>2, <1>7, <1>8, <1>9 DEF Next, Rest, vars
----------------------------------------------------------------------------
\* What a process may have spent where it is.  Before its wake is opened there
\* is room for one more record, and before the state update for one more
\* uncharged model call.
Fits(r, l) ==
    /\ WithinAllowance(r.budget)
    /\ r.records <= MaxSuccessors + 1
    /\ r.model_calls <= r.budget.iterations + r.records
    /\ l \in {"load", "open"} => r.records <= MaxSuccessors
    /\ l \in {"user", "observe", "loop", "tools", "decided"} =>
          r.model_calls < r.budget.iterations + r.records

AllowanceInv ==
    /\ \A p \in Procs : Fits(run[p], pc[p])
    /\ \A w \in DOMAIN wakes :
          wakes[w].closed => WithinAllowance(wakes[w].budget_used)

\* A process that does nothing has spent nothing.
LEMMA NothingSpent ==
    ASSUME NEW l \in {"idle", "load"} \cup RebuildSteps, NEW r,
           r.records = 0, r.model_calls = 0, r.budget = FreshBudget
    PROVE  Fits(r, l)
  BY BudgetAssumption, OrchestratorAssumption
     DEF Fits, WithinAllowance, FreshBudget, RebuildSteps

\* One completion, allowed by the budget, keeps within the allowance.
LEMMA OneCompletion ==
    ASSUME NEW b \in Budgets, NEW n \in Usages, NEW k \in Nat,
           WithinAllowance(b), Allows(b), k <= MaxCallsPerTurn
    PROVE  /\ WithinAllowance(ChargeToolCalls(Charge(b, n), k))
           /\ ChargeToolCalls(Charge(b, n), k).iterations = b.iterations + 1
  <1> DEFINE spent == ChargeToolCalls(Charge(b, n), k)
  <1>1. /\ b.iterations \in Nat /\ b.tokens \in Nat /\ b.tool_calls \in Nat
        /\ MaxIterations \in Nat /\ MaxTokens \in Nat /\ MaxToolCalls \in Nat
        /\ n \in Nat /\ MaxCallsPerTurn \in Nat
    BY BudgetAssumption, OrchestratorAssumption DEF Budgets
  <1>2. /\ Charge(b, n).iterations = b.iterations + 1
        /\ Charge(b, n).tokens = b.tokens + n
        /\ Charge(b, n).tool_calls = b.tool_calls
        /\ Charge(b, n) \in Budgets
    <2>1. b.iterations + 1 \in Nat /\ b.tokens + n \in Nat
      BY <1>1
    <2> QED
      BY <2>1, Zenon DEF Charge, Budgets
  <1>3. /\ spent.iterations = b.iterations + 1
        /\ spent.tokens = b.tokens + n
        /\ spent.tool_calls = b.tool_calls + k
    BY <1>2 DEF ChargeToolCalls, Budgets
  <1>4. /\ ~(b.iterations >= MaxIterations) /\ ~(b.tokens >= MaxTokens)
        /\ ~(b.tool_calls >= MaxToolCalls)
    BY BudgetAssumption DEF Allows, Exceeded
  <1> QED
    BY <1>1, <1>3, <1>4 DEF WithinAllowance

\* A step of one process leaves what the others have spent alone.
LEMMA OneSpends ==
    ASSUME \A q \in Procs : Fits(run[q], pc[q]), NEW p \in Procs,
           \A q \in Procs \ {p} : run'[q] = run[q] /\ pc'[q] = pc[q],
           Fits(run'[p], pc'[p])
    PROVE  \A q \in Procs : Fits(run'[q], pc'[q])
  OBVIOUS

LEMMA FitsNext ==
    ASSUME TypeInv, AllowanceInv, [Next]_vars
    PROVE  \A q \in Procs : Fits(run'[q], pc'[q])
  <1> DEFINE Goal == \A q \in Procs : Fits(run'[q], pc'[q])
  <1>1. /\ pc \in [Procs -> {"idle"} \cup RunSteps \cup RebuildSteps]
        /\ run \in [Procs -> Runs] /\ \A q \in Procs : run[q] \in Runs
        /\ \A q \in Procs : run[q].records \in Nat /\ run[q].model_calls \in Nat
                               /\ run[q].budget \in Budgets
                               /\ run[q].budget.iterations \in Nat
    BY DEF TypeInv, TypeOK, Runs, Budgets
  <1>2. \A q \in Procs : Fits(run[q], pc[q])
    BY DEF AllowanceInv
  <1>same. ASSUME UNCHANGED <<pc, run>>
           PROVE  Goal
    BY <1>2, <1>same
  \* The process goes where at most as much is asked of it.
  <1>goto. ASSUME NEW p \in Procs, NEW l, Goto(p, l), UNCHANGED run, Fits(run[p], l)
           PROVE  Goal
    BY <1>1, <1>2, <1>goto DEF Goto
  <1>exit. ASSUME NEW p \in Procs, Exit(p)
           PROVE  Goal
    <2>1. Fits(NoRun, "idle")
      BY NothingSpent DEF NoRun
    <2> QED
      BY <1>1, <1>2, <1>exit, <2>1 DEF Exit, Goto
  <1>3. ASSUME NEW p \in Procs, NEW l,
               l \in {"loop", "tools", "decided"} =>
                  pc[p] \in {"user", "observe", "loop", "tools", "decided"},
               l \in {"user", "observe"} => pc[p] = "user",
               l \in {"load", "open"} => pc[p] = "load"
        PROVE  Fits(run[p], l)
    BY <1>2, <1>3 DEF Fits
  <1>start. ASSUME NEW p \in Procs, Begin(p)
            PROVE  Goal
    <2>1. CASE \E t \in Wakings : Start(p, t)
      <3>1. PICK t \in Wakings :
              /\ Goto(p, "load")
              /\ run' = [run EXCEPT ![p] = [NoRun EXCEPT !.kind = t.kind, !.cue = t.cue]]
        BY <2>1 DEF Start
      <3>2. Fits(run'[p], "load")
        BY <1>1, <3>1, NothingSpent DEF NoRun
      <3> QED
        BY <1>1, <1>2, <3>1, <3>2 DEF Goto
    <2>2. CASE StartRebuild(p)
      BY <1>3, <1>goto, <2>2 DEF StartRebuild
    <2>3. CASE StartTopUp(p)
      BY <1>3, <1>goto, <2>3 DEF StartTopUp
    <2> QED
      BY <1>start, <2>1, <2>2, <2>3 DEF Begin
  <1>open. ASSUME NEW p \in Procs, OpenCycle(p)
           PROVE  Goal
    <2>1. /\ pc[p] = "open" /\ run' = [run EXCEPT ![p].records = @ + 1]
          /\ \E l \in {"user", "observe"} : Goto(p, l)
      BY <1>open DEF OpenCycle
    <2>2. PICK l \in {"user", "observe"} : Goto(p, l)
      BY <2>1
    <2>3. /\ run'[p].records = run[p].records + 1
          /\ run'[p].budget = run[p].budget
          /\ run'[p].model_calls = run[p].model_calls
      BY <1>1, <2>1 DEF Runs
    <2>4. Fits(run'[p], l)
      BY <1>1, <1>2, <2>1, <2>3, OrchestratorAssumption DEF Fits
    <2> QED
      BY <1>1, <1>2, <2>1, <2>2, <2>4 DEF Goto
  <1>complete. ASSUME NEW p \in Procs, Complete(p)
               PROVE  Goal
    <2>1. PICK calls \in MemoryCalls, f \in Finishes \cup {None}, n \in Usages :
             /\ run' = [run EXCEPT
                   ![p].budget = ChargeToolCalls(Charge(run[p].budget, n), Len(calls)),
                   ![p].model_calls = @ + 1]
             /\ \E l \in {"decided", "tools"} : Goto(p, l)
      BY <1>complete, Zenon DEF Complete
    <2>2. PICK l \in {"decided", "tools"} : Goto(p, l)
      BY <2>1
    <2>3. Len(calls) \in Nat /\ Len(calls) <= MaxCallsPerTurn
      BY OrchestratorAssumption DEF MemoryCalls
    <2>4. pc[p] = "loop" /\ Allows(run[p].budget) /\ WithinAllowance(run[p].budget)
      BY <1>2, <1>complete DEF Complete, Fits
    <2> DEFINE spent == ChargeToolCalls(Charge(run[p].budget, n), Len(calls))
    <2>5. WithinAllowance(spent) /\ spent.iterations = run[p].budget.iterations + 1
      BY <1>1, <2>3, <2>4, OneCompletion
    <2>6. /\ run'[p].records = run[p].records
          /\ run'[p].budget = spent
          /\ run'[p].model_calls = run[p].model_calls + 1
      BY <1>1, <2>1 DEF Runs
    <2>7. Fits(run'[p], l)
      BY <1>1, <1>2, <2>4, <2>5, <2>6 DEF Fits
    <2> QED
      BY <1>1, <1>2, <2>1, <2>2, <2>7 DEF Goto
  <1>update. ASSUME NEW p \in Procs, UpdateState(p)
             PROVE  Goal
    <2>1. /\ pc[p] = "decided" /\ Goto(p, "saved")
          /\ run' = [run EXCEPT ![p].model_calls = @ + 1]
      BY <1>update DEF UpdateState
    <2>2. /\ run'[p].records = run[p].records
          /\ run'[p].budget = run[p].budget
          /\ run'[p].model_calls = run[p].model_calls + 1
      BY <1>1, <2>1 DEF Runs
    <2>3. Fits(run'[p], "saved")
      BY <1>1, <1>2, <2>1, <2>2 DEF Fits
    <2> QED
      BY <1>1, <1>2, <2>1, <2>3 DEF Goto
  <1>successor. ASSUME NEW p \in Procs, Successor(p)
                PROVE  Goal
    <2>1. /\ run[p].records <= MaxSuccessors /\ Goto(p, "load")
          /\ run' = [run EXCEPT ![p].cue = FALSE]
      BY <1>successor DEF Successor, GrantsSuccessor
    <2>2. /\ run'[p].records = run[p].records
          /\ run'[p].budget = run[p].budget
          /\ run'[p].model_calls = run[p].model_calls
      BY <1>1, <2>1 DEF Runs
    <2>3. Fits(run'[p], "load")
      BY <1>2, <2>1, <2>2 DEF Fits
    <2> QED
      BY <1>1, <1>2, <2>1, <2>3 DEF Goto
  <1>clock. ASSUME NEW p \in Procs, ClockRunsOut(p)
            PROVE  Goal
    <2>1. /\ run' = [run EXCEPT ![p] = [run[p] EXCEPT
                        !.budget = [run[p].budget EXCEPT !.late = TRUE]]]
          /\ pc' = pc
      BY <1>clock DEF ClockRunsOut
    <2>2. /\ run'[p].records = run[p].records
          /\ run'[p].model_calls = run[p].model_calls
          /\ run'[p].budget = [run[p].budget EXCEPT !.late = TRUE]
      BY <1>1, <2>1 DEF Runs
    <2>3. /\ run'[p].budget.iterations = run[p].budget.iterations
          /\ run'[p].budget.tokens = run[p].budget.tokens
          /\ run'[p].budget.tool_calls = run[p].budget.tool_calls
      BY <1>1, <2>2 DEF Budgets
    <2>4. Fits(run'[p], pc[p])
      BY <1>2, <2>2, <2>3 DEF Fits, WithinAllowance
    <2> QED
      BY <1>1, <1>2, <2>1, <2>4
  <1>4. ASSUME NEW p \in Procs, RunStep(p)
        PROVE  Goal
    <2>1. CASE LoadState(p)
      BY <1>3, <1>goto, <2>1 DEF LoadState
    <2>2. CASE UserTurn(p)
      BY <1>3, <1>goto, <2>2 DEF UserTurn
    <2>3. CASE Observe(p)
      BY <1>3, <1>goto, <2>3 DEF Observe
    <2>4. CASE BudgetStop(p)
      BY <1>3, <1>goto, <2>4 DEF BudgetStop
    <2>5. CASE DispatchCall(p)
      BY <1>same, <2>5 DEF DispatchCall, orchestratorVars
    <2>6. CASE DispatchRaises(p)
      BY <1>3, <1>goto, <2>6 DEF DispatchRaises
    <2>7. CASE ToolTurn(p)
      <3>1. /\ pc[p] = "tools" /\ UNCHANGED run
            /\ \E l \in {"decided", "loop"} : Goto(p, l)
        BY <2>7 DEF ToolTurn, AfterTurn
      <3>2. PICK l \in {"decided", "loop"} : Goto(p, l)
        BY <3>1
      <3>3. Fits(run[p], l)
        BY <1>3, <3>1
      <3> QED
        BY <1>goto, <3>1, <3>2, <3>3
    <2>8. CASE CloseSleep(p)
      BY <1>3, <1>goto, <2>8 DEF CloseSleep
    <2>9. CASE GetFails(p)
      BY <1>3, <1>goto, <2>9 DEF GetFails
    <2>10. CASE CloseCycle(p)
      BY <1>3, <1>goto, <2>10 DEF CloseCycle
    <2>11. CASE CloseOnError(p) \/ Finish(p)
      BY <1>exit, <2>11 DEF CloseOnError, Finish
    <2> QED
      BY <1>4, <1>open, <1>complete, <1>update, <1>successor, <2>1, <2>2, <2>3,
         <2>4, <2>5, <2>6, <2>7, <2>8, <2>9, <2>10, <2>11 DEF RunStep
  <1>5. ASSUME NEW p \in Procs, Misfortune(p) \/ ReplayFails(p) \/ ReplayMisfits(p)
        PROVE  Goal
    <2>1. CASE ObserveFails(p) \/ Crash(p) \/ ReplayFails(p)
      BY <1>exit, <2>1 DEF ObserveFails, Crash, ReplayFails
    <2>2. CASE CompleteFails(p)
      BY <1>3, <1>goto, <2>2 DEF CompleteFails
    <2>3. CASE DispatchFails(p)
      BY <1>3, <1>goto, <2>3 DEF DispatchFails
    <2>4. CASE UpdateFails(p)
      BY <1>3, <1>goto, <2>4 DEF UpdateFails
    <2>5. CASE DispatchMisfits(p) \/ ReplayMisfits(p)
      BY <1>same, <2>5 DEF DispatchMisfits, ReplayMisfits, orchestratorVars
    <2>6. CASE LockedOut(p)
      <3>1. Exit(p) \/ (Goto(p, "error") /\ UNCHANGED run)
        BY <2>6 DEF LockedOut
      <3>2. Fits(run[p], "error")
        BY <1>3
      <3> QED
        BY <1>exit, <1>goto, <3>1, <3>2
    <2> QED
      BY <1>5, <1>clock, <2>1, <2>2, <2>3, <2>4, <2>5, <2>6 DEF Misfortune
  <1>6. ASSUME NEW p \in Procs, RebuildStep(p)
        PROVE  Goal
    <2>1. CASE Clear(p) \/ OpenCursor(p)
      <3>1. PICK l \in {"cleared", "replay"} : Goto(p, l) /\ UNCHANGED run
        BY <2>1 DEF Clear, OpenCursor
      <3>2. Fits(run[p], l)
        BY <1>3, <3>1
      <3> QED
        BY <1>goto, <3>1, <3>2
    <2>2. CASE ReplayCall(p)
      BY <1>same, <2>2 DEF ReplayCall, orchestratorVars
    <2>3. CASE ReplayRaises(p) \/ Report(p)
      BY <1>exit, <2>3 DEF ReplayRaises, Report
    <2>4. CASE EndReplay(p) \/ RestoreState(p)
      <3>1. PICK l \in {"restore", "rebuilt"} : Goto(p, l) /\ UNCHANGED run
        BY <2>4 DEF EndReplay, RestoreState
      <3> QED
        BY <1>3, <1>goto, <3>1
    <2> QED
      BY <1>6, <2>1, <2>2, <2>3, <2>4 DEF RebuildStep
  <1> QED
    BY <1>same, <1>start, <1>4, <1>5, <1>6 DEF Next, Rest, vars

LEMMA AllowanceNext ==
    ASSUME TypeInv, AllowanceInv, [Next]_vars
    PROVE  AllowanceInv'
  <1>1. ASSUME NEW w \in DOMAIN wakes', wakes'[w].closed
        PROVE  WithinAllowance(wakes'[w].budget_used)
    <2>1. CASE w \in DOMAIN wakes /\ wakes[w].closed /\ wakes'[w] = wakes[w]
      BY <2>1 DEF AllowanceInv
    <2>2. CASE \E p \in Procs : cyc[p].wake = w /\ CloseSteps(p)
      <3>1. PICK p \in Procs : cyc[p].wake = w /\ CloseSteps(p)
        BY <2>2
      <3>2. wakes'[w].budget_used = run[p].budget
        <4>1. wakes \in Seq(WakeRecords) /\ \A v \in DOMAIN wakes : wakes[v] \in WakeRecords
          BY DEF TypeInv, TypeOK
        <4>2. \E d, s, st, su : CloseWake(w, d, s, run[p].budget, st, su)
          BY <3>1 DEF CloseSteps, CloseSleep, CloseCycle, CloseOnError
        <4>3. PICK d, s, st, su : CloseWake(w, d, s, run[p].budget, st, su)
          BY <4>2
        <4> QED
          BY <4>1, <4>3 DEF CloseWake, Open, WakeRecords
      <3> QED
        BY <3>1, <3>2 DEF AllowanceInv, Fits
    <2> QED
      BY <1>1, <2>1, <2>2, ClosedByHolder
  <1> QED
    BY <1>1, FitsNext DEF AllowanceInv

\* A run and all its successors spend one allowance, whatever the limits, the
\* model's answers, the number of calls it makes and the errors it meets: no
\* successor, no error and no boundary of a loop gives a run more.
THEOREM AllowanceIsShared == Spec => []OneAllowance
  <1>1. Init => AllowanceInv
    <2>1. Fits(NoRun, "idle")
      BY NothingSpent DEF NoRun
    <2> QED
      BY <2>1 DEF Init, HistoryInit, OrchestratorInit, AllowanceInv
  <1>2. AllowanceInv => OneAllowance
    BY DEF AllowanceInv, OneAllowance, Fits
  <1> QED
    BY <1>1, <1>2, TypeInvInit, TypeInvNext, AllowanceNext, PTL DEF Spec
----------------------------------------------------------------------------
\* What each turn settles, and the assistant turns of the wake q works on.
Outcomes == [s \in DOMAIN turns |-> Outcome(s)]

Mine(q) == {s \in DOMAIN turns : /\ turns[s].wake = cyc[q].wake
                                 /\ turns[s].role = "assistant"}

OnlyLastSettles(S) == \A s \in S : (\E r \in S : s < r) => Outcomes[s] = None

NothingSettled(S) == \A s \in S : Outcomes[s] = None

Undecided == {"open", "user", "observe", "loop", "tools"}

\* What the locals of a process say is what the turns of its wake settled.
Tells(q) ==
    /\ pc[q] \in Undecided =>
          cyc[q].decision = None /\ cyc[q].stop_reason = "completed"
    /\ pc[q] \in Undecided \cup {"decided"} => cyc[q].state_after = None
    /\ pc[q] \in {"user", "observe", "loop"} => NothingSettled(Mine(q))
    /\ pc[q] = "tools" =>
          /\ cyc[q].src \in Mine(q)
          /\ \A s \in Mine(q) : s <= cyc[q].src
          /\ NothingSettled(Mine(q) \ {cyc[q].src})
    /\ pc[q] \in {"decided", "saved", "error"} =>
          /\ OnlyLastSettles(Mine(q))
          /\ cyc[q].decision # None =>
                \E s \in Mine(q) : Outcomes[s] = cyc[q].decision
    /\ pc[q] = "decided" =>
          IF cyc[q].decision = None
          THEN /\ NothingSettled(Mine(q))
               /\ cyc[q].stop_reason \notin {"completed", "idle"}
          ELSE cyc[q].stop_reason = "completed"
    /\ pc[q] = "saved" => /\ cyc[q].decision \notin {None, "sleep"}
                          /\ cyc[q].stop_reason = "completed"

TellsInv == \A q \in Procs : Tells(q)

\* The clauses of RecordTellsDecision for one record.
Told(w, S) ==
    /\ OnlyLastSettles(S)
    /\ wakes[w].decision # None => \E s \in S : Outcomes[s] = wakes[w].decision
    /\ wakes[w].decision = None /\ wakes[w].stop_reason # "error" =>
          NothingSettled(S) /\ wakes[w].stop_reason \notin {"completed", "idle"}
    /\ wakes[w].stop_reason # "error" =>
          (wakes[w].decision = "sleep" <=> wakes[w].stop_reason = "idle")
    /\ wakes[w].state_after # None =>
          /\ wakes[w].decision \notin {None, "sleep"}
          /\ wakes[w].stop_reason = "completed"

\* What Settled does to a decision, and what it leaves.
LEMMA SettledFields ==
    ASSUME NEW c \in Cycles, NEW calls, NEW f \in FinishCalls \cup {None},
           c.decision = None
    PROVE  /\ Settled(c, calls, f).decision = Settled(NoCycle, calls, f).decision
           /\ Settles(calls, f) <=> Settled(c, calls, f).decision # None
           /\ Settled(c, calls, f).wake = c.wake
           /\ Settled(c, calls, f).src = c.src
           /\ Settled(c, calls, f).stop_reason = c.stop_reason
           /\ Settled(c, calls, f).state_after = c.state_after
  <1>1. NoCycle \in Cycles /\ NoCycle.decision = None
    BY LocalTypes DEF NoCycle
  <1>2. f # None => ParseDecision(f) \in Decisions /\ ParseDecision(f) # None
    BY NoneAssumption DEF ParseDecision, Decisions
  <1>3. "respond" # None
    BY NoneAssumption DEF Decisions
  <1> QED
    BY <1>1, <1>2, <1>3 DEF Settled, Settles, Cycles

\* Only a completion adds to what the model has said in a wake.
LEMMA SpokenSteps ==
    ASSUME TypeInv, [Next]_vars, ~ \E p \in Procs : Complete(p)
    PROVE  \A s \in DOMAIN turns' \ DOMAIN turns : turns'[s].role # "assistant"
  <1> DEFINE Goal == \A s \in DOMAIN turns' \ DOMAIN turns :
                        turns'[s].role # "assistant"
  <1>1. turns \in Seq(Turns)
    BY DEF TypeInv, TypeOK
  <1>2. CASE turns' = turns
    BY <1>2
  <1>3. ASSUME NEW p \in Procs, UserTurn(p) \/ ToolTurn(p)
        PROVE  Goal
    <2>1. PICK role \in {"user", "tool"} :
             turns' = Append(turns, Turn(cyc[p].wake, role, << >>, None))
      BY <1>3 DEF UserTurn, ToolTurn, AppendTurn
    <2> QED
      BY <1>1, <2>1 DEF Turn
  <1>4. ASSUME NEW p \in Procs, DispatchCall(p) \/ ReplayCall(p)
        PROVE  turns' = turns
    <2>1. Dispatch(p)
      BY <1>4 DEF DispatchCall, ReplayCall
    <2> QED
      BY <2>1 DEF Dispatch, DispatchSearch, RejectWrite, AcceptWrite, VoidSupersede,
         ReapplyMark, AcceptSupersede, Upsert, RefuseMark, CheckMark, SetMark,
         RejectMisshapen, RecordRetrieval, historyVars
  <1>5. ASSUME NEW p \in Procs, RunStep(p)
        PROVE  Goal
    BY <1>2, <1>3, <1>4, <1>5 DEF RunStep, LoadState, OpenCycle, OpenWake,
       Observe, RecordRetrieval, BudgetStop, DispatchRaises, CloseSleep,
       GetFails, UpdateState, CloseCycle, CloseOnError, CloseWake, Successor,
       Finish, historyVars
  <1>6. ASSUME NEW p \in Procs, Misfortune(p) \/ ReplayFails(p) \/ ReplayMisfits(p)
        PROVE  Goal
    BY <1>2, <1>6 DEF Misfortune, ObserveFails, CompleteFails, DispatchFails,
       DispatchMisfits, UpdateFails, ClockRunsOut, Crash, LockedOut, ReplayFails,
       ReplayMisfits, WrongDimension, historyVars
  <1>7. ASSUME NEW p \in Procs, Begin(p) \/ RebuildStep(p)
        PROVE  Goal
    <2>1. EndReplay(p) \/ RestoreState(p) => turns' = turns
      BY DEF EndReplay, RestoreState, historyVars
    <2> QED
      BY <1>2, <1>4, <1>7, <2>1 DEF Begin, Start, StartRebuild, StartTopUp, RebuildStep,
         Clear, OpenCursor, ReplayRaises, Report, historyVars
  <1> QED
    BY <1>2, <1>5, <1>6, <1>7 DEF Next, Rest, vars

\* As long as nothing is said in its wake a process finds the same transcript.
LEMMA MineStays ==
    ASSUME Grows, NEW q \in Procs, cyc'[q].wake = cyc[q].wake,
           \A s \in DOMAIN turns' \ DOMAIN turns :
              turns'[s].role # "assistant" \/ turns'[s].wake # cyc[q].wake
    PROVE  /\ Mine(q)' = Mine(q) /\ Mine(q) \subseteq DOMAIN turns
           /\ \A s \in DOMAIN turns : Outcomes'[s] = Outcomes[s]
  <1>1. \A s \in DOMAIN turns : Outcomes'[s] = Outcomes[s]
    BY DEF Outcomes, Outcome, Grows
  <1> QED
    BY <1>1 DEF Mine, Grows

\* A process that stays where it is, in a wake where nothing is said.
LEMMA TellsStays ==
    ASSUME Grows, NEW q \in Procs, Tells(q), cyc'[q] = cyc[q], pc'[q] = pc[q],
           \A s \in DOMAIN turns' \ DOMAIN turns :
              turns'[s].role # "assistant" \/ turns'[s].wake # cyc[q].wake
    PROVE  Tells(q)'
  BY MineStays DEF Tells, OnlyLastSettles, NothingSettled

\* One process moves and nobody speaks.
LEMMA OneMoves ==
    ASSUME Grows, TellsInv, NEW p \in Procs, Tells(p)',
           \A q \in Procs \ {p} : cyc'[q] = cyc[q] /\ pc'[q] = pc[q],
           \A s \in DOMAIN turns' \ DOMAIN turns : turns'[s].role # "assistant"
    PROVE  TellsInv'
  BY TellsStays DEF TellsInv

\* A completion adds its turn to its own wake, the last one there.
LEMMA CompleteTells ==
    ASSUME TypeInv, Grows, OwnsOpenWake, TellsInv, NEW p \in Procs, Complete(p)
    PROVE  TellsInv'
  <1>1. /\ turns \in Seq(Turns) /\ pc[p] = "loop" /\ cyc[p] \in Cycles
        /\ pc \in [Procs -> {"idle"} \cup RunSteps \cup RebuildSteps]
        /\ cyc \in [Procs -> Cycles]
    BY DEF TypeInv, TypeOK, Complete
  <1>2. PICK calls \in MemoryCalls, f \in Finishes \cup {None} :
           /\ turns' = Append(turns, Turn(cyc[p].wake, "assistant", calls, f))
           /\ IF calls = << >>
              THEN /\ cyc' = [cyc EXCEPT ![p] = Settled(@, calls, f)]
                   /\ Goto(p, "decided")
              ELSE /\ cyc' = [cyc EXCEPT ![p].src = Len(turns) + 1]
                   /\ Goto(p, "tools")
    BY DEF Complete, AppendTurn, NewTurnSeq
  <1> DEFINE s == Len(turns) + 1
  <1>3. /\ s \in Nat /\ DOMAIN turns' = DOMAIN turns \cup {s}
        /\ \A r \in DOMAIN turns : r \in Nat /\ r < s
        /\ turns'[s] = Turn(cyc[p].wake, "assistant", calls, f)
    BY <1>1, <1>2
  <1>4. f \in FinishCalls \cup {None}
    BY OrchestratorAssumption
  <1>5. /\ turns'[s].wake = cyc[p].wake /\ turns'[s].role = "assistant"
        /\ Outcomes'[s] = Settled(NoCycle, calls, f).decision
        /\ \A r \in DOMAIN turns : Outcomes'[r] = Outcomes[r]
    BY <1>3 DEF Turn, Outcomes, Outcome, Grows
  <1> HIDE DEF s
  <1>6. ASSUME NEW q \in Procs \ {p}
        PROVE  Tells(q)'
    <2>1. cyc'[q] = cyc[q] /\ pc'[q] = pc[q]
      BY <1>1, <1>2 DEF Goto
    <2>2. CASE HoldsWake(q)
      <3>1. cyc[q].wake # cyc[p].wake
        BY <1>1, <2>2 DEF OwnsOpenWake, HoldsWake
      <3> QED
        BY <1>3, <1>5, <2>1, <3>1, TellsStays DEF TellsInv
    <2>3. CASE ~HoldsWake(q)
      BY <2>1, <2>3 DEF HoldsWake, TellsInv, Tells
    <2> QED
      BY <2>2, <2>3
  <1>7. cyc[p].decision = None /\ cyc[p].stop_reason = "completed"
        /\ cyc[p].state_after = None /\ NothingSettled(Mine(p))
    BY <1>1 DEF TellsInv, Tells, Undecided
  <1>8. cyc'[p].wake = cyc[p].wake
    <2>1. CASE calls = << >>
      <3>1. cyc'[p] = Settled(cyc[p], calls, f)
        BY <1>1, <1>2, <2>1
      <3> QED
        BY <1>1, <1>4, <1>7, <3>1, SettledFields
    <2>2. CASE calls # << >>
      BY <1>1, <1>2, <2>2 DEF Cycles
    <2> QED
      BY <2>1, <2>2
  <1>9. /\ Mine(p)' = Mine(p) \cup {s} /\ Mine(p) \subseteq DOMAIN turns
    BY <1>3, <1>5, <1>8 DEF Mine, Grows
  <1>10. /\ \A r \in Mine(p) : Outcomes'[r] = None
         /\ \A r \in Mine(p) : r \in Nat /\ r < s
    BY <1>3, <1>5, <1>7, <1>9 DEF NothingSettled
  <1>11. CASE calls = << >>
    <2>1. /\ cyc'[p] = Settled(cyc[p], calls, f) /\ pc'[p] = "decided"
      BY <1>1, <1>2, <1>11 DEF Goto
    <2>2. /\ cyc'[p].decision = Outcomes'[s] /\ cyc'[p].decision # None
          /\ cyc'[p].stop_reason = "completed" /\ cyc'[p].state_after = None
      BY <1>1, <1>4, <1>5, <1>7, <1>11, <2>1, SettledFields DEF Settles
    <2>3. OnlyLastSettles(Mine(p))'
      BY <1>3, <1>9, <1>10 DEF OnlyLastSettles
    <2>4. Tells(p)'
      BY <1>9, <2>1, <2>2, <2>3 DEF Tells, Undecided
    <2> QED
      BY <1>6, <2>4 DEF TellsInv
  <1>12. CASE calls # << >>
    <2>1. /\ cyc'[p] = [cyc[p] EXCEPT !.src = s] /\ pc'[p] = "tools"
      BY <1>1, <1>2, <1>12 DEF Goto, s
    <2>2. /\ cyc'[p].decision = None /\ cyc'[p].stop_reason = "completed"
          /\ cyc'[p].state_after = None /\ cyc'[p].src = s
      BY <1>1, <1>7, <2>1 DEF Cycles
    <2>3. NothingSettled(Mine(p) \ {cyc[p].src})'
      BY <1>9, <1>10, <2>2 DEF NothingSettled
    <2>4. Tells(p)'
      BY <1>3, <1>9, <1>10, <2>1, <2>2, <2>3 DEF Tells, Undecided
    <2> QED
      BY <1>6, <2>4 DEF TellsInv
  <1> QED
    BY <1>11, <1>12

\* Every step keeps what the locals say true.
LEMMA TellsNext ==
    ASSUME TypeInv, Grows, OwnsOpenWake, TellsInv, [Next]_vars
    PROVE  TellsInv'
  <1>1. /\ turns \in Seq(Turns) /\ cyc \in [Procs -> Cycles]
        /\ \A q \in Procs : cyc[q] \in Cycles
        /\ pc \in [Procs -> {"idle"} \cup RunSteps \cup RebuildSteps]
        /\ \A q \in Procs : Tells(q)
    BY DEF TypeInv, TypeOK, TellsInv
  <1>2. CASE \E p \in Procs : Complete(p)
    BY <1>2, CompleteTells
  <1> SUFFICES ASSUME ~ \E p \in Procs : Complete(p)
               PROVE  TellsInv'
    BY <1>2
  <1>3. \A s \in DOMAIN turns' \ DOMAIN turns : turns'[s].role # "assistant"
    BY SpokenSteps
  <1>same. ASSUME UNCHANGED <<pc, cyc>>
           PROVE  TellsInv'
    BY <1>1, <1>3, <1>same, TellsStays DEF TellsInv
  \* Where nothing has been opened and nothing is to be told.
  <1>out. ASSUME NEW p \in Procs, NEW l, Goto(p, l),
                 UNCHANGED cyc \/ \E c : cyc' = [cyc EXCEPT ![p] = c],
                 l \in {"idle", "load", "closed"} \cup RebuildSteps
          PROVE  TellsInv'
    <2>1. /\ pc'[p] = l
          /\ \A q \in Procs \ {p} : cyc'[q] = cyc[q] /\ pc'[q] = pc[q]
      BY <1>1, <1>out DEF Goto
    <2>2. Tells(p)'
      BY <1>out, <2>1 DEF Tells, Undecided, RebuildSteps
    <2> QED
      BY <1>3, <2>1, <2>2, OneMoves
  \* In the same wake: the transcript p finds is the one it found.
  <1>wake. ASSUME NEW p \in Procs, NEW c \in Cycles, NEW l,
                  cyc' = [cyc EXCEPT ![p] = c], Goto(p, l), c.wake = cyc[p].wake
           PROVE  /\ cyc'[p] = c /\ pc'[p] = l
                  /\ \A q \in Procs \ {p} : cyc'[q] = cyc[q] /\ pc'[q] = pc[q]
                  /\ Mine(p)' = Mine(p) /\ Mine(p) \subseteq DOMAIN turns
                  /\ \A s \in DOMAIN turns : Outcomes'[s] = Outcomes[s]
    <2>1. /\ cyc'[p] = c /\ pc'[p] = l
          /\ \A q \in Procs \ {p} : cyc'[q] = cyc[q] /\ pc'[q] = pc[q]
      BY <1>1, <1>wake DEF Goto
    <2> QED
      BY <1>3, <1>wake, <2>1, MineStays
  <1>goto. ASSUME NEW p \in Procs, NEW l, Goto(p, l), UNCHANGED cyc
           PROVE  /\ cyc'[p] = cyc[p] /\ pc'[p] = l
                  /\ \A q \in Procs \ {p} : cyc'[q] = cyc[q] /\ pc'[q] = pc[q]
                  /\ Mine(p)' = Mine(p) /\ Mine(p) \subseteq DOMAIN turns
                  /\ \A s \in DOMAIN turns : Outcomes'[s] = Outcomes[s]
    <2>1. cyc' = [cyc EXCEPT ![p] = cyc[p]]
      BY <1>1, <1>goto
    <2> QED
      BY <1>1, <1>goto, <1>wake, <2>1
  \* An error leaves the wake with no decision, or with the one it made.
  <1>fail. ASSUME NEW p \in Procs, NEW d \in {cyc[p].decision, None}, Goto(p, "error"),
                  cyc' = [cyc EXCEPT ![p].decision = d],
                  pc[p] \in {"loop", "tools", "decided", "saved"}
           PROVE  TellsInv'
    <2> DEFINE c == [cyc[p] EXCEPT !.decision = d]
    <2>1. /\ c \in Cycles /\ c.wake = cyc[p].wake /\ c.decision = d
          /\ cyc' = [cyc EXCEPT ![p] = c]
      BY <1>1, <1>fail DEF Cycles
    <2> HIDE DEF c
    <2>2. /\ cyc'[p] = c /\ pc'[p] = "error"
          /\ \A q \in Procs \ {p} : cyc'[q] = cyc[q] /\ pc'[q] = pc[q]
          /\ Mine(p)' = Mine(p) /\ Mine(p) \subseteq DOMAIN turns
          /\ \A s \in DOMAIN turns : Outcomes'[s] = Outcomes[s]
      BY <1>fail, <1>wake, <2>1
    <2>3. /\ OnlyLastSettles(Mine(p))
          /\ cyc[p].decision # None =>
                \E s \in Mine(p) : Outcomes[s] = cyc[p].decision
      <3>1. CASE pc[p] = "loop"
        BY <1>1, <3>1 DEF Tells, Undecided, NothingSettled, OnlyLastSettles
      <3>2. CASE pc[p] = "tools"
        <4>1. Mine(p) \subseteq Nat
          BY <1>1 DEF Mine
        <4>2. /\ cyc[p].decision = None /\ cyc[p].src \in Mine(p)
              /\ \A s \in Mine(p) : s <= cyc[p].src
              /\ NothingSettled(Mine(p) \ {cyc[p].src})
          BY <1>1, <3>2 DEF Tells, Undecided
        <4>3. ASSUME NEW s \in Mine(p), NEW r \in Mine(p), s < r
              PROVE  Outcomes[s] = None
          BY <4>1, <4>2, <4>3 DEF NothingSettled
        <4> QED
          BY <4>2, <4>3 DEF OnlyLastSettles
      <3>3. CASE pc[p] \in {"decided", "saved"}
        BY <1>1, <3>3 DEF Tells
      <3> QED
        BY <1>fail, <3>1, <3>2, <3>3
    <2>4. Tells(p)'
      BY <1>fail, <2>1, <2>2, <2>3 DEF Tells, Undecided, OnlyLastSettles
    <2> QED
      BY <1>3, <2>2, <2>4, OneMoves
  <1>error. ASSUME NEW p \in Procs, Goto(p, "error"), UNCHANGED cyc,
                   pc[p] \in {"loop", "tools", "decided"}
            PROVE  TellsInv'
    <2>1. [cyc[p] EXCEPT !.decision = cyc[p].decision] = cyc[p]
      BY <1>1 DEF Cycles
    <2>2. cyc' = [cyc EXCEPT ![p].decision = cyc[p].decision]
      BY <1>1, <1>error, <2>1
    <2> QED
      BY <1>error, <1>fail, <2>2
  <1>4. ASSUME NEW p \in Procs, LoadState(p)
        PROVE  TellsInv'
    <2>1. /\ pc'[p] = "open" /\ cyc'[p] = [NoCycle EXCEPT !.prior = current_state]
          /\ \A q \in Procs \ {p} : cyc'[q] = cyc[q] /\ pc'[q] = pc[q]
      BY <1>1, <1>4 DEF LoadState, Goto
    <2>2. /\ cyc'[p].decision = None /\ cyc'[p].stop_reason = "completed"
          /\ cyc'[p].state_after = None
      BY <2>1 DEF NoCycle
    <2>3. Tells(p)'
      BY <2>1, <2>2 DEF Tells, Undecided
    <2> QED
      BY <1>3, <2>1, <2>3, OneMoves
  <1>5. ASSUME NEW p \in Procs, OpenCycle(p)
        PROVE  TellsInv'
    <2>1. /\ pc[p] = "open" /\ pc'[p] \in {"user", "observe"}
          /\ cyc'[p] = [cyc[p] EXCEPT !.wake = NewWakeSeq] /\ turns' = turns
          /\ \A q \in Procs \ {p} : cyc'[q] = cyc[q] /\ pc'[q] = pc[q]
      BY <1>1, <1>5 DEF OpenCycle, OpenWake, Goto
    <2>2. /\ cyc'[p].decision = cyc[p].decision
          /\ cyc'[p].stop_reason = cyc[p].stop_reason
          /\ cyc'[p].state_after = cyc[p].state_after
          /\ cyc'[p].wake = Len(wakes) + 1
      BY <1>1, <2>1 DEF Cycles, NewWakeSeq
    <2>3. Len(wakes) + 1 \notin DOMAIN wakes
      BY DEF TypeInv, TypeOK
    <2>4. Mine(p)' = {}
      BY <2>1, <2>2, <2>3 DEF Mine, TypeInv, TurnsHaveWakes
    <2>5. Tells(p)'
      BY <1>1, <2>1, <2>2, <2>4 DEF Tells, Undecided, NothingSettled
    <2> QED
      BY <1>3, <2>1, <2>5, OneMoves
  <1>6. ASSUME NEW p \in Procs, UserTurn(p) \/ Observe(p)
        PROVE  TellsInv'
    <2>1. /\ pc[p] \in {"user", "observe"} /\ UNCHANGED cyc
          /\ \E l \in {"observe", "loop"} : Goto(p, l)
      BY <1>6 DEF UserTurn, Observe
    <2>2. PICK l \in {"observe", "loop"} : Goto(p, l)
      BY <2>1
    <2>3. /\ cyc'[p] = cyc[p] /\ pc'[p] = l
          /\ \A q \in Procs \ {p} : cyc'[q] = cyc[q] /\ pc'[q] = pc[q]
          /\ Mine(p)' = Mine(p) /\ Mine(p) \subseteq DOMAIN turns
          /\ \A s \in DOMAIN turns : Outcomes'[s] = Outcomes[s]
      BY <1>goto, <2>1, <2>2
    <2>4. Tells(p)'
      BY <1>1, <2>1, <2>3 DEF Tells, Undecided, NothingSettled
    <2> QED
      BY <1>3, <2>3, <2>4, OneMoves
  <1>7. ASSUME NEW p \in Procs, BudgetStop(p)
        PROVE  TellsInv'
    <2> DEFINE c == [cyc[p] EXCEPT !.stop_reason = Exceeded(run[p].budget)]
    <2>1. run[p].budget \in Budgets /\ ~Allows(run[p].budget) /\ pc[p] = "loop"
      BY <1>7 DEF BudgetStop, TypeInv, TypeOK, Runs
    <2>2. /\ Exceeded(run[p].budget) \in StopReasons
          /\ Exceeded(run[p].budget) \notin {"completed", "idle"}
      BY <2>1 DEF Allows, Exceeded, StopReasons
    <2>3. c \in Cycles /\ cyc' = [cyc EXCEPT ![p] = c] /\ c.wake = cyc[p].wake
          /\ c.decision = cyc[p].decision /\ c.state_after = cyc[p].state_after
          /\ c.stop_reason = Exceeded(run[p].budget)
      BY <1>1, <1>7, <2>2 DEF BudgetStop, Cycles
    <2> HIDE DEF c
    <2>4. /\ cyc'[p] = c /\ pc'[p] = "decided"
          /\ \A q \in Procs \ {p} : cyc'[q] = cyc[q] /\ pc'[q] = pc[q]
          /\ Mine(p)' = Mine(p) /\ Mine(p) \subseteq DOMAIN turns
          /\ \A s \in DOMAIN turns : Outcomes'[s] = Outcomes[s]
      BY <1>7, <1>wake, <2>3 DEF BudgetStop
    <2>5. Tells(p)'
      BY <1>1, <2>1, <2>2, <2>3, <2>4
         DEF Tells, Undecided, NothingSettled, OnlyLastSettles
    <2> QED
      BY <1>3, <2>4, <2>5, OneMoves
  <1>8. ASSUME NEW p \in Procs, ToolTurn(p)
        PROVE  TellsInv'
    <2> DEFINE t == turns[cyc[p].src]
               c == Settled(cyc[p], t.calls, t.finish)
               l == AfterTurn(t.calls, t.finish)
    <2>1. /\ pc[p] = "tools" /\ cyc[p].decision = None
          /\ cyc[p].stop_reason = "completed" /\ cyc[p].state_after = None
          /\ cyc[p].src \in Mine(p) /\ \A s \in Mine(p) : s <= cyc[p].src
          /\ NothingSettled(Mine(p) \ {cyc[p].src})
      BY <1>1, <1>8 DEF ToolTurn, Tells, Undecided
    <2>2. /\ Mine(p) \subseteq Nat
          /\ t \in Turns /\ t.finish \in FinishCalls \cup {None}
      <3>1. Mine(p) \subseteq Nat /\ cyc[p].src \in DOMAIN turns
        BY <1>1, <2>1 DEF Mine
      <3>2. t \in Turns
        BY <1>1, <3>1
      <3> QED
        BY <3>1, <3>2 DEF Turns
    <2>3. Outcomes[cyc[p].src] = Settled(NoCycle, t.calls, t.finish).decision
      BY <2>1 DEF Mine, Outcomes, Outcome
    <2>4. /\ c \in Cycles /\ c.wake = cyc[p].wake
          /\ c.decision = Outcomes[cyc[p].src]
          /\ Settles(t.calls, t.finish) <=> c.decision # None
          /\ c.stop_reason = "completed" /\ c.state_after = None
      BY <1>1, <2>1, <2>2, <2>3, SettledFields, SettledTypes
    <2>5. /\ cyc' = [cyc EXCEPT ![p] = c] /\ Goto(p, l)
          /\ l = IF Settles(t.calls, t.finish) THEN "decided" ELSE "loop"
      BY <1>8 DEF ToolTurn, AfterTurn
    <2> HIDE DEF c, l
    <2>6. /\ cyc'[p] = c /\ pc'[p] = l
          /\ \A q \in Procs \ {p} : cyc'[q] = cyc[q] /\ pc'[q] = pc[q]
          /\ Mine(p)' = Mine(p) /\ Mine(p) \subseteq DOMAIN turns
          /\ \A s \in DOMAIN turns : Outcomes'[s] = Outcomes[s]
      <3>1. /\ pc'[p] = l
            /\ \A q \in Procs \ {p} : cyc'[q] = cyc[q] /\ pc'[q] = pc[q]
        BY <1>1, <2>5 DEF Goto
      <3>2. cyc'[p] = c
        BY <1>1, <2>5
      <3> QED
        BY <1>3, <2>4, <3>1, <3>2, MineStays
    <2>7. CASE Settles(t.calls, t.finish)
      <3>1. ASSUME NEW s \in Mine(p), NEW r \in Mine(p), s < r
            PROVE  Outcomes[s] = None
        BY <2>1, <2>2, <3>1 DEF NothingSettled
      <3>2. OnlyLastSettles(Mine(p))'
        BY <2>6, <3>1 DEF OnlyLastSettles
      <3>3. /\ pc'[p] = "decided" /\ cyc'[p].decision # None
            /\ \E s \in Mine(p)' : Outcomes'[s] = cyc'[p].decision
            /\ cyc'[p].stop_reason = "completed" /\ cyc'[p].state_after = None
        BY <2>1, <2>4, <2>5, <2>6, <2>7
      <3>4. Tells(p)'
        BY <3>2, <3>3 DEF Tells, Undecided
      <3> QED
        BY <1>3, <2>6, <3>4, OneMoves
    <2>8. CASE ~Settles(t.calls, t.finish)
      <3>1. NothingSettled(Mine(p))'
        BY <2>1, <2>4, <2>6, <2>8 DEF NothingSettled
      <3>2. /\ pc'[p] = "loop" /\ cyc'[p].decision = None
            /\ cyc'[p].stop_reason = "completed" /\ cyc'[p].state_after = None
        BY <2>4, <2>5, <2>6, <2>8
      <3>3. Tells(p)'
        BY <3>1, <3>2 DEF Tells, Undecided
      <3> QED
        BY <1>3, <2>6, <3>3, OneMoves
    <2> QED
      BY <2>7, <2>8
  <1>9. ASSUME NEW p \in Procs, UpdateState(p)
        PROVE  TellsInv'
    <2>1. PICK st \in {cyc[p].prior, cyc[p].prior \cup {cyc[p].wake}} :
             cyc' = [cyc EXCEPT ![p].state_after = st]
      BY <1>9 DEF UpdateState
    <2> DEFINE c == [cyc[p] EXCEPT !.state_after = st]
    <2>2. /\ c \in Cycles /\ c.wake = cyc[p].wake
          /\ c.decision = cyc[p].decision /\ c.stop_reason = cyc[p].stop_reason
      BY <1>1, <2>1 DEF Cycles, States
    <2>3. cyc' = [cyc EXCEPT ![p] = c]
      BY <2>1
    <2> HIDE DEF c
    <2>4. /\ cyc'[p] = c /\ pc'[p] = "saved"
          /\ \A q \in Procs \ {p} : cyc'[q] = cyc[q] /\ pc'[q] = pc[q]
          /\ Mine(p)' = Mine(p) /\ Mine(p) \subseteq DOMAIN turns
          /\ \A s \in DOMAIN turns : Outcomes'[s] = Outcomes[s]
      BY <1>9, <1>wake, <2>2, <2>3 DEF UpdateState
    <2>5. /\ pc[p] = "decided" /\ cyc[p].decision \notin {None, "sleep"}
      BY <1>9 DEF UpdateState, Updates
    <2>6. /\ OnlyLastSettles(Mine(p))
          /\ cyc[p].stop_reason = "completed"
          /\ \E s \in Mine(p) : Outcomes[s] = cyc[p].decision
      BY <1>1, <2>5 DEF Tells
    <2>7. /\ OnlyLastSettles(Mine(p))'
          /\ \E s \in Mine(p)' : Outcomes'[s] = cyc'[p].decision
      BY <2>2, <2>4, <2>6 DEF OnlyLastSettles
    <2>8. Tells(p)'
      BY <2>2, <2>4, <2>5, <2>6, <2>7 DEF Tells, Undecided
    <2> QED
      BY <1>3, <2>4, <2>8, OneMoves
  <1>10. ASSUME NEW p \in Procs, RunStep(p)
         PROVE  TellsInv'
    <2>1. CASE DispatchCall(p)
      BY <1>same, <2>1 DEF DispatchCall, orchestratorVars
    <2>2. CASE DispatchRaises(p)
      BY <1>error, <2>2 DEF DispatchRaises
    <2>3. CASE GetFails(p)
      BY <1>error, <2>3 DEF GetFails
    <2>4. CASE CloseSleep(p)
      BY <1>out, <2>4 DEF CloseSleep
    <2>5. CASE CloseCycle(p)
      BY <1>out, <2>5 DEF CloseCycle
    <2>6. CASE CloseOnError(p)
      BY <1>out, <2>6 DEF CloseOnError, Exit
    <2>7. CASE Successor(p)
      BY <1>out, <2>7 DEF Successor
    <2>8. CASE Finish(p)
      BY <1>out, <2>8 DEF Finish, Exit
    <2> QED
      BY <1>4, <1>5, <1>6, <1>7, <1>8, <1>9, <1>10, <2>1, <2>2, <2>3, <2>4,
         <2>5, <2>6, <2>7, <2>8 DEF RunStep
  <1>11. ASSUME NEW p \in Procs, Misfortune(p) \/ ReplayFails(p) \/ ReplayMisfits(p)
         PROVE  TellsInv'
    <2>1. CASE ObserveFails(p)
      BY <1>out, <2>1 DEF ObserveFails, Exit
    <2>2. CASE CompleteFails(p)
      BY <1>error, <2>2 DEF CompleteFails
    <2>3. CASE DispatchFails(p)
      BY <1>error, <2>3 DEF DispatchFails
    <2>4. CASE UpdateFails(p)
      BY <1>error, <2>4 DEF UpdateFails
    <2>5. CASE DispatchMisfits(p) \/ ReplayMisfits(p) \/ ClockRunsOut(p)
      BY <1>same, <2>5 DEF DispatchMisfits, ReplayMisfits, ClockRunsOut,
         orchestratorVars
    <2>6. CASE Crash(p) \/ ReplayFails(p)
      BY <1>out, <2>6 DEF Crash, ReplayFails, Exit
    <2>7. CASE LockedOut(p)
      <3>1. CASE Exit(p)
        BY <1>out, <3>1 DEF Exit
      <3>2. CASE ~Exit(p)
        BY <1>fail, <2>7, <3>2 DEF LockedOut
      <3> QED
        BY <3>1, <3>2
    <2> QED
      BY <1>11, <2>1, <2>2, <2>3, <2>4, <2>5, <2>6, <2>7 DEF Misfortune
  <1>12. ASSUME NEW p \in Procs, Begin(p) \/ RebuildStep(p)
         PROVE  TellsInv'
    <2>1. CASE ReplayCall(p)
      BY <1>same, <2>1 DEF ReplayCall, orchestratorVars
    <2>2. CASE ReplayRaises(p) \/ Report(p)
      BY <1>out, <2>2 DEF ReplayRaises, Report, Exit
    <2>3. CASE Begin(p) \/ Clear(p) \/ OpenCursor(p)
      <3>1. UNCHANGED cyc /\ \E l \in {"load"} \cup RebuildSteps : Goto(p, l)
        BY <2>3 DEF Begin, Start, StartRebuild, StartTopUp, Clear, OpenCursor, RebuildSteps
      <3> QED
        BY <1>out, <3>1
    <2>4. CASE EndReplay(p) \/ RestoreState(p)
      <3>1. PICK l \in {"restore", "rebuilt"} : Goto(p, l)
        BY <2>4 DEF EndReplay, RestoreState
      <3>2. UNCHANGED cyc \/ \E s : cyc' = [cyc EXCEPT ![p].state_after = s]
        BY <2>4 DEF EndReplay, RestoreState
      <3>3. l \in RebuildSteps
        BY DEF RebuildSteps
      <3> QED
        BY <1>out, <3>1, <3>2, <3>3
    <2> QED
      BY <1>12, <2>1, <2>2, <2>3, <2>4 DEF RebuildStep
  <1> QED
    BY <1>same, <1>10, <1>11, <1>12 DEF Next, Rest, vars
----------------------------------------------------------------------------
RecordsInv ==
    \A w \in DOMAIN wakes : wakes[w].closed => Told(w, AssistantTurns(w))

\* A closed record tells what its transcript does: no turn is added to it any
\* more, and the process that closes it writes what it has been told.
LEMMA RecordsNext ==
    ASSUME TypeInv, Grows, OwnsOpenWake, TellsInv, RecordsInv, [Next]_vars
    PROVE  RecordsInv'
  <1>1. /\ wakes \in Seq(WakeRecords) /\ \A v \in DOMAIN wakes : wakes[v] \in WakeRecords
        /\ turns \in Seq(Turns)
    BY DEF TypeInv, TypeOK
  <1>2. /\ DOMAIN turns \subseteq DOMAIN turns'
        /\ \A s \in DOMAIN turns : turns'[s] = turns[s] /\ Outcomes'[s] = Outcomes[s]
    BY DEF Grows, Outcomes, Outcome
  <1>3. ASSUME NEW w \in DOMAIN wakes', wakes'[w].closed
        PROVE  Told(w, AssistantTurns(w))'
    <2>1. CASE w \in DOMAIN wakes /\ wakes[w].closed /\ wakes'[w] = wakes[w]
      <3>1. \A s \in DOMAIN turns' \ DOMAIN turns :
               turns'[s].role # "assistant" \/ turns'[s].wake # w
        <4>1. ASSUME NEW p \in Procs, Complete(p)
              PROVE  \A s \in DOMAIN turns' \ DOMAIN turns : turns'[s].wake # w
          <5>1. PICK calls, f : AppendTurn(cyc[p].wake, "assistant", calls, f)
            BY <4>1 DEF Complete
          <5> QED
            BY <1>1, <2>1, <5>1 DEF AppendTurn, Open, Turn
        <4> QED
          BY <4>1, SpokenSteps
      <3>2. /\ AssistantTurns(w)' = AssistantTurns(w)
            /\ AssistantTurns(w) \subseteq DOMAIN turns
        BY <1>2, <3>1 DEF AssistantTurns, SourceTurns
      <3> QED
        BY <1>2, <2>1, <3>2 DEF RecordsInv, Told, OnlyLastSettles, NothingSettled
    <2>2. CASE \E p \in Procs : cyc[p].wake = w /\ CloseSteps(p)
      <3>1. PICK p \in Procs : cyc[p].wake = w /\ CloseSteps(p)
        BY <2>2
      <3>2. /\ Tells(p) /\ AssistantTurns(w) = Mine(p)
        BY <3>1 DEF TellsInv, AssistantTurns, SourceTurns, Mine
      <3>3. AssistantTurns(w)' = AssistantTurns(w) /\ turns' = turns
        BY <3>1 DEF CloseSteps, CloseSleep, CloseCycle, CloseOnError, CloseWake,
           AssistantTurns, SourceTurns
      <3>4. ASSUME NEW d, NEW r, NEW b, NEW st, NEW su, CloseWake(w, d, r, b, st, su)
            PROVE  /\ wakes'[w].decision = d /\ wakes'[w].stop_reason = r
                   /\ wakes'[w].state_after = st
        BY <1>1, <3>4 DEF CloseWake, Open, WakeRecords
      <3>5. /\ AssistantTurns(w) \subseteq DOMAIN turns
            /\ \A s \in AssistantTurns(w) : Outcomes'[s] = Outcomes[s]
        BY <1>2 DEF AssistantTurns, SourceTurns
      <3>6. CASE CloseSleep(p)
        <4>1. /\ wakes'[w].decision = "sleep" /\ wakes'[w].stop_reason = "idle"
              /\ wakes'[w].state_after = None
          BY <3>1, <3>4, <3>6 DEF CloseSleep
        <4>2. /\ OnlyLastSettles(Mine(p))
              /\ "sleep" # None /\ \E s \in Mine(p) : Outcomes[s] = "sleep"
          BY <3>2, <3>6, NoneAssumption DEF CloseSleep, Tells, Decisions
        <4> QED
          BY <3>2, <3>3, <3>5, <4>1, <4>2 DEF Told, OnlyLastSettles
      <3>7. CASE CloseCycle(p)
        <4>1. /\ wakes'[w].decision = cyc[p].decision
              /\ wakes'[w].stop_reason = cyc[p].stop_reason
              /\ wakes'[w].state_after = cyc[p].state_after
          BY <3>1, <3>4, <3>7 DEF CloseCycle
        <4>2. /\ OnlyLastSettles(Mine(p))
              /\ cyc[p].decision # None =>
                    \E s \in Mine(p) : Outcomes[s] = cyc[p].decision
              /\ cyc[p].decision = None =>
                    NothingSettled(Mine(p)) /\ cyc[p].stop_reason \notin {"completed", "idle"}
              /\ cyc[p].decision # "sleep" /\ cyc[p].stop_reason # "idle"
              /\ cyc[p].state_after # None =>
                    /\ cyc[p].decision \notin {None, "sleep"}
                    /\ cyc[p].stop_reason = "completed"
          BY <3>2, <3>7 DEF CloseCycle, Tells, Undecided
        <4> QED
          BY <3>2, <3>3, <3>5, <4>1, <4>2 DEF Told, OnlyLastSettles, NothingSettled
      <3>8. CASE CloseOnError(p)
        <4>1. /\ wakes'[w].decision = cyc[p].decision
              /\ wakes'[w].stop_reason = "error" /\ wakes'[w].state_after = None
          BY <3>1, <3>4, <3>8 DEF CloseOnError
        <4>2. /\ OnlyLastSettles(Mine(p))
              /\ cyc[p].decision # None =>
                    \E s \in Mine(p) : Outcomes[s] = cyc[p].decision
          BY <3>2, <3>8 DEF CloseOnError, Tells
        <4> QED
          BY <3>2, <3>3, <3>5, <4>1, <4>2 DEF Told, OnlyLastSettles
      <3> QED
        BY <3>1, <3>6, <3>7, <3>8 DEF CloseSteps
    <2> QED
      BY <1>3, <2>1, <2>2, ClosedByHolder
  <1> QED
    BY <1>3 DEF RecordsInv

\* A closed record and its transcript agree, whatever the processes, the
\* errors, the crashes and the budgets: the decision is the one the last
\* assistant turn settled, and only a wake that completed one carries a state.
THEOREM RecordsTell == Spec => []RecordTellsDecision
  <1>1. Init => OwnsOpenWake /\ TellsInv /\ RecordsInv
    BY DEF Init, HistoryInit, OrchestratorInit, OwnsOpenWake, HoldsWake, TellsInv,
       Tells, Undecided, RecordsInv
  <1>2. RecordsInv => RecordTellsDecision
    BY DEF RecordsInv, RecordTellsDecision, Told, OnlyLastSettles, NothingSettled,
       Outcomes, AssistantTurns, SourceTurns
  <1>3. TypeInv /\ [Next]_vars => TypeInv' /\ Grows
    BY TypeInvNext
  <1> QED
    BY <1>1, <1>2, <1>3, TypeInvInit, OwnsNext, TellsNext, RecordsNext, PTL DEF Spec
=============================================================================
