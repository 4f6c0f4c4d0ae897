---------------------------- MODULE Orchestrator ----------------------------
(***************************************************************************)
(* runtime/orchestrator.py and state/: one process runs a trigger, a wake  *)
(* and its granted successors.  A step ends at the next commit to the      *)
(* database, or where an external call raises: between two steps another   *)
(* process may run, or this one may die.                                   *)
(*                                                                         *)
(* current_state is the set of the wakes whose changes it holds:           *)
(* update_state adds this wake's to the prior state it is given, or        *)
(* returns the prior state when the model's answer does not parse.         *)
(***************************************************************************)
EXTENDS Memory, Budget

CONSTANTS
    MaxSuccessors,      \* granted successor cycles of a run
    MaxCallsPerTurn,    \* bound: memory calls in one assistant turn
    Tools,              \* the memory tools the model uses
    Finishes,           \* the finish calls it makes
    Usages,             \* tokens a completion is charged
    Faults              \* what goes wrong: "crash", "llm", "embed", "dim",
                        \* "clock", "lock"

ASSUME OrchestratorAssumption ==
    /\ MaxSuccessors \in Nat /\ MaxCallsPerTurn \in Nat
    /\ Tools \subseteq ToolNames
    /\ Finishes \subseteq FinishCalls
    /\ Usages \subseteq Nat
    /\ Faults \subseteq {"crash", "llm", "embed", "dim", "clock", "lock"}

VARIABLES
    pc,             \* where each process is
    run,            \* locals of Orchestrator.run
    cyc,            \* locals of Orchestrator.wake
    current_state   \* the one row of the current_state table

procVars == <<pc, run, cyc>>
orchestratorVars == <<pc, run, cyc, current_state>>

NoRun == [kind |-> "interaction", cue |-> FALSE, records |-> 0,
          budget |-> FreshBudget, model_calls |-> 0]

NoCycle == [wake |-> 0, prior |-> {}, src |-> 0, decision |-> None,
            successor |-> FALSE, stop_reason |-> "completed",
            state_after |-> None]

OrchestratorInit ==
    /\ pc = [p \in Procs |-> "idle"]
    /\ run = [p \in Procs |-> NoRun]
    /\ cyc = [p \in Procs |-> NoCycle]
    /\ current_state = {}

\* The steps of a run; a maintenance command has its own.
RunSteps == {"load", "open", "user", "observe", "loop", "tools", "decided",
             "saved", "closed", "error"}

Goto(p, l) == pc' = [pc EXCEPT ![p] = l]

\* SQLite: while the replay() of another process reads, commits wait.
Unlocked(p) == \A q \in Procs \ {p} : pc[q] # "replay"

\* The process ends: by return, by an exception nobody catches, or killed.
Exit(p) ==
    /\ Goto(p, "idle")
    /\ run' = [run EXCEPT ![p] = NoRun]
    /\ cyc' = [cyc EXCEPT ![p] = NoCycle]
----------------------------------------------------------------------------
\* run: a fresh budget, then the wake.
Start(p, t) ==
    /\ pc[p] = "idle"
    /\ Goto(p, "load")
    /\ run' = [run EXCEPT ![p] = [NoRun EXCEPT !.kind = t.kind, !.cue = t.cue]]
    /\ UNCHANGED <<cyc, current_state, memoryVars, historyVars>>

\* wake: the state is read first, in a transaction of its own ...
LoadState(p) ==
    /\ pc[p] = "load"
    /\ Goto(p, "open")
    /\ cyc' = [cyc EXCEPT ![p] = [NoCycle EXCEPT !.prior = current_state]]
    /\ UNCHANGED <<run, current_state, memoryVars, historyVars>>

\* ... then the wake is committed with it.
OpenCycle(p) ==
    /\ pc[p] = "open" /\ Unlocked(p)
    /\ OpenWake(run[p].kind, cyc[p].prior, p)
    /\ cyc' = [cyc EXCEPT ![p].wake = NewWakeSeq]
    /\ run' = [run EXCEPT ![p].records = @ + 1]
    /\ Goto(p, IF run[p].kind = "interaction" /\ run[p].cue
               THEN "user" ELSE "observe")
    /\ UNCHANGED <<current_state, memoryVars>>

UserTurn(p) ==
    /\ pc[p] = "user" /\ Unlocked(p)
    /\ AppendTurn(cyc[p].wake, "user", << >>, None)
    /\ Goto(p, "observe")
    /\ UNCHANGED <<run, cyc, current_state, memoryVars>>

\* _observe.  A reflection reads the recent rows and embeds nothing; an
\* interaction, and a due open question, search for their payload.
SearchesPayload(p) == run[p].kind # "reflection" /\ run[p].cue

Observe(p) ==
    /\ pc[p] = "observe" /\ Unlocked(p)
    /\ \E R \in SUBSET Live :
          /\ SearchesPayload(p) => Cardinality(R) <= K
          /\ run[p].kind = "reflection" => R \in Recents
          /\ run[p].kind # "reflection" /\ ~run[p].cue => R = {}
          /\ RecordRetrieval(cyc[p].wake, R)
    /\ Goto(p, "loop")
    /\ UNCHANGED <<run, cyc, current_state, memoryVars>>

\* The search runs before the try: its exception leaves wake and run.
ObserveFails(p) ==
    /\ pc[p] = "observe" /\ SearchesPayload(p) /\ "embed" \in Faults
    /\ Exit(p)
    /\ UNCHANGED <<current_state, memoryVars, historyVars>>
----------------------------------------------------------------------------
\* The loop.

\* Every id a recorded call may have made a row for.  What the model was shown
\* or told, and what it keeps in its state, is among them, in the store or not.
DecidedIds ==
    {NewId(c) : c \in {c \in UNION {CallsOf(s) : s \in DOMAIN turns} :
                         CallOf(c).tool \in {"write", "supersede"} /\ Text(c) # None}}

\* The memory calls a completion may carry: any sequence over the tools, a
\* supersede naming any id that was ever decided, or none.
Menu ==
    {c \in {Write(r) : r \in RawTexts} \cup {Search(r) : r \in RawTexts}
           \cup {Misshapen(r) : r \in RawTexts} \cup {Falsy(r) : r \in RawTexts}
           \cup {Supersede(i, r) : i \in DecidedIds \cup {None}, r \in RawTexts} :
        c.tool \in Tools}

MemoryCalls == UNION {[1 .. n -> Menu] : n \in 0 .. MaxCallsPerTurn}

\* _parse_decision
ParseDecision(f) == IF f.decision \in Decisions THEN f.decision ELSE "sleep"

\* What a turn settles: a finish call its decision, silence (plain text and
\* no call at all) a respond, memory calls alone nothing yet.
Settles(calls, f) == f # None \/ calls = << >>

Settled(c, calls, f) ==
    IF f # None
    THEN [c EXCEPT !.decision = ParseDecision(f), !.successor = f.successor]
    ELSE IF calls = << >> THEN [c EXCEPT !.decision = "respond"] ELSE c

\* Mutant: a round of calls always goes back to the model.
AfterCalls(calls, f) == IF calls = << >> THEN "decided" ELSE "loop"

AfterTurn(calls, f) == IF Settles(calls, f) THEN "decided" ELSE "loop"

\* One completion: the turn is committed before any of its calls runs.
Complete(p) ==
    /\ pc[p] = "loop" /\ Allows(run[p].budget) /\ Unlocked(p)
    /\ \E calls \in MemoryCalls, f \in Finishes \cup {None}, n \in Usages :
          LET s == NewTurnSeq
              spent == ChargeToolCalls(Charge(run[p].budget, n), Len(calls))
          IN  /\ AppendTurn(cyc[p].wake, "assistant", calls, f)
              /\ run' = [run EXCEPT ![p].budget = spent,
                                    ![p].model_calls = @ + 1]
              /\ todo' = [todo EXCEPT ![p] =
                            {[src |-> s, idx |-> k] : k \in DOMAIN calls}]
              /\ IF calls = << >>
                 THEN /\ cyc' = [cyc EXCEPT ![p] = Settled(@, calls, f)]
                      /\ Goto(p, "decided")
                 ELSE /\ cyc' = [cyc EXCEPT ![p].src = s]
                      /\ Goto(p, "tools")
    /\ UNCHANGED <<current_state, memories, op>>

BudgetStop(p) ==
    /\ pc[p] = "loop" /\ ~Allows(run[p].budget)
    /\ cyc' = [cyc EXCEPT ![p].stop_reason = Exceeded(run[p].budget)]
    /\ Goto(p, "decided")
    /\ UNCHANGED <<run, current_state, memoryVars, historyVars>>

CompleteFails(p) ==
    /\ pc[p] = "loop" /\ Allows(run[p].budget) /\ "llm" \in Faults
    /\ Goto(p, "error")
    /\ UNCHANGED <<run, cyc, current_state, memoryVars, historyVars>>

DispatchCall(p) ==
    /\ pc[p] = "tools"
    /\ Dispatch(p)
    /\ <<memories, wakes>>' = <<memories, wakes>> \/ Unlocked(p)
    /\ UNCHANGED orchestratorVars

\* Only KeyError, ValueError and TypeError become a reply of the tool.
DispatchFails(p) ==
    /\ pc[p] = "tools" /\ Embeds(p) /\ "embed" \in Faults
    /\ Abandon(p)
    /\ Goto(p, "error")
    /\ UNCHANGED <<run, cyc, current_state, memories, historyVars>>

\* The error clause, for a call whose arguments are no object.
DispatchRaises(p) ==
    /\ pc[p] = "tools" /\ Raises(p)
    /\ Abandon(p)
    /\ Goto(p, "error")
    /\ UNCHANGED <<run, cyc, current_state, memories, historyVars>>

DispatchMisfits(p) ==
    /\ pc[p] = "tools" /\ "dim" \in Faults
    /\ WrongDimension(p)
    /\ UNCHANGED orchestratorVars

\* Every result of the round in one tool turn.
ToolTurn(p) ==
    LET t == turns[cyc[p].src]
    IN  /\ pc[p] = "tools" /\ todo[p] = {} /\ Unlocked(p)
        /\ AppendTurn(cyc[p].wake, "tool", << >>, None)
        /\ cyc' = [cyc EXCEPT ![p] = Settled(@, t.calls, t.finish)]
        /\ Goto(p, AfterTurn(t.calls, t.finish))
        /\ UNCHANGED <<run, current_state, memoryVars>>
----------------------------------------------------------------------------
\* After the loop.

\* Sleep: closed at once, no state update.
CloseSleep(p) ==
    /\ pc[p] = "decided" /\ cyc[p].decision = "sleep" /\ Unlocked(p)
    /\ CloseWake(cyc[p].wake, "sleep", "idle", run[p].budget, None,
                 cyc[p].successor)
    /\ Goto(p, "closed")
    /\ UNCHANGED <<run, cyc, current_state, memoryVars>>

Updates(p) == cyc[p].decision \notin {None, "sleep"} /\ Allows(run[p].budget)

\* The wake is read back for the update, which an unreadable turn prevents.
GetFails(p) ==
    /\ pc[p] = "decided" /\ Updates(p) /\ ~Readable(cyc[p].wake)
    /\ Goto(p, "error")
    /\ UNCHANGED <<run, cyc, current_state, memoryVars, historyVars>>

\* update_state and state.save: a model call, not charged to the budget, and
\* one commit.
UpdateState(p) ==
    /\ pc[p] = "decided" /\ Updates(p) /\ Readable(cyc[p].wake) /\ Unlocked(p)
    /\ \E s \in {cyc[p].prior, cyc[p].prior \cup {cyc[p].wake}} :
          /\ current_state' = s
          /\ cyc' = [cyc EXCEPT ![p].state_after = s]
    /\ run' = [run EXCEPT ![p].model_calls = @ + 1]
    /\ Goto(p, "saved")
    /\ UNCHANGED <<memoryVars, historyVars>>

UpdateFails(p) ==
    /\ pc[p] = "decided" /\ Updates(p) /\ Readable(cyc[p].wake)
    /\ "llm" \in Faults
    /\ Goto(p, "error")
    /\ UNCHANGED <<run, cyc, current_state, memoryVars, historyVars>>

CloseCycle(p) ==
    /\ \/ pc[p] = "saved"
       \/ pc[p] = "decided" /\ cyc[p].decision # "sleep" /\ ~Updates(p)
    /\ Unlocked(p)
    /\ CloseWake(cyc[p].wake, cyc[p].decision, cyc[p].stop_reason,
                 run[p].budget, cyc[p].state_after, cyc[p].successor)
    /\ Goto(p, "closed")
    /\ UNCHANGED <<run, cyc, current_state, memoryVars>>

\* Mutant: the error surfaces and the wake stays open.
LeaveOnError(p) ==
    /\ pc[p] = "error"
    /\ Exit(p)
    /\ UNCHANGED <<current_state, memoryVars, historyVars>>

\* The except clause: close the wake, then let the error surface.
CloseOnError(p) ==
    /\ pc[p] = "error" /\ Unlocked(p)
    /\ CloseWake(cyc[p].wake, cyc[p].decision, "error", run[p].budget, None,
                 FALSE)
    /\ Exit(p)
    /\ UNCHANGED <<current_state, memoryVars>>

\* run's loop: close_wake could return the record (an unreadable one raises
\* once it is closed), the last record asked, the kind may, and both the
\* number of records and the shared budget allow another cycle.
GrantsSuccessor(p) ==
    /\ Readable(cyc[p].wake)
    /\ wakes[cyc[p].wake].successor_requested
    /\ run[p].kind # "interaction"
    /\ run[p].records <= MaxSuccessors
    /\ Allows(run[p].budget)

\* Mutant: a successor gets an allowance of its own.
RefreshedSuccessor(p) ==
    /\ pc[p] = "closed" /\ GrantsSuccessor(p)
    /\ run' = [run EXCEPT ![p].cue = FALSE, ![p].budget = FreshBudget]
    /\ Goto(p, "load")
    /\ UNCHANGED <<cyc, current_state, memoryVars, historyVars>>

\* Its payload is fixed text: the successor observes nothing with it.
Successor(p) ==
    /\ pc[p] = "closed" /\ GrantsSuccessor(p)
    /\ run' = [run EXCEPT ![p].cue = FALSE]
    /\ Goto(p, "load")
    /\ UNCHANGED <<cyc, current_state, memoryVars, historyVars>>

Finish(p) ==
    /\ pc[p] = "closed" /\ ~GrantsSuccessor(p)
    /\ Exit(p)
    /\ UNCHANGED <<current_state, memoryVars, historyVars>>
----------------------------------------------------------------------------
\* The wall clock reaches max_wall_ms, at any moment of the run.
ClockRunsOut(p) ==
    /\ pc[p] \in RunSteps /\ "clock" \in Faults /\ ~run[p].budget.late
    /\ run' = [run EXCEPT ![p].budget.late = TRUE]
    /\ UNCHANGED <<pc, cyc, current_state, memoryVars, historyVars>>

\* The process is killed; what it committed stays.
Crash(p) ==
    /\ pc[p] # "idle" /\ "crash" \in Faults
    /\ Exit(p)
    /\ Abandon(p)
    /\ UNCHANGED <<current_state, memories, historyVars>>

\* "database is locked", or another refusal of SQLite: at any commit or read when
\* somebody holds the file for more than five seconds, at once when two replays
\* would write.  Inside the try the error clause closes the wake, and commits with
\* it what the refused transaction had written: as if the refusal came after that
\* commit, whose decision may not have been noted yet.  The clause may be refused
\* as well, and elsewhere nobody catches the error.
LockedOut(p) ==
    /\ pc[p] # "idle"
    /\ "lock" \in Faults \/ (pc[p] = "replay" /\ ~Unlocked(p))
    /\ \/ Exit(p)
       \/ /\ pc[p] \in {"loop", "tools", "decided", "saved"}
          /\ Goto(p, "error")
          /\ \E d \in {cyc[p].decision, None} : cyc' = [cyc EXCEPT ![p].decision = d]
          /\ UNCHANGED run
    /\ Abandon(p)
    /\ UNCHANGED <<current_state, memories, historyVars>>

\* What the program does by itself once started ...
RunStep(p) ==
    \/ LoadState(p) \/ OpenCycle(p) \/ UserTurn(p) \/ Observe(p)
    \/ Complete(p) \/ BudgetStop(p) \/ DispatchCall(p) \/ DispatchRaises(p)
    \/ ToolTurn(p) \/ CloseSleep(p) \/ GetFails(p) \/ UpdateState(p) \/ CloseCycle(p) \/ CloseOnError(p)
    \/ Successor(p) \/ Finish(p)

\* ... and what befalls it.
Misfortune(p) ==
    \/ ObserveFails(p) \/ CompleteFails(p) \/ DispatchFails(p)
    \/ DispatchMisfits(p) \/ UpdateFails(p) \/ ClockRunsOut(p) \/ Crash(p)
    \/ LockedOut(p)
=============================================================================
