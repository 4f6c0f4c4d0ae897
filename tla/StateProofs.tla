----------------------------- MODULE StateProofs -----------------------------
(***************************************************************************)
(* current_state and the snapshots are a function of history, for every    *)
(* value of the constants but a single process, which nobody kills and     *)
(* nothing locks out of the database.                                      *)
(***************************************************************************)
EXTENDS HarnessProofs, NaturalFacts

\* No process is killed between two commits, or refused one of them.
NoCrash == "crash" \notin Faults /\ "lock" \notin Faults

\* None is not taken for a state.
NoneIsNoState == None \notin States

\* A record has its state_after from its close.
RecordOpen ==
    \A w \in DOMAIN wakes : ~wakes[w].closed => wakes[w].state_after = None

\* Where a cycle has not saved a state.
Unsaved == {"open", "user", "observe", "loop", "tools", "decided"}

\* Where no state has been read back.
Blank == {"idle", "clear", "cleared", "replay"}

\* The wake somebody is in is the last one, it is opened with the state there
\* is, and what it saves is what its record will say; what a rebuild reads back
\* is what is current.
StateInHand ==
    \A p \in Procs :
        /\ HoldsWake(p) => cyc[p].wake = Len(wakes)
        /\ pc[p] = "open" => cyc[p].prior = current_state
        /\ pc[p] \in Unsaved => cyc[p].state_after = None
        /\ pc[p] = "saved" => cyc[p].state_after = current_state
        /\ pc[p] \in Blank => cyc[p].state_after = None
        /\ pc[p] = "restore" => cyc[p].state_after \in {None, current_state}

\* StateRegenerable, said of numbers that no step changes.
StatesTold ==
    /\ \A n \in Nat :
          n = Len(wakes) /\ (\A p \in Procs : pc[p] # "saved")
             => current_state = StateAfter(n)
    /\ \A n \in Nat : n < Len(wakes) => wakes[n + 1].snapshot = StateAfter(n)

StateInv == RecordOpen /\ StateInHand /\ StatesTold
----------------------------------------------------------------------------
Stated(n) == {w \in 1 .. n : wakes[w].state_after # None}

\* Of the records that state a current state there is a last one.
LEMMA LastStated ==
    ASSUME NEW n \in Nat, Stated(n) # {}
    PROVE  \E w \in Stated(n) : \A v \in Stated(n) : v <= w
<1>1. Stated(n) \subseteq 0 .. n
  BY DEF Stated
<1> QED BY <1>1, GreatestNumber

\* The last one decides.
LEMMA StateAfterIs ==
    ASSUME NEW n \in Nat
    PROVE  /\ Stated(n) = {} => StateAfter(n) = {}
           /\ \A w \in Stated(n) : (\A v \in Stated(n) : v <= w) =>
                 StateAfter(n) = wakes[w].state_after
<1>1. Stated(n) = {} => StateAfter(n) = {}
  BY DEF Stated, StateAfter
<1>2. ASSUME NEW w \in Stated(n), \A v \in Stated(n) : v <= w
      PROVE  StateAfter(n) = wakes[w].state_after
  <2> DEFINE L(u) == u \in Stated(n) /\ \A v \in Stated(n) : v <= u
  <2>1. \A u : L(u) <=> u = w
    <3>1. \A u, v \in Stated(n) : u <= v /\ v <= u => u = v
      BY DEF Stated
    <3> QED BY <1>2, <3>1
  <2>2. (CHOOSE u \in Stated(n) : \A v \in Stated(n) : v <= u) = w
    BY <2>1
  <2>3. StateAfter(n) = wakes[CHOOSE u \in Stated(n) :
                                 \A v \in Stated(n) : v <= u].state_after
    BY <1>2 DEF StateAfter, Stated
  <2> QED BY <2>2, <2>3
<1> QED BY <1>1, <1>2

\* What the records up to n say rests on their state_after alone.
LEMMA StateAfterStays ==
    ASSUME NEW n \in Nat,
           \A w \in 1 .. n : wakes'[w].state_after = wakes[w].state_after
    PROVE  StateAfter(n)' = StateAfter(n)
<1>1. Stated(n)' = Stated(n)
  BY DEF Stated
<1>2. CASE Stated(n) = {}
  BY <1>1, <1>2 DEF Stated, StateAfter
<1>3. CASE Stated(n) # {}
  <2>1. PICK w \in Stated(n) : \A v \in Stated(n) : v <= w
    BY <1>3, LastStated
  <2>2. StateAfter(n) = wakes[w].state_after
    BY <2>1, StateAfterIs
  <2> DEFINE last == CHOOSE u \in Stated(n) : \A v \in Stated(n) : v <= u
  <2>3. last \in Stated(n)
    BY <2>1
  <2>4. StateAfter(n) = wakes[last].state_after
    BY <1>3 DEF StateAfter, Stated
  <2>5. StateAfter(n)' = wakes'[last].state_after
    BY <1>1, <1>3 DEF StateAfter, Stated
  <2>6. last \in 1 .. n
    BY <2>3 DEF Stated
  <2> HIDE DEF last
  <2> QED BY <2>4, <2>5, <2>6
<1> QED BY <1>2, <1>3

\* The last record's state, or that of the records before it.
StateOfLast ==
    \A n \in Nat \ {0} :
        /\ wakes[n].state_after # None => StateAfter(n) = wakes[n].state_after
        /\ wakes[n].state_after = None => StateAfter(n) = StateAfter(n - 1)

LEMMA StateAfterLast == StateOfLast
<1> SUFFICES ASSUME NEW n \in Nat \ {0}
             PROVE  /\ wakes[n].state_after # None
                          => StateAfter(n) = wakes[n].state_after
                    /\ wakes[n].state_after = None
                          => StateAfter(n) = StateAfter(n - 1)
  BY DEF StateOfLast
<1>1. CASE wakes[n].state_after # None
  <2>1. n \in Stated(n) /\ \A v \in Stated(n) : v <= n
    BY <1>1 DEF Stated
  <2> QED BY <1>1, <2>1, StateAfterIs
<1>2. CASE wakes[n].state_after = None
  <2>1. Stated(n) = Stated(n - 1)
    BY <1>2 DEF Stated
  <2>2. n - 1 \in Nat
    OBVIOUS
  <2>3. CASE Stated(n - 1) = {}
    BY <1>2, <2>1, <2>2, <2>3, StateAfterIs
  <2>4. CASE Stated(n - 1) # {}
    <3>1. PICK w \in Stated(n - 1) : \A v \in Stated(n - 1) : v <= w
      BY <2>2, <2>4, LastStated
    <3>2. StateAfter(n - 1) = wakes[w].state_after
      BY <2>2, <3>1, StateAfterIs
    <3>3. StateAfter(n) = wakes[w].state_after
      BY <2>1, <3>1, StateAfterIs
    <3> QED BY <1>2, <3>2, <3>3
  <2> QED BY <2>3, <2>4
<1> QED BY <1>1, <1>2
----------------------------------------------------------------------------
\* A step that closes no wake and opens none leaves what the records say.
KeepsStates ==
    /\ Len(wakes') = Len(wakes)
    /\ \A w \in DOMAIN wakes :
          /\ wakes'[w].state_after = wakes[w].state_after
          /\ wakes'[w].snapshot = wakes[w].snapshot
          /\ wakes'[w].closed = wakes[w].closed

\* So does every step, but for the few that are about the state.
LEMMA StateSteps ==
    ASSUME TypeInv, [Next]_vars
    PROVE  \/ KeepsStates /\ current_state' = current_state
           \/ \E p \in Procs :
                 OpenCycle(p) \/ CloseSleep(p) \/ CloseCycle(p) \/ CloseOnError(p)
           \/ \E p \in Procs : UpdateState(p) \/ RestoreState(p)
<1> DEFINE Goal == \/ KeepsStates /\ current_state' = current_state
                   \/ \E p \in Procs : OpenCycle(p) \/ CloseSleep(p)
                                       \/ CloseCycle(p) \/ CloseOnError(p)
                   \/ \E p \in Procs : UpdateState(p) \/ RestoreState(p)
<1>0. wakes \in Seq(WakeRecords) /\ \A w \in DOMAIN wakes : wakes[w] \in WakeRecords
  BY DEF TypeInv, TypeOK
<1>1. ASSUME wakes' = wakes, current_state' = current_state
      PROVE  Goal
  BY <1>1 DEF KeepsStates
<1>2. ASSUME NEW w, NEW ids, RecordRetrieval(w, ids), current_state' = current_state
      PROVE  Goal
  <2> DEFINE noted == [wakes[w] EXCEPT !.retrieved = @ \cup ids]
  <2>1. w \in DOMAIN wakes /\ wakes' = [wakes EXCEPT ![w] = noted]
    BY <1>2 DEF RecordRetrieval, Open
  <2>2. /\ noted.state_after = wakes[w].state_after
        /\ noted.snapshot = wakes[w].snapshot
        /\ noted.closed = wakes[w].closed
    BY <1>0, <2>1 DEF WakeRecords
  <2> HIDE DEF noted
  <2>3. KeepsStates
    BY <1>0, <2>1, <2>2 DEF KeepsStates
  <2> QED BY <1>2, <2>3
<1>3. ASSUME NEW p \in Procs, DispatchCall(p) \/ ReplayCall(p) \/ Observe(p)
      PROVE  Goal
  <2>1. current_state' = current_state
    BY <1>3 DEF DispatchCall, ReplayCall, Observe, orchestratorVars
  <2>2. wakes' = wakes \/ \E w, ids : RecordRetrieval(w, ids)
    BY <1>3 DEF DispatchCall, ReplayCall, Observe, Dispatch, DispatchSearch,
       historyVars
  <2> QED BY <1>1, <1>2, <2>1, <2>2
<1>4. ASSUME NEW p \in Procs, RunStep(p)
      PROVE  Goal
  <2>1. CASE \/ LoadState(p) \/ UserTurn(p) \/ Complete(p) \/ BudgetStop(p)
             \/ DispatchRaises(p) \/ ToolTurn(p) \/ GetFails(p) \/ Successor(p)
             \/ Finish(p)
    BY <1>1, <2>1 DEF LoadState, UserTurn, Complete, AppendTurn, BudgetStop,
       DispatchRaises, ToolTurn, GetFails, Successor, Finish, historyVars
  <2> QED BY <1>3, <1>4, <2>1 DEF RunStep
<1>5. ASSUME NEW p \in Procs, Misfortune(p) \/ ReplayFails(p) \/ ReplayMisfits(p)
      PROVE  Goal
  BY <1>1, <1>5 DEF Misfortune, ObserveFails, CompleteFails, DispatchFails,
     DispatchMisfits, UpdateFails, ClockRunsOut, Crash, LockedOut, ReplayFails,
     ReplayMisfits, WrongDimension, historyVars, orchestratorVars
<1>6. ASSUME NEW p \in Procs, Begin(p) \/ RebuildStep(p)
      PROVE  Goal
  <2>1. CASE Begin(p) \/ Clear(p) \/ OpenCursor(p) \/ ReplayRaises(p) \/ Report(p)
    BY <1>1, <2>1 DEF Begin, Start, StartRebuild, StartTopUp, Clear, OpenCursor,
       ReplayRaises, Report, historyVars
  <2>2. CASE EndReplay(p)
    <3>1. wakes' = wakes /\ current_state' = current_state
      BY <2>2 DEF EndReplay, historyVars
    <3> QED BY <1>1, <3>1
  <2> QED BY <1>3, <1>6, <2>1, <2>2 DEF RebuildStep
<1> QED BY <1>1, <1>4, <1>5, <1>6 DEF Next, Rest, vars

\* Where a process goes: it opens a cycle, goes on with one it has not saved a
\* state in, saves one, or has none in hand; or it has read one back.
Moves(p) ==
    \/ pc'[p] = pc[p] /\ cyc'[p] = cyc[p]
    \/ pc'[p] \in {"load", "closed", "rebuilt"}
    \/ pc'[p] \in Blank /\ pc[p] \in Blank /\ cyc'[p] = cyc[p]
    \/ pc'[p] = "idle" /\ cyc'[p] = NoCycle
    \/ pc'[p] = "error" /\ HoldsWake(p) /\ cyc'[p].wake = cyc[p].wake
    \/ /\ pc[p] \in Unsaved /\ pc[p] # "open"
       /\ pc'[p] \in Unsaved /\ pc'[p] # "open"
       /\ cyc'[p].wake = cyc[p].wake /\ cyc'[p].state_after = cyc[p].state_after
    \/ LoadState(p) \/ OpenCycle(p) \/ UpdateState(p) \/ EndReplay(p)

\* Every step moves the process that takes it so, and no other.
LEMMA MoveSteps ==
    ASSUME TypeInv, [Next]_vars
    PROVE  \A q \in Procs : Moves(q)
<1>0. /\ pc \in [Procs -> {"idle"} \cup RunSteps \cup RebuildSteps]
      /\ run \in [Procs -> Runs] /\ cyc \in [Procs -> Cycles]
  BY DEF TypeInv, TypeOK
<1>1. CASE UNCHANGED <<pc, cyc>>
  BY <1>1 DEF Moves
<1>2. ASSUME NEW p \in Procs, NEW l, pc' = [pc EXCEPT ![p] = l], cyc' = cyc,
             \/ l \in {"load", "closed", "rebuilt"}
             \/ l \in Blank /\ pc[p] \in Blank
             \/ l = "error" /\ HoldsWake(p)
             \/ pc[p] \in Unsaved \ {"open"} /\ l \in Unsaved \ {"open"}
      PROVE  \A q \in Procs : Moves(q)
  BY <1>0, <1>2 DEF Moves
<1>3. ASSUME NEW p \in Procs, Exit(p)
      PROVE  \A q \in Procs : Moves(q)
  BY <1>0, <1>3 DEF Exit, Goto, Moves
<1>4. ASSUME NEW p \in Procs, NEW c, NEW l, cyc' = [cyc EXCEPT ![p] = c],
             pc' = [pc EXCEPT ![p] = l],
             c.wake = cyc[p].wake, c.state_after = cyc[p].state_after,
             pc[p] \in Unsaved \ {"open"}, l \in Unsaved \ {"open"}
      PROVE  \A q \in Procs : Moves(q)
  BY <1>0, <1>4 DEF Moves
<1>5. ASSUME NEW p \in Procs, LoadState(p) \/ OpenCycle(p) \/ UpdateState(p)
      PROVE  \A q \in Procs : Moves(q)
  <2>1. \A q \in Procs \ {p} : pc'[q] = pc[q] /\ cyc'[q] = cyc[q]
    BY <1>0, <1>5 DEF LoadState, OpenCycle, UpdateState, Goto
  <2> QED BY <1>5, <2>1 DEF Moves
<1>6. ASSUME NEW c \in Cycles, NEW calls, NEW f,
             f = None \/ f \in FinishCalls
      PROVE  /\ Settled(c, calls, f).wake = c.wake
             /\ Settled(c, calls, f).state_after = c.state_after
  BY DEF Settled, Cycles
<1>7. ASSUME NEW p \in Procs, Complete(p)
      PROVE  \A q \in Procs : Moves(q)
  <2>1. PICK calls \in MemoryCalls, f \in Finishes \cup {None} :
           IF calls = << >>
           THEN /\ cyc' = [cyc EXCEPT ![p] = Settled(@, calls, f)]
                /\ Goto(p, "decided")
           ELSE /\ cyc' = [cyc EXCEPT ![p].src = NewTurnSeq]
                /\ Goto(p, "tools")
    BY <1>7, Zenon DEF Complete
  <2>2. f = None \/ f \in FinishCalls
    BY OrchestratorAssumption
  <2>3. pc[p] = "loop" /\ cyc[p] \in Cycles
    BY <1>0, <1>7 DEF Complete
  <2>4. CASE calls = << >>
    <3>1. cyc' = [cyc EXCEPT ![p] = Settled(cyc[p], calls, f)]
      BY <2>1, <2>4
    <3>2. pc' = [pc EXCEPT ![p] = "decided"]
      BY <2>1, <2>4 DEF Goto
    <3> DEFINE c == Settled(cyc[p], calls, f)
    <3>3. c.wake = cyc[p].wake /\ c.state_after = cyc[p].state_after
      BY <1>6, <2>2, <2>3
    <3> HIDE DEF c
    <3> QED BY <1>4, <2>3, <3>1, <3>2, <3>3 DEF Unsaved, c
  <2>5. CASE calls # << >>
    <3>1. cyc' = [cyc EXCEPT ![p] = [cyc[p] EXCEPT !.src = NewTurnSeq]]
      BY <2>1, <2>5
    <3>2. [cyc[p] EXCEPT !.src = NewTurnSeq].wake = cyc[p].wake
          /\ [cyc[p] EXCEPT !.src = NewTurnSeq].state_after = cyc[p].state_after
      BY <2>3 DEF Cycles
    <3> QED BY <1>4, <2>1, <2>3, <2>5, <3>1, <3>2 DEF Goto, Unsaved
  <2> QED BY <2>4, <2>5
<1>8. ASSUME NEW p \in Procs, ToolTurn(p)
      PROVE  \A q \in Procs : Moves(q)
  <2> DEFINE t == turns[cyc[p].src]
  <2>1. /\ pc[p] = "tools" /\ cyc[p] \in Cycles
        /\ cyc' = [cyc EXCEPT ![p] = Settled(cyc[p], t.calls, t.finish)]
        /\ Goto(p, AfterTurn(t.calls, t.finish))
    BY <1>0, <1>8 DEF ToolTurn
  <2>2. t \in Turns
    BY <2>1 DEF TypeInv, TypeOK, SrcCommitted
  <2>3. t.finish = None \/ t.finish \in FinishCalls
    BY <2>2 DEF Turns
  <2> HIDE DEF t
  <2> DEFINE c == Settled(cyc[p], t.calls, t.finish)
  <2>4. c.wake = cyc[p].wake /\ c.state_after = cyc[p].state_after
    BY <1>6, <2>1, <2>3
  <2>5. PICK l \in {"decided", "loop"} : pc' = [pc EXCEPT ![p] = l]
    BY <2>1 DEF Goto, AfterTurn
  <2>6. cyc' = [cyc EXCEPT ![p] = c]
    BY <2>1
  <2> HIDE DEF c
  <2> QED BY <1>4, <2>1, <2>4, <2>5, <2>6 DEF Unsaved
<1>9. ASSUME NEW p \in Procs, BudgetStop(p)
      PROVE  \A q \in Procs : Moves(q)
  <2>1. /\ pc[p] = "loop" /\ cyc[p] \in Cycles /\ Goto(p, "decided")
        /\ cyc' = [cyc EXCEPT ![p] =
                     [cyc[p] EXCEPT !.stop_reason = Exceeded(run[p].budget)]]
    BY <1>0, <1>9 DEF BudgetStop
  <2>2. [cyc[p] EXCEPT !.stop_reason = Exceeded(run[p].budget)].wake = cyc[p].wake
        /\ [cyc[p] EXCEPT !.stop_reason = Exceeded(run[p].budget)].state_after
              = cyc[p].state_after
    BY <2>1 DEF Cycles
  <2> QED BY <1>4, <2>1, <2>2 DEF Goto, Unsaved
<1>10. ASSUME NEW p \in Procs, RunStep(p)
       PROVE  \A q \in Procs : Moves(q)
  <2>1. CASE UserTurn(p) \/ Observe(p)
    BY <1>2, <2>1 DEF UserTurn, Observe, Goto, Unsaved
  <2>2. CASE DispatchCall(p)
    BY <1>1, <2>2 DEF DispatchCall, orchestratorVars
  <2>3. CASE DispatchRaises(p) \/ GetFails(p)
    <3>1. pc' = [pc EXCEPT ![p] = "error"] /\ cyc' = cyc /\ HoldsWake(p)
      BY <2>3 DEF DispatchRaises, GetFails, Goto, HoldsWake
    <3> QED BY <1>2, <3>1
  <2>4. CASE CloseSleep(p) \/ CloseCycle(p) \/ Successor(p)
    <3>1. PICK l \in {"load", "closed"} : pc' = [pc EXCEPT ![p] = l]
      BY <2>4 DEF CloseSleep, CloseCycle, Successor, Goto
    <3>2. cyc' = cyc
      BY <2>4 DEF CloseSleep, CloseCycle, Successor
    <3> QED BY <1>2, <3>1, <3>2
  <2>5. CASE CloseOnError(p) \/ Finish(p)
    BY <1>3, <2>5 DEF CloseOnError, Finish
  <2> QED BY <1>5, <1>7, <1>8, <1>9, <1>10, <2>1, <2>2, <2>3, <2>4, <2>5 DEF RunStep
<1>11. ASSUME NEW p \in Procs, Misfortune(p) \/ ReplayFails(p) \/ ReplayMisfits(p)
       PROVE  \A q \in Procs : Moves(q)
  <2>1. CASE ObserveFails(p) \/ Crash(p) \/ ReplayFails(p)
    BY <1>3, <2>1 DEF ObserveFails, Crash, ReplayFails
  <2>2. CASE CompleteFails(p) \/ DispatchFails(p) \/ UpdateFails(p)
    <3>1. pc' = [pc EXCEPT ![p] = "error"] /\ cyc' = cyc /\ HoldsWake(p)
      BY <2>2 DEF CompleteFails, DispatchFails, UpdateFails, Goto, HoldsWake
    <3> QED BY <1>2, <3>1
  <2>3. CASE DispatchMisfits(p) \/ ClockRunsOut(p) \/ ReplayMisfits(p)
    BY <1>1, <2>3 DEF DispatchMisfits, ClockRunsOut, ReplayMisfits, orchestratorVars
  <2>4. CASE LockedOut(p)
    <3>1. CASE Exit(p)
      BY <1>3, <3>1
    <3>2. CASE ~Exit(p)
      <4>1. PICK d : /\ HoldsWake(p) /\ pc' = [pc EXCEPT ![p] = "error"]
                     /\ cyc' = [cyc EXCEPT ![p] = [cyc[p] EXCEPT !.decision = d]]
        BY <2>4, <3>2 DEF LockedOut, Goto, HoldsWake
      <4> DEFINE c == [cyc[p] EXCEPT !.decision = d]
      <4>2. c.wake = cyc[p].wake
        BY <1>0 DEF Cycles
      <4>3. cyc' = [cyc EXCEPT ![p] = c]
        BY <4>1
      <4> HIDE DEF c
      <4> QED BY <1>0, <4>1, <4>2, <4>3 DEF Moves
    <3> QED BY <3>1, <3>2
  <2> QED BY <1>11, <2>1, <2>2, <2>3, <2>4 DEF Misfortune
<1>12. ASSUME NEW p \in Procs, Begin(p) \/ RebuildStep(p)
       PROVE  \A q \in Procs : Moves(q)
  <2>1. CASE Begin(p)
    <3>1. PICK l \in {"load", "clear", "cleared"} : pc' = [pc EXCEPT ![p] = l]
      BY <2>1 DEF Begin, Start, StartRebuild, StartTopUp, Goto
    <3>2. cyc' = cyc /\ pc[p] = "idle"
      BY <2>1 DEF Begin, Start, StartRebuild, StartTopUp
    <3> QED BY <1>2, <3>1, <3>2 DEF Blank
  <2>2. CASE Clear(p) \/ OpenCursor(p)
    <3>1. PICK l \in {"cleared", "replay"} : pc' = [pc EXCEPT ![p] = l]
      BY <2>2 DEF Clear, OpenCursor, Goto
    <3>2. cyc' = cyc /\ pc[p] \in {"clear", "cleared"}
      BY <2>2 DEF Clear, OpenCursor
    <3> QED BY <1>2, <3>1, <3>2 DEF Blank
  <2>5. CASE RestoreState(p)
    <3>1. pc' = [pc EXCEPT ![p] = "rebuilt"] /\ cyc' = cyc
      BY <2>5 DEF RestoreState, Goto
    <3> QED BY <1>2, <3>1
  <2>6. CASE EndReplay(p)
    <3>1. pc' = [pc EXCEPT ![p] = "restore"]
          /\ (cyc' = cyc \/ \E c : cyc' = [cyc EXCEPT ![p] = c])
      BY <2>6 DEF EndReplay, Goto
    <3>2. \A q \in Procs \ {p} : pc'[q] = pc[q] /\ cyc'[q] = cyc[q]
      BY <1>0, <3>1
    <3> QED BY <2>6, <3>2 DEF Moves
  <2>3. CASE ReplayCall(p)
    BY <1>1, <2>3 DEF ReplayCall, orchestratorVars
  <2>4. CASE ReplayRaises(p) \/ Report(p)
    BY <1>3, <2>4 DEF ReplayRaises, Report
  <2> QED BY <1>12, <2>1, <2>2, <2>3, <2>4, <2>5, <2>6 DEF RebuildStep
<1> QED BY <1>1, <1>10, <1>11, <1>12 DEF Next, Rest, vars

\* Only its record's close ends the time between the save and the close.
LEMMA SavedStays ==
    ASSUME TypeInv, NoCrash, [Next]_vars, NEW q \in Procs, pc[q] = "saved"
    PROVE  pc'[q] = "saved" \/ CloseCycle(q)
<1>0. pc \in [Procs -> {"idle"} \cup RunSteps \cup RebuildSteps]
  BY DEF TypeInv, TypeOK
<1>1. ASSUME NEW p \in Procs, RunStep(p)
      PROVE  pc'[q] = "saved" \/ CloseCycle(q)
  BY <1>0, <1>1 DEF RunStep, LoadState, OpenCycle, UserTurn, Observe, Complete,
     BudgetStop, DispatchCall, DispatchRaises, ToolTurn, CloseSleep, GetFails,
     UpdateState, CloseCycle, CloseOnError, Successor, Finish, Exit, Goto,
     orchestratorVars
<1>2. ASSUME NEW p \in Procs, Misfortune(p) \/ ReplayFails(p) \/ ReplayMisfits(p)
      PROVE  pc'[q] = "saved"
  <2>1. pc[p] = "saved" => ~LockedOut(p)
    BY DEF LockedOut, NoCrash
  <2>2. pc[p] # "saved" => pc'[q] = pc[q]
    BY <1>0, <1>2 DEF Misfortune, ObserveFails, CompleteFails,
       DispatchFails, DispatchMisfits, UpdateFails, ClockRunsOut, Crash, LockedOut,
       ReplayFails, ReplayMisfits, Exit, Goto, orchestratorVars
  <2>3. pc[p] = "saved" => pc'[q] = "saved"
    BY <1>0, <1>2, <2>1 DEF NoCrash, Misfortune, ObserveFails, CompleteFails,
       DispatchFails, DispatchMisfits, UpdateFails, ClockRunsOut, Crash,
       ReplayFails, ReplayMisfits, Goto, orchestratorVars
  <2> QED BY <2>2, <2>3
<1>3. ASSUME NEW p \in Procs, Begin(p) \/ RebuildStep(p)
      PROVE  pc'[q] = "saved"
  <2>1. ReplayCall(p) => pc' = pc
    BY DEF ReplayCall, orchestratorVars
  <2>2. EndReplay(p) \/ RestoreState(p) =>
           /\ pc[p] \in {"replay", "restore"}
           /\ \E l \in {"restore", "rebuilt"} : Goto(p, l)
    BY DEF EndReplay, RestoreState
  <2> QED BY <1>0, <1>3, <2>1, <2>2 DEF Begin, Start, StartRebuild, StartTopUp,
             RebuildStep, Clear, OpenCursor, ReplayRaises, Report, Exit, Goto
<1> QED BY <1>1, <1>2, <1>3 DEF Next, Rest, vars

\* A step that keeps what the records say keeps the invariant.
LEMMA KeepsStateInv ==
    ASSUME TypeInv, TypeInv', NoCrash, OneProcess, StateInv, [Next]_vars,
           KeepsStates, current_state' = current_state
    PROVE  StateInv'
<1>0. /\ wakes \in Seq(WakeRecords) /\ wakes' \in Seq(WakeRecords)
      /\ cyc \in [Procs -> Cycles] /\ pc \in [Procs -> {"idle"} \cup RunSteps \cup RebuildSteps]
  BY DEF TypeInv, TypeOK
<1>1. Len(wakes') = Len(wakes) /\ DOMAIN wakes' = DOMAIN wakes /\ Len(wakes) \in Nat
  BY <1>0 DEF KeepsStates
<1>2. RecordOpen'
  BY <1>1 DEF StateInv, RecordOpen, KeepsStates
<1>3. ASSUME NEW n \in Nat, n <= Len(wakes)
      PROVE  StateAfter(n)' = StateAfter(n)
  <2>1. \A w \in 1 .. n : w \in DOMAIN wakes
    BY <1>0, <1>1, <1>3
  <2> QED BY <2>1, StateAfterStays DEF KeepsStates
<1>4. ASSUME NEW q \in Procs
      PROVE  /\ HoldsWake(q)' => cyc'[q].wake = Len(wakes)
             /\ pc'[q] = "open" => cyc'[q].prior = current_state
             /\ pc'[q] \in Unsaved => cyc'[q].state_after = None
             /\ pc'[q] = "saved" => cyc'[q].state_after = current_state
             /\ pc'[q] \in Blank => cyc'[q].state_after = None
             /\ pc'[q] = "restore" => cyc'[q].state_after \in {None, current_state}
  <2>1. /\ HoldsWake(q) => cyc[q].wake = Len(wakes)
        /\ pc[q] = "open" => cyc[q].prior = current_state
        /\ pc[q] \in Unsaved => cyc[q].state_after = None
        /\ pc[q] = "saved" => cyc[q].state_after = current_state
        /\ pc[q] \in Blank => cyc[q].state_after = None
        /\ pc[q] = "restore" => cyc[q].state_after \in {None, current_state}
    BY DEF StateInv, StateInHand
  <2>2. Moves(q)
    BY MoveSteps
  <2>3. CASE LoadState(q)
    <3>1. pc'[q] = "open" /\ cyc'[q] = [NoCycle EXCEPT !.prior = current_state]
      BY <1>0, <2>3 DEF LoadState, Goto
    <3> QED BY <3>1 DEF NoCycle, HoldsWake, Blank
  <2>4. CASE OpenCycle(q)
    <3>1. Len(wakes') = Len(wakes) + 1
      BY <1>0, <2>4 DEF OpenCycle, OpenWake
    <3> QED BY <1>1, <3>1
  <2>5. CASE UpdateState(q)
    <3>1. PICK s : /\ current_state' = s
                   /\ cyc' = [cyc EXCEPT ![q].state_after = s]
      BY <2>5 DEF UpdateState
    <3>2. pc[q] = "decided" /\ pc'[q] = "saved"
      BY <1>0, <2>5 DEF UpdateState, Goto
    <3>3. cyc'[q].state_after = s /\ cyc'[q].wake = cyc[q].wake
      BY <1>0, <3>1 DEF Cycles
    <3> QED BY <2>1, <3>1, <3>2, <3>3 DEF HoldsWake, Unsaved, Blank
  <2>6. CASE EndReplay(q)
    <3>1. pc[q] = "replay" /\ pc'[q] = "restore"
      BY <1>0, <2>6 DEF EndReplay, Goto
    <3>2. cyc'[q].state_after \in {None, current_state}
      <4>1. CASE cyc' = cyc
        BY <2>1, <3>1, <4>1 DEF Blank
      <4>2. CASE cyc' # cyc
        <5>1. PICK w \in DOMAIN wakes :
                 /\ FinalStateOf(w)
                 /\ cyc' = [cyc EXCEPT ![q].state_after = wakes[w].state_after]
          BY <2>6, <4>2 DEF EndReplay
        <5>m. PICK m \in Nat : m = Len(wakes)
          BY <1>1
        <5>2. w \in Stated(m) /\ \A v \in Stated(m) : v <= w
          BY <1>0, <5>1, <5>m DEF FinalStateOf, Stated
        <5>3. \A p \in Procs : pc[p] # "saved"
          BY <3>1 DEF OneProcess
        <5>4. current_state = wakes[w].state_after
          BY <5>m, <5>2, <5>3, StateAfterIs DEF StateInv, StatesTold
        <5> QED BY <1>0, <5>1, <5>4 DEF Cycles
      <4> QED BY <4>1, <4>2
    <3> QED BY <3>1, <3>2 DEF HoldsWake, Unsaved, Blank
  <2>7. CASE pc'[q] \in {"load", "closed", "rebuilt"}
    BY <2>7 DEF HoldsWake, Unsaved, Blank
  <2>8. CASE pc'[q] = "idle" /\ cyc'[q] = NoCycle
    BY <2>8 DEF HoldsWake, Unsaved, Blank, NoCycle
  <2>9. CASE pc'[q] \in Blank /\ pc[q] \in Blank /\ cyc'[q] = cyc[q]
    BY <2>1, <2>9 DEF HoldsWake, Unsaved, Blank
  <2>10. CASE pc'[q] = "error" /\ HoldsWake(q) /\ cyc'[q].wake = cyc[q].wake
    BY <1>1, <2>1, <2>10 DEF HoldsWake, Unsaved, Blank
  <2>11. CASE /\ pc[q] \in Unsaved /\ pc[q] # "open"
              /\ pc'[q] \in Unsaved /\ pc'[q] # "open"
              /\ cyc'[q].wake = cyc[q].wake
              /\ cyc'[q].state_after = cyc[q].state_after
    BY <1>1, <2>1, <2>11 DEF HoldsWake, Unsaved, Blank
  <2>12. CASE pc'[q] = pc[q] /\ cyc'[q] = cyc[q]
    BY <1>1, <2>1, <2>12 DEF HoldsWake
  <2> QED BY <2>2, <2>3, <2>4, <2>5, <2>6, <2>7, <2>8, <2>9, <2>10, <2>11, <2>12 DEF Moves
<1>5. StateInHand'
  BY <1>1, <1>4 DEF StateInHand
<1>6. (\A p \in Procs : pc'[p] # "saved") => \A p \in Procs : pc[p] # "saved"
  <2> SUFFICES ASSUME NEW p \in Procs, pc[p] = "saved", pc'[p] # "saved"
               PROVE  FALSE
    OBVIOUS
  <2>1. CloseCycle(p)
    BY SavedStays
  <2>2. /\ cyc[p].wake \in DOMAIN wakes /\ ~wakes[cyc[p].wake].closed
        /\ wakes'[cyc[p].wake].closed
    BY <1>0, <2>1 DEF CloseCycle, CloseWake, Open
  <2> QED BY <2>2 DEF KeepsStates
<1>7. StatesTold'
  <2>1. ASSUME NEW n \in Nat, n = Len(wakes'), \A p \in Procs : pc'[p] # "saved"
        PROVE  current_state' = StateAfter(n)'
    <3>1. n = Len(wakes) /\ n <= Len(wakes)
      BY <1>1, <2>1
    <3>2. current_state = StateAfter(n)
      BY <1>6, <2>1, <3>1 DEF StateInv, StatesTold
    <3>3. StateAfter(n)' = StateAfter(n)
      BY <1>3, <3>1
    <3> QED BY <3>2, <3>3
  <2>2. ASSUME NEW n \in Nat, n < Len(wakes')
        PROVE  wakes'[n + 1].snapshot = StateAfter(n)'
    <3>1. n < Len(wakes) /\ n <= Len(wakes) /\ n + 1 \in DOMAIN wakes
      BY <1>0, <1>1, <2>2
    <3>2. wakes[n + 1].snapshot = StateAfter(n)
      BY <3>1 DEF StateInv, StatesTold
    <3>3. StateAfter(n)' = StateAfter(n)
      BY <1>3, <3>1
    <3>4. wakes'[n + 1].snapshot = wakes[n + 1].snapshot
      BY <3>1 DEF KeepsStates
    <3> QED BY <3>2, <3>3, <3>4
  <2> QED BY <2>1, <2>2 DEF StatesTold
<1> QED BY <1>2, <1>5, <1>7 DEF StateInv

\* A wake opened with the state there is.
LEMMA OpensStateInv ==
    ASSUME TypeInv, TypeInv', OneProcess, StateInv, NEW p \in Procs, OpenCycle(p)
    PROVE  StateInv'
<1>0. /\ wakes \in Seq(WakeRecords) /\ Len(wakes) \in Nat
      /\ cyc \in [Procs -> Cycles] /\ pc \in [Procs -> {"idle"} \cup RunSteps \cup RebuildSteps]
  BY DEF TypeInv, TypeOK
<1> DEFINE rec == WakeRecord(run[p].kind, cyc[p].prior, p)
<1>1. /\ wakes' = Append(wakes, rec) /\ current_state' = current_state
      /\ pc[p] = "open" /\ pc'[p] \in {"user", "observe"}
      /\ cyc' = [cyc EXCEPT ![p].wake = Len(wakes) + 1]
  BY <1>0 DEF OpenCycle, OpenWake, NewWakeSeq, Goto
<1>2. /\ rec.state_after = None /\ rec.snapshot = current_state
      /\ \A q \in Procs : q = p
  BY <1>1 DEF WakeRecord, StateInv, StateInHand, OneProcess
<1> HIDE DEF rec
<1>3. /\ Len(wakes') = Len(wakes) + 1 /\ DOMAIN wakes' = 1 .. Len(wakes) + 1
      /\ DOMAIN wakes = 1 .. Len(wakes)
      /\ \A w \in DOMAIN wakes : wakes'[w] = wakes[w]
      /\ wakes'[Len(wakes) + 1] = rec
  BY <1>0, <1>1
<1>4. RecordOpen'
  BY <1>0, <1>2, <1>3 DEF StateInv, RecordOpen
<1>5. cyc'[p].wake = Len(wakes) + 1 /\ cyc'[p].state_after = None
  <2>1. cyc[p].state_after = None
    BY <1>1 DEF StateInv, StateInHand, Unsaved
  <2> QED BY <1>0, <1>1, <2>1 DEF Cycles
<1>6. StateInHand'
  BY <1>1, <1>2, <1>3, <1>5 DEF StateInHand, Blank
<1>7. ASSUME NEW n \in Nat, n <= Len(wakes)
      PROVE  StateAfter(n)' = StateAfter(n)
  <2>1. \A w \in 1 .. n : w \in DOMAIN wakes
    BY <1>0, <1>3, <1>7
  <2> QED BY <1>3, <2>1, StateAfterStays
<1>8. current_state = StateAfter(Len(wakes))
  BY <1>0, <1>1, <1>2 DEF StateInv, StatesTold
<1>9. StatesTold'
  <2>1. ASSUME NEW n \in Nat, n = Len(wakes'), \A q \in Procs : pc'[q] # "saved"
        PROVE  current_state' = StateAfter(n)'
    <3>m. PICK m \in Nat : m = Len(wakes)
      BY <1>0
    <3>n. n = m + 1
      BY <1>3, <2>1, <3>m
    <3>1. m = Len(wakes) /\ m <= Len(wakes) /\ n = m + 1 /\ n - 1 = m /\ n \in Nat \ {0}
      BY <3>m, <3>n
    <3>2. wakes'[n].state_after = None
      BY <1>2, <1>3, <3>1
    <3>3. StateOfLast'
      BY StateAfterLast, PTL
    <3>4. StateAfter(n)' = StateAfter(m)'
      BY <3>1, <3>2, <3>3 DEF StateOfLast
    <3>5. StateAfter(m)' = StateAfter(m)
      BY <1>0, <1>7, <3>1
    <3>6. current_state = StateAfter(m)
      BY <1>8, <3>1
    <3> QED BY <1>1, <3>4, <3>5, <3>6
  <2>2. ASSUME NEW n \in Nat, n < Len(wakes')
        PROVE  wakes'[n + 1].snapshot = StateAfter(n)'
    <3>1. CASE n = Len(wakes)
      <4>1. current_state = StateAfter(n)
        BY <1>8, <3>1
      <4>2. n <= Len(wakes) /\ wakes'[n + 1].snapshot = current_state
        BY <1>0, <1>2, <1>3, <3>1
      <4>3. StateAfter(n)' = StateAfter(n)
        BY <1>7, <4>2
      <4> QED BY <4>1, <4>2, <4>3
    <3>2. CASE n # Len(wakes)
      <4>1. n < Len(wakes) /\ n + 1 \in DOMAIN wakes
        <5>1. n < Len(wakes) + 1
          BY <1>3, <2>2
        <5>2. n < Len(wakes)
          BY <1>0, <3>2, <5>1
        <5> QED BY <1>0, <1>3, <5>2
      <4>2. wakes[n + 1].snapshot = StateAfter(n)
        BY <4>1 DEF StateInv, StatesTold
      <4>3. n <= Len(wakes)
        BY <1>0, <4>1
      <4>4. StateAfter(n)' = StateAfter(n)
        BY <1>7, <4>3
      <4> QED BY <1>3, <4>1, <4>2, <4>4
    <3> QED BY <3>1, <3>2
  <2> QED BY <2>1, <2>2 DEF StatesTold
<1> QED BY <1>4, <1>6, <1>9 DEF StateInv

\* A record closed without a state_after, by whoever has not saved one, or
\* with the state that is current.
LEMMA ClosesStateInv ==
    ASSUME TypeInv, TypeInv', OneProcess, NoneIsNoState, OwnsOpenWake, StateInv,
           NEW p \in Procs, CloseSleep(p) \/ CloseCycle(p) \/ CloseOnError(p)
    PROVE  StateInv'
<1>0. /\ wakes \in Seq(WakeRecords) /\ Len(wakes) \in Nat
      /\ cyc \in [Procs -> Cycles] /\ pc \in [Procs -> {"idle"} \cup RunSteps \cup RebuildSteps]
      /\ current_state \in States /\ \A w \in DOMAIN wakes : wakes[w] \in WakeRecords
  BY DEF TypeInv, TypeOK
<1> DEFINE w == cyc[p].wake
<1>1. HoldsWake(p)
  BY DEF CloseSleep, CloseCycle, CloseOnError, HoldsWake
<1>2. w \in DOMAIN wakes /\ w = Len(wakes) /\ ~wakes[w].closed /\ \A q \in Procs : q = p
  BY <1>1 DEF OwnsOpenWake, Open, StateInv, StateInHand, OneProcess
<1>3. PICK s : /\ \E d, r, b, su : CloseWake(w, d, r, b, s, su)
               /\ pc[p] = "saved" => s = current_state
               /\ pc[p] # "saved" => s = None
  <2>1. CASE CloseSleep(p)
    BY <2>1 DEF CloseSleep
  <2>2. CASE CloseOnError(p)
    BY <2>2 DEF CloseOnError
  <2>3. CASE CloseCycle(p)
    <3>1. /\ pc[p] = "saved" => cyc[p].state_after = current_state
          /\ pc[p] # "saved" => cyc[p].state_after = None
      BY <2>3 DEF CloseCycle, StateInv, StateInHand, Unsaved
    <3> QED BY <2>3, <3>1 DEF CloseCycle
  <2> QED BY <2>1, <2>2, <2>3
<1>4. cyc' = cyc \/ Exit(p)
  BY DEF CloseSleep, CloseCycle, CloseOnError
<1>5. current_state' = current_state /\ pc'[p] \in {"closed", "idle"}
  BY <1>0 DEF CloseSleep, CloseCycle, CloseOnError, Exit, Goto
<1>6. PICK c : /\ wakes' = [wakes EXCEPT ![w] = c]
               /\ c.closed /\ c.state_after = s /\ c.snapshot = wakes[w].snapshot
  <2>1. PICK d, r, b, su : CloseWake(w, d, r, b, s, su)
    BY <1>3
  <2> DEFINE c == [wakes[w] EXCEPT !.decision = d, !.stop_reason = r,
                     !.budget_used = b, !.state_after = s,
                     !.successor_requested = su, !.closed = TRUE]
  <2>2. c.closed /\ c.state_after = s /\ c.snapshot = wakes[w].snapshot
    BY <1>0, <1>2 DEF WakeRecords
  <2>3. wakes' = [wakes EXCEPT ![w] = c]
    BY <1>0, <1>2, <2>1 DEF CloseWake
  <2> QED BY <2>2, <2>3
<1> HIDE DEF w
<1>7. /\ Len(wakes') = Len(wakes) /\ DOMAIN wakes' = DOMAIN wakes
      /\ wakes'[w] = c
      /\ \A v \in DOMAIN wakes : v # w => wakes'[v] = wakes[v]
  BY <1>0, <1>2, <1>6
<1>8. RecordOpen'
  BY <1>6, <1>7 DEF StateInv, RecordOpen
<1>b. pc'[p] = "idle" => cyc'[p].state_after = None
  <2>1. CASE Exit(p)
    BY <1>0, <2>1 DEF Exit, NoCycle
  <2>2. CASE CloseSleep(p) \/ CloseCycle(p)
    BY <1>0, <2>2 DEF CloseSleep, CloseCycle, Goto
  <2> QED BY <2>1, <2>2 DEF CloseOnError
<1>9. StateInHand'
  BY <1>2, <1>5, <1>b DEF StateInHand, HoldsWake, Unsaved, Blank
<1>10. ASSUME NEW n \in Nat, n < Len(wakes)
       PROVE  StateAfter(n)' = StateAfter(n)
  <2>1. \A v \in 1 .. n : v \in DOMAIN wakes /\ v # w
    BY <1>0, <1>2, <1>10
  <2> QED BY <1>7, <2>1, StateAfterStays
<1>11. StatesTold'
  <2>m. PICK m \in Nat : m = Len(wakes)
    BY <1>0
  <2>w. w = m /\ m \in Nat \ {0} /\ m - 1 \in Nat /\ m - 1 < m
    BY <1>0, <1>2, <2>m
  <2>1. current_state' = StateAfter(m)'
    <3>1. StateOfLast /\ StateOfLast'
      BY StateAfterLast, PTL
    <3>2. CASE pc[p] = "saved"
      <4>1. s # None /\ s = current_state
        BY <1>0, <1>3, <3>2 DEF NoneIsNoState
      <4>2. wakes'[m].state_after = s
        BY <1>6, <1>7, <2>w
      <4>3. StateAfter(m)' = s
        BY <2>w, <3>1, <4>1, <4>2 DEF StateOfLast
      <4> QED BY <1>5, <4>1, <4>3
    <3>3. CASE pc[p] # "saved"
      <4>1. wakes'[m].state_after = None /\ wakes[m].state_after = None
        BY <1>2, <1>3, <1>6, <1>7, <2>w, <3>3 DEF StateInv, RecordOpen
      <4>2. StateAfter(m)' = StateAfter(m - 1)'
        BY <2>w, <3>1, <4>1 DEF StateOfLast
      <4>3. StateAfter(m) = StateAfter(m - 1)
        BY <2>w, <3>1, <4>1 DEF StateOfLast
      <4>4. StateAfter(m - 1)' = StateAfter(m - 1)
        BY <1>10, <2>m, <2>w
      <4>5. current_state = StateAfter(m)
        BY <1>2, <2>m, <3>3 DEF StateInv, StatesTold
      <4> QED BY <1>5, <4>2, <4>3, <4>4, <4>5
    <3> QED BY <3>2, <3>3
  <2>2. ASSUME NEW n \in Nat, n = Len(wakes')
        PROVE  current_state' = StateAfter(n)'
    <3>1. n = m
      BY <1>7, <2>m, <2>2
    <3> QED BY <2>1, <3>1
  <2>3. ASSUME NEW n \in Nat, n < Len(wakes')
        PROVE  wakes'[n + 1].snapshot = StateAfter(n)'
    <3>1. n < Len(wakes) /\ n + 1 \in DOMAIN wakes
      BY <1>0, <1>7, <2>3
    <3>2. wakes[n + 1].snapshot = StateAfter(n)
      BY <3>1 DEF StateInv, StatesTold
    <3>3. StateAfter(n)' = StateAfter(n)
      BY <1>10, <3>1
    <3>4. wakes'[n + 1].snapshot = wakes[n + 1].snapshot
      BY <1>6, <1>7, <3>1
    <3> QED BY <3>2, <3>3, <3>4
  <2> QED BY <2>2, <2>3 DEF StatesTold
<1> QED BY <1>8, <1>9, <1>11 DEF StateInv

\* A state saved, by update_state, or by a rebuild, which has read back the one
\* that is current.
LEMMA SavesStateInv ==
    ASSUME TypeInv, TypeInv', OneProcess, StateInv,
           NEW p \in Procs, UpdateState(p) \/ RestoreState(p)
    PROVE  StateInv'
<1>0. /\ wakes \in Seq(WakeRecords) /\ Len(wakes) \in Nat
      /\ cyc \in [Procs -> Cycles] /\ pc \in [Procs -> {"idle"} \cup RunSteps \cup RebuildSteps]
  BY DEF TypeInv, TypeOK
<1>1. wakes' = wakes /\ \A q \in Procs : q = p
  BY DEF UpdateState, RestoreState, historyVars, OneProcess
<1>2. RecordOpen'
  BY <1>1 DEF StateInv, RecordOpen
<1>3. ASSUME NEW n \in Nat
      PROVE  StateAfter(n)' = StateAfter(n)
  BY <1>1, StateAfterStays
<1>4. \A n \in Nat : n < Len(wakes') => wakes'[n + 1].snapshot = StateAfter(n)'
  BY <1>1, <1>3 DEF StateInv, StatesTold
<1>5. CASE UpdateState(p)
  <2>1. PICK s : /\ current_state' = s
                 /\ cyc' = [cyc EXCEPT ![p].state_after = s]
    BY <1>5 DEF UpdateState
  <2>2. pc[p] = "decided" /\ pc'[p] = "saved"
    BY <1>0, <1>5 DEF UpdateState, Goto
  <2>3. cyc'[p].state_after = s /\ cyc'[p].wake = cyc[p].wake
    BY <1>0, <2>1 DEF Cycles
  <2>4. cyc[p].wake = Len(wakes)
    BY <2>2 DEF StateInv, StateInHand, HoldsWake
  <2>5. StateInHand'
    BY <1>1, <2>1, <2>2, <2>3, <2>4 DEF StateInHand, Unsaved, Blank
  <2>6. StatesTold'
    BY <1>4, <2>2 DEF StatesTold
  <2> QED BY <1>2, <2>5, <2>6 DEF StateInv
<1>6. CASE RestoreState(p)
  <2>1. pc[p] = "restore" /\ pc'[p] = "rebuilt"
    BY <1>0, <1>6 DEF RestoreState, Goto
  <2>2. StateInHand'
    BY <1>1, <2>1 DEF StateInHand, HoldsWake, Unsaved, Blank
  <2>m. PICK m \in Nat : m = Len(wakes)
    BY <1>0
  <2>3. current_state = StateAfter(m)
    BY <1>1, <2>1, <2>m DEF StateInv, StatesTold
  <2>4. current_state' = StateAfter(m)
    <3>1. cyc[p].state_after \in {None, current_state}
      BY <2>1 DEF StateInv, StateInHand
    <3> QED BY <1>6, <2>3, <3>1 DEF RestoreState
  <2>5. ASSUME NEW n \in Nat, n = Len(wakes')
        PROVE  current_state' = StateAfter(n)'
    <3>1. n = m
      BY <1>1, <2>m, <2>5
    <3>2. StateAfter(n)' = StateAfter(n)
      BY <1>3
    <3> QED BY <2>4, <3>1, <3>2
  <2>6. StatesTold'
    BY <1>4, <2>5 DEF StatesTold
  <2> QED BY <1>2, <2>2, <2>6 DEF StateInv
<1> QED BY <1>5, <1>6
----------------------------------------------------------------------------
LEMMA StateInvInit ==
    ASSUME Init
    PROVE  StateInv
<1>1. /\ wakes = << >> /\ current_state = {} /\ \A p \in Procs : pc[p] = "idle"
  BY DEF Init, HistoryInit, OrchestratorInit
<1>2. StateAfter(0) = {}
  <2>1. Stated(0) = {}
    BY DEF Stated
  <2> QED BY <2>1, StateAfterIs
<1>3. RecordOpen /\ StateInHand
  BY <1>1 DEF RecordOpen, StateInHand, HoldsWake, Unsaved, Blank, NoCycle,
     Init, OrchestratorInit
<1>4. StatesTold
  BY <1>1, <1>2 DEF StatesTold
<1> QED BY <1>3, <1>4 DEF StateInv

LEMMA StateInvNext ==
    ASSUME TypeInv, TypeInv', OneProcess, NoCrash, NoneIsNoState, OwnsOpenWake, StateInv,
           [Next]_vars
    PROVE  StateInv'
BY StateSteps, KeepsStateInv, OpensStateInv, ClosesStateInv, SavesStateInv

\* The invariant says what is wanted.
LEMMA StatesRegenerate ==
    ASSUME TypeInv, StateInv
    PROVE  StateRegenerable
<1>0. wakes \in Seq(WakeRecords) /\ Len(wakes) \in Nat
  BY DEF TypeInv, TypeOK
<1>1. (\A p \in Procs : pc[p] # "saved") => current_state = StateAfter(Len(wakes))
  BY <1>0 DEF StateInv, StatesTold
<1>2. ASSUME NEW w \in DOMAIN wakes
      PROVE  wakes[w].snapshot = StateAfter(w - 1)
  <2>1. PICK n \in Nat : n < Len(wakes) /\ w = n + 1 /\ w - 1 = n
    <3>1. w - 1 \in Nat /\ w - 1 < Len(wakes) /\ w = (w - 1) + 1
      BY <1>0
    <3> QED BY <3>1
  <2> QED BY <2>1 DEF StateInv, StatesTold
<1> QED BY <1>1, <1>2 DEF StateRegenerable

\* A single process that is never killed nor locked out: what current_state holds when
\* nothing is between the save and the close is what the last record with a
\* state_after says (save, then close_wake, in Orchestrator.wake; final_state
\* in rebuild), and each wake's snapshot is what the records before it say,
\* whatever errors, budget stops, unreadable turns and rebuilds there were.
THEOREM StateIsRegenerable ==
    ASSUME OneProcess, NoCrash, NoneIsNoState
    PROVE  Spec => []StateRegenerable
<1>1. Init => TypeInv /\ OwnsOpenWake /\ StateInv
  BY TypeInvInit, StateInvInit DEF Init, OrchestratorInit, OwnsOpenWake, HoldsWake
<1>2. ASSUME TypeInv, OwnsOpenWake, StateInv, [Next]_vars
      PROVE  TypeInv' /\ OwnsOpenWake' /\ StateInv'
  BY <1>2, TypeInvNext, OwnsNext, StateInvNext
<1>3. TypeInv /\ StateInv => StateRegenerable
  BY StatesRegenerate
<1> QED BY <1>1, <1>2, <1>3, PTL DEF Spec
=============================================================================
