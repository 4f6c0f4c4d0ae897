---------------------------- MODULE DerivedProofs ----------------------------
(***************************************************************************)
(* What Derived.tla and Evals.tla promise of the store, for every value of *)
(* the constants its theorems do not name.                                 *)
(***************************************************************************)
EXTENDS Evals, LedgerProofs, StateProofs

\* rebuild() alone, over a store that is not empty, is left out: it may write
\* a row next to a later one like it.
NoTopUp == "topup" \notin Maintenance

\* The process whose wake a turn belongs to.
Opener(s) == wakes[turns[s].wake].opener

\* A process is in the last wake it opened, and its turns are in wake order.
WakeInHand ==
    \A p \in Procs : HoldsWake(p) =>
        /\ wakes[cyc[p].wake].opener = p
        /\ \A w \in DOMAIN wakes : wakes[w].opener = p => w <= cyc[p].wake

TurnsInOrder ==
    \A s, r \in DOMAIN turns :
        s < r /\ Opener(s) = Opener(r) => turns[s].wake <= turns[r].wake

\* The turn a process runs the calls of is the last of its own.
RoundIsLast ==
    \A p \in Procs : pc[p] = "tools" =>
        \A s \in DOMAIN turns : cyc[p].src < s => Opener(s) # p

InOrder == WakeInHand /\ TurnsInOrder /\ RoundIsLast

\* The call in hand comes before the others there are to do.
FirstInHand ==
    \A p \in Procs : op[p] # None => \A d \in todo[p] : ~Precedes(d, op[p].call)

\* Replayed, no row there is comes from after the calls still to replay.
ReplayInOrder ==
    \A p \in Procs :
        /\ pc[p] = "cleared" => Ids = {}
        /\ pc[p] = "replay" =>
              \A i \in Ids, c \in todo[p] :
                  /\ turns[i.src].wake <= turns[c.src].wake
                  /\ turns[i.src].wake = turns[c.src].wake => i.src <= c.src

\* What a write checked still holds as far as its own process goes, and a
\* supersede replaces a row.
Apart(i, c) == Opener(i.src) # Opener(c.src)

WriteIsChecked ==
    \A p \in Procs : op[p] # None /\ op[p].step = "upsert" =>
        LET c == op[p].call
        IN  IF CallOf(c).tool = "write"
            THEN \A i \in Live : <<Text(c), i.text>> \in Near => Apart(i, c)
            ELSE Target(c) # None

TwinInv ==
    InOrder /\ FirstInHand /\ ReplayInOrder /\ WriteIsChecked /\ TwinsNeedTwoProcesses
----------------------------------------------------------------------------
\* The opener of a turn's wake stays.
LEMMA OpenerStays ==
    ASSUME TypeInv, Grows
    PROVE  /\ \A s \in DOMAIN turns : /\ turns'[s] = turns[s]
                                     /\ turns[s].wake \in DOMAIN wakes
                                     /\ wakes'[turns[s].wake].opener = Opener(s)
BY DEF TypeInv, TurnsHaveWakes, Grows, Opener

\* A process opens the last wake and stays in it.
LEMMA WakeInHandNext ==
    ASSUME TypeInv, TypeInv', Grows, OwnsOpenWake, WakeInHand, [Next]_vars
    PROVE  WakeInHand'
<1>0. /\ wakes \in Seq(WakeRecords) /\ Len(wakes) \in Nat /\ cyc \in [Procs -> Cycles]
      /\ pc \in [Procs -> {"idle"} \cup RunSteps \cup RebuildSteps]
      /\ DOMAIN wakes = 1 .. Len(wakes)
  BY DEF TypeInv, TypeOK
<1>opens. ASSUME NEW p \in Procs, OpenCycle(p)
          PROVE  /\ DOMAIN wakes' = 1 .. Len(wakes) + 1
                 /\ wakes'[Len(wakes) + 1].opener = p
  <2>1. PICK r : wakes' = Append(wakes, r) /\ r.opener = p
    <3>1. WakeRecord(run[p].kind, cyc[p].prior, p).opener = p
      BY DEF WakeRecord
    <3> QED BY <1>opens, <3>1 DEF OpenCycle, OpenWake
  <2> QED BY <1>0, <2>1
<1> SUFFICES ASSUME NEW q \in Procs, HoldsWake(q)'
             PROVE  /\ wakes'[cyc'[q].wake].opener = q
                    /\ \A w \in DOMAIN wakes' : wakes'[w].opener = q => w <= cyc'[q].wake
  BY DEF WakeInHand
<1>1. CASE OpenCycle(q)
  <2>1. cyc' = [cyc EXCEPT ![q] = [cyc[q] EXCEPT !.wake = Len(wakes) + 1]]
    BY <1>1 DEF OpenCycle, NewWakeSeq
  <2>2. cyc'[q].wake = Len(wakes) + 1
    BY <1>0, <2>1 DEF Cycles
  <2> QED BY <1>0, <1>1, <1>opens, <2>2
<1>2. CASE ~OpenCycle(q)
  <2>1. \A w \in DOMAIN wakes' : w \in DOMAIN wakes \/ wakes'[w].opener # q
    <3>1. CASE Len(wakes') = Len(wakes)
      <4>1. DOMAIN wakes' = DOMAIN wakes
        BY <1>0, <3>1 DEF TypeInv, TypeOK
      <4> QED BY <4>1
    <3>2. ASSUME NEW p \in Procs, OpenCycle(p)
          PROVE  \A w \in DOMAIN wakes' : w \in DOMAIN wakes \/ wakes'[w].opener # q
      <4>1. p # q
        BY <1>2, <3>2
      <4> QED BY <1>0, <1>opens, <3>2, <4>1
    <3>3. ASSUME NEW p \in Procs, CloseSleep(p) \/ CloseCycle(p) \/ CloseOnError(p)
          PROVE  Len(wakes') = Len(wakes)
      <4>1. DOMAIN wakes' = DOMAIN wakes
        BY <3>3 DEF CloseSleep, CloseCycle, CloseOnError, CloseWake
      <4>2. wakes' \in Seq(WakeRecords)
        BY DEF TypeInv, TypeOK
      <4> QED BY <1>0, <4>1, <4>2
    <3>4. ASSUME NEW p \in Procs, UpdateState(p) \/ RestoreState(p)
          PROVE  Len(wakes') = Len(wakes)
      <4>1. wakes' = wakes
        BY <3>4 DEF UpdateState, RestoreState, historyVars
      <4> QED BY <4>1
    <3>5. KeepsStates => Len(wakes') = Len(wakes)
      BY DEF KeepsStates
    <3> QED BY <3>1, <3>2, <3>3, <3>4, <3>5, StateSteps
  <2>2. HoldsWake(q) /\ cyc'[q].wake = cyc[q].wake
    <3>1. Moves(q)
      BY MoveSteps
    <3>2. CASE LoadState(q)
      <4>1. pc'[q] = "open"
        BY <1>0, <3>2 DEF LoadState, Goto
      <4> QED BY <4>1 DEF HoldsWake
    <3>3. CASE UpdateState(q)
      <4>1. PICK s : cyc' = [cyc EXCEPT ![q] = [cyc[q] EXCEPT !.state_after = s]]
        BY <3>3 DEF UpdateState
      <4>2. cyc'[q].wake = cyc[q].wake
        BY <1>0, <4>1 DEF Cycles
      <4> QED BY <3>3, <4>2 DEF UpdateState, HoldsWake
    <3>4. CASE EndReplay(q)
      <4>1. pc'[q] = "restore"
        BY <1>0, <3>4 DEF EndReplay, Goto
      <4> QED BY <4>1 DEF HoldsWake
    <3> QED BY <1>2, <3>1, <3>2, <3>3, <3>4 DEF Moves, HoldsWake, Unsaved, Blank
  <2>3. cyc[q].wake \in DOMAIN wakes
    BY <2>2 DEF OwnsOpenWake, Open
  <2> QED BY <2>1, <2>2, <2>3 DEF WakeInHand, Grows
<1> QED BY <1>1, <1>2

\* A turn is committed by a process that is in its wake, and which then has the
\* calls of that turn to do, or none.
LEMMA TurnsByHolder ==
    ASSUME TypeInv, [Next]_vars
    PROVE  \/ turns' = turns
           \/ \E p \in Procs : \E t :
                 /\ HoldsWake(p) /\ turns' = Append(turns, t)
                 /\ t.wake = cyc[p].wake
                 /\ pc'[p] = "tools" => cyc'[p].src = Len(turns) + 1
<1> DEFINE Goal == \/ turns' = turns
                   \/ \E p \in Procs : \E t :
                         /\ HoldsWake(p) /\ turns' = Append(turns, t)
                         /\ t.wake = cyc[p].wake
                         /\ pc'[p] = "tools" => cyc'[p].src = Len(turns) + 1
<1>0. /\ pc \in [Procs -> {"idle"} \cup RunSteps \cup RebuildSteps]
      /\ cyc \in [Procs -> Cycles]
  BY DEF TypeInv, TypeOK
<1>1. ASSUME NEW p \in Procs, UserTurn(p) \/ ToolTurn(p)
      PROVE  Goal
  <2>1. PICK role : AppendTurn(cyc[p].wake, role, << >>, None)
    BY <1>1 DEF UserTurn, ToolTurn
  <2>2. HoldsWake(p)
    BY <1>1 DEF UserTurn, ToolTurn, HoldsWake
  <2>3. pc'[p] # "tools"
    BY <1>0, <1>1 DEF UserTurn, ToolTurn, Goto, AfterTurn
  <2>4. Turn(cyc[p].wake, role, << >>, None).wake = cyc[p].wake
    BY DEF Turn
  <2> QED BY <2>1, <2>2, <2>3, <2>4 DEF AppendTurn
<1>2. ASSUME NEW p \in Procs, Complete(p)
      PROVE  Goal
  <2>1. PICK calls \in MemoryCalls, f \in Finishes \cup {None} :
           /\ AppendTurn(cyc[p].wake, "assistant", calls, f)
           /\ IF calls = << >>
              THEN Goto(p, "decided")
              ELSE cyc' = [cyc EXCEPT ![p] = [cyc[p] EXCEPT !.src = NewTurnSeq]]
    BY <1>2, Zenon DEF Complete
  <2>2. HoldsWake(p)
    BY <1>2 DEF Complete, HoldsWake
  <2>3. pc'[p] = "tools" => cyc'[p].src = Len(turns) + 1
    <3>1. CASE calls = << >>
      BY <1>0, <2>1, <3>1 DEF Goto
    <3>2. CASE calls # << >>
      BY <1>0, <2>1, <3>2 DEF NewTurnSeq, Cycles
    <3> QED BY <3>1, <3>2
  <2>4. Turn(cyc[p].wake, "assistant", calls, f).wake = cyc[p].wake
    BY DEF Turn
  <2> QED BY <2>1, <2>2, <2>3, <2>4 DEF AppendTurn
<1>3. ASSUME NEW p \in Procs, Dispatch(p)
      PROVE  turns' = turns
  BY <1>3 DEF Dispatch, DispatchSearch, RecordRetrieval, historyVars
<1>4. ASSUME NEW p \in Procs, RunStep(p)
      PROVE  Goal
  <2>1. DispatchCall(p) => turns' = turns
    BY <1>3 DEF DispatchCall
  <2> QED BY <1>1, <1>2, <1>4, <2>1 DEF RunStep, LoadState, OpenCycle, OpenWake, Observe,
     RecordRetrieval, BudgetStop, DispatchRaises, CloseSleep,
     GetFails, UpdateState, CloseCycle, CloseOnError, CloseWake, Successor,
     Finish, historyVars
<1>5. ASSUME NEW p \in Procs, Misfortune(p) \/ ReplayFails(p) \/ ReplayMisfits(p)
      PROVE  Goal
  BY <1>5 DEF Misfortune, ObserveFails, CompleteFails, DispatchFails,
     DispatchMisfits, UpdateFails, ClockRunsOut, Crash, LockedOut, ReplayFails,
     ReplayMisfits, WrongDimension, historyVars
<1>6. ASSUME NEW p \in Procs, Begin(p) \/ RebuildStep(p)
      PROVE  Goal
  <2>1. ReplayCall(p) \/ EndReplay(p) \/ RestoreState(p) => turns' = turns
    BY <1>3 DEF ReplayCall, EndReplay, RestoreState, historyVars
  <2> QED BY <1>6, <2>1 DEF Begin, Start, StartRebuild, StartTopUp, RebuildStep, Clear,
     OpenCursor, ReplayRaises, Report, historyVars
<1> QED BY <1>4, <1>5, <1>6 DEF Next, Rest, vars, historyVars

\* Whoever goes on dispatching in a run does so for the turn it had.
LEMMA ToolsSteps ==
    ASSUME TypeInv, [Next]_vars, NEW q \in Procs, pc'[q] = "tools"
    PROVE  \/ pc[q] = "tools" /\ cyc'[q] = cyc[q]
           \/ Complete(q)
<1>0. /\ pc \in [Procs -> {"idle"} \cup RunSteps \cup RebuildSteps]
      /\ cyc \in [Procs -> Cycles]
  BY DEF TypeInv, TypeOK
<1> DEFINE Goal == \/ pc[q] = "tools" /\ cyc'[q] = cyc[q]
                   \/ Complete(q)
<1>2. ASSUME NEW p \in Procs, RunStep(p)
      PROVE  Goal
  <2>1. CASE DispatchCall(p)
    BY <2>1 DEF DispatchCall, orchestratorVars
  <2>2. CASE p = q
    BY <1>0, <1>2, <2>1, <2>2 DEF RunStep, LoadState, OpenCycle, UserTurn, Observe,
       BudgetStop, DispatchRaises, ToolTurn, AfterTurn, CloseSleep, GetFails,
       UpdateState, CloseCycle, CloseOnError, Successor, Finish, Exit, Goto
  <2>3. CASE p # q
    <3>1. cyc'[q] = cyc[q] /\ (pc'[q] = pc[q] \/ DispatchCall(p))
      BY <1>0, <1>2, <2>3 DEF RunStep, LoadState, OpenCycle, UserTurn, Observe,
         Complete, BudgetStop, DispatchCall, DispatchRaises, ToolTurn, CloseSleep,
         GetFails, UpdateState, CloseCycle, CloseOnError, Successor, Finish, Exit,
         Goto, orchestratorVars
    <3> QED BY <2>1, <3>1
  <2> QED BY <2>2, <2>3
<1>3. ASSUME NEW p \in Procs, Misfortune(p) \/ ReplayFails(p) \/ ReplayMisfits(p)
      PROVE  Goal
  <2>1. CASE LockedOut(p) /\ ~Exit(p)
    <3>1. pc' = [pc EXCEPT ![p] = "error"] /\ \E c : cyc' = [cyc EXCEPT ![p] = c]
      BY <2>1 DEF LockedOut, Goto
    <3> QED BY <1>0, <3>1
  <2>2. CASE Exit(p)
    BY <1>0, <2>2 DEF Exit, Goto
  <2> QED BY <1>0, <1>3, <2>1, <2>2 DEF Misfortune, ObserveFails, CompleteFails,
     DispatchFails, DispatchMisfits, UpdateFails, ClockRunsOut, Crash, ReplayFails,
     ReplayMisfits, WrongDimension, Goto, orchestratorVars
<1>4. ASSUME NEW p \in Procs, Begin(p) \/ RebuildStep(p)
      PROVE  Goal
  <2>1. EndReplay(p) => /\ pc' = [pc EXCEPT ![p] = "restore"]
                        /\ cyc' = cyc \/ \E c : cyc' = [cyc EXCEPT ![p] = c]
    BY DEF EndReplay, Goto
  <2>2. RestoreState(p) => pc' = [pc EXCEPT ![p] = "rebuilt"] /\ cyc' = cyc
    BY DEF RestoreState, Goto
  <2>3. ReplayCall(p) => pc' = pc /\ cyc' = cyc
    BY DEF ReplayCall, orchestratorVars
  <2> QED BY <1>0, <1>4, <2>1, <2>2, <2>3 DEF Begin, Start, StartRebuild, StartTopUp,
     RebuildStep, Clear, OpenCursor, ReplayRaises, Report, Exit, Goto
<1> QED BY <1>2, <1>3, <1>4 DEF Next, Rest, vars

\* Every step keeps the order of turns, and the round in hand the last.
LEMMA InOrderNext ==
    ASSUME TypeInv, TypeInv', Grows, OwnsOpenWake, InOrder, [Next]_vars
    PROVE  InOrder'
<1>0. /\ turns \in Seq(Turns) /\ turns' \in Seq(Turns) /\ cyc \in [Procs -> Cycles]
      /\ \A s \in DOMAIN turns : turns[s].wake \in DOMAIN wakes
      /\ DOMAIN wakes = 1 .. Len(wakes) /\ Len(wakes) \in Nat
      /\ Len(turns) \in Nat /\ DOMAIN turns = 1 .. Len(turns)
  BY DEF TypeInv, TypeOK, TurnsHaveWakes
<1>old. \A s \in DOMAIN turns : turns'[s] = turns[s] /\ Opener(s)' = Opener(s)
  BY OpenerStays DEF Opener
<1>wake. /\ WakeInHand' /\ \A p \in Procs : HoldsWake(p) =>
              /\ cyc[p].wake \in DOMAIN wakes
              /\ wakes[cyc[p].wake].opener = p /\ wakes'[cyc[p].wake].opener = p
  BY WakeInHandNext DEF InOrder, WakeInHand, OwnsOpenWake, Open, Grows
<1>1. TurnsInOrder'
  <2>1. WakeInHand /\ TurnsInOrder
    BY DEF InOrder
  <2>2. CASE turns' = turns
    BY <1>old, <2>1, <2>2 DEF TurnsInOrder
  <2>3. ASSUME NEW p \in Procs, NEW t, HoldsWake(p), turns' = Append(turns, t),
               t.wake = cyc[p].wake
        PROVE  TurnsInOrder'
    <3>1. \A s \in DOMAIN turns : Opener(s) = p => turns[s].wake <= t.wake
      BY <1>0, <2>1, <2>3 DEF WakeInHand, Opener
    <3>2. /\ DOMAIN turns' = 1 .. Len(turns) + 1 /\ turns'[Len(turns) + 1] = t
          /\ \A s \in DOMAIN turns : turns'[s] = turns[s]
      BY <1>0, <2>3
    <3>n. \A n : n = Len(turns) + 1 => Opener(n)' = p
      BY <1>wake, <2>3, <3>2 DEF Opener
    <3> SUFFICES ASSUME NEW s \in DOMAIN turns', NEW r \in DOMAIN turns', s < r,
                        Opener(s)' = Opener(r)'
                 PROVE  turns'[s].wake <= turns'[r].wake
      BY DEF TurnsInOrder
    <3>3. s \in DOMAIN turns /\ turns'[s] = turns[s] /\ Opener(s)' = Opener(s)
      BY <1>0, <1>old, <3>2
    <3>4. CASE r = Len(turns) + 1
      BY <3>1, <3>2, <3>3, <3>4, <3>n
    <3>5. CASE r # Len(turns) + 1
      <4>1. r \in DOMAIN turns /\ turns'[r] = turns[r] /\ Opener(r)' = Opener(r)
        BY <1>0, <1>old, <3>2, <3>5
      <4> QED BY <2>1, <3>3, <4>1 DEF TurnsInOrder
    <3> QED BY <3>4, <3>5
  <2> QED BY <2>2, <2>3, TurnsByHolder
<1>2. ASSUME NEW q \in Procs, pc'[q] = "tools", NEW s \in DOMAIN turns', cyc'[q].src < s
      PROVE  Opener(s)' # q
  <2>1. CASE turns' = turns
    <3>1. pc[q] = "tools" /\ cyc'[q] = cyc[q]
      <4>1. ASSUME Complete(q) PROVE FALSE
        <5>1. \E t : turns' = Append(turns, t)
          BY <4>1 DEF Complete, AppendTurn
        <5>2. Len(turns') = Len(turns) + 1
          BY <1>0, <5>1
        <5> QED BY <1>0, <2>1, <5>2
      <4> QED BY <1>2, <4>1, ToolsSteps
    <3> QED BY <1>2, <1>old, <2>1, <3>1 DEF InOrder, RoundIsLast
  <2>2. ASSUME NEW p \in Procs, NEW t, HoldsWake(p), turns' = Append(turns, t),
               t.wake = cyc[p].wake, pc'[p] = "tools" => cyc'[p].src = Len(turns) + 1
        PROVE  Opener(s)' # q
    <3>1. /\ DOMAIN turns' = 1 .. Len(turns) + 1 /\ turns'[Len(turns) + 1] = t
          /\ \A r \in DOMAIN turns : turns'[r] = turns[r]
      BY <1>0, <2>2
    <3>2. p # q
      <4>1. ~(Len(turns) + 1 < s)
        BY <1>0, <3>1
      <4> QED BY <1>2, <2>2, <4>1
    <3>3. pc[q] = "tools" /\ cyc'[q] = cyc[q]
      <4>1. CASE Complete(q)
        <5>1. t.wake = cyc[q].wake
          <6>1. PICK calls \in MemoryCalls, f \in Finishes \cup {None} :
                   AppendTurn(cyc[q].wake, "assistant", calls, f)
            BY <4>1 DEF Complete
          <6>2. turns'[Len(turns) + 1].wake = cyc[q].wake
            BY <1>0, <6>1 DEF AppendTurn, Turn
          <6> QED BY <3>1, <6>2
        <5>2. HoldsWake(q)
          BY <4>1 DEF Complete, HoldsWake
        <5> QED BY <2>2, <3>2, <5>1, <5>2 DEF OwnsOpenWake
      <4> QED BY <1>2, <4>1, ToolsSteps
    <3>4. CASE s = Len(turns) + 1
      <4>1. Opener(s)' = p
        BY <1>wake, <2>2, <3>1, <3>4 DEF Opener
      <4> QED BY <3>2, <4>1
    <3>5. CASE s # Len(turns) + 1
      <4>1. s \in DOMAIN turns /\ Opener(s)' = Opener(s)
        BY <1>0, <1>old, <3>1, <3>5
      <4> QED BY <1>2, <3>3, <4>1 DEF InOrder, RoundIsLast
    <3> QED BY <3>4, <3>5
  <2> QED BY <2>1, <2>2, TurnsByHolder
<1> QED BY <1>1, <1>2, <1>wake DEF InOrder, RoundIsLast
----------------------------------------------------------------------------
\* What a process has in hand: what it had; a call it starts, which it finds
\* first among those to do; or another step of the call it was at.
HandSteps(q) ==
    \/ op'[q] = None
    \/ op'[q] = op[q] /\ todo'[q] = todo[q]
    \/ /\ todo'[q] = todo[q] /\ memories' = memories
       /\ \E c : /\ IsNext(q, c) /\ op'[q].call = c
                 /\ op'[q].step = "upsert" => AcceptWrite(q) \/ AcceptSupersede(q)
    \/ /\ todo'[q] = todo[q] /\ op[q] # None
       /\ op'[q].call = op[q].call /\ op'[q].step # "upsert"

\* Every step starts, goes on with, ends or leaves the call in hand.
LEMMA StartsInHand ==
    ASSUME TypeInv, OpInHand, [Next]_vars, NEW q \in Procs
    PROVE  HandSteps(q)
<1>0. /\ todo \in [Procs -> SUBSET Calls] /\ op \in [Procs -> Operations \cup {None}]
  BY DEF TypeInv, TypeOK
<1>1. CASE UNCHANGED <<todo, op>>
  BY <1>1 DEF HandSteps
<1>2. ASSUME NEW p \in Procs, NEW c, NEW step, NEW at, Going(p, c, step, at),
             \/ /\ memories' = memories /\ IsNext(p, c)
                /\ step = "upsert" => AcceptWrite(p) \/ AcceptSupersede(p)
             \/ op[p] # None /\ c = op[p].call /\ step # "upsert"
      PROVE  HandSteps(q)
  BY <1>0, <1>2 DEF Going, HandSteps
<1>3. ASSUME NEW p \in Procs, NEW c, Answered(p, c)
      PROVE  HandSteps(q)
  BY <1>0, <1>3 DEF Answered, HandSteps
<1>4. ASSUME NEW p \in Procs, Dispatch(p)
      PROVE  HandSteps(q)
  <2>1. CASE \/ RejectWrite(p) \/ VoidSupersede(p) \/ RefuseMark(p) \/ SetMark(p)
             \/ RejectMisshapen(p) \/ DispatchSearch(p)
    BY <1>3, <2>1 DEF RejectWrite, VoidSupersede, RefuseMark, SetMark,
       RejectMisshapen, DispatchSearch
  <2>2. CASE AcceptWrite(p) \/ AcceptSupersede(p)
    <3>1. PICK c, at : IsNext(p, c) /\ Going(p, c, "upsert", at) /\ memories' = memories
      BY <2>2 DEF AcceptWrite, AcceptSupersede
    <3> QED BY <1>2, <2>2, <3>1
  <2>3. CASE ReapplyMark(p)
    <3>1. PICK c : IsNext(p, c) /\ Going(p, c, "mark", Now) /\ memories' = memories
      BY <2>3 DEF ReapplyMark
    <3> QED BY <1>2, <3>1
  <2>4. CASE Upsert(p) \/ CheckMark(p)
    <3>1. \/ Answered(p, op[p].call)
          \/ \E step, at : op[p] # None /\ step # "upsert" /\ Going(p, op[p].call, step, at)
      BY <2>4 DEF Upsert, CheckMark
    <3> QED BY <1>2, <1>3, <3>1
  <2> QED BY <1>4, <2>1, <2>2, <2>3, <2>4 DEF Dispatch
<1>5. ASSUME NEW p \in Procs, NEW S, todo' = [todo EXCEPT ![p] = S],
             op' = op, op[p] = None
      PROVE  HandSteps(q)
  BY <1>0, <1>5 DEF HandSteps
<1>6. ASSUME NEW p \in Procs, Abandon(p)
      PROVE  HandSteps(q)
  BY <1>0, <1>6 DEF Abandon, HandSteps
<1>7. ASSUME NEW p \in Procs, RunStep(p)
      PROVE  HandSteps(q)
  <2>1. CASE Complete(p)
    <3>1. op[p] = None
      BY <2>1 DEF Complete, OpInHand
    <3>2. \E S : todo' = [todo EXCEPT ![p] = S]
      BY <2>1 DEF Complete
    <3>3. op' = op
      BY <2>1 DEF Complete
    <3> QED BY <1>5, <3>1, <3>2, <3>3
  <2>2. DispatchCall(p) => Dispatch(p)
    BY DEF DispatchCall
  <2> QED BY <1>1, <1>4, <1>6, <1>7, <2>1, <2>2 DEF RunStep, LoadState, OpenCycle,
       UserTurn, Observe, BudgetStop, DispatchRaises, ToolTurn,
       CloseSleep, GetFails, UpdateState, CloseCycle, CloseOnError, Successor,
       Finish, memoryVars
<1>8. ASSUME NEW p \in Procs, Misfortune(p) \/ ReplayFails(p) \/ ReplayMisfits(p)
      PROVE  HandSteps(q)
  BY <1>1, <1>3, <1>6, <1>8 DEF Misfortune, ObserveFails, CompleteFails,
     DispatchFails, DispatchMisfits, UpdateFails, ClockRunsOut, Crash, LockedOut,
     ReplayFails, ReplayMisfits, WrongDimension, memoryVars
<1>9. ASSUME NEW p \in Procs, Begin(p) \/ RebuildStep(p)
      PROVE  HandSteps(q)
  <2>1. CASE OpenCursor(p)
    <3>1. op[p] = None /\ op' = op
      BY <2>1 DEF OpenCursor, OpInHand
    <3>2. \E S : todo' = [todo EXCEPT ![p] = S]
      BY <2>1 DEF OpenCursor
    <3> QED BY <1>5, <3>1, <3>2
  <2>2. EndReplay(p) \/ RestoreState(p) => UNCHANGED <<todo, op>>
    BY DEF EndReplay, RestoreState, memoryVars
  <2>3. ReplayCall(p) => Dispatch(p)
    BY DEF ReplayCall
  <2> QED BY <1>1, <1>4, <1>9, <2>1, <2>2, <2>3 DEF Begin, Start, StartRebuild, StartTopUp,
       RebuildStep, Clear, ReplayRaises, Report, memoryVars
<1> QED BY <1>1, <1>7, <1>8, <1>9 DEF Next, Rest, vars, memoryVars

\* The call in hand remains the first one.
LEMMA FirstInHandNext ==
    ASSUME TypeInv, Grows, OpInHand, FirstInHand, [Next]_vars
    PROVE  FirstInHand'
<1> SUFFICES ASSUME NEW q \in Procs, op'[q] # None, NEW d \in todo'[q]
             PROVE  ~Precedes(d, op[q].call)'
  BY DEF FirstInHand
<1>1. \/ op'[q].call = op[q].call /\ op[q] # None /\ todo'[q] = todo[q]
      \/ IsNext(q, op'[q].call) /\ todo'[q] = todo[q]
  BY StartsInHand DEF HandSteps
<1>2. d \in todo[q] /\ ~Precedes(d, op'[q].call)
  BY <1>1 DEF FirstInHand, IsNext
<1>3. IsCall(d) /\ IsCall(op'[q].call)
  BY <1>1, <1>2 DEF TypeInv, TodoCommitted, OpCommitted, IsNext
<1>4. /\ turns'[d.src] = turns[d.src]
      /\ turns'[op'[q].call.src] = turns[op'[q].call.src]
  BY <1>3 DEF Grows, IsCall
<1> QED BY <1>2, <1>4 DEF Precedes

\* Only the command's own steps lead into a replay, from a table it cleared.
LEMMA ReplaySteps ==
    ASSUME TypeInv, NoTopUp, [Next]_vars, NEW q \in Procs, pc'[q] \in {"cleared", "replay"}
    PROVE  IF pc'[q] = "cleared" THEN Clear(q) \/ pc[q] = "cleared"
           ELSE OpenCursor(q) \/ (pc[q] = "replay" /\ todo'[q] \subseteq todo[q])
<1>0. /\ pc \in [Procs -> {"idle"} \cup RunSteps \cup RebuildSteps]
      /\ todo \in [Procs -> SUBSET Calls] /\ op \in [Procs -> Operations \cup {None}]
  BY DEF TypeInv, TypeOK
<1> DEFINE Goal == IF pc'[q] = "cleared" THEN Clear(q) \/ pc[q] = "cleared"
                   ELSE OpenCursor(q) \/ (pc[q] = "replay" /\ todo'[q] \subseteq todo[q])
<1>1. ASSUME NEW p \in Procs, Dispatch(p), UNCHANGED orchestratorVars
      PROVE  Goal
  <2>1. pc'[q] = pc[q]
    BY <1>1 DEF orchestratorVars
  <2>2. \/ todo' = todo
        \/ \E c : todo' = [todo EXCEPT ![p] = @ \ {c}]
    BY <1>1 DEF Dispatch, RejectWrite, AcceptWrite, VoidSupersede, ReapplyMark,
       AcceptSupersede, Upsert, RefuseMark, CheckMark, SetMark, RejectMisshapen,
       DispatchSearch, Answered, Going
  <2>3. todo'[q] \subseteq todo[q]
    BY <1>0, <2>2
  <2> QED BY <2>1, <2>3
<1>2. ASSUME NEW p \in Procs, WrongDimension(p), UNCHANGED orchestratorVars
      PROVE  Goal
  BY <1>0, <1>2 DEF WrongDimension, Answered, orchestratorVars
<1>3. ASSUME NEW p \in Procs, Goto(p, pc'[p]), pc'[p] \notin {"cleared", "replay"},
             todo' = todo \/ \E S : todo' = [todo EXCEPT ![p] = S]
      PROVE  Goal
  BY <1>0, <1>3 DEF Goto
<1>4. ASSUME NEW p \in Procs, RunStep(p)
      PROVE  Goal
  <2>1. CASE DispatchCall(p)
    BY <1>1, <2>1 DEF DispatchCall
  <2>2. CASE ~DispatchCall(p)
    <3>1. todo' = todo \/ \E S : todo' = [todo EXCEPT ![p] = S]
      BY <1>4, <2>2 DEF RunStep, LoadState, OpenCycle, UserTurn, Observe, Complete,
         BudgetStop, DispatchRaises, Abandon, ToolTurn, CloseSleep, GetFails,
         UpdateState, CloseCycle, CloseOnError, Successor, Finish, memoryVars
    <3>2. \E l \in RunSteps \cup {"idle"} : Goto(p, l)
      BY <1>4, <2>2 DEF RunStep, LoadState, OpenCycle, UserTurn, Observe, Complete,
         BudgetStop, DispatchRaises, ToolTurn, AfterTurn, CloseSleep, GetFails,
         UpdateState, CloseCycle, CloseOnError, Successor, Finish, Exit, RunSteps
    <3>3. "replay" \notin RunSteps \cup {"idle"} /\ "cleared" \notin RunSteps \cup {"idle"}
      BY DEF RunSteps
    <3> QED BY <1>0, <1>3, <3>1, <3>2, <3>3 DEF Goto
  <2> QED BY <2>1, <2>2
<1>5. ASSUME NEW p \in Procs, Misfortune(p) \/ ReplayFails(p) \/ ReplayMisfits(p)
      PROVE  Goal
  <2>1. CASE DispatchMisfits(p) \/ ReplayMisfits(p)
    BY <1>2, <2>1 DEF DispatchMisfits, ReplayMisfits
  <2>2. CASE ClockRunsOut(p)
    BY <2>2 DEF ClockRunsOut, memoryVars
  <2>3. CASE \/ ObserveFails(p) \/ CompleteFails(p) \/ DispatchFails(p)
             \/ UpdateFails(p) \/ Crash(p) \/ LockedOut(p) \/ ReplayFails(p)
    <3>1. todo' = todo \/ \E S : todo' = [todo EXCEPT ![p] = S]
      BY <2>3 DEF ObserveFails, CompleteFails, DispatchFails, UpdateFails, Crash,
         LockedOut, ReplayFails, Abandon, memoryVars
    <3>2. \E l \in {"error", "idle"} : Goto(p, l)
      BY <2>3 DEF ObserveFails, CompleteFails, DispatchFails, UpdateFails, Crash,
         LockedOut, ReplayFails, Exit
    <3> QED BY <1>0, <1>3, <3>1, <3>2 DEF Goto
  <2> QED BY <1>5, <2>1, <2>2, <2>3 DEF Misfortune
<1>6. ASSUME NEW p \in Procs, Begin(p) \/ RebuildStep(p)
      PROVE  Goal
  <2>2. CASE Clear(p)
    BY <1>0, <2>2 DEF Clear, Goto
  <2>5. CASE OpenCursor(p)
    BY <1>0, <2>5 DEF OpenCursor, Goto
  <2>3. CASE ReplayRaises(p) \/ EndReplay(p) \/ RestoreState(p) \/ Report(p)
    <3>1. todo' = todo /\ \E l \in {"idle", "restore", "rebuilt"} : Goto(p, l)
      BY <2>3 DEF ReplayRaises, EndReplay, RestoreState, Report, Exit, memoryVars
    <3> QED BY <1>0, <1>3, <3>1 DEF Goto
  <2>4. CASE Begin(p)
    BY <1>0, <2>4 DEF NoTopUp, Begin, Start, StartRebuild, StartTopUp, Goto, memoryVars
  <2> QED BY <1>1, <1>6, <2>2, <2>3, <2>4, <2>5 DEF RebuildStep, ReplayCall
<1> QED BY <1>4, <1>5, <1>6 DEF Next, Rest, vars, memoryVars

\* A replay writes its rows in the order of history.
LEMMA ReplayInOrderNext ==
    ASSUME Known, NoTopUp, TypeInv', Grows, FirstInHand, ReplayInOrder, [Next]_vars
    PROVE  ReplayInOrder'
<1>0. /\ TypeInv /\ Provenance /\ OpInHand /\ RebuildAlone /\ Ids \subseteq MemoryIds
      /\ \A s \in DOMAIN turns : turns[s].wake \in Nat /\ s \in Nat /\ turns'[s] = turns[s]
  <2>1. turns \in Seq(Turns)
    BY DEF Known, TypeInv, TypeOK
  <2>2. \A s \in DOMAIN turns : turns[s] \in Turns /\ s \in Nat
    BY <2>1
  <2> QED BY <2>2 DEF Known, ProvenanceInv, SupersessionInv, TypeInv, TypeOK,
        Turns, Ids, Grows
<1>c. ASSUME NEW q \in Procs, pc'[q] = "cleared"
      PROVE  Ids' = {}
  <2>1. CASE Clear(q)
    BY <2>1 DEF Clear, Ids
  <2>2. CASE pc[q] = "cleared" /\ Ids' # {}
    <3>1. Ids = {} /\ \A p \in Procs : op[p] = None
      BY <1>0, <2>2 DEF ReplayInOrder, OpInHand, RebuildAlone, RebuildSteps
    <3>2. PICK p \in Procs : Upsert(p) \/ SetMark(p)
      BY <2>2, <3>1, MemorySteps DEF Clear, Ids
    <3> QED BY <3>1, <3>2 DEF Upsert, SetMark
  <2> QED BY <1>0, <1>c, <2>1, <2>2, ReplaySteps
<1> SUFFICES ASSUME NEW q \in Procs, pc'[q] = "replay", NEW i \in Ids', NEW c \in todo'[q]
             PROVE  /\ turns'[i.src].wake <= turns'[c.src].wake
                    /\ turns'[i.src].wake = turns'[c.src].wake => i.src <= c.src
  BY <1>c DEF ReplayInOrder
<1>1. CASE \E p \in Procs : Clear(p)
  BY <1>1 DEF Clear, Ids
<1>3. CASE OpenCursor(q)
  <2>1. Ids = {} /\ memories' = memories
    BY <1>3 DEF OpenCursor, ReplayInOrder
  <2> QED BY <2>1 DEF Ids
<1>2. CASE ~(\E p \in Procs : Clear(p)) /\ ~OpenCursor(q)
  <2>1. pc[q] = "replay" /\ c \in todo[q]
    BY <1>2, <1>0, ReplaySteps
  <2>2. c.src \in DOMAIN turns
    BY <1>0, <2>1 DEF TypeInv, TodoCommitted, IsCall
  <2>3. CASE i \in Ids
    <3>1. i.src \in DOMAIN turns
      BY <1>0, <2>3 DEF Provenance
    <3> QED BY <1>0, <2>1, <2>2, <2>3, <3>1 DEF ReplayInOrder
  <2>4. CASE i \notin Ids
    <3>1. PICK p \in Procs : Upsert(p)
      BY <1>2, <2>4, MemorySteps DEF SetMark, Ids
    <3>2. op[p] # None /\ i = NewId(op[p].call)
      BY <2>4, <3>1 DEF Upsert, Ids
    <3>3. p = q
      BY <1>0, <2>1, <3>2 DEF OpInHand, RebuildAlone, RebuildSteps
    <3>4. i.src = op[q].call.src /\ i.src \in DOMAIN turns
      BY <1>0, <3>2, <3>3 DEF NewId, MemoryId, TypeInv, OpCommitted, IsCall
    <3>5. ~Precedes(c, op[q].call)
      BY <2>1, <3>2, <3>3 DEF FirstInHand
    <3> QED BY <1>0, <2>2, <3>4, <3>5 DEF Precedes
  <2> QED BY <2>3, <2>4
<1> QED BY <1>1, <1>2, <1>3
----------------------------------------------------------------------------
\* Rows that are live were: only the one an upsert makes comes to be so.
LEMMA LiveSteps ==
    ASSUME Known, LedgerInv, [Next]_vars, NEW i \in Live'
    PROVE  /\ i \in Live /\ memories'[i].supersedes = memories[i].supersedes
           \/ \E p \in Procs : Upsert(p) /\ UNCHANGED historyVars /\ i = NewId(op[p].call)
<1>0. /\ \A j \in Ids : memories[j] \in Rows
      /\ op \in [Procs -> Operations \cup {None}]
  BY DEF Known, TypeInv, TypeOK, Ids
<1>1. CASE memories' = memories
  BY <1>1 DEF Live, Ids
<1>2. ASSUME NEW p \in Procs, SetMark(p)
      PROVE  i \in Live /\ memories'[i].supersedes = memories[i].supersedes
  <2>1. /\ i \in Ids /\ memories'[i].superseded_by = None
        /\ memories'[i] = IF i = Target(op[p].call)
                          THEN [memories[i] EXCEPT !.superseded_by = NewId(op[p].call)]
                          ELSE memories[i]
    BY <1>2 DEF SetMark, Live, Ids
  <2>2. NewId(op[p].call) \in MemoryIds
    BY <1>2, CallTypes DEF SetMark, Known, TypeInv, OpCommitted
  <2>3. memories'[i] = memories[i]
    BY <1>0, <2>1, <2>2, NoneAssumption DEF Rows
  <2> QED BY <2>1, <2>3 DEF Live
<1>3. ASSUME NEW p \in Procs, Upsert(p), i # NewId(op[p].call)
      PROVE  i \in Live /\ memories'[i].supersedes = memories[i].supersedes
  BY <1>3 DEF Upsert, Live, Ids
<1>4. ASSUME NEW p \in Procs, Clear(p)
      PROVE  FALSE
  BY <1>4 DEF Clear, Live, Ids
<1> QED BY <1>1, <1>2, <1>3, <1>4, MemorySteps

\* The turn of a call in hand, and of a row, is there and stays.
LEMMA TurnStays ==
    ASSUME Known, Grows
    PROVE  /\ \A p \in Procs : op[p] # None =>
                 LET c == op[p].call
                 IN  /\ IsCall(c) /\ c.src \in DOMAIN turns /\ turns'[c.src] = turns[c.src]
                     /\ NewId(c).src = c.src /\ NewId(c).text = Text(c)
           /\ \A i \in Ids : i.src \in DOMAIN turns /\ turns'[i.src] = turns[i.src]
BY DEF Known, TypeInv, OpCommitted, IsCall, ProvenanceInv, Provenance, Grows,
   NewId, MemoryId

\* What a write checked, every step leaves true as far as it goes.
LEMMA WriteIsCheckedNext ==
    ASSUME Known, LedgerInv, TypeInv', Grows, InOrder, WriteIsChecked, [Next]_vars
    PROVE  WriteIsChecked'
<1>0. /\ TypeInv /\ OpInHand /\ RebuildAlone /\ OwnsOpenWake /\ OwnRound
      /\ op \in [Procs -> Operations \cup {None}]
  BY DEF Known, SupersessionInv, LedgerInv, TypeInv, TypeOK
<1> SUFFICES ASSUME NEW q \in Procs, op'[q] # None, op'[q].step = "upsert",
                    NEW c, c = op'[q].call
             PROVE  IF CallOf(c)'.tool = "write"
                    THEN \A i \in Live' : <<Text(c)', i.text>> \in Near
                                              => Opener(i.src)' # Opener(c.src)'
                    ELSE Target(c)' # None
  BY DEF WriteIsChecked, CallOf, Text, Target, Apart, Opener
<1>old. \A s \in DOMAIN turns : turns'[s] = turns[s] /\ Opener(s)' = Opener(s)
  BY OpenerStays DEF Known, Opener
<1>1. ASSUME IsCall(c),
             CallOf(c).tool = "write" =>
                \A i \in Live' : <<Text(c), i.text>> \in Near
                    => Opener(i.src)' # Opener(c.src),
             CallOf(c).tool # "write" => Target(c) # None
      PROVE  IF CallOf(c)'.tool = "write"
             THEN \A i \in Live' : <<Text(c)', i.text>> \in Near
                                       => Opener(i.src)' # Opener(c.src)'
             ELSE Target(c)' # None
  <2>1. turns'[c.src] = turns[c.src] /\ Opener(c.src)' = Opener(c.src)
    BY <1>1, <1>old DEF IsCall
  <2> QED BY <1>1, <2>1 DEF CallOf, Text, Target
<1>2. CASE op'[q] = op[q]
  <2>1. IsCall(c) /\ c = op[q].call /\ op[q].step = "upsert" /\ op[q] # None
    BY <1>0, <1>2 DEF TypeInv, OpCommitted
  <2>2. CallOf(c).tool # "write" => Target(c) # None
    BY <2>1 DEF WriteIsChecked
  <2>3. ASSUME CallOf(c).tool = "write", NEW i \in Live', <<Text(c), i.text>> \in Near
        PROVE  Opener(i.src)' # Opener(c.src)
    <3>1. CASE i \in Live
      <4>1. Apart(i, c)
        BY <2>1, <2>3, <3>1 DEF WriteIsChecked
      <4>2. Opener(i.src)' = Opener(i.src)
        BY <1>old, <3>1, TurnStays DEF Live
      <4> QED BY <4>1, <4>2 DEF Apart
    <3>2. ASSUME NEW p \in Procs, Upsert(p), UNCHANGED historyVars, i = NewId(op[p].call)
          PROVE  Opener(i.src)' # Opener(c.src)
      <4>1. op[p] # None /\ op[p].step = "upsert"
        BY <3>2 DEF Upsert
      <4>2. p # q
        <5>1. op'[p] = None \/ op'[p].step = "mark"
          BY <1>0, <3>2 DEF Upsert, Going, Answered
        <5> QED BY <5>1
      <4>3. /\ pc[p] = "tools" /\ op[p].call \in todo[p]
            /\ pc[q] = "tools" /\ op[q].call \in todo[q]
        BY <1>0, <2>1, <4>1, <4>2 DEF OpInHand, RebuildAlone, RebuildSteps
      <4>4. /\ turns[op[p].call.src].wake = cyc[p].wake
            /\ turns[c.src].wake = cyc[q].wake
        BY <1>0, <2>1, <4>3 DEF OwnRound
      <4>5. wakes[cyc[p].wake].opener = p /\ wakes[cyc[q].wake].opener = q
        BY <4>3 DEF InOrder, WakeInHand, HoldsWake
      <4>6. i.src = op[p].call.src /\ turns' = turns /\ wakes' = wakes
        BY <3>2 DEF NewId, MemoryId, historyVars
      <4> QED BY <4>2, <4>4, <4>5, <4>6 DEF Opener
    <3> QED BY <3>1, <3>2, LiveSteps
  <2> QED BY <1>1, <2>1, <2>2, <2>3
<1>3. CASE memories' = memories /\ AcceptWrite(q)
  <2>1. PICK d \in todo[q] : /\ CallOf(d).tool = "write" /\ ~WriteRejected(d)
                             /\ Going(q, d, "upsert", Now)
    BY <1>3 DEF AcceptWrite
  <2>2. c = d /\ IsCall(c)
    BY <1>0, <2>1 DEF Going, TypeInv, TodoCommitted
  <2>3. Live' = Live
    BY <1>3 DEF Live, Ids
  <2>4. \A i \in Live : <<Text(c), i.text>> \notin Near
    BY <2>1, <2>2 DEF WriteRejected, NearDuplicate
  <2>5. CallOf(c).tool = "write"
    BY <2>1, <2>2
  <2> QED BY <1>1, <2>2, <2>3, <2>4, <2>5
<1>4. CASE memories' = memories /\ AcceptSupersede(q)
  <2>1. PICK d \in todo[q] : /\ CallOf(d).tool = "supersede" /\ ~SupersedeVoid(d)
                             /\ \E at : Going(q, d, "upsert", at)
    BY <1>4 DEF AcceptSupersede
  <2>2. c = d /\ IsCall(c)
    BY <1>0, <2>1 DEF Going, TypeInv, TodoCommitted
  <2>3. Target(c) # None
    BY <1>0, <2>1, <2>2, NoneAssumption DEF SupersedeVoid, Ids, TypeInv, TypeOK
  <2>4. CallOf(c).tool = "supersede"
    BY <2>1, <2>2
  <2> QED BY <1>1, <2>2, <2>3, <2>4
<1> QED BY <1>0, <1>2, <1>3, <1>4, StartsInHand DEF HandSteps

\* A row made next to one like it is of another process.
LEMMA TwinsNext ==
    ASSUME Known, LedgerInv, TypeInv', Grows, TwinInv, [Next]_vars
    PROVE  TwinsNeedTwoProcesses'
<1>0. /\ TypeInv /\ OpInHand /\ OwnRound /\ WriteIsNew
      /\ Live \subseteq Ids /\ Ids \subseteq MemoryIds
      /\ op \in [Procs -> Operations \cup {None}]
      /\ \A s \in DOMAIN turns : turns[s].wake \in Nat /\ s \in Nat
  <2>1. turns \in Seq(Turns)
    BY DEF Known, TypeInv, TypeOK
  <2>2. \A s \in DOMAIN turns : turns[s] \in Turns /\ s \in Nat
    BY <2>1
  <2> QED BY <2>2 DEF Known, SupersessionInv, LedgerInv, TypeInv, TypeOK, Turns, Live, Ids
<1> SUFFICES ASSUME NEW i \in Live', NEW j \in Live', i # j, <<i.text, j.text>> \in Near,
                    memories'[j].supersedes = None,
                    \/ i.src < j.src
                    \/ i.src = j.src /\ memories'[i].supersedes = None
             PROVE  Opener(i.src)' # Opener(j.src)'
  BY DEF TwinsNeedTwoProcesses, Twins, Opener
<1>old. ASSUME NEW k \in Live
        PROVE  k.src \in DOMAIN turns /\ Opener(k.src)' = Opener(k.src)
  BY <1>0, TurnStays, OpenerStays DEF Opener
<1>1. CASE /\ i \in Live /\ memories'[i].supersedes = memories[i].supersedes
           /\ j \in Live /\ memories'[j].supersedes = memories[j].supersedes
  <2>1. Twins(i, j)
    BY <1>1 DEF Twins
  <2> QED BY <1>1, <1>old, <2>1 DEF TwinInv, TwinsNeedTwoProcesses, Opener
<1>2. ASSUME NEW p \in Procs, Upsert(p), UNCHANGED historyVars,
             NEW k \in {i, j}, k \in Live, k # NewId(op[p].call),
             memories'[k].supersedes = memories[k].supersedes,
             NEW n \in {i, j}, n = NewId(op[p].call)
      PROVE  Opener(i.src)' # Opener(j.src)'
  <2> DEFINE c == op[p].call
  <2>1. /\ op[p] # None /\ op[p].step = "upsert" /\ turns' = turns
        /\ memories'[n].supersedes = Target(c)
    <3>1. PICK row : /\ memories' = [m \in Ids \cup {n} |->
                                       IF m = n THEN row ELSE memories[m]]
                     /\ row.supersedes = Target(c)
      <4> DEFINE row == Row(wakes[turns[c.src].wake].kind, Target(c), op[p].at)
      <4>1. row.supersedes = Target(c)
        BY DEF Row
      <4>2. memories' = [m \in Ids \cup {n} |-> IF m = n THEN row ELSE memories[m]]
        BY <1>2 DEF Upsert
      <4> QED BY <4>1, <4>2
    <3>2. memories'[n] = row
      BY <3>1
    <3>3. memories'[n].supersedes = Target(c)
      BY <3>1, <3>2
    <3> QED BY <1>2, <3>3 DEF Upsert, historyVars
  <2>2. /\ c.src \in DOMAIN turns /\ n.src = c.src /\ n.text = Text(c)
        /\ k.src \in DOMAIN turns
    BY <1>2, <1>old, <2>1, TurnStays
  <2>3. n.text \in Texts /\ k.text \in Texts
    <3>1. n \in MemoryIds
      BY <1>0, <1>2, <2>1, CallTypes DEF TypeInv, OpCommitted
    <3> QED BY <1>0, <1>2, <3>1 DEF MemoryIds
  <2>h. \A r : Opener(r)' = Opener(r)
    BY <1>2 DEF Opener, historyVars
  <2>4. CASE CallOf(c).tool = "write"
    <3>1. <<Text(c), k.text>> \in Near
      BY <1>2, <2>2, <2>3, MemoryAssumption
    <3>2. Apart(k, c)
      BY <1>2, <2>1, <2>4, <3>1 DEF TwinInv, WriteIsChecked
    <3> QED BY <1>2, <2>2, <2>h, <3>2 DEF Apart
  <2>5. CASE CallOf(c).tool # "write"
    <3>1. Target(c) # None
      BY <2>1, <2>5 DEF TwinInv, WriteIsChecked
    <3>2. i = n /\ j = k /\ c.src < k.src
      BY <1>2, <2>1, <2>2, <3>1
    <3>3. Opener(k.src) # Opener(c.src)
      <4>1. CASE pc[p] = "tools"
        <5>1. c.src = cyc[p].src /\ turns[cyc[p].src].wake = cyc[p].wake
          BY <1>0, <2>1, <4>1 DEF OwnRound, OpInHand
        <5>2. Opener(c.src) = p
          BY <4>1, <5>1 DEF TwinInv, InOrder, WakeInHand, HoldsWake, Opener
        <5> QED BY <2>2, <3>2, <4>1, <5>1, <5>2 DEF TwinInv, InOrder, RoundIsLast
      <4>2. CASE pc[p] = "replay"
        <5>1. c \in todo[p] /\ k \in Ids
          BY <1>0, <1>2, <2>1 DEF OpInHand
        <5>2. /\ turns[k.src].wake <= turns[c.src].wake
              /\ turns[k.src].wake = turns[c.src].wake => k.src <= c.src
          BY <4>2, <5>1 DEF TwinInv, ReplayInOrder
        <5>3. Opener(c.src) = Opener(k.src) => turns[c.src].wake <= turns[k.src].wake
          BY <2>2, <3>2 DEF TwinInv, InOrder, TurnsInOrder
        <5> QED BY <1>0, <2>2, <3>2, <5>2, <5>3
      <4> QED BY <1>0, <2>1, <4>1, <4>2 DEF OpInHand
    <3> QED BY <2>2, <2>h, <3>2, <3>3
  <2> QED BY <2>4, <2>5
<1>3. ASSUME NEW k \in {i, j}
      PROVE  \/ k \in Live /\ memories'[k].supersedes = memories[k].supersedes
             \/ \E p \in Procs : Upsert(p) /\ UNCHANGED historyVars /\ k = NewId(op[p].call)
  BY LiveSteps
<1>4. ASSUME NEW p \in Procs, Upsert(p)
      PROVE  NewId(op[p].call) \notin Ids
  BY <1>0, <1>4 DEF Upsert, WriteIsNew
<1>5. ASSUME NEW p \in Procs, Upsert(p), UNCHANGED historyVars
      PROVE  \A k \in {i, j} :
                \/ k \in Live /\ k # NewId(op[p].call)
                   /\ memories'[k].supersedes = memories[k].supersedes
                \/ k = NewId(op[p].call)
  <2> DEFINE n == NewId(op[p].call)
  <2>1. PICK row : memories' = [m \in Ids \cup {n} |-> IF m = n THEN row ELSE memories[m]]
    BY <1>5 DEF Upsert
  <2>2. n \notin Ids
    BY <1>4, <1>5
  <2> SUFFICES ASSUME NEW k \in {i, j}, k # n
               PROVE  k \in Live /\ memories'[k].supersedes = memories[k].supersedes
    OBVIOUS
  <2>3. k \in Ids' /\ memories'[k].superseded_by = None
    BY DEF Live
  <2> HIDE DEF n
  <2>4. k \in Ids /\ memories'[k] = memories[k]
    BY <2>1, <2>3 DEF Ids
  <2> QED BY <2>3, <2>4 DEF Live
<1> QED BY <1>0, <1>1, <1>2, <1>3, <1>5
----------------------------------------------------------------------------
\* The invariant of the theorem, from the start ...
LEMMA TwinInvInit == Init => TwinInv
BY DEF Init, HistoryInit, MemoryInit, OrchestratorInit, TwinInv, InOrder, WakeInHand,
   HoldsWake, TurnsInOrder, RoundIsLast, FirstInHand, ReplayInOrder, WriteIsChecked,
   TwinsNeedTwoProcesses, Live, Ids

\* ... and on.
LEMMA TwinInvNext ==
    ASSUME NoTopUp, Known, LedgerInv, TypeInv', Grows, TwinInv, [Next]_vars
    PROVE  TwinInv'
BY InOrderNext, FirstInHandNext, ReplayInOrderNext, WriteIsCheckedNext, TwinsNext
   DEF TwinInv, Known, SupersessionInv

\* The duplicate check of Memory.write is a read before the commit, and still
\* two live rows that say the same, one of them written although the other was
\* there, are of wakes that two different processes opened: for any number of
\* processes, crashes, faults, locks and rebuilds of an emptied table, as long as
\* no rebuild runs in the middle of another process's wake.
THEOREM TwinsTakeTwo ==
    ASSUME NoTopUp, RebuildsApart
    PROVE  Spec => []TwinsNeedTwoProcesses
<1>1. Init => Known /\ LedgerInv /\ TwinInv
  BY LedgerInvInit, TwinInvInit
<1>2. ASSUME Known, LedgerInv, TwinInv, [Next]_vars
      PROVE  Known' /\ LedgerInv' /\ TwinInv'
  <2>1. Grows /\ Known' /\ LedgerInv'
    BY <1>2, LedgerInvNext
  <2>2. TypeInv'
    BY <2>1 DEF Known
  <2> QED BY <1>2, <2>1, <2>2, TwinInvNext
<1>3. TwinInv => TwinsNeedTwoProcesses
  BY DEF TwinInv
<1> QED BY <1>1, <1>2, <1>3, PTL DEF Spec
----------------------------------------------------------------------------
\* The calls of a turn are its own.
LEMMA CallsOfIs ==
    \A s : \A c \in CallsOf(s) : c.src = s /\ c.idx \in DOMAIN turns[s].calls
                                 /\ c = [src |-> c.src, idx |-> c.idx]
BY DEF CallsOf

\* A recorded call is a call of a turn, and a write or a supersede.
LEMMA RecordedCalls ==
    /\ \A c \in Recorded : /\ IsCall(c) /\ CallOf(c).tool \in {"write", "supersede"}
                           /\ c = [src |-> c.src, idx |-> c.idx]
    /\ \A s, k : LET c == [src |-> s, idx |-> k]
                 IN  IsCall(c) /\ CallOf(c).tool \in {"write", "supersede"} => c \in Recorded
<1>1. ASSUME NEW c \in Recorded
      PROVE  /\ IsCall(c) /\ CallOf(c).tool \in {"write", "supersede"}
             /\ c = [src |-> c.src, idx |-> c.idx]
  <2>1. PICK s \in DOMAIN turns : c \in CallsOf(s)
    BY DEF Recorded
  <2>2. CallOf(c).tool \in {"write", "supersede"}
    BY DEF Recorded
  <2> QED BY <2>1, <2>2, CallsOfIs DEF IsCall
<1>2. ASSUME NEW s, NEW k, IsCall([src |-> s, idx |-> k]),
             CallOf([src |-> s, idx |-> k]).tool \in {"write", "supersede"}
      PROVE  [src |-> s, idx |-> k] \in Recorded
  <2>1. s \in DOMAIN turns /\ k \in DOMAIN turns[s].calls
    BY <1>2 DEF IsCall
  <2>2. [src |-> s, idx |-> k] \in CallsOf(s)
    BY <2>1 DEF CallsOf
  <2> QED BY <1>2, <2>1, <2>2 DEF Recorded
<1> QED BY <1>1, <1>2

\* The decisions of the model are finitely many.
LEMMA RecordedFinite ==
    ASSUME TypeInv
    PROVE  IsFiniteSet(Recorded)
<1>0. turns \in Seq(Turns) /\ Len(turns) \in Nat /\ DOMAIN turns = 1 .. Len(turns)
  BY DEF TypeInv, TypeOK
<1>1. ASSUME NEW s \in DOMAIN turns
      PROVE  IsFiniteSet(CallsOf(s))
  <2> DEFINE n == Len(turns[s].calls)
             f == [k \in 1 .. n |-> [src |-> s, idx |-> k]]
  <2>1. n \in Nat /\ DOMAIN turns[s].calls = 1 .. n
    <3>1. turns[s] \in Turns
      BY <1>0
    <3>2. turns[s].calls \in Seq(ToolCalls)
      BY <3>1 DEF Turns
    <3> QED BY <3>2
  <2>2. CallsOf(s) = {[src |-> s, idx |-> k] : k \in 1 .. n}
    BY <2>1 DEF CallsOf
  <2>3. IsFiniteSet(1 .. n)
    BY <2>1, FS_Interval
  <2> HIDE DEF n
  <2>4. f \in Surjection(1 .. n, CallsOf(s))
    BY <2>2 DEF Surjection
  <2> HIDE DEF f
  <2> QED BY <2>3, <2>4, FS_Surjection
<1> DEFINE rounds == {CallsOf(s) : s \in DOMAIN turns}
           g == [s \in DOMAIN turns |-> CallsOf(s)]
<1>2. IsFiniteSet(DOMAIN turns)
  BY <1>0, FS_Interval
<1>3. g \in Surjection(DOMAIN turns, rounds)
  BY DEF Surjection
<1>4. IsFiniteSet(rounds)
  <2> HIDE DEF g, rounds
  <2> QED BY <1>2, <1>3, FS_Surjection
<1>5. \A T \in rounds : IsFiniteSet(T)
  BY <1>1
<1>6. Recorded \subseteq UNION rounds
  BY DEF Recorded
<1> HIDE DEF rounds
<1>7. IsFiniteSet(UNION rounds)
  BY <1>4, <1>5, FS_UNION
<1> QED BY <1>6, <1>7, FS_Subset

\* The order of replay is total on the calls there are.
LEMMA CallsAreOrdered ==
    ASSUME TypeInv
    PROVE  /\ \A c, d : IsCall(c) /\ IsCall(d) => ~(Precedes(c, d) /\ Precedes(d, c))
           /\ \A c, d : IsCall(c) /\ IsCall(d) =>
                 Precedes(c, d) \/ Precedes(d, c) \/ (c.src = d.src /\ c.idx = d.idx)
           /\ \A c, d, e : IsCall(c) /\ IsCall(d) /\ IsCall(e) /\ Precedes(c, d) /\ Precedes(d, e)
                 => Precedes(c, e)
<1>1. ASSUME NEW c, IsCall(c)
      PROVE  turns[c.src].wake \in Nat /\ c.src \in Nat /\ c.idx \in Nat
  <2>0. turns \in Seq(Turns)
    BY DEF TypeInv, TypeOK
  <2>1. c.src \in Nat /\ turns[c.src] \in Turns
    BY <1>1, <2>0 DEF IsCall
  <2>2. turns[c.src].calls \in Seq(ToolCalls) /\ turns[c.src].wake \in Nat
    BY <2>1 DEF Turns
  <2> QED BY <1>1, <2>1, <2>2 DEF IsCall
<1>2. ASSUME NEW c, NEW d, IsCall(c), IsCall(d)
      PROVE  /\ ~(Precedes(c, d) /\ Precedes(d, c))
             /\ Precedes(c, d) \/ Precedes(d, c) \/ (c.src = d.src /\ c.idx = d.idx)
  BY <1>1, <1>2 DEF Precedes
<1>3. ASSUME NEW c, NEW d, NEW e, IsCall(c), IsCall(d), IsCall(e),
             Precedes(c, d), Precedes(d, e)
      PROVE  Precedes(c, e)
  BY <1>1, <1>3 DEF Precedes
<1> QED BY <1>2, <1>3
----------------------------------------------------------------------------
\* Of the calls there are in a set, one comes last.
LEMMA OneIsLast ==
    ASSUME TypeInv, NEW S \in SUBSET Recorded, S # {}
    PROVE  \E c \in S : \A d \in S \ {c} : Precedes(d, c)
<1>0. ASSUME NEW c \in S
      PROVE  /\ IsCall(c) /\ turns[c.src].wake \in Nat /\ turns[c.src].wake \in 0 .. Len(wakes)
             /\ c.src \in 0 .. Len(turns)
             /\ c.idx \in 0 .. Len(turns[c.src].calls)
             /\ c = [src |-> c.src, idx |-> c.idx]
  <2>0. turns \in Seq(Turns) /\ wakes \in Seq(WakeRecords) /\ TurnsHaveWakes
    BY DEF TypeInv, TypeOK
  <2>1. IsCall(c) /\ c = [src |-> c.src, idx |-> c.idx]
    BY RecordedCalls
  <2>2. c.src \in 1 .. Len(turns) /\ turns[c.src] \in Turns /\ turns[c.src].wake \in 1 .. Len(wakes)
    BY <2>0, <2>1 DEF IsCall, TurnsHaveWakes
  <2>3. turns[c.src].calls \in Seq(ToolCalls)
    BY <2>2 DEF Turns
  <2>4. c.idx \in 1 .. Len(turns[c.src].calls)
    BY <2>1, <2>3 DEF IsCall
  <2> QED BY <2>0, <2>1, <2>2, <2>4
<1>len. Len(turns) \in Nat /\ Len(wakes) \in Nat
  <2>0. turns \in Seq(Turns) /\ wakes \in Seq(WakeRecords)
    BY DEF TypeInv, TypeOK
  <2> QED BY <2>0
<1> DEFINE W == {turns[c.src].wake : c \in S}
<1>1. PICK w \in W : \A v \in W : v <= w
  <2>1. W \subseteq 0 .. Len(wakes) /\ W # {}
    BY <1>0
  <2> HIDE DEF W
  <2> QED BY <1>len, <2>1, GreatestNumber
<1> DEFINE A == {c \in S : turns[c.src].wake = w}
           N == {c.src : c \in A}
<1>2. PICK n \in N : \A m \in N : m <= n
  <2>1. N \subseteq 0 .. Len(turns) /\ N # {}
    BY <1>0
  <2> HIDE DEF N
  <2> QED BY <1>len, <2>1, GreatestNumber
<1> DEFINE B == {c \in A : c.src = n}
           I == {c.idx : c \in B}
<1>3. PICK k \in I : \A l \in I : l <= k
  <2>0. n \in DOMAIN turns
    BY <1>0 DEF IsCall
  <2>1. I \subseteq 0 .. Len(turns[n].calls) /\ I # {}
    BY <1>0
  <2>2. Len(turns[n].calls) \in Nat
    <3>0. turns \in Seq(Turns)
      BY DEF TypeInv, TypeOK
    <3>1. turns[n] \in Turns
      BY <2>0, <3>0
    <3>2. turns[n].calls \in Seq(ToolCalls)
      BY <3>1 DEF Turns
    <3> QED BY <3>2
  <2> HIDE DEF I
  <2> QED BY <2>1, <2>2, GreatestNumber
<1>4. PICK c \in B : c.idx = k
  OBVIOUS
<1>5. ASSUME NEW d \in S \ {c}
      PROVE  Precedes(d, c)
  <2>1. c \in S /\ turns[c.src].wake = w /\ c.src = n
    BY <1>4
  <2>2. turns[d.src].wake <= w
    BY <1>1
  <2>3. turns[d.src].wake = w => d.src <= n
    BY <1>2
  <2>4. turns[d.src].wake = w /\ d.src = n => d.idx <= k
    BY <1>3
  <2>5. /\ turns[d.src].wake \in Nat /\ turns[c.src].wake \in Nat
        /\ d.src \in Nat /\ c.src \in Nat
    BY <1>0, <2>1
  <2>6. IsCall(c) /\ IsCall(d) /\ (c.src = d.src /\ c.idx = d.idx => c = d)
    BY <1>0, <2>1
  <2>7. c.idx \in Nat /\ d.idx \in Nat
    BY <2>1, <1>len, <1>0, <2>5
  <2> HIDE DEF A, B, N, I, W
  <2> QED BY <1>4, <2>1, <2>2, <2>3, <2>4, <2>5, <2>6, <2>7 DEF Precedes
<1> QED BY <1>4, <1>5

\* The latest of some recorded calls is the one all others precede.
LEMMA LatestIsLast ==
    ASSUME TypeInv, NEW S \in SUBSET Recorded
    PROVE  /\ S # {} => Latest(S) \in S /\ \A d \in S \ {Latest(S)} : Precedes(d, Latest(S))
           /\ \A c \in S : (\A d \in S \ {c} : Precedes(d, c)) => Latest(S) = c
<1>1. S # {} => Latest(S) \in S /\ \A d \in S \ {Latest(S)} : Precedes(d, Latest(S))
  BY OneIsLast DEF Latest
<1>2. ASSUME NEW c \in S, \A d \in S \ {c} : Precedes(d, c), Latest(S) # c
      PROVE  FALSE
  <2>1. Latest(S) \in S /\ Precedes(Latest(S), c) /\ Precedes(c, Latest(S))
    BY <1>1, <1>2
  <2> QED BY <1>2, <2>1, CallsAreOrdered, RecordedCalls
<1> QED BY <1>1, <1>2

RowIdentities == [origin : TriggerKinds, supersedes : MemoryIds \cup {None},
          superseded_by : MemoryIds \cup {None}]

Tables == UNION {[D -> RowIdentities] : D \in SUBSET MemoryIds}

\* A table is a function from ids to what identifies a row.
LEMMA TableIs ==
    \A t : t \in Tables <=> t \in [DOMAIN t -> RowIdentities] /\ DOMAIN t \subseteq MemoryIds
BY DEF Tables

\* The meaning of a call makes a table of a table.
LEMMA MeaningMakesTable ==
    ASSUME TypeInv, NEW rows \in Tables, NEW c \in Recorded
    PROVE  Meaning(rows, c) \in Tables
<1>0. IsCall(c)
  BY RecordedCalls
<1>1. /\ Text(c) # None => NewId(c) \in MemoryIds
      /\ NewIdentity(c) \in RowIdentities
  BY <1>0, CallTypes DEF NewIdentity, RowIdentities
<1>2. rows \in [DOMAIN rows -> RowIdentities] /\ DOMAIN rows \subseteq MemoryIds
  BY TableIs
<1>3. ASSUME Text(c) # None
      PROVE  /\ With(rows, c) \in Tables /\ DOMAIN With(rows, c) = DOMAIN rows \cup {NewId(c)}
             /\ \A i \in DOMAIN With(rows, c) : With(rows, c)[i] \in RowIdentities
  <2>1. DOMAIN With(rows, c) = DOMAIN rows \cup {NewId(c)}
    BY DEF With
  <2>2. With(rows, c) \in [DOMAIN rows \cup {NewId(c)} -> RowIdentities]
    BY <1>1, <1>2 DEF With
  <2>3. DOMAIN rows \cup {NewId(c)} \subseteq MemoryIds
    BY <1>1, <1>2, <1>3
  <2> QED BY <2>1, <2>2, <2>3, TableIs
<1>4. Written(rows, c) \in Tables
  BY <1>3 DEF Written
<1>5. Superseded(rows, c) \in Tables
  <2>1. CASE Text(c) = None \/ Target(c) \notin DOMAIN rows
    BY <2>1 DEF Superseded
  <2>2. CASE Text(c) # None /\ Target(c) \in DOMAIN rows
    <3> DEFINE t == With(rows, c)
               r == t[Target(c)]
               by == IF r.superseded_by = None THEN NewId(c) ELSE r.superseded_by
               s == [r EXCEPT !.superseded_by = by]
    <3>1. t \in [DOMAIN t -> RowIdentities] /\ DOMAIN t \subseteq MemoryIds /\ Target(c) \in DOMAIN t
      BY <1>3, <2>2, TableIs
    <3>2. r \in RowIdentities /\ NewId(c) \in MemoryIds
      BY <1>1, <2>2, <3>1
    <3>3. by \in MemoryIds \cup {None}
      BY <3>2 DEF RowIdentities
    <3>4. s \in RowIdentities
      <4> HIDE DEF by, r
      <4> QED BY <3>2, <3>3 DEF RowIdentities
    <3>5. Superseded(rows, c) = [t EXCEPT ![Target(c)] = s]
      BY <2>2 DEF Superseded
    <3> HIDE DEF t, s
    <3>6. [t EXCEPT ![Target(c)] = s] \in [DOMAIN t -> RowIdentities]
      BY <3>1, <3>4
    <3>7. DOMAIN [t EXCEPT ![Target(c)] = s] = DOMAIN t
      OBVIOUS
    <3> QED BY <3>1, <3>5, <3>6, <3>7, TableIs
  <2> QED BY <2>1, <2>2
<1> QED BY <1>4, <1>5 DEF Meaning
----------------------------------------------------------------------------
Nothing == [i \in {} |-> None]

\* What Fold is: a step of the replay at a time.
FoldsStep ==
    /\ Fold[{}] = Nothing
    /\ \A S \in SUBSET Recorded : \A c \in S : \A rows :
          (\A d \in S \ {c} : Precedes(d, c)) /\ rows = Fold[S \ {c}]
             => Fold[S] = Meaning(rows, c)

\* Where a replay begins.
LEMMA NothingIsTable == Nothing \in Tables
<1>1. DOMAIN Nothing = {} /\ Nothing \in [DOMAIN Nothing -> RowIdentities]
  BY DEF Nothing
<1> QED BY <1>1, TableIs

\* The recursive definition of Fold is one: it makes the steps it says.
LEMMA FoldIsRecursive ==
    ASSUME TypeInv
    PROVE  FoldsStep
<1> DEFINE last == [T \in (SUBSET Recorded) \ {{}} |-> Latest(T)]
           then == [c \in Recorded |-> [rows \in Tables |-> Meaning(rows, c)]]
           Is(g) == g = [calls \in SUBSET Recorded |->
                           IF calls = {} THEN Nothing
                           ELSE Meaning(g[calls \ {Latest(calls)}], Latest(calls))]
           fold == CHOOSE g : Is(g)
<1>1. IsFiniteSet(Recorded) /\ Nothing \in Tables
  BY RecordedFinite, NothingIsTable
<1>2. \A T \in (SUBSET Recorded) \ {{}} : Latest(T) \in T /\ Latest(T) \in Recorded
  BY LatestIsLast
<1>3. last \in [(SUBSET Recorded) \ {{}} -> Recorded] /\ \A T \in (SUBSET Recorded) \ {{}} : last[T] \in T
  BY <1>2
<1>4. then \in [Recorded -> [Tables -> Tables]]
  <2>1. \A c \in Recorded : [rows \in Tables |-> Meaning(rows, c)] \in [Tables -> Tables]
    BY MeaningMakesTable
  <2> QED BY <2>1
<1>5. PICK h \in [SUBSET Recorded -> Tables] :
              /\ h[{}] = Nothing
              /\ \A T \in (SUBSET Recorded) \ {{}} :
                    h[T] = then[last[T]][h[T \ {last[T]}]]
  <2> DEFINE Made(R, V, base, l, n) ==
                \E g \in [SUBSET R -> V] :
                   /\ g[{}] = base
                   /\ \A T \in (SUBSET R) \ {{}} : g[T] = n[l[T]][g[T \ {l[T]}]]
  <2>1. \A R : IsFiniteSet(R) =>
           \A V : \A base \in V : \A l \in [(SUBSET R) \ {{}} -> R] :
              (\A T \in (SUBSET R) \ {{}} : l[T] \in T) =>
                 \A n \in [R -> [V -> V]] : Made(R, V, base, l, n)
    BY SubsetRecursion
  <2> HIDE DEF Made, last, then
  <2>2. Made(Recorded, Tables, Nothing, last, then)
    BY <1>1, <1>3, <1>4, <2>1, Zenon
  <2> QED BY <2>2 DEF Made
<1>6. ASSUME NEW T \in (SUBSET Recorded) \ {{}}
      PROVE  h[T] = Meaning(h[T \ {Latest(T)}], Latest(T))
  <2>1. last[T] = Latest(T) /\ Latest(T) \in Recorded
    BY <1>2
  <2>2. h[T \ {Latest(T)}] \in Tables
    BY <1>5
  <2>3. then[Latest(T)][h[T \ {Latest(T)}]] = Meaning(h[T \ {Latest(T)}], Latest(T))
    BY <2>1, <2>2
  <2> HIDE DEF last, then
  <2> QED BY <1>5, <2>1, <2>3
<1>7. Is(h)
  <2>1. \A calls \in SUBSET Recorded :
           h[calls] = IF calls = {} THEN Nothing
                      ELSE Meaning(h[calls \ {Latest(calls)}], Latest(calls))
    BY <1>5, <1>6
  <2> QED BY <1>5, <2>1
<1>8. Fold = fold
  BY DEF Fold, Nothing
<1> HIDE DEF Is
<1>9. Is(fold)
  BY <1>7
<1> HIDE DEF fold
<1>10. Is(Fold)
  BY <1>8, <1>9
<1>11. \A calls \in SUBSET Recorded :
           Fold[calls] = IF calls = {} THEN Nothing
                         ELSE Meaning(Fold[calls \ {Latest(calls)}], Latest(calls))
  BY <1>10, Zenon DEF Is
<1>12. Fold[{}] = Nothing
  BY <1>11
<1>13. ASSUME NEW S \in SUBSET Recorded, NEW c \in S, \A d \in S \ {c} : Precedes(d, c)
       PROVE  Fold[S] = Meaning(Fold[S \ {c}], c)
  <2>1. Latest(S) = c /\ S # {}
    BY <1>13, LatestIsLast
  <2> QED BY <1>11, <2>1
<1> QED BY <1>12, <1>13 DEF FoldsStep
----------------------------------------------------------------------------
\* What a recorded call means does not change, nor where it stands.
LEMMA CallStays ==
    ASSUME TypeInv, Grows, NEW c, IsCall(c)
    PROVE  /\ IsCall(c)' /\ CallOf(c)' = CallOf(c) /\ Text(c)' = Text(c)
           /\ NewId(c)' = NewId(c) /\ Target(c)' = Target(c)
           /\ NewIdentity(c)' = NewIdentity(c)
           /\ turns'[c.src] = turns[c.src]
<1>1. turns'[c.src] = turns[c.src] /\ c.src \in DOMAIN turns'
  BY DEF Grows, IsCall
<1>2. wakes'[turns'[c.src].wake].kind = wakes[turns[c.src].wake].kind
  BY <1>1 DEF Grows, IsCall, TypeInv, TurnsHaveWakes
<1> QED BY <1>1, <1>2 DEF IsCall, CallOf, Text, NewId, Target, NewIdentity

\* So the step it makes in a table does not either ...
LEMMA MeaningStays ==
    ASSUME TypeInv, Grows, NEW rows, NEW c, IsCall(c)
    PROVE  Meaning(rows, c)' = Meaning(rows, c)
<1>1. /\ CallOf(c)' = CallOf(c) /\ Text(c)' = Text(c)
      /\ NewId(c)' = NewId(c) /\ Target(c)' = Target(c)
      /\ NewIdentity(c)' = NewIdentity(c)
  BY CallStays
<1>2. With(rows, c)' = With(rows, c)
  BY <1>1, Zenon DEF With
<1>3. Duplicate(rows, c)' <=> Duplicate(rows, c)
  BY <1>1 DEF Duplicate
<1>4. Written(rows, c)' = Written(rows, c)
  BY <1>1, <1>2, <1>3 DEF Written
<1>5. Superseded(rows, c)' = Superseded(rows, c)
  BY <1>1, <1>2, Zenon DEF Superseded
<1> QED BY <1>1, <1>4, <1>5, Zenon DEF Meaning

\* ... nor what comes before what ...
LEMMA PrecedesStays ==
    ASSUME TypeInv, Grows, NEW c, NEW d, IsCall(c), IsCall(d)
    PROVE  Precedes(c, d)' <=> Precedes(c, d)
BY CallStays DEF Precedes

\* ... and what was decided remains decided.
LEMMA RecordedStays ==
    ASSUME TypeInv, Grows
    PROVE  Recorded \subseteq Recorded'
<1> SUFFICES ASSUME NEW c \in Recorded
             PROVE  c \in Recorded'
  OBVIOUS
<1>1. IsCall(c) /\ CallOf(c).tool \in {"write", "supersede"} /\ c = [src |-> c.src, idx |-> c.idx]
  BY RecordedCalls
<1>2. IsCall(c)' /\ CallOf(c)' = CallOf(c)
  BY <1>1, CallStays
<1>3. c.src \in DOMAIN turns' /\ c.idx \in DOMAIN turns'[c.src].calls
  BY <1>2 DEF IsCall
<1>4. c \in CallsOf(c.src)'
  BY <1>1, <1>3 DEF CallsOf
<1> QED BY <1>1, <1>2, <1>3, <1>4 DEF Recorded

\* The same of the next state.
LEMMA FoldIsRecursiveNext == TypeInv' => FoldsStep'
<1>1. TypeInv => FoldsStep
  BY FoldIsRecursive
<1> QED BY <1>1, PTL

\* What is derived from the recorded calls does not change when others come.
LEMMA FoldStays ==
    ASSUME TypeInv, TypeInv', Grows, NEW S \in SUBSET Recorded
    PROVE  Fold'[S] = Fold[S]
<1>1. FoldsStep /\ FoldsStep' /\ Recorded \subseteq Recorded' /\ IsFiniteSet(Recorded)
  BY FoldIsRecursive, FoldIsRecursiveNext, RecordedStays, RecordedFinite
<1> DEFINE m == Cardinality(Recorded)
           Same == {n \in 0 .. m : \A T \in SUBSET Recorded :
                                      Cardinality(T) = n => Fold'[T] = Fold[T]}
<1>2. m \in Nat /\ \A T \in SUBSET Recorded : IsFiniteSet(T) /\ Cardinality(T) \in 0 .. m
  <2>1. m \in Nat
    BY <1>1, FS_CardinalityType
  <2>2. ASSUME NEW T \in SUBSET Recorded
        PROVE  IsFiniteSet(T) /\ Cardinality(T) \in 0 .. m
    <3>1. IsFiniteSet(T) /\ Cardinality(T) <= m
      BY <1>1, FS_Subset
    <3>2. Cardinality(T) \in Nat
      BY <3>1, FS_CardinalityType
    <3> QED BY <2>1, <3>1, <3>2
  <2> QED BY <2>1, <2>2
<1>3. 0 \in Same
  <2>1. \A T \in SUBSET Recorded : Cardinality(T) = 0 => T = {}
    BY <1>2, FS_EmptySet
  <2>2. Fold'[{}] = Fold[{}]
    BY <1>1 DEF FoldsStep, Nothing
  <2> QED BY <1>2, <2>1, <2>2
<1>4. ASSUME NEW n \in 1 .. m, n - 1 \in Same
      PROVE  n \in Same
  <2>1. ASSUME NEW T \in SUBSET Recorded, Cardinality(T) = n
        PROVE  Fold'[T] = Fold[T]
    <3>0. n # 0 /\ n \in 0 .. m
      BY <1>2
    <3>1. T # {}
      BY <2>1, <3>0, FS_EmptySet
    <3>2. PICK c \in T : \A d \in T \ {c} : Precedes(d, c)
      BY <3>1, OneIsLast
    <3> DEFINE U == T \ {c}
    <3>3. Cardinality(U) = n - 1 /\ U \in SUBSET Recorded
      <4>1. IsFiniteSet(T) /\ c \in T
        BY <1>2
      <4> QED BY <2>1, <4>1, FS_RemoveElement
    <3>4. Fold'[U] = Fold[U]
      BY <1>4, <3>3
    <3>5. \A d \in T : IsCall(d)
      BY RecordedCalls
    <3>6. \A d \in U : Precedes(d, c)'
      BY <3>2, <3>5, PrecedesStays
    <3>7. T \in SUBSET Recorded'
      BY <1>1
    <3>8. \A rows : rows = Fold[U] => Fold[T] = Meaning(rows, c)
      BY <1>1, <3>2 DEF FoldsStep
    <3>9. \A rows : rows = Fold'[U] => Fold'[T] = Meaning(rows, c)'
      BY <1>1, <3>6, <3>7 DEF FoldsStep
    <3>10. \A rows : Meaning(rows, c)' = Meaning(rows, c)
      BY <3>5, MeaningStays
    <3> HIDE DEF U
    <3> QED BY <3>4, <3>8, <3>9, <3>10
  <2>2. n \in 0 .. m
    BY <1>2
  <2> HIDE DEF m
  <2> QED BY <2>1, <2>2
<1>5. 0 .. m \subseteq Same
  <2> HIDE DEF Same, m
  <2> QED BY <1>2, <1>3, <1>4, SetInduction
<1>6. Cardinality(S) \in Same
  <2> HIDE DEF Same, m
  <2> QED BY <1>2, <1>5
<1> QED BY <1>6
----------------------------------------------------------------------------
\* A call in progress: the table is what it was before the call, or that with
\* the new row, and what the call found still holds.
InProgress(rows, base, o) ==
    \/ o = None /\ rows = base
    \/ /\ o # None
       /\ Text(o.call) # None
       /\ CallOf(o.call).tool = "write" => o.step = "upsert" /\ ~Duplicate(base, o.call)
       /\ CallOf(o.call).tool = "supersede" => Target(o.call) \in DOMAIN base
       /\ o.step = "upsert" => rows = base /\ NewId(o.call) \notin DOMAIN base
       /\ o.step # "upsert" => rows = With(base, o.call)
       /\ o.step = "set" => rows[Target(o.call)].superseded_by \in {None, NewId(o.call)}

\* The store without its dates is a table.
LEMMA IdentitiesAre ==
    ASSUME TypeInv
    PROVE  /\ Identities(memories) \in Tables /\ DOMAIN Identities(memories) = Ids
           /\ \A i \in Ids : /\ Identities(memories)[i] = Identity(memories[i])
                             /\ Identities(memories)[i].superseded_by = memories[i].superseded_by
<1>1. Ids \subseteq MemoryIds /\ \A i \in Ids : memories[i] \in Rows
  BY DEF TypeInv, TypeOK, Ids
<1>2. \A i \in Ids : Identity(memories[i]) \in RowIdentities
  BY <1>1 DEF Rows, Identity, RowIdentities
<1>3. /\ DOMAIN Identities(memories) = Ids
      /\ \A i \in Ids : Identities(memories)[i] = Identity(memories[i])
  BY DEF Identities, Ids
<1>4. Identities(memories) \in [Ids -> RowIdentities]
  BY <1>2 DEF Identities, Ids
<1>5. Identities(memories) \in Tables
  BY <1>1, <1>3, <1>4, TableIs
<1> QED BY <1>3, <1>5 DEF Identity

\* The duplicate check looks at the table alone.
LEMMA ChecksAre ==
    ASSUME TypeInv, NEW c
    PROVE  NearDuplicate(Text(c)) <=> Duplicate(Identities(memories), c)
BY IdentitiesAre DEF NearDuplicate, Duplicate, Live

\* What an upsert does to the table ...
LEMMA UpsertAdds ==
    ASSUME TypeInv, NEW c, NewId(c) \notin Ids, NEW at,
           memories' = [i \in Ids \cup {NewId(c)} |->
                          IF i = NewId(c)
                          THEN Row(wakes[turns[c.src].wake].kind, Target(c), at)
                          ELSE memories[i]]
    PROVE  Identities(memories') = With(Identities(memories), c)
<1> DEFINE rows == Identities(memories)
           row == Row(wakes[turns[c.src].wake].kind, Target(c), at)
<1>1. DOMAIN rows = Ids /\ \A i \in Ids : rows[i] = Identity(memories[i])
  BY IdentitiesAre
<1>2. Identity(row) = NewIdentity(c)
  BY DEF Row, Identity, NewIdentity
<1> HIDE DEF row
<1>3. memories' = [i \in Ids \cup {NewId(c)} |-> IF i = NewId(c) THEN row ELSE memories[i]]
  BY DEF row
<1>4. /\ DOMAIN Identities(memories') = Ids \cup {NewId(c)}
      /\ \A i \in Ids \cup {NewId(c)} : Identities(memories')[i] = Identity(memories'[i])
  BY <1>3 DEF Identities
<1>5. \A i \in Ids \cup {NewId(c)} :
         Identities(memories')[i] = IF i \in Ids THEN rows[i] ELSE NewIdentity(c)
  BY <1>1, <1>2, <1>3, <1>4
<1> HIDE DEF rows
<1>6. With(rows, c) = [i \in Ids \cup {NewId(c)} |-> IF i \in Ids THEN rows[i] ELSE NewIdentity(c)]
  BY <1>1 DEF With
<1>7. Identities(memories') = [i \in Ids \cup {NewId(c)} |-> Identities(memories')[i]]
  BY <1>4 DEF Identities
<1> QED BY <1>5, <1>6, <1>7 DEF rows

\* ... and a mark.
LEMMA MarkSets ==
    ASSUME TypeInv, NEW c,
           memories' = [i \in Ids |->
                          IF i = Target(c)
                          THEN [memories[i] EXCEPT !.superseded_by = NewId(c)]
                          ELSE memories[i]]
    PROVE  Identities(memories') =
              [i \in Ids |-> IF i = Target(c)
                             THEN [Identities(memories)[i] EXCEPT !.superseded_by = NewId(c)]
                             ELSE Identities(memories)[i]]
<1>1. \A i \in Ids : Identities(memories)[i] = Identity(memories[i]) /\ memories[i] \in Rows
  BY IdentitiesAre DEF TypeInv, TypeOK, Ids
<1>2. ASSUME NEW row \in Rows
      PROVE  Identity([row EXCEPT !.superseded_by = NewId(c)])
                = [Identity(row) EXCEPT !.superseded_by = NewId(c)]
  BY DEF Identity, Rows
<1>3. Identities(memories') = [i \in Ids |-> Identity(memories'[i])]
  BY DEF Identities
<1>4. ASSUME NEW i \in Ids
      PROVE  Identity(memories'[i]) = IF i = Target(c)
                             THEN [Identities(memories)[i] EXCEPT !.superseded_by = NewId(c)]
                             ELSE Identities(memories)[i]
  <2>1. memories'[i] = IF i = Target(c)
                       THEN [memories[i] EXCEPT !.superseded_by = NewId(c)] ELSE memories[i]
    OBVIOUS
  <2> QED BY <1>1, <1>2, <2>1
<1> QED BY <1>3, <1>4

\* A supersede whose target was retired before ends with its row written ...
LEMMA EndsUnmarked ==
    ASSUME NEW base, NEW c, Text(c) # None, Target(c) \in DOMAIN base,
           With(base, c) \in Tables, With(base, c)[Target(c)].superseded_by # None
    PROVE  Superseded(base, c) = With(base, c)
<1> DEFINE t == With(base, c)
           r == t[Target(c)]
<1>1. t \in [DOMAIN t -> RowIdentities] /\ Target(c) \in DOMAIN t
  BY TableIs DEF With
<1>2. r \in RowIdentities /\ r.superseded_by # None
  BY <1>1
<1>3. Superseded(base, c) = [t EXCEPT ![Target(c)] =
          [r EXCEPT !.superseded_by = IF r.superseded_by = None THEN NewId(c) ELSE r.superseded_by]]
  BY DEF Superseded
<1> HIDE DEF t
<1>4. [r EXCEPT !.superseded_by = IF r.superseded_by = None THEN NewId(c) ELSE r.superseded_by] = r
  <2> HIDE DEF r
  <2> QED BY <1>2 DEF RowIdentities
<1> QED BY <1>1, <1>3, <1>4 DEF t

\* ... another one with its target retired by it.
LEMMA EndsMarked ==
    ASSUME NEW base, NEW c, Text(c) # None, Target(c) \in DOMAIN base,
           With(base, c) \in Tables,
           With(base, c)[Target(c)].superseded_by \in {None, NewId(c)}
    PROVE  Superseded(base, c) =
              [i \in DOMAIN With(base, c) |->
                 IF i = Target(c)
                 THEN [With(base, c)[i] EXCEPT !.superseded_by = NewId(c)]
                 ELSE With(base, c)[i]]
<1> DEFINE t == With(base, c)
           r == t[Target(c)]
           by == IF r.superseded_by = None THEN NewId(c) ELSE r.superseded_by
<1>1. t \in [DOMAIN t -> RowIdentities] /\ Target(c) \in DOMAIN t
  BY TableIs DEF With
<1>2. by = NewId(c)
  OBVIOUS
<1>3. Superseded(base, c) = [t EXCEPT ![Target(c)] = [r EXCEPT !.superseded_by = by]]
  BY DEF Superseded
<1> HIDE DEF by
<1>4. Superseded(base, c) = [t EXCEPT ![Target(c)] = [r EXCEPT !.superseded_by = NewId(c)]]
  BY <1>2, <1>3
<1> HIDE DEF t
<1> QED BY <1>1, <1>4 DEF t
----------------------------------------------------------------------------
\* None is not taken for an operation.
NoneIsNoOperation == None \notin Operations

\* What a process does next ends a call, the first it has to do ...
Ends(p, c, base) ==
    /\ c \in todo[p] /\ \A d \in todo[p] : ~Precedes(d, c)
    /\ todo'[p] = todo[p] \ {c} /\ op'[p] = None
    /\ CallOf(c).tool \in {"write", "supersede"}
          => Identities(memories') = Meaning(base, c)
    /\ CallOf(c).tool \notin {"write", "supersede"} => Identities(memories') = base

\* ... or goes on with it.
GoesOn(p, base) ==
    todo'[p] = todo[p] /\ InProgress(Identities(memories'), base, op'[p])

\* A call ends with its reply ...
LEMMA AnswerEnds ==
    ASSUME TypeInv, NEW p \in Procs, NEW base, NEW c \in todo[p],
           \A d \in todo[p] : ~Precedes(d, c), Answered(p, c),
           CallOf(c).tool \in {"write", "supersede"}
              => Identities(memories') = Meaning(base, c),
           CallOf(c).tool \notin {"write", "supersede"} => Identities(memories') = base
    PROVE  \E d : Ends(p, d, base)
<1>1. todo'[p] = todo[p] \ {c} /\ op'[p] = None
  BY DEF Answered, TypeInv, TypeOK
<1>2. Ends(p, c, base)
  BY <1>1 DEF Ends
<1> QED BY <1>2

\* ... and goes on as an operation.
LEMMA GoingHas ==
    ASSUME TypeInv, NoneIsNoOperation, NEW p \in Procs, NEW c \in Calls,
           NEW step \in {"upsert", "mark", "set"}, NEW at \in Nat, Going(p, c, step, at)
    PROVE  /\ todo'[p] = todo[p] /\ op'[p] # None
           /\ op'[p].call = c /\ op'[p].step = step
<1>1. op'[p] = [step |-> step, call |-> c, at |-> at] /\ todo' = todo
  BY DEF Going, TypeInv, TypeOK
<1>2. [step |-> step, call |-> c, at |-> at] \in Operations
  BY DEF Operations
<1> QED BY <1>1, <1>2 DEF NoneIsNoOperation

\* The first call is answered at once ...
LEMMA FirstIsAnswered ==
    ASSUME TypeInv, NEW p \in Procs, NEW base, InProgress(Identities(memories), base, op[p]),
           RejectWrite(p) \/ VoidSupersede(p) \/ RejectMisshapen(p) \/ DispatchSearch(p)
    PROVE  \E c : Ends(p, c, base)
<1> DEFINE rows == Identities(memories)
<1>1. PICK c \in todo[p] : /\ IsNext(p, c) /\ Answered(p, c) /\ memories' = memories
                           /\ \/ CallOf(c).tool = "write" /\ WriteRejected(c)
                              \/ CallOf(c).tool = "supersede" /\ SupersedeVoid(c)
                              \/ NoObject(c)
                              \/ CallOf(c).tool = "search"
  BY DEF RejectWrite, VoidSupersede, RejectMisshapen, DispatchSearch
<1>2. base = rows /\ \A d \in todo[p] : ~Precedes(d, c)
  BY <1>1 DEF InProgress, IsNext
<1>3. Identities(memories') = rows
  BY <1>1
<1>4. /\ rows \in Tables /\ DOMAIN rows = Ids
      /\ \A i \in Ids : rows[i].superseded_by = memories[i].superseded_by
  BY IdentitiesAre
<1>5. CASE CallOf(c).tool = "write" /\ WriteRejected(c)
  <2>1. Text(c) = None \/ NewId(c) \in Ids \/ Duplicate(rows, c)
    BY <1>5, ChecksAre DEF WriteRejected
  <2> HIDE DEF rows
  <2>2. Meaning(rows, c) = rows
    BY <1>4, <1>5, <2>1 DEF Meaning, Written
  <2> QED BY <1>1, <1>2, <1>3, <1>5, <2>2, AnswerEnds
<1>6. CASE CallOf(c).tool = "supersede" /\ SupersedeVoid(c)
  <2> HIDE DEF rows
  <2>1. CASE Text(c) = None \/ Target(c) \notin Ids
    <3>1. Meaning(rows, c) = rows
      BY <1>4, <1>6, <2>1 DEF Meaning, Superseded
    <3> QED BY <1>1, <1>2, <1>3, <1>6, <3>1, AnswerEnds
  <2>2. CASE Text(c) # None /\ Target(c) \in Ids
    <3>1. NewId(c) \in DOMAIN rows /\ rows[Target(c)].superseded_by # None
      BY <1>4, <1>6, <2>2 DEF SupersedeVoid
    <3>2. With(rows, c) = rows
      <4>1. With(rows, c) = [i \in DOMAIN rows |-> rows[i]]
        BY <3>1 DEF With
      <4>2. rows \in [DOMAIN rows -> RowIdentities]
        BY <1>4, TableIs
      <4> QED BY <4>1, <4>2
    <3>3. Superseded(rows, c) = rows
      BY <1>4, <2>2, <3>1, <3>2, EndsUnmarked
    <3>4. Meaning(rows, c) = rows
      BY <1>6, <3>3 DEF Meaning
    <3> QED BY <1>1, <1>2, <1>3, <1>6, <3>4, AnswerEnds
  <2> QED BY <2>1, <2>2
<1>7. CASE NoObject(c) \/ CallOf(c).tool = "search"
  BY <1>1, <1>2, <1>3, <1>7, AnswerEnds DEF NoObject
<1> QED BY <1>1, <1>5, <1>6, <1>7

\* ... or begins.
LEMMA FirstBegins ==
    ASSUME TypeInv, NoneIsNoOperation, NEW p \in Procs, NEW base,
           InProgress(Identities(memories), base, op[p]),
           AcceptWrite(p) \/ ReapplyMark(p) \/ AcceptSupersede(p)
    PROVE  GoesOn(p, base)
<1> DEFINE rows == Identities(memories)
<1> DEFINE Begun(c, step, at) ==
              /\ IsNext(p, c) /\ Going(p, c, step, at) /\ memories' = memories
              /\ \/ CallOf(c).tool = "write" /\ ~WriteRejected(c) /\ step = "upsert" /\ at = Now
                 \/ /\ CallOf(c).tool = "supersede" /\ ~SupersedeVoid(c) /\ NewId(c) \in Ids
                    /\ step = "mark" /\ at = Now
                 \/ /\ CallOf(c).tool = "supersede" /\ ~SupersedeVoid(c) /\ NewId(c) \notin Ids
                    /\ step = "upsert" /\ at = memories[Target(c)].occurred_at
<1>0. PICK c \in todo[p], step \in {"upsert", "mark"} : \E at : Begun(c, step, at)
  <2>1. CASE AcceptWrite(p)
    <3>1. PICK c \in todo[p] : Begun(c, "upsert", Now)
      BY <2>1 DEF AcceptWrite
    <3> HIDE DEF Begun
    <3> QED BY <3>1
  <2>2. CASE ReapplyMark(p)
    <3>1. PICK c \in todo[p] : Begun(c, "mark", Now)
      BY <2>2 DEF ReapplyMark
    <3> HIDE DEF Begun
    <3> QED BY <3>1
  <2>3. CASE AcceptSupersede(p)
    <3>1. PICK c \in todo[p] : Begun(c, "upsert", memories[Target(c)].occurred_at)
      BY <2>3 DEF AcceptSupersede
    <3> HIDE DEF Begun
    <3> QED BY <3>1
  <2> QED BY <2>1, <2>2, <2>3
<1>1. PICK at : Begun(c, step, at)
  BY <1>0
<1>2. base = rows
  BY <1>1 DEF InProgress, IsNext
<1>3. Identities(memories') = rows
  BY <1>1
<1>4. /\ rows \in Tables /\ DOMAIN rows = Ids
  BY IdentitiesAre
<1>5. at \in Nat /\ c \in Calls
  <2>1. Now \in Nat /\ c \in Calls
    BY DEF TypeInv, TypeOK, Now
  <2>2. \A i \in Ids : memories[i].occurred_at \in Nat
    BY DEF TypeInv, TypeOK, Ids, Rows
  <2> QED BY <1>1, <2>1, <2>2 DEF SupersedeVoid
<1>6. todo'[p] = todo[p] /\ op'[p] # None /\ op'[p].call = c /\ op'[p].step = step
  BY <1>1, <1>5, GoingHas
<1>7. CASE CallOf(c).tool = "write" /\ ~WriteRejected(c) /\ step = "upsert"
  <2>1. Text(c) # None /\ NewId(c) \notin Ids /\ ~Duplicate(rows, c)
    BY <1>7, ChecksAre DEF WriteRejected
  <2> HIDE DEF rows
  <2> QED BY <1>2, <1>3, <1>4, <1>6, <1>7, <2>1 DEF GoesOn, InProgress
<1>8. CASE /\ CallOf(c).tool = "supersede" /\ ~SupersedeVoid(c) /\ NewId(c) \in Ids
           /\ step = "mark"
  <2> HIDE DEF rows
  <2>1. Text(c) # None /\ Target(c) \in Ids
    BY <1>8 DEF SupersedeVoid
  <2>2. With(rows, c) = rows
    <3>1. With(rows, c) = [i \in DOMAIN rows |-> rows[i]]
      BY <1>4, <1>8 DEF With
    <3>2. rows \in [DOMAIN rows -> RowIdentities]
      BY <1>4, TableIs
    <3> QED BY <3>1, <3>2
  <2> QED BY <1>2, <1>3, <1>4, <1>6, <1>8, <2>1, <2>2 DEF GoesOn, InProgress
<1>9. CASE /\ CallOf(c).tool = "supersede" /\ ~SupersedeVoid(c) /\ NewId(c) \notin Ids
           /\ step = "upsert"
  <2> HIDE DEF rows
  <2>1. Text(c) # None /\ Target(c) \in Ids
    BY <1>9 DEF SupersedeVoid
  <2> QED BY <1>2, <1>3, <1>4, <1>6, <1>9, <2>1 DEF GoesOn, InProgress
<1> QED BY <1>1, <1>7, <1>8, <1>9
----------------------------------------------------------------------------
\* The call in hand goes on, or ends as it means.
LEMMA InHandDerives ==
    ASSUME TypeInv, OpInHand, FirstInHand, WriteIsNew, NoneIsNoOperation,
           NEW p \in Procs, NEW base, InProgress(Identities(memories), base, op[p]),
           Upsert(p) \/ RefuseMark(p) \/ CheckMark(p) \/ SetMark(p)
    PROVE  GoesOn(p, base) \/ \E c : Ends(p, c, base)
<1> DEFINE rows == Identities(memories)
           c == op[p].call
<1>0. op[p] # None
  BY DEF Upsert, RefuseMark, CheckMark, SetMark
<1>1. /\ c \in todo[p] /\ c \in Calls /\ op[p].at \in Nat /\ \A d \in todo[p] : ~Precedes(d, c)
      /\ CallOf(c).tool \in {"write", "supersede"} /\ Text(c) # None
      /\ op[p].step \in {"upsert", "mark", "set"}
      /\ op[p].step = "upsert" => NewId(c) \notin Ids
      /\ op[p].step # "upsert" => CallOf(c).tool = "supersede"
  <2>1. op[p] \in Operations
    BY <1>0 DEF TypeInv, TypeOK
  <2> QED BY <1>0, <2>1 DEF TypeInv, OpCommitted, OpInHand, FirstInHand, WriteIsNew, Operations
<1>2. /\ rows \in Tables /\ DOMAIN rows = Ids
      /\ \A i \in Ids : rows[i].superseded_by = memories[i].superseded_by
  BY IdentitiesAre
<1>3. /\ CallOf(c).tool = "write" => op[p].step = "upsert" /\ ~Duplicate(base, c)
      /\ CallOf(c).tool = "supersede" => Target(c) \in DOMAIN base
      /\ op[p].step = "upsert" => rows = base /\ NewId(c) \notin DOMAIN base
      /\ op[p].step # "upsert" => rows = With(base, c)
      /\ op[p].step = "set" => rows[Target(c)].superseded_by \in {None, NewId(c)}
  BY <1>0 DEF InProgress
<1>4. op[p].step # "upsert" => Target(c) \in Ids
  <2>1. op[p].step # "upsert" => rows = With(base, c) /\ Target(c) \in DOMAIN base
    BY <1>1, <1>3
  <2>2. DOMAIN base \subseteq DOMAIN With(base, c)
    BY DEF With
  <2> HIDE DEF rows
  <2> QED BY <1>2, <2>1, <2>2
<1>5. CASE Upsert(p)
  <2>1. /\ op[p].step = "upsert"
        /\ memories' = [i \in Ids \cup {NewId(c)} |->
                          IF i = NewId(c)
                          THEN Row(wakes[turns[c.src].wake].kind, Target(c), op[p].at)
                          ELSE memories[i]]
        /\ IF CallOf(c).tool = "supersede"
           THEN Going(p, c, "mark", op[p].at) ELSE Answered(p, c)
    BY <1>5 DEF Upsert
  <2>2. Identities(memories') = With(rows, c)
    BY <1>1, <2>1, UpsertAdds
  <2>3. rows = base
    BY <1>3, <2>1
  <2> HIDE DEF rows, c
  <2>4. CASE CallOf(c).tool = "supersede"
    <3>1. todo'[p] = todo[p] /\ op'[p] # None /\ op'[p].call = c /\ op'[p].step = "mark"
      BY <1>1, <2>1, <2>4, GoingHas
    <3>2. Target(c) \in DOMAIN base
      BY <1>3, <2>4
    <3> QED BY <1>1, <2>2, <2>3, <2>4, <3>1, <3>2 DEF GoesOn, InProgress
  <2>5. CASE CallOf(c).tool = "write"
    <3>1. NewId(c) \notin DOMAIN base /\ ~Duplicate(base, c)
      BY <1>3, <2>1, <2>5
    <3>2. Meaning(base, c) = With(base, c)
      BY <1>1, <2>5, <3>1 DEF Meaning, Written
    <3>3. Answered(p, c)
      BY <2>1, <2>5
    <3> QED BY <1>1, <2>2, <2>3, <2>5, <3>2, <3>3, AnswerEnds
  <2> QED BY <1>1, <2>4, <2>5
<1>6. CASE RefuseMark(p)
  <2>1. op[p].step = "mark" /\ Unmarkable(c) /\ Answered(p, c) /\ memories' = memories
    BY <1>6 DEF RefuseMark
  <2>2. rows = With(base, c) /\ Target(c) \in Ids /\ CallOf(c).tool = "supersede"
        /\ Target(c) \in DOMAIN base
    BY <1>1, <1>3, <1>4, <2>1
  <2>3. memories[Target(c)].superseded_by # None
    BY <2>1, <2>2 DEF Unmarkable
  <2>4. Identities(memories') = rows
    BY <2>1
  <2>5. rows[Target(c)].superseded_by # None
    BY <1>2, <2>2, <2>3
  <2> HIDE DEF rows, c
  <2>6. Superseded(base, c) = With(base, c)
    <3>1. With(base, c) \in Tables /\ With(base, c)[Target(c)].superseded_by # None
      BY <1>2, <2>2, <2>5
    <3> QED BY <1>1, <2>2, <3>1, EndsUnmarked
  <2>7. Meaning(base, c) = With(base, c)
    BY <2>2, <2>6 DEF Meaning
  <2> QED BY <1>1, <2>1, <2>2, <2>4, <2>7, AnswerEnds
<1>7. CASE CheckMark(p)
  <2>1. /\ op[p].step = "mark" /\ ~Unmarkable(c) /\ memories' = memories
        /\ Going(p, c, "set", op[p].at)
    BY <1>7 DEF CheckMark
  <2>2. rows = With(base, c) /\ Target(c) \in Ids /\ CallOf(c).tool = "supersede"
        /\ Target(c) \in DOMAIN base
    BY <1>1, <1>3, <1>4, <2>1
  <2>3. memories[Target(c)].superseded_by \in {None, NewId(c)}
    BY <2>1, <2>2 DEF Unmarkable
  <2>4. Identities(memories') = rows
    BY <2>1
  <2>5. rows[Target(c)].superseded_by \in {None, NewId(c)}
    BY <1>2, <2>2, <2>3
  <2>6. todo'[p] = todo[p] /\ op'[p] # None /\ op'[p].call = c /\ op'[p].step = "set"
    BY <1>1, <2>1, GoingHas
  <2> HIDE DEF rows, c
  <2> QED BY <1>1, <2>2, <2>4, <2>5, <2>6 DEF GoesOn, InProgress
<1>8. CASE SetMark(p)
  <2>1. /\ op[p].step = "set" /\ Answered(p, c)
        /\ memories' = [i \in Ids |->
                          IF i = Target(c)
                          THEN [memories[i] EXCEPT !.superseded_by = NewId(c)]
                          ELSE memories[i]]
    BY <1>8 DEF SetMark
  <2>2. rows = With(base, c) /\ CallOf(c).tool = "supersede" /\ Target(c) \in DOMAIN base
        /\ rows[Target(c)].superseded_by \in {None, NewId(c)}
    BY <1>1, <1>3, <2>1
  <2>3. Identities(memories') =
              [i \in Ids |-> IF i = Target(c)
                             THEN [rows[i] EXCEPT !.superseded_by = NewId(c)]
                             ELSE rows[i]]
    BY <2>1, MarkSets
  <2> HIDE DEF rows, c
  <2>4. Superseded(base, c) =
              [i \in DOMAIN With(base, c) |->
                 IF i = Target(c)
                 THEN [With(base, c)[i] EXCEPT !.superseded_by = NewId(c)]
                 ELSE With(base, c)[i]]
    <3>1. With(base, c) \in Tables /\ With(base, c)[Target(c)].superseded_by \in {None, NewId(c)}
      BY <1>2, <2>2
    <3> QED BY <1>1, <2>2, <3>1, EndsMarked
  <2>5. Superseded(base, c) = Identities(memories')
    BY <1>2, <2>2, <2>3, <2>4, Zenon
  <2>6. Meaning(base, c) = Superseded(base, c)
    BY <2>2 DEF Meaning
  <2> QED BY <1>1, <2>1, <2>2, <2>5, <2>6, AnswerEnds
<1> QED BY <1>5, <1>6, <1>7, <1>8

\* The commits of a dispatch, one after the other, are the meaning of the call.
LEMMA DispatchDerives ==
    ASSUME TypeInv, OpInHand, FirstInHand, WriteIsNew, NoneIsNoOperation,
           NEW p \in Procs, Dispatch(p),
           NEW base, InProgress(Identities(memories), base, op[p])
    PROVE  GoesOn(p, base) \/ \E c : Ends(p, c, base)
BY FirstIsAnswered, FirstBegins, InHandDerives DEF Dispatch
----------------------------------------------------------------------------
\* Of the calls in X, those p has not to do any more were done in the order of
\* history, and the table is what they mean but for the call in progress.
Derives(p, X) ==
    /\ X \subseteq Recorded /\ todo[p] \cap Recorded \subseteq X
    /\ \A c \in X \ todo[p], d \in todo[p] : Precedes(c, d)
    /\ \A base \in {Fold[X \ todo[p]]} : InProgress(Identities(memories), base, op[p])

\* A call in progress is in progress whatever is recorded besides.
LEMMA InProgressStays ==
    ASSUME TypeInv, Grows, NEW rows, NEW base, NEW o, o # None => IsCall(o.call),
           InProgress(rows, base, o)
    PROVE  InProgress(rows, base, o)'
<1>1. CASE o = None
  BY <1>1 DEF InProgress
<1>2. CASE o # None
  <2>1. /\ CallOf(o.call)' = CallOf(o.call) /\ Text(o.call)' = Text(o.call)
        /\ NewId(o.call)' = NewId(o.call) /\ Target(o.call)' = Target(o.call)
        /\ NewIdentity(o.call)' = NewIdentity(o.call)
    BY <1>2, CallStays
  <2>2. With(base, o.call)' = With(base, o.call)
    BY <2>1, Zenon DEF With
  <2>3. Duplicate(base, o.call)' <=> Duplicate(base, o.call)
    BY <2>1 DEF Duplicate
  <2> QED BY <1>2, <2>1, <2>2, <2>3 DEF InProgress
<1> QED BY <1>1, <1>2

\* A dispatch leaves the turns, and with them what they record.
LEMMA DispatchRecords ==
    ASSUME NEW p \in Procs, Dispatch(p)
    PROVE  turns' = turns /\ Recorded' = Recorded
<1>1. turns' = turns
  BY DEF Dispatch, DispatchSearch, RecordRetrieval, historyVars
<1> QED BY <1>1 DEF Recorded, CallsOf, CallOf

\* A step of a dispatch goes on deriving the table.
LEMMA DerivesNext ==
    ASSUME TypeInv, TypeInv', Grows, OpInHand, FirstInHand, WriteIsNew, NoneIsNoOperation,
           NEW p \in Procs, Dispatch(p), NEW X, Derives(p, X)
    PROVE  Derives(p, X)'
<1>0. /\ todo \in [Procs -> SUBSET Calls] /\ op' \in [Procs -> Operations \cup {None}]
      /\ \A c \in todo[p] : IsCall(c) /\ c = [src |-> c.src, idx |-> c.idx]
      /\ \A c \in Recorded : IsCall(c)
  <2>1. todo \in [Procs -> SUBSET Calls] /\ op' \in [Procs -> Operations \cup {None}]
    BY DEF TypeInv, TypeOK
  <2>2. \A c \in todo[p] : IsCall(c) /\ c = [src |-> c.src, idx |-> c.idx]
    BY <2>1 DEF TypeInv, TodoCommitted, Calls
  <2> QED BY <2>1, <2>2, RecordedCalls
<1>1. turns' = turns /\ Recorded' = Recorded
  BY DispatchRecords
<1>2. /\ X \subseteq Recorded /\ todo[p] \cap Recorded \subseteq X
      /\ \A c \in X \ todo[p], d \in todo[p] : Precedes(c, d)
      /\ InProgress(Identities(memories), Fold[X \ todo[p]], op[p])
  BY DEF Derives
<1>3. PICK base : base = Fold[X \ todo[p]]
  OBVIOUS
<1>4. GoesOn(p, base) \/ \E c : Ends(p, c, base)
  BY <1>2, <1>3, DispatchDerives
<1>5. ASSUME NEW c, NEW d, IsCall(c), IsCall(d), Precedes(c, d)
      PROVE  Precedes(c, d)'
  BY <1>5, PrecedesStays
<1>6. CASE GoesOn(p, base)
  <2>1. todo'[p] = todo[p] /\ InProgress(Identities(memories'), base, op'[p])
    BY <1>6 DEF GoesOn
  <2>2. Fold'[X \ todo'[p]] = base
    BY <1>2, <1>3, <2>1, FoldStays
  <2>3. PICK rows, o : rows = Identities(memories') /\ o = op'[p]
    OBVIOUS
  <2>4. o # None => IsCall(o.call)
    <3>1. op'[p] # None =>
             /\ op'[p].call.src \in DOMAIN turns'
             /\ op'[p].call.idx \in DOMAIN turns'[op'[p].call.src].calls
      BY DEF TypeInv, OpCommitted, IsCall
    <3> QED BY <1>1, <2>3, <3>1 DEF IsCall
  <2>5. InProgress(rows, base, o)'
    BY <2>1, <2>3, <2>4, InProgressStays
  <2>6. InProgress(Identities(memories), base, op[p])'
    BY <2>3, <2>5
  <2>7. \A c \in X \ todo'[p], d \in todo'[p] : Precedes(c, d)'
    BY <1>0, <1>2, <1>5, <2>1
  <2> QED BY <1>1, <1>2, <2>1, <2>2, <2>6, <2>7 DEF Derives
<1>7. ASSUME NEW c, Ends(p, c, base)
      PROVE  Derives(p, X)'
  <2>1. /\ c \in todo[p] /\ \A d \in todo[p] : ~Precedes(d, c)
        /\ todo'[p] = todo[p] \ {c} /\ op'[p] = None
    BY <1>7 DEF Ends
  <2>2. \A d \in todo'[p] : Precedes(c, d)
    <3>1. ASSUME NEW d \in todo'[p]
          PROVE  Precedes(c, d)
      <4>1. d # c /\ IsCall(c) /\ IsCall(d) /\ ~Precedes(d, c)
            /\ c = [src |-> c.src, idx |-> c.idx] /\ d = [src |-> d.src, idx |-> d.idx]
        BY <1>0, <2>1
      <4> QED BY <4>1, CallsAreOrdered
    <3> QED BY <3>1
  <2>3. \A e \in X \ todo'[p], d \in todo'[p] : Precedes(e, d)'
    <3>1. ASSUME NEW e \in X \ todo'[p], NEW d \in todo'[p]
          PROVE  Precedes(e, d)'
      <4>1. Precedes(e, d)
        BY <1>2, <2>1, <2>2
      <4>2. IsCall(e) /\ IsCall(d)
        BY <1>0, <1>2, <2>1
      <4> QED BY <1>5, <4>1, <4>2
    <3> QED BY <3>1
  <2>4. Identities(memories') = Fold'[X \ todo'[p]]
    <3>1. CASE c \in Recorded
      <4> DEFINE S == X \ todo'[p]
      <4>1. /\ S \in SUBSET Recorded /\ c \in S /\ S \ {c} = X \ todo[p]
        BY <1>2, <2>1, <3>1
      <4>2. \A d \in S \ {c} : Precedes(d, c)
        BY <1>2, <2>1, <4>1
      <4> HIDE DEF S
      <4>3. base = Fold[S \ {c}]
        BY <1>3, <4>1
      <4>4. Fold[S] = Meaning(base, c)
        BY <4>1, <4>2, <4>3, FoldIsRecursive DEF FoldsStep
      <4>5. CallOf(c).tool \in {"write", "supersede"}
        BY <3>1, RecordedCalls
      <4>6. Identities(memories') = Meaning(base, c)
        BY <1>7, <4>5 DEF Ends
      <4>7. Fold'[S] = Fold[S]
        BY <4>1, FoldStays
      <4> QED BY <4>4, <4>6, <4>7 DEF S
    <3>2. CASE c \notin Recorded
      <4>1. X \ todo'[p] = X \ todo[p]
        BY <1>2, <2>1, <3>2
      <4>2. CallOf(c).tool \notin {"write", "supersede"}
        BY <1>0, <2>1, <3>2, RecordedCalls
      <4>3. Identities(memories') = base
        BY <1>7, <4>2 DEF Ends
      <4>4. Fold'[X \ todo[p]] = Fold[X \ todo[p]]
        BY <1>2, FoldStays
      <4> QED BY <1>3, <4>1, <4>3, <4>4
    <3> QED BY <3>1, <3>2
  <2>5. InProgress(Identities(memories), Fold[X \ todo[p]], op[p])'
    BY <2>1, <2>4 DEF InProgress
  <2>6. todo'[p] \cap Recorded' \subseteq X
    BY <1>1, <1>2, <2>1
  <2> QED BY <1>1, <1>2, <2>3, <2>5, <2>6 DEF Derives
<1> QED BY <1>4, <1>6, <1>7
----------------------------------------------------------------------------
\* A vector always has the length that is configured.
NoMisfit == "dim" \notin Faults

\* The calls of the script that make or change a row.
Effective == {c \in Script : CallOf(c).tool \in {"write", "supersede"}}

\* In a rebuild the table is what the calls replayed so far mean; from the end
\* of the replay on, what all of them do.
ReplayDerives ==
    \A p \in Procs :
        /\ pc[p] = "replay" =>
              todo[p] \subseteq Script /\ \A X \in {Effective} : Derives(p, X)
        /\ pc[p] \in {"restore", "rebuilt"} => Identities(memories) = Fold[Recorded]

\* Nobody else moves in a rebuild.
LEMMA OthersRest ==
    ASSUME TypeInv, RebuildAlone, NEW q \in Procs, pc'[q] \in RebuildSteps,
           NEW p \in Procs, p # q
    PROVE  /\ ~(RunStep(p) \/ RebuildStep(p) \/ Misfortune(p))
           /\ ~(Begin(p) \/ ReplayFails(p) \/ ReplayMisfits(p))
<1>0. pc \in [Procs -> {"idle"} \cup RunSteps \cup RebuildSteps]
  BY DEF TypeInv, TypeOK
<1>1. ASSUME pc'[q] = pc[q]
      PROVE  pc[p] = "idle" /\ ~NoRebuild /\ ~Alone(p)
  BY <1>1 DEF RebuildAlone, RebuildsApart, OneProcess, NoRebuild, Alone, RebuildSteps
<1>2. ASSUME RunStep(p)
      PROVE  FALSE
  <2>1. pc'[q] = pc[q]
    BY <1>0, <1>2 DEF RunStep, LoadState, OpenCycle, UserTurn, Observe, Complete,
       BudgetStop, DispatchCall, DispatchRaises, ToolTurn, CloseSleep, GetFails,
       UpdateState, CloseCycle, CloseOnError, Successor, Finish, Exit, Goto,
       orchestratorVars
  <2> QED BY <1>1, <1>2, <2>1 DEF RunStep, LoadState, OpenCycle, UserTurn, Observe,
       Complete, BudgetStop, DispatchCall, DispatchRaises, ToolTurn, CloseSleep,
       GetFails, UpdateState, CloseCycle, CloseOnError, Successor, Finish
<1>3. ASSUME Misfortune(p) \/ ReplayFails(p) \/ ReplayMisfits(p)
      PROVE  FALSE
  <2>l. LockedOut(p) => /\ pc[p] # "idle"
                        /\ \E l : pc' = [pc EXCEPT ![p] = l]
    BY DEF LockedOut, Exit, Goto
  <2>1. pc'[q] = pc[q]
    BY <1>0, <1>3, <2>l DEF Misfortune, ObserveFails, CompleteFails, DispatchFails,
       DispatchMisfits, UpdateFails, ClockRunsOut, Crash, ReplayFails,
       ReplayMisfits, Exit, Goto, orchestratorVars
  <2> QED BY <1>1, <1>3, <2>l, <2>1 DEF Misfortune, ObserveFails, CompleteFails,
       DispatchFails, DispatchMisfits, UpdateFails, ClockRunsOut, Crash, ReplayFails,
       ReplayMisfits, RunSteps
<1>4. ASSUME Begin(p) \/ RebuildStep(p)
      PROVE  FALSE
  <2>1. ReplayCall(p) => pc' = pc /\ pc[p] = "replay"
    BY DEF ReplayCall, orchestratorVars
  <2>2. EndReplay(p) => pc' = [pc EXCEPT ![p] = "restore"] /\ pc[p] = "replay"
    BY DEF EndReplay, Goto
  <2>3. RestoreState(p) => pc' = [pc EXCEPT ![p] = "rebuilt"] /\ pc[p] = "restore"
    BY DEF RestoreState, Goto
  <2>4. pc'[q] = pc[q]
    BY <1>0, <1>4, <2>1, <2>2, <2>3 DEF Begin, Start, StartRebuild, StartTopUp,
       RebuildStep, Clear, OpenCursor, ReplayRaises, Report, Exit, Goto
  <2> QED BY <1>1, <1>4, <2>1, <2>2, <2>3, <2>4 DEF Begin, Start, StartRebuild,
       StartTopUp, RebuildStep, Clear, OpenCursor, ReplayRaises, Report
<1> QED BY <1>2, <1>3, <1>4

\* How a rebuild gets from the cleared table to replay, to the state and to report.
LEMMA RebuildMoves ==
    ASSUME TypeInv, RebuildAlone, NoTopUp, NoMisfit, [Next]_vars,
           NEW q \in Procs, pc'[q] \in {"cleared", "replay", "restore", "rebuilt"}
    PROVE  \/ Clear(q) /\ pc'[q] = "cleared"
           \/ OpenCursor(q) /\ pc'[q] = "replay"
           \/ ReplayCall(q) /\ pc'[q] = "replay"
           \/ EndReplay(q) /\ pc'[q] = "restore"
           \/ RestoreState(q) /\ pc'[q] = "rebuilt"
           \/ UNCHANGED vars
<1>0. pc \in [Procs -> {"idle"} \cup RunSteps \cup RebuildSteps]
  BY DEF TypeInv, TypeOK
<1>1. ASSUME RunStep(q)
      PROVE  FALSE
  <2>1. CASE DispatchCall(q)
    BY <2>1 DEF DispatchCall, orchestratorVars
  <2> QED BY <1>0, <1>1, <2>1 DEF RunStep, LoadState, OpenCycle, UserTurn, Observe,
       Complete, BudgetStop, DispatchRaises, ToolTurn, AfterTurn, CloseSleep, GetFails,
       UpdateState, CloseCycle, CloseOnError, Successor, Finish, Exit, Goto
<1>2. ASSUME Misfortune(q) \/ ReplayFails(q) \/ ReplayMisfits(q)
      PROVE  FALSE
  <2>1. LockedOut(q) => pc' = [pc EXCEPT ![q] = "idle"] \/ pc' = [pc EXCEPT ![q] = "error"]
    BY DEF LockedOut, Exit, Goto
  <2> QED BY <1>0, <1>2, <2>1 DEF NoMisfit, Misfortune, ObserveFails, CompleteFails,
     DispatchFails, DispatchMisfits, UpdateFails, ClockRunsOut, Crash, ReplayFails,
     ReplayMisfits, Exit, Goto, RunSteps
<1>3. ASSUME Begin(q) \/ RebuildStep(q)
      PROVE  \/ Clear(q) /\ pc'[q] = "cleared"
             \/ OpenCursor(q) /\ pc'[q] = "replay"
             \/ ReplayCall(q) /\ pc'[q] = "replay"
             \/ EndReplay(q) /\ pc'[q] = "restore"
             \/ RestoreState(q) /\ pc'[q] = "rebuilt"
  <2>1. ReplayCall(q) => pc'[q] = "replay"
    BY DEF ReplayCall, orchestratorVars
  <2>2. EndReplay(q) => pc'[q] = "restore"
    BY <1>0 DEF EndReplay, Goto
  <2>3. RestoreState(q) => pc'[q] = "rebuilt"
    BY <1>0 DEF RestoreState, Goto
  <2> QED BY <1>0, <1>3, <2>1, <2>2, <2>3 DEF NoTopUp, Begin, Start, StartRebuild,
     StartTopUp, RebuildStep, Clear, OpenCursor, ReplayRaises, Report, Exit, Goto
<1> QED BY <1>1, <1>2, <1>3, OthersRest DEF Next, Rest, RebuildSteps

\* What is replayed was recorded; all that was, when history can be read.
LEMMA ScriptIsRecorded ==
    ASSUME TypeInv
    PROVE  /\ Effective \subseteq Recorded /\ Script \cap Recorded = Effective
           /\ ReadBy(Len(wakes)) => Effective = Recorded
<1>0. /\ \A s \in DOMAIN turns : turns[s].wake \in 1 .. Len(wakes)
      /\ Len(wakes) \in Nat
  BY DEF TypeInv, TypeOK, TurnsHaveWakes
<1>1. ASSUME ReadBy(Len(wakes)), NEW c \in Recorded
      PROVE  c \in Script
  <2>1. c.src \in DOMAIN turns /\ CallOf(c).tool \in {"write", "supersede"}
    BY RecordedCalls DEF IsCall
  <2>2. ReadBy(turns[c.src].wake)
    BY <1>0, <1>1, <2>1 DEF ReadBy
  <2> QED BY <2>1, <2>2 DEF Script, Recorded
<1> QED BY <1>1 DEF Effective, Script, Recorded

\* History as it was, the calls to replay are as they were.
LEMMA ScriptStays ==
    UNCHANGED historyVars =>
        Script' = Script /\ Effective' = Effective /\ Recorded' = Recorded
BY DEF historyVars, Script, Effective, Recorded, CallsOf, CallOf, ReadBy, Readable,
   SourceTurns
----------------------------------------------------------------------------
\* A replay starts with nothing, and derives nothing yet.
LEMMA ScriptDerives ==
    ASSUME TypeInv, TypeInv', Grows, OpInHand, NEW q \in Procs, OpenCursor(q), Ids = {},
           NEW X, X = Effective
    PROVE  Derives(q, X)' /\ UNCHANGED historyVars /\ todo'[q] = Script
<1>0. todo \in [Procs -> SUBSET Calls] /\ op \in [Procs -> Operations \cup {None}]
  BY DEF TypeInv, TypeOK
<1>1. /\ UNCHANGED historyVars /\ op' = op /\ op[q] = None
      /\ memories' = memories /\ todo'[q] = Script
  BY <1>0 DEF OpenCursor, OpInHand
<1>2. Recorded' = Recorded
  BY <1>1, ScriptStays
<1>3. Identities(memories') = Nothing
  BY <1>1 DEF Identities, Nothing, Ids
<1>4. Fold'[{}] = Nothing
  BY FoldIsRecursiveNext DEF FoldsStep, Nothing
<1>6. X \ todo'[q] = {}
  BY <1>1 DEF Effective
<1>7. InProgress(Identities(memories), Fold[X \ todo[q]], op[q])'
  BY <1>1, <1>3, <1>4, <1>6 DEF InProgress
<1>8. X \subseteq Recorded' /\ todo'[q] \cap Recorded' \subseteq X
  BY <1>1, <1>2, ScriptIsRecorded
<1> QED BY <1>1, <1>6, <1>7, <1>8 DEF Derives

\* A step that leaves all this alone leaves what is derived.
LEMMA DerivesStays ==
    ASSUME TypeInv, TypeInv', Grows, NEW q \in Procs, NEW X, Derives(q, X),
           todo'[q] = todo[q], op'[q] = op[q], memories' = memories,
           Recorded' = Recorded
    PROVE  Derives(q, X)'
<1>1. /\ X \subseteq Recorded /\ todo[q] \cap Recorded \subseteq X
      /\ \A c \in X \ todo[q], d \in todo[q] : Precedes(c, d)
      /\ InProgress(Identities(memories), Fold[X \ todo[q]], op[q])
  BY DEF Derives
<1>2. PICK rows, base, o : rows = Identities(memories) /\ base = Fold[X \ todo[q]] /\ o = op[q]
  OBVIOUS
<1>3. o # None => IsCall(o.call)
  BY <1>2 DEF TypeInv, OpCommitted
<1>4. InProgress(rows, base, o)'
  BY <1>1, <1>2, <1>3, InProgressStays
<1>5. Fold'[X \ todo'[q]] = base /\ Identities(memories') = rows
  BY <1>1, <1>2, FoldStays
<1>6. InProgress(Identities(memories), Fold[X \ todo[q]], op[q])'
  BY <1>2, <1>4, <1>5
<1>7. \A c \in X \ todo'[q], d \in todo'[q] : Precedes(c, d)'
  <2>1. /\ \A c \in Recorded : IsCall(c)
        /\ \A d \in todo[q] : IsCall(d)
    BY RecordedCalls DEF TypeInv, TodoCommitted
  <2> QED BY <1>1, <2>1, PrecedesStays
<1> QED BY <1>1, <1>6, <1>7 DEF Derives

\* Nobody searches in a rebuild, and history stays.
LEMMA ReplayKeepsHistory ==
    ASSUME TypeInv, NEW q \in Procs, todo[q] \subseteq Script, Dispatch(q)
    PROVE  UNCHANGED historyVars
<1>1. \A c \in todo[q] : CallOf(c).tool # "search"
  BY DEF Script
<1> QED BY <1>1 DEF Dispatch, DispatchSearch

\* Every step, of anybody, leaves a rebuild on its way.
LEMMA ReplayDerivesNext ==
    ASSUME NoTopUp, NoMisfit, NoneIsNoOperation, Known, LedgerInv, TypeInv', Grows,
           FirstInHand, ReplayInOrder, ReplayDerives, [Next]_vars
    PROVE  ReplayDerives'
<1>0. /\ TypeInv /\ OpInHand /\ RebuildAlone /\ WriteIsNew
      /\ op \in [Procs -> Operations \cup {None}]
  BY DEF Known, SupersessionInv, LedgerInv, TypeInv, TypeOK
<1>1. ASSUME NEW q \in Procs, pc'[q] = "replay", NEW X, X = Effective'
      PROVE  todo'[q] \subseteq Script' /\ Derives(q, X)'
  <2> SUFFICES ASSUME NEW Y, Y = Effective
               PROVE  /\ UNCHANGED historyVars
                      /\ todo'[q] \subseteq Script /\ Derives(q, Y)'
    BY <1>1, ScriptStays
  <2>1. CASE OpenCursor(q)
    <3>1. Ids = {}
      BY <2>1 DEF OpenCursor, ReplayInOrder
    <3> QED BY <1>0, <2>1, <3>1, ScriptDerives
  <2>2. CASE ReplayCall(q)
    <3>1. pc[q] = "replay" /\ Dispatch(q)
      BY <2>2 DEF ReplayCall
    <3>2. Derives(q, Y) /\ todo[q] \subseteq Script
      BY <3>1 DEF ReplayDerives
    <3>3. todo'[q] \subseteq todo[q]
      BY <1>0, <1>1, <3>1, ReplaySteps DEF OpenCursor
    <3>4. Derives(q, Y)'
      BY <1>0, <3>1, <3>2, DerivesNext
    <3>5. UNCHANGED historyVars
      BY <1>0, <3>1, <3>2, ReplayKeepsHistory
    <3> QED BY <3>2, <3>3, <3>4, <3>5
  <2>3. CASE UNCHANGED vars
    <3>1. Derives(q, Y) /\ todo[q] \subseteq Script
      BY <1>1, <2>3 DEF ReplayDerives, vars
    <3>2. UNCHANGED historyVars /\ Recorded' = Recorded
      BY <2>3, ScriptStays DEF vars, historyVars
    <3>3. todo'[q] = todo[q] /\ op'[q] = op[q] /\ memories' = memories
      BY <2>3 DEF vars
    <3> QED BY <1>0, <3>1, <3>2, <3>3, DerivesStays
  <2> QED BY <1>0, <1>1, <2>1, <2>2, <2>3, RebuildMoves
<1>2. ASSUME NEW q \in Procs, pc'[q] \in {"restore", "rebuilt"}
      PROVE  Identities(memories') = Fold'[Recorded']
  <2>1. EndReplay(q) \/ RestoreState(q) \/ UNCHANGED vars
    BY <1>0, <1>2, RebuildMoves
  <2>2. /\ UNCHANGED historyVars /\ memories' = memories
    BY <2>1 DEF EndReplay, RestoreState, memoryVars, vars, historyVars
  <2>3. Recorded' = Recorded /\ Fold'[Recorded] = Fold[Recorded]
    BY <1>0, <2>2, ScriptStays, FoldStays
  <2>4. Identities(memories) = Fold[Recorded]
    <3>1. CASE EndReplay(q)
      <4>1. /\ pc[q] = "replay" /\ todo[q] = {} /\ ReadBy(Len(wakes))
        BY <3>1 DEF EndReplay
      <4>2. Effective = Recorded /\ op[q] = None
        BY <1>0, <4>1, ScriptIsRecorded DEF OpInHand
      <4>3. Derives(q, Recorded)
        BY <4>1, <4>2 DEF ReplayDerives
      <4>4. InProgress(Identities(memories), Fold[Recorded], op[q])
        <5>1. Recorded \ todo[q] = Recorded
          BY <4>1
        <5> QED BY <4>3, <5>1 DEF Derives
      <4> QED BY <4>2, <4>4 DEF InProgress
    <3>2. CASE RestoreState(q)
      BY <3>2 DEF RestoreState, ReplayDerives
    <3>3. CASE UNCHANGED vars
      BY <1>2, <3>3 DEF ReplayDerives, vars
    <3> QED BY <2>1, <3>1, <3>2, <3>3
  <2> QED BY <2>2, <2>3, <2>4
<1> QED BY <1>1, <1>2 DEF ReplayDerives

\* A rebuild that reports has made of the table what history says, whatever
\* was in the store and however often an earlier rebuild was cut short: for any
\* number of processes, kills and embedder errors.  The steps of dispatch, a
\* commit each, come to the atomic meaning of the recorded calls.
THEOREM RebuildDerives ==
    ASSUME NoTopUp, NoMisfit, NoneIsNoOperation, RebuildsApart
    PROVE  Spec => []RebuildIsDerived
<1> DEFINE Inv == Known /\ LedgerInv /\ FirstInHand /\ ReplayInOrder /\ ReplayDerives
<1>1. Init => Inv
  <2>1. Init => FirstInHand /\ ReplayInOrder /\ ReplayDerives
    BY DEF Init, MemoryInit, OrchestratorInit, FirstInHand, ReplayInOrder, ReplayDerives
  <2> QED BY <2>1, LedgerInvInit
<1>2. ASSUME Inv, [Next]_vars
      PROVE  Inv'
  <2>1. Grows /\ Known' /\ LedgerInv'
    BY <1>2, LedgerInvNext
  <2>2. TypeInv /\ TypeInv' /\ OpInHand
    BY <1>2, <2>1 DEF Known, SupersessionInv
  <2>3. FirstInHand' /\ ReplayInOrder'
    BY <1>2, <2>1, <2>2, FirstInHandNext, ReplayInOrderNext
  <2> QED BY <1>2, <2>1, <2>2, <2>3, ReplayDerivesNext
<1>3. Inv => RebuildIsDerived
  BY DEF ReplayDerives, RebuildIsDerived
<1> QED BY <1>1, <1>2, <1>3, PTL DEF Spec
----------------------------------------------------------------------------
\* Nothing cuts a dispatch short: neither a kill nor an embedder ...
NothingIsCut == Faults \subseteq {"llm", "clock"}

\* ... nor a model that sends arguments which are no object.
WellShaped == Tools \cap {"misshapen", "falsy"} = {}

AllReadable ==
    \A s \in DOMAIN turns : \A k \in DOMAIN turns[s].calls :
        turns[s].calls[k].tool \notin {"misshapen", "falsy"}

\* Such a model makes no turn that cannot be read back.
LEMMA AllReadableNext ==
    ASSUME WellShaped, TypeInv, TypeInv', AllReadable, [Next]_vars
    PROVE  AllReadable'
<1>1. CASE turns' = turns
  BY <1>1 DEF AllReadable
<1>2. ASSUME NEW t, turns' = Append(turns, t),
             t.calls # << >> => t.calls \in MemoryCalls
      PROVE  AllReadable'
  <2>1. turns \in Seq(Turns) /\ turns' \in Seq(Turns)
    BY DEF TypeInv, TypeOK
  <2>2. /\ DOMAIN turns' = DOMAIN turns \cup {Len(turns) + 1}
        /\ turns'[Len(turns) + 1] = t /\ \A s \in DOMAIN turns : turns'[s] = turns[s]
    BY <1>2, <2>1
  <2>3. \A k \in DOMAIN t.calls : t.calls[k].tool \notin {"misshapen", "falsy"}
    <3>1. CASE t.calls = << >>
      BY <3>1
    <3>2. CASE t.calls \in MemoryCalls
      <4>1. PICK n \in 0 .. MaxCallsPerTurn : t.calls \in [1 .. n -> Menu]
        BY <3>2 DEF MemoryCalls
      <4>2. \A c \in Menu : c.tool \in Tools
        BY DEF Menu
      <4> QED BY <4>1, <4>2 DEF WellShaped
    <3> QED BY <1>2, <3>1, <3>2
  <2> QED BY <2>2, <2>3 DEF AllReadable
<1> QED BY <1>1, <1>2, TurnSteps

\* History can be read, and a rebuild replays all that was decided.
LEMMA AllIsReplayed ==
    ASSUME TypeInv, AllReadable
    PROVE  Effective = Recorded
<1>1. \A w : Readable(w)
  BY DEF AllReadable, Readable, SourceTurns
<1>2. ReadBy(Len(wakes))
  BY <1>1 DEF ReadBy
<1> QED BY <1>2, ScriptIsRecorded

\* What a turn adds to the decisions.
LEMMA TurnRecords ==
    ASSUME TypeInv, TypeInv', Grows, NEW t, turns' = Append(turns, t)
    PROVE  \A c : c \in Recorded' => c \in Recorded \/
              \E k \in DOMAIN t.calls : c = [src |-> Len(turns) + 1, idx |-> k]
<1>1. turns \in Seq(Turns) /\ turns' \in Seq(Turns)
  BY DEF TypeInv, TypeOK
<1>2. /\ DOMAIN turns' = DOMAIN turns \cup {Len(turns) + 1}
      /\ turns'[Len(turns) + 1] = t /\ \A s \in DOMAIN turns : turns'[s] = turns[s]
  BY <1>1
<1>3. SUFFICES ASSUME NEW c \in Recorded'
               PROVE  c \in Recorded \/
                      \E k \in DOMAIN t.calls : c = [src |-> Len(turns) + 1, idx |-> k]
  OBVIOUS
<1>4. PICK s \in DOMAIN turns' : c \in CallsOf(s)'
  BY <1>3 DEF Recorded
<1>5. PICK k \in DOMAIN turns'[s].calls : c = [src |-> s, idx |-> k]
  BY <1>4 DEF CallsOf
<1>6. turns'[c.src].calls[c.idx].tool \in {"write", "supersede"}
  BY <1>3 DEF Recorded, CallOf
<1>7. CASE s = Len(turns) + 1
  BY <1>2, <1>5, <1>7
<1>8. CASE s \in DOMAIN turns
  <2>1. turns'[s] = turns[s]
    BY <1>2, <1>8
  <2>2. c \in CallsOf(s)
    BY <1>5, <2>1 DEF CallsOf
  <2>3. CallOf(c).tool \in {"write", "supersede"}
    BY <1>5, <1>6, <2>1 DEF CallOf
  <2> QED BY <1>8, <2>2, <2>3 DEF Recorded
<1> QED BY <1>2, <1>7, <1>8

\* A turn without calls adds nothing.
LEMMA QuietTurn ==
    ASSUME TypeInv, TypeInv', Grows, NEW t, turns' = Append(turns, t), t.calls = << >>
    PROVE  Recorded' = Recorded
<1>1. \A c : c \in Recorded' => c \in Recorded \/
            \E k \in DOMAIN t.calls : c = [src |-> Len(turns) + 1, idx |-> k]
  BY TurnRecords
<1>2. DOMAIN t.calls = {}
  OBVIOUS
<1>3. Recorded \subseteq Recorded'
  BY RecordedStays
<1> QED BY <1>1, <1>2, <1>3

\* What a process by itself does to what is derived: nothing ...
Quiet == /\ UNCHANGED memoryVars
         /\ turns' = turns \/ \E t : turns' = Append(turns, t) /\ t.calls = << >>

\* A process alone is never locked out: nobody else holds the file.
LEMMA NoLock ==
    ASSUME OneProcess, NothingIsCut, NEW q \in Procs
    PROVE  ~LockedOut(q)
<1>1. Unlocked(q)
  BY DEF OneProcess, Unlocked
<1> QED BY <1>1 DEF NothingIsCut, LockedOut

\* ... but for a completion, a dispatch, and the clearing and the start of a
\* replay.
LEMMA LiveMoves ==
    ASSUME OneProcess, NoTopUp, NothingIsCut, TypeInv, AllReadable, [Next]_vars,
           NEW q \in Procs
    PROVE  /\ Quiet \/ Complete(q) \/ Dispatch(q) \/ Clear(q) \/ OpenCursor(q)
           /\ pc[q] = "cleared" /\ pc'[q] # "cleared" => OpenCursor(q)
           /\ pc[q] = "replay" /\ pc'[q] # "replay" => todo[q] = {}
<1> DEFINE Goal == /\ Quiet \/ Complete(q) \/ Dispatch(q) \/ Clear(q) \/ OpenCursor(q)
                   /\ pc[q] = "cleared" /\ pc'[q] # "cleared" => OpenCursor(q)
                   /\ pc[q] = "replay" /\ pc'[q] # "replay" => todo[q] = {}
<1>0. pc \in [Procs -> {"idle"} \cup RunSteps \cup RebuildSteps]
  BY DEF TypeInv, TypeOK
<1>1. ASSUME RunStep(q)
      PROVE  Goal
  <2>1. CASE Complete(q) \/ DispatchCall(q)
    BY <2>1 DEF Complete, DispatchCall
  <2>2. CASE UserTurn(q) \/ ToolTurn(q)
    BY <2>2 DEF UserTurn, ToolTurn, AppendTurn, Turn, Quiet
  <2>3. CASE DispatchRaises(q)
    <3>1. PICK c \in todo[q] : CallOf(c).tool \in {"misshapen", "falsy"}
      BY <2>3 DEF DispatchRaises, Raises, NoObject
    <3>2. IsCall(c)
      BY DEF TypeInv, TodoCommitted
    <3> QED BY <3>1, <3>2 DEF AllReadable, IsCall, CallOf
  <2>4. CASE \/ LoadState(q) \/ OpenCycle(q) \/ Observe(q) \/ BudgetStop(q)
             \/ CloseSleep(q) \/ GetFails(q) \/ UpdateState(q) \/ CloseCycle(q)
             \/ CloseOnError(q) \/ Successor(q) \/ Finish(q)
    BY <2>4 DEF LoadState, OpenCycle, OpenWake, Observe, RecordRetrieval, BudgetStop,
       CloseSleep, CloseWake, GetFails, UpdateState, CloseCycle, CloseOnError, Successor,
       Finish, Quiet, historyVars
  <2> QED BY <1>1, <2>1, <2>2, <2>3, <2>4 DEF RunStep
<1>2. ASSUME Misfortune(q) \/ ReplayFails(q) \/ ReplayMisfits(q)
      PROVE  Goal
  <2>1. CompleteFails(q) \/ UpdateFails(q) \/ ClockRunsOut(q)
    BY <1>2, NoLock DEF Misfortune, ObserveFails, DispatchFails, DispatchMisfits, Crash,
       ReplayFails, ReplayMisfits, NothingIsCut
  <2> QED BY <2>1 DEF CompleteFails, UpdateFails, ClockRunsOut, RunSteps, Quiet, historyVars
<1>3. ASSUME Begin(q) \/ RebuildStep(q)
      PROVE  Goal
  <2>1. CASE Clear(q) \/ OpenCursor(q)
    BY <2>1 DEF Clear, OpenCursor
  <2>2. CASE ReplayCall(q)
    BY <2>2 DEF ReplayCall, orchestratorVars
  <2>3. CASE EndReplay(q) \/ RestoreState(q)
    <3>1. UNCHANGED memoryVars /\ turns' = turns
      BY <2>3 DEF EndReplay, RestoreState, historyVars
    <3>2. pc[q] = "restore" \/ (pc[q] = "replay" /\ todo[q] = {})
      BY <2>3 DEF EndReplay, RestoreState
    <3> QED BY <3>1, <3>2 DEF Quiet
  <2>4. CASE Begin(q) \/ ReplayRaises(q) \/ Report(q)
    BY <2>4 DEF NoTopUp, Begin, Start, StartRebuild, StartTopUp, ReplayRaises,
       Report, Quiet, historyVars
  <2> QED BY <1>3, <2>1, <2>2, <2>3, <2>4 DEF RebuildStep
<1>4. CASE UNCHANGED vars
  BY <1>4 DEF vars, Quiet, memoryVars
<1> QED BY <1>1, <1>2, <1>3, <1>4 DEF Next, Rest, OneProcess
----------------------------------------------------------------------------
\* With one process the turns are in the order of the wakes.
WakesInOrder == \A s, r \in DOMAIN turns : s < r => turns[s].wake <= turns[r].wake

LEMMA OneIsInOrder ==
    ASSUME OneProcess
    PROVE  TypeInv /\ TurnsInOrder => WakesInOrder
<1> SUFFICES ASSUME TypeInv, TurnsInOrder
             PROVE  WakesInOrder
  OBVIOUS
<1>1. \A w \in DOMAIN wakes : wakes[w].opener \in Procs
  <2>1. \A w \in DOMAIN wakes : wakes[w] \in WakeRecords
    BY DEF TypeInv, TypeOK
  <2> QED BY <2>1 DEF WakeRecords
<1>2. \A s \in DOMAIN turns : turns[s].wake \in DOMAIN wakes
  BY DEF TypeInv, TypeOK, TurnsHaveWakes
<1>3. \A s \in DOMAIN turns : Opener(s) \in Procs
  BY <1>1, <1>2 DEF Opener
<1> QED BY <1>3 DEF OneProcess, TurnsInOrder, WakesInOrder

\* The same of the next state.
LEMMA OneIsInOrderNext ==
    ASSUME OneProcess
    PROVE  TypeInv' /\ TurnsInOrder' => WakesInOrder'
<1>1. TypeInv /\ TurnsInOrder => WakesInOrder
  BY OneIsInOrder
<1> QED BY <1>1, PTL
----------------------------------------------------------------------------
\* At any moment the table is what the recorded calls mean, but for those
\* still to do; unless it was emptied and the replay did not begin.
LiveDerives ==
    \A p \in Procs : pc[p] # "cleared" => \A X \in {Recorded} : Derives(p, X)

\* A completion decides on calls that come after all the others.
LEMMA CompleteDerives ==
    ASSUME Known, OwnRound, TypeInv', Grows, WakesInOrder', NEW q \in Procs,
           Complete(q), NEW Y, Y = Recorded', Derives(q, Recorded)
    PROVE  Derives(q, Y)'
<1>0. /\ TypeInv /\ OpInHand /\ todo \in [Procs -> SUBSET Calls]
      /\ op \in [Procs -> Operations \cup {None}]
      /\ turns \in Seq(Turns) /\ turns' \in Seq(Turns)
  BY DEF Known, SupersessionInv, TypeInv, TypeOK
<1>1. PICK calls \in MemoryCalls, f \in Finishes \cup {None} :
         /\ AppendTurn(cyc[q].wake, "assistant", calls, f)
         /\ todo' = [todo EXCEPT ![q] =
                       {[src |-> NewTurnSeq, idx |-> k] : k \in DOMAIN calls}]
  BY Zenon DEF Complete
<1>2. PICK t : t = Turn(cyc[q].wake, "assistant", calls, f)
  OBVIOUS
<1>3. turns' = Append(turns, t) /\ t.calls = calls
  BY <1>1, <1>2 DEF AppendTurn, Turn
<1>4. /\ memories' = memories /\ op' = op /\ pc[q] = "loop"
      /\ todo'[q] = {[src |-> Len(turns) + 1, idx |-> k] : k \in DOMAIN calls}
  BY <1>0, <1>1 DEF Complete, NewTurnSeq
<1>5. todo[q] = {} /\ op[q] = None
  BY <1>0, <1>4 DEF OwnRound, Dispatching, OpInHand
<1>6. /\ Len(turns) \in Nat /\ DOMAIN turns = 1 .. Len(turns)
      /\ DOMAIN turns' = DOMAIN turns \cup {Len(turns) + 1}
      /\ \A s \in DOMAIN turns' : s \in Nat /\ turns'[s].wake \in Nat
  <2>1. \A s \in DOMAIN turns' : turns'[s] \in Turns /\ s \in Nat
    BY <1>0
  <2> QED BY <1>0, <1>3, <2>1 DEF Turns
<1>7. \A c \in Recorded : c.src \in DOMAIN turns
  BY RecordedCalls DEF IsCall
<1>8. Y \ todo'[q] = Recorded
  <2>1. \A c : c \in Recorded' => c \in Recorded \/ c \in todo'[q]
    <3>1. \A c : c \in Recorded' => c \in Recorded \/
             \E k \in DOMAIN t.calls : c = [src |-> Len(turns) + 1, idx |-> k]
      BY <1>0, <1>3, TurnRecords
    <3> QED BY <1>3, <1>4, <3>1
  <2>2. \A c \in Recorded : c \notin todo'[q]
    BY <1>4, <1>6, <1>7
  <2>3. Recorded \subseteq Recorded'
    BY <1>0, RecordedStays
  <2> QED BY <2>1, <2>2, <2>3
<1>9. \A c \in Recorded, d \in todo'[q] : Precedes(c, d)'
  <2>1. ASSUME NEW c \in Recorded, NEW d \in todo'[q]
        PROVE  Precedes(c, d)'
    <3>1. /\ c.src \in DOMAIN turns' /\ d.src \in DOMAIN turns' /\ c.src < d.src
          /\ turns'[c.src].wake \in Nat /\ turns'[d.src].wake \in Nat
      BY <1>4, <1>6, <1>7, <2>1
    <3>2. turns'[c.src].wake <= turns'[d.src].wake
      BY <3>1 DEF WakesInOrder
    <3>3. \/ turns'[c.src].wake < turns'[d.src].wake
          \/ turns'[c.src].wake = turns'[d.src].wake /\ c.src < d.src
      BY <3>1, <3>2
    <3> QED BY <3>3 DEF Precedes
  <2> QED BY <2>1
<1>10. InProgress(Identities(memories), Fold[Y \ todo[q]], op[q])'
  <2>1. Identities(memories) = Fold[Recorded]
    <3>1. Recorded \ todo[q] = Recorded
      BY <1>5
    <3> QED BY <1>5, <3>1 DEF Derives, InProgress
  <2>2. Fold'[Recorded] = Fold[Recorded]
    BY <1>0, FoldStays
  <2>3. Identities(memories') = Fold'[Y \ todo'[q]] /\ op'[q] = None
    BY <1>4, <1>5, <1>8, <2>1, <2>2
  <2> QED BY <2>3 DEF InProgress
<1> QED BY <1>8, <1>9, <1>10 DEF Derives

\* Every step of a process by itself keeps the table derived.
LEMMA LiveDerivesNext ==
    ASSUME OneProcess, NoTopUp, NothingIsCut, NoneIsNoOperation,
           Known, LedgerInv, TypeInv', Grows, FirstInHand, ReplayInOrder, WakesInOrder',
           AllReadable, LiveDerives, [Next]_vars
    PROVE  LiveDerives'
<1>0. /\ TypeInv /\ OpInHand /\ WriteIsNew /\ OwnRound
      /\ pc \in [Procs -> {"idle"} \cup RunSteps \cup RebuildSteps]
  BY DEF Known, SupersessionInv, LedgerInv, TypeInv, TypeOK
<1> SUFFICES ASSUME NEW q \in Procs, pc'[q] # "cleared", NEW Y, Y = Recorded'
             PROVE  Derives(q, Y)'
  BY DEF LiveDerives
<1>1. CASE OpenCursor(q)
  <2>1. Ids = {} /\ Effective = Recorded
    BY <1>0, <1>1, AllIsReplayed DEF OpenCursor, ReplayInOrder
  <2>2. Recorded' = Recorded
    BY <1>1, ScriptStays DEF OpenCursor
  <2> QED BY <1>0, <1>1, <2>1, <2>2, ScriptDerives
<1>2. CASE ~OpenCursor(q)
  <2>0. /\ Derives(q, Recorded) /\ ~Clear(q)
        /\ Quiet \/ Complete(q) \/ Dispatch(q)
    <3>1. pc[q] # "cleared"
      BY <1>0, <1>2, LiveMoves
    <3>2. ~Clear(q)
      BY <1>0 DEF Clear, Goto
    <3> QED BY <1>0, <1>2, <3>1, <3>2, LiveMoves DEF LiveDerives
  <2>1. CASE Quiet
    <3>1. Recorded' = Recorded
      <4>1. CASE turns' = turns
        BY <4>1 DEF Recorded, CallsOf, CallOf
      <4>2. ASSUME NEW t, turns' = Append(turns, t), t.calls = << >>
            PROVE  Recorded' = Recorded
        BY <1>0, <4>2, QuietTurn
      <4> QED BY <2>1, <4>1, <4>2 DEF Quiet
    <3>2. todo' = todo /\ op' = op /\ memories' = memories
      BY <2>1 DEF Quiet, memoryVars
    <3>3. Derives(q, Y)
      BY <2>0, <3>1
    <3> QED BY <1>0, <3>1, <3>2, <3>3, DerivesStays
  <2>2. CASE Complete(q)
    BY <1>0, <2>0, <2>2, CompleteDerives
  <2>3. CASE Dispatch(q)
    <3>1. Recorded' = Recorded
      BY <2>3, DispatchRecords
    <3>2. Derives(q, Y)
      BY <2>0, <3>1
    <3> QED BY <1>0, <2>3, <3>2, DerivesNext
  <2> QED BY <2>0, <2>1, <2>2, <2>3
<1> QED BY <1>1, <1>2
----------------------------------------------------------------------------
\* What a record says was shown is there, or is derived again.
ShownIsKnown ==
    \A p \in Procs : \A w \in DOMAIN wakes :
        wakes[w].retrieved \subseteq
            IF pc[p] \in {"cleared", "replay"} THEN DOMAIN Fold[Recorded] ELSE Ids

\* A record is told what was in the store, and by a search outside a rebuild.
LEMMA ShownSteps ==
    ASSUME TypeInv, [Next]_vars
    PROVE  \/ wakes' = wakes
           \/ /\ \A w \in DOMAIN wakes' :
                    wakes'[w].retrieved \subseteq
                        Ids \cup (IF w \in DOMAIN wakes THEN wakes[w].retrieved ELSE {})
              /\ memories' = memories
<1> DEFINE Goal == \/ wakes' = wakes
                   \/ /\ \A w \in DOMAIN wakes' :
                            wakes'[w].retrieved \subseteq
                               Ids \cup (IF w \in DOMAIN wakes THEN wakes[w].retrieved ELSE {})
                      /\ memories' = memories
<1>0. wakes \in Seq(WakeRecords) /\ \A w \in DOMAIN wakes : wakes[w] \in WakeRecords
  BY DEF TypeInv, TypeOK
<1>1. ASSUME NEW w, NEW R, R \subseteq Ids, RecordRetrieval(w, R), memories' = memories
      PROVE  Goal
  BY <1>0, <1>1 DEF RecordRetrieval, WakeRecords
<1>2. ASSUME NEW p \in Procs, Dispatch(p)
      PROVE  Goal
  <2>1. CASE DispatchSearch(p)
    <3>1. PICK c, R : R \in Searches(Text(c)) /\ RecordRetrieval(turns[c.src].wake, R)
                      /\ memories' = memories
      BY <2>1 DEF DispatchSearch
    <3>2. R \subseteq Ids
      BY <3>1 DEF Searches, Live
    <3> QED BY <1>1, <3>1, <3>2
  <2> QED BY <1>2, <2>1 DEF Dispatch, historyVars
<1>3. ASSUME NEW p \in Procs, Observe(p)
      PROVE  Goal
  <2>1. PICK R \in SUBSET Live : RecordRetrieval(cyc[p].wake, R)
    BY <1>3 DEF Observe
  <2>2. R \subseteq Ids /\ memories' = memories
    BY <1>3, <2>1 DEF Live, Observe, memoryVars
  <2> QED BY <1>1, <2>1, <2>2
<1>4. ASSUME NEW p \in Procs, OpenCycle(p)
      PROVE  Goal
  <2>1. PICK r : r = WakeRecord(run[p].kind, cyc[p].prior, p)
    OBVIOUS
  <2>2. wakes' = Append(wakes, r) /\ memories' = memories /\ r.retrieved = {}
    BY <1>4, <2>1 DEF OpenCycle, OpenWake, WakeRecord, memoryVars
  <2> QED BY <1>0, <2>2
<1>5. ASSUME NEW p \in Procs, CloseSleep(p) \/ CloseCycle(p) \/ CloseOnError(p)
      PROVE  Goal
  <2>1. PICK w, d, s, b, st, su : CloseWake(w, d, s, b, st, su)
    BY <1>5 DEF CloseSleep, CloseCycle, CloseOnError
  <2>2. /\ DOMAIN wakes' = DOMAIN wakes
        /\ \A v \in DOMAIN wakes : wakes'[v].retrieved = wakes[v].retrieved
    BY <1>0, <2>1 DEF CloseWake, WakeRecords
  <2>3. memories' = memories
    BY <1>5 DEF CloseSleep, CloseCycle, CloseOnError, memoryVars
  <2> QED BY <2>2, <2>3
<1>6. ASSUME NEW p \in Procs, RunStep(p)
      PROVE  Goal
  <2>1. CASE DispatchCall(p)
    BY <1>2, <2>1 DEF DispatchCall
  <2> QED BY <1>3, <1>4, <1>5, <1>6, <2>1 DEF RunStep, LoadState, UserTurn, Complete,
       AppendTurn, BudgetStop, DispatchRaises, ToolTurn, GetFails, UpdateState,
       Successor, Finish, historyVars
<1>7. ASSUME NEW p \in Procs, Misfortune(p) \/ ReplayFails(p) \/ ReplayMisfits(p)
      PROVE  Goal
  BY <1>7 DEF Misfortune, ObserveFails, CompleteFails, DispatchFails,
     DispatchMisfits, UpdateFails, ClockRunsOut, Crash, LockedOut, ReplayFails,
     ReplayMisfits, WrongDimension, historyVars
<1>8. ASSUME NEW p \in Procs, Begin(p) \/ RebuildStep(p)
      PROVE  Goal
  <2>1. CASE ReplayCall(p)
    BY <1>2, <2>1 DEF ReplayCall
  <2>2. EndReplay(p) \/ RestoreState(p) => wakes' = wakes
    BY DEF EndReplay, RestoreState, historyVars
  <2> QED BY <1>8, <2>1, <2>2 DEF Begin, Start, StartRebuild, StartTopUp, RebuildStep,
     Clear, OpenCursor, ReplayRaises, Report, historyVars
<1> QED BY <1>6, <1>7, <1>8 DEF Next, Rest, vars

\* Rows go away only when a rebuild clears them all.
LEMMA RowsStayKnown ==
    ASSUME [Next]_vars, ~\E p \in Procs : Clear(p)
    PROVE  Ids \subseteq Ids'
BY MemorySteps DEF Upsert, SetMark, Ids

\* With nothing to do, what is derived is there.
LEMMA AtRestDerived ==
    ASSUME OpInHand, LiveDerives, NEW q \in Procs, todo[q] = {}, pc[q] # "cleared"
    PROVE  Identities(memories) = Fold[Recorded] /\ Ids = DOMAIN Fold[Recorded]
<1>1. op[q] = None /\ Recorded \ todo[q] = Recorded
  BY DEF OpInHand
<1>2. Identities(memories) = Fold[Recorded]
  BY <1>1 DEF LiveDerives, Derives, InProgress
<1> QED BY <1>2 DEF Identities, Ids

\* Every step keeps what was shown known.
LEMMA ShownIsKnownNext ==
    ASSUME OneProcess, NoTopUp, NothingIsCut, Known, LedgerInv, TypeInv', Grows,
           AllReadable, ReplayDerives, LiveDerives, ShownIsKnown, [Next]_vars
    PROVE  ShownIsKnown'
<1>0. /\ TypeInv /\ OpInHand /\ RebuildAlone /\ OwnRound
      /\ pc \in [Procs -> {"idle"} \cup RunSteps \cup RebuildSteps]
      /\ NoMisfit
  BY DEF Known, SupersessionInv, LedgerInv, TypeInv, TypeOK, NothingIsCut, NoMisfit
<1> DEFINE Replaying == {"cleared", "replay"}
<1> SUFFICES ASSUME NEW q \in Procs, NEW w \in DOMAIN wakes'
             PROVE  wakes'[w].retrieved \subseteq
                       IF pc'[q] \in Replaying THEN DOMAIN Fold'[Recorded'] ELSE Ids'
  BY DEF ShownIsKnown
<1>1. CASE pc'[q] \in Replaying
  <2>1. /\ UNCHANGED historyVars
        /\ wakes[w].retrieved \subseteq DOMAIN Fold[Recorded]
    <3>1. CASE Clear(q)
      <4>1. /\ UNCHANGED historyVars /\ pc[q] = "clear"
        BY <3>1 DEF Clear
      <4>2. Ids = DOMAIN Fold[Recorded]
        BY <1>0, <4>1, AtRestDerived DEF OwnRound, Dispatching
      <4> QED BY <4>1, <4>2 DEF ShownIsKnown, historyVars
    <3>2. CASE OpenCursor(q)
      BY <3>2 DEF OpenCursor, ShownIsKnown, historyVars
    <3>3. CASE ReplayCall(q)
      <4>1. pc[q] = "replay" /\ Dispatch(q)
        BY <3>3 DEF ReplayCall
      <4>2. todo[q] \subseteq Script
        BY <4>1 DEF ReplayDerives
      <4>3. UNCHANGED historyVars
        BY <1>0, <4>1, <4>2, ReplayKeepsHistory
      <4> QED BY <4>1, <4>3 DEF ShownIsKnown, historyVars
    <3>4. CASE UNCHANGED vars
      BY <1>1, <3>4 DEF vars, ShownIsKnown, historyVars
    <3> QED BY <1>0, <1>1, <3>1, <3>2, <3>3, <3>4, RebuildMoves
  <2>2. Recorded' = Recorded /\ wakes' = wakes
    BY <2>1, ScriptStays DEF historyVars
  <2>3. Fold'[Recorded] = Fold[Recorded]
    BY <1>0, FoldStays
  <2> QED BY <1>1, <2>1, <2>2, <2>3
<1>2. CASE pc'[q] \notin Replaying
  <2>1. Ids \subseteq Ids'
    <3>1. \A p \in Procs : p = q
      BY DEF OneProcess
    <3>2. ~\E p \in Procs : Clear(p)
      BY <1>0, <1>2, <3>1 DEF Clear, Goto
    <3> QED BY <3>2, RowsStayKnown
  <2>2. \A v \in DOMAIN wakes : wakes[v].retrieved \subseteq Ids
    <3>1. pc[q] # "cleared"
      <4>1. ~OpenCursor(q)
        BY <1>0, <1>2 DEF OpenCursor, Goto
      <4> QED BY <1>0, <1>2, <4>1, LiveMoves
    <3>2. CASE pc[q] = "replay"
      <4>1. todo[q] = {}
        BY <1>0, <1>2, <3>2, LiveMoves
      <4>2. Ids = DOMAIN Fold[Recorded]
        BY <1>0, <3>1, <4>1, AtRestDerived
      <4> QED BY <3>2, <4>2 DEF ShownIsKnown
    <3>3. CASE pc[q] # "replay"
      BY <3>1, <3>3 DEF ShownIsKnown
    <3> QED BY <3>2, <3>3
  <2>3. CASE wakes' = wakes
    BY <1>2, <2>1, <2>2, <2>3
  <2>4. CASE wakes' # wakes
    <3>1. wakes'[w].retrieved \subseteq
             Ids \cup (IF w \in DOMAIN wakes THEN wakes[w].retrieved ELSE {})
      BY <1>0, <2>4, ShownSteps
    <3>2. wakes'[w].retrieved \subseteq Ids
      BY <2>2, <3>1
    <3> QED BY <1>2, <2>1, <3>2
  <2> QED BY <2>3, <2>4
<1> QED BY <1>1, <1>2
----------------------------------------------------------------------------
OneAndUncut == OneProcess /\ Procs # {} /\ NothingIsCut /\ WellShaped

DerivedInv == /\ Known /\ LedgerInv /\ TwinInv
              /\ AllReadable /\ ReplayDerives /\ LiveDerives /\ ShownIsKnown

\* The invariant of the two theorems, from the start ...
LEMMA DerivedInvInit ==
    ASSUME OneAndUncut
    PROVE  Init => DerivedInv
<1> SUFFICES ASSUME Init
             PROVE  DerivedInv
  OBVIOUS
<1>1. Known /\ LedgerInv /\ TwinInv
  BY LedgerInvInit, TwinInvInit DEF OneAndUncut, RebuildsApart
<1>2. /\ wakes = << >> /\ turns = << >> /\ memories = Nothing
      /\ \A p \in Procs : todo[p] = {} /\ op[p] = None /\ pc[p] = "idle"
  BY DEF Init, HistoryInit, MemoryInit, OrchestratorInit, Nothing
<1>3. Recorded = {}
  BY <1>2 DEF Recorded
<1>4. Fold[{}] = Nothing
  BY <1>1, FoldIsRecursive DEF FoldsStep, Known
<1>5. Identities(memories) = Nothing
  BY <1>2 DEF Identities, Nothing
<1>6. AllReadable /\ ReplayDerives /\ ShownIsKnown
  BY <1>2 DEF AllReadable, ReplayDerives, ShownIsKnown
<1>7. LiveDerives
  <2>1. ASSUME NEW p \in Procs
        PROVE  Derives(p, {})
    <3>1. {} \ todo[p] = {}
      OBVIOUS
    <3>2. InProgress(Identities(memories), Fold[{} \ todo[p]], op[p])
      BY <1>2, <1>4, <1>5, <3>1 DEF InProgress
    <3> QED BY <1>3, <3>2 DEF Derives
  <2> QED BY <1>3, <2>1 DEF LiveDerives
<1> QED BY <1>1, <1>6, <1>7 DEF DerivedInv

\* ... and on.
LEMMA DerivedInvNext ==
    ASSUME OneAndUncut, NoTopUp, NoneIsNoOperation, DerivedInv, [Next]_vars
    PROVE  DerivedInv'
<1>1. Grows /\ Known' /\ LedgerInv'
  BY LedgerInvNext DEF DerivedInv
<1>2. TypeInv /\ TypeInv'
  BY <1>1 DEF DerivedInv, Known
<1>3. TwinInv'
  BY <1>1, <1>2, TwinInvNext DEF DerivedInv
<1>4. AllReadable'
  BY <1>2, AllReadableNext DEF DerivedInv, OneAndUncut
<1>5. ReplayDerives'
  <2>1. NoMisfit /\ FirstInHand /\ ReplayInOrder
    BY DEF OneAndUncut, NothingIsCut, NoMisfit, DerivedInv, TwinInv
  <2> QED BY <1>1, <1>2, <2>1, ReplayDerivesNext DEF DerivedInv
<1>6. LiveDerives'
  <2>1. FirstInHand /\ ReplayInOrder /\ TurnsInOrder'
    BY <1>3 DEF DerivedInv, TwinInv, InOrder
  <2>2. WakesInOrder'
    BY <1>2, <2>1, OneIsInOrderNext DEF OneAndUncut
  <2> QED BY <1>1, <1>2, <2>1, <2>2, LiveDerivesNext DEF DerivedInv, OneAndUncut
<1>7. ShownIsKnown'
  BY <1>1, <1>2, ShownIsKnownNext DEF DerivedInv, OneAndUncut
<1> QED BY <1>1, <1>3, <1>4, <1>5, <1>6, <1>7 DEF DerivedInv

\* Between two calls the live store is what history derives, of any number of
\* wakes and rebuilds of a process that nothing cuts short in a dispatch.
THEOREM LiveStoreIsDerived ==
    ASSUME OneAndUncut, NoTopUp, NoneIsNoOperation
    PROVE  Spec => []LiveIsDerived
<1>1. DerivedInv => LiveIsDerived
  <2> SUFFICES ASSUME DerivedInv,
                      \A p \in Procs : op[p] = None /\ pc[p] \notin {"cleared", "replay"}
               PROVE  Identities(memories)
                         = Fold[Recorded \ UNION {todo[p] : p \in Procs}]
    BY DEF LiveIsDerived
  <2>1. PICK q \in Procs : Procs = {q}
    BY DEF OneAndUncut, OneProcess
  <2>2. UNION {todo[p] : p \in Procs} = todo[q]
    BY <2>1
  <2>3. InProgress(Identities(memories), Fold[Recorded \ todo[q]], op[q])
    BY DEF DerivedInv, LiveDerives, Derives
  <2> QED BY <2>2, <2>3 DEF InProgress
<1>2. ASSUME DerivedInv, [Next]_vars
      PROVE  DerivedInv'
  BY <1>2, DerivedInvNext
<1> QED BY <1>1, <1>2, DerivedInvInit, PTL DEF Spec

\* Under the same conditions every id a record says was shown can be looked up:
\* a rebuild derives the same ids again.
THEOREM RetrievedAreThere ==
    ASSUME OneAndUncut, NoTopUp, NoneIsNoOperation
    PROVE  Spec => []RetrievedResolve
<1>1. DerivedInv => RetrievedResolve
  BY DEF OneAndUncut, DerivedInv, ShownIsKnown, RetrievedResolve
<1>2. ASSUME DerivedInv, [Next]_vars
      PROVE  DerivedInv'
  BY <1>2, DerivedInvNext
<1> QED BY <1>1, <1>2, DerivedInvInit, PTL DEF Spec
----------------------------------------------------------------------------
\* What Reaching is: a step along the links at a time.
LEMMA ReachingIs ==
    ASSUME NEW link, IsFiniteSet(DOMAIN link), NEW i
    PROVE  /\ Reaching(link, i)[0] = {i}
           /\ \A n \in 1 .. Cardinality(DOMAIN link) :
                 Reaching(link, i)[n] = Further(link, Reaching(link, i)[n - 1])
<1> DEFINE m == Cardinality(DOMAIN link)
           V == {i} \cup {link[j] : j \in DOMAIN link}
           S == SUBSET V
           first == {i}
           next == [n \in 1 .. m |-> [ids \in S |-> Further(link, ids)]]
           Is(g) == g = [n \in 0 .. m |->
                           IF n = 0 THEN {i} ELSE Further(link, g[n - 1])]
           reached == CHOOSE g : Is(g)
<1>0. m \in Nat
  BY FS_CardinalityType
<1>1. Reaching(link, i) = reached
  BY DEF Reaching
<1>2. \A ids \in S : Further(link, ids) \in S
  BY DEF Further
<1>3. first \in S
  OBVIOUS
<1> HIDE DEF m, V, S
<1>4. next \in [1 .. m -> [S -> S]]
  BY <1>2
<1>5. \A n \in 1 .. m : \A ids \in S : next[n][ids] = Further(link, ids)
  OBVIOUS
<1> HIDE DEF next, first
<1>6. PICK g : /\ g \in [0 .. m -> S] /\ g[0] = first
               /\ \A n \in 1 .. m : g[n] = next[n][g[n - 1]]
  <2> DEFINE Made(k, T, f, nx) ==
                \E g \in [0 .. k -> T] :
                   g[0] = f /\ \A n \in 1 .. k : g[n] = nx[n][g[n - 1]]
  <2>1. \A k \in Nat : \A T : \A f \in T : \A nx \in [1 .. k -> [T -> T]] :
           Made(k, T, f, nx)
    BY Recursion
  <2> HIDE DEF Made
  <2>2. Made(m, S, first, next)
    BY <1>0, <1>3, <1>4, <2>1
  <2> QED BY <2>2 DEF Made
<1>7. \A n \in 1 .. m : g[n] = Further(link, g[n - 1])
  <2>1. \A n \in 1 .. m : n - 1 \in 0 .. m
    BY <1>0
  <2>2. \A n \in 1 .. m : g[n - 1] \in S
    BY <1>6, <2>1
  <2> QED BY <1>5, <1>6, <2>2
<1>8. Is(g)
  <2>1. \A n \in 0 .. m : g[n] = IF n = 0 THEN {i} ELSE Further(link, g[n - 1])
    BY <1>0, <1>6, <1>7 DEF first
  <2> QED BY <1>6, <2>1
<1>9. Is(reached)
  <2> HIDE DEF Is
  <2> QED BY <1>8, Zenon
<1> HIDE DEF reached
<1>10. /\ reached[0] = {i}
       /\ \A n \in 1 .. m : reached[n] = Further(link, reached[n - 1])
  <2>1. PICK r : r = reached
    OBVIOUS
  <2>2. r = [n \in 0 .. m |-> IF n = 0 THEN {i} ELSE Further(link, r[n - 1])]
    BY <1>9, <2>1
  <2>3. \A n \in 0 .. m : r[n] = IF n = 0 THEN {i} ELSE Further(link, r[n - 1])
    BY <2>2, Zenon
  <2> QED BY <1>0, <2>1, <2>3
<1> QED BY <1>1, <1>10 DEF m

\* What is reached stays so.
LEMMA ReachingGrows ==
    ASSUME NEW link, IsFiniteSet(DOMAIN link), NEW i
    PROVE  /\ \A n \in 1 .. Cardinality(DOMAIN link) :
                 Reaching(link, i)[n - 1] \subseteq Reaching(link, i)[n]
           /\ \A n \in 0 .. Cardinality(DOMAIN link) :
                 Reaching(link, i)[n] \subseteq Reached(link, i)
<1> DEFINE m == Cardinality(DOMAIN link)
           g == Reaching(link, i)
           Below == {k \in 0 .. m : g[m - k] \subseteq g[m]}
<1>0. m \in Nat
  BY FS_CardinalityType
<1>1. \A n \in 1 .. m : g[n - 1] \subseteq g[n]
  BY ReachingIs DEF Further
<1>2. Reached(link, i) = g[m]
  BY DEF Reached
<1> HIDE DEF m, g
<1>3. 0 \in Below
  BY <1>0
<1>4. ASSUME NEW k \in 1 .. m, k - 1 \in Below
      PROVE  k \in Below
  <2>1. m - (k - 1) \in 1 .. m /\ (m - (k - 1)) - 1 = m - k /\ k \in 0 .. m
    BY <1>0
  <2>2. g[m - k] \subseteq g[m - (k - 1)]
    BY <1>1, <2>1
  <2> QED BY <1>4, <2>1, <2>2
<1>5. 0 .. m \subseteq Below
  <2> HIDE DEF Below
  <2> QED BY <1>0, <1>3, <1>4, SetInduction
<1>6. \A n \in 0 .. m : g[n] \subseteq g[m]
  <2>1. ASSUME NEW n \in 0 .. m
        PROVE  g[n] \subseteq g[m]
    <3>1. m - n \in 0 .. m /\ m - (m - n) = n
      BY <1>0
    <3>2. m - n \in Below
      BY <1>5, <3>1
    <3> QED BY <3>1, <3>2
  <2> QED BY <2>1
<1> QED BY <1>1, <1>2, <1>6 DEF m, g

\* One link more reaches as far in one step more.
LEMMA ReachingFrom ==
    ASSUME NEW link, IsFiniteSet(DOMAIN link), NEW j \in DOMAIN link, link[j] # None
    PROVE  \A n \in 1 .. Cardinality(DOMAIN link) :
              Reaching(link, link[j])[n - 1] \subseteq Reaching(link, j)[n]
<1> DEFINE m == Cardinality(DOMAIN link)
           g == Reaching(link, link[j])
           h == Reaching(link, j)
           So == {n \in 0 .. m : n = m \/ g[n] \subseteq h[n + 1]}
<1>0. m \in Nat
  BY FS_CardinalityType
<1>1. /\ g[0] = {link[j]} /\ h[0] = {j}
      /\ \A n \in 1 .. m : g[n] = Further(link, g[n - 1])
      /\ \A n \in 1 .. m : h[n] = Further(link, h[n - 1])
  BY ReachingIs
<1> HIDE DEF m, g, h
<1>2. 0 \in So
  <2>1. CASE m = 0
    BY <2>1
  <2>2. CASE m # 0
    <3>1. 1 \in 1 .. m /\ 1 - 1 = 0 /\ 0 + 1 = 1
      BY <1>0, <2>2
    <3>2. h[1] = Further(link, {j})
      BY <1>1, <3>1
    <3> QED BY <1>0, <1>1, <3>1, <3>2 DEF Further
  <2> QED BY <2>1, <2>2
<1>3. ASSUME NEW n \in 1 .. m, n - 1 \in So
      PROVE  n \in So
  <2>1. CASE n = m
    BY <1>0, <2>1
  <2>2. CASE n # m
    <3>1. /\ n + 1 \in 1 .. m /\ (n + 1) - 1 = n /\ (n - 1) + 1 = n /\ n \in 0 .. m
          /\ n - 1 # m
      BY <1>0, <2>2
    <3>2. g[n - 1] \subseteq h[n]
      BY <1>3, <3>1
    <3>3. g[n] = Further(link, g[n - 1]) /\ h[n + 1] = Further(link, h[n])
      BY <1>1, <3>1
    <3>4. g[n] \subseteq h[n + 1]
      BY <3>2, <3>3 DEF Further
    <3> QED BY <3>1, <3>4
  <2> QED BY <2>1, <2>2
<1>4. 0 .. m \subseteq So
  <2> HIDE DEF So
  <2> QED BY <1>0, <1>2, <1>3, SetInduction
<1>5. ASSUME NEW n \in 1 .. m
      PROVE  g[n - 1] \subseteq h[n]
  <2>1. n - 1 \in 0 .. m /\ n - 1 # m /\ (n - 1) + 1 = n
    BY <1>0
  <2>2. n - 1 \in So
    BY <1>4, <2>1
  <2> QED BY <2>1, <2>2
<1> QED BY <1>5 DEF m, g, h

\* Links up that only rise end.
LEMMA LinksEnd ==
    ASSUME NEW D, IsFiniteSet(D), None \notin D, NEW up \in [D -> D \cup {None}],
           NEW b \in Nat, NEW rank \in [D -> 0 .. b],
           \A j \in D : up[j] # None => rank[j] < rank[up[j]],
           NEW i \in D
    PROVE  /\ Reached(up, i) \subseteq D
           /\ \E e \in Reached(up, i) : up[e] = None
<1> DEFINE m == Cardinality(D)
           g == Reaching(up, i)
           Within == {n \in 0 .. m : g[n] \subseteq D /\ i \in g[n]}
           Far == {n \in 0 .. m : \/ \E e \in g[n] : up[e] = None
                                  \/ Cardinality(g[n]) >= n + 1}
<1>0. m \in Nat /\ DOMAIN up = D
  BY FS_CardinalityType
<1>1. /\ g[0] = {i}
      /\ \A n \in 1 .. m : g[n] = Further(up, g[n - 1])
  BY <1>0, ReachingIs
<1>2. Reached(up, i) = g[m]
  BY <1>0 DEF Reached
<1>3. \A T \in SUBSET D : IsFiniteSet(T) /\ Cardinality(T) \in Nat /\ Cardinality(T) <= m
  BY FS_Subset, FS_CardinalityType
<1> HIDE DEF m, g
<1>4. 0 .. m \subseteq Within
  <2>1. 0 \in Within
    BY <1>0, <1>1
  <2>2. ASSUME NEW n \in 1 .. m, n - 1 \in Within
        PROVE  n \in Within
    <3>1. g[n] = Further(up, g[n - 1]) /\ n \in 0 .. m
      BY <1>0, <1>1
    <3> QED BY <1>0, <2>2, <3>1 DEF Further
  <2> HIDE DEF Within
  <2> QED BY <1>0, <2>1, <2>2, SetInduction
<1>5. 0 .. m \subseteq Far
  <2>1. 0 \in Far
    <3>1. Cardinality(g[0]) = 1
      BY <1>1, FS_Singleton
    <3>2. Cardinality(g[0]) >= 0 + 1
      BY <3>1
    <3> QED BY <1>0, <3>2
  <2>2. ASSUME NEW n \in 1 .. m, n - 1 \in Far
        PROVE  n \in Far
    <3>1. /\ g[n] = Further(up, g[n - 1]) /\ n \in 0 .. m /\ n - 1 \in 0 .. m
          /\ g[n - 1] \subseteq g[n]
      BY <1>0, <1>1 DEF Further
    <3>2. g[n - 1] \subseteq D /\ i \in g[n - 1] /\ g[n] \subseteq D
      BY <1>4, <3>1
    <3>3. CASE \E e \in g[n - 1] : up[e] = None
      BY <3>1, <3>3
    <3>4. CASE /\ \A e \in g[n - 1] : up[e] # None
               /\ Cardinality(g[n - 1]) >= (n - 1) + 1
      <4> DEFINE ranks == {rank[e] : e \in g[n - 1]}
      <4>1. ranks \subseteq 0 .. b /\ ranks # {}
        BY <3>2
      <4>2. PICK top \in ranks : \A r \in ranks : r <= top
        <5> HIDE DEF ranks
        <5> QED BY <4>1, GreatestNumber
      <4>3. PICK e \in g[n - 1] : \A d \in g[n - 1] : rank[d] <= rank[e]
        BY <4>2
      <4>4. up[e] \in g[n] /\ up[e] \in D /\ rank[e] < rank[up[e]]
        BY <1>0, <3>1, <3>2, <3>4, <4>3 DEF Further
      <4>5. up[e] \notin g[n - 1]
        BY <3>2, <4>3, <4>4
      <4> DEFINE T == g[n - 1] \cup {up[e]}
      <4>6. T \in SUBSET D /\ T \subseteq g[n] /\ g[n] \in SUBSET D
        BY <3>1, <3>2, <4>4
      <4>7. Cardinality(T) = Cardinality(g[n - 1]) + 1
        BY <1>3, <3>2, <4>5, FS_AddElement
      <4>8. Cardinality(T) <= Cardinality(g[n])
        BY <1>3, <4>6, FS_Subset
      <4>9. Cardinality(g[n]) >= n + 1
        <5>1. Cardinality(g[n]) \in Nat /\ Cardinality(g[n - 1]) \in Nat
          BY <1>3, <3>2
        <5> HIDE DEF T
        <5> QED BY <3>4, <4>7, <4>8, <5>1
      <4> QED BY <3>1, <4>9
    <3> QED BY <2>2, <3>3, <3>4
  <2> HIDE DEF Far
  <2> QED BY <1>0, <2>1, <2>2, SetInduction
<1>6. g[m] \subseteq D
  BY <1>0, <1>4
<1>7. \E e \in g[m] : up[e] = None
  <2>1. m \in Far
    BY <1>0, <1>5
  <2>2. Cardinality(g[m]) \in Nat /\ Cardinality(g[m]) <= m
    BY <1>3, <1>6
  <2>3. ~(Cardinality(g[m]) >= m + 1)
    BY <1>0, <2>2
  <2> QED BY <2>1, <2>3
<1> QED BY <1>2, <1>6, <1>7

\* Whom links up lead to, links back lead from.
LEMMA LinksLeadBack ==
    ASSUME NEW D, IsFiniteSet(D), None \notin D, NEW up \in [D -> D \cup {None}],
           NEW down, DOMAIN down = D,
           NEW rank \in [D -> Nat],
           \A j \in D : up[j] # None => rank[j] < rank[up[j]],
           NEW i \in D,
           \A j \in D : up[j] \in Reached(up, i) \ {i} => down[up[j]] = j
    PROVE  \A e \in Reached(up, i) : i \in Reached(down, e)
<1> DEFINE m == Cardinality(D)
           g == Reaching(up, i)
           back(e) == Reaching(down, e)
           Back == {n \in 0 .. m :
                      \A e \in g[n] : /\ e \in D /\ rank[i] <= rank[e]
                                      /\ i \in back(e)[n]}
<1>0. m \in Nat /\ DOMAIN up = D
  BY FS_CardinalityType
<1>1. /\ g[0] = {i}
      /\ \A n \in 1 .. m : g[n] = Further(up, g[n - 1])
      /\ \A n \in 0 .. m : g[n] \subseteq Reached(up, i)
      /\ Reached(up, i) = g[m]
  BY <1>0, ReachingIs, ReachingGrows DEF Reached
<1>2. \A e : /\ back(e)[0] = {e}
             /\ \A n \in 1 .. m : back(e)[n - 1] \subseteq back(e)[n]
             /\ Reached(down, e) = back(e)[m]
  BY ReachingIs, ReachingGrows DEF Reached
<1>3. \A e \in D : down[e] # None =>
         \A n \in 1 .. m : back(down[e])[n - 1] \subseteq back(e)[n]
  BY ReachingFrom
<1> HIDE DEF m, g, back
<1>4. 0 \in Back
  BY <1>0, <1>1, <1>2
<1>5. ASSUME NEW n \in 1 .. m, n - 1 \in Back
      PROVE  n \in Back
  <2>1. n \in 0 .. m /\ g[n] = Further(up, g[n - 1]) /\ g[n] \subseteq Reached(up, i)
    BY <1>0, <1>1
  <2>2. ASSUME NEW e \in g[n]
        PROVE  e \in D /\ rank[i] <= rank[e] /\ i \in back(e)[n]
    <3>1. CASE e \in g[n - 1]
      <4>1. e \in D /\ rank[i] <= rank[e] /\ i \in back(e)[n - 1]
        BY <1>5, <3>1
      <4> QED BY <1>2, <4>1
    <3>2. ASSUME NEW j \in g[n - 1], j \in D, e = up[j], e # None
          PROVE  e \in D /\ rank[i] <= rank[e] /\ i \in back(e)[n]
      <4>1. rank[i] <= rank[j] /\ i \in back(j)[n - 1]
        BY <1>5, <3>2
      <4>2. e \in D /\ rank[j] < rank[e]
        BY <3>2
      <4>3. rank[i] < rank[e] /\ e # i
        BY <3>2, <4>1, <4>2
      <4>4. down[e] = j
        BY <2>1, <2>2, <3>2, <4>3
      <4>5. j # None
        BY <3>2
      <4>6. back(j)[n - 1] \subseteq back(e)[n]
        BY <1>3, <4>2, <4>4, <4>5
      <4> QED BY <4>1, <4>2, <4>3, <4>6
    <3> QED BY <1>0, <2>1, <2>2, <3>1, <3>2 DEF Further
  <2> QED BY <2>1, <2>2
<1>6. 0 .. m \subseteq Back
  <2> HIDE DEF Back
  <2> QED BY <1>0, <1>4, <1>5, SetInduction
<1>7. m \in Back
  BY <1>0, <1>6
<1> QED BY <1>1, <1>2, <1>7

\* There are finitely many rows, and a row that retires another names it as the
\* one it supersedes, unless it was made twice.
LinksBack ==
    /\ IsFiniteSet(Ids)
    /\ \A i, j \in Ids :
          memories[i].superseded_by = j => MadeTwice(j) \/ memories[j].supersedes = i

\* What a turn made twice it made for good.
LEMMA MadeTwiceStays ==
    ASSUME Grows, NEW j, MadeTwice(j), j.src \in DOMAIN turns
    PROVE  MadeTwice(j)'
<1>1. j.src \in DOMAIN turns' /\ turns'[j.src].calls = turns[j.src].calls
  BY DEF Grows
<1> QED BY <1>1 DEF MadeTwice

\* A row that a call in hand finds in the store was made by that call, or by
\* another of its turn.
LEMMA MarkLinksBack ==
    ASSUME Known, LedgerInv, NEW p \in Procs, op[p] # None, op[p].step # "upsert"
    PROVE  LET j == NewId(op[p].call)
           IN  MadeTwice(j) \/ memories[j].supersedes = Target(op[p].call)
<1> DEFINE c == op[p].call
           j == NewId(c)
<1>1. IsCall(c) /\ CallOf(c).tool = "supersede" /\ j \in Ids
  BY DEF Known, TypeInv, OpCommitted, LedgerInv, WriteIsNew, SupersessionInv, MarkReady
<1>2. /\ j.src = c.src /\ j.text = Canon[turns[c.src].calls[c.idx].text]
      /\ turns[c.src].calls[c.idx].tool = "supersede"
      /\ Target(c) = turns[c.src].calls[c.idx].target
      /\ c.idx \in DOMAIN turns[c.src].calls
  BY <1>1 DEF NewId, MemoryId, Text, CallOf, Target, IsCall
<1>3. PICK k \in DOMAIN turns[j.src].calls :
         /\ turns[j.src].calls[k].tool \in {"write", "supersede"}
         /\ Canon[turns[j.src].calls[k].text] = j.text
         /\ turns[j.src].calls[k].target = memories[j].supersedes
  BY <1>1 DEF Known, ProvenanceInv, Provenance
<1> HIDE DEF c, j
<1>4. MadeTwice(j) \/ memories[j].supersedes = Target(c)
  <2>1. CASE k = c.idx
    BY <1>2, <1>3, <2>1
  <2>2. CASE k # c.idx
    BY <1>2, <1>3, <2>2 DEF MadeTwice
  <2> QED BY <2>1, <2>2
<1> QED BY <1>4 DEF c, j

\* Every step keeps the links: an upsert links back to where its supersede is
\* to link from, and the emptying of a rebuild leaves none.
LEMMA LinksBackNext ==
    ASSUME Known, TypeInv', LedgerInv, LinksBack, Grows, [Next]_vars
    PROVE  LinksBack'
<1>0. /\ memories \in [Ids -> Rows] /\ None \notin Ids
      /\ \A i \in Ids : i.src \in DOMAIN turns
      /\ \A i \in Ids : memories[i].superseded_by \in Ids \cup {None}
  BY NoneAssumption DEF Known, TypeInv, TypeOK, Ids, ProvenanceInv, Provenance,
     SupersessionInv, ForwardSupersession
<1>t. None \notin Ids'
  BY NoneAssumption DEF TypeInv, TypeOK, Ids
<1>1. \A j \in Ids : MadeTwice(j) => MadeTwice(j)'
  BY <1>0, MadeTwiceStays
<1>2. CASE memories' = memories
  <2>1. Ids' = Ids
    BY <1>2 DEF Ids
  <2>2. ASSUME NEW i \in Ids', NEW j \in Ids', memories'[i].superseded_by = j
        PROVE  MadeTwice(j)' \/ memories'[j].supersedes = i
    BY <1>1, <1>2, <2>1, <2>2 DEF LinksBack
  <2> QED BY <2>1, <2>2 DEF LinksBack
<1>3. ASSUME NEW p \in Procs, Clear(p)
      PROVE  LinksBack'
  <2>1. Ids' = {}
    BY <1>3 DEF Clear, Ids
  <2> QED BY <2>1, FS_EmptySet DEF LinksBack
<1>4. ASSUME NEW p \in Procs, Upsert(p)
      PROVE  LinksBack'
  <2> DEFINE n == NewId(op[p].call)
  <2>1. n \notin Ids
    BY <1>4 DEF Upsert, LedgerInv, WriteIsNew
  <2>2. /\ Ids' = Ids \cup {n}
        /\ memories'[n].superseded_by = None
        /\ \A i \in Ids : memories'[i] = memories[i]
    BY <1>4, <2>1 DEF Upsert, Row, Ids
  <2> HIDE DEF n
  <2>3. IsFiniteSet(Ids')
    BY <2>2, FS_AddElement DEF LinksBack
  <2>4. ASSUME NEW i \in Ids', NEW j \in Ids', memories'[i].superseded_by = j
        PROVE  MadeTwice(j)' \/ memories'[j].supersedes = i
    <3>1. i \in Ids /\ memories'[i] = memories[i]
      BY <1>t, <2>2, <2>4
    <3> QED BY <1>0, <1>t, <1>1, <2>1, <2>2, <2>4, <3>1 DEF LinksBack
  <2> QED BY <2>3, <2>4 DEF LinksBack
<1>5. ASSUME NEW p \in Procs, SetMark(p)
      PROVE  LinksBack'
  <2> DEFINE n == NewId(op[p].call)
             t == Target(op[p].call)
  <2>1. op[p] # None /\ op[p].step = "set"
    BY <1>5 DEF SetMark
  <2>2. n \in Ids /\ (MadeTwice(n) \/ memories[n].supersedes = t)
    BY <2>1, MarkLinksBack DEF Known, SupersessionInv, MarkReady
  <2>3. /\ Ids' = Ids
        /\ \A i \in Ids : memories'[i] = IF i = t
                             THEN [memories[i] EXCEPT !.superseded_by = n]
                             ELSE memories[i]
    BY <1>5 DEF SetMark, Ids
  <2> HIDE DEF n, t
  <2>4. /\ \A i \in Ids : memories'[i].supersedes = memories[i].supersedes
        /\ \A i \in Ids \ {t} : memories'[i] = memories[i]
        /\ t \in Ids => memories'[t].superseded_by = n
    BY <1>0, <2>3 DEF Rows
  <2>5. ASSUME NEW i \in Ids', NEW j \in Ids', memories'[i].superseded_by = j
        PROVE  MadeTwice(j)' \/ memories'[j].supersedes = i
    <3>1. CASE i = t
      BY <1>1, <2>2, <2>3, <2>4, <2>5, <3>1
    <3>2. CASE i # t
      BY <1>1, <2>3, <2>4, <2>5, <3>2 DEF LinksBack
    <3> QED BY <3>1, <3>2
  <2> QED BY <2>3, <2>5 DEF LinksBack
<1> QED BY <1>2, <1>3, <1>4, <1>5, MemorySteps

\* Links that lead back are all the scoring needs: a chain ends in a live row,
\* and from there the row it began with is an ancestor.
LEMMA LinkedIsRecalled ==
    ASSUME Known, LinksBack
    PROVE  RecallIsFlat
<1> DEFINE up == [j \in Ids |-> memories[j].superseded_by]
           down == [j \in Ids |-> memories[j].supersedes]
           rank == [j \in Ids |-> j.src]
<1>0. /\ None \notin Ids /\ Len(turns) \in Nat
      /\ \A j \in Ids : j.src \in 1 .. Len(turns)
      /\ \A j \in Ids : memories[j].superseded_by \in Ids \cup {None}
      /\ \A j \in Ids : memories[j].superseded_by # None
                           => j.src < memories[j].superseded_by.src
  <2>1. turns \in Seq(Turns) /\ Ids \subseteq MemoryIds
    BY DEF Known, TypeInv, TypeOK, Ids
  <2> QED BY <2>1, NoneAssumption DEF Known, ProvenanceInv, Provenance,
        SupersessionInv, ForwardSupersession
<1>1. /\ IsFiniteSet(Ids) /\ DOMAIN down = Ids
      /\ up \in [Ids -> Ids \cup {None}]
      /\ rank \in [Ids -> 0 .. Len(turns)] /\ rank \in [Ids -> Nat]
      /\ \A j \in Ids : up[j] # None => rank[j] < rank[up[j]]
  BY <1>0 DEF LinksBack
<1>2. \A i, j \in Ids : up[i] = j => MadeTwice(j) \/ down[j] = i
  BY DEF LinksBack
<1>3. \A i \in Ids : Chain(i) = Reached(up, i)
  BY DEF Chain
<1>4. \A i \in Ids : AncestorIds(i) = Reached(down, i)
  BY DEF AncestorIds
<1>5. \A i \in Ids : up[i] = None => i \in Live
  BY DEF Live
<1> HIDE DEF up, down, rank
<1>6. ASSUME NEW i \in Ids, ~ \E j \in Chain(i) \ {i} : MadeTwice(j)
      PROVE  FirstHit(<<LiveEnd(i)>>, {i}) = 1
  <2>1. Chain(i) \subseteq Ids /\ \E e \in Chain(i) : up[e] = None
    <3> DEFINE EndsLive(link, x) == /\ Reached(link, x) \subseteq Ids
                                    /\ \E e \in Reached(link, x) : link[e] = None
    <3>0. IsFiniteSet(Ids) /\ None \notin Ids
      BY <1>0, <1>1
    <3>1. ASSUME NEW b \in Nat, NEW link \in [Ids -> Ids \cup {None}],
                 NEW rises \in [Ids -> 0 .. b],
                 \A j \in Ids : link[j] # None => rises[j] < rises[link[j]],
                 NEW x \in Ids
          PROVE  EndsLive(link, x)
      BY <3>0, <3>1, LinksEnd
    <3> HIDE DEF EndsLive
    <3>2. EndsLive(up, i)
      BY <1>0, <1>1, <3>1
    <3> QED BY <1>3, <3>2 DEF EndsLive
  <2>2. LiveEnd(i) \in Chain(i) /\ LiveEnd(i) \in Ids
    BY <1>5, <2>1 DEF LiveEnd
  <2>3. \A j \in Ids : up[j] \in Reached(up, i) \ {i} => down[up[j]] = j
    BY <1>0, <1>2, <1>3, <1>6, <2>1
  <2>4. \A e \in Reached(up, i) : i \in Reached(down, e)
    BY <1>0, <1>1, <2>3, LinksLeadBack
  <2>5. i \in AncestorIds(LiveEnd(i))
    BY <1>3, <1>4, <2>2, <2>4
  <2>6. {r \in DOMAIN <<LiveEnd(i)>> :
            {i} \cap AncestorIds(<<LiveEnd(i)>>[r]) # {}} = {1}
    BY <2>5
  <2>7. Min({1}) = 1
    BY DEF Min
  <2> QED BY <2>6, <2>7 DEF FirstHit
<1> QED BY <1>6 DEF RecallIsFlat

\* Consolidation costs no recall, whatever the processes, the crashes and the
\* rebuilds: the live row at the end of a chain counts as a hit for every row
\* of the chain, but where a turn made a row of it twice.
THEOREM RecallStaysFlat ==
    ASSUME RebuildsApart
    PROVE  Spec => []RecallIsFlat
<1>1. Init => LinksBack
  BY FS_EmptySet DEF Init, MemoryInit, LinksBack, Ids
<1>2. ASSUME Known, Known', LedgerInv, LinksBack, Grows, [Next]_vars
      PROVE  LinksBack'
  BY <1>2, LinksBackNext DEF Known
<1>3. ASSUME Known, LinksBack
      PROVE  RecallIsFlat
  BY <1>3, LinkedIsRecalled
<1> QED BY <1>1, <1>2, <1>3, LedgerInvInit, LedgerInvNext, PTL DEF Spec
=============================================================================
