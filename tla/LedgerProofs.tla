---------------------------- MODULE LedgerProofs ----------------------------
(***************************************************************************)
(* The program implements Ledger.tla, for every value of the constants:    *)
(* any number of processes, texts, calls, faults and rebuilds.             *)
(***************************************************************************)
EXTENDS HarnessProofs, Refinement

\* Nobody else runs the calls of a turn: a process has calls to do only while
\* it dispatches, and in a run they are those of a turn of its own wake.
Dispatching == {"tools", "replay"}

OwnRound ==
    \A p \in Procs :
        /\ pc[p] \notin Dispatching => todo[p] = {}
        /\ pc[p] = "tools" =>
              /\ turns[cyc[p].src].wake = cyc[p].wake
              /\ \A c \in todo[p] : c.src = cyc[p].src

\* So a row that is about to be written is not there, and only a supersede
\* goes on to a mark.
WriteIsNew ==
    \A p \in Procs : op[p] # None =>
        /\ op[p].step = "upsert" => NewId(op[p].call) \notin Ids
        /\ op[p].step # "upsert" => CallOf(op[p].call).tool = "supersede"

LedgerInv == OwnRound /\ WriteIsNew

\* What the earlier theorems know of a state.
Known == /\ TypeInv /\ ProvenanceInv /\ SupersessionInv /\ OwnsOpenWake

\* Two processes that both have something in hand dispatch different turns.
LEMMA DifferentTurns ==
    ASSUME Known, LedgerInv, NEW p \in Procs, NEW q \in Procs, p # q,
           op[p] # None, op[q] # None
    PROVE  op[p].call.src # op[q].call.src
  <1>1. /\ pc[p] \in Dispatching /\ op[p].call \in todo[p]
        /\ pc[q] \in Dispatching /\ op[q].call \in todo[q]
    BY DEF Known, SupersessionInv, OpInHand, Dispatching
  <1>2. pc[p] = "tools" /\ pc[q] = "tools"
    BY <1>1 DEF Known, SupersessionInv, RebuildAlone, RebuildSteps, Dispatching
  <1>3. cyc[p].wake # cyc[q].wake
    BY <1>2 DEF Known, OwnsOpenWake, HoldsWake
  <1> QED
    BY <1>1, <1>2, <1>3 DEF LedgerInv, OwnRound

\* A process starts, runs and ends its rounds of calls by itself.
LEMMA OwnRoundNext ==
    ASSUME TypeInv, TypeInv', Grows, OpInHand, OwnRound, [Next]_vars
    PROVE  OwnRound'
  <1>0. /\ pc \in [Procs -> {"idle"} \cup RunSteps \cup RebuildSteps]
        /\ todo \in [Procs -> SUBSET Calls] /\ cyc \in [Procs -> Cycles]
    BY DEF TypeInv, TypeOK
  \* What an idle hand of q has, and a round q is in, stays.
  <1>keep. ASSUME NEW q \in Procs, pc'[q] = pc[q], todo'[q] \subseteq todo[q],
                  pc[q] = "tools" => cyc'[q] = cyc[q]
           PROVE  /\ pc'[q] \notin Dispatching => todo'[q] = {}
                  /\ pc'[q] = "tools" =>
                        /\ turns'[cyc'[q].src].wake = cyc'[q].wake
                        /\ \A c \in todo'[q] : c.src = cyc'[q].src
    BY <1>keep DEF OwnRound, TypeInv, SrcCommitted, Grows
  <1>others. ASSUME NEW p \in Procs,
                    \A q \in Procs \ {p} : pc'[q] = pc[q] /\ todo'[q] = todo[q]
                                           /\ cyc'[q] = cyc[q],
                    pc'[p] \notin Dispatching => todo'[p] = {},
                    pc'[p] = "tools" =>
                        /\ turns'[cyc'[p].src].wake = cyc'[p].wake
                        /\ \A c \in todo'[p] : c.src = cyc'[p].src
             PROVE  OwnRound'
    <2>1. ASSUME NEW q \in Procs
          PROVE  /\ pc'[q] \notin Dispatching => todo'[q] = {}
                 /\ pc'[q] = "tools" =>
                       /\ turns'[cyc'[q].src].wake = cyc'[q].wake
                       /\ \A c \in todo'[q] : c.src = cyc'[q].src
      BY <1>keep, <1>others
    <2> QED
      BY <2>1 DEF OwnRound
  <1>1. ASSUME NEW p \in Procs, Dispatch(p) \/ WrongDimension(p),
               UNCHANGED orchestratorVars
        PROVE  OwnRound'
    <2>1. \A q \in Procs : todo'[q] \subseteq todo[q]
      BY <1>0, <1>1 DEF Dispatch, RejectWrite, AcceptWrite, VoidSupersede,
         ReapplyMark, AcceptSupersede, Upsert, RefuseMark, CheckMark, SetMark,
         RejectMisshapen, DispatchSearch, WrongDimension, Answered, Going
    <2>2. pc' = pc /\ cyc' = cyc
      BY <1>1 DEF orchestratorVars
    <2> QED
      BY <1>keep, <2>1, <2>2 DEF OwnRound
  \* A step of p outside its rounds, or at the end of one.
  <1>move. ASSUME NEW p \in Procs, NEW l, Goto(p, l), l # "tools",
                  \A q \in Procs \ {p} : cyc'[q] = cyc[q],
                  \/ /\ todo' = todo
                     /\ pc[p] \notin Dispatching \/ todo[p] = {}
                  \/ todo' = [todo EXCEPT ![p] = {}]
                  \/ l = "replay" /\ \E S : todo' = [todo EXCEPT ![p] = S]
           PROVE  OwnRound'
    <2>1. pc'[p] = l /\ \A q \in Procs \ {p} : pc'[q] = pc[q]
      BY <1>0, <1>move DEF Goto
    <2>2. \A q \in Procs \ {p} : todo'[q] = todo[q]
      BY <1>0, <1>move
    <2>3. l \notin Dispatching => todo'[p] = {}
      BY <1>0, <1>move DEF Dispatching, OwnRound
    <2> QED
      BY <1>others, <1>move, <2>1, <2>2, <2>3
  <1>2. ASSUME NEW p \in Procs,
               \/ LoadState(p) \/ OpenCycle(p) \/ UserTurn(p) \/ Observe(p)
               \/ BudgetStop(p) \/ ToolTurn(p) \/ CloseSleep(p)
               \/ UpdateState(p) \/ CloseCycle(p) \/ Successor(p)
               \/ CompleteFails(p) \/ UpdateFails(p) \/ GetFails(p)
        PROVE  OwnRound'
    <2>1. PICK l \in RunSteps : Goto(p, l) /\ l # "tools"
      BY <1>2 DEF LoadState, OpenCycle, UserTurn, Observe, BudgetStop, ToolTurn,
         CloseSleep, UpdateState, CloseCycle, Successor, CompleteFails,
         UpdateFails, GetFails, AfterTurn, RunSteps
    <2>2. /\ todo' = todo
          /\ pc[p] \notin Dispatching \/ todo[p] = {}
      BY <1>2 DEF LoadState, OpenCycle, UserTurn, Observe, BudgetStop, ToolTurn,
         CloseSleep, UpdateState, CloseCycle, Successor, CompleteFails,
         UpdateFails, GetFails, memoryVars, Dispatching
    <2>3. cyc' = cyc \/ \E c : cyc' = [cyc EXCEPT ![p] = c]
      BY <1>0, <1>2 DEF LoadState, OpenCycle, UserTurn, Observe, BudgetStop,
         ToolTurn, CloseSleep, UpdateState, CloseCycle, Successor,
         CompleteFails, UpdateFails, GetFails
    <2>4. \A q \in Procs \ {p} : cyc'[q] = cyc[q]
      BY <1>0, <2>3
    <2> QED
      BY <1>move, <2>1, <2>2, <2>4
  <1>3. ASSUME NEW p \in Procs, Complete(p)
        PROVE  OwnRound'
    <2>1. PICK calls \in MemoryCalls, f \in Finishes \cup {None} :
             /\ AppendTurn(cyc[p].wake, "assistant", calls, f)
             /\ todo' = [todo EXCEPT ![p] =
                            {[src |-> NewTurnSeq, idx |-> k] : k \in DOMAIN calls}]
             /\ IF calls = << >>
                THEN /\ cyc' = [cyc EXCEPT ![p] = Settled(@, calls, f)]
                     /\ Goto(p, "decided")
                ELSE /\ cyc' = [cyc EXCEPT ![p].src = NewTurnSeq]
                     /\ Goto(p, "tools")
      BY <1>3, Zenon DEF Complete
    <2>2. CASE calls = << >>
      <3>1. DOMAIN calls = {}
        BY <2>2
      <3>2. {[src |-> NewTurnSeq, idx |-> k] : k \in DOMAIN calls} = {}
        BY <3>1
      <3>3. todo' = [todo EXCEPT ![p] = {}]
        BY <2>1, <3>2
      <3>4. \A q \in Procs \ {p} : cyc'[q] = cyc[q]
        BY <1>0, <2>1, <2>2
      <3>5. Goto(p, "decided")
        BY <2>1, <2>2
      <3> QED
        BY <1>move, <3>3, <3>4, <3>5
    <2>3. CASE calls # << >>
      <3>1. /\ cyc'[p].src = NewTurnSeq /\ cyc'[p].wake = cyc[p].wake
            /\ \A q \in Procs \ {p} : cyc'[q] = cyc[q]
        BY <1>0, <2>1, <2>3 DEF Cycles
      <3>2. /\ pc'[p] = "tools"
            /\ \A q \in Procs \ {p} : pc'[q] = pc[q]
        BY <1>0, <2>1, <2>3 DEF Goto
      <3>3. /\ \A c \in todo'[p] : c.src = NewTurnSeq
            /\ \A q \in Procs \ {p} : todo'[q] = todo[q]
        BY <1>0, <2>1
      <3>4. turns'[NewTurnSeq].wake = cyc[p].wake
        <4>1. turns \in Seq(Turns)
          BY DEF TypeInv, TypeOK
        <4>2. turns' = Append(turns, Turn(cyc[p].wake, "assistant", calls, f))
          BY <2>1 DEF AppendTurn
        <4>3. turns'[Len(turns) + 1] = Turn(cyc[p].wake, "assistant", calls, f)
          BY <4>1, <4>2
        <4> QED
          BY <4>3 DEF NewTurnSeq, Turn
      <3> QED
        BY <1>others, <3>1, <3>2, <3>3, <3>4 DEF Dispatching
    <2> QED
      BY <2>2, <2>3
  <1>4. ASSUME NEW p \in Procs,
               \/ CloseOnError(p) \/ Finish(p) \/ ObserveFails(p) \/ Report(p)
               \/ ReplayRaises(p)
        PROVE  OwnRound'
    <2>1. Goto(p, "idle") /\ todo' = todo
          /\ \A q \in Procs \ {p} : cyc'[q] = cyc[q]
      BY <1>0, <1>4 DEF CloseOnError, Finish, ObserveFails, Report, ReplayRaises,
         Exit, memoryVars
    <2>2. pc[p] \notin Dispatching \/ todo[p] = {}
      BY <1>4 DEF CloseOnError, Finish, ObserveFails, Report, ReplayRaises,
         Dispatching
    <2> QED
      BY <1>move, <2>1, <2>2
  <1>5. ASSUME NEW p \in Procs,
               Crash(p) \/ ReplayFails(p) \/ DispatchFails(p) \/ DispatchRaises(p)
        PROVE  OwnRound'
    <2>1. /\ todo' = [todo EXCEPT ![p] = {}]
          /\ \A q \in Procs \ {p} : cyc'[q] = cyc[q]
      BY <1>0, <1>5 DEF Crash, ReplayFails, DispatchFails, DispatchRaises,
         Abandon, Exit
    <2>2. PICK l \in {"idle", "error"} : Goto(p, l)
      BY <1>5 DEF Crash, ReplayFails, DispatchFails, DispatchRaises, Exit
    <2> QED
      BY <1>move, <2>1, <2>2
  <1>6. ASSUME NEW p \in Procs, Begin(p)
        PROVE  OwnRound'
    <2>1. pc[p] = "idle" /\ cyc' = cyc
      BY <1>6 DEF Begin, Start, StartRebuild, StartTopUp
    <2>2. \/ Goto(p, "load") /\ todo' = todo
          \/ Goto(p, "clear") /\ todo' = todo
          \/ Goto(p, "cleared") /\ todo' = todo
      BY <1>6 DEF Begin, Start, StartRebuild, StartTopUp, memoryVars
    <2>3. pc[p] \notin Dispatching
      BY <2>1 DEF Dispatching
    <2> QED
      BY <1>move, <2>1, <2>2, <2>3
  <1>L. ASSUME NEW p \in Procs, LockedOut(p)
        PROVE  OwnRound'
    <2>1. todo' = [todo EXCEPT ![p] = {}]
      BY <1>L DEF LockedOut, Abandon
    <2>2. PICK l \in {"idle", "error"} :
             Goto(p, l) /\ \E c : cyc' = [cyc EXCEPT ![p] = c]
      BY <1>L DEF LockedOut, Exit
    <2>3. \A q \in Procs \ {p} : cyc'[q] = cyc[q]
      BY <1>0, <2>2
    <2> QED
      BY <1>move, <2>1, <2>2, <2>3
  <1>7. ASSUME NEW p \in Procs, Clear(p) \/ OpenCursor(p) \/ RestoreState(p)
        PROVE  OwnRound'
    <2>1. cyc' = cyc
      BY <1>7 DEF Clear, OpenCursor, RestoreState
    <2>2. /\ \/ Goto(p, "cleared") /\ todo' = todo
             \/ Goto(p, "replay") /\ todo' = [todo EXCEPT ![p] = Script]
             \/ Goto(p, "rebuilt") /\ todo' = todo
          /\ pc[p] \in {"clear", "cleared", "restore"}
      BY <1>7 DEF Clear, OpenCursor, RestoreState, memoryVars
    <2>3. pc[p] \notin Dispatching
      BY <2>2 DEF Dispatching
    <2> QED
      BY <1>move, <2>1, <2>2, <2>3
  <1>E. ASSUME NEW p \in Procs, EndReplay(p)
        PROVE  OwnRound'
    <2>1. Goto(p, "restore") /\ todo' = todo /\ todo[p] = {}
      BY <1>E DEF EndReplay, memoryVars
    <2>2. PICK s : cyc' = cyc \/ cyc' = [cyc EXCEPT ![p].state_after = s]
      BY <1>E DEF EndReplay
    <2>3. \A q \in Procs \ {p} : cyc'[q] = cyc[q]
      BY <1>0, <2>2
    <2> QED
      BY <1>move, <2>1, <2>3
  <1>8. ASSUME NEW p \in Procs, ClockRunsOut(p) \/ UNCHANGED vars
        PROVE  OwnRound'
    <2>1. UNCHANGED <<pc, cyc, todo>>
      BY <1>8 DEF ClockRunsOut, vars, memoryVars
    <2> QED
      BY <1>keep, <2>1 DEF OwnRound
  <1>9. ASSUME NEW p \in Procs, RunStep(p)
        PROVE  OwnRound'
    BY <1>1, <1>2, <1>3, <1>4, <1>5, <1>9 DEF RunStep, DispatchCall
  <1>10. ASSUME NEW p \in Procs, Misfortune(p) \/ ReplayFails(p) \/ ReplayMisfits(p)
         PROVE  OwnRound'
    BY <1>1, <1>2, <1>4, <1>5, <1>8, <1>L, <1>10
       DEF Misfortune, DispatchMisfits, ReplayMisfits
  <1>11. ASSUME NEW p \in Procs, RebuildStep(p)
         PROVE  OwnRound'
    BY <1>1, <1>4, <1>7, <1>E, <1>11 DEF RebuildStep, ReplayCall
  <1>12. CASE UNCHANGED vars
    <2>1. UNCHANGED <<pc, cyc, todo>>
      BY <1>12 DEF vars
    <2> QED
      BY <1>keep, <2>1 DEF OwnRound
  <1> QED
    BY <1>6, <1>9, <1>10, <1>11, <1>12 DEF Next, Rest

\* An operation in hand is for the same call and row as history grows.
LEMMA SameCall ==
    ASSUME Grows, NEW c, IsCall(c)
    PROVE  /\ MemoryId(c.src, Canon[turns'[c.src].calls[c.idx].text]) = NewId(c)
           /\ turns'[c.src].calls[c.idx] = CallOf(c)
  BY DEF Grows, IsCall, NewId, Text, CallOf

\* No other process writes the row a process is about to write.
LEMMA WriteIsNewNext ==
    ASSUME Known, LedgerInv, Grows, [Next]_vars
    PROVE  WriteIsNew'
  <1>0. op \in [Procs -> Operations \cup {None}]
    BY DEF Known, TypeInv, TypeOK
  <1> DEFINE Fine(o, ids) == /\ IsCall(o.call)
                             /\ o.step = "upsert" => NewId(o.call) \notin ids
                             /\ o.step # "upsert" => CallOf(o.call).tool = "supersede"
  <1>1. ASSUME \A q \in Procs : op'[q] # None => Fine(op'[q], Ids')
        PROVE  WriteIsNew'
    <2>1. ASSUME NEW q \in Procs, op'[q] # None
          PROVE  /\ op'[q].step = "upsert" =>
                      MemoryId(op'[q].call.src,
                         Canon[turns'[op'[q].call.src].calls[op'[q].call.idx].text])
                      \notin Ids'
                 /\ op'[q].step # "upsert" =>
                      turns'[op'[q].call.src].calls[op'[q].call.idx].tool = "supersede"
      BY <1>1, <2>1, SameCall
    <2> QED
      BY <2>1 DEF WriteIsNew, NewId, Text, CallOf
  <1>2. \A q \in Procs : op[q] # None => Fine(op[q], Ids)
    BY DEF Known, TypeInv, OpCommitted, LedgerInv, WriteIsNew
  <1> HIDE DEF Fine
  <1>3. ASSUME Ids' = Ids, \A q \in Procs : op'[q] # None => op'[q] = op[q]
        PROVE  WriteIsNew'
    BY <1>1, <1>2, <1>3
  <1>4. ASSUME NEW p \in Procs, Clear(p)
        PROVE  WriteIsNew'
    <2>1. \A q \in Procs : op'[q] = None
      BY <1>4 DEF Clear, Known, SupersessionInv, OpInHand, RebuildAlone, RebuildSteps
    <2> QED
      BY <2>1 DEF WriteIsNew
  <1>5. ASSUME NEW p \in Procs, Dispatch(p)
        PROVE  WriteIsNew'
    <2>1. ASSUME NEW c, Answered(p, c), Ids' = Ids
          PROVE  WriteIsNew'
      BY <1>0, <1>3, <2>1 DEF Answered
    <2>2. ASSUME NEW c, NEW step, NEW at, Going(p, c, step, at), Ids' = Ids,
                 IsCall(c), step = "upsert" => NewId(c) \notin Ids,
                 step # "upsert" => CallOf(c).tool = "supersede"
          PROVE  WriteIsNew'
      <3>1. op'[p].call = c /\ op'[p].step = step
            /\ \A q \in Procs \ {p} : op'[q] = op[q]
        BY <1>0, <2>2 DEF Going
      <3>2. \A q \in Procs : op'[q] # None => Fine(op'[q], Ids')
        BY <1>2, <2>2, <3>1 DEF Fine
      <3> QED
        BY <1>1, <3>2
    <2>3. CASE RejectWrite(p) \/ VoidSupersede(p) \/ RefuseMark(p)
               \/ RejectMisshapen(p) \/ DispatchSearch(p)
      BY <2>1, <2>3 DEF RejectWrite, VoidSupersede, RefuseMark, RejectMisshapen,
         DispatchSearch, Ids
    <2>4. CASE AcceptWrite(p) \/ AcceptSupersede(p) \/ ReapplyMark(p)
      <3>1. PICK c \in todo[p], step \in {"upsert", "mark"} :
               /\ \/ Going(p, c, step, Now)
                  \/ Going(p, c, step, memories[Target(c)].occurred_at)
               /\ memories' = memories
               /\ step = "upsert" => NewId(c) \notin Ids
               /\ step = "mark" => CallOf(c).tool = "supersede"
        BY <2>4 DEF AcceptWrite, AcceptSupersede, ReapplyMark, WriteRejected
      <3>2. IsCall(c)
        BY DEF Known, TypeInv, TodoCommitted
      <3> QED
        BY <2>2, <3>1, <3>2 DEF Ids
    <2>5. CASE CheckMark(p)
      <3>1. op[p] # None /\ op[p].step = "mark" /\ memories' = memories
            /\ Going(p, op[p].call, "set", op[p].at)
        BY <2>5 DEF CheckMark
      <3>2. IsCall(op[p].call) /\ CallOf(op[p].call).tool = "supersede"
        BY <1>2, <3>1 DEF Fine
      <3> QED
        BY <2>2, <3>1, <3>2 DEF Ids
    <2>6. CASE SetMark(p)
      <3>1. Ids' = Ids
        BY <2>6 DEF SetMark, Ids
      <3> QED
        BY <2>1, <2>6, <3>1 DEF SetMark
    <2>7. CASE Upsert(p)
      <3>1. op[p] # None /\ Ids' = Ids \cup {NewId(op[p].call)}
        BY <2>7 DEF Upsert, Ids
      <3>2. ASSUME NEW q \in Procs, q # p, op[q] # None
            PROVE  NewId(op[q].call) # NewId(op[p].call)
        <4>1. op[p].call.src # op[q].call.src
          BY <3>1, <3>2, DifferentTurns
        <4> QED
          BY <4>1 DEF NewId, MemoryId
      <3>3. \A q \in Procs \ {p} : op'[q] = op[q]
        BY <1>0, <2>7 DEF Upsert, Going, Answered
      <3>4. op'[p] # None => /\ op'[p].call = op[p].call /\ op'[p].step = "mark"
                             /\ CallOf(op[p].call).tool = "supersede"
        BY <1>0, <2>7 DEF Upsert, Going, Answered
      <3>5. \A q \in Procs : op'[q] # None => Fine(op'[q], Ids')
        BY <1>2, <3>1, <3>2, <3>3, <3>4 DEF Fine
      <3> QED
        BY <1>1, <3>5
    <2> QED
      BY <1>5, <2>3, <2>4, <2>5, <2>6, <2>7 DEF Dispatch
  <1>6. ASSUME NEW p \in Procs, RunStep(p)
        PROVE  WriteIsNew'
    <2>1. CASE DispatchCall(p)
      BY <1>5, <2>1 DEF DispatchCall
    <2>2. CASE ~DispatchCall(p)
      <3>1. memories' = memories
        BY <1>6, <2>2 DEF RunStep, LoadState, OpenCycle, UserTurn, Observe,
           Complete, BudgetStop, DispatchRaises, ToolTurn, CloseSleep, GetFails,
           UpdateState, CloseCycle, CloseOnError, Successor, Finish, memoryVars
      <3>2. op' = op \/ op' = [op EXCEPT ![p] = None]
        BY <1>6, <2>2 DEF RunStep, LoadState, OpenCycle, UserTurn, Observe,
           Complete, BudgetStop, DispatchRaises, Abandon, ToolTurn, CloseSleep,
           GetFails, UpdateState, CloseCycle, CloseOnError, Successor, Finish,
           memoryVars
      <3> QED
        BY <1>0, <1>3, <3>1, <3>2 DEF Ids
    <2> QED
      BY <2>1, <2>2
  <1>7. ASSUME NEW p \in Procs, Misfortune(p) \/ ReplayFails(p) \/ ReplayMisfits(p)
        PROVE  WriteIsNew'
    <2>1. memories' = memories
      BY <1>7 DEF Misfortune, ObserveFails, CompleteFails, DispatchFails,
         DispatchMisfits, UpdateFails, ClockRunsOut, Crash, LockedOut, ReplayFails,
         ReplayMisfits, WrongDimension, memoryVars
    <2>2. op' = op \/ op' = [op EXCEPT ![p] = None]
      BY <1>7 DEF Misfortune, ObserveFails, CompleteFails, DispatchFails,
         DispatchMisfits, UpdateFails, ClockRunsOut, Crash, LockedOut, ReplayFails,
         ReplayMisfits, WrongDimension, Answered, Abandon, memoryVars
    <2> QED
      BY <1>0, <1>3, <2>1, <2>2 DEF Ids
  <1>8. ASSUME NEW p \in Procs, Begin(p) \/ RebuildStep(p)
        PROVE  WriteIsNew'
    <2>1. CASE ReplayCall(p)
      BY <1>5, <2>1 DEF ReplayCall
    <2>2. CASE ~ReplayCall(p) /\ ~Clear(p)
      <3>1. memories' = memories /\ op' = op
        <4>1. EndReplay(p) \/ RestoreState(p) => memories' = memories /\ op' = op
          BY DEF EndReplay, RestoreState, memoryVars
        <4> QED
          BY <1>8, <2>2, <4>1 DEF Begin, Start, StartRebuild, StartTopUp, RebuildStep,
             OpenCursor, ReplayRaises, Report, memoryVars
      <3> QED
        BY <1>3, <3>1 DEF Ids
    <2> QED
      BY <1>4, <2>1, <2>2
  <1> QED
    BY <1>3, <1>6, <1>7, <1>8 DEF Next, Rest, vars, Ids

\* Known and LedgerInv are inductive together.
LEMMA LedgerInvInit ==
    ASSUME RebuildsApart
    PROVE  Init => Known /\ LedgerInv
  <1>1. Init => ProvenanceInv /\ SupersessionInv
    BY DEF Init, HistoryInit, MemoryInit, OrchestratorInit, ProvenanceInv,
       CallsAreAssistant, Provenance, SupersessionInv, OpInHand, RebuildAlone,
       RebuildSteps, CallsNameOlder, MarkReady, ForwardSupersession, Ids
  <1>2. Init => OwnsOpenWake
    BY DEF Init, OrchestratorInit, OwnsOpenWake, HoldsWake
  <1>3. Init => LedgerInv
    BY DEF Init, MemoryInit, OrchestratorInit, LedgerInv, OwnRound, WriteIsNew
  <1> QED
    BY <1>1, <1>2, <1>3, TypeInvInit DEF Known

LEMMA LedgerInvNext == Known /\ LedgerInv /\ [Next]_vars => Grows /\ (Known /\ LedgerInv)'
  <1> SUFFICES ASSUME Known, LedgerInv, [Next]_vars
               PROVE  Grows /\ (Known /\ LedgerInv)'
    OBVIOUS
  <1>1. TypeInv' /\ Grows
    BY TypeInvNext DEF Known
  <1>2. ProvenanceInv'
    BY <1>1, ProvenanceNext DEF Known
  <1>3. SupersessionInv'
    BY <1>1, InHandNext, CallsNameOlderNext, MarkReadyNext, ForwardNext
       DEF Known, SupersessionInv
  <1>4. OwnsOpenWake'
    BY <1>1, OwnsNext DEF Known
  <1>5. OwnRound'
    BY <1>1, OwnRoundNext DEF Known, SupersessionInv, LedgerInv
  <1>6. WriteIsNew'
    BY <1>1, WriteIsNewNext
  <1> QED
    BY <1>1, <1>2, <1>3, <1>4, <1>5, <1>6 DEF Known, LedgerInv
----------------------------------------------------------------------------
Table == Identities(memories)

\* An entry of the log does not change, and the log is a sequence.
LEMMA LogGrows ==
    ASSUME TypeInv, TypeInv', Grows
    PROVE  /\ \A s \in DOMAIN Log : s \in DOMAIN Log' /\ Log'[s] = Log[s]
           /\ DOMAIN Log = DOMAIN turns /\ DOMAIN Log' = DOMAIN turns'
           /\ Len(Log) = Len(turns) /\ Len(Log') = Len(turns')
  <1>1. turns \in Seq(Turns) /\ turns' \in Seq(Turns)
    BY DEF TypeInv, TypeOK
  <1>2. DOMAIN Log = DOMAIN turns /\ DOMAIN Log' = DOMAIN turns'
    BY DEF Log
  <1>3. ASSUME NEW s \in DOMAIN turns
        PROVE  s \in DOMAIN turns' /\ Log'[s] = Log[s]
    <2>1. /\ s \in DOMAIN turns' /\ turns'[s] = turns[s]
          /\ wakes'[turns[s].wake].kind = wakes[turns[s].wake].kind
      BY DEF Grows, TypeInv, TurnsHaveWakes
    <2>2. DecisionsOf(turns'[s]) = DecisionsOf(turns[s])
      BY <2>1
    <2> QED
      BY <2>1, <2>2 DEF Log
  <1>4. Len(Log) = Len(turns)
    <2>1. Log \in Seq({Log[s] : s \in DOMAIN turns})
      BY <1>1 DEF Log
    <2> QED
      BY <1>1, <1>2, <2>1
  <1>5. Len(Log') = Len(turns')
    <2>1. Log' \in Seq({Log'[s] : s \in DOMAIN turns'})
      BY <1>1 DEF Log
    <2> QED
      BY <1>1, <1>2, <2>1
  <1> QED
    BY <1>2, <1>3, <1>4, <1>5

\* The call in hand was decided on in its turn.
LEMMA CallWasDecided ==
    ASSUME Known, NEW p \in Procs, op[p] # None
    PROVE  LET c == op[p].call
           IN  /\ c.src \in DOMAIN Log
               /\ [text |-> NewId(c).text, supersedes |-> Target(c)]
                     \in Log[c.src].decisions
               /\ NewId(c).src = c.src
               /\ Log[c.src].origin = wakes[turns[c.src].wake].kind
  <1> DEFINE c == op[p].call
  <1>1. IsCall(c) /\ CallOf(c).tool \in {"write", "supersede"}
    BY DEF Known, TypeInv, OpCommitted
  <1>2. NewId(c).src = c.src /\ NewId(c).text = Canon[turns[c.src].calls[c.idx].text]
        /\ Target(c) = turns[c.src].calls[c.idx].target
    BY DEF NewId, MemoryId, Text, CallOf, Target
  <1>3. [text |-> NewId(c).text, supersedes |-> Target(c)] \in DecisionsOf(turns[c.src])
    BY <1>1, <1>2 DEF DecisionsOf, IsCall, CallOf
  <1> QED
    BY <1>1, <1>2, <1>3 DEF Log, IsCall

\* An upsert derives a row.
LEMMA UpsertDerives ==
    ASSUME Known, LedgerInv, TypeInv', Grows, NEW p \in Procs, Upsert(p),
           UNCHANGED historyVars
    PROVE  L!Derive
  <1> DEFINE c == op[p].call
             i == NewId(op[p].call)
  <1>1. op[p] # None /\ i \notin Ids
    BY DEF Upsert, LedgerInv, WriteIsNew
  <1>2. /\ Ids' = Ids \cup {i} /\ \A j \in Ids : memories'[j] = memories[j]
        /\ memories'[i] = Row(wakes[turns[c.src].wake].kind, Target(c), op[p].at)
    BY <1>1 DEF Upsert, Ids
  <1>3. /\ DOMAIN Table = Ids /\ DOMAIN Table' = Ids'
        /\ \A j \in Ids : Table'[j] = Table[j]
        /\ Table'[i] = [origin |-> wakes[turns[c.src].wake].kind,
                        supersedes |-> Target(c), superseded_by |-> None]
    BY <1>2 DEF Table, Identities, Identity, Ids, Row
  <1>4. Log' = Log
    BY DEF historyVars, Log
  <1>5. /\ c.src \in DOMAIN Log /\ i.src = c.src
        /\ [text |-> i.text, supersedes |-> Target(c)] \in Log[c.src].decisions
        /\ Log[c.src].origin = wakes[turns[c.src].wake].kind
    BY <1>1, CallWasDecided
  <1> HIDE DEF c, i
  <1>6. L!Decided(i, Table'[i].supersedes)
    BY <1>3, <1>5 DEF L!Decided
  <1>7. /\ i \in DOMAIN Table' \ DOMAIN Table
        /\ Table'[i] = [origin |-> Log[i.src].origin,
                        supersedes |-> Table'[i].supersedes,
                        superseded_by |-> None]
        /\ DOMAIN Table' = DOMAIN Table \cup {i}
        /\ \A j \in DOMAIN Table : Table'[j] = Table[j]
    BY <1>1, <1>2, <1>3, <1>5
  <1> QED
    BY <1>4, <1>6, <1>7, Zenon DEF L!Derive, Table

\* A mark retires a row for one that is there and was decided on later, unless
\* the row has gone.
LEMMA MarkRetires ==
    ASSUME Known, LedgerInv, NEW p \in Procs, SetMark(p), UNCHANGED historyVars
    PROVE  L!Retire \/ UNCHANGED <<Log, Table>>
  <1> DEFINE c == op[p].call
             i == Target(op[p].call)
             j == NewId(op[p].call)
  <1>1. op[p] # None /\ op[p].step = "set" /\ IsCall(c)
    BY DEF SetMark, Known, TypeInv, OpCommitted
  <1>2. /\ c.src \in DOMAIN Log /\ j.src = c.src
        /\ [text |-> j.text, supersedes |-> i] \in Log[c.src].decisions
    BY <1>1, CallWasDecided
  <1>3. Log' = Log
    BY DEF historyVars, Log
  <1>4. memories' = [m \in Ids |-> IF m = i
                       THEN [memories[m] EXCEPT !.superseded_by = j] ELSE memories[m]]
    BY DEF SetMark
  <1>5. \A m \in Ids : memories[m] \in Rows
    BY DEF Known, TypeInv, TypeOK, Ids
  <1>6. CASE i \in Ids
    <2>1. j \in Ids
      BY <1>1 DEF Known, SupersessionInv, MarkReady
    <2>2. i \in MemoryIds
      BY <1>6 DEF Known, TypeInv, TypeOK, Ids
    <2>3. i.src < j.src
      BY <1>1, <1>2, <2>2
         DEF Known, SupersessionInv, CallsNameOlder, IsCall, Target, CallOf
    <2>4. Table' = [Table EXCEPT ![i].superseded_by = j]
      <3>1. DOMAIN Table = Ids /\ DOMAIN Table' = Ids
        BY <1>4 DEF Table, Identities, Ids
      <3> HIDE DEF i, j
      <3>2. \A m \in Ids : Table'[m] = [Table EXCEPT ![i].superseded_by = j][m]
        BY <1>4, <1>5, <1>6 DEF Table, Identities, Identity, Ids, Rows
      <3> QED
        BY <3>1, <3>2 DEF Table, Identities
    <2>5. DOMAIN Table = Ids
      BY DEF Table, Identities, Ids
    <2> HIDE DEF c, i, j
    <2>6. L!Decided(j, i)
      BY <1>2 DEF L!Decided
    <2> QED
      BY <1>3, <1>6, <2>1, <2>3, <2>4, <2>5, <2>6 DEF L!Retire, Table
  <1>7. CASE i \notin Ids
    <2>1. memories' = memories
      <3>1. memories \in [Ids -> Rows]
        BY DEF Known, TypeInv, TypeOK, Ids
      <3> QED
        BY <1>4, <1>7, <3>1
    <2> QED
      BY <1>3, <2>1 DEF Table
  <1> QED
    BY <1>6, <1>7

\* A turn that is committed is an entry decided.
LEMMA TurnDecides ==
    ASSUME Known, TypeInv', Grows, memories' = memories, NEW t,
           turns' = Append(turns, t), t.calls # << >> => t.calls \in MemoryCalls
    PROVE  L!Decide
  <1>1. turns \in Seq(Turns)
    BY DEF Known, TypeInv, TypeOK
  <1>2. Len(turns') = Len(turns) + 1 /\ turns'[Len(turns) + 1] = t
        /\ Len(turns) + 1 \in DOMAIN turns'
    BY <1>1
  <1>3. /\ Len(Log') = Len(Log) + 1
        /\ \A s \in DOMAIN Log : Log'[s] = Log[s]
        /\ Log'[Len(Log')].decisions = DecisionsOf(t)
    BY <1>2, LogGrows DEF Log, Known
  <1>4. ASSUME NEW d \in DecisionsOf(t)
        PROVE  \/ d.supersedes = None
               \/ /\ d.supersedes.src \in DOMAIN Log
                  /\ \E e \in Log[d.supersedes.src].decisions : e.text = d.supersedes.text
    <2>1. PICK k \in DOMAIN t.calls : d.supersedes = t.calls[k].target
      BY DEF DecisionsOf
    <2>2. t.calls # << >>
      BY <2>1
    <2>3. t.calls[k] \in Menu
      BY <2>1, <2>2 DEF MemoryCalls
    <2>4. d.supersedes \in DecidedIds \cup {None}
      BY <2>1, <2>3 DEF Menu, Write, Search, Supersede, Misshapen, Falsy
    <2>5. ASSUME NEW s \in DOMAIN turns, NEW c \in CallsOf(s),
                 CallOf(c).tool \in {"write", "supersede"}
          PROVE  /\ NewId(c).src \in DOMAIN Log
                 /\ \E e \in Log[NewId(c).src].decisions : e.text = NewId(c).text
      <3>1. c.src = s /\ c.idx \in DOMAIN turns[s].calls
        BY DEF CallsOf
      <3>2. NewId(c).src = s /\ NewId(c).text = Canon[turns[s].calls[c.idx].text]
        BY <3>1 DEF NewId, MemoryId, Text, CallOf
      <3>3. [text |-> Canon[turns[s].calls[c.idx].text],
             supersedes |-> turns[s].calls[c.idx].target] \in Log[s].decisions
        BY <2>5, <3>1 DEF Log, DecisionsOf, CallOf
      <3> QED
        BY <3>2, <3>3 DEF Log
    <2> QED
      BY <2>4, <2>5 DEF DecidedIds
  <1>5. Identities(memories)' = Identities(memories)
    BY DEF Identities
  <1> QED
    BY <1>3, <1>4, <1>5 DEF L!Decide

\* Every step is one of the ledger's, or changes nothing of it.
LEMMA StepRefines ==
    ASSUME Known, LedgerInv, TypeInv', Grows, [Next]_vars
    PROVE  L!Next \/ UNCHANGED L!vars
  <1>1. ASSUME NEW p \in Procs, Upsert(p), UNCHANGED historyVars
        PROVE  L!Next
    BY <1>1, UpsertDerives DEF L!Next
  <1>2. ASSUME NEW p \in Procs, SetMark(p), UNCHANGED historyVars
        PROVE  L!Next \/ UNCHANGED L!vars
    BY <1>2, MarkRetires DEF L!Next, L!vars, Table
  <1>3. ASSUME NEW p \in Procs, Clear(p)
        PROVE  L!Next
    <2>1. Log' = Log
      BY <1>3 DEF Clear, historyVars, Log
    <2>2. Identities(memories)' = [i \in {} |-> None]
      BY <1>3 DEF Clear, Identities
    <2> QED
      BY <2>1, <2>2 DEF L!Forget, L!Next
  <1>4. CASE memories' = memories
    <2>1. CASE turns' = turns
      <3>1. Log' = Log
        <4>1. \A s \in DOMAIN Log : Log'[s] = Log[s]
          BY LogGrows DEF Known
        <4> QED
          BY <2>1, <4>1 DEF Log
      <3> QED
        BY <1>4, <3>1 DEF L!vars
    <2>2. ASSUME NEW t, turns' = Append(turns, t),
                 t.calls # << >> => t.calls \in MemoryCalls
          PROVE  L!Next
      BY <1>4, <2>2, TurnDecides DEF L!Next
    <2> QED
      BY <2>1, <2>2, TurnSteps DEF Known
  <1> QED
    BY <1>1, <1>2, <1>3, <1>4, MemorySteps

\* The program implements the ledger: with any number of processes, faults and
\* rebuilds that have the database for themselves, history only grows, a row is
\* derived once and as it was decided, and one is retired only by a later row that
\* is there.
THEOREM LedgerIsImplemented ==
    ASSUME RebuildsApart
    PROVE  Spec => ImplementsLedger
  <1>1. Init => L!Init
    BY DEF Init, HistoryInit, MemoryInit, L!Init, Log, Identities
  <1>2. Known /\ LedgerInv /\ [Next]_vars => [L!Next]_(L!vars)
    BY LedgerInvNext, StepRefines DEF Known
  <1>3. ImplementsLedger <=> L!Init /\ [][L!Next]_(L!vars)
    BY DEF ImplementsLedger, L!Spec
  <1> QED
    BY <1>1, <1>2, <1>3, LedgerInvInit, LedgerInvNext, PTL DEF Spec
----------------------------------------------------------------------------
\* What mark_superseded checked still holds when it updates the row.
MarkFree ==
    \A p \in Procs : op[p] # None /\ op[p].step = "set" =>
        /\ Target(op[p].call) \in Ids
        /\ memories[Target(op[p].call)].superseded_by \in {None, NewId(op[p].call)}

\* Alone, nobody comes between the check and the update.
LEMMA MarkFreeNext ==
    ASSUME OneProcess, Known, MarkFree, Grows, [Next]_vars
    PROVE  MarkFree'
  <1>0. op \in [Procs -> Operations \cup {None}]
    BY DEF Known, TypeInv, TypeOK
  <1> DEFINE Free(c) == /\ IsCall(c) /\ Target(c) \in Ids
                        /\ memories[Target(c)].superseded_by \in {None, NewId(c)}
  <1>1. ASSUME memories' = memories,
               \A q \in Procs : op'[q] # None /\ op'[q].step = "set" => Free(op'[q].call)
        PROVE  MarkFree'
    <2>1. ASSUME NEW q \in Procs, op'[q] # None, op'[q].step = "set"
          PROVE  LET c == op'[q].call
                     d == turns'[c.src].calls[c.idx]
                 IN  /\ d.target \in DOMAIN memories'
                     /\ memories'[d.target].superseded_by
                           \in {None, MemoryId(c.src, Canon[d.text])}
      <3>1. Free(op'[q].call)
        BY <1>1, <2>1
      <3> QED
        BY <1>1, <3>1, SameCall DEF Target, Ids, CallOf, NewId, Text
    <2> QED
      BY <2>1 DEF MarkFree, Target, CallOf, NewId, Text, Ids
  <1>2. ASSUME \A q \in Procs : op'[q] # None => op'[q].step # "set"
        PROVE  MarkFree'
    BY <1>2 DEF MarkFree
  <1>3. \A q \in Procs : op[q] # None /\ op[q].step = "set" => Free(op[q].call)
    BY DEF MarkFree, Known, TypeInv, OpCommitted
  <1> HIDE DEF Free
  <1>4. ASSUME memories' = memories, \A q \in Procs : op'[q] # None => op'[q] = op[q]
        PROVE  MarkFree'
    BY <1>1, <1>3, <1>4
  <1>5. ASSUME NEW p \in Procs, Dispatch(p)
        PROVE  MarkFree'
    <2>1. \A q \in Procs : q = p
      BY DEF OneProcess
    <2>2. ASSUME NEW c, Answered(p, c)
          PROVE  MarkFree'
      BY <1>0, <1>2, <2>1, <2>2 DEF Answered
    <2>3. ASSUME NEW c, NEW step, NEW at, Going(p, c, step, at), step # "set"
          PROVE  MarkFree'
      BY <1>0, <1>2, <2>1, <2>3 DEF Going
    <2>4. CASE CheckMark(p)
      <3>1. /\ op[p] # None /\ memories' = memories
            /\ Going(p, op[p].call, "set", op[p].at) /\ ~Unmarkable(op[p].call)
        BY <2>4 DEF CheckMark
      <3>2. op'[p].call = op[p].call
        BY <1>0, <3>1 DEF Going
      <3>3. Free(op[p].call)
        BY <3>1 DEF Free, Unmarkable, Known, TypeInv, OpCommitted
      <3> QED
        BY <1>1, <2>1, <3>1, <3>2, <3>3
    <2> QED
      BY <1>5, <2>2, <2>3, <2>4
         DEF Dispatch, RejectWrite, AcceptWrite, VoidSupersede, ReapplyMark,
             AcceptSupersede, Upsert, RefuseMark, SetMark, RejectMisshapen,
             DispatchSearch
  <1>6. ASSUME NEW p \in Procs, Clear(p)
        PROVE  MarkFree'
    <2>1. \A q \in Procs : op'[q] = None
      BY <1>6 DEF Clear, Known, SupersessionInv, OpInHand, RebuildAlone, RebuildSteps
    <2> QED
      BY <2>1 DEF MarkFree
  <1>7. ASSUME NEW p \in Procs, RunStep(p), ~DispatchCall(p)
        PROVE  MarkFree'
    <2>1. memories' = memories
      BY <1>7 DEF RunStep, LoadState, OpenCycle, UserTurn, Observe,
         Complete, BudgetStop, DispatchRaises, ToolTurn, CloseSleep, GetFails,
         UpdateState, CloseCycle, CloseOnError, Successor, Finish, memoryVars
    <2>2. op' = op \/ op' = [op EXCEPT ![p] = None]
      BY <1>7 DEF RunStep, LoadState, OpenCycle, UserTurn, Observe,
         Complete, BudgetStop, DispatchRaises, Abandon, ToolTurn, CloseSleep,
         GetFails, UpdateState, CloseCycle, CloseOnError, Successor, Finish,
         memoryVars
    <2> QED
      BY <1>0, <1>4, <2>1, <2>2
  <1>8. ASSUME NEW p \in Procs, Misfortune(p) \/ ReplayFails(p) \/ ReplayMisfits(p)
        PROVE  MarkFree'
    <2>1. memories' = memories
      BY <1>8 DEF Misfortune, ObserveFails, CompleteFails, DispatchFails,
         DispatchMisfits, UpdateFails, ClockRunsOut, Crash, LockedOut, ReplayFails,
         ReplayMisfits, WrongDimension, memoryVars
    <2>2. op' = op \/ op' = [op EXCEPT ![p] = None]
      BY <1>8 DEF Misfortune, ObserveFails, CompleteFails, DispatchFails,
         DispatchMisfits, UpdateFails, ClockRunsOut, Crash, LockedOut, ReplayFails,
         ReplayMisfits, WrongDimension, Answered, Abandon, memoryVars
    <2> QED
      BY <1>0, <1>4, <2>1, <2>2
  <1>9. ASSUME NEW p \in Procs, Begin(p) \/ RebuildStep(p), ~ReplayCall(p), ~Clear(p)
        PROVE  MarkFree'
    <2>1. EndReplay(p) \/ RestoreState(p) => memories' = memories /\ op' = op
      BY DEF EndReplay, RestoreState, memoryVars
    <2>2. memories' = memories /\ op' = op
      BY <1>9, <2>1 DEF Begin, Start, StartRebuild, StartTopUp, RebuildStep,
         OpenCursor, ReplayRaises, Report, memoryVars
    <2> QED
      BY <1>4, <2>2
  <1> QED
    BY <1>4, <1>5, <1>6, <1>7, <1>8, <1>9
       DEF Next, Rest, vars, DispatchCall, ReplayCall

\* A step changes no row but by setting its mark.
LEMMA RowsStay ==
    ASSUME Known, LedgerInv, MarkFree, [Next]_vars, NEW i \in Ids,
           i \in DOMAIN memories'
    PROVE  \/ memories'[i] = memories[i]
           \/ /\ memories[i].superseded_by = None
              /\ \E j \in Ids : memories'[i] = [memories[i] EXCEPT !.superseded_by = j]
  <1>1. ASSUME NEW p \in Procs, Upsert(p)
        PROVE  memories'[i] = memories[i]
    BY <1>1 DEF Upsert, LedgerInv, WriteIsNew, Ids
  <1>2. ASSUME NEW p \in Procs, SetMark(p)
        PROVE  \/ memories'[i] = memories[i]
               \/ /\ memories[i].superseded_by = None
                  /\ \E j \in Ids : memories'[i] =
                                       [memories[i] EXCEPT !.superseded_by = j]
    <2> DEFINE j == NewId(op[p].call)
    <2>1. /\ j \in Ids
          /\ i = Target(op[p].call) => memories[i].superseded_by \in {None, j}
      BY <1>2 DEF SetMark, Known, SupersessionInv, MarkReady, MarkFree
    <2>2. memories'[i] = IF i = Target(op[p].call)
                         THEN [memories[i] EXCEPT !.superseded_by = j] ELSE memories[i]
      BY <1>2 DEF SetMark
    <2>3. memories[i] \in Rows
      BY DEF Known, TypeInv, TypeOK, Ids
    <2> HIDE DEF j
    <2>4. memories[i].superseded_by = j
            => [memories[i] EXCEPT !.superseded_by = j] = memories[i]
      BY <2>3 DEF Rows
    <2> QED
      BY <2>1, <2>2, <2>4
  <1>3. ASSUME NEW p \in Procs, Clear(p)
        PROVE  FALSE
    BY <1>3 DEF Clear
  <1> QED
    BY <1>1, <1>2, <1>3, MemorySteps

\* One process at a time never rewrites a row: a mark, once set, is neither
\* moved nor removed, over any number of crashes and rebuilds.
THEOREM RowsAreFinalAlone ==
    ASSUME OneProcess
    PROVE  Spec => RowsAreFinal
  <1> DEFINE Final == \A i \in Ids : i \in DOMAIN memories' =>
                \/ memories'[i] = memories[i]
                \/ /\ memories[i].superseded_by = None
                   /\ \E j \in Ids : memories'[i] =
                                        [memories[i] EXCEPT !.superseded_by = j]
  <1>1. Init => MarkFree
    BY DEF Init, MemoryInit, MarkFree
  <1>5. RebuildsApart
    BY DEF RebuildsApart
  <1>2. Known /\ LedgerInv /\ MarkFree /\ Grows /\ [Next]_vars => MarkFree'
    BY MarkFreeNext
  <1>3. Known /\ LedgerInv /\ MarkFree /\ [Next]_vars => [Final]_vars
    BY RowsStay
  <1>4. RowsAreFinal <=> [][Final]_vars
    BY DEF RowsAreFinal
  <1> HIDE DEF Final
  <1> QED
    BY <1>1, <1>2, <1>3, <1>4, <1>5, LedgerInvInit, LedgerInvNext, PTL DEF Spec
=============================================================================
