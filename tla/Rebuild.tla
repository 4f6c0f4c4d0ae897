------------------------------ MODULE Rebuild ------------------------------
(***************************************************************************)
(* runtime/rebuild.py and the rebuild command of runtime/cli.py: the       *)
(* derived layers regenerated by running the recorded memory calls again,  *)
(* through the same dispatch, under the source ids they had.               *)
(***************************************************************************)
EXTENDS Orchestrator

CONSTANT Maintenance    \* "rebuild": the command; "topup": rebuild() alone;
                        \* "beside": either may run beside other processes

ASSUME MaintenanceAssumption == Maintenance \subseteq {"rebuild", "topup", "beside"}

RebuildSteps == {"clear", "cleared", "replay", "restore", "rebuilt"}

\* Mutant: supersessions are not replayed.
WritesOnly ==
    {c \in UNION {CallsOf(s) : s \in DOMAIN turns} : CallOf(c).tool = "write"}

\* replay() raises at the first wake it cannot read.
ReadBy(w) == \A v \in 1 .. w : Readable(v)

\* Everything replayed: the write and supersede calls of every turn, as far as
\* history can be read.
Script ==
    {c \in UNION {CallsOf(s) : s \in DOMAIN turns} :
        CallOf(c).tool # "search" /\ ReadBy(turns[c.src].wake)}

\* The code lets a rebuild start in the middle of a wake, and a wake in the
\* middle of a rebuild.  A careful operator does not: without "beside" a rebuild
\* has the database for itself.
Beside == "beside" \in Maintenance

Alone(p) == Beside \/ \A q \in Procs \ {p} : pc[q] = "idle"

NoRebuild == Beside \/ \A q \in Procs : pc[q] \notin RebuildSteps

StartRebuild(p) ==
    /\ pc[p] = "idle" /\ Alone(p) /\ "rebuild" \in Maintenance
    /\ Goto(p, "clear")
    /\ UNCHANGED <<run, cyc, current_state, memoryVars, historyVars>>

\* Mutant: the table is not emptied first.
KeepRows(p) ==
    /\ pc[p] = "clear"
    /\ Goto(p, "cleared")
    /\ UNCHANGED <<run, cyc, current_state, memoryVars, historyVars>>

\* The command empties the memories table, and leaves current_state.
Clear(p) ==
    /\ pc[p] = "clear" /\ Unlocked(p)
    /\ memories' = [i \in {} |-> None]
    /\ Goto(p, "cleared")
    /\ UNCHANGED <<todo, op, run, cyc, current_state, historyVars>>

StartTopUp(p) ==
    /\ pc[p] = "idle" /\ Alone(p) /\ "topup" \in Maintenance
    /\ Goto(p, "cleared")
    /\ UNCHANGED <<run, cyc, current_state, memoryVars, historyVars>>

\* replay() starts to read.  Until its cursor is at the end nobody else commits,
\* so that all of the script is known now.
OpenCursor(p) ==
    /\ pc[p] = "cleared"
    /\ todo' = [todo EXCEPT ![p] = Script]
    /\ Goto(p, "replay")
    /\ UNCHANGED <<memories, op, run, cyc, current_state, historyVars>>

ReplayCall(p) ==
    /\ pc[p] = "replay"
    /\ Dispatch(p)
    /\ memories' = memories \/ Unlocked(p)
    /\ UNCHANGED orchestratorVars

ReplayMisfits(p) ==
    /\ pc[p] = "replay" /\ "dim" \in Faults
    /\ WrongDimension(p)
    /\ UNCHANGED orchestratorVars

\* An embedder error is no tool reply: it ends the command.
ReplayFails(p) ==
    /\ pc[p] = "replay" /\ Embeds(p) /\ "embed" \in Faults
    /\ Abandon(p)
    /\ Exit(p)
    /\ UNCHANGED <<memories, current_state, historyVars>>

\* Mutant: the first state_after, not the last.
FirstStateOf(w) ==
    /\ wakes[w].state_after # None
    /\ \A v \in DOMAIN wakes : v < w => wakes[v].state_after = None

\* final_state: the last state_after a wake committed, if any did.
FinalStateOf(w) ==
    /\ wakes[w].state_after # None
    /\ \A v \in DOMAIN wakes : v > w => wakes[v].state_after = None

\* The exception of replay() ends the command: what it cleared and could not
\* replay stays away, and the state is not restored.
ReplayRaises(p) ==
    /\ pc[p] = "replay" /\ todo[p] = {} /\ ~ReadBy(Len(wakes))
    /\ Exit(p)
    /\ UNCHANGED <<current_state, memoryVars, historyVars>>

\* All is read, and the others commit again; the state is still to be saved.
EndReplay(p) ==
    /\ pc[p] = "replay" /\ todo[p] = {} /\ ReadBy(Len(wakes))
    /\ IF \E w \in DOMAIN wakes : FinalStateOf(w)
       THEN \E w \in DOMAIN wakes :
              /\ FinalStateOf(w)
              /\ cyc' = [cyc EXCEPT ![p].state_after = wakes[w].state_after]
       ELSE UNCHANGED cyc
    /\ Goto(p, "restore")
    /\ UNCHANGED <<run, current_state, memoryVars, historyVars>>

RestoreState(p) ==
    /\ pc[p] = "restore" /\ Unlocked(p)
    /\ current_state' = IF cyc[p].state_after # None THEN cyc[p].state_after
                        ELSE current_state
    /\ Goto(p, "rebuilt")
    /\ UNCHANGED <<run, cyc, memoryVars, historyVars>>

Report(p) ==
    /\ pc[p] = "rebuilt"
    /\ Exit(p)
    /\ UNCHANGED <<current_state, memoryVars, historyVars>>

RebuildStep(p) ==
    \/ Clear(p) \/ OpenCursor(p) \/ ReplayCall(p) \/ ReplayRaises(p)
    \/ EndReplay(p) \/ RestoreState(p) \/ Report(p)
=============================================================================
