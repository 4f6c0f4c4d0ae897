------------------------------ MODULE Triggers ------------------------------
(***************************************************************************)
(* runtime/triggers.py and the wake command of runtime/cli.py: when a wake *)
(* starts by itself.  A timer (cron) starts `harness wake`, which asks the *)
(* sources one after the other, each query a step of its own, and opens a  *)
(* wake for the first one that has something due.  Users chat, and force   *)
(* wakes by hand.  Nothing is resident: cooldown and cadence are read from *)
(* history each time.                                                      *)
(*                                                                         *)
(* Time passes in ticks.  Of the timestamps in history the sources only    *)
(* use how long ago the last wake of a kind was: `since`, capped where no  *)
(* comparison tells more.  An open question's due date is the number of    *)
(* ticks until it is due.                                                  *)
(***************************************************************************)
EXTENDS Naturals

CONSTANTS
    None,
    Timers,         \* the processes of the timer, each `harness wake`
    Users,          \* processes of a user: chat, wake, wake --trigger
    Cooldown,       \* settings.cooldown, in ticks
    Interval,       \* settings.autonomous_interval
    Threshold,      \* settings.reflection_turn_threshold
    MaxSuccessors,  \* granted successors of a wake
    Period,         \* the timer fires every Period ticks
    Longest,        \* bound: ticks a wake of the timer's command may take
    Horizon         \* bound: ticks until a question may be due

ASSUME TriggersAssumption ==
    /\ Cooldown \in Nat /\ Interval \in Nat /\ Threshold \in Nat
    /\ MaxSuccessors \in Nat /\ Period \in Nat \ {0} /\ Longest \in Nat
    /\ Horizon \in Nat
    /\ None \notin Nat
    /\ Timers \cap Users = {}

Procs == Timers \cup Users

\* The kinds a timer may start; "interaction" is a chat.
TimedKinds == {"autonomous", "reflection"}

VARIABLES
    since,      \* per timed kind, ticks since the last wake of it, None: never
    turns,      \* interaction turns that count towards a reflection, capped
    questions,  \* when the open questions are due; None: no date, or no ISO date
    waited,     \* bookkeeping: ticks a question has been due without a wake
    left,       \* ticks until the timer fires
    pc,         \* where each process is
    job         \* its locals

vars == <<since, turns, questions, waited, left, pc, job>>

Cap == IF Cooldown < Interval THEN Interval ELSE Cooldown

Ages == 0 .. Cap \cup {None}

Dues == 0 .. Horizon \cup {None}

\* A due question should be taken up when the cooldown has passed and the
\* timer fires next.
Patience == Cooldown + Period

\* The locals of a command.  `overtaken` is bookkeeping of the specification:
\* a wake of the kind was opened after this command had read the last one.
\* `stale`: time has passed since AutonomousDue asked the clock.
Jobs == [kind : TimedKinds \cup {"interaction", None}, automatic : BOOLEAN,
         elapsed : Ages, overtaken : BOOLEAN, stale : BOOLEAN, age : 0 .. Longest,
         cycles : 0 .. MaxSuccessors, counted : BOOLEAN]

NoJob == [kind |-> None, automatic |-> FALSE, elapsed |-> None,
          overtaken |-> FALSE, stale |-> FALSE, age |-> 0, cycles |-> 0, counted |-> FALSE]

Steps == {"off", "autonomous", "questions", "reflection", "count", "open",
          "awake", "saved"}

Init ==
    /\ since = [k \in TimedKinds |-> None]
    /\ turns = 0
    /\ questions = {}
    /\ waited = 0
    /\ left = Period
    /\ pc = [p \in Procs |-> "off"]
    /\ job = [p \in Procs |-> NoJob]

Goto(p, l) == pc' = [pc EXCEPT ![p] = l]

Exit(p) == Goto(p, "off") /\ job' = [job EXCEPT ![p] = NoJob]
----------------------------------------------------------------------------
\* The timer starts a command, whether or not others still run.
Fire(p) ==
    /\ p \in Timers /\ left = 0 /\ pc[p] = "off"
    /\ left' = Period
    /\ Goto(p, "autonomous")
    /\ UNCHANGED <<since, turns, questions, waited, job>>

\* Less than the cooldown ago.
CoolingDown(t) == t # None /\ t < Cooldown

\* What a source reads with last_wake_at, and remembers.
Reads(p, kind) ==
    job' = [job EXCEPT ![p].kind = kind, ![p].automatic = TRUE,
                       ![p].elapsed = since[kind], ![p].overtaken = FALSE]

\* The source has nothing: the next one is asked.
AskReflection(p) ==
    /\ Goto(p, "reflection")
    /\ job' = [job EXCEPT ![p] = [NoJob EXCEPT !.age = job[p].age]]

\* Mutant: FirstDue gives up when its first source has nothing.
OnlyAutonomous(p) ==
    /\ pc[p] = "autonomous"
    /\ IF CoolingDown(since["autonomous"])
       THEN Exit(p)
       ELSE Goto(p, "questions") /\ Reads(p, "autonomous")
    /\ UNCHANGED <<since, turns, questions, waited, left>>

\* AutonomousDue.next: the last autonomous wake ...
LastAutonomous(p) ==
    /\ pc[p] = "autonomous"
    /\ IF CoolingDown(since["autonomous"])
       THEN AskReflection(p)
       ELSE Goto(p, "questions") /\ Reads(p, "autonomous")
    /\ UNCHANGED <<since, turns, questions, waited, left>>

\* Mutant: a date that cannot be read ends the loop over the questions.
DueBeforeGarbled == 0 \in questions /\ None \notin questions

\* Some entry's date has come; entries without one are skipped.
DueQuestion == 0 \in questions

Scheduled(p) == job[p].elapsed = None \/ job[p].elapsed >= Interval

\* ... then the open questions of current_state, then the interval.
AutonomousDue(p) ==
    /\ pc[p] = "questions"
    /\ IF DueQuestion \/ Scheduled(p)
       THEN Goto(p, "open") /\ UNCHANGED job
       ELSE AskReflection(p)
    /\ UNCHANGED <<since, turns, questions, waited, left>>

\* `now` is asked for once, before the rest is read: when time has passed in
\* between, what has come due meanwhile is not due yet.
AskedTooEarly(p) ==
    /\ pc[p] \in {"autonomous", "questions"} /\ job[p].stale
    /\ pc[p] = "autonomous" => since["autonomous"] # None
    /\ pc[p] = "questions" => job[p].elapsed # None
    /\ AskReflection(p)
    /\ UNCHANGED <<since, turns, questions, waited, left>>

\* Mutant: ReflectionDue looks only at the turns.
NoCooldown(p) ==
    /\ pc[p] = "reflection"
    /\ Goto(p, "count") /\ Reads(p, "reflection")
    /\ UNCHANGED <<since, turns, questions, waited, left>>

\* ReflectionDue.next: the last reflection ...
LastReflection(p) ==
    /\ pc[p] = "reflection"
    /\ IF CoolingDown(since["reflection"])
       THEN Exit(p)
       ELSE Goto(p, "count") /\ Reads(p, "reflection")
    /\ UNCHANGED <<since, turns, questions, waited, left>>

\* ... then the interaction turns since.
ReflectionDue(p) ==
    /\ pc[p] = "count"
    /\ IF turns >= Threshold
       THEN Goto(p, "open") /\ UNCHANGED job
       ELSE Exit(p)
    /\ UNCHANGED <<since, turns, questions, waited, left>>

\* A user runs the timer's command ...
AskedFor(p) ==
    /\ p \in Users /\ pc[p] = "off"
    /\ Goto(p, "autonomous")
    /\ UNCHANGED <<since, turns, questions, waited, left, job>>

\* ... or chat, or wake --trigger: no source is asked.
ByHand(p, kind) ==
    /\ p \in Users /\ pc[p] = "off"
    /\ Goto(p, "open")
    /\ job' = [job EXCEPT ![p] = [NoJob EXCEPT !.kind = kind]]
    /\ UNCHANGED <<since, turns, questions, waited, left>>
----------------------------------------------------------------------------
\* A process that has read the last wake of the kind and not opened its own.
Considers(q, kind) ==
    job[q].kind = kind /\ pc[q] \in {"questions", "count", "open"}

\* What opening a wake of a kind changes for everybody: its age starts anew
\* and, for a reflection, no turn of a wake opened before it counts any more.
OpenWake(p, kind, mine) ==
    /\ since' = IF kind \in TimedKinds THEN [since EXCEPT ![kind] = 0] ELSE since
    /\ turns' = IF kind = "reflection" THEN 0 ELSE turns
    /\ waited' = IF kind = "autonomous" THEN 0 ELSE waited
    /\ job' = [q \in Procs |->
                 IF q = p THEN mine
                 ELSE [job[q] EXCEPT
                         !.overtaken = @ \/ Considers(q, kind),
                         !.counted = @ /\ kind # "reflection"]]

\* Orchestrator.run: the first wake ...
Open(p) ==
    /\ pc[p] = "open"
    /\ OpenWake(p, job[p].kind,
                [NoJob EXCEPT !.kind = job[p].kind, !.age = job[p].age,
                              !.counted = (job[p].kind = "interaction")])
    /\ Goto(p, "awake")
    /\ UNCHANGED <<questions, left>>

\* Mutant: the number of granted successors is not limited.
GrantForever(p) ==
    /\ pc[p] \in {"awake", "saved"}
    /\ job[p].kind \in TimedKinds
    /\ OpenWake(p, job[p].kind,
                [job[p] EXCEPT !.cycles = @ + 1])
    /\ Goto(p, "awake")
    /\ UNCHANGED <<questions, left>>

\* ... and a granted successor, of the same kind; no source is asked.
Grant(p) ==
    /\ pc[p] \in {"awake", "saved"}
    /\ job[p].kind \in TimedKinds /\ job[p].cycles < MaxSuccessors
    /\ OpenWake(p, job[p].kind,
                [job[p] EXCEPT !.cycles = @ + 1])
    /\ Goto(p, "awake")
    /\ UNCHANGED <<questions, left>>

\* A turn of a chat.  turns_since_last counts it when its wake was opened
\* after the last reflection; of the count only `>= Threshold` is asked.
ChatTurn(p) ==
    /\ pc[p] = "awake" /\ job[p].kind = "interaction"
    /\ turns' = IF job[p].counted /\ turns < Threshold THEN turns + 1 ELSE turns
    /\ UNCHANGED <<since, questions, waited, left, pc, job>>

\* The state update: the open questions are what the model makes of them.
SaveState(p) ==
    /\ pc[p] = "awake"
    /\ questions' \in SUBSET Dues
    /\ waited' = IF 0 \in questions' THEN waited ELSE 0
    /\ Goto(p, "saved")
    /\ UNCHANGED <<since, turns, left, job>>

\* The command ends: all closed, asleep, or with an error.
Finish(p) ==
    /\ pc[p] \in {"awake", "saved"}
    /\ Exit(p)
    /\ UNCHANGED <<since, turns, questions, waited, left>>

Later(t) == IF t = None \/ t = Cap THEN t ELSE t + 1

Nearer(d) == IF d = None \/ d = 0 THEN d ELSE d - 1

\* Time passes for everybody.  The timer is punctual, its command asks the
\* sources within a tick, and the wake it opens takes at most Longest.  A
\* user's command may take any time between any two steps.
Tick ==
    /\ left > 0
    /\ \A p \in Timers : pc[p] # "off" =>
          pc[p] \in {"awake", "saved"} /\ job[p].age < Longest
    /\ left' = left - 1
    /\ since' = [k \in TimedKinds |-> Later(since[k])]
    /\ questions' = {Nearer(d) : d \in questions}
    /\ waited' = IF 0 \in questions /\ waited <= Patience
                 THEN waited + 1 ELSE waited
    /\ job' = [p \in Procs |->
                 [job[p] EXCEPT
                    !.age = IF p \in Timers /\ pc[p] # "off" THEN @ + 1 ELSE @,
                    !.stale = @ \/ pc[p] \in {"autonomous", "questions"}]]
    /\ UNCHANGED <<turns, pc>>
----------------------------------------------------------------------------
\* What a command does by itself.
Step(p) ==
    \/ LastAutonomous(p) \/ AutonomousDue(p) \/ AskedTooEarly(p)
    \/ LastReflection(p) \/ ReflectionDue(p)
    \/ Open(p) \/ Grant(p) \/ SaveState(p) \/ Finish(p)

Next ==
    \/ Tick
    \/ \E p \in Procs :
          \/ Fire(p) \/ AskedFor(p) \/ Step(p) \/ ChatTurn(p)
          \/ \E kind \in TimedKinds \cup {"interaction"} : ByHand(p, kind)

Spec == Init /\ [][Next]_vars

\* Time goes on, the timer fires, and a wake command it starts gets on and
\* ends.  Nothing is assumed of what users do.
FairSpec ==
    /\ Spec
    /\ WF_vars(Tick)
    /\ WF_vars(\E p \in Timers : Fire(p))
    /\ \A p \in Timers : WF_vars(Step(p)) /\ WF_vars(Finish(p))
----------------------------------------------------------------------------
\* Every variable holds a value of its kind.
TypeOK ==
    /\ since \in [TimedKinds -> Ages]
    /\ turns \in 0 .. Threshold
    /\ questions \in SUBSET Dues
    /\ waited \in 0 .. Patience + 1
    /\ left \in 0 .. Period
    /\ pc \in [Procs -> Steps]
    /\ job \in [Procs -> Jobs]

OpensByItself(p) == Open(p) /\ job[p].automatic

\* The cooldown and the cadence hold without any process that remembers them:
\* a wake that starts by itself is never inside the cooldown of the last of
\* its kind and, a reflection, never before Threshold turns came, unless a
\* wake of the kind was opened between this command's reading and its own
\* opening.  Wakes by hand and granted successors are asked nothing, but they
\* do put off the next one ("never inside the cooldown", "calling it often is
\* safe because cooldown and cadence are enforced from history").
CooldownKept ==
    [][\A p \in Procs : OpensByItself(p) =>
          \/ job[p].overtaken
          \/ /\ ~CoolingDown(since[job[p].kind])
             /\ job[p].kind = "reflection" => turns >= Threshold]_vars

\* Reflection gets its turn although a due question always wins: once enough
\* turns have come a reflection is opened.  It needs a timer with a period
\* shorter than the cooldown, which keeps the autonomous source out in between.
ReflectionComes == turns = Threshold ~> turns < Threshold

\* A due question is taken up by an autonomous wake as soon as the cooldown
\* has passed and the timer fires, whatever other questions there are, unless
\* a state update drops it first; it need not wait for the interval.
DueQuestionTaken == waited <= Patience
=============================================================================
