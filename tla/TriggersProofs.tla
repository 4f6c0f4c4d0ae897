--------------------------- MODULE TriggersProofs ---------------------------
(***************************************************************************)
(* Proofs about Triggers: the types, that no wake starts by itself in the  *)
(* cooldown or before its turns have come, and that a due question waits   *)
(* for no more than the cooldown and a period of the timer, for any number *)
(* of timers and users and any values of the settings.                     *)
(***************************************************************************)
EXTENDS Triggers, TLAPS

\* What a command that found something due still knows when it opens the wake:
\* time has only passed since it looked, and turns have only been added.
StillDue(p) ==
    (job[p].automatic /\ ~job[p].overtaken) =>
        /\ pc[p] \in {"questions", "count", "open"} =>
              /\ job[p].kind \in TimedKinds
              /\ ~CoolingDown(since[job[p].kind])
        /\ (pc[p] = "open" /\ job[p].kind = "reflection") => turns >= Threshold

\* The steps of a command, told apart by the source that asks.  Time does not
\* pass while a command of the timer asks.
SourceAsks(p) ==
    /\ pc[p] = "questions" => job[p].kind = "autonomous"
    /\ pc[p] = "count" => job[p].kind = "reflection"
    /\ pc[p] \in {"open", "awake", "saved"} =>
          job[p].kind \in TimedKinds \cup {"interaction"}
    /\ pc[p] \in {"awake", "saved"} => ~job[p].automatic
    /\ p \in Timers => ~job[p].stale

IInv ==
    /\ TypeOK
    /\ \A p \in Procs : StillDue(p) /\ SourceAsks(p)
----------------------------------------------------------------------------
\* Initially nobody has looked at anything.
LEMMA InitIInv == Init => IInv
<1> USE TriggersAssumption DEF Init, Procs
<1>1. Init => TypeOK
  BY DEF TypeOK, NoJob, Jobs, Ages, Dues, Steps, Patience
<1>2. Init => \A p \in Procs : StillDue(p) /\ SourceAsks(p)
  BY DEF StillDue, SourceAsks, NoJob
<1> QED BY <1>1, <1>2 DEF IInv

\* Opening a wake keeps the types, whoever opens it.
LEMMA OpenWakeType ==
    ASSUME TypeOK, NEW p \in Procs, NEW kind, NEW mine \in Jobs,
           OpenWake(p, kind, mine)
    PROVE  /\ since' \in [TimedKinds -> Ages]
           /\ turns' \in 0 .. Threshold
           /\ waited' \in 0 .. Patience + 1
           /\ job' \in [Procs -> Jobs]
<1> USE TriggersAssumption
<1>1. since' \in [TimedKinds -> Ages]
  <2>1. Cap \in Nat
    BY DEF Cap
  <2>2. 0 \in Ages
    BY <2>1 DEF Ages
  <2>3. since' = IF kind \in TimedKinds THEN [since EXCEPT ![kind] = 0] ELSE since
    BY DEF OpenWake
  <2>4. since \in [TimedKinds -> Ages]
    BY DEF TypeOK
  <2> QED BY <2>2, <2>3, <2>4
<1>2. turns' \in 0 .. Threshold
  <2>1. turns' = IF kind = "reflection" THEN 0 ELSE turns
    BY DEF OpenWake
  <2>2. turns \in 0 .. Threshold
    BY DEF TypeOK
  <2> QED BY <2>1, <2>2
<1>3. waited' \in 0 .. Patience + 1
  <2>1. waited' = IF kind = "autonomous" THEN 0 ELSE waited
    BY DEF OpenWake
  <2>2. waited \in 0 .. Patience + 1
    BY DEF TypeOK
  <2> QED BY <2>1, <2>2 DEF Patience
<1>4. ASSUME NEW q \in Procs, q # p
      PROVE  [job[q] EXCEPT !.overtaken = @ \/ Considers(q, kind),
                            !.counted = @ /\ kind # "reflection"] \in Jobs
  <2>1. job[q] \in Jobs
    BY DEF TypeOK
  <2>2. (job[q].overtaken \/ Considers(q, kind)) \in BOOLEAN
    BY <2>1 DEF Jobs, Considers
  <2>3. (job[q].counted /\ kind # "reflection") \in BOOLEAN
    BY <2>1 DEF Jobs
  <2> QED BY <2>1, <2>2, <2>3 DEF Jobs
<1>5. job' \in [Procs -> Jobs]
  BY <1>4 DEF OpenWake
<1> QED BY <1>1, <1>2, <1>3, <1>5

\* A command that steps over an opening: either it was overtaken, or what it
\* looked at is untouched.
LEMMA OpenWakeDue ==
    ASSUME IInv, NEW p \in Procs, NEW q \in Procs, q # p,
           NEW kind \in TimedKinds \cup {"interaction"}, NEW mine,
           OpenWake(p, kind, mine), pc'[q] = pc[q]
    PROVE  StillDue(q)' /\ SourceAsks(q)'
<1> DEFINE new == [job[q] EXCEPT !.overtaken = @ \/ Considers(q, kind),
                                 !.counted = @ /\ kind # "reflection"]
<1>1. job[q] \in Jobs /\ StillDue(q) /\ SourceAsks(q)
  BY DEF IInv, TypeOK
<1>2. job'[q] = new
  BY DEF OpenWake
<1>3. /\ new.kind = job[q].kind /\ new.automatic = job[q].automatic
      /\ new.overtaken = (job[q].overtaken \/ Considers(q, kind))
      /\ new.stale = job[q].stale
  BY <1>1 DEF Jobs
<1> HIDE DEF new
<1>4. SourceAsks(q)'
  BY <1>1, <1>2, <1>3 DEF SourceAsks
<1>5. SUFFICES ASSUME job'[q].automatic, ~job'[q].overtaken,
                      pc[q] \in {"questions", "count", "open"}
               PROVE  /\ job[q].kind \in TimedKinds
                      /\ ~CoolingDown(since'[job[q].kind])
                      /\ (pc[q] = "open" /\ job[q].kind = "reflection")
                            => turns' >= Threshold
  BY <1>2, <1>3, <1>4 DEF StillDue
<1>6. job[q].kind # kind
  BY <1>2, <1>3, <1>5 DEF Considers
<1>7. /\ job[q].kind \in TimedKinds
      /\ ~CoolingDown(since[job[q].kind])
      /\ (pc[q] = "open" /\ job[q].kind = "reflection") => turns >= Threshold
  BY <1>1, <1>2, <1>3, <1>5 DEF StillDue
<1>8. since'[job[q].kind] = since[job[q].kind]
  BY <1>6, <1>7 DEF OpenWake, IInv, TypeOK
<1>9. job[q].kind = "reflection" => turns' = turns
  BY <1>6 DEF OpenWake
<1> QED BY <1>7, <1>8, <1>9

\* What has cooled down stays so while time passes.
LEMMA CoolsDown ==
    ASSUME NEW t \in Ages, ~CoolingDown(t)
    PROVE  ~CoolingDown(Later(t))
BY TriggersAssumption DEF Ages, Cap, CoolingDown, Later

\* The steps of one command leave the others as they were, and turns are only
\* added between two openings.
LEMMA OthersDue ==
    ASSUME IInv, NEW p \in Procs, NEW l \in Steps, NEW mine \in Jobs,
           pc' = [pc EXCEPT ![p] = l], job' = [job EXCEPT ![p] = mine],
           UNCHANGED since, turns' = turns \/ turns' = turns + 1
    PROVE  /\ pc' \in [Procs -> Steps] /\ job' \in [Procs -> Jobs]
           /\ pc'[p] = l /\ job'[p] = mine
           /\ \A q \in Procs \ {p} : StillDue(q)' /\ SourceAsks(q)'
<1>1. pc \in [Procs -> Steps] /\ job \in [Procs -> Jobs] /\ turns \in 0 .. Threshold
  BY DEF IInv, TypeOK
<1>2. ASSUME NEW q \in Procs \ {p}
      PROVE  StillDue(q)' /\ SourceAsks(q)'
  <2>1. pc'[q] = pc[q] /\ job'[q] = job[q] /\ since' = since
    BY <1>1
  <2>2. turns >= Threshold => turns' >= Threshold
    BY <1>1, TriggersAssumption
  <2>3. StillDue(q) /\ SourceAsks(q)
    BY DEF IInv
  <2> QED BY <2>1, <2>2, <2>3 DEF StillDue, SourceAsks
<1> QED BY <1>1, <1>2

\* A process that runs nothing has the locals of its type.
LEMMA NoJobType == NoJob \in Jobs
BY TriggersAssumption DEF NoJob, Jobs, Ages

\* A command's asking and ending keep the invariant.
LEMMA AskingIInv ==
    ASSUME IInv, NEW p \in Procs,
           \/ LastAutonomous(p) \/ AutonomousDue(p) \/ AskedTooEarly(p)
           \/ LastReflection(p) \/ ReflectionDue(p) \/ Finish(p)
    PROVE  IInv'
<1> USE TriggersAssumption
<1>1. job[p] \in Jobs /\ StillDue(p) /\ SourceAsks(p)
  BY DEF IInv, TypeOK
<1>2. since \in [TimedKinds -> Ages] /\ pc[p] \in Steps
  BY DEF IInv, TypeOK
<1>3. PICK l \in Steps, mine \in Jobs :
        /\ pc' = [pc EXCEPT ![p] = l] /\ job' = [job EXCEPT ![p] = mine]
        /\ mine.stale => job[p].stale
        /\ \/ l \in {"off", "reflection"} /\ ~mine.automatic
           \/ /\ l \in {"questions", "count"}
              /\ mine.kind = IF l = "count" THEN "reflection" ELSE "autonomous"
              /\ ~CoolingDown(since[mine.kind])
           \/ /\ l = "open" /\ mine = job[p] /\ pc[p] \in {"questions", "count"}
              /\ pc[p] = "count" => turns >= Threshold
  <2>1. NoJob \in Jobs /\ ~NoJob.automatic /\ ~NoJob.stale
    BY NoJobType DEF NoJob
  <2>2. [NoJob EXCEPT !.age = job[p].age] \in Jobs
        /\ ~[NoJob EXCEPT !.age = job[p].age].automatic
        /\ ~[NoJob EXCEPT !.age = job[p].age].stale
    BY <1>1, <2>1 DEF NoJob, Jobs, Ages
  <2>3. Exit(p) => \E mine \in Jobs : /\ pc' = [pc EXCEPT ![p] = "off"]
                                      /\ job' = [job EXCEPT ![p] = mine]
                                      /\ ~mine.automatic /\ ~mine.stale
    BY <2>1 DEF Exit, Goto
  <2>4. AskReflection(p) => \E mine \in Jobs :
                               /\ pc' = [pc EXCEPT ![p] = "reflection"]
                               /\ job' = [job EXCEPT ![p] = mine]
                               /\ ~mine.automatic /\ ~mine.stale
    BY <2>2 DEF AskReflection, Goto
  <2>5. ASSUME NEW kind \in TimedKinds, Reads(p, kind)
        PROVE  \E mine \in Jobs : /\ job' = [job EXCEPT ![p] = mine]
                                  /\ mine.kind = kind
                                  /\ mine.stale => job[p].stale
    <3> DEFINE mine == [job[p] EXCEPT !.kind = kind, !.automatic = TRUE,
                                      !.elapsed = since[kind], !.overtaken = FALSE]
    <3>1. mine \in Jobs /\ mine.kind = kind /\ mine.stale = job[p].stale
      BY <1>1, <1>2 DEF Jobs
    <3>2. job' = [job EXCEPT ![p] = mine]
      BY <2>5, <1>1 DEF Reads, Jobs, IInv, TypeOK
    <3> QED BY <3>1, <3>2
  <2>6. CASE LastAutonomous(p)
    <3>1. CASE CoolingDown(since["autonomous"])
      BY <2>4, <2>6, <3>1 DEF LastAutonomous, Steps
    <3>2. CASE ~CoolingDown(since["autonomous"])
      BY <2>5, <2>6, <3>2 DEF LastAutonomous, Goto, Steps, TimedKinds
    <3> QED BY <3>1, <3>2
  <2>7. CASE AutonomousDue(p)
    <3>1. CASE DueQuestion \/ Scheduled(p)
      <4>1. job' = [job EXCEPT ![p] = job[p]]
        BY <2>7, <3>1 DEF AutonomousDue, IInv, TypeOK
      <4> QED BY <1>1, <2>7, <3>1, <4>1 DEF AutonomousDue, Goto, Steps
    <3>2. CASE ~(DueQuestion \/ Scheduled(p))
      BY <2>4, <2>7, <3>2 DEF AutonomousDue, Steps
    <3> QED BY <3>1, <3>2
  <2>11. CASE AskedTooEarly(p)
    BY <2>4, <2>11 DEF AskedTooEarly, Steps
  <2>8. CASE LastReflection(p)
    <3>1. CASE CoolingDown(since["reflection"])
      BY <2>3, <2>8, <3>1 DEF LastReflection, Steps
    <3>2. CASE ~CoolingDown(since["reflection"])
      BY <2>5, <2>8, <3>2 DEF LastReflection, Goto, Steps, TimedKinds
    <3> QED BY <3>1, <3>2
  <2>9. CASE ReflectionDue(p)
    <3>1. CASE turns >= Threshold
      <4>1. job' = [job EXCEPT ![p] = job[p]]
        BY <2>9, <3>1 DEF ReflectionDue, IInv, TypeOK
      <4> QED BY <1>1, <2>9, <3>1, <4>1 DEF ReflectionDue, Goto, Steps
    <3>2. CASE ~(turns >= Threshold)
      BY <2>3, <2>9, <3>2 DEF ReflectionDue, Steps
    <3> QED BY <3>1, <3>2
  <2>10. CASE Finish(p)
    BY <2>3, <2>10 DEF Finish, Steps
  <2> QED BY <2>6, <2>7, <2>8, <2>9, <2>10, <2>11
<1>4. UNCHANGED <<since, turns, questions, waited, left>>
  BY DEF LastAutonomous, AutonomousDue, AskedTooEarly, LastReflection,
         ReflectionDue, Finish
<1>5. /\ pc' \in [Procs -> Steps] /\ job' \in [Procs -> Jobs]
      /\ pc'[p] = l /\ job'[p] = mine
      /\ \A q \in Procs \ {p} : StillDue(q)' /\ SourceAsks(q)'
  BY <1>3, <1>4, OthersDue
<1>6. TypeOK'
  BY <1>4, <1>5 DEF IInv, TypeOK
<1>7. StillDue(p)' /\ SourceAsks(p)'
  <2>1. CASE l \in {"off", "reflection"} /\ ~mine.automatic
    BY <2>1, <1>1, <1>3, <1>5 DEF StillDue, SourceAsks
  <2>2. CASE /\ l \in {"questions", "count"}
             /\ mine.kind = IF l = "count" THEN "reflection" ELSE "autonomous"
             /\ ~CoolingDown(since[mine.kind])
    <3>1. since' = since
      BY <1>4
    <3> QED BY <2>2, <3>1, <1>1, <1>3, <1>5 DEF StillDue, SourceAsks, TimedKinds
  <2>3. CASE /\ l = "open" /\ mine = job[p] /\ pc[p] \in {"questions", "count"}
             /\ pc[p] = "count" => turns >= Threshold
    <3>1. since' = since /\ turns' = turns
      BY <1>4
    <3> QED BY <2>3, <3>1, <1>1, <1>5 DEF StillDue, SourceAsks, TimedKinds
  <2> QED BY <2>1, <2>2, <2>3, <1>3
<1> QED BY <1>5, <1>6, <1>7 DEF IInv

\* Starting a command keeps it.
LEMMA StartIInv ==
    ASSUME IInv, NEW p \in Procs, NEW kind \in TimedKinds \cup {"interaction"},
           Fire(p) \/ AskedFor(p) \/ ByHand(p, kind)
    PROVE  IInv'
<1> USE TriggersAssumption
<1>1. job[p] \in Jobs /\ SourceAsks(p)
  BY DEF IInv, TypeOK
<1>2. PICK l \in Steps, mine \in Jobs :
        /\ pc' = [pc EXCEPT ![p] = l] /\ job' = [job EXCEPT ![p] = mine]
        /\ mine.stale => job[p].stale
        /\ \/ l = "autonomous"
           \/ l = "open" /\ ~mine.automatic /\ mine.kind = kind
  <2>1. CASE Fire(p) \/ AskedFor(p)
    <3>1. job' = [job EXCEPT ![p] = job[p]]
      BY <2>1 DEF Fire, AskedFor, IInv, TypeOK
    <3> QED BY <1>1, <2>1, <3>1 DEF Fire, AskedFor, Goto, Steps
  <2>2. CASE ByHand(p, kind)
    <3>1. [NoJob EXCEPT !.kind = kind] \in Jobs
      BY NoJobType DEF Jobs
    <3>2. ~[NoJob EXCEPT !.kind = kind].automatic
          /\ [NoJob EXCEPT !.kind = kind].kind = kind
          /\ ~[NoJob EXCEPT !.kind = kind].stale
      BY DEF NoJob
    <3> QED BY <2>2, <3>1, <3>2 DEF ByHand, Goto, Steps
  <2> QED BY <2>1, <2>2
<1>3. UNCHANGED <<since, turns, questions, waited>> /\ left' \in 0 .. Period
  BY DEF Fire, AskedFor, ByHand, IInv, TypeOK
<1>4. /\ pc' \in [Procs -> Steps] /\ job' \in [Procs -> Jobs]
      /\ pc'[p] = l /\ job'[p] = mine
      /\ \A q \in Procs \ {p} : StillDue(q)' /\ SourceAsks(q)'
  BY <1>2, <1>3, OthersDue
<1>5. TypeOK'
  BY <1>3, <1>4 DEF IInv, TypeOK
<1>6. StillDue(p)' /\ SourceAsks(p)'
  BY <1>1, <1>2, <1>4 DEF StillDue, SourceAsks
<1> QED BY <1>4, <1>5, <1>6 DEF IInv

\* A turn, and a state update, keep it.
LEMMA WakeIInv ==
    ASSUME IInv, NEW p \in Procs, ChatTurn(p) \/ SaveState(p)
    PROVE  IInv'
<1> USE TriggersAssumption
<1>1. job[p] \in Jobs /\ pc[p] \in Steps /\ SourceAsks(p) /\ pc[p] = "awake"
  BY DEF IInv, TypeOK, ChatTurn, SaveState
<1>2. PICK l \in {"awake", "saved"} : pc' = [pc EXCEPT ![p] = l]
  BY <1>1 DEF ChatTurn, SaveState, Goto, IInv, TypeOK
<1>3. job' = [job EXCEPT ![p] = job[p]] /\ UNCHANGED <<since, left>>
  BY DEF ChatTurn, SaveState, IInv, TypeOK
<1>4. /\ turns' = turns \/ turns' = turns + 1
      /\ turns' \in 0 .. Threshold
      /\ questions' \in SUBSET Dues
      /\ waited' \in 0 .. Patience + 1
  <2>1. turns \in 0 .. Threshold /\ waited \in 0 .. Patience + 1
        /\ questions \in SUBSET Dues
    BY DEF IInv, TypeOK
  <2>2. CASE ChatTurn(p)
    BY <2>1, <2>2 DEF ChatTurn
  <2>3. CASE SaveState(p)
    BY <2>1, <2>3 DEF SaveState, Patience
  <2> QED BY <2>2, <2>3
<1>5. /\ pc' \in [Procs -> Steps] /\ job' \in [Procs -> Jobs]
      /\ pc'[p] = l /\ job'[p] = job[p]
      /\ \A q \in Procs \ {p} : StillDue(q)' /\ SourceAsks(q)'
  BY <1>1, <1>2, <1>3, <1>4, OthersDue DEF Steps
<1>6. TypeOK'
  BY <1>3, <1>4, <1>5 DEF IInv, TypeOK
<1>7. StillDue(p)' /\ SourceAsks(p)'
  BY <1>1, <1>2, <1>5 DEF StillDue, SourceAsks
<1> QED BY <1>5, <1>6, <1>7 DEF IInv

\* Opening a wake keeps it: every command still asking about that kind has
\* been overtaken.
LEMMA OpeningIInv ==
    ASSUME IInv, NEW p \in Procs, Open(p) \/ Grant(p)
    PROVE  IInv'
<1> USE TriggersAssumption
<1>1. job[p] \in Jobs /\ pc[p] \in Steps /\ SourceAsks(p)
      /\ pc[p] \in {"open", "awake", "saved"}
  BY DEF IInv, TypeOK, Open, Grant
<1>2. job[p].kind \in TimedKinds \cup {"interaction"}
  BY <1>1 DEF SourceAsks
<1>3. PICK mine \in Jobs :
         /\ OpenWake(p, job[p].kind, mine)
         /\ mine.kind = job[p].kind /\ ~mine.automatic
         /\ mine.stale => job[p].stale
  <2>1. CASE Open(p)
    <3> DEFINE mine == [NoJob EXCEPT !.kind = job[p].kind, !.age = job[p].age,
                                     !.counted = (job[p].kind = "interaction")]
    <3>1. mine \in Jobs
      BY <1>1, NoJobType DEF Jobs
    <3>2. mine.kind = job[p].kind /\ ~mine.automatic /\ ~mine.stale
      BY DEF NoJob
    <3> QED BY <2>1, <3>1, <3>2 DEF Open
  <2>2. CASE Grant(p)
    <3> DEFINE mine == [job[p] EXCEPT !.cycles = @ + 1]
    <3>1. job[p].cycles \in 0 .. MaxSuccessors /\ job[p].cycles < MaxSuccessors
      BY <1>1, <2>2 DEF Grant, Jobs
    <3>2. /\ mine \in Jobs /\ mine.kind = job[p].kind
          /\ mine.automatic = job[p].automatic /\ mine.stale = job[p].stale
      BY <1>1, <3>1 DEF Jobs
    <3>3. ~job[p].automatic
      BY <1>1, <2>2 DEF Grant, SourceAsks
    <3> QED BY <2>2, <3>2, <3>3 DEF Grant
  <2> QED BY <2>1, <2>2
<1>4. pc' = [pc EXCEPT ![p] = "awake"] /\ UNCHANGED <<questions, left>>
  BY DEF Open, Grant, Goto
<1>5. TypeOK'
  BY <1>3, <1>4, OpenWakeType DEF IInv, TypeOK, Steps
<1>6. StillDue(p)' /\ SourceAsks(p)'
  <2>1. job'[p] = mine
    BY <1>3 DEF OpenWake
  <2>2. pc'[p] = "awake"
    BY <1>4 DEF IInv, TypeOK
  <2> QED BY <1>1, <1>2, <1>3, <2>1, <2>2 DEF StillDue, SourceAsks
<1>7. ASSUME NEW q \in Procs, q # p
      PROVE  StillDue(q)' /\ SourceAsks(q)'
  <2>1. pc'[q] = pc[q]
    BY <1>4, <1>7 DEF IInv, TypeOK
  <2> QED BY <1>2, <1>3, <1>7, <2>1, OpenWakeDue
<1> QED BY <1>5, <1>6, <1>7 DEF IInv

\* Time keeps it.
LEMMA TickIInv ==
    ASSUME IInv, Tick
    PROVE  IInv'
<1> USE TriggersAssumption
<1>1. since \in [TimedKinds -> Ages] /\ job \in [Procs -> Jobs]
      /\ left \in 0 .. Period /\ questions \in SUBSET Dues
      /\ waited \in 0 .. Patience + 1
  BY DEF IInv, TypeOK
<1>2. ASSUME NEW t \in Ages
      PROVE  Later(t) \in Ages
  BY DEF Ages, Cap, Later
<1>3. since' \in [TimedKinds -> Ages]
  BY <1>1, <1>2 DEF Tick
<1>4. ASSUME NEW d \in Dues
      PROVE  Nearer(d) \in Dues
  BY DEF Dues, Nearer
<1>5. questions' \in SUBSET Dues
  BY <1>1, <1>4 DEF Tick
<1>6. waited' \in 0 .. Patience + 1 /\ left' \in 0 .. Period
  <2>1. /\ waited' = IF 0 \in questions /\ waited <= Patience
                    THEN waited + 1 ELSE waited
        /\ left > 0 /\ left' = left - 1
    BY DEF Tick
  <2> QED BY <1>1, <2>1 DEF Patience
<1>7. ASSUME NEW q \in Procs
      PROVE  /\ job'[q] \in Jobs
             /\ job'[q].kind = job[q].kind
             /\ job'[q].automatic = job[q].automatic
             /\ job'[q].overtaken = job[q].overtaken
             /\ q \in Timers => job'[q].stale = job[q].stale
  <2>1. job[q] \in Jobs
    BY <1>1
  <2>2. job'[q] =
          [job[q] EXCEPT
             !.age = IF q \in Timers /\ pc[q] # "off" THEN @ + 1 ELSE @,
             !.stale = @ \/ pc[q] \in {"autonomous", "questions"}]
    BY DEF Tick
  <2>3. q \in Timers /\ pc[q] # "off" =>
          pc[q] \in {"awake", "saved"} /\ job[q].age < Longest
    BY DEF Tick
  <2>4. (IF q \in Timers /\ pc[q] # "off" THEN job[q].age + 1 ELSE job[q].age)
           \in 0 .. Longest
    BY <2>1, <2>3 DEF Jobs
  <2>5. /\ (job[q].stale \/ pc[q] \in {"autonomous", "questions"}) \in BOOLEAN
        /\ q \in Timers =>
             (job[q].stale \/ pc[q] \in {"autonomous", "questions"}) = job[q].stale
    BY <2>1, <2>3 DEF Jobs
  <2> QED BY <2>1, <2>2, <2>4, <2>5 DEF Jobs
<1>8. job' \in [Procs -> Jobs] /\ pc' = pc /\ turns' = turns
  BY <1>7 DEF Tick
<1>9. TypeOK'
  BY <1>3, <1>5, <1>6, <1>8 DEF IInv, TypeOK
<1>10. ASSUME NEW q \in Procs
       PROVE  StillDue(q)' /\ SourceAsks(q)'
  <2>1. \A k \in TimedKinds : ~CoolingDown(since[k]) => ~CoolingDown(since'[k])
    BY <1>1, CoolsDown DEF Tick
  <2>2. StillDue(q) /\ SourceAsks(q)
    BY DEF IInv
  <2>3. SourceAsks(q)'
    BY <1>7, <1>8, <2>2 DEF SourceAsks
  <2>4. StillDue(q)'
    BY <1>7, <1>8, <2>1, <2>2 DEF StillDue
  <2> QED BY <2>3, <2>4
<1> QED BY <1>9, <1>10 DEF IInv

\* IInv is inductive.
LEMMA NextIInv == IInv /\ [Next]_vars => IInv'
<1> SUFFICES ASSUME IInv, [Next]_vars PROVE IInv'
  OBVIOUS
<1>1. CASE Tick
  BY <1>1, TickIInv
<1>2. ASSUME NEW p \in Procs, Step(p)
      PROVE  IInv'
  BY <1>2, AskingIInv, OpeningIInv, WakeIInv DEF Step
<1>3. ASSUME NEW p \in Procs, Fire(p) \/ AskedFor(p)
      PROVE  IInv'
  BY <1>3, StartIInv
<1>4. ASSUME NEW p \in Procs, ChatTurn(p)
      PROVE  IInv'
  BY <1>4, WakeIInv
<1>5. ASSUME NEW p \in Procs, NEW kind \in TimedKinds \cup {"interaction"},
             ByHand(p, kind)
      PROVE  IInv'
  BY <1>5, StartIInv
<1>6. CASE UNCHANGED vars
  BY <1>6 DEF vars, IInv, TypeOK, StillDue, SourceAsks
<1> QED BY <1>1, <1>2, <1>3, <1>4, <1>5, <1>6 DEF Next

\* The invariant holds in every state.
LEMMA Invariant == Spec => []IInv
BY InitIInv, NextIInv, PTL DEF Spec

\* The types hold, whatever the settings and however many commands run.
THEOREM TypeCorrect == Spec => []TypeOK
<1>1. IInv => TypeOK
  BY DEF IInv
<1> QED BY <1>1, Invariant, PTL

\* No wake starts by itself within the cooldown of the last of its kind, nor a
\* reflection before Threshold turns have come, but for the race of a command
\* with another that opens a wake after the first has looked: nothing else that
\* runs at the same time, no restart and no time that passes can do it.
THEOREM CooldownIsKept == Spec => CooldownKept
<1> DEFINE Kept == \A p \in Procs : OpensByItself(p) =>
                      \/ job[p].overtaken
                      \/ /\ ~CoolingDown(since[job[p].kind])
                         /\ job[p].kind = "reflection" => turns >= Threshold
<1>1. IInv /\ [Next]_vars => [Kept]_vars
  BY DEF IInv, StillDue, OpensByItself, Open
<1>2. CooldownKept <=> [][Kept]_vars
  BY DEF CooldownKept
<1> HIDE DEF Kept
<1> QED BY <1>1, <1>2, Invariant, PTL DEF Spec
----------------------------------------------------------------------------
\* A command of the timer that has not decided yet whether an autonomous wake
\* is due, or has decided so and not opened it.
Asking(p) ==
    \/ pc[p] \in {"autonomous", "questions"}
    \/ pc[p] = "open" /\ job[p].kind = "autonomous"

\* Time stands still while the timer's command asks.  Outside of that the
\* question has always waited for less than the ticks that have passed of its
\* patience; within, no longer than all of them, and what sends the command
\* away is either the cooldown or that no question is due.
InTime ==
    IF \E p \in Timers : Asking(p) THEN waited <= Patience
                                   ELSE waited + left <= Patience

\* A question that waits has not been waiting since before the last wake, and
\* there is none when none is due.
WaitsSince ==
    /\ since["autonomous"] \in 0 .. Cap - 1 => waited <= since["autonomous"]
    /\ 0 \notin questions => waited = 0

QInv == InTime /\ WaitsSince

\* Nobody has asked anything yet.
LEMMA InitQInv == Init => QInv
<1> USE TriggersAssumption DEF Init, Procs
<1> QED BY DEF QInv, InTime, WaitsSince, Asking, Patience

\* What is left of a question's patience when it does not wait on.
LEMMA TimeLeft ==
    ASSUME NEW w \in Nat, NEW w2 \in Nat, w2 <= w, NEW l \in 0 .. Period
    PROVE  /\ w + l <= Patience => w2 + l <= Patience
           /\ w <= Patience => w2 <= Patience
           /\ w2 <= Cooldown => w2 + l <= Patience
           /\ w + l <= Patience => w <= Patience
BY TriggersAssumption DEF Patience

\* A step of one command that gives no question more time: what sends a
\* command of the timer away without a wake leaves the question its period.
LEMMA QuietInTime ==
    ASSUME IInv, InTime, NEW p \in Procs,
           \A q \in Procs \ {p} : Asking(q)' <=> Asking(q),
           waited' \in Nat, waited' <= waited, left' = left,
           p \in Timers => /\ Asking(p)' => Asking(p)
                           /\ Asking(p) /\ ~Asking(p)' => waited' <= Cooldown
    PROVE  InTime'
<1>0. waited \in Nat /\ left \in 0 .. Period
  BY DEF IInv, TypeOK, Patience
<1>1. /\ waited + left <= Patience => waited' + left' <= Patience
      /\ waited <= Patience => waited' <= Patience
      /\ waited' <= Cooldown => waited' + left' <= Patience
      /\ waited + left <= Patience => waited <= Patience
  BY <1>0, TimeLeft, Zenon
<1>2. CASE \E q \in Timers : Asking(q)'
  BY <1>1, <1>2, Zenon DEF InTime, Patience
<1>3. CASE ~ \E q \in Timers : Asking(q)'
  <2>1. CASE \E q \in Timers : Asking(q)
    <3>1. p \in Timers /\ Asking(p)
      BY <1>3, <2>1 DEF Procs
    <3> QED BY <1>1, <1>3, <3>1, Zenon DEF InTime, Patience
  <2>2. CASE ~ \E q \in Timers : Asking(q)
    BY <1>1, <1>3, <2>2, Zenon DEF InTime, Patience
  <2> QED BY <2>1, <2>2
<1> QED BY <1>2, <1>3

\* A command's steps change nobody else's place.
LEMMA OthersAsk ==
    ASSUME IInv, NEW p \in Procs, NEW l,
           pc' = [pc EXCEPT ![p] = l],
           \A q \in Procs \ {p} : job'[q].kind = job[q].kind
    PROVE  /\ \A q \in Procs \ {p} : Asking(q)' <=> Asking(q)
           /\ pc'[p] = l
BY DEF IInv, TypeOK, Asking

\* A question waits for less than the cooldown of the wake that keeps its
\* source quiet.
LEMMA WaitsInCooldown ==
    ASSUME IInv, WaitsSince, CoolingDown(since["autonomous"])
    PROVE  waited <= Cooldown
<1> USE TriggersAssumption
<1>1. since["autonomous"] \in Ages /\ waited \in Nat
  BY DEF IInv, TypeOK, TimedKinds
<1>2. since["autonomous"] \in 0 .. Cap - 1
  BY <1>1 DEF CoolingDown, Ages, Cap
<1> QED BY <1>1, <1>2 DEF WaitsSince, CoolingDown, Ages

\* The timer's command asks, and goes on or gives up.
LEMMA AskingInTime ==
    ASSUME IInv, QInv, NEW p \in Procs,
           \/ LastAutonomous(p) \/ AutonomousDue(p) \/ AskedTooEarly(p)
           \/ LastReflection(p) \/ ReflectionDue(p) \/ Finish(p)
    PROVE  InTime'
<1> USE TriggersAssumption
<1>1. waited \in Nat /\ waited' = waited /\ left' = left
  BY DEF IInv, TypeOK, LastAutonomous, AutonomousDue, AskedTooEarly,
         LastReflection, ReflectionDue, Finish
<1>2. SourceAsks(p) /\ job \in [Procs -> Jobs] /\ pc \in [Procs -> Steps]
  BY DEF IInv, TypeOK
<1>3. PICK l : pc' = [pc EXCEPT ![p] = l]
  BY DEF LastAutonomous, AutonomousDue, AskedTooEarly, LastReflection,
         ReflectionDue, Finish, Exit, Goto, AskReflection
<1>4. \A q \in Procs \ {p} : job'[q].kind = job[q].kind
  BY <1>2 DEF LastAutonomous, AutonomousDue, AskedTooEarly, LastReflection,
              ReflectionDue, Finish, Exit, AskReflection, Reads
<1>5. \A q \in Procs \ {p} : Asking(q)' <=> Asking(q)
  BY <1>3, <1>4, OthersAsk
<1>6. p \in Timers => /\ Asking(p)' => Asking(p)
                      /\ Asking(p) /\ ~Asking(p)' => waited <= Cooldown
  <2>1. CASE LastAutonomous(p)
    <3>1. CASE CoolingDown(since["autonomous"])
      BY <2>1, <3>1, WaitsInCooldown DEF LastAutonomous, Asking, QInv
    <3>2. CASE ~CoolingDown(since["autonomous"])
      BY <1>2, <2>1, <3>2 DEF LastAutonomous, Asking, Goto
    <3> QED BY <3>1, <3>2
  <2>2. CASE AutonomousDue(p)
    <3>1. CASE DueQuestion \/ Scheduled(p)
      BY <1>2, <2>2, <3>1 DEF AutonomousDue, Asking, Goto, SourceAsks
    <3>2. CASE ~(DueQuestion \/ Scheduled(p))
      <4>1. waited = 0
        BY <3>2 DEF DueQuestion, QInv, WaitsSince
      <4> QED BY <2>2, <4>1 DEF AutonomousDue, Asking
    <3> QED BY <3>1, <3>2
  <2>3. CASE LastReflection(p)
    BY <1>2, <2>3 DEF LastReflection, Asking, Exit, Goto
  <2>4. CASE ReflectionDue(p)
    BY <1>2, <2>4 DEF ReflectionDue, Asking, Exit, Goto, SourceAsks
  <2>5. CASE Finish(p)
    BY <1>2, <2>5 DEF Finish, Asking, Exit, Goto
  <2>6. CASE AskedTooEarly(p)
    BY <1>2, <2>6 DEF AskedTooEarly, SourceAsks
  <2> QED BY <2>1, <2>2, <2>3, <2>4, <2>5, <2>6
<1> QED BY <1>1, <1>5, <1>6, QuietInTime DEF QInv

\* Users start commands of their own; a chat and a state update ask nothing.
LEMMA OthersInTime ==
    ASSUME IInv, QInv, NEW p \in Procs,
           \/ AskedFor(p) \/ ChatTurn(p) \/ SaveState(p)
           \/ \E kind \in TimedKinds \cup {"interaction"} : ByHand(p, kind)
    PROVE  InTime'
<1> USE TriggersAssumption
<1>1. waited \in Nat /\ waited' \in Nat /\ waited' <= waited /\ left' = left
  BY DEF IInv, TypeOK, AskedFor, ChatTurn, SaveState, ByHand
<1>2. job \in [Procs -> Jobs] /\ pc \in [Procs -> Steps]
  BY DEF IInv, TypeOK
<1>3. PICK l : pc' = [pc EXCEPT ![p] = l]
  <2>1. ChatTurn(p) => pc' = [pc EXCEPT ![p] = pc[p]]
    BY <1>2 DEF ChatTurn
  <2> QED BY <2>1 DEF AskedFor, SaveState, ByHand, Goto
<1>4. \A q \in Procs \ {p} : job'[q].kind = job[q].kind
  BY <1>2 DEF AskedFor, ChatTurn, SaveState, ByHand
<1>5. \A q \in Procs \ {p} : Asking(q)' <=> Asking(q)
  BY <1>3, <1>4, OthersAsk
<1>6. p \in Timers => ~Asking(p) /\ ~Asking(p)'
  BY <1>2 DEF AskedFor, ChatTurn, SaveState, ByHand, Asking, Goto
<1> QED BY <1>1, <1>5, <1>6, QuietInTime DEF QInv

\* An autonomous wake takes the question up; another kind is nothing to it.
LEMMA OpeningInTime ==
    ASSUME IInv, QInv, NEW p \in Procs, Open(p) \/ Grant(p)
    PROVE  InTime'
<1> USE TriggersAssumption
<1>1. waited \in Nat /\ left \in 0 .. Period /\ left' = left
      /\ Patience = Cooldown + Period
  BY DEF IInv, TypeOK, Open, Grant, Patience
<1>2. CASE job[p].kind = "autonomous"
  <2>1. waited' = 0
    BY <1>2 DEF Open, Grant, OpenWake
  <2> QED BY <1>1, <2>1 DEF InTime
<1>3. CASE job[p].kind # "autonomous"
  <2>1. waited' = waited /\ pc' = [pc EXCEPT ![p] = "awake"]
    BY <1>3 DEF Open, Grant, OpenWake, Goto
  <2>2. ASSUME NEW q \in Procs \ {p}
        PROVE  job'[q].kind = job[q].kind
    <3>1. job[q] \in Jobs
      BY DEF IInv, TypeOK
    <3>2. job'[q] = [job[q] EXCEPT !.overtaken = @ \/ Considers(q, job[p].kind),
                                    !.counted = @ /\ job[p].kind # "reflection"]
      BY Zenon DEF Open, Grant, OpenWake
    <3> QED BY <3>1, <3>2 DEF Jobs
  <2>3. /\ \A q \in Procs \ {p} : Asking(q)' <=> Asking(q)
        /\ pc'[p] = "awake"
    BY <2>1, <2>2, OthersAsk
  <2>4. ~Asking(p) /\ ~Asking(p)'
    BY <1>3, <2>3 DEF Asking, Open, Grant
  <2> QED BY <1>1, <2>1, <2>3, <2>4, QuietInTime DEF QInv
<1> QED BY <1>2, <1>3

\* Time passes only while no command of the timer asks, and the timer's firing
\* starts the question's last period anew.
LEMMA TimeInTime ==
    ASSUME IInv, QInv, NEW p \in Procs, Tick \/ Fire(p)
    PROVE  InTime'
<1> USE TriggersAssumption
<1>1. waited \in Nat /\ left \in 0 .. Period /\ Patience = Cooldown + Period
      /\ job \in [Procs -> Jobs] /\ pc \in [Procs -> Steps]
  BY DEF IInv, TypeOK, Patience
<1>2. CASE Tick
  <2>1. \A q \in Timers : ~Asking(q) /\ ~Asking(q)'
    BY <1>2 DEF Tick, Asking
  <2>2. waited + left <= Patience /\ left > 0 /\ left' = left - 1
    BY <1>2, <2>1 DEF QInv, InTime, Tick
  <2>3. waited' = waited \/ waited' = waited + 1
    BY <1>2 DEF Tick
  <2> QED BY <1>1, <2>1, <2>2, <2>3 DEF InTime
<1>3. CASE Fire(p)
  <2>1. waited <= Patience /\ waited' = waited
    BY <1>1, <1>3 DEF QInv, InTime, Fire
  <2>2. p \in Timers /\ Asking(p)'
    BY <1>1, <1>3 DEF Fire, Goto, Asking
  <2> QED BY <2>1, <2>2 DEF InTime
<1> QED BY <1>2, <1>3

\* No step makes a question older than the last wake.
LEMMA WaitsSinceNext ==
    ASSUME IInv, WaitsSince, [Next]_vars
    PROVE  WaitsSince'
<1> USE TriggersAssumption
<1>1. since["autonomous"] \in Ages /\ waited \in Nat /\ questions \in SUBSET Dues
      /\ since \in [TimedKinds -> Ages]
  BY DEF IInv, TypeOK, TimedKinds
<1>2. CASE UNCHANGED <<since, waited, questions>>
  BY <1>2 DEF WaitsSince
<1>3. CASE Tick
  <2>1. since'["autonomous"] = Later(since["autonomous"])
    BY <1>3 DEF Tick, TimedKinds
  <2>2. 0 \in questions => 0 \in questions'
    BY <1>3 DEF Tick, Nearer
  <2>3. waited' = waited \/ (waited' = waited + 1 /\ 0 \in questions)
    BY <1>3 DEF Tick
  <2>4. Cap \in Nat
    BY DEF Cap
  <2>5. since'["autonomous"] \in 0 .. Cap - 1 =>
           /\ since["autonomous"] \in 0 .. Cap - 1
           /\ since'["autonomous"] = since["autonomous"] + 1
    BY <1>1, <2>1, <2>4 DEF Later, Ages
  <2>6. 0 \notin questions => waited' = waited
    BY <2>3
  <2> QED BY <1>1, <2>2, <2>3, <2>4, <2>5, <2>6 DEF WaitsSince
<1>4. ASSUME NEW p \in Procs, SaveState(p)
      PROVE  WaitsSince'
  <2>1. since' = since /\ waited' = IF 0 \in questions' THEN waited ELSE 0
    BY <1>4 DEF SaveState
  <2>2. Cap \in Nat
    BY DEF Cap
  <2> QED BY <1>1, <2>1, <2>2 DEF WaitsSince
<1>5. ASSUME NEW p \in Procs, Open(p) \/ Grant(p)
      PROVE  WaitsSince'
  <2>1. questions' = questions
    BY <1>5 DEF Open, Grant
  <2>2. CASE job[p].kind = "autonomous"
    <3>1. waited' = 0 /\ since'["autonomous"] = 0
      BY <1>1, <1>5, <2>2 DEF Open, Grant, OpenWake, TimedKinds
    <3> QED BY <3>1 DEF WaitsSince
  <2>3. CASE job[p].kind # "autonomous"
    <3>1. waited' = waited /\ since'["autonomous"] = since["autonomous"]
      BY <1>1, <1>5, <2>3 DEF Open, Grant, OpenWake, TimedKinds
    <3> QED BY <2>1, <3>1 DEF WaitsSince
  <2> QED BY <2>2, <2>3
<1>6. ASSUME NEW p \in Procs,
             Fire(p) \/ AskedFor(p) \/ ChatTurn(p) \/ Step(p)
             \/ \E kind \in TimedKinds \cup {"interaction"} : ByHand(p, kind),
             ~SaveState(p), ~Open(p), ~Grant(p)
      PROVE  UNCHANGED <<since, waited, questions>>
  BY <1>6 DEF Fire, AskedFor, ChatTurn, Step, ByHand, LastAutonomous,
              AutonomousDue, AskedTooEarly, LastReflection, ReflectionDue, Finish
<1>7. ~Tick => \/ UNCHANGED <<since, waited, questions>>
               \/ \E p \in Procs : SaveState(p) \/ Open(p) \/ Grant(p)
  BY <1>6 DEF Next, vars
<1> QED BY <1>2, <1>3, <1>4, <1>5, <1>7

\* QInv is inductive.
LEMMA NextQInv == IInv /\ QInv /\ [Next]_vars => QInv'
<1> SUFFICES ASSUME IInv, QInv, [Next]_vars PROVE QInv'
  OBVIOUS
<1>1. WaitsSince'
  BY WaitsSinceNext DEF QInv
<1>2. CASE Tick
  <2>1. CASE \E p \in Procs : TRUE
    BY <1>1, <1>2, <2>1, TimeInTime DEF QInv
  <2>2. CASE ~ \E p \in Procs : TRUE
    <3>1. ~ \E p \in Timers : TRUE
      BY <2>2 DEF Procs
    <3>2. waited \in Nat /\ left \in Nat /\ Patience \in Nat
      BY TriggersAssumption DEF IInv, TypeOK, Patience
    <3>3. waited + left <= Patience /\ left' = left - 1
          /\ (waited' = waited \/ waited' = waited + 1)
      BY <1>2, <3>1 DEF QInv, InTime, Tick
    <3> QED BY <1>1, <3>1, <3>2, <3>3 DEF QInv, InTime
  <2> QED BY <2>1, <2>2
<1>3. ASSUME NEW p \in Procs, Step(p)
      PROVE  QInv'
  BY <1>1, <1>3, AskingInTime, OpeningInTime, OthersInTime DEF Step, QInv
<1>4. ASSUME NEW p \in Procs, Fire(p)
      PROVE  QInv'
  BY <1>1, <1>4, TimeInTime DEF QInv
<1>5. ASSUME NEW p \in Procs,
             \/ AskedFor(p) \/ ChatTurn(p)
             \/ \E kind \in TimedKinds \cup {"interaction"} : ByHand(p, kind)
      PROVE  QInv'
  BY <1>1, <1>5, OthersInTime DEF QInv
<1>6. CASE UNCHANGED vars
  BY <1>6 DEF vars, QInv, InTime, WaitsSince, Asking
<1> QED BY <1>2, <1>3, <1>4, <1>5, <1>6 DEF Next

\* A due question never waits longer than the cooldown and a period of the
\* timer, whatever the settings, the questions and the other commands: users
\* who chat or force wakes can only take it up sooner, and no command of the
\* timer goes away without a wake unless the cooldown holds or nothing is due.
THEOREM DueQuestionIsTaken == Spec => []DueQuestionTaken
<1>1. IInv /\ QInv => DueQuestionTaken
  <2> SUFFICES ASSUME IInv, QInv PROVE DueQuestionTaken
    OBVIOUS
  <2>1. waited \in Nat /\ left \in Nat /\ Patience \in Nat
    BY TriggersAssumption DEF IInv, TypeOK, Patience
  <2> QED BY <2>1 DEF QInv, InTime, DueQuestionTaken
<1> QED BY <1>1, Invariant, InitQInv, NextQInv, PTL DEF Spec
=============================================================================
