# A TLA+ model of llm-memory-harness

The harness gives a language model a memory that outlives a conversation: every
event is a *wake*, recorded in an append-only history; memories and a small
`current_state` are *derived* from what the model decided in those wakes, and
`rebuild --from-history` regenerates them. The specification asks whether that
split holds when processes interleave, die, or lose the embedding or completion
service half-way, and what a rebuild really brings back.

Paths below are relative to the repository; `orchestrator.py:135` is line 135 of
`src/runtime/orchestrator.py`, and so on.

## 1. The system

### Components

| component | state it keeps | operations | correct when |
|---|---|---|---|
| `history/records.py` | none (value types) | | ids and decisions survive a round trip |
| `history/history.py` | tables `wakes`, `turns` | `open_wake`, `append_turn`, `record_retrieval`, `close_wake`, `replay` | append-only; one writer per open wake; commit order is replay order |
| `memory/store.py` | table `memories` | `upsert`, `mark_superseded`, `nearest`, `clear` | a row is written once, a mark is set once |
| `memory/memory.py` | none | `write`, `supersede`, `search`, `recent`, `dispatch` | every row is traceable to a recorded call; chains go forward |
| `memory/preprocess.py` | none | `preprocess` | idempotent, destroys no names |
| `state/state.py` | table `current_state` (one row) | `load`, `save`, `clamp` | regenerable from history |
| `state/update.py` | none | `update_state` (one model call) | returns a readable state or the prior one |
| `runtime/orchestrator.py` | locals of `run` and `wake` | `run`, `wake`, `_observe` | ends; record agrees with transcript; errors close the record |
| `runtime/budget.py` | counters of one run | `charge`, `exceeded` | one allowance for a chain of wakes |
| `runtime/rebuild.py` | none | `rebuild` | the store is a function of history, whatever it held before |
| `runtime/triggers.py` | none (reads history and state) | `ReflectionDue`, `AutonomousDue`, `FirstDue` | cooldown and cadence hold; nobody starves |
| `runtime/cli.py` | none | one process per command | |
| `llm/client.py`, `llm/embedder.py` | none | `complete`, `embed`, with retries | last error surfaces, others at once |
| `runtime/config.py` | environment | | |
| `runtime/evals.py` | an in-memory store | recall, MRR, `ancestor_ids` | a consolidated row counts as a hit |

### How they interact

Commands are one-shot processes over one SQLite file; there are no threads.
`chat` and `wake` call `Orchestrator.run`, which builds one `Budget` and runs a
wake and its granted successors. A wake reads `current_state`, commits a wake
record, observes (a search or the recent rows), and loops: one completion, its turn
committed, its memory calls dispatched one after the other, one tool turn. The
model's `finish` call, or plain text, ends the loop; then the state is updated and
the record closed. `rebuild` runs the recorded calls through the same `dispatch`.

Every method that writes ends with a commit of its own. Nothing spans two of them,
so between any two a process can die or another can run. That is where the
behaviours hard to test are: a crash between `upsert` and `mark_superseded` or
between `state.save` and `close_wake`; a rebuild cut short after `clear`; a call
recorded before it ran and failed; an embedder error outside the `try`; a chain of
successors at a limit; two processes between a check and its write. `PROJECT.json`
lists them as hazards, each at its line.

## 2. The modules

    Records <- Budget
    Records <- History <- Memory <- Orchestrator (with Budget) <- Rebuild <- Harness
    Harness <- Refinement (INSTANCE Ledger) <- Derived <- Evals <- MCHarness
    Harness <- HarnessProofs <- RecordProofs
               HarnessProofs <- LedgerProofs (with Refinement)
               HarnessProofs <- StateProofs (with NaturalFacts)
               LedgerProofs, StateProofs <- DerivedProofs (with Evals)

    Triggers <- MCTriggers                 CurrentState <- StateUpdate <- MCStateUpdate
    Triggers <- TriggersProofs             StateUpdate <- StateUpdateProofs (with NaturalFacts)

Each module EXTENDS the one before it, the way the code's layers use each other.
There are three specifications: `Harness` (the whole program, with time and the
content of the state abstracted), `Triggers` (when wakes start, over time) and
`StateUpdate` (how long the requests of a wake take, and what becomes of its state).

| module | models | variables |
|---|---|---|
| `Records` | value types, `deterministic_memory_id`, tool calls | |
| `Budget` | `budget.py` | (records held in `run`) |
| `History` | `history.py`; an action per commit | `wakes`, `turns` |
| `Memory` | `memory.py`, `store.py`; an action per read-and-reply, and per commit | `memories`, `todo`, `op` |
| `Orchestrator` | `orchestrator.py`; a control point between any two commits or external calls | `pc`, `run`, `cyc`, `current_state` |
| `Rebuild` | `rebuild.py`, `_cmd_rebuild` | |
| `Harness` | the processes together; `Spec`, `FairSpec`; type invariant and properties | |
| `Ledger` | abstract: a log of decisions that only grows, and a table never more than it decided | `log`, `table` |
| `Refinement` | where the program's log and table are; `ImplementsLedger` | |
| `Derived` | what the derived layer promises: the store as a fold over history; properties against it | |
| `Evals` | the scoring of `evals.py` against the rows any run leaves | |
| `Triggers` | `triggers.py` and the timer, chat and forced wakes over time | `since`, `turns`, `questions`, `waited`, `left`, `pc`, `job` |
| `CurrentState` | `state.py`: `from_dict`, `clamp` on one list of texts | |
| `StateUpdate` | the retry loops of both clients under the wall clock, `update_state`, `state.save`, the restore of a rebuild | `stored`, `after`, `prior`, `pc`, `attempt`, `rounds`, `searches`, `elapsed` |
| `MCHarness`, `MCTriggers`, `MCStateUpdate` | constants for TLC | |
| `HarnessProofs`, `RecordProofs`, `LedgerProofs`, `StateProofs`, `DerivedProofs`, `TriggersProofs`, `StateUpdateProofs` | theorems and their proofs | |
| `NaturalFacts` | what the proofs need of numbers, recursion and finite sets | |

### State and code

- `wakes[w]` is the row with `seq = w`; `turns[s]` the row with `seq = s`. A turn's
  `source_id` is unique, so its number stands for it. The field `opener`, the process that
  opened the wake, is bookkeeping of the specification.
- A memory id is the pair of the source turn and the canonical text, what
  `deterministic_memory_id` hashes. Hash collisions are left out.
- `memories` maps an id to origin, `supersedes`, `superseded_by`, `occurred_at`.
- `todo[p]` is the set of calls process p has still to dispatch, `op[p]` the write it
  is in: `upsert` and `mark` are about to run, `set` has passed the check of
  `mark_superseded` and not yet updated.
- `pc[p]` says between which two commits p is, `run[p]` holds the locals of
  `Orchestrator.run`, `cyc[p]` those of `wake`.
- `current_state` is the set of the wakes whose changes it holds. (In `StateUpdate` it
  is the list of texts itself.)
- In `Triggers`, `since[k]` is how long ago the last wake of kind k was opened, all the
  sources use of history's timestamps, and `turns` what `turns_since_last` counts. `left`
  is the timer's, `job[p]` what a command has read and remembers; `job[p].stale` says that
  time has passed since `AutonomousDue` took `now`, so that it may miss what has come due
  meanwhile (`AskedTooEarly`). `waited` and `job[p].overtaken` are bookkeeping of the
  specification.
- In `StateUpdate`, `stored` is the row of `current_state`, `after` the last
  `state_after` of history, `prior` the state the wake was given; `attempt` counts the
  attempts of the request under way, `rounds` the completions, `searches` the
  embeddings a round has still to make, `elapsed` the wall clock.

### Abstractions, and what they mean

- **Atomicity.** A step ends at a commit, or where an external call raises. Code
  between two commits that only touches locals is folded into the step.
  `append_turn` and `record_retrieval` read and write the rows of one wake that no
  other process writes (`OwnsOpenWake`, checked and proved), so they are one step;
  the reads of `supersede`, `write` and `mark_superseded` are apart from their writes.
- **The model** answers anything in a bounded menu: every sequence of at most
  `MaxCallsPerTurn` calls over the tools of the run, a supersede naming any id a recorded
  call may have made a row for (`DecidedIds`: in the store or not, as after a rebuild cut
  short) or none, with or without a finish call.
- **The embedder** gives a constant, symmetric and reflexive relation `Near` on
  canonical texts: pairs at or above `duplicate_threshold`. A search returns any small
  enough subset of the live rows. A request may raise, or return the wrong dimension.
- **A call that fails on its arguments** (bad type, unknown tool, a bad date) changes
  no state and is represented by a call with blank text. Arguments that are no JSON object
  are two calls of their own: both are recorded and raise in `dispatch` (for a write or a
  search). A `misshapen` one cannot be read back; a `falsy` one (`null`, `[]`, `0`) is read
  back as `{}`, so that a rebuild answers it with an error and runs the later calls of its
  round, which live were cut off. (A `finish` call with such arguments, and an array of
  pairs, which `dict` accepts, are left out.)
- **Time** in `Triggers` is ticks. A count that is compared with a limit only is kept up
  to that limit. The timer is punctual, its command asks its sources within a tick and
  the wake it opens takes at most `Longest`; a user's command may take any time between
  any two steps.
- **Texts** in `StateUpdate` are short sequences of letters and blanks. The four lists
  of the state are treated alike and one stands for them. A request takes up to its
  timeout and fails in a way that may pass, fails in another, or succeeds.
- **The clock** is the number of committed turns where dates matter, and a flag that may
  be raised at any moment for the wall clock of a budget.
- **A crash** loses a process's locals and keeps what it committed.
- **A rebuild and other processes.** The code lets a rebuild start in the middle of
  another process's wake, which holds no lock while it waits for a model, and a wake start
  while a rebuild runs. With `"beside"` in `Maintenance` the specification does too.
  Without it a careful operator is assumed, who runs a rebuild while nothing else does
  (`Alone`, `NoRebuild`); the theorems that need this say so (`RebuildsApart`), and section
  8 says what is lost without it.
- **SQLite's locks.** The cursor of `replay()` is read row by row, so its `SHARED` lock
  keeps the commits of other processes waiting until it is at its end (`Unlocked`); the
  state is saved after that (`EndReplay`, `RestoreState`). A commit that waits for more
  than five seconds, or that two replays want at once, is refused (`LockedOut`, the fault
  `lock`): in the loop the error clause closes the wake, elsewhere the command ends.

## 3. What the runs check

Deadlock is checked in all runs: in `Harness` a process that is stuck in mid-run would
be one (`Rest` stutters only when every process is idle).

| run | asks | instance |
|---|---|---|
| `crash_rebuild` | `TypeOK`, `Provenance`, `ForwardSupersession`, `RebuildIsDerived`, `RecallIsFlat`, `TwinsNeedTwoProcesses`, `RowsAreFinal`, `ImplementsLedger` | one process, two wakes of one completion and up to two calls (or plain text), two texts near each other, `crash` and `embed` faults, rebuilds |
| `clean_rebuild` | `LiveIsDerived`, `StateRegenerable`, `RetrievedResolve`, `RecallIsFlat` | one process, two wakes (chat, reflection) of up to two completions, one call each, texts a, b and blank, a model that ends its wakes in plain text, model errors, rebuilds |
| `two_processes` | `Provenance`, `ForwardSupersession`, `OwnsOpenWake`, `TwinsNeedTwoProcesses`, `HistoryIsAppendOnly` | two processes, symmetric, three wakes of one completion, so that one process may have two, of one call each, searches too; `crash` and `lock` faults |
| `allowance` | `OneAllowance`, `RecordTellsDecision`, `RunsEnd`, `WakesGetClosed` | a wake and its successor; limits of 3 iterations, 3 tokens, 2 tool calls; up to two calls a turn, misshapen and falsy ones too; model, embedding, dimension and clock faults; top-ups |
| `due_wakes` | `TypeOK`, `DueQuestionTaken`, `CooldownKept`, `ReflectionComes` | two commands of a timer that fires at every tick, whose wakes take up to a tick, so that one may still run when the next starts, and a user who chats, forces wakes and runs the timer's command; cooldown 2, interval 4, threshold 1, one successor, questions due now, next tick, or with no readable date |
| `state_update` | `TypeOK`, `PromptIsBounded`, `RestoresWhatWasShown`, `OverrunIsBounded`, `StateIsTheAnswer`, `WakeEnds` | answers of up to three items: short and long texts, with blanks at the cut, around, or nothing else, an item that is no text; two entries of two characters; two attempts, timeouts of 2 and 1 ticks, wall clock of 3, two rounds of up to two calls; rebuilds |

The properties, in words:

- `Provenance`: every row's source is a committed assistant turn with a call that
  produces exactly this row, and its origin is its wake's trigger.
- `ForwardSupersession`: a row is retired by a row that is in the store and comes from
  a later turn; so chains are finite, acyclic and end in a live row.
- `RowsAreFinal`: a row in the store keeps origin, target and date; a mark once
  set stays. For one process; see section 8 for two.
- `ImplementsLedger`: every step of the program is one of the abstract ledger, or none:
  a turn's decisions are appended, a row is derived once from a committed decision, a row
  is retired by a decided, later one that is there, or the whole table is forgotten.
  Unlike `RowsAreFinal` it holds for any number of processes.
- `TwinsNeedTwoProcesses`: the near-duplicate check is a read, the upsert a later
  commit; what it misses are rows of wakes that two different processes opened. No process
  writes both, in one wake or in two, whatever the others do in between, nor do its
  rebuilds and crashes.
- `RecallIsFlat`: a search that returns the live end of a chain is a hit, for the scoring
  of `evals.py`, for every row the chain retired, unless a row of it was made twice in
  its turn (section 8 has that case).
- `RebuildIsDerived`: whatever the store held, however often a rebuild was cut short,
  one that gets to its report leaves the fold of the recorded calls.
- `LiveIsDerived`: without crashes and embedder errors the live store equals that
  fold at every moment between two calls. The fold (`Derived`) gives each call an
  atomic meaning; the code takes up to three commits for it.
- `StateRegenerable`: `current_state` is the last `state_after`, and so was the
  snapshot each wake was given.
- `RetrievedResolve`: ids a record says were retrieved are in the store, also after
  a rebuild.
- `OwnsOpenWake`: the wake a process works on is open and nobody else's, so no
  append, retrieval or close is ever refused.
- `HistoryIsAppendOnly`: turns and closed wakes never change; an open wake keeps its
  trigger, snapshot and retrieved ids.
- `OneAllowance`: a run with all its successors stays within one budget: iterations
  exactly, tokens and calls up to the completion that crosses the limit; the model
  calls that are not charged are at most one a record.
- `RecordTellsDecision`: a closed record's decision, stop reason and `state_after`
  agree with its transcript. (A commit that is refused may keep a decision from being
  noted; the record then says `error`.)
- `RunsEnd`, `WakesGetClosed`: every command ends, every wake gets closed.
- `CooldownKept`: a wake that starts by itself is never inside the cooldown of the last of
  its kind, and a reflection never before enough turns came, unless another wake of the
  kind was opened between this command's reading and its own opening.
- `DueQuestionTaken`: a due question is taken up once the cooldown has passed and the timer
  fires, whatever other questions there are and however they are dated.
- `ReflectionComes`: when enough turns have come a reflection is opened, although a due
  question always wins.
- `PromptIsBounded`: whatever the model answers, the state of every prompt is within its
  limits and has no blank entry and no blanks around an entry.
- `RestoresWhatWasShown`: a rebuild brings back the state the next wake would have been
  given; reading, cutting, saving and reading again change nothing.
- `StateIsTheAnswer`: an entry the model keeps verbatim stays as it was, what it leaves out
  goes, and an answer without JSON leaves the state alone.
- `OverrunIsBounded`: the clock is looked at between requests only, and each may be
  retried: a wake runs over its limit by at most one completion with its calls, or one
  update. `WakeEnds`: it ends whatever the services do.

Six runs end in a violation, each of something the repository says of itself:

| run | property | what happens |
|---|---|---|
| `sleep_writes` | `SleepWritesNothing` | a wake writes a memory, then decides sleep; the docs say a sleeping wake's record is its entire effect |
| `crash_state` | `StateRegenerable` | killed after `state.save` and before `close_wake`: a state no record holds |
| `lost_text` | `NothingIsLost` | a write failed at the embedder, a later one succeeded and was superseded; rebuild replays the failed one, rejects the second as its duplicate, cannot resolve the supersede, and brings the retired text back to life. The same sequence run through the classes of `src/` gives the same result |
| `observe_error` | `ErrorsCloseTheRecord` | an embedder error while observing comes before the `try`: the wake stays open |
| `unreadable_turn` | `LiveIsDerived` | a call with a JSON array for arguments is committed; `ToolCall.from_dict` raises on it, so a rebuild ends in the middle, with the store cleared |
| `stale_restore` | `RestoresTheState` | a wake closes after a rebuild has read the last `state_after` and before it saves it: the older state overwrites the newer |

`PROJECT.json` quotes the sentence each contradicts.

### Bounds, and why they are enough

Each bound is a constant: `MaxWakes` (no run *starts* once that many wakes exist; a run
started before still opens its own, so `two_processes` reaches three), `MaxSuccessors`,
`MaxIterations`, `MaxTokens`, `MaxToolCalls`, `MaxCallsPerTurn`, `K`. In `crash_rebuild`
two wakes of two calls make up to three rows: enough for a second supersede of a
retired row, the same text twice in a turn, a near-duplicate of a retired row, and a
crash in the first rebuild followed by a second. (Rebuilds and top-ups are taken in
when `Maintenance` has them.) The four turns of `clean_rebuild` make
chains of three supersessions. Two texts give near and
distinct ones; the runs take `AllNear` where duplicates matter and `SelfNear` where
texts must differ. Limits of two or three iterations let every budget line stop the
loop, in the first wake and in a successor. Runs that do not ask about a limit
set it to 100, out of reach.

`due_wakes` bounds time by caps and not by a horizon: its run goes on for ever. The
interval is longer than the cooldown, so a wake can be inside one, between the two, or
past both. A wake of one timer command may be open while the other command asks, and the
user's commands overlap both anywhere; a third command of the timer would find the two of
them at the same control points. In `state_update` `MaxChars` 2 cuts a
text of three at a letter and at a blank, `MaxEntries` 2 cuts a list of three, and the
clock can run out in a request, in a retry delay, and between two rounds; `elapsed` stops
one past the bound `OverrunIsBounded` states.

### Fairness

`FairSpec` is weak fairness of each process's own steps (`RunStep`, `RebuildStep`). A
started command is a sequential program: it goes on unless it is killed, and a call to a
service returns or raises (both clients have a timeout and a bounded number of
retries). Nothing is assumed of starts, crashes and errors, and crashes are left out of
`allowance`, where they would excuse a wake that stays open. That run uses wakes that
observe nothing, since `observe_error` shows the other kind may stay open for good.

`Triggers`: time goes on, the timer fires when it is due, and a timer's command gets on
and ends. Nothing is assumed of what a user does, and users may go on for ever, or stop
anywhere. `ReflectionComes` also needs a timer whose period is shorter than the cooldown
(`PeriodAssumption`, `MCTriggers`): see section 8. `StateUpdate`: a wake gets on (`Step`);
a request returns or raises, since both clients pass a timeout.

## 4. What is proved

For every value of the constants that meets the named assumptions, with every fault, and
any number of processes, but for the hypotheses the table names:

| module | theorem | property | hypotheses |
|---|---|---|---|
| `HarnessProofs` | `TypeCorrect` | `TypeOK` | |
| | `ProvenanceHolds` | `Provenance` | |
| | `AppendOnly` | `HistoryIsAppendOnly` | |
| | `WakesAreOwned` | `OwnsOpenWake` | |
| | `SupersessionIsForward` | `ForwardSupersession` | `RebuildsApart` |
| `RecordProofs` | `AllowanceIsShared` | `OneAllowance` | |
| | `RecordsTell` | `RecordTellsDecision` | |
| `LedgerProofs` | `LedgerIsImplemented` | `ImplementsLedger` | `RebuildsApart` |
| | `RowsAreFinalAlone` | `RowsAreFinal` | `OneProcess` |
| `StateProofs` | `StateIsRegenerable` | `StateRegenerable` | `OneProcess`, `NoCrash`, `NoneIsNoState` |
| `DerivedProofs` | `TwinsTakeTwo` | `TwinsNeedTwoProcesses` | `NoTopUp`, `RebuildsApart` |
| | `RebuildDerives` | `RebuildIsDerived` | `NoTopUp`, `NoMisfit`, `NoneIsNoOperation`, `RebuildsApart` |
| | `LiveStoreIsDerived` | `LiveIsDerived` | `OneAndUncut`, `NoTopUp`, `NoneIsNoOperation` |
| | `RetrievedAreThere` | `RetrievedResolve` | `OneAndUncut`, `NoTopUp`, `NoneIsNoOperation` |
| | `RecallStaysFlat` | `RecallIsFlat` | `RebuildsApart` |
| `TriggersProofs` | `TypeCorrect` | `TypeOK` of `Triggers` | |
| | `CooldownIsKept` | `CooldownKept` | |
| | `DueQuestionIsTaken` | `DueQuestionTaken` | |
| `StateUpdateProofs` | `TypeCorrect` | `TypeOK` of `StateUpdate` | `NoneIsNoSequence` |
| | `EveryPromptIsBounded` | `PromptIsBounded` | `NoneIsNoSequence` |
| | `RebuildRestoresState` | `RestoresWhatWasShown` | `NoneIsNoSequence` |
| | `StateFollowsAnswer` | `StateIsTheAnswer` | `NoneIsNoSequence` |
| | `WallClockIsKept` | `OverrunIsBounded` | |

So every safety property a passing run checks is a theorem. The hypotheses are
conditions under which the program keeps the promise. TLC finds a counterexample when one
is dropped, on instances like those of the runs, but for what is said below:

- `OneProcess`: two processes superseding one row move a mark, and overlapping wakes save
  one state over the other (section 8).
- `RebuildsApart`: there is one process, or no rebuild runs beside others (`Beside`). The
  code does not see to it. Without it `ForwardSupersession` is violated, and with it
  `ImplementsLedger` and `RecallIsFlat`, and `TwinsNeedTwoProcesses` (section 8);
  `RebuildIsDerived` says nothing then, since other processes go on recording calls. What
  does not need it, `Provenance`, `OwnsOpenWake` and `HistoryIsAppendOnly`, is proved
  without it.
- `NoCrash` (of `StateIsRegenerable`): `crash_state` is the counterexample. It excludes
  refused commits too, which may end a command at the same place.
- `NoTopUp`: nobody calls `rebuild()` over a store that is not empty, as only tests do. A
  top-up may accept what was rejected live (section 8), or carry out a supersede that
  failed live, beside a later row like its replacement. `RetrievedAreThere` takes the
  hypothesis over from the argument: no top-up is known to violate `RetrievedResolve`.
- `NoMisfit` (no wrong dimension while a rebuild replays): a call that raises on one is
  skipped, and the rebuild reports all the same, without its row.
- `OneAndUncut`: one process, no crash, and no embedder fault, so no call is recorded and
  then not carried out; the model and the clock may still fail (`NothingIsCut`, which
  excludes refused commits for the same reason). With an
  embedder fault a wake may be shown a row that a rebuild then rejects as the duplicate
  of one that failed live (`lost_text`). No `misshapen` or `falsy` call either
  (`WellShaped`): `unreadable_turn` is the counterexample to the first; the second cuts a
  round live that a rebuild runs to its end.
- `NoneIsNoState`, `NoneIsNoOperation`, `NoneIsNoSequence`: the value that stands for
  nothing is not one of the values it is told from, which TLC's model values are.

The argument, in the order of the modules:

1. **Types.** `TypeOK` alone is not inductive: `Upsert` looks up the call it writes, so
   the calls in hand must exist. `TypeInv` adds that turns belong to wakes
   (`TurnsHaveWakes`) and that the calls a process has to do, the one it is in, and the
   turn whose tool results it will store are in history (`TodoCommitted`, `OpCommitted`,
   `SrcCommitted`). That history only grows (`Grows`) keeps them; it is proved in the
   same induction, with a lemma for each operation of `History` and one for dispatch.
2. **Provenance** needs `CallsAreAssistant`: only an assistant turn has calls. A row is
   written only by `Upsert`, from a call in hand that `TypeInv` says history holds.
3. **Append-only** follows from what the steps of `History` change, and from `Open`.
4. **Ownership**: the wake opened has a number no process can hold, and whoever closes
   a wake lets it go in the same step.
5. **Forward supersession** is the deepest: `SupersessionInv` says that a write in
   hand is of a process that is dispatching (`OpInHand`), that a rebuild is alone
   (`RebuildAlone`, from `RebuildsApart`), that a supersede names an id of an earlier turn
   (`CallsNameOlder`: the model can only name what was decided when it answered), and
   that a process about to mark has its replacement in the store (`MarkReady`). The
   last one is what a concurrent `clear` would break, hence `RebuildAlone`.
6. **Allowance**: `OneAllowance` says what is spent at most; `Fits` says where a process
   is, what room it has left: before a wake is opened there is room for one more record,
   and up to the state update for one more call that is not charged. Each completion is
   within the limits when it starts, so it passes them by at most its own cost.
7. **Records**: what a closed record says was in the locals of the process that closed
   it, so `Tells` says of every control point how these locals agree with the transcript:
   no decision while nothing is settled, in a round of calls at most the turn being
   answered settles, and after the loop the last one does or a limit was met; on the way to
   the error clause a settled decision may not have been noted (`LockedOut`). Ownership
   keeps other processes out of the transcript, and a closed wake gets no more turns.
8. **Ledger**: a row must be new when it is derived, and decided. `OwnRound` says that a
   wake dispatches the calls of one turn of its own, so two processes never work on the
   same turn; hence `WriteIsNew`: a row about to be upserted is not in the table, and only
   a supersede goes on to a mark. A decision names an id that an earlier turn decided,
   whether or not its row is in the table (`DecidedIds`). With the invariants above each
   commit maps to a step of the ledger or to none.
9. **One process**: between the check of `mark_superseded` and its update the target stays
   unmarked, or marked by the same replacement (`MarkFree`); two processes break that.
10. **Cooldown**: `IInv` carries what a command has read to the moment it opens
    (`StillDue`): time may have passed, which only helps, and a wake opened meanwhile sets
    `overtaken`.
11. **Due questions**: `QInv` says that what a question has waited and what the timer has
    left fit in the patience the property grants, at each control point of the timer's
    command, and that no question waits since before the last wake; a command of the
    timer goes away without a wake only when neither allows one.
12. **State**: `StateInv` says what is in hand between the load, the save and the close:
    the prior state is what the records so far tell (`StateInHand`), what was saved is
    what the record will say, and every snapshot is told by the records before it
    (`StatesTold`). The last `state_after` exists by `GreatestNumber`.
13. **Twins**: a write was checked against the rows there were (`WriteIsChecked`). What has
    come since is of a wake that another process opened: the process has opened no wake
    after the one it is in, and dispatches its last turn (`InOrder`, of which `RoundIsLast`
    is a part); or, in a rebuild, comes from no later turn (`ReplayInOrder`). A retired row
    stays retired. The conclusion is about the openers of the two wakes, so that two wakes of
    one process are covered as well as one wake.
14. **The fold**: `FoldIsRecursive` shows that `Fold` satisfies its defining equation (calls
    are finitely many, and one is the latest), `FoldStays` that history growing leaves it
    alone. `InProgress` relates the table half-way through a call to the table before it;
    `DispatchDerives` shows that each commit moves from one stage to the next and the
    last arrives at the call's meaning. `Derives` then says that the table is the fold of
    the calls that are done, with the one in hand in progress: of a replay whoever was
    killed before (`ReplayDerives`), and of the live store (`LiveDerives`) when
    nothing is left out. `ShownIsKnown` follows: the fold gives the same ids again.
15. **Recall**: `LinksBack` says that a mark has a link back, unless the row was made twice.
    Links up rise in history, so a chain ends before it has more rows than there are
    (`LinksEnd`); and from any row of it the links back lead to its start
    (`LinksLeadBack`), which is the walk of `ancestor_ids`.
16. **Texts**: stripping is idempotent and a cut text is stripped by the next reading
    (`ContentInv`); `FromDict` is a recursive function, shown to satisfy its equation.
17. **Wall clock**: `ClockInv` bounds what has elapsed at each control point by the limit
    and what the requests since the last look at the clock can take.

Assumptions: `TextsAssumption`, `NoneAssumption` (`None` is no memory id and no
decision), `BudgetAssumption` (nor one of the budget's reasons), `MemoryAssumption`,
`OrchestratorAssumption`, `MaintenanceAssumption`, `HarnessAssumption`,
`TriggersAssumption`, `CurrentStateAssumption`, `StateUpdateAssumption`. TLC evaluates all
of them on each run of their specification.

Induction. The library states induction and recursion with an operator as a parameter,
which the provers at hand cannot instantiate. `NaturalFacts` states them of sets and
functions (`LeastNumber`, `SetInduction`, `Recursion`, `SubsetRecursion`) and proves them
from the library's well-foundedness of the numbers and its facts about finite sets, so
what the recursive functions of the model compute can be reasoned about. `Fold`, `FromDict`
and `Reaching` are written as recursive functions for that reason.

Only model-checked: `RunsEnd`, `WakesGetClosed`, `ReflectionComes` and `WakeEnds`
(liveness, which the prover does not do).

## 5. Running

In this directory:

    tlc -workers 2 -config crash_rebuild.cfg MCHarness
    tlc -workers 2 -config due_wakes.cfg MCTriggers
    tlc -workers 2 -config state_update.cfg MCStateUpdate
    tlapm DerivedProofs.tla

The passing runs take from a few seconds to about two and a half minutes each, the violations a few
seconds, the proofs up to six minutes a module.

## 6. Not modelled

Prompts, logging and printing; the text of messages; importance, entities, memory types,
stated dates; which characters `preprocess` removes (`Canon` is any function on texts);
embedding models and dimensions as spaces (a wrong dimension is a fault); how long a
commit waits for SQLite's locks (it is let in or refused); the encoding and the cost
accounting of the providers; averages, the reflection ratio and the corpus files of
`evals.py`; reading of settings; the schema version; the commands that only read
(`state`, `log`).

## 7. Plan

In order:

1. What of the derived layer is left when a rebuild runs beside a wake: which rows may be
   twins or marked by a row that is gone, and that the next rebuild alone repairs it; with
   a passing run of rebuilds beside wakes for what is only proved of them now.
2. `current_state` under overlapping wakes: a run of the lost update of section 8, and what
   is left of `StateRegenerable` there.
3. Is a top-up idempotent (`rebuild.py:37-39`)? Not after a supersede, see section 8; under
   which condition it is, and what becomes of `occurred_at`.
4. Rows of several embedding models in one table: what `nearest` compares.
5. `Triggers` composed with `Harness`: the sources reading `wakes` and `turns` themselves.
6. Proofs: what a bare top-up keeps; what of `LiveIsDerived` is left for a process that is
   killed (the store is the fold of the calls that ran); `StateRegenerable` up to the
   wakes that a kill left open.

## 8. Behaviour seen and not yet a property

- Two processes superseding one row can both pass the check of `mark_superseded`; the
  later mark replaces the earlier one. Chains still go forward (proved).
- Two wakes overlap (cron and a chat, say), both load the state (`orchestrator.py:126`)
  before either saves its own (200), and the one opened first saves last: what the other
  noted is gone from `current_state`, and a rebuild, which takes the last record in the
  order of the wakes' numbers, brings back the other one. (TLC finds it when
  `StateRegenerable` is asked of two processes.)
- When a replacement's text was already written in the same turn, `Memory.supersede` finds
  the row by its id, marks the old row and returns it without a link back
  (`memory.py:165-169`). `ancestor_ids` follows the links back, so finding the replacement
  counts as a miss for the retired row, where `evals.py:4-7` says that it counts as a hit.
  `RecallIsFlat` excepts such rows (`MadeTwice`).
- A second supersede of a retired row is answered with an error, and its replacement
  stays as a live row; a rebuild reproduces it, so store and history agree on it.
- A rebuild started while another process is in mid-wake clears rows that the wake goes on
  to work with. The wake may then mark a row that the replay has made again by a
  replacement that is gone, whose supersede was replayed before its target: the row is
  retired by nothing, against `ForwardSupersession`. Or it checks the second text of its turn
  before the replay has written the first and commits it after, and two near-duplicates of
  one wake are in the store, against `TwinsNeedTwoProcesses`. (TLC finds both when
  `"beside"` is added to instances of two processes.) A rebuild that runs alone derives the
  store anew.
- An `AutonomousDue` that is slow between taking `now` and reading the questions misses
  what came due meanwhile, until the timer fires next. `ReflectionDue` asks the clock after
  its read, and may let a reflection through whose predecessor was opened in between: the
  `overtaken` case again.
- `update_state` is a model call that is not charged to the budget; `OneAllowance`
  bounds it by one a record.
- The process that dies between `state.save` and `close_wake` leaves a state
  that a rebuild without any earlier `state_after` does not replace.
- `update_state` promises to fall back to the prior state on garbage output
  (`tests/test_state.py:1-2`). It does for an answer without a JSON object; an object such
  as `{"priorities": null}`, or an entry with `"memory_ids": null`, raises a `TypeError`
  and the wake is closed with an error (`Surfaces` in `StateUpdate`).
- A text cut at `state_max_chars` may end in a blank, which is saved and recorded but
  stripped by the next load, so row and prompt differ by it. `RestoresWhatWasShown` holds
  because both sides are read through `from_dict`.
- Two timer commands started together both read the last wake before either has opened
  its own, and both wake inside the cooldown: the `overtaken` case of `CooldownKept`.
- When the timer's period is not shorter than the cooldown a due question that the model
  never drops wins every time, and reflection starves. Chat turns in a wake opened before
  the last reflection never count towards the next.
- A top-up after a supersede may accept a near-duplicate that was rejected live, since the
  row that kept it out has been retired meanwhile; so topping up is not idempotent then.
- After a change of the embedding model, `nearest` compares rows of the same dimension
  across models (with a `stale_vector` warning) and skips rows of another dimension with
  none (`store.py:109-120`); the user guide (lines 126-127) says old vectors are never
  silently mixed and a mismatch shows up as a warning.
