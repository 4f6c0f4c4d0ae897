---------------------------- MODULE StateUpdate ----------------------------
(***************************************************************************)
(* What Orchestrator.tla takes in one step: the requests a wake makes of   *)
(* the services, with the retry loops of llm/client.py and llm/embedder.py *)
(* under the wall clock of its budget, and the state it updates, with its  *)
(* content.  One process runs one wake after the other; crashes, records   *)
(* and memories are in Harness.tla.                                        *)
(***************************************************************************)
EXTENDS CurrentState

CONSTANTS
    Items,              \* what an answer may list: texts, and None
    MaxItems,           \* bound: items in an answer
    Retries,            \* LLMClient and LiteLLMEmbedder: retries
    CompleteTimeout,    \* LLMClient: timeout, in ticks of a second
    EmbedTimeout,       \* LiteLLMEmbedder: timeout
    MaxIterations,      \* BudgetLimits.max_iterations
    MaxWall,            \* BudgetLimits.max_wall_ms
    MaxCalls            \* bound: memory calls of a completion

ASSUME StateUpdateAssumption ==
    /\ Retries \in Nat \ {0} /\ MaxCalls \in Nat \ {0}
    /\ CompleteTimeout \in Nat /\ EmbedTimeout \in Nat
    /\ MaxIterations \in Nat /\ MaxWall \in Nat /\ MaxItems \in Nat
    /\ Items \subseteq {None} \cup Seq(Letters \cup {Blank})

VARIABLES
    stored,     \* the list in table current_state, << >> without a row
    after,      \* the last state_after of history, None without one
    prior,      \* the state the wake was given, its snapshot
    pc,
    attempt,    \* attempts made of the request being made
    rounds,     \* completions of this wake
    searches,   \* embedding requests this round has still to make
    elapsed     \* of the budget's clock

vars == <<stored, after, prior, pc, attempt, rounds, searches, elapsed>>

\* What update_state may get as an answer: None, without a JSON object in it;
\* or the list of an object, wherever in the text it is.
Answers == {None} \cup SeqOf(Items, MaxItems)

\* A request with all its retries: the timeouts, and the delays in between,
\* doubled from one tick, with up to a tick of jitter each.
AtMost(timeout) == Retries * timeout + (2 ^ (Retries - 1) - 1) + (Retries - 1)

\* The last look at the clock was inside the limit; then come one completion
\* and the memory calls it asks for, or one update.
Overrun == MaxWall + AtMost(CompleteTimeout) + MaxCalls * AtMost(EmbedTimeout)

Later(d) == IF elapsed + d > Overrun THEN Overrun + 1 ELSE elapsed + d

Init ==
    /\ stored = << >> /\ after = None /\ prior = << >>
    /\ pc = "idle"
    /\ attempt = 0 /\ rounds = 0 /\ searches = 0 /\ elapsed = 0

\* The wake has nothing more to ask for.
Ending(d) ==
    /\ elapsed' = Later(d) /\ pc' = "closing"
    /\ UNCHANGED <<prior, attempt, rounds, searches>>

\* It is closed, and its locals are gone.
Close ==
    /\ pc = "closing"
    /\ pc' = "idle" /\ prior' = << >>
    /\ attempt' = 0 /\ rounds' = 0 /\ searches' = 0 /\ elapsed' = 0
    /\ UNCHANGED <<stored, after>>

\* A wake begins: the state is loaded, and it may observe with a search.
Wake ==
    /\ pc = "idle"
    /\ prior' = FromDict(stored)
    /\ \/ searches' = 1 /\ pc' = "embedding"
       \/ searches' = 0 /\ pc' = "loop"
    /\ UNCHANGED <<stored, after, attempt, rounds, elapsed>>
----------------------------------------------------------------------------
\* Budget.exceeded, for the limits of this module.
Exceeded == rounds >= MaxIterations \/ elapsed >= MaxWall

\* The head of the loop: another completion, or out of budget.
Ask ==
    /\ pc = "loop"
    /\ pc' = IF Exceeded THEN "closing" ELSE "completing"
    /\ UNCHANGED <<stored, after, prior, attempt, rounds, searches, elapsed>>

Requesting == pc \in {"completing", "embedding", "updating"}

Timeout == IF pc = "embedding" THEN EmbedTimeout ELSE CompleteTimeout

\* Mutant: one attempt more.
AfterLast == attempt = Retries

LastAttempt == attempt = Retries - 1

\* _with_retries: a failure that may pass is waited out and tried again ...
TryAgain(d, jitter) ==
    /\ Requesting /\ ~LastAttempt
    /\ attempt' = attempt + 1
    /\ elapsed' = Later(d + 2 ^ attempt + jitter)
    /\ UNCHANGED <<stored, after, prior, pc, rounds, searches>>

\* ... but the last one surfaces: the wake is closed with the error.
GiveUp(d) ==
    /\ Requesting /\ LastAttempt
    /\ Ending(d)
    /\ UNCHANGED <<stored, after>>

\* Any other error surfaces at once; so does one of reading an answer in
\* which a list is no list but null, say.  (While observing, the wake stays
\* open: Orchestrator.tla.)
Surfaces(d) ==
    /\ Requesting
    /\ Ending(d)
    /\ UNCHANGED <<stored, after>>

\* Mutant: a completion is not charged.
CompletedFree(d) ==
    /\ pc = "completing"
    /\ elapsed' = Later(d) /\ attempt' = 0
    /\ searches' \in 0 .. MaxCalls
    /\ pc' = IF searches' = 0 THEN "settling" ELSE "embedding"
    /\ UNCHANGED <<stored, after, prior, rounds>>

\* The completion asks for memory calls, or for none.
Completed(d) ==
    /\ pc = "completing"
    /\ elapsed' = Later(d) /\ attempt' = 0 /\ rounds' = rounds + 1
    /\ searches' \in 0 .. MaxCalls
    /\ pc' = IF searches' = 0 THEN "settling" ELSE "embedding"
    /\ UNCHANGED <<stored, after, prior>>

\* One embedding request done: the next call, or what the round decided; the
\* search of an observing wake comes before its first round.
Embedded(d) ==
    /\ pc = "embedding"
    /\ elapsed' = Later(d) /\ attempt' = 0 /\ searches' = searches - 1
    /\ pc' = CASE searches' > 0 -> "embedding"
               [] rounds = 0    -> "loop"
               [] OTHER         -> "settling"
    /\ UNCHANGED <<stored, after, prior, rounds>>

\* The round decided nothing yet; or something that lets the state be updated
\* if the budget still allows it; or sleep.
Settle ==
    /\ pc = "settling"
    /\ pc' \in {"loop", "closing"} \cup IF Exceeded THEN {} ELSE {"updating"}
    /\ UNCHANGED <<stored, after, prior, attempt, rounds, searches, elapsed>>
----------------------------------------------------------------------------
\* Mutant: an answer that cannot be read leaves no state.
EmptyOnGarbage(answer) ==
    IF answer = None THEN << >> ELSE Clamp(FromDict(answer))

\* update_state: the prior state, or what the answer holds, clamped.
NewState(answer) ==
    IF answer = None THEN prior ELSE Clamp(FromDict(answer))

\* Mutant: the record gets the state as the model gave it.
RecordAsGiven(answer, d) ==
    /\ pc = "updating"
    /\ stored' = NewState(answer)
    /\ after' = IF answer = None THEN prior ELSE FromDict(answer)
    /\ Ending(d)

\* The answer comes: the new state is saved, and recorded as the wake closes.
UpdateState(answer, d) ==
    /\ pc = "updating"
    /\ stored' = NewState(answer) /\ after' = NewState(answer)
    /\ Ending(d)

\* rebuild: the last recorded state is read back and saved.
RestoreState ==
    /\ pc = "idle" /\ after # None
    /\ stored' = FromDict(after)
    /\ UNCHANGED <<after, prior, pc, attempt, rounds, searches, elapsed>>

\* What the process does by itself once a wake has begun.
Step ==
    \/ Ask \/ Settle \/ Close
    \/ \E d \in 0 .. Timeout :
          \/ Completed(d) \/ Embedded(d) \/ GiveUp(d) \/ Surfaces(d)
          \/ \E jitter \in 0 .. 1 : TryAgain(d, jitter)
          \/ \E answer \in Answers : UpdateState(answer, d)

Next == Wake \/ RestoreState \/ Step

Spec == Init /\ [][Next]_vars

\* A request returns or raises within its timeout, and the program gets on.
FairSpec == Spec /\ WF_vars(Step)
----------------------------------------------------------------------------
\* Every variable holds a value of its kind.
TypeOK ==
    /\ stored \in Seq(Seq(Letters \cup {Blank}))
    /\ after = None \/ after \in Seq(Seq(Letters \cup {Blank}))
    /\ prior \in Seq(Seq(Letters \cup {Blank}))
    /\ pc \in {"idle", "embedding", "loop", "completing", "settling",
              "updating", "closing"}
    /\ attempt \in 0 .. Retries - 1
    /\ rounds \in 0 .. MaxIterations
    /\ searches \in 0 .. MaxCalls
    /\ elapsed \in 0 .. Overrun + 1

\* Whatever the model answers, the state of every prompt is bounded, and has
\* no entry that is blank or has blanks around it.
PromptIsBounded == Bounded(prior)

\* A rebuild brings back the state the next wake would have been given, and
\* the state it is given is the last recorded one: reading back what was saved
\* and saving it again changes nothing, although cutting a text may leave it
\* with a blank at its end ("regenerable from history without a model call").
RestoresWhatWasShown ==
    FromDict(stored) = IF after = None THEN << >> ELSE FromDict(after)

\* The state is what the model makes of it and nothing else: entries it keeps
\* verbatim stay as they were, however often, what it leaves out is dropped
\* ("never append a correction next to it"), and an answer without JSON leaves
\* it alone ("falls back to the prior state on garbage output").
StateIsTheAnswer ==
    [][\A d \in 0 .. CompleteTimeout :
          /\ UpdateState(None, d) \/ UpdateState(prior, d)
                => FromDict(stored') = FromDict(stored)
          /\ UpdateState(<< >>, d) => stored' = << >>]_vars

\* The wall clock is only looked at between two requests, and each may fail
\* and be retried: a wake may run over its limit, but never by more than one
\* completion with the calls it asks for, or one update.
OverrunIsBounded == elapsed <= Overrun

\* A wake ends whatever the services do: retries are finite.
WakeEnds == pc # "idle" ~> pc = "idle"
=============================================================================
