----------------------------- MODULE MCHarness -----------------------------
(***************************************************************************)
(* Instances for TLC.  Texts "a" and "b" have raw forms of the same name,  *)
(* and " " is blank.                                                       *)
(***************************************************************************)
EXTENDS Evals, TLC

MCCanon(raws) == [r \in raws |-> IF r = " " THEN None ELSE r]

CanonAB == MCCanon({"a", "b"})
CanonABlank == MCCanon({"a", "b", " "})
CanonA == MCCanon({"a"})

\* Every text near every other, or near itself alone.
AllNear == Texts \X Texts
SelfNear == {<<t, t>> : t \in Texts}

Waking(kind, cue) == [kind |-> kind, cue |-> cue]
ChatAndReflect == {Waking("interaction", TRUE), Waking("reflection", FALSE)}
Chat == {Waking("interaction", TRUE)}
Due == {Waking("autonomous", TRUE)}
Schedule == {Waking("autonomous", FALSE)}

Finishing(decision, successor) ==
    [decision |-> decision, successor |-> successor]
ActOrSleep == {Finishing("act", FALSE), Finishing("sleep", FALSE)}
ActOrSleepAgain == {Finishing("act", TRUE), Finishing("garbled", TRUE)}
Act == {Finishing("act", FALSE)}

ProcSymmetry == Permutations(Procs)
=============================================================================
