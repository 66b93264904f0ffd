----------------------------- MODULE RunnerWalk ----------------------------
(***************************************************************************)
(* opm-runner's walk over the model endpoints of a job: the candidates the *)
(* control plane passed in its environment are tried in order until one    *)
(* answers or one fails in a way that the next would repeat.               *)
(***************************************************************************)
EXTENDS Sequences, Integers

CONSTANT Candidates   \* the numbered candidates of the environment file

Kinds == {"known", "unknown", "provider", "none"}

ASSUME CandidatesAssumption ==
  Candidates \in Seq([kind : Kinds, key : BOOLEAN])

\* loadCandidates: one without a credential is dropped.
Loaded == SelectSeq(Candidates, LAMBDA c : c.key)

\* candidateRunnable: a kind of this build, or none but a provider's name.
Runnable(c) == c.kind \in {"known", "provider"}

\* How an attempt ends; every failure but a cancelled context or an invalid
\* prompt is retryable.
Outcomes == {"ok", "retryable", "final", "unsupported"}

Attempts(c) == IF Runnable(c) THEN Outcomes \ {"unsupported"} ELSE {"unsupported"}

Ended(tried) == \E i \in DOMAIN tried : tried[i] \in {"ok", "final"}

WalkOver(tried) == Len(tried) = Len(Loaded) \/ Ended(tried)

\* The walk hands its caller an answer, or none and the reasons.
Answered(tried) == \E i \in DOMAIN tried : tried[i] = "ok"

=============================================================================
