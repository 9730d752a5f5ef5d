-------------------------- MODULE ArticleLifecycle --------------------------
(* What the AI pipeline promises about one raw article, whoever runs it and  *)
(* however often: an article that arrived is queued until it is settled, it  *)
(* is settled as done only once its processed_articles document has been     *)
(* stored, and it leaves the collection only when it is deleted.  Nothing is *)
(* said about workers, drains, leases or repair jobs.                        *)
CONSTANT Articles

VARIABLES stage,    \* where each article is
          stored    \* the articles whose processed document was ever stored

vars == <<stage, stored>>

Stages == {"absent", "queued", "done", "failed", "deleted"}
Present == {a \in Articles : stage[a] \in {"queued", "done", "failed"}}

Move(S, s) == stage' = [a \in Articles |-> IF a \in S THEN s ELSE stage[a]]

Init == /\ stage \in [Articles -> {"absent", "queued", "failed"}]
        /\ stored = {}

Arrive(a) == stage[a] = "absent" /\ Move({a}, "queued") /\ UNCHANGED stored

Store(a) == stage[a] # "absent" /\ stored' = stored \cup {a} /\ UNCHANGED stage

\* A repair job may finish or requeue several articles in one update.
Finish(S) == S \subseteq (Present \cap stored) /\ Move(S, "done") /\ UNCHANGED stored

Fail(a) == a \in Present /\ Move({a}, "failed") /\ UNCHANGED stored

Requeue(S) == S \subseteq Present /\ Move(S, "queued") /\ UNCHANGED stored

Delete(S) == S \subseteq Present /\ Move(S, "deleted") /\ UNCHANGED stored

Next == \/ \E a \in Articles : Arrive(a) \/ Store(a) \/ Fail(a)
        \/ \E S \in SUBSET Articles : Finish(S) \/ Requeue(S) \/ Delete(S)

Leave(a) == stage[a] = "queued" /\ Next /\ stage'[a] # "queued"

Safe == Init /\ [][Next]_vars
Spec == Safe /\ \A a \in Articles : WF_vars(Leave(a))
=============================================================================
