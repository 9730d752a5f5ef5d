----------------------------- MODULE Moderation -----------------------------
(* Which processed articles readers see and which wait for an admin          *)
(* (news/moderation_rules.py): the rules against everything that writes the  *)
(* fields they read - the pipeline, the admin's decisions, and the commands  *)
(* reprocess_credibility and backfill_processed_moderation_and_images.  What *)
(* a pass says of an article is computed by Credibility's operators.         *)
EXTENDS Credibility

CONSTANTS Docs,       \* processed articles
          Checks,     \* the sequences of providers that may answer, in their order
          Numbers     \* the numbers the model may return for the three labels

ASSUME ModerationAssumption == Numbers \subseteq Weights

VARIABLES doc,       \* the fields of each article
          backfill,  \* what the backfill command's cursor returned
          author     \* who wrote each article's fields last (history)

modVars == <<doc, backfill, author>>

\* verify_claim and combine_credibility after one output of the model.
OutcomesOf(ml, c) ==
  {Combine(ml, Aggregate([i \in DOMAIN c |-> Verify(c[i], a[i], ml.label)], ml.label)) :
     a \in {f \in [DOMAIN c -> UNION {Answers(p) : p \in ToSet(c)}] :
              \A i \in DOMAIN c : f[i] \in Answers(c[i])}}

\* predict_credibility: every answer of the model and of the providers.
Outcomes == UNION {OutcomesOf(ml, c) : ml \in FakeDetection(Numbers), c \in Checks}

NoDoc == [here |-> FALSE, label |-> Suspicious, verdict |-> "disabled", max |-> 0,
          real |-> 0, whole |-> TRUE, status |-> "absent"]
\* What the rules read of an article.
Rated(d) == [label |-> d.label, verdict |-> d.verdict, status |-> d.status]
NoRead == [of |-> {}, seen |-> Rated(NoDoc)]

----------------------------------------------------------------------------
(* The rules, as predicates of the code and as clauses of the database.      *)

FactCheckRan(d) == d.verdict \notin Settled
Doubtful(d) == d.label \in {Fake, Suspicious}

\* Mutants of InitialStatus: another word for review; only Fake goes to review.
InitialPending(d) == IF Doubtful(d) /\ FactCheckRan(d) THEN "pending" ELSE "approved"

InitialFakeOnly(d) ==
  IF d.label = Fake /\ FactCheckRan(d) THEN "review" ELSE "approved"
InitialStatus(d) == IF Doubtful(d) /\ FactCheckRan(d) THEN "review" ELSE "approved"

Visible(d) == d.status \notin {"rejected", "review"} /\ d.label = Real

\* needs_review_query: what the admin's review list and its count find.
Listed(d) == d.status \in {"review", "absent"} /\ Doubtful(d) /\ FactCheckRan(d)

----------------------------------------------------------------------------
\* The document of an outcome with a status: its credibility_label, its verdict,
\* its credibility_max_prob, and of its fake_detection_probs the first and whether
\* they sum to one.
StoredDoc(o, s) ==
  [here |-> TRUE, label |-> o.label, verdict |-> o.verdict, max |-> o.max,
   real |-> o.real, whole |-> o.whole, status |-> s]

\* Documents of before the rules: no status.
LegacyOutcome(l, v) ==
  [label |-> l, verdict |-> v, max |-> Threshold, whole |-> TRUE,
   real |-> IF l = Real THEN Threshold ELSE 0]
Legacy == {StoredDoc(LegacyOutcome(l, v), "absent") : l \in Labels, v \in {"disabled", "supports_ml"}}

ModInit ==
  /\ doc \in [Docs -> {NoDoc} \cup Legacy]
  /\ backfill = NoRead
  /\ author = [d \in Docs |-> "rule"]

\* A pipeline pass: replace_one with upsert, the fresh fields and the rule's status.
Publish(d) ==
  /\ \E o \in Outcomes : doc' = [doc EXCEPT ![d] = StoredDoc(o, InitialStatus(o))]
  /\ author' = [author EXCEPT ![d] = "rule"]
  /\ UNCHANGED backfill

\* reprocess_credibility: update_one of the credibility fields; the status stays.
Rescore(d) ==
  /\ doc[d].here
  /\ \E o \in Outcomes : doc' = [doc EXCEPT ![d] = StoredDoc(o, @.status)]
  /\ author' = [author EXCEPT ![d] = "reprocess"]
  /\ UNCHANGED backfill

\* The admin's PATCH: any decision on any article.
Decide(d, s) ==
  /\ doc[d].here
  /\ doc' = [doc EXCEPT ![d].status = s]
  /\ author' = [author EXCEPT ![d] = "admin"]
  /\ UNCHANGED backfill

RemoveArticle(d) ==
  /\ doc[d].here
  /\ doc' = [doc EXCEPT ![d] = NoDoc]
  /\ UNCHANGED <<backfill, author>>

\* The backfill command: the cursor hands out documents it read a while ago ...
BackfillRead(d) ==
  /\ doc[d].here
  /\ backfill' = [of |-> {d}, seen |-> Rated(doc[d])]
  /\ UNCHANGED <<doc, author>>

\* ... and each one whose status is not the rule's is updated by its _id.
BackfillWrite(d) ==
  /\ d \in backfill.of
  /\ IF doc[d].here /\ backfill.seen.status # InitialStatus(backfill.seen)
     THEN /\ doc' = [doc EXCEPT ![d].status = InitialStatus(backfill.seen)]
          /\ author' = [author EXCEPT ![d] = IF backfill.seen = Rated(doc[d]) THEN "rule" ELSE "late"]
     ELSE UNCHANGED <<doc, author>>
  /\ backfill' = NoRead

ModNext ==
  \E d \in Docs : \/ Publish(d) \/ Rescore(d) \/ RemoveArticle(d)
                  \/ BackfillRead(d) \/ BackfillWrite(d)
                  \/ \E s \in {"review", "approved", "rejected"} : Decide(d, s)

ModSpec == ModInit /\ [][ModNext]_modVars

----------------------------------------------------------------------------
(* Every variable keeps its type.                                            *)
ModTypeOK ==
  /\ \A d \in Docs : /\ doc[d].here \in BOOLEAN /\ doc[d].label \in Labels
                     /\ doc[d].max \in Nat /\ 50 * doc[d].max <= 51 * Unit
                     /\ doc[d].real \in Nat /\ doc[d].whole \in BOOLEAN
                     /\ doc[d].verdict \in Settled \cup {"supports_ml", "contradicts_ml",
                                                         "mixed", "inconclusive"}
                     /\ doc[d].status \in {"absent", "review", "approved", "rejected"}
  /\ author \in [Docs -> {"rule", "admin", "reprocess", "late"}]

(* Whatever the providers answered and whoever decided or rescored, what     *)
(* readers see as real news was given at least the threshold for being real  *)
(* by the model: neither a fact check nor an admin's approval shows an       *)
(* article the model doubts.  And the document says so: its                  *)
(* credibility_max_prob is not below the threshold.  Two answers of the      *)
(* Space escape.  The verdict Real with a probability of 0 passes, for       *)
(* combine_credibility takes the peak of the other classes (combine.py:37).  *)
(* Probabilities that do not sum to one (client.py:186-188, 203-205) are     *)
(* tested as they came (:58) and rescaled afterwards (:69-71), so that what  *)
(* is stored may be below the threshold: the second part excepts them.       *)
RealBacked ==
  \A d \in Docs : doc[d].here /\ Visible(doc[d]) /\ doc[d].real # 0 =>
    /\ doc[d].real >= Threshold
    /\ doc[d].whole => doc[d].max >= Threshold

(* No article is lost between readers and admins: what is not shown was      *)
(* decided by an admin, waits on the admin's list ("Processed                *)
(* Fake/Suspicious articles with fact-check, awaiting admin decision"), or   *)
(* is a doubtful one that no fact check reached.  Two writers are excepted:  *)
(* reprocess_credibility, which leaves the status of the old label, and a    *)
(* backfill that writes by what it read before somebody else wrote.          *)
NoLimbo ==
  \A d \in Docs :
    doc[d].here /\ ~Visible(doc[d]) /\ author[d] = "rule"
      => Listed(doc[d]) \/ (Doubtful(doc[d]) /\ ~FactCheckRan(doc[d]))
=============================================================================
