---------------------------- MODULE Credibility -----------------------------
(* How an article gets its credibility label (news/credibility/inference.py  *)
(* and combine.py, news/factcheck/service.py): the fake-detection model, the *)
(* fact-check providers, the aggregation of their answers and the            *)
(* combination of the two.  Probabilities are whole parts of Unit, three of  *)
(* them; texts, hit lists and links are left out.                            *)
EXTENDS Integers, Sequences, SequencesExt, FiniteSetsExt

CONSTANTS Unit,             \* probability one
          Threshold,        \* CREDIBILITY_CONFIDENCE_THRESHOLD, in parts of Unit
          LocalThreshold    \* the local model's own, from its metadata.json

ASSUME CredibilityAssumption ==
  Unit \in Nat \ {0} /\ Threshold \in 1..Unit /\ LocalThreshold \in 1..Unit

Real == 0
Fake == 1
Suspicious == 2
Labels == {Real, Fake, Suspicious}
NoLabel == 3                       \* fact_check_suggested_label is None

Knowledge == {"wikipedia", "wikidata", "openalex"}
Providers == Knowledge \cup {"google"}

\* What a provider answers: pages found or not, the worst rating of Google's claims.
Answers(p) == IF p \in Knowledge THEN {"hits", "none", "error"}
              ELSE {"none", "error", "nokey", "unrated", "rated0", "rated1", "rated2"}

----------------------------------------------------------------------------
(* The model.                                                                *)

\* The three numbers of an answer: the Space's are taken as they come, and
\* combine_credibility takes what is within 0.02 of one for a whole.
Weights == [Labels -> Nat]
Mass(p) == p[Real] + p[Fake] + p[Suspicious]
Whole(p) == 50 * (Mass(p) - Unit) \in (-Unit)..Unit

Peak(p) == Max({p[l] : l \in Labels})
ArgMax(p) == Min({l \in Labels : p[l] = Peak(p)})

\* parse_classification_response: the Space names its verdict itself, whatever
\* numbers come with it; without a name the likeliest class is taken.  Only the
\* tuple of verdict and percentages is brought to a sum of one; the "probs" of a
\* JSON answer and of a pair (label, [probs]) are passed on as they are.
Parsed(p) == {[label |-> l, probs |-> p] : l \in Labels}
SpaceOutput(p) == {[label |-> r.label, probs |-> r.probs, max |-> r.probs[r.label]] : r \in Parsed(p)}

\* The local model falls back to Suspicious below its threshold; the stub does not.
LocalOutput(p) == [label |-> IF Peak(p) >= LocalThreshold THEN ArgMax(p) ELSE Suspicious,
                   probs |-> p, max |-> Peak(p)]
StubOutput(p)  == [label |-> ArgMax(p), probs |-> p, max |-> Peak(p)]

EmptyText == [label |-> Suspicious, max |-> Unit,
              probs |-> [l \in Labels |-> IF l = Suspicious THEN Unit ELSE 0]]

\* The Space, then the local model (a softmax), then the stub, whichever answers first.
FakeDetection(P) ==
  LET Proper == {p \in P : Mass(p) = Unit}
  IN  (UNION {SpaceOutput(p) : p \in P})
        \cup {LocalOutput(p) : p \in Proper} \cup {StubOutput(p) : p \in Proper} \cup {EmptyText}

----------------------------------------------------------------------------
(* The fact check.                                                           *)

Result(label, verdict) == [label |-> label, verdict |-> verdict]

Settled == {"no_hits", "api_error", "empty_query", "no_api_key", "disabled", "skipped"}

\* _finalize_verdict: the suggested label compared with the model's.
Finalize(r, ml) ==
  IF r.verdict \in Settled \/ r.label = NoLabel THEN r
  ELSE Result(r.label, CASE r.label = Fake /\ ml \in {Real, Suspicious} -> "contradicts_ml"
                         [] r.label = Real /\ ml = Fake -> "contradicts_ml"
                         [] r.label = ml -> "supports_ml"
                         [] OTHER -> "mixed")

\* Mutant of KnowledgeCheck: finding nothing counts against the article.
KnowledgeCheckMiss(answer, ml) ==
  Finalize(CASE answer = "error" -> Result(NoLabel, "api_error")
             [] answer = "hits" -> Result(Real, "supports_ml")
             [] answer = "none" -> Result(Suspicious, "mixed"), ml)

\* _knowledge_hit_label: finding pages speaks for an article, not against it.
KnowledgeHit(answer, ml) ==
  CASE answer = "hits" -> IF ml = Fake THEN Result(Suspicious, "mixed")
                                       ELSE Result(Real, "supports_ml")
    [] answer = "none" -> IF ml = Fake THEN Result(Fake, "supports_ml")
                                       ELSE Result(NoLabel, "no_hits")

\* _verify_wikipedia, and in the same words _verify_wikidata and _verify_openalex.
KnowledgeCheck(answer, ml) ==
  Finalize(IF answer = "error" THEN Result(NoLabel, "api_error")
                               ELSE KnowledgeHit(answer, ml), ml)

\* _verify_google never leaves "skipped" once there are claims, rated or not.
GoogleCheck(answer) ==
  CASE answer = "error"  -> Result(NoLabel, "api_error")
    [] answer = "nokey"  -> Result(NoLabel, "no_api_key")
    [] answer = "none"   -> Result(NoLabel, "no_hits")
    [] answer = "unrated" -> Result(NoLabel, "skipped")
    [] answer = "rated0" -> Result(Real, "skipped")
    [] answer = "rated1" -> Result(Fake, "skipped")
    [] answer = "rated2" -> Result(Suspicious, "skipped")

Verify(provider, answer, ml) ==
  IF provider \in Knowledge THEN KnowledgeCheck(answer, ml) ELSE GoogleCheck(answer)

\* The results that suggest a label, and those that carry a verdict.
Suggesting(results, l) == {i \in DOMAIN results : results[i].label = l}
Saying(results, v) == {i \in DOMAIN results : results[i].verdict = v}

\* The most frequent labels: None is not counted.
Frequent(results) ==
  LET Count(l) == Cardinality(Suggesting(results, l))
  IN  {l \in Labels : Count(l) > 0 /\ \A k \in Labels : Count(k) <= Count(l)}

\* Counter(labels).most_common(1): of equally frequent ones the first seen.
MostCommon(results) ==
  IF Frequent(results) = {} THEN NoLabel
  ELSE results[Min({i \in DOMAIN results : results[i].label \in Frequent(results)})].label

\* The verdict by counts of the providers' own verdicts.
CountedVerdict(results) ==
  LET Count(v) == Cardinality(Saying(results, v))
  IN  IF Count("contradicts_ml") > Count("supports_ml") THEN "contradicts_ml"
      ELSE IF Count("supports_ml") > Count("contradicts_ml") THEN "supports_ml"
      ELSE IF Count("mixed") > 0 THEN "mixed"
      ELSE IF Count("api_error") = Len(results) THEN "api_error" ELSE "inconclusive"

\* _aggregate_results: the results in the order they came in.
Aggregate(results, ml) ==
  IF results = <<>> THEN Result(NoLabel, "disabled")
  ELSE Finalize(Result(MostCommon(results), CountedVerdict(results)), ml)

----------------------------------------------------------------------------
(* The combination.                                                          *)

\* What a of b is in parts of one.
Part(a, b) == (a * Unit) \div b

\* combine.py:69-71, only after the threshold was tested.
Rescaled(p) ==
  IF Mass(p) = 0 \/ Whole(p) THEN p ELSE [l \in Labels |-> Part(p[l], Mass(p))]

\* A Suspicious class without probability is given what is missing, a quarter at least.
Doubted(p) ==
  LET decided == p[Real] + p[Fake]
      given   == Max({Unit \div 4, Unit - decided})
  IN  Part(given, decided + given)

\* What is stored of a label: fields of the document, and two of what the model said.
Judged(ml, label, verdict) ==
  [label |-> label, verdict |-> verdict,
   max |-> IF label = Suspicious /\ ml.probs[label] = 0 THEN Doubted(Rescaled(ml.probs))
           ELSE Rescaled(ml.probs)[label],
   real |-> ml.probs[Real], whole |-> Whole(ml.probs)]

\* Mutant of Combine: a fact check that agrees is believed whatever the probability.
CombineTrusting(ml, fc) ==
  LET follows == fc.verdict \in {"contradicts_ml", "supports_ml"} /\ fc.label # NoLabel
      label   == IF follows THEN fc.label
                 ELSE IF fc.verdict = "mixed" \/ ml.max < Threshold THEN Suspicious ELSE ml.label
  IN  Judged(ml, label, fc.verdict)

\* combine_credibility: the threshold is tested against the numbers as they came.
Combine(ml, fc) ==
  LET follows == fc.verdict \in {"contradicts_ml", "supports_ml"} /\ fc.label # NoLabel
      peak    == IF follows THEN ml.probs[fc.label]
                 ELSE IF ml.max > 0 THEN ml.max ELSE Peak(ml.probs)
      doubt   == \/ fc.verdict = "mixed"
                 \/ fc.verdict = "no_hits" /\ ml.max < Threshold
                 \/ peak < Threshold
      label   == IF doubt THEN Suspicious ELSE IF follows THEN fc.label ELSE ml.label
  IN  Judged(ml, label, fc.verdict)
=============================================================================
