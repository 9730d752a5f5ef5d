----------------------------- MODULE FactCheck ------------------------------
(* One fact check (verify_claim in news/factcheck/service.py): the providers *)
(* of the configured list are asked one by one in a pipeline worker, all at  *)
(* once elsewhere, and the results are aggregated in the order they came.    *)
EXTENDS Credibility

CONSTANTS Sources,    \* the lists of providers a deployment may configure
          Shapes      \* the numbers the model may return for the three labels

ASSUME FactCheckAssumption == Sources \subseteq Seq(Providers) /\ Shapes \subseteq Weights

VARIABLES sources,   \* FACT_CHECKER_PROVIDERS; empty when the fact checker is off
          parallel,  \* outside a pipeline worker, with FACT_CHECKER_PARALLEL
          model,     \* what the model said
          asked,     \* the providers that answered
          heard      \* their results, in the order they came

checkVars == <<sources, parallel, model, asked, heard>>

CheckInit ==
  /\ sources \in Sources
  /\ parallel \in BOOLEAN
  /\ model \in FakeDetection(Shapes)
  /\ asked = {}
  /\ heard = <<>>

Answer(p, answer) ==
  /\ p \in ToSet(sources) \ asked
  /\ ~parallel => p = sources[Len(heard) + 1]
  /\ asked' = asked \cup {p}
  /\ heard' = Append(heard, Verify(p, answer, model.label))
  /\ UNCHANGED <<sources, parallel, model>>

CheckNext == \E p \in ToSet(sources) : \E answer \in Answers(p) : Answer(p, answer)

CheckSpec == CheckInit /\ [][CheckNext]_checkVars

Outcome(found) == Combine(model, Aggregate(found, model.label))
Complete == asked = ToSet(sources)

----------------------------------------------------------------------------
(* Every variable keeps its type.                                            *)
CheckTypeOK ==
  /\ sources \in Sources /\ parallel \in BOOLEAN /\ asked \subseteq ToSet(sources)
  /\ model.label \in Labels /\ model.probs \in Weights /\ model.max \in Nat
  /\ Len(heard) = Cardinality(asked)
  /\ \A i \in DOMAIN heard : heard[i].label \in Labels \cup {NoLabel}

(* With the providers that only look articles up, the order in which their   *)
(* answers arrive (as_completed) does not decide whether an article is Real, *)
(* and so shown, whatever it does to the choice between Fake and Suspicious. *)
OrderFree ==
  Complete /\ asked \subseteq Knowledge =>
    \A f \in Bijection(DOMAIN heard, DOMAIN heard) :
      (Outcome([i \in DOMAIN heard |-> heard[f[i]]]).label = Real)
        <=> (Outcome(heard).label = Real)

(* Looking articles up never turns the model's verdict into another one: it  *)
(* confirms it or ends in Suspicious.  Only Google's ratings overturn one.   *)
LookupsConfirm ==
  Complete /\ asked \subseteq Knowledge => Outcome(heard).label \in {model.label, Suspicious}

(* Looking articles up decides nothing by chance and overturns nothing.      *)
FactSound == OrderFree /\ LookupsConfirm
=============================================================================
