--------------------------- MODULE Readers_proofs ---------------------------
(* Proofs about what readers are shown: news shown as real is backed by the  *)
(* model and no article is lost between readers and admins (Moderation),     *)
(* looking articles up decides nothing by chance (FactCheck), pages neither  *)
(* repeat an article nor leave one out and the cache serves no page of before*)
(* an invalidation (ArticleFeed) - for all articles, outputs, providers,     *)
(* answers, thresholds, readers and page sizes.                              *)
EXTENDS Moderation, FactCheck, ArticleFeed, Arrangement_proofs

----------------------------------------------------------------------------
(* Moderation.                                                               *)

\* What the proof needs to know of an output of the model: its probability is that
\* of its label, unless the label is Suspicious.
Honest(o) ==
  /\ o.max \in Nat /\ o.probs \in Weights
  /\ o.label \in Labels
  /\ o.label # Suspicious => o.max = o.probs[o.label]

----------------------------------------------------------------------------
(* Max and Min of a set of three naturals are its bounds.                    *)
LEMMA MaxOfThree ==
  ASSUME NEW a \in Nat, NEW b \in Nat, NEW c \in Nat
  PROVE  /\ Max({a, b, c}) \in {a, b, c}
         /\ \A x \in {a, b, c} : Max({a, b, c}) >= x
<1>1. \E x \in {a, b, c} : \A y \in {a, b, c} : x >= y
  <2>1. CASE a >= b /\ a >= c
    BY <2>1
  <2>2. CASE b >= a /\ b >= c
    BY <2>2
  <2>3. CASE c >= a /\ c >= b
    BY <2>3
  <2> QED
    BY <2>1, <2>2, <2>3
<1> QED
  BY <1>1 DEF Max

(* The likeliest class of three numbers is a class with their peak.          *)
LEMMA ArgMaxPeaks ==
  ASSUME NEW p \in Weights
  PROVE  /\ Peak(p) \in Nat /\ ArgMax(p) \in Labels /\ p[ArgMax(p)] = Peak(p)
<1> DEFINE Top == {l \in Labels : p[l] = Peak(p)}
<1>1. {p[l] : l \in Labels} = {p[Real], p[Fake], p[Suspicious]}
  BY DEF Labels
<1>2. p[Real] \in Nat /\ p[Fake] \in Nat /\ p[Suspicious] \in Nat
  BY DEF Weights, Labels
<1>3. Peak(p) \in {p[Real], p[Fake], p[Suspicious]}
  BY <1>1, <1>2, MaxOfThree DEF Peak
<1>4. Top # {} /\ Top \subseteq {0, 1, 2}
  BY <1>3 DEF Labels, Real, Fake, Suspicious
<1>5. \E x \in Top : \A y \in Top : x <= y
  <2>1. CASE 0 \in Top
    BY <2>1, <1>4
  <2>2. CASE 0 \notin Top /\ 1 \in Top
    BY <2>2, <1>4
  <2>3. CASE 0 \notin Top /\ 1 \notin Top
    BY <2>3, <1>4
  <2> QED
    BY <2>1, <2>2, <2>3
<1>6. ArgMax(p) = Min(Top)
  BY DEF ArgMax
<1>7. Min(Top) \in Top
  <2> HIDE DEF Top
  <2> QED
    BY <1>5 DEF Min
<1> QED
  BY <1>2, <1>3, <1>6, <1>7

(* Every answer of the Space, the local model and the stub is honest.        *)
LEMMA DetectionHonest ==
  ASSUME NEW P \in SUBSET Weights, NEW o \in FakeDetection(P)
  PROVE  Honest(o)
<1>1. ASSUME NEW p \in Weights, o \in SpaceOutput(p) PROVE Honest(o)
  <2>1. PICK l \in Labels : o = [label |-> l, probs |-> p, max |-> p[l]]
    BY <1>1 DEF SpaceOutput, Parsed
  <2> QED
    BY <2>1 DEF Honest, Weights
<1>2. ASSUME NEW p \in Weights, o = LocalOutput(p) PROVE Honest(o)
  BY <1>2, ArgMaxPeaks DEF LocalOutput, Honest, Labels, Suspicious
<1>3. ASSUME NEW p \in Weights, o = StubOutput(p) PROVE Honest(o)
  BY <1>3, ArgMaxPeaks DEF StubOutput, Honest
<1>4. CASE o = EmptyText
  BY <1>4, CredibilityAssumption DEF EmptyText, Honest, Weights, Labels, Suspicious
<1> QED
  BY <1>1, <1>2, <1>3, <1>4 DEF FakeDetection

(* The combination of an honest output with any fact check is Real only if   *)
(* the model gave Real the threshold, or nothing at all; and what is stored  *)
(* is what it gave if its numbers sum to one.                                *)
LEMMA CombineBacked ==
  ASSUME NEW ml, Honest(ml), NEW fc, Combine(ml, fc).label = Real
  PROVE  /\ Combine(ml, fc).real = ml.probs[Real]
         /\ ml.probs[Real] >= Threshold \/ ml.probs[Real] = 0
         /\ Combine(ml, fc).whole => Combine(ml, fc).max = ml.probs[Real]
<1> DEFINE follows == fc.verdict \in {"contradicts_ml", "supports_ml"} /\ fc.label # NoLabel
           peak  == IF follows THEN ml.probs[fc.label]
                    ELSE IF ml.max > 0 THEN ml.max ELSE Peak(ml.probs)
           doubt == \/ fc.verdict = "mixed"
                    \/ fc.verdict = "no_hits" /\ ml.max < Threshold
                    \/ peak < Threshold
           label == IF doubt THEN Suspicious ELSE IF follows THEN fc.label ELSE ml.label
<1>0. Combine(ml, fc) = Judged(ml, label, fc.verdict)
  BY DEF Combine
<1> HIDE DEF label
<1>1. /\ label = Real /\ Combine(ml, fc).real = ml.probs[Real]
      /\ Combine(ml, fc).whole => Combine(ml, fc).max = ml.probs[Real]
  BY <1>0 DEF Judged, Rescaled, Real, Suspicious
<1> USE DEF label
<1>2. ~doubt
  BY <1>1 DEF Real, Suspicious
<1>3. Real \in Labels /\ ml.probs[Real] \in Nat /\ ml.max \in Nat /\ Threshold \in Nat
  BY CredibilityAssumption DEF Honest, Weights, Labels
<1>4. CASE follows
  <2>1. fc.label = Real /\ peak = ml.probs[Real]
    BY <1>1, <1>2, <1>4
  <2> QED
    BY <2>1, <1>1, <1>2, <1>3
<1>5. CASE ~follows
  <2>1. ml.label = Real
    BY <1>1, <1>2, <1>5
  <2>2. ml.max = ml.probs[Real]
    BY <2>1 DEF Honest, Real, Suspicious
  <2>3. CASE ml.max > 0
    <3>1. peak = ml.max
      BY <1>5, <2>3
    <3> QED
      BY <3>1, <1>1, <1>2, <1>3, <2>2
  <2>4. CASE ~(ml.max > 0)
    BY <2>4, <2>2, <1>1, <1>3
  <2> QED
    BY <2>3, <2>4
<1> QED
  BY <1>4, <1>5

\* The outcome of a pass over an article, whatever was answered.
Sound(r) ==
  r.label = Real /\ r.real # 0 => r.real >= Threshold /\ (r.whole => r.max >= Threshold)

\* Every outcome of a pass is sound, whatever the model and the providers answered.
LEMMA OutcomesSound == \A o \in Outcomes : Sound(o)
<1> SUFFICES ASSUME NEW o \in Outcomes PROVE Sound(o)
  OBVIOUS
<1>1. PICK ml \in FakeDetection(Numbers), c \in Checks : o \in OutcomesOf(ml, c)
  BY DEF Outcomes
<1>2. PICK fc : o = Combine(ml, fc)
  BY <1>1 DEF OutcomesOf
<1>3. Honest(ml)
  BY DetectionHonest, ModerationAssumption
<1> QED
  BY <1>2, <1>3, CombineBacked DEF Sound

----------------------------------------------------------------------------
(* Every article that is there carries what a pass made of it.               *)
Form(r) == r = [here |-> r.here, label |-> r.label, verdict |-> r.verdict, max |-> r.max,
                real |-> r.real, whole |-> r.whole, status |-> r.status]

ModInv ==
  /\ doc = [d \in Docs |-> doc[d]]
  /\ \A d \in Docs : Form(doc[d]) /\ (doc[d].here => Sound(doc[d]))

\* The documents a deployment starts with are in form and sound.
LEMMA ModInitInv == ModInit => ModInv
<1> SUFFICES ASSUME ModInit PROVE ModInv
  OBVIOUS
<1>1. \A d \in Docs : doc[d] = NoDoc \/ doc[d] \in Legacy
  BY DEF ModInit
<1>2. \A r \in Legacy : Form(r) /\ Sound(r)
  BY CredibilityAssumption DEF Legacy, LegacyOutcome, StoredDoc, Form, Sound
<1>3. Form(NoDoc) /\ ~NoDoc.here
  BY DEF NoDoc, Form
<1>4. doc = [d \in Docs |-> doc[d]]
  BY DEF ModInit
<1> QED
  BY <1>1, <1>2, <1>3, <1>4 DEF ModInv

\* One article changes to a record in form that is sound if it is there.
LEMMA DocChange ==
  ASSUME ModInv, NEW d \in Docs, NEW r, doc' = [doc EXCEPT ![d] = r],
         Form(r), r.here => Sound(r)
  PROVE  ModInv'
<1>1. doc' = [e \in Docs |-> IF e = d THEN r ELSE doc[e]]
  BY DEF ModInv
<1>2. \A e \in Docs : doc'[e] = IF e = d THEN r ELSE doc[e]
  BY <1>1
<1>3. doc' = [e \in Docs |-> doc'[e]]
  BY <1>1
<1>4. ASSUME NEW e \in Docs PROVE Form(doc'[e]) /\ (doc'[e].here => Sound(doc'[e]))
  BY <1>2 DEF ModInv
<1> QED
  BY <1>3, <1>4 DEF ModInv

\* So is the document a pass stores, whatever its status.
LEMMA StoredSound ==
  ASSUME NEW o \in Outcomes, NEW s
  PROVE  Form(StoredDoc(o, s)) /\ Sound(StoredDoc(o, s))
<1>1. /\ StoredDoc(o, s).label = o.label /\ StoredDoc(o, s).max = o.max
      /\ StoredDoc(o, s).real = o.real /\ StoredDoc(o, s).whole = o.whole
  BY DEF StoredDoc
<1>2. Form(StoredDoc(o, s))
  BY DEF StoredDoc, Form
<1> QED
  BY <1>1, <1>2, OutcomesSound DEF Sound

\* Every writer of an article keeps it so.
LEMMA ModNextInv == ModInv /\ [ModNext]_modVars => ModInv'
<1> SUFFICES ASSUME ModInv, [ModNext]_modVars PROVE ModInv'
  OBVIOUS
<1>1. ASSUME NEW d \in Docs, Publish(d) PROVE ModInv'
  <2>1. PICK o \in Outcomes : doc' = [doc EXCEPT ![d] = StoredDoc(o, InitialStatus(o))]
    BY <1>1 DEF Publish
  <2> QED
    BY <2>1, StoredSound, DocChange
<1>2. ASSUME NEW d \in Docs, Rescore(d) PROVE ModInv'
  <2>1. PICK o \in Outcomes : doc' = [doc EXCEPT ![d] = StoredDoc(o, doc[d].status)]
    BY <1>2 DEF Rescore
  <2> QED
    BY <2>1, StoredSound, DocChange
<1>3. ASSUME NEW d \in Docs, NEW s, doc' = [doc EXCEPT ![d].status = s] PROVE ModInv'
  <2> DEFINE r == [doc[d] EXCEPT !.status = s]
  <2>1. doc' = [doc EXCEPT ![d] = r]
    BY <1>3
  <2>2. Form(r) /\ (r.here => Sound(r))
    BY DEF ModInv, Form, Sound
  <2> QED
    BY <2>1, <2>2, DocChange
<1>4. ASSUME NEW d \in Docs, RemoveArticle(d) PROVE ModInv'
  <2>1. Form(NoDoc) /\ ~NoDoc.here
    BY DEF NoDoc, Form
  <2> QED
    BY <1>4, <2>1, DocChange DEF RemoveArticle
<1>5. ASSUME doc' = doc PROVE ModInv'
  BY <1>5 DEF ModInv
<1>6. ASSUME NEW d \in Docs, BackfillWrite(d) PROVE ModInv'
  <2>1. CASE doc' = doc
    BY <2>1, <1>5
  <2>2. CASE doc' = [doc EXCEPT ![d].status = InitialStatus(backfill.seen)]
    BY <2>2, <1>3
  <2> QED
    BY <1>6, <2>1, <2>2 DEF BackfillWrite
<1>7. ASSUME NEW d \in Docs, NEW s, Decide(d, s) PROVE ModInv'
  BY <1>7, <1>3 DEF Decide
<1>8. ASSUME NEW d \in Docs, BackfillRead(d) PROVE ModInv'
  BY <1>8, <1>5 DEF BackfillRead
<1>9. CASE UNCHANGED modVars
  BY <1>9, <1>5 DEF modVars
<1> QED
  BY <1>1, <1>2, <1>4, <1>6, <1>7, <1>8, <1>9 DEF ModNext

(* What readers see as real news was given the threshold for being real by   *)
(* the model, whatever numbers the Space sends, whatever the fact check, the *)
(* admins, the rescoring and the backfill command do, but for the verdict    *)
(* Real with a probability of 0; and what is stored says so if the numbers   *)
(* sum to one.                                                               *)
THEOREM RealBackedAlways == ModSpec => []RealBacked
<1>1. ModInv => RealBacked
  BY DEF ModInv, Sound, RealBacked, Visible
<1> QED
  BY ModInitInv, ModNextInv, <1>1, PTL DEF ModSpec
----------------------------------------------------------------------------
(* No article is lost between readers and admins.                            *)

(* A pass gives an article one of the three labels: the combination follows  *)
(* only a fact check that names one.                                         *)
LEMMA OutcomesLabelled == \A o \in Outcomes : o.label \in Labels
<1> SUFFICES ASSUME NEW ml \in FakeDetection(Numbers), NEW r
             PROVE  Combine(ml, Aggregate(r, ml.label)).label \in Labels
  <2> SUFFICES ASSUME NEW o \in Outcomes
               PROVE  \E ml \in FakeDetection(Numbers) : \E r : o = Combine(ml, Aggregate(r, ml.label))
    OBVIOUS
  <2>1. PICK ml \in FakeDetection(Numbers), c \in Checks : o \in OutcomesOf(ml, c)
    BY DEF Outcomes
  <2> QED
    BY <2>1 DEF OutcomesOf
<1> DEFINE fc == Aggregate(r, ml.label)
           follows(f) == f.verdict \in {"contradicts_ml", "supports_ml"} /\ f.label # NoLabel
<1>1. ml.label \in Labels
  BY DetectionHonest, ModerationAssumption DEF Honest
<1>2. ASSUME NEW l, NEW v, follows(Finalize(Result(l, v), ml.label))
      PROVE  v \in Settled \/ Finalize(Result(l, v), ml.label).label \in Labels
  BY <1>1, <1>2 DEF Finalize, Result, Labels
<1>3. CountedVerdict(r) \notin Settled \ {"api_error"}
  BY DEF CountedVerdict, Settled
<1>4. ASSUME follows(fc) PROVE fc.label \in Labels
  <2>1. CASE r = <<>>
    BY <1>4, <2>1 DEF Aggregate, Result
  <2>2. CASE r # <<>>
    <3>1. fc = Finalize(Result(MostCommon(r), CountedVerdict(r)), ml.label)
      BY <2>2 DEF Aggregate
    <3>2. CASE CountedVerdict(r) = "api_error"
      <4>1. fc.verdict = "api_error"
        BY <3>1, <3>2 DEF Finalize, Result, Settled
      <4> QED
        BY <1>4, <4>1
    <3>3. CASE CountedVerdict(r) \notin Settled
      BY <1>2, <1>4, <3>1, <3>3
    <3> QED
      BY <1>3, <3>2, <3>3
  <2> QED
    BY <2>1, <2>2
<1> HIDE DEF fc
<1>5. Combine(ml, fc).label \in {Suspicious, ml.label} \/ (follows(fc) /\ Combine(ml, fc).label = fc.label)
  BY DEF Combine, Judged
<1> QED
  BY <1>1, <1>4, <1>5 DEF fc, Labels

(* The status of an article last written by the rules is the rules', or it   *)
(* never got one.                                                            *)
Ruled(r) == r.status \in {"absent", InitialStatus(r)}
Lawful(r, writer) == r.here => r.label \in Labels /\ (writer = "rule" => Ruled(r))

LimboInv ==
  /\ ModInv
  /\ author = [d \in Docs |-> author[d]]
  /\ \A d \in Docs : Lawful(doc[d], author[d])

\* Documents of before the rules have no status.
LEMMA LimboInitInv == ModInit => LimboInv
<1> SUFFICES ASSUME ModInit PROVE LimboInv
  OBVIOUS
<1>1. \A d \in Docs : doc[d] = NoDoc \/ doc[d] \in Legacy
  BY DEF ModInit
<1>2. \A r \in Legacy : Lawful(r, "rule")
  BY DEF Legacy, LegacyOutcome, StoredDoc, Ruled, Lawful
<1>3. Lawful(NoDoc, "rule")
  BY DEF NoDoc, Lawful
<1> QED
  BY <1>1, <1>2, <1>3, ModInitInv DEF LimboInv, ModInit

\* One article becomes r, written last by w.
LEMMA LimboChange ==
  ASSUME LimboInv, ModInv', NEW d \in Docs, NEW r, NEW w,
         doc' = [doc EXCEPT ![d] = r], author' = [author EXCEPT ![d] = w],
         Lawful(r, w)
  PROVE  LimboInv'
<1>1. doc' = [e \in Docs |-> IF e = d THEN r ELSE doc[e]]
  BY DEF LimboInv, ModInv
<1>2. author' = [e \in Docs |-> IF e = d THEN w ELSE author[e]]
  BY DEF LimboInv
<1>3. author' = [e \in Docs |-> author'[e]]
  BY <1>2
<1>4. ASSUME NEW e \in Docs PROVE Lawful(doc'[e], author'[e])
  BY <1>1, <1>2 DEF LimboInv
<1> QED
  BY <1>3, <1>4 DEF LimboInv, Lawful, Ruled

(* The rule depends on the label and the verdict, which a pass stores.       *)
LEMMA StoredRuled ==
  ASSUME NEW o \in Outcomes, NEW s
  PROVE  /\ StoredDoc(o, s).label \in Labels
         /\ Ruled(StoredDoc(o, InitialStatus(o)))
<1>1. StoredDoc(o, s).label = o.label
  BY DEF StoredDoc
<1>2. InitialStatus(StoredDoc(o, InitialStatus(o))) = InitialStatus(o)
  BY DEF StoredDoc, InitialStatus, Doubtful, FactCheckRan
<1>3. StoredDoc(o, InitialStatus(o)).status = InitialStatus(o)
  BY DEF StoredDoc
<1> QED
  BY <1>1, <1>2, <1>3, OutcomesLabelled DEF Ruled

\* Every writer keeps the articles lawful or is not the rules.
LEMMA LimboNextInv == LimboInv /\ [ModNext]_modVars => LimboInv'
<1> SUFFICES ASSUME LimboInv, [ModNext]_modVars PROVE LimboInv'
  OBVIOUS
<1>1. ModInv'
  BY ModNextInv DEF LimboInv
<1>2. ASSUME NEW d \in Docs, Publish(d) PROVE LimboInv'
  <2>1. PICK o \in Outcomes : doc' = [doc EXCEPT ![d] = StoredDoc(o, InitialStatus(o))]
    BY <1>2 DEF Publish
  <2>2. author' = [author EXCEPT ![d] = "rule"]
    BY <1>2 DEF Publish
  <2> QED
    BY <1>1, <2>1, <2>2, StoredRuled, LimboChange DEF Lawful
<1>3. ASSUME NEW d \in Docs, Rescore(d) PROVE LimboInv'
  <2>1. PICK o \in Outcomes : doc' = [doc EXCEPT ![d] = StoredDoc(o, doc[d].status)]
    BY <1>3 DEF Rescore
  <2>2. author' = [author EXCEPT ![d] = "reprocess"]
    BY <1>3 DEF Rescore
  <2> QED
    BY <1>1, <2>1, <2>2, StoredRuled, LimboChange DEF Lawful
<1>4. ASSUME NEW d \in Docs, NEW s, Decide(d, s) PROVE LimboInv'
  <2> DEFINE r == [doc[d] EXCEPT !.status = s]
  <2>1. doc' = [doc EXCEPT ![d] = r] /\ author' = [author EXCEPT ![d] = "admin"] /\ doc[d].here
    BY <1>4 DEF Decide
  <2>2. Lawful(doc[d], author[d]) /\ Form(doc[d])
    BY DEF LimboInv, ModInv
  <2>3. Lawful(r, "admin")
    BY <2>1, <2>2 DEF Lawful, Form
  <2> QED
    BY <1>1, <2>1, <2>3, LimboChange
<1>5. ASSUME NEW d \in Docs, RemoveArticle(d) PROVE LimboInv'
  <2>1. doc' = [doc EXCEPT ![d] = NoDoc] /\ author' = [author EXCEPT ![d] = author[d]] /\ ~NoDoc.here
    BY <1>5 DEF RemoveArticle, NoDoc, LimboInv
  <2> QED
    BY <1>1, <2>1, LimboChange DEF Lawful
<1>6. ASSUME doc' = doc, author' = author PROVE LimboInv'
  BY <1>1, <1>6 DEF LimboInv, Lawful, Ruled
<1>7. ASSUME NEW d \in Docs, BackfillWrite(d) PROVE LimboInv'
  <2>1. CASE doc[d].here /\ backfill.seen.status # InitialStatus(backfill.seen)
    <3> DEFINE r == [doc[d] EXCEPT !.status = InitialStatus(backfill.seen)]
               w == IF backfill.seen = Rated(doc[d]) THEN "rule" ELSE "late"
    <3>1. doc' = [doc EXCEPT ![d] = r] /\ author' = [author EXCEPT ![d] = w]
      BY <1>7, <2>1 DEF BackfillWrite
    <3>0. Lawful(doc[d], author[d]) /\ Form(doc[d])
      BY DEF LimboInv, ModInv
    <3>2. r.label = doc[d].label /\ r.verdict = doc[d].verdict /\ r.status = InitialStatus(backfill.seen)
      BY <3>0 DEF Form
    <3>3. r.label \in Labels
      BY <2>1, <3>0, <3>2 DEF Lawful
    <3>4. w = "rule" => Ruled(r)
      <4>1. w = "rule" => backfill.seen = Rated(doc[d])
        OBVIOUS
      <4>2. InitialStatus(r) = InitialStatus(doc[d])
        BY <3>2 DEF InitialStatus, Doubtful, FactCheckRan
      <4> QED
        BY <3>2, <4>1, <4>2 DEF Ruled, Rated, InitialStatus, Doubtful, FactCheckRan
    <3> HIDE DEF r, w
    <3> QED
      BY <1>1, <3>1, <3>3, <3>4, LimboChange DEF Lawful
  <2>2. CASE ~(doc[d].here /\ backfill.seen.status # InitialStatus(backfill.seen))
    BY <1>6, <1>7, <2>2 DEF BackfillWrite
  <2> QED
    BY <2>1, <2>2
<1>8. ASSUME NEW d \in Docs, BackfillRead(d) PROVE LimboInv'
  BY <1>8, <1>6 DEF BackfillRead
<1>9. CASE UNCHANGED modVars
  BY <1>9, <1>6 DEF modVars
<1> QED
  BY <1>2, <1>3, <1>4, <1>5, <1>7, <1>8, <1>9 DEF ModNext

(* An article that the rules wrote last is seen by readers, is on the        *)
(* admin's review list, or is a doubtful one that no fact check reached:     *)
(* fact_check_ran and initial_moderation_status leave nothing in between.    *)
THEOREM NoLimboAlways == ModSpec => []NoLimbo
<1>1. LimboInv => NoLimbo
  <2> SUFFICES ASSUME LimboInv, NEW d \in Docs, doc[d].here, ~Visible(doc[d]), author[d] = "rule"
               PROVE  Listed(doc[d]) \/ (Doubtful(doc[d]) /\ ~FactCheckRan(doc[d]))
    BY DEF NoLimbo
  <2>0. Lawful(doc[d], author[d])
    BY DEF LimboInv
  <2>1. doc[d].label \in Labels /\ doc[d].status \in {"absent", InitialStatus(doc[d])}
    BY <2>0 DEF Lawful, Ruled
  <2>2. CASE Doubtful(doc[d]) /\ FactCheckRan(doc[d])
    BY <2>1, <2>2 DEF InitialStatus, Listed
  <2>3. CASE ~Doubtful(doc[d])
    BY <2>1, <2>3 DEF InitialStatus, Visible, Doubtful, Labels
  <2> QED
    BY <2>2, <2>3
<1> QED
  BY LimboInitInv, LimboNextInv, <1>1, PTL DEF ModSpec

----------------------------------------------------------------------------
(* The fact check: counts over the results that came in.                     *)

ResultType == [label : Labels \cup {NoLabel},
               verdict : {"api_error", "no_hits", "supports_ml", "mixed"}]

(* Any of the results can be counted.                                        *)
LEMMA CountResults ==
  ASSUME NEW r \in Seq(ResultType), NEW T \in SUBSET DOMAIN r
  PROVE  Cardinality(T) \in Nat /\ (Cardinality(T) = 0 <=> T = {})
<1>1. IsFiniteSet(1..Len(r))
  BY FS_Interval
<1>2. T \subseteq 1..Len(r)
  OBVIOUS
<1>3. IsFiniteSet(T)
  BY <1>1, <1>2, FS_Subset
<1> QED
  BY <1>3, FS_CardinalityType, FS_EmptySet

(* Of three counts that are not all zero one is the largest and positive.    *)
LEMMA LargestCount ==
  ASSUME NEW a \in Nat, NEW b \in Nat, NEW c \in Nat, a + b + c > 0
  PROVE  \E n \in {a, b, c} : n > 0 /\ a <= n /\ b <= n /\ c <= n
<1>1. CASE a >= b /\ a >= c
  BY <1>1
<1>2. CASE b >= a /\ b >= c
  BY <1>2
<1>3. CASE c >= a /\ c >= b
  BY <1>3
<1> QED
  BY <1>1, <1>2, <1>3

(* Where no result suggests a label none is the most common; otherwise the   *)
(* most common one is a label some result suggests.                          *)
LEMMA MostCommonSeen ==
  ASSUME NEW r \in Seq(ResultType)
  PROVE  /\ (\A i \in DOMAIN r : r[i].label = NoLabel) => MostCommon(r) = NoLabel
         /\ (\E i \in DOMAIN r : r[i].label # NoLabel)
              => \E i \in DOMAIN r : r[i].label # NoLabel /\ MostCommon(r) = r[i].label
<1> DEFINE Count(l) == Cardinality(Suggesting(r, l))
<1>1. \A l : Count(l) \in Nat /\ (Count(l) = 0 <=> Suggesting(r, l) = {})
  BY CountResults DEF Suggesting
<1>2. \A l : l \in Frequent(r) <=>
              l \in Labels /\ Count(l) > 0 /\ \A k \in Labels : Count(k) <= Count(l)
  BY DEF Frequent
<1>3. ASSUME \A i \in DOMAIN r : r[i].label = NoLabel PROVE MostCommon(r) = NoLabel
  <2>1. \A l \in Labels : Suggesting(r, l) = {}
    BY <1>3 DEF Suggesting, Labels, NoLabel, Real, Fake, Suspicious
  <2>2. \A l \in Labels : Count(l) = 0
    BY <1>1, <2>1
  <2> HIDE DEF Count
  <2>3. Frequent(r) = {}
    BY <1>2, <2>2
  <2> QED
    BY <2>3 DEF MostCommon
<1>4. ASSUME NEW j \in DOMAIN r, r[j].label # NoLabel
      PROVE  \E i \in DOMAIN r : r[i].label # NoLabel /\ MostCommon(r) = r[i].label
  <2> DEFINE K == {i \in DOMAIN r : r[i].label \in Frequent(r)}
  <2>1. r[j].label \in Labels /\ j \in Suggesting(r, r[j].label)
    <3>1. r[j] \in ResultType
      OBVIOUS
    <3>2. r[j].label \in Labels
      BY <1>4, <3>1 DEF ResultType
    <3>3. j \in Suggesting(r, r[j].label)
      BY DEF Suggesting
    <3> QED
      BY <3>2, <3>3
  <2>2. Count(r[j].label) > 0
    BY <1>1, <2>1
  <2> HIDE DEF Count
  <2>3. Frequent(r) # {}
    <3>1. Count(Real) + Count(Fake) + Count(Suspicious) > 0
      BY <1>1, <2>1, <2>2 DEF Labels
    <3>2. PICK n \in {Count(Real), Count(Fake), Count(Suspicious)} :
            n > 0 /\ Count(Real) <= n /\ Count(Fake) <= n /\ Count(Suspicious) <= n
      BY <3>1, <1>1, LargestCount
    <3>3. PICK l \in Labels : n = Count(l)
      BY <3>2 DEF Labels
    <3> QED
      BY <3>2, <3>3, <1>2 DEF Labels
  <2>4. PICK l \in Frequent(r) : TRUE
    BY <2>3
  <2>5. l \in Labels /\ Count(l) # 0
    BY <1>1, <1>2, <2>4
  <2>6. Suggesting(r, l) # {}
    BY <1>1, <2>5 DEF Count
  <2>7. K # {} /\ K \in SUBSET Nat
    BY <2>6, <2>4 DEF Suggesting
  <2>8. Min(K) \in K
    BY <2>7, LeastElement DEF Min
  <2>9. MostCommon(r) = r[Min(K)].label
    BY <2>3 DEF MostCommon
  <2>10. r[Min(K)].label \in Labels
    BY <2>8, <1>2
  <2> HIDE DEF K
  <2>11. Min(K) \in DOMAIN r
    BY <2>8 DEF K
  <2> QED
    BY <2>9, <2>10, <2>11 DEF Labels, NoLabel, Real, Fake, Suspicious
<1> QED
  BY <1>3, <1>4
\* What a provider that looks articles up can say to a model's label.
LookupsOf(m) ==
  {Result(NoLabel, "api_error")}
    \cup IF m = Fake THEN {Result(Suspicious, "mixed"), Result(Fake, "supports_ml")}
         ELSE {Result(NoLabel, "no_hits")}
                \cup IF m = Real THEN {Result(Real, "supports_ml")} ELSE {Result(Real, "mixed")}

(* Every answer of such a provider is among them.                            *)
LEMMA LookupsSay ==
  ASSUME NEW m \in Labels, NEW p \in Knowledge, NEW a \in Answers(p)
  PROVE  Verify(p, a, m) \in LookupsOf(m)
<1>1. a \in {"hits", "none", "error"} /\ Verify(p, a, m) = KnowledgeCheck(a, m)
  BY DEF Answers, Verify
<1>2. CASE a = "error"
  BY <1>1, <1>2 DEF KnowledgeCheck, Finalize, Settled, Result, LookupsOf
<1>3. CASE a = "none"
  BY <1>1, <1>3 DEF KnowledgeCheck, KnowledgeHit, Finalize, Settled, Result, LookupsOf,
                    Labels, NoLabel, Real, Fake, Suspicious
<1>4. CASE a = "hits"
  BY <1>1, <1>4 DEF KnowledgeCheck, KnowledgeHit, Finalize, Settled, Result, LookupsOf,
                    Labels, NoLabel, Real, Fake, Suspicious
<1> QED
  BY <1>1, <1>2, <1>3, <1>4

(* These are results of fact checks, with a label and a verdict.             *)
LEMMA LookupsTyped ==
  ASSUME NEW m \in Labels
  PROVE  Seq(LookupsOf(m)) \subseteq Seq(ResultType)
<1>1. LookupsOf(m) \subseteq ResultType
  <2>1. /\ Result(NoLabel, "api_error") \in ResultType /\ Result(NoLabel, "no_hits") \in ResultType
        /\ Result(Suspicious, "mixed") \in ResultType /\ Result(Real, "mixed") \in ResultType
        /\ Result(Fake, "supports_ml") \in ResultType /\ Result(Real, "supports_ml") \in ResultType
    BY DEF ResultType, Result, Labels
  <2>2. ASSUME NEW k \in LookupsOf(m)
        PROVE  \/ k = Result(NoLabel, "api_error") \/ k = Result(Suspicious, "mixed")
               \/ k = Result(Fake, "supports_ml") \/ k = Result(NoLabel, "no_hits")
               \/ k = Result(Real, "supports_ml") \/ k = Result(Real, "mixed")
    BY <2>2 DEF LookupsOf
  <2> QED
    BY <2>1, <2>2
<1> QED
  BY <1>1

(* A model that says Real is confirmed by one hit, and by nothing else.      *)
LEMMA AggregateReal ==
  ASSUME NEW r \in Seq(LookupsOf(Real))
  PROVE  IF \E i \in DOMAIN r : r[i].label = Real
         THEN Aggregate(r, Real) = Result(Real, "supports_ml")
         ELSE /\ Aggregate(r, Real).label = NoLabel
              /\ Aggregate(r, Real).verdict \in {"disabled", "api_error", "inconclusive"}
<1> DEFINE Count(v) == Cardinality(Saying(r, v))
<1>1. r \in Seq(ResultType)
  BY LookupsTyped DEF Labels
<1>2. \A i \in DOMAIN r : r[i] \in LookupsOf(Real)
  OBVIOUS
<1>3. \A i \in DOMAIN r : /\ r[i].label \in {Real, NoLabel}
                          /\ r[i].verdict = "supports_ml" <=> r[i].label = Real
                          /\ r[i].verdict \notin {"contradicts_ml", "mixed"}
  BY <1>2 DEF LookupsOf, Result, Real, Fake, NoLabel
<1>4. \A v : Count(v) \in Nat /\ (Count(v) = 0 <=> Saying(r, v) = {})
  BY <1>1, CountResults DEF Saying
<1>5. Count("contradicts_ml") = 0 /\ Count("mixed") = 0
  BY <1>3, <1>4 DEF Saying
<1>6. Count("supports_ml") > 0 <=> \E i \in DOMAIN r : r[i].label = Real
  <2>1. Saying(r, "supports_ml") # {} <=> \E i \in DOMAIN r : r[i].label = Real
    BY <1>3 DEF Saying
  <2> QED
    BY <2>1, <1>4
<1>7. /\ Count("supports_ml") > 0 => CountedVerdict(r) = "supports_ml"
      /\ Count("supports_ml") = 0 => CountedVerdict(r) \in {"api_error", "inconclusive"}
  <2>1. Count("supports_ml") \in Nat
    BY <1>4
  <2>2. CASE Count("supports_ml") > 0
    BY <2>1, <2>2, <1>5 DEF CountedVerdict
  <2>3. CASE Count("supports_ml") = 0
    BY <2>3, <1>5 DEF CountedVerdict
  <2> QED
    BY <2>1, <2>2, <2>3
<1> HIDE DEF Count
<1>8. CASE \E i \in DOMAIN r : r[i].label = Real
  <2>1. MostCommon(r) = Real
    BY <1>1, <1>3, <1>8, MostCommonSeen DEF Real, NoLabel
  <2>2. r # <<>>
    BY <1>8
  <2> QED
    BY <2>1, <2>2, <1>6, <1>7, <1>8 DEF Aggregate, Finalize, Result, Settled, Real, Fake, NoLabel
<1>9. CASE ~\E i \in DOMAIN r : r[i].label = Real
  <2>1. MostCommon(r) = NoLabel
    BY <1>1, <1>3, <1>9, MostCommonSeen
  <2>2. Count("supports_ml") = 0
    BY <1>4, <1>6, <1>9
  <2> QED
    BY <2>1, <2>2, <1>7, <1>9 DEF Aggregate, Finalize, Result
<1> QED
  BY <1>8, <1>9

(* Lookups never make a Fake of the model Real ...                           *)
LEMMA AggregateFake ==
  ASSUME NEW r \in Seq(LookupsOf(Fake))
  PROVE  Aggregate(r, Fake).label \in {Fake, Suspicious, NoLabel}
<1>1. r \in Seq(ResultType)
  BY LookupsTyped DEF Labels
<1>2. \A i \in DOMAIN r : r[i] \in LookupsOf(Fake)
  OBVIOUS
<1>3. \A i \in DOMAIN r : r[i].label \in {Fake, Suspicious, NoLabel}
  BY <1>2 DEF LookupsOf, Result
<1>4. MostCommon(r) \in {Fake, Suspicious, NoLabel}
  BY <1>1, <1>3, MostCommonSeen
<1> QED
  BY <1>4 DEF Aggregate, Finalize, Result

(* ... and leave a Suspicious one undecided.                                 *)
LEMMA AggregateSuspicious ==
  ASSUME NEW r \in Seq(LookupsOf(Suspicious))
  PROVE  LET a == Aggregate(r, Suspicious) IN a.label = NoLabel \/ a.verdict = "mixed"
<1>1. r \in Seq(ResultType)
  BY LookupsTyped DEF Labels
<1>2. \A i \in DOMAIN r : r[i] \in LookupsOf(Suspicious)
  OBVIOUS
<1>3. \A i \in DOMAIN r : r[i].label \in {Real, NoLabel}
  BY <1>2 DEF LookupsOf, Result, Fake, Suspicious
<1>4. MostCommon(r) \in {Real, NoLabel}
  BY <1>1, <1>3, MostCommonSeen
<1>5. \A i \in DOMAIN r : /\ r[i].verdict \notin {"contradicts_ml", "supports_ml"}
                          /\ r[i].label = Real => r[i].verdict = "mixed"
  BY <1>2 DEF LookupsOf, Result, Real, Fake, Suspicious, NoLabel
<1>6. MostCommon(r) = Real => Saying(r, "mixed") # {}
  <2>1. ASSUME MostCommon(r) = Real PROVE \E i \in DOMAIN r : r[i].label = Real
    BY <2>1, <1>1, MostCommonSeen DEF Real, NoLabel
  <2> QED
    BY <2>1, <1>5 DEF Saying
<1>7. Saying(r, "contradicts_ml") = {} /\ Saying(r, "supports_ml") = {}
  BY <1>5 DEF Saying
<1>8. \A v : LET n == Cardinality(Saying(r, v)) IN n \in Nat /\ (n = 0 <=> Saying(r, v) = {})
  BY <1>1, CountResults DEF Saying
<1>9. MostCommon(r) = Real => CountedVerdict(r) = "mixed"
  BY <1>6, <1>7, <1>8 DEF CountedVerdict
<1> QED
  BY <1>4, <1>9 DEF Aggregate, Finalize, Result, Settled, Real, Fake, Suspicious, NoLabel
(* Combined with the model, lookups confirm it or end in Suspicious, and the *)
(* outcome depends on whether some of them found the article, not on which.  *)
LEMMA CombineLookups ==
  ASSUME NEW ml, ml.label \in Labels, NEW r \in Seq(LookupsOf(ml.label))
  PROVE  /\ Combine(ml, Aggregate(r, ml.label)).label \in {ml.label, Suspicious}
         /\ ml.label = Real /\ (\E i \in DOMAIN r : r[i].label = Real)
              => Combine(ml, Aggregate(r, ml.label)) = Combine(ml, Result(Real, "supports_ml"))
         /\ ml.label = Real /\ ~(\E i \in DOMAIN r : r[i].label = Real)
              => Combine(ml, Aggregate(r, ml.label)).label
                   = Combine(ml, Result(NoLabel, "inconclusive")).label
<1>1. CASE ml.label = Real
  <2>1. CASE \E i \in DOMAIN r : r[i].label = Real
    <3>1. Aggregate(r, ml.label) = Result(Real, "supports_ml")
      BY <1>1, <2>1, AggregateReal
    <3>2. Combine(ml, Result(Real, "supports_ml")).label \in {Real, Suspicious}
      BY <1>1 DEF Combine, Judged, Result
    <3>3. Combine(ml, Aggregate(r, ml.label)) = Combine(ml, Result(Real, "supports_ml"))
      BY <3>1
    <3> QED
      BY <1>1, <2>1, <3>2, <3>3
  <2>2. CASE ~\E i \in DOMAIN r : r[i].label = Real
    <3>1. /\ Aggregate(r, Real).label = NoLabel
          /\ Aggregate(r, Real).verdict \in {"disabled", "api_error", "inconclusive"}
      BY <1>1, <2>2, AggregateReal
    <3>2. \A fc : fc.label = NoLabel /\ fc.verdict \in {"disabled", "api_error", "inconclusive"}
                   => Combine(ml, fc).label
                        = IF (IF ml.max > 0 THEN ml.max ELSE Peak(ml.probs)) < Threshold
                          THEN Suspicious ELSE ml.label
      BY DEF Combine, Judged
    <3>3. Combine(ml, Aggregate(r, Real)).label = Combine(ml, Result(NoLabel, "inconclusive")).label
      BY <3>1, <3>2 DEF Result
    <3>4. Combine(ml, Result(NoLabel, "inconclusive")).label \in {ml.label, Suspicious}
      BY <3>2 DEF Result
    <3> QED
      BY <1>1, <2>2, <3>3, <3>4
  <2> QED
    BY <2>1, <2>2
<1>2. CASE ml.label = Fake
  <2>1. Aggregate(r, Fake).label \in {Fake, Suspicious, NoLabel}
    BY <1>2, AggregateFake
  <2>2. \A fc : fc.label \in {Fake, Suspicious, NoLabel}
                 => Combine(ml, fc).label \in {Fake, Suspicious}
    BY <1>2 DEF Combine, Judged
  <2> QED
    BY <1>2, <2>1, <2>2 DEF Real, Fake
<1>3. CASE ml.label = Suspicious
  <2> DEFINE fc == Aggregate(r, Suspicious)
  <2>1. fc.label = NoLabel \/ fc.verdict = "mixed"
    BY <1>3, AggregateSuspicious
  <2> HIDE DEF fc
  <2>2. Combine(ml, fc).label = Suspicious
    BY <1>3, <2>1 DEF Combine, Judged
  <2> QED
    BY <1>3, <2>2 DEF fc, Real, Suspicious
<1> QED
  BY <1>1, <1>2, <1>3 DEF Labels

(* While only providers that look articles up were heard, the results are    *)
(* theirs.                                                                   *)
CheckInv ==
  /\ model.label \in Labels
  /\ asked \subseteq Knowledge => heard \in Seq(LookupsOf(model.label))

\* Before the first answer nothing was heard.
LEMMA CheckInitInv == CheckInit => CheckInv
<1> SUFFICES ASSUME CheckInit PROVE CheckInv
  OBVIOUS
<1>1. model.label \in Labels
  BY FactCheckAssumption, DetectionHonest DEF CheckInit, Honest
<1> QED
  BY <1>1 DEF CheckInit, CheckInv

\* Each answer adds a result of the provider that gave it.
LEMMA CheckNextInv == CheckInv /\ [CheckNext]_checkVars => CheckInv'
<1> SUFFICES ASSUME CheckInv, [CheckNext]_checkVars PROVE CheckInv'
  OBVIOUS
<1>1. ASSUME NEW p \in ToSet(sources), NEW answer \in Answers(p), Answer(p, answer)
      PROVE  CheckInv'
  <2>1. model' = model /\ asked' = asked \cup {p}
        /\ heard' = Append(heard, Verify(p, answer, model.label))
    BY <1>1 DEF Answer
  <2>2. ASSUME asked' \subseteq Knowledge PROVE heard' \in Seq(LookupsOf(model.label))
    <3>1. p \in Knowledge /\ asked \subseteq Knowledge
      BY <2>1, <2>2
    <3>2. Verify(p, answer, model.label) \in LookupsOf(model.label)
      BY <3>1, LookupsSay DEF CheckInv
    <3> QED
      BY <2>1, <3>1, <3>2 DEF CheckInv
  <2> QED
    BY <2>1, <2>2 DEF CheckInv
<1>2. CASE UNCHANGED checkVars
  BY <1>2 DEF CheckInv, checkVars
<1> QED
  BY <1>1, <1>2 DEF CheckNext

(* Whatever the configured providers, the order in which the lookups answer  *)
(* (as_completed of the thread pool) does not decide whether an article is   *)
(* Real, and lookups never turn the model's verdict into another one.        *)
THEOREM FactSoundAlways == CheckSpec => []FactSound
<1>1. CheckInv => FactSound
  <2> SUFFICES ASSUME CheckInv, asked \subseteq Knowledge
               PROVE  /\ Outcome(heard).label \in {model.label, Suspicious}
                      /\ \A f \in Bijection(DOMAIN heard, DOMAIN heard) :
                           (Outcome([i \in DOMAIN heard |-> heard[f[i]]]).label = Real)
                             <=> (Outcome(heard).label = Real)
    BY DEF FactSound, OrderFree, LookupsConfirm
  <2>1. model.label \in Labels /\ heard \in Seq(LookupsOf(model.label))
    BY DEF CheckInv
  <2>2. Outcome(heard).label \in {model.label, Suspicious}
    BY <2>1, CombineLookups DEF Outcome
  <2>3. ASSUME NEW f \in Bijection(DOMAIN heard, DOMAIN heard)
        PROVE  (Outcome([i \in DOMAIN heard |-> heard[f[i]]]).label = Real)
                 <=> (Outcome(heard).label = Real)
    <3> DEFINE g == [i \in DOMAIN heard |-> heard[f[i]]]
    <3>1. /\ f \in [DOMAIN heard -> DOMAIN heard]
          /\ \A w \in DOMAIN heard : \E v \in DOMAIN heard : f[v] = w
      BY DEF Bijection, Injection, Surjection, IsInjective
    <3>2. DOMAIN heard = 1..Len(heard) /\ Len(heard) \in Nat
      BY <2>1
    <3>3. g \in Seq(LookupsOf(model.label))
      BY <2>1, <3>1, <3>2
    <3>4. (\E i \in DOMAIN g : g[i].label = Real)
            <=> (\E i \in DOMAIN heard : heard[i].label = Real)
      BY <3>1
    <3> HIDE DEF g
    <3>5. Combine(model, Aggregate(g, model.label)).label \in {model.label, Suspicious}
      BY <2>1, <3>3, CombineLookups
    <3>6. CASE model.label = Real
      <4> DEFINE found(r) == \E i \in DOMAIN r : r[i].label = Real
      <4>1. CASE found(heard)
        <5>1. Combine(model, Aggregate(heard, model.label)) = Combine(model, Result(Real, "supports_ml"))
          BY <2>1, <3>6, <4>1, CombineLookups
        <5>2. Combine(model, Aggregate(g, model.label)) = Combine(model, Result(Real, "supports_ml"))
          BY <2>1, <3>3, <3>4, <3>6, <4>1, CombineLookups
        <5> QED
          BY <5>1, <5>2 DEF Outcome, g
      <4>2. CASE ~found(heard)
        <5>1. Combine(model, Aggregate(heard, model.label)).label
                = Combine(model, Result(NoLabel, "inconclusive")).label
          BY <2>1, <3>6, <4>2, CombineLookups
        <5>2. Combine(model, Aggregate(g, model.label)).label
                = Combine(model, Result(NoLabel, "inconclusive")).label
          BY <2>1, <3>3, <3>4, <3>6, <4>2, CombineLookups
        <5> QED
          BY <5>1, <5>2 DEF Outcome, g
      <4> QED
        BY <4>1, <4>2
    <3>7. CASE model.label # Real
      BY <2>2, <3>5, <3>7 DEF Outcome, g, Real, Suspicious
    <3> QED
      BY <3>6, <3>7
  <2> QED
    BY <2>2, <2>3
<1> QED
  BY CheckInitInv, CheckNextInv, <1>1, PTL DEF CheckSpec

----------------------------------------------------------------------------
(* Pages: what one page shows and where it leaves its cursor.                *)

Stamps == stamp \in [FeedArticles -> Nat]
Gapless == {"home", "explore", "category"}

\* The cursor of some articles is the least of their stamps.
LEMMA CursorIsLast ==
  ASSUME Stamps, NEW S \in SUBSET FeedArticles, S # {}
  PROVE  /\ \E a \in S : CursorOf(S) = stamp[a]
         /\ \A a \in S : CursorOf(S) <= stamp[a]
<1> DEFINE T == {stamp[a] : a \in S}
<1>1. T \in SUBSET Nat /\ T # {}
  BY DEF Stamps
<1>2. PICK x \in T : \A y \in T : x <= y
  BY <1>1, LeastElement
<1>3. x \in T /\ \A a \in S : x <= stamp[a]
  BY <1>2
<1>4. CursorOf(S) = CHOOSE s \in T : \A a \in S : s <= stamp[a]
  BY DEF CursorOf
<1> QED
  BY <1>3, <1>4

\* A rank is a number.
LEMMA RankCounts ==
  ASSUME NEW S \in SUBSET FeedArticles, NEW a
  PROVE  Rank(a, S) \in Nat
<1>1. IsFiniteSet(FeedArticles)
  BY FeedAssumption, FS_Interval DEF FeedArticles
<1>2. IsFiniteSet({b \in S : stamp[b] >= stamp[a]})
  BY <1>1, FS_Subset
<1> QED
  BY <1>2, FS_CardinalityType DEF Rank

\* An article as far up as one of the first n is one of the first n.
LEMMA FirstUpwards ==
  ASSUME Stamps, NEW S \in SUBSET FeedArticles, NEW n \in Nat,
         NEW h \in First(n, S), NEW a \in S, stamp[a] >= stamp[h]
  PROVE  a \in First(n, S)
<1> DEFINE A == {b \in S : stamp[b] >= stamp[a]}
           H == {b \in S : stamp[b] >= stamp[h]}
<1>1. IsFiniteSet(H)
  <2>1. IsFiniteSet(FeedArticles)
    BY FeedAssumption, FS_Interval DEF FeedArticles
  <2> QED
    BY <2>1, FS_Subset
<1>2. A \subseteq H
  BY DEF Stamps, First
<1>3. Cardinality(A) <= Cardinality(H) /\ Cardinality(A) \in Nat /\ Cardinality(H) \in Nat
  BY <1>1, <1>2, FS_Subset, FS_CardinalityType
<1>4. Cardinality(H) <= n
  BY DEF First, Rank
<1>5. Cardinality(A) <= n
  BY <1>3, <1>4
<1> QED
  BY <1>5 DEF First, Rank

\* A page of a feed: what it shows was found, nothing shown lies behind its
\* cursor, the cursor is a found article's, and in a gapless feed everything
\* that matches down to the cursor is shown.
PageSound(feed, S, page) ==
  /\ page.bumps = bumps
  /\ page.shown \subseteq S
  /\ page.more => /\ \E a \in S : page.next = stamp[a]
                  /\ \A a \in page.shown : page.next <= stamp[a]
                  /\ feed \in Gapless =>
                       \A a \in S : Matches(feed, a) /\ page.next <= stamp[a] => a \in page.shown

\* What a page has to satisfy to be sound, whatever feed made it.
LEMMA PageOfSound ==
  ASSUME Stamps, NEW S \in SUBSET FeedArticles, NEW shown \in SUBSET S, NEW seen \in SUBSET S,
         NEW more \in BOOLEAN, NEW feed, more => shown \subseteq seen,
         ASSUME more, seen # {}, feed \in Gapless,
                NEW a \in S, Matches(feed, a), CursorOf(seen) <= stamp[a]
         PROVE  a \in shown
  PROVE  PageSound(feed, S, PageOf(shown, seen, more))
<1> DEFINE page == PageOf(shown, seen, more)
<1>1. page.bumps = bumps /\ page.shown = shown
  BY DEF PageOf
<1>2. ASSUME page.more
      PROVE  /\ \E a \in S : page.next = stamp[a]
             /\ \A a \in shown : page.next <= stamp[a]
             /\ feed \in Gapless =>
                  \A a \in S : Matches(feed, a) /\ page.next <= stamp[a] => a \in shown
  <2>1. more /\ seen # {} /\ page.next = CursorOf(seen)
    BY <1>2 DEF PageOf
  <2>2. \E a \in S : page.next = stamp[a]
    BY <2>1, CursorIsLast
  <2>3. \A a \in shown : page.next <= stamp[a]
    BY <2>1, CursorIsLast
  <2> QED
    BY <2>1, <2>2, <2>3
<1> HIDE DEF page
<1> QED
  BY <1>1, <1>2 DEF PageSound, page
\* The personal feed: batches are scanned until the page is full.
LEMMA HomeSound ==
  ASSUME Stamps, NEW cursor
  PROVE  PageSound("home", Found("home", cursor), Home(cursor))
<1> DEFINE S == Found("home", cursor)
           W == S \cap wanted
           hits == First(PageSize, W)
           full == Cardinality(hits) = PageSize
           seen == {a \in S : full => stamp[a] >= CursorOf(hits)}
           more == full /\ Cardinality(InBatch(S, BatchOf(Cardinality(seen)))) = Batch
<1>1. S \in SUBSET FeedArticles
  BY DEF Found, Processed
<1> HIDE DEF S
<1>2. hits \in SUBSET W /\ W \in SUBSET FeedArticles
  BY <1>1 DEF First
<1>3. Home(cursor) = PageOf(hits, seen, more)
  BY DEF Home, S
<1>4. hits \in SUBSET seen
  BY <1>2, CursorIsLast DEF Stamps
<1>5. ASSUME more, seen # {}, NEW a \in S, Matches("home", a), CursorOf(seen) <= stamp[a]
      PROVE  a \in hits
  <2>1. hits # {}
    <3>1. PageSize # 0
      BY FeedAssumption
    <3> QED
      BY <1>5, <3>1, FS_EmptySet
  <2>2. PICK h \in hits : CursorOf(hits) = stamp[h]
    BY <1>2, <2>1, CursorIsLast
  <2>3. PICK b \in seen : CursorOf(seen) = stamp[b]
    BY <1>1, <1>5, CursorIsLast
  <2>4. stamp[b] >= stamp[h]
    BY <1>5, <2>2, <2>3
  <2>5. a \in FeedArticles /\ b \in FeedArticles /\ h \in FeedArticles
    BY <1>1, <1>2
  <2>6. stamp[a] >= stamp[h]
    BY <1>5, <2>3, <2>4, <2>5 DEF Stamps
  <2>7. a \in W
    BY <1>5 DEF Matches
  <2> HIDE DEF W
  <2> QED
    BY <1>2, <2>6, <2>7, FeedAssumption, FirstUpwards
<1>6. hits \in SUBSET S /\ seen \in SUBSET S /\ more \in BOOLEAN
  BY <1>2
<1> HIDE DEF hits, seen, more
<1> QED
  BY <1>1, <1>3, <1>4, <1>5, <1>6, PageOfSound DEF S

\* Explore and a category: the first of one batch.
LEMMA ExploreSound ==
  ASSUME Stamps, NEW cursor, NEW feed \in Cacheable
  PROVE  PageSound(feed, Found(feed, cursor), Explore(feed, cursor))
<1> DEFINE S == Found(feed, cursor)
           limit == IF feed = "category" /\ PageSize > Batch THEN PageSize ELSE Batch
           batch == First(limit, S)
           shown == First(PageSize, batch)
           more == Cardinality(batch) >= Batch
<1>1. S \in SUBSET FeedArticles
  BY DEF Found, Processed
<1>2. Explore(feed, cursor) = PageOf(shown, shown, more)
  BY DEF Explore
<1> HIDE DEF S
<1>3. batch \in SUBSET S /\ shown \in SUBSET batch
  BY DEF First
<1>4. limit \in Nat /\ PageSize \in Nat
  BY FeedAssumption
<1> HIDE DEF limit
<1>5. ASSUME more, shown # {}, NEW a \in S, Matches(feed, a), CursorOf(shown) <= stamp[a]
      PROVE  a \in shown
  <2>1. PICK h \in shown : CursorOf(shown) = stamp[h]
    BY <1>1, <1>3, <1>5, CursorIsLast
  <2>2. stamp[a] >= stamp[h]
    BY <1>1, <1>3, <1>5, <2>1 DEF Stamps
  <2>3. h \in batch
    BY <1>3
  <2> HIDE DEF batch
  <2>4. a \in batch
    BY <1>1, <1>4, <2>2, <2>3, FirstUpwards DEF batch
  <2>5. batch \in SUBSET FeedArticles
    BY <1>1, <1>3
  <2> QED
    BY <1>4, <2>2, <2>4, <2>5, FirstUpwards
<1>6. shown \in SUBSET S /\ more \in BOOLEAN
  BY <1>3
<1> HIDE DEF shown, more, batch
<1> QED
  BY <1>1, <1>2, <1>5, <1>6, PageOfSound DEF S

\* A search and the Pics feed: candidates of the last batch by their rank.
LEMMA RankedSound ==
  ASSUME Stamps, NEW cursor, NEW feed \in {"search", "pics"}, NEW page \in Ranked(feed, cursor)
  PROVE  PageSound(feed, Found(feed, cursor), page)
<1> DEFINE S == Found(feed, cursor)
           hits == S \cap wanted
           need(k) == PageSize - Cardinality({a \in hits : BatchOf(Rank(a, S)) < k})
           fill == {k \in 1 .. N : Cardinality(hits \cap InBatch(S, k)) >= need(k)}
<1>1. S \in SUBSET FeedArticles
  BY DEF Found, Processed
<1>2. feed \notin Gapless
  BY DEF Gapless
<1>3. CASE fill = {}
  <2>1. page = PageOf(hits, S, FALSE)
    BY <1>3 DEF Ranked
  <2> QED
    BY <1>1, <1>2, <2>1, PageOfSound
<1>4. CASE fill # {}
  <2> DEFINE k == CHOOSE i \in fill : \A j \in fill : i <= j
             seen == {a \in S : BatchOf(Rank(a, S)) <= k}
             before == {a \in hits : BatchOf(Rank(a, S)) < k}
             more == Cardinality(InBatch(S, k)) = Batch
  <2>1. PICK T \in SUBSET (hits \cap InBatch(S, k)) : page = PageOf(before \union T, seen, more)
    BY <1>4 DEF Ranked
  <2>2. k \in Nat
    <3>1. fill \in SUBSET Nat
      BY FeedAssumption
    <3> HIDE DEF fill
    <3> QED
      BY <1>4, <3>1, LeastElement
  <2> HIDE DEF k
  <2>3. \A a \in S : BatchOf(Rank(a, S)) \in Int
    BY <1>1, RankCounts, FeedAssumption DEF BatchOf
  <2>4. before \union T \in SUBSET seen
    BY <2>2, <2>3 DEF InBatch
  <2>5. before \union T \in SUBSET S /\ seen \in SUBSET S /\ more \in BOOLEAN
    BY <2>4
  <2> HIDE DEF S, before, seen, more
  <2> QED
    BY <1>1, <1>2, <2>1, <2>4, <2>5, PageOfSound DEF S
<1> QED
  BY <1>3, <1>4

\* Every page of every feed is sound.
LEMMA PagesSound ==
  ASSUME Stamps, NEW cursor, NEW feed \in AllFeeds, NEW page \in Pages(feed, cursor)
  PROVE  PageSound(feed, Found(feed, cursor), page)
<1>1. CASE feed = "home"
  BY <1>1, HomeSound DEF Pages, Cacheable
<1>2. CASE feed \in Cacheable
  BY <1>2, ExploreSound DEF Pages, Cacheable
<1>3. CASE feed \in {"search", "pics"}
  BY <1>3, RankedSound DEF Pages, Cacheable
<1> QED
  BY <1>1, <1>2, <1>3 DEF AllFeeds, Cacheable
----------------------------------------------------------------------------
(* The readers' sessions.                                                    *)

SessionForm(s) ==
  DOMAIN s = {"feed", "phase", "cursor", "shown", "steady", "again", "fromCache", "key", "page"}

\* Down to mark a client was given everything that stayed, and nothing behind it.
Past(feed, steady, given, mark) ==
  /\ mark \in Nat \ {0}
  /\ \A a \in given : a \in FeedArticles /\ mark <= stamp[a]
  /\ feed \in Gapless => \A a \in steady : mark <= stamp[a] => a \in given

Steady(s) == \A a \in s.steady : a \in Found(s.feed, 0) /\ Matches(s.feed, a)

\* Where a session stands that was never served from the cache.
Standing(s) ==
  /\ s.again = {}
  /\ s.phase \in {"idle", "ask", "read", "store"}
  /\ s.phase = "idle" /\ s.page.more => Past(s.feed, s.steady, s.shown, s.page.next)
  /\ s.phase \in {"ask", "read"} => \/ s.cursor = 0 /\ s.shown = {}
                                    \/ Past(s.feed, s.steady, s.shown, s.cursor)
  /\ s.phase = "store" =>
       /\ s.shown \cap s.page.shown = {}
       /\ s.page.more => Past(s.feed, s.steady, s.shown \cup s.page.shown, s.page.next)

SessionOK(s) ==
  SessionForm(s) /\ s.feed \in AllFeeds /\ Steady(s) /\ (~s.fromCache => Standing(s))

FeedInv ==
  /\ Stamps
  /\ spent = [changes |-> spent.changes, pages |-> spent.pages] /\ spent.changes \in Nat
  /\ \A a \in FeedArticles : stamp[a] <= N + spent.changes
  /\ session = [r \in Clients |-> session[r]]
  /\ \A r \in Clients : SessionOK(session[r])

\* The next page of a session continues where the last one ended.
LEMMA PageContinues ==
  ASSUME Stamps, NEW s, SessionOK(s), ~s.fromCache, s.phase = "read",
         NEW page, PageSound(s.feed, Found(s.feed, s.cursor), page)
  PROVE  /\ s.shown \cap page.shown = {}
         /\ page.more => Past(s.feed, s.steady, s.shown \cup page.shown, page.next)
<1> DEFINE S == Found(s.feed, s.cursor)
<1>1. \/ s.cursor = 0 /\ s.shown = {}
      \/ Past(s.feed, s.steady, s.shown, s.cursor)
  BY DEF SessionOK, Standing
<1>2. \A a \in S : a \in FeedArticles /\ stamp[a] \in Nat \ {0} /\ (s.cursor # 0 => stamp[a] < s.cursor)
  BY DEF Found, Processed, Stamps
<1>3. page.shown \subseteq S
  BY DEF PageSound
<1>4. s.shown \cap page.shown = {}
  <2>1. CASE s.cursor = 0 /\ s.shown = {}
    BY <2>1
  <2>2. CASE Past(s.feed, s.steady, s.shown, s.cursor)
    BY <2>2, <1>2, <1>3 DEF Past, Stamps
  <2> QED
    BY <1>1, <2>1, <2>2
<1>5. ASSUME page.more PROVE Past(s.feed, s.steady, s.shown \cup page.shown, page.next)
  <2>1. PICK b \in S : page.next = stamp[b]
    BY <1>5 DEF PageSound
  <2>2. page.next \in Nat \ {0} /\ (s.cursor # 0 => page.next < s.cursor)
    BY <2>1, <1>2
  <2>3. \A a \in page.shown : a \in FeedArticles /\ page.next <= stamp[a]
    BY <1>2, <1>3, <1>5 DEF PageSound
  <2>4. \A a \in s.shown : a \in FeedArticles /\ page.next <= stamp[a]
    BY <1>1, <2>2 DEF Past, Stamps
  <2>5. ASSUME s.feed \in Gapless, NEW a \in s.steady, page.next <= stamp[a]
        PROVE  a \in s.shown \cup page.shown
    <3>1. a \in Found(s.feed, 0) /\ Matches(s.feed, a)
      BY DEF SessionOK, Steady
    <3>2. CASE s.cursor # 0 /\ s.cursor <= stamp[a]
      BY <1>1, <2>5, <3>2 DEF Past
    <3>3. CASE s.cursor = 0 \/ stamp[a] < s.cursor
      <4>1. a \in S
        BY <3>1, <3>3 DEF Found
      <4> QED
        BY <1>5, <2>5, <3>1, <4>1 DEF PageSound
    <3>4. s.cursor = 0 \/ s.cursor <= stamp[a] \/ stamp[a] < s.cursor
      BY <1>1, <3>1 DEF Past, Found, Processed, Stamps
    <3> QED
      BY <3>2, <3>3, <3>4
  <2> QED
    BY <2>2, <2>3, <2>4, <2>5 DEF Past
<1> QED
  BY <1>4, <1>5

\* One client's session becomes s; nothing else of the feed moves.
LEMMA SessionMoves ==
  ASSUME FeedInv, NEW r \in Clients, NEW s, SessionOK(s),
         session' = [session EXCEPT ![r] = s], UNCHANGED <<stamp, visible, wanted>>,
         spent'.changes = spent.changes,
         spent' = [changes |-> spent'.changes, pages |-> spent'.pages]
  PROVE  FeedInv'
<1>1. session' = [q \in Clients |-> IF q = r THEN s ELSE session[q]]
  BY DEF FeedInv
<1>2. session' = [q \in Clients |-> session'[q]]
  BY <1>1
<1>3. \A q \in Clients : SessionOK(session'[q])
  BY <1>1 DEF FeedInv
<1>4. \A t : SessionOK(t) => SessionOK(t)'
  BY DEF SessionOK, Steady, Standing, Past, Found, Processed, Matches, SessionForm
<1> QED
  BY <1>2, <1>3, <1>4 DEF FeedInv, Stamps
\* No session has begun.
LEMMA FeedInitInv == FeedInit => FeedInv
<1> SUFFICES ASSUME FeedInit PROVE FeedInv
  OBVIOUS
<1>1. PICK k \in 0 .. N : stamp = [a \in FeedArticles |-> IF a <= k THEN a ELSE 0]
  BY DEF FeedInit
<1>2. Stamps /\ \A a \in FeedArticles : stamp[a] <= N
  BY <1>1, FeedAssumption DEF Stamps, FeedArticles
<1>3. SessionOK(NoSession)
  BY DEF SessionOK, SessionForm, Steady, Standing, NoSession, NoPage, AllFeeds
<1>4. spent = [changes |-> 0, pages |-> 0]
  BY DEF FeedInit
<1>5. \A a \in FeedArticles : stamp[a] <= N + spent.changes
  BY <1>2, <1>4, FeedAssumption DEF Stamps
<1> QED
  BY <1>2, <1>3, <1>4, <1>5 DEF FeedInv, FeedInit

\* A request begins: the session asks for the page at its cursor.
LEMMA AskKeeps ==
  ASSUME FeedInv, NEW r \in Clients, NEW s, Ask(r, s),
         SessionForm(s), s.feed \in AllFeeds, Steady(s),
         ~s.fromCache => s.again = {} /\ (\/ s.cursor = 0 /\ s.shown = {}
                                          \/ Past(s.feed, s.steady, s.shown, s.cursor))
  PROVE  FeedInv'
<1> DEFINE t == [s EXCEPT !.phase = IF s.feed \in Cacheable THEN "ask" ELSE "read",
                          !.page = NoPage]
<1>1. /\ session' = [session EXCEPT ![r] = t] /\ UNCHANGED <<stamp, visible, wanted>>
      /\ spent' = [spent EXCEPT !.pages = @ + 1]
  BY DEF Ask
<1>2. /\ SessionForm(t) /\ t.phase \in {"ask", "read"}
      /\ t.feed = s.feed /\ t.cursor = s.cursor /\ t.shown = s.shown /\ t.steady = s.steady
      /\ t.again = s.again /\ t.fromCache = s.fromCache
  BY DEF SessionForm
<1> HIDE DEF t
<1>3. SessionOK(t)
  BY <1>2 DEF SessionOK, Steady, Standing
<1>4. spent'.changes = spent.changes /\ spent' = [changes |-> spent'.changes, pages |-> spent'.pages]
  BY <1>1 DEF FeedInv
<1> QED
  BY <1>1, <1>3, <1>4, SessionMoves

\* The page that reaches the client.
LEMMA ReceiveKeeps ==
  ASSUME NEW s, SessionForm(s), s.feed \in AllFeeds, Steady(s), NEW page, NEW hit \in BOOLEAN,
         ~s.fromCache /\ ~hit =>
           /\ s.again = {} /\ s.shown \cap page.shown = {}
           /\ page.more => Past(s.feed, s.steady, s.shown \cup page.shown, page.next)
  PROVE  SessionOK(Receive(s, page, hit))
<1> DEFINE t == Receive(s, page, hit)
<1>1. SessionForm(t) /\ t.feed = s.feed /\ t.phase = "idle" /\ t.steady = s.steady /\ t.page = page
  BY DEF SessionForm, Receive
<1>2. t.shown = s.shown \cup page.shown /\ t.again = s.again \cup (s.shown \cap page.shown)
  BY DEF SessionForm, Receive
<1>3. t.fromCache <=> s.fromCache \/ hit
  BY DEF SessionForm, Receive
<1> HIDE DEF t
<1>4. Steady(t)
  BY <1>1 DEF Steady
<1>5. ASSUME ~t.fromCache PROVE Standing(t)
  BY <1>1, <1>2, <1>3, <1>5 DEF Standing
<1> QED
  BY <1>1, <1>4, <1>5 DEF SessionOK, t

\* An article changes: no session owes it any more, and stamps only grow.
LEMMA ChangeKeeps ==
  ASSUME FeedInv, NEW a \in FeedArticles, Unsteady(a), Change, Stamps', UNCHANGED wanted,
         \A b \in FeedArticles : stamp[b] <= stamp'[b] /\ stamp'[b] <= N + spent.changes + 1,
         \A b \in FeedArticles \ {a} : stamp'[b] = stamp[b] /\ (b \in visible' <=> b \in visible)
  PROVE  FeedInv'
<1>1. session' = [r \in Clients |-> [session[r] EXCEPT !.steady = @ \ {a}]]
  BY DEF Unsteady
<1>2. spent' = [changes |-> spent.changes + 1, pages |-> spent.pages]
  BY DEF Change, FeedInv
<1>3. ASSUME NEW feed, NEW steady \in SUBSET FeedArticles, NEW given, NEW mark,
             Past(feed, steady, given, mark)
      PROVE  Past(feed, steady \ {a}, given, mark)'
  <2>0. Stamps
    BY DEF FeedInv
  <2>1. \A b \in given : b \in FeedArticles /\ mark <= stamp'[b]
    BY <1>3, <2>0 DEF Past, Stamps
  <2>2. feed \in Gapless => \A b \in steady \ {a} : mark <= stamp'[b] => b \in given
    BY <1>3 DEF Past
  <2> QED
    BY <1>3, <2>1, <2>2 DEF Past
<1>4. ASSUME NEW r \in Clients, NEW t, t = session'[r] PROVE SessionOK(t)'
  <2> DEFINE s == session[r]
  <2>1. SessionOK(s)
    BY DEF FeedInv
  <2>2. /\ SessionForm(t) /\ t.feed = s.feed /\ t.phase = s.phase /\ t.cursor = s.cursor
        /\ t.shown = s.shown /\ t.steady = s.steady \ {a} /\ t.again = s.again
        /\ t.fromCache = s.fromCache /\ t.page = s.page
    BY <1>1, <1>4, <2>1 DEF SessionOK, SessionForm
  <2> HIDE DEF s
  <2>3. s.steady \in SUBSET FeedArticles
    BY <2>1 DEF SessionOK, Steady, Found, Processed
  <2>4. ASSUME NEW b \in t.steady PROVE b \in Found(t.feed, 0)' /\ Matches(t.feed, b)'
    <3>1. b \in s.steady /\ b # a /\ b \in FeedArticles
      BY <2>2, <2>3, <2>4
    <3>2. b \in Found(t.feed, 0) /\ Matches(t.feed, b)
      BY <2>1, <2>2, <3>1 DEF SessionOK, Steady
    <3>3. stamp'[b] = stamp[b] /\ (b \in visible' <=> b \in visible)
      BY <3>1
    <3> QED
      BY <3>2, <3>3 DEF Found, Processed, Matches
  <2>5. Steady(t)'
    BY <2>4 DEF Steady
  <2>6. ASSUME ~t.fromCache PROVE Standing(t)'
    <3>1. Standing(s)
      BY <2>1, <2>2, <2>6 DEF SessionOK
    <3>2. \A given, mark : Past(s.feed, s.steady, given, mark) => Past(t.feed, t.steady, given, mark)'
      BY <2>2, <2>3, <1>3
    <3> QED
      BY <2>2, <3>1, <3>2 DEF Standing
  <2>7. SessionForm(t)' /\ t.feed \in AllFeeds
    BY <2>1, <2>2 DEF SessionOK, SessionForm
  <2> QED
    BY <2>5, <2>6, <2>7 DEF SessionOK
<1>5. session' = [r \in Clients |-> session'[r]]
  BY <1>1
<1>6. spent'.changes = spent.changes + 1 /\ spent'.changes \in Nat
      /\ spent' = [changes |-> spent'.changes, pages |-> spent'.pages]
  BY <1>2 DEF FeedInv
<1>7. \A b \in FeedArticles : stamp'[b] <= N + spent'.changes
  BY <1>6, FeedAssumption DEF FeedInv, Stamps
<1> QED
  BY <1>4, <1>5, <1>6, <1>7 DEF FeedInv, Stamps
\* Every step of readers, pipeline and admins keeps the sessions standing.
LEMMA FeedNextInv == FeedInv /\ [FeedNext]_feedVars => FeedInv'
<1> SUFFICES ASSUME FeedInv, [FeedNext]_feedVars PROVE FeedInv'
  OBVIOUS
<1>1. ASSUME NEW r \in Clients, Start(r) PROVE FeedInv'
  <2>1. PICK feed \in Feeds :
          Ask(r, [NoSession EXCEPT !.feed = feed, !.steady = {a \in Found(feed, 0) : Matches(feed, a)}])
    BY <1>1 DEF Start
  <2> DEFINE steady == {a \in Found(feed, 0) : Matches(feed, a)}
             s == [NoSession EXCEPT !.feed = feed, !.steady = steady]
  <2>2. SessionForm(s) /\ s.feed = feed /\ s.steady = steady
        /\ s.again = {} /\ s.cursor = 0 /\ s.shown = {}
    BY DEF SessionForm, NoSession
  <2>3. Ask(r, s) /\ feed \in AllFeeds
    BY <2>1, FeedAssumption
  <2> HIDE DEF s
  <2>4. Steady(s)
    BY <2>2 DEF Steady
  <2> QED
    BY <2>2, <2>3, <2>4, AskKeeps
<1>2. ASSUME NEW r \in Clients, Continue(r) PROVE FeedInv'
  <2> DEFINE o == session[r]
             s == [o EXCEPT !.cursor = o.page.next]
  <2>1. Ask(r, s) /\ o.phase = "idle" /\ o.page.more /\ SessionOK(o)
    BY <1>2 DEF Continue, FeedInv
  <2> HIDE DEF o
  <2>2. /\ SessionForm(s) /\ s.feed = o.feed /\ s.steady = o.steady /\ s.again = o.again
        /\ s.cursor = o.page.next /\ s.shown = o.shown /\ s.fromCache = o.fromCache
    BY <2>1 DEF SessionOK, SessionForm
  <2> HIDE DEF s
  <2>3. Steady(s) /\ s.feed \in AllFeeds
    BY <2>1, <2>2 DEF SessionOK, Steady
  <2>4. ~s.fromCache => s.again = {} /\ Past(s.feed, s.steady, s.shown, s.cursor)
    BY <2>1, <2>2 DEF SessionOK, Standing
  <2> QED
    BY <2>1, <2>2, <2>3, <2>4, AskKeeps
<1>3. ASSUME NEW r \in Clients, Lookup(r) PROVE FeedInv'
  <2> DEFINE s == session[r]
  <2>1. SessionOK(s) /\ s.phase = "ask"
    BY <1>3 DEF Lookup, FeedInv
  <2>2. /\ UNCHANGED <<stamp, visible, wanted, spent>>
        /\ \/ \E page : session' = [session EXCEPT ![r] = Receive(s, page, TRUE)]
           \/ session' = [session EXCEPT ![r] = [s EXCEPT !.phase = "read", !.key = version]]
    BY <1>3 DEF Lookup
  <2> HIDE DEF s
  <2>3. ASSUME NEW page, session' = [session EXCEPT ![r] = Receive(s, page, TRUE)] PROVE FeedInv'
    <3>1. SessionOK(Receive(s, page, TRUE))
      BY <2>1, ReceiveKeeps DEF SessionOK
    <3> QED
      BY <2>2, <2>3, <3>1, SessionMoves DEF FeedInv
  <2>4. ASSUME session' = [session EXCEPT ![r] = [s EXCEPT !.phase = "read", !.key = version]]
        PROVE  FeedInv'
    <3> DEFINE t == [s EXCEPT !.phase = "read", !.key = version]
    <3>1. /\ SessionForm(t) /\ t.phase = "read" /\ t.feed = s.feed /\ t.cursor = s.cursor
          /\ t.shown = s.shown /\ t.steady = s.steady /\ t.again = s.again
          /\ t.fromCache = s.fromCache
      BY <2>1 DEF SessionOK, SessionForm
    <3> HIDE DEF t
    <3>2. SessionOK(t)
      BY <2>1, <3>1 DEF SessionOK, Steady, Standing
    <3> QED
      BY <2>2, <2>4, <3>2, SessionMoves DEF FeedInv, t
  <2> QED
    BY <2>2, <2>3, <2>4
<1>4. ASSUME NEW r \in Clients, Read(r) PROVE FeedInv'
  <2> DEFINE s == session[r]
  <2>1. SessionOK(s) /\ s.phase = "read"
    BY <1>4 DEF Read, FeedInv
  <2>2. PICK page \in Pages(s.feed, s.cursor) :
          session' = [session EXCEPT ![r] =
            IF s.feed \in Cacheable THEN [s EXCEPT !.phase = "store", !.page = page]
            ELSE Receive(s, page, FALSE)]
    BY <1>4 DEF Read
  <2>3. UNCHANGED <<stamp, visible, wanted, spent>>
    BY <1>4 DEF Read
  <2> HIDE DEF s
  <2>4. PageSound(s.feed, Found(s.feed, s.cursor), page)
    BY <2>1, <2>2, PagesSound DEF SessionOK, FeedInv
  <2>5. ~s.fromCache => /\ s.shown \cap page.shown = {}
                        /\ page.more => Past(s.feed, s.steady, s.shown \cup page.shown, page.next)
    BY <2>1, <2>4, PageContinues DEF FeedInv
  <2>6. CASE s.feed \in Cacheable
    <3> DEFINE t == [s EXCEPT !.phase = "store", !.page = page]
    <3>1. /\ SessionForm(t) /\ t.phase = "store" /\ t.feed = s.feed /\ t.page = page
          /\ t.shown = s.shown /\ t.steady = s.steady /\ t.again = s.again
          /\ t.fromCache = s.fromCache
      BY <2>1 DEF SessionOK, SessionForm
    <3>2. session' = [session EXCEPT ![r] = t]
      BY <2>2, <2>6
    <3> HIDE DEF t
    <3>3. SessionOK(t)
      BY <2>1, <2>5, <3>1 DEF SessionOK, Steady, Standing
    <3> QED
      BY <2>3, <3>2, <3>3, SessionMoves DEF FeedInv
  <2>7. CASE s.feed \notin Cacheable
    <3>1. session' = [session EXCEPT ![r] = Receive(s, page, FALSE)]
      BY <2>2, <2>7
    <3>2. SessionOK(Receive(s, page, FALSE))
      BY <2>1, <2>5, ReceiveKeeps DEF SessionOK, Standing
    <3> QED
      BY <2>3, <3>1, <3>2, SessionMoves DEF FeedInv
  <2> QED
    BY <2>6, <2>7
<1>5. ASSUME NEW r \in Clients, StorePage(r) PROVE FeedInv'
  <2> DEFINE s == session[r]
  <2>1. SessionOK(s) /\ s.phase = "store"
    BY <1>5 DEF StorePage, FeedInv
  <2>2. /\ UNCHANGED <<stamp, visible, wanted, spent>>
        /\ session' = [session EXCEPT ![r] = Receive(s, s.page, FALSE)]
    BY <1>5 DEF StorePage
  <2> HIDE DEF s
  <2>3. SessionOK(Receive(s, s.page, FALSE))
    BY <2>1, ReceiveKeeps DEF SessionOK, Standing
  <2> QED
    BY <2>2, <2>3, SessionMoves DEF FeedInv
<1>6. ASSUME NEW a \in FeedArticles, ProcessArticle(a) PROVE FeedInv'
  <2> DEFINE T == {stamp[b] : b \in FeedArticles}
             m == CHOOSE x \in T : \A b \in FeedArticles : stamp[b] <= x
  <2>1. /\ Unsteady(a) /\ Change /\ UNCHANGED <<visible, wanted>>
        /\ stamp' = [stamp EXCEPT ![a] = 1 + m]
    BY <1>6 DEF ProcessArticle
  <2>2. T \in SUBSET Nat /\ T # {} /\ \A x \in T : x <= N + spent.changes
    BY DEF FeedInv, Stamps
  <2>3. N + spent.changes \in Nat
    BY FeedAssumption DEF FeedInv
  <2>4. \E x \in T : \A y \in T : y <= x
    BY <2>2, <2>3, GreatestElement
  <2>5. m \in T /\ \A b \in FeedArticles : stamp[b] <= m
    BY <2>4
  <2>6. m \in Nat /\ m <= N + spent.changes
    BY <2>2, <2>5
  <2> HIDE DEF m
  <2>7. Stamps' /\ \A b \in FeedArticles \ {a} : stamp'[b] = stamp[b]
    BY <2>1, <2>6 DEF FeedInv, Stamps
  <2>8. stamp'[a] = 1 + m
    BY <2>1 DEF FeedInv, Stamps
  <2>9. \A b \in FeedArticles : stamp[b] <= stamp'[b] /\ stamp'[b] <= N + spent.changes + 1
    BY <2>3, <2>5, <2>6, <2>7, <2>8, FeedAssumption DEF FeedInv, Stamps
  <2> QED
    BY <2>1, <2>7, <2>9, ChangeKeeps
<1>7. ASSUME NEW a \in FeedArticles, ModerateArticle(a) PROVE FeedInv'
  <2>1. /\ Unsteady(a) /\ Change /\ UNCHANGED <<stamp, wanted>>
        /\ visible' = (visible \ {a}) \union ({a} \ visible)
    BY <1>7 DEF ModerateArticle
  <2>2. Stamps' /\ \A b \in FeedArticles : stamp[b] <= stamp'[b] /\ stamp'[b] <= N + spent.changes + 1
    BY <2>1, FeedAssumption DEF FeedInv, Stamps
  <2> QED
    BY <2>1, <2>2, ChangeKeeps
<1>8. ASSUME UNCHANGED <<stamp, visible, wanted, session>>, spent'.changes \in Nat,
             spent.changes <= spent'.changes,
             spent' = [changes |-> spent'.changes, pages |-> spent'.pages]
      PROVE  FeedInv'
  <2>1. \A t : SessionOK(t) => SessionOK(t)'
    BY <1>8 DEF SessionOK, Steady, Standing, Past, Found, Processed, Matches, SessionForm
  <2>2. \A a \in FeedArticles : stamp'[a] <= N + spent'.changes
    BY <1>8, FeedAssumption DEF FeedInv, Stamps
  <2> QED
    BY <1>8, <2>1, <2>2 DEF FeedInv, Stamps
<1>9. CASE InvalidateExplore
  <2>1. spent' = [changes |-> spent.changes + 1, pages |-> spent.pages]
    BY <1>9 DEF InvalidateExplore, Change, FeedInv
  <2>2. spent'.changes = spent.changes + 1 /\ spent'.pages = spent.pages
    BY <2>1
  <2> QED
    BY <1>8, <1>9, <2>1, <2>2 DEF InvalidateExplore, FeedInv
<1>10. CASE PageExpires \/ SecondPasses \/ UNCHANGED feedVars
  BY <1>8, <1>10 DEF PageExpires, SecondPasses, feedVars, FeedInv
<1> QED
  BY <1>1, <1>2, <1>3, <1>4, <1>5, <1>6, <1>7, <1>9, <1>10 DEF FeedNext

(* A client that pages on by cursor, without a page of the cache, is never   *)
(* given an article twice, and the personal, Explore and category feeds      *)
(* leave none out behind the cursor, whatever is processed, requeued or      *)
(* moderated meanwhile: for any number of articles, readers, page and batch  *)
(* sizes.                                                                    *)
THEOREM PagesExactAlways == FeedSpec => []PagesExact
<1>1. FeedInv => PagesExact
  <2>1. ASSUME FeedInv, NEW r \in Clients
        PROVE  session[r].fromCache \/ session[r].again = {}
    BY <2>1 DEF FeedInv, SessionOK, Standing
  <2>2. ASSUME FeedInv, NEW r \in Clients, session[r].feed \in {"home", "explore", "category"},
               session[r].phase = "idle", ~session[r].fromCache,
               NEW a \in session[r].steady, session[r].page.more, stamp[a] >= session[r].page.next
        PROVE  a \in session[r].shown
    <3> DEFINE s == session[r]
    <3>1. Steady(s) /\ Past(s.feed, s.steady, s.shown, s.page.next) /\ Stamps
      BY <2>2 DEF FeedInv, SessionOK, Standing
    <3>2. a \in FeedArticles
      BY <2>2, <3>1 DEF Steady, Found, Processed
    <3>3. s.page.next <= stamp[a]
      BY <2>2, <3>1, <3>2 DEF Past, Stamps
    <3> QED
      BY <2>2, <3>1, <3>3 DEF Past, Gapless
  <2> QED
    BY <2>1, <2>2 DEF PagesExact, NoRepeat, NoGap
<1> QED
  BY FeedInitInv, FeedNextInv, <1>1, PTL DEF FeedSpec
----------------------------------------------------------------------------
(* The cache of the Explore feed.  A key that is still the current one was   *)
(* made after the last invalidation, so what is stored under it was read     *)
(* after it too, unless two invalidations shared a second.                   *)

CurrentOnly(key, page) == key <= version /\ (key = version => page.bumps = bumps)

CacheInv ==
  /\ version \in Nat /\ second \in Nat /\ bumps \in Nat /\ version <= second
  /\ session = [r \in Clients |-> session[r]]
  /\ \A r \in Clients : SessionForm(session[r])
  /\ \A c \in cached : c.version \in Nat
  /\ \A r \in Clients : session[r].key \in Nat
  /\ ~blurred =>
       /\ \A c \in cached : CurrentOnly(c.version, c.page)
       /\ \A r \in Clients : /\ session[r].key <= version
                             /\ session[r].phase = "store" => CurrentOnly(session[r].key, session[r].page)

\* One client's session becomes s.
LEMMA CacheSessionMoves ==
  ASSUME CacheInv, NEW r \in Clients, NEW s, SessionForm(s), s.key \in Nat,
         session' = [session EXCEPT ![r] = s],
         UNCHANGED <<version, second, bumps, blurred>>,
         \A c \in cached' : c \in cached \/ (c.version \in Nat /\ (~blurred => CurrentOnly(c.version, c.page))),
         ~blurred => s.key <= version /\ (s.phase = "store" => CurrentOnly(s.key, s.page))
  PROVE  CacheInv'
<1>1. session' = [q \in Clients |-> IF q = r THEN s ELSE session[q]]
  BY DEF CacheInv
<1>2. session' = [q \in Clients |-> session'[q]]
  BY <1>1
<1>3. \A q \in Clients : session'[q] = s \/ session'[q] = session[q]
  BY <1>1
<1>4. \A key, page : CurrentOnly(key, page) => CurrentOnly(key, page)'
  BY DEF CurrentOnly
<1>5. \A q \in Clients : SessionForm(session'[q]) /\ session'[q].key \in Nat
  BY <1>3 DEF CacheInv
<1>6. \A c \in cached' : c.version \in Nat /\ (~blurred => CurrentOnly(c.version, c.page))
  BY DEF CacheInv
<1>7. ~blurred => \A q \in Clients :
                    /\ session'[q].key <= version
                    /\ session'[q].phase = "store" => CurrentOnly(session'[q].key, session'[q].page)
  BY <1>3 DEF CacheInv
<1> QED
  BY <1>2, <1>4, <1>5, <1>6, <1>7 DEF CacheInv, CurrentOnly, SessionForm

\* Nothing is cached at first.
LEMMA CacheInitInv == FeedInit => CacheInv
<1> SUFFICES ASSUME FeedInit PROVE CacheInv
  OBVIOUS
<1>1. SessionForm(NoSession) /\ NoSession.key = 0 /\ NoSession.phase = "idle"
  BY DEF SessionForm, NoSession
<1> QED
  BY <1>1 DEF FeedInit, CacheInv

\* Every step of readers, pipeline and clock keeps the cached pages current.
LEMMA CacheNextInv == CacheInv /\ [FeedNext]_feedVars => CacheInv'
<1> SUFFICES ASSUME CacheInv, [FeedNext]_feedVars PROVE CacheInv'
  OBVIOUS
<1> DEFINE Kept == UNCHANGED <<version, second, bumps, blurred>>
<1>1. ASSUME NEW r \in Clients, NEW s, Ask(r, s), SessionForm(s), s.key \in Nat,
             ~blurred => s.key <= version
      PROVE  CacheInv'
  <2> DEFINE t == [s EXCEPT !.phase = IF s.feed \in Cacheable THEN "ask" ELSE "read",
                            !.page = NoPage]
  <2>1. SessionForm(t) /\ t.key = s.key /\ t.phase # "store"
    BY <1>1 DEF SessionForm
  <2>2. session' = [session EXCEPT ![r] = t] /\ Kept /\ cached' = cached
    BY <1>1 DEF Ask
  <2> HIDE DEF t
  <2> QED
    BY <1>1, <2>1, <2>2, CacheSessionMoves
<1>2. ASSUME NEW r \in Clients, Start(r) PROVE CacheInv'
  <2>1. PICK feed \in Feeds :
          Ask(r, [NoSession EXCEPT !.feed = feed, !.steady = {a \in Found(feed, 0) : Matches(feed, a)}])
    BY <1>2 DEF Start
  <2> DEFINE s == [NoSession EXCEPT !.feed = feed, !.steady = {a \in Found(feed, 0) : Matches(feed, a)}]
  <2>2. SessionForm(s) /\ s.key = 0
    BY DEF SessionForm, NoSession
  <2>3. Ask(r, s)
    BY <2>1
  <2> HIDE DEF s
  <2>4. s.key \in Nat /\ s.key <= version
    BY <2>2 DEF CacheInv
  <2> QED
    BY <1>1, <2>2, <2>3, <2>4
<1>3. ASSUME NEW r \in Clients, Continue(r) PROVE CacheInv'
  <2> DEFINE s == [session[r] EXCEPT !.cursor = session[r].page.next]
  <2>1. SessionForm(s) /\ s.key = session[r].key
    BY DEF SessionForm, CacheInv
  <2>2. Ask(r, s)
    BY <1>3 DEF Continue
  <2> HIDE DEF s
  <2> QED
    BY <1>1, <2>1, <2>2 DEF CacheInv
<1>4. ASSUME NEW r \in Clients, NEW page, NEW hit, Kept,
             session' = [session EXCEPT ![r] = Receive(session[r], page, hit)],
             \A c \in cached' : c \in cached \/ (c.version \in Nat /\ (~blurred => CurrentOnly(c.version, c.page)))
      PROVE  CacheInv'
  <2> DEFINE s == Receive(session[r], page, hit)
  <2>1. SessionForm(s) /\ s.key = 0 /\ s.phase = "idle"
    BY DEF SessionForm, CacheInv, Receive
  <2> HIDE DEF s
  <2> QED
    BY <1>4, <2>1, CacheSessionMoves DEF s, CacheInv
<1>5. ASSUME NEW r \in Clients, Lookup(r) PROVE CacheInv'
  <2> DEFINE s == session[r]
             t == [s EXCEPT !.phase = "read", !.key = version]
  <2>1. /\ Kept /\ cached' = cached
        /\ \/ \E page : session' = [session EXCEPT ![r] = Receive(s, page, TRUE)]
           \/ session' = [session EXCEPT ![r] = t]
    BY <1>5 DEF Lookup
  <2>2. SessionForm(t) /\ t.key = version /\ t.phase = "read"
    BY DEF SessionForm, CacheInv
  <2> HIDE DEF t
  <2>3. CASE session' = [session EXCEPT ![r] = t]
    BY <2>1, <2>2, <2>3, CacheSessionMoves DEF CacheInv
  <2>4. CASE \E page : session' = [session EXCEPT ![r] = Receive(s, page, TRUE)]
    BY <1>4, <2>1, <2>4
  <2> QED
    BY <2>1, <2>3, <2>4
<1>6. ASSUME NEW r \in Clients, Read(r) PROVE CacheInv'
  <2> DEFINE s == session[r]
  <2>1. PICK page \in Pages(s.feed, s.cursor) :
          session' = [session EXCEPT ![r] =
            IF s.feed \in Cacheable THEN [s EXCEPT !.phase = "store", !.page = page]
            ELSE Receive(s, page, FALSE)]
    BY <1>6 DEF Read
  <2>2. Kept /\ cached' = cached /\ SessionForm(s) /\ s.key \in Nat /\ (~blurred => s.key <= version)
    BY <1>6 DEF Read, CacheInv
  <2>3. CASE s.feed \in Cacheable
    <3> DEFINE t == [s EXCEPT !.phase = "store", !.page = page]
    <3>1. SessionForm(t) /\ t.key = s.key /\ t.page = page
      BY <2>2 DEF SessionForm
    <3>2. page.bumps = bumps
      <4>1. page = Explore(s.feed, s.cursor)
        BY <2>1, <2>3 DEF Pages, Cacheable
      <4> QED
        BY <4>1 DEF Explore, PageOf
    <3>3. session' = [session EXCEPT ![r] = t]
      BY <2>1, <2>3
    <3> HIDE DEF t, s
    <3>4. ~blurred => t.key <= version /\ CurrentOnly(t.key, t.page)
      BY <2>2, <3>1, <3>2 DEF CurrentOnly
    <3> QED
      BY <2>2, <3>1, <3>3, <3>4, CacheSessionMoves
  <2>4. CASE s.feed \notin Cacheable
    BY <1>4, <2>1, <2>2, <2>4
  <2> QED
    BY <2>3, <2>4
<1>7. ASSUME NEW r \in Clients, StorePage(r) PROVE CacheInv'
  <2> DEFINE s == session[r]
             c == [version |-> s.key, feed |-> s.feed, cursor |-> s.cursor, page |-> s.page]
  <2>1. /\ Kept /\ s.phase = "store" /\ cached' \subseteq cached \union {c}
        /\ session' = [session EXCEPT ![r] = Receive(s, s.page, FALSE)]
    BY <1>7 DEF StorePage
  <2>2. c.version = s.key /\ c.page = s.page
    OBVIOUS
  <2> HIDE DEF c
  <2>3. c.version \in Nat /\ (~blurred => CurrentOnly(c.version, c.page))
    BY <2>1, <2>2 DEF CacheInv
  <2> QED
    BY <1>4, <2>1, <2>3
<1>8. ASSUME UNCHANGED <<session, version, bumps, blurred>>, cached' \subseteq cached,
             second' \in Nat, second <= second'
      PROVE  CacheInv'
  BY <1>8 DEF CacheInv, CurrentOnly, SessionForm
<1>9. CASE InvalidateExplore
  <2>1. /\ version' = second /\ bumps' = bumps + 1 /\ (blurred' <=> (blurred \/ version = second))
        /\ UNCHANGED <<session, cached, second>>
    BY <1>9 DEF InvalidateExplore
  <2>2. ASSUME ~blurred', NEW key \in Nat, key <= version, NEW page PROVE CurrentOnly(key, page)'
    BY <2>1, <2>2 DEF CacheInv, CurrentOnly
  <2>3. ASSUME ~blurred'
        PROVE  /\ \A c \in cached : CurrentOnly(c.version, c.page)'
               /\ \A r \in Clients : session[r].key <= version'
               /\ \A r \in Clients : CurrentOnly(session[r].key, session[r].page)'
    <3>1. \A c \in cached : c.version \in Nat /\ c.version <= version
      BY <2>1, <2>3 DEF CacheInv, CurrentOnly
    <3>2. \A r \in Clients : session[r].key \in Nat /\ session[r].key <= version
      BY <2>1, <2>3 DEF CacheInv
    <3>3. \A r \in Clients : session[r].key <= version'
      BY <3>2, <2>1 DEF CacheInv
    <3> QED
      BY <2>2, <2>3, <3>1, <3>2, <3>3, <2>1
  <2> QED
    BY <2>1, <2>3 DEF CacheInv, SessionForm, CurrentOnly
<1>10. ASSUME NEW a, ProcessArticle(a) \/ ModerateArticle(a) PROVE CacheInv'
  <2>1. /\ Unsteady(a) /\ Kept /\ cached' = cached
    BY <1>10 DEF ProcessArticle, ModerateArticle
  <2>2. session' = [r \in Clients |-> session'[r]]
    BY <2>1 DEF Unsteady
  <2>3. \A r \in Clients : /\ SessionForm(session'[r]) /\ session'[r].key = session[r].key
                          /\ session'[r].phase = session[r].phase /\ session'[r].page = session[r].page
    BY <2>1 DEF Unsteady, CacheInv, SessionForm
  <2> QED
    BY <2>1, <2>2, <2>3 DEF CacheInv, CurrentOnly, SessionForm
<1>11. CASE PageExpires \/ SecondPasses \/ UNCHANGED feedVars
  BY <1>8, <1>11 DEF PageExpires, SecondPasses, feedVars, CacheInv
<1> QED
  BY <1>2, <1>3, <1>5, <1>6, <1>7, <1>9, <1>10, <1>11 DEF FeedNext

(* No page that was read before an invalidation is served from the cache     *)
(* after it, even when it was being computed at that time, unless two        *)
(* invalidations fell in one second: for any number of readers and pages.    *)
THEOREM FreshCacheAlways == FeedSpec => FreshCache
<1>1. ASSUME CacheInv, NEW r \in Clients, Lookup(r), session'[r].phase = "idle"
      PROVE  blurred \/ session'[r].page.bumps = bumps
  <2> DEFINE s == session[r]
             hits == {c \in cached : c.version = version /\ c.feed = s.feed /\ c.cursor = s.cursor}
  <2>1. CASE hits # {}
    <3>1. PICK c \in hits : session' = [session EXCEPT ![r] = Receive(s, c.page, TRUE)]
      BY <1>1, <2>1 DEF Lookup
    <3>2. session'[r] = Receive(s, c.page, TRUE)
      BY <1>1, <3>1 DEF CacheInv
    <3>3. session'[r].page = c.page
      BY <1>1, <3>2 DEF Receive, CacheInv, SessionForm
    <3> QED
      BY <1>1, <3>1, <3>3 DEF CacheInv, CurrentOnly
  <2>2. CASE hits = {}
    <3>1. session' = [session EXCEPT ![r] = [s EXCEPT !.phase = "read", !.key = version]]
      BY <1>1, <2>2 DEF Lookup
    <3>2. session'[r].phase = "read"
      BY <1>1, <3>1 DEF CacheInv, SessionForm
    <3> QED
      BY <1>1, <3>2
  <2> QED
    BY <2>1, <2>2
<1>2. CacheInv => (\A r \in Clients : Lookup(r) /\ session'[r].phase = "idle"
                     => blurred \/ session'[r].page.bumps = bumps)
  BY <1>1
<1> QED
  BY CacheInitInv, CacheNextInv, <1>2, PTL DEF FeedSpec, FreshCache

----------------------------------------------------------------------------
(* The types of what a fact check heard and of what a pass stores.           *)

Verdicts == Settled \cup {"supports_ml", "contradicts_ml", "mixed", "inconclusive"}
Heard == [label : Labels \cup {NoLabel}, verdict : Verdicts]

(* Comparing a suggestion with the model keeps its label.                    *)
LEMMA FinalizeTyped ==
  ASSUME NEW l \in Labels \cup {NoLabel}, NEW v \in Verdicts, NEW ml
  PROVE  Finalize(Result(l, v), ml) \in Heard
<1>1. Finalize(Result(l, v), ml) = Result(l, v)
        \/ \E w \in {"contradicts_ml", "supports_ml", "mixed"} : Finalize(Result(l, v), ml) = Result(l, w)
  BY DEF Finalize, Result
<1>. QED BY <1>1 DEF Heard, Verdicts, Result

(* Every provider answers with a label or none and one of the verdicts.      *)
LEMMA VerifyTyped ==
  ASSUME NEW p \in Providers, NEW a \in Answers(p), NEW ml \in Labels
  PROVE  Verify(p, a, ml) \in Heard
<1>1. CASE p \in Knowledge
  <2>1. a \in {"hits", "none", "error"} /\ Verify(p, a, ml) = KnowledgeCheck(a, ml)
    BY <1>1 DEF Answers, Verify
  <2>2. \E l \in Labels \cup {NoLabel}, v \in Verdicts : KnowledgeCheck(a, ml) = Finalize(Result(l, v), ml)
    <3>1. CASE a = "error"
      BY <3>1 DEF KnowledgeCheck, Verdicts, Settled
    <3>2. CASE a = "none"
      BY <3>2 DEF KnowledgeCheck, KnowledgeHit, Verdicts, Settled, Labels
    <3>3. CASE a = "hits"
      BY <3>3 DEF KnowledgeCheck, KnowledgeHit, Verdicts, Settled, Labels
    <3>. QED BY <2>1, <3>1, <3>2, <3>3
  <2>. QED BY <2>1, <2>2, FinalizeTyped
<1>2. CASE p \notin Knowledge
  <2>1. /\ a \in {"none", "error", "nokey", "unrated", "rated0", "rated1", "rated2"}
        /\ Verify(p, a, ml) = GoogleCheck(a)
    BY <1>2 DEF Answers, Verify
  <2>. QED BY <2>1 DEF GoogleCheck, Result, Heard, Verdicts, Settled, Labels
<1>. QED BY <1>1, <1>2

CheckTyped ==
  /\ CheckTypeOK /\ IsFiniteSet(asked) /\ heard \in Seq(Heard)

\* A check begins with one of the configured lists and an answer of the model.
LEMMA CheckInitTyped == CheckInit => CheckTyped
<1>. SUFFICES ASSUME CheckInit PROVE CheckTyped
  OBVIOUS
<1>1. model.label \in Labels /\ model.probs \in Weights /\ model.max \in Nat
  BY FactCheckAssumption, DetectionHonest DEF CheckInit, Honest
<1>. QED BY <1>1, FS_EmptySet DEF CheckInit, CheckTyped, CheckTypeOK

\* Each answer is heard once.
LEMMA CheckNextTyped == CheckTyped /\ [CheckNext]_checkVars => CheckTyped'
<1>. SUFFICES ASSUME CheckTyped, [CheckNext]_checkVars PROVE CheckTyped'
  OBVIOUS
<1>1. ASSUME NEW p \in ToSet(sources), NEW answer \in Answers(p), Answer(p, answer)
      PROVE  CheckTyped'
  <2>1. /\ p \notin asked /\ asked' = asked \cup {p} /\ UNCHANGED <<sources, parallel, model>>
        /\ heard' = Append(heard, Verify(p, answer, model.label))
    BY <1>1 DEF Answer
  <2>2. p \in Providers
    <3>1. sources \in Seq(Providers)
      BY FactCheckAssumption DEF CheckTyped, CheckTypeOK
    <3>. QED BY <3>1 DEF ToSet
  <2>3. Verify(p, answer, model.label) \in Heard
    BY <2>2, VerifyTyped DEF CheckTyped, CheckTypeOK
  <2>4. heard' \in Seq(Heard) /\ Len(heard') = Len(heard) + 1
    BY <2>1, <2>3 DEF CheckTyped
  <2>5. IsFiniteSet(asked') /\ Cardinality(asked') = Cardinality(asked) + 1
    BY <2>1, FS_AddElement DEF CheckTyped
  <2>6. \A i \in DOMAIN heard' : heard'[i].label \in Labels \cup {NoLabel}
    <3>1. \A i \in DOMAIN heard' : heard'[i] \in Heard
      BY <2>4
    <3>. QED BY <3>1 DEF Heard
  <2>7. asked' \subseteq ToSet(sources)
    BY <2>1 DEF CheckTyped, CheckTypeOK
  <2>. QED BY <2>1, <2>4, <2>5, <2>6, <2>7 DEF CheckTyped, CheckTypeOK
<1>2. CASE UNCHANGED checkVars
  BY <1>2 DEF checkVars, CheckTyped, CheckTypeOK
<1>. QED BY <1>1, <1>2 DEF CheckNext

(* Type correctness of a fact check: each provider of the list that answered *)
(* was heard once, and the results have labels.                              *)
THEOREM CheckTypeCorrect == CheckSpec => []CheckTypeOK
BY CheckInitTyped, CheckNextTyped, PTL DEF CheckSpec, CheckTyped

----------------------------------------------------------------------------
(* The verdict of an aggregation is one of the words the views know.         *)
LEMMA AggregateSays ==
  ASSUME NEW r, NEW ml
  PROVE  Aggregate(r, ml).verdict \in Verdicts
<1>1. CountedVerdict(r) \in Verdicts
  BY DEF CountedVerdict, Verdicts, Settled
<1>2. \A l, v : v \in Verdicts => Finalize(Result(l, v), ml).verdict \in Verdicts
  BY DEF Finalize, Result, Verdicts
<1>3. CASE r = <<>>
  BY <1>3 DEF Aggregate, Result, Verdicts, Settled
<1>4. CASE r # <<>>
  BY <1>1, <1>2, <1>4 DEF Aggregate
<1>. QED BY <1>3, <1>4

(* A part of a whole is a probability.                                       *)
LEMMA PartBounded ==
  ASSUME NEW a \in Nat, NEW b \in Nat \ {0}, a <= b
  PROVE  Part(a, b) \in 0..Unit
<1> DEFINE u == Unit
           q == (a * u) \div b
<1>1. u \in Nat
  BY CredibilityAssumption
<1>2. a * u \in Nat /\ a * u <= b * u
  BY <1>1
<1>3. q \in Nat /\ b * q <= a * u
  BY <1>2
<1>4. q <= u
  <2>1. SUFFICES ASSUME q >= u + 1 PROVE FALSE
    BY <1>1, <1>3
  <2>2. b * q >= b * (u + 1) /\ b * (u + 1) = b * u + b
    BY <1>1, <1>3, <2>1
  <2> QED
    BY <1>1, <1>2, <1>3, <2>2
<1> QED
  BY <1>3, <1>4 DEF Part

(* What is stored of a probability is one, up to the two hundredths by which *)
(* three numbers may miss a sum of one.                                      *)
Probable(n) == n \in Nat /\ 50 * n <= 51 * Unit

\* So it is after the rescaling, and for a class that was given a share.
LEMMA RescaledTyped ==
  ASSUME NEW p \in Weights
  PROVE  (\A l \in Labels : Probable(Rescaled(p)[l])) /\ Probable(Doubted(Rescaled(p)))
<1>1. /\ Unit \in Nat \ {0} /\ Mass(p) \in Nat /\ \A l \in Labels : p[l] \in Nat /\ p[l] <= Mass(p)
  BY CredibilityAssumption DEF Weights, Mass, Labels, Real, Fake, Suspicious
<1>2. \A n \in 0..Unit : Probable(n)
  BY <1>1 DEF Probable
<1>3. \A l \in Labels : Rescaled(p)[l] \in Nat /\ Probable(Rescaled(p)[l])
  <2>1. CASE Mass(p) = 0
    BY <1>1, <1>2, <2>1 DEF Rescaled
  <2>2. CASE Mass(p) # 0 /\ Whole(p)
    <3>1. 50 * Mass(p) <= 51 * Unit
      BY <1>1, <2>2 DEF Whole
    <3>2. \A l \in Labels : Rescaled(p)[l] = p[l]
      BY <2>2 DEF Rescaled
    <3> QED
      BY <1>1, <3>1, <3>2 DEF Probable
  <2>3. CASE Mass(p) # 0 /\ ~Whole(p)
    <3>1. ASSUME NEW l \in Labels PROVE Rescaled(p)[l] \in 0..Unit
      <4>1. Part(p[l], Mass(p)) \in 0..Unit
        BY <1>1, <2>3, PartBounded
      <4> QED
        BY <2>3, <4>1 DEF Rescaled
    <3> QED
      BY <1>1, <1>2, <3>1
  <2> QED
    BY <2>1, <2>2, <2>3
<1> DEFINE decided == Rescaled(p)[Real] + Rescaled(p)[Fake]
           given   == Max({Unit \div 4, Unit - decided})
<1>4. decided \in Nat
  BY <1>3 DEF Labels
<1> HIDE DEF decided
<1>5. given \in Nat /\ decided + given \in Nat \ {0} /\ given <= decided + given
  <2>1. Unit \div 4 \in Nat /\ Unit - decided \in Int
    BY <1>1, <1>4
  <2>2. /\ given \in {Unit \div 4, Unit - decided}
        /\ given >= Unit \div 4 /\ given >= Unit - decided
    <3>1. \E x \in {Unit \div 4, Unit - decided} :
             \A y \in {Unit \div 4, Unit - decided} : x >= y
      BY <2>1
    <3> QED
      BY <3>1 DEF Max
  <2> HIDE DEF given
  <2> QED
    BY <1>1, <1>4, <2>1, <2>2
<1>6. Doubted(Rescaled(p)) = Part(given, decided + given)
  BY DEF Doubted, decided
<1> HIDE DEF given
<1> QED
  BY <1>2, <1>3, <1>5, <1>6, PartBounded

(* What a pass says of an article: a label, a verdict and a probability.     *)
LEMMA OutcomesTyped ==
  ASSUME NEW o \in Outcomes
  PROVE  /\ o.label \in Labels /\ o.verdict \in Verdicts
         /\ Probable(o.max) /\ o.real \in Nat /\ o.whole \in BOOLEAN
<1>0. PICK ml \in FakeDetection(Numbers), c \in Checks : o \in OutcomesOf(ml, c)
  BY DEF Outcomes
<1>1. PICK r : o = Combine(ml, Aggregate(r, ml.label))
  BY <1>0 DEF OutcomesOf
<1>2. o.label \in Labels
  BY OutcomesLabelled
<1>3. PICK l : o = Judged(ml, l, Aggregate(r, ml.label).verdict)
  BY <1>1 DEF Combine
<1>4. /\ o.label = l /\ o.verdict = Aggregate(r, ml.label).verdict
      /\ o.max \in {Doubted(Rescaled(ml.probs)), Rescaled(ml.probs)[l]}
      /\ o.real = ml.probs[Real] /\ o.whole \in BOOLEAN
  BY <1>3 DEF Judged, Whole
<1>5. ml.probs \in Weights
  BY ModerationAssumption, DetectionHonest DEF Honest
<1>6. o.real \in Nat
  BY <1>4, <1>5 DEF Weights, Labels
<1>. QED BY <1>2, <1>4, <1>5, <1>6, AggregateSays, RescaledTyped

Statuses == {"absent", "review", "approved", "rejected"}
ArticleDoc == [here : BOOLEAN, label : Labels, verdict : Verdicts, max : {n \in Nat : Probable(n)},
               real : Nat, whole : BOOLEAN, status : Statuses]
Writers == {"rule", "admin", "reprocess", "late"}

ModTyped == doc \in [Docs -> ArticleDoc] /\ author \in [Docs -> Writers]

\* The documents a deployment starts with have their types.
LEMMA ModInitTyped == ModInit => ModTyped
<1>1. NoDoc \in ArticleDoc
  BY CredibilityAssumption DEF NoDoc, ArticleDoc, Probable, Labels, Verdicts, Settled, Statuses
<1>2. ASSUME NEW r \in Legacy PROVE r \in ArticleDoc
  <2>1. PICK l \in Labels, v \in {"disabled", "supports_ml"} :
          r = StoredDoc(LegacyOutcome(l, v), "absent")
    BY DEF Legacy
  <2>. DEFINE x == IF l = Real THEN Threshold ELSE 0
  <2>2. r = [here |-> TRUE, label |-> l, verdict |-> v, max |-> Threshold, real |-> x,
             whole |-> TRUE, status |-> "absent"]
    BY <2>1 DEF StoredDoc, LegacyOutcome
  <2>3. v \in Verdicts /\ Probable(Threshold) /\ Threshold \in Nat /\ "absent" \in Statuses
    BY CredibilityAssumption DEF Probable, Verdicts, Settled, Statuses
  <2>4. x \in Nat
    BY <2>3
  <2>. HIDE DEF x
  <2>. QED BY <2>2, <2>3, <2>4 DEF ArticleDoc
<1>. QED BY <1>1, <1>2 DEF ModInit, ModTyped, Writers

\* Every writer of an article keeps them.
LEMMA ModNextTyped == ModTyped /\ [ModNext]_modVars => ModTyped'
<1>. SUFFICES ASSUME ModTyped, [ModNext]_modVars PROVE ModTyped'
  OBVIOUS
<1>1. \A o \in Outcomes, s \in Statuses : StoredDoc(o, s) \in ArticleDoc
  <2>1. ASSUME NEW o \in Outcomes, NEW s \in Statuses PROVE StoredDoc(o, s) \in ArticleDoc
    <3>1. /\ o.label \in Labels /\ o.verdict \in Verdicts /\ o.max \in {n \in Nat : Probable(n)}
          /\ o.real \in Nat /\ o.whole \in BOOLEAN
      BY OutcomesTyped DEF Probable
    <3>. QED BY <3>1 DEF StoredDoc, ArticleDoc
  <2>. QED BY <2>1
<1>2. \A r : InitialStatus(r) \in Statuses
  BY DEF InitialStatus, Statuses
<1>3. ASSUME NEW d \in Docs, NEW r \in ArticleDoc, NEW a \in Writers,
             doc' = [doc EXCEPT ![d] = r], author' = [author EXCEPT ![d] = a] \/ author' = author
      PROVE  ModTyped'
  BY <1>3 DEF ModTyped
<1>4. ASSUME NEW d \in Docs, NEW s \in Statuses, NEW a \in Writers,
             doc' = [doc EXCEPT ![d].status = s], author' = [author EXCEPT ![d] = a]
      PROVE  ModTyped'
  <2>. DEFINE r == [doc[d] EXCEPT !.status = s]
  <2>1. r \in ArticleDoc
    BY DEF ModTyped, ArticleDoc
  <2>2. doc' = [doc EXCEPT ![d] = r]
    BY <1>4
  <2>. HIDE DEF r
  <2>. QED BY <1>3, <1>4, <2>1, <2>2
<1>5. ASSUME NEW d \in Docs, Publish(d) PROVE ModTyped'
  <2>1. PICK o \in Outcomes : doc' = [doc EXCEPT ![d] = StoredDoc(o, InitialStatus(o))]
    BY <1>5 DEF Publish
  <2>2. StoredDoc(o, InitialStatus(o)) \in ArticleDoc
    BY <1>1, <1>2
  <2>. QED BY <1>3, <1>5, <2>1, <2>2 DEF Publish, Writers
<1>6. ASSUME NEW d \in Docs, Rescore(d) PROVE ModTyped'
  <2>1. PICK o \in Outcomes : doc' = [doc EXCEPT ![d] = StoredDoc(o, doc[d].status)]
    BY <1>6 DEF Rescore
  <2>2. StoredDoc(o, doc[d].status) \in ArticleDoc
    BY <1>1 DEF ModTyped, ArticleDoc
  <2>. QED BY <1>3, <1>6, <2>1, <2>2 DEF Rescore, Writers
<1>7. ASSUME NEW d \in Docs, NEW s \in {"review", "approved", "rejected"}, Decide(d, s) PROVE ModTyped'
  BY <1>4, <1>7 DEF Decide, Writers, Statuses
<1>8. ASSUME NEW d \in Docs, RemoveArticle(d) PROVE ModTyped'
  <2>1. NoDoc \in ArticleDoc
    BY CredibilityAssumption DEF NoDoc, ArticleDoc, Probable, Labels, Verdicts, Settled, Statuses
  <2>. QED BY <1>3, <1>8, <2>1 DEF RemoveArticle, Writers
<1>9. ASSUME NEW d \in Docs, BackfillWrite(d) PROVE ModTyped'
  <2>1. CASE UNCHANGED <<doc, author>>
    BY <2>1 DEF ModTyped
  <2>2. CASE ~UNCHANGED <<doc, author>>
    <3>. DEFINE a == IF backfill.seen = Rated(doc[d]) THEN "rule" ELSE "late"
    <3>1. /\ doc' = [doc EXCEPT ![d].status = InitialStatus(backfill.seen)]
          /\ author' = [author EXCEPT ![d] = a]
      BY <1>9, <2>2 DEF BackfillWrite
    <3>2. a \in Writers
      BY DEF Writers
    <3>. HIDE DEF a
    <3>. QED BY <1>2, <1>4, <3>1, <3>2
  <2>. QED BY <2>1, <2>2
<1>10. ASSUME NEW d \in Docs, BackfillRead(d) PROVE ModTyped'
  BY <1>10 DEF BackfillRead, ModTyped
<1>11. CASE UNCHANGED modVars
  BY <1>11 DEF modVars, ModTyped
<1>. QED BY <1>5, <1>6, <1>7, <1>8, <1>9, <1>10, <1>11 DEF ModNext

(* Type correctness of moderation: whatever is stored of an article has a    *)
(* label, a verdict and a status that the rules and the admin's list know.   *)
THEOREM ModTypeCorrect == ModSpec => []ModTypeOK
<1>1. ModTyped => ModTypeOK
  BY DEF ModTyped, ModTypeOK, ArticleDoc, Probable, Verdicts, Statuses, Writers
<1>. QED BY ModInitTyped, ModNextTyped, <1>1, PTL DEF ModSpec

----------------------------------------------------------------------------
(* The types of pages, sessions and cache.                                   *)

(* A page made of what the finds returned has the fields of a page.          *)
LEMMA PageTyped ==
  ASSUME Stamps, bumps \in Nat, NEW shown \in SUBSET FeedArticles,
         NEW seen \in SUBSET FeedArticles, NEW more \in BOOLEAN
  PROVE  PageOf(shown, seen, more) \in Page
<1>1. CursorOf(seen) \in Nat
  <2>1. CASE seen = {}
    BY <2>1 DEF CursorOf
  <2>2. CASE seen # {}
    BY <2>2, CursorIsLast DEF Stamps
  <2>. QED BY <2>1, <2>2
<1>. DEFINE goes == more /\ seen # {}
            at == IF more THEN CursorOf(seen) ELSE 0
<1>2. goes \in BOOLEAN /\ at \in Nat
  BY <1>1
<1>3. PageOf(shown, seen, more) = [shown |-> shown, next |-> at, more |-> goes, bumps |-> bumps]
  BY DEF PageOf
<1>. HIDE DEF goes, at
<1>. QED BY <1>2, <1>3 DEF Page

(* So has every page of every feed.                                          *)
LEMMA PagesTyped ==
  ASSUME Stamps, bumps \in Nat, NEW feed \in AllFeeds, NEW cursor, NEW page \in Pages(feed, cursor)
  PROVE  page \in Page
<1>1. CASE feed = "home"
  <2>. DEFINE S == Found("home", cursor)
              hits == First(PageSize, S \cap wanted)
              full == Cardinality(hits) = PageSize
              seen == {a \in S : full => stamp[a] >= CursorOf(hits)}
              more == full /\ Cardinality(InBatch(S, BatchOf(Cardinality(seen)))) = Batch
  <2>1. page = PageOf(hits, seen, more)
    BY <1>1 DEF Pages, Home, Cacheable
  <2>2. hits \in SUBSET FeedArticles /\ seen \in SUBSET FeedArticles /\ more \in BOOLEAN
    BY DEF First, Found, Processed
  <2>. HIDE DEF hits, seen, more
  <2>. QED BY <2>1, <2>2, PageTyped
<1>2. CASE feed \in Cacheable
  <2>. DEFINE limit == IF feed = "category" /\ PageSize > Batch THEN PageSize ELSE Batch
              batch == First(limit, Found(feed, cursor))
              shown == First(PageSize, batch)
              more == Cardinality(batch) >= Batch
  <2>1. page = PageOf(shown, shown, more)
    BY <1>2 DEF Pages, Explore, Cacheable
  <2>2. shown \in SUBSET FeedArticles /\ more \in BOOLEAN
    BY DEF First, Found, Processed
  <2>. HIDE DEF shown, more
  <2>. QED BY <2>1, <2>2, PageTyped
<1>3. CASE feed \in {"search", "pics"}
  <2>. DEFINE S == Found(feed, cursor)
              hits == S \cap wanted
              need(k) == PageSize - Cardinality({a \in hits : BatchOf(Rank(a, S)) < k})
              fill == {k \in 1 .. N : Cardinality(hits \cap InBatch(S, k)) >= need(k)}
  <2>0. S \in SUBSET FeedArticles
    BY DEF Found, Processed
  <2>1. page \in Ranked(feed, cursor)
    BY <1>3 DEF Pages, Cacheable
  <2>2. CASE fill = {}
    <3>1. page = PageOf(hits, S, FALSE)
      BY <2>1, <2>2 DEF Ranked
    <3>. QED BY <2>0, <3>1, PageTyped
  <2>3. CASE fill # {}
    <3>. DEFINE k == CHOOSE i \in fill : \A j \in fill : i <= j
                seen == {a \in S : BatchOf(Rank(a, S)) <= k}
                before == {a \in hits : BatchOf(Rank(a, S)) < k}
                more == Cardinality(InBatch(S, k)) = Batch
    <3>1. PICK T \in SUBSET (hits \cap InBatch(S, k)) : page = PageOf(before \union T, seen, more)
      BY <2>1, <2>3 DEF Ranked
    <3>2. before \union T \in SUBSET FeedArticles /\ seen \in SUBSET FeedArticles /\ more \in BOOLEAN
      BY <2>0
    <3>. HIDE DEF before, seen, more
    <3>. QED BY <3>1, <3>2, PageTyped
  <2>. QED BY <2>2, <2>3
<1>. QED BY <1>1, <1>2, <1>3 DEF AllFeeds, Cacheable

\* One client's session becomes another one, and pages are added to the cache.
LEMMA SessionTyped ==
  ASSUME FeedTypeOK, NEW r \in Clients, NEW s \in Session,
         session' = [session EXCEPT ![r] = s], UNCHANGED <<stamp, visible, wanted>>,
         UNCHANGED <<version, second, bumps, blurred>>, spent' \in [changes : Nat, pages : Nat],
         cached' \subseteq [version : Nat, feed : AllFeeds, cursor : Nat, page : Page]
  PROVE  FeedTypeOK'
<1>1. session' \in [Clients -> Session]
  BY DEF FeedTypeOK
<1>. QED BY <1>1 DEF FeedTypeOK, Session, Page

\* What reaches a client makes a session.
LEMMA ReceiveTyped ==
  ASSUME NEW s \in Session, NEW page \in Page, NEW hit \in BOOLEAN
  PROVE  Receive(s, page, hit) \in Session
<1>. DEFINE shown == s.shown \union page.shown
            again == s.again \union (s.shown \cap page.shown)
            from == s.fromCache \/ hit
<1>1. s.shown \in SUBSET FeedArticles /\ s.again \in SUBSET FeedArticles /\ s.fromCache \in BOOLEAN
  BY DEF Session
<1>2. page.shown \in SUBSET FeedArticles
  BY DEF Page
<1>3. shown \in SUBSET FeedArticles /\ again \in SUBSET FeedArticles /\ from \in BOOLEAN
  BY <1>1, <1>2
<1>4. Receive(s, page, hit)
        = [s EXCEPT !.phase = "idle", !.page = page, !.shown = shown, !.again = again,
                    !.key = 0, !.fromCache = from]
  BY DEF Receive
<1>. HIDE DEF shown, again, from
<1>5. [s EXCEPT !.phase = "idle", !.page = page, !.shown = shown, !.again = again,
                !.key = 0, !.fromCache = from] \in Session
  BY <1>3 DEF Session
<1>. QED BY <1>4, <1>5

\* A request that begins.
LEMMA AskTyped ==
  ASSUME FeedTypeOK, NEW r \in Clients, NEW s \in Session, Ask(r, s)
  PROVE  FeedTypeOK'
<1>. DEFINE t == [s EXCEPT !.phase = IF s.feed \in Cacheable THEN "ask" ELSE "read", !.page = NoPage]
<1>1. NoPage \in Page
  BY DEF NoPage, Page
<1>2. t \in Session
  BY <1>1 DEF Session
<1>3. spent' \in [changes : Nat, pages : Nat]
  BY DEF Ask, FeedTypeOK
<1>4. session' = [session EXCEPT ![r] = t]
  BY DEF Ask
<1>. HIDE DEF t
<1>. QED BY <1>2, <1>3, <1>4, SessionTyped DEF Ask, FeedTypeOK

\* No session has begun and nothing is cached.
LEMMA FeedInitTyped == FeedInit => FeedTypeOK
<1>. SUFFICES ASSUME FeedInit PROVE FeedTypeOK
  OBVIOUS
<1>1. NoPage \in Page
  BY DEF NoPage, Page
<1>2. NoSession \in Session
  BY <1>1 DEF NoSession, Session, AllFeeds
<1>3. stamp \in [FeedArticles -> Nat]
  BY FeedAssumption DEF FeedInit, FeedArticles
<1>. QED BY <1>2, <1>3 DEF FeedInit, FeedTypeOK

\* An article that changes leaves every session one.
LEMMA UnsteadyTyped ==
  ASSUME FeedTypeOK, NEW a, Unsteady(a)
  PROVE  session' \in [Clients -> Session]
<1>1. ASSUME NEW r \in Clients PROVE [session[r] EXCEPT !.steady = @ \ {a}] \in Session
  <2>1. session[r] \in Session
    BY DEF FeedTypeOK
  <2>. QED BY <2>1 DEF Session
<1>. QED BY <1>1 DEF Unsteady

\* Every step of readers, pipeline and admins keeps sessions and pages well formed.
LEMMA FeedNextTyped == FeedInv /\ FeedTypeOK /\ [FeedNext]_feedVars => FeedTypeOK'
<1>. SUFFICES ASSUME FeedInv, FeedTypeOK, [FeedNext]_feedVars PROVE FeedTypeOK'
  OBVIOUS
<1>. DEFINE Calm == UNCHANGED <<stamp, visible, wanted, version, second, spent, bumps, blurred>>
<1>0. Stamps /\ bumps \in Nat /\ \A r \in Clients : session[r] \in Session
  BY DEF FeedTypeOK, Stamps
<1>1. ASSUME NEW r \in Clients, Start(r) PROVE FeedTypeOK'
  <2>1. PICK feed \in Feeds :
          Ask(r, [NoSession EXCEPT !.feed = feed, !.steady = {a \in Found(feed, 0) : Matches(feed, a)}])
    BY <1>1 DEF Start
  <2>. DEFINE steady == {a \in Found(feed, 0) : Matches(feed, a)}
              s == [NoSession EXCEPT !.feed = feed, !.steady = steady]
  <2>2. steady \in SUBSET FeedArticles
    BY DEF Found, Processed
  <2>3. NoPage \in Page
    BY DEF NoPage, Page
  <2>. HIDE DEF steady
  <2>4. s \in Session
    BY <2>2, <2>3, FeedAssumption DEF NoSession, Session
  <2>5. Ask(r, s)
    BY <2>1 DEF steady
  <2>. HIDE DEF s
  <2>. QED BY <2>4, <2>5, AskTyped
<1>2. ASSUME NEW r \in Clients, Continue(r) PROVE FeedTypeOK'
  <2>. DEFINE s == [session[r] EXCEPT !.cursor = session[r].page.next]
  <2>1. session[r].page.next \in Nat
    BY <1>0 DEF Session, Page
  <2>2. s \in Session
    BY <1>0, <2>1 DEF Session
  <2>3. Ask(r, s)
    BY <1>2 DEF Continue
  <2>. HIDE DEF s
  <2>. QED BY <2>2, <2>3, AskTyped
<1>3. ASSUME NEW r \in Clients, Lookup(r) PROVE FeedTypeOK'
  <2>. DEFINE s == session[r]
              t == [s EXCEPT !.phase = "read", !.key = version]
  <2>1. /\ Calm /\ cached' = cached
        /\ \/ \E c \in cached : session' = [session EXCEPT ![r] = Receive(s, c.page, TRUE)]
           \/ session' = [session EXCEPT ![r] = t]
    BY <1>3 DEF Lookup
  <2>2. t \in Session
    BY <1>0 DEF Session, FeedTypeOK
  <2>3. CASE session' = [session EXCEPT ![r] = t]
    <3>. HIDE DEF t
    <3>. QED BY <2>1, <2>2, <2>3, SessionTyped DEF FeedTypeOK
  <2>4. ASSUME NEW c \in cached, session' = [session EXCEPT ![r] = Receive(s, c.page, TRUE)]
        PROVE  FeedTypeOK'
    <3>1. c.page \in Page
      BY DEF FeedTypeOK
    <3>2. Receive(s, c.page, TRUE) \in Session
      BY <1>0, <3>1, ReceiveTyped
    <3>. QED BY <2>1, <2>4, <3>2, SessionTyped DEF FeedTypeOK
  <2>. QED BY <2>1, <2>3, <2>4
<1>4. ASSUME NEW r \in Clients, Read(r) PROVE FeedTypeOK'
  <2>. DEFINE s == session[r]
  <2>1. PICK page \in Pages(s.feed, s.cursor) :
          session' = [session EXCEPT ![r] =
            IF s.feed \in Cacheable THEN [s EXCEPT !.phase = "store", !.page = page]
            ELSE Receive(s, page, FALSE)]
    BY <1>4 DEF Read
  <2>2. Calm /\ cached' = cached
    BY <1>4 DEF Read
  <2>3. page \in Page
    BY <1>0, PagesTyped DEF Session
  <2>4. [s EXCEPT !.phase = "store", !.page = page] \in Session
    BY <1>0, <2>3 DEF Session
  <2>5. Receive(s, page, FALSE) \in Session
    BY <1>0, <2>3, ReceiveTyped
  <2>6. PICK t \in Session : session' = [session EXCEPT ![r] = t]
    BY <2>1, <2>4, <2>5
  <2>. QED BY <2>2, <2>6, SessionTyped DEF FeedTypeOK
<1>5. ASSUME NEW r \in Clients, StorePage(r) PROVE FeedTypeOK'
  <2>. DEFINE s == session[r]
              c == [version |-> s.key, feed |-> s.feed, cursor |-> s.cursor, page |-> s.page]
  <2>1. /\ Calm /\ cached' \subseteq cached \union {c}
        /\ session' = [session EXCEPT ![r] = Receive(s, s.page, FALSE)]
    BY <1>5 DEF StorePage
  <2>2. c \in [version : Nat, feed : AllFeeds, cursor : Nat, page : Page] /\ s.page \in Page
    BY <1>0 DEF Session
  <2>3. Receive(s, s.page, FALSE) \in Session
    BY <1>0, <2>2, ReceiveTyped
  <2>. HIDE DEF c
  <2>4. cached' \subseteq [version : Nat, feed : AllFeeds, cursor : Nat, page : Page]
    BY <2>1, <2>2 DEF FeedTypeOK
  <2>. QED BY <2>1, <2>3, <2>4, SessionTyped DEF FeedTypeOK
<1>6. Change => spent' \in [changes : Nat, pages : Nat]
  BY DEF Change, FeedTypeOK
<1>7. ASSUME NEW a \in FeedArticles, ProcessArticle(a) PROVE FeedTypeOK'
  <2>. DEFINE T == {stamp[b] : b \in FeedArticles}
              m == CHOOSE x \in T : \A b \in FeedArticles : stamp[b] <= x
  <2>1. T \in SUBSET Nat /\ T # {} /\ \A x \in T : x <= N + spent.changes
    BY <1>0 DEF FeedInv, Stamps
  <2>2. \E x \in T : \A y \in T : y <= x
    <3>1. N + spent.changes \in Nat
      BY FeedAssumption DEF FeedInv
    <3>. QED BY <2>1, <3>1, GreatestElement
  <2>3. m \in Nat
    BY <2>1, <2>2
  <2>4. stamp' = [stamp EXCEPT ![a] = 1 + m]
    BY <1>7 DEF ProcessArticle
  <2>. HIDE DEF m
  <2>5. stamp' \in [FeedArticles -> Nat]
    BY <2>3, <2>4 DEF FeedTypeOK
  <2>6. session' \in [Clients -> Session]
    BY <1>7, UnsteadyTyped DEF ProcessArticle
  <2>. QED BY <1>6, <1>7, <2>5, <2>6 DEF ProcessArticle, FeedTypeOK
<1>8. ASSUME NEW a \in FeedArticles, ModerateArticle(a) PROVE FeedTypeOK'
  <2>1. session' \in [Clients -> Session]
    BY <1>8, UnsteadyTyped DEF ModerateArticle
  <2>2. visible' \subseteq FeedArticles
    BY <1>8 DEF ModerateArticle, FeedTypeOK
  <2>. QED BY <1>6, <1>8, <2>1, <2>2 DEF ModerateArticle, FeedTypeOK
<1>9. CASE InvalidateExplore
  BY <1>6, <1>9 DEF InvalidateExplore, FeedTypeOK
<1>10. CASE PageExpires \/ SecondPasses
  BY <1>10 DEF PageExpires, SecondPasses, FeedTypeOK
<1>11. CASE UNCHANGED feedVars
  BY <1>11 DEF feedVars, FeedTypeOK
<1>. QED BY <1>1, <1>2, <1>3, <1>4, <1>5, <1>7, <1>8, <1>9, <1>10, <1>11 DEF FeedNext

(* Type correctness of the feeds: cursors, pages, sessions and the cache.    *)
THEOREM FeedTypeCorrect == FeedSpec => []FeedTypeOK
BY FeedInitInv, FeedNextInv, FeedInitTyped, FeedNextTyped, PTL DEF FeedSpec
=============================================================================
