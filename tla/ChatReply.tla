----------------------------- MODULE ChatReply ------------------------------
(* One conversation with the assistant (news/chatbot/intents.py and          *)
(* gemini_chat.py, ChatbotView.post): what a message is taken for, which     *)
(* articles are looked up for it and for a follow-up, which of them the      *)
(* language model and the reader get, and which reply is sent when the       *)
(* models fail.  A text is the patterns it matches and its search terms; the *)
(* wording of the replies is left out.                                       *)
EXTENDS Integers, Sequences, FiniteSets, SequencesExt, FiniteSetsExt, Arrangement

CONSTANTS Messages,   \* bound: the messages sent, as marks (patterns) and terms
          OffTerms,   \* OFF_TOPIC_TERMS
          Filler,     \* GREETING_FILLER_TERMS
          Anchors,    \* TOPIC_ANCHOR_TERMS
          Stock,      \* the articles, newest first: the terms of title and haystack
          Models,     \* the number of models to try
          MaxTurns    \* bound: messages of a conversation

ASSUME ReplyAssumption ==
  /\ OffTerms \cap Anchors = {} /\ Stock # <<>> /\ Models \in Nat \ {0} /\ MaxTurns \in Nat
  /\ \A m \in Messages : (m.marks # {} \/ m.terms # {}) /\ IsFiniteSet(m.terms)
  /\ Stock \in Seq(ToSet(Stock))

VARIABLES past,     \* the user's earlier messages (get_prior_messages)
          said,     \* what each of them was taken for (history)
          turn,     \* the request being answered
          key       \* whether a GEMINI_API_KEY is set

replyVars == <<past, said, turn, key>>

Matches(m, mark) == mark \in m.marks
Nothing == [marks |-> {}, terms |-> {}]

----------------------------------------------------------------------------
(* What a message is taken for.                                              *)

\* is_security_sensitive_message, is_app_help_message, is_team_about_message
Reserved(m) == m.marks \cap {"security", "help", "team"} # {}

Greeting(m) ==
  /\ ~Matches(m, "off")
  /\ Matches(m, "greeting") \/ (Matches(m, "chitchat") /\ m.terms \subseteq Filler)

\* has_news_intent without history
News(m) ==
  /\ ~Reserved(m) /\ ~Greeting(m) /\ ~Matches(m, "off")
  /\ m.marks \cap {"headlines", "summarize", "signal"} # {} \/ ~(m.terms \subseteq OffTerms)

\* is_off_topic_message, which every caller calls without the history.  Its
\* summarize branch is never reached: such a text has news intent.
OffTopic(m) ==
  /\ ~Reserved(m) /\ ~Greeting(m)
  /\ Matches(m, "off") \/ (~News(m) /\ m.terms \subseteq OffTerms)

\* Mutant of LastNews: the last message, whatever it was.
LastAny(seq) == IF seq = <<>> THEN Nothing ELSE Last(seq)

\* _last_user_news_message: Nothing stands for the empty text.
LastNews(seq) ==
  LET asked == {i \in DOMAIN seq : ~Greeting(seq[i]) /\ ~OffTopic(seq[i])
                                    /\ ~Matches(seq[i], "followup")}
  IN IF asked = {} THEN Nothing ELSE seq[Max(asked)]

Continues(m, seq) == Matches(m, "followup") /\ LastNews(seq) # Nothing

\* has_news_intent with the history
NewsIn(m, seq) == ~Reserved(m) /\ (Continues(m, seq) \/ News(m))

\* resolve_search_message: the prior question and the new terms.
Resolve(m, seq) ==
  IF Continues(m, seq)
  THEN [marks |-> LastNews(seq).marks, terms |-> LastNews(seq).terms \cup m.terms]
  ELSE m

\* The order of the tests of detect_intent.
DetectIntent(m, seq) ==
  LET asked == IF Continues(m, seq) THEN LastNews(seq) ELSE m IN
  IF Matches(m, "security") THEN "security_block"
  ELSE IF Matches(m, "help") THEN "app_help"
  ELSE IF Matches(m, "team") THEN "team"
  ELSE IF Matches(m, "identity") THEN "identity"
  ELSE IF Greeting(m) THEN "greeting"
  ELSE IF OffTopic(m) THEN "off_topic"
  ELSE IF Matches(m, "summarize") \/ Matches(asked, "summarize") THEN "summarize"
  ELSE IF Matches(asked, "headlines") THEN "headlines"
  ELSE "search"

Canned == {"security_block", "app_help", "team", "identity", "greeting", "off_topic"}

\* classify_empty_result, and the view's own test of the empty result.
EmptyIntent(m, seq) ==
  IF OffTopic(m) \/ ~News(m) \/ ~NewsIn(m, seq) THEN "off_topic" ELSE "no_match"

----------------------------------------------------------------------------
(* The articles, by index in Stock; scores in halves.                        *)

Shelf == DOMAIN Stock
AnchorsOf(m) == m.terms \cap Anchors
Anchored(m, a) == AnchorsOf(m) = {} \/ AnchorsOf(m) \cap Stock[a].hay # {}

\* article_relevance_score, without its matches of whole texts and phrases.
Score(m, a) ==
  LET title == m.terms \cap Stock[a].title
      only == (m.terms \cap Stock[a].hay) \ title
      here == AnchorsOf(m)
  IN 7 * Cardinality(title) + 3 * Cardinality(only)
       + 10 * Cardinality(here \cap Stock[a].title)
       + 6 * Cardinality(here \cap (Stock[a].hay \ Stock[a].title))
       - 4 * Cardinality(here \ Stock[a].hay)
       + (IF Cardinality(m.terms) >= 2 /\ m.terms \subseteq title \cup only THEN 5 ELSE 0)
       + (IF Cardinality(title) >= 2 THEN 3 ELSE 0)

\* should_link_article: LINK_SCORE_THRESHOLD, or STRICT_ with anchors.
Linked(m, a) == Score(m, a) >= (IF AnchorsOf(m) = {} THEN 3 ELSE 5) /\ Anchored(m, a)

FirstOf(s, n) == SubSeq(s, 1, IF Len(s) < n THEN Len(s) ELSE n)
Better(m) == {p \in Shelf \X Shelf : \/ Score(m, p[1]) > Score(m, p[2])
                                     \/ Score(m, p[1]) = Score(m, p[2]) /\ p[1] < p[2]}
Ranked(m, S) == Ordered(S, Better(m))

\* filter_relevant_articles, of the articles S.  Its last resort needs a first
\* article that links.
Relevant(m, S) ==
  LET linked == {a \in S : Linked(m, a)}
      whole == {a \in linked : m.terms \subseteq Stock[a].hay}
      near == {a \in S : Anchored(m, a) /\ Score(m, a) >= 3}
  IN IF linked # {}
     THEN IF Cardinality(m.terms) >= 2 /\ whole # {} THEN whole ELSE linked
     ELSE IF AnchorsOf(m) # {} THEN ToSet(FirstOf(Ranked(m, near), 3)) ELSE {}

\* gather_news_context: what the searches found, and the most recent articles.
\* Stock is shorter than the limits, so a summary starts from all of it; what
\* becomes of the articles ranks them anew.
Gathered(m, intent, hits) ==
  LET about == {a \in Shelf : /\ m.terms = {} \/ m.terms \cap Stock[a].hay # {}
                              /\ Anchored(m, a)}
  IN IF intent = "headlines" THEN IF about # {} THEN about ELSE Shelf
     ELSE IF intent = "summarize" THEN Relevant(m, Shelf)
     ELSE Relevant(m, hits)

\* select_response_articles: the cards.
Cards(m, intent, found) ==
  LET ranked == Ranked(m, found)
      linked == Ranked(m, {a \in found : Linked(m, a)})
  IN IF intent = "headlines" THEN FirstOf(ranked, 3)
     ELSE IF intent = "summarize" THEN FirstOf(ranked, 5)
     ELSE IF linked # <<>> THEN FirstOf(linked, 3) ELSE FirstOf(ranked, 1)

\* ... and what the language model reads.
Context(m, intent, found) ==
  IF intent \in {"headlines", "summarize"} THEN FirstOf(Ranked(m, found), 5)
  ELSE Cards(m, intent, found)

\* pick_primary_article and the view's defaults: the best card with a score, the
\* first one of a briefing; shown when it links, and always for a summary.
Primary(m, intent, cards) ==
  LET best == Ranked(m, ToSet(cards))[1] IN
  IF cards = <<>> THEN {}
  ELSE IF intent = "summarize" THEN {best}
  ELSE IF DetectIntent(m, <<>>) \in {"headlines", "summarize"} \/ Linked(m, best)
       THEN {best} ELSE {}

----------------------------------------------------------------------------
(* The request.                                                              *)

Quiet == [pc |-> "idle", msg |-> Nothing, intent |-> "none", query |-> Nothing, found |-> {},
          context |-> <<>>, cards |-> <<>>, primary |-> {}, tries |-> 0, reply |-> "none"]

ReplyInit == past = <<>> /\ said = <<>> /\ turn = Quiet /\ key \in BOOLEAN

\* The models are asked only with a key, and never for a blocked message.
AskModels(intent) == IF key /\ intent # "security_block" THEN "model" ELSE "answer"

Receive(m) ==
  LET intent == DetectIntent(m, past) IN
  /\ turn.pc = "idle" /\ Len(past) < MaxTurns
  /\ turn' = [turn EXCEPT !.pc = IF intent \in Canned THEN AskModels(intent) ELSE "search",
                          !.msg = m, !.intent = intent, !.query = Resolve(m, past)]
  /\ UNCHANGED <<past, said, key>>

\* Any of the articles may be what the three searches return.
Search(hits) ==
  LET found == Gathered(turn.query, turn.intent, hits)
      cards == Cards(turn.query, turn.intent, found)
  IN
  /\ turn.pc = "search"
  /\ turn' = IF found = {}
             THEN [turn EXCEPT !.pc = AskModels("none"), !.intent = EmptyIntent(turn.msg, past)]
             ELSE [turn EXCEPT !.pc = AskModels("none"), !.found = found, !.cards = cards,
                               !.context = Context(turn.query, turn.intent, found),
                               !.primary = Primary(turn.query, turn.intent, cards)]
  /\ UNCHANGED <<past, said, key>>

\* fallback_reply, which judges the cards by the message itself and not by the
\* question it continues; a canned intent has its own static reply.
FallbackReply(t) ==
  IF t.intent \notin {"search", "summarize", "headlines"} THEN t.intent
  ELSE IF (t.intent = "summarize" /\ t.context # <<>>) \/ Cards(t.msg, t.intent, ToSet(t.context)) # <<>>
       THEN "briefing" ELSE "no_match"

\* _run_gemini_reply and generate_chatbot_reply: the next model after an empty
\* answer or an error, none after a quota error; then the static or local reply.
CallModel(outcome) ==
  /\ turn.pc = "model"
  /\ turn' = CASE outcome = "text" -> [turn EXCEPT !.pc = "answer", !.reply = "model"]
               [] outcome = "quota" -> [turn EXCEPT !.pc = "answer"]
               [] OTHER -> [turn EXCEPT !.tries = @ + 1,
                                        !.pc = IF turn.tries + 1 < Models THEN "model" ELSE "answer"]
  /\ UNCHANGED <<past, said, key>>

\* The exchange is appended to the conversation and the payload sent.
Respond ==
  /\ turn.pc = "answer"
  /\ past' = Append(past, turn.msg)
  /\ said' = Append(said, turn.intent)
  /\ turn' = [turn EXCEPT !.pc = "sent",
                          !.reply = IF turn.reply = "model" THEN "model" ELSE FallbackReply(turn)]
  /\ UNCHANGED key

Finish == turn.pc = "sent" /\ turn' = Quiet /\ UNCHANGED <<past, said, key>>

ReplyNext ==
  \/ \E m \in Messages : Receive(m)
  \/ \E hits \in SUBSET Shelf : Search(hits)
  \/ \E outcome \in {"text", "empty", "error", "quota"} : CallModel(outcome)
  \/ Respond \/ Finish

ReplySpec == ReplyInit /\ [][ReplyNext]_replyVars

----------------------------------------------------------------------------
(* Every variable keeps its type.                                            *)
ReplyTypeOK ==
  /\ past \in Seq(Messages) /\ Len(past) = Len(said) /\ Len(past) <= MaxTurns
  /\ ToSet(said) \subseteq Canned \cup {"search", "summarize", "headlines", "no_match"}
  /\ turn.tries \in 0..Models /\ turn.found \subseteq Shelf
  /\ turn.pc = "model" => key /\ turn.tries < Models

(* What the reader is shown comes from what the assistant was given: every   *)
(* card is an article in the model's prompt, the primary article is one of   *)
(* the cards, only an answer about the news has cards, and an article that   *)
(* does not match the question is shown alone (select_response_articles:     *)
(* cards come from the pool that the model sees).  The local reply never     *)
(* says that nothing was found beside cards.                                 *)
AnswerGrounded ==
  /\ ToSet(turn.cards) \subseteq ToSet(turn.context) /\ turn.primary \subseteq ToSet(turn.cards)
  /\ turn.cards # <<>> => turn.intent \in {"search", "summarize", "headlines"}
  /\ turn.intent = "search" /\ Len(turn.cards) > 1
       => \A a \in ToSet(turn.cards) : Linked(turn.query, a)
  /\ turn.reply = "no_match" => turn.cards = <<>>

Answered == {"search", "summarize", "headlines", "no_match"}

(* A follow-up that is looked up keeps the topic of the last earlier message *)
(* that was a question of its own: smalltalk, rejected messages and other    *)
(* follow-ups in between do not change it, and what each was taken for does  *)
(* not depend on when it is judged.  A greeting that is blocked or answered  *)
(* as another kind of message has no topic.                                  *)
TopicKept ==
  \A i \in DOMAIN past :
    /\ turn.pc # "idle" /\ turn.query # turn.msg
    /\ said[i] \in Answered \/ (~Greeting(past[i]) /\ ~OffTopic(past[i]))
    /\ ~Matches(past[i], "followup")
    /\ \A j \in i + 1..Len(past) :
         said[j] \in {"greeting", "off_topic"} \/ Matches(past[j], "followup")
    => past[i].terms \subseteq turn.query.terms

(* An answer is grounded in what was found, and a follow-up keeps its topic. *)
AnswerKept == AnswerGrounded /\ TopicKept
=============================================================================
