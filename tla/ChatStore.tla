----------------------------- MODULE ChatStore ------------------------------
(* The conversations of one user of the chatbot                              *)
(* (news/chatbot/conversations.py and the chat views of news/user_views.py): *)
(* exchanges appended by read and write, the trim of old conversations, the  *)
(* import and the split of the legacy history.  Every database call is a     *)
(* step of its own.  What the assistant says is left out.                    *)
EXTENDS Integers, Sequences, SequencesExt, FiniteSetsExt, Arrangement

CONSTANTS Askers,       \* requests that send a message; each is one exchange
          Listers,      \* requests that list the conversations
          Crews,        \* bound: the sets of requests that come
          Legacy,       \* the turns of the old single-thread history, in order
          Ids,          \* ObjectIds, in the order they are given out
          MaxMessages,  \* MAX_MESSAGES_PER_CONVERSATION, counted in exchanges
          MaxConvs,     \* MAX_CONVERSATIONS_PER_USER
          MaxDeaths     \* bound: requests whose process dies

Turns == ToSet(Legacy)

ASSUME ChatAssumption ==
  /\ Cardinality(Ids) \in Nat \ {0} /\ Ids = 1..Cardinality(Ids) /\ IsFiniteSet(Askers)
  /\ MaxMessages \in Nat \ {0} /\ MaxConvs \in Nat \ {0}
  /\ Askers \cap Listers = {} /\ (Askers \cup Listers) \cap Turns = {}
  /\ Crews \subseteq SUBSET (Askers \cup Listers) /\ MaxDeaths \in Nat
  /\ Legacy \in Seq(Turns)

VARIABLES convs,     \* the conversations: id -> turns, time of the last update, marks
          history,   \* the legacy document's messages
          chat,      \* each request: place, conversation, what it read
          chatClock, \* the time of the last update
          raced,   \* askers that had a conversation in hands at the same time (history)
          lastId,    \* the ObjectId given out last
          gone,      \* legacy turns removed with a conversation, pushed out or cleared (history)
          dead       \* requests whose process died (history)

chatVars == <<convs, history, chat, chatClock, raced, lastId, gone, dead>>

Requests == Askers \cup Listers
Present == DOMAIN convs
NextId == lastId + 1
Conv(turns, at, legacy, split) ==
  [turns |-> turns, at |-> at, legacy |-> legacy, split |-> split]

\* insert_one: the conversation v under the id c, beside those of S.
Filed(c, v, S) == [d \in DOMAIN S \cup {c} |-> IF d = c THEN v ELSE S[d]]

\* Mutant of LastTurns: nothing is cut off.
AllTurns(s) == s

\* messages[-MAX:]; a turn stands for the user's message and the replies to it.
LastTurns(s) == SubSeq(s, Max({1, Len(s) - MaxMessages + 1}), Len(s))

Idle == [pc |-> "idle", conv |-> 0, at |-> 0, row |-> <<>>, todo |-> <<>>, rows |-> <<>>,
         stale |-> {}]
GoOn(r, l) == chat' = [chat EXCEPT ![r].pc = l]

\* On with the next step; what was read is no longer needed.
Forget(r, l) == chat' = [chat EXCEPT ![r] = [Idle EXCEPT !.pc = l, !.conv = chat[r].conv]]

ChatInit ==
  /\ \/ convs = <<>> /\ history = Legacy
     \/ convs = Filed(1, Conv(Legacy, 0, TRUE, FALSE), <<>>) /\ history = <<>>  \* an old import
  /\ \E crew \in Crews :
       chat = [r \in Requests |-> IF r \in crew THEN Idle ELSE [Idle EXCEPT !.pc = "done"]]
  /\ chatClock = 0
  /\ raced = {}
  /\ lastId = Cardinality(DOMAIN convs)
  /\ gone = {}
  /\ dead = {}

----------------------------------------------------------------------------
(* ChatbotView.post.                                                         *)

\* get_prior_messages: a conversation of the list, or none for a new chat.
PriorMessages(r, c) ==
  /\ chat[r].pc = "idle" /\ c \in Present \cup {0}
  /\ chat' = [chat EXCEPT ![r].pc = "answer", ![r].conv = c]
  /\ UNCHANGED <<convs, history, chatClock, raced, lastId, gone, dead>>

InHand(c) == {r \in Askers : chat[r].pc = "write" /\ chat[r].conv = c}

\* append_conversation_exchange, once the assistant has answered: the row is read ...
FindRow(r) ==
  /\ chat[r].pc = "answer"
  /\ chatClock' = chatClock + 1
  /\ chat' = [chat EXCEPT ![r].at = chatClock + 1,
                ![r].pc = IF chat[r].conv \in Present THEN "write" ELSE "insert",
                ![r].row = IF chat[r].conv \in Present THEN convs[chat[r].conv].turns ELSE <<>>]
  /\ raced' = raced \cup (IF chat[r].conv \in Present /\ InHand(chat[r].conv) # {}
                              THEN InHand(chat[r].conv) \cup {r} ELSE {})
  /\ UNCHANGED <<convs, history, lastId, gone, dead>>

\* ... or inserted, also when the conversation was deleted while the assistant answered ...
InsertConv(r) ==
  /\ chat[r].pc = "insert" /\ NextId \in Ids
  /\ convs' = Filed(NextId, Conv(<<>>, chat[r].at, FALSE, FALSE), convs)
  /\ chat' = [chat EXCEPT ![r].pc = "reread", ![r].conv = NextId]
  /\ lastId' = NextId
  /\ UNCHANGED <<history, chatClock, raced, gone, dead>>

Reread(r) ==
  LET c == chat[r].conv IN
  /\ chat[r].pc = "reread"
  /\ chat' = [chat EXCEPT ![r].pc = "write",
                          ![r].row = IF c \in Present THEN convs[c].turns ELSE <<>>]
  /\ raced' = raced \cup (IF InHand(c) # {} THEN InHand(c) \cup {r} ELSE {})
  /\ UNCHANGED <<convs, history, chatClock, lastId, gone, dead>>

\* ... and written back with the exchange, by _id.
WriteRow(r) ==
  LET c == chat[r].conv IN
  /\ chat[r].pc = "write"
  /\ convs' = IF c \in Present
              THEN [convs EXCEPT ![c].turns = LastTurns(Append(chat[r].row, r)),
                                 ![c].at = chat[r].at]
              ELSE convs
  /\ Forget(r, "trim")
  /\ gone' = gone \cup (Turns \cap (IF c \in Present THEN ToSet(chat[r].row) \ ToSet(convs'[c].turns)
                                   ELSE {}))
  /\ UNCHANGED <<history, chatClock, raced, lastId, dead>>

\* The conversations by updated_at and _id, the latest first.
Later(c, d) == convs[c].at > convs[d].at \/ (convs[c].at = convs[d].at /\ c > d)

Stale == {c \in Present : Cardinality({d \in Present : Later(d, c)}) >= MaxConvs}

\* _trim_old_conversations: the ids are read, and deleted in the next call.
TrimLook(r) ==
  /\ chat[r].pc = "trim"
  /\ chat' = [chat EXCEPT ![r].stale = Stale, ![r].pc = IF Stale = {} THEN "done" ELSE "drop"]
  /\ UNCHANGED <<convs, history, chatClock, raced, lastId, gone, dead>>

Drop(S) ==
  /\ convs' = [c \in Present \ S |-> convs[c]]
  /\ gone' = gone \cup (Turns \cap UNION {ToSet(convs[c].turns) : c \in S \cap Present})

TrimDrop(r) ==
  /\ chat[r].pc = "drop"
  /\ Drop(chat[r].stale)
  /\ Forget(r, "done")
  /\ UNCHANGED <<history, chatClock, raced, lastId, dead>>

\* ChatbotConversationDetailView.delete
DeleteConversation(c) ==
  /\ c \in Present
  /\ Drop({c})
  /\ UNCHANGED <<history, chat, chatClock, raced, lastId, dead>>

----------------------------------------------------------------------------
(* list_conversations: migrate_legacy_history, then                          *)
(* resplit_legacy_import_if_needed.                                          *)

FindHistory(r) ==
  /\ r \in Listers /\ chat[r].pc = "idle"
  /\ chat' = [chat EXCEPT ![r].pc = IF history = <<>> THEN "split" ELSE "import",
                          ![r].todo = history]
  /\ UNCHANGED <<convs, history, chatClock, raced, lastId, gone, dead>>

\* One conversation per turn, one insert each.
ImportTurn(r) ==
  /\ chat[r].pc = "import" /\ chat[r].todo # <<>> /\ NextId \in Ids
  /\ convs' = Filed(NextId, Conv(<<Head(chat[r].todo)>>, chatClock, TRUE, FALSE), convs)
  /\ chat' = [chat EXCEPT ![r].todo = Tail(@)]
  /\ lastId' = NextId
  /\ UNCHANGED <<history, chatClock, raced, gone, dead>>

\* Mutant of EmptyHistory: before the imports, not after them.
EmptyHistoryFirst(r) ==
  /\ chat[r].pc = "import" /\ history' = <<>>
  /\ IF chat[r].todo = <<>> THEN GoOn(r, "split") ELSE chat' = chat
  /\ UNCHANGED <<convs, chatClock, raced, lastId, gone, dead>>

EmptyHistory(r) ==
  /\ chat[r].pc = "import" /\ chat[r].todo = <<>>
  /\ history' = <<>>
  /\ GoOn(r, "split")
  /\ UNCHANGED <<convs, chatClock, raced, lastId, gone, dead>>

Unsplit == {c \in Present : convs[c].legacy /\ ~convs[c].split}

\* On with the rows that were read.
NextRow(rows) ==
  IF rows = <<>> THEN [Idle EXCEPT !.pc = "done"]
  ELSE [Idle EXCEPT !.pc = IF Len(Head(rows).turns) <= 1 THEN "mark" ELSE "unmake",
                    !.conv = Head(rows).id, !.row = Head(rows).turns, !.rows = Tail(rows)]

\* All the rows are read before the first one is touched.
FindUnsplit(r) ==
  LET ids == Ordered(Unsplit, {p \in Ids \X Ids : p[1] < p[2]})
      rows == [i \in DOMAIN ids |-> [id |-> ids[i], turns |-> convs[ids[i]].turns]]
  IN
  /\ chat[r].pc = "split"
  /\ chat' = [chat EXCEPT ![r] = NextRow(rows)]
  /\ UNCHANGED <<convs, history, chatClock, raced, lastId, gone, dead>>

MarkSplit(r) ==
  LET c == chat[r].conv IN
  /\ chat[r].pc = "mark"
  /\ convs' = IF c \in Present THEN [convs EXCEPT ![c].split = TRUE] ELSE convs
  /\ chat' = [chat EXCEPT ![r] = NextRow(chat[r].rows)]
  /\ UNCHANGED <<history, chatClock, raced, lastId, gone, dead>>

\* The imported thread is deleted, and its turns are inserted again one by one.
DeleteImport(r) ==
  /\ chat[r].pc = "unmake"
  /\ Drop({chat[r].conv})
  /\ chat' = [chat EXCEPT ![r].pc = "remake", ![r].todo = chat[r].row]
  /\ UNCHANGED <<history, chatClock, raced, lastId, dead>>

ReinsertTurn(r) ==
  /\ chat[r].pc = "remake" /\ chat[r].todo # <<>> /\ NextId \in Ids
  /\ convs' = Filed(NextId, Conv(<<Head(chat[r].todo)>>, chatClock, TRUE, TRUE), convs)
  /\ chat' = [chat EXCEPT ![r].todo = Tail(@)]
  /\ lastId' = NextId
  /\ UNCHANGED <<history, chatClock, raced, gone, dead>>

SplitDone(r) ==
  /\ chat[r].pc = "remake" /\ chat[r].todo = <<>>
  /\ chat' = [chat EXCEPT ![r] = NextRow(chat[r].rows)]
  /\ UNCHANGED <<convs, history, chatClock, raced, lastId, gone, dead>>

\* ChatbotHistoryView.delete empties the legacy document and nothing else.
ClearHistory ==
  /\ history # <<>> /\ history' = <<>>
  /\ gone' = gone \cup ToSet(history)
  /\ UNCHANGED <<convs, chat, chatClock, raced, lastId, dead>>

----------------------------------------------------------------------------
\* The process dies between two calls of a request.
Die(r) ==
  /\ chat[r].pc \notin {"idle", "done", "dead"} /\ Cardinality(dead) < MaxDeaths
  /\ Forget(r, "dead")
  /\ dead' = dead \cup {r}
  /\ UNCHANGED <<convs, history, chatClock, raced, lastId, gone>>

ChatNext ==
  \/ \E r \in Askers : \/ \E c \in Ids \cup {0} : PriorMessages(r, c)
                       \/ FindRow(r) \/ InsertConv(r) \/ Reread(r) \/ WriteRow(r)
                       \/ TrimLook(r) \/ TrimDrop(r)
  \/ \E r \in Listers : \/ FindHistory(r) \/ ImportTurn(r) \/ EmptyHistory(r) \/ FindUnsplit(r)
                        \/ MarkSplit(r) \/ DeleteImport(r) \/ ReinsertTurn(r) \/ SplitDone(r)
  \/ \E c \in Ids : DeleteConversation(c)
  \/ ClearHistory
  \/ \E r \in Requests : Die(r)

ChatSpec == ChatInit /\ [][ChatNext]_chatVars

----------------------------------------------------------------------------
(* Every variable keeps its type.                                            *)
ChatTypeOK ==
  /\ Present \subseteq 1..lastId /\ lastId \in 0..Cardinality(Ids) /\ gone \subseteq Turns
  /\ \A c \in Present : /\ ToSet(convs[c].turns) \subseteq Askers \cup Turns
                        /\ Len(convs[c].turns) <= Max({MaxMessages, Len(Legacy)})
                        /\ convs[c].at \in 0..Cardinality(Askers)
  /\ raced \subseteq Askers /\ dead \subseteq Requests

(* An exchange the client was told is stored stays in its conversation,      *)
(* unless the conversation is removed, newer exchanges push it out, or       *)
(* another request had read the same conversation and not yet written it     *)
(* back: only overlapping exchanges overwrite each other.                    *)
LostOnlyInRace ==
  \A r \in Askers \ raced :
    chat[r].pc \in {"trim", "drop", "done"} /\ chat[r].conv \in Present
      => \/ r \in ToSet(convs[chat[r].conv].turns)
         \/ Len(convs[chat[r].conv].turns) = MaxMessages

(* The legacy history is emptied only when all of it has been imported: a    *)
(* turn is in the history, in a conversation, or was in one that the user,   *)
(* the trim or a split removed, whichever requests import at once or die in  *)
(* between; only newer exchanges push it out of a conversation.              *)
LegacyKept ==
  \A t \in Turns :
    t \in ToSet(history) \cup gone \/ \E c \in Present : t \in ToSet(convs[c].turns)

(* The number of conversations is bounded by the limit, those requests that  *)
(* are on their way to the trim or died there, and the imports, which never  *)
(* trim.                                                                     *)
Bounded ==
  Cardinality({c \in Present : ~convs[c].legacy})
    <= MaxConvs + Cardinality({r \in Askers : chat[r].pc \in {"reread", "write", "trim",
                                                              "drop", "dead"}})

(* What was said stays, new exchanges and the turns of the old history, and  *)
(* no more conversations than the limit and those under way.                 *)
ConversationsKept == LostOnlyInRace /\ LegacyKept /\ Bounded
=============================================================================
