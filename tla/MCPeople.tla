------------------------------ MODULE MCPeople ------------------------------
(* The components that serve the accounts, for TLC: one-time codes, the      *)
(* notifications, the feedback, the conversations and the assistant.  They   *)
(* share no state, so each behaviour exercises one of them, the focus; the   *)
(* others rest.                                                              *)
EXTENDS OtpCodes, Notifications, Feedback, ChatStore, ChatReply, TLC

VARIABLE focus

peopleVars == <<focus, otpVars, noteVars, feedbackVars, chatVars, replyVars>>

PeopleInit ==
  /\ focus \in {"codes", "notes", "feedback", "store", "reply"}
  /\ OtpInit /\ NoteInit /\ FeedbackInit /\ ChatInit /\ ReplyInit
  \* a component that rests has one initial state
  /\ otps # <<>> => otps[1].purpose = "reset" /\ \A e \in Emails : account[e] = "active"
  /\ focus # "codes" => otps = <<>> /\ \A e \in Emails : account[e] = "none"
  /\ focus # "notes" => /\ notes = <<>> /\ \A r \in Readers : follows[r].list = <<>>
                        /\ \A a \in Articles : arts[a] = Gone
  \* alerts of before only beside articles of before and interests; of two, both
  \* are young and name their article
  /\ notes # <<>> => /\ \A r \in Readers : follows[r].list # <<>>
                     /\ \A a \in Articles : arts[a] = Old
                     /\ notes[1].key[1] = CHOOSE a \in Articles : TRUE
                     /\ notes[1].at + notes[1].aid >= Len(notes)
                     /\ \A i \in 2..Len(notes) : notes[i].at = 1 /\ notes[i].aid = 1
  /\ focus # "feedback" => indexed
  /\ focus # "store" => convs = <<>> /\ \A r \in Askers : chat[r].pc = "idle"
  /\ focus # "store" => \A r \in Listers : chat[r].pc = "done"
  /\ focus # "reply" => key

PeopleNext ==
  \/ /\ focus = "codes" /\ OtpNext
     /\ UNCHANGED <<focus, noteVars, feedbackVars, chatVars, replyVars>>
  \/ /\ focus = "notes" /\ NoteNext
     /\ UNCHANGED <<focus, otpVars, feedbackVars, chatVars, replyVars>>
  \/ /\ focus = "feedback" /\ FeedbackNext
     /\ UNCHANGED <<focus, otpVars, noteVars, chatVars, replyVars>>
  \/ /\ focus = "store" /\ ChatNext
     /\ UNCHANGED <<focus, otpVars, noteVars, feedbackVars, replyVars>>
  \/ /\ focus = "reply" /\ ReplyNext
     /\ UNCHANGED <<focus, otpVars, noteVars, feedbackVars, chatVars>>

\* The instance.
CONSTANTS x1, x2, y1, y2, t1, t2

Symmetry == Permutations({x1, x2}) \cup Permutations({y1, y2})

MCLegacy == <<t1, t2>>
MCCrews == {Askers, Listers} \cup {{l, q} : l \in Listers, q \in Askers}

Message(marks, terms) == [marks |-> marks, terms |-> terms]
MCMessages ==
  {Message({"followup"}, {}), Message({"followup"}, {"oil"}), Message({"signal"}, {"oil"}),
   Message({}, {"joke"}), Message({"headlines"}, {"pakistan"}),
   Message({"security"}, {"oil", "bank"}), Message({"chitchat"}, {"mate"}),
   Message({"summarize"}, {"bank"}), Message({"off"}, {"oil"}), Message({"greeting"}, {}),
   Message({}, {"pakistan", "oil"}), Message({"identity"}, {"bank"}),
   Message({"followup", "summarize"}, {"pakistan"}), Message({"security", "greeting"}, {"bank"})}
Article(title, body) == [title |-> title, hay |-> title \cup body]
MCStock == <<Article({"oil"}, {"bank"}), Article({"pakistan"}, {}),
             Article({"bank"}, {"pakistan", "oil"})>>

PeopleSpec == PeopleInit /\ [][PeopleNext]_peopleVars

(* Every variable of these components keeps its type.                        *)
PeopleTypeOK == OtpTypeOK /\ NoteTypeOK /\ FeedbackTypeOK /\ ChatTypeOK /\ ReplyTypeOK
=============================================================================
