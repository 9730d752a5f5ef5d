--------------------------- MODULE People_proofs ----------------------------
(* What users do and are told, for any number of addresses, users, articles, *)
(* messages, threads and requests: the one-time codes (OtpCodes), the        *)
(* reports (Feedback), the notifications (Notifications), the conversations  *)
(* that are stored (ChatStore) and the replies (ChatReply).                  *)
EXTENDS MCPeople, Arrangement_proofs

-----------------------------------------------------------------------------
(* Sequences: an element more, the first one taken.                          *)

\* s is a sequence, of whatever it holds.
Listed(s) == s \in Seq(ToSet(s))

\* The larger of two numbers.
LEMMA MaxOfTwo ==
  ASSUME NEW a \in Int, NEW b \in Int
  PROVE  Max({a, b}) = IF a <= b THEN b ELSE a
BY DEF Max

\* The rest of a list and its first element make up the list.
LEMMA FirstTaken ==
  ASSUME NEW s, Listed(s), s # <<>>
  PROVE  Listed(Tail(s)) /\ ToSet(s) \subseteq {Head(s)} \cup ToSet(Tail(s))
<1> DEFINE T == ToSet(s)  r == Tail(s)
<1>1. s \in Seq(T) /\ Len(s) \in Nat \ {0} /\ DOMAIN s = 1..Len(s)
  BY DEF Listed
<1> HIDE DEF T
<1>2. r \in Seq(T) /\ Len(r) = Len(s) - 1 /\ \A i \in 1..(Len(s) - 1) : r[i] = s[i + 1]
  BY <1>1
<1>3. Head(s) = s[1]
  BY <1>1
<1>4. DOMAIN r = 1..(Len(s) - 1)
  BY <1>1, <1>2
<1> HIDE DEF r
<1>5. Listed(r)
  <2>1. \A i \in 1..Len(r) : r[i] \in ToSet(r)
    BY <1>2, <1>4 DEF ToSet
  <2> QED
    BY <1>2, <2>1 DEF Listed
<1>6. ASSUME NEW i \in DOMAIN s PROVE s[i] = Head(s) \/ s[i] \in ToSet(r)
  <2>1. CASE i = 1
    BY <1>3, <2>1
  <2>2. CASE i # 1
    <3>1. i - 1 \in DOMAIN r /\ r[i - 1] = s[i]
      BY <1>1, <1>2, <1>4, <2>2
    <3> QED
      BY <3>1 DEF ToSet
  <2> QED
    BY <2>1, <2>2
<1> QED
  BY <1>5, <1>6 DEF ToSet, r

\* The lists of none and of one.
LEMMA FewListed == Listed(<<>>) /\ ToSet(<<>>) = {} /\ \A x : Listed(<<x>>) /\ ToSet(<<x>>) = {x}
<1>1. ASSUME NEW x PROVE Listed(<<x>>) /\ ToSet(<<x>>) = {x}
  <2>1. ToSet(<<x>>) = {x}
    BY DEF ToSet
  <2> QED
    BY <2>1 DEF Listed
<1>2. ToSet(<<>>) = {}
  BY DEF ToSet
<1> QED
  BY <1>1, <1>2 DEF Listed

\* A list with an element more.
LEMMA AppendIs ==
  ASSUME NEW s, Listed(s), NEW e
  PROVE  LET t == Append(s, e) IN
         /\ Listed(t) /\ Len(s) \in Nat /\ DOMAIN s = 1..Len(s) /\ DOMAIN t = 1..(Len(s) + 1)
         /\ t[Len(s) + 1] = e /\ \A i \in DOMAIN s : t[i] = s[i]
<1> DEFINE T == ToSet(s) \cup {e}
           t == Append(s, e)
<1>1. \A x, S : x \in Seq(S) /\ e \in S => /\ Append(x, e) \in Seq(S) /\ Len(Append(x, e)) = Len(x) + 1
                                          /\ Append(x, e)[Len(x) + 1] = e
                                          /\ \A i \in 1..Len(x) : Append(x, e)[i] = x[i]
                                          /\ Len(x) \in Nat /\ DOMAIN x = 1..Len(x)
  OBVIOUS
<1>2. s \in Seq(T) /\ e \in T
  BY DEF Listed
<1> HIDE DEF T
<1>3. /\ t \in Seq(T) /\ Len(t) = Len(s) + 1 /\ t[Len(s) + 1] = e /\ \A i \in 1..Len(s) : t[i] = s[i]
      /\ Len(s) \in Nat /\ DOMAIN s = 1..Len(s)
  BY <1>1, <1>2
<1> HIDE DEF t
<1>4. DOMAIN t = 1..(Len(s) + 1)
  BY <1>3
<1>5. Listed(t)
  <2>1. \A i \in 1..Len(t) : t[i] \in ToSet(t)
    BY <1>3, <1>4 DEF ToSet
  <2> QED
    BY <1>3, <2>1 DEF Listed
<1> QED
  BY <1>3, <1>4, <1>5 DEF t

\* The first element and the rest, place by place.
LEMMA HeadTail ==
  ASSUME NEW s, Listed(s), s # <<>>
  PROVE  /\ Listed(Tail(s)) /\ Head(s) \in ToSet(s) /\ ToSet(Tail(s)) \subseteq ToSet(s)
         /\ ToSet(s) \subseteq {Head(s)} \cup ToSet(Tail(s))
<1> DEFINE T == ToSet(s)  r == Tail(s)
<1>1. s \in Seq(T) /\ Len(s) \in Nat \ {0} /\ DOMAIN s = 1..Len(s)
  BY DEF Listed
<1>2. 1 \in DOMAIN s /\ Head(s) = s[1]
  BY <1>1
<1> HIDE DEF T
<1>3. r \in Seq(T) /\ DOMAIN r = 1..Len(r)
  BY <1>1
<1>4. \A i \in DOMAIN r : r[i] \in T
  BY <1>3
<1> HIDE DEF r
<1>5. ToSet(r) \subseteq T
  BY <1>4 DEF ToSet
<1> QED
  BY <1>2, <1>5, FirstTaken DEF ToSet, r, T

\* A function on 1..n is a list.
LEMMA ListedIs ==
  ASSUME NEW n \in Nat, NEW s, s = [i \in 1..n |-> s[i]]
  PROVE  Listed(s) /\ DOMAIN s = 1..n
<1>1. DOMAIN s = 1..n
  OBVIOUS
<1>2. \A i \in 1..n : s[i] \in ToSet(s)
  BY <1>1 DEF ToSet
<1> QED
  BY <1>1, <1>2 DEF Listed

VerifyPurposes == {"login", "email", "contact"}

\* A thread at work serves an address.
Addressed == \A w \in Workers : req[w].step # "idle" => req[w].email \in Emails

TypeInv == OtpTypeOK /\ Addressed

\* A thread that judges has a record of its address and purpose in hand.
JudgesOwn(w) ==
  req[w].step = "judge" =>
    /\ req[w].rec \in DOMAIN otps
    /\ otps[req[w].rec].email = req[w].email
    /\ otps[req[w].rec].purpose = Purpose(req[w].op)

\* A thread past the judgement, or with a reset session, has an accepted code.
Earned(w) ==
  /\ req[w].step \in {"clear", "grant", "mark", "consume", "save"} /\ req[w].op # "password"
       => Won(req[w].email, {Purpose(req[w].op)}) # {}
  /\ req[w].step = "save" =>
       /\ req[w].op \in {"confirm", "token"}
       /\ req[w].flag => Won(req[w].email, VerifyPurposes) # {}
  /\ req[w].step = "consume" => req[w].op = "token"
  /\ req[w].step = "mark" => req[w].op = "login"
  /\ req[w].step = "auth" => req[w].op = "password"

SessionsEarned == \A t \in DOMAIN tokens : Won(tokens[t].email, {"reset"}) # {}

CodeInv ==
  /\ TypeInv
  /\ \A w \in Workers : JudgesOwn(w) /\ Earned(w)
  /\ SessionsEarned
  /\ ResetCoded
  /\ VerifiedBacked

\* What every step does to the records: it may add some, and it takes nothing
\* of what happened to one back.
Keeps ==
  \A i \in DOMAIN otps :
    /\ i \in DOMAIN otps'
    /\ otps'[i].email = otps[i].email
    /\ otps'[i].purpose = otps[i].purpose
    /\ otps[i].won > 0 => otps'[i].won > 0
    /\ otps[i].used => otps'[i].used

-----------------------------------------------------------------------------
(* The newest record exists whenever there is one.                         *)

\* Latest of a set of records is one of them, or 0 when there is none.
LEMMA LatestIn ==
  ASSUME otps \in Seq(Otp), NEW S \in SUBSET DOMAIN otps
  PROVE  Latest(S) \in S \union {0} /\ Latest(S) \in Nat
<1>1. Len(otps) \in Nat /\ DOMAIN otps = 1..Len(otps)
  OBVIOUS
<1>2. CASE S = {}
  BY <1>2 DEF Latest
<1>3. CASE S # {}
  <2>1. S \in SUBSET Nat /\ \A x \in S : x <= Len(otps)
    BY <1>1
  <2>2. \E x \in S : \A y \in S : y <= x
    BY <1>1, <1>3, <2>1, GreatestElement
  <2>. QED BY <1>1, <2>2, <1>3 DEF Latest
<1>. QED BY <1>2, <1>3

-----------------------------------------------------------------------------
(* Types, one lemma for each way a step writes a variable.                 *)

\* Every operation has a purpose.
LEMMA PurposeType == \A op \in AllOps : Purpose(op) \in Purposes
BY DEF Purpose, AllOps, Purposes

\* The fields of a request and of a record.
LEMMA Fields ==
  ASSUME OtpTypeOK
  PROVE  /\ \A w \in Workers :
              /\ req[w] \in Request
              /\ req[w].op \in AllOps /\ Purpose(req[w].op) \in Purposes
              /\ req[w].email \in Emails \union {NoOne}
              /\ req[w].code \in Nat /\ req[w].rec \in Nat /\ req[w].seen \in Nat
              /\ req[w].row \in Nat /\ req[w].flag \in BOOLEAN
         /\ \A i \in DOMAIN otps :
              /\ otps[i] \in Otp
              /\ otps[i].email \in Emails /\ otps[i].purpose \in Purposes
              /\ otps[i].attempts \in Nat /\ otps[i].used \in BOOLEAN
              /\ otps[i].age \in Ages /\ otps[i].won \in Nat /\ otps[i].wrong \in Nat
         /\ Len(otps) \in Nat /\ DOMAIN otps = 1..Len(otps)
         /\ Len(tokens) \in Nat /\ DOMAIN tokens = 1..Len(tokens)
<1>1. \A w \in Workers : req[w] \in Request
  BY DEF OtpTypeOK
<1>2. \A i \in DOMAIN otps : otps[i] \in Otp
  BY DEF OtpTypeOK
<1>3. /\ Len(otps) \in Nat /\ DOMAIN otps = 1..Len(otps)
      /\ Len(tokens) \in Nat /\ DOMAIN tokens = 1..Len(tokens)
  BY DEF OtpTypeOK
<1>. QED BY <1>1, <1>2, <1>3, PurposeType DEF Request, Otp

\* A thread without a request is of the type of requests.
LEMMA IdleType == OtpIdle \in Request /\ OtpIdle.step = "idle"
BY DEF OtpIdle, Request, OtpSteps, AllOps

\* A request that arrives has its step, operation and address; no other thread moves.
LEMMA ArriveType ==
  ASSUME TypeInv, NEW w \in Workers, NEW op \in AllOps, NEW e \in Emails,
         NEW c \in Nat, NEW st \in OtpSteps, Arrive(w, op, e, c, st)
  PROVE  /\ req' \in [Workers -> Request] /\ used' \in [requests : Nat, lapses : Nat]
         /\ overlap' \subseteq Emails /\ Addressed'
         /\ req'[w].step = st /\ req'[w].op = op /\ req'[w].email = e
         /\ \A v \in Workers \ {w} : req'[v] = req[v]
<1>. USE DEF TypeInv
<1>. DEFINE r == [OtpIdle EXCEPT !.step = st, !.op = op, !.email = e, !.code = c,
                                 !.row = gen[e]]
<1>1. r \in Request /\ r.step = st /\ r.op = op /\ r.email = e
  BY IdleType DEF OtpTypeOK, Request, OtpIdle
<1>2. req' = [req EXCEPT ![w] = r]
  BY DEF Arrive
<1>3. used.requests \in Nat /\ used.lapses \in Nat
  BY DEF OtpTypeOK
<1>4. used.requests + 1 \in Nat
  BY <1>3
<1>5. used' \in [requests : Nat, lapses : Nat]
  BY <1>4 DEF Arrive, OtpTypeOK
<1>. HIDE DEF r
<1>6. req' \in [Workers -> Request] /\ req'[w] = r /\ \A v \in Workers \ {w} : req'[v] = req[v]
  BY <1>1, <1>2 DEF OtpTypeOK
<1>. QED BY <1>1, <1>5, <1>6 DEF Arrive, OtpTypeOK, Addressed

\* A thread moves on, keeping the address and the operation it serves.
LEMMA MoveType ==
  ASSUME TypeInv, NEW w \in Workers, req[w].step # "idle",
         NEW r \in Request, r.email = req[w].email, req' = [req EXCEPT ![w] = r]
  PROVE  /\ req' \in [Workers -> Request] /\ Addressed'
         /\ req'[w] = r /\ \A v \in Workers \ {w} : req'[v] = req[v]
BY DEF TypeInv, OtpTypeOK, Addressed

\* A thread goes to its next step and keeps the rest of its request.
LEMMA GotoType ==
  ASSUME TypeInv, NEW w \in Workers, req[w].step # "idle",
         NEW st \in OtpSteps, Goto(w, st)
  PROVE  /\ req' \in [Workers -> Request] /\ Addressed'
         /\ req'[w].step = st /\ req'[w].op = req[w].op /\ req'[w].email = req[w].email
         /\ req'[w].rec = req[w].rec
         /\ \A v \in Workers \ {w} : req'[v] = req[v]
<1>. DEFINE r == [req[w] EXCEPT !.step = st]
<1>1. /\ r \in Request /\ r.step = st /\ r.op = req[w].op /\ r.email = req[w].email
      /\ r.rec = req[w].rec
  BY Fields DEF TypeInv, Request
<1>2. req' = [req EXCEPT ![w] = r]
  BY DEF Goto
<1>. QED BY <1>1, <1>2, MoveType

\* A thread that answered is idle.
LEMMA AnswerType ==
  ASSUME TypeInv, NEW w \in Workers, Answer(w)
  PROVE  /\ req' \in [Workers -> Request] /\ Addressed'
         /\ req'[w].step = "idle" /\ \A v \in Workers \ {w} : req'[v] = req[v]
BY IdleType DEF Answer, TypeInv, OtpTypeOK, Addressed

\* Records rewritten in place.
LEMMA SeqMap ==
  ASSUME NEW S, NEW s \in Seq(S), NEW f, DOMAIN f = DOMAIN s,
         f = [i \in DOMAIN s |-> f[i]], \A i \in DOMAIN s : f[i] \in S
  PROVE  f \in Seq(S)
<1>1. Len(s) \in Nat /\ DOMAIN s = 1..Len(s)
  OBVIOUS
<1>2. f \in [1..Len(s) -> S]
  BY <1>1
<1>. QED BY <1>1, <1>2

\* The bound on lapses stays a number.
LEMMA LapseType ==
  ASSUME OtpTypeOK, OtpLapse PROVE used' \in [requests : Nat, lapses : Nat]
<1>1. used.lapses \in Nat /\ used.lapses + 1 \in Nat
  BY DEF OtpTypeOK
<1>. QED BY <1>1 DEF OtpLapse, OtpTypeOK

\* A session ends.
LEMMA EndedType ==
  ASSUME OtpTypeOK, NEW t, NEW new, new = [tokens EXCEPT ![t] = [tokens[t] EXCEPT !.live = FALSE]]
  PROVE  /\ new \in Seq(Session) /\ DOMAIN new = DOMAIN tokens
         /\ \A i \in DOMAIN tokens : new[i].email = tokens[i].email
<1>1. \A i \in DOMAIN tokens : tokens[i] \in Session
  BY DEF OtpTypeOK
<1>2. \A i \in DOMAIN tokens : /\ [tokens[i] EXCEPT !.live = FALSE] \in Session
                              /\ [tokens[i] EXCEPT !.live = FALSE].email = tokens[i].email
  BY <1>1 DEF Session
<1>3. new = [i \in DOMAIN tokens |-> new[i]] /\ DOMAIN new = DOMAIN tokens
  OBVIOUS
<1>4. \A i \in DOMAIN tokens : new[i] \in Session /\ new[i].email = tokens[i].email
  BY <1>1, <1>2
<1>5. tokens \in Seq(Session)
  BY DEF OtpTypeOK
<1>. QED BY <1>3, <1>4, <1>5, SeqMap

\* A cleared counter is a counter.
LEMMA ForgetType ==
  ASSUME OtpTypeOK, NEW e, NEW p, ForgetCounter(e, p)
  PROVE  fails' \in [Emails -> [Purposes -> Nat]] /\ missed' \in [Emails -> [Purposes -> Nat]]
BY DEF OtpTypeOK, ForgetCounter

-----------------------------------------------------------------------------
(* Every step keeps the types.                                             *)

\* Asking for a code keeps the types,
LEMMA SendType ==
  ASSUME TypeInv, NEW w \in Workers,
         \/ SendLogin(w) \/ SendVerify(w) \/ Resend(w) \/ SendContact(w) \/ SendReset(w)
  PROVE  TypeInv'
<1>1. PICK e \in Emails, op \in {"sendlogin", "sendverify", "resend", "sendcontact", "sendreset"},
           st \in {"invalidate", "cooldown"} : Asked(w, op, e, st)
  BY DEF SendLogin, SendVerify, Resend, SendContact, SendReset
<1>2. op \in AllOps /\ st \in OtpSteps /\ Arrive(w, op, e, 0, st)
  BY <1>1 DEF Asked, AllOps, OtpSteps
<1>3. /\ req' \in [Workers -> Request] /\ used' \in [requests : Nat, lapses : Nat]
      /\ overlap' \subseteq Emails /\ Addressed'
  BY <1>2, ArriveType
<1>. QED BY <1>1, <1>3 DEF Asked, TypeInv, OtpTypeOK

\* ... as does submitting one,
LEMMA SubmitType ==
  ASSUME TypeInv, NEW w \in Workers, NEW op \in {"login", "verify", "contact", "check", "confirm"},
         Submit(w, op)
  PROVE  TypeInv'
<1>1. PICK e \in Emails, c \in 0 .. Len(otps), st \in {"idle", "look"} : Arrive(w, op, e, c, st)
  BY DEF Submit
<1>2. op \in AllOps /\ st \in OtpSteps /\ c \in Nat
  BY DEF AllOps, OtpSteps
<1>3. /\ req' \in [Workers -> Request] /\ used' \in [requests : Nat, lapses : Nat]
      /\ overlap' \subseteq Emails /\ Addressed'
  BY <1>1, <1>2, ArriveType
<1>. QED BY <1>3 DEF Submit, TypeInv, OtpTypeOK

\* ... registering, using a session and signing in,
LEMMA EntryType ==
  ASSUME TypeInv, NEW w \in Workers, Register(w) \/ UseToken(w) \/ Login(w)
  PROVE  TypeInv'
<1>1. PICK e \in Emails, op \in {"register", "token", "password"}, c \in Nat,
           st \in {"invalidate", "consume", "idle", "auth"} : Arrive(w, op, e, c, st)
  <2>1. DOMAIN tokens \subseteq Nat
    BY Fields DEF TypeInv
  <2>. QED BY <2>1 DEF Register, UseToken, Login
<1>2. op \in AllOps /\ st \in OtpSteps
  BY DEF AllOps, OtpSteps
<1>3. /\ req' \in [Workers -> Request] /\ used' \in [requests : Nat, lapses : Nat]
      /\ overlap' \subseteq Emails /\ Addressed'
  BY <1>1, <1>2, ArriveType
<1>4. account' \in [Emails -> {"none", "active", "off"}] /\ verified' \in [Emails -> BOOLEAN]
  BY DEF Register, UseToken, Login, TypeInv, OtpTypeOK
<1>. QED BY <1>3, <1>4 DEF Register, UseToken, Login, TypeInv, OtpTypeOK

\* The codes that match an address and a purpose are records of both.
LEMMA MatchingIn ==
  ASSUME TypeInv, NEW e, NEW p
  PROVE  /\ Matching(e, p) \in SUBSET DOMAIN otps /\ Active(e, p) \in SUBSET DOMAIN otps
         /\ \A i \in Active(e, p) : otps[i].email = e /\ otps[i].purpose = p
BY DEF Matching, Active

\* ... sending a code,
LEMMA SendWorkType ==
  ASSUME TypeInv, NEW w \in Workers, Cooldown(w) \/ Invalidate(w) \/ Create(w)
  PROVE  TypeInv'
<1>. USE DEF TypeInv
<1>1. ASSUME Cooldown(w) PROVE TypeInv'
  <2>1. Answer(w) \/ Goto(w, "invalidate")
    BY <1>1 DEF Cooldown
  <2>2. req' \in [Workers -> Request] /\ Addressed'
    BY <1>1, <2>1, AnswerType, GotoType DEF Cooldown, OtpSteps
  <2>. QED BY <1>1, <2>2 DEF Cooldown, OtpTypeOK
<1>2. ASSUME Invalidate(w) PROVE TypeInv'
  <2>1. req' \in [Workers -> Request] /\ Addressed'
    BY <1>2, GotoType DEF Invalidate, OtpSteps
  <2>2. \A i \in DOMAIN otps : [otps[i] EXCEPT !.used = TRUE] \in Otp
    BY Fields DEF Otp
  <2>3. DOMAIN otps' = DOMAIN otps /\ \A i \in DOMAIN otps : otps'[i] \in Otp
    BY <1>2, <2>2, Fields DEF Invalidate
  <2>4. otps' = [i \in DOMAIN otps |-> otps'[i]]
    BY <1>2 DEF Invalidate
  <2>5. otps' \in Seq(Otp)
    BY <2>3, <2>4, SeqMap DEF OtpTypeOK
  <2>. QED BY <1>2, <2>1, <2>5 DEF Invalidate, OtpTypeOK
<1>3. ASSUME Create(w) PROVE TypeInv'
  <2>1. req' \in [Workers -> Request] /\ Addressed'
    BY <1>3, AnswerType DEF Create
  <2>2. req[w].email \in Emails /\ Purpose(req[w].op) \in Purposes
    BY <1>3, Fields DEF Create, Addressed
  <2>3. Issued(req[w].email, Purpose(req[w].op)) \in Otp
    BY <2>2 DEF Issued, Otp, Ages
  <2>4. otps' \in Seq(Otp)
    BY <1>3, <2>3 DEF Create, OtpTypeOK
  <2>. QED BY <1>3, <2>1, <2>4 DEF Create, OtpTypeOK
<1>. QED BY <1>1, <1>2, <1>3

\* What a judgement may write over a record.
LEMMA JudgedType ==
  ASSUME TypeInv, NEW q \in Request, q.rec \in DOMAIN otps
  PROVE  /\ [otps[q.rec] EXCEPT !.used = TRUE] \in Otp /\ Right(q) \in Otp /\ Wrong(q) \in Otp
         /\ Right(q).email = otps[q.rec].email /\ Right(q).purpose = otps[q.rec].purpose
         /\ Right(q).won > 0 /\ Right(q).used
         /\ Wrong(q).email = otps[q.rec].email /\ Wrong(q).purpose = otps[q.rec].purpose
         /\ Wrong(q).won = otps[q.rec].won /\ (otps[q.rec].used => Wrong(q).used)
<1>. DEFINE o == otps[q.rec]
<1>1. /\ o \in Otp /\ o.used \in BOOLEAN /\ o.won \in Nat /\ o.wrong \in Nat
      /\ o.won + 1 \in Nat /\ o.wrong + 1 \in Nat /\ o.won + 1 > 0
  BY Fields DEF TypeInv
<1>2. q.seen + 1 \in Nat
  BY DEF Request
<1>3. PICK b \in BOOLEAN : b = (o.used \/ q.seen + 1 >= MaxAttempts)
  BY <1>1
<1>4. Wrong(q) = [o EXCEPT !.attempts = q.seen + 1, !.used = b, !.wrong = o.wrong + 1]
  BY <1>1, <1>3 DEF Wrong, Otp
<1>5. Right(q) = [o EXCEPT !.used = TRUE, !.won = o.won + 1]
  BY DEF Right
<1>. HIDE DEF o
<1>6. Wrong(q) \in Otp /\ Right(q) \in Otp /\ [o EXCEPT !.used = TRUE] \in Otp
  BY <1>1, <1>2, <1>4, <1>5 DEF Otp
<1>7. /\ Right(q).email = o.email /\ Right(q).purpose = o.purpose
      /\ Right(q).won > 0 /\ Right(q).used
      /\ Wrong(q).email = o.email /\ Wrong(q).purpose = o.purpose
      /\ Wrong(q).won = o.won /\ (o.used => Wrong(q).used)
  BY <1>1, <1>3, <1>4, <1>5 DEF Otp
<1>. QED BY <1>6, <1>7 DEF o

\* ... checking one,
LEMMA CheckType ==
  ASSUME TypeInv, NEW w \in Workers,
         Look(w) \/ (Judge(w) /\ JudgesOwn(w)) \/ FailRead(w) \/ FailSet(w) \/ Clear(w)
  PROVE  TypeInv'
<1>. USE DEF TypeInv
<1>1. ASSUME Look(w) PROVE TypeInv'
  <2>. DEFINE rec == LatestActive(req[w].email, Purpose(req[w].op))
              seen == IF rec = 0 THEN 0 ELSE otps[rec].attempts
              step == IF rec = 0 THEN "failread" ELSE "judge"
  <2>1. rec \in Nat /\ (rec # 0 => rec \in DOMAIN otps)
    BY MatchingIn, LatestIn DEF LatestActive, OtpTypeOK
  <2>2. seen \in Nat /\ step \in OtpSteps
    BY <2>1, Fields DEF OtpSteps
  <2>3. req' = [req EXCEPT ![w] = [req[w] EXCEPT !.rec = rec, !.seen = seen, !.step = step]]
    BY <1>1 DEF Look
  <2>. HIDE DEF rec, seen, step
  <2>4. /\ [req[w] EXCEPT !.rec = rec, !.seen = seen, !.step = step] \in Request
        /\ [req[w] EXCEPT !.rec = rec, !.seen = seen, !.step = step].email = req[w].email
    BY <2>1, <2>2, Fields DEF Request
  <2>5. req' \in [Workers -> Request] /\ Addressed'
    BY <1>1, <2>3, <2>4, MoveType DEF Look
  <2>. QED BY <1>1, <2>5 DEF Look, OtpTypeOK
<1>2. ASSUME Judge(w), JudgesOwn(w) PROVE TypeInv'
  <2>. DEFINE q == req[w]
  <2>1. Answer(w) \/ Goto(w, "clear") \/ Goto(w, "failread")
    BY <1>2 DEF Judge
  <2>2. req' \in [Workers -> Request] /\ Addressed'
    BY <1>2, <2>1, AnswerType, GotoType DEF Judge, OtpSteps
  <2>3. q \in Request /\ q.rec \in DOMAIN otps
    BY <1>2, Fields DEF Judge, JudgesOwn
  <2>4. UNCHANGED otps \/ \E r \in Otp : otps' = [otps EXCEPT ![q.rec] = r]
    BY <1>2, <2>3, JudgedType DEF Judge
  <2>5. otps' \in Seq(Otp)
    <3>1. otps \in Seq(Otp)
      BY DEF OtpTypeOK
    <3>2. ASSUME NEW r \in Otp, otps' = [otps EXCEPT ![q.rec] = r] PROVE otps' \in Seq(Otp)
      BY <2>3, <3>1, <3>2
    <3>. QED BY <2>4, <3>1, <3>2
  <2>. QED BY <1>2, <2>2, <2>5 DEF Judge, OtpTypeOK
<1>3. ASSUME FailRead(w) PROVE TypeInv'
  <2>. DEFINE seen == fails[req[w].email][Purpose(req[w].op)]
  <2>1. seen \in Nat
    BY <1>3, Fields DEF FailRead, Addressed, OtpTypeOK
  <2>2. req' = [req EXCEPT ![w] = [req[w] EXCEPT !.seen = seen, !.step = "failset"]]
    BY <1>3 DEF FailRead
  <2>. HIDE DEF seen
  <2>3. /\ [req[w] EXCEPT !.seen = seen, !.step = "failset"] \in Request
        /\ [req[w] EXCEPT !.seen = seen, !.step = "failset"].email = req[w].email
    BY <2>1, Fields DEF Request, OtpSteps
  <2>4. req' \in [Workers -> Request] /\ Addressed'
    BY <1>3, <2>2, <2>3, MoveType DEF FailRead
  <2>. QED BY <1>3, <2>4 DEF FailRead, OtpTypeOK
<1>4. ASSUME FailSet(w) PROVE TypeInv'
  <2>. DEFINE e == req[w].email
              p == Purpose(req[w].op)
  <2>1. req' \in [Workers -> Request] /\ Addressed'
    BY <1>4, AnswerType DEF FailSet
  <2>2. e \in Emails /\ p \in Purposes /\ req[w].seen + 1 \in Nat
    BY <1>4, Fields DEF FailSet, Addressed
  <2>3. missed[e][p] + 1 \in Nat
    BY <2>2 DEF OtpTypeOK
  <2>4. /\ fails' = [fails EXCEPT ![e][p] = req[w].seen + 1]
        /\ missed' = [missed EXCEPT ![e][p] = missed[e][p] + 1]
    BY <1>4 DEF FailSet
  <2>. HIDE DEF e, p
  <2>5. fails' \in [Emails -> [Purposes -> Nat]] /\ missed' \in [Emails -> [Purposes -> Nat]]
    BY <2>2, <2>3, <2>4 DEF OtpTypeOK
  <2>. QED BY <1>4, <2>1, <2>5 DEF FailSet, OtpTypeOK
<1>5. ASSUME Clear(w) PROVE TypeInv'
  <2>1. Answer(w) \/ Goto(w, "grant")
    BY <1>5 DEF Clear
  <2>2. req' \in [Workers -> Request] /\ Addressed'
    BY <1>5, <2>1, AnswerType, GotoType DEF Clear, OtpSteps
  <2>3. fails' \in [Emails -> [Purposes -> Nat]] /\ missed' \in [Emails -> [Purposes -> Nat]]
    BY <1>5, ForgetType DEF Clear
  <2>. QED BY <1>5, <2>2, <2>3 DEF Clear, OtpTypeOK
<1>. QED BY <1>1, <1>2, <1>3, <1>4, <1>5

\* ... granting what it is for,
LEMMA GrantType ==
  ASSUME TypeInv, NEW w \in Workers,
         \/ GrantLogin(w) \/ GrantVerified(w) \/ GrantToken(w) \/ Consume(w)
         \/ ResetRead(w) \/ ResetSave(w) \/ Authenticate(w)
  PROVE  TypeInv'
<1>. USE DEF TypeInv
<1>0. req[w].step # "idle" => req[w].email \in Emails
  BY DEF Addressed
<1>1. ASSUME GrantLogin(w) \/ GrantVerified(w) PROVE TypeInv'
  <2>1. CASE GrantLogin(w)
    <3>. DEFINE r == [req[w] EXCEPT !.step = "mark", !.row = gen[req[w].email]]
    <3>1. gen[req[w].email] \in Nat
      BY <2>1, <1>0 DEF GrantLogin, OtpTypeOK
    <3>2. r \in Request /\ r.email = req[w].email
      BY <3>1, Fields DEF Request, OtpSteps
    <3>3. req' = [req EXCEPT ![w] = r]
      BY <2>1 DEF GrantLogin
    <3>. HIDE DEF r
    <3>4. req' \in [Workers -> Request] /\ Addressed'
      BY <2>1, <3>2, <3>3, MoveType DEF GrantLogin
    <3>5. account' \in [Emails -> {"none", "active", "off"}]
      BY <2>1, <1>0 DEF GrantLogin, OtpTypeOK
    <3>. QED BY <2>1, <3>4, <3>5 DEF GrantLogin, OtpTypeOK
  <2>2. CASE GrantVerified(w)
    <3>1. req' \in [Workers -> Request] /\ Addressed'
      BY <2>2, AnswerType DEF GrantVerified
    <3>2. verified' \in [Emails -> BOOLEAN]
      BY <2>2, <1>0 DEF GrantVerified, OtpTypeOK
    <3>. QED BY <2>2, <3>1, <3>2 DEF GrantVerified, OtpTypeOK
  <2>. QED BY <1>1, <2>1, <2>2
<1>2. ASSUME GrantToken(w) PROVE TypeInv'
  <2>1. req' \in [Workers -> Request] /\ Addressed'
    BY <1>2, AnswerType DEF GrantToken
  <2>2. [email |-> req[w].email, live |-> TRUE] \in Session
    BY <1>2, <1>0 DEF GrantToken, Session
  <2>3. tokens' \in Seq(Session)
    BY <1>2, <2>2 DEF GrantToken, OtpTypeOK
  <2>. QED BY <1>2, <2>1, <2>3 DEF GrantToken, OtpTypeOK
<1>3. ASSUME Consume(w) PROVE TypeInv'
  <2>1. req' \in [Workers -> Request] /\ Addressed'
    BY <1>3, GotoType DEF Consume, OtpSteps
  <2>2. tokens' = [tokens EXCEPT ![req[w].code] = [tokens[req[w].code] EXCEPT !.live = FALSE]]
    BY <1>3 DEF Consume
  <2>3. tokens' \in Seq(Session)
    BY <2>2, EndedType
  <2>. QED BY <1>3, <2>1, <2>3 DEF Consume, OtpTypeOK
<1>4. ASSUME ResetRead(w) PROVE TypeInv'
  <2>. DEFINE r == [req[w] EXCEPT !.step = "save", !.row = gen[req[w].email],
                                  !.flag = verified[req[w].email]]
  <2>1. gen[req[w].email] \in Nat /\ verified[req[w].email] \in BOOLEAN
    BY <1>4, <1>0 DEF ResetRead, OtpTypeOK
  <2>2. r \in Request /\ r.email = req[w].email
    BY <2>1, Fields DEF Request, OtpSteps
  <2>3. Answer(w) \/ req' = [req EXCEPT ![w] = r]
    BY <1>4 DEF ResetRead
  <2>. HIDE DEF r
  <2>4. req' \in [Workers -> Request] /\ Addressed'
    BY <1>4, <2>2, <2>3, AnswerType, MoveType DEF ResetRead
  <2>. QED BY <1>4, <2>4 DEF ResetRead, OtpTypeOK
<1>5. ASSUME ResetSave(w) PROVE TypeInv'
  <2>1. req' \in [Workers -> Request] /\ Addressed'
    BY <1>5, AnswerType DEF ResetSave
  <2>2. req[w].row \in Nat /\ req[w].flag \in BOOLEAN
    BY Fields
  <2>3. fails' \in [Emails -> [Purposes -> Nat]] /\ missed' \in [Emails -> [Purposes -> Nat]]
    BY <1>5, ForgetType DEF ResetSave, OtpTypeOK
  <2>4. account' \in [Emails -> {"none", "active", "off"}] /\ gen' \in [Emails -> Nat]
    BY <1>5, <2>2 DEF ResetSave, OtpTypeOK
  <2>5. verified' \in [Emails -> BOOLEAN]
    BY <1>5, <2>2 DEF ResetSave, OtpTypeOK
  <2>6. resets' \in [Emails -> Nat]
    BY <1>5, <1>0 DEF ResetSave, OtpTypeOK
  <2>. QED BY <1>5, <2>1, <2>3, <2>4, <2>5, <2>6 DEF ResetSave, OtpTypeOK
<1>6. ASSUME Authenticate(w) PROVE TypeInv'
  <2>1. Answer(w) \/ Goto(w, "clear")
    BY <1>6 DEF Authenticate
  <2>2. req' \in [Workers -> Request] /\ Addressed'
    BY <1>6, <2>1, AnswerType, GotoType DEF Authenticate, OtpSteps
  <2>. QED BY <1>6, <2>2 DEF Authenticate, OtpTypeOK
<1>. QED BY <1>1, <1>2, <1>3, <1>4, <1>5, <1>6

\* ... and what time and administrators do.
LEMMA OutsideType ==
  ASSUME TypeInv, Age \/ CacheExpires \/ Administer
  PROVE  TypeInv'
<1>. USE DEF TypeInv
<1>1. ASSUME Age PROVE TypeInv'
  <2>1. PICK i \in DOMAIN otps :
          otps' = [otps EXCEPT ![i] = [otps[i] EXCEPT !.age = IF otps[i].age = "recent"
                                                              THEN "old" ELSE "expired"]]
    BY <1>1 DEF Age
  <2>2. [otps[i] EXCEPT !.age = IF otps[i].age = "recent" THEN "old" ELSE "expired"] \in Otp
    BY Fields DEF Otp, Ages
  <2>3. otps' \in Seq(Otp)
    BY <2>1, <2>2 DEF OtpTypeOK
  <2>. QED BY <1>1, <2>3, LapseType DEF Age, OtpTypeOK, Addressed
<1>2. ASSUME CacheExpires PROVE TypeInv'
  <2>1. \/ UNCHANGED tokens
        \/ \E t \in DOMAIN tokens : tokens' = [tokens EXCEPT ![t] = [tokens[t] EXCEPT !.live = FALSE]]
    BY <1>2 DEF CacheExpires
  <2>2. tokens' \in Seq(Session)
    BY <2>1, EndedType DEF OtpTypeOK
  <2>3. fails' \in [Emails -> [Purposes -> Nat]] /\ missed' \in [Emails -> [Purposes -> Nat]]
    BY <1>2, ForgetType DEF CacheExpires, OtpTypeOK
  <2>. QED BY <1>2, <2>2, <2>3, LapseType DEF CacheExpires, OtpTypeOK, Addressed
<1>3. ASSUME Administer PROVE TypeInv'
  <2>1. PICK e \in Emails : Flip(e) \/ Delete(e)
    BY <1>3 DEF Administer
  <2>2. overlap' \subseteq Emails
    BY <1>3 DEF Administer, OtpTypeOK
  <2>3. account' \in [Emails -> {"none", "active", "off"}] /\ verified' \in [Emails -> BOOLEAN]
    BY <2>1 DEF Flip, Delete, OtpTypeOK
  <2>4. gen[e] + 1 \in Nat
    BY DEF OtpTypeOK
  <2>5. gen' \in [Emails -> Nat]
    <3>1. gen' = gen \/ gen' = [gen EXCEPT ![e] = gen[e] + 1]
      BY <2>1 DEF Flip, Delete
    <3>2. gen \in [Emails -> Nat]
      BY DEF OtpTypeOK
    <3>. QED BY <2>4, <3>1, <3>2
  <2>6. otps' \in Seq(Otp)
    <3>1. CASE Flip(e)
      BY <3>1 DEF Flip, OtpTypeOK
    <3>2. CASE Delete(e)
      <4>1. \A i \in DOMAIN otps : [otps[i] EXCEPT !.age = "gone"] \in Otp
        BY Fields DEF Otp, Ages
      <4>2. DOMAIN otps' = DOMAIN otps /\ \A i \in DOMAIN otps : otps'[i] \in Otp
        BY <3>2, <4>1, Fields DEF Delete
      <4>3. otps' = [i \in DOMAIN otps |-> otps'[i]]
        BY <3>2 DEF Delete
      <4>. QED BY <4>2, <4>3, SeqMap DEF OtpTypeOK
    <3>. QED BY <2>1, <3>1, <3>2
  <2>. QED BY <1>3, <2>2, <2>3, <2>5, <2>6, LapseType DEF Administer, OtpTypeOK, Addressed
<1>. QED BY <1>1, <1>2, <1>3

\* Every step keeps the types.
LEMMA NextType ==
  ASSUME TypeInv, \A w \in Workers : JudgesOwn(w), [OtpNext]_otpVars
  PROVE  TypeInv'
<1>1. CASE UNCHANGED otpVars
  BY <1>1 DEF otpVars, TypeInv, OtpTypeOK, Addressed
<1>2. ASSUME NEW w \in Workers, OtpWork(w) PROVE TypeInv'
  BY <1>2, SendWorkType, CheckType, GrantType DEF OtpWork
<1>. QED BY <1>1, <1>2, SendType, SubmitType, EntryType, OutsideType
         DEF OtpNext, VerifyLogin, VerifyEmail, ConfirmContact, CheckReset, ConfirmReset

-----------------------------------------------------------------------------
(* No step takes back what happened to a record.                           *)

\* A judgement takes nothing back, and an accepted code has won.
LEMMA JudgeKeeps ==
  ASSUME TypeInv, NEW w \in Workers, JudgesOwn(w), Judge(w)
  PROVE  /\ Keeps
         /\ req'[w].step = "clear" => otps'[req[w].rec].won > 0
<1>. DEFINE q == req[w]
<1>1. q \in Request /\ q.rec \in DOMAIN otps /\ q.step = "judge"
  BY Fields DEF Judge, JudgesOwn, TypeInv
<1>2. /\ Right(q).email = otps[q.rec].email /\ Right(q).purpose = otps[q.rec].purpose
      /\ Right(q).won > 0 /\ Right(q).used
      /\ Wrong(q).email = otps[q.rec].email /\ Wrong(q).purpose = otps[q.rec].purpose
      /\ Wrong(q).won = otps[q.rec].won /\ (otps[q.rec].used => Wrong(q).used)
  BY <1>1, JudgedType
<1>3. \A i \in DOMAIN otps : otps[i] \in Otp
  BY Fields DEF TypeInv
<1>4. CASE UNCHANGED otps /\ Answer(w)
  BY <1>4, AnswerType DEF Keeps
<1>5. CASE otps' = [otps EXCEPT ![q.rec] = [otps[q.rec] EXCEPT !.used = TRUE]] /\ Goto(w, "failread")
  <2>1. req'[w].step = "failread"
    BY <1>5, <1>1, GotoType DEF OtpSteps
  <2>. QED BY <1>1, <1>3, <1>5, <2>1 DEF Keeps, Otp
<1>6. CASE otps' = [otps EXCEPT ![q.rec] = Right(q)]
  BY <1>1, <1>2, <1>6 DEF Keeps
<1>7. CASE otps' = [otps EXCEPT ![q.rec] = Wrong(q)] /\ Goto(w, "failread")
  <2>1. req'[w].step = "failread"
    BY <1>7, <1>1, GotoType DEF OtpSteps
  <2>. QED BY <1>1, <1>2, <1>7, <2>1 DEF Keeps
<1>. QED BY <1>4, <1>5, <1>6, <1>7 DEF Judge

\* No step takes anything back.
LEMMA StepKeeps ==
  ASSUME TypeInv, \A w \in Workers : JudgesOwn(w), [OtpNext]_otpVars
  PROVE  Keeps
<1>1. CASE UNCHANGED otps
  BY <1>1 DEF Keeps
<1>2. \A i \in DOMAIN otps : otps[i] \in Otp
  BY Fields DEF TypeInv
<1>3. ASSUME NEW w \in Workers, Invalidate(w) PROVE Keeps
  BY <1>2, <1>3 DEF Invalidate, Keeps, Otp
<1>4. ASSUME NEW w \in Workers, Create(w) PROVE Keeps
  BY <1>4 DEF Create, Issued, Keeps, TypeInv, OtpTypeOK
<1>5. ASSUME Age PROVE Keeps
  BY <1>2, <1>5 DEF Age, Keeps, Otp
<1>6. ASSUME NEW e \in Emails, Delete(e) PROVE Keeps
  BY <1>2, <1>6 DEF Delete, Keeps, Otp
<1>7. CASE Administer
  BY <1>1, <1>6, <1>7 DEF Administer, Flip
<1>8. CASE CacheExpires
  BY <1>1, <1>8 DEF CacheExpires
<1>9. ASSUME NEW w \in Workers, OtpWork(w) PROVE Keeps
  BY <1>1, <1>3, <1>4, <1>9, JudgeKeeps
  DEF OtpWork, Cooldown, Look, FailRead, FailSet, Clear, GrantLogin, GrantVerified,
      GrantToken, Consume, ResetRead, ResetSave, Authenticate
<1>10. CASE UNCHANGED otpVars
  BY <1>1, <1>10 DEF otpVars
<1>. QED BY <1>1, <1>5, <1>7, <1>8, <1>9, <1>10
         DEF OtpNext, SendLogin, SendVerify, Resend, SendContact, SendReset, Asked, Register,
             VerifyLogin, VerifyEmail, ConfirmContact, CheckReset, ConfirmReset, Submit,
             UseToken, Login

\* Codes that won stay so.
LEMMA WonGrows ==
  ASSUME Keeps
  PROVE  \A e, P : Won(e, P) # {} => Won(e, P)' # {}
BY DEF Keeps, Won

\* What a step must show of the thread that took it and of what it wrote.
LEMMA Carry ==
  ASSUME CodeInv, Keeps, TypeInv',
         \A v \in Workers : req'[v] # req[v] => JudgesOwn(v)' /\ Earned(v)',
         UNCHANGED tokens \/ SessionsEarned',
         \A e \in Emails : resets'[e] # resets[e] => Won(e, {"reset"}) # {},
         \A e \in Emails : verified'[e] => verified[e] \/ Won(e, VerifyPurposes) # {}
  PROVE  CodeInv'
<1>. USE DEF CodeInv
<1>1. \A v \in Workers : JudgesOwn(v)' /\ Earned(v)'
  <2>1. ASSUME NEW v \in Workers, req'[v] = req[v] PROVE JudgesOwn(v)'
    BY <2>1 DEF JudgesOwn, Keeps
  <2>2. ASSUME NEW v \in Workers, req'[v] = req[v] PROVE Earned(v)'
    BY <2>2 DEF Earned, Keeps, Won
  <2>. QED BY <2>1, <2>2
<1>2. SessionsEarned'
  BY DEF SessionsEarned, Keeps, Won
<1>3. ResetCoded'
  BY WonGrows DEF ResetCoded
<1>4. VerifiedBacked'
  BY WonGrows DEF VerifiedBacked, VerifyPurposes
<1>. QED BY <1>1, <1>2, <1>3, <1>4

-----------------------------------------------------------------------------
(* The invariant, action by action.                                        *)

\* The code that may have been mailed before is a record that counts nothing yet.
LEMMA MailedBefore ==
  ASSUME OtpInit
  PROVE  /\ otps \in Seq(Otp)
         /\ \A i \in DOMAIN otps : /\ otps[i].attempts = 0 /\ ~otps[i].used
                                  /\ otps[i].won = 0 /\ otps[i].wrong = 0
<1>1. CASE otps = <<>>
  BY <1>1
<1>2. ASSUME NEW e \in Emails, NEW p \in Purposes, otps = <<Issued(e, p)>>
      PROVE  /\ otps \in Seq(Otp)
             /\ \A i \in DOMAIN otps : otps[i] = Issued(e, p)
  <2>1. Issued(e, p) \in Otp
    BY DEF Issued, Otp, Ages
  <2>. HIDE DEF Issued
  <2>. QED BY <1>2, <2>1
<1>3. otps = <<>> \/ \E e \in Emails, p \in Purposes : otps = <<Issued(e, p)>>
  BY DEF OtpInit, Purposes
<1>. QED BY <1>1, <1>2, <1>3 DEF Issued

\* It holds in the first state,
LEMMA InitInv == OtpInit => CodeInv
<1>. SUFFICES ASSUME OtpInit PROVE CodeInv
  OBVIOUS
<1>1. TypeInv
  BY IdleType, MailedBefore DEF OtpInit, TypeInv, OtpTypeOK, Addressed
<1>. QED BY <1>1, IdleType, MailedBefore
         DEF OtpInit, CodeInv, JudgesOwn, Earned, SessionsEarned, ResetCoded, VerifiedBacked

\* A request that arrives has earned nothing, and a reset session has.
LEMMA ArrivalInv ==
  ASSUME CodeInv, Keeps, TypeInv', NEW w \in Workers,
         NEW op \in AllOps, NEW e \in Emails, NEW c \in Nat,
         NEW st \in {"idle", "look", "invalidate", "cooldown", "auth", "consume"},
         Arrive(w, op, e, c, st), UNCHANGED <<otps, tokens, resets>>,
         \A a \in Emails : verified'[a] => verified[a],
         st = "auth" => op = "password",
         st = "consume" => op = "token" /\ Won(e, {"reset"}) # {}
  PROVE  CodeInv'
<1>1. /\ req'[w].step = st /\ req'[w].op = op /\ req'[w].email = e
      /\ \A v \in Workers \ {w} : req'[v] = req[v]
  BY ArriveType DEF CodeInv, OtpSteps
<1>2. JudgesOwn(w)'
  BY <1>1 DEF JudgesOwn
<1>3. Purpose("token") = "reset"
  BY DEF Purpose
<1>4. Earned(w)'
  BY <1>1, <1>3 DEF Earned, Won
<1>. QED BY <1>1, <1>2, <1>4, Carry

\* Every way a request arrives keeps the invariant,
LEMMA ArrivalsInv ==
  ASSUME CodeInv, Keeps, TypeInv', NEW w \in Workers,
         \/ SendLogin(w) \/ SendVerify(w) \/ Resend(w) \/ SendContact(w) \/ SendReset(w)
         \/ VerifyLogin(w) \/ VerifyEmail(w) \/ ConfirmContact(w) \/ CheckReset(w)
         \/ ConfirmReset(w) \/ Register(w) \/ UseToken(w) \/ Login(w)
  PROVE  CodeInv'
<1>1. CASE SendLogin(w) \/ SendVerify(w) \/ Resend(w) \/ SendContact(w) \/ SendReset(w)
  <2>1. PICK e \in Emails,
             op \in {"sendlogin", "sendverify", "resend", "sendcontact", "sendreset"},
             st \in {"invalidate", "cooldown"} : Asked(w, op, e, st)
    BY <1>1 DEF SendLogin, SendVerify, Resend, SendContact, SendReset
  <2>. QED BY <2>1, ArrivalInv DEF Asked, AllOps
<1>2. CASE VerifyLogin(w) \/ VerifyEmail(w) \/ ConfirmContact(w) \/ CheckReset(w) \/ ConfirmReset(w)
  <2>1. PICK op \in {"login", "verify", "contact", "check", "confirm"} : Submit(w, op)
    BY <1>2 DEF VerifyLogin, VerifyEmail, ConfirmContact, CheckReset, ConfirmReset
  <2>2. PICK e \in Emails, c \in 0 .. Len(otps), st \in {"idle", "look"} : Arrive(w, op, e, c, st)
    BY <2>1 DEF Submit
  <2>. QED BY <2>1, <2>2, ArrivalInv DEF Submit, AllOps
<1>3. CASE Register(w)
  <2>1. PICK e \in Emails : Arrive(w, "register", e, 0, "invalidate")
                            /\ verified' = [verified EXCEPT ![e] = FALSE]
    BY <1>3 DEF Register
  <2>2. \A a \in Emails : verified'[a] => verified[a]
    BY <2>1 DEF CodeInv, TypeInv, OtpTypeOK
  <2>. QED BY <1>3, <2>1, <2>2, ArrivalInv DEF Register, AllOps
<1>4. CASE UseToken(w)
  <2>1. PICK e \in Emails, t \in DOMAIN tokens :
          tokens[t].email = e /\ Arrive(w, "token", e, t, "consume")
    BY <1>4 DEF UseToken
  <2>2. t \in Nat
    BY Fields DEF CodeInv, TypeInv
  <2>3. Won(e, {"reset"}) # {}
    BY <2>1 DEF CodeInv, SessionsEarned
  <2>. QED BY <1>4, <2>1, <2>2, <2>3, ArrivalInv DEF UseToken, AllOps
<1>5. CASE Login(w)
  <2>1. PICK e \in Emails, c \in {0, 1}, st \in {"idle", "auth"} : Arrive(w, "password", e, c, st)
    BY <1>5 DEF Login
  <2>. QED BY <1>5, <2>1, ArrivalInv DEF Login, AllOps
<1>. QED BY <1>1, <1>2, <1>3, <1>4, <1>5

\* A step of a thread moves that thread alone, which keeps its address and operation.
LEMMA OneMoves ==
  ASSUME TypeInv, NEW w \in Workers, OtpWork(w)
  PROVE  /\ req[w].step # "idle" /\ req[w].email \in Emails
         /\ \A v \in Workers \ {w} : req'[v] = req[v]
         /\ \/ req'[w].step = "idle"
            \/ req'[w].op = req[w].op /\ req'[w].email = req[w].email
<1>1. DOMAIN req = Workers /\ req[w] \in Request
  BY Fields DEF TypeInv, OtpTypeOK
<1>2. CASE Look(w) \/ FailRead(w) \/ GrantLogin(w)
  BY <1>1, <1>2 DEF Look, FailRead, GrantLogin, Request, TypeInv, Addressed
<1>3. CASE ResetRead(w)
  <2>1. req[w].step = "grant"
    BY <1>3 DEF ResetRead
  <2>2. CASE Answer(w)
    BY <2>1, <2>2, AnswerType DEF TypeInv, Addressed
  <2>3. CASE ~Answer(w)
    BY <1>1, <1>3, <2>1, <2>3 DEF ResetRead, Request, TypeInv, Addressed
  <2>. QED BY <2>2, <2>3
<1>4. CASE \/ Cooldown(w) \/ Invalidate(w) \/ Create(w) \/ Judge(w) \/ FailSet(w) \/ Clear(w)
           \/ GrantVerified(w) \/ GrantToken(w) \/ Consume(w)
           \/ ResetSave(w) \/ Authenticate(w)
  <2>1. /\ req[w].step # "idle"
        /\ \E st \in OtpSteps : Answer(w) \/ Goto(w, st)
    BY <1>4 DEF Cooldown, Invalidate, Create, Judge, FailSet, Clear, GrantVerified,
                GrantToken, Consume, ResetSave, Authenticate, OtpSteps
  <2>. QED BY <2>1, AnswerType, GotoType DEF TypeInv, Addressed
<1>. QED BY <1>2, <1>3, <1>4 DEF OtpWork

\* ... every step of a thread,
LEMMA WorkInv ==
  ASSUME CodeInv, Keeps, TypeInv', NEW w \in Workers, OtpWork(w)
  PROVE  CodeInv'
<1>. DEFINE e == req[w].email
<1>0. /\ TypeInv /\ JudgesOwn(w) /\ Earned(w) /\ SessionsEarned /\ VerifiedBacked
      /\ req[w].op \in AllOps
  BY Fields DEF CodeInv, TypeInv
<1>1. ASSUME \/ Cooldown(w) \/ Invalidate(w) \/ Create(w) \/ FailRead(w) \/ FailSet(w)
      PROVE  CodeInv'
  <2>1. /\ req'[w].step \in {"idle", "invalidate", "create", "failset"}
        /\ \A v \in Workers \ {w} : req'[v] = req[v]
    <3>1. CASE FailRead(w)
      <4>1. /\ DOMAIN req = Workers
            /\ req[w] \in Request
        BY Fields DEF CodeInv, TypeInv, OtpTypeOK
      <4>. QED BY <3>1, <4>1 DEF FailRead, Request
    <3>2. CASE Cooldown(w) \/ Invalidate(w) \/ Create(w) \/ FailSet(w)
      BY <3>2, <1>0, GotoType, AnswerType
      DEF Cooldown, Invalidate, Create, FailSet, OtpSteps
    <3>. QED BY <1>1, <3>1, <3>2
  <2>2. JudgesOwn(w)' /\ Earned(w)'
    BY <2>1 DEF JudgesOwn, Earned
  <2>. QED BY <1>1, <2>1, <2>2, Carry DEF Cooldown, Invalidate, Create, FailRead, FailSet
<1>2. ASSUME Look(w) PROVE CodeInv'
  <2>. DEFINE rec == LatestActive(req[w].email, Purpose(req[w].op))
  <2>1. rec # 0 => /\ rec \in DOMAIN otps /\ otps[rec].email = req[w].email
                   /\ otps[rec].purpose = Purpose(req[w].op)
    <3>. DEFINE S == Active(req[w].email, Purpose(req[w].op))
    <3>1. /\ S \in SUBSET DOMAIN otps
          /\ \A i \in S : otps[i].email = req[w].email /\ otps[i].purpose = Purpose(req[w].op)
      BY <1>0, MatchingIn
    <3>2. otps \in Seq(Otp)
      BY <1>0 DEF TypeInv, OtpTypeOK
    <3>3. rec = Latest(S)
      BY DEF LatestActive
    <3>. HIDE DEF S, rec
    <3>4. Latest(S) \in S \union {0}
      BY <3>1, <3>2, LatestIn
    <3>. QED BY <3>1, <3>3, <3>4
  <2>2. /\ DOMAIN req = Workers /\ req[w] \in Request
    BY <1>0, Fields DEF TypeInv, OtpTypeOK
  <2>. HIDE DEF rec
  <2>3. /\ req'[w].step = (IF rec = 0 THEN "failread" ELSE "judge") /\ req'[w].rec = rec
        /\ req'[w].op = req[w].op /\ req'[w].email = req[w].email
        /\ \A v \in Workers \ {w} : req'[v] = req[v]
    BY <1>2, <2>2 DEF Look, Request, rec
  <2>4. JudgesOwn(w)' /\ Earned(w)'
    <3>1. UNCHANGED otps
      BY <1>2 DEF Look
    <3>2. JudgesOwn(w)'
      BY <2>1, <2>3, <3>1 DEF JudgesOwn
    <3>3. Earned(w)'
      BY <2>3 DEF Earned
    <3>. QED BY <3>2, <3>3
  <2>. QED BY <1>2, <2>3, <2>4, Carry DEF Look
<1>3. ASSUME Judge(w) PROVE CodeInv'
  <2>1. req'[w].step = "clear" => otps'[req[w].rec].won > 0
    BY <1>0, <1>3, JudgeKeeps
  <2>2. /\ req'[w].step \in {"idle", "clear", "failread"}
        /\ req'[w].step # "idle" => req'[w].op = req[w].op /\ req'[w].email = req[w].email
        /\ \A v \in Workers \ {w} : req'[v] = req[v]
    BY <1>0, <1>3, GotoType, AnswerType DEF Judge, OtpSteps
  <2>3. /\ req[w].rec \in DOMAIN otps /\ otps[req[w].rec].email = req[w].email
        /\ otps[req[w].rec].purpose = Purpose(req[w].op)
    BY <1>0, <1>3 DEF JudgesOwn, Judge
  <2>4. JudgesOwn(w)' /\ Earned(w)'
    BY <2>1, <2>2, <2>3 DEF JudgesOwn, Earned, Keeps, Won
  <2>. QED BY <1>3, <2>2, <2>4, Carry DEF Judge
<1>4. ASSUME Clear(w) \/ Authenticate(w) PROVE CodeInv'
  <2>1. /\ req'[w].step \in {"idle", "clear", "grant"}
        /\ req'[w].step # "idle" => req'[w].op = req[w].op /\ req'[w].email = req[w].email
        /\ req'[w].step = "clear" => req[w].op = "password"
        /\ req'[w].step = "grant" => req[w].op # "password" /\ req[w].step = "clear"
        /\ \A v \in Workers \ {w} : req'[v] = req[v]
    BY <1>0, <1>4, GotoType, AnswerType DEF Clear, Authenticate, OtpSteps, Earned
  <2>2. JudgesOwn(w)' /\ Earned(w)'
    BY <1>0, <2>1 DEF JudgesOwn, Earned, Keeps, Won
  <2>. QED BY <1>4, <2>1, <2>2, Carry DEF Clear, Authenticate
<1>5. ASSUME GrantLogin(w) \/ GrantVerified(w) PROVE CodeInv'
  <2>0. /\ req[w].op # "password" /\ Purpose(req[w].op) \in VerifyPurposes
        /\ req[w].step \in {"grant", "mark"}
    BY <1>0, <1>5 DEF GrantLogin, GrantVerified, Purpose, VerifyPurposes, Earned
  <2>4. Won(e, {Purpose(req[w].op)}) # {}
    BY <1>0, <2>0 DEF Earned
  <2>5. Won(e, VerifyPurposes) # {}
    BY <2>0, <2>4 DEF Won
  <2>6. \A a \in Emails : verified'[a] => verified[a] \/ a = e
    BY <1>0, <1>5 DEF GrantLogin, GrantVerified, TypeInv, OtpTypeOK
  <2>7. UNCHANGED <<tokens, resets>>
    BY <1>5 DEF GrantLogin, GrantVerified
  <2>1. \A v \in Workers \ {w} : req'[v] = req[v]
    BY <1>0, <1>5, OneMoves DEF OtpWork
  <2>2. JudgesOwn(w)' /\ Earned(w)'
    <3>1. CASE GrantLogin(w)
      <4>1. DOMAIN req = Workers /\ req[w] \in Request
        BY <1>0, Fields DEF TypeInv, OtpTypeOK
      <4>2. /\ req'[w].step = "mark" /\ req'[w].op = req[w].op /\ req'[w].email = e
            /\ req[w].op = "login"
        BY <3>1, <4>1 DEF GrantLogin, Request
      <4>. QED BY <2>4, <4>2 DEF JudgesOwn, Earned, Keeps, Won
    <3>2. CASE GrantVerified(w)
      <4>1. req'[w].step = "idle"
        BY <1>0, <3>2, AnswerType DEF GrantVerified
      <4>. QED BY <4>1 DEF JudgesOwn, Earned
    <3>. QED BY <1>5, <3>1, <3>2
  <2>. QED BY <2>1, <2>2, <2>5, <2>6, <2>7, Carry
<1>6. ASSUME GrantToken(w) PROVE CodeInv'
  <2>1. req'[w].step = "idle" /\ \A v \in Workers \ {w} : req'[v] = req[v]
    BY <1>0, <1>6, AnswerType DEF GrantToken
  <2>2. JudgesOwn(w)' /\ Earned(w)'
    BY <2>1 DEF JudgesOwn, Earned
  <2>3. Won(e, {"reset"}) # {}
    BY <1>0, <1>6 DEF Earned, GrantToken, Purpose
  <2>4. /\ \A t \in DOMAIN tokens : Won(tokens[t].email, {"reset"}) # {}
        /\ tokens \in Seq(Session)
    BY <1>0 DEF SessionsEarned, TypeInv, OtpTypeOK
  <2>5. \A t \in DOMAIN tokens' : tokens'[t].email = e \/ (t \in DOMAIN tokens /\ tokens'[t] = tokens[t])
    BY <1>6, <2>4 DEF GrantToken
  <2>6. SessionsEarned'
    BY <2>3, <2>4, <2>5 DEF SessionsEarned, Keeps, Won
  <2>. QED BY <1>6, <2>1, <2>2, <2>6, Carry DEF GrantToken
<1>7. ASSUME Consume(w) PROVE CodeInv'
  <2>1. /\ req'[w].step = "grant" /\ req'[w].op = req[w].op /\ req'[w].email = req[w].email
        /\ \A v \in Workers \ {w} : req'[v] = req[v]
    BY <1>0, <1>7, GotoType DEF Consume, OtpSteps
  <2>2. JudgesOwn(w)' /\ Earned(w)'
    BY <1>0, <1>7, <2>1 DEF Consume, JudgesOwn, Earned, Keeps, Won
  <2>3. tokens' = [tokens EXCEPT ![req[w].code] = [tokens[req[w].code] EXCEPT !.live = FALSE]]
    BY <1>7 DEF Consume
  <2>4. DOMAIN tokens' = DOMAIN tokens /\ \A t \in DOMAIN tokens : tokens'[t].email = tokens[t].email
    BY <1>0, <2>3, EndedType DEF TypeInv
  <2>5. SessionsEarned'
    BY <1>0, <2>4 DEF SessionsEarned, Keeps, Won
  <2>. QED BY <1>7, <2>1, <2>2, <2>5, Carry DEF Consume
<1>8. ASSUME ResetRead(w) PROVE CodeInv'
  <2>1. CASE Answer(w)
    <3>1. req'[w].step = "idle" /\ \A v \in Workers \ {w} : req'[v] = req[v]
      BY <1>0, <2>1, AnswerType
    <3>2. JudgesOwn(w)' /\ Earned(w)'
      BY <3>1 DEF JudgesOwn, Earned
    <3>. QED BY <1>8, <3>1, <3>2, Carry DEF ResetRead
  <2>2. CASE req' = [req EXCEPT ![w].step = "save", ![w].row = gen[e], ![w].flag = verified[e]]
    <3>1. DOMAIN req = Workers /\ req[w] \in Request /\ e \in Emails
      BY <1>0, <1>8, Fields DEF TypeInv, OtpTypeOK, Addressed, ResetRead
    <3>2. /\ req'[w].step = "save" /\ req'[w].op = req[w].op /\ req'[w].email = e
          /\ req'[w].flag = verified[e]
          /\ \A v \in Workers \ {w} : req'[v] = req[v]
      BY <2>2, <3>1 DEF Request
    <3>3. verified[e] => Won(e, VerifyPurposes) # {}
      BY <1>0, <3>1 DEF VerifiedBacked, VerifyPurposes
    <3>4. req[w].op \in {"confirm", "token"} /\ Won(e, {Purpose(req[w].op)}) # {}
      BY <1>0, <1>8 DEF Earned, ResetRead
    <3>5. JudgesOwn(w)' /\ Earned(w)'
      BY <3>2, <3>3, <3>4 DEF JudgesOwn, Earned, Keeps, Won
    <3>. QED BY <1>8, <3>2, <3>5, Carry DEF ResetRead
  <2>. QED BY <1>8, <2>1, <2>2 DEF ResetRead
<1>9. ASSUME ResetSave(w) PROVE CodeInv'
  <2>1. req'[w].step = "idle" /\ \A v \in Workers \ {w} : req'[v] = req[v]
    BY <1>0, <1>9, AnswerType DEF ResetSave
  <2>2. JudgesOwn(w)' /\ Earned(w)'
    BY <2>1 DEF JudgesOwn, Earned
  <2>3. /\ req[w].op \in {"confirm", "token"} /\ Won(e, {Purpose(req[w].op)}) # {}
        /\ req[w].flag => Won(e, VerifyPurposes) # {}
    BY <1>0, <1>9 DEF Earned, ResetSave
  <2>4. Won(e, {"reset"}) # {}
    BY <2>3 DEF Purpose
  <2>5. \A a \in Emails : /\ resets'[a] # resets[a] => a = e
                          /\ verified'[a] => verified[a] \/ (a = e /\ req[w].flag)
    BY <1>0, <1>9 DEF ResetSave, TypeInv, OtpTypeOK
  <2>6. UNCHANGED tokens
    BY <1>9 DEF ResetSave
  <2>. QED BY <2>1, <2>2, <2>3, <2>4, <2>5, <2>6, Carry
<1>. QED BY <1>1, <1>2, <1>3, <1>4, <1>5, <1>6, <1>7, <1>8, <1>9 DEF OtpWork

\* ... and every step of time and administrators.
LEMMA OutsideInv ==
  ASSUME CodeInv, Keeps, TypeInv', Age \/ CacheExpires \/ Administer
  PROVE  CodeInv'
<1>1. CASE Age
  BY <1>1, Carry DEF Age
<1>2. CASE CacheExpires
  <2>1. UNCHANGED <<req, resets, verified>>
    BY <1>2 DEF CacheExpires
  <2>2. \/ UNCHANGED tokens
        \/ \E t \in DOMAIN tokens : tokens' = [tokens EXCEPT ![t] = [tokens[t] EXCEPT !.live = FALSE]]
    BY <1>2 DEF CacheExpires
  <2>3. DOMAIN tokens' = DOMAIN tokens /\ \A t \in DOMAIN tokens : tokens'[t].email = tokens[t].email
    BY <2>2, EndedType DEF CodeInv, TypeInv
  <2>4. SessionsEarned'
    BY <2>3 DEF CodeInv, SessionsEarned, Keeps, Won
  <2>. QED BY <2>1, <2>4, Carry
<1>3. CASE Administer
  <2>1. UNCHANGED <<req, resets, tokens>>
    BY <1>3 DEF Administer
  <2>2. \A a \in Emails : verified'[a] => verified[a]
    BY <1>3 DEF Administer, Flip, Delete, CodeInv, TypeInv, OtpTypeOK
  <2>. QED BY <2>1, <2>2, Carry
<1>. QED BY <1>1, <1>2, <1>3

\* So every step keeps it,
LEMMA NextInv == CodeInv /\ [OtpNext]_otpVars => CodeInv'
<1>. SUFFICES ASSUME CodeInv, [OtpNext]_otpVars PROVE CodeInv'
  OBVIOUS
<1>1. Keeps /\ TypeInv'
  BY StepKeeps, NextType DEF CodeInv
<1>2. CASE UNCHANGED otpVars
  BY <1>1, <1>2, Carry DEF otpVars
<1>. QED BY <1>1, <1>2, ArrivalsInv, WorkInv, OutsideInv DEF OtpNext

\* ... and it holds in every state.
LEMMA AlwaysInv == OtpSpec => []CodeInv
BY InitInv, NextInv, PTL DEF OtpSpec

-----------------------------------------------------------------------------
(* The variables of otp_service.py, security.py and password_reset_utils.py  *)
(* keep their types, for any number of addresses, threads and requests.      *)
THEOREM OtpTypeCorrect == OtpSpec => []OtpTypeOK
<1>1. CodeInv => OtpTypeOK
  BY DEF CodeInv, TypeInv
<1>. QED BY <1>1, AlwaysInv, PTL

(* An address is verified only after one of its own sign-in, verification or *)
(* contact codes was accepted, whatever overlaps: also the flag that a       *)
(* password reset writes back with its whole row was earned when it read it. *)
THEOREM VerifiedBackedAlways == OtpSpec => []VerifiedBacked
<1>1. CodeInv => VerifiedBacked
  BY DEF CodeInv
<1>. QED BY <1>1, AlwaysInv, PTL

(* A password is set by a reset only if a reset code of that address was     *)
(* accepted, by the form that takes the code and by the one that takes a     *)
(* session (PasswordResetOtpConfirmView).                                    *)
THEOREM ResetCodedAlways == OtpSpec => []ResetCoded
<1>1. CodeInv => ResetCoded
  BY DEF CodeInv
<1>. QED BY <1>1, AlwaysInv, PTL

(* A code that was spent stays spent: no late save of a verification that    *)
(* read the record before makes it usable again (otp_service.py, verify).    *)
THEOREM UsedStaysAlways == OtpSpec => UsedStays
<1>1. CodeInv /\ [OtpNext]_otpVars
        => [\A i \in DOMAIN otps : otps[i].used => otps'[i].used]_otpVars
  BY StepKeeps DEF CodeInv, Keeps
<1>. QED BY <1>1, AlwaysInv, PTL DEF OtpSpec, UsedStays

-----------------------------------------------------------------------------
(* An address whose requests never overlapped: the limits are exact.       *)

\* Thread v serves address e.
Serving(e, v) == req[v].step # "idle" /\ req[v].email = e

OneAtATime(e) == \A v, w \in Workers : Serving(e, v) /\ Serving(e, w) => v = w

\* A record counts its wrong guesses and stops at the limit, and is spent
\* once it is accepted.
CodesCounted(e) ==
  \A i \in DOMAIN otps : otps[i].email = e =>
    /\ otps[i].wrong <= otps[i].attempts
    /\ otps[i].attempts <= MaxAttempts
    /\ otps[i].won > 0 => otps[i].used

\* A counter counts its failures and stops at the limit.
FailuresCounted(e) ==
  \A p \in Purposes \ {"password"} :
    missed[e][p] <= fails[e][p] /\ missed[e][p] <= MaxFailures

\* What a request has read of its address is still so.
UpToDate(e, v) ==
  Serving(e, v) =>
    /\ req[v].step = "judge" => req[v].seen = otps[req[v].rec].attempts /\ ~otps[req[v].rec].used
    /\ req[v].step \in {"look", "judge", "failread", "failset"} =>
         Purpose(req[v].op) # "password" /\ missed[e][Purpose(req[v].op)] < MaxFailures
    /\ req[v].step = "failset" => missed[e][Purpose(req[v].op)] <= req[v].seen
    /\ req[v].step = "save" => account[e] = "active"

\* The sessions an address can still spend: live, or in the hands of a request.
InHands(e, t) == \E v \in Workers : Serving(e, v) /\ req[v].step = "consume" /\ req[v].code = t
Purse(e) == {t \in DOMAIN tokens : tokens[t].email = e /\ (tokens[t].live \/ InHands(e, t))}

\* A request that may turn what it has into a password or into a session.
Owing(e) == \E v \in Workers : /\ Serving(e, v)
                               /\ req[v].step \in {"clear", "grant", "save"}
                               /\ Purpose(req[v].op) = "reset"
Debt(e) == IF Owing(e) THEN 1 ELSE 0

\* Passwords set and passwords that may still be set are covered by codes.
Covered(e) == resets[e] + Cardinality(Purse(e)) + Debt(e) <= Cardinality(Won(e, {"reset"}))

Orderly(e) ==
  /\ OneAtATime(e) /\ CodesCounted(e) /\ FailuresCounted(e)
  /\ \A v \in Workers : UpToDate(e, v)
  /\ Covered(e)

\* A request that spends a session has one of its address.
SpendsOwn(v) ==
  req[v].step = "consume" =>
    req[v].code \in DOMAIN tokens /\ tokens[req[v].code].email = req[v].email

OrderInv ==
  /\ \A v \in Workers : SpendsOwn(v)
  /\ \A e \in Emails \ overlap : Orderly(e)

\* A step that concerns an address at most by the age of its records, or by
\* what an administrator does to the account that no request is about.
Untouched(e) ==
  /\ \A v \in Workers : req'[v] # req[v] => ~Serving(e, v) /\ ~Serving(e, v)'
  /\ \A i \in DOMAIN otps' : otps'[i].email = e =>
       /\ i \in DOMAIN otps /\ otps'[i].purpose = otps[i].purpose
       /\ otps'[i].attempts = otps[i].attempts /\ otps'[i].used = otps[i].used
       /\ otps'[i].won = otps[i].won /\ otps'[i].wrong = otps[i].wrong
  /\ \A t : t \in DOMAIN tokens /\ tokens[t].email = e
            <=> t \in DOMAIN tokens' /\ tokens'[t].email = e
  /\ \A t \in DOMAIN tokens : tokens[t].email = e => tokens'[t] = tokens[t]
  /\ missed'[e] = missed[e] /\ fails'[e] = fails[e] /\ resets'[e] = resets[e]
  /\ account'[e] = account[e] \/ ~Busy(e)

\* A set of places is finite.
LEMMA PlacesCount ==
  ASSUME NEW T, NEW s \in Seq(T), NEW S \in SUBSET DOMAIN s
  PROVE  IsFiniteSet(S) /\ Cardinality(S) \in Nat
<1>1. Len(s) \in Nat /\ DOMAIN s = 1..Len(s)
  OBVIOUS
<1>2. IsFiniteSet(DOMAIN s)
  BY <1>1, FS_Interval
<1>. QED BY <1>2, FS_Subset, FS_CardinalityType

\* Accepted codes are never lost, so the cover holds while no more is owed.
LEMMA CoverStays ==
  ASSUME TypeInv, TypeInv', Keeps, NEW e \in Emails, Covered(e), resets'[e] = resets[e],
         Purse(e)' \subseteq Purse(e), Owing(e)' => Owing(e)
  PROVE  Covered(e)'
<1>. DEFINE W == Won(e, {"reset"})  V == Won(e, {"reset"})'
            A == Purse(e)  B == Purse(e)'
<1>1. /\ IsFiniteSet(A) /\ Cardinality(A) \in Nat /\ IsFiniteSet(W) /\ Cardinality(W) \in Nat
      /\ Debt(e) \in {0, 1} /\ resets[e] \in Nat
  <2>1. otps \in Seq(Otp) /\ tokens \in Seq(Session)
    BY DEF TypeInv, OtpTypeOK
  <2>2. A \in SUBSET DOMAIN tokens /\ W \in SUBSET DOMAIN otps
    BY DEF Purse, Won
  <2>. QED BY <2>1, <2>2, PlacesCount DEF Debt, TypeInv, OtpTypeOK
<1>2. /\ IsFiniteSet(B) /\ Cardinality(B) \in Nat /\ IsFiniteSet(V) /\ Cardinality(V) \in Nat
      /\ Debt(e)' \in {0, 1}
  <2>1. otps' \in Seq(Otp) /\ tokens' \in Seq(Session)
    BY DEF TypeInv, OtpTypeOK
  <2>2. B \in SUBSET DOMAIN tokens' /\ V \in SUBSET DOMAIN otps'
    BY DEF Purse, Won
  <2>. QED BY <2>1, <2>2, PlacesCount DEF Debt
<1>3. W \subseteq V
  BY DEF Keeps, Won
<1>4. Cardinality(W) <= Cardinality(V) /\ Cardinality(B) <= Cardinality(A)
  <2>. HIDE DEF A, B, W, V
  <2>1. B \subseteq A
    BY DEF A, B
  <2>. QED BY <1>1, <1>2, <1>3, <2>1, FS_Subset
<1>5. Debt(e)' <= Debt(e)
  BY DEF Debt
<1>6. resets[e] + Cardinality(A) + Debt(e) <= Cardinality(W)
  BY DEF Covered
<1>7. Covered(e)' = (resets'[e] + Cardinality(B) + Debt(e)' <= Cardinality(V))
  BY DEF Covered
<1>. HIDE DEF A, B, W, V
<1>8. resets[e] + Cardinality(B) + Debt(e)' <= Cardinality(V)
  BY <1>1, <1>2, <1>4, <1>5, <1>6
<1>. QED BY <1>7, <1>8

\* An address that a step does not touch stays in order.
LEMMA Spectator ==
  ASSUME CodeInv, TypeInv', Keeps, NEW e \in Emails, Orderly(e), Untouched(e)
  PROVE  Orderly(e)'
<1>. USE DEF Untouched
<1>1. \A v \in Workers : Serving(e, v)' => Serving(e, v) /\ req'[v] = req[v]
  BY DEF Serving
<1>2. OneAtATime(e)'
  BY <1>1 DEF Orderly, OneAtATime
<1>3. CodesCounted(e)'
  <2>1. \A i \in DOMAIN otps' : otps'[i].email = e => i \in DOMAIN otps /\ otps[i].email = e
    BY DEF Keeps
  <2>. QED BY <2>1 DEF Orderly, CodesCounted
<1>4. FailuresCounted(e)'
  BY DEF Orderly, FailuresCounted
<1>5. ASSUME NEW v \in Workers PROVE UpToDate(e, v)'
  <2>. SUFFICES ASSUME Serving(e, v)' PROVE UpToDate(e, v)'
    BY DEF UpToDate
  <2>1. Serving(e, v) /\ req'[v] = req[v] /\ UpToDate(e, v)
    BY <1>1 DEF Orderly
  <2>2. req[v].step = "judge" =>
          /\ otps'[req[v].rec].attempts = otps[req[v].rec].attempts
          /\ otps'[req[v].rec].used = otps[req[v].rec].used
    BY <2>1 DEF CodeInv, JudgesOwn, Keeps, Serving
  <2>3. account'[e] = account[e]
    BY <2>1 DEF Busy, Serving
  <2>. QED BY <2>1, <2>2, <2>3 DEF UpToDate
<1>6. Covered(e)'
  <2>1. Purse(e)' \subseteq Purse(e)
    BY <1>1 DEF Purse, InHands
  <2>2. Owing(e)' => Owing(e)
    BY <1>1 DEF Owing
  <2>. QED BY <2>1, <2>2, CoverStays DEF Orderly, CodeInv
<1>. QED BY <1>2, <1>3, <1>4, <1>5, <1>6 DEF Orderly

\* What a step writes about the records, the sessions and the counters of another address: nothing.
LEMMA OthersRows ==
  ASSUME CodeInv, NEW w \in Workers, OtpWork(w), NEW e \in Emails, req[w].email # e
  PROVE  \A i \in DOMAIN otps' : otps'[i].email = e => i \in DOMAIN otps /\ otps'[i] = otps[i]
<1>0. otps \in Seq(Otp) /\ TypeInv
  BY DEF CodeInv, TypeInv, OtpTypeOK
<1>1. CASE Invalidate(w)
  <2>1. \A i \in DOMAIN otps : [otps[i] EXCEPT !.used = TRUE].email = otps[i].email
    BY <1>0, Fields DEF Otp
  <2>2. \A i \in Active(req[w].email, Purpose(req[w].op)) : otps[i].email = req[w].email
    BY <1>0, MatchingIn
  <2>. QED BY <1>1, <2>1, <2>2 DEF Invalidate
<1>2. CASE Create(w)
  BY <1>0, <1>2 DEF Create, Issued
<1>3. CASE Judge(w)
  <2>. DEFINE q == req[w]
  <2>1. q.rec \in DOMAIN otps /\ otps[q.rec].email # e
    BY <1>3 DEF Judge, CodeInv, JudgesOwn
  <2>2. UNCHANGED otps \/ \E r : otps' = [otps EXCEPT ![q.rec] = r]
    BY <1>3 DEF Judge
  <2>3. Keeps
    BY <1>0, <1>3, JudgeKeeps DEF CodeInv
  <2>. QED BY <2>1, <2>2, <2>3 DEF Keeps
<1>. QED BY <1>1, <1>2, <1>3
  DEF OtpWork, Cooldown, Look, FailRead, FailSet, Clear, GrantLogin, GrantVerified,
      GrantToken, Consume, ResetRead, ResetSave, Authenticate

\* Nor is a session of it given or taken,
LEMMA OthersSessions ==
  ASSUME CodeInv, NEW w \in Workers, OtpWork(w), NEW e \in Emails, req[w].email # e,
         SpendsOwn(w)
  PROVE  /\ \A t : t \in DOMAIN tokens /\ tokens[t].email = e
                   <=> t \in DOMAIN tokens' /\ tokens'[t].email = e
         /\ \A t \in DOMAIN tokens : tokens[t].email = e => tokens'[t] = tokens[t]
<1>0. tokens \in Seq(Session) /\ TypeInv
  BY DEF CodeInv, TypeInv, OtpTypeOK
<1>1. CASE GrantToken(w)
  <2>1. CASE UNCHANGED tokens
    BY <2>1
  <2>2. CASE tokens' = Append(tokens, [email |-> req[w].email, live |-> TRUE])
    BY <1>0, <2>2
  <2>. QED BY <1>1, <2>1, <2>2 DEF GrantToken
<1>2. CASE Consume(w)
  <2>1. tokens' = [tokens EXCEPT ![req[w].code] = [tokens[req[w].code] EXCEPT !.live = FALSE]]
    BY <1>2 DEF Consume
  <2>2. DOMAIN tokens' = DOMAIN tokens /\ \A t \in DOMAIN tokens : tokens'[t].email = tokens[t].email
    BY <1>0, <2>1, EndedType DEF TypeInv
  <2>3. \A t \in DOMAIN tokens : t # req[w].code => tokens'[t] = tokens[t]
    BY <2>1
  <2>. QED BY <1>2, <2>2, <2>3 DEF Consume, SpendsOwn
<1>. QED BY <1>1, <1>2
  DEF OtpWork, Cooldown, Invalidate, Create, Look, Judge, FailRead, FailSet, Clear, GrantLogin,
      GrantVerified, ResetRead, ResetSave, Authenticate

\* A session stays that of its address.
LEMMA SessionsStay ==
  ASSUME TypeInv, [OtpNext]_otpVars
  PROVE  \A t \in DOMAIN tokens : t \in DOMAIN tokens' /\ tokens'[t].email = tokens[t].email
<1>0. tokens \in Seq(Session)
  BY DEF TypeInv, OtpTypeOK
<1>1. CASE UNCHANGED tokens
  BY <1>1
<1>2. ASSUME NEW w \in Workers, GrantToken(w)
      PROVE  \A t \in DOMAIN tokens : t \in DOMAIN tokens' /\ tokens'[t].email = tokens[t].email
  <2>1. CASE tokens' = Append(tokens, [email |-> req[w].email, live |-> TRUE])
    BY <1>0, <2>1
  <2>. QED BY <1>1, <1>2, <2>1 DEF GrantToken
<1>3. ASSUME NEW t, tokens' = [tokens EXCEPT ![t] = [tokens[t] EXCEPT !.live = FALSE]]
      PROVE  \A i \in DOMAIN tokens : i \in DOMAIN tokens' /\ tokens'[i].email = tokens[i].email
  BY <1>3, EndedType DEF TypeInv
<1>4. ASSUME NEW w \in Workers, Consume(w)
      PROVE  \E t : tokens' = [tokens EXCEPT ![t] = [tokens[t] EXCEPT !.live = FALSE]]
  BY <1>4 DEF Consume
<1>5. CASE CacheExpires
  <2>1. UNCHANGED tokens \/ \E t : tokens' = [tokens EXCEPT ![t] = [tokens[t] EXCEPT !.live = FALSE]]
    BY <1>5 DEF CacheExpires
  <2>. QED BY <1>1, <1>3, <2>1
<1>6. ASSUME NEW w \in Workers, OtpWork(w), ~GrantToken(w), ~Consume(w) PROVE UNCHANGED tokens
  BY <1>6 DEF OtpWork, Cooldown, Invalidate, Create, Look, Judge, FailRead, FailSet, Clear,
              GrantLogin, GrantVerified, ResetRead, ResetSave, Authenticate
<1>7. ASSUME NEW w \in Workers,
             \/ SendLogin(w) \/ SendVerify(w) \/ Resend(w) \/ SendContact(w) \/ SendReset(w)
             \/ Register(w) \/ VerifyLogin(w) \/ VerifyEmail(w) \/ ConfirmContact(w)
             \/ CheckReset(w) \/ ConfirmReset(w) \/ UseToken(w) \/ Login(w)
      PROVE  UNCHANGED tokens
  BY <1>7 DEF SendLogin, SendVerify, Resend, SendContact, SendReset, Asked, Register, VerifyLogin,
              VerifyEmail, ConfirmContact, CheckReset, ConfirmReset, Submit, UseToken, Login
<1>8. Age \/ Administer => UNCHANGED tokens
  BY DEF Age, Administer
<1>9. UNCHANGED otpVars => UNCHANGED tokens
  BY DEF otpVars
<1>. QED BY <1>1, <1>2, <1>3, <1>4, <1>5, <1>6, <1>7, <1>8, <1>9 DEF OtpNext

\* A thread's step leaves every other address alone.
LEMMA OthersWork ==
  ASSUME CodeInv, NEW w \in Workers, SpendsOwn(w), OtpWork(w), NEW e \in Emails, req[w].email # e
  PROVE  Untouched(e)
<1>0. TypeInv
  BY DEF CodeInv
<1>1. /\ req[w].step # "idle" /\ req[w].email \in Emails
      /\ \A v \in Workers \ {w} : req'[v] = req[v]
      /\ req'[w].step = "idle" \/ req'[w].email = req[w].email
  BY <1>0, OneMoves
<1>2. \A v \in Workers : req'[v] # req[v] => ~Serving(e, v) /\ ~Serving(e, v)'
  BY <1>1 DEF Serving
<1>3. \A i \in DOMAIN otps' : otps'[i].email = e => i \in DOMAIN otps /\ otps'[i] = otps[i]
  BY OthersRows
<1>4. /\ \A t : t \in DOMAIN tokens /\ tokens[t].email = e
                <=> t \in DOMAIN tokens' /\ tokens'[t].email = e
      /\ \A t \in DOMAIN tokens : tokens[t].email = e => tokens'[t] = tokens[t]
  BY OthersSessions
<1>5. missed'[e] = missed[e] /\ fails'[e] = fails[e]
  <2>1. fails \in [Emails -> [Purposes -> Nat]] /\ missed \in [Emails -> [Purposes -> Nat]]
    BY <1>0 DEF TypeInv, OtpTypeOK
  <2>2. UNCHANGED <<fails, missed>> \/ FailSet(w) \/ Clear(w) \/ ResetSave(w)
    BY DEF OtpWork, Cooldown, Invalidate, Create, Look, Judge, FailRead, GrantLogin,
           GrantVerified, GrantToken, Consume, ResetRead, Authenticate
  <2>3. ASSUME NEW p, ForgetCounter(req[w].email, p)
        PROVE  missed'[e] = missed[e] /\ fails'[e] = fails[e]
    BY <2>1, <2>3 DEF ForgetCounter
  <2>. QED BY <2>1, <2>2, <2>3 DEF FailSet, Clear, ResetSave
<1>6. resets'[e] = resets[e] /\ account'[e] = account[e]
  <2>1. resets \in [Emails -> Nat] /\ account \in [Emails -> {"none", "active", "off"}]
    BY <1>0 DEF TypeInv, OtpTypeOK
  <2>2. UNCHANGED <<resets, account>> \/ GrantLogin(w) \/ ResetSave(w)
    BY DEF OtpWork, Cooldown, Invalidate, Create, Look, Judge, FailRead, FailSet, Clear,
           GrantVerified, GrantToken, Consume, ResetRead, Authenticate
  <2>. QED BY <2>1, <2>2 DEF GrantLogin, ResetSave
<1>. QED BY <1>2, <1>3, <1>4, <1>5, <1>6 DEF Untouched

\* When one thread alone serves an address, the rest of the order is what it shows.
LEMMA ServedAlone ==
  ASSUME TypeInv, TypeInv', NEW w \in Workers, NEW e \in Emails,
         \A v \in Workers \ {w} : ~Serving(e, v) /\ req'[v] = req[v],
         CodesCounted(e)', FailuresCounted(e)', UpToDate(e, w)', Covered(e)'
  PROVE  Orderly(e)'
<1>1. \A v \in Workers \ {w} : ~Serving(e, v)'
  BY DEF Serving
<1>2. OneAtATime(e)'
  BY <1>1 DEF OneAtATime
<1>3. \A v \in Workers : UpToDate(e, v)'
  BY <1>1 DEF UpToDate
<1>. QED BY <1>2, <1>3 DEF Orderly

\* It owes no more, and its purse is no fuller, after a step that gives nothing.
LEMMA NothingGained ==
  ASSUME TypeInv, TypeInv', Keeps, NEW w \in Workers, NEW e \in Emails, Covered(e),
         \A v \in Workers \ {w} : ~Serving(e, v) /\ req'[v] = req[v],
         req'[w].step # "consume", UNCHANGED tokens, resets'[e] = resets[e],
         Serving(e, w)' /\ req'[w].step \in {"clear", "grant", "save"} /\ Purpose(req'[w].op) = "reset"
           => /\ Serving(e, w) /\ req[w].step \in {"clear", "grant", "save"}
              /\ Purpose(req[w].op) = "reset"
  PROVE  Covered(e)'
<1>1. \A v \in Workers \ {w} : ~Serving(e, v)'
  BY DEF Serving
<1>2. Purse(e)' \subseteq Purse(e)
  BY <1>1 DEF Purse, InHands
<1>3. Owing(e)' => Owing(e)
  BY <1>1 DEF Owing
<1>. QED BY <1>2, <1>3, CoverStays

\* Sending a code: the records may be marked used, or one is added.
LEMMA OwnSend ==
  ASSUME CodeInv, TypeInv', Keeps, NEW w \in Workers, NEW e \in Emails, Serving(e, w), Orderly(e),
         Cooldown(w) \/ Invalidate(w) \/ Create(w)
  PROVE  Orderly(e)'
<1>0. TypeInv /\ otps \in Seq(Otp)
  BY DEF CodeInv, TypeInv, OtpTypeOK
<1>1. /\ \A v \in Workers \ {w} : ~Serving(e, v) /\ req'[v] = req[v]
      /\ req'[w].step \in {"idle", "invalidate", "create"}
  <2>1. OtpWork(w)
    BY DEF OtpWork
  <2>2. \A v \in Workers \ {w} : req'[v] = req[v]
    BY <1>0, <2>1, OneMoves
  <2>3. req'[w].step \in {"idle", "invalidate", "create"}
    BY <1>0, GotoType, AnswerType DEF Cooldown, Invalidate, Create, OtpSteps
  <2>. QED BY <2>2, <2>3 DEF Orderly, OneAtATime
<1>2. UNCHANGED <<account, fails, missed, tokens, resets>>
  BY DEF Cooldown, Invalidate, Create
<1>3. CodesCounted(e)'
  <2>0. CodesCounted(e)
    BY DEF Orderly
  <2>1. CASE UNCHANGED otps
    BY <2>0, <2>1 DEF CodesCounted
  <2>2. CASE Invalidate(w)
    <3>1. \A i \in DOMAIN otps :
            LET o == [otps[i] EXCEPT !.used = TRUE] IN
              /\ o.email = otps[i].email /\ o.wrong = otps[i].wrong
              /\ o.attempts = otps[i].attempts /\ o.used
      BY <1>0, Fields DEF Otp
    <3>. QED BY <2>0, <2>2, <3>1 DEF CodesCounted, Invalidate
  <2>3. CASE Create(w)
    <3>1. \A i \in DOMAIN otps' : \/ i \in DOMAIN otps /\ otps'[i] = otps[i]
                                  \/ otps'[i].attempts = 0 /\ otps'[i].won = 0 /\ otps'[i].wrong = 0
      BY <1>0, <2>3 DEF Create, Issued
    <3>. QED BY <2>0, <3>1, OtpAssumption DEF CodesCounted
  <2>. QED BY <2>1, <2>2, <2>3 DEF Cooldown
<1>4. FailuresCounted(e)'
  BY <1>2 DEF Orderly, FailuresCounted
<1>5. UpToDate(e, w)'
  BY <1>1 DEF UpToDate
<1>6. Covered(e)'
  BY <1>0, <1>1, <1>2, NothingGained DEF Orderly
<1>. QED BY <1>0, <1>1, <1>3, <1>4, <1>5, <1>6, ServedAlone

\* Looking a code up: what is read is what the record says.
LEMMA OwnLook ==
  ASSUME CodeInv, TypeInv', Keeps, NEW w \in Workers, NEW e \in Emails, Serving(e, w), Orderly(e),
         Look(w)
  PROVE  Orderly(e)'
<1>. DEFINE rec == LatestActive(req[w].email, Purpose(req[w].op))
<1>0. TypeInv /\ otps \in Seq(Otp) /\ DOMAIN req = Workers /\ req[w] \in Request
  BY Fields DEF CodeInv, TypeInv, OtpTypeOK
<1>1. rec # 0 => rec \in DOMAIN otps /\ ~otps[rec].used
  <2>. DEFINE S == Active(req[w].email, Purpose(req[w].op))
  <2>1. S \in SUBSET DOMAIN otps /\ \A i \in S : ~otps[i].used
    BY DEF Active, Matching
  <2>2. rec = Latest(S)
    BY DEF LatestActive
  <2>. HIDE DEF S, rec
  <2>3. Latest(S) \in S \union {0}
    BY <1>0, <2>1, LatestIn
  <2>. QED BY <2>1, <2>2, <2>3
<1>. HIDE DEF rec
<1>2. /\ req'[w].step = (IF rec = 0 THEN "failread" ELSE "judge") /\ req'[w].rec = rec
      /\ rec # 0 => req'[w].seen = otps[rec].attempts
      /\ req'[w].op = req[w].op /\ req'[w].email = req[w].email
      /\ \A v \in Workers \ {w} : req'[v] = req[v]
  BY <1>0 DEF Look, Request, rec
<1>3. \A v \in Workers \ {w} : ~Serving(e, v)
  BY DEF Orderly, OneAtATime
<1>4. UNCHANGED <<account, otps, fails, missed, tokens, resets>> /\ req[w].step = "look"
  BY DEF Look
<1>5. CodesCounted(e)' /\ FailuresCounted(e)'
  BY <1>4 DEF Orderly, CodesCounted, FailuresCounted
<1>6. UpToDate(e, w)'
  <2>1. Purpose(req[w].op) # "password" /\ missed[e][Purpose(req[w].op)] < MaxFailures
    BY <1>4 DEF Orderly, UpToDate
  <2>. QED BY <1>1, <1>2, <1>4, <2>1 DEF UpToDate
<1>7. Covered(e)'
  BY <1>0, <1>2, <1>3, <1>4, NothingGained DEF Orderly
<1>. QED BY <1>0, <1>2, <1>3, <1>5, <1>6, <1>7, ServedAlone

\* A counter read is a counter written: no failure is lost.
LEMMA OwnFail ==
  ASSUME CodeInv, TypeInv', Keeps, NEW w \in Workers, NEW e \in Emails, Serving(e, w), Orderly(e),
         FailRead(w) \/ FailSet(w)
  PROVE  Orderly(e)'
<1>. DEFINE p == Purpose(req[w].op)
<1>0. TypeInv /\ DOMAIN req = Workers /\ req[w] \in Request /\ p \in Purposes /\ req[w].email = e
  BY Fields DEF CodeInv, TypeInv, OtpTypeOK, Serving
<1>1. /\ fails \in [Emails -> [Purposes -> Nat]] /\ missed \in [Emails -> [Purposes -> Nat]]
      /\ req[w].seen \in Nat /\ MaxFailures \in Nat
  BY <1>0, Fields, OtpAssumption DEF TypeInv, OtpTypeOK
<1>2. p # "password" /\ missed[e][p] < MaxFailures /\ (req[w].step = "failset" => missed[e][p] <= req[w].seen)
  BY DEF Orderly, UpToDate, FailRead, FailSet
<1>3. \A v \in Workers \ {w} : ~Serving(e, v)
  BY DEF Orderly, OneAtATime
<1>4. UNCHANGED <<account, otps, tokens, resets>>
  BY DEF FailRead, FailSet
<1>5. CodesCounted(e)'
  BY <1>4 DEF Orderly, CodesCounted
<1>6. CASE FailRead(w)
  <2>1. /\ req'[w].step = "failset" /\ req'[w].op = req[w].op /\ req'[w].seen = fails[e][p]
        /\ \A v \in Workers \ {w} : req'[v] = req[v]
    BY <1>0, <1>6 DEF FailRead, Request
  <2>2. UNCHANGED <<fails, missed>>
    BY <1>6 DEF FailRead
  <2>3. FailuresCounted(e)' /\ missed[e][p] <= fails[e][p]
    BY <1>0, <1>2, <2>2 DEF Orderly, FailuresCounted
  <2>4. UpToDate(e, w)'
    BY <1>2, <2>1, <2>2, <2>3 DEF UpToDate
  <2>5. Covered(e)'
    BY <1>0, <1>3, <1>4, <2>1, NothingGained DEF Orderly
  <2>. QED BY <1>0, <1>3, <1>5, <2>1, <2>3, <2>4, <2>5, ServedAlone
<1>7. CASE FailSet(w)
  <2>1. req'[w].step = "idle" /\ \A v \in Workers \ {w} : req'[v] = req[v]
    BY <1>0, <1>7, AnswerType DEF FailSet
  <2>2. /\ fails' = [fails EXCEPT ![e][p] = req[w].seen + 1]
        /\ missed' = [missed EXCEPT ![e][p] = missed[e][p] + 1]
        /\ req[w].step = "failset"
    BY <1>0, <1>7 DEF FailSet
  <2>. HIDE DEF p
  <2>3. /\ fails'[e][p] = req[w].seen + 1 /\ missed'[e][p] = missed[e][p] + 1
        /\ \A q \in Purposes : q # p => fails'[e][q] = fails[e][q] /\ missed'[e][q] = missed[e][q]
    BY <1>0, <1>1, <2>2
  <2>4. missed[e][p] \in Nat
    BY <1>0, <1>1
  <2>5. missed'[e][p] <= fails'[e][p] /\ missed'[e][p] <= MaxFailures
    BY <1>1, <1>2, <2>2, <2>3, <2>4
  <2>6. FailuresCounted(e)'
    BY <2>3, <2>5 DEF Orderly, FailuresCounted
  <2>7. UpToDate(e, w)'
    BY <2>1 DEF UpToDate, Serving
  <2>8. Covered(e)'
    BY <1>0, <1>3, <1>4, <2>1, NothingGained DEF Orderly, Serving
  <2>. QED BY <1>0, <1>3, <1>5, <2>1, <2>6, <2>7, <2>8, ServedAlone
<1>. QED BY <1>6, <1>7

\* Forgetting a counter keeps the counts.
LEMMA ForgetCounts ==
  ASSUME TypeInv, NEW e \in Emails, NEW p, FailuresCounted(e), ForgetCounter(e, p)
  PROVE  /\ FailuresCounted(e)'
         /\ \A q \in Purposes : missed'[e][q] <= missed[e][q] /\ missed'[e][q] \in Nat
<1>1. fails \in [Emails -> [Purposes -> Nat]] /\ missed \in [Emails -> [Purposes -> Nat]] /\ MaxFailures \in Nat
  BY OtpAssumption DEF TypeInv, OtpTypeOK
<1>2. fails' = [fails EXCEPT ![e][p] = 0] /\ missed' = [missed EXCEPT ![e][p] = 0]
  BY DEF ForgetCounter
<1>3. \A q \in Purposes : \/ fails'[e][q] = fails[e][q] /\ missed'[e][q] = missed[e][q]
                          \/ fails'[e][q] = 0 /\ missed'[e][q] = 0
  BY <1>1, <1>2
<1>4. \A q \in Purposes : missed[e][q] \in Nat
  BY <1>1
<1>5. \A q \in Purposes : missed'[e][q] <= missed[e][q] /\ missed'[e][q] \in Nat
  BY <1>3, <1>4
<1>6. \A q \in Purposes \ {"password"} : missed'[e][q] <= fails'[e][q] /\ missed'[e][q] <= MaxFailures
  BY <1>1, <1>3 DEF FailuresCounted
<1>. QED BY <1>5, <1>6 DEF FailuresCounted

\* A counter is cleared, a grant is made that no session or password comes of,
\* or a password is checked.
LEMMA OwnGrant ==
  ASSUME CodeInv, TypeInv', Keeps, NEW w \in Workers, NEW e \in Emails, Serving(e, w), Orderly(e),
         Clear(w) \/ GrantLogin(w) \/ GrantVerified(w) \/ Authenticate(w) \/ ResetRead(w)
  PROVE  Orderly(e)'
<1>0. TypeInv /\ DOMAIN req = Workers /\ req[w] \in Request /\ req[w].email = e /\ req[w].op \in AllOps
  BY Fields DEF CodeInv, TypeInv, OtpTypeOK, Serving
<1>1. \A v \in Workers \ {w} : ~Serving(e, v) /\ req'[v] = req[v]
  <2>1. OtpWork(w)
    BY DEF OtpWork
  <2>. QED BY <1>0, <2>1, OneMoves DEF Orderly, OneAtATime
<1>2. UNCHANGED <<otps, tokens, resets>>
  BY DEF Clear, GrantLogin, GrantVerified, Authenticate, ResetRead
<1>3. CodesCounted(e)'
  BY <1>2 DEF Orderly, CodesCounted
<1>4. FailuresCounted(e)'
  <2>1. CASE UNCHANGED <<fails, missed>>
    BY <2>1 DEF Orderly, FailuresCounted
  <2>2. CASE Clear(w)
    BY <1>0, <2>2, ForgetCounts DEF Clear, Orderly
  <2>. QED BY <2>1, <2>2 DEF GrantLogin, GrantVerified, Authenticate, ResetRead
<1>5. CASE ResetRead(w) /\ ~Answer(w)
  <2>1. /\ req'[w].step = "save" /\ req'[w].op = req[w].op /\ req[w].step = "grant"
        /\ account[e] = "active" /\ account' = account
    BY <1>0, <1>5 DEF ResetRead, Request
  <2>2. UpToDate(e, w)'
    BY <2>1 DEF UpToDate
  <2>3. Covered(e)'
    BY <1>0, <1>1, <1>2, <2>1, NothingGained DEF Orderly
  <2>. QED BY <1>0, <1>1, <1>3, <1>4, <2>2, <2>3, ServedAlone
<1>7. CASE GrantLogin(w)
  <2>1. req'[w].step = "mark"
    BY <1>0, <1>7 DEF GrantLogin, Request
  <2>2. UpToDate(e, w)'
    BY <2>1 DEF UpToDate
  <2>3. Covered(e)'
    BY <1>0, <1>1, <1>2, <2>1, NothingGained DEF Orderly
  <2>. QED BY <1>0, <1>1, <1>3, <1>4, <2>2, <2>3, ServedAlone
<1>6. CASE ~(ResetRead(w) /\ ~Answer(w)) /\ ~GrantLogin(w)
  <2>1. /\ req'[w].step \in {"idle", "clear", "grant"}
        /\ req'[w].step = "clear" => req'[w].op = "password"
        /\ req'[w].step = "grant" => req'[w].op = req[w].op /\ req[w].step = "clear"
    BY <1>0, <1>6, GotoType, AnswerType
    DEF Clear, GrantVerified, Authenticate, ResetRead, OtpSteps, CodeInv, Earned
  <2>2. UpToDate(e, w)'
    BY <2>1 DEF UpToDate
  <2>3. Purpose("password") = "password"
    BY DEF Purpose
  <2>4. Covered(e)'
    BY <1>0, <1>1, <1>2, <2>1, <2>3, NothingGained DEF Orderly, Serving
  <2>. QED BY <1>0, <1>1, <1>3, <1>4, <2>2, <2>4, ServedAlone
<1>. QED BY <1>5, <1>6, <1>7

\* What the records of a judgement count.
LEMMA JudgedCounts ==
  ASSUME TypeInv, NEW q \in Request, q.rec \in DOMAIN otps
  PROVE  /\ [otps[q.rec] EXCEPT !.used = TRUE].attempts = otps[q.rec].attempts
         /\ [otps[q.rec] EXCEPT !.used = TRUE].wrong = otps[q.rec].wrong
         /\ [otps[q.rec] EXCEPT !.used = TRUE].used
         /\ Right(q).attempts = otps[q.rec].attempts /\ Right(q).wrong = otps[q.rec].wrong
         /\ Wrong(q).attempts = q.seen + 1 /\ Wrong(q).wrong = otps[q.rec].wrong + 1
<1>. DEFINE o == otps[q.rec]
<1>1. o \in Otp
  BY Fields DEF TypeInv
<1>2. Right(q) = [o EXCEPT !.used = TRUE, !.won = o.won + 1]
  BY DEF Right
<1>3. Wrong(q) = [o EXCEPT !.attempts = q.seen + 1, !.used = (o.used \/ q.seen + 1 >= MaxAttempts),
                           !.wrong = o.wrong + 1]
  BY DEF Wrong
<1>. HIDE DEF o
<1>4. DOMAIN o = {"email", "purpose", "attempts", "used", "age", "won", "wrong"}
  BY <1>1 DEF Otp
<1>. QED BY <1>2, <1>3, <1>4 DEF o

\* What is counted before and after a step, in numbers.
LEMMA CoverFacts ==
  ASSUME TypeInv, TypeInv', Keeps, NEW e \in Emails
  PROVE  /\ IsFiniteSet(Purse(e)) /\ Cardinality(Purse(e)) \in Nat
         /\ IsFiniteSet(Won(e, {"reset"})) /\ Cardinality(Won(e, {"reset"})) \in Nat
         /\ IsFiniteSet(Purse(e)') /\ Cardinality(Purse(e)') \in Nat
         /\ IsFiniteSet(Won(e, {"reset"})') /\ Cardinality(Won(e, {"reset"})') \in Nat
         /\ Debt(e) \in {0, 1} /\ Debt(e)' \in {0, 1} /\ resets[e] \in Nat
         /\ Won(e, {"reset"}) \subseteq Won(e, {"reset"})'
         /\ Cardinality(Won(e, {"reset"})) <= Cardinality(Won(e, {"reset"})')
<1>1. /\ otps \in Seq(Otp) /\ tokens \in Seq(Session) /\ otps' \in Seq(Otp) /\ tokens' \in Seq(Session)
      /\ resets[e] \in Nat
  BY DEF TypeInv, OtpTypeOK
<1>2. /\ Purse(e) \in SUBSET DOMAIN tokens /\ Purse(e)' \in SUBSET DOMAIN tokens'
      /\ Won(e, {"reset"}) \in SUBSET DOMAIN otps /\ Won(e, {"reset"})' \in SUBSET DOMAIN otps'
  BY DEF Purse, Won
<1>3. Won(e, {"reset"}) \subseteq Won(e, {"reset"})'
  BY DEF Keeps, Won
<1>4. /\ IsFiniteSet(Purse(e)) /\ Cardinality(Purse(e)) \in Nat
      /\ IsFiniteSet(Won(e, {"reset"})) /\ Cardinality(Won(e, {"reset"})) \in Nat
      /\ IsFiniteSet(Purse(e)') /\ Cardinality(Purse(e)') \in Nat
      /\ IsFiniteSet(Won(e, {"reset"})') /\ Cardinality(Won(e, {"reset"})') \in Nat
  BY <1>1, <1>2, PlacesCount
<1>5. Cardinality(Won(e, {"reset"})) <= Cardinality(Won(e, {"reset"})')
  BY <1>3, <1>4, FS_Subset
<1>. QED BY <1>1, <1>3, <1>4, <1>5 DEF Debt

\* An accepted reset code pays for what is now owed.
LEMMA CodePays ==
  ASSUME TypeInv, TypeInv', Keeps, NEW e \in Emails, Covered(e),
         Purse(e)' \subseteq Purse(e), resets'[e] = resets[e],
         NEW i, i \in Won(e, {"reset"})', i \notin Won(e, {"reset"})
  PROVE  Covered(e)'
<1>. DEFINE W == Won(e, {"reset"})  V == Won(e, {"reset"})'
            a == Cardinality(Purse(e))  b == Cardinality(Purse(e)')
            c == Cardinality(W)  d == Cardinality(V)
<1>1. /\ IsFiniteSet(Purse(e)) /\ a \in Nat /\ IsFiniteSet(W) /\ c \in Nat
      /\ IsFiniteSet(Purse(e)') /\ b \in Nat /\ IsFiniteSet(V) /\ d \in Nat
      /\ Debt(e) \in {0, 1} /\ Debt(e)' \in {0, 1} /\ resets[e] \in Nat /\ W \subseteq V
  BY CoverFacts
<1>2. b <= a
  BY <1>1, FS_Subset
<1>3. c + 1 <= d
  <2>1. IsFiniteSet(W \cup {i}) /\ Cardinality(W \cup {i}) = c + 1
    BY <1>1, FS_AddElement
  <2>2. W \cup {i} \subseteq V
    BY <1>1
  <2>. QED BY <1>1, <2>1, <2>2, FS_Subset
<1>4. resets[e] + a + Debt(e) <= c /\ (Covered(e)' = (resets'[e] + b + Debt(e)' <= d))
  BY DEF Covered
<1>. HIDE DEF a, b, c, d, W, V
<1>5. resets[e] + b + Debt(e)' <= d
  BY <1>1, <1>2, <1>3, <1>4
<1>. QED BY <1>4, <1>5

\* A debt becomes a session or a password.
LEMMA DebtPaid ==
  ASSUME TypeInv, TypeInv', Keeps, NEW e \in Emails, Covered(e), Owing(e), ~Owing(e)',
         \/ /\ resets'[e] = resets[e] + 1
            /\ Purse(e)' \subseteq Purse(e)
         \/ /\ resets'[e] = resets[e]
            /\ \E t : Purse(e)' \subseteq Purse(e) \cup {t}
  PROVE  Covered(e)'
<1>. DEFINE a == Cardinality(Purse(e))  b == Cardinality(Purse(e)')
            c == Cardinality(Won(e, {"reset"}))  d == Cardinality(Won(e, {"reset"})')
<1>1. /\ IsFiniteSet(Purse(e)) /\ a \in Nat /\ c \in Nat
      /\ IsFiniteSet(Purse(e)') /\ b \in Nat /\ d \in Nat
      /\ resets[e] \in Nat /\ c <= d
  BY CoverFacts
<1>2. Debt(e) = 1 /\ Debt(e)' = 0
  BY DEF Debt
<1>3. resets'[e] + b <= resets[e] + a + 1
  <2>1. ASSUME Purse(e)' \subseteq Purse(e) PROVE b <= a
    BY <1>1, <2>1, FS_Subset
  <2>2. ASSUME NEW t, Purse(e)' \subseteq Purse(e) \cup {t} PROVE b <= a + 1
    <3>1. IsFiniteSet(Purse(e) \cup {t}) /\ Cardinality(Purse(e) \cup {t}) <= a + 1
      <4>1. CASE t \in Purse(e)
        <5>1. Purse(e) \cup {t} = Purse(e)
          BY <4>1
        <5>2. a <= a + 1
          BY <1>1
        <5>. QED BY <1>1, <5>1, <5>2
      <4>2. CASE t \notin Purse(e)
        <5>1. IsFiniteSet(Purse(e) \cup {t}) /\ Cardinality(Purse(e) \cup {t}) = a + 1
          BY <1>1, <4>2, FS_AddElement
        <5>. QED BY <1>1, <5>1
      <4>. QED BY <4>1, <4>2
    <3>2. b <= Cardinality(Purse(e) \cup {t}) /\ Cardinality(Purse(e) \cup {t}) \in Nat
      BY <2>2, <3>1, FS_Subset, FS_CardinalityType
    <3>. QED BY <1>1, <3>1, <3>2
  <2>3. ASSUME resets'[e] = resets[e] + 1, b <= a PROVE resets'[e] + b <= resets[e] + a + 1
    <3>. HIDE DEF a, b
    <3>. QED BY <1>1, <2>3
  <2>4. ASSUME resets'[e] = resets[e], b <= a + 1 PROVE resets'[e] + b <= resets[e] + a + 1
    <3>. HIDE DEF a, b
    <3>. QED BY <1>1, <2>4
  <2>. QED BY <2>1, <2>2, <2>3, <2>4
<1>4. resets[e] + a + Debt(e) <= c /\ (Covered(e)' = (resets'[e] + b + Debt(e)' <= d))
  BY DEF Covered
<1>5. resets'[e] \in Nat
  BY <1>1
<1>. HIDE DEF a, b, c, d
<1>6. resets'[e] + b + 0 <= d
  BY <1>1, <1>2, <1>3, <1>4, <1>5
<1>. QED BY <1>2, <1>4, <1>6

\* A session becomes a debt.
LEMMA SessionSpent ==
  ASSUME TypeInv, TypeInv', Keeps, NEW e \in Emails, Covered(e), resets'[e] = resets[e],
         NEW t \in Purse(e), Purse(e)' \subseteq Purse(e) \ {t}
  PROVE  Covered(e)'
<1>. DEFINE a == Cardinality(Purse(e))  b == Cardinality(Purse(e)')
            c == Cardinality(Won(e, {"reset"}))  d == Cardinality(Won(e, {"reset"})')
<1>1. /\ IsFiniteSet(Purse(e)) /\ a \in Nat /\ c \in Nat
      /\ IsFiniteSet(Purse(e)') /\ b \in Nat /\ d \in Nat
      /\ Debt(e) \in {0, 1} /\ Debt(e)' \in {0, 1} /\ resets[e] \in Nat /\ c <= d
  BY CoverFacts
<1>2. b + 1 <= a
  <2>1. IsFiniteSet(Purse(e) \ {t}) /\ Cardinality(Purse(e) \ {t}) = a - 1
    BY <1>1, FS_RemoveElement
  <2>2. b <= Cardinality(Purse(e) \ {t})
    BY <2>1, FS_Subset
  <2>. QED BY <1>1, <2>1, <2>2
<1>3. resets[e] + a + Debt(e) <= c /\ (Covered(e)' = (resets'[e] + b + Debt(e)' <= d))
  BY DEF Covered
<1>. HIDE DEF a, b, c, d
<1>4. resets[e] + b + Debt(e)' <= d
  BY <1>1, <1>2, <1>3
<1>. QED BY <1>3, <1>4

\* A guess is judged: it is counted on the record that was read, and an
\* accepted reset code is one that was never accepted before.
LEMMA OwnJudge ==
  ASSUME CodeInv, TypeInv', Keeps, NEW w \in Workers, NEW e \in Emails, Serving(e, w), Orderly(e),
         Judge(w)
  PROVE  Orderly(e)'
<1>. DEFINE q == req[w]  o == otps[q.rec]
<1>0. /\ TypeInv /\ otps \in Seq(Otp) /\ q \in Request /\ q.email = e /\ q.step = "judge"
      /\ q.rec \in DOMAIN otps /\ o.email = e /\ o.purpose = Purpose(q.op)
  BY Fields DEF CodeInv, TypeInv, OtpTypeOK, Serving, Judge, JudgesOwn
<1>1. /\ o.attempts \in Nat /\ o.wrong \in Nat /\ o.won \in Nat /\ q.seen \in Nat
      /\ MaxAttempts \in Nat
  BY <1>0, Fields, OtpAssumption DEF TypeInv
<1>2. \A v \in Workers \ {w} : ~Serving(e, v)
  BY DEF Orderly, OneAtATime
<1>3. /\ q.seen = o.attempts /\ ~o.used
      /\ Purpose(q.op) # "password" /\ missed[e][Purpose(q.op)] < MaxFailures
  BY <1>0 DEF Orderly, UpToDate
<1>4. o.wrong <= o.attempts /\ o.attempts <= MaxAttempts /\ o.won = 0
  BY <1>0, <1>1, <1>3 DEF Orderly, CodesCounted
<1>5. UNCHANGED <<account, fails, missed, tokens, resets>>
  BY DEF Judge
<1>6. FailuresCounted(e)'
  BY <1>5 DEF Orderly, FailuresCounted
<1>7. /\ req'[w].step \in {"idle", "clear", "failread"}
      /\ req'[w].step # "idle" => req'[w].op = q.op /\ req'[w].email = e
      /\ \A v \in Workers \ {w} : req'[v] = req[v]
  BY <1>0, GotoType, AnswerType DEF Judge, OtpSteps
<1>8. UpToDate(e, w)'
  BY <1>3, <1>5, <1>7 DEF UpToDate
<1>9. ASSUME NEW r, otps' = [otps EXCEPT ![q.rec] = r],
             \/ r.attempts = o.attempts /\ r.wrong = o.wrong
             \/ r.attempts = o.attempts + 1 /\ r.wrong = o.wrong + 1,
             r.attempts <= MaxAttempts, r.won > 0 => r.used
      PROVE  CodesCounted(e)'
  <2>1. \A i \in DOMAIN otps' : i \in DOMAIN otps /\ otps'[i] = (IF i = q.rec THEN r ELSE otps[i])
    BY <1>0, <1>9
  <2>2. r.wrong <= r.attempts
    BY <1>1, <1>4, <1>9
  <2>. QED BY <1>9, <2>1, <2>2 DEF Orderly, CodesCounted
<1>10. ASSUME req'[w].step # "clear" PROVE Covered(e)'
  BY <1>0, <1>2, <1>5, <1>7, <1>10, NothingGained DEF Orderly
<1>11. CASE UNCHANGED otps /\ Answer(w)
  <2>1. req'[w].step = "idle"
    BY <1>0, <1>11, AnswerType
  <2>2. CodesCounted(e)'
    BY <1>11 DEF Orderly, CodesCounted
  <2>. QED BY <1>0, <1>2, <1>6, <1>7, <1>8, <1>10, <2>1, <2>2, ServedAlone
<1>12. CASE otps' = [otps EXCEPT ![q.rec] = [o EXCEPT !.used = TRUE]] /\ Goto(w, "failread")
  <2>1. req'[w].step = "failread"
    BY <1>0, <1>12, GotoType DEF OtpSteps
  <2>2. /\ [o EXCEPT !.used = TRUE].attempts = o.attempts /\ [o EXCEPT !.used = TRUE].wrong = o.wrong
        /\ [o EXCEPT !.used = TRUE].used
    BY <1>0, JudgedCounts
  <2>3. CodesCounted(e)'
    BY <1>4, <1>9, <1>12, <2>2
  <2>. QED BY <1>0, <1>2, <1>6, <1>7, <1>8, <1>10, <2>1, <2>3, ServedAlone
<1>13. CASE otps' = [otps EXCEPT ![q.rec] = Wrong(q)] /\ Goto(w, "failread") /\ ~Exhausted(q)
  <2>1. req'[w].step = "failread"
    BY <1>0, <1>13, GotoType DEF OtpSteps
  <2>2. Wrong(q).attempts = q.seen + 1 /\ Wrong(q).wrong = o.wrong + 1 /\ Wrong(q).won = o.won
    BY <1>0, JudgedCounts, JudgedType
  <2>3. q.seen + 1 <= MaxAttempts
    BY <1>1, <1>13 DEF Exhausted
  <2>4. CodesCounted(e)'
    <3>1. /\ Wrong(q).attempts = o.attempts + 1 /\ Wrong(q).wrong = o.wrong + 1
          /\ Wrong(q).attempts <= MaxAttempts /\ ~(Wrong(q).won > 0)
      BY <1>3, <1>4, <2>2, <2>3
    <3>. QED BY <1>9, <1>13, <3>1
  <2>. QED BY <1>0, <1>2, <1>6, <1>7, <1>8, <1>10, <2>1, <2>4, ServedAlone
<1>14. CASE otps' = [otps EXCEPT ![q.rec] = Right(q)]
  <2>1. Right(q).attempts = o.attempts /\ Right(q).wrong = o.wrong /\ Right(q).used /\ Right(q).won > 0
        /\ Right(q).email = e /\ Right(q).purpose = Purpose(q.op)
    BY <1>0, JudgedCounts, JudgedType
  <2>2. CodesCounted(e)'
    BY <1>4, <1>9, <1>14, <2>1
  <2>3. CASE Purpose(q.op) = "reset"
    <3>1. otps'[q.rec] = Right(q) /\ q.rec \in DOMAIN otps'
      BY <1>0, <1>14
    <3>2. q.rec \in Won(e, {"reset"})' /\ q.rec \notin Won(e, {"reset"})
      BY <1>4, <2>1, <2>3, <3>1 DEF Won
    <3>3. Purse(e)' \subseteq Purse(e)
      BY <1>2, <1>5, <1>7 DEF Purse, InHands, Serving
    <3>4. Covered(e)'
      BY <1>0, <1>5, <3>2, <3>3, CodePays DEF Orderly
    <3>. QED BY <1>0, <1>2, <1>6, <1>7, <1>8, <2>2, <3>4, ServedAlone
  <2>4. CASE Purpose(q.op) # "reset"
    <3>1. Covered(e)'
      BY <1>0, <1>2, <1>5, <1>7, <2>4, NothingGained DEF Orderly, Serving
    <3>. QED BY <1>0, <1>2, <1>6, <1>7, <1>8, <2>2, <3>1, ServedAlone
  <2>. QED BY <2>3, <2>4
<1>. QED BY <1>11, <1>12, <1>13, <1>14 DEF Judge

\* A session is given or spent, or a password set: what was owed is paid.
LEMMA OwnReset ==
  ASSUME CodeInv, TypeInv', Keeps, NEW w \in Workers, NEW e \in Emails, Serving(e, w), Orderly(e),
         SpendsOwn(w), GrantToken(w) \/ Consume(w) \/ ResetSave(w)
  PROVE  Orderly(e)'
<1>0. /\ TypeInv /\ tokens \in Seq(Session) /\ req[w].email = e /\ req[w].op \in AllOps
      /\ Earned(w)
  BY Fields DEF CodeInv, TypeInv, OtpTypeOK, Serving
<1>1. \A v \in Workers \ {w} : ~Serving(e, v) /\ req'[v] = req[v]
  <2>1. OtpWork(w)
    BY DEF OtpWork
  <2>. QED BY <1>0, <2>1, OneMoves DEF Orderly, OneAtATime
<1>2. \A v \in Workers \ {w} : ~Serving(e, v)'
  BY <1>1 DEF Serving
<1>3. CodesCounted(e)'
  BY DEF Orderly, CodesCounted, GrantToken, Consume, ResetSave
<1>4. CASE GrantToken(w)
  <2>1. req'[w].step = "idle"
    BY <1>0, <1>4, AnswerType DEF GrantToken
  <2>2. FailuresCounted(e)' /\ UpToDate(e, w)'
    BY <1>4, <2>1 DEF Orderly, FailuresCounted, UpToDate, Serving, GrantToken
  <2>3. Owing(e) /\ ~Owing(e)'
    BY <1>2, <1>4, <2>1 DEF Owing, Serving, GrantToken, Purpose
  <2>4. \A t \in DOMAIN tokens' : t # Len(tokens) + 1 => t \in DOMAIN tokens /\ tokens'[t] = tokens[t]
    <3>1. CASE UNCHANGED tokens
      BY <3>1
    <3>2. CASE tokens' = Append(tokens, [email |-> e, live |-> TRUE])
      BY <1>0, <3>2
    <3>. QED BY <1>0, <1>4, <3>1, <3>2 DEF GrantToken
  <2>5. \A t : ~InHands(e, t)'
    BY <1>2, <2>1 DEF InHands, Serving
  <2>6. Purse(e)' \subseteq Purse(e) \cup {Len(tokens) + 1}
    BY <2>4, <2>5 DEF Purse
  <2>7. resets'[e] = resets[e]
    BY <1>4 DEF GrantToken
  <2>8. Covered(e)'
    BY <1>0, <2>3, <2>6, <2>7, DebtPaid DEF Orderly
  <2>. QED BY <1>0, <1>1, <1>3, <2>2, <2>8, ServedAlone
<1>5. CASE Consume(w)
  <2>. DEFINE t == req[w].code
  <2>1. req'[w].step = "grant" /\ req[w].step = "consume"
    BY <1>0, <1>5, GotoType DEF Consume, OtpSteps
  <2>2. FailuresCounted(e)' /\ UpToDate(e, w)'
    BY <1>5, <2>1 DEF Orderly, FailuresCounted, UpToDate, Serving, Consume
  <2>3. t \in DOMAIN tokens /\ tokens[t].email = e /\ tokens[t] \in Session
    BY <1>0, <2>1 DEF SpendsOwn
  <2>4. tokens' = [tokens EXCEPT ![t] = [tokens[t] EXCEPT !.live = FALSE]]
    BY <1>5 DEF Consume
  <2>5. ~tokens'[t].live /\ DOMAIN tokens' = DOMAIN tokens /\ \A i \in DOMAIN tokens : i # t => tokens'[i] = tokens[i]
    BY <2>3, <2>4 DEF Session
  <2>6. \A i : ~InHands(e, i)'
    BY <1>2, <2>1 DEF InHands, Serving
  <2>7. t \in Purse(e)
    BY <2>1, <2>3 DEF Purse, InHands
  <2>8. Purse(e)' \subseteq Purse(e) \ {t}
    BY <2>5, <2>6 DEF Purse
  <2>9. resets'[e] = resets[e]
    BY <1>5 DEF Consume
  <2>10. Covered(e)'
    BY <1>0, <2>7, <2>8, <2>9, SessionSpent DEF Orderly
  <2>. QED BY <1>0, <1>1, <1>3, <2>2, <2>10, ServedAlone
<1>6. CASE ResetSave(w)
  <2>1. req'[w].step = "idle" /\ req[w].step = "save"
    BY <1>0, <1>6, AnswerType DEF ResetSave
  <2>2. UpToDate(e, w)'
    BY <2>1 DEF UpToDate, Serving
  <2>3. FailuresCounted(e)'
    <3>1. CASE UNCHANGED <<fails, missed>>
      BY <3>1 DEF Orderly, FailuresCounted
    <3>2. CASE ForgetCounter(e, "password")
      BY <1>0, <3>2, ForgetCounts DEF Orderly
    <3>. QED BY <1>0, <1>6, <3>1, <3>2 DEF ResetSave
  <2>4. Owing(e) /\ ~Owing(e)'
    BY <1>0, <1>2, <2>1 DEF Owing, Serving, Purpose, Earned
  <2>5. Purse(e)' \subseteq Purse(e)
    BY <1>2, <1>6, <2>1 DEF Purse, InHands, Serving, ResetSave
  <2>6. resets'[e] = resets[e] \/ resets'[e] = resets[e] + 1
    BY <1>0, <1>6 DEF ResetSave, TypeInv, OtpTypeOK
  <2>7. Covered(e)'
    BY <1>0, <2>4, <2>5, <2>6, DebtPaid DEF Orderly
  <2>. QED BY <1>0, <1>1, <1>3, <2>2, <2>3, <2>7, ServedAlone
<1>. QED BY <1>4, <1>5, <1>6

\* So a step of a thread keeps its own address in order.
LEMMA OwnWork ==
  ASSUME CodeInv, TypeInv', Keeps, NEW w \in Workers, NEW e \in Emails,
         OtpWork(w), SpendsOwn(w), req[w].email = e, Orderly(e)
  PROVE  Orderly(e)'
<1>1. Serving(e, w)
  BY OneMoves DEF Serving, CodeInv
<1>. QED BY <1>1, OwnSend, OwnLook, OwnFail, OwnGrant, OwnJudge, OwnReset DEF OtpWork

\* A request that arrives where none is under way finds the address in order.
LEMMA OwnArrival ==
  ASSUME TypeInv, TypeInv', Keeps, NEW w \in Workers, NEW e \in Emails, Orderly(e), ~Busy(e),
         NEW op \in AllOps, NEW c \in Nat,
         NEW st \in {"idle", "look", "invalidate", "cooldown", "auth", "consume"},
         Arrive(w, op, e, c, st), UNCHANGED <<otps, fails, missed, tokens, resets>>,
         st = "look" => Purpose(op) # "password" /\ ~Locked(e, Purpose(op)),
         st = "consume" => c \in DOMAIN tokens /\ tokens[c].email = e /\ tokens[c].live
  PROVE  Orderly(e)'
<1>1. /\ req'[w].step = st /\ req'[w].op = op /\ req'[w].email = e /\ req'[w].code = c
      /\ \A v \in Workers \ {w} : req'[v] = req[v]
  <2>1. DOMAIN req = Workers
    BY DEF TypeInv, OtpTypeOK
  <2>2. req'[w].code = c
    BY <2>1 DEF Arrive, OtpIdle
  <2>. QED BY <2>2, ArriveType DEF OtpSteps
<1>2. \A v \in Workers : ~Serving(e, v)
  BY DEF Busy, Serving
<1>3. CodesCounted(e)' /\ FailuresCounted(e)'
  BY DEF Orderly, CodesCounted, FailuresCounted
<1>4. UpToDate(e, w)'
  <2>1. ASSUME st = "look" PROVE Purpose(op) # "password" /\ missed[e][Purpose(op)] < MaxFailures
    <3>1. Purpose(op) \in Purposes \ {"password"}
      BY <2>1, PurposeType
    <3>2. missed[e][Purpose(op)] <= fails[e][Purpose(op)]
      BY <3>1 DEF Orderly, FailuresCounted
    <3>3. missed[e][Purpose(op)] \in Nat /\ fails[e][Purpose(op)] \in Nat /\ MaxFailures \in Nat
      BY <3>1, OtpAssumption DEF TypeInv, OtpTypeOK
    <3>4. ~(fails[e][Purpose(op)] >= MaxFailures)
      BY <2>1 DEF Locked
    <3>. QED BY <3>1, <3>2, <3>3, <3>4
  <2>. QED BY <1>1, <2>1 DEF UpToDate
<1>5. Covered(e)'
  <2>1. Purse(e)' \subseteq Purse(e)
    <3>1. \A t \in DOMAIN tokens : InHands(e, t)' => tokens[t].live
      BY <1>1, <1>2 DEF InHands, Serving
    <3>. QED BY <3>1 DEF Purse
  <2>2. ~Owing(e)'
    BY <1>1, <1>2 DEF Owing, Serving
  <2>. QED BY <2>1, <2>2, CoverStays DEF Orderly
<1>. QED BY <1>1, <1>2, <1>3, <1>4, <1>5, ServedAlone

\* A request that arrives for another address leaves this one alone, as does
\* one that is refused at once.
LEMMA OthersArrival ==
  ASSUME TypeInv, NEW w \in Workers, NEW e \in Emails, NEW f \in Emails,
         NEW op \in AllOps, NEW c \in Nat, NEW st \in OtpSteps,
         Arrive(w, op, f, c, st), f # e, UNCHANGED <<otps, fails, missed, tokens, resets>>,
         account'[e] = account[e]
  PROVE  Untouched(e)
<1>1. /\ req'[w].email = f /\ req[w].step = "idle"
      /\ \A v \in Workers \ {w} : req'[v] = req[v]
  BY ArriveType DEF Arrive
<1>2. \A v \in Workers : req'[v] # req[v] => ~Serving(e, v) /\ ~Serving(e, v)'
  BY <1>1 DEF Serving
<1>. QED BY <1>2 DEF Untouched

\* A request arrives: for the addresses that never had two at once,
LEMMA ArrivalOrder ==
  ASSUME CodeInv, OrderInv, TypeInv', Keeps, NEW w \in Workers, NEW f \in Emails,
         NEW op \in AllOps, NEW c \in Nat,
         NEW st \in {"idle", "look", "invalidate", "cooldown", "auth", "consume"},
         Arrive(w, op, f, c, st), UNCHANGED <<otps, fails, missed, tokens, resets>>,
         \A e \in Emails : e # f => account'[e] = account[e],
         st = "look" => Purpose(op) # "password" /\ ~Locked(f, Purpose(op)),
         st = "consume" => c \in DOMAIN tokens /\ tokens[c].email = f /\ tokens[c].live
  PROVE  OrderInv'
<1>0. TypeInv /\ st \in OtpSteps /\ DOMAIN req = Workers
  BY DEF CodeInv, OtpSteps, TypeInv, OtpTypeOK
<1>1. ASSUME NEW e \in Emails \ overlap' PROVE Orderly(e)'
  <2>1. e \notin overlap /\ Orderly(e)
    BY <1>1 DEF Arrive, OrderInv
  <2>2. CASE e = f
    <3>1. ~Busy(e)
      BY <1>1, <2>2 DEF Arrive
    <3>. QED BY <1>0, <2>1, <2>2, <3>1, OwnArrival
  <2>3. CASE e # f
    BY <1>0, <2>1, <2>3, OthersArrival, Spectator
  <2>. QED BY <2>2, <2>3
<1>2. /\ req'[w].step = st /\ req'[w].email = f /\ req'[w].code = c
      /\ \A v \in Workers \ {w} : req'[v] = req[v]
  <2>1. req'[w].code = c
    BY <1>0 DEF Arrive, OtpIdle
  <2>. QED BY <1>0, <2>1, ArriveType
<1>3. \A v \in Workers : SpendsOwn(v)'
  BY <1>2 DEF SpendsOwn, OrderInv
<1>. QED BY <1>1, <1>3 DEF OrderInv

\* ... whatever it asks for,
LEMMA ArrivalsOrder ==
  ASSUME CodeInv, OrderInv, TypeInv', Keeps, NEW w \in Workers,
         \/ SendLogin(w) \/ SendVerify(w) \/ Resend(w) \/ SendContact(w) \/ SendReset(w)
         \/ VerifyLogin(w) \/ VerifyEmail(w) \/ ConfirmContact(w) \/ CheckReset(w)
         \/ ConfirmReset(w) \/ Register(w) \/ UseToken(w) \/ Login(w)
  PROVE  OrderInv'
<1>1. CASE SendLogin(w) \/ SendVerify(w) \/ Resend(w) \/ SendContact(w) \/ SendReset(w)
  <2>1. PICK e \in Emails,
             op \in {"sendlogin", "sendverify", "resend", "sendcontact", "sendreset"},
             st \in {"invalidate", "cooldown"} : Asked(w, op, e, st)
    BY <1>1 DEF SendLogin, SendVerify, Resend, SendContact, SendReset
  <2>. QED BY <2>1, ArrivalOrder DEF Asked, AllOps
<1>2. CASE VerifyLogin(w) \/ VerifyEmail(w) \/ ConfirmContact(w) \/ CheckReset(w) \/ ConfirmReset(w)
  <2>1. PICK op \in {"login", "verify", "contact", "check", "confirm"} : Submit(w, op)
    BY <1>2 DEF VerifyLogin, VerifyEmail, ConfirmContact, CheckReset, ConfirmReset
  <2>2. PICK e \in Emails, c \in 0 .. Len(otps), st \in {"idle", "look"} :
          Arrive(w, op, e, c, st) /\ (st = "look" => ~Locked(e, Purpose(op)))
    BY <2>1 DEF Submit
  <2>3. Purpose(op) # "password"
    BY DEF Purpose
  <2>4. UNCHANGED <<account, otps, fails, missed, tokens, resets>>
    BY <2>1 DEF Submit
  <2>. QED BY <2>2, <2>3, <2>4, ArrivalOrder DEF AllOps
<1>3. CASE Register(w)
  <2>1. PICK e \in Emails : Arrive(w, "register", e, 0, "invalidate")
                            /\ account' = [account EXCEPT ![e] = "active"]
    BY <1>3 DEF Register
  <2>2. \A a \in Emails : a # e => account'[a] = account[a]
    BY <2>1 DEF CodeInv, TypeInv, OtpTypeOK
  <2>. QED BY <1>3, <2>1, <2>2, ArrivalOrder DEF Register, AllOps
<1>4. CASE UseToken(w)
  <2>1. PICK e \in Emails, t \in DOMAIN tokens :
          tokens[t].email = e /\ tokens[t].live /\ Arrive(w, "token", e, t, "consume")
    BY <1>4 DEF UseToken
  <2>2. t \in Nat
    BY Fields DEF CodeInv, TypeInv
  <2>. QED BY <1>4, <2>1, <2>2, ArrivalOrder DEF UseToken, AllOps
<1>5. CASE Login(w)
  <2>1. PICK e \in Emails, c \in {0, 1}, st \in {"idle", "auth"} : Arrive(w, "password", e, c, st)
    BY <1>5 DEF Login
  <2>. QED BY <1>5, <2>1, ArrivalOrder DEF Login, AllOps
<1>. QED BY <1>1, <1>2, <1>3, <1>4, <1>5

\* ... every step of a thread,
LEMMA WorkOrder ==
  ASSUME CodeInv, OrderInv, TypeInv', Keeps, NEW w \in Workers, OtpWork(w), [OtpNext]_otpVars
  PROVE  OrderInv'
<1>0. TypeInv /\ SpendsOwn(w)
  BY DEF CodeInv, OrderInv
<1>1. overlap' = overlap
  BY DEF OtpWork, Cooldown, Invalidate, Create, Look, Judge, FailRead, FailSet, Clear, GrantLogin,
         GrantVerified, GrantToken, Consume, ResetRead, ResetSave, Authenticate
<1>2. ASSUME NEW e \in Emails \ overlap' PROVE Orderly(e)'
  <2>1. Orderly(e)
    BY <1>1, <1>2 DEF OrderInv
  <2>2. CASE req[w].email = e
    BY <1>0, <2>1, <2>2, OwnWork
  <2>3. CASE req[w].email # e
    BY <1>0, <2>1, <2>3, OthersWork, Spectator
  <2>. QED BY <2>2, <2>3
<1>3. \A v \in Workers : SpendsOwn(v)'
  <2>1. \A t \in DOMAIN tokens : t \in DOMAIN tokens' /\ tokens'[t].email = tokens[t].email
    BY <1>0, SessionsStay
  <2>2. \A v \in Workers \ {w} : req'[v] = req[v]
    BY <1>0, OneMoves
  <2>3. req'[w].step # "consume"
    <3>1. CASE Look(w) \/ FailRead(w) \/ ResetRead(w) \/ GrantLogin(w)
      <4>1. DOMAIN req = Workers /\ req[w] \in Request
        BY <1>0, Fields DEF TypeInv, OtpTypeOK
      <4>. QED BY <1>0, <3>1, <4>1, AnswerType DEF Look, FailRead, ResetRead, GrantLogin, Request
    <3>2. CASE \/ Cooldown(w) \/ Invalidate(w) \/ Create(w) \/ Judge(w) \/ FailSet(w) \/ Clear(w)
               \/ GrantVerified(w) \/ GrantToken(w) \/ Consume(w)
               \/ ResetSave(w) \/ Authenticate(w)
      BY <1>0, <3>2, AnswerType, GotoType
      DEF Cooldown, Invalidate, Create, Judge, FailSet, Clear, GrantVerified,
          GrantToken, Consume, ResetSave, Authenticate, OtpSteps
    <3>. QED BY <3>1, <3>2 DEF OtpWork
  <2>. QED BY <2>1, <2>2, <2>3 DEF SpendsOwn, OrderInv
<1>. QED BY <1>2, <1>3 DEF OrderInv

\* ... and every step of time and administrators.
LEMMA OutsideOrder ==
  ASSUME CodeInv, OrderInv, TypeInv', Keeps, Age \/ CacheExpires \/ Administer, [OtpNext]_otpVars
  PROVE  OrderInv'
<1>0. TypeInv /\ otps \in Seq(Otp) /\ tokens \in Seq(Session)
  BY DEF CodeInv, TypeInv, OtpTypeOK
<1>1. req' = req /\ resets' = resets /\ overlap \subseteq overlap'
  BY DEF Age, CacheExpires, Administer
<1>2. \A v \in Workers : SpendsOwn(v)'
  <2>1. \A t \in DOMAIN tokens : t \in DOMAIN tokens' /\ tokens'[t].email = tokens[t].email
    BY <1>0, SessionsStay
  <2>. QED BY <1>1, <2>1 DEF SpendsOwn, OrderInv
<1>3. ASSUME NEW e \in Emails \ overlap', Age \/ Administer PROVE Orderly(e)'
  <2>1. Orderly(e)
    BY <1>1, <1>3 DEF OrderInv
  <2>2. UNCHANGED <<fails, missed, tokens>>
    BY <1>3 DEF Age, Administer
  <2>3. \A i \in DOMAIN otps' :
          /\ i \in DOMAIN otps /\ otps'[i].purpose = otps[i].purpose
          /\ otps'[i].attempts = otps[i].attempts /\ otps'[i].used = otps[i].used
          /\ otps'[i].won = otps[i].won /\ otps'[i].wrong = otps[i].wrong
    <3>1. \A i \in DOMAIN otps : DOMAIN otps[i] = {"email", "purpose", "attempts", "used", "age", "won", "wrong"}
      <4>1. \A o \in Otp : DOMAIN o = {"email", "purpose", "attempts", "used", "age", "won", "wrong"}
        BY DEF Otp
      <4>2. \A i \in DOMAIN otps : otps[i] \in Otp
        BY <1>0
      <4>. QED BY <4>1, <4>2
    <3>2. CASE Age
      <4>1. PICK i \in DOMAIN otps, a \in {"old", "expired"} : otps' = [otps EXCEPT ![i] = [otps[i] EXCEPT !.age = a]]
        BY <3>2 DEF Age
      <4>. QED BY <3>1, <4>1
    <3>3. ASSUME NEW f \in Emails, Delete(f)
          PROVE  \A i \in DOMAIN otps' :
                   /\ i \in DOMAIN otps /\ otps'[i].purpose = otps[i].purpose
                   /\ otps'[i].attempts = otps[i].attempts /\ otps'[i].used = otps[i].used
                   /\ otps'[i].won = otps[i].won /\ otps'[i].wrong = otps[i].wrong
      BY <3>1, <3>3 DEF Delete
    <3>. QED BY <1>3, <3>2, <3>3 DEF Administer, Flip
  <2>4. account'[e] = account[e] \/ ~Busy(e)
    <3>1. CASE Age
      BY <3>1 DEF Age
    <3>2. CASE Administer
      <4>1. PICK f \in Emails : /\ Flip(f) \/ Delete(f)
                                /\ overlap' = IF Busy(f) THEN overlap \union {f} ELSE overlap
        BY <3>2 DEF Administer
      <4>2. f # e => account'[e] = account[e]
        BY <1>0, <4>1 DEF Flip, Delete, TypeInv, OtpTypeOK
      <4>3. f = e => ~Busy(e)
        BY <1>3, <4>1
      <4>. QED BY <4>2, <4>3
    <3>. QED BY <1>3, <3>1, <3>2
  <2>5. Untouched(e)
    BY <1>1, <2>2, <2>3, <2>4 DEF Untouched
  <2>. QED BY <2>1, <2>5, Spectator
<1>4. ASSUME NEW e \in Emails \ overlap', CacheExpires PROVE Orderly(e)'
  <2>1. Orderly(e) /\ UNCHANGED <<account, otps>>
    BY <1>1, <1>4 DEF OrderInv, CacheExpires
  <2>2. OneAtATime(e)' /\ CodesCounted(e)'
    BY <1>1, <2>1 DEF Orderly, OneAtATime, CodesCounted, Serving
  <2>3. /\ FailuresCounted(e)'
        /\ \A q \in Purposes : missed'[e][q] <= missed[e][q] /\ missed'[e][q] \in Nat
    <3>1. missed \in [Emails -> [Purposes -> Nat]] /\ fails \in [Emails -> [Purposes -> Nat]]
      BY <1>0 DEF TypeInv, OtpTypeOK
    <3>2. CASE missed'[e] = missed[e] /\ fails'[e] = fails[e]
      <4>1. \A q \in Purposes : missed[e][q] \in Nat
        BY <3>1
      <4>. QED BY <2>1, <3>2, <4>1 DEF Orderly, FailuresCounted
    <3>3. ASSUME NEW f \in Emails, NEW p \in Purposes, ForgetCounter(f, p)
          PROVE  \/ missed'[e] = missed[e] /\ fails'[e] = fails[e]
                 \/ ForgetCounter(e, p)
      BY <3>1, <3>3 DEF ForgetCounter
    <3>4. ASSUME NEW p, ForgetCounter(e, p)
          PROVE  /\ FailuresCounted(e)'
                 /\ \A q \in Purposes : missed'[e][q] <= missed[e][q] /\ missed'[e][q] \in Nat
      BY <1>0, <2>1, <3>4, ForgetCounts DEF Orderly
    <3>. QED BY <1>4, <3>2, <3>3, <3>4 DEF CacheExpires
  <2>4. ASSUME NEW v \in Workers PROVE UpToDate(e, v)'
    <3>1. Purpose(req[v].op) \in Purposes
      BY <1>0, Fields DEF TypeInv
    <3>2. missed'[e][Purpose(req[v].op)] <= missed[e][Purpose(req[v].op)]
          /\ missed'[e][Purpose(req[v].op)] \in Nat /\ missed[e][Purpose(req[v].op)] \in Nat
          /\ MaxFailures \in Nat /\ req[v].seen \in Nat
      BY <1>0, <2>3, <3>1, Fields, OtpAssumption DEF TypeInv, OtpTypeOK
    <3>3. UpToDate(e, v)
      BY <2>1 DEF Orderly
    <3>4. missed[e][Purpose(req[v].op)] < MaxFailures => missed'[e][Purpose(req[v].op)] < MaxFailures
      BY <3>2
    <3>5. missed[e][Purpose(req[v].op)] <= req[v].seen => missed'[e][Purpose(req[v].op)] <= req[v].seen
      BY <3>2
    <3>. QED BY <1>1, <2>1, <3>3, <3>4, <3>5 DEF UpToDate, Serving
  <2>5. Covered(e)'
    <3>1. /\ DOMAIN tokens' = DOMAIN tokens
          /\ \A t \in DOMAIN tokens : tokens'[t].email = tokens[t].email /\ (tokens'[t].live => tokens[t].live)
      <4>1. \A t \in DOMAIN tokens : tokens[t] \in Session
        BY <1>0
      <4>. QED BY <1>4, <4>1 DEF CacheExpires, Session
    <3>2. Purse(e)' \subseteq Purse(e)
      BY <1>1, <3>1 DEF Purse, InHands, Serving
    <3>3. Owing(e)' => Owing(e)
      BY <1>1 DEF Owing, Serving
    <3>. QED BY <1>0, <1>1, <2>1, <3>2, <3>3, CoverStays DEF Orderly
  <2>. QED BY <2>1, <2>2, <2>3, <2>4, <2>5 DEF Orderly
<1>. QED BY <1>2, <1>3, <1>4 DEF OrderInv

\* It holds in the first state,
LEMMA InitOrder == OtpInit => OrderInv
<1>. SUFFICES ASSUME OtpInit PROVE OrderInv
  OBVIOUS
<1>0. /\ \A i \in DOMAIN otps : /\ otps[i].attempts = 0 /\ otps[i].wrong = 0 /\ otps[i].won = 0
      /\ tokens = <<>> /\ \A w \in Workers : req[w].step = "idle"
      /\ \A e \in Emails : resets[e] = 0
      /\ \A e \in Emails, p \in Purposes : fails[e][p] = 0 /\ missed[e][p] = 0
  BY IdleType, MailedBefore DEF OtpInit
<1>1. \A w \in Workers : SpendsOwn(w)
  BY <1>0 DEF SpendsOwn
<1>2. ASSUME NEW e \in Emails PROVE Orderly(e)
  <2>1. \A v \in Workers : ~Serving(e, v)
    BY <1>0 DEF Serving
  <2>2. Purse(e) = {} /\ Won(e, {"reset"}) = {} /\ ~Owing(e)
    BY <1>0, <2>1 DEF Purse, Won, Owing
  <2>3. Covered(e)
    <3>1. Cardinality(Purse(e)) = 0 /\ Cardinality(Won(e, {"reset"})) = 0
      BY <2>2, FS_EmptySet
    <3>2. resets[e] = 0 /\ Debt(e) = 0
      BY <1>0, <2>2 DEF Debt
    <3>. QED BY ONLY <3>1, <3>2 DEF Covered
  <2>4. FailuresCounted(e)
    <3>1. MaxFailures \in Nat /\ \A p \in Purposes \ {"password"} : fails[e][p] = 0 /\ missed[e][p] = 0
      BY <1>0, OtpAssumption
    <3>. QED BY <3>1 DEF FailuresCounted
  <2>5. CodesCounted(e)
    BY <1>0, OtpAssumption DEF CodesCounted
  <2>. QED BY <2>1, <2>3, <2>4, <2>5 DEF Orderly, OneAtATime, UpToDate
<1>. QED BY <1>1, <1>2 DEF OrderInv

\* ... so every step keeps it, and it holds in every state.
LEMMA AlwaysOrder == OtpSpec => [](CodeInv /\ OrderInv)
<1>1. ASSUME CodeInv, OrderInv, [OtpNext]_otpVars PROVE CodeInv' /\ OrderInv'
  <2>1. Keeps /\ CodeInv' /\ TypeInv'
    BY <1>1, NextInv, StepKeeps DEF CodeInv
  <2>2. CASE UNCHANGED otpVars
    <3>1. \A e \in Emails : Untouched(e)
      BY <2>2 DEF otpVars, Untouched
    <3>2. \A w \in Workers : SpendsOwn(w)'
      BY <1>1, <2>2 DEF otpVars, OrderInv, SpendsOwn
    <3>3. overlap' = overlap
      BY <2>2 DEF otpVars
    <3>4. \A e \in Emails \ overlap : Orderly(e)'
      BY <1>1, <2>1, <3>1, Spectator DEF OrderInv
    <3>. QED BY <2>1, <3>2, <3>3, <3>4 DEF OrderInv
  <2>. QED BY <1>1, <2>1, <2>2, ArrivalsOrder, WorkOrder, OutsideOrder DEF OtpNext
<1>. QED BY <1>1, InitInv, InitOrder, PTL DEF OtpSpec

(* While no two requests for an address overlap, a code survives at most     *)
(* MaxAttempts wrong guesses, and no more than MaxFailures submissions fail  *)
(* between two clearings of a counter (otp_service.py, verify; security.py): *)
(* what each request has read is what it rewrites.                           *)
THEOREM GuessBoundAlways == OtpSpec => []GuessBound
<1>1. CodeInv /\ OrderInv => GuessBound
  <2>. SUFFICES ASSUME CodeInv, OrderInv, NEW e \in Emails \ overlap
                PROVE  /\ \A i \in DOMAIN otps : otps[i].email = e => otps[i].wrong <= MaxAttempts
                       /\ \A p \in Purposes \ {"password"} :
                            missed[e][p] <= fails[e][p] /\ missed[e][p] <= MaxFailures
    BY DEF GuessBound
  <2>1. \A i \in DOMAIN otps : otps[i].wrong \in Nat /\ otps[i].attempts \in Nat
    BY Fields DEF CodeInv, TypeInv
  <2>2. \A i \in DOMAIN otps : otps[i].email = e => otps[i].wrong <= otps[i].attempts /\ otps[i].attempts <= MaxAttempts
    BY DEF OrderInv, Orderly, CodesCounted
  <2>3. \A i \in DOMAIN otps : otps[i].email = e => otps[i].wrong <= MaxAttempts
    BY <2>1, <2>2, OtpAssumption
  <2>. QED BY <2>3 DEF OrderInv, Orderly, FailuresCounted
<1>. QED BY <1>1, AlwaysOrder, PTL

(* Neither a password nor an address is gained without an accepted code: a   *)
(* reset of the password and a verified address always have a code of that   *)
(* address behind them, and while its requests do not overlap every reset    *)
(* has one of its own, over both forms and the sessions between them         *)
(* (PasswordResetOtpConfirmView, password_reset_utils.py).                   *)
THEOREM BackedAlways == OtpSpec => []Backed
<1>1. CodeInv /\ OrderInv => Backed
  <2>. SUFFICES ASSUME CodeInv, OrderInv, NEW e \in Emails \ overlap
                PROVE  resets[e] <= Cardinality(Won(e, {"reset"}))
    BY DEF Backed, ResetOnce, CodeInv
  <2>1. /\ Cardinality(Purse(e)) \in Nat /\ Cardinality(Won(e, {"reset"})) \in Nat
        /\ Debt(e) \in {0, 1} /\ resets[e] \in Nat
    <3>1. otps \in Seq(Otp) /\ tokens \in Seq(Session)
      BY DEF CodeInv, TypeInv, OtpTypeOK
    <3>2. Purse(e) \in SUBSET DOMAIN tokens /\ Won(e, {"reset"}) \in SUBSET DOMAIN otps
      BY DEF Purse, Won
    <3>. QED BY <3>1, <3>2, PlacesCount DEF Debt, CodeInv, TypeInv, OtpTypeOK
  <2>2. resets[e] + Cardinality(Purse(e)) + Debt(e) <= Cardinality(Won(e, {"reset"}))
    BY DEF OrderInv, Orderly, Covered
  <2>. QED BY <2>1, <2>2
<1>. QED BY <1>1, AlwaysOrder, PTL

\* An account that a reset writes back was active when it was read, and still is.
LEMMA SaveFindsActive ==
  ASSUME CodeInv, OrderInv, NEW w \in Workers, ResetSave(w), req[w].email \notin overlap
  PROVE  account[req[w].email] = "active"
<1>1. req[w].email \in Emails /\ req[w].step = "save"
  BY DEF CodeInv, TypeInv, Addressed, ResetSave
<1>. QED BY <1>1 DEF OrderInv, Orderly, UpToDate, Serving

(* What was spent or switched off stays so: a code that was marked used is   *)
(* never usable again, and an account an administrator switched off or       *)
(* deleted comes back only through an administrator, a registration or a     *)
(* sign-in code while no request for the address overlaps with another or    *)
(* with the administrator (AdminUserDetailView, PasswordResetOtpConfirmView).*)
THEOREM WritesStickAlways == OtpSpec => WritesStick
<1>1. CodeInv /\ [OtpNext]_otpVars
        => [\A i \in DOMAIN otps : otps[i].used => otps'[i].used]_otpVars
  BY StepKeeps DEF CodeInv, Keeps
<1>2. ASSUME CodeInv, OrderInv, OtpNext, NEW e \in Emails \ overlap',
             account[e] # "active", account'[e] = "active"
      PROVE  Administer \/ \E w \in Workers : Register(w) \/ GrantLogin(w)
  <2>1. ASSUME NEW w \in Workers, ResetSave(w) PROVE FALSE
    <3>1. e \notin overlap
      BY <1>2, <2>1 DEF ResetSave
    <3>2. account \in [Emails -> {"none", "active", "off"}]
      BY <1>2 DEF CodeInv, TypeInv, OtpTypeOK
    <3>3. req[w].email = e
      BY <1>2, <2>1, <3>2 DEF ResetSave
    <3>. QED BY <1>2, <2>1, <3>1, <3>3, SaveFindsActive
  <2>2. ASSUME NEW w \in Workers, OtpWork(w), ~GrantLogin(w) PROVE FALSE
    BY <1>2, <2>1, <2>2
    DEF OtpWork, Cooldown, Invalidate, Create, Look, Judge, FailRead, FailSet, Clear,
        GrantVerified, GrantToken, Consume, ResetRead, Authenticate
  <2>3. ASSUME NEW w \in Workers,
               \/ SendLogin(w) \/ SendVerify(w) \/ Resend(w) \/ SendContact(w) \/ SendReset(w)
               \/ VerifyLogin(w) \/ VerifyEmail(w) \/ ConfirmContact(w) \/ CheckReset(w)
               \/ ConfirmReset(w) \/ UseToken(w) \/ Login(w)
        PROVE  FALSE
    BY <1>2, <2>3 DEF SendLogin, SendVerify, Resend, SendContact, SendReset, Asked, VerifyLogin,
       VerifyEmail, ConfirmContact, CheckReset, ConfirmReset, Submit, UseToken, Login
  <2>4. ~Age /\ ~CacheExpires
    BY <1>2 DEF Age, CacheExpires
  <2>. QED BY <1>2, <2>2, <2>3, <2>4 DEF OtpNext
<1>3. CodeInv /\ OrderInv /\ [OtpNext]_otpVars
        => [\A e \in Emails \ overlap' :
              account[e] # "active" /\ account'[e] = "active"
              => Administer \/ \E w \in Workers : Register(w) \/ GrantLogin(w)]_otpVars
  BY <1>2
<1>. QED BY <1>1, <1>3, AlwaysOrder, PTL DEF OtpSpec, WritesStick, UsedStays, OffSticks

\* A submission under way: between look-up and rewrite it holds a row of its matter.
Posts ==
  \A w \in Handlers : ~NoPost(w) =>
    /\ post[w] \in Post
    /\ post[w].step = "update" => /\ post[w].found \in DOMAIN reports
                                  /\ Same(post[w].found, post[w])

\* A user who never submits twice at once has one submission under way, with room for its row.
Single ==
  \A w \in Handlers : ~NoPost(w) /\ post[w].user \notin crowded =>
    /\ \A v \in Handlers : ~NoPost(v) /\ post[v].user = post[w].user => v = w
    /\ post[w].step \in {"find", "update", "insert"}
         => Cardinality(InLastHour(post[w].user)) < RateLimit
    /\ post[w].step = "insert" /\ post[w].type = "article_report" /\ post[w].story # NoStory
         => \A i \in DOMAIN reports : Same(i, post[w]) => reports[i].at + DedupeHours < hour

\* The index lets no two rows of one matter in.
Unique == indexed => \A i, j \in DOMAIN reports : Same(i, reports[j]) => i = j

Rows ==
  /\ hour \in Nat /\ indexed \in BOOLEAN /\ crowded \subseteq Reporters
  /\ reports \in Seq(Report) /\ \A i \in DOMAIN reports : reports[i].at <= hour
  /\ DOMAIN post = Handlers

ReportInv == Rows /\ Posts /\ Single /\ Unique /\ RateHolds /\ ReportsApart

\* The rows of u that are of the hour h or the next.
Near(u, h) == {i \in DOMAIN reports : reports[i].user = u /\ reports[i].at \in h .. h + 1}

(* Sets of rows are finite.                                                  *)
LEMMA RowsFinite ==
  ASSUME Rows
  PROVE  \A S \in SUBSET (DOMAIN reports) : IsFiniteSet(S) /\ Cardinality(S) \in Nat
<1>1. DOMAIN reports = 1..Len(reports) /\ Len(reports) \in Nat
  BY DEF Rows
<1>2. IsFiniteSet(DOMAIN reports)
  BY <1>1, FS_Interval
<1> QED
  BY <1>2, FS_Subset, FS_CardinalityType

\* A step that keeps whose, about what and how old the rows are.
RowsKept ==
  /\ DOMAIN reports' = DOMAIN reports
  /\ \A i \in DOMAIN reports :
       /\ reports'[i].user = reports[i].user /\ reports'[i].story = reports[i].story
       /\ reports'[i].category = reports[i].category
       /\ reports'[i].at = reports[i].at /\ reports'[i].born = reports[i].born

(* Such a step, within the hour, keeps what holds of rows alone.             *)
LEMMA KeptRows ==
  ASSUME RowsKept, UNCHANGED <<hour, indexed>>, crowded \subseteq crowded'
  PROVE  /\ Unique => Unique'
         /\ RateHolds => RateHolds'
         /\ ReportsApart => ReportsApart'
         /\ \A u : InLastHour(u)' = InLastHour(u)
         /\ \A i \in DOMAIN reports : \A q : Same(i, q)' <=> Same(i, q)
<1>1. \A i \in DOMAIN reports : \A q : Same(i, q)' <=> Same(i, q)
  BY DEF RowsKept, Same
<1>2. ASSUME Unique PROVE Unique'
  BY <1>2 DEF Unique, Same, RowsKept
<1>3. ASSUME NEW u, NEW h PROVE Near(u, h)' = Near(u, h)
  BY DEF Near, RowsKept
<1>4. ASSUME RateHolds PROVE RateHolds'
  <2>1. \A u \in Reporters \ crowded, h \in 0 .. hour : Cardinality(Near(u, h)) <= RateLimit
    BY <1>4 DEF RateHolds, Near
  <2>2. \A u \in Reporters \ crowded', h \in 0 .. hour' : Cardinality(Near(u, h)') <= RateLimit
    BY <1>3, <2>1
  <2> QED
    BY <2>2 DEF RateHolds, Near
<1>5. ASSUME ReportsApart PROVE ReportsApart'
  BY <1>5 DEF ReportsApart, Same, RowsKept
<1>6. \A u : InLastHour(u)' = InLastHour(u)
  BY DEF InLastHour, RowsKept
<1> QED
  BY <1>1, <1>2, <1>4, <1>5, <1>6

\* A step of the submission w only, by which nobody becomes crowded.
Others(w) == \A v \in Handlers : v # w => post'[v] = post[v]

(* After a step of w that keeps the rows: what is left to show about w.      *)
LEMMA KeptSteps ==
  ASSUME ReportInv, NEW w \in Handlers, ~NoPost(w), RowsKept, Others(w), DOMAIN post' = Handlers,
         reports' \in Seq(Report), UNCHANGED <<hour, indexed, crowded>>,
         ~NoPost(w)' => /\ post'[w] \in Post /\ post'[w].user = post[w].user
                        /\ post'[w].story = post[w].story /\ post'[w].category = post[w].category
                        /\ post'[w].type = post[w].type,
         post'[w].step = "update" => post'[w].found \in DOMAIN reports /\ Same(post[w].found, post[w])',
         post'[w].step \in {"find", "update", "insert"} => post[w].step \in {"find", "update", "insert"},
         post'[w].step = "insert" => \A i \in DOMAIN reports :
                                       Same(i, post[w]) => reports[i].at + DedupeHours < hour
  PROVE  ReportInv'
<1>0. /\ Rows /\ Posts /\ Single /\ Unique /\ RateHolds /\ ReportsApart
  BY DEF ReportInv
<1>1. Rows'
  BY <1>0 DEF Rows, RowsKept
<1>2. Unique' /\ RateHolds' /\ ReportsApart'
  BY <1>0, KeptRows
<1>3. /\ \A u : InLastHour(u)' = InLastHour(u)
      /\ \A i \in DOMAIN reports : \A q : Same(i, q)' <=> Same(i, q)
  BY <1>0, KeptRows
<1>4. Posts'
  <2> SUFFICES ASSUME NEW v \in Handlers, ~NoPost(v)'
               PROVE  /\ post'[v] \in Post
                      /\ post'[v].step = "update" => /\ post'[v].found \in DOMAIN reports'
                                                     /\ Same(post[v].found, post[v])'
    BY DEF Posts
  <2>1. CASE v = w
    BY <2>1 DEF RowsKept
  <2>2. CASE v # w
    <3>1. post'[v] = post[v] /\ ~NoPost(v)
      BY <2>2 DEF Others, NoPost
    <3> QED
      BY <1>0, <3>1 DEF Posts, RowsKept, Same
  <2> QED
    BY <2>1, <2>2
<1>5. \A v \in Handlers : ~NoPost(v)' => ~NoPost(v) /\ post'[v].user = post[v].user
  BY DEF Others, NoPost
<1>6. Single'
  <2> SUFFICES ASSUME NEW v \in Handlers, ~NoPost(v)', post'[v].user \notin crowded'
               PROVE  /\ \A x \in Handlers : ~NoPost(x)' /\ post'[x].user = post'[v].user => x = v
                      /\ post'[v].step \in {"find", "update", "insert"}
                           => Cardinality(InLastHour(post[v].user)') < RateLimit
                      /\ post'[v].step = "insert" /\ post'[v].type = "article_report"
                           /\ post'[v].story # NoStory
                           => \A i \in DOMAIN reports' :
                                Same(i, post[v])' => reports'[i].at + DedupeHours < hour'
    BY DEF Single
  <2>0. ~NoPost(v) /\ post[v].user = post'[v].user /\ post[v].user \notin crowded
    BY <1>5
  <2>1. \A x \in Handlers : ~NoPost(x)' /\ post'[x].user = post'[v].user => x = v
    BY <1>0, <1>5, <2>0 DEF Single
  <2>2. ASSUME post'[v].step \in {"find", "update", "insert"}
        PROVE  Cardinality(InLastHour(post[v].user)') < RateLimit
    <3>1. post[v].step \in {"find", "update", "insert"}
      BY <2>2 DEF Others
    <3>2. Cardinality(InLastHour(post[v].user)) < RateLimit
      BY <1>0, <2>0, <3>1 DEF Single
    <3> QED
      BY <1>3, <2>0, <3>2
  <2>3. ASSUME post'[v].step = "insert", post'[v].type = "article_report", post'[v].story # NoStory,
               NEW i \in DOMAIN reports', Same(i, post[v])'
        PROVE  reports'[i].at + DedupeHours < hour'
    <3>1. i \in DOMAIN reports /\ Same(i, post'[v]) /\ reports'[i].at = reports[i].at
      BY <2>3 DEF RowsKept, Same
    <3>2. CASE v = w
      <4>1. Same(i, post[w])
        BY <3>1, <3>2 DEF Same
      <4> QED
        BY <2>3, <3>1, <3>2, <4>1
    <3>3. CASE v # w
      <4>1. post'[v] = post[v]
        BY <3>3 DEF Others
      <4>2. \A k \in DOMAIN reports : Same(k, post[v]) => reports[k].at + DedupeHours < hour
        BY <1>0, <2>0, <2>3, <4>1 DEF Single
      <4> QED
        BY <3>1, <4>1, <4>2
    <3> QED
      BY <3>2, <3>3
  <2> QED
    BY <2>1, <2>2, <2>3
<1> QED
  BY <1>1, <1>2, <1>4, <1>6 DEF ReportInv

(* The look-up of a report.                                                  *)
LEMMA FindInv ==
  ASSUME ReportInv, NEW w \in Handlers, FindReport(w)
  PROVE  ReportInv'
<1>1. /\ ~NoPost(w) /\ post[w].step = "find" /\ post[w] \in Post /\ reports \in Seq(Report)
      /\ DOMAIN post = Handlers
      /\ UNCHANGED <<hour, indexed, reports, posted, failed, crowded>>
  BY DEF FindReport, NoPost, ReportInv, Posts, Rows
<1>2. RowsKept
  BY <1>1 DEF RowsKept
<1>3. CASE post' = [post EXCEPT ![w].step = "insert"]
           /\ \A i \in DOMAIN reports : Same(i, post[w]) => ~(reports[i].at + DedupeHours >= hour)
  <2>1. /\ post'[w] = [post[w] EXCEPT !.step = "insert"] /\ Others(w) /\ DOMAIN post' = Handlers
    BY <1>1, <1>3 DEF Others
  <2>2. /\ post'[w] \in Post /\ post'[w].user = post[w].user
        /\ post'[w].story = post[w].story /\ post'[w].category = post[w].category
        /\ post'[w].type = post[w].type /\ post'[w].step = "insert"
    BY <1>1, <2>1 DEF Post
  <2>3. \A i \in DOMAIN reports : Same(i, post[w]) => reports[i].at + DedupeHours < hour
    <3>1. \A i \in DOMAIN reports : reports[i].at \in Nat
      <4>1. \A i \in DOMAIN reports : reports[i] \in Report
        BY <1>1
      <4> QED
        BY <4>1 DEF Report
    <3>2. hour \in Nat /\ DedupeHours \in Nat
      BY FeedbackAssumption DEF ReportInv, Rows
    <3> QED
      BY <1>3, <3>1, <3>2
  <2> QED
    BY <1>1, <1>2, <2>1, <2>2, <2>3, KeptSteps
<1>4. ASSUME NEW i \in DOMAIN reports, Same(i, post[w]),
             post' = [post EXCEPT ![w].step = "update", ![w].found = i]
      PROVE  ReportInv'
  <2>1. /\ post'[w] = [post[w] EXCEPT !.step = "update", !.found = i] /\ Others(w)
        /\ DOMAIN post' = Handlers
    BY <1>1, <1>4 DEF Others
  <2>2. /\ post'[w].user = post[w].user /\ i \in Nat
        /\ post'[w].story = post[w].story /\ post'[w].category = post[w].category
        /\ post'[w].type = post[w].type /\ post'[w].step = "update" /\ post'[w].found = i
    BY <1>1, <2>1 DEF Post
  <2>3. post'[w] \in Post
    BY <1>1, <2>1, <2>2 DEF Post
  <2>4. Same(post[w].found, post[w])'
    BY <1>1, <1>4, <2>2 DEF Same
  <2> QED
    BY <1>1, <1>2, <2>1, <2>2, <2>3, <2>4, KeptSteps
<1> QED
  BY <1>3, <1>4 DEF FindReport

(* The row that was found is rewritten.                                      *)
LEMMA RenewInv ==
  ASSUME ReportInv, NEW w \in Handlers, Renew(w)
  PROVE  ReportInv'
<1> DEFINE f == post[w].found
           row == Pending(post[w], reports[f].at, reports[f].born)
<1>1. /\ ~NoPost(w) /\ post[w].step = "update" /\ post[w] \in Post /\ reports \in Seq(Report)
      /\ DOMAIN post = Handlers /\ f \in DOMAIN reports /\ Same(f, post[w])
      /\ UNCHANGED <<hour, indexed, posted, failed, crowded>>
      /\ reports' = [reports EXCEPT ![f] = row] /\ post' = [post EXCEPT ![w].step = "notify"]
  BY DEF Renew, NoPost, ReportInv, Posts, Rows
<1>2. row \in Report
  <2>1. reports[f] \in Report
    BY <1>1
  <2>2. reports[f].at \in Nat /\ reports[f].born \in Types
    BY <2>1 DEF Report
  <2>3. /\ post[w].user \in Reporters /\ post[w].story \in Stories \union {NoStory}
        /\ post[w].category \in Categories /\ post[w].type \in Types
    BY <1>1 DEF Post
  <2> QED
    BY <2>2, <2>3 DEF Pending, Report, Statuses
<1>3. /\ reports' \in Seq(Report) /\ DOMAIN reports' = DOMAIN reports
      /\ \A i \in DOMAIN reports : reports'[i] = IF i = f THEN row ELSE reports[i]
  BY <1>1, <1>2
<1>4. /\ row.user = reports[f].user /\ row.story = reports[f].story
      /\ row.category = reports[f].category /\ row.at = reports[f].at /\ row.born = reports[f].born
  BY <1>1 DEF Pending, Same
<1> HIDE DEF row
<1>5. RowsKept
  BY <1>3, <1>4 DEF RowsKept
<1>6. /\ post'[w] = [post[w] EXCEPT !.step = "notify"] /\ Others(w) /\ DOMAIN post' = Handlers
  BY <1>1 DEF Others
<1>7. /\ post'[w] \in Post /\ post'[w].user = post[w].user
      /\ post'[w].story = post[w].story /\ post'[w].category = post[w].category
      /\ post'[w].type = post[w].type /\ post'[w].step = "notify"
  BY <1>1, <1>6 DEF Post
<1> QED
  BY <1>1, <1>3, <1>5, <1>6, <1>7, KeptSteps

(* The administrators are told, and the submission ends.                     *)
LEMMA AnnounceInv ==
  ASSUME ReportInv, NEW w \in Handlers,
         /\ ~NoPost(w) /\ post' = EndPost(w) /\ UNCHANGED <<hour, indexed, reports, crowded>>
  PROVE  ReportInv'
<1>1. reports \in Seq(Report) /\ DOMAIN post = Handlers
  BY DEF ReportInv, Rows
<1>2. RowsKept
  BY <1>1 DEF RowsKept
<1>3. post'[w] = PostIdle /\ Others(w) /\ DOMAIN post' = Handlers
  BY <1>1 DEF EndPost, Others
<1>4. post'[w].step = "idle" /\ NoPost(w)'
  BY <1>3 DEF PostIdle, NoPost
<1> QED
  BY <1>1, <1>2, <1>3, <1>4, KeptSteps

(* A review changes the verdict on a row only.                               *)
LEMMA ReviewInv ==
  ASSUME ReportInv, Review
  PROVE  ReportInv'
<1>1. PICK i \in DOMAIN reports, s \in Statuses :
        reports' = [reports EXCEPT ![i].status = s, ![i].judged = TRUE]
  BY DEF Review
<1>2. reports \in Seq(Report) /\ UNCHANGED <<hour, indexed, post, crowded>>
  BY DEF ReportInv, Rows, Review
<1> DEFINE row == [reports[i] EXCEPT !.status = s, !.judged = TRUE]
<1>3. reports[i] \in Report
  BY <1>2
<1>4. /\ row \in Report
      /\ row.user = reports[i].user /\ row.story = reports[i].story
      /\ row.category = reports[i].category /\ row.at = reports[i].at /\ row.born = reports[i].born
  BY <1>3 DEF Report
<1>5. reports' = [reports EXCEPT ![i] = row]
  BY <1>1, <1>2
<1> HIDE DEF row
<1>6. /\ reports' \in Seq(Report) /\ DOMAIN reports' = DOMAIN reports
      /\ \A k \in DOMAIN reports : reports'[k] = IF k = i THEN row ELSE reports[k]
  BY <1>2, <1>4, <1>5
<1>7. RowsKept
  BY <1>4, <1>6 DEF RowsKept
<1>8. Rows'
  BY <1>2, <1>6, <1>7 DEF ReportInv, Rows, RowsKept
<1>9. Unique' /\ RateHolds' /\ ReportsApart'
  BY <1>2, <1>7, KeptRows DEF ReportInv
<1>10. Posts'
  BY <1>2, <1>7 DEF ReportInv, Posts, RowsKept, Same, NoPost
<1>11. Single'
  <2>1. /\ \A u : InLastHour(u)' = InLastHour(u)
        /\ \A k \in DOMAIN reports : \A q : Same(k, q)' <=> Same(k, q)
    BY <1>2, <1>7, KeptRows
  <2>2. Single
    BY DEF ReportInv
  <2>3. \A v \in Handlers : /\ Cardinality(InLastHour(post[v].user)') = Cardinality(InLastHour(post[v].user))
                            /\ \A k \in DOMAIN reports : Same(k, post[v])' <=> Same(k, post[v])
    BY <1>2, <2>1
  <2> QED
    BY <1>2, <1>7, <2>2, <2>3 DEF Single, RowsKept, NoPost
<1> QED
  BY <1>8, <1>9, <1>10, <1>11 DEF ReportInv

(* A row is inserted, or refused by the index.                               *)
LEMMA InsertInv ==
  ASSUME ReportInv, NEW w \in Handlers, InsertReport(w)
  PROVE  ReportInv'
<1> DEFINE q == post[w]
           taken == indexed /\ \E i \in DOMAIN reports : Same(i, q)
           row == Pending(q, hour, q.type)
           n == Len(reports) + 1
<1>0. /\ Rows /\ Posts /\ Single /\ Unique /\ RateHolds /\ ReportsApart
  BY DEF ReportInv
<1>1. /\ ~NoPost(w) /\ q.step = "insert" /\ q \in Post /\ reports \in Seq(Report)
      /\ DOMAIN post = Handlers /\ UNCHANGED <<hour, indexed, crowded>>
  BY DEF InsertReport, NoPost, ReportInv, Posts, Rows
<1>2. CASE taken
  BY <1>1, <1>2, AnnounceInv DEF InsertReport
<1>3. CASE ~taken
  <2>1. reports' = Append(reports, row) /\ post' = [post EXCEPT ![w].step = "notify"]
    BY <1>3 DEF InsertReport
  <2>2. row \in Report
    <3>1. /\ q.user \in Reporters /\ q.story \in Stories \union {NoStory}
          /\ q.category \in Categories /\ q.type \in Types /\ hour \in Nat
      BY <1>1 DEF Post, ReportInv, Rows
    <3> QED
      BY <3>1 DEF Pending, Report, Statuses
  <2>3. /\ row.user = q.user /\ row.story = q.story /\ row.category = q.category
        /\ row.at = hour /\ row.born = q.type
    BY DEF Pending
  <2> HIDE DEF row
  <2>4. /\ reports' \in Seq(Report) /\ n \in Nat /\ n \notin DOMAIN reports
        /\ DOMAIN reports' = DOMAIN reports \cup {n} /\ DOMAIN reports = 1..(n - 1)
        /\ reports'[n] = row /\ \A i \in DOMAIN reports : reports'[i] = reports[i] /\ i < n
    BY <1>1, <2>1, <2>2
  <2>5. /\ post'[w] = [q EXCEPT !.step = "notify"] /\ DOMAIN post' = Handlers
        /\ \A v \in Handlers : v # w => post'[v] = post[v]
    BY <1>1, <2>1
  <2>6. post'[w] \in Post /\ post'[w].user = q.user /\ post'[w].step = "notify"
    BY <1>1, <2>5 DEF Post
  <2> HIDE DEF n
  <2>7. Rows'
    BY <1>0, <1>1, <2>3, <2>4, <2>5 DEF Rows
  <2>8. Posts'
    <3> SUFFICES ASSUME NEW v \in Handlers, ~NoPost(v)'
                 PROVE  /\ post'[v] \in Post
                        /\ post'[v].step = "update" => /\ post'[v].found \in DOMAIN reports'
                                                       /\ Same(post[v].found, post[v])'
      BY DEF Posts
    <3>1. CASE v = w
      BY <2>6, <3>1
    <3>2. CASE v # w
      <4>1. post'[v] = post[v] /\ ~NoPost(v)
        BY <2>5, <3>2 DEF NoPost
      <4> QED
        BY <1>0, <2>4, <4>1 DEF Posts, Same
    <3> QED
      BY <3>1, <3>2
  <2>9. Unique'
    <3> SUFFICES ASSUME indexed, NEW i \in DOMAIN reports', NEW j \in DOMAIN reports',
                        Same(i, reports[j])'
                 PROVE  i = j
      BY <1>1 DEF Unique
    <3>1. \A k \in DOMAIN reports : ~Same(k, q)
      BY <1>3
    <3>2. CASE i \in DOMAIN reports /\ j \in DOMAIN reports
      BY <1>0, <2>4, <3>2 DEF Unique, Same
    <3>3. CASE i = n /\ j \in DOMAIN reports
      BY <2>3, <2>4, <3>1, <3>3 DEF Same
    <3>4. CASE i \in DOMAIN reports /\ j = n
      BY <2>3, <2>4, <3>1, <3>4 DEF Same
    <3> QED
      BY <2>4, <3>2, <3>3, <3>4
  <2>10. RateHolds'
    <3> SUFFICES ASSUME NEW u \in Reporters \ crowded, NEW h \in 0 .. hour
                 PROVE  Cardinality(Near(u, h)') <= RateLimit
      BY <1>1 DEF RateHolds, Near
    <3>0. Near(u, h) \in SUBSET (DOMAIN reports) /\ InLastHour(u) \in SUBSET (DOMAIN reports)
      BY DEF Near, InLastHour
    <3>1. Near(u, h)' = Near(u, h) \cup (IF u = q.user /\ hour \in h .. h + 1 THEN {n} ELSE {})
      BY <2>3, <2>4 DEF Near
    <3>2. Cardinality(Near(u, h)) <= RateLimit
      BY <1>0 DEF RateHolds, Near
    <3>3. CASE ~(u = q.user /\ hour \in h .. h + 1)
      <4>1. Near(u, h)' = Near(u, h)
        BY <3>1, <3>3
      <4> QED
        BY <3>2, <4>1
    <3>4. CASE u = q.user /\ hour \in h .. h + 1
      <4>1. Cardinality(InLastHour(u)) < RateLimit
        BY <1>0, <1>1, <3>4 DEF Single
      <4>2. \A i \in DOMAIN reports : reports[i].at \in Nat
        <5>1. \A i \in DOMAIN reports : reports[i] \in Report
          BY <1>1
        <5> QED
          BY <5>1 DEF Report
      <4>3. Near(u, h) \in SUBSET InLastHour(u)
        BY <1>0, <3>4, <4>2 DEF Near, InLastHour, Rows
      <4>4. /\ IsFiniteSet(InLastHour(u)) /\ IsFiniteSet(Near(u, h))
            /\ Cardinality(Near(u, h)) \in Nat /\ Cardinality(InLastHour(u)) \in Nat
        BY <1>0, <3>0, RowsFinite
      <4>5. Cardinality(Near(u, h)) <= Cardinality(InLastHour(u))
        BY <4>3, <4>4, FS_Subset
      <4>6. Near(u, h)' = Near(u, h) \cup {n} /\ n \notin Near(u, h)
        BY <2>4, <3>0, <3>1, <3>4
      <4>7. Cardinality(Near(u, h) \cup {n}) = Cardinality(Near(u, h)) + 1
        BY <4>4, <4>6, FS_AddElement
      <4>8. RateLimit \in Nat
        BY FeedbackAssumption
      <4> QED
        BY <4>1, <4>4, <4>5, <4>6, <4>7, <4>8
    <3> QED
      BY <3>3, <3>4
  <2>11. ReportsApart'
    <3> SUFFICES ASSUME NEW i \in DOMAIN reports', NEW j \in DOMAIN reports', i < j,
                        Same(i, reports[j])', reports'[j].born = "article_report",
                        reports'[j].story # NoStory
                 PROVE  /\ ~indexed
                        /\ reports'[j].user \in crowded \/ reports'[j].at > reports'[i].at + DedupeHours
      BY <1>1 DEF ReportsApart
    <3>1. CASE j \in DOMAIN reports
      <4>1. i \in DOMAIN reports /\ reports'[i] = reports[i] /\ reports'[j] = reports[j]
        BY <2>4, <3>1
      <4>2. Same(i, reports[j])
        BY <4>1 DEF Same
      <4> QED
        BY <1>0, <3>1, <4>1, <4>2 DEF ReportsApart
    <3>2. CASE j = n
      <4>1. i \in DOMAIN reports /\ reports'[i] = reports[i] /\ reports'[j] = row
        BY <2>4, <3>2
      <4>2. Same(i, q)
        BY <2>3, <4>1 DEF Same
      <4>3. q.type = "article_report" /\ q.story # NoStory
        BY <2>3, <4>1
      <4>4. q.user \in crowded \/ reports[i].at + DedupeHours < hour
        BY <1>0, <1>1, <4>1, <4>2, <4>3 DEF Single
      <4>5. ~indexed
        BY <1>3, <4>1, <4>2
      <4>6. q.user \in crowded \/ hour > reports[i].at + DedupeHours
        BY <4>4
      <4> QED
        BY <2>3, <4>1, <4>5, <4>6
    <3> QED
      BY <2>4, <3>1, <3>2
  <2>12. Single'
    <3> SUFFICES ASSUME NEW v \in Handlers, ~NoPost(v)', post'[v].user \notin crowded
                 PROVE  /\ \A x \in Handlers : ~NoPost(x)' /\ post'[x].user = post'[v].user => x = v
                        /\ post'[v].step \in {"find", "update", "insert"}
                             => Cardinality(InLastHour(post[v].user)') < RateLimit
                        /\ post'[v].step = "insert" /\ post'[v].type = "article_report"
                             /\ post'[v].story # NoStory
                             => \A i \in DOMAIN reports' :
                                  Same(i, post[v])' => reports'[i].at + DedupeHours < hour'
      BY <1>1 DEF Single
    <3>1. \A x \in Handlers : ~NoPost(x)' => ~NoPost(x) /\ post'[x].user = post[x].user
      BY <1>1, <2>5, <2>6 DEF NoPost
    <3>2. \A x \in Handlers : ~NoPost(x)' /\ post'[x].user = post'[v].user => x = v
      BY <1>0, <3>1 DEF Single
    <3>3. CASE v = w
      BY <2>6, <3>2, <3>3
    <3>4. CASE v # w
      <4>1. post'[v] = post[v] /\ ~NoPost(v) /\ post[v].user # q.user
        BY <1>0, <1>1, <2>5, <3>1, <3>4 DEF Single
      <4>2. InLastHour(post[v].user)' = InLastHour(post[v].user)
        BY <1>1, <2>3, <2>4, <4>1 DEF InLastHour
      <4>3. \A i \in DOMAIN reports' : Same(i, post[v])' => i \in DOMAIN reports /\ Same(i, post[v])
        BY <2>3, <2>4, <4>1 DEF Same
      <4> QED
        BY <1>0, <1>1, <2>4, <3>2, <4>1, <4>2, <4>3 DEF Single
    <3> QED
      BY <3>3, <3>4
  <2> QED
    BY <2>7, <2>8, <2>9, <2>10, <2>11, <2>12 DEF ReportInv
<1> QED
  BY <1>2, <1>3

(* A submission begins: its user has room, and who is busy becomes crowded.  *)
LEMMA SubmissionInv ==
  ASSUME ReportInv, NEW w \in Handlers, Submission(w)
  PROVE  ReportInv'
<1>0. /\ Rows /\ Posts /\ Single /\ Unique /\ RateHolds /\ ReportsApart
  BY DEF ReportInv
<1>1. PICK u \in Reporters, s \in Stories \union {NoStory},
           c \in Categories, type \in Types \union {"unknown"} :
        LET t == Typed(type, s) IN
        /\ Cardinality(InLastHour(u)) < RateLimit
        /\ crowded' = IF \E v \in Handlers : ~NoPost(v) /\ post[v].user = u
                      THEN crowded \union {u} ELSE crowded
        /\ post' = [post EXCEPT ![w] =
             [step |-> IF s # NoStory /\ t = "article_report" THEN "find" ELSE "insert",
              user |-> u, story |-> s, category |-> c, type |-> t, found |-> 0]]
  BY DEF Submission
<1> DEFINE t == Typed(type, s)
           p == [step |-> IF s # NoStory /\ t = "article_report" THEN "find" ELSE "insert",
                 user |-> u, story |-> s, category |-> c, type |-> t, found |-> 0]
<1>2. NoPost(w) /\ UNCHANGED <<hour, indexed, reports>> /\ DOMAIN post = Handlers
      /\ reports \in Seq(Report)
  BY <1>0 DEF Submission, Rows
<1>3. t \in Types
  BY DEF Typed, Types
<1>4. /\ p \in Post /\ p.user = u /\ p.step # "idle" /\ p.step # "update"
      /\ (p.step = "insert" => p.type # "article_report" \/ p.story = NoStory)
  <2> HIDE DEF t
  <2> QED
    BY <1>3 DEF Post
<1>5. /\ post'[w] = p /\ DOMAIN post' = Handlers
      /\ \A v \in Handlers : v # w => post'[v] = post[v]
  BY <1>1, <1>2
<1> HIDE DEF p
<1>6. Rows'
  BY <1>0, <1>1, <1>2, <1>5 DEF Rows
<1>7. RowsKept /\ crowded \subseteq crowded'
  BY <1>1, <1>2 DEF RowsKept
<1>8. Unique' /\ RateHolds' /\ ReportsApart'
  BY <1>0, <1>2, <1>7, KeptRows
<1>9. Posts'
  <2> SUFFICES ASSUME NEW v \in Handlers, ~NoPost(v)'
               PROVE  /\ post'[v] \in Post
                      /\ post'[v].step = "update" => /\ post'[v].found \in DOMAIN reports'
                                                     /\ Same(post[v].found, post[v])'
    BY DEF Posts
  <2>1. CASE v = w
    BY <1>4, <1>5, <2>1
  <2>2. CASE v # w
    <3>1. post'[v] = post[v] /\ ~NoPost(v)
      BY <1>5, <2>2 DEF NoPost
    <3> QED
      BY <1>0, <1>2, <3>1 DEF Posts, Same
  <2> QED
    BY <2>1, <2>2
<1>10. Single'
  <2> SUFFICES ASSUME NEW v \in Handlers, ~NoPost(v)', post'[v].user \notin crowded'
               PROVE  /\ \A x \in Handlers : ~NoPost(x)' /\ post'[x].user = post'[v].user => x = v
                      /\ post'[v].step \in {"find", "update", "insert"}
                           => Cardinality(InLastHour(post[v].user)') < RateLimit
                      /\ post'[v].step = "insert" /\ post'[v].type = "article_report"
                           /\ post'[v].story # NoStory
                           => \A i \in DOMAIN reports' :
                                Same(i, post[v])' => reports'[i].at + DedupeHours < hour'
    BY DEF Single
  <2>1. CASE v = w
    <3>1. \A x \in Handlers : ~NoPost(x) => post[x].user # u
      <4>1. u \notin crowded'
        BY <1>4, <1>5, <2>1
      <4> QED
        BY <1>1, <4>1
    <3>2. \A x \in Handlers : ~NoPost(x)' /\ post'[x].user = u => x = w
      BY <1>5, <3>1 DEF NoPost
    <3>3. InLastHour(post[v].user)' = InLastHour(u)
      BY <1>2, <1>4, <1>5, <2>1 DEF InLastHour
    <3> QED
      BY <1>1, <1>4, <1>5, <2>1, <3>2, <3>3
  <2>2. CASE v # w
    <3>1. post'[v] = post[v] /\ ~NoPost(v) /\ post[v].user \notin crowded
      BY <1>5, <1>7, <2>2 DEF NoPost
    <3>2. post[v].user # u
      BY <1>1, <3>1
    <3>3. \A x \in Handlers : ~NoPost(x)' /\ post'[x].user = post'[v].user => x = v
      BY <1>0, <1>4, <1>5, <3>1, <3>2 DEF Single, NoPost
    <3>4. InLastHour(post[v].user)' = InLastHour(post[v].user)
      BY <1>2, <3>1 DEF InLastHour
    <3>5. \A i \in DOMAIN reports : Same(i, post[v])' <=> Same(i, post[v])
      BY <1>2, <3>1 DEF Same
    <3> QED
      BY <1>0, <1>2, <3>1, <3>3, <3>4, <3>5 DEF Single
  <2> QED
    BY <2>1, <2>2
<1> QED
  BY <1>6, <1>8, <1>9, <1>10 DEF ReportInv

(* An hour passes: there are no rows of it yet, and fewer of the last one.   *)
LEMMA HourInv ==
  ASSUME ReportInv, HourPasses
  PROVE  ReportInv'
<1>0. /\ Rows /\ Posts /\ Single /\ Unique /\ RateHolds /\ ReportsApart
  BY DEF ReportInv
<1>1. hour' = hour + 1 /\ UNCHANGED <<indexed, reports, post, crowded>> /\ hour \in Nat
  BY <1>0 DEF HourPasses, Rows
<1>2. \A i \in DOMAIN reports : reports[i].at \in Nat /\ reports[i].at <= hour
  <2>1. \A i \in DOMAIN reports : reports[i] \in Report
    BY <1>0 DEF Rows
  <2> QED
    BY <1>0, <2>1 DEF Report, Rows
<1>3. Rows'
  BY <1>0, <1>1, <1>2 DEF Rows
<1>4. Posts' /\ Unique' /\ ReportsApart'
  BY <1>0, <1>1 DEF Posts, Unique, ReportsApart, Same, NoPost
<1>5. RateHolds'
  <2> SUFFICES ASSUME NEW u \in Reporters \ crowded, NEW h \in 0 .. hour + 1
               PROVE  Cardinality(Near(u, h)) <= RateLimit
    BY <1>1 DEF RateHolds, Near
  <2>1. CASE h \in 0 .. hour
    BY <1>0, <2>1 DEF RateHolds, Near
  <2>2. CASE h = hour + 1
    <3>1. Near(u, h) = {}
      BY <1>1, <1>2, <2>2 DEF Near
    <3>2. Cardinality(Near(u, h)) = 0
      BY <3>1, FS_EmptySet
    <3> QED
      BY <3>2, FeedbackAssumption
  <2> QED
    BY <1>1, <2>1, <2>2
<1>6. Single'
  <2> SUFFICES ASSUME NEW v \in Handlers, ~NoPost(v), post[v].user \notin crowded
               PROVE  /\ \A x \in Handlers : ~NoPost(x) /\ post[x].user = post[v].user => x = v
                      /\ post[v].step \in {"find", "update", "insert"}
                           => Cardinality(InLastHour(post[v].user)') < RateLimit
                      /\ post[v].step = "insert" /\ post[v].type = "article_report"
                           /\ post[v].story # NoStory
                           => \A i \in DOMAIN reports :
                                Same(i, post[v]) => reports[i].at + DedupeHours < hour + 1
    BY <1>1 DEF Single, NoPost, Same
  <2>1. /\ \A x \in Handlers : ~NoPost(x) /\ post[x].user = post[v].user => x = v
        /\ post[v].step \in {"find", "update", "insert"}
             => Cardinality(InLastHour(post[v].user)) < RateLimit
        /\ post[v].step = "insert" /\ post[v].type = "article_report" /\ post[v].story # NoStory
             => \A i \in DOMAIN reports : Same(i, post[v]) => reports[i].at + DedupeHours < hour
    BY <1>0 DEF Single
  <2>2. Cardinality(InLastHour(post[v].user)') <= Cardinality(InLastHour(post[v].user))
    <3> DEFINE A == InLastHour(post[v].user)  B == InLastHour(post[v].user)'
    <3>1. B \in SUBSET A /\ A \in SUBSET (DOMAIN reports)
      BY <1>1, <1>2 DEF InLastHour
    <3>2. IsFiniteSet(A)
      BY <1>0, <3>1, RowsFinite
    <3> HIDE DEF A, B
    <3>3. Cardinality(B) <= Cardinality(A)
      BY <3>1, <3>2, FS_Subset
    <3> QED
      BY <3>3 DEF A, B
  <2>3. Cardinality(InLastHour(post[v].user)) \in Nat /\ Cardinality(InLastHour(post[v].user)') \in Nat
    <3>1. InLastHour(post[v].user) \in SUBSET (DOMAIN reports)
      BY DEF InLastHour
    <3>2. InLastHour(post[v].user)' \in SUBSET (DOMAIN reports)
      BY <1>1 DEF InLastHour
    <3> QED
      BY <1>0, <3>1, <3>2, RowsFinite
  <2>4. \A i \in DOMAIN reports : reports[i].at + DedupeHours < hour
                                     => reports[i].at + DedupeHours < hour + 1
    BY <1>1, <1>2, FeedbackAssumption
  <2>5. RateLimit \in Nat
    BY FeedbackAssumption
  <2> QED
    BY <2>1, <2>2, <2>3, <2>4, <2>5
<1> QED
  BY <1>3, <1>4, <1>5, <1>6 DEF ReportInv

(* The invariant of the reports holds at first and is kept by every step.    *)
LEMMA ReportAlways == FeedbackSpec => []ReportInv
<1>1. ASSUME FeedbackInit PROVE ReportInv
  <2>1. /\ hour = 0 /\ indexed \in BOOLEAN /\ reports = <<>> /\ crowded = {}
        /\ \A w \in Handlers : NoPost(w)
        /\ DOMAIN post = Handlers
    BY <1>1 DEF FeedbackInit, NoPost, PostIdle
  <2>2. DOMAIN reports = {}
    BY <2>1
  <2>3. \A u, h : Near(u, h) = {}
    BY <2>2 DEF Near
  <2>4. RateHolds
    <3>1. \A u, h : Cardinality(Near(u, h)) <= RateLimit
      BY <2>3, FS_EmptySet, FeedbackAssumption
    <3> QED
      BY <3>1 DEF RateHolds, Near
  <2> QED
    BY <2>1, <2>2, <2>4 DEF ReportInv, Rows, Posts, Single, Unique, ReportsApart
<1>2. ASSUME ReportInv, [FeedbackNext]_feedbackVars PROVE ReportInv'
  <2>1. CASE UNCHANGED feedbackVars
    <3>1. UNCHANGED <<hour, indexed, reports, post, crowded>>
      BY <2>1 DEF feedbackVars
    <3>2. (Rows /\ Posts /\ Single)' <=> Rows /\ Posts /\ Single
      BY <3>1 DEF Rows, Posts, Single, NoPost, Same, InLastHour
    <3>3. (Unique /\ RateHolds /\ ReportsApart)' <=> Unique /\ RateHolds /\ ReportsApart
      BY <3>1 DEF Unique, RateHolds, ReportsApart, Same
    <3> QED
      BY <1>2, <3>2, <3>3 DEF ReportInv
  <2>2. ASSUME NEW w \in Handlers, Announce(w) PROVE ReportInv'
    BY <1>2, <2>2, AnnounceInv DEF Announce, NoPost
  <2> QED
    BY <1>2, <2>1, <2>2, SubmissionInv, FindInv, RenewInv, InsertInv, ReviewInv, HourInv
       DEF FeedbackNext
<1> QED
  BY <1>1, <1>2, PTL DEF FeedbackSpec

(* Every row stays, with its matter and its age.                             *)
LEMMA RowsStay ==
  ASSUME ReportInv, [FeedbackNext]_feedbackVars
  PROVE  \A i \in DOMAIN reports :
           /\ i \in DOMAIN reports'
           /\ reports'[i].user = reports[i].user /\ reports'[i].story = reports[i].story
           /\ reports'[i].category = reports[i].category /\ reports'[i].at = reports[i].at
<1>0. reports \in Seq(Report)
  BY DEF ReportInv, Rows
<1>1. ASSUME NEW w \in Handlers, Renew(w), NEW i \in DOMAIN reports
      PROVE  /\ i \in DOMAIN reports'
             /\ reports'[i].user = reports[i].user /\ reports'[i].story = reports[i].story
             /\ reports'[i].category = reports[i].category /\ reports'[i].at = reports[i].at
  <2> DEFINE f == post[w].found
  <2>1. f \in DOMAIN reports /\ Same(f, post[w])
    BY <1>1 DEF Renew, NoPost, ReportInv, Posts
  <2>2. reports' = [reports EXCEPT ![f] = Pending(post[w], reports[f].at, reports[f].born)]
    BY <1>1 DEF Renew
  <2> QED
    BY <1>0, <2>1, <2>2 DEF Pending, Same
<1>2. ASSUME NEW w \in Handlers, InsertReport(w), NEW i \in DOMAIN reports
      PROVE  i \in DOMAIN reports' /\ reports'[i] = reports[i]
  <2> DEFINE row == Pending(post[w], hour, post[w].type)
  <2>1. reports' = reports \/ reports' = Append(reports, row)
    BY <1>2 DEF InsertReport
  <2> HIDE DEF row
  <2>2. i \in DOMAIN Append(reports, row) /\ Append(reports, row)[i] = reports[i]
    BY <1>0
  <2> QED
    BY <2>1, <2>2
<1>3. ASSUME Review, NEW i \in DOMAIN reports
      PROVE  /\ i \in DOMAIN reports'
             /\ reports'[i].user = reports[i].user /\ reports'[i].story = reports[i].story
             /\ reports'[i].category = reports[i].category /\ reports'[i].at = reports[i].at
  <2>1. PICK k \in DOMAIN reports, s \in Statuses :
          reports' = [reports EXCEPT ![k].status = s, ![k].judged = TRUE]
    BY <1>3 DEF Review
  <2>2. reports[i] \in Report /\ reports[k] \in Report
    BY <1>0
  <2> QED
    BY <1>0, <2>1, <2>2 DEF Report
<1>4. ASSUME NEW w \in Handlers, Submission(w) \/ FindReport(w) \/ Announce(w)
      PROVE  reports' = reports
  BY <1>4 DEF Submission, FindReport, Announce
<1>5. HourPasses \/ UNCHANGED feedbackVars => reports' = reports
  BY DEF HourPasses, feedbackVars
<1> QED
  BY <1>1, <1>2, <1>3, <1>4, <1>5 DEF FeedbackNext

(* What is refused was no report, or its user had two under way, or the row  *)
(* in its way is too old to be found.                                        *)
LEMMA RefusalsKept ==
  ASSUME ReportInv, RefusedOnlyLate, [FeedbackNext]_feedbackVars
  PROVE  RefusedOnlyLate'
<1> DEFINE Late(q) == \E i \in DOMAIN reports : Same(i, q) /\ reports[i].at + DedupeHours < q.found
           Fine(q) == /\ indexed
                      /\ \/ q.type # "article_report" \/ q.story = NoStory
                         \/ q.user \in crowded
                         \/ Late(q)
<1>1. indexed' = indexed /\ crowded \subseteq crowded'
  BY DEF FeedbackNext, feedbackVars, Submission, FindReport, Renew, InsertReport, Announce, Review,
     HourPasses
<1>2. ASSUME NEW q, Fine(q) PROVE Fine(q)'
  BY <1>1, <1>2, RowsStay DEF Same
<1>3. ASSUME NEW w \in Handlers, InsertReport(w), failed' # failed
      PROVE  \A q \in failed' \ failed : Fine(q)
  <2> DEFINE p == post[w]
  <2>1. /\ p.step = "insert" /\ ~NoPost(w) /\ p \in Post
        /\ indexed /\ \E i \in DOMAIN reports : Same(i, p)
        /\ failed' = failed \union {[p EXCEPT !.found = hour]}
    BY <1>3 DEF InsertReport, NoPost, ReportInv, Posts
  <2>2. PICK i \in DOMAIN reports : Same(i, p)
    BY <2>1
  <2>3. \/ p.type # "article_report" \/ p.story = NoStory \/ p.user \in crowded
        \/ reports[i].at + DedupeHours < hour
    BY <2>1, <2>2 DEF ReportInv, Single
  <2> DEFINE q == [p EXCEPT !.found = hour]
  <2>4. /\ q.type = p.type /\ q.story = p.story /\ q.user = p.user /\ q.category = p.category
        /\ q.found = hour
    BY <2>1 DEF Post
  <2> HIDE DEF q
  <2>5. Same(i, q)
    BY <2>2, <2>4 DEF Same
  <2>6. Fine(q)
    BY <2>1, <2>3, <2>4, <2>5
  <2> QED
    BY <2>1, <2>6 DEF q
<1>4. failed' = failed \/ \E w \in Handlers : InsertReport(w)
  BY DEF FeedbackNext, feedbackVars, Submission, FindReport, Renew, Announce, Review, HourPasses
<1>5. \A q \in failed' \ failed : Fine(q)
  BY <1>3, <1>4
<1>6. \A q \in failed : Fine(q)
  BY DEF RefusedOnlyLate
<1>7. \A q \in failed' : Fine(q)
  BY <1>5, <1>6
<1> HIDE DEF Fine
<1>8. \A q \in failed' : Fine(q)'
  BY <1>2, <1>7
<1> QED
  BY <1>8 DEF RefusedOnlyLate, Fine

(* Every submission is one of its kind.                                      *)
LEMMA PostsTyped ==
  ASSUME FeedbackTypeOK, [FeedbackNext]_feedbackVars
  PROVE  /\ post' \in [Handlers -> Post] /\ failed' \subseteq Post
         /\ posted' \in [posts : Nat, reviews : Nat]
<1>0. /\ post \in [Handlers -> Post] /\ failed \subseteq Post /\ hour \in Nat
      /\ posted \in [posts : Nat, reviews : Nat] /\ reports \in Seq(Report)
  BY DEF FeedbackTypeOK
<1>1. PostIdle \in Post
  BY FeedbackAssumption DEF PostIdle, Post, Types
<1>2. ASSUME NEW w \in Handlers, NEW p \in Post PROVE [post EXCEPT ![w] = p] \in [Handlers -> Post]
  BY <1>0
<1>3. ASSUME NEW w \in Handlers, Submission(w) PROVE post' \in [Handlers -> Post]
  <2>1. PICK u \in Reporters, s \in Stories \union {NoStory},
             c \in Categories, type \in Types \union {"unknown"} :
          post' = [post EXCEPT ![w] =
                    [step |-> IF s # NoStory /\ Typed(type, s) = "article_report"
                              THEN "find" ELSE "insert",
                     user |-> u, story |-> s, category |-> c, type |-> Typed(type, s), found |-> 0]]
    BY <1>3 DEF Submission
  <2>2. Typed(type, s) \in Types
    BY DEF Typed, Types
  <2>3. [step |-> IF s # NoStory /\ Typed(type, s) = "article_report" THEN "find" ELSE "insert",
         user |-> u, story |-> s, category |-> c, type |-> Typed(type, s), found |-> 0] \in Post
    BY <2>2 DEF Post
  <2> QED
    BY <1>2, <2>1, <2>3
<1>4. ASSUME NEW w \in Handlers, NEW q \in Post, NEW st \in {"insert", "notify"}
      PROVE  [q EXCEPT !.step = st] \in Post
  BY DEF Post
<1>5. ASSUME NEW w \in Handlers, FindReport(w) PROVE post' \in [Handlers -> Post]
  <2>1. CASE post' = [post EXCEPT ![w].step = "insert"]
    BY <1>0, <1>4, <2>1
  <2>2. ASSUME NEW i \in DOMAIN reports, post' = [post EXCEPT ![w].step = "update", ![w].found = i]
        PROVE  post' \in [Handlers -> Post]
    <3>1. i \in Nat /\ post[w] \in Post
      BY <1>0
    <3>2. [post[w] EXCEPT !.step = "update", !.found = i] \in Post
      BY <3>1 DEF Post
    <3> QED
      BY <1>0, <2>2, <3>2
  <2> QED
    BY <1>5, <2>1, <2>2 DEF FindReport
<1>6. ASSUME NEW w \in Handlers, Renew(w) \/ InsertReport(w) \/ Announce(w)
      PROVE  post' \in [Handlers -> Post]
  <2>1. \/ post' = [post EXCEPT ![w] = PostIdle]
        \/ post' = [post EXCEPT ![w].step = "notify"]
    BY <1>6 DEF Renew, InsertReport, Announce, EndPost
  <2>2. post' = [post EXCEPT ![w].step = "notify"] => post' \in [Handlers -> Post]
    BY <1>0, <1>4
  <2> QED
    BY <1>1, <1>2, <2>1, <2>2
<1>7. Review \/ HourPasses \/ UNCHANGED feedbackVars => post' = post
  BY DEF Review, HourPasses, feedbackVars
<1>8. failed' \subseteq Post
  <2>1. ASSUME NEW w \in Handlers, InsertReport(w) PROVE failed' \subseteq Post
    <3>1. [post[w] EXCEPT !.found = hour] \in Post
      BY <1>0 DEF Post
    <3> QED
      BY <1>0, <2>1, <3>1 DEF InsertReport
  <2>2. failed' = failed \/ \E w \in Handlers : InsertReport(w)
    BY DEF FeedbackNext, feedbackVars, Submission, FindReport, Renew, Announce, Review, HourPasses
  <2> QED
    BY <1>0, <2>1, <2>2
<1>9. posted' \in [posts : Nat, reviews : Nat]
  <2>1. \/ posted' = posted \/ posted' = [posted EXCEPT !.posts = @ + 1]
        \/ posted' = [posted EXCEPT !.reviews = @ + 1]
    BY DEF FeedbackNext, feedbackVars, Submission, FindReport, Renew, InsertReport, Announce,
       Review, HourPasses
  <2> QED
    BY <1>0, <2>1
<1> QED
  BY <1>0, <1>3, <1>5, <1>6, <1>7, <1>8, <1>9 DEF FeedbackNext

(* Type correctness of the feedback, and what it refuses.                    *)
LEMMA FeedbackAlways == FeedbackSpec => [](FeedbackTypeOK /\ RefusedOnlyLate)
<1>1. FeedbackInit => FeedbackTypeOK /\ RefusedOnlyLate
  <2> SUFFICES ASSUME FeedbackInit PROVE FeedbackTypeOK /\ RefusedOnlyLate
    OBVIOUS
  <2>1. PostIdle \in Post
    BY FeedbackAssumption DEF PostIdle, Post, Types
  <2>2. reports \in Seq(Report)
    BY DEF FeedbackInit
  <2> QED
    BY <2>1, <2>2 DEF FeedbackInit, FeedbackTypeOK, RefusedOnlyLate
<1>2. ReportInv /\ ReportInv' /\ FeedbackTypeOK /\ RefusedOnlyLate /\ [FeedbackNext]_feedbackVars
        => (FeedbackTypeOK /\ RefusedOnlyLate)'
  <2> SUFFICES ASSUME ReportInv, ReportInv', FeedbackTypeOK, RefusedOnlyLate,
                      [FeedbackNext]_feedbackVars
               PROVE  FeedbackTypeOK' /\ RefusedOnlyLate'
    OBVIOUS
  <2>1. FeedbackTypeOK'
    BY PostsTyped DEF FeedbackTypeOK, ReportInv, Rows
  <2> QED
    BY <2>1, RefusalsKept
<1> QED
  BY ReportAlways, <1>1, <1>2, PTL DEF FeedbackSpec

(* For any users, articles, categories, threads, limits and clocks: no user  *)
(* creates more rows than the limit within an hour, and two reports of one   *)
(* matter are the deduplication apart (never with the index), unless the     *)
(* user submits twice at once; what the index refuses was no report, or met  *)
(* a row too old to be found.                                                *)
THEOREM ReportLimitsAlways == FeedbackSpec => []ReportLimits
<1>1. ReportInv /\ RefusedOnlyLate => ReportLimits
  BY DEF ReportInv, ReportLimits
<1> QED
  BY ReportAlways, FeedbackAlways, <1>1, PTL

(* Type correctness of the reports and the submissions under way.            *)
THEOREM FeedbackTypeCorrect == FeedbackSpec => []FeedbackTypeOK
BY FeedbackAlways, PTL

-----------------------------------------------------------------------------
(* Notifications.                                                            *)

\* What is at most one number is at most a larger one.
LEMMA StillBelow == \A a, b, n \in Nat : a <= b /\ n <= a + 1 => n <= b + 1
OBVIOUS

\* Records have their fields.
IsNote(n) == DOMAIN n = {"user", "key", "aid", "at", "read"}
IsEntry(e) == DOMAIN e = {"user", "key", "aid"}
IsJob(j) == DOMAIN j = {"kind", "step", "who", "todo", "rows", "cut", "since", "goal"}
IsArt(a) == DOMAIN a = {"at", "pub", "visible", "tags", "id"}

\* An id that an article has had.
Known(n) == n \in Nat /\ n <= events + 1

\* An alert that a look through a reader's inbox spares, now and ever after.
Good(u, a, id) == a \in Articles /\ Known(id) /\ ~Predates(u, a, id)

Clocks ==
  /\ now \in Nat \ {0} /\ joined = [u \in Readers |-> 1] /\ events \in Nat
  /\ DOMAIN arts = Articles
  /\ \A a \in Articles : /\ IsArt(arts[a]) /\ arts[a].at \in Nat /\ arts[a].pub \in Nat
                         /\ Known(arts[a].id)

\* A notification of a reader is of an article.
NoteOf(n) == /\ IsNote(n) /\ n.at \in Nat /\ n.at <= now
             /\ n.user \in Readers => n.key[1] \in Articles /\ Known(n.aid)

\* What is left to do for a reader is about articles younger than the account.
Entry(e) == IsEntry(e) /\ (e.user \in Readers => Good(e.user, e.key[1], e.aid))

Told(g, since) ==
  \E i \in DOMAIN notes : /\ notes[i].user = g[1] /\ notes[i].key[1] = g[2]
                          /\ notes[i].at + Window >= since

Due(g, todo) == \E e \in ToSet(todo) : e.user = g[1] /\ e.key[1] = g[2]

\* A listing that saw all unread alerts has spared those it has gone past.
Cleared(j) ==
  ~j.cut => \A i \in Unread(j.who) : i \in j.rows \/ Good(j.who, notes[i].key[1], notes[i].aid)

\* Whoever the head of a job's list is for has not been told of it yet, or has.
JobOf(t) ==
  LET j == job[t] IN
  /\ IsJob(j) /\ Listed(j.todo) /\ \A e \in ToSet(j.todo) : Entry(e)
  /\ j.step \in {"idle", "find", "insert", "deliver", "suppress", "prune", "look", "mark", "answer"}
  /\ j.step \in {"insert", "deliver"} => j.todo # <<>>
  /\ j.step \notin {"find", "insert", "deliver"} => j.todo = <<>> /\ j.goal = {}
  /\ j.step \in {"suppress", "prune", "look", "mark", "answer"} => j.who \in Readers
  /\ j.since \in Nat /\ j.since <= now
  /\ \A g \in j.goal : Told(g, j.since) \/ Due(g, j.todo)
  /\ j.step = "deliver" => Told(<<Head(j.todo).user, Head(j.todo).key[1]>>, j.since)
  /\ j.step = "insert" => Head(j.todo).user \in clashed \/ ~Duplicate(Head(j.todo))
  /\ j.step \in {"look", "mark", "answer"} => Cleared(j)
  /\ j.step = "mark" => j.rows # {}
  /\ j.step = "answer" => j.rows = {}

NoteRows == Listed(notes) /\ \A i \in DOMAIN notes : NoteOf(notes[i])

Jobs == DOMAIN job = Threads /\ \A t \in Threads : JobOf(t)

\* A user whom no two jobs notify at once is on the list of one thread.
OneThread ==
  \A s, t \in Threads : \A e \in ToSet(job[s].todo), f \in ToSet(job[t].todo) :
    e.user = f.user /\ e.user \notin clashed => s = t

Badges ==
  /\ DOMAIN badge = Readers
  /\ \A u \in Readers : \A i \in badge[u].rows :
       /\ i \in DOMAIN notes /\ notes[i].at >= joined[u]
       /\ badge[u].cut \/ Good(u, notes[i].key[1], notes[i].aid)

NoteInv == Clocks /\ NoteRows /\ Jobs /\ OneThread /\ DedupeHolds /\ Badges

\* Under the invariant the inbox is honest: the badge that was sent and what it tells.
LEMMA NoteHonest == NoteInv => InboxHonest
<1> SUFFICES ASSUME NoteInv, NEW u \in Readers, NEW i \in badge[u].rows, ~badge[u].cut
             PROVE  LET a == arts[notes[i].key[1]] IN
                    \/ a.at >= joined[u] /\ a.pub >= joined[u]
                    \/ notes[i].aid # a.id \/ notes[i].aid = 0
  BY DEF NoteInv, InboxHonest, BadgeHonest, Badges
<1>1. ~Predates(u, notes[i].key[1], notes[i].aid)
  BY DEF NoteInv, Badges, Good
<1> QED
  BY <1>1 DEF Predates, Fresh

\* Events are counted only.
EventsGo == events' \in Nat /\ events <= events'

(* Articles become younger, disappear, or are new ones.                      *)
LEMMA ArtsGrow ==
  ASSUME Clocks, now' = now, joined' = joined, DOMAIN arts' = Articles, EventsGo,
         \A a \in Articles :
           /\ IsArt(arts'[a]) /\ arts'[a].at \in Nat /\ arts'[a].pub \in Nat /\ Known(arts[a].id)'
           /\ \/ /\ arts'[a].at \in {now, arts[a].at}
                 /\ arts'[a].pub = arts[a].pub /\ arts'[a].id = arts[a].id
              \/ arts'[a].id = 0
              \/ arts'[a].id > events + 1
  PROVE  Clocks' /\ \A u \in Readers : \A a, id : Good(u, a, id) => Good(u, a, id)'
<1>1. Clocks'
  BY DEF Clocks, IsArt, EventsGo
<1>2. ASSUME NEW u \in Readers, NEW a, NEW id, Good(u, a, id) PROVE Good(u, a, id)'
  <2>1. a \in Articles /\ Known(id) /\ joined[u] = 1 /\ events \in Nat /\ now \in Nat \ {0}
    BY <1>2 DEF Good, Clocks
  <2>2. Known(id)'
    BY <2>1 DEF Known, EventsGo
  <2>3. ASSUME id # 0, arts'[a].id = id PROVE Fresh(u, a)'
    <3>1. ~(arts'[a].id > events + 1)
      BY <2>1, <2>3 DEF Known
    <3>2. arts[a].id = id /\ arts'[a].at \in {now, arts[a].at} /\ arts'[a].pub = arts[a].pub
      BY <2>1, <2>3, <3>1
    <3>3. arts[a].at >= 1 /\ arts[a].pub >= 1
      BY <1>2, <2>1, <2>3, <3>2 DEF Good, Predates, Fresh
    <3>4. arts'[a].at >= 1
      BY <2>1, <3>2, <3>3
    <3> QED
      BY <2>1, <3>2, <3>3, <3>4 DEF Fresh
  <2> QED
    BY <2>1, <2>2, <2>3 DEF Good, Predates
<1> QED
  BY <1>1, <1>2

(* A step of time, articles, interests and reading: lists and their threads rest. *)
LEMMA RestingJobs ==
  ASSUME NoteInv, Clocks', NoteRows', now <= now', UNCHANGED <<job, clashed>>,
         \A u \in Readers : \A a, id : Good(u, a, id) => Good(u, a, id)',
         DOMAIN notes' = DOMAIN notes,
         \A i \in DOMAIN notes : /\ notes'[i].user = notes[i].user /\ notes'[i].key = notes[i].key
                                 /\ notes'[i].at = notes[i].at /\ notes'[i].aid = notes[i].aid
                                 /\ notes[i].read => notes'[i].read
  PROVE  Jobs' /\ OneThread' /\ DedupeHolds'
<1>1. ASSUME NEW t \in Threads PROVE JobOf(t)'
  <2> DEFINE j == job[t]
  <2>1. JobOf(t) /\ job'[t] = j
    BY DEF NoteInv, Jobs
  <2>2. \A e : Entry(e) => Entry(e)'
    BY DEF Entry
  <2>3. \A g, since : Told(g, since) => Told(g, since)'
    BY DEF Told
  <2>4. \A e : Duplicate(e)' => Duplicate(e)
    <3>1. \A i \in DOMAIN notes : notes[i].at \in Nat
      BY DEF NoteInv, NoteRows, NoteOf
    <3>2. now \in Nat /\ now' \in Nat /\ Window \in Nat
      BY NoteAssumption DEF NoteInv, Clocks
    <3> QED
      BY <3>1, <3>2 DEF Duplicate
  <2>5. \A u \in Readers : /\ Unread(u)' \subseteq Unread(u)
                          /\ \A i \in Unread(u) : notes'[i].key = notes[i].key /\ notes'[i].aid = notes[i].aid
    BY DEF Unread
  <2>6. j.step \in {"look", "mark", "answer"} => Cleared(job[t])'
    <3>1. j.step \in {"look", "mark", "answer"} => Cleared(j) /\ j.who \in Readers
      BY <2>1 DEF JobOf
    <3> QED
      BY <2>1, <2>5, <3>1 DEF Cleared
  <2>7. now \in Nat /\ now' \in Nat
    BY DEF NoteInv, Clocks
  <2> QED
    BY <2>1, <2>2, <2>3, <2>4, <2>6, <2>7 DEF JobOf, Listed, IsJob, Due
<1>2. Jobs'
  BY <1>1 DEF NoteInv, Jobs
<1>3. OneThread'
  BY DEF NoteInv, OneThread
<1>4. DedupeHolds'
  BY DEF NoteInv, DedupeHolds
<1> QED
  BY <1>2, <1>3, <1>4

Older(i) == /\ i \in DOMAIN notes' /\ notes'[i].user = notes[i].user /\ notes'[i].key = notes[i].key
            /\ notes'[i].at = notes[i].at /\ notes'[i].aid = notes[i].aid
            /\ notes[i].read => notes'[i].read

(* The articles stay as they are.                                            *)
LEMMA StillArts ==
  ASSUME NoteInv, UNCHANGED <<now, joined, arts>>, EventsGo
  PROVE  /\ Clocks' /\ \A u, a, id : Good(u, a, id) => Good(u, a, id)'
         /\ \A e : Entry(e) => Entry(e)'
         /\ \A n : NoteOf(n) => NoteOf(n)'
<1>1. events \in Nat /\ events' \in Nat /\ events <= events'
  BY DEF NoteInv, Clocks, EventsGo
<1>2. \A id : Known(id) => Known(id)'
  <2>1. \A n \in Nat : n <= events + 1 => n <= events' + 1
    BY <1>1, StillBelow
  <2> QED
    BY <2>1 DEF Known
<1>3. Clocks'
  <2>1. /\ now' \in Nat \ {0} /\ joined' = [u \in Readers |-> 1] /\ DOMAIN arts' = Articles
        /\ \A a \in Articles : /\ IsArt(arts'[a]) /\ arts'[a].at \in Nat /\ arts'[a].pub \in Nat
                               /\ Known(arts[a].id) /\ arts'[a].id = arts[a].id
    BY DEF NoteInv, Clocks, IsArt
  <2> QED
    BY <1>1, <1>2, <2>1 DEF Clocks, IsArt
<1>4. \A u, a, id : Good(u, a, id) => Good(u, a, id)'
  BY <1>2 DEF Good, Predates, Fresh
<1>5. \A e : Entry(e) => Entry(e)'
  BY <1>4 DEF Entry, IsEntry
<1>6. \A n : NoteOf(n) => NoteOf(n)'
  BY <1>2 DEF NoteOf, IsNote
<1> QED
  BY <1>3, <1>4, <1>5, <1>6

(* The thread t goes on; what it may have inserted concerns no other one.    *)
LEMMA JobsApart ==
  ASSUME NoteInv, NEW t \in Threads, DOMAIN job' = Threads, \A s \in Threads \ {t} : job'[s] = job[s],
         UNCHANGED <<now, joined, arts>>, EventsGo, clashed \subseteq clashed',
         \A i \in DOMAIN notes : Older(i),
         \A i \in DOMAIN notes' \ DOMAIN notes :
           /\ notes'[i].user \in Readers => Good(notes'[i].user, notes'[i].key[1], notes'[i].aid)
           /\ \A s \in Threads \ {t} : job[s].step = "insert" =>
                Head(job[s].todo).user \in clashed \/ Head(job[s].todo).user # notes'[i].user,
         JobOf(t)'
  PROVE  Jobs'
<1>1. ASSUME NEW s \in Threads, s # t PROVE JobOf(s)'
  <2> DEFINE j == job[s]
  <2>1. JobOf(s) /\ job'[s] = j
    BY <1>1 DEF NoteInv, Jobs
  <2>2. /\ \A e : Entry(e) => Entry(e)'
        /\ \A u, a, id : Good(u, a, id) => Good(u, a, id)'
    BY StillArts
  <2>3. \A g, since : Told(g, since) => Told(g, since)'
    BY DEF Told, Older
  <2>4. j.step = "insert" => Head(j.todo).user \in clashed' \/ ~Duplicate(Head(j.todo))'
    <3> SUFFICES ASSUME j.step = "insert", Head(j.todo).user \notin clashed, Duplicate(Head(j.todo))'
                 PROVE  FALSE
      OBVIOUS
    <3>1. ~Duplicate(Head(j.todo))
      BY <2>1 DEF JobOf
    <3>2. PICK i \in DOMAIN notes' : /\ notes'[i].user = Head(j.todo).user
                                     /\ notes'[i].key = Head(j.todo).key
                                     /\ notes'[i].at + Window >= now
      BY <2>1 DEF Duplicate
    <3>3. i \in DOMAIN notes
      BY <1>1, <3>2
    <3> QED
      BY <3>1, <3>2, <3>3 DEF Duplicate, Older
  <2>5. j.step \in {"look", "mark", "answer"} => Cleared(job[s])'
    <3> SUFFICES ASSUME j.step \in {"look", "mark", "answer"}, ~j.cut, NEW i \in Unread(j.who)', i \notin j.rows
                 PROVE  Good(j.who, notes'[i].key[1], notes'[i].aid)
      BY <2>1, <2>2 DEF Cleared
    <3>1. /\ j.who \in Readers
          /\ \A k \in Unread(j.who) : k \in j.rows \/ Good(j.who, notes[k].key[1], notes[k].aid)
      BY <2>1 DEF JobOf, Cleared
    <3>2. CASE i \in DOMAIN notes
      BY <2>1, <3>1, <3>2 DEF Unread, Older
    <3>3. CASE i \notin DOMAIN notes
      BY <2>1, <3>1, <3>3 DEF Unread
    <3> QED
      BY <3>2, <3>3
  <2> QED
    BY <2>1, <2>2, <2>3, <2>4, <2>5 DEF JobOf, Listed, IsJob, Due
<1> QED
  BY <1>1 DEF Jobs

(* The lists only become shorter.                                            *)
LEMMA ShorterLists ==
  ASSUME OneThread, clashed \subseteq clashed',
         \A s \in Threads : ToSet(job'[s].todo) \subseteq ToSet(job[s].todo)
  PROVE  OneThread'
BY DEF OneThread

(* Rows are marked only.                                                     *)
LEMMA MarkOlder ==
  ASSUME NoteRows, NEW S, MarkRead(S)
  PROVE  /\ DOMAIN notes' = DOMAIN notes /\ Listed(notes')
         /\ \A i \in DOMAIN notes : /\ Older(i) /\ IsNote(notes'[i])
                                    /\ i \in S => notes'[i].read
                                    /\ i \notin S => notes'[i] = notes[i]
<1>1. Listed(notes) /\ \A i \in DOMAIN notes : IsNote(notes[i])
  BY DEF NoteRows, NoteOf
<1>2. DOMAIN notes' = DOMAIN notes
  BY DEF MarkRead
<1>3. \A i \in DOMAIN notes : /\ Older(i) /\ IsNote(notes'[i])
                              /\ i \in S => notes'[i].read
                              /\ i \notin S => notes'[i] = notes[i]
  BY <1>1 DEF MarkRead, Older, IsNote
<1>4. Listed(notes')
  <2>1. DOMAIN notes = 1..Len(notes) /\ Len(notes) \in Nat
    BY <1>1 DEF Listed
  <2>2. \A i \in 1..Len(notes) : notes'[i] \in ToSet(notes')
    BY <1>2, <2>1 DEF ToSet
  <2>3. notes' = [i \in 1..Len(notes) |-> notes'[i]]
    BY <2>1 DEF MarkRead
  <2> QED
    BY <2>1, <2>2, <2>3 DEF Listed
<1> QED
  BY <1>2, <1>3, <1>4

\* Notifications that keep user, article and time keep what was told.
LEMMA KeptNotes ==
  ASSUME NoteInv, UNCHANGED <<now, joined, arts, badge>>, EventsGo, clashed \subseteq clashed',
         DOMAIN notes' = DOMAIN notes, Listed(notes'),
         \A i \in DOMAIN notes : Older(i) /\ IsNote(notes'[i])
  PROVE  NoteRows' /\ DedupeHolds' /\ Badges' /\ Clocks'
<1>1. /\ Clocks' /\ \A u, a, id : Good(u, a, id) => Good(u, a, id)'
      /\ \A n : NoteOf(n) => NoteOf(n)'
  BY StillArts
<1>2. NoteRows'
  <2>1. ASSUME NEW i \in DOMAIN notes' PROVE NoteOf(notes'[i])
    BY <2>1 DEF NoteInv, NoteRows, NoteOf, Older
  <2> QED
    BY <1>1, <2>1 DEF NoteRows, Listed
<1>3. Badges'
  BY <1>1 DEF NoteInv, Badges, Older
<1>4. DedupeHolds'
  BY DEF NoteInv, DedupeHolds, Older
<1> QED
  BY <1>1, <1>2, <1>3, <1>4

\* A thread without a job.
LEMMA IdleJob == IsJob(NoteIdle) /\ Listed(<<>>) /\ ToSet(<<>>) = {}
BY FewListed DEF IsJob, NoteIdle

(* A job that ends.                                                          *)
LEMMA EndedJob ==
  ASSUME NEW t \in Threads, NoteInv, job'[t] = NoteIdle, now' = now
  PROVE  JobOf(t)' /\ ToSet(job'[t].todo) = {}
<1>1. /\ job'[t].todo = <<>> /\ job'[t].step = "idle" /\ job'[t].goal = {} /\ job'[t].since = 0
      /\ IsJob(job'[t])
  BY IdleJob DEF NoteIdle
<1>2. now \in Nat \ {0}
  BY DEF NoteInv, Clocks
<1>3. ToSet(job'[t].todo) = {} /\ Listed(job'[t].todo)
  BY <1>1, IdleJob
<1> QED
  BY <1>1, <1>2, <1>3 DEF JobOf, IsJob, Listed

(* A job goes on to the next of its list, once the reader has been told.     *)
LEMMA ProceedJob ==
  ASSUME NoteInv, NEW t \in Threads, job[t].todo # <<>>, job[t].step \in {"find", "deliver"},
         job'[t] = Proceed(job[t]), UNCHANGED <<now, joined, arts, notes, clashed>>, EventsGo,
         Told(<<Head(job[t].todo).user, Head(job[t].todo).key[1]>>, job[t].since)
  PROVE  JobOf(t)' /\ ToSet(job'[t].todo) \subseteq ToSet(job[t].todo)
<1> DEFINE todo == job[t].todo  h == Head(job[t].todo)
<1>1. JobOf(t)
  BY DEF NoteInv, Jobs
<1>2. Listed(todo)
  BY <1>1 DEF JobOf
<1>3. /\ Listed(Tail(todo)) /\ h \in ToSet(todo) /\ ToSet(Tail(todo)) \subseteq ToSet(todo)
      /\ ToSet(todo) \subseteq {h} \cup ToSet(Tail(todo))
  BY <1>2, HeadTail
<1>4. /\ job'[t].todo = Tail(todo) /\ job'[t].step = "find" /\ job'[t].goal = job[t].goal
      /\ job'[t].since = job[t].since /\ job'[t].who = job[t].who /\ IsJob(job'[t])
  BY <1>1 DEF Proceed, IsJob, JobOf
<1>5. \A e : Entry(e) => Entry(e)'
  BY StillArts
<1>6. ASSUME NEW g \in job[t].goal PROVE Told(g, job[t].since) \/ Due(g, Tail(todo))
  <2>1. CASE Told(g, job[t].since)
    BY <2>1
  <2>2. CASE Due(g, todo)
    <3>1. PICK e \in ToSet(todo) : e.user = g[1] /\ e.key[1] = g[2]
      BY <2>2 DEF Due
    <3>2. CASE e = h
      <4>1. Told(g, job[t].since)
        BY <3>1, <3>2 DEF Told
      <4> QED
        BY <4>1
    <3>3. CASE e # h
      BY <1>3, <3>1, <3>3 DEF Due
    <3> QED
      BY <3>2, <3>3
  <2> QED
    BY <1>1, <2>1, <2>2 DEF JobOf
<1>7. \A g \in job'[t].goal : Told(g, job[t].since)' \/ Due(g, job'[t].todo)
  <2>1. \A g : Told(g, job[t].since)' <=> Told(g, job[t].since)
    BY <1>4 DEF Told
  <2> QED
    BY <1>4, <1>6, <2>1
<1>8. \A e \in ToSet(job'[t].todo) : Entry(e)'
  BY <1>1, <1>3, <1>4, <1>5 DEF JobOf
<1>9. job'[t].since \in Nat /\ job'[t].since <= now'
  BY <1>1, <1>4 DEF JobOf
<1>10. JobOf(t)'
  <2>1. Listed(job'[t].todo)
    BY <1>3, <1>4
  <2> QED
    BY <1>4, <1>7, <1>8, <1>9, <2>1 DEF JobOf, IsJob, Listed, Due
<1> QED
  BY <1>3, <1>4, <1>10

\* Notifications that are not touched are as old as they were.
LEMMA SameNotes ==
  ASSUME NoteInv, UNCHANGED notes
  PROVE  /\ DOMAIN notes' = DOMAIN notes /\ Listed(notes')
         /\ \A i \in DOMAIN notes : Older(i) /\ IsNote(notes'[i])
         /\ \A i \in DOMAIN notes' : i \in DOMAIN notes
BY DEF NoteInv, NoteRows, NoteOf, Older, IsNote, Listed

(* A job whose list becomes shorter, with no notification made.              *)
LEMMA ShorterJob ==
  ASSUME NoteInv, NEW t \in Threads, DOMAIN job' = Threads, \A s \in Threads \ {t} : job'[s] = job[s],
         UNCHANGED <<now, joined, arts, clashed>>, UNCHANGED badge, EventsGo,
         DOMAIN notes' = DOMAIN notes, Listed(notes'),
         \A i \in DOMAIN notes : Older(i) /\ IsNote(notes'[i]),
         JobOf(t)', ToSet(job'[t].todo) \subseteq ToSet(job[t].todo)
  PROVE  NoteInv'
<1>1. NoteRows' /\ DedupeHolds' /\ Badges' /\ Clocks'
  BY KeptNotes
<1>2. Jobs'
  BY JobsApart
<1>3. OneThread'
  <2>1. \A s \in Threads : ToSet(job'[s].todo) \subseteq ToSet(job[s].todo)
    OBVIOUS
  <2> QED
    BY <2>1, ShorterLists DEF NoteInv
<1> QED
  BY <1>1, <1>2, <1>3 DEF NoteInv

\* A job that is replaced.
LEMMA JobIs ==
  ASSUME NoteInv, NEW t \in Threads
  PROVE  JobOf(t) /\ IsJob(job[t]) /\ DOMAIN job = Threads
BY DEF NoteInv, Jobs, JobOf

\* The search for a duplicate keeps the invariant,
LEMMA FindDuplicateInv ==
  ASSUME NoteInv, NEW t \in Threads, FindDuplicate(t)
  PROVE  NoteInv'
<1> DEFINE todo == job[t].todo  h == Head(job[t].todo)
<1>0. JobOf(t) /\ IsJob(job[t]) /\ DOMAIN job = Threads
  BY JobIs
<1>1. /\ UNCHANGED <<now, joined, arts, clashed>> /\ UNCHANGED <<notes, badge>> /\ EventsGo
      /\ DOMAIN job' = Threads /\ \A s \in Threads \ {t} : job'[s] = job[s]
      /\ job[t].step = "find"
  BY <1>0 DEF FindDuplicate, EventsGo, NoteInv, Clocks
<1>2. /\ DOMAIN notes' = DOMAIN notes /\ Listed(notes')
      /\ \A i \in DOMAIN notes : Older(i) /\ IsNote(notes'[i])
  BY <1>1, SameNotes
<1>3. JobOf(t)' /\ ToSet(job'[t].todo) \subseteq ToSet(todo)
  <2>1. CASE todo = <<>>
    <3>1. job'[t] = NoteIdle
      BY <1>0, <2>1 DEF FindDuplicate
    <3> QED
      BY <1>1, <3>1, EndedJob
  <2>2. CASE todo # <<>> /\ Duplicate(h)
    <3>1. job'[t] = Proceed(job[t])
      BY <1>0, <2>2 DEF FindDuplicate
    <3>2. PICK i \in DOMAIN notes : /\ notes[i].user = h.user /\ notes[i].key = h.key
                                    /\ notes[i].at + Window >= now
      BY <2>2 DEF Duplicate
    <3>3. notes[i].at + Window >= job[t].since
      <4>1. notes[i].at \in Nat /\ now \in Nat /\ job[t].since \in Nat /\ job[t].since <= now
        BY <1>0 DEF NoteInv, NoteRows, NoteOf, Clocks, JobOf
      <4> QED
        BY <3>2, <4>1, NoteAssumption
    <3>4. Told(<<h.user, h.key[1]>>, job[t].since)
      BY <3>2, <3>3 DEF Told
    <3> QED
      BY <1>1, <2>2, <3>1, <3>4, ProceedJob
  <2>3. CASE todo # <<>> /\ ~Duplicate(h)
    <3>1. /\ job'[t].step = "insert" /\ job'[t].todo = todo /\ job'[t].goal = job[t].goal
          /\ job'[t].since = job[t].since /\ IsJob(job'[t])
      BY <1>0, <2>3 DEF FindDuplicate, IsJob
    <3>2. \A e : Entry(e) => Entry(e)'
      BY <1>1, StillArts
    <3>3. ~Duplicate(h)'
      BY <1>0, <1>1, <2>3, <3>1 DEF Duplicate
    <3>4. \A g, s : Told(g, s) => Told(g, s)'
      BY <1>1 DEF Told
    <3>5. \A g \in job'[t].goal : Told(g, job[t].since)' \/ Due(g, job[t].todo)
      BY <1>0, <1>1, <3>1 DEF JobOf, Told
    <3> QED
      BY <1>0, <1>1, <2>3, <3>1, <3>2, <3>3, <3>5 DEF JobOf, Listed, IsJob, Due
  <2> QED
    BY <2>1, <2>2, <2>3
<1> QED
  BY <1>1, <1>2, <1>3, ShorterJob

\* ... as do the push and its failure,
LEMMA DeliverInv ==
  ASSUME NoteInv, NEW t \in Threads, Deliver(t) \/ DeliveryRaises(t)
  PROVE  NoteInv'
<1>0. JobOf(t) /\ IsJob(job[t]) /\ DOMAIN job = Threads
  BY JobIs
<1>1. /\ UNCHANGED <<now, joined, arts, clashed>> /\ UNCHANGED <<notes, badge>> /\ EventsGo
      /\ DOMAIN job' = Threads /\ \A s \in Threads \ {t} : job'[s] = job[s]
      /\ job[t].step = "deliver"
  BY <1>0 DEF Deliver, DeliveryRaises, EventsGo, NoteInv, Clocks
<1>2. /\ DOMAIN notes' = DOMAIN notes /\ Listed(notes')
      /\ \A i \in DOMAIN notes : Older(i) /\ IsNote(notes'[i])
  BY <1>1, SameNotes
<1>3. job'[t] = Proceed(job[t]) \/ job'[t] = NoteIdle
  BY <1>0 DEF Deliver, DeliveryRaises
<1>4. /\ Told(<<Head(job[t].todo).user, Head(job[t].todo).key[1]>>, job[t].since)
      /\ job[t].todo # <<>>
  BY <1>0, <1>1 DEF JobOf
<1>5. JobOf(t)' /\ ToSet(job'[t].todo) \subseteq ToSet(job[t].todo)
  BY <1>1, <1>3, <1>4, EndedJob, ProceedJob
<1> QED
  BY <1>1, <1>2, <1>5, ShorterJob

\* ... the opening of an inbox,
LEMMA OpenInv ==
  ASSUME NoteInv, NEW t \in Threads, NEW u \in Readers, Open(t, u)
  PROVE  NoteInv'
<1>0. JobOf(t) /\ IsJob(job[t]) /\ DOMAIN job = Threads
  BY JobIs
<1>1. /\ UNCHANGED <<now, joined, arts, clashed>> /\ UNCHANGED <<notes, badge>> /\ EventsGo
      /\ DOMAIN job' = Threads /\ \A s \in Threads \ {t} : job'[s] = job[s]
  BY <1>0 DEF Open, NoteEvent, EventsGo, NoteInv, Clocks
<1>2. /\ DOMAIN notes' = DOMAIN notes /\ Listed(notes')
      /\ \A i \in DOMAIN notes : Older(i) /\ IsNote(notes'[i])
  BY <1>1, SameNotes
<1>3. /\ job'[t].step = "suppress" /\ job'[t].todo = <<>> /\ job'[t].goal = {} /\ job'[t].since = 0
      /\ job'[t].who = u /\ IsJob(job'[t])
  BY <1>0 DEF Open, NoteIdle, IsJob
<1>4. ToSet(job'[t].todo) = {} /\ Listed(job'[t].todo) /\ now' \in Nat
  BY <1>1, <1>3, IdleJob DEF NoteInv, Clocks
<1>5. JobOf(t)'
  BY <1>3, <1>4 DEF JobOf, IsJob, Listed
<1> QED
  BY <1>1, <1>2, <1>4, <1>5, ShorterJob

\* ... its answer,
LEMMA AnswerInv ==
  ASSUME NoteInv, NEW t \in Threads, AnswerUnread(t)
  PROVE  NoteInv'
<1> DEFINE u == job[t].who
<1>0. JobOf(t) /\ IsJob(job[t]) /\ DOMAIN job = Threads
  BY JobIs
<1>1. /\ UNCHANGED <<now, joined, arts, clashed>> /\ UNCHANGED <<notes, joined>> /\ EventsGo
      /\ DOMAIN job' = Threads /\ \A s \in Threads \ {t} : job'[s] = job[s]
      /\ job'[t] = NoteIdle /\ job[t].step = "answer"
  BY <1>0 DEF AnswerUnread, EventsGo, NoteInv, Clocks
<1>2. /\ DOMAIN notes' = DOMAIN notes /\ Listed(notes')
      /\ \A i \in DOMAIN notes : Older(i) /\ IsNote(notes'[i])
      /\ \A i \in DOMAIN notes' : i \in DOMAIN notes
  BY <1>1, SameNotes
<1>3. JobOf(t)' /\ ToSet(job'[t].todo) = {}
  BY <1>1, EndedJob
<1>4. Jobs'
  BY <1>1, <1>2, <1>3, JobsApart
<1>5. OneThread'
  <2>1. \A s \in Threads : ToSet(job'[s].todo) \subseteq ToSet(job[s].todo)
    BY <1>1, <1>3
  <2> QED
    BY <1>1, <2>1, ShorterLists DEF NoteInv
<1>6. Clocks' /\ \A v, a, id : Good(v, a, id) => Good(v, a, id)'
  BY <1>1, StillArts
<1>7. NoteRows' /\ DedupeHolds'
  <2>1. \A n : NoteOf(n) => NoteOf(n)'
    BY <1>1, StillArts
  <2> QED
    BY <1>1, <2>1 DEF NoteInv, NoteRows, Listed, DedupeHolds
<1>8. Badges'
  <2>1. u \in Readers /\ (job[t].cut \/ \A i \in Unread(u) : Good(u, notes[i].key[1], notes[i].aid))
    BY <1>0, <1>1 DEF JobOf, Cleared
  <2>2. /\ DOMAIN badge' = Readers
        /\ \A v \in Readers : badge'[v] = badge[v] \/ v = u
        /\ badge'[u].rows = {i \in Unread(u) : notes[i].at >= joined[u]} /\ badge'[u].cut = job[t].cut
    BY <2>1 DEF AnswerUnread, NoteInv, Badges
  <2>3. ASSUME NEW v \in Readers, NEW i \in badge'[v].rows
        PROVE  /\ i \in DOMAIN notes' /\ notes'[i].at >= joined'[v]
               /\ badge'[v].cut \/ Good(v, notes'[i].key[1], notes'[i].aid)
    <3>1. CASE v = u
      BY <1>1, <2>1, <2>2, <2>3, <3>1 DEF Unread
    <3>2. CASE v # u
      BY <1>1, <2>2, <2>3, <3>2 DEF NoteInv, Badges
    <3> QED
      BY <3>1, <3>2
  <2> QED
    BY <1>1, <1>6, <2>2, <2>3 DEF Badges
<1> QED
  BY <1>4, <1>5, <1>6, <1>7, <1>8 DEF NoteInv

\* A listing goes on, and marks at most some rows read.
LEMMA ListingInv ==
  ASSUME NoteInv, NEW t \in Threads, UNCHANGED notes \/ \E S : MarkRead(S),
         UNCHANGED <<now, joined, arts, clashed>>, UNCHANGED badge, UNCHANGED events,
         job[t].step \in {"suppress", "prune", "look", "mark"},
         DOMAIN job' = Threads, \A s \in Threads \ {t} : job'[s] = job[s],
         IsJob(job'[t]), job'[t].todo = job[t].todo, job'[t].goal = job[t].goal,
         job'[t].since = job[t].since, job'[t].who = job[t].who,
         job'[t].step \in {"prune", "look", "mark", "answer"},
         job'[t].step # "prune" => Cleared(job[t])',
         job'[t].step = "mark" => job'[t].rows # {},
         job'[t].step = "answer" => job'[t].rows = {}
  PROVE  NoteInv'
<1>1. JobOf(t)
  BY JobIs
<1>2. job[t].who \in Readers /\ job[t].todo = <<>> /\ job[t].goal = {}
  BY <1>1 DEF JobOf
<1>3. /\ DOMAIN notes' = DOMAIN notes /\ Listed(notes')
      /\ \A i \in DOMAIN notes : Older(i) /\ IsNote(notes'[i])
  <2>1. CASE UNCHANGED notes
    BY <2>1, SameNotes
  <2>2. ASSUME NEW S, MarkRead(S)
        PROVE  /\ DOMAIN notes' = DOMAIN notes /\ Listed(notes')
               /\ \A i \in DOMAIN notes : Older(i) /\ IsNote(notes'[i])
    BY <2>2, MarkOlder DEF NoteInv
  <2> QED
    BY <2>1, <2>2
<1>4. EventsGo
  BY DEF EventsGo, NoteInv, Clocks
<1>5. ToSet(job'[t].todo) = {} /\ Listed(job'[t].todo)
  BY <1>2, IdleJob
<1>6. job'[t].since \in Nat /\ job'[t].since <= now'
  BY <1>1 DEF JobOf
<1>7. JobOf(t)'
  BY <1>2, <1>5, <1>6 DEF JobOf, IsJob, Listed
<1> QED
  BY <1>3, <1>4, <1>5, <1>7, ShorterJob

\* Suppressing what predates the account, and reading a page of the rest,
LEMMA PruneInv ==
  ASSUME NoteInv, NEW t \in Threads, Suppress(t) \/ Prune(t)
  PROVE  NoteInv'
<1>0. JobOf(t) /\ IsJob(job[t]) /\ DOMAIN job = Threads
  BY JobIs
<1>1. CASE Suppress(t)
  <2>1. /\ \E S : MarkRead(S)
        /\ UNCHANGED <<now, joined, arts, clashed>> /\ UNCHANGED badge /\ UNCHANGED events
        /\ job[t].step = "suppress"
    BY <1>1 DEF Suppress
  <2>2. /\ DOMAIN job' = Threads /\ \A s \in Threads \ {t} : job'[s] = job[s]
        /\ IsJob(job'[t]) /\ job'[t].todo = job[t].todo /\ job'[t].goal = job[t].goal
        /\ job'[t].since = job[t].since /\ job'[t].who = job[t].who /\ job'[t].step = "prune"
    BY <1>0, <1>1 DEF Suppress, IsJob
  <2> QED
    BY <2>1, <2>2, ListingInv
<1>2. CASE Prune(t)
  <2>1. PICK page \in SUBSET Unread(job[t].who) :
          job' = [job EXCEPT ![t].step = "look", ![t].rows = page,
                             ![t].cut = page # Unread(job[t].who)]
    BY <1>2 DEF Prune
  <2>2. /\ UNCHANGED <<now, joined, arts, clashed>> /\ UNCHANGED badge /\ UNCHANGED events
        /\ UNCHANGED notes /\ job[t].step = "prune"
    BY <1>2 DEF Prune
  <2>3. /\ DOMAIN job' = Threads /\ \A s \in Threads \ {t} : job'[s] = job[s]
        /\ IsJob(job'[t]) /\ job'[t].todo = job[t].todo /\ job'[t].goal = job[t].goal
        /\ job'[t].since = job[t].since /\ job'[t].who = job[t].who /\ job'[t].step = "look"
        /\ job'[t].rows = page /\ job'[t].cut = (page # Unread(job[t].who))
    BY <1>0, <2>1 DEF IsJob
  <2>4. Cleared(job[t])'
    BY <2>2, <2>3 DEF Cleared, Unread
  <2> QED
    BY <2>2, <2>3, <2>4, ListingInv
<1> QED
  BY <1>1, <1>2

\* ... the look at an alert of it: one that is spared stays so,
LEMMA LookAtInv ==
  ASSUME NoteInv, NEW t \in Threads, LookAt(t)
  PROVE  NoteInv'
<1> DEFINE u == job[t].who
<1>0. JobOf(t) /\ IsJob(job[t]) /\ DOMAIN job = Threads
  BY JobIs
<1>1. /\ UNCHANGED <<now, joined, arts, clashed>> /\ UNCHANGED badge /\ UNCHANGED events
      /\ UNCHANGED notes /\ job[t].step = "look"
      /\ DOMAIN job' = Threads /\ \A s \in Threads \ {t} : job'[s] = job[s]
  BY <1>0 DEF LookAt
<1>2. /\ Cleared(job[t]) /\ u \in Readers
  BY <1>0, <1>1 DEF JobOf
<1>3. \A v, a, id : Good(v, a, id) => Good(v, a, id)'
  BY <1>1, StillArts DEF EventsGo, NoteInv, Clocks
<1>4. CASE job[t].rows = {} \/ StaleAlert(Row(t))
  <2>1. /\ job'[t].todo = job[t].todo /\ job'[t].goal = job[t].goal /\ IsJob(job'[t])
        /\ job'[t].since = job[t].since /\ job'[t].who = u /\ job'[t].rows = job[t].rows
        /\ job'[t].cut = job[t].cut
        /\ job'[t].step = (IF job[t].rows = {} THEN "answer" ELSE "mark")
    BY <1>0, <1>4 DEF LookAt, IsJob
  <2>2. Cleared(job[t])'
    BY <1>1, <1>2, <1>3, <2>1 DEF Cleared, Unread
  <2> QED
    BY <1>1, <2>1, <2>2, ListingInv
<1>5. CASE job[t].rows # {} /\ ~StaleAlert(Row(t))
  <2> DEFINE r == Row(t)
  <2>1. /\ job'[t].todo = job[t].todo /\ job'[t].goal = job[t].goal /\ IsJob(job'[t])
        /\ job'[t].since = job[t].since /\ job'[t].who = u /\ job'[t].rows = job[t].rows \ {r}
        /\ job'[t].cut = job[t].cut /\ job'[t].step = "look"
    <3>1. job'[t] = [job[t] EXCEPT !.rows = OtherRows(t)]
      BY <1>0, <1>5 DEF LookAt
    <3>2. OtherRows(t) = job[t].rows \ {r}
      BY DEF OtherRows
    <3> QED
      BY <1>0, <1>1, <3>1, <3>2 DEF IsJob
  <2>2. r \in Unread(u) => Good(u, notes[r].key[1], notes[r].aid)
    <3>1. r \in Unread(u) => notes[r].user = u /\ NoteOf(notes[r])
      BY DEF Unread, NoteInv, NoteRows
    <3> QED
      BY <1>2, <1>5, <3>1 DEF StaleAlert, Good, NoteOf
  <2> HIDE DEF r
  <2>3. Cleared(job[t])'
    BY <1>1, <1>2, <1>3, <2>1, <2>2 DEF Cleared, Unread
  <2> QED
    BY <1>1, <2>1, <2>3, ListingInv
<1> QED
  BY <1>4, <1>5

\* ... and the marking of one that is not.
LEMMA MarkStaleInv ==
  ASSUME NoteInv, NEW t \in Threads, MarkStale(t)
  PROVE  NoteInv'
<1> DEFINE u == job[t].who  r == Row(t)
<1>0. JobOf(t) /\ IsJob(job[t]) /\ DOMAIN job = Threads
  BY JobIs
<1>1. /\ UNCHANGED <<now, joined, arts, clashed>> /\ UNCHANGED badge /\ UNCHANGED events
      /\ MarkRead({r}) /\ job[t].step = "mark"
      /\ DOMAIN job' = Threads /\ \A s \in Threads \ {t} : job'[s] = job[s]
  BY <1>0 DEF MarkStale
<1>2. /\ job'[t].todo = job[t].todo /\ job'[t].goal = job[t].goal /\ IsJob(job'[t])
      /\ job'[t].since = job[t].since /\ job'[t].who = u /\ job'[t].rows = job[t].rows \ {r}
      /\ job'[t].cut = job[t].cut /\ job'[t].step = "look"
  <2>1. OtherRows(t) = job[t].rows \ {r}
    BY DEF OtherRows
  <2> HIDE DEF r
  <2> QED
    BY <1>0, <2>1 DEF MarkStale, IsJob
<1> HIDE DEF r
<1>3. /\ Cleared(job[t]) /\ u \in Readers
  BY <1>0, <1>1 DEF JobOf
<1>4. \A v, a, id : Good(v, a, id) => Good(v, a, id)'
  BY <1>1, StillArts DEF EventsGo, NoteInv, Clocks
<1>5. /\ DOMAIN notes' = DOMAIN notes
      /\ \A i \in DOMAIN notes : /\ Older(i)
                                 /\ i = r => notes'[i].read
  BY <1>1, MarkOlder DEF NoteInv
<1>6. Unread(u)' \subseteq Unread(u) \ {r}
  BY <1>2, <1>5 DEF Unread, Older
<1>7. \A i \in Unread(u) : notes'[i].key = notes[i].key /\ notes'[i].aid = notes[i].aid
  BY <1>5 DEF Unread, Older
<1>8. Cleared(job[t])'
  BY <1>2, <1>3, <1>4, <1>6, <1>7 DEF Cleared
<1> QED
  BY <1>1, <1>2, <1>8, ListingInv

\* The new notification keeps the invariant,
LEMMA InsertNoteInv ==
  ASSUME NoteInv, NEW t \in Threads, Insert(t)
  PROVE  NoteInv'
<1> DEFINE h == Head(job[t].todo)
           n == [user |-> h.user, key |-> h.key, aid |-> h.aid, at |-> now, read |-> FALSE]
           k == Len(notes) + 1
<1>0. JobOf(t) /\ IsJob(job[t]) /\ DOMAIN job = Threads
  BY JobIs
<1>1. /\ UNCHANGED <<now, joined, arts, clashed>> /\ UNCHANGED <<badge, joined>> /\ EventsGo
      /\ DOMAIN job' = Threads /\ \A s \in Threads \ {t} : job'[s] = job[s]
      /\ job[t].step = "insert" /\ notes' = Append(notes, n)
  BY <1>0 DEF Insert, EventsGo, NoteInv, Clocks
<1>2. /\ job'[t].todo = job[t].todo /\ job'[t].goal = job[t].goal
      /\ job'[t].since = job[t].since /\ IsJob(job'[t]) /\ job'[t].step = "deliver"
  BY <1>0 DEF Insert, IsJob
<1>3. /\ Listed(notes') /\ Len(notes) \in Nat /\ DOMAIN notes = 1..Len(notes) /\ DOMAIN notes' = 1..k
      /\ notes'[k] = n /\ \A i \in DOMAIN notes : notes'[i] = notes[i]
  <2>1. Listed(notes)
    BY DEF NoteInv, NoteRows
  <2> HIDE DEF n
  <2> QED
    BY <1>1, <2>1, AppendIs
<1>4. /\ n.user = h.user /\ n.key = h.key /\ n.aid = h.aid /\ n.at = now /\ IsNote(n)
  BY DEF IsNote
<1> HIDE DEF n, k
<1>5. k \notin DOMAIN notes /\ DOMAIN notes' = DOMAIN notes \cup {k} /\ \A i \in DOMAIN notes : i < k
  BY <1>3 DEF k
<1>6. /\ job[t].todo # <<>> /\ h \in ToSet(job[t].todo) /\ Entry(h)
      /\ h.user \in clashed \/ ~Duplicate(h)
  BY <1>0, <1>1, HeadTail DEF JobOf
<1>7. now \in Nat \ {0} /\ Window \in Nat /\ \A i \in DOMAIN notes : notes[i].at \in Nat /\ notes[i].at <= now
  BY NoteAssumption DEF NoteInv, Clocks, NoteRows, NoteOf
<1>8. /\ Clocks' /\ \A u, a, id : Good(u, a, id) => Good(u, a, id)'
      /\ \A e : Entry(e) => Entry(e)'
      /\ \A x : NoteOf(x) => NoteOf(x)'
  BY <1>1, StillArts
<1>9. NoteOf(n)
  BY <1>4, <1>6, <1>7 DEF NoteOf, Entry, Good
<1>10. NoteRows'
  <2>1. \A i \in DOMAIN notes' : NoteOf(notes'[i])
    BY <1>3, <1>5, <1>9 DEF NoteInv, NoteRows
  <2> QED
    BY <1>3, <1>8, <2>1 DEF NoteRows, Listed
<1>11. DedupeHolds'
  <2> SUFFICES ASSUME NEW i \in DOMAIN notes', NEW j \in DOMAIN notes', i < j,
                      notes'[i].user = notes'[j].user, notes'[i].key = notes'[j].key
               PROVE  notes'[i].user \in clashed \/ notes'[j].at > notes'[i].at + Window
    BY <1>1 DEF DedupeHolds
  <2>1. CASE j \in DOMAIN notes
    <3>1. i \in DOMAIN notes
      BY <1>3, <1>5, <2>1
    <3> QED
      BY <1>3, <2>1, <3>1 DEF NoteInv, DedupeHolds
  <2>2. CASE j = k
    <3>1. i \in DOMAIN notes
      BY <1>3, <1>5, <2>2
    <3>2. notes[i].user = h.user /\ notes[i].key = h.key /\ notes'[j].at = now
      BY <1>3, <1>4, <2>2, <3>1
    <3>3. h.user \in clashed \/ ~(notes[i].at + Window >= now)
      BY <1>6, <3>1, <3>2 DEF Duplicate
    <3> QED
      BY <1>3, <1>7, <3>1, <3>2, <3>3
  <2> QED
    BY <1>5, <2>1, <2>2
<1>12. Badges'
  BY <1>1, <1>3, <1>5, <1>8 DEF NoteInv, Badges
<1>13. OneThread'
  <2>1. \A s \in Threads : ToSet(job'[s].todo) \subseteq ToSet(job[s].todo)
    BY <1>1, <1>2
  <2> QED
    BY <1>1, <2>1, ShorterLists DEF NoteInv
<1>14. JobOf(t)'
  <2>1. \A g, s : Told(g, s) => Told(g, s)'
    BY <1>3, <1>5 DEF Told
  <2>2. Told(<<h.user, h.key[1]>>, job[t].since)'
    <3>1. notes'[k].user = h.user /\ notes'[k].key = h.key /\ notes'[k].at = now /\ k \in DOMAIN notes'
      BY <1>3, <1>4, <1>5
    <3>2. now + Window >= job[t].since
      BY <1>0, <1>7 DEF JobOf
    <3> QED
      BY <1>2, <3>1, <3>2 DEF Told
  <2>3. \A e \in ToSet(job'[t].todo) : Entry(e)'
    BY <1>0, <1>2, <1>8 DEF JobOf
  <2>4. \A g \in job'[t].goal : Told(g, job[t].since)' \/ Due(g, job[t].todo)
    BY <1>0, <1>2, <2>1 DEF JobOf
  <2>5. Listed(job'[t].todo) /\ job'[t].todo # <<>> /\ job'[t].since \in Nat /\ job'[t].since <= now'
    BY <1>0, <1>1, <1>2, <1>6 DEF JobOf
  <2> QED
    BY <1>2, <2>2, <2>3, <2>4, <2>5 DEF JobOf, IsJob, Listed, Due
<1>15. Jobs'
  <2>1. \A i \in DOMAIN notes : Older(i)
    BY <1>3, <1>5 DEF Older
  <2>2. ASSUME NEW i \in DOMAIN notes' \ DOMAIN notes
        PROVE  /\ notes'[i].user \in Readers => Good(notes'[i].user, notes'[i].key[1], notes'[i].aid)
               /\ \A s \in Threads \ {t} : job[s].step = "insert" =>
                    Head(job[s].todo).user \in clashed \/ Head(job[s].todo).user # notes'[i].user
    <3>1. notes'[i] = n
      BY <1>3, <1>5, <2>2
    <3>2. ASSUME NEW s \in Threads \ {t}, job[s].step = "insert"
          PROVE  Head(job[s].todo).user \in clashed \/ Head(job[s].todo).user # h.user
      <4>1. Head(job[s].todo) \in ToSet(job[s].todo)
        <5>1. JobOf(s)
          BY JobIs
        <5> QED
          BY <3>2, <5>1, HeadTail DEF JobOf
      <4> QED
        BY <1>6, <4>1 DEF NoteInv, OneThread
    <3> QED
      BY <1>4, <1>6, <3>1, <3>2 DEF Entry
  <2> QED
    BY <1>1, <1>14, <2>1, <2>2, JobsApart
<1> QED
  BY <1>8, <1>10, <1>11, <1>12, <1>13, <1>15 DEF NoteInv

(* A thread begins a job whose list covers what it owes.                     *)
LEMMA BeginJobInv ==
  ASSUME NoteInv, NEW t \in Threads, NEW kind, NEW who, NEW todo, NEW goal,
         BeginJob(t, kind, who, todo, goal), UNCHANGED <<now, joined, arts, notes, badge>>, EventsGo,
         Listed(todo), \A e \in ToSet(todo) : Entry(e), \A g \in goal : Due(g, todo)
  PROVE  NoteInv'
<1>0. JobOf(t) /\ IsJob(job[t]) /\ DOMAIN job = Threads
  BY JobIs
<1>1. /\ DOMAIN job' = Threads /\ \A s \in Threads \ {t} : job'[s] = job[s]
      /\ IsJob(job'[t]) /\ job'[t].todo = todo /\ job'[t].goal = goal /\ job'[t].since = now
      /\ job'[t].step = "find" /\ clashed \subseteq clashed'
  BY <1>0 DEF BeginJob, NoteIdle, IsJob
<1>2. /\ DOMAIN notes' = DOMAIN notes /\ Listed(notes')
      /\ \A i \in DOMAIN notes : Older(i) /\ IsNote(notes'[i])
      /\ \A i \in DOMAIN notes' : i \in DOMAIN notes
  BY SameNotes
<1>3. NoteRows' /\ DedupeHolds' /\ Badges' /\ Clocks'
  BY <1>1, <1>2, KeptNotes
<1>4. JobOf(t)'
  <2>1. \A e : Entry(e) => Entry(e)'
    BY StillArts
  <2>2. now' \in Nat /\ now' = now
    BY DEF NoteInv, Clocks
  <2> QED
    BY <1>1, <2>1, <2>2 DEF JobOf, IsJob, Listed, Due
<1>5. Jobs'
  BY <1>1, <1>2, <1>4, JobsApart
<1>6. OneThread'
  <2>1. ASSUME NEW s \in Threads \ {t}, NEW e \in ToSet(todo), NEW f \in ToSet(job[s].todo),
               e.user = f.user
        PROVE  e.user \in clashed'
    <3>1. PICK i \in DOMAIN job[s].todo : job[s].todo[i] = f
      BY DEF ToSet
    <3>2. e.user \in {todo[k].user : k \in DOMAIN todo}
      BY DEF ToSet
    <3> QED
      BY <2>1, <3>1, <3>2 DEF BeginJob
  <2> SUFFICES ASSUME NEW s \in Threads, NEW r \in Threads,
                      NEW e \in ToSet(job'[s].todo), NEW f \in ToSet(job'[r].todo),
                      e.user = f.user, e.user \notin clashed'
               PROVE  s = r
    BY DEF OneThread
  <2>2. CASE s = t /\ r # t
    BY <1>1, <2>1, <2>2
  <2>3. CASE s # t /\ r = t
    BY <1>1, <2>1, <2>3
  <2>4. CASE s # t /\ r # t
    BY <1>1, <2>4 DEF NoteInv, OneThread
  <2> QED
    BY <2>2, <2>3, <2>4
<1> QED
  BY <1>3, <1>5, <1>6 DEF NoteInv

(* The look-back and the limit miss no article that is deserved.             *)
LEMMA DeservedRecent ==
  ASSUME NoteInv, NEW u \in Readers, NEW N \in Recent(u), NEW a \in Deserved(u)
  PROVE  a \in N
<1>1. /\ a \in Articles /\ arts[a] # Gone /\ arts[a].at >= follows[u].at /\ arts[a].at >= joined[u]
      /\ Cardinality({b \in Articles \ {a} : arts[b].at >= arts[a].at}) < CutOff
  BY DEF Deserved, Eligible, Fresh
<1>2. a \in LookBack(u)
  BY <1>1 DEF LookBack, Since
<1>3. /\ N \subseteq LookBack(u) /\ (N = LookBack(u) \/ Cardinality(N) = CutOff)
      /\ \A x \in N, b \in LookBack(u) \ N : arts[x].at >= arts[b].at
  BY DEF Recent
<1>4. ASSUME a \notin N PROVE FALSE
  <2> DEFINE M == {b \in Articles \ {a} : arts[b].at >= arts[a].at}
  <2>1. Cardinality(N) = CutOff
    BY <1>2, <1>3, <1>4
  <2>2. N \subseteq M
    BY <1>2, <1>3, <1>4 DEF LookBack
  <2>3. IsFiniteSet(M)
    <3>1. M \in SUBSET Articles
      OBVIOUS
    <3> HIDE DEF M
    <3> QED
      BY <3>1, FS_Subset, NoteAssumption
  <2> HIDE DEF M
  <2>4. Cardinality(N) <= Cardinality(M) /\ Cardinality(N) \in Nat /\ Cardinality(M) \in Nat
    BY <2>2, <2>3, FS_Subset, FS_CardinalityType
  <2>5. Cardinality(M) < CutOff
    BY <1>1 DEF M
  <2> QED
    BY <2>1, <2>4, <2>5
<1> QED
  BY <1>4

\* A backfill begins with the articles that a follower deserves,
LEMMA BackfillInv ==
  ASSUME NoteInv, NEW t \in Threads, NEW u \in Readers, Backfill(t, u)
  PROVE  NoteInv'
<1>1. PICK news \in Backlogs(u) : BeginJob(t, "backfill", u, Telling(u, news), {u} \X Deserved(u))
  BY DEF Backfill
<1>2. PICK N \in Recent(u) : news \in OneByOne({a \in N : Eligible(u, a)})
  BY DEF Backlogs
<1> DEFINE E == {a \in N : Eligible(u, a)}
           todo == Telling(u, news)
<1>3. N \in SUBSET Articles
  BY DEF Recent, LookBack
<1>4. IsFiniteSet(E)
  <2>1. E \in SUBSET Articles
    BY <1>3
  <2> HIDE DEF E
  <2> QED
    BY <2>1, FS_Subset, NoteAssumption
<1>5. DOMAIN news = 1..Cardinality(E) /\ Cardinality(E) \in Nat /\ ToSet(news) = E
  <2> HIDE DEF E
  <2> QED
    BY <1>2, <1>4, FS_CardinalityType DEF OneByOne, E
<1>6. /\ DOMAIN todo = DOMAIN news /\ todo = [i \in DOMAIN news |-> todo[i]]
      /\ \A i \in DOMAIN news : /\ IsEntry(todo[i]) /\ todo[i].user = u /\ todo[i].key[1] = news[i]
                               /\ todo[i].aid = arts[news[i]].id
  BY DEF Telling, IsEntry
<1> HIDE DEF todo
<1>7. Listed(todo)
  <2> HIDE DEF E
  <2> QED
    BY <1>5, <1>6, ListedIs
<1>8. ASSUME NEW e \in ToSet(todo) PROVE Entry(e)
  <2>1. PICK i \in DOMAIN news : e = todo[i]
    BY <1>6 DEF ToSet
  <2>2. news[i] \in E
    BY <1>5 DEF ToSet
  <2>3. Fresh(u, news[i]) /\ news[i] \in Articles /\ joined[u] = 1
    BY <1>3, <2>2 DEF Eligible, NoteInv, Clocks
  <2>4. Good(u, news[i], arts[news[i]].id)
    BY <2>3 DEF Good, Predates, NoteInv, Clocks
  <2> QED
    BY <1>6, <2>1, <2>4 DEF Entry
<1>9. ASSUME NEW g \in {u} \X Deserved(u) PROVE Due(g, todo)
  <2>1. g[1] = u /\ g[2] \in Deserved(u)
    OBVIOUS
  <2>2. g[2] \in E
    BY <2>1, DeservedRecent DEF Deserved
  <2>3. PICK i \in DOMAIN news : news[i] = g[2]
    BY <1>5, <2>2 DEF ToSet
  <2>4. todo[i] \in ToSet(todo)
    BY <1>6 DEF ToSet
  <2> QED
    BY <1>6, <2>1, <2>3, <2>4 DEF Due
<1>10. EventsGo /\ UNCHANGED <<now, joined, arts, notes, badge>>
  BY DEF Backfill, NoteEvent, EventsGo, NoteInv, Clocks
<1> QED
  BY <1>1, <1>7, <1>8, <1>9, <1>10, BeginJobInv DEF todo

\* ... an alert with all administrators.
LEMMA AlertAdminsInv ==
  ASSUME NoteInv, NEW t \in Threads, AlertAdmins(t)
  PROVE  NoteInv'
<1>1. PICK admins \in OneByOne(Admins) :
        BeginJob(t, "admins", Alert,
                 [i \in DOMAIN admins |-> [user |-> admins[i], key |-> <<Alert, All>>, aid |-> 0]],
                 Admins \X {Alert})
  BY DEF AlertAdmins
<1> DEFINE todo == [i \in DOMAIN admins |-> [user |-> admins[i], key |-> <<Alert, All>>, aid |-> 0]]
<1>2. DOMAIN admins = 1..Cardinality(Admins) /\ Cardinality(Admins) \in Nat /\ ToSet(admins) = Admins
  BY NoteAssumption, FS_CardinalityType DEF OneByOne
<1>3. /\ DOMAIN todo = DOMAIN admins /\ todo = [i \in DOMAIN admins |-> todo[i]]
      /\ \A i \in DOMAIN admins : IsEntry(todo[i]) /\ todo[i].user = admins[i] /\ todo[i].key[1] = Alert
  BY DEF IsEntry
<1> HIDE DEF todo
<1>4. Listed(todo)
  BY <1>2, <1>3, ListedIs
<1>5. ASSUME NEW e \in ToSet(todo) PROVE Entry(e)
  <2>1. PICK i \in DOMAIN admins : e = todo[i]
    BY <1>3 DEF ToSet
  <2>2. admins[i] \in Admins
    BY <1>2 DEF ToSet
  <2> QED
    BY <1>3, <2>1, <2>2, NoteAssumption DEF Entry
<1>6. ASSUME NEW g \in Admins \X {Alert} PROVE Due(g, todo)
  <2>1. g[1] \in Admins /\ g[2] = Alert
    OBVIOUS
  <2>2. PICK i \in DOMAIN admins : admins[i] = g[1]
    BY <1>2, <2>1 DEF ToSet
  <2>3. todo[i] \in ToSet(todo)
    BY <1>3 DEF ToSet
  <2> QED
    BY <1>3, <2>1, <2>2, <2>3 DEF Due
<1>7. EventsGo /\ UNCHANGED <<now, joined, arts, notes, badge>>
  BY DEF AlertAdmins, NoteEvent, EventsGo, NoteInv, Clocks
<1> QED
  BY <1>1, <1>4, <1>5, <1>6, <1>7, BeginJobInv DEF todo

(* A step of time, articles, interests or reading.                           *)
LEMMA QuietNotes ==
  ASSUME NoteInv, Clocks', now <= now', UNCHANGED <<job, clashed, badge, joined>>,
         \A u \in Readers : \A a, id : Good(u, a, id) => Good(u, a, id)', EventsGo,
         DOMAIN notes' = DOMAIN notes, Listed(notes'),
         \A i \in DOMAIN notes : Older(i) /\ IsNote(notes'[i])
  PROVE  NoteInv'
<1>1. NoteRows'
  <2>1. \A id : Known(id) => Known(id)'
    <3>1. events \in Nat /\ events' \in Nat /\ events <= events'
      BY DEF NoteInv, Clocks, EventsGo
    <3>2. \A n \in Nat : n <= events + 1 => n <= events' + 1
      BY <3>1, StillBelow
    <3> QED
      BY <3>2 DEF Known
  <2>2. now \in Nat /\ now' \in Nat
    BY DEF NoteInv, Clocks
  <2>3. \A i \in DOMAIN notes : NoteOf(notes[i]) /\ Older(i) /\ IsNote(notes'[i])
    BY DEF NoteInv, NoteRows
  <2> QED
    BY <2>1, <2>2, <2>3 DEF NoteRows, NoteOf, Older, IsNote, Listed
<1>2. \A i \in DOMAIN notes : /\ notes'[i].user = notes[i].user /\ notes'[i].key = notes[i].key
                              /\ notes'[i].at = notes[i].at /\ notes'[i].aid = notes[i].aid
                              /\ notes[i].read => notes'[i].read
  BY DEF Older
<1>3. Jobs' /\ OneThread' /\ DedupeHolds'
  <2>1. UNCHANGED <<job, clashed>>
    OBVIOUS
  <2> QED
    BY <1>1, <1>2, <2>1, RestingJobs
<1>4. Badges'
  BY <1>2 DEF NoteInv, Badges
<1> QED
  BY <1>1, <1>3, <1>4 DEF NoteInv

\* Processing, moderating and deleting an article keep the invariant,
LEMMA ArticleInv ==
  ASSUME NoteInv, NEW a \in Articles, Process(a) \/ Moderate(a) \/ DeleteArticle(a)
  PROVE  NoteInv'
<1>1. UNCHANGED <<job, clashed, badge, joined>> /\ now' = now /\ notes' = notes /\ events' = events + 1
  BY DEF Process, Moderate, DeleteArticle, AlertFollowers, NoteEvent
<1>2. now \in Nat \ {0} /\ DOMAIN arts = Articles /\ events \in Nat
      /\ \A x \in Articles : IsArt(arts[x]) /\ arts[x].at \in Nat /\ arts[x].pub \in Nat /\ Known(arts[x].id)
  BY DEF NoteInv, Clocks
<1>3. EventsGo /\ \A id : Known(id) => Known(id)'
  BY <1>1, <1>2 DEF EventsGo, Known
<1>4. \A x \in Articles \ {a} : arts'[x] = arts[x]
  BY <1>2 DEF Process, Moderate, DeleteArticle
<1>5. /\ DOMAIN arts' = Articles
      /\ IsArt(arts'[a]) /\ arts'[a].at \in Nat /\ arts'[a].pub \in Nat /\ Known(arts[a].id)'
      /\ \/ /\ arts'[a].at \in {now, arts[a].at}
            /\ arts'[a].pub = arts[a].pub /\ arts'[a].id = arts[a].id
         \/ arts'[a].id = 0
         \/ arts'[a].id > events + 1
  <2>1. CASE Process(a)
    <3>1. PICK vis \in BOOLEAN, tags \in SUBSET Keywords :
            arts' = [arts EXCEPT ![a] = [at |-> now, visible |-> vis, tags |-> tags,
                                         pub |-> IF @ = Gone THEN now ELSE @.pub,
                                         id |-> IF @ = Gone THEN events + 2 ELSE @.id]]
      BY <2>1 DEF Process
    <3> DEFINE pub == IF arts[a] = Gone THEN now ELSE arts[a].pub
               id == IF arts[a] = Gone THEN events + 2 ELSE arts[a].id
    <3>0. DOMAIN arts' = Articles
          /\ arts'[a] = [at |-> now, visible |-> vis, tags |-> tags, pub |-> pub, id |-> id]
      BY <1>2, <3>1
    <3> HIDE DEF pub, id
    <3>2. /\ DOMAIN arts' = Articles /\ IsArt(arts'[a]) /\ arts'[a].at = now
          /\ arts'[a].pub = pub /\ arts'[a].id = id
      BY <3>0 DEF IsArt
    <3> USE DEF pub, id
    <3>3. Known(arts[a].id)'
      BY <1>1, <1>2, <1>3, <3>2 DEF Known
    <3> QED
      BY <1>2, <1>3, <3>2, <3>3
  <2>2. CASE Moderate(a)
    <3>1. /\ DOMAIN arts' = Articles /\ IsArt(arts'[a]) /\ arts'[a].at = arts[a].at
          /\ arts'[a].pub = arts[a].pub /\ arts'[a].id = arts[a].id
      BY <1>2, <2>2 DEF Moderate, IsArt
    <3> QED
      BY <1>2, <1>3, <3>1
  <2>3. CASE DeleteArticle(a)
    <3>1. DOMAIN arts' = Articles /\ arts'[a] = Gone
      BY <1>2, <2>3 DEF DeleteArticle
    <3>2. IsArt(Gone) /\ Gone.at = 0 /\ Gone.pub = 0 /\ Gone.id = 0
      BY DEF Gone, IsArt
    <3>3. Known(0)'
      BY <1>1, <1>2 DEF Known
    <3> QED
      BY <3>1, <3>2, <3>3
  <2> QED
    BY <2>1, <2>2, <2>3
<1>6. \A x \in Articles :
           /\ IsArt(arts'[x]) /\ arts'[x].at \in Nat /\ arts'[x].pub \in Nat /\ Known(arts[x].id)'
           /\ \/ /\ arts'[x].at \in {now, arts[x].at}
                 /\ arts'[x].pub = arts[x].pub /\ arts'[x].id = arts[x].id
              \/ arts'[x].id = 0
              \/ arts'[x].id > events + 1
  BY <1>2, <1>3, <1>4, <1>5
<1>7. Clocks' /\ \A u \in Readers : \A x, id : Good(u, x, id) => Good(u, x, id)'
  BY <1>1, <1>3, <1>5, <1>6, ArtsGrow DEF NoteInv
<1>8. /\ DOMAIN notes' = DOMAIN notes /\ Listed(notes')
      /\ \A i \in DOMAIN notes : Older(i) /\ IsNote(notes'[i])
  BY <1>1, SameNotes
<1>9. now <= now'
  BY <1>1, <1>2
<1> QED
  BY <1>1, <1>3, <1>7, <1>8, <1>9, QuietNotes

\* ... as do reading notifications and saving keywords,
LEMMA ReadNotesInv ==
  ASSUME NoteInv, NEW u \in Readers, ReadNotes(u) \/ SaveKeywords(u)
  PROVE  NoteInv'
<1>1. UNCHANGED <<job, clashed, badge, joined>> /\ UNCHANGED <<now, joined, arts>> /\ EventsGo
  BY DEF ReadNotes, SaveKeywords, NoteEvent, EventsGo, NoteInv, Clocks
<1>2. /\ DOMAIN notes' = DOMAIN notes /\ Listed(notes')
      /\ \A i \in DOMAIN notes : Older(i) /\ IsNote(notes'[i])
  <2>1. CASE SaveKeywords(u)
    BY <2>1, SameNotes DEF SaveKeywords
  <2>2. CASE ReadNotes(u)
    <3>1. PICK S : MarkRead(S)
      BY <2>2 DEF ReadNotes
    <3> QED
      BY <3>1, MarkOlder DEF NoteInv
  <2> QED
    BY <2>1, <2>2
<1>3. Clocks' /\ \A v, a, id : Good(v, a, id) => Good(v, a, id)'
  BY <1>1, StillArts
<1>4. now <= now'
  BY <1>1 DEF NoteInv, Clocks
<1> QED
  BY <1>1, <1>2, <1>3, <1>4, QuietNotes

\* ... and the passing of time.
LEMMA NoteTickInv ==
  ASSUME NoteInv, NoteTick
  PROVE  NoteInv'
<1>1. /\ UNCHANGED <<job, clashed, badge, joined>> /\ UNCHANGED <<arts, notes>> /\ now' = now + 1
      /\ events' = events /\ EventsGo
  BY DEF NoteTick, EventsGo, NoteInv, Clocks
<1>2. /\ DOMAIN notes' = DOMAIN notes /\ Listed(notes')
      /\ \A i \in DOMAIN notes : Older(i) /\ IsNote(notes'[i])
  BY <1>1, SameNotes
<1>3. Clocks' /\ now <= now'
  BY <1>1 DEF NoteInv, Clocks, IsArt, Known
<1>4. \A u \in Readers : \A a, id : Good(u, a, id) => Good(u, a, id)'
  BY <1>1 DEF Good, Known, Predates, Fresh
<1> QED
  BY <1>1, <1>2, <1>3, <1>4, QuietNotes

\* The first state has the invariant,
LEMMA NoteInitInv == NoteInit => NoteInv
<1> SUFFICES ASSUME NoteInit PROVE NoteInv
  OBVIOUS
<1>1. /\ now = 1 /\ joined \in [Readers -> {1}] /\ clashed = {}
      /\ \A t \in Threads : job[t] = NoteIdle
      /\ DOMAIN job = Threads /\ badge = [u \in Readers |-> [rows |-> {}, cut |-> FALSE]]
      /\ events = 0
  BY DEF NoteInit
<1>2. ASSUME NEW a \in Articles
      PROVE  IsArt(arts[a]) /\ arts[a].at = 0 /\ arts[a].pub = 0 /\ arts[a].id \in {0, 1}
  <2>1. arts[a] \in {Gone, Old}
    BY DEF NoteInit
  <2> QED
    BY <2>1 DEF Gone, Old, IsArt
<1>3. Clocks
  <2>1. DOMAIN arts = Articles /\ joined = [u \in Readers |-> 1]
    BY <1>1 DEF NoteInit
  <2> QED
    BY <1>1, <1>2, <2>1 DEF Clocks, Known
<1>4. NoteRows /\ DedupeHolds
  <2>1. PICK n \in 0 .. MaxLegacy : notes \in [1..n -> LegacyRows]
    BY DEF NoteInit, Legacies
  <2>2. \A i, j \in DOMAIN notes : notes[i].user = notes[j].user /\ notes[i].key = notes[j].key => i = j
    BY DEF NoteInit, Legacies
  <2>3. n \in Nat /\ DOMAIN notes = 1..n /\ notes = [i \in 1..n |-> notes[i]]
    BY <2>1, NoteAssumption
  <2>4. Listed(notes)
    BY <2>3, ListedIs
  <2>5. ASSUME NEW i \in DOMAIN notes PROVE NoteOf(notes[i])
    <3>1. notes[i] \in LegacyRows
      BY <2>1, <2>3, <2>5
    <3> QED
      BY <1>1, <3>1 DEF LegacyRows, NoteOf, IsNote, Known
  <2> QED
    BY <2>2, <2>3, <2>4, <2>5 DEF NoteRows, DedupeHolds
<1>5. ASSUME NEW t \in Threads PROVE JobOf(t) /\ ToSet(job[t].todo) = {}
  <2>1. /\ job[t].todo = <<>> /\ job[t].step = "idle" /\ job[t].goal = {} /\ job[t].since = 0
    BY <1>1 DEF NoteIdle
  <2>2. IsJob(job[t]) /\ ToSet(job[t].todo) = {} /\ Listed(job[t].todo)
    BY <1>1, <2>1, IdleJob
  <2>3. now = 1
    BY <1>1
  <2> QED
    BY ONLY <2>1, <2>2, <2>3 DEF JobOf
<1>6. Badges
  BY <1>1 DEF Badges
<1> QED
  BY <1>1, <1>3, <1>4, <1>5, <1>6 DEF NoteInv, Jobs, OneThread

\* ... every step keeps it,
LEMMA NoteNextInv == NoteInv /\ [NoteNext]_noteVars => NoteInv'
<1> SUFFICES ASSUME NoteInv, [NoteNext]_noteVars PROVE NoteInv'
  OBVIOUS
<1>1. ASSUME NoteTick PROVE NoteInv'
  BY <1>1, NoteTickInv
<1>2. ASSUME NEW a \in Articles, Process(a) \/ Moderate(a) \/ DeleteArticle(a) PROVE NoteInv'
  BY <1>2, ArticleInv
<1>3. ASSUME NEW u \in Readers, SaveKeywords(u) \/ ReadNotes(u) PROVE NoteInv'
  BY <1>3, ReadNotesInv
<1>4. ASSUME NEW t \in Threads,
             AlertAdmins(t) \/ FindDuplicate(t) \/ Insert(t) \/ Deliver(t) \/ DeliveryRaises(t)
               \/ Suppress(t) \/ Prune(t) \/ LookAt(t) \/ MarkStale(t) \/ AnswerUnread(t)
      PROVE  NoteInv'
  BY <1>4, AlertAdminsInv, FindDuplicateInv, InsertNoteInv, DeliverInv, PruneInv, LookAtInv,
     MarkStaleInv, AnswerInv
<1>5. ASSUME NEW t \in Threads, NEW u \in Readers, Backfill(t, u) \/ Open(t, u) PROVE NoteInv'
  BY <1>5, BackfillInv, OpenInv
<1>6. ASSUME UNCHANGED noteVars PROVE NoteInv'
  <2>1. /\ UNCHANGED <<job, clashed, badge, joined>> /\ UNCHANGED <<arts, notes>>
        /\ UNCHANGED <<now, joined, arts>> /\ EventsGo
    BY <1>6 DEF noteVars, EventsGo, NoteInv, Clocks
  <2>2. /\ DOMAIN notes' = DOMAIN notes /\ Listed(notes')
        /\ \A i \in DOMAIN notes : Older(i) /\ IsNote(notes'[i])
    BY <2>1, SameNotes
  <2>3. Clocks' /\ \A v, a, id : Good(v, a, id) => Good(v, a, id)'
    BY <2>1, StillArts
  <2>4. now <= now'
    BY <2>1 DEF NoteInv, Clocks
  <2> QED
    BY <2>1, <2>2, <2>3, <2>4, QuietNotes
<1> QED
  BY <1>1, <1>2, <1>3, <1>4, <1>5, <1>6 DEF NoteNext

\* ... and every state has it.
LEMMA NoteAlways == NoteSpec => []NoteInv
BY NoteInitInv, NoteNextInv, PTL DEF NoteSpec

(* For any users, keywords, articles and threads, and any rows of before: no *)
(* user has one alert twice within the window unless two jobs notified this  *)
(* user at once, and the unread rows that an inbox answers are as old as the *)
(* account at least and, unless there were more of them than the limit of a  *)
(* look, about articles as old as the account, about deleted ones, or        *)
(* without the id of an article (create_notification,                        *)
(* prune_stale_keyword_notifications), however a listing interleaves with    *)
(* the jobs, other listings and the articles.                                *)
THEOREM InboxHonestAlways == NoteSpec => []InboxHonest
BY NoteAlways, NoteHonest, PTL

(* A job that walks to its end leaves a notification behind for every        *)
(* administrator, or for every article its reader deserved to hear of when   *)
(* it began, whatever the look-back and the limit leave of the recent        *)
(* articles and whatever the others do meanwhile                             *)
(* (notify_keyword_matches_for_user_recent, notify_builtin_admins).          *)
THEOREM JobCompleteAlways == NoteSpec => JobComplete
<1>1. NoteInv => [\A t \in Threads :
        FindDuplicate(t) /\ job[t].todo = <<>>
        => \A g \in job[t].goal : \E i \in DOMAIN notes :
             /\ notes[i].user = g[1] /\ notes[i].key[1] = g[2]
             /\ notes[i].at + Window >= job[t].since]_noteVars
  <2> SUFFICES ASSUME NoteInv, NEW t \in Threads, job[t].todo = <<>>, NEW g \in job[t].goal
               PROVE  Told(g, job[t].since)
    BY DEF Told
  <2>1. Told(g, job[t].since) \/ Due(g, job[t].todo)
    BY JobIs DEF JobOf
  <2>2. ToSet(job[t].todo) = {}
    BY IdleJob
  <2> QED
    BY <2>1, <2>2 DEF Due
<1> QED
  BY <1>1, NoteAlways, PTL DEF JobComplete

-----------------------------------------------------------------------------
(* The types of the notifications.                                           *)

NoteRow == [user : Readers \union Admins, key : Keys, aid : Nat, at : Nat, read : BOOLEAN]
Entries == [user : Readers \union Admins, key : Keys, aid : Nat]
Badge(n) == [rows : SUBSET (1 .. n), cut : BOOLEAN]

\* Jobs as a thread begins and goes on with them.
LEMMA JobsTyped ==
  ASSUME NoteTypeOK
  PROVE  /\ NoteIdle \in NoteJob
         /\ \A t \in Threads, j \in NoteJob : [job EXCEPT ![t] = j] \in [Threads -> NoteJob]
         /\ \A j \in NoteJob, s \in {"find", "insert", "deliver", "prune", "answer"} :
              [j EXCEPT !.step = s] \in NoteJob
         /\ \A j \in NoteJob, s \in {"look", "mark"}, S \in SUBSET Nat, c \in BOOLEAN :
              /\ [j EXCEPT !.step = s, !.rows = S, !.cut = c] \in NoteJob
              /\ [j EXCEPT !.step = s, !.rows = S] \in NoteJob
              /\ [j EXCEPT !.rows = S] \in NoteJob /\ [j EXCEPT !.step = s] \in NoteJob
         /\ \A j \in NoteJob : j.rows \in SUBSET Nat
         /\ \A j \in NoteJob : j.todo # <<>> => Proceed(j) \in NoteJob /\ Head(j.todo) \in Entries
         /\ \A u \in Readers : [NoteIdle EXCEPT !.kind = "list", !.who = u, !.step = "suppress"] \in NoteJob
         /\ job \in [Threads -> NoteJob]
<1>1. <<>> \in Seq([user : Readers \union Admins, key : Keys, aid : Nat])
  OBVIOUS
<1>2. NoteIdle \in NoteJob
  BY <1>1 DEF NoteIdle, NoteJob
<1>3. job \in [Threads -> NoteJob]
  BY DEF NoteTypeOK
<1>4. \A j \in NoteJob, s \in {"find", "insert", "deliver", "prune", "answer"} :
        [j EXCEPT !.step = s] \in NoteJob
  BY DEF NoteJob
<1>5. ASSUME NEW j \in NoteJob, j.todo # <<>> PROVE Proceed(j) \in NoteJob /\ Head(j.todo) \in Entries
  <2>1. j.todo \in Seq([user : Readers \union Admins, key : Keys, aid : Nat])
    BY DEF NoteJob
  <2>2. /\ Tail(j.todo) \in Seq([user : Readers \union Admins, key : Keys, aid : Nat])
        /\ Head(j.todo) \in [user : Readers \union Admins, key : Keys, aid : Nat]
    <3>1. \A T : \A s \in Seq(T) : s # <<>> => Tail(s) \in Seq(T) /\ Head(s) \in T
      OBVIOUS
    <3> QED
      BY <1>5, <2>1, <3>1
  <2> QED
    BY <2>2 DEF NoteJob, Proceed, Entries
<1>6. \A u \in Readers : [NoteIdle EXCEPT !.kind = "list", !.who = u, !.step = "suppress"] \in NoteJob
  BY <1>1 DEF NoteIdle, NoteJob
<1>7. \A j \in NoteJob, s \in {"look", "mark"}, S \in SUBSET Nat, c \in BOOLEAN :
        /\ [j EXCEPT !.step = s, !.rows = S, !.cut = c] \in NoteJob
        /\ [j EXCEPT !.step = s, !.rows = S] \in NoteJob
        /\ [j EXCEPT !.rows = S] \in NoteJob /\ [j EXCEPT !.step = s] \in NoteJob
  <2> SUFFICES ASSUME NEW j \in NoteJob, NEW s \in {"look", "mark"}, NEW S \in SUBSET Nat, NEW c \in BOOLEAN
               PROVE  /\ [j EXCEPT !.step = s, !.rows = S, !.cut = c] \in NoteJob
                      /\ [j EXCEPT !.step = s, !.rows = S] \in NoteJob
                      /\ [j EXCEPT !.rows = S] \in NoteJob /\ [j EXCEPT !.step = s] \in NoteJob
    OBVIOUS
  <2>1. [j EXCEPT !.rows = S] \in NoteJob
    BY DEF NoteJob
  <2>2. [j EXCEPT !.step = s] \in NoteJob
    BY DEF NoteJob
  <2>3. [j EXCEPT !.step = s, !.rows = S] \in NoteJob
    BY DEF NoteJob
  <2>4. [j EXCEPT !.step = s, !.rows = S, !.cut = c] \in NoteJob
    BY DEF NoteJob
  <2> QED
    BY <2>1, <2>2, <2>3, <2>4
<1>8. \A j \in NoteJob : j.rows \in SUBSET Nat
  BY DEF NoteJob
<1> QED
  BY <1>2, <1>3, <1>4, <1>5, <1>6, <1>7, <1>8

\* A new job of a backfill or for the administrators.
LEMMA BegunTyped ==
  ASSUME NoteTypeOK, NEW t \in Threads, NEW kind \in {"backfill", "admins"},
         NEW who \in Readers \union {Alert}, NEW todo \in Seq(Entries),
         NEW goal \in SUBSET ((Readers \union Admins) \X (Articles \union {Alert})),
         BeginJob(t, kind, who, todo, goal)
  PROVE  job' \in [Threads -> NoteJob] /\ clashed' \subseteq Readers \union Admins
<1>1. now \in Nat /\ clashed \subseteq Readers \union Admins
  BY DEF NoteTypeOK
<1>2. [NoteIdle EXCEPT !.kind = kind, !.step = "find", !.who = who, !.todo = todo,
                       !.since = now, !.goal = goal] \in NoteJob
  BY <1>1 DEF NoteIdle, NoteJob, Entries
<1>3. job' \in [Threads -> NoteJob]
  BY <1>2, JobsTyped DEF BeginJob
<1>4. \A i \in DOMAIN todo : todo[i].user \in Readers \union Admins
  <2>1. \A i \in DOMAIN todo : todo[i] \in Entries
    OBVIOUS
  <2> QED
    BY <2>1 DEF Entries
<1> QED
  BY <1>1, <1>3, <1>4 DEF BeginJob

\* What a backfill and an alert are to make.
LEMMA TodoTyped ==
  ASSUME NoteTypeOK
  PROVE  /\ \A u \in Readers : \A news \in Backlogs(u) : Telling(u, news) \in Seq(Entries)
         /\ \A admins \in OneByOne(Admins) :
              [i \in DOMAIN admins |-> [user |-> admins[i], key |-> <<Alert, All>>, aid |-> 0]] \in Seq(Entries)
<1>1. ASSUME NEW u \in Readers, NEW news \in Backlogs(u) PROVE Telling(u, news) \in Seq(Entries)
  <2>1. PICK N \in Recent(u) : news \in OneByOne({a \in N : Eligible(u, a)})
    BY DEF Backlogs
  <2> DEFINE E == {a \in N : Eligible(u, a)}
  <2>2. E \in SUBSET Articles /\ \A a \in E : Hits(u, a) # {}
    BY DEF Recent, LookBack, Eligible
  <2> HIDE DEF E
  <2>3. IsFiniteSet(E)
    BY <2>2, FS_Subset, NoteAssumption
  <2>4. Cardinality(E) \in Nat /\ news \in [1..Cardinality(E) -> E]
    BY <2>1, <2>3, FS_CardinalityType DEF OneByOne, E
  <2> DEFINE told(i) == [user |-> u, key |-> <<news[i], CHOOSE h \in Hits(u, news[i]) : TRUE>>,
                      aid |-> arts[news[i]].id]
  <2>5. ASSUME NEW a \in Articles, Hits(u, a) # {}
        PROVE  (CHOOSE h \in Hits(u, a) : TRUE) \in Keywords \union {All}
    <3>1. Hits(u, a) \subseteq Keywords \union {All}
      <4>1. follows[u].list \in Seq(Keywords)
        BY DEF NoteTypeOK
      <4> QED
        BY <4>1 DEF Hits
    <3> QED
      BY <2>5, <3>1
  <2>6. \A i \in 1..Cardinality(E) : told(i) \in Entries
    <3> SUFFICES ASSUME NEW i \in 1..Cardinality(E) PROVE told(i) \in Entries
      OBVIOUS
    <3>1. news[i] \in Articles /\ Hits(u, news[i]) # {}
      BY <2>2, <2>4
    <3>2. \A h \in Keywords \union {All} : <<news[i], h>> \in Keys
      BY <3>1 DEF Keys
    <3>3. \A k \in Keys, n \in Nat : [user |-> u, key |-> k, aid |-> n] \in Entries
      BY DEF Entries
    <3>4. arts[news[i]].id \in Nat
      BY <3>1 DEF NoteTypeOK
    <3> QED
      BY <2>5, <3>1, <3>2, <3>3, <3>4
  <2>7. Telling(u, news) = [i \in 1..Cardinality(E) |-> told(i)]
    BY <2>4 DEF Telling
  <2> HIDE DEF told
  <2> QED
    BY <2>4, <2>6, <2>7
<1>2. ASSUME NEW admins \in OneByOne(Admins)
      PROVE  [i \in DOMAIN admins |-> [user |-> admins[i], key |-> <<Alert, All>>, aid |-> 0]] \in Seq(Entries)
  <2>1. Cardinality(Admins) \in Nat /\ admins \in [1..Cardinality(Admins) -> Admins]
    BY NoteAssumption, FS_CardinalityType DEF OneByOne
  <2>2. \A i \in 1..Cardinality(Admins) : [user |-> admins[i], key |-> <<Alert, All>>, aid |-> 0] \in Entries
    BY <2>1 DEF Entries, Keys
  <2> QED
    BY <2>1, <2>2
<1> QED
  BY <1>1, <1>2

\* A row read is a row.
LEMMA ReadTyped ==
  ASSUME NoteTypeOK, NEW S, MarkRead(S)
  PROVE  notes' \in Seq(NoteRow) /\ Len(notes') = Len(notes)
<1>1. notes \in Seq(NoteRow)
  BY DEF NoteTypeOK, NoteRow
<1>2. \A i \in DOMAIN notes : notes[i] \in NoteRow /\ [notes[i] EXCEPT !.read = TRUE] \in NoteRow
  <2>1. \A i \in DOMAIN notes : notes[i] \in NoteRow
    BY <1>1
  <2> QED
    BY <2>1 DEF NoteRow
<1>3. Len(notes) \in Nat /\ DOMAIN notes = 1..Len(notes)
  BY <1>1
<1>4. notes' = [i \in 1..Len(notes) |-> IF i \in S THEN [notes[i] EXCEPT !.read = TRUE] ELSE notes[i]]
  BY <1>3 DEF MarkRead
<1> QED
  BY <1>2, <1>3, <1>4

\* The steps by what they change: jobs,
LEMMA JobStepsTyped ==
  ASSUME NoteTypeOK, NEW t \in Threads,
         \/ AlertAdmins(t) \/ FindDuplicate(t) \/ Deliver(t) \/ DeliveryRaises(t)
         \/ \E u \in Readers : Backfill(t, u) \/ Open(t, u),
         job[t].step = "deliver" => job[t].todo # <<>>
  PROVE  NoteTypeOK'
<1>1. UNCHANGED <<now, joined, follows, arts, notes, badge>>
  BY DEF AlertAdmins, FindDuplicate, Deliver, DeliveryRaises, Backfill, Open
<1>2. events' \in Nat
  <2>1. events' = events \/ events' = events + 1
    BY DEF AlertAdmins, FindDuplicate, Deliver, DeliveryRaises, Backfill, Open, NoteEvent
  <2> QED
    BY <2>1 DEF NoteTypeOK
<1>3. job' \in [Threads -> NoteJob] /\ clashed' \subseteq Readers \union Admins
  <2>0. clashed \subseteq Readers \union Admins
    BY DEF NoteTypeOK
  <2>1. CASE AlertAdmins(t)
    <3>1. PICK admins \in OneByOne(Admins) :
            BeginJob(t, "admins", Alert,
                     [i \in DOMAIN admins |-> [user |-> admins[i], key |-> <<Alert, All>>, aid |-> 0]],
                     Admins \X {Alert})
      BY <2>1 DEF AlertAdmins
    <3> QED
      BY <3>1, TodoTyped, BegunTyped
  <2>2. ASSUME NEW u \in Readers, Backfill(t, u)
        PROVE  job' \in [Threads -> NoteJob] /\ clashed' \subseteq Readers \union Admins
    <3>1. PICK news \in Backlogs(u) : BeginJob(t, "backfill", u, Telling(u, news), {u} \X Deserved(u))
      BY <2>2 DEF Backfill
    <3>2. {u} \X Deserved(u) \in SUBSET ((Readers \union Admins) \X (Articles \union {Alert}))
      BY DEF Deserved
    <3> QED
      BY <3>1, <3>2, TodoTyped, BegunTyped
  <2>3. CASE FindDuplicate(t)
    <3> DEFINE j == job[t]
    <3>1. /\ job' = [job EXCEPT ![t] = IF j.todo = <<>> THEN NoteIdle
                                       ELSE IF Duplicate(Head(j.todo)) THEN Proceed(j)
                                       ELSE [j EXCEPT !.step = "insert"]]
          /\ clashed' = clashed
      BY <2>3 DEF FindDuplicate
    <3>2. j \in NoteJob
      BY JobsTyped
    <3> HIDE DEF j
    <3> QED
      BY <2>0, <3>1, <3>2, JobsTyped
  <2>4. CASE Deliver(t) \/ DeliveryRaises(t)
    <3>1. job[t] \in NoteJob
      BY JobsTyped
    <3>2. /\ \/ job' = [job EXCEPT ![t] = Proceed(job[t])] /\ job[t].todo # <<>>
             \/ job' = [job EXCEPT ![t] = NoteIdle]
          /\ clashed' = clashed
      BY <2>4 DEF Deliver, DeliveryRaises
    <3> QED
      BY <2>0, <3>1, <3>2, JobsTyped
  <2>5. ASSUME NEW u \in Readers, Open(t, u)
        PROVE  job' \in [Threads -> NoteJob] /\ clashed' \subseteq Readers \union Admins
    BY <2>0, <2>5, JobsTyped DEF Open
  <2> QED
    BY <2>1, <2>2, <2>3, <2>4, <2>5
<1> QED
  BY <1>1, <1>2, <1>3 DEF NoteTypeOK

\* ... the stored rows and what is read of them,
LEMMA RowStepsTyped ==
  ASSUME NoteTypeOK, NEW t \in Threads,
         \/ Insert(t) \/ Suppress(t) \/ Prune(t) \/ LookAt(t) \/ MarkStale(t) \/ AnswerUnread(t),
         job[t].step = "insert" => job[t].todo # <<>>,
         job[t].step = "answer" => job[t].who \in Readers
  PROVE  NoteTypeOK'
<1>0. /\ notes \in Seq(NoteRow) /\ badge \in [Readers -> Badge(Len(notes))] /\ now \in Nat
      /\ job[t] \in NoteJob /\ Len(notes) \in Nat /\ DOMAIN notes = 1..Len(notes)
  BY DEF NoteTypeOK, NoteRow, Badge
<1>1. UNCHANGED <<now, joined, follows, arts, events, clashed>>
  BY DEF Insert, Suppress, Prune, LookAt, MarkStale, AnswerUnread
<1>2. job' \in [Threads -> NoteJob]
  <2>1. CASE Insert(t) \/ Suppress(t) \/ AnswerUnread(t)
    BY <1>0, <2>1, JobsTyped DEF Insert, Suppress, AnswerUnread
  <2>2. CASE Prune(t)
    <3>1. PICK page \in SUBSET Unread(job[t].who), c \in BOOLEAN :
            job' = [job EXCEPT ![t] = [job[t] EXCEPT !.step = "look", !.rows = page, !.cut = c]]
      BY <1>0, <2>2 DEF Prune, NoteTypeOK
    <3>2. page \in SUBSET Nat
      BY <1>0 DEF Unread
    <3> QED
      BY <1>0, <3>1, <3>2, JobsTyped
  <2>3. CASE LookAt(t) \/ MarkStale(t)
    <3> DEFINE S == OtherRows(t)
    <3>1. S \in SUBSET Nat
      BY <1>0, JobsTyped DEF OtherRows
    <3>2. CASE job' = [job EXCEPT ![t] = [job[t] EXCEPT !.step = "answer"]]
      BY <1>0, <3>2, JobsTyped
    <3>3. CASE job' = [job EXCEPT ![t] = [job[t] EXCEPT !.step = "mark"]]
      BY <1>0, <3>1, <3>3, JobsTyped
    <3>4. CASE job' = [job EXCEPT ![t] = [job[t] EXCEPT !.rows = S]]
      <4> HIDE DEF S
      <4> QED
        BY <1>0, <3>1, <3>4, JobsTyped
    <3>5. CASE job' = [job EXCEPT ![t] = [job[t] EXCEPT !.step = "look", !.rows = S]]
      <4> HIDE DEF S
      <4> QED
        BY <1>0, <3>1, <3>5, JobsTyped
    <3>6. CASE LookAt(t)
      <4> DEFINE j == job[t]
      <4>1. \/ j.rows = {} /\ job' = [job EXCEPT ![t] = [j EXCEPT !.step = "answer"]]
            \/ j.rows # {} /\ StaleAlert(Row(t)) /\ job' = [job EXCEPT ![t] = [j EXCEPT !.step = "mark"]]
            \/ j.rows # {} /\ ~StaleAlert(Row(t))
               /\ job' = [job EXCEPT ![t] = [j EXCEPT !.rows = OtherRows(t)]]
        BY <1>0, <3>6 DEF LookAt
      <4> QED
        BY <3>2, <3>3, <3>4, <4>1
    <3>7. CASE MarkStale(t)
      <4>1. job \in [Threads -> NoteJob]
        BY DEF NoteTypeOK
      <4>2. job' = [job EXCEPT ![t].step = "look", ![t].rows = OtherRows(t)]
        BY <3>7 DEF MarkStale
      <4>3. job' = [job EXCEPT ![t] = [job[t] EXCEPT !.step = "look", !.rows = S]]
        BY <4>1, <4>2 DEF NoteJob
      <4> QED
        BY <3>5, <4>3
    <3> QED
      BY <2>3, <3>6, <3>7
  <2> QED
    BY <2>1, <2>2, <2>3
<1>3. notes' \in Seq(NoteRow) /\ Len(notes') \in Nat /\ Len(notes) <= Len(notes')
  <2>1. CASE Insert(t)
    <3> DEFINE s == Head(job[t].todo)
               n == [user |-> s.user, key |-> s.key, aid |-> s.aid, at |-> now, read |-> FALSE]
    <3>1. s \in Entries
      BY <1>0, <2>1, JobsTyped DEF Insert
    <3>2. n \in NoteRow
      BY <1>0, <3>1 DEF Entries, NoteRow
    <3>3. notes' = Append(notes, n)
      BY <2>1 DEF Insert
    <3> HIDE DEF n
    <3> QED
      BY <1>0, <3>2, <3>3
  <2>2. CASE Suppress(t) \/ MarkStale(t)
    <3>1. PICK S : MarkRead(S)
      BY <2>2 DEF Suppress, MarkStale
    <3> QED
      BY <1>0, <3>1, ReadTyped
  <2>3. CASE Prune(t) \/ LookAt(t) \/ AnswerUnread(t)
    <3>1. notes' = notes
      BY <2>3 DEF Prune, LookAt, AnswerUnread
    <3> QED
      BY <1>0, <3>1
  <2> QED
    BY <2>1, <2>2, <2>3
<1>4. badge' \in [Readers -> Badge(Len(notes'))]
  <2>1. badge' \in [Readers -> Badge(Len(notes))]
    <3>1. CASE AnswerUnread(t)
      <4> DEFINE S == {i \in Unread(job[t].who) : notes[i].at >= joined[job[t].who]}
                 d == [rows |-> S, cut |-> job[t].cut]
      <4>1. S \in SUBSET (1 .. Len(notes)) /\ job[t].cut \in BOOLEAN
        BY <1>0 DEF Unread, NoteJob
      <4>2. badge' = [badge EXCEPT ![job[t].who] = d]
        BY <3>1 DEF AnswerUnread
      <4>3. d \in Badge(Len(notes))
        BY <4>1 DEF Badge
      <4> HIDE DEF d
      <4> QED
        BY <1>0, <4>2, <4>3
    <3>2. CASE ~AnswerUnread(t)
      BY <1>0, <3>2 DEF Insert, Suppress, Prune, LookAt, MarkStale
    <3> QED
      BY <3>1, <3>2
  <2>2. Badge(Len(notes)) \subseteq Badge(Len(notes'))
    <3>1. 1 .. Len(notes) \subseteq 1 .. Len(notes')
      BY <1>0, <1>3
    <3> QED
      BY <3>1 DEF Badge
  <2> QED
    BY <2>1, <2>2
<1> QED
  BY <1>1, <1>2, <1>3, <1>4 DEF NoteTypeOK, NoteRow, Badge

\* ... time, articles and interests.
LEMMA QuietStepsTyped ==
  ASSUME NoteTypeOK,
         \/ NoteTick \/ \E a \in Articles : Process(a) \/ Moderate(a) \/ DeleteArticle(a)
         \/ \E u \in Readers : SaveKeywords(u) \/ ReadNotes(u)
         \/ UNCHANGED noteVars
  PROVE  NoteTypeOK'
<1> DEFINE Art == [at : Nat, pub : Nat, visible : BOOLEAN, tags : SUBSET Keywords, id : Nat]
           Interests == [list : Seq(Keywords), at : Nat]
<1>0. /\ arts \in [Articles -> Art] /\ follows \in [Readers -> Interests] /\ now \in Nat /\ events \in Nat
  BY DEF NoteTypeOK
<1>1. UNCHANGED <<joined, job, badge, clashed>>
  BY DEF NoteTick, Process, Moderate, DeleteArticle, SaveKeywords, ReadNotes, AlertFollowers, noteVars
<1>2. now' \in Nat /\ events' \in Nat
  <2>1. /\ events' = events \/ events' = events + 1
        /\ now' = now \/ now' = now + 1
    BY DEF NoteTick, Process, Moderate, DeleteArticle, SaveKeywords, ReadNotes, noteVars, NoteEvent
  <2> QED
    BY <2>1 DEF NoteTypeOK
<1>3. arts' \in [Articles -> Art]
  <2>1. ASSUME NEW a \in Articles, Process(a) PROVE arts' \in [Articles -> Art]
    <3>1. PICK vis \in BOOLEAN, tags \in SUBSET Keywords :
            arts' = [arts EXCEPT ![a] = [at |-> now, visible |-> vis, tags |-> tags,
                                         pub |-> IF @ = Gone THEN now ELSE @.pub,
                                         id |-> IF @ = Gone THEN events + 2 ELSE @.id]]
      BY <2>1 DEF Process
    <3>2. [at |-> now, visible |-> vis, tags |-> tags,
           pub |-> IF arts[a] = Gone THEN now ELSE arts[a].pub,
           id |-> IF arts[a] = Gone THEN events + 2 ELSE arts[a].id] \in Art
      BY <1>0
    <3> QED
      BY <1>0, <3>1, <3>2
  <2>2. ASSUME NEW a \in Articles, Moderate(a) PROVE arts' \in [Articles -> Art]
    BY <1>0, <2>2 DEF Moderate
  <2>4. ASSUME NEW a \in Articles, DeleteArticle(a) PROVE arts' \in [Articles -> Art]
    <3>1. Gone \in Art
      BY DEF Gone
    <3> QED
      BY <1>0, <2>4, <3>1 DEF DeleteArticle
  <2>3. NoteTick \/ (\E u \in Readers : SaveKeywords(u) \/ ReadNotes(u)) \/ UNCHANGED noteVars
          => arts' = arts
    BY DEF NoteTick, SaveKeywords, ReadNotes, noteVars
  <2> QED
    BY <1>0, <2>1, <2>2, <2>3, <2>4
<1>4. follows' \in [Readers -> Interests]
  <2>1. ASSUME NEW u \in Readers, SaveKeywords(u) PROVE follows' \in [Readers -> Interests]
    <3>1. PICK list \in SetToAllKPermutations(Keywords) : Follow(u, list)
      BY <2>1 DEF SaveKeywords
    <3>2. list \in Seq(Keywords)
      <4>1. PICK s \in SUBSET Keywords : list \in SetToSeqs(s)
        BY DEF SetToAllKPermutations
      <4> DEFINE n == Cardinality(s)
      <4>2. list \in [1..n -> s]
        BY <4>1 DEF SetToSeqs
      <4>3. n \in Nat
        BY NoteAssumption, FS_Subset, FS_CardinalityType
      <4> QED
        BY <4>2, <4>3
    <3> QED
      BY <1>0, <3>1, <3>2 DEF Follow
  <2>2. ~(\E u \in Readers : SaveKeywords(u)) => follows' = follows
    BY DEF NoteTick, Process, Moderate, DeleteArticle, ReadNotes, noteVars
  <2> QED
    BY <1>0, <2>1, <2>2
<1>5. notes' \in Seq(NoteRow) /\ Len(notes') = Len(notes)
  <2>1. ASSUME NEW u \in Readers, ReadNotes(u) PROVE notes' \in Seq(NoteRow) /\ Len(notes') = Len(notes)
    <3>1. PICK S : MarkRead(S)
      BY <2>1 DEF ReadNotes
    <3> QED
      BY <3>1, ReadTyped
  <2>2. ~(\E u \in Readers : ReadNotes(u)) => notes' = notes
    BY DEF NoteTick, Process, Moderate, DeleteArticle, SaveKeywords, AlertFollowers, noteVars
  <2> QED
    BY <2>1, <2>2 DEF NoteTypeOK, NoteRow
<1> QED
  BY <1>1, <1>2, <1>3, <1>4, <1>5 DEF NoteTypeOK, NoteRow

(* Every variable of the notifications keeps its type.                       *)
THEOREM NoteTypeCorrect == NoteSpec => []NoteTypeOK
<1>1. NoteInit => NoteTypeOK
  <2> SUFFICES ASSUME NoteInit PROVE NoteTypeOK
    OBVIOUS
  <2>1. NoteIdle \in NoteJob
    <3>1. <<>> \in Seq([user : Readers \union Admins, key : Keys, aid : Nat])
      OBVIOUS
    <3> QED
      BY <3>1 DEF NoteIdle, NoteJob
  <2>2. /\ now \in Nat /\ events \in Nat /\ clashed \subseteq Readers \union Admins
        /\ job \in [Threads -> NoteJob]
    BY <2>1 DEF NoteInit
  <2>3. joined \in [Readers -> Nat]
    BY DEF NoteInit
  <2>4. follows \in [Readers -> [list : Seq(Keywords), at : Nat]]
    <3>1. [list |-> <<>>, at |-> 0] \in [list : Seq(Keywords), at : Nat]
      OBVIOUS
    <3>2. \A k \in Keywords : [list |-> <<k>>, at |-> 1] \in [list : Seq(Keywords), at : Nat]
      OBVIOUS
    <3>3. {[list |-> <<>>, at |-> 0]} \union {[list |-> <<k>>, at |-> 1] : k \in Keywords}
            \subseteq [list : Seq(Keywords), at : Nat]
      BY <3>1, <3>2
    <3>4. follows \in [Readers -> {[list |-> <<>>, at |-> 0]} \union
                                  {[list |-> <<k>>, at |-> 1] : k \in Keywords}]
      BY DEF NoteInit
    <3>5. \A S, T : S \subseteq T /\ follows \in [Readers -> S] => follows \in [Readers -> T]
      OBVIOUS
    <3> QED
      BY <3>3, <3>4, <3>5
  <2>5. arts \in [Articles -> [at : Nat, pub : Nat, visible : BOOLEAN, tags : SUBSET Keywords, id : Nat]]
    <3> DEFINE Art == [at : Nat, pub : Nat, visible : BOOLEAN, tags : SUBSET Keywords, id : Nat]
    <3>1. Gone \in Art /\ Old \in Art
      BY DEF Gone, Old
    <3>2. arts \in [Articles -> {Gone, Old}]
      BY DEF NoteInit
    <3> HIDE DEF Art
    <3>3. \A x, y : x \in Art /\ y \in Art /\ arts \in [Articles -> {x, y}] => arts \in [Articles -> Art]
      OBVIOUS
    <3>4. arts \in [Articles -> Art]
      BY <3>1, <3>2, <3>3
    <3> QED
      BY <3>4 DEF Art
  <2>6. notes \in Seq(NoteRow)
    <3>1. PICK n \in 0 .. MaxLegacy : notes \in [1..n -> LegacyRows]
      BY DEF NoteInit, Legacies
    <3>2. n \in Nat
      BY <3>1, NoteAssumption
    <3>3. ASSUME NEW x \in LegacyRows PROVE x \in NoteRow
      <4>1. Articles \X {All} \subseteq Keys
        BY DEF Keys
      <4>2. PICK u \in Readers, k \in Articles \X {All}, d \in {0, 1}, at \in {0, 1} :
              x = [user |-> u, key |-> k, aid |-> d, at |-> at, read |-> FALSE]
        BY <3>3 DEF LegacyRows
      <4>3. k \in Keys /\ u \in Readers \union Admins /\ d \in Nat /\ at \in Nat
        BY <4>1
      <4> QED
        BY <4>2, <4>3 DEF NoteRow
    <3>4. \A S, T : S \subseteq T /\ notes \in [1..n -> S] => notes \in Seq(T)
      BY <3>2
    <3> QED
      BY <3>1, <3>3, <3>4
  <2>7. badge \in [Readers -> [rows : SUBSET (1 .. Len(notes)), cut : BOOLEAN]]
    BY DEF NoteInit
  <2> QED
    BY <2>2, <2>3, <2>4, <2>5, <2>6, <2>7 DEF NoteTypeOK, NoteRow
<1>2. NoteInv /\ NoteTypeOK /\ [NoteNext]_noteVars => NoteTypeOK'
  <2> SUFFICES ASSUME NoteInv, NoteTypeOK, [NoteNext]_noteVars PROVE NoteTypeOK'
    OBVIOUS
  <2>1. \A t \in Threads : /\ job[t].step \in {"insert", "deliver"} => job[t].todo # <<>>
                           /\ job[t].step = "answer" => job[t].who \in Readers
    BY DEF NoteInv, Jobs, JobOf
  <2>2. \A t \in Threads :
          AlertAdmins(t) \/ FindDuplicate(t) \/ Deliver(t) \/ DeliveryRaises(t)
            \/ (\E u \in Readers : Backfill(t, u) \/ Open(t, u)) => NoteTypeOK'
    BY <2>1, JobStepsTyped
  <2>3. \A t \in Threads : Insert(t) \/ Suppress(t) \/ Prune(t) \/ LookAt(t) \/ MarkStale(t)
                            \/ AnswerUnread(t) => NoteTypeOK'
    BY <2>1, RowStepsTyped
  <2>4. NoteTick \/ (\E a \in Articles : Process(a) \/ Moderate(a) \/ DeleteArticle(a))
          \/ (\E u \in Readers : SaveKeywords(u) \/ ReadNotes(u)) \/ UNCHANGED noteVars => NoteTypeOK'
    BY QuietStepsTyped
  <2> QED
    BY <2>2, <2>3, <2>4 DEF NoteNext
<1> QED
  BY NoteAlways, <1>1, <1>2, PTL DEF NoteSpec

-----------------------------------------------------------------------------
(* Conversations.                                                            *)

\* A request, and a conversation, have their fields.
IsChat(q) == DOMAIN q = {"pc", "conv", "at", "row", "todo", "rows", "stale"}
IsConv(v) == DOMAIN v = {"turns", "at", "legacy", "split"}

Writing(q, c) == chat[q].pc = "write" /\ chat[q].conv = c
Stored(r) == chat[r].pc \in {"trim", "drop", "done"}

ChatRows ==
  /\ lastId \in Nat /\ Present \subseteq 1..lastId
  /\ \A c \in Present : IsConv(convs[c]) /\ Listed(convs[c].turns)
  /\ DOMAIN chat = Requests /\ \A r \in Requests : IsChat(chat[r])
  /\ \A r \in Askers : chat[r].conv \in 0..lastId /\ (chat[r].pc = "write" => Listed(chat[r].row))

\* Whoever holds a conversation that another one holds too was raced.
RacesSeen ==
  \A q, r \in Askers : q # r /\ chat[q].pc = "write" /\ Writing(r, chat[q].conv) => q \in raced

\* The exchange of r is in the turns s, or newer ones have filled them.
Holds(r, s) == r \in ToSet(s) \/ Len(s) = MaxMessages

\* What is stored and was not raced is in the conversation, and in what others read of it.
NothingLost ==
  \A r \in Askers \ raced : Stored(r) /\ chat[r].conv \in Present =>
    /\ Holds(r, convs[chat[r].conv].turns)
    /\ \A q \in Askers : Writing(q, chat[r].conv) => Holds(r, chat[q].row)

\* Two versions of a conversation differ in legacy turns that were removed only.
Agree(s, t) == Turns \cap ToSet(s) \subseteq ToSet(t) \cup gone

VersionsAgree ==
  \A q \in Askers : chat[q].pc = "write" /\ chat[q].conv \in Present =>
    /\ Agree(chat[q].row, convs[chat[q].conv].turns)
    /\ Agree(convs[chat[q].conv].turns, chat[q].row)
    /\ \A p \in Askers : Writing(p, chat[q].conv) => Agree(chat[q].row, chat[p].row)

\* The turn t is in a conversation, or was removed with one.
Safe(t) == t \in gone \/ \E c \in Present : t \in ToSet(convs[c].turns)

\* A turn that an import no longer has to do is in a conversation, or was in one.
Imports ==
  /\ Listed(history)
  /\ \A t \in Turns : t \in ToSet(history) \/ Safe(t)
  /\ \A r \in Listers : chat[r].pc = "import" =>
       /\ Listed(chat[r].todo)
       /\ \A t \in Turns : t \in ToSet(chat[r].todo) \/ Safe(t)

ChatInv == ChatRows /\ RacesSeen /\ NothingLost /\ VersionsAgree /\ Imports

\* The last turns after one more: the new one, and all or MaxMessages of them.
LEMMA LastTurnsIs ==
  ASSUME NEW s, Listed(s), NEW e
  PROVE  LET t == LastTurns(Append(s, e)) IN
         /\ Listed(t) /\ ToSet(t) \subseteq ToSet(s) \cup {e} /\ e \in ToSet(t)
         /\ (ToSet(s) \subseteq ToSet(t) \/ Len(t) = MaxMessages)
         /\ (Len(s) = MaxMessages => Len(t) = MaxMessages)
<1> DEFINE T == ToSet(s) \cup {e}
           a == Append(s, e)
           n == Len(s) + 1
           f == IF 1 <= n - MaxMessages + 1 THEN n - MaxMessages + 1 ELSE 1
           t == SubSeq(a, f, n)
<1>1. s \in Seq(ToSet(s)) /\ Len(s) \in Nat
  BY DEF Listed
<1>2. ToSet(s) \subseteq T /\ e \in T
  OBVIOUS
<1>3. MaxMessages \in Nat \ {0}
  BY ChatAssumption
<1>4. s \in Seq(T)
  BY <1>1, <1>2
<1>5. a \in Seq(T) /\ Len(a) = n /\ a[n] = e /\ \A i \in 1..Len(s) : a[i] = s[i]
  <2>1. \A x, S : x \in Seq(S) /\ e \in S => /\ Append(x, e) \in Seq(S) /\ Len(Append(x, e)) = Len(x) + 1
                                            /\ Append(x, e)[Len(x) + 1] = e
                                            /\ \A i \in 1..Len(x) : Append(x, e)[i] = x[i]
    OBVIOUS
  <2> HIDE DEF T
  <2> QED
    BY <1>2, <1>4, <2>1
<1>6. f \in 1..n /\ n \in Nat /\ n - f + 1 \in Nat /\ n - f + 1 >= 1
  BY <1>1, <1>3
<1>7. LastTurns(a) = t
  <2>1. Max({1, n - MaxMessages + 1}) = f
    BY <1>1, <1>3, MaxOfTwo
  <2> HIDE DEF f
  <2> QED
    BY <1>5, <2>1 DEF LastTurns
<1>8. /\ t \in Seq(T) /\ Len(t) = n - f + 1 /\ DOMAIN t = 1..(n - f + 1)
      /\ \A i \in 1..(n - f + 1) : t[i] = a[i + f - 1]
  <2> HIDE DEF a, f, n, T
  <2> QED
    BY <1>5, <1>6
<1>9. \A i \in 1..Len(t) : t[i] \in T
  <2>1. t \in Seq(T)
    BY <1>8
  <2> HIDE DEF t, T
  <2> QED
    BY <2>1
<1>10. Listed(t)
  <2>1. \A i \in 1..Len(t) : t[i] \in ToSet(t)
    BY <1>8 DEF ToSet
  <2>2. t \in Seq(T)
    BY <1>8
  <2> HIDE DEF t, T
  <2> QED
    BY <2>1, <2>2 DEF Listed
<1>11. e \in ToSet(t)
  <2>1. n - f + 1 \in DOMAIN t /\ t[n - f + 1] = a[n]
    BY <1>6, <1>8
  <2> HIDE DEF t
  <2> QED
    BY <1>5, <2>1 DEF ToSet
<1>12. ToSet(t) \subseteq T
  BY <1>8, <1>9 DEF ToSet
<1>13. ToSet(s) \subseteq ToSet(t) \/ Len(t) = MaxMessages
  <2>1. CASE f = 1
    <3> SUFFICES ASSUME NEW i \in DOMAIN s PROVE s[i] \in ToSet(t)
      BY DEF ToSet
    <3>1. i \in 1..Len(s) /\ i \in DOMAIN t /\ t[i] = a[i]
      BY <1>1, <1>8, <2>1
    <3> HIDE DEF t
    <3> QED
      BY <1>5, <3>1 DEF ToSet
  <2>2. CASE f # 1
    BY <1>3, <1>6, <1>8, <2>2
  <2> QED
    BY <2>1, <2>2
<1>14. Len(s) = MaxMessages => Len(t) = MaxMessages
  BY <1>3, <1>8
<1> HIDE DEF t, T
<1> QED
  BY <1>7, <1>10, <1>11, <1>12, <1>13, <1>14 DEF T

\* What a step may do to the request q that writes nothing and has read no conversation.
Calm(q) ==
  \/ chat'[q] = chat[q]
  \/ /\ IsChat(chat'[q])
     /\ q \in Askers => /\ chat'[q].conv \in 0..lastId' /\ chat'[q].pc # "write"
                        /\ Stored(q)' => Stored(q) /\ chat'[q].conv = chat[q].conv

(* A step that leaves the turns of what it neither inserts nor removes.      *)
LEMMA CalmInv ==
  ASSUME ChatInv, DOMAIN chat' = Requests, \A q \in Requests : Calm(q),
         lastId' \in Nat, lastId <= lastId', raced' = raced, gone \subseteq gone',
         Present' \subseteq 1..lastId',
         \A c \in Present' : /\ IsConv(convs'[c]) /\ Listed(convs'[c].turns)
                             /\ c \in Present => convs'[c].turns = convs[c].turns
                             /\ c \notin Present => c > lastId
  PROVE  ChatRows' /\ RacesSeen' /\ NothingLost' /\ VersionsAgree'
<1>0. ChatRows /\ RacesSeen /\ NothingLost /\ VersionsAgree
  BY DEF ChatInv
<1>1. \A q \in Askers : q \in Requests
  BY DEF Requests
<1>2. ChatRows'
  <2>1. \A q \in Requests : IsChat(chat'[q])
    BY <1>0 DEF Calm, ChatRows
  <2>2. \A q \in Askers : chat'[q].conv \in 0..lastId' /\ (chat'[q].pc = "write" => Listed(chat'[q].row))
    BY <1>0, <1>1 DEF Calm, ChatRows
  <2> QED
    BY <2>1, <2>2 DEF ChatRows, IsChat, IsConv, Listed
<1>3. \A q \in Askers : chat'[q].pc = "write" => chat'[q] = chat[q]
  BY <1>1 DEF Calm
<1>4. \A q \in Askers : Stored(q)' => Stored(q) /\ chat'[q].conv = chat[q].conv
  BY <1>1 DEF Calm, Stored
<1>5. RacesSeen'
  BY <1>0, <1>3 DEF RacesSeen, Writing
<1>6. \A q \in Askers : chat[q].conv \in Present' => chat[q].conv \in Present
  BY <1>0 DEF ChatRows
<1>7. NothingLost'
  <2> SUFFICES ASSUME NEW r \in Askers \ raced, Stored(r)', chat'[r].conv \in Present'
               PROVE  /\ Holds(r, convs'[chat'[r].conv].turns)
                      /\ \A q \in Askers : Writing(q, chat[r].conv)' => Holds(r, chat'[q].row)
    BY DEF NothingLost, Holds
  <2>1. Stored(r) /\ chat'[r].conv = chat[r].conv /\ chat[r].conv \in Present
    BY <1>4, <1>6
  <2>2. /\ Holds(r, convs[chat[r].conv].turns)
        /\ \A q \in Askers : Writing(q, chat[r].conv) => Holds(r, chat[q].row)
    BY <1>0, <2>1 DEF NothingLost
  <2>3. convs'[chat'[r].conv].turns = convs[chat[r].conv].turns
    BY <2>1
  <2>4. \A q \in Askers : Writing(q, chat[r].conv)' => Writing(q, chat[r].conv) /\ chat'[q] = chat[q]
    BY <1>3, <2>1 DEF Writing
  <2> QED
    BY <2>2, <2>3, <2>4
<1>8. VersionsAgree'
  <2> SUFFICES ASSUME NEW q \in Askers, chat'[q].pc = "write", chat'[q].conv \in Present'
               PROVE  /\ Agree(chat[q].row, convs[chat[q].conv].turns)'
                      /\ Agree(convs[chat[q].conv].turns, chat[q].row)'
                      /\ \A p \in Askers : Writing(p, chat[q].conv)' => Agree(chat[q].row, chat[p].row)'
    BY DEF VersionsAgree
  <2>1. chat'[q] = chat[q] /\ chat[q].conv \in Present
    BY <1>3, <1>6
  <2>2. convs'[chat[q].conv].turns = convs[chat[q].conv].turns
    BY <2>1
  <2>3. /\ Agree(chat[q].row, convs[chat[q].conv].turns)
        /\ Agree(convs[chat[q].conv].turns, chat[q].row)
        /\ \A p \in Askers : Writing(p, chat[q].conv) => Agree(chat[q].row, chat[p].row)
    BY <1>0, <2>1 DEF VersionsAgree
  <2>4. \A p \in Askers : Writing(p, chat[q].conv)' => Writing(p, chat[q].conv) /\ chat'[p] = chat[p]
    BY <1>3, <2>1 DEF Writing
  <2> QED
    BY <2>1, <2>2, <2>3, <2>4 DEF Agree
<1> QED
  BY <1>2, <1>5, <1>7, <1>8

(* An import goes on unless a turn that is safe becomes unsafe.              *)
LEMMA ImportsKept ==
  ASSUME Imports, history' = history, \A t \in Turns : Safe(t) => Safe(t)',
         \A r \in Listers : chat'[r].pc = "import" => chat[r].pc = "import" /\ chat'[r].todo = chat[r].todo
  PROVE  Imports'
BY DEF Imports

\* A conversation that is deleted takes its turns to those gone.
LEMMA DropSafe ==
  ASSUME NEW S, Drop(S), NEW t \in Turns, Safe(t)
  PROVE  Safe(t)'
<1>1. CASE t \in gone
  BY <1>1 DEF Drop, Safe
<1>2. ASSUME NEW c \in Present, t \in ToSet(convs[c].turns) PROVE Safe(t)'
  <2>1. CASE c \in S
    <3>1. t \in UNION {ToSet(convs[d].turns) : d \in S \cap Present}
      BY <1>2, <2>1
    <3>2. t \in gone'
      BY <3>1 DEF Drop
    <3> QED
      BY <3>2 DEF Safe
  <2>2. CASE c \notin S
    <3>1. c \in Present' /\ convs'[c] = convs[c]
      BY <2>2 DEF Drop, Present
    <3> QED
      BY <1>2, <3>1 DEF Safe
  <2> QED
    BY <2>1, <2>2
<1> QED
  BY <1>1, <1>2 DEF Safe

(* Conversations are removed.                                                *)
LEMMA DropRows ==
  ASSUME ChatInv, NEW S, Drop(S), UNCHANGED lastId
  PROVE  /\ gone \subseteq gone' /\ Present' \subseteq 1..lastId'
         /\ \A c \in Present' : /\ IsConv(convs'[c]) /\ Listed(convs'[c].turns)
                                /\ c \in Present /\ convs'[c].turns = convs[c].turns
<1>1. lastId \in Nat /\ Present \subseteq 1..lastId
      /\ \A c \in Present : IsConv(convs[c]) /\ Listed(convs[c].turns)
  BY DEF ChatInv, ChatRows
<1>2. gone \subseteq gone'
  BY DEF Drop
<1>3. Present' = Present \ S /\ \A c \in Present' : convs'[c] = convs[c]
  BY DEF Drop, Present
<1> QED
  BY <1>1, <1>2, <1>3

\* A conversation that is written keeps the turns that are safe.
LEMMA FiledSafe ==
  ASSUME ChatInv, NEW v, convs' = Filed(NextId, v, convs), IsConv(v), Listed(v.turns),
         lastId' = NextId, gone' = gone
  PROVE  /\ lastId' \in Nat /\ lastId <= lastId' /\ Present' \subseteq 1..lastId'
         /\ \A c \in Present' : /\ IsConv(convs'[c]) /\ Listed(convs'[c].turns)
                                /\ c \in Present => convs'[c].turns = convs[c].turns
                                /\ c \notin Present => c > lastId
         /\ \A t : Safe(t) \/ t \in ToSet(v.turns) => Safe(t)'
<1>1. lastId \in Nat /\ Present \subseteq 1..lastId /\ NextId = lastId + 1
      /\ \A c \in Present : IsConv(convs[c]) /\ Listed(convs[c].turns)
  BY DEF ChatInv, ChatRows, NextId
<1>2. Present' = Present \cup {NextId} /\ NextId \notin Present /\ convs'[NextId] = v
      /\ \A c \in Present : convs'[c] = convs[c]
  BY <1>1 DEF Filed, Present
<1>3. \A t : Safe(t) \/ t \in ToSet(v.turns) => Safe(t)'
  BY <1>2 DEF Safe
<1>4. lastId' = lastId + 1 /\ lastId' \in Nat /\ lastId <= lastId' /\ Present' \subseteq 1..lastId'
  BY <1>1, <1>2
<1>5. ASSUME NEW c \in Present'
      PROVE  /\ IsConv(convs'[c]) /\ Listed(convs'[c].turns)
             /\ c \in Present => convs'[c].turns = convs[c].turns
             /\ c \notin Present => c > lastId
  <2>1. CASE c \in Present
    BY <1>1, <1>2, <2>1
  <2>2. CASE c = NextId
    BY <1>1, <1>2, <2>2
  <2> QED
    BY <1>2, <2>1, <2>2
<1> QED
  BY <1>3, <1>4, <1>5

\* Only the request r goes on.
Alone(r) == DOMAIN chat' = Requests /\ \A q \in Requests \ {r} : chat'[q] = chat[q]

(* A request goes on without having read or written a conversation.          *)
LEMMA OneCalm ==
  ASSUME ChatInv, NEW r \in Requests, Alone(r), lastId' \in Nat, lastId <= lastId',
         IsChat(chat'[r]), r \in Askers => chat'[r].conv \in 0..lastId' /\ chat'[r].pc # "write"
                             /\ (Stored(r)' => Stored(r) /\ chat'[r].conv = chat[r].conv)
  PROVE  DOMAIN chat' = Requests /\ \A q \in Requests : Calm(q)
BY DEF Alone, Calm

(* The old history of a step that neither imports nor removes.               *)
LEMMA OneImport ==
  ASSUME ChatInv, NEW r \in Requests, Alone(r), history' = history,
         \A t \in Turns : Safe(t) => Safe(t)', r \in Askers \/ chat'[r].pc # "import"
  PROVE  Imports'
<1>1. \A q \in Listers : chat'[q].pc = "import" => chat'[q] = chat[q]
  BY ChatAssumption DEF Alone, Requests
<1> QED
  BY <1>1, ImportsKept DEF ChatInv

(* The conversations stay as they are.                                       *)
LEMMA StillConvs ==
  ASSUME ChatInv, UNCHANGED <<convs, lastId>>, gone' = gone
  PROVE  /\ lastId' \in Nat /\ lastId <= lastId' /\ gone \subseteq gone' /\ Present' \subseteq 1..lastId'
         /\ \A c \in Present' : /\ IsConv(convs'[c]) /\ Listed(convs'[c].turns)
                                /\ c \in Present => convs'[c].turns = convs[c].turns
                                /\ c \notin Present => c > lastId
         /\ \A t \in Turns : Safe(t) => Safe(t)'
<1>1. lastId \in Nat /\ Present \subseteq 1..lastId
      /\ \A c \in Present : IsConv(convs[c]) /\ Listed(convs[c].turns)
  BY DEF ChatInv, ChatRows
<1>2. Present' = Present
  BY DEF Present
<1>3. \A t \in Turns : Safe(t) => Safe(t)'
  BY <1>2 DEF Safe
<1> QED
  BY <1>1, <1>2, <1>3

(* A request goes on, and the conversations stay as they are.                *)
LEMMA QuietInv ==
  ASSUME ChatInv, NEW r \in Requests, Alone(r), UNCHANGED <<convs, lastId, history, gone, raced>>,
         IsChat(chat'[r]), r \in Askers \/ chat'[r].pc # "import",
         r \in Askers => chat'[r].conv \in 0..lastId /\ chat'[r].pc # "write"
                             /\ (Stored(r)' => Stored(r) /\ chat'[r].conv = chat[r].conv)
  PROVE  ChatInv'
<1>1. /\ lastId' \in Nat /\ lastId <= lastId' /\ gone \subseteq gone' /\ Present' \subseteq 1..lastId'
      /\ \A c \in Present' : /\ IsConv(convs'[c]) /\ Listed(convs'[c].turns)
                             /\ c \in Present => convs'[c].turns = convs[c].turns
                             /\ c \notin Present => c > lastId
      /\ \A t \in Turns : Safe(t) => Safe(t)'
  BY StillConvs
<1>2. DOMAIN chat' = Requests /\ \A q \in Requests : Calm(q)
  BY <1>1, OneCalm
<1>3. ChatRows' /\ RacesSeen' /\ NothingLost' /\ VersionsAgree'
  BY <1>1, <1>2, CalmInv
<1>4. Imports'
  BY <1>1, OneImport
<1> QED
  BY <1>3, <1>4 DEF ChatInv

\* A request has its fields.
LEMMA RequestRow ==
  ASSUME ChatInv, NEW r \in Requests
  PROVE  /\ IsChat(chat[r]) /\ DOMAIN chat = Requests /\ IsChat(Idle)
         /\ r \in Askers => chat[r].conv \in 0..lastId
BY DEF ChatInv, ChatRows, IsChat, Idle

\* Reading the earlier messages keeps the invariant,
LEMMA PriorMessagesInv ==
  ASSUME ChatInv, NEW r \in Askers, NEW c, PriorMessages(r, c)
  PROVE  ChatInv'
<1>0. r \in Requests /\ IsChat(chat[r]) /\ DOMAIN chat = Requests
  BY RequestRow DEF Requests
<1>1. Alone(r) /\ IsChat(chat'[r]) /\ chat'[r].pc = "answer" /\ chat'[r].conv = c
  BY <1>0 DEF PriorMessages, Alone, IsChat
<1>2. c \in 0..lastId
  BY DEF PriorMessages, ChatInv, ChatRows
<1> QED
  BY <1>0, <1>1, <1>2, QuietInv DEF PriorMessages, Stored

\* ... as do the look for conversations too many,
LEMMA TrimLookInv ==
  ASSUME ChatInv, NEW r \in Askers, TrimLook(r)
  PROVE  ChatInv'
<1>0. r \in Requests /\ IsChat(chat[r]) /\ DOMAIN chat = Requests /\ chat[r].conv \in 0..lastId
  BY RequestRow DEF Requests
<1>1. Alone(r) /\ IsChat(chat'[r]) /\ chat'[r].pc \in {"done", "drop"} /\ chat'[r].conv = chat[r].conv
  BY <1>0 DEF TrimLook, Alone, IsChat
<1>2. Stored(r)
  BY DEF TrimLook, Stored
<1> QED
  BY <1>0, <1>1, <1>2, QuietInv DEF TrimLook

\* ... the death of a request,
LEMMA DieInv ==
  ASSUME ChatInv, NEW r \in Requests, Die(r)
  PROVE  ChatInv'
<1>0. IsChat(chat[r]) /\ DOMAIN chat = Requests /\ IsChat(Idle)
      /\ (r \in Askers => chat[r].conv \in 0..lastId)
  BY RequestRow
<1>1. Alone(r) /\ IsChat(chat'[r]) /\ chat'[r].pc = "dead" /\ chat'[r].conv = chat[r].conv
  BY <1>0 DEF Die, Forget, Alone, IsChat, Idle
<1> QED
  BY <1>0, <1>1, QuietInv DEF Die, Stored

\* ... the removal of the oldest,
LEMMA TrimDropInv ==
  ASSUME ChatInv, NEW r \in Askers, TrimDrop(r)
  PROVE  ChatInv'
<1>0. r \in Requests /\ IsChat(chat[r]) /\ DOMAIN chat = Requests /\ chat[r].conv \in 0..lastId
  BY RequestRow DEF Requests
<1>1. Alone(r) /\ IsChat(chat'[r]) /\ chat'[r].pc = "done" /\ chat'[r].conv = chat[r].conv
  BY <1>0, RequestRow DEF TrimDrop, Forget, Alone, IsChat, Idle
<1>2. /\ gone \subseteq gone' /\ Present' \subseteq 1..lastId'
      /\ \A c \in Present' : /\ IsConv(convs'[c]) /\ Listed(convs'[c].turns)
                             /\ c \in Present /\ convs'[c].turns = convs[c].turns
  BY DropRows DEF TrimDrop
<1>3. lastId' = lastId /\ lastId \in Nat /\ lastId <= lastId' /\ history' = history /\ raced' = raced /\ Stored(r)
  BY DEF TrimDrop, ChatInv, ChatRows, Stored
<1>4. DOMAIN chat' = Requests /\ \A q \in Requests : Calm(q)
  BY <1>0, <1>1, <1>3, OneCalm
<1>5. ChatRows' /\ RacesSeen' /\ NothingLost' /\ VersionsAgree'
  BY <1>2, <1>3, <1>4, CalmInv
<1>6. \A t \in Turns : Safe(t) => Safe(t)'
  BY DropSafe DEF TrimDrop
<1>7. Imports'
  BY <1>0, <1>1, <1>3, <1>6, OneImport
<1> QED
  BY <1>5, <1>7 DEF ChatInv

\* ... a deletion by the user,
LEMMA DeleteConversationInv ==
  ASSUME ChatInv, NEW c, DeleteConversation(c)
  PROVE  ChatInv'
<1>1. chat' = chat /\ DOMAIN chat' = Requests /\ \A q \in Requests : Calm(q)
  BY DEF DeleteConversation, Calm, ChatInv, ChatRows
<1>2. /\ gone \subseteq gone' /\ Present' \subseteq 1..lastId'
      /\ \A d \in Present' : /\ IsConv(convs'[d]) /\ Listed(convs'[d].turns)
                             /\ d \in Present /\ convs'[d].turns = convs[d].turns
  BY DropRows DEF DeleteConversation
<1>3. lastId' = lastId /\ lastId \in Nat /\ lastId <= lastId' /\ history' = history /\ raced' = raced
  BY DEF DeleteConversation, ChatInv, ChatRows
<1>5. ChatRows' /\ RacesSeen' /\ NothingLost' /\ VersionsAgree'
  BY <1>1, <1>2, <1>3, CalmInv
<1>6. \A t \in Turns : Safe(t) => Safe(t)'
  BY DropSafe DEF DeleteConversation
<1>7. Imports'
  BY <1>1, <1>3, <1>6, ImportsKept DEF ChatInv
<1> QED
  BY <1>5, <1>7 DEF ChatInv

\* ... and a new conversation.
LEMMA InsertConvInv ==
  ASSUME ChatInv, NEW r \in Askers, InsertConv(r)
  PROVE  ChatInv'
<1> DEFINE v == Conv(<<>>, chat[r].at, FALSE, FALSE)
<1>0. r \in Requests /\ IsChat(chat[r]) /\ DOMAIN chat = Requests /\ chat[r].conv \in 0..lastId
  BY RequestRow DEF Requests
<1>1. Alone(r) /\ IsChat(chat'[r]) /\ chat'[r].pc = "reread" /\ chat'[r].conv = NextId
  BY <1>0 DEF InsertConv, Alone, IsChat
<1>2. IsConv(v) /\ v.turns = <<>> /\ Listed(v.turns)
  BY FewListed DEF Conv, IsConv
<1>3. convs' = Filed(NextId, v, convs) /\ lastId' = NextId /\ gone' = gone /\ history' = history /\ raced' = raced
  BY DEF InsertConv
<1> HIDE DEF v
<1>4. /\ lastId' \in Nat /\ lastId <= lastId' /\ Present' \subseteq 1..lastId'
      /\ \A c \in Present' : /\ IsConv(convs'[c]) /\ Listed(convs'[c].turns)
                             /\ c \in Present => convs'[c].turns = convs[c].turns
                             /\ c \notin Present => c > lastId
      /\ \A t : Safe(t) => Safe(t)'
  BY <1>2, <1>3, FiledSafe
<1>5. DOMAIN chat' = Requests /\ \A q \in Requests : Calm(q)
  BY <1>0, <1>1, <1>3, <1>4, OneCalm DEF Stored
<1>6. ChatRows' /\ RacesSeen' /\ NothingLost' /\ VersionsAgree'
  BY <1>3, <1>4, <1>5, CalmInv
<1>7. Imports'
  BY <1>0, <1>1, <1>3, <1>4, OneImport
<1> QED
  BY <1>6, <1>7 DEF ChatInv

(* What a lister goes on with.                                               *)
LEMMA NextRowIs ==
  ASSUME NEW rows
  PROVE  IsChat(NextRow(rows)) /\ NextRow(rows).pc \in {"done", "mark", "unmake"}
BY DEF NextRow, IsChat, Idle

\* Requests that list are none of those that ask.
LEMMA ListerApart == \A r \in Listers : r \in Requests /\ r \notin Askers
BY ChatAssumption DEF Requests

\* The import reads the old history,
LEMMA FindHistoryInv ==
  ASSUME ChatInv, NEW r \in Listers, FindHistory(r)
  PROVE  ChatInv'
<1>0. r \in Requests /\ r \notin Askers /\ IsChat(chat[r]) /\ DOMAIN chat = Requests
  BY RequestRow, ListerApart
<1>1. Alone(r) /\ IsChat(chat'[r]) /\ chat'[r].todo = history
  BY <1>0 DEF FindHistory, Alone, IsChat
<1>2. /\ lastId' \in Nat /\ lastId <= lastId' /\ gone \subseteq gone' /\ Present' \subseteq 1..lastId'
      /\ \A c \in Present' : /\ IsConv(convs'[c]) /\ Listed(convs'[c].turns)
                             /\ c \in Present => convs'[c].turns = convs[c].turns
                             /\ c \notin Present => c > lastId
      /\ \A t \in Turns : Safe(t) => Safe(t)'
  BY StillConvs DEF FindHistory
<1>3. DOMAIN chat' = Requests /\ \A q \in Requests : Calm(q)
  BY <1>0, <1>1, <1>2, OneCalm
<1>4. ChatRows' /\ RacesSeen' /\ NothingLost' /\ VersionsAgree'
  BY <1>2, <1>3, CalmInv DEF FindHistory
<1>5. Listed(history) /\ \A t \in Turns : t \in ToSet(history) \/ Safe(t)
  BY DEF ChatInv, Imports
<1>6. \A q \in Listers \ {r} : chat'[q] = chat[q]
  BY <1>1 DEF Alone, Requests
<1>7. Imports'
  <2>1. history' = history
    BY DEF FindHistory
  <2>2. ASSUME NEW q \in Listers, chat'[q].pc = "import"
        PROVE  Listed(chat'[q].todo) /\ \A t \in Turns : t \in ToSet(chat'[q].todo) \/ Safe(t)'
    <3>1. CASE q = r
      BY <1>1, <1>2, <1>5, <3>1
    <3>2. CASE q # r
      BY <1>2, <1>6, <2>2, <3>2 DEF ChatInv, Imports
    <3> QED
      BY <3>1, <3>2
  <2> QED
    BY <1>2, <1>5, <2>1, <2>2 DEF Imports, Listed
<1> QED
  BY <1>4, <1>7 DEF ChatInv

\* ... files its turns one by one,
LEMMA ImportTurnInv ==
  ASSUME ChatInv, NEW r \in Listers, ImportTurn(r)
  PROVE  ChatInv'
<1> DEFINE h == Head(chat[r].todo)
           v == Conv(<<h>>, chatClock, TRUE, FALSE)
<1>0. r \in Requests /\ r \notin Askers /\ IsChat(chat[r]) /\ DOMAIN chat = Requests
  BY RequestRow, ListerApart
<1>1. Alone(r) /\ IsChat(chat'[r]) /\ chat'[r].todo = Tail(chat[r].todo)
  BY <1>0 DEF ImportTurn, Alone, IsChat
<1>2. IsConv(v) /\ v.turns = <<h>> /\ Listed(v.turns) /\ ToSet(v.turns) = {h}
  BY FewListed DEF Conv, IsConv
<1>3. convs' = Filed(NextId, v, convs) /\ lastId' = NextId /\ gone' = gone /\ history' = history /\ raced' = raced
  BY DEF ImportTurn
<1> HIDE DEF v
<1>4. /\ lastId' \in Nat /\ lastId <= lastId' /\ Present' \subseteq 1..lastId'
      /\ \A c \in Present' : /\ IsConv(convs'[c]) /\ Listed(convs'[c].turns)
                             /\ c \in Present => convs'[c].turns = convs[c].turns
                             /\ c \notin Present => c > lastId
      /\ \A t : Safe(t) \/ t \in ToSet(v.turns) => Safe(t)'
  BY <1>2, <1>3, FiledSafe
<1>5. DOMAIN chat' = Requests /\ \A q \in Requests : Calm(q)
  BY <1>0, <1>1, <1>4, OneCalm
<1>6. ChatRows' /\ RacesSeen' /\ NothingLost' /\ VersionsAgree'
  BY <1>3, <1>4, <1>5, CalmInv
<1>7. \A q \in Listers \ {r} : chat'[q] = chat[q]
  BY <1>1 DEF Alone, Requests
<1>8. /\ Listed(chat[r].todo) /\ \A t \in Turns : t \in ToSet(chat[r].todo) \/ Safe(t)
      /\ chat[r].todo # <<>>
  BY DEF ChatInv, Imports, ImportTurn
<1>9. Listed(chat'[r].todo) /\ ToSet(chat[r].todo) \subseteq {h} \cup ToSet(chat'[r].todo)
  BY <1>1, <1>8, FirstTaken
<1> HIDE DEF h
<1>10. Imports'
  <2>2. ASSUME NEW q \in Listers, chat'[q].pc = "import"
        PROVE  Listed(chat'[q].todo) /\ \A t \in Turns : t \in ToSet(chat'[q].todo) \/ Safe(t)'
    <3>1. CASE q = r
      BY <1>2, <1>4, <1>8, <1>9, <3>1
    <3>2. CASE q # r
      BY <1>4, <1>7, <2>2, <3>2 DEF ChatInv, Imports
    <3> QED
      BY <3>1, <3>2
  <2>3. Listed(history') /\ \A t \in Turns : t \in ToSet(history') \/ Safe(t)'
    BY <1>3, <1>4 DEF ChatInv, Imports
  <2> QED
    BY <2>2, <2>3 DEF Imports, Listed
<1> QED
  BY <1>6, <1>10 DEF ChatInv

\* ... empties it when all are filed,
LEMMA EmptyHistoryInv ==
  ASSUME ChatInv, NEW r \in Listers, EmptyHistory(r)
  PROVE  ChatInv'
<1>0. r \in Requests /\ r \notin Askers /\ IsChat(chat[r]) /\ DOMAIN chat = Requests
  BY RequestRow, ListerApart
<1>1. Alone(r) /\ IsChat(chat'[r]) /\ chat'[r].pc = "split"
  BY <1>0 DEF EmptyHistory, GoOn, Alone, IsChat
<1>2. /\ lastId' \in Nat /\ lastId <= lastId' /\ gone \subseteq gone' /\ Present' \subseteq 1..lastId'
      /\ \A c \in Present' : /\ IsConv(convs'[c]) /\ Listed(convs'[c].turns)
                             /\ c \in Present => convs'[c].turns = convs[c].turns
                             /\ c \notin Present => c > lastId
      /\ \A t \in Turns : Safe(t) => Safe(t)'
  BY StillConvs DEF EmptyHistory
<1>3. DOMAIN chat' = Requests /\ \A q \in Requests : Calm(q)
  BY <1>0, <1>1, <1>2, OneCalm
<1>4. ChatRows' /\ RacesSeen' /\ NothingLost' /\ VersionsAgree'
  BY <1>2, <1>3, CalmInv DEF EmptyHistory
<1>5. \A t \in Turns : Safe(t)'
  <2>1. \A t \in Turns : t \in ToSet(<<>>) \/ Safe(t)
    BY DEF EmptyHistory, ChatInv, Imports
  <2> QED
    BY <1>2, <2>1, FewListed
<1>6. \A q \in Listers : chat'[q].pc = "import" => chat'[q] = chat[q]
  BY <1>1 DEF Alone, Requests
<1>7. Listed(history')
  BY FewListed DEF EmptyHistory
<1>8. Imports'
  <2>2. ASSUME NEW q \in Listers, chat'[q].pc = "import"
        PROVE  Listed(chat'[q].todo) /\ \A t \in Turns : t \in ToSet(chat'[q].todo) \/ Safe(t)'
    BY <1>5, <1>6, <2>2 DEF ChatInv, Imports
  <2> QED
    BY <1>5, <1>7, <2>2 DEF Imports, Listed
<1> QED
  BY <1>4, <1>8 DEF ChatInv

\* ... or the user clears it.
LEMMA ClearHistoryInv ==
  ASSUME ChatInv, ClearHistory
  PROVE  ChatInv'
<1>1. chat' = chat /\ convs' = convs /\ lastId' = lastId /\ raced' = raced /\ history' = <<>>
      /\ gone' = gone \cup ToSet(history)
  BY DEF ClearHistory
<1>2. DOMAIN chat' = Requests /\ \A q \in Requests : Calm(q)
  BY <1>1 DEF Calm, ChatInv, ChatRows
<1>3. /\ lastId' \in Nat /\ lastId <= lastId' /\ gone \subseteq gone' /\ Present' \subseteq 1..lastId'
      /\ Present' = Present
      /\ \A c \in Present' : /\ IsConv(convs'[c]) /\ Listed(convs'[c].turns)
                             /\ c \in Present /\ convs'[c].turns = convs[c].turns
  BY <1>1 DEF ChatInv, ChatRows, Present
<1>4. ChatRows' /\ RacesSeen' /\ NothingLost' /\ VersionsAgree'
  BY <1>1, <1>2, <1>3, CalmInv
<1>5. \A t \in Turns : Safe(t) => Safe(t)'
  BY <1>1, <1>3 DEF Safe
<1>6. \A t \in Turns : t \in ToSet(history) => Safe(t)'
  BY <1>1 DEF Safe
<1>7. Imports'
  <2>1. \A t \in Turns : Safe(t)'
    BY <1>5, <1>6 DEF ChatInv, Imports
  <2>2. Listed(history')
    BY <1>1, FewListed
  <2>3. ASSUME NEW q \in Listers, chat'[q].pc = "import" PROVE Listed(chat'[q].todo)
    BY <1>1, <2>3 DEF ChatInv, Imports
  <2> QED
    BY <2>1, <2>2, <2>3 DEF Imports, Listed
<1> QED
  BY <1>4, <1>7 DEF ChatInv

\* The next import not split yet is taken,
LEMMA FindUnsplitInv ==
  ASSUME ChatInv, NEW r \in Listers, FindUnsplit(r)
  PROVE  ChatInv'
<1>0. r \in Requests /\ r \notin Askers /\ IsChat(chat[r]) /\ DOMAIN chat = Requests
  BY RequestRow, ListerApart
<1>1. PICK rows : chat' = [chat EXCEPT ![r] = NextRow(rows)]
  BY DEF FindUnsplit
<1>2. Alone(r) /\ IsChat(chat'[r]) /\ chat'[r].pc \in {"done", "mark", "unmake"}
  BY <1>0, <1>1, NextRowIs DEF Alone
<1> QED
  BY <1>0, <1>2, QuietInv DEF FindUnsplit

\* ... also when another one is done,
LEMMA SplitDoneInv ==
  ASSUME ChatInv, NEW r \in Listers, SplitDone(r)
  PROVE  ChatInv'
<1>0. r \in Requests /\ r \notin Askers /\ IsChat(chat[r]) /\ DOMAIN chat = Requests
  BY RequestRow, ListerApart
<1>1. Alone(r) /\ IsChat(chat'[r]) /\ chat'[r].pc \in {"done", "mark", "unmake"}
  BY <1>0, NextRowIs DEF SplitDone, Alone
<1> QED
  BY <1>0, <1>1, QuietInv DEF SplitDone

\* ... marked,
LEMMA MarkSplitInv ==
  ASSUME ChatInv, NEW r \in Listers, MarkSplit(r)
  PROVE  ChatInv'
<1>0. r \in Requests /\ r \notin Askers /\ IsChat(chat[r]) /\ DOMAIN chat = Requests
  BY RequestRow, ListerApart
<1>1. Alone(r) /\ IsChat(chat'[r]) /\ chat'[r].pc \in {"done", "mark", "unmake"}
  BY <1>0, NextRowIs DEF MarkSplit, Alone
<1>2. lastId' = lastId /\ gone' = gone /\ history' = history /\ raced' = raced
      /\ lastId \in Nat /\ Present \subseteq 1..lastId /\ lastId <= lastId'
      /\ \A c \in Present : IsConv(convs[c]) /\ Listed(convs[c].turns)
  BY DEF MarkSplit, ChatInv, ChatRows
<1>3. Present' = Present /\ \A c \in Present : IsConv(convs'[c]) /\ convs'[c].turns = convs[c].turns
  BY <1>2 DEF MarkSplit, Present, IsConv
<1>4. DOMAIN chat' = Requests /\ \A q \in Requests : Calm(q)
  BY <1>0, <1>1, <1>2, OneCalm
<1>5. ChatRows' /\ RacesSeen' /\ NothingLost' /\ VersionsAgree'
  BY <1>2, <1>3, <1>4, CalmInv
<1>6. \A t \in Turns : Safe(t) => Safe(t)'
  BY <1>2, <1>3 DEF Safe
<1>7. Imports'
  BY <1>0, <1>1, <1>2, <1>6, OneImport
<1> QED
  BY <1>5, <1>7 DEF ChatInv

\* ... deleted,
LEMMA DeleteImportInv ==
  ASSUME ChatInv, NEW r \in Listers, DeleteImport(r)
  PROVE  ChatInv'
<1>0. r \in Requests /\ r \notin Askers /\ IsChat(chat[r]) /\ DOMAIN chat = Requests
  BY RequestRow, ListerApart
<1>1. Alone(r) /\ IsChat(chat'[r]) /\ chat'[r].pc = "remake"
  BY <1>0 DEF DeleteImport, Alone, IsChat
<1>2. /\ gone \subseteq gone' /\ Present' \subseteq 1..lastId'
      /\ \A c \in Present' : /\ IsConv(convs'[c]) /\ Listed(convs'[c].turns)
                             /\ c \in Present /\ convs'[c].turns = convs[c].turns
  BY DropRows DEF DeleteImport
<1>3. lastId' = lastId /\ lastId \in Nat /\ lastId <= lastId' /\ history' = history /\ raced' = raced
  BY DEF DeleteImport, ChatInv, ChatRows
<1>4. DOMAIN chat' = Requests /\ \A q \in Requests : Calm(q)
  BY <1>0, <1>1, <1>3, OneCalm
<1>5. ChatRows' /\ RacesSeen' /\ NothingLost' /\ VersionsAgree'
  BY <1>2, <1>3, <1>4, CalmInv
<1>6. \A t \in Turns : Safe(t) => Safe(t)'
  BY DropSafe DEF DeleteImport
<1>7. Imports'
  BY <1>0, <1>1, <1>3, <1>6, OneImport
<1> QED
  BY <1>5, <1>7 DEF ChatInv

\* ... and its turns filed again.
LEMMA ReinsertTurnInv ==
  ASSUME ChatInv, NEW r \in Listers, ReinsertTurn(r)
  PROVE  ChatInv'
<1> DEFINE h == Head(chat[r].todo)
           v == Conv(<<h>>, chatClock, TRUE, TRUE)
<1>0. r \in Requests /\ r \notin Askers /\ IsChat(chat[r]) /\ DOMAIN chat = Requests
  BY RequestRow, ListerApart
<1>1. Alone(r) /\ IsChat(chat'[r]) /\ chat'[r].pc = "remake"
  BY <1>0 DEF ReinsertTurn, Alone, IsChat
<1>2. IsConv(v) /\ v.turns = <<h>> /\ Listed(v.turns)
  BY FewListed DEF Conv, IsConv
<1>3. convs' = Filed(NextId, v, convs) /\ lastId' = NextId /\ gone' = gone /\ history' = history /\ raced' = raced
  BY DEF ReinsertTurn
<1> HIDE DEF v
<1>4. /\ lastId' \in Nat /\ lastId <= lastId' /\ Present' \subseteq 1..lastId'
      /\ \A c \in Present' : /\ IsConv(convs'[c]) /\ Listed(convs'[c].turns)
                             /\ c \in Present => convs'[c].turns = convs[c].turns
                             /\ c \notin Present => c > lastId
      /\ \A t : Safe(t) => Safe(t)'
  BY <1>2, <1>3, FiledSafe
<1>5. DOMAIN chat' = Requests /\ \A q \in Requests : Calm(q)
  BY <1>0, <1>1, <1>4, OneCalm
<1>6. ChatRows' /\ RacesSeen' /\ NothingLost' /\ VersionsAgree'
  BY <1>3, <1>4, <1>5, CalmInv
<1>7. Imports'
  BY <1>0, <1>1, <1>3, <1>4, OneImport
<1> QED
  BY <1>6, <1>7 DEF ChatInv

(* A request has read its conversation: whoever else holds it is raced.      *)
LEMMA TakenUp ==
  ASSUME ChatInv, NEW r \in Askers, Alone(r), UNCHANGED <<convs, history, lastId, gone>>,
         IsChat(chat'[r]), chat'[r].conv = chat[r].conv, chat'[r].pc = "write", chat[r].pc # "write",
         Listed(chat'[r].row),
         chat[r].conv \in Present => chat'[r].row = convs[chat[r].conv].turns,
         raced \subseteq raced',
         \A q \in Askers : Writing(q, chat[r].conv) => q \in raced' /\ r \in raced'
  PROVE  ChatInv'
<1> DEFINE c == chat[r].conv
<1>0. ChatRows /\ RacesSeen /\ NothingLost /\ VersionsAgree
  BY DEF ChatInv
<1>1. /\ r \in Requests /\ \A q \in Askers : q \in Requests
      /\ \A q \in Requests \ {r} : chat'[q] = chat[q]
      /\ DOMAIN chat' = Requests
  BY DEF Requests, Alone
<1>2. /\ convs' = convs /\ lastId' = lastId /\ gone' = gone /\ history' = history
      /\ Present' = Present
  BY DEF Present
<1>3. \A q \in Askers \ {r} : chat'[q] = chat[q]
  BY <1>1
<1>4. ~Stored(r)'
  BY DEF Stored
<1>5. ChatRows'
  <2>1. \A q \in Requests : IsChat(chat'[q])
    BY <1>0, <1>1 DEF ChatRows
  <2>2. \A q \in Askers : chat'[q].conv \in 0..lastId' /\ (chat'[q].pc = "write" => Listed(chat'[q].row))
    BY <1>0, <1>2, <1>3 DEF ChatRows
  <2> QED
    BY <1>0, <1>1, <1>2, <2>1, <2>2 DEF ChatRows, IsChat, IsConv, Listed
<1>6. RacesSeen'
  <2> SUFFICES ASSUME NEW q \in Askers, NEW p \in Askers, q # p, chat'[q].pc = "write",
                      chat'[p].pc = "write", chat'[p].conv = chat'[q].conv
               PROVE  q \in raced'
    BY DEF RacesSeen, Writing
  <2>1. CASE q = r
    BY <1>3, <2>1 DEF Writing
  <2>2. CASE q # r /\ p = r
    BY <1>3, <2>2 DEF Writing
  <2>3. CASE q # r /\ p # r
    BY <1>0, <1>3, <2>3 DEF RacesSeen, Writing
  <2> QED
    BY <2>1, <2>2, <2>3
<1>7. NothingLost'
  <2> SUFFICES ASSUME NEW x \in Askers \ raced', Stored(x)', chat'[x].conv \in Present'
               PROVE  /\ Holds(x, convs[chat[x].conv].turns)'
                      /\ \A q \in Askers : Writing(q, chat[x].conv)' => Holds(x, chat[q].row)'
    BY DEF NothingLost
  <2>1. x # r /\ chat'[x] = chat[x] /\ Stored(x) /\ chat[x].conv \in Present /\ x \in Askers \ raced
    BY <1>2, <1>3, <1>4 DEF Stored
  <2>2. /\ Holds(x, convs[chat[x].conv].turns)
        /\ \A q \in Askers : Writing(q, chat[x].conv) => Holds(x, chat[q].row)
    BY <1>0, <2>1 DEF NothingLost
  <2>3. ASSUME NEW q \in Askers, Writing(q, chat[x].conv)' PROVE Holds(x, chat'[q].row)
    <3>1. CASE q = r
      BY <2>1, <2>2, <2>3, <3>1 DEF Writing
    <3>2. CASE q # r
      BY <1>3, <2>1, <2>2, <2>3, <3>2 DEF Writing
    <3> QED
      BY <3>1, <3>2
  <2> QED
    BY <1>2, <2>1, <2>2, <2>3 DEF Holds
<1>8. VersionsAgree'
  <2> SUFFICES ASSUME NEW q \in Askers, chat'[q].pc = "write", chat'[q].conv \in Present'
               PROVE  /\ Agree(chat[q].row, convs[chat[q].conv].turns)'
                      /\ Agree(convs[chat[q].conv].turns, chat[q].row)'
                      /\ \A p \in Askers : Writing(p, chat[q].conv)' => Agree(chat[q].row, chat[p].row)'
    BY DEF VersionsAgree
  <2>1. \A p \in Askers : Writing(p, chat[q].conv)' => chat'[p].conv = chat'[q].conv
                                                      /\ chat'[p].pc = "write"
    BY DEF Writing
  <2>2. CASE q = r
    <3>1. chat'[r].row = convs[c].turns /\ c \in Present /\ chat'[r].conv = c
      BY <1>2, <2>2
    <3>2. Agree(convs[c].turns, convs[c].turns)
      BY DEF Agree
    <3>3. ASSUME NEW p \in Askers, Writing(p, chat[q].conv)' PROVE Agree(convs[c].turns, chat'[p].row)
      <4>1. CASE p = r
        BY <3>1, <3>2, <4>1
      <4>2. CASE p # r
        <5>1. chat'[p] = chat[p] /\ chat[p].pc = "write" /\ chat[p].conv = c
          BY <1>3, <2>1, <2>2, <3>1, <3>3, <4>2
        <5> QED
          BY <1>0, <3>1, <5>1 DEF VersionsAgree
      <4> QED
        BY <4>1, <4>2
    <3> QED
      BY <1>2, <2>2, <3>1, <3>2, <3>3 DEF Agree
  <2>3. CASE q # r
    <3>1. chat'[q] = chat[q] /\ chat[q].pc = "write" /\ chat[q].conv \in Present
      BY <1>2, <1>3, <2>3
    <3>2. /\ Agree(chat[q].row, convs[chat[q].conv].turns)
          /\ Agree(convs[chat[q].conv].turns, chat[q].row)
          /\ \A p \in Askers : Writing(p, chat[q].conv) => Agree(chat[q].row, chat[p].row)
      BY <1>0, <3>1 DEF VersionsAgree
    <3>3. ASSUME NEW p \in Askers, Writing(p, chat[q].conv)' PROVE Agree(chat[q].row, chat'[p].row)
      <4>1. CASE p = r
        <5>1. chat[q].conv = c /\ chat'[r].row = convs[c].turns
          BY <2>1, <3>1, <3>3, <4>1
        <5> QED
          BY <3>2, <4>1, <5>1
      <4>2. CASE p # r
        <5>1. chat'[p] = chat[p] /\ Writing(p, chat[q].conv)
          BY <1>3, <2>1, <3>1, <3>3, <4>2 DEF Writing
        <5> QED
          BY <3>2, <5>1
      <4> QED
        BY <4>1, <4>2
    <3> QED
      BY <1>2, <3>1, <3>2, <3>3 DEF Agree
  <2> QED
    BY <2>2, <2>3
<1>9. Imports'
  <2>1. \A t \in Turns : Safe(t) => Safe(t)'
    BY <1>2 DEF Safe
  <2> QED
    BY <1>1, <1>2, <2>1, OneImport
<1> QED
  BY <1>5, <1>6, <1>7, <1>8, <1>9 DEF ChatInv

\* A conversation is read again before it is written,
LEMMA RereadInv ==
  ASSUME ChatInv, NEW r \in Askers, Reread(r)
  PROVE  ChatInv'
<1> DEFINE c == chat[r].conv
<1>0. r \in Requests /\ IsChat(chat[r]) /\ DOMAIN chat = Requests
  BY RequestRow DEF Requests
<1>1. Alone(r) /\ IsChat(chat'[r]) /\ chat'[r].pc = "write" /\ chat'[r].conv = c
      /\ chat'[r].row = IF c \in Present THEN convs[c].turns ELSE <<>>
  BY <1>0 DEF Reread, Alone, IsChat
<1>2. Listed(chat'[r].row)
  BY <1>1, FewListed DEF ChatInv, ChatRows
<1>3. \A q \in Askers : Writing(q, c) => q \in raced' /\ r \in raced'
  <2> SUFFICES ASSUME NEW q \in Askers, Writing(q, c) PROVE q \in raced' /\ r \in raced'
    OBVIOUS
  <2>1. q \in InHand(c)
    BY DEF InHand, Writing
  <2> QED
    BY <2>1 DEF Reread
<1> QED
  BY <1>1, <1>2, <1>3, TakenUp DEF Reread

\* ... or found for the first time.
LEMMA FindRowInv ==
  ASSUME ChatInv, NEW r \in Askers, FindRow(r)
  PROVE  ChatInv'
<1> DEFINE c == chat[r].conv
<1>0. r \in Requests /\ IsChat(chat[r]) /\ DOMAIN chat = Requests /\ c \in 0..lastId
  BY RequestRow DEF Requests
<1>1. CASE c \in Present
  <2>1. Alone(r) /\ IsChat(chat'[r]) /\ chat'[r].pc = "write" /\ chat'[r].conv = c
        /\ chat'[r].row = convs[c].turns
    BY <1>0, <1>1 DEF FindRow, Alone, IsChat
  <2>2. Listed(chat'[r].row)
    BY <1>1, <2>1 DEF ChatInv, ChatRows
  <2>3. \A q \in Askers : Writing(q, c) => q \in raced' /\ r \in raced'
    <3> SUFFICES ASSUME NEW q \in Askers, Writing(q, c) PROVE q \in raced' /\ r \in raced'
      OBVIOUS
    <3>1. q \in InHand(c)
      BY DEF InHand, Writing
    <3> QED
      BY <1>1, <3>1 DEF FindRow
  <2> QED
    BY <2>1, <2>2, <2>3, TakenUp DEF FindRow
<1>2. CASE c \notin Present
  <2>1. Alone(r) /\ IsChat(chat'[r]) /\ chat'[r].pc = "insert" /\ chat'[r].conv = c
    BY <1>0, <1>2 DEF FindRow, Alone, IsChat
  <2>2. raced' = raced
    BY <1>2 DEF FindRow
  <2> QED
    BY <1>0, <2>1, <2>2, QuietInv DEF FindRow, Stored
<1> QED
  BY <1>1, <1>2

(* The conversation is gone: nothing is written.                             *)
LEMMA WriteGone ==
  ASSUME ChatInv, NEW r \in Askers, WriteRow(r), chat[r].conv \notin Present
  PROVE  ChatInv'
<1> DEFINE c == chat[r].conv
<1>0. /\ r \in Requests /\ \A q \in Askers : q \in Requests
      /\ IsChat(chat[r]) /\ DOMAIN chat = Requests /\ IsChat(Idle) /\ c \in 0..lastId
  BY RequestRow DEF Requests
<1>1. Alone(r) /\ IsChat(chat'[r]) /\ chat'[r].pc = "trim" /\ chat'[r].conv = c
  BY <1>0 DEF WriteRow, Forget, Alone, IsChat, Idle
<1>2. /\ convs' = convs /\ lastId' = lastId /\ gone' = gone /\ history' = history /\ raced' = raced
      /\ Present' = Present
  BY DEF WriteRow, Present
<1>3. ChatRows /\ RacesSeen /\ NothingLost /\ VersionsAgree
  BY DEF ChatInv
<1>4. \A q \in Askers \ {r} : chat'[q] = chat[q]
  BY <1>0, <1>1 DEF Alone
<1>5. ChatRows'
  <2>1. \A q \in Requests : IsChat(chat'[q])
    BY <1>1, <1>3 DEF ChatRows, Alone
  <2>2. \A q \in Askers : chat'[q].conv \in 0..lastId' /\ (chat'[q].pc = "write" => Listed(chat'[q].row))
    BY <1>0, <1>1, <1>2, <1>3, <1>4 DEF ChatRows
  <2> QED
    BY <1>1, <1>2, <1>3, <2>1, <2>2 DEF ChatRows, IsChat, IsConv, Listed, Alone
<1>6. \A q \in Askers : chat'[q].pc = "write" => chat'[q] = chat[q]
  BY <1>1, <1>4
<1>7. RacesSeen'
  BY <1>2, <1>3, <1>6 DEF RacesSeen, Writing
<1>8. NothingLost'
  <2> SUFFICES ASSUME NEW x \in Askers \ raced', Stored(x)', chat'[x].conv \in Present'
               PROVE  /\ Holds(x, convs[chat[x].conv].turns)'
                      /\ \A q \in Askers : Writing(q, chat[x].conv)' => Holds(x, chat[q].row)'
    BY DEF NothingLost
  <2>1. x # r /\ chat'[x] = chat[x] /\ Stored(x) /\ x \in Askers \ raced /\ chat[x].conv \in Present
    BY <1>1, <1>2, <1>4 DEF Stored
  <2>2. /\ Holds(x, convs[chat[x].conv].turns)
        /\ \A q \in Askers : Writing(q, chat[x].conv) => Holds(x, chat[q].row)
    BY <1>3, <2>1 DEF NothingLost
  <2> QED
    BY <1>2, <1>6, <2>1, <2>2 DEF Holds, Writing
<1>9. VersionsAgree'
  <2> SUFFICES ASSUME NEW q \in Askers, chat'[q].pc = "write", chat'[q].conv \in Present'
               PROVE  /\ Agree(chat[q].row, convs[chat[q].conv].turns)'
                      /\ Agree(convs[chat[q].conv].turns, chat[q].row)'
                      /\ \A p \in Askers : Writing(p, chat[q].conv)' => Agree(chat[q].row, chat[p].row)'
    BY DEF VersionsAgree
  <2>1. chat'[q] = chat[q] /\ chat[q].pc = "write" /\ chat[q].conv \in Present
    BY <1>2, <1>6
  <2> QED
    BY <1>2, <1>3, <1>6, <2>1 DEF VersionsAgree, Writing, Agree
<1>10. Imports'
  <2>1. \A t \in Turns : Safe(t) => Safe(t)'
    BY <1>2 DEF Safe
  <2> QED
    BY <1>0, <1>1, <1>2, <2>1, OneImport
<1> QED
  BY <1>5, <1>7, <1>8, <1>9, <1>10 DEF ChatInv

\* A conversation that is still there is written.
LEMMA WriteHeld ==
  ASSUME ChatInv, NEW r \in Askers, WriteRow(r), chat[r].conv \in Present
  PROVE  ChatInv'
<1> DEFINE c == chat[r].conv
           row == chat[r].row
           L == LastTurns(Append(row, r))
<1>0. /\ r \in Requests /\ \A q \in Askers : q \in Requests
      /\ IsChat(chat[r]) /\ DOMAIN chat = Requests /\ IsChat(Idle) /\ c \in 0..lastId
  BY RequestRow DEF Requests
<1>1. Alone(r) /\ IsChat(chat'[r]) /\ chat'[r].pc = "trim" /\ chat'[r].conv = c
  BY <1>0 DEF WriteRow, Forget, Alone, IsChat, Idle
<1>2. ChatRows /\ RacesSeen /\ NothingLost /\ VersionsAgree
  BY DEF ChatInv
<1>3. /\ lastId' = lastId /\ history' = history /\ raced' = raced /\ Present' = Present
      /\ \A d \in Present : d # c => convs'[d] = convs[d]
      /\ IsConv(convs'[c]) /\ convs'[c].turns = L /\ chat[r].pc = "write"
      /\ gone' = gone \cup (Turns \cap (ToSet(row) \ ToSet(convs'[c].turns)))
  BY <1>2 DEF WriteRow, Present, ChatRows, IsConv
<1>4. \A q \in Askers \ {r} : chat'[q] = chat[q]
  BY <1>0, <1>1 DEF Alone
<1>5. /\ Listed(L) /\ ToSet(L) \subseteq ToSet(row) \cup {r} /\ r \in ToSet(L)
      /\ (ToSet(row) \subseteq ToSet(L) \/ Len(L) = MaxMessages)
      /\ (Len(row) = MaxMessages => Len(L) = MaxMessages)
  <2>1. Listed(row)
    BY <1>2, <1>3 DEF ChatRows
  <2> QED
    BY <2>1, LastTurnsIs
<1>6. r \notin Turns
  BY ChatAssumption
<1>7. Writing(r, c)
  BY <1>3 DEF Writing
<1> HIDE DEF L
<1>8. \A q \in Askers : chat'[q].pc = "write" => q # r /\ chat'[q] = chat[q] /\ chat[q].pc = "write"
  BY <1>1, <1>4
<1>9. ChatRows'
  <2>1. \A q \in Requests : IsChat(chat'[q])
    BY <1>1, <1>2 DEF ChatRows, Alone
  <2>2. \A q \in Askers : chat'[q].conv \in 0..lastId' /\ (chat'[q].pc = "write" => Listed(chat'[q].row))
    BY <1>0, <1>1, <1>2, <1>3, <1>4 DEF ChatRows
  <2>3. \A d \in Present' : IsConv(convs'[d]) /\ Listed(convs'[d].turns)
    BY <1>2, <1>3, <1>5 DEF ChatRows
  <2>4. lastId' \in Nat /\ Present' \subseteq 1..lastId'
    BY <1>2, <1>3 DEF ChatRows
  <2> QED
    BY <1>1, <2>1, <2>2, <2>3, <2>4 DEF ChatRows, IsChat, IsConv, Listed, Alone
<1>10. RacesSeen'
  BY <1>2, <1>3, <1>8 DEF RacesSeen, Writing
<1>11. NothingLost'
  <2> SUFFICES ASSUME NEW x \in Askers \ raced', Stored(x)', chat'[x].conv \in Present'
               PROVE  /\ Holds(x, convs[chat[x].conv].turns)'
                      /\ \A q \in Askers : Writing(q, chat[x].conv)' => Holds(x, chat[q].row)'
    BY DEF NothingLost
  <2>1. \A q \in Askers : Writing(q, chat[x].conv)' =>
          q # r /\ chat'[q] = chat[q] /\ chat[q].pc = "write" /\ chat[q].conv = chat'[x].conv
    BY <1>8 DEF Writing
  <2>2. CASE x = r
    <3>1. Holds(r, L)
      BY <1>5 DEF Holds
    <3>2. ASSUME NEW q \in Askers, Writing(q, chat[x].conv)' PROVE FALSE
      <4>1. q # r /\ chat[q].pc = "write" /\ chat[q].conv = c
        BY <1>1, <2>1, <2>2, <3>2
      <4>2. Writing(q, chat[r].conv)
        BY <4>1 DEF Writing
      <4>3. r \in raced
        BY <1>2, <1>3, <4>1, <4>2 DEF RacesSeen
      <4> QED
        BY <1>3, <2>2, <4>3
    <3> QED
      BY <1>1, <1>3, <2>2, <3>1, <3>2 DEF Holds
  <2>3. CASE x # r
    <3>1. chat'[x] = chat[x] /\ Stored(x) /\ x \in Askers \ raced /\ chat[x].conv \in Present
      BY <1>3, <1>4, <2>3 DEF Stored
    <3>2. /\ Holds(x, convs[chat[x].conv].turns)
          /\ \A q \in Askers : Writing(q, chat[x].conv) => Holds(x, chat[q].row)
      BY <1>2, <3>1 DEF NothingLost
    <3>3. Holds(x, convs'[chat[x].conv].turns)
      <4>1. CASE chat[x].conv = c
        <5>1. Holds(x, row)
          BY <1>7, <3>2, <4>1
        <5>2. Holds(x, L)
          BY <1>5, <5>1 DEF Holds
        <5> QED
          BY <1>3, <4>1, <5>2
      <4>2. CASE chat[x].conv # c
        BY <1>3, <3>1, <3>2, <4>2
      <4> QED
        BY <4>1, <4>2
    <3>4. ASSUME NEW q \in Askers, Writing(q, chat[x].conv)' PROVE Holds(x, chat'[q].row)
      BY <2>1, <3>1, <3>2, <3>4 DEF Writing
    <3> QED
      BY <3>1, <3>3, <3>4 DEF Holds
  <2> QED
    BY <2>2, <2>3
<1>12. gone \subseteq gone'
  BY <1>3
<1>13. VersionsAgree'
  <2> SUFFICES ASSUME NEW q \in Askers, chat'[q].pc = "write", chat'[q].conv \in Present'
               PROVE  /\ Agree(chat[q].row, convs[chat[q].conv].turns)'
                      /\ Agree(convs[chat[q].conv].turns, chat[q].row)'
                      /\ \A p \in Askers : Writing(p, chat[q].conv)' => Agree(chat[q].row, chat[p].row)'
    BY DEF VersionsAgree
  <2>1. q # r /\ chat'[q] = chat[q] /\ chat[q].pc = "write" /\ chat[q].conv \in Present
    BY <1>3, <1>8
  <2>2. /\ Agree(chat[q].row, convs[chat[q].conv].turns)
        /\ Agree(convs[chat[q].conv].turns, chat[q].row)
        /\ \A p \in Askers : Writing(p, chat[q].conv) => Agree(chat[q].row, chat[p].row)
    BY <1>2, <2>1 DEF VersionsAgree
  <2>3. \A p \in Askers : Writing(p, chat[q].conv)' => Agree(chat[q].row, chat[p].row)'
    <3> SUFFICES ASSUME NEW p \in Askers, Writing(p, chat[q].conv)'
                 PROVE  Agree(chat[q].row, chat[p].row)'
      OBVIOUS
    <3>1. chat'[p] = chat[p] /\ Writing(p, chat[q].conv)
      BY <1>8, <2>1 DEF Writing
    <3> QED
      BY <1>12, <2>1, <2>2, <3>1 DEF Agree
  <2>4. CASE chat[q].conv = c
    <3>1. Writing(q, c)
      BY <2>1, <2>4 DEF Writing
    <3>2. Agree(chat[q].row, row) /\ Agree(row, chat[q].row)
      BY <1>2, <1>3, <1>7, <2>1, <2>4, <3>1 DEF VersionsAgree
    <3>3. ASSUME NEW t \in Turns, t \in ToSet(chat[q].row) PROVE t \in ToSet(L) \cup gone'
      <4>1. t \in ToSet(row) \/ t \in gone
        BY <3>2, <3>3 DEF Agree
      <4> QED
        BY <1>3, <4>1
    <3>4. ASSUME NEW t \in Turns, t \in ToSet(L) PROVE t \in ToSet(chat[q].row) \cup gone'
      <4>1. t \in ToSet(row)
        BY <1>5, <1>6, <3>4
      <4> QED
        BY <1>12, <3>2, <4>1 DEF Agree
    <3> QED
      BY <1>3, <2>1, <2>3, <2>4, <3>3, <3>4 DEF Agree
  <2>5. CASE chat[q].conv # c
    <3>1. convs'[chat[q].conv] = convs[chat[q].conv]
      BY <1>3, <2>1, <2>5
    <3> QED
      BY <1>12, <2>1, <2>2, <2>3, <3>1 DEF Agree
  <2> QED
    BY <2>4, <2>5
<1>14. Imports'
  <2> SUFFICES ASSUME NEW t \in Turns, Safe(t) PROVE Safe(t)'
    BY <1>0, <1>1, <1>3, OneImport
  <2>1. CASE t \in gone
    BY <1>12, <2>1 DEF Safe
  <2>2. ASSUME NEW d \in Present, t \in ToSet(convs[d].turns), d # c PROVE Safe(t)'
    <3>1. d \in Present' /\ convs'[d] = convs[d]
      BY <1>3, <2>2
    <3> QED
      BY <2>2, <3>1 DEF Safe
  <2>3. CASE t \in ToSet(convs[c].turns)
    <3>1. t \in ToSet(row) \/ t \in gone
      BY <1>2, <1>3, <2>3 DEF VersionsAgree, Agree
    <3>2. t \in gone' \/ t \in ToSet(L)
      BY <1>3, <3>1
    <3>3. c \in Present'
      BY <1>3
    <3> QED
      BY <1>3, <3>2, <3>3 DEF Safe
  <2> QED
    BY <2>1, <2>2, <2>3 DEF Safe
<1> QED
  BY <1>9, <1>10, <1>11, <1>13, <1>14 DEF ChatInv

\* The first state has the invariant,
LEMMA ChatInitInv == ChatInit => ChatInv
<1> SUFFICES ASSUME ChatInit PROVE ChatInv
  OBVIOUS
<1>1. Listed(Legacy) /\ Listed(<<>>) /\ ToSet(<<>>) = {} /\ Turns = ToSet(Legacy)
  BY ChatAssumption, FewListed DEF Listed, Turns
<1>2. /\ DOMAIN chat = Requests
      /\ \A r \in Requests : IsChat(chat[r]) /\ chat[r].pc \in {"idle", "done"} /\ chat[r].conv = 0
  BY DEF ChatInit, Idle, IsChat
<1>3. \A r \in Requests : chat[r].pc # "write" /\ chat[r].pc # "import"
  BY <1>2
<1>4. \A r : r \in Askers \/ r \in Listers => r \in Requests
  BY DEF Requests
<1>5. /\ Listed(history) /\ lastId \in Nat /\ Present \subseteq 1..lastId
      /\ \A c \in Present : IsConv(convs[c]) /\ Listed(convs[c].turns)
      /\ \A t \in Turns : t \in ToSet(history) \/ Safe(t)
  <2>1. CASE convs = <<>> /\ history = Legacy
    <3>1. Present = {}
      BY <2>1 DEF Present
    <3>2. lastId = 0
      BY <3>1, FS_EmptySet DEF ChatInit, Present
    <3> QED
      BY <1>1, <2>1, <3>1, <3>2
  <2>2. CASE convs = Filed(1, Conv(Legacy, 0, TRUE, FALSE), <<>>) /\ history = <<>>
    <3>1. DOMAIN <<>> = {}
      OBVIOUS
    <3>2. Present = {1} /\ convs[1] = Conv(Legacy, 0, TRUE, FALSE)
      BY <2>2, <3>1 DEF Present, Filed
    <3>3. IsConv(convs[1]) /\ convs[1].turns = Legacy
      BY <3>2 DEF Conv, IsConv
    <3>4. Cardinality({1}) = 1
      BY FS_Singleton
    <3>5. lastId = 1
      BY <3>2, <3>4 DEF ChatInit, Present
    <3>6. 1 \in 1..1
      OBVIOUS
    <3>7. \A t \in Turns : Safe(t)
      BY <1>1, <3>2, <3>3 DEF Safe
    <3> QED
      BY <1>1, <2>2, <3>2, <3>3, <3>5, <3>6, <3>7
  <2> QED
    BY <2>1, <2>2 DEF ChatInit
<1>6. ChatRows
  BY <1>2, <1>3, <1>4, <1>5 DEF ChatRows
<1>7. RacesSeen /\ VersionsAgree
  BY <1>3, <1>4 DEF RacesSeen, VersionsAgree
<1>8. NothingLost
  BY <1>2, <1>4, <1>5 DEF NothingLost
<1>9. Imports
  BY <1>3, <1>4, <1>5 DEF Imports
<1> QED
  BY <1>6, <1>7, <1>8, <1>9 DEF ChatInv

\* ... every step keeps it,
LEMMA ChatNextInv == ChatInv /\ [ChatNext]_chatVars => ChatInv'
<1> SUFFICES ASSUME ChatInv, [ChatNext]_chatVars PROVE ChatInv'
  OBVIOUS
<1>1. ASSUME NEW r \in Askers, NEW c \in Ids \cup {0}, PriorMessages(r, c) PROVE ChatInv'
  BY <1>1, PriorMessagesInv
<1>2. ASSUME NEW r \in Askers,
             FindRow(r) \/ InsertConv(r) \/ Reread(r) \/ WriteRow(r) \/ TrimLook(r) \/ TrimDrop(r)
      PROVE  ChatInv'
  BY <1>2, FindRowInv, InsertConvInv, RereadInv, WriteGone, WriteHeld, TrimLookInv, TrimDropInv
<1>3. ASSUME NEW r \in Listers,
             FindHistory(r) \/ ImportTurn(r) \/ EmptyHistory(r) \/ FindUnsplit(r)
               \/ MarkSplit(r) \/ DeleteImport(r) \/ ReinsertTurn(r) \/ SplitDone(r)
      PROVE  ChatInv'
  BY <1>3, FindHistoryInv, ImportTurnInv, EmptyHistoryInv, FindUnsplitInv, MarkSplitInv,
     DeleteImportInv, ReinsertTurnInv, SplitDoneInv
<1>4. ASSUME NEW c \in Ids, DeleteConversation(c) PROVE ChatInv'
  BY <1>4, DeleteConversationInv
<1>5. ASSUME ClearHistory PROVE ChatInv'
  BY <1>5, ClearHistoryInv
<1>6. ASSUME NEW r \in Requests, Die(r) PROVE ChatInv'
  BY <1>6, DieInv
<1>7. ASSUME UNCHANGED chatVars PROVE ChatInv'
  <2>1. /\ convs' = convs /\ history' = history /\ chat' = chat /\ raced' = raced /\ lastId' = lastId
        /\ gone' = gone
    BY <1>7 DEF chatVars
  <2>2. DOMAIN chat' = Requests /\ \A q \in Requests : Calm(q)
    BY <2>1 DEF Calm, ChatInv, ChatRows
  <2>3. /\ lastId' \in Nat /\ lastId <= lastId' /\ gone \subseteq gone' /\ Present' \subseteq 1..lastId'
        /\ \A c \in Present' : /\ IsConv(convs'[c]) /\ Listed(convs'[c].turns)
                               /\ c \in Present => convs'[c].turns = convs[c].turns
                               /\ c \notin Present => c > lastId
        /\ \A t \in Turns : Safe(t) => Safe(t)'
    BY <2>1, StillConvs
  <2>4. ChatRows' /\ RacesSeen' /\ NothingLost' /\ VersionsAgree'
    BY <2>1, <2>2, <2>3, CalmInv
  <2>5. Imports'
    BY <2>1, <2>3, ImportsKept DEF ChatInv
  <2> QED
    BY <2>4, <2>5 DEF ChatInv
<1> QED
  BY <1>1, <1>2, <1>3, <1>4, <1>5, <1>6, <1>7 DEF ChatNext

\* ... and every state has it.
LEMMA ChatAlways == ChatSpec => []ChatInv
BY ChatInitInv, ChatNextInv, PTL DEF ChatSpec

-----------------------------------------------------------------------------
(* The types of the conversations and of the requests.                       *)

Said == Askers \cup Turns
ConvRow == [turns : Seq(Said), at : Nat, legacy : BOOLEAN, split : BOOLEAN]
ReadRow == [id : Nat, turns : Seq(Said)]
ChatPcs == {"idle", "answer", "insert", "reread", "write", "trim", "drop", "done", "import",
            "split", "mark", "unmake", "remake", "dead"}
ChatRequest ==
  [pc : ChatPcs, conv : Nat, at : Nat, row : Seq(Said), todo : Seq(Said), rows : Seq(ReadRow),
   stale : SUBSET Nat]

\* The longest conversation, and the askers that had an answer to store.
Longest == Max({MaxMessages, Len(Legacy)})
Replied == {r \in Askers : chat[r].pc \notin {"idle", "answer"}}

RequestsTyped == chat \in [Requests -> ChatRequest] /\ \A r \in Requests : chat[r].at <= chatClock
ConvsTyped ==
  /\ Present \subseteq 1..lastId /\ lastId \in 0..Cardinality(Ids)
  /\ \A c \in Present : /\ convs[c] \in ConvRow
                        /\ convs[c].at <= chatClock /\ Len(convs[c].turns) <= Longest
MarksTyped ==
  /\ history \in Seq(Turns) /\ gone \subseteq Turns /\ raced \subseteq Askers /\ dead \subseteq Requests
ClockTyped == chatClock \in Nat /\ chatClock <= Cardinality(Replied)

ChatTyped == RequestsTyped /\ ConvsTyped /\ MarksTyped /\ ClockTyped

(* Numbers and sequences of the constants.                                   *)
LEMMA ChatBounds ==
  /\ Longest \in Nat /\ MaxMessages <= Longest /\ Len(Legacy) <= Longest /\ 1 <= Longest
  /\ MaxMessages \in Nat \ {0} /\ Len(Legacy) \in Nat
  /\ \A T : <<>> \in Seq(T) /\ Len(<<>>) = 0
  /\ \A s \in Seq(Turns) : s \in Seq(Said)
  /\ Idle \in ChatRequest /\ Idle.at = 0
<1>1. Len(Legacy) \in Nat /\ MaxMessages \in Nat \ {0}
  BY ChatAssumption
<1>2. Longest = IF MaxMessages <= Len(Legacy) THEN Len(Legacy) ELSE MaxMessages
  BY <1>1, MaxOfTwo DEF Longest
<1>3. \A T : <<>> \in Seq(T) /\ Len(<<>>) = 0
  OBVIOUS
<1>4. \A s \in Seq(Turns) : s \in Seq(Said)
  <2>1. \A S, T : S \subseteq T => \A s \in Seq(S) : s \in Seq(T)
    OBVIOUS
  <2>2. Turns \subseteq Said
    BY DEF Said
  <2> QED
    BY <2>1, <2>2
<1>5. Idle \in ChatRequest /\ Idle.at = 0
  <2>1. <<>> \in Seq(Said) /\ <<>> \in Seq(ReadRow)
    BY <1>3
  <2> QED
    BY <2>1 DEF Idle, ChatRequest, ChatPcs
<1> QED
  BY <1>1, <1>2, <1>3, <1>4, <1>5

\* The heads and the rest of what was read.
LEMMA TakenTyped ==
  ASSUME NEW rows \in Seq(ReadRow), NEW todo \in Seq(Said)
  PROVE  /\ todo # <<>> => Head(todo) \in Said /\ Tail(todo) \in Seq(Said)
         /\ NextRow(rows) \in ChatRequest /\ NextRow(rows).at = 0
<1>1. \A T : \A s \in Seq(T) : s # <<>> => Tail(s) \in Seq(T) /\ Head(s) \in T
  OBVIOUS
<1>2. todo # <<>> => Head(todo) \in Said /\ Tail(todo) \in Seq(Said)
  BY <1>1
<1>3. CASE rows = <<>>
  BY <1>2, <1>3, ChatBounds DEF NextRow, ChatRequest, ChatPcs
<1>4. CASE rows # <<>>
  <2>1. Head(rows) \in ReadRow /\ Tail(rows) \in Seq(ReadRow)
    BY <1>1, <1>4
  <2>2. Head(rows).id \in Nat /\ Head(rows).turns \in Seq(Said)
    BY <2>1 DEF ReadRow
  <2>3. NextRow(rows) =
          [Idle EXCEPT !.pc = IF Len(Head(rows).turns) <= 1 THEN "mark" ELSE "unmake",
                       !.conv = Head(rows).id, !.row = Head(rows).turns, !.rows = Tail(rows)]
    BY <1>4 DEF NextRow
  <2>4. \A p \in {"mark", "unmake"} :
          /\ [Idle EXCEPT !.pc = p, !.conv = Head(rows).id, !.row = Head(rows).turns,
                          !.rows = Tail(rows)] \in ChatRequest
          /\ [Idle EXCEPT !.pc = p, !.conv = Head(rows).id, !.row = Head(rows).turns,
                          !.rows = Tail(rows)].at = 0
    BY <2>1, <2>2, ChatBounds DEF ChatRequest, ChatPcs
  <2> QED
    BY <1>2, <2>3, <2>4
<1> QED
  BY <1>3, <1>4

\* An exchange more, and the last of all.
LEMMA LastTyped ==
  ASSUME NEW s \in Seq(Said), NEW e \in Said
  PROVE  LastTurns(Append(s, e)) \in Seq(Said) /\ Len(LastTurns(Append(s, e))) <= MaxMessages
<1> DEFINE a == Append(s, e)
           n == Len(s) + 1
           f == IF 1 <= n - MaxMessages + 1 THEN n - MaxMessages + 1 ELSE 1
<1>1. a \in Seq(Said) /\ Len(a) = n /\ n \in Nat /\ n >= 1
  OBVIOUS
<1>2. MaxMessages \in Nat \ {0}
  BY ChatBounds
<1>3. f \in 1..n /\ n - f + 1 <= MaxMessages
  BY <1>1, <1>2
<1>4. LastTurns(a) = SubSeq(a, f, n)
  <2>1. Max({1, n - MaxMessages + 1}) = f
    BY <1>1, <1>2, MaxOfTwo
  <2> HIDE DEF f
  <2> QED
    BY <1>1, <2>1 DEF LastTurns
<1> HIDE DEF a, f, n
<1>5. SubSeq(a, f, n) \in Seq(Said) /\ Len(SubSeq(a, f, n)) = n - f + 1
  BY <1>1, <1>3
<1> QED
  BY <1>3, <1>4, <1>5 DEF a

(* A request goes on.                                                        *)
LEMMA OneTyped ==
  ASSUME RequestsTyped, NEW r \in Requests, NEW q \in ChatRequest, chat' = [chat EXCEPT ![r] = q],
         chatClock \in Nat, chatClock' \in Nat, chatClock <= chatClock', q.at <= chatClock'
  PROVE  RequestsTyped'
<1>1. chat' \in [Requests -> ChatRequest]
  BY DEF RequestsTyped
<1>2. ASSUME NEW p \in Requests PROVE chat'[p].at <= chatClock'
  <2>1. CASE p = r
    BY <2>1 DEF RequestsTyped
  <2>2. CASE p # r
    <3>1. chat'[p] = chat[p] /\ chat[p].at <= chatClock /\ chat[p].at \in Nat
      BY <2>2 DEF RequestsTyped, ChatRequest
    <3> QED
      BY <3>1
  <2> QED
    BY <2>1, <2>2
<1> QED
  BY <1>1, <1>2 DEF RequestsTyped, Requests

\* The request, and the turns it reads.
LEMMA RequestTyped ==
  ASSUME ChatTyped, NEW r \in Requests
  PROVE  /\ chat[r] \in ChatRequest /\ chat[r].at \in 0..chatClock
         /\ DOMAIN chat = Requests /\ chatClock \in Nat
         /\ \A c : c \in Present => /\ c \in Nat /\ convs[c].turns \in Seq(Said)
                                    /\ Len(convs[c].turns) \in Nat
<1>1. chat[r] \in ChatRequest /\ chat[r].at <= chatClock /\ DOMAIN chat = Requests
  BY DEF ChatTyped, RequestsTyped
<1>2. chatClock \in Nat
  BY DEF ChatTyped, ClockTyped
<1>3. chat[r].at \in Nat
  BY <1>1 DEF ChatRequest
<1>4. ASSUME NEW c \in Present
      PROVE  c \in Nat /\ convs[c].turns \in Seq(Said) /\ Len(convs[c].turns) \in Nat
  <2>1. c \in 1..lastId /\ convs[c] \in ConvRow
    BY DEF ChatTyped, ConvsTyped
  <2>2. convs[c].turns \in Seq(Said)
    BY <2>1 DEF ConvRow
  <2> QED
    BY <2>1, <2>2
<1> QED
  BY <1>1, <1>2, <1>3, <1>4

\* What Stale and Unsplit read.
LEMMA LookedTyped ==
  ASSUME ChatTyped
  PROVE  /\ Stale \subseteq Nat
         /\ LET ids == Ordered(Unsplit, {p \in Ids \X Ids : p[1] < p[2]})
            IN  [i \in DOMAIN ids |-> [id |-> ids[i], turns |-> convs[ids[i]].turns]] \in Seq(ReadRow)
<1> DEFINE R == {p \in Ids \X Ids : p[1] < p[2]}
           ids == Ordered(Unsplit, R)
<1>1. Present \subseteq 1..lastId /\ lastId \in 0..Cardinality(Ids) /\ Cardinality(Ids) \in Nat
  BY ChatAssumption DEF ChatTyped, ConvsTyped
<1>2. Present \subseteq Ids /\ Ids \subseteq Nat /\ IsFiniteSet(Ids)
  <2>1. Ids = 1..Cardinality(Ids)
    BY ChatAssumption
  <2>2. IsFiniteSet(1..Cardinality(Ids))
    BY <1>1, FS_Interval
  <2> DEFINE n == Cardinality(Ids)
  <2>3. 1..lastId \subseteq 1..n /\ 1..n \subseteq Nat
    BY <1>1
  <2> HIDE DEF n
  <2> QED
    BY <1>1, <2>1, <2>2, <2>3 DEF n
<1>3. Stale \subseteq Nat
  BY <1>2 DEF Stale
<1>4. Unsplit \subseteq Present
  BY DEF Unsplit
<1>5. Orders(Unsplit, R)
  <2>1. IsFiniteSet(Unsplit)
    BY <1>2, <1>4, FS_Subset
  <2>2. \A x, y \in Unsplit : <<x, y>> \in R <=> x < y
    BY <1>2, <1>4
  <2>3. \A x \in Unsplit : x \in Nat
    BY <1>2, <1>4
  <2> HIDE DEF R
  <2>4. /\ \A x \in Unsplit : ~(x < x)
        /\ \A x, y, z \in Unsplit : x < y /\ y < z => x < z
        /\ \A x, y \in Unsplit : x = y \/ x < y \/ y < x
    BY <2>3
  <2> QED
    BY <2>1, <2>2, <2>4 DEF Orders
<1>6. ids \in Seq(Unsplit)
  BY <1>5, OrderedIs
<1> HIDE DEF ids
<1>7. \A c \in Present : [id |-> c, turns |-> convs[c].turns] \in ReadRow
  <2>1. \A c \in Present : convs[c] \in ConvRow
    BY DEF ChatTyped, ConvsTyped
  <2> QED
    BY <1>2, <2>1 DEF ConvRow, ReadRow
<1>8. [i \in DOMAIN ids |-> [id |-> ids[i], turns |-> convs[ids[i]].turns]] \in Seq(ReadRow)
  <2>1. DOMAIN ids = 1..Len(ids) /\ Len(ids) \in Nat /\ \A i \in 1..Len(ids) : ids[i] \in Unsplit
    BY <1>6
  <2> QED
    BY <1>4, <1>7, <2>1
<1> QED
  BY <1>3, <1>8 DEF ids

\* Every request stays one, and its time is past.
LEMMA AskersTyped ==
  ASSUME ChatTyped, NEW r \in Askers,
         \/ \E c \in Ids \cup {0} : PriorMessages(r, c)
         \/ FindRow(r) \/ InsertConv(r) \/ Reread(r) \/ WriteRow(r) \/ TrimLook(r) \/ TrimDrop(r)
         \/ Die(r)
  PROVE  RequestsTyped'
<1> DEFINE q == chat[r]
<1>0. /\ r \in Requests /\ q \in ChatRequest /\ q.at \in 0..chatClock /\ chatClock \in Nat
      /\ DOMAIN chat = Requests /\ RequestsTyped
  BY RequestTyped DEF Requests, ChatTyped
<1>1. ASSUME NEW k \in Nat, chatClock <= k, chatClock' = k, NEW p \in ChatRequest,
             chat' = [chat EXCEPT ![r] = p], p.at <= k
      PROVE  RequestsTyped'
  BY <1>0, <1>1, OneTyped
<1>2. ASSUME NEW p \in ChatRequest, p.at \in 0..chatClock, chat' = [chat EXCEPT ![r] = p],
             chatClock' = chatClock
      PROVE  RequestsTyped'
  <2>1. p.at <= chatClock /\ chatClock <= chatClock
    BY <1>0, <1>2
  <2> QED
    BY <1>0, <1>1, <1>2, <2>1
<1>3. CASE FindRow(r)
  <2> DEFINE row == IF q.conv \in Present THEN convs[q.conv].turns ELSE <<>>
             pc == IF q.conv \in Present THEN "write" ELSE "insert"
             p == [q EXCEPT !.at = chatClock + 1, !.pc = pc, !.row = row]
  <2>1. row \in Seq(Said) /\ pc \in ChatPcs /\ chatClock + 1 \in Nat
    BY <1>0, RequestTyped, ChatBounds DEF ChatPcs
  <2>2. chat' = [chat EXCEPT ![r] = p] /\ chatClock' = chatClock + 1
    BY <1>0, <1>3 DEF FindRow
  <2> HIDE DEF row, pc
  <2>3. p \in ChatRequest /\ p.at = chatClock + 1
    BY <1>0, <2>1 DEF ChatRequest
  <2> HIDE DEF p
  <2>4. chatClock + 1 >= chatClock /\ p.at <= chatClock + 1
    BY <1>0, <2>3
  <2> QED
    BY <1>1, <2>1, <2>2, <2>3, <2>4
<1>4. ASSUME NEW c \in Ids \cup {0}, PriorMessages(r, c) PROVE RequestsTyped'
  <2> DEFINE p == [q EXCEPT !.pc = "answer", !.conv = c]
  <2>1. c \in Nat
    BY ChatAssumption
  <2>2. p \in ChatRequest /\ p.at = q.at
    BY <1>0, <2>1 DEF ChatRequest, ChatPcs
  <2>3. chat' = [chat EXCEPT ![r] = p] /\ chatClock' = chatClock
    BY <1>0, <1>4 DEF PriorMessages
  <2> HIDE DEF p
  <2> QED
    BY <1>0, <1>2, <2>2, <2>3
<1>5. CASE InsertConv(r)
  <2> DEFINE p == [q EXCEPT !.pc = "reread", !.conv = NextId]
  <2>1. NextId \in Nat
    BY <1>5, ChatAssumption DEF InsertConv
  <2>2. p \in ChatRequest /\ p.at = q.at
    BY <1>0, <2>1 DEF ChatRequest, ChatPcs
  <2>3. chat' = [chat EXCEPT ![r] = p] /\ chatClock' = chatClock
    BY <1>0, <1>5 DEF InsertConv
  <2> HIDE DEF p
  <2> QED
    BY <1>0, <1>2, <2>2, <2>3
<1>6. CASE Reread(r)
  <2> DEFINE row == IF q.conv \in Present THEN convs[q.conv].turns ELSE <<>>
             p == [q EXCEPT !.pc = "write", !.row = row]
  <2>1. row \in Seq(Said)
    BY <1>0, RequestTyped, ChatBounds
  <2>2. chat' = [chat EXCEPT ![r] = p] /\ chatClock' = chatClock
    BY <1>0, <1>6 DEF Reread
  <2> HIDE DEF row
  <2>3. p \in ChatRequest /\ p.at = q.at
    BY <1>0, <2>1 DEF ChatRequest, ChatPcs
  <2> HIDE DEF p
  <2> QED
    BY <1>0, <1>2, <2>2, <2>3
<1>7. CASE TrimLook(r)
  <2> DEFINE p == [q EXCEPT !.stale = Stale, !.pc = IF Stale = {} THEN "done" ELSE "drop"]
  <2>1. Stale \in SUBSET Nat
    BY LookedTyped
  <2>2. p \in ChatRequest /\ p.at = q.at
    BY <1>0, <2>1 DEF ChatRequest, ChatPcs
  <2>3. chat' = [chat EXCEPT ![r] = p] /\ chatClock' = chatClock
    BY <1>0, <1>7 DEF TrimLook
  <2> HIDE DEF p
  <2> QED
    BY <1>0, <1>2, <2>2, <2>3
<1>8. CASE WriteRow(r) \/ TrimDrop(r) \/ Die(r)
  <2>1. PICK l \in {"trim", "done", "dead"} : chat' = [chat EXCEPT ![r] = [Idle EXCEPT !.pc = l, !.conv = q.conv]]
    BY <1>8 DEF WriteRow, TrimDrop, Die, Forget
  <2> DEFINE p == [Idle EXCEPT !.pc = l, !.conv = q.conv]
  <2>2. q.conv \in Nat
    BY <1>0 DEF ChatRequest
  <2>3. p \in ChatRequest /\ p.at = 0
    BY <2>2, ChatBounds DEF ChatRequest, ChatPcs
  <2>4. chatClock' = chatClock /\ 0 \in 0..chatClock
    BY <1>0, <1>8 DEF WriteRow, TrimDrop, Die
  <2>5. chat' = [chat EXCEPT ![r] = p]
    BY <2>1
  <2> HIDE DEF p
  <2> QED
    BY <1>0, <1>2, <2>3, <2>4, <2>5
<1> QED
  BY <1>3, <1>4, <1>5, <1>6, <1>7, <1>8

\* What the import and the split go on with.
LEMMA ListersTyped ==
  ASSUME ChatTyped, NEW r \in Listers,
         \/ FindHistory(r) \/ ImportTurn(r) \/ EmptyHistory(r) \/ FindUnsplit(r) \/ MarkSplit(r)
         \/ DeleteImport(r) \/ ReinsertTurn(r) \/ SplitDone(r) \/ Die(r)
  PROVE  RequestsTyped'
<1> DEFINE q == chat[r]
<1>0. /\ r \in Requests /\ q \in ChatRequest /\ q.at \in 0..chatClock /\ chatClock \in Nat
      /\ DOMAIN chat = Requests /\ RequestsTyped
  BY RequestTyped DEF Requests, ChatTyped
<1>9. 0 \in 0..chatClock
  BY <1>0
<1>1. chatClock' = chatClock
  BY DEF FindHistory, ImportTurn, EmptyHistory, FindUnsplit, MarkSplit, DeleteImport, ReinsertTurn,
     SplitDone, Die
<1>2. ASSUME NEW p \in ChatRequest, p.at \in 0..chatClock, chat' = [chat EXCEPT ![r] = p]
      PROVE  RequestsTyped'
  <2>1. p.at <= chatClock /\ chatClock <= chatClock
    BY <1>0, <1>2
  <2> QED
    BY <1>0, <1>1, <1>2, <2>1, OneTyped
<1>3. q.row \in Seq(Said) /\ q.todo \in Seq(Said) /\ q.rows \in Seq(ReadRow) /\ q.conv \in Nat
  BY <1>0 DEF ChatRequest
<1>4. CASE FindHistory(r) \/ DeleteImport(r)
  <2>1. PICK l \in {"split", "import", "remake"}, s \in {history, q.row} :
          chat' = [chat EXCEPT ![r].pc = l, ![r].todo = s]
    BY <1>4 DEF FindHistory, DeleteImport
  <2> DEFINE p == [q EXCEPT !.pc = l, !.todo = s]
  <2>2. s \in Seq(Said)
    BY <1>3, ChatBounds DEF ChatTyped, MarksTyped
  <2>3. p \in ChatRequest /\ p.at = q.at
    BY <1>0, <2>2 DEF ChatRequest, ChatPcs
  <2>4. chat' = [chat EXCEPT ![r] = p]
    BY <1>0, <2>1
  <2> HIDE DEF p
  <2> QED
    BY <1>0, <1>2, <2>3, <2>4
<1>5. CASE ImportTurn(r) \/ ReinsertTurn(r)
  <2> DEFINE p == [q EXCEPT !.todo = Tail(q.todo)]
  <2>1. Tail(q.todo) \in Seq(Said)
    BY <1>3, <1>5, TakenTyped DEF ImportTurn, ReinsertTurn
  <2>2. p \in ChatRequest /\ p.at = q.at
    BY <1>0, <2>1 DEF ChatRequest
  <2>3. chat' = [chat EXCEPT ![r] = p]
    BY <1>0, <1>5 DEF ImportTurn, ReinsertTurn
  <2> HIDE DEF p
  <2> QED
    BY <1>0, <1>2, <2>2, <2>3
<1>6. CASE EmptyHistory(r)
  <2> DEFINE p == [q EXCEPT !.pc = "split"]
  <2>1. p \in ChatRequest /\ p.at = q.at
    BY <1>0 DEF ChatRequest, ChatPcs
  <2>2. chat' = [chat EXCEPT ![r] = p]
    BY <1>0, <1>6 DEF EmptyHistory, GoOn
  <2> HIDE DEF p
  <2> QED
    BY <1>0, <1>2, <2>1, <2>2
<1>7. CASE FindUnsplit(r) \/ MarkSplit(r) \/ SplitDone(r)
  <2> DEFINE ids == Ordered(Unsplit, {p \in Ids \X Ids : p[1] < p[2]})
             found == [i \in DOMAIN ids |-> [id |-> ids[i], turns |-> convs[ids[i]].turns]]
  <2>1. found \in Seq(ReadRow)
    BY LookedTyped
  <2>2. PICK rows \in {found, q.rows} : chat' = [chat EXCEPT ![r] = NextRow(rows)]
    BY <1>7 DEF FindUnsplit, MarkSplit, SplitDone
  <2>3. rows \in Seq(ReadRow)
    BY <1>3, <2>1, <2>2
  <2> HIDE DEF found, ids
  <2>4. NextRow(rows) \in ChatRequest /\ NextRow(rows).at = 0
    BY <1>3, <2>3, TakenTyped
  <2> QED
    BY <1>2, <1>9, <2>2, <2>4
<1>8. CASE Die(r)
  <2> DEFINE p == [Idle EXCEPT !.pc = "dead", !.conv = q.conv]
  <2>1. p \in ChatRequest /\ p.at = 0
    BY <1>3, ChatBounds DEF ChatRequest, ChatPcs
  <2>2. chat' = [chat EXCEPT ![r] = p]
    BY <1>8 DEF Die, Forget
  <2> HIDE DEF p
  <2> QED
    BY <1>2, <1>9, <2>1, <2>2
<1> QED
  BY <1>4, <1>5, <1>6, <1>7, <1>8

\* A new conversation has its type,
LEMMA FiledTyped ==
  ASSUME ChatTyped, NEW s \in Seq(Said), Len(s) <= 1, NEW t \in 0..chatClock,
         NEW legacy \in BOOLEAN, NEW split \in BOOLEAN,
         NextId \in Ids, convs' = Filed(NextId, Conv(s, t, legacy, split), convs),
         lastId' = NextId, chatClock' = chatClock
  PROVE  ConvsTyped'
<1> DEFINE v == Conv(s, t, legacy, split)
<1>0. ConvsTyped /\ chatClock \in Nat /\ Longest \in Nat /\ 1 <= Longest
  BY ChatBounds DEF ChatTyped, ClockTyped
<1>1. lastId \in Nat /\ NextId = lastId + 1 /\ NextId \in 0..Cardinality(Ids)
  <2>1. Cardinality(Ids) \in Nat /\ Ids = 1..Cardinality(Ids)
    BY ChatAssumption
  <2> DEFINE n == Cardinality(Ids)
  <2>2. n \in Nat /\ NextId \in 1..n /\ lastId \in 0..n
    BY <1>0, <2>1 DEF ConvsTyped
  <2> HIDE DEF n
  <2>3. lastId \in Nat /\ NextId = lastId + 1 /\ NextId \in 0..n
    BY <2>2 DEF NextId
  <2> QED
    BY <2>3 DEF n
<1>2. v \in ConvRow /\ v.at <= chatClock /\ Len(v.turns) <= Longest
  <2>1. v = [turns |-> s, at |-> t, legacy |-> legacy, split |-> split]
    BY DEF Conv
  <2>2. Len(s) \in Nat /\ t \in Nat /\ t <= chatClock
    BY <1>0
  <2>3. v \in ConvRow /\ v.at = t /\ v.turns = s
    BY <2>1, <2>2 DEF ConvRow
  <2> HIDE DEF v
  <2> QED
    BY <1>0, <2>2, <2>3
<1> HIDE DEF v
<1>3. /\ DOMAIN convs' = Present \cup {NextId} /\ convs'[NextId] = v
      /\ \A c \in Present \ {NextId} : convs'[c] = convs[c]
  BY DEF Filed, Present, v
<1>4. \A c \in Present : /\ convs[c] \in ConvRow /\ convs[c].at <= chatClock
                         /\ Len(convs[c].turns) <= Longest
  BY <1>0 DEF ConvsTyped
<1>5. Present' \subseteq 1..lastId'
  <2>1. Present' = Present \cup {NextId}
    BY <1>3 DEF Present
  <2>2. 1..lastId \subseteq 1..NextId /\ NextId \in 1..NextId
    BY <1>1
  <2> QED
    BY <1>0, <2>1, <2>2 DEF ConvsTyped
<1>6. \A c \in Present' : /\ convs'[c] \in ConvRow /\ convs'[c].at <= chatClock
                          /\ Len(convs'[c].turns) <= Longest
  BY <1>2, <1>3, <1>4 DEF Present
<1> QED
  BY <1>1, <1>5, <1>6 DEF ConvsTyped, Present

\* Numbers that follow each other.
LEMMA AtMost ==
  /\ \A a, b : a \in Nat /\ b \in {a, a + 1} => a <= b /\ b \in Nat
  /\ \A a, b, d \in Nat : a <= b /\ b <= d => a <= d
  /\ \A a, b, t : a \in Nat /\ b \in Nat /\ t \in 0..a /\ a <= b => t \in Nat /\ t <= b
OBVIOUS

\* ... and those that are kept keep it, when they are rewritten too.
LEMMA KeptTyped ==
  ASSUME ChatTyped, DOMAIN convs' \subseteq Present, lastId' = lastId,
         chatClock' \in {chatClock, chatClock + 1},
         \A c \in DOMAIN convs' :
           \/ convs'[c] = convs[c]
           \/ \E s \in Seq(Said), t \in 0..chatClock :
                Len(s) <= MaxMessages /\ convs'[c] = [convs[c] EXCEPT !.turns = s, !.at = t]
           \/ convs'[c] = [convs[c] EXCEPT !.split = TRUE]
  PROVE  ConvsTyped'
<1>0. ConvsTyped /\ chatClock \in Nat /\ Longest \in Nat /\ MaxMessages <= Longest /\ MaxMessages \in Nat
  BY ChatBounds DEF ChatTyped, ClockTyped
<1>3. chatClock <= chatClock' /\ chatClock' \in Nat
  BY ONLY <1>0, AtMost, chatClock' \in {chatClock, chatClock + 1}
<1>1. ASSUME NEW c \in DOMAIN convs'
      PROVE  convs'[c] \in ConvRow /\ convs'[c].at <= chatClock' /\ Len(convs'[c].turns) <= Longest
  <2>1. /\ convs[c] \in ConvRow /\ convs[c].at <= chatClock /\ Len(convs[c].turns) <= Longest
        /\ convs[c].at \in Nat
    BY <1>0 DEF ConvsTyped, ConvRow
  <2> DEFINE k == chatClock'
  <2>5. k \in Nat /\ chatClock <= k
    BY <1>3
  <2> HIDE DEF k
  <2>6. convs[c].at <= k
    BY ONLY <1>0, <2>1, <2>5, AtMost
  <2>7. \A t \in 0..chatClock : t \in Nat /\ t <= k
    BY ONLY <1>0, <2>5, AtMost
  <2>2. CASE convs'[c] = convs[c]
    <3>1. convs[c].at <= chatClock'
      BY <2>6 DEF k
    <3> QED
      BY <2>1, <2>2, <3>1
  <2>3. ASSUME NEW s \in Seq(Said), NEW t \in 0..chatClock, Len(s) <= MaxMessages,
               convs'[c] = [convs[c] EXCEPT !.turns = s, !.at = t]
        PROVE  convs'[c] \in ConvRow /\ convs'[c].at <= chatClock' /\ Len(convs'[c].turns) <= Longest
    <3>1. t \in Nat /\ t <= chatClock' /\ Len(s) \in Nat /\ Len(s) <= Longest
      <4>1. t \in Nat /\ t <= chatClock'
        BY <2>7 DEF k
      <4>2. Len(s) \in Nat /\ Len(s) <= Longest
        <5>1. Len(s) \in Nat
          BY ONLY <2>3
        <5> QED
          BY ONLY <1>0, <2>3, <5>1, AtMost
      <4> QED
        BY <4>1, <4>2
    <3>2. convs'[c] \in ConvRow /\ convs'[c].at = t /\ convs'[c].turns = s
      BY <2>1, <2>3, <3>1 DEF ConvRow
    <3> QED
      BY <3>1, <3>2
  <2>4. CASE convs'[c] = [convs[c] EXCEPT !.split = TRUE]
    <3>1. convs'[c] \in ConvRow /\ convs'[c].at = convs[c].at /\ convs'[c].turns = convs[c].turns
      BY <2>1, <2>4 DEF ConvRow
    <3>2. convs[c].at <= chatClock'
      BY <2>6 DEF k
    <3> QED
      BY <2>1, <3>1, <3>2
  <2> QED
    BY <2>2, <2>3, <2>4
<1>2. Present' \subseteq 1..lastId'
  BY <1>0 DEF ConvsTyped, Present
<1> QED
  BY <1>0, <1>1, <1>2 DEF ConvsTyped, Present

\* So does every step,
LEMMA ConvsStepTyped ==
  ASSUME ChatTyped, [ChatNext]_chatVars
  PROVE  ConvsTyped'
<1>0. /\ chatClock \in Nat /\ chatClock \in {chatClock, chatClock + 1}
      /\ 0 \in 0..chatClock /\ chatClock \in 0..chatClock
  BY DEF ChatTyped, ClockTyped
<1>1. ASSUME NEW r \in Askers, InsertConv(r) PROVE ConvsTyped'
  <2>1. r \in Requests /\ <<>> \in Seq(Said) /\ Len(<<>>) <= 1
    BY ChatBounds DEF Requests
  <2>2. chat[r].at \in 0..chatClock
    BY <2>1, RequestTyped
  <2>3. /\ NextId \in Ids /\ convs' = Filed(NextId, Conv(<<>>, chat[r].at, FALSE, FALSE), convs)
        /\ lastId' = NextId /\ chatClock' = chatClock
    BY <1>1 DEF InsertConv
  <2> QED
    BY <2>1, <2>2, <2>3, FiledTyped
<1>2. ASSUME NEW r \in Listers, ImportTurn(r) \/ ReinsertTurn(r) PROVE ConvsTyped'
  <2>1. r \in Requests
    BY DEF Requests
  <2>2. chat[r].todo \in Seq(Said) /\ chat[r].rows \in Seq(ReadRow)
    BY <2>1, RequestTyped DEF ChatRequest
  <2>3. Head(chat[r].todo) \in Said
    BY <1>2, <2>2, TakenTyped DEF ImportTurn, ReinsertTurn
  <2>4. \A T : \A e \in T : <<e>> \in Seq(T) /\ Len(<<e>>) <= 1
    OBVIOUS
  <2>5. PICK split \in BOOLEAN :
          /\ NextId \in Ids /\ lastId' = NextId /\ chatClock' = chatClock
          /\ convs' = Filed(NextId, Conv(<<Head(chat[r].todo)>>, chatClock, TRUE, split), convs)
    BY <1>2 DEF ImportTurn, ReinsertTurn
  <2> QED
    BY <1>0, <2>3, <2>4, <2>5, FiledTyped
<1>3. ASSUME NEW r \in Askers, WriteRow(r) PROVE ConvsTyped'
  <2> DEFINE c == chat[r].conv
             s == LastTurns(Append(chat[r].row, r))
  <2>1. r \in Requests /\ r \in Said
    BY DEF Requests, Said
  <2>2. chat[r].row \in Seq(Said) /\ chat[r].at \in 0..chatClock
    BY <2>1, RequestTyped DEF ChatRequest
  <2>3. s \in Seq(Said) /\ Len(s) <= MaxMessages
    BY <2>1, <2>2, LastTyped
  <2>4. /\ convs' = IF c \in Present
                    THEN [convs EXCEPT ![c].turns = s, ![c].at = chat[r].at] ELSE convs
        /\ lastId' = lastId /\ chatClock' = chatClock
    BY <1>3 DEF WriteRow
  <2> HIDE DEF s
  <2>5. /\ DOMAIN convs' \subseteq Present
        /\ \A d \in DOMAIN convs' :
             \/ convs'[d] = convs[d]
             \/ convs'[d] = [convs[d] EXCEPT !.turns = s, !.at = chat[r].at]
    BY <2>4 DEF Present
  <2> QED
    BY <1>0, <2>2, <2>3, <2>4, <2>5, KeptTyped
<1>4. ASSUME NEW r \in Listers, MarkSplit(r) PROVE ConvsTyped'
  <2>1. /\ DOMAIN convs' \subseteq Present /\ lastId' = lastId /\ chatClock' = chatClock
        /\ \A d \in DOMAIN convs' :
             convs'[d] = convs[d] \/ convs'[d] = [convs[d] EXCEPT !.split = TRUE]
    BY <1>4 DEF MarkSplit, Present
  <2> QED
    BY <1>0, <2>1, KeptTyped
<1>5. ASSUME NEW S, Drop(S), lastId' = lastId, chatClock' = chatClock PROVE ConvsTyped'
  <2>1. DOMAIN convs' \subseteq Present /\ \A d \in DOMAIN convs' : convs'[d] = convs[d]
    BY <1>5 DEF Drop
  <2> QED
    BY <1>0, <1>5, <2>1, KeptTyped
<1>6. ASSUME convs' = convs, lastId' = lastId, chatClock' \in {chatClock, chatClock + 1}
      PROVE  ConvsTyped'
  <2>1. DOMAIN convs' \subseteq Present /\ \A d \in DOMAIN convs' : convs'[d] = convs[d]
    BY <1>6 DEF Present
  <2> QED
    BY <1>6, <2>1, KeptTyped
<1>7. ASSUME NEW r \in Requests, TrimDrop(r) \/ DeleteImport(r) PROVE ConvsTyped'
  BY <1>5, <1>7 DEF TrimDrop, DeleteImport
<1>8. ASSUME NEW c \in Ids, DeleteConversation(c) PROVE ConvsTyped'
  BY <1>5, <1>8 DEF DeleteConversation
<1>9. ASSUME NEW r \in Askers,
             (\E c \in Ids \cup {0} : PriorMessages(r, c)) \/ FindRow(r) \/ Reread(r) \/ TrimLook(r)
      PROVE  ConvsTyped'
  <2>1. /\ convs' = convs /\ lastId' = lastId /\ (chatClock' = chatClock \/ chatClock' = chatClock + 1)
    BY <1>9 DEF PriorMessages, FindRow, Reread, TrimLook
  <2> QED
    BY <1>6, <2>1
<1>10. ASSUME NEW r \in Requests,
              FindHistory(r) \/ EmptyHistory(r) \/ FindUnsplit(r) \/ SplitDone(r) \/ Die(r)
       PROVE  ConvsTyped'
  BY <1>0, <1>6, <1>10 DEF FindHistory, EmptyHistory, FindUnsplit, SplitDone, Die
<1>11. ClearHistory \/ UNCHANGED chatVars => ConvsTyped'
  BY <1>0, <1>6 DEF ClearHistory, chatVars
<1>12. \A r \in Askers \cup Listers : r \in Requests
  BY DEF Requests
<1> QED
  BY <1>1, <1>2, <1>3, <1>4, <1>7, <1>8, <1>9, <1>10, <1>11, <1>12 DEF ChatNext

\* ... and the requests and the marks too.
LEMMA RequestsStepTyped ==
  ASSUME ChatTyped, [ChatNext]_chatVars
  PROVE  RequestsTyped'
<1>1. ASSUME chat' = chat, chatClock' = chatClock PROVE RequestsTyped'
  BY <1>1 DEF ChatTyped, RequestsTyped, Requests
<1>2. (\E c \in Ids : DeleteConversation(c)) \/ ClearHistory \/ UNCHANGED chatVars => RequestsTyped'
  BY <1>1 DEF DeleteConversation, ClearHistory, chatVars
<1>3. \A r \in Requests : Die(r) => RequestsTyped'
  BY AskersTyped, ListersTyped DEF Requests
<1> QED
  BY <1>2, <1>3, AskersTyped, ListersTyped DEF ChatNext

\* The history variables of an exchange keep their types in a step of a request.
LEMMA MarksStepTyped ==
  ASSUME ChatTyped, [ChatNext]_chatVars
  PROVE  MarksTyped'
<1>0. MarksTyped
  BY DEF ChatTyped
<1>1. history' \in {history, <<>>} /\ \A T : <<>> \in Seq(T)
  <2>1. \A T : <<>> \in Seq(T)
    OBVIOUS
  <2>2. history' = history \/ history' = <<>>
    BY DEF ChatNext, chatVars, PriorMessages, FindRow, InsertConv, Reread, WriteRow, TrimLook, TrimDrop,
       FindHistory, ImportTurn, EmptyHistory, FindUnsplit, MarkSplit, DeleteImport, ReinsertTurn,
       SplitDone, DeleteConversation, ClearHistory, Die
  <2> QED
    BY <2>1, <2>2
<1>2. gone' = gone \/ gone' = gone \cup ToSet(history) \/ \E S : gone' = gone \cup (Turns \cap S)
  BY Zenon DEF ChatNext, chatVars, PriorMessages, FindRow, InsertConv, Reread, WriteRow, TrimLook,
     TrimDrop, FindHistory, ImportTurn, EmptyHistory, FindUnsplit, MarkSplit, DeleteImport,
     ReinsertTurn, SplitDone, DeleteConversation, ClearHistory, Die, Drop
<1>3. raced' = raced \/ raced' \subseteq raced \cup Askers
  <2>1. \A c : InHand(c) \subseteq Askers
    BY DEF InHand
  <2>2. ASSUME NEW r \in Askers, FindRow(r) \/ Reread(r) PROVE raced' \subseteq raced \cup Askers
    BY <2>1, <2>2 DEF FindRow, Reread
  <2>3. raced' = raced \/ \E r \in Askers : FindRow(r) \/ Reread(r)
    BY DEF ChatNext, chatVars, PriorMessages, InsertConv, WriteRow, TrimLook, TrimDrop,
       FindHistory, ImportTurn, EmptyHistory, FindUnsplit, MarkSplit, DeleteImport, ReinsertTurn,
       SplitDone, DeleteConversation, ClearHistory, Die
  <2> QED
    BY <2>2, <2>3
<1>4. dead' = dead \/ \E r \in Requests : dead' = dead \cup {r}
  BY DEF ChatNext, chatVars, PriorMessages, FindRow, InsertConv, Reread, WriteRow, TrimLook, TrimDrop,
     FindHistory, ImportTurn, EmptyHistory, FindUnsplit, MarkSplit, DeleteImport, ReinsertTurn,
     SplitDone, DeleteConversation, ClearHistory, Die
<1>5. ToSet(history) \subseteq Turns
  <2>1. history \in Seq(Turns)
    BY <1>0 DEF MarksTyped
  <2> QED
    BY <2>1 DEF ToSet
<1>6. history' \in Seq(Turns)
  BY <1>0, <1>1 DEF MarksTyped
<1>7. gone' \subseteq Turns
  BY <1>0, <1>2, <1>5 DEF MarksTyped
<1>8. raced' \subseteq Askers /\ dead' \subseteq Requests
  BY <1>0, <1>3, <1>4 DEF MarksTyped
<1> QED
  BY <1>6, <1>7, <1>8 DEF MarksTyped, Requests

(* The clock counts the askers that had an answer to store.                  *)
LEMMA ClockStepTyped ==
  ASSUME ChatTyped, [ChatNext]_chatVars
  PROVE  ClockTyped'
<1>0. /\ chatClock \in Nat /\ chatClock <= Cardinality(Replied)
      /\ \A r \in Requests : chat[r] \in ChatRequest
      /\ DOMAIN chat = Requests /\ chat \in [Requests -> ChatRequest]
  BY DEF ChatTyped, ClockTyped, RequestsTyped
<1>1. \A S : S \subseteq Askers => IsFiniteSet(S) /\ Cardinality(S) \in Nat
  BY ChatAssumption, FS_Subset, FS_CardinalityType
<1>2. Replied \subseteq Askers /\ Replied' \subseteq Askers
  BY DEF Replied
<1>3. \A r \in Askers : r \in Requests
  BY DEF Requests
<1>4. ASSUME Replied \subseteq Replied', chatClock' = chatClock PROVE ClockTyped'
  <2>1. Cardinality(Replied) <= Cardinality(Replied')
    BY <1>1, <1>2, <1>4, FS_Subset
  <2>2. Cardinality(Replied) \in Nat /\ Cardinality(Replied') \in Nat
    BY <1>1, <1>2
  <2> QED
    BY <1>0, <1>4, <2>1, <2>2, AtMost DEF ClockTyped
<1>5. ASSUME NEW r \in Askers, FindRow(r) PROVE ClockTyped'
  <2>1. chat[r].pc = "answer" /\ chatClock' = chatClock + 1
    BY <1>5 DEF FindRow
  <2>2. /\ \A q \in Requests : q # r => chat'[q].pc = chat[q].pc
        /\ chat'[r].pc \in {"write", "insert"}
    BY <1>0, <1>3, <1>5 DEF FindRow, ChatRequest
  <2>3. Replied' = Replied \cup {r} /\ r \notin Replied
    BY <1>3, <2>1, <2>2 DEF Replied
  <2>4. Cardinality(Replied') = Cardinality(Replied) + 1
    BY <1>1, <1>2, <2>3, FS_AddElement
  <2>5. Cardinality(Replied) \in Nat
    BY <1>1, <1>2
  <2> QED
    BY <1>0, <2>1, <2>4, <2>5 DEF ClockTyped
<1>6. ASSUME chatClock' = chatClock,
             \A q \in Askers : chat'[q].pc = chat[q].pc \/ chat[q].pc = "idle"
                                 \/ chat'[q].pc \notin {"idle", "answer"}
      PROVE  ClockTyped'
  <2>1. Replied \subseteq Replied'
    BY <1>6 DEF Replied
  <2> QED
    BY <1>4, <1>6, <2>1
<1>7. ASSUME NEW r \in Requests, NEW q, chatClock' = chatClock, chat' = [chat EXCEPT ![r] = q],
             chat[r].pc = "idle" \/ q.pc \notin {"idle", "answer"}
      PROVE  ClockTyped'
  BY <1>0, <1>3, <1>6, <1>7
<1>8. ASSUME NEW r \in Askers, NEW c, PriorMessages(r, c) PROVE ClockTyped'
  BY <1>0, <1>3, <1>6, <1>8 DEF PriorMessages, ChatRequest
<1>9. ASSUME NEW r \in Askers,
             InsertConv(r) \/ Reread(r) \/ WriteRow(r) \/ TrimLook(r) \/ TrimDrop(r) \/ Die(r)
      PROVE  ClockTyped'
  <2>0. r \in Requests /\ chat[r] \in ChatRequest /\ chatClock' = chatClock
    BY <1>0, <1>3, <1>9 DEF InsertConv, Reread, WriteRow, TrimLook, TrimDrop, Die
  <2>1. CASE InsertConv(r) \/ Reread(r) \/ TrimLook(r)
    <3>1. /\ \A q \in Askers : q # r => chat'[q] = chat[q]
          /\ chat'[r].pc \in {"reread", "write", "done", "drop"}
      <4>1. DOMAIN chat[r] = {"pc", "conv", "at", "row", "todo", "rows", "stale"}
        BY <2>0 DEF ChatRequest
      <4>2. \A p : chat' = [chat EXCEPT ![r] = p] =>
              chat'[r] = p /\ \A q \in Askers : q # r => chat'[q] = chat[q]
        BY <1>0, <1>3, <2>0
      <4>3. CASE InsertConv(r)
        <5>1. chat' = [chat EXCEPT ![r] = [chat[r] EXCEPT !.pc = "reread", !.conv = NextId]]
          BY <2>0, <4>3 DEF InsertConv
        <5> QED
          BY <4>1, <4>2, <5>1
      <4>4. CASE Reread(r)
        <5> DEFINE row == IF chat[r].conv \in Present THEN convs[chat[r].conv].turns ELSE <<>>
        <5>1. chat' = [chat EXCEPT ![r] = [chat[r] EXCEPT !.pc = "write", !.row = row]]
          BY <2>0, <4>4 DEF Reread
        <5> HIDE DEF row
        <5> QED
          BY <4>1, <4>2, <5>1
      <4>5. CASE TrimLook(r)
        <5> DEFINE l == IF Stale = {} THEN "done" ELSE "drop"
        <5>1. chat' = [chat EXCEPT ![r] = [chat[r] EXCEPT !.stale = Stale, !.pc = l]]
          BY <2>0, <4>5 DEF TrimLook
        <5>2. l \in {"done", "drop"}
          OBVIOUS
        <5> HIDE DEF l
        <5> QED
          BY <4>1, <4>2, <5>1, <5>2
      <4> QED
        BY <2>1, <4>3, <4>4, <4>5
    <3> QED
      BY <1>6, <2>0, <3>1
  <2>2. CASE WriteRow(r) \/ TrimDrop(r) \/ Die(r)
    <3>1. PICK l \in {"trim", "done", "dead"} :
            chat' = [chat EXCEPT ![r] = [Idle EXCEPT !.pc = l, !.conv = chat[r].conv]]
      BY <2>2 DEF WriteRow, TrimDrop, Die, Forget
    <3> DEFINE p == [Idle EXCEPT !.pc = l, !.conv = chat[r].conv]
    <3>2. p.pc = l
      BY DEF Idle
    <3>3. chat' = [chat EXCEPT ![r] = p]
      BY <3>1
    <3> HIDE DEF p
    <3> QED
      BY <1>7, <2>0, <3>2, <3>3
  <2> QED
    BY <1>9, <2>1, <2>2
<1>10. ASSUME NEW r \in Listers,
              FindHistory(r) \/ ImportTurn(r) \/ EmptyHistory(r) \/ FindUnsplit(r) \/ MarkSplit(r)
                \/ DeleteImport(r) \/ ReinsertTurn(r) \/ SplitDone(r) \/ Die(r)
       PROVE  ClockTyped'
  <2>1. r \notin Askers
    BY ChatAssumption
  <2>2. chatClock' = chatClock
    BY <1>10 DEF FindHistory, ImportTurn, EmptyHistory, FindUnsplit, MarkSplit, DeleteImport,
       ReinsertTurn, SplitDone, Die
  <2>3. \E x : chat' = [chat EXCEPT ![r] = x]
    <3>1. CASE FindHistory(r) \/ ImportTurn(r) \/ EmptyHistory(r) \/ DeleteImport(r) \/ ReinsertTurn(r)
      BY <1>0, <3>1 DEF FindHistory, ImportTurn, EmptyHistory, DeleteImport, ReinsertTurn, GoOn
    <3>2. CASE FindUnsplit(r) \/ MarkSplit(r) \/ SplitDone(r) \/ Die(r)
      <4> DEFINE ids == Ordered(Unsplit, {p \in Ids \X Ids : p[1] < p[2]})
                 rows == [i \in DOMAIN ids |-> [id |-> ids[i], turns |-> convs[ids[i]].turns]]
      <4>1. FindUnsplit(r) => chat' = [chat EXCEPT ![r] = NextRow(rows)]
        BY DEF FindUnsplit
      <4> HIDE DEF rows, ids
      <4> QED
        BY <3>2, <4>1 DEF MarkSplit, SplitDone, Die, Forget
    <3> QED
      BY <1>10, <3>1, <3>2
  <2>4. \A q \in Askers : chat'[q] = chat[q]
    BY <1>0, <1>3, <2>1, <2>3
  <2> QED
    BY <1>6, <2>2, <2>4
<1>11. ASSUME chatClock' = chatClock, chat' = chat PROVE ClockTyped'
  BY <1>6, <1>11
<1>12. (\E c \in Ids : DeleteConversation(c)) \/ ClearHistory \/ UNCHANGED chatVars => ClockTyped'
  BY <1>11 DEF DeleteConversation, ClearHistory, chatVars
<1> QED
  BY <1>5, <1>8, <1>9, <1>10, <1>12 DEF ChatNext, Requests

\* The documents, requests and marks begin with their types.
LEMMA ChatInitTyped == ChatInit => ChatTyped
<1> SUFFICES ASSUME ChatInit PROVE ChatTyped
  OBVIOUS
<1>0. /\ chatClock = 0 /\ raced = {} /\ gone = {} /\ dead = {} /\ lastId = Cardinality(DOMAIN convs)
      /\ Legacy \in Seq(Turns)
  BY ChatAssumption DEF ChatInit
<1>1. RequestsTyped
  <2>1. [Idle EXCEPT !.pc = "done"] \in ChatRequest /\ [Idle EXCEPT !.pc = "done"].at = 0
    BY ChatBounds DEF ChatRequest, ChatPcs
  <2>2. PICK crew \in Crews :
          chat = [r \in Requests |-> IF r \in crew THEN Idle ELSE [Idle EXCEPT !.pc = "done"]]
    BY DEF ChatInit
  <2> QED
    BY <1>0, <2>1, <2>2, ChatBounds DEF RequestsTyped
<1>2. ClockTyped
  <2>1. Replied \subseteq Askers
    BY DEF Replied
  <2>2. Cardinality(Replied) \in Nat
    BY <2>1, ChatAssumption, FS_Subset, FS_CardinalityType
  <2> QED
    BY <1>0, <2>2 DEF ClockTyped
<1>3. MarksTyped
  <2>1. history = Legacy \/ history = <<>>
    BY DEF ChatInit
  <2> QED
    BY <1>0, <2>1, ChatBounds DEF MarksTyped
<1>4. ConvsTyped
  <2>1. Cardinality(Ids) \in Nat \ {0}
    BY ChatAssumption
  <2>2. CASE convs = <<>>
    <3>1. Present = {} /\ Cardinality({}) = 0
      BY <2>2, FS_EmptySet DEF Present
    <3> QED
      BY <1>0, <2>1, <3>1 DEF ConvsTyped, Present
  <2>3. CASE convs = Filed(1, Conv(Legacy, 0, TRUE, FALSE), <<>>)
    <3>1. DOMAIN convs = {1} /\ convs[1] = Conv(Legacy, 0, TRUE, FALSE)
      BY <2>3 DEF Filed
    <3>2. lastId = 1
      BY <1>0, <3>1, FS_Singleton
    <3>3. Conv(Legacy, 0, TRUE, FALSE) \in ConvRow
      BY <1>0, ChatBounds DEF Conv, ConvRow
    <3>4. /\ Conv(Legacy, 0, TRUE, FALSE).at = 0
          /\ Conv(Legacy, 0, TRUE, FALSE).turns = Legacy
      BY DEF Conv
    <3>5. 1 \in 0..Cardinality(Ids) /\ 1 \in 1..1 /\ 0 <= 0
      BY <2>1
    <3> QED
      BY <1>0, <3>1, <3>2, <3>3, <3>4, <3>5, ChatBounds DEF ConvsTyped, Present
  <2> QED
    BY <2>2, <2>3 DEF ChatInit
<1> QED
  BY <1>1, <1>2, <1>3, <1>4 DEF ChatTyped

\* So they keep them in every behaviour.
LEMMA ChatTypedAlways == ChatSpec => []ChatTyped
<1>1. ChatTyped /\ [ChatNext]_chatVars => ChatTyped'
  BY RequestsStepTyped, ConvsStepTyped, MarksStepTyped, ClockStepTyped DEF ChatTyped
<1> QED
  BY ChatInitTyped, <1>1, PTL DEF ChatSpec

(* Type correctness of the conversations: the documents of a user, what each *)
(* request has read of them and will write, and what the clients were told,  *)
(* for any number of requests, turns and conversations.                      *)
THEOREM ChatTypeCorrect == ChatSpec => []ChatTypeOK
<1>1. ChatTyped => ChatTypeOK
  <2> SUFFICES ASSUME ChatTyped PROVE ChatTypeOK
    OBVIOUS
  <2>1. ASSUME NEW c \in Present
        PROVE  /\ ToSet(convs[c].turns) \subseteq Askers \cup Turns
               /\ Len(convs[c].turns) <= Max({MaxMessages, Len(Legacy)})
               /\ convs[c].at \in 0..Cardinality(Askers)
    <3>1. convs[c] \in ConvRow /\ convs[c].at <= chatClock /\ Len(convs[c].turns) <= Longest
      BY DEF ChatTyped, ConvsTyped
    <3>2. convs[c].turns \in Seq(Said) /\ convs[c].at \in Nat
      BY <3>1 DEF ConvRow
    <3>3. chatClock \in Nat /\ chatClock <= Cardinality(Replied) /\ Replied \subseteq Askers
      BY DEF ChatTyped, ClockTyped, Replied
    <3>4. Cardinality(Replied) <= Cardinality(Askers) /\ Cardinality(Askers) \in Nat
      BY <3>3, ChatAssumption, FS_Subset, FS_CardinalityType
    <3>5. Cardinality(Replied) \in Nat
      BY <3>3, ChatAssumption, FS_Subset, FS_CardinalityType
    <3>6. convs[c].at <= Cardinality(Askers)
      BY <3>1, <3>2, <3>3, <3>4, <3>5, AtMost
    <3>7. ToSet(convs[c].turns) \subseteq Said
      BY <3>2 DEF ToSet
    <3> QED
      BY <3>1, <3>2, <3>4, <3>6, <3>7 DEF Said, Longest
  <2> QED
    BY <2>1 DEF ChatTyped, ConvsTyped, MarksTyped, ChatTypeOK
<1> QED
  BY <1>1, ChatTypedAlways, PTL
-----------------------------------------------------------------------------
(* How many conversations there are.                                         *)

NewConvs == {c \in Present : ~convs[c].legacy}
OnWay == {r \in Askers : chat[r].pc \in {"reread", "write", "trim", "drop", "dead"}}
Droppers == {r \in Askers : chat[r].pc = "drop"}
Marked(D) == UNION {chat[r].stale : r \in D}

\* The limit holds for what is left when any of the requests have dropped what they found.
Trimmed ==
  \A D \in SUBSET Droppers :
    Cardinality(NewConvs \ Marked(D)) <= MaxConvs + Cardinality(OnWay \ D)

\* The places of the conversations by time and id.
ByTime == {p \in Present \X Present : Later(p[1], p[2])}
Numbered == \A c \in Present : convs[c].at \in Nat

(* No more conversations are kept than the limit.                            *)
LEMMA KeptFew ==
  ASSUME ChatRows, Numbered
  PROVE  /\ IsFiniteSet(Present \ Stale) /\ Cardinality(Present \ Stale) <= MaxConvs
         /\ Stale \subseteq Present
<1> DEFINE N == Cardinality(Present)
           K == Present \ Stale
<1>1. Present \subseteq 1..lastId /\ lastId \in Nat /\ Present \subseteq Nat
  BY DEF ChatRows
<1>2. IsFiniteSet(Present)
  <2>1. IsFiniteSet(1..lastId)
    BY <1>1, FS_Interval
  <2> QED
    BY <1>1, <2>1, FS_Subset
<1>3. Orders(Present, ByTime)
  <2>1. \A c, d \in Present : <<c, d>> \in ByTime <=> Later(c, d)
    BY DEF ByTime
  <2>2. \A c \in Present : ~Later(c, c)
    BY <1>1 DEF Numbered, Later
  <2>3. ASSUME NEW b \in Present, NEW c \in Present, NEW d \in Present, Later(b, c), Later(c, d)
        PROVE  Later(b, d)
    <3>1. \A x, y, z, p, q, t \in Nat :
            (x > y \/ (x = y /\ p > q)) /\ (y > z \/ (y = z /\ q > t)) => x > z \/ (x = z /\ p > t)
      OBVIOUS
    <3>2. /\ convs[b].at \in Nat /\ convs[c].at \in Nat /\ convs[d].at \in Nat
          /\ b \in Nat /\ c \in Nat /\ d \in Nat
      BY <1>1 DEF Numbered
    <3> QED
      BY <2>3, <3>1, <3>2 DEF Later
  <2>4. ASSUME NEW c \in Present, NEW d \in Present PROVE c = d \/ Later(c, d) \/ Later(d, c)
    <3>1. \A x, y, p, q \in Nat : p = q \/ x > y \/ (x = y /\ p > q) \/ y > x \/ (y = x /\ q > p)
      OBVIOUS
    <3>2. convs[c].at \in Nat /\ convs[d].at \in Nat /\ c \in Nat /\ d \in Nat
      BY <1>1 DEF Numbered
    <3> QED
      BY <3>1, <3>2 DEF Later
  <2> QED
    BY <1>2, <2>1, <2>2, <2>3, <2>4 DEF Orders
<1>4. \A c \in Present : Ahead(Present, ByTime, c) = Cardinality({d \in Present : Later(d, c)})
  <2>1. \A c \in Present : Below(Present, ByTime, c) = {d \in Present : Later(d, c)}
    BY DEF Below, ByTime
  <2> QED
    BY <2>1 DEF Ahead
<1>5. MaxConvs \in Nat
  BY ChatAssumption
<1>6. \A c \in K : Ahead(Present, ByTime, c) < MaxConvs
  BY <1>3, <1>4, <1>5, RanksFollow DEF Stale
<1>7. Cardinality({n \in 1..N : Place(Present, ByTime, n) \in K}) = Cardinality(K)
  BY <1>3, PlacesOf
<1>8. {n \in 1..N : Place(Present, ByTime, n) \in K} \subseteq 1..MaxConvs
  <2> SUFFICES ASSUME NEW n \in 1..N, Place(Present, ByTime, n) \in K PROVE n \in 1..MaxConvs
    OBVIOUS
  <2>1. Ahead(Present, ByTime, Place(Present, ByTime, n)) = n - 1 /\ n \in Nat /\ n >= 1
    BY <1>3, Placed, RanksFollow
  <2>2. n - 1 < MaxConvs
    BY <1>6, <2>1
  <2> QED
    BY <1>5, <2>1, <2>2
<1>9. IsFiniteSet(1..MaxConvs) /\ Cardinality(1..MaxConvs) = MaxConvs
  BY <1>5, FS_Interval
<1>10. Cardinality({n \in 1..N : Place(Present, ByTime, n) \in K}) <= MaxConvs
  <2> HIDE DEF N, K
  <2> QED
    BY <1>8, <1>9, FS_Subset
<1>11. IsFiniteSet(K)
  BY <1>2, FS_Subset
<1> QED
  BY <1>7, <1>10, <1>11 DEF Stale

\* The sets counted are finite.
LEMMA CountedFinite ==
  ASSUME ChatRows
  PROVE  /\ IsFiniteSet(NewConvs) /\ IsFiniteSet(OnWay)
         /\ \A D : /\ IsFiniteSet(NewConvs \ D) /\ Cardinality(NewConvs \ D) \in Nat
                   /\ IsFiniteSet(OnWay \ D) /\ Cardinality(OnWay \ D) \in Nat
<1>1. IsFiniteSet(NewConvs)
  <2>1. IsFiniteSet(1..lastId)
    BY FS_Interval DEF ChatRows
  <2>2. NewConvs \subseteq 1..lastId
    BY DEF ChatRows, NewConvs
  <2> QED
    BY <2>1, <2>2, FS_Subset
<1>2. IsFiniteSet(OnWay)
  <2>1. OnWay \subseteq Askers
    BY DEF OnWay
  <2> QED
    BY <2>1, ChatAssumption, FS_Subset
<1>3. \A S, D : IsFiniteSet(S) => IsFiniteSet(S \ D) /\ Cardinality(S \ D) \in Nat
  BY FS_Subset, FS_CardinalityType
<1> QED
  BY <1>1, <1>2, <1>3

(* A step that creates no new conversation, lets no request off its way and  *)
(* finds nothing.                                                            *)
LEMMA TrimmedStays ==
  ASSUME ChatRows, ChatRows', Trimmed, NewConvs' \subseteq NewConvs, OnWay \subseteq OnWay',
         Droppers' \subseteq Droppers, \A q \in Droppers' : chat'[q].stale = chat[q].stale
  PROVE  Trimmed'
<1> SUFFICES ASSUME NEW D \in SUBSET Droppers'
             PROVE  Cardinality(NewConvs' \ Marked(D)') <= MaxConvs + Cardinality(OnWay' \ D)
  BY DEF Trimmed
<1>1. Marked(D)' = Marked(D)
  BY DEF Marked
<1>2. Cardinality(NewConvs \ Marked(D)) <= MaxConvs + Cardinality(OnWay \ D)
  BY DEF Trimmed
<1>3. /\ IsFiniteSet(NewConvs \ Marked(D)) /\ Cardinality(NewConvs \ Marked(D)) \in Nat
      /\ Cardinality(OnWay \ D) \in Nat
  BY CountedFinite
<1>4. IsFiniteSet(NewConvs') /\ IsFiniteSet(OnWay')
  <2>0. NewConvs' \subseteq 1..lastId' /\ OnWay' \subseteq Askers /\ lastId' \in Nat
    BY DEF ChatRows, NewConvs, OnWay
  <2>1. IsFiniteSet(1..lastId') /\ NewConvs' \subseteq 1..lastId' /\ OnWay' \subseteq Askers
    <3>1. \A n \in Nat : IsFiniteSet(1..n)
      BY FS_Interval
    <3> QED
      BY <2>0, <3>1
  <2> QED
    BY <2>1, ChatAssumption, FS_Subset
<1>5. /\ NewConvs' \ Marked(D)' \subseteq NewConvs \ Marked(D)
      /\ OnWay \ D \subseteq OnWay' \ D /\ OnWay' \ D \subseteq OnWay'
  BY <1>1
<1>6. /\ Cardinality(NewConvs' \ Marked(D)') <= Cardinality(NewConvs \ Marked(D))
      /\ IsFiniteSet(NewConvs' \ Marked(D)')
  BY <1>3, <1>5, FS_Subset
<1>7. Cardinality(OnWay \ D) <= Cardinality(OnWay' \ D) /\ IsFiniteSet(OnWay' \ D)
  BY <1>4, <1>5, FS_Subset
<1>8. Cardinality(NewConvs' \ Marked(D)') \in Nat /\ Cardinality(OnWay' \ D) \in Nat
  BY <1>6, <1>7, FS_CardinalityType
<1>9. \A a, b, c, d, m \in Nat : a <= b /\ b <= m + c /\ c <= d => a <= m + d
  OBVIOUS
<1> QED
  BY <1>2, <1>3, <1>6, <1>7, <1>8, <1>9, ChatAssumption

(* A request inserts a conversation, and is on its way to the trim.          *)
LEMMA TrimmedInsert ==
  ASSUME ChatRows, ChatRows', Trimmed, NEW r \in Askers, InsertConv(r)
  PROVE  Trimmed'
<1> SUFFICES ASSUME NEW D \in SUBSET Droppers'
             PROVE  Cardinality(NewConvs' \ Marked(D)') <= MaxConvs + Cardinality(OnWay' \ D)
  BY DEF Trimmed
<1>1. /\ chat[r].pc = "insert" /\ chat' = [chat EXCEPT ![r].pc = "reread", ![r].conv = NextId]
      /\ convs' = Filed(NextId, Conv(<<>>, chat[r].at, FALSE, FALSE), convs)
  BY DEF InsertConv
<1>2. /\ chat'[r].pc = "reread"
      /\ \A q \in Requests \ {r} : chat'[q] = chat[q]
      /\ r \in Requests
  BY <1>1 DEF ChatRows, IsChat, Requests
<1>3. Droppers' = Droppers /\ r \notin Droppers
  BY <1>1, <1>2 DEF Droppers, Requests
<1>4. Marked(D)' = Marked(D)
  BY <1>2, <1>3 DEF Marked, Droppers, Requests
<1>5. NewConvs' \subseteq NewConvs \cup {NextId}
  <2>1. DOMAIN convs' = Present \cup {NextId} /\ \A d \in Present \ {NextId} : convs'[d] = convs[d]
    BY <1>1 DEF Filed, Present
  <2> QED
    BY <2>1 DEF NewConvs, Present
<1>6. OnWay' \ D = (OnWay \ D) \cup {r} /\ r \notin OnWay
  BY <1>1, <1>2, <1>3 DEF OnWay, Requests
<1> DEFINE X == NewConvs \ Marked(D)
           Y == OnWay \ D
<1>7. Cardinality(X) <= MaxConvs + Cardinality(Y)
  BY <1>3 DEF Trimmed
<1>8. IsFiniteSet(X) /\ Cardinality(X) \in Nat /\ IsFiniteSet(Y) /\ Cardinality(Y) \in Nat
  BY CountedFinite
<1>9. NewConvs' \ Marked(D)' \subseteq X \cup {NextId}
  BY <1>4, <1>5
<1>10. r \notin Y
  BY <1>6
<1> HIDE DEF X, Y
<1>11. Cardinality(Y \cup {r}) = Cardinality(Y) + 1
  BY <1>8, <1>10, FS_AddElement
<1>12. /\ IsFiniteSet(X \cup {NextId})
       /\ Cardinality(X \cup {NextId}) <= Cardinality(X) + 1 /\ Cardinality(X \cup {NextId}) \in Nat
  <2>1. /\ IsFiniteSet(X \cup {NextId})
        /\ \/ Cardinality(X \cup {NextId}) = Cardinality(X)
           \/ Cardinality(X \cup {NextId}) = Cardinality(X) + 1
    BY <1>8, FS_AddElement
  <2> QED
    BY <1>8, <2>1
<1>13. /\ Cardinality(NewConvs' \ Marked(D)') <= Cardinality(X \cup {NextId})
       /\ Cardinality(NewConvs' \ Marked(D)') \in Nat
  BY <1>9, <1>12, FS_Subset, FS_CardinalityType
<1>14. Cardinality(OnWay' \ D) = Cardinality(Y) + 1
  BY <1>6, <1>11 DEF Y
<1>15. \A a, b, c, d, m \in Nat : a <= b /\ b <= c + 1 /\ c <= m + d => a <= m + (d + 1)
  OBVIOUS
<1> QED
  BY <1>7, <1>8, <1>12, <1>13, <1>14, <1>15, ChatAssumption

(* A request finds what to drop, or that there is nothing.                   *)
LEMMA TrimmedLook ==
  ASSUME ChatRows, ChatRows', Numbered, Trimmed, NEW r \in Askers, TrimLook(r)
  PROVE  Trimmed'
<1> SUFFICES ASSUME NEW D \in SUBSET Droppers'
             PROVE  Cardinality(NewConvs' \ Marked(D)') <= MaxConvs + Cardinality(OnWay' \ D)
  BY DEF Trimmed
<1>1. /\ chat[r].pc = "trim" /\ convs' = convs
      /\ chat' = [chat EXCEPT ![r].stale = Stale, ![r].pc = IF Stale = {} THEN "done" ELSE "drop"]
  BY DEF TrimLook
<1>2. /\ chat'[r].pc = IF Stale = {} THEN "done" ELSE "drop"
      /\ chat'[r].stale = Stale
      /\ \A q \in Requests \ {r} : chat'[q] = chat[q]
      /\ r \in Requests
  BY <1>1 DEF ChatRows, IsChat, Requests
<1>3. NewConvs' = NewConvs
  BY <1>1 DEF NewConvs, Present
<1>4. IsFiniteSet(OnWay') /\ \A E : Cardinality(OnWay' \ E) \in Nat
  <2>1. OnWay' \subseteq Askers
    BY DEF OnWay
  <2>2. \A E : IsFiniteSet(OnWay' \ E)
    BY <2>1, ChatAssumption, FS_Subset
  <2> QED
    BY <2>1, <2>2, ChatAssumption, FS_Subset, FS_CardinalityType
<1>5. CASE Stale = {} \/ r \in D
  <2>1. NewConvs' \ Marked(D)' \subseteq Present \ Stale
    <3>1. CASE Stale = {}
      BY <1>3, <3>1 DEF NewConvs
    <3>2. CASE r \in D
      <4>1. Stale \subseteq Marked(D)'
        BY <1>2, <3>2 DEF Marked
      <4> QED
        BY <1>3, <4>1 DEF NewConvs
    <3> QED
      BY <1>5, <3>1, <3>2
  <2>2. /\ Cardinality(NewConvs' \ Marked(D)') <= Cardinality(Present \ Stale)
        /\ IsFiniteSet(NewConvs' \ Marked(D)')
    BY <2>1, KeptFew, FS_Subset
  <2>3. Cardinality(Present \ Stale) <= MaxConvs /\ Cardinality(Present \ Stale) \in Nat
    BY KeptFew, FS_CardinalityType
  <2>4. Cardinality(NewConvs' \ Marked(D)') \in Nat
    BY <2>2, FS_CardinalityType
  <2>5. \A a, b, d, m \in Nat : a <= b /\ b <= m => a <= m + d
    OBVIOUS
  <2> QED
    BY <1>4, <2>2, <2>3, <2>4, <2>5, ChatAssumption
<1>6. CASE Stale # {} /\ r \notin D
  <2>1. D \subseteq Droppers /\ \A q \in D : chat'[q].stale = chat[q].stale
    BY <1>2, <1>6 DEF Droppers, Requests
  <2>2. Marked(D)' = Marked(D)
    BY <2>1 DEF Marked
  <2>3. OnWay' = OnWay
    BY <1>1, <1>2, <1>6 DEF OnWay, Requests
  <2> QED
    BY <1>3, <2>1, <2>2, <2>3 DEF Trimmed
<1> QED
  BY <1>5, <1>6

(* A request drops what it found, and is done.                               *)
LEMMA TrimmedDrop ==
  ASSUME ChatRows, ChatRows', Trimmed, NEW r \in Askers, TrimDrop(r)
  PROVE  Trimmed'
<1> SUFFICES ASSUME NEW D \in SUBSET Droppers'
             PROVE  Cardinality(NewConvs' \ Marked(D)') <= MaxConvs + Cardinality(OnWay' \ D)
  BY DEF Trimmed
<1> DEFINE S == chat[r].stale
<1>1. /\ chat[r].pc = "drop" /\ convs' = [c \in Present \ S |-> convs[c]]
      /\ chat' = [chat EXCEPT ![r] = [Idle EXCEPT !.pc = "done", !.conv = chat[r].conv]]
  BY DEF TrimDrop, Drop, Forget
<1>2. /\ chat'[r].pc = "done"
      /\ \A q \in Requests \ {r} : chat'[q] = chat[q]
      /\ r \in Requests
  BY <1>1 DEF ChatRows, IsChat, Requests, Idle
<1>3. D \subseteq Droppers /\ r \notin D /\ r \in Droppers
  BY <1>1, <1>2 DEF Droppers, Requests
<1>4. Marked(D)' = Marked(D)
  BY <1>2, <1>3 DEF Marked, Droppers, Requests
<1>5. Marked(D \cup {r}) = Marked(D) \cup S
  BY DEF Marked
<1>6. NewConvs' = NewConvs \ S
  <2>1. DOMAIN convs' = Present \ S /\ \A c \in Present \ S : convs'[c] = convs[c]
    BY <1>1
  <2> QED
    BY <2>1 DEF NewConvs, Present
<1>7. NewConvs' \ Marked(D)' = NewConvs \ Marked(D \cup {r})
  BY <1>4, <1>5, <1>6
<1>8. OnWay' \ D = OnWay \ (D \cup {r})
  BY <1>2, <1>3 DEF OnWay, Requests
<1>9. D \cup {r} \in SUBSET Droppers
  BY <1>3
<1>10. Cardinality(NewConvs \ Marked(D \cup {r})) <= MaxConvs + Cardinality(OnWay \ (D \cup {r}))
  BY <1>9 DEF Trimmed
<1> QED
  BY <1>7, <1>8, <1>10

\* Any other step: no new conversation, and what was on its way stays on it.
LEMMA TrimmedOthers ==
  ASSUME ChatRows, ChatRows', Trimmed, NewConvs' \subseteq NewConvs,
         \A q \in Askers :
           \/ chat'[q] = chat[q]
           \/ /\ chat'[q].pc # "drop"
              /\ chat[q].pc \in {"reread", "write", "trim", "drop", "dead"}
                   => chat'[q].pc \in {"reread", "write", "trim", "drop", "dead"}
  PROVE  Trimmed'
<1>1. /\ OnWay \subseteq OnWay' /\ Droppers' \subseteq Droppers
      /\ \A q \in Droppers' : chat'[q].stale = chat[q].stale
  BY DEF OnWay, Droppers
<1> QED
  BY <1>1, TrimmedStays

\* What the steps do to the new conversations,
LEMMA NewConvsAfter ==
  /\ convs' = convs => NewConvs' \subseteq NewConvs
  /\ \A S : Drop(S) => NewConvs' \subseteq NewConvs
  /\ \A s, t, split : convs' = Filed(NextId, Conv(s, t, TRUE, split), convs) => NewConvs' \subseteq NewConvs
  /\ DOMAIN convs' = DOMAIN convs /\ (\A c \in DOMAIN convs : convs'[c].legacy = convs[c].legacy)
       => NewConvs' \subseteq NewConvs
<1>1. convs' = convs => NewConvs' \subseteq NewConvs
  BY DEF NewConvs, Present
<1>2. ASSUME NEW S, Drop(S) PROVE NewConvs' \subseteq NewConvs
  BY <1>2 DEF NewConvs, Present, Drop
<1>3. ASSUME NEW s, NEW t, NEW split, convs' = Filed(NextId, Conv(s, t, TRUE, split), convs)
      PROVE  NewConvs' \subseteq NewConvs
  <2>1. /\ DOMAIN convs' = DOMAIN convs \cup {NextId}
        /\ convs'[NextId] = Conv(s, t, TRUE, split)
        /\ \A c \in DOMAIN convs \ {NextId} : convs'[c] = convs[c]
    BY <1>3 DEF Filed
  <2>2. Conv(s, t, TRUE, split).legacy
    BY DEF Conv
  <2> QED
    BY <2>1, <2>2 DEF NewConvs, Present
<1>4. DOMAIN convs' = DOMAIN convs /\ (\A c \in DOMAIN convs : convs'[c].legacy = convs[c].legacy)
       => NewConvs' \subseteq NewConvs
  BY DEF NewConvs, Present
<1> QED
  BY <1>1, <1>2, <1>3, <1>4

\* ... and all of them to the bound.
LEMMA TrimmedNext ==
  ASSUME ChatRows, ChatRows', Numbered, Trimmed, [ChatNext]_chatVars
  PROVE  Trimmed'
<1>0. /\ DOMAIN chat = Requests /\ \A r \in Requests : IsChat(chat[r])
      /\ \A c \in Present : IsConv(convs[c])
      /\ \A r \in Askers : r \in Requests
  BY DEF ChatRows, Requests
<1>1. ASSUME NewConvs' \subseteq NewConvs, \A q \in Askers : chat'[q] = chat[q] PROVE Trimmed'
  BY <1>1, TrimmedOthers
<1>2. ASSUME NEW r \in Askers,
             InsertConv(r) \/ TrimLook(r) \/ TrimDrop(r)
      PROVE  Trimmed'
  BY <1>2, TrimmedInsert, TrimmedLook, TrimmedDrop
<1>3. ASSUME NEW r \in Askers, NewConvs' \subseteq NewConvs, \A q \in Requests \ {r} : chat'[q] = chat[q],
             chat'[r].pc # "drop",
             chat[r].pc \in {"idle", "answer"} \/ chat'[r].pc \in {"write", "trim", "dead"}
      PROVE  Trimmed'
  BY <1>0, <1>3, TrimmedOthers
<1>4. ASSUME NEW r \in Askers, (\E c \in Ids \cup {0} : PriorMessages(r, c)) \/ FindRow(r) \/ Reread(r)
      PROVE  Trimmed'
  <2>1. NewConvs' \subseteq NewConvs
    BY <1>4, NewConvsAfter DEF PriorMessages, FindRow, Reread
  <2>2. /\ r \in Requests /\ IsChat(chat[r])
        /\ \A p : chat' = [chat EXCEPT ![r] = p] =>
             chat'[r] = p /\ \A q \in Requests \ {r} : chat'[q] = chat[q]
    BY <1>0
  <2>3. ASSUME NEW c, PriorMessages(r, c) PROVE Trimmed'
    <3>1. chat' = [chat EXCEPT ![r] = [chat[r] EXCEPT !.pc = "answer", !.conv = c]]
      BY <2>2, <2>3 DEF PriorMessages
    <3>2. [chat[r] EXCEPT !.pc = "answer", !.conv = c].pc = "answer"
      BY <2>2 DEF IsChat
    <3>3. /\ chat'[r].pc = "answer" /\ chat[r].pc = "idle"
          /\ \A q \in Requests \ {r} : chat'[q] = chat[q]
      BY <2>2, <2>3, <3>1, <3>2 DEF PriorMessages
    <3> QED
      BY <1>3, <2>1, <3>3
  <2>4. CASE FindRow(r)
    <3> DEFINE row == IF chat[r].conv \in Present THEN convs[chat[r].conv].turns ELSE <<>>
               l == IF chat[r].conv \in Present THEN "write" ELSE "insert"
    <3>1. chat' = [chat EXCEPT ![r] = [chat[r] EXCEPT !.at = chatClock + 1, !.pc = l, !.row = row]]
      BY <2>2, <2>4 DEF FindRow
    <3>2. l # "drop"
      OBVIOUS
    <3> HIDE DEF row, l
    <3>3. [chat[r] EXCEPT !.at = chatClock + 1, !.pc = l, !.row = row].pc = l
      BY <2>2 DEF IsChat
    <3>4. /\ chat'[r].pc = l /\ chat[r].pc = "answer"
          /\ \A q \in Requests \ {r} : chat'[q] = chat[q]
      BY <2>2, <2>4, <3>1, <3>3 DEF FindRow
    <3> QED
      BY <1>3, <2>1, <3>2, <3>4
  <2>5. CASE Reread(r)
    <3> DEFINE row == IF chat[r].conv \in Present THEN convs[chat[r].conv].turns ELSE <<>>
    <3>1. chat' = [chat EXCEPT ![r] = [chat[r] EXCEPT !.pc = "write", !.row = row]]
      BY <2>2, <2>5 DEF Reread
    <3> HIDE DEF row
    <3>2. [chat[r] EXCEPT !.pc = "write", !.row = row].pc = "write"
      BY <2>2 DEF IsChat
    <3>3. chat'[r].pc = "write" /\ \A q \in Requests \ {r} : chat'[q] = chat[q]
      BY <2>2, <3>1, <3>2
    <3> QED
      BY <1>3, <2>1, <3>3
  <2> QED
    BY <1>4, <2>3, <2>4, <2>5
<1>5. ASSUME NEW r \in Requests, Die(r) \/ (r \in Askers /\ WriteRow(r)) PROVE Trimmed'
  <2>1. PICK l \in {"trim", "dead"} :
          chat' = [chat EXCEPT ![r] = [Idle EXCEPT !.pc = l, !.conv = chat[r].conv]]
    BY <1>5 DEF WriteRow, Die, Forget
  <2> DEFINE p == [Idle EXCEPT !.pc = l, !.conv = chat[r].conv]
  <2>2. p.pc = l /\ chat' = [chat EXCEPT ![r] = p]
    BY <2>1 DEF Idle
  <2> HIDE DEF p
  <2>3. chat'[r].pc = l /\ \A q \in Requests \ {r} : chat'[q] = chat[q]
    BY <1>0, <2>2
  <2>4. NewConvs' \subseteq NewConvs
    <3>1. CASE Die(r)
      BY <3>1, NewConvsAfter DEF Die
    <3>2. CASE WriteRow(r)
      <4> DEFINE c == chat[r].conv
                 s == LastTurns(Append(chat[r].row, r))
      <4>1. convs' = IF c \in Present
                     THEN [convs EXCEPT ![c].turns = s, ![c].at = chat[r].at] ELSE convs
        BY <3>2 DEF WriteRow
      <4> HIDE DEF s
      <4>2. DOMAIN convs' = DOMAIN convs /\ \A d \in DOMAIN convs : convs'[d].legacy = convs[d].legacy
        BY <1>0, <4>1 DEF IsConv, Present
      <4> QED
        BY <4>2, NewConvsAfter
    <3> QED
      BY <1>5, <3>1, <3>2
  <2>5. CASE r \in Askers
    BY <1>3, <2>3, <2>4, <2>5
  <2>6. CASE r \notin Askers
    BY <1>0, <1>1, <2>3, <2>4, <2>6
  <2> QED
    BY <2>5, <2>6
<1>6. ASSUME NEW r \in Listers,
             FindHistory(r) \/ ImportTurn(r) \/ EmptyHistory(r) \/ FindUnsplit(r)
               \/ MarkSplit(r) \/ DeleteImport(r) \/ ReinsertTurn(r) \/ SplitDone(r)
      PROVE  Trimmed'
  <2>1. r \notin Askers
    BY ChatAssumption
  <2>2. \E x : chat' = [chat EXCEPT ![r] = x]
    <3>1. CASE FindHistory(r) \/ ImportTurn(r) \/ EmptyHistory(r) \/ DeleteImport(r) \/ ReinsertTurn(r)
      BY <1>0, <3>1 DEF FindHistory, ImportTurn, EmptyHistory, DeleteImport, ReinsertTurn, GoOn
    <3>2. CASE FindUnsplit(r) \/ MarkSplit(r) \/ SplitDone(r)
      <4> DEFINE ids == Ordered(Unsplit, {p \in Ids \X Ids : p[1] < p[2]})
                 rows == [i \in DOMAIN ids |-> [id |-> ids[i], turns |-> convs[ids[i]].turns]]
      <4>1. FindUnsplit(r) => chat' = [chat EXCEPT ![r] = NextRow(rows)]
        BY DEF FindUnsplit
      <4> HIDE DEF rows, ids
      <4> QED
        BY <3>2, <4>1 DEF MarkSplit, SplitDone
    <3> QED
      BY <1>6, <3>1, <3>2
  <2>3. \A q \in Askers : chat'[q] = chat[q]
    BY <1>0, <2>1, <2>2
  <2>4. NewConvs' \subseteq NewConvs
    <3>1. CASE MarkSplit(r)
      <4>1. DOMAIN convs' = DOMAIN convs /\ \A d \in DOMAIN convs : convs'[d].legacy = convs[d].legacy
        BY <1>0, <3>1 DEF MarkSplit, IsConv, Present
      <4> QED
        BY <4>1, NewConvsAfter
    <3>2. CASE FindHistory(r) \/ EmptyHistory(r) \/ FindUnsplit(r) \/ SplitDone(r)
      BY <3>2, NewConvsAfter DEF FindHistory, EmptyHistory, FindUnsplit, SplitDone
    <3>3. CASE ImportTurn(r) \/ ReinsertTurn(r) \/ DeleteImport(r)
      BY <3>3, NewConvsAfter DEF ImportTurn, ReinsertTurn, DeleteImport
    <3> QED
      BY <1>6, <3>1, <3>2, <3>3
  <2> QED
    BY <1>1, <2>3, <2>4
<1>7. ASSUME NEW c \in Ids, DeleteConversation(c) PROVE Trimmed'
  BY <1>1, <1>7, NewConvsAfter DEF DeleteConversation
<1>8. ClearHistory \/ UNCHANGED chatVars => Trimmed'
  BY <1>1, NewConvsAfter DEF ClearHistory, chatVars
<1> QED
  BY <1>0, <1>2, <1>4, <1>5, <1>6, <1>7, <1>8 DEF ChatNext

\* At first there is no more than the old import.
LEMMA TrimmedInit == ChatInit => Trimmed
<1> SUFFICES ASSUME ChatInit, NEW D \in SUBSET Droppers
             PROVE  Cardinality(NewConvs \ Marked(D)) <= MaxConvs + Cardinality(OnWay \ D)
  BY DEF Trimmed
<1>1. NewConvs = {}
  <2>1. CASE convs = <<>>
    BY <2>1 DEF NewConvs, Present
  <2>2. CASE convs = Filed(1, Conv(Legacy, 0, TRUE, FALSE), <<>>)
    <3>1. DOMAIN convs = {1} /\ convs[1] = Conv(Legacy, 0, TRUE, FALSE)
      BY <2>2 DEF Filed
    <3>2. Conv(Legacy, 0, TRUE, FALSE).legacy
      BY DEF Conv
    <3> QED
      BY <3>1, <3>2 DEF NewConvs, Present
  <2> QED
    BY <2>1, <2>2 DEF ChatInit
<1>2. NewConvs \ Marked(D) = {} /\ Cardinality({}) = 0
  BY <1>1, FS_EmptySet
<1>3. Cardinality(OnWay \ D) \in Nat
  <2>1. ChatRows
    BY ChatInitInv DEF ChatInv
  <2> QED
    BY <2>1, CountedFinite
<1> QED
  BY <1>1, <1>2, <1>3, ChatAssumption

\* So the conversations beyond the limit are those of requests under way, always.
LEMMA TrimmedAlways == ChatSpec => []Trimmed
<1>1. ChatTyped => Numbered
  BY DEF ChatTyped, ConvsTyped, ConvRow, Numbered
<1>2. ChatInv /\ ChatInv' /\ ChatTyped /\ Trimmed /\ [ChatNext]_chatVars => Trimmed'
  BY <1>1, TrimmedNext DEF ChatInv
<1> QED
  BY <1>2, TrimmedInit, ChatAlways, ChatTypedAlways, PTL DEF ChatSpec

(* For any requests, conversations and limits: an exchange that was stored   *)
(* is lost only when another request raced it in the same conversation, no   *)
(* turn of the old history is lost, whichever imports overlap or die, and no *)
(* more conversations are kept than the limit and those under way            *)
(* (news/chatbot/conversations.py, whose rows are rewritten whole).          *)
THEOREM ConversationsKeptAlways == ChatSpec => []ConversationsKept
<1>1. ChatInv /\ Trimmed => ConversationsKept
  <2> SUFFICES ASSUME ChatInv, Trimmed PROVE ConversationsKept
    OBVIOUS
  <2>1. LostOnlyInRace
    BY DEF ChatInv, NothingLost, LostOnlyInRace, Stored, Holds
  <2>2. LegacyKept
    BY DEF ChatInv, Imports, Safe, LegacyKept
  <2>3. Bounded
    <3>1. {} \in SUBSET Droppers /\ Marked({}) = {}
      BY DEF Marked
    <3>2. Cardinality(NewConvs \ {}) <= MaxConvs + Cardinality(OnWay \ {})
      BY <3>1 DEF Trimmed
    <3>3. NewConvs \ {} = NewConvs /\ OnWay \ {} = OnWay
      OBVIOUS
    <3> QED
      BY <3>2, <3>3 DEF Bounded, NewConvs, OnWay
  <2> QED
    BY <2>1, <2>2, <2>3 DEF ConversationsKept
<1> QED
  BY <1>1, ChatAlways, TrimmedAlways, PTL

-----------------------------------------------------------------------------
(* Replies: the ranking of the articles, the cards and the prompt.           *)

(* The score of an article is a number.                                      *)
LEMMA ScoreIs ==
  ASSUME NEW m, IsFiniteSet(m.terms), NEW a
  PROVE  Score(m, a) \in Int
<1> DEFINE title == m.terms \cap Stock[a].title
           only == (m.terms \cap Stock[a].hay) \ title
           here == AnchorsOf(m)
           c1 == Cardinality(title)
           c2 == Cardinality(only)
           c3 == Cardinality(here \cap Stock[a].title)
           c4 == Cardinality(here \cap (Stock[a].hay \ Stock[a].title))
           c5 == Cardinality(here \ Stock[a].hay)
           c6 == IF Cardinality(m.terms) >= 2 /\ m.terms \subseteq title \cup only THEN 5 ELSE 0
           c7 == IF Cardinality(title) >= 2 THEN 3 ELSE 0
<1>1. \A X \in SUBSET m.terms : Cardinality(X) \in Nat
  BY FS_Subset, FS_CardinalityType
<1>2. title \in SUBSET m.terms /\ only \in SUBSET m.terms /\ here \in SUBSET m.terms
  BY DEF AnchorsOf
<1>3. /\ here \cap Stock[a].title \in SUBSET m.terms /\ here \ Stock[a].hay \in SUBSET m.terms
      /\ here \cap (Stock[a].hay \ Stock[a].title) \in SUBSET m.terms
  BY <1>2
<1>4. c1 \in Int /\ c2 \in Int
  BY <1>1, <1>2
<1>5. c3 \in Int /\ c4 \in Int /\ c5 \in Int
  BY <1>1, <1>3
<1>6. c6 \in Int /\ c7 \in Int
  OBVIOUS
<1>7. Score(m, a) = 7 * c1 + 3 * c2 + 10 * c3 + 6 * c4 - 4 * c5 + c6 + c7
  BY DEF Score
<1> HIDE DEF c1, c2, c3, c4, c5, c6, c7
<1> QED
  BY <1>4, <1>5, <1>6, <1>7

(* The articles by score, then by age, are in an order.                      *)
LEMMA BetterOrders ==
  ASSUME NEW m, IsFiniteSet(m.terms), NEW S \in SUBSET Shelf
  PROVE  Orders(S, Better(m))
<1>1. Shelf = 1..Len(Stock) /\ Len(Stock) \in Nat
  BY ReplyAssumption DEF Shelf
<1>2. IsFiniteSet(Shelf)
  <2> DEFINE n == Len(Stock)
  <2>1. n \in Nat /\ Shelf = 1..n
    BY <1>1
  <2> HIDE DEF n
  <2>2. 1 \in Int /\ n \in Int
    BY <2>1
  <2>3. IsFiniteSet(1..n)
    BY <2>2, FS_Interval
  <2> QED
    BY <2>1, <2>3
<1>3. IsFiniteSet(S)
  BY <1>2, FS_Subset
<1>4. \A a \in Shelf : Score(m, a) \in Int
  BY ScoreIs
<1>5. \A x, y \in S : <<x, y>> \in Better(m) <=> (\/ Score(m, x) > Score(m, y)
                                                  \/ Score(m, x) = Score(m, y) /\ x < y)
  BY DEF Better
<1>6. \A x \in S : x \in Int /\ Score(m, x) \in Int
  BY <1>1, <1>4
<1>7. \A x \in S : <<x, x>> \notin Better(m)
  BY <1>5, <1>6
<1>8. \A x, y, z \in S : <<x, y>> \in Better(m) /\ <<y, z>> \in Better(m) => <<x, z>> \in Better(m)
  <2> SUFFICES ASSUME NEW x \in S, NEW y \in S, NEW z \in S,
                      <<x, y>> \in Better(m), <<y, z>> \in Better(m)
               PROVE  <<x, z>> \in Better(m)
    OBVIOUS
  <2>1. /\ Score(m, x) > Score(m, y) \/ (Score(m, x) = Score(m, y) /\ x < y)
        /\ Score(m, y) > Score(m, z) \/ (Score(m, y) = Score(m, z) /\ y < z)
    BY <1>5
  <2>2. Score(m, x) > Score(m, z) \/ (Score(m, x) = Score(m, z) /\ x < z)
    BY <1>6, <2>1
  <2> QED
    BY <1>5, <2>2
<1>9. \A x, y \in S : x = y \/ <<x, y>> \in Better(m) \/ <<y, x>> \in Better(m)
  <2> SUFFICES ASSUME NEW x \in S, NEW y \in S, x # y
               PROVE  <<x, y>> \in Better(m) \/ <<y, x>> \in Better(m)
    OBVIOUS
  <2>1. /\ x \in Int /\ y \in Int /\ Score(m, x) \in Int /\ Score(m, y) \in Int
    BY <1>6
  <2>2. \/ Score(m, x) > Score(m, y) \/ (Score(m, x) = Score(m, y) /\ x < y)
        \/ Score(m, y) > Score(m, x) \/ (Score(m, y) = Score(m, x) /\ y < x)
    BY <2>1
  <2> QED
    BY <1>5, <2>2
<1> QED
  BY <1>3, <1>7, <1>8, <1>9 DEF Orders

(* The ranked articles are the articles.                                     *)
LEMMA RankedIs ==
  ASSUME NEW m, IsFiniteSet(m.terms), NEW S \in SUBSET Shelf
  PROVE  /\ Ranked(m, S) \in Seq(S) /\ ToSet(Ranked(m, S)) = S
         /\ Ranked(m, S) = <<>> <=> S = {}
<1> DEFINE s == Ranked(m, S)
<1>1. Orders(S, Better(m))
  BY BetterOrders
<1>2. s \in Seq(S) /\ \A x \in S : \E n \in DOMAIN s : s[n] = x
  BY <1>1, OrderedIs DEF Ranked
<1> HIDE DEF s
<1>3. ToSet(s) = S
  BY <1>2 DEF ToSet
<1>4. s = <<>> => S = {}
  BY <1>2
<1>e. \A x, T : x \in Seq(T) => (x = <<>> <=> Len(x) = 0) /\ DOMAIN x = 1..Len(x) /\ Len(x) \in Nat
  OBVIOUS
<1>5. S = {} => s = <<>>
  <2>1. ASSUME S = {} PROVE Len(s) = 0
    <3>1. \A n \in DOMAIN s : s[n] \in S
      BY <1>2
    <3>2. DOMAIN s = 1..Len(s) /\ Len(s) \in Nat
      BY <1>2, <1>e
    <3>3. Len(s) # 0 => 1 \in DOMAIN s
      BY <3>2
    <3> QED
      BY <2>1, <3>1, <3>3
  <2> QED
    BY <1>2, <1>e, <2>1
<1> QED
  BY <1>2, <1>3, <1>4, <1>5 DEF s

(* The first n of a list.                                                    *)
LEMMA FirstIs ==
  ASSUME NEW S, NEW s \in Seq(S), NEW n \in Nat \ {0}
  PROVE  /\ FirstOf(s, n) \in Seq(S) /\ Len(FirstOf(s, n)) <= n
         /\ ToSet(FirstOf(s, n)) \subseteq ToSet(s)
         /\ FirstOf(s, n) = <<>> <=> s = <<>>
         /\ \A k \in Nat : n <= k => ToSet(FirstOf(s, n)) \subseteq ToSet(FirstOf(s, k))
<1> DEFINE l(k) == IF Len(s) < k THEN Len(s) ELSE k
           f(k) == FirstOf(s, k)
<1>1. Len(s) \in Nat /\ DOMAIN s = 1..Len(s) /\ \A k \in Nat : l(k) \in 0..Len(s) /\ l(k) <= k
  OBVIOUS
<1>2. \A k \in Nat : f(k) = SubSeq(s, 1, l(k))
  BY DEF FirstOf
<1>3. \A k \in 0..Len(s) : /\ SubSeq(s, 1, k) \in Seq(S) /\ Len(SubSeq(s, 1, k)) = k
                           /\ \A i \in 1..k : SubSeq(s, 1, k)[i] = s[i]
  OBVIOUS
<1>4. \A k \in Nat : f(k) \in Seq(S) /\ Len(f(k)) = l(k) /\ \A i \in 1..l(k) : f(k)[i] = s[i]
  BY <1>1, <1>2, <1>3
<1>5. \A k \in Nat : n <= k => l(n) <= l(k)
  BY <1>1
<1>6. Len(s) # 0 => l(n) # 0
  BY <1>1
<1>t. Len(s) = 0 => l(n) = 0
  BY <1>1
<1> HIDE DEF l, f
<1>7. \A k \in Nat : DOMAIN f(k) = 1..l(k) /\ l(k) \in Nat
  <2>1. \A x : x \in Seq(S) => DOMAIN x = 1..Len(x)
    OBVIOUS
  <2> QED
    BY <1>1, <1>4, <2>1
<1>8. ToSet(f(n)) \subseteq ToSet(s)
  <2>1. \A i \in 1..l(n) : i \in DOMAIN s /\ f(n)[i] = s[i]
    BY <1>1, <1>4
  <2> QED
    BY <1>7, <2>1 DEF ToSet
<1>9. ASSUME NEW k \in Nat, n <= k PROVE ToSet(f(n)) \subseteq ToSet(f(k))
  <2>1. \A i \in 1..l(n) : i \in 1..l(k) /\ f(n)[i] = f(k)[i]
    <3>1. l(n) <= l(k) /\ l(n) \in Nat /\ l(k) \in Nat
      BY <1>5, <1>7, <1>9
    <3>2. 1..l(n) \subseteq 1..l(k)
      BY <3>1
    <3> QED
      BY <1>4, <3>2
  <2> QED
    BY <1>7, <2>1 DEF ToSet
<1>10. f(n) = <<>> <=> s = <<>>
  <2>1. \A x : x \in Seq(S) => (x = <<>> <=> Len(x) = 0)
    OBVIOUS
  <2>2. f(n) \in Seq(S) /\ Len(f(n)) = l(n)
    BY <1>4
  <2>3. (f(n) = <<>> <=> l(n) = 0) /\ (s = <<>> <=> Len(s) = 0)
    BY <2>1, <2>2
  <2> QED
    BY <1>6, <1>t, <2>3
<1> QED
  BY <1>1, <1>4, <1>8, <1>9, <1>10 DEF f

(* What is gathered for a question are articles.                             *)
LEMMA GatheredIn ==
  ASSUME NEW m, IsFiniteSet(m.terms), NEW intent, NEW hits \in SUBSET Shelf
  PROVE  Gathered(m, intent, hits) \subseteq Shelf
<1>1. ASSUME NEW S \in SUBSET Shelf PROVE Relevant(m, S) \subseteq S
  <2> DEFINE near == {a \in S : Anchored(m, a) /\ Score(m, a) >= 3}
             linked == {a \in S : Linked(m, a)}
             whole == {a \in linked : m.terms \subseteq Stock[a].hay}
  <2>1. near \in SUBSET Shelf /\ near \subseteq S /\ linked \subseteq S /\ whole \subseteq S
    OBVIOUS
  <2>2. \/ Relevant(m, S) \in {whole, linked, {}}
        \/ Relevant(m, S) = ToSet(FirstOf(Ranked(m, near), 3))
    BY DEF Relevant
  <2> HIDE DEF near, linked, whole
  <2>3. Ranked(m, near) \in Seq(near) /\ ToSet(Ranked(m, near)) = near
    BY <2>1, RankedIs
  <2>4. ToSet(FirstOf(Ranked(m, near), 3)) \subseteq near
    BY <2>3, FirstIs
  <2> QED
    BY <2>1, <2>2, <2>4
<1>2. Relevant(m, Shelf) \subseteq Shelf /\ Relevant(m, hits) \subseteq Shelf
  BY <1>1
<1> QED
  BY <1>2 DEF Gathered

(* The cards are articles of the prompt, some whenever something was found;  *)
(* the answer to a question shows one card, or articles that match it; the   *)
(* primary article is a card.                                                *)
LEMMA CardsIs ==
  ASSUME NEW m, IsFiniteSet(m.terms), NEW intent, NEW found \in SUBSET Shelf
  PROVE  /\ Cards(m, intent, found) \in Seq(found)
         /\ ToSet(Cards(m, intent, found)) \subseteq ToSet(Context(m, intent, found))
         /\ ToSet(Context(m, intent, found)) \subseteq found
         /\ found # {} => Cards(m, intent, found) # <<>>
         /\ intent \notin {"headlines", "summarize"} /\ Len(Cards(m, intent, found)) > 1
              => \A a \in ToSet(Cards(m, intent, found)) : Linked(m, a)
         /\ Primary(m, intent, Cards(m, intent, found)) \subseteq ToSet(Cards(m, intent, found))
<1> DEFINE L == {a \in found : Linked(m, a)}
           all == Ranked(m, found)
           linked == Ranked(m, L)
           c == Cards(m, intent, found)
           x == Context(m, intent, found)
<1>1. all \in Seq(found) /\ ToSet(all) = found /\ (all = <<>> <=> found = {})
  BY RankedIs
<1>2. L \in SUBSET Shelf /\ L \subseteq found
  OBVIOUS
<1>3. linked \in Seq(L) /\ ToSet(linked) = L
  <2> HIDE DEF L
  <2> QED
    BY <1>2, RankedIs
<1>4. \A a \in L : Linked(m, a)
  OBVIOUS
<1>5. \/ /\ intent \in {"headlines", "summarize"} /\ x = FirstOf(all, 5)
         /\ c = FirstOf(all, 3) \/ c = FirstOf(all, 5)
      \/ /\ x = c
         /\ (linked # <<>> /\ c = FirstOf(linked, 3)) \/ c = FirstOf(all, 1)
  BY DEF Cards, Context
<1>6. \A n \in {1, 3, 5} :
        /\ FirstOf(all, n) \in Seq(found) /\ Len(FirstOf(all, n)) <= n
        /\ ToSet(FirstOf(all, n)) \subseteq found
        /\ ToSet(FirstOf(all, n)) \subseteq ToSet(FirstOf(all, 5))
        /\ FirstOf(all, n) = <<>> <=> found = {}
  <2> HIDE DEF all
  <2> QED
    BY <1>1, FirstIs
<1>7. /\ FirstOf(linked, 3) \in Seq(L) /\ ToSet(FirstOf(linked, 3)) \subseteq L
      /\ linked # <<>> => FirstOf(linked, 3) # <<>>
  <2> HIDE DEF linked, L
  <2> QED
    BY <1>3, FirstIs
<1>8. FirstOf(linked, 3) \in Seq(found)
  <2> HIDE DEF linked, L
  <2>1. \A s : s \in Seq(L) => s \in Seq(found)
    BY <1>2
  <2> QED
    BY <1>7, <2>1
<1> HIDE DEF all, linked, c, x, L
<1>9. c \in Seq(found)
  BY <1>5, <1>6, <1>8
<1>10. ToSet(c) \subseteq ToSet(x) /\ ToSet(x) \subseteq found
  BY <1>2, <1>5, <1>6, <1>7
<1>11. found # {} => c # <<>>
  BY <1>5, <1>6, <1>7
<1>12. intent \notin {"headlines", "summarize"} /\ Len(c) > 1 => \A a \in ToSet(c) : Linked(m, a)
  <2>1. Len(FirstOf(all, 1)) <= 1 /\ \A s : s \in Seq(found) => Len(s) \in Nat
    BY <1>6
  <2>2. ~(Len(FirstOf(all, 1)) > 1)
    BY <1>6, <2>1
  <2> QED
    BY <1>4, <1>5, <1>7, <2>2
<1>13. Primary(m, intent, c) \subseteq ToSet(c)
  <2>1. ToSet(c) \in SUBSET Shelf
    BY <1>10
  <2>2. /\ Ranked(m, ToSet(c)) \in Seq(ToSet(c))
        /\ Ranked(m, ToSet(c)) = <<>> <=> ToSet(c) = {}
    BY <2>1, RankedIs
  <2>3. c # <<>> => ToSet(c) # {}
    <3>1. \A s : s \in Seq(found) /\ s # <<>> => 1 \in DOMAIN s
      OBVIOUS
    <3> QED
      BY <1>9, <3>1 DEF ToSet
  <2>4. \A S, s : s \in Seq(S) /\ s # <<>> => s[1] \in S
    OBVIOUS
  <2>5. c # <<>> => Ranked(m, ToSet(c))[1] \in ToSet(c)
    BY <2>2, <2>3, <2>4
  <2> QED
    BY <2>5 DEF Primary
<1> QED
  BY <1>9, <1>10, <1>11, <1>12, <1>13 DEF c, x

-----------------------------------------------------------------------------
(* What a message is taken for.                                              *)

Asking == {"search", "summarize", "headlines"}
Taken == Canned \cup Answered

\* What was made of a message fits the message.
Fits(intent, m) ==
  /\ intent = "greeting" => Greeting(m)
  /\ intent = "off_topic" => OffTopic(m)
  /\ intent \in Answered => ~Greeting(m) /\ ~OffTopic(m)

(* detect_intent returns an intent that fits, and asks for articles only for *)
(* a message that is not reserved.                                           *)
LEMMA DetectFits ==
  ASSUME NEW m, NEW seq
  PROVE  /\ DetectIntent(m, seq) \in Canned \cup Asking /\ Fits(DetectIntent(m, seq), m)
         /\ DetectIntent(m, seq) \in Asking => ~Reserved(m)
<1> DEFINE intent == DetectIntent(m, seq)
<1>1. intent \in Canned \cup Asking
  BY DEF DetectIntent, Canned, Asking
<1>2. intent \in Asking => /\ ~Matches(m, "security") /\ ~Matches(m, "help") /\ ~Matches(m, "team")
                           /\ ~Greeting(m) /\ ~OffTopic(m)
  BY DEF DetectIntent, Asking
<1>3. intent = "greeting" => Greeting(m)
  BY DEF DetectIntent
<1>4. intent = "off_topic" => OffTopic(m)
  BY DEF DetectIntent
<1> HIDE DEF intent
<1>5. intent \in Asking => ~Reserved(m)
  BY <1>2 DEF Reserved, Matches
<1>6. intent \in Answered => intent \in Asking
  BY <1>1 DEF Answered, Asking, Canned
<1> QED
  BY <1>1, <1>2, <1>3, <1>4, <1>5, <1>6 DEF Fits, intent

(* A question for which nothing is found stays a question.                   *)
LEMMA EmptyIs ==
  ASSUME NEW m, NEW seq, ~Reserved(m), ~Greeting(m), ~OffTopic(m)
  PROVE  EmptyIntent(m, seq) = "no_match"
<1>1. News(m)
  BY DEF OffTopic, News
<1>2. NewsIn(m, seq)
  BY <1>1 DEF NewsIn
<1> QED
  BY <1>1, <1>2 DEF EmptyIntent

(* The last question of its own is found, whatever came after it.            *)
LEMMA LastNewsIs ==
  ASSUME NEW seq \in Seq(Messages)
  PROVE  /\ IsFiniteSet(LastNews(seq).terms)
         /\ \A i \in DOMAIN seq :
              /\ ~Greeting(seq[i]) /\ ~OffTopic(seq[i]) /\ ~Matches(seq[i], "followup")
              /\ \A j \in i + 1..Len(seq) : \/ Greeting(seq[j]) \/ OffTopic(seq[j])
                                            \/ Matches(seq[j], "followup")
              => LastNews(seq) = seq[i]
<1> DEFINE asked == {i \in DOMAIN seq : ~Greeting(seq[i]) /\ ~OffTopic(seq[i])
                                          /\ ~Matches(seq[i], "followup")}
<1>1. DOMAIN seq = 1..Len(seq) /\ Len(seq) \in Nat /\ \A i \in DOMAIN seq : seq[i] \in Messages
  OBVIOUS
<1>2. asked \in SUBSET Nat /\ asked \subseteq DOMAIN seq /\ \A x \in asked : x <= Len(seq)
  BY <1>1
<1>3. LastNews(seq) = IF asked = {} THEN Nothing ELSE seq[Max(asked)]
  BY DEF LastNews
<1>4. \A i \in DOMAIN seq : i \in asked <=> ~Greeting(seq[i]) /\ ~OffTopic(seq[i])
                                              /\ ~Matches(seq[i], "followup")
  OBVIOUS
<1> HIDE DEF asked
<1>5. asked # {} => Max(asked) \in asked /\ \A y \in asked : y <= Max(asked)
  <2>1. asked # {} => \E x \in asked : \A y \in asked : y <= x
    BY <1>1, <1>2, GreatestElement
  <2>2. \A x, y \in asked : x >= y <=> y <= x
    BY <1>2
  <2> QED
    BY <2>1, <2>2 DEF Max
<1>6. IsFiniteSet(LastNews(seq).terms)
  <2>1. CASE asked = {}
    <3>1. LastNews(seq).terms = {}
      BY <1>3, <2>1 DEF Nothing
    <3> QED
      BY <3>1, FS_EmptySet
  <2>2. CASE asked # {}
    <3>1. LastNews(seq) \in Messages
      BY <1>1, <1>2, <1>3, <1>5, <2>2
    <3> QED
      BY <3>1, ReplyAssumption
  <2> QED
    BY <2>1, <2>2
<1>7. ASSUME NEW i \in DOMAIN seq, i \in asked, \A j \in i + 1..Len(seq) : j \notin asked
      PROVE  LastNews(seq) = seq[i]
  <2> DEFINE k == Max(asked)  n == Len(seq)
  <2>1. k \in asked /\ i <= k /\ asked # {}
    BY <1>5, <1>7
  <2>2. k \in 1..n /\ i \in 1..n /\ n \in Nat
    BY <1>1, <1>2, <2>1
  <2>3. k \notin i + 1..n
    BY <1>7, <2>1
  <2>5. LastNews(seq) = seq[k]
    BY <1>3, <2>1
  <2> HIDE DEF k, n
  <2>4. k = i
    BY <2>1, <2>2, <2>3
  <2> QED
    BY <2>4, <2>5
<1>8. ASSUME NEW i \in DOMAIN seq,
             ~Greeting(seq[i]), ~OffTopic(seq[i]), ~Matches(seq[i], "followup"),
             \A j \in i + 1..Len(seq) : \/ Greeting(seq[j]) \/ OffTopic(seq[j])
                                        \/ Matches(seq[j], "followup")
      PROVE  LastNews(seq) = seq[i]
  <2>1. i \in asked
    BY <1>4, <1>8
  <2>2. \A j \in i + 1..Len(seq) : j \in DOMAIN seq
    BY <1>1
  <2>3. \A j \in i + 1..Len(seq) : j \notin asked
    BY <1>4, <1>8, <2>2
  <2> QED
    BY <1>7, <2>1, <2>3
<1> QED
  BY <1>6, <1>8

-----------------------------------------------------------------------------
(* The conversation and the request.                                         *)

IsTurn(t) == DOMAIN t = {"pc", "msg", "intent", "query", "found", "context", "cards", "primary",
                         "tries", "reply"}

\* What was said, and what it was taken for.
Talk ==
  /\ past \in Seq(Messages) /\ said \in Seq(Taken)
  /\ Len(past) = Len(said) /\ Len(past) <= MaxTurns
  /\ \A i \in DOMAIN past : Fits(said[i], past[i])

\* The message under way: only a question is looked up, only a follow-up takes
\* over an earlier one, and nothing is shown before the articles are looked up.
Underway ==
  /\ IsTurn(turn) /\ turn.pc \in {"idle", "search", "model", "answer", "sent"}
  /\ turn.pc # "idle" =>
       /\ turn.msg \in Messages /\ turn.intent \in Taken /\ Fits(turn.intent, turn.msg)
       /\ turn.query # turn.msg => Matches(turn.msg, "followup")
  /\ IsFiniteSet(turn.query.terms)
  /\ turn.pc \in {"search", "model", "answer"} => Len(past) < MaxTurns
  /\ turn.pc = "search" => turn.intent \in Asking /\ ~Reserved(turn.msg)
  /\ turn.pc \in {"idle", "search"} => turn.cards = <<>> /\ turn.primary = {} /\ turn.tries = 0
  /\ turn.pc # "sent" => turn.reply # "no_match"
  /\ turn.found \subseteq Shelf /\ ToSet(turn.context) \subseteq Shelf /\ turn.cards \in Seq(Shelf)
  /\ turn.tries \in 0..Models
  /\ turn.pc = "model" => key /\ turn.tries < Models

ReplyInv == Talk /\ Underway /\ AnswerKept

(* The first state.                                                          *)
LEMMA ReplyInitInv == ReplyInit => ReplyInv
<1> SUFFICES ASSUME ReplyInit PROVE ReplyInv
  OBVIOUS
<1>1. past = <<>> /\ said = <<>> /\ turn = Quiet
  BY DEF ReplyInit
<1>2. DOMAIN past = {} /\ Len(past) = 0 /\ past \in Seq(Messages) /\ said \in Seq(Taken) /\ Len(said) = 0
  BY <1>1
<1>3. Talk
  BY <1>1, <1>2, ReplyAssumption DEF Talk
<1>4. /\ IsTurn(turn) /\ turn.pc = "idle" /\ turn.query = Nothing /\ turn.found = {}
      /\ turn.context = <<>> /\ turn.cards = <<>> /\ turn.primary = {} /\ turn.tries = 0
      /\ turn.reply = "none" /\ turn.intent = "none"
  BY <1>1 DEF Quiet, IsTurn
<1>5. IsFiniteSet(turn.query.terms)
  BY <1>4, FS_EmptySet DEF Nothing
<1>6. ToSet(<<>>) = {} /\ <<>> \in Seq(Shelf) /\ 0 \in 0..Models
  BY ReplyAssumption DEF ToSet
<1>7. Underway
  BY <1>4, <1>5, <1>6 DEF Underway
<1>8. AnswerKept
  BY <1>2, <1>4, <1>6 DEF AnswerKept, AnswerGrounded, TopicKept
<1> QED
  BY <1>3, <1>7, <1>8 DEF ReplyInv

(* A message is taken up: a follow-up finds the last question of its own.    *)
LEMMA ReceiveInv ==
  ASSUME ReplyInv, NEW m \in Messages, Receive(m)
  PROVE  ReplyInv'
<1> DEFINE intent == DetectIntent(m, past)  query == Resolve(m, past)
           pc == IF intent \in Canned THEN AskModels(intent) ELSE "search"
<1>1. UNCHANGED <<past, said, key>> /\ turn.pc = "idle" /\ Len(past) < MaxTurns
  BY DEF Receive
<1>2. IsTurn(turn)
  BY DEF ReplyInv, Underway
<1>3. /\ IsTurn(turn') /\ turn'.pc = pc /\ turn'.msg = m /\ turn'.intent = intent
      /\ turn'.query = query /\ turn'.found = turn.found /\ turn'.context = turn.context
      /\ turn'.cards = turn.cards /\ turn'.primary = turn.primary /\ turn'.tries = turn.tries
      /\ turn'.reply = turn.reply
  BY <1>2 DEF Receive, IsTurn
<1>4. /\ pc \in {"search", "model", "answer"} /\ (pc = "search" => intent \notin Canned)
      /\ pc = "model" => key
  BY DEF AskModels
<1>5. /\ intent \in Canned \cup Asking /\ Fits(intent, m)
      /\ intent \in Asking => ~Reserved(m)
  BY DetectFits
<1>6. past \in Seq(Messages) /\ said \in Seq(Taken) /\ Len(past) = Len(said)
      /\ \A i \in DOMAIN past : Fits(said[i], past[i])
  BY DEF ReplyInv, Talk
<1>7. IsFiniteSet(m.terms) /\ IsFiniteSet(LastNews(past).terms)
  BY <1>6, LastNewsIs, ReplyAssumption
<1>8. IsFiniteSet(query.terms)
  <2>1. IsFiniteSet(LastNews(past).terms \cup m.terms)
    BY <1>7, FS_Union
  <2> QED
    BY <1>7, <2>1 DEF Resolve
<1>9. query # m => Matches(m, "followup") /\ LastNews(past).terms \subseteq query.terms
  BY DEF Resolve, Continues
<1> HIDE DEF pc, query, intent
<1>10. Talk'
  BY <1>1 DEF ReplyInv, Talk
<1>11. turn.cards = <<>> /\ turn.primary = {} /\ turn.tries = 0 /\ turn.reply # "no_match"
       /\ turn.found \subseteq Shelf /\ ToSet(turn.context) \subseteq Shelf
       /\ turn.cards \in Seq(Shelf)
  BY <1>1 DEF ReplyInv, Underway
<1>12. Underway'
  <2>1. pc = "search" => intent \in Asking
    BY <1>4, <1>5
  <2>2. intent \in Taken
    BY <1>5 DEF Taken, Answered, Asking
  <2>3. turn'.tries \in 0..Models /\ turn'.tries < Models
    BY <1>3, <1>11, ReplyAssumption
  <2>4. /\ turn'.pc # "idle" /\ turn'.pc # "sent"
        /\ turn'.pc \in {"idle", "search", "model", "answer", "sent"}
        /\ Len(past') < MaxTurns /\ IsFiniteSet(turn'.query.terms)
        /\ turn'.query # turn'.msg => Matches(turn'.msg, "followup")
    BY <1>1, <1>3, <1>4, <1>8, <1>9
  <2>5. turn'.msg \in Messages /\ turn'.intent \in Taken /\ Fits(turn'.intent, turn'.msg)
    BY <1>3, <1>5, <2>2
  <2>6. /\ turn'.pc = "search" => turn'.intent \in Asking /\ ~Reserved(turn'.msg)
        /\ turn'.pc = "model" => key'
    BY <1>1, <1>3, <1>4, <1>5, <2>1
  <2> QED
    BY <1>3, <1>11, <2>3, <2>4, <2>5, <2>6 DEF Underway
<1>13. AnswerGrounded'
  <2>1. ToSet(turn'.cards) = {} /\ turn'.cards = <<>> /\ turn'.primary = {} /\ ~(Len(<<>>) > 1)
    BY <1>3, <1>11 DEF ToSet
  <2> QED
    BY <2>1 DEF AnswerGrounded
<1>14. TopicKept'
  <2> SUFFICES ASSUME NEW i \in DOMAIN past, query # m,
                      said[i] \in Answered \/ (~Greeting(past[i]) /\ ~OffTopic(past[i])),
                      ~Matches(past[i], "followup"),
                      \A j \in i + 1..Len(past) :
                        said[j] \in {"greeting", "off_topic"} \/ Matches(past[j], "followup")
               PROVE  past[i].terms \subseteq query.terms
    BY <1>1, <1>3 DEF TopicKept
  <2>1. ~Greeting(past[i]) /\ ~OffTopic(past[i])
    BY <1>6 DEF Fits
  <2>2. \A j \in i + 1..Len(past) : Greeting(past[j]) \/ OffTopic(past[j]) \/ Matches(past[j], "followup")
    <3>1. \A j \in i + 1..Len(past) : j \in DOMAIN past
      BY <1>6
    <3> QED
      BY <1>6, <3>1 DEF Fits
  <2>3. LastNews(past) = past[i]
    BY <1>6, <2>1, <2>2, LastNewsIs
  <2> QED
    BY <1>9, <2>3
<1> QED
  BY <1>10, <1>12, <1>13, <1>14 DEF ReplyInv, AnswerKept

(* The models are asked, or no more of them.                                 *)
LEMMA CallModelInv ==
  ASSUME ReplyInv, NEW outcome, CallModel(outcome)
  PROVE  ReplyInv'
<1>1. UNCHANGED <<past, said, key>> /\ turn.pc = "model" /\ IsTurn(turn)
  BY DEF CallModel, ReplyInv, Underway
<1>2. turn.tries \in 0..Models /\ turn.tries < Models /\ key /\ turn.reply # "no_match" /\ Models \in Nat
  BY <1>1, ReplyAssumption DEF ReplyInv, Underway
<1>3. /\ IsTurn(turn') /\ turn'.msg = turn.msg /\ turn'.intent = turn.intent
      /\ turn'.query = turn.query /\ turn'.found = turn.found /\ turn'.context = turn.context
      /\ turn'.cards = turn.cards /\ turn'.primary = turn.primary
      /\ turn'.pc \in {"model", "answer"} /\ turn'.reply \in {turn.reply, "model"}
      /\ turn'.tries \in {turn.tries, turn.tries + 1}
      /\ turn'.pc = "model" => turn'.tries < Models
  <2>1. CASE turn' = [turn EXCEPT !.pc = "answer", !.reply = "model"]
    BY <1>1, <2>1 DEF IsTurn
  <2>2. CASE turn' = [turn EXCEPT !.pc = "answer"]
    BY <1>1, <2>2 DEF IsTurn
  <2>3. CASE turn' = [turn EXCEPT !.tries = turn.tries + 1,
                                  !.pc = IF turn.tries + 1 < Models THEN "model" ELSE "answer"]
    BY <1>1, <2>3 DEF IsTurn
  <2> QED
    BY <2>1, <2>2, <2>3 DEF CallModel
<1>4. turn'.tries \in 0..Models /\ turn'.reply # "no_match"
  BY <1>2, <1>3
<1>5. Talk'
  BY <1>1 DEF ReplyInv, Talk
<1>6. Underway'
  BY <1>1, <1>2, <1>3, <1>4 DEF ReplyInv, Underway
<1>7. AnswerGrounded'
  BY <1>3, <1>4 DEF ReplyInv, AnswerKept, AnswerGrounded
<1>8. TopicKept'
  BY <1>1, <1>3 DEF ReplyInv, AnswerKept, TopicKept
<1> QED
  BY <1>5, <1>6, <1>7, <1>8 DEF ReplyInv, AnswerKept

(* The articles are looked up.                                               *)
LEMMA SearchInv ==
  ASSUME ReplyInv, NEW hits \in SUBSET Shelf, Search(hits)
  PROVE  ReplyInv'
<1> DEFINE q == turn.query  found == Gathered(q, turn.intent, hits)
           cards == Cards(q, turn.intent, found)
           context == Context(q, turn.intent, found)
           primary == Primary(q, turn.intent, cards)
<1>1. UNCHANGED <<past, said, key>> /\ turn.pc = "search" /\ IsTurn(turn)
  BY DEF Search, ReplyInv, Underway
<1>2. /\ IsFiniteSet(q.terms) /\ turn.intent \in Asking /\ ~Reserved(turn.msg)
      /\ Fits(turn.intent, turn.msg) /\ turn.cards = <<>> /\ turn.primary = {} /\ turn.tries = 0
      /\ turn.reply # "no_match" /\ turn.found \subseteq Shelf /\ ToSet(turn.context) \subseteq Shelf
      /\ turn.cards \in Seq(Shelf)
  BY <1>1 DEF ReplyInv, Underway
<1>3. ~Greeting(turn.msg) /\ ~OffTopic(turn.msg)
  BY <1>2 DEF Fits, Asking, Answered
<1>4. EmptyIntent(turn.msg, past) = "no_match"
  BY <1>2, <1>3, EmptyIs
<1>5. /\ IsTurn(turn') /\ turn'.msg = turn.msg /\ turn'.query = q /\ turn'.tries = 0
      /\ turn'.reply = turn.reply /\ turn'.pc \in {"model", "answer"}
      /\ turn'.pc = "model" => key
      /\ \/ /\ turn'.intent = "no_match" /\ turn'.found = turn.found
            /\ turn'.context = turn.context /\ turn'.cards = <<>> /\ turn'.primary = {}
         \/ /\ turn'.intent = turn.intent /\ turn'.found = found /\ turn'.context = context
            /\ turn'.cards = cards /\ turn'.primary = primary
  <2>1. AskModels("none") \in {"model", "answer"} /\ (AskModels("none") = "model" => key)
    BY DEF AskModels
  <2> DEFINE p == AskModels("none")
  <2>2. CASE turn' = [turn EXCEPT !.pc = p, !.intent = "no_match"]
    <3> HIDE DEF p
    <3>1. /\ IsTurn(turn') /\ turn'.msg = turn.msg /\ turn'.query = turn.query
          /\ turn'.tries = turn.tries /\ turn'.reply = turn.reply /\ turn'.pc = p
          /\ turn'.intent = "no_match" /\ turn'.found = turn.found
          /\ turn'.context = turn.context /\ turn'.cards = turn.cards /\ turn'.primary = turn.primary
      BY <1>1, <2>2 DEF IsTurn
    <3> QED
      BY <1>2, <2>1, <3>1 DEF p
  <2>3. CASE turn' = [turn EXCEPT !.pc = p, !.found = found, !.cards = cards,
                                  !.context = context, !.primary = primary]
    <3> HIDE DEF p, found, cards, context, primary, q
    <3>1. /\ IsTurn(turn') /\ turn'.msg = turn.msg /\ turn'.query = turn.query
          /\ turn'.tries = turn.tries /\ turn'.reply = turn.reply /\ turn'.pc = p
          /\ turn'.intent = turn.intent /\ turn'.found = found
          /\ turn'.context = context /\ turn'.cards = cards /\ turn'.primary = primary
      BY <1>1, <2>3 DEF IsTurn
    <3> QED
      BY <1>2, <2>1, <3>1 DEF p, q
  <2> QED
    BY <1>4, <2>2, <2>3 DEF Search
<1>6. found \in SUBSET Shelf
  BY <1>2, GatheredIn
<1>7. /\ cards \in Seq(found) /\ ToSet(cards) \subseteq ToSet(context) /\ ToSet(context) \subseteq found
      /\ turn.intent = "search" /\ Len(cards) > 1 => \A a \in ToSet(cards) : Linked(q, a)
      /\ primary \subseteq ToSet(cards)
  <2> HIDE DEF found, q
  <2> QED
    BY <1>2, <1>6, CardsIs
<1>8. cards \in Seq(Shelf)
  <2> HIDE DEF cards, found
  <2> QED
    BY <1>6, <1>7
<1> HIDE DEF q, found, cards, context, primary
<1>9. Talk'
  BY <1>1 DEF ReplyInv, Talk
<1>10. turn'.found \subseteq Shelf /\ ToSet(turn'.context) \subseteq Shelf /\ turn'.cards \in Seq(Shelf)
  BY <1>2, <1>5, <1>6, <1>7, <1>8
<1>11. /\ turn'.intent \in Taken /\ Fits(turn'.intent, turn'.msg)
       /\ turn'.intent \notin Asking => turn'.cards = <<>>
  BY <1>2, <1>3, <1>5 DEF Taken, Answered, Asking, Fits
<1>12. Underway'
  <2>1. 0 \in 0..Models /\ 0 < Models
    BY ReplyAssumption
  <2>2. /\ turn.query # turn.msg => Matches(turn.msg, "followup")
        /\ turn.msg \in Messages
        /\ Len(past) < MaxTurns /\ IsFiniteSet(turn.query.terms)
    BY <1>1 DEF ReplyInv, Underway
  <2>3. turn'.query = turn.query
    BY <1>5 DEF q
  <2> QED
    BY <1>1, <1>2, <1>5, <1>10, <1>11, <2>1, <2>2, <2>3 DEF Underway
<1>13. AnswerGrounded'
  <2>1. ToSet(turn'.cards) \subseteq ToSet(turn'.context) /\ turn'.primary \subseteq ToSet(turn'.cards)
    <3>1. ToSet(<<>>) = {}
      BY DEF ToSet
    <3> QED
      BY <1>5, <1>7, <3>1
  <2>2. turn'.intent = "search" /\ Len(turn'.cards) > 1
          => \A a \in ToSet(turn'.cards) : Linked(turn'.query, a)
    <3>1. turn'.intent = "search" => turn'.cards = cards /\ turn.intent = "search"
      BY <1>5
    <3> QED
      BY <1>5, <1>7, <3>1
  <2> QED
    BY <1>2, <1>5, <1>11, <2>1, <2>2 DEF AnswerGrounded, Asking
<1>14. TopicKept'
  <2>1. turn'.query = turn.query
    BY <1>5 DEF q
  <2> QED
    BY <1>1, <1>5, <2>1 DEF ReplyInv, AnswerKept, TopicKept
<1> QED
  BY <1>9, <1>12, <1>13, <1>14 DEF ReplyInv, AnswerKept

(* The local reply says that nothing was found only when there is no card.   *)
LEMMA FallbackIs ==
  ASSUME NEW t, IsFiniteSet(t.msg.terms), ToSet(t.context) \subseteq Shelf,
         FallbackReply(t) = "no_match"
  PROVE  t.intent \notin Asking \/ ToSet(t.context) = {}
<1> DEFINE S == ToSet(t.context)  m == t.msg  intent == t.intent
<1>1. t.intent \in Asking => Cards(m, intent, S) = <<>>
  BY DEF FallbackReply, Asking
<1>2. S \in SUBSET Shelf /\ IsFiniteSet(m.terms)
  OBVIOUS
<1> HIDE DEF S, m, intent
<1>3. S # {} => Cards(m, intent, S) # <<>>
  BY <1>2, CardsIs
<1> QED
  BY <1>1, <1>3 DEF S

(* The exchange is kept and answered.                                        *)
LEMMA RespondInv == ReplyInv /\ Respond => ReplyInv'
<1> SUFFICES ASSUME ReplyInv, Respond PROVE ReplyInv'
  OBVIOUS
<1> DEFINE msg == turn.msg  intent == turn.intent
           reply == IF turn.reply = "model" THEN "model" ELSE FallbackReply(turn)
<1>1. /\ UNCHANGED key /\ turn.pc = "answer" /\ IsTurn(turn) /\ past' = Append(past, msg)
      /\ said' = Append(said, intent) /\ turn' = [turn EXCEPT !.pc = "sent", !.reply = reply]
  BY DEF Respond, ReplyInv, Underway
<1>2. /\ msg \in Messages /\ intent \in Taken /\ Fits(intent, msg)
      /\ turn.query # msg => Matches(msg, "followup")
      /\ IsFiniteSet(turn.query.terms) /\ Len(past) < MaxTurns /\ turn.tries \in 0..Models
      /\ turn.found \subseteq Shelf /\ ToSet(turn.context) \subseteq Shelf /\ turn.cards \in Seq(Shelf)
  BY <1>1 DEF ReplyInv, Underway
<1>3. /\ IsTurn(turn') /\ turn'.msg = turn.msg /\ turn'.intent = turn.intent
      /\ turn'.query = turn.query /\ turn'.found = turn.found /\ turn'.context = turn.context
      /\ turn'.cards = turn.cards /\ turn'.primary = turn.primary /\ turn'.tries = turn.tries
      /\ turn'.pc = "sent" /\ turn'.reply = reply
  <2> HIDE DEF reply, msg, intent
  <2> QED
    BY <1>1 DEF IsTurn
<1>4. /\ past \in Seq(Messages) /\ said \in Seq(Taken) /\ Len(past) = Len(said)
      /\ \A i \in DOMAIN past : Fits(said[i], past[i])
  BY DEF ReplyInv, Talk
<1>5. \A S, s, x : s \in Seq(S) /\ x \in S =>
        /\ Append(s, x) \in Seq(S) /\ Len(Append(s, x)) = Len(s) + 1 /\ Len(s) \in Nat
        /\ DOMAIN s = 1..Len(s) /\ DOMAIN Append(s, x) = 1..(Len(s) + 1)
        /\ Append(s, x)[Len(s) + 1] = x /\ \A i \in 1..Len(s) : Append(s, x)[i] = s[i]
  OBVIOUS
<1> HIDE DEF msg, intent, reply
<1> DEFINE n == Len(past)
<1>6. /\ past' \in Seq(Messages) /\ Len(past') = n + 1 /\ n \in Nat /\ DOMAIN past = 1..n
      /\ DOMAIN past' = 1..(n + 1) /\ past'[n + 1] = msg /\ \A i \in 1..n : past'[i] = past[i]
  BY <1>1, <1>2, <1>4, <1>5
<1>7. /\ said' \in Seq(Taken) /\ Len(said') = n + 1
      /\ said'[n + 1] = intent /\ \A i \in 1..n : said'[i] = said[i]
  BY <1>1, <1>2, <1>4, <1>5
<1>8. n + 1 <= MaxTurns
  BY <1>2, <1>6, ReplyAssumption
<1> HIDE DEF n
<1>9. Talk'
  <2>1. \A i \in 1..(n + 1) : i \in 1..n \/ i = n + 1
    BY <1>6
  <2>2. \A i \in DOMAIN past' : Fits(said'[i], past'[i])
    BY <1>2, <1>4, <1>6, <1>7, <2>1
  <2> QED
    BY <1>6, <1>7, <1>8, <2>2 DEF Talk
<1>10. Underway'
  <2>1. turn'.msg \in Messages /\ turn'.intent \in Taken /\ Fits(turn'.intent, turn'.msg)
    BY <1>2, <1>3 DEF msg, intent
  <2>2. turn'.query # turn'.msg => Matches(turn'.msg, "followup")
    BY <1>2, <1>3 DEF msg
  <2> QED
    BY <1>2, <1>3, <2>1, <2>2 DEF Underway
<1>11. AnswerGrounded'
  <2>1. AnswerGrounded
    BY DEF ReplyInv, AnswerKept
  <2>2. reply = "no_match" => turn.cards = <<>>
    <3> SUFFICES ASSUME reply = "no_match" PROVE turn.cards = <<>>
      OBVIOUS
    <3>1. FallbackReply(turn) = "no_match"
      BY DEF reply
    <3>2. IsFiniteSet(turn.msg.terms)
      BY <1>2, ReplyAssumption DEF msg
    <3>3. turn.intent \notin Asking \/ ToSet(turn.context) = {}
      BY <1>2, <3>1, <3>2, FallbackIs
    <3>4. ToSet(turn.context) = {} => ToSet(turn.cards) = {}
      BY <2>1 DEF AnswerGrounded
    <3>5. turn.cards # <<>> => 1 \in DOMAIN turn.cards
      BY <1>2
    <3>6. turn.cards # <<>> => ToSet(turn.cards) # {}
      BY <3>5 DEF ToSet
    <3> QED
      BY <2>1, <3>3, <3>4, <3>6 DEF AnswerGrounded, Asking
  <2> QED
    BY <1>3, <2>1, <2>2 DEF AnswerGrounded
<1>12. TopicKept'
  <2> SUFFICES ASSUME NEW i \in 1..(n + 1), turn.query # msg,
                      said'[i] \in Answered \/ (~Greeting(past'[i]) /\ ~OffTopic(past'[i])),
                      ~Matches(past'[i], "followup"),
                      \A j \in i + 1..(n + 1) :
                        said'[j] \in {"greeting", "off_topic"} \/ Matches(past'[j], "followup")
               PROVE  past'[i].terms \subseteq turn.query.terms
    BY <1>3, <1>6 DEF TopicKept, msg
  <2>1. Matches(msg, "followup")
    BY <1>2
  <2>2. i \in 1..n
    <3>1. i # n + 1
      BY <1>6, <2>1
    <3> QED
      BY <1>6, <3>1
  <2>3. past'[i] = past[i] /\ said'[i] = said[i] /\ i \in DOMAIN past
    BY <1>6, <1>7, <2>2
  <2>4. \A j \in i + 1..n : said[j] \in {"greeting", "off_topic"} \/ Matches(past[j], "followup")
    <3>1. \A j \in i + 1..n : j \in 1..n /\ j \in i + 1..(n + 1)
      BY <1>6
    <3> QED
      BY <1>6, <1>7, <3>1
  <2>5. TopicKept /\ turn.pc # "idle"
    BY <1>1 DEF ReplyInv, AnswerKept
  <2> QED
    BY <2>3, <2>4, <2>5 DEF TopicKept, n, msg
<1> QED
  BY <1>9, <1>10, <1>11, <1>12 DEF ReplyInv, AnswerKept

(* The request ends.                                                         *)
LEMMA FinishInv == ReplyInv /\ Finish => ReplyInv'
<1> SUFFICES ASSUME ReplyInv, Finish PROVE ReplyInv'
  OBVIOUS
<1>1. UNCHANGED <<past, said, key>> /\ turn' = Quiet
  BY DEF Finish
<1>2. /\ IsTurn(turn') /\ turn'.pc = "idle" /\ turn'.query = Nothing /\ turn'.found = {}
      /\ turn'.context = <<>> /\ turn'.cards = <<>> /\ turn'.primary = {} /\ turn'.tries = 0
      /\ turn'.reply = "none" /\ turn'.intent = "none"
  BY <1>1 DEF Quiet, IsTurn
<1>3. IsFiniteSet(turn'.query.terms)
  BY <1>2, FS_EmptySet DEF Nothing
<1>4. ToSet(<<>>) = {} /\ <<>> \in Seq(Shelf) /\ 0 \in 0..Models /\ ~(Len(<<>>) > 1)
  BY ReplyAssumption DEF ToSet
<1>5. Talk'
  BY <1>1 DEF ReplyInv, Talk
<1>6. Underway'
  BY <1>2, <1>3, <1>4 DEF Underway
<1>7. AnswerKept'
  BY <1>2, <1>4 DEF AnswerKept, AnswerGrounded, TopicKept
<1> QED
  BY <1>5, <1>6, <1>7 DEF ReplyInv

(* Every step keeps the invariant.                                           *)
LEMMA ReplyNextInv == ReplyInv /\ [ReplyNext]_replyVars => ReplyInv'
<1> SUFFICES ASSUME ReplyInv, [ReplyNext]_replyVars PROVE ReplyInv'
  OBVIOUS
<1>1. CASE UNCHANGED replyVars
  <2>1. UNCHANGED <<past, said, turn, key>>
    BY <1>1 DEF replyVars
  <2>2. Talk' /\ Underway'
    BY <2>1 DEF ReplyInv, Talk, Underway
  <2>3. AnswerGrounded' /\ TopicKept'
    BY <2>1 DEF ReplyInv, AnswerKept, AnswerGrounded, TopicKept
  <2> QED
    BY <2>2, <2>3 DEF ReplyInv, AnswerKept
<1> QED
  BY <1>1, ReceiveInv, SearchInv, CallModelInv, RespondInv, FinishInv DEF ReplyNext

(* The invariant holds in every state.                                       *)
LEMMA ReplyAlways == ReplySpec => []ReplyInv
BY ReplyInitInv, ReplyNextInv, PTL DEF ReplySpec

(* Every variable keeps its type: what was said has an answer for every      *)
(* message, and a model is asked only with a key and while one is left.      *)
THEOREM ReplyTypeCorrect == ReplySpec => []ReplyTypeOK
<1>1. ReplyInv => ReplyTypeOK
  <2> SUFFICES ASSUME ReplyInv PROVE ReplyTypeOK
    OBVIOUS
  <2>1. said \in Seq(Taken)
    BY DEF ReplyInv, Talk
  <2>2. ToSet(said) \subseteq Taken
    BY <2>1 DEF ToSet
  <2>3. Taken = Canned \cup {"search", "summarize", "headlines", "no_match"}
    BY DEF Taken, Answered
  <2> QED
    BY <2>2, <2>3 DEF ReplyInv, Talk, Underway, ReplyTypeOK
<1> QED
  BY <1>1, ReplyAlways, PTL

(* AnswerKept: in every state of a conversation, of any length and over any  *)
(* articles, what is shown comes from what the model was given, nothing is   *)
(* declared missing beside cards, and a follow-up keeps the topic of the     *)
(* last question of its own (select_response_articles, _last_user_news_      *)
(* message, fallback_reply).                                                 *)
THEOREM AnswerKeptAlways == ReplySpec => []AnswerKept
<1>1. ReplyInv => AnswerKept
  BY DEF ReplyInv
<1> QED
  BY <1>1, ReplyAlways, PTL

-----------------------------------------------------------------------------
(* The components together.                                                  *)

(* A behaviour of the accounts is one of each component: whichever runs, the *)
(* others rest.                                                              *)
LEMMA PeopleParts == PeopleSpec => OtpSpec /\ NoteSpec /\ FeedbackSpec /\ ChatSpec /\ ReplySpec
<1>1. PeopleInit => OtpInit /\ NoteInit /\ FeedbackInit /\ ChatInit /\ ReplyInit
  BY DEF PeopleInit
<1>2. [PeopleNext]_peopleVars => [OtpNext]_otpVars
  BY DEF PeopleNext, peopleVars
<1>3. [PeopleNext]_peopleVars => [NoteNext]_noteVars
  BY DEF PeopleNext, peopleVars
<1>4. [PeopleNext]_peopleVars => [FeedbackNext]_feedbackVars
  BY DEF PeopleNext, peopleVars
<1>5. [PeopleNext]_peopleVars => [ChatNext]_chatVars
  BY DEF PeopleNext, peopleVars
<1>6. [PeopleNext]_peopleVars => [ReplyNext]_replyVars
  BY DEF PeopleNext, peopleVars
<1> QED
  BY <1>1, <1>2, <1>3, <1>4, <1>5, <1>6, PTL
     DEF PeopleSpec, OtpSpec, NoteSpec, FeedbackSpec, ChatSpec, ReplySpec

(* Type correctness of all the components that serve the accounts.           *)
THEOREM PeopleTypeCorrect == PeopleSpec => []PeopleTypeOK
<1>1. OtpTypeOK /\ NoteTypeOK /\ FeedbackTypeOK /\ ChatTypeOK /\ ReplyTypeOK => PeopleTypeOK
  BY DEF PeopleTypeOK
<1> QED
  BY <1>1, PeopleParts, OtpTypeCorrect, NoteTypeCorrect, FeedbackTypeCorrect, ChatTypeCorrect,
     ReplyTypeCorrect, PTL
=============================================================================
