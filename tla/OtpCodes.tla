------------------------------ MODULE OtpCodes ------------------------------
(***************************************************************************)
(* One-time e-mail codes, the failure counters that lock their checking,   *)
(* and the account fields that an accepted code changes: accounts/views.py,*)
(* accounts/views_auth_email.py, accounts/services/{otp_service,security}, *)
(* accounts/password_reset_utils.py and the account edits of               *)
(* admin_panel/api_views.py.                                               *)
(*                                                                         *)
(* A request is a process of steps, one per access to the database or the  *)
(* cache whose order against other requests matters.  transaction.atomic   *)
(* is a no-op on the MongoDB backend, so nothing groups the steps.  A code *)
(* is the index of its record in otps: two codes never collide.  Clients   *)
(* have one IP address per account, and per-view throttles only refuse     *)
(* requests, so they are left out.                                         *)
(***************************************************************************)
EXTENDS Naturals, FiniteSets, Sequences

CONSTANTS
  Emails,        \* addresses, at most one account each
  NoOne,         \* not an address
  Workers,       \* request threads
  Ops,           \* the operations this instance exercises
  MaxAttempts,   \* OTP.MAX_ATTEMPTS, wrong guesses one code survives
  MaxFailures,   \* AUTH_SECURITY limits, failures before a lockout
  MaxRequests,   \* bound: requests a behaviour serves
  MaxLapses      \* bound: expiries and administrator's edits of a behaviour

AllOps == {"login", "verify", "contact", "check", "confirm", "password",
           "sendlogin", "sendverify", "resend", "sendcontact", "sendreset",
           "register", "token"}

ASSUME OtpAssumption ==
  /\ Ops \subseteq AllOps
  /\ NoOne \notin Emails
  /\ MaxAttempts \in Nat \ {0}
  /\ MaxFailures \in Nat \ {0}
  /\ MaxRequests \in Nat
  /\ MaxLapses \in Nat

VARIABLES
  account,   \* accounts_user: is there a row, and is it active
  gen,       \* accounts_user.id: how many rows of the address came before
  verified,  \* accounts_user.email_verified
  otps,      \* accounts_email_otp in the order of created_at
  fails,     \* cache: the failure counter of an address and a purpose
  tokens,    \* cache: password reset sessions, [email, live]
  req,       \* the request each thread serves
  used,      \* what the bounds have left: [requests, lapses]
  missed,    \* history: failures since the counter was last cleared or expired
  overlap,   \* history: addresses that ever had two requests, or a request
             \* and an administrator's edit, at once
  resets     \* history: passwords set by a reset

otpVars == <<account, gen, verified, otps, fails, tokens, req, used, missed, overlap,
          resets>>

Purposes == {"login", "email", "contact", "reset", "password"}

\* The purpose a request's code is looked up under.
Purpose(op) ==
  CASE op \in {"login", "sendlogin"} -> "login"
    [] op \in {"verify", "sendverify", "resend", "register"} -> "email"
    [] op \in {"contact", "sendcontact"} -> "contact"
    [] op \in {"check", "confirm", "sendreset", "token"} -> "reset"
    [] op = "password" -> "password"

\* permissions.IsAuthenticated: the token of an inactive account is refused.
SignedIn == {"verify", "contact", "sendverify", "resend", "sendcontact"}

OtpSteps == {"idle", "look", "judge", "failread", "failset", "clear", "grant",
          "mark", "save", "cooldown", "invalidate", "create", "consume", "auth"}

\* How old a record is; "gone" when it was deleted with its account.
Ages == {"recent", "old", "expired", "gone"}

\* won and wrong are history: submissions that accepted and that missed it.
Otp == [email : Emails, purpose : Purposes, attempts : Nat, used : BOOLEAN,
        age : Ages, won : Nat, wrong : Nat]

\* A password reset session.
Session == [email : Emails, live : BOOLEAN]

\* What a thread holds: the code submitted, the record it looked up and the
\* counter it read, the account row it acts for and the field it will rewrite.
Request == [step : OtpSteps, op : AllOps, email : Emails \union {NoOne},
            code : Nat, rec : Nat, seen : Nat, row : Nat, flag : BOOLEAN]

OtpIdle == [step |-> "idle", op |-> "login", email |-> NoOne, code |-> 0,
         rec |-> 0, seen |-> 0, row |-> 0, flag |-> FALSE]

Matching(e, p) == {i \in DOMAIN otps : /\ otps[i].email = e
                                       /\ otps[i].purpose = p
                                       /\ otps[i].age # "gone"}

\* Mutant of Active: a code serves any purpose.
ActiveAny(e, p) == {i \in DOMAIN otps : otps[i].email = e /\ ~otps[i].used /\ otps[i].age = "recent"}

\* is_used=False and expires_at in the future
Active(e, p) == {i \in Matching(e, p) : ~otps[i].used /\ otps[i].age # "expired"}

\* order_by("-created_at").first(); 0 when there is none
Latest(S) == IF S = {} THEN 0 ELSE CHOOSE i \in S : \A j \in S : j <= i

LatestActive(e, p) == Latest(Active(e, p))

\* A code as it is issued.
Issued(e, p) == [email |-> e, purpose |-> p, attempts |-> 0, used |-> FALSE,
                 age |-> "recent", won |-> 0, wrong |-> 0]

\* At most one code was mailed before: to anyone for a sign-in, to an account
\* for the other purposes.
OtpInit ==
  /\ account \in [Emails -> {"none", "active"}]
  /\ gen = [e \in Emails |-> 0]
  /\ verified = [e \in Emails |-> FALSE]
  /\ otps \in {<<>>} \union {<<Issued(e, "login")>> : e \in Emails}
                \union {<<Issued(e, p)>> : e \in {x \in Emails : account[x] = "active"},
                                          p \in Purposes \ {"password"}}
  /\ fails = [e \in Emails |-> [p \in Purposes |-> 0]]
  /\ tokens = <<>>
  /\ req = [w \in Workers |-> OtpIdle]
  /\ used = [requests |-> 0, lapses |-> 0]
  /\ missed = [e \in Emails |-> [p \in Purposes |-> 0]]
  /\ overlap = {}
  /\ resets = [e \in Emails |-> 0]

Busy(e) == \E v \in Workers : req[v].step # "idle" /\ req[v].email = e

\* A request arrives for address e and goes to its first step with state.
Arrive(w, op, e, c, step) ==
  /\ req[w].step = "idle"
  /\ op \in Ops
  /\ used.requests < MaxRequests
  /\ op \in SignedIn => account[e] = "active"
  /\ used' = [used EXCEPT !.requests = @ + 1]
  /\ overlap' = IF Busy(e) THEN overlap \union {e} ELSE overlap
  /\ req' = [req EXCEPT ![w] = [OtpIdle EXCEPT !.step = step, !.op = op,
                                            !.email = e, !.code = c,
                                            !.row = gen[e]]]

\* The thread's next step, and the answer that ends the request.
Goto(w, step) == req' = [req EXCEPT ![w].step = step]
Answer(w) == req' = [req EXCEPT ![w] = OtpIdle]

-----------------------------------------------------------------------------
(* Sending a code                                                          *)

\* A code is asked for: the handler's own conditions, then issue() or resend().
Asked(w, op, e, step) ==
  /\ Arrive(w, op, e, 0, step)
  /\ UNCHANGED <<account, gen, verified, otps, fails, tokens, missed, resets>>

\* OtpRequestView: whoever asks is sent a sign-in code.
SendLogin(w) == \E e \in Emails : Asked(w, "sendlogin", e, "invalidate")

\* EmailVerificationSendView: a verified address gets no code.
SendVerify(w) == \E e \in Emails :
  ~verified[e] /\ Asked(w, "sendverify", e, "invalidate")

\* EmailVerificationResendView: the same, and resend() looks at the cooldown.
Resend(w) == \E e \in Emails :
  ~verified[e] /\ Asked(w, "resend", e, "cooldown")

\* VerifyContactRequestView, the e-mail channel
SendContact(w) == \E e \in Emails : Asked(w, "sendcontact", e, "invalidate")

\* PasswordResetRequestView: only an active account is sent a code.
SendReset(w) == \E e \in Emails :
  account[e] = "active" /\ Asked(w, "sendreset", e, "invalidate")

\* RegisterView: the account is created, then a verification code issued.
Register(w) == \E e \in Emails :
  /\ account[e] = "none"
  /\ Arrive(w, "register", e, 0, "invalidate")
  /\ account' = [account EXCEPT ![e] = "active"]
  /\ verified' = [verified EXCEPT ![e] = FALSE]
  /\ UNCHANGED <<gen, otps, fails, tokens, missed, resets>>

\* _check_resend_cooldown: the newest record, used or not, must be old enough.
Cooldown(w) ==
  LET last == Latest(Matching(req[w].email, "email")) IN
  /\ req[w].step = "cooldown"
  /\ IF last # 0 /\ otps[last].age = "recent" THEN Answer(w) ELSE Goto(w, "invalidate")
  /\ UNCHANGED <<account, gen, verified, otps, fails, tokens, used, missed, overlap,
                 resets>>

\* _invalidate_active: one update_many.
Invalidate(w) ==
  LET old == Active(req[w].email, Purpose(req[w].op)) IN
  /\ req[w].step = "invalidate"
  /\ otps' = [i \in DOMAIN otps |->
                IF i \in old THEN [otps[i] EXCEPT !.used = TRUE] ELSE otps[i]]
  /\ Goto(w, "create")
  /\ UNCHANGED <<account, gen, verified, fails, tokens, used, missed, overlap,
                 resets>>

\* The record is created and mailed; it stays when the mail fails.
Create(w) ==
  /\ req[w].step = "create"
  /\ otps' = Append(otps, Issued(req[w].email, Purpose(req[w].op)))
  /\ Answer(w)
  /\ UNCHANGED <<account, gen, verified, fails, tokens, used, missed, overlap,
                 resets>>

-----------------------------------------------------------------------------
(* Checking a code                                                         *)

Locked(e, p) == fails[e][p] >= MaxFailures

\* A code (0: one that was never issued) is submitted; the lockout is checked
\* first, and a locked request is answered without looking at the code.
Submit(w, op) == \E e \in Emails, c \in 0 .. Len(otps) :
  /\ c # 0 => otps[c].email = e
  /\ IF Locked(e, Purpose(op))
     THEN Arrive(w, op, e, c, "idle")
     ELSE Arrive(w, op, e, c, "look")
  /\ UNCHANGED <<account, gen, verified, otps, fails, tokens, missed, resets>>

\* The five views that take a code: OtpVerifyView, EmailVerificationVerifyView,
\* VerifyContactConfirmView, PasswordResetOtpVerifyView and, when it is given
\* no reset session, PasswordResetOtpConfirmView.
VerifyLogin(w) == Submit(w, "login")
VerifyEmail(w) == Submit(w, "verify")
ConfirmContact(w) == Submit(w, "contact")
CheckReset(w) == Submit(w, "check")
ConfirmReset(w) == Submit(w, "confirm")

\* _latest_active; its attempts are read with it.
Look(w) ==
  LET r == LatestActive(req[w].email, Purpose(req[w].op)) IN
  /\ req[w].step = "look"
  /\ req' = [req EXCEPT ![w].rec = r,
                        ![w].seen = IF r = 0 THEN 0 ELSE otps[r].attempts,
                        ![w].step = IF r = 0 THEN "failread" ELSE "judge"]
  /\ UNCHANGED <<account, gen, verified, otps, fails, tokens, used, missed, overlap,
                 resets>>

\* The outcomes of verify(): the attempts written are those read plus one, and
\* save(update_fields=...) touches no other column, and raises when the row
\* is gone.  The two saves of a last guess are one step: between them the
\* record is refused as exhausted, after them as not found, which the views
\* answer and count alike.
Exhausted(q) == q.seen >= MaxAttempts
\* Mutant of Wrong: the whole row is saved as it was read.
WrongWhole(q) == [otps[q.rec] EXCEPT !.attempts = q.seen + 1, !.used = q.seen + 1 >= MaxAttempts,
                                     !.wrong = @ + 1]

\* Mutant of Wrong: the guess is not counted.
WrongFree(q) == [otps[q.rec] EXCEPT !.wrong = @ + 1]

Wrong(q) == [otps[q.rec] EXCEPT !.attempts = q.seen + 1,
                                !.used = @ \/ q.seen + 1 >= MaxAttempts,
                                !.wrong = @ + 1]
Right(q) == [otps[q.rec] EXCEPT !.used = TRUE, !.won = @ + 1]

Judge(w) ==
  LET q == req[w]
      ok == ~Exhausted(q) /\ q.code = q.rec
  IN
  /\ q.step = "judge"
  /\ IF otps[q.rec].age = "gone"
     THEN Answer(w) /\ UNCHANGED otps
     ELSE /\ otps' = [otps EXCEPT ![q.rec] =
                        IF Exhausted(q) THEN [@ EXCEPT !.used = TRUE]
                        ELSE IF ok THEN Right(q) ELSE Wrong(q)]
          /\ Goto(w, IF ok THEN "clear" ELSE "failread")
  /\ UNCHANGED <<account, gen, verified, fails, tokens, used, missed, overlap,
                 resets>>

\* record_otp_verify_failure: cache.get, then cache.set.
FailRead(w) ==
  /\ req[w].step = "failread"
  /\ req' = [req EXCEPT ![w].seen = fails[req[w].email][Purpose(req[w].op)],
                        ![w].step = "failset"]
  /\ UNCHANGED <<account, gen, verified, otps, fails, tokens, used, missed, overlap,
                 resets>>

FailSet(w) ==
  LET e == req[w].email
      p == Purpose(req[w].op)
  IN
  /\ req[w].step = "failset"
  /\ fails' = [fails EXCEPT ![e][p] = req[w].seen + 1]
  /\ missed' = [missed EXCEPT ![e][p] = @ + 1]
  /\ Answer(w)
  /\ UNCHANGED <<account, gen, verified, otps, tokens, used, overlap, resets>>

ForgetCounter(e, p) ==
  /\ fails' = [fails EXCEPT ![e][p] = 0]
  /\ missed' = [missed EXCEPT ![e][p] = 0]

\* clear_otp_verify_failures, clear_login_failures
Clear(w) ==
  /\ req[w].step = "clear"
  /\ ForgetCounter(req[w].email, Purpose(req[w].op))
  /\ IF req[w].op = "password" THEN Answer(w) ELSE Goto(w, "grant")
  /\ UNCHANGED <<account, gen, verified, otps, tokens, used, overlap, resets>>

-----------------------------------------------------------------------------
(* What an accepted code grants                                            *)

\* OtpVerifyView reads the account, and creates it when it is missing.
GrantLogin(w) ==
  LET e == req[w].email IN
  /\ req[w].step = "grant"
  /\ req[w].op = "login"
  /\ account' = [account EXCEPT ![e] = IF @ = "none" THEN "active" ELSE @]
  /\ req' = [req EXCEPT ![w].step = "mark", ![w].row = gen[e]]
  /\ UNCHANGED <<gen, verified, otps, fails, tokens, used, missed, overlap, resets>>

\* _mark_email_verified writes one column; a deleted row is not written.
GrantVerified(w) ==
  LET e == req[w].email IN
  /\ \/ req[w].step = "grant" /\ req[w].op \in {"verify", "contact"}
     \/ req[w].step = "mark"
  /\ verified' = [verified EXCEPT
                     ![e] = @ \/ (account[e] # "none" /\ gen[e] = req[w].row)]
  /\ Answer(w)
  /\ UNCHANGED <<account, gen, otps, fails, tokens, used, missed, overlap, resets>>

\* PasswordResetOtpVerifyView answers an active account with a reset session.
GrantToken(w) ==
  LET e == req[w].email IN
  /\ req[w].step = "grant"
  /\ req[w].op = "check"
  /\ tokens' = IF account[e] = "active"
               THEN Append(tokens, [email |-> e, live |-> TRUE]) ELSE tokens
  /\ Answer(w)
  /\ UNCHANGED <<account, gen, verified, otps, fails, used, missed, overlap, resets>>

\* PasswordResetOtpConfirmView with a session: consume_password_reset_session
\* gets the entry, compares the address, and deletes the entry in a later call.
UseToken(w) == \E e \in Emails, t \in DOMAIN tokens :
  /\ tokens[t].live /\ tokens[t].email = e
  /\ Arrive(w, "token", e, t, "consume")
  /\ UNCHANGED <<account, gen, verified, otps, fails, tokens, missed, resets>>

Consume(w) ==
  /\ req[w].step = "consume"
  /\ tokens' = [tokens EXCEPT ![req[w].code].live = FALSE]
  /\ Goto(w, "grant")
  /\ UNCHANGED <<account, gen, verified, otps, fails, used, missed, overlap, resets>>

\* The user is read; only an existing, active one goes on.
ResetRead(w) ==
  /\ req[w].step = "grant"
  /\ req[w].op \in {"confirm", "token"}
  /\ IF account[req[w].email] = "active"
     THEN req' = [req EXCEPT ![w].step = "save",
                             ![w].row = gen[req[w].email],
                             ![w].flag = verified[req[w].email]]
     ELSE Answer(w)
  /\ UNCHANGED <<account, gen, verified, otps, fails, tokens, used, missed, overlap,
                 resets>>

\* user.save() writes back every column as it was read, and inserts the row
\* again when it is gone, unless the address has a new row by then, which the
\* unique index on email refuses; then clear_login_failures.
ResetSave(w) ==
  LET e == req[w].email
      new == account[e] # "none" /\ gen[e] # req[w].row
  IN
  /\ req[w].step = "save"
  /\ IF new
     THEN UNCHANGED <<account, gen, verified, resets, fails, missed>>
     ELSE /\ account' = [account EXCEPT ![e] = "active"]
          /\ gen' = [gen EXCEPT ![e] = req[w].row]
          /\ verified' = [verified EXCEPT ![e] = req[w].flag]
          /\ resets' = [resets EXCEPT ![e] = @ + 1]
          /\ ForgetCounter(e, "password")
  /\ Answer(w)
  /\ UNCHANGED <<otps, tokens, used, overlap>>

-----------------------------------------------------------------------------
(* Signing in with a password                                              *)

\* LoginView checks the lockout before it authenticates.
Login(w) == \E e \in Emails, right \in {0, 1} :
  /\ Arrive(w, "password", e, right,
            IF Locked(e, "password") THEN "idle" ELSE "auth")
  /\ UNCHANGED <<account, gen, verified, otps, fails, tokens, missed, resets>>

\* Bad credentials raise out of TokenObtainPairView.post, past the branch that
\* would record the failure.
Authenticate(w) ==
  LET q == req[w]
      ok == q.code = 1 /\ account[q.email] = "active"
  IN
  /\ q.step = "auth"
  /\ IF ok
     THEN Goto(w, "clear")
     ELSE Answer(w)
  /\ UNCHANGED <<account, gen, verified, otps, fails, tokens, used, missed, overlap, resets>>

-----------------------------------------------------------------------------
(* Time and administrators                                                 *)

OtpLapse ==
  /\ used.lapses < MaxLapses
  /\ used' = [used EXCEPT !.lapses = @ + 1]

\* RESEND_COOLDOWN_SECONDS (60) is over before EXPIRY_SECONDS (300).
Age == \E i \in DOMAIN otps :
  /\ OtpLapse
  /\ otps[i].age \in {"recent", "old"}
  /\ otps' = [otps EXCEPT ![i].age = IF @ = "recent" THEN "old" ELSE "expired"]
  /\ UNCHANGED <<account, gen, verified, fails, tokens, req, missed, overlap, resets>>

\* A cache entry reaches its timeout: a failure counter or a reset session.
CacheExpires ==
  /\ OtpLapse
  /\ \/ \E e \in Emails, p \in Purposes :
          /\ fails[e][p] > 0
          /\ ForgetCounter(e, p)
          /\ UNCHANGED tokens
     \/ \E t \in DOMAIN tokens :
          /\ tokens[t].live
          /\ tokens' = [tokens EXCEPT ![t].live = FALSE]
          /\ UNCHANGED <<fails, missed>>
  /\ UNCHANGED <<account, gen, verified, otps, req, overlap, resets>>

\* AdminUserDetailView: is_active is flipped (one column), or the user deleted
\* with the records that point at it; a sign-in code points at none.
Flip(e) ==
  /\ account' = [account EXCEPT ![e] = IF @ = "off" THEN "active" ELSE "off"]
  /\ UNCHANGED <<gen, verified, otps>>

Delete(e) ==
  /\ account' = [account EXCEPT ![e] = "none"]
  /\ gen' = [gen EXCEPT ![e] = @ + 1]
  /\ verified' = [verified EXCEPT ![e] = FALSE]
  /\ otps' = [i \in DOMAIN otps |->
                IF otps[i].email = e /\ otps[i].purpose # "login"
                THEN [otps[i] EXCEPT !.age = "gone"] ELSE otps[i]]

Administer == \E e \in Emails :
  /\ OtpLapse
  /\ account[e] # "none"
  /\ overlap' = IF Busy(e) THEN overlap \union {e} ELSE overlap
  /\ Flip(e) \/ Delete(e)
  /\ UNCHANGED <<fails, tokens, req, missed, resets>>

-----------------------------------------------------------------------------
OtpWork(w) ==
  \/ Cooldown(w) \/ Invalidate(w) \/ Create(w)
  \/ Look(w) \/ Judge(w) \/ FailRead(w) \/ FailSet(w) \/ Clear(w)
  \/ GrantLogin(w) \/ GrantVerified(w) \/ GrantToken(w)
  \/ Consume(w) \/ ResetRead(w) \/ ResetSave(w) \/ Authenticate(w)

OtpNext ==
  \/ \E w \in Workers :
       \/ SendLogin(w) \/ SendVerify(w) \/ Resend(w) \/ SendContact(w)
       \/ SendReset(w) \/ Register(w)
       \/ VerifyLogin(w) \/ VerifyEmail(w) \/ ConfirmContact(w)
       \/ CheckReset(w) \/ ConfirmReset(w) \/ UseToken(w) \/ Login(w)
       \/ OtpWork(w)
  \/ Age \/ CacheExpires \/ Administer

OtpSpec == OtpInit /\ [][OtpNext]_otpVars
-----------------------------------------------------------------------------
\* Every variable keeps its type (models.py, the cache entries).
OtpTypeOK ==
  /\ account \in [Emails -> {"none", "active", "off"}]
  /\ gen \in [Emails -> Nat]
  /\ verified \in [Emails -> BOOLEAN]
  /\ otps \in Seq(Otp)
  /\ fails \in [Emails -> [Purposes -> Nat]]
  /\ tokens \in Seq(Session)
  /\ req \in [Workers -> Request]
  /\ used \in [requests : Nat, lapses : Nat]
  /\ missed \in [Emails -> [Purposes -> Nat]]
  /\ overlap \subseteq Emails
  /\ resets \in [Emails -> Nat]

\* The codes of an address that were accepted for one of the purposes in P.
Won(e, P) == {i \in DOMAIN otps : /\ otps[i].email = e
                                  /\ otps[i].purpose \in P
                                  /\ otps[i].won > 0}

\* A code that was spent is never accepted material again: no later write of a
\* request that read the record before, and no retry, makes it unused.
UsedStays ==
  [][\A i \in DOMAIN otps : otps[i].used => otps'[i].used]_otpVars

\* A password is set by a reset only with an accepted reset code of that very
\* address, whichever of the two forms is used.
ResetCoded == \A e \in Emails : resets[e] > 0 => Won(e, {"reset"}) # {}

\* One code sets the password once, unless requests for the address overlapped
\* (the session and the code are read in one call and spent in a later one).
ResetOnce == \A e \in Emails \ overlap : resets[e] <= Cardinality(Won(e, {"reset"}))

\* An address is verified only after one of its own sign-in, verification or
\* contact codes was accepted; a reset code does not count.
VerifiedBacked == \A e \in Emails :
  verified[e] => Won(e, {"login", "email", "contact"}) # {}

\* Without overlapping requests the limits are exact: a code survives at most
\* MaxAttempts wrong guesses, and between two clearings of a counter no more
\* than MaxFailures submissions fail.
GuessBound == \A e \in Emails \ overlap :
  /\ \A i \in DOMAIN otps : otps[i].email = e => otps[i].wrong <= MaxAttempts
  /\ \A p \in Purposes \ {"password"} :
       missed[e][p] <= fails[e][p] /\ missed[e][p] <= MaxFailures

\* An account an administrator switched off or deleted comes back only through
\* an administrator, a registration or a sign-in code; a password reset that
\* writes back the row it read brings it back when the two overlap.
OffSticks ==
  [][\A e \in Emails \ overlap' :
       account[e] # "active" /\ account'[e] = "active"
       => Administer \/ \E w \in Workers : Register(w) \/ GrantLogin(w)]_otpVars

\* What was spent or switched off stays so.
WritesStick == UsedStays /\ OffSticks

\* Neither a password nor an address is gained without an accepted code.
Backed == ResetCoded /\ ResetOnce /\ VerifiedBacked
=============================================================================
