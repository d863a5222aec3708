------------------------ MODULE AccountAccess_proofs ------------------------
(***************************************************************************)
(* Proofs about AccountAccess, for any number of sessions, tokens and      *)
(* requests.                                                               *)
(*                                                                         *)
(* A sign-in keeps the row lock of the User from the comparison of the     *)
(* password to the new session, so what it compared is still true.  An     *)
(* anonymization deletes the row of the code, and the next one is in a     *)
(* later row: a verification that read the old code claims nothing.        *)
(***************************************************************************)
EXTENDS AccountAccess, TLAPS

\* A sign-in under way has the account's password, and the account is active.
SignInIsCurrent ==
    \A r \in Requests : req[r].op = "login" =>
        req[r].password = user.password /\ req[r].era = user.era /\ user.active

LiveIsCurrent ==
    \A s \in Sessions : session[s].state = "live" =>
        session[s].password = user.password /\ session[s].era = user.era

\* Before the account exists nothing about it does.
Nobody ==
    user.kind = "none" =>
        ~user.active /\ ~code.exists /\ \A r \in Requests : req[r].op # "send"

\* Only staff are suspended, staff are not anonymized, and a code of an anonymized account is
\* in a row that it has had since.
Out ==
    /\ user.suspended => user.kind = "STAFF"
    /\ user.anonymized =>
         /\ user.kind \in {"PASSWORD", "LEGACY"}
         /\ user.forgotten <= code.row
         /\ code.exists => user.forgotten < code.row

IInv ==
    /\ TypeOK
    /\ SignInIsCurrent
    /\ LiveIsCurrent
    /\ Nobody
    /\ Out

-----------------------------------------------------------------------------
(* Types *)

LEMMA InitTypeOK == Init => TypeOK
<1> SUFFICES ASSUME Init PROVE TypeOK
  OBVIOUS
<1>1. user \in User /\ code \in Code
  <2>1. PICK k \in {"none", "LEGACY"} :
          user = [kind |-> k, active |-> k = "LEGACY", verified |-> FALSE, suspended |-> FALSE,
                  anonymized |-> FALSE, password |-> 1, era |-> 0, forgotten |-> 0]
    BY DEF Init
  <2>2. (k = "LEGACY") \in BOOLEAN
    OBVIOUS
  <2>3. user \in User
    BY <2>1, <2>2 DEF User, Kinds
  <2>4. code \in Code
    BY DEF Init, Code
  <2> QED
    BY <2>3, <2>4
<1>2. Idle \in Request /\ WellFormed(Idle) /\ NoSession \in Session
  BY DEF Idle, Request, WellFormed, NoSession, Session
<1> QED
  BY <1>1, <1>2 DEF Init, TypeOK

LEMMA KeepType ==
    ASSUME TypeOK, NEW r \in Requests, NEW q \in Request, WellFormed(q), Keep(r, q)
    PROVE  req' \in [Requests -> Request] /\ \A k \in Requests : WellFormed(req[k])'
<1>1. req' = [req EXCEPT ![r] = q]
  BY DEF Keep
<1>2. \A k \in Requests : req'[k] \in Request /\ WellFormed(req'[k])
  BY <1>1 DEF TypeOK
<1> QED
  BY <1>1, <1>2 DEF TypeOK, WellFormed

\* The requests that the actions write, all well-formed.
LEMMA RequestTypes ==
    ASSUME TypeOK
    PROVE  /\ Idle \in Request /\ WellFormed(Idle)
           /\ LET q == [Idle EXCEPT !.op = "send"] IN q \in Request /\ WellFormed(q)
           /\ \A op \in {"verify", "miss"} :
                LET q == [Idle EXCEPT !.op = op, !.row = code.row, !.attempts = code.attempts]
                IN  q \in Request /\ WellFormed(q)
           /\ LET q == [Idle EXCEPT !.op = "login", !.password = user.password,
                                    !.era = user.era]
              IN  q \in Request /\ WellFormed(q)
           /\ \A t \in Tokens :
                LET q == [Idle EXCEPT !.op = "reset", !.on = t] IN q \in Request /\ WellFormed(q)
<1>1. user.password \in Nat /\ user.era \in Nat /\ code.row \in Nat /\ code.attempts \in Nat
  BY DEF TypeOK, User, Code
<1>2. Idle \in Request /\ WellFormed(Idle)
  BY DEF Idle, Request, WellFormed
<1>3. LET q == [Idle EXCEPT !.op = "send"] IN q \in Request /\ WellFormed(q)
  BY DEF Idle, Request, WellFormed
<1>4. ASSUME NEW op \in {"verify", "miss"}
      PROVE  LET q == [Idle EXCEPT !.op = op, !.row = code.row, !.attempts = code.attempts]
             IN  q \in Request /\ WellFormed(q)
  BY <1>1 DEF Idle, Request, WellFormed
<1>5. LET q == [Idle EXCEPT !.op = "login", !.password = user.password, !.era = user.era]
      IN  q \in Request /\ WellFormed(q)
  BY <1>1 DEF Idle, Request, WellFormed
<1>6. ASSUME NEW t \in Tokens
      PROVE  LET q == [Idle EXCEPT !.op = "reset", !.on = t] IN q \in Request /\ WellFormed(q)
  BY DEF Idle, Request, WellFormed
<1> QED
  BY <1>2, <1>3, <1>4, <1>5, <1>6

\* What the steps write into the requests.
LEMMA ReqKept ==
    ASSUME TypeOK, [Next]_accountVars
    PROVE  req' \in [Requests -> Request] /\ \A k \in Requests : WellFormed(req[k])'
<1>1. CASE req' = req
  BY <1>1 DEF TypeOK, WellFormed
<1>2. ASSUME NEW r \in Requests, RequestStep(r)
      PROVE  \E q \in Request : WellFormed(q) /\ Keep(r, q)
  <2>1. CASE Answer(r)
    BY <2>1, RequestTypes DEF Answer
  <2>2. CASE BeginSend(r)
    BY <2>2, RequestTypes DEF BeginSend
  <2>3. CASE \E op \in {"verify", "miss"} : BeginVerify(r, op)
    BY <2>3, RequestTypes DEF BeginVerify
  <2>4. CASE BeginLogin(r)
    BY <2>4, RequestTypes DEF BeginLogin
  <2>5. CASE \E t \in Tokens : BeginReset(r, t)
    BY <2>5, RequestTypes DEF BeginReset
  <2> QED
    BY <1>2, <2>1, <2>2, <2>3, <2>4, <2>5, Zenon
    DEF RequestStep, FinishSend, FinishVerify, CountMiss, FinishLogin, FinishReset, Abort
<1>3. CASE AccountStep
  BY <1>1, <1>3 DEF AccountStep, Register, CodeExpires, EndSession, RequestReset, TokenExpires,
     Suspend, Reactivate, Anonymize
<1>4. CASE \E r \in Requests : RequestStep(r)
  BY <1>2, <1>4, KeepType
<1>5. CASE UNCHANGED accountVars
  BY <1>1, <1>5 DEF accountVars
<1> QED
  BY <1>3, <1>4, <1>5 DEF Next

LEMMA SessionType ==
    ASSUME TypeOK, NEW s \in Sessions, NEW password \in Nat, NEW era \in Nat,
           NewSession(s, password, era)
    PROVE  /\ session' \in [Sessions -> Session]
           /\ session[s].state = "none"
           /\ session'[s].password = password /\ session'[s].era = era
           /\ \A t \in Sessions \ {s} : session'[t] = session[t]
<1>1. [state |-> "live", password |-> password, era |-> era] \in Session
  BY DEF Session
<1>2. session' = [session EXCEPT ![s] = [state |-> "live", password |-> password,
                                         era |-> era]]
  BY DEF NewSession
<1> QED
  BY <1>1, <1>2 DEF NewSession, TypeOK

LEMMA RevokedType ==
    ASSUME TypeOK
    PROVE  /\ AllRevoked \in [Sessions -> Session]
           /\ \A s \in Sessions :
                /\ AllRevoked[s].state # "live"
                /\ session[s].state = "none" => AllRevoked[s].state = "none"
<1>1. ASSUME NEW s \in Sessions
      PROVE  /\ AllRevoked[s] \in Session
             /\ AllRevoked[s].state # "live"
             /\ session[s].state = "none" => AllRevoked[s].state = "none"
  <2>1. session[s] \in Session
    BY DEF TypeOK
  <2>2. CASE session[s].state = "live"
    <3>1. AllRevoked[s] = [session[s] EXCEPT !.state = "revoked"]
      BY <2>2 DEF AllRevoked
    <3> QED
      BY <2>1, <2>2, <3>1 DEF Session
  <2>3. CASE session[s].state # "live"
    BY <2>1, <2>3 DEF AllRevoked
  <2> QED
    BY <2>2, <2>3
<1> QED
  BY <1>1 DEF AllRevoked

\* All that a step does to the sessions.
LEMMA SessionSteps ==
    ASSUME TypeOK, Next
    PROVE  \/ session' = session
           \/ \E s \in Sessions : EndSession(s)
           \/ \E r \in Requests, s \in Sessions : FinishLogin(r, s)
           \/ \E r \in Requests : FinishReset(r) /\ session' = AllRevoked
           \/ Suspend
<1>1. ASSUME NEW r \in Requests, FinishReset(r)
      PROVE  session' = session \/ session' = AllRevoked
  BY <1>1 DEF FinishReset
<1> QED
  BY <1>1
  DEF Next, AccountStep, RequestStep, Register, CodeExpires, RequestReset, TokenExpires,
      Reactivate, Anonymize, BeginSend, FinishSend, BeginVerify, FinishVerify, CountMiss,
      BeginLogin, BeginReset, Abort

LEMMA SessionKept ==
    ASSUME TypeOK, Next
    PROVE  session' \in [Sessions -> Session]
<1>1. ASSUME NEW s \in Sessions, EndSession(s) PROVE session' \in [Sessions -> Session]
  <2>1. [session[s] EXCEPT !.state = "revoked"] \in Session
    BY DEF TypeOK, Session
  <2>2. session' = [session EXCEPT ![s] = [session[s] EXCEPT !.state = "revoked"]]
    BY <1>1 DEF EndSession, TypeOK
  <2> QED
    BY <2>1, <2>2 DEF TypeOK
<1>2. ASSUME NEW r \in Requests, NEW s \in Sessions, FinishLogin(r, s)
      PROVE  session' \in [Sessions -> Session]
  <2>1. req[r].password \in Nat /\ req[r].era \in Nat
    BY DEF TypeOK, Request
  <2> QED
    BY <1>2, <2>1, SessionType DEF FinishLogin
<1> QED
  BY <1>1, <1>2, SessionSteps, RevokedType DEF Suspend, TypeOK

\* All that a step does to the User.
LEMMA UserSteps ==
    ASSUME TypeOK, Next
    PROVE  \/ user' = user
           \/ \E kind \in {"PASSWORD", "STAFF"} : Register(kind)
           \/ Suspend \/ Reactivate \/ Anonymize
           \/ \E r \in Requests :
                \/ /\ FinishVerify(r) /\ user' = [user EXCEPT !.verified = TRUE, !.active = TRUE]
                   /\ code.exists /\ code.row = req[r].row
                \/ FinishReset(r) /\ session' = AllRevoked /\ user' = [user EXCEPT !.password = @ + 1]
<1>1. ASSUME NEW r \in Requests, FinishVerify(r)
      PROVE  \/ user' = user
             \/ /\ user' = [user EXCEPT !.verified = TRUE, !.active = TRUE]
                /\ code.exists /\ code.row = req[r].row
  BY <1>1 DEF FinishVerify
<1>2. ASSUME NEW r \in Requests, FinishReset(r)
      PROVE  \/ user' = user
             \/ session' = AllRevoked /\ user' = [user EXCEPT !.password = @ + 1]
  BY <1>2 DEF FinishReset
<1> QED
  BY <1>1, <1>2
  DEF Next, AccountStep, RequestStep, CodeExpires, RequestReset, TokenExpires, EndSession,
      BeginSend, FinishSend, BeginVerify, CountMiss, BeginLogin, BeginReset, FinishLogin, Abort

LEMMA UserKept ==
    ASSUME TypeOK, Next
    PROVE  user' \in User
<1>1. user \in User
  BY DEF TypeOK
<1>2. ASSUME NEW kind \in {"PASSWORD", "STAFF"}, Register(kind) PROVE user' \in User
  <2>1. PICK b \in BOOLEAN : b = (kind = "STAFF")
    OBVIOUS
  <2>2. user' = [user EXCEPT !.kind = kind, !.active = b, !.verified = b]
    BY <1>2, <2>1 DEF Register
  <2>3. kind \in Kinds /\ b \in BOOLEAN
    BY <2>1 DEF Kinds
  <2> QED
    BY <1>1, <2>2, <2>3 DEF User
<1>3. ASSUME Suspend PROVE user' \in User
  <2>1. user.era + 1 \in Nat
    BY <1>1 DEF User
  <2>2. user' = [user EXCEPT !.active = FALSE, !.suspended = TRUE, !.era = user.era + 1]
    BY <1>3 DEF Suspend
  <2> QED
    BY <1>1, <2>1, <2>2 DEF User
<1>4. Reactivate => user' \in User
  BY <1>1 DEF Reactivate, User
<1>5. Anonymize => user' \in User
  BY <1>1 DEF Anonymize, User, TypeOK, Code
<1>6. /\ [user EXCEPT !.verified = TRUE, !.active = TRUE] \in User
      /\ [user EXCEPT !.password = @ + 1] \in User
  <2>1. [user EXCEPT !.verified = TRUE, !.active = TRUE] \in User
    BY <1>1 DEF User
  <2>2. user.password + 1 \in Nat
    BY <1>1 DEF User
  <2>3. [user EXCEPT !.password = @ + 1] \in User
    BY <1>1, <2>2 DEF User
  <2> QED
    BY <2>1, <2>3
<1> QED
  BY <1>1, <1>2, <1>3, <1>4, <1>5, <1>6, UserSteps

\* All that a step does to the code.
LEMMA CodeSteps ==
    ASSUME TypeOK, Next
    PROVE  /\ code' \in Code
           /\ \/ code'.row = code.row /\ (code'.exists => code.exists)
              \/ /\ ~code.exists /\ code'.row = code.row + 1
                 /\ \E r \in Requests : FinishSend(r)
<1>1. code \in Code
  BY DEF TypeOK
<1>2. CASE code' = code
  BY <1>1, <1>2
<1>3. ASSUME NEW r \in Requests, FinishSend(r)
      PROVE  /\ code' \in Code
             /\ \/ code'.row = code.row /\ (code'.exists => code.exists)
                \/ /\ ~code.exists /\ code'.row = code.row + 1
  <2>1. CASE code.exists
    <3>1. code' = [row |-> code.row, open |-> TRUE, exists |-> TRUE, attempts |-> 0]
      BY <1>3, <2>1 DEF FinishSend
    <3> QED
      BY <1>1, <2>1, <3>1 DEF Code
  <2>2. CASE ~code.exists
    <3>1. code' = [row |-> code.row + 1, open |-> TRUE, exists |-> TRUE, attempts |-> 0]
      BY <1>3, <2>2 DEF FinishSend
    <3> QED
      BY <1>1, <2>2, <3>1 DEF Code
  <2> QED
    BY <2>1, <2>2
<1>4. ASSUME code' = [code EXCEPT !.open = FALSE]
      PROVE  code' \in Code /\ code'.row = code.row /\ code'.exists = code.exists
  BY <1>1, <1>4 DEF Code
<1>5. ASSUME NEW r \in Requests, CountMiss(r)
      PROVE  code' \in Code /\ code'.row = code.row /\ code'.exists = code.exists
  <2>1. req[r].attempts + 1 \in Nat
    BY DEF TypeOK, Request
  <2>2. PICK b \in BOOLEAN : b = (req[r].attempts + 1 < MaxAttempts)
    <3>1. (req[r].attempts + 1 < MaxAttempts) \in BOOLEAN
      BY <2>1, AccountAssumption
    <3> QED
      BY <3>1
  <2>3. code' = code \/ code' = [code EXCEPT !.attempts = req[r].attempts + 1, !.open = b]
    BY <1>5, <2>2 DEF CountMiss
  <2> QED
    BY <1>1, <2>1, <2>3 DEF Code
<1>6. ASSUME Anonymize
      PROVE  code' \in Code /\ code'.row = code.row /\ ~code'.exists
  BY <1>1, <1>6 DEF Anonymize, Forgotten, Code
<1>7. ASSUME NEW r \in Requests, FinishVerify(r)
      PROVE  code' = code \/ code' = [code EXCEPT !.open = FALSE]
  BY <1>7 DEF FinishVerify
<1>8. CASE AccountStep
  BY <1>2, <1>4, <1>6, <1>8
  DEF AccountStep, Register, CodeExpires, EndSession, RequestReset, TokenExpires,
      Suspend, Reactivate
<1>9. ASSUME NEW r \in Requests, RequestStep(r)
      PROVE  \/ code' = code \/ code' = [code EXCEPT !.open = FALSE]
             \/ FinishSend(r) \/ CountMiss(r)
  BY <1>7, <1>9
  DEF RequestStep, BeginSend, BeginVerify, BeginLogin, FinishLogin, BeginReset,
      FinishReset, Abort
<1> QED
  BY <1>2, <1>3, <1>4, <1>5, <1>8, <1>9 DEF Next

LEMMA TypeKept ==
    ASSUME TypeOK, [Next]_accountVars
    PROVE  TypeOK'
<1>1. CASE Next
  <2>1. token' \in [Tokens -> {"none", "live", "used"}]
    <3>1. CASE token' = token
      BY <3>1 DEF TypeOK
    <3>2. CASE AccountStep
      BY <3>1, <3>2
      DEF AccountStep, TypeOK, Register, CodeExpires, EndSession, RequestReset, TokenExpires,
          Suspend, Reactivate, Anonymize
    <3>3. ASSUME NEW r \in Requests, FinishReset(r)
          PROVE  token' \in [Tokens -> {"none", "live", "used"}]
      BY <3>3 DEF FinishReset, TypeOK
    <3> QED
      BY <1>1, <3>1, <3>2, <3>3
      DEF Next, RequestStep, BeginSend, FinishSend, BeginVerify, FinishVerify, CountMiss,
          BeginLogin, FinishLogin, BeginReset, Abort
  <2> QED
    BY <1>1, <2>1, ReqKept, SessionKept, UserKept, CodeSteps DEF TypeOK
<1>2. CASE UNCHANGED accountVars
  BY <1>2, ReqKept DEF accountVars, TypeOK
<1> QED
  BY <1>1, <1>2

-----------------------------------------------------------------------------
(* Requests *)

\* A request stays, begins or ends; who signs in has read what is there.
LEMMA RequestSteps ==
    ASSUME TypeOK, Next, NEW k \in Requests
    PROVE  \/ req'[k] = req[k]
           \/ /\ req'[k].op # "login"
              /\ req'[k].op = "send" => user.kind # "none" /\ user' = user
           \/ /\ req'[k].op = "login" /\ user.active /\ user' = user /\ session' = session
              /\ req'[k].password = user.password /\ req'[k].era = user.era
<1>1. CASE req' = req
  BY <1>1
<1>2. CASE AccountStep
  BY <1>1, <1>2
  DEF AccountStep, Register, CodeExpires, EndSession, RequestReset, TokenExpires,
      Suspend, Reactivate, Anonymize
<1>3. ASSUME NEW r \in Requests, RequestStep(r), k = r
      PROVE  \/ /\ req'[k].op # "login"
                /\ req'[k].op = "send" => user.kind # "none" /\ user' = user
             \/ /\ req'[k].op = "login" /\ user.active /\ user' = user /\ session' = session
                /\ req'[k].password = user.password /\ req'[k].era = user.era
  <2>1. CASE Answer(r)
    BY <1>3, <2>1 DEF Answer, Keep, TypeOK, Idle
  <2>2. CASE BeginSend(r)
    BY <1>3, <2>2 DEF BeginSend, Keep, TypeOK, Idle
  <2>3. CASE \E op \in {"verify", "miss"} : BeginVerify(r, op)
    BY <1>3, <2>3 DEF BeginVerify, Keep, TypeOK, Idle
  <2>4. CASE BeginLogin(r)
    BY <1>3, <2>4 DEF BeginLogin, MayLogIn, Keep, TypeOK, Idle
  <2>5. CASE \E t \in Tokens : BeginReset(r, t)
    BY <1>3, <2>5 DEF BeginReset, Keep, TypeOK, Idle
  <2> QED
    BY <1>3, <2>1, <2>2, <2>3, <2>4, <2>5, Zenon
    DEF RequestStep, FinishSend, FinishVerify, CountMiss, FinishLogin, FinishReset, Abort
<1>4. ASSUME NEW r \in Requests, RequestStep(r), k # r
      PROVE  req'[k] = req[k]
  <2>1. PICK q : Keep(r, q)
    BY <1>4, Zenon
    DEF RequestStep, Answer, BeginSend, FinishSend, BeginVerify, FinishVerify, CountMiss,
        BeginLogin, FinishLogin, BeginReset, FinishReset, Abort
  <2> QED
    BY <1>4, <2>1 DEF Keep, TypeOK
<1> QED
  BY <1>2, <1>3, <1>4 DEF Next

\* As long as someone signs in, the password and the suspensions stay, and the account
\* stays active.
LEMMA LockedUserStays ==
    ASSUME TypeOK, Next, ~UserFree
    PROVE  /\ user'.password = user.password /\ user'.era = user.era
           /\ user.active /\ user.kind # "none" => user'.active
<1>1. user \in User
  BY DEF TypeOK
<1>2. ~Suspend /\ ~Reactivate /\ ~Anonymize
  BY DEF Suspend, Reactivate, Anonymize
<1>3. \A r \in Requests : ~FinishVerify(r) /\ ~FinishReset(r)
  BY DEF FinishVerify, FinishReset
<1>4. ASSUME NEW kind \in {"PASSWORD", "STAFF"}, Register(kind)
      PROVE  /\ user.kind = "none" /\ user'.password = user.password
             /\ user'.era = user.era
  BY <1>1, <1>4 DEF Register, User
<1> QED
  BY <1>2, <1>3, <1>4, UserSteps

-----------------------------------------------------------------------------
(* Sessions *)

LEMMA SignInIsCurrentKept ==
    ASSUME TypeOK, SignInIsCurrent, Nobody, Next
    PROVE  SignInIsCurrent'
<1>1. ASSUME NEW k \in Requests, req'[k].op = "login"
      PROVE  req'[k].password = user'.password /\ req'[k].era = user'.era /\ user'.active
  <2>1. CASE req'[k] = req[k]
    <3>1. /\ req[k].password = user.password /\ req[k].era = user.era
          /\ user.active /\ user.kind # "none" /\ ~UserFree
      BY <1>1, <2>1 DEF SignInIsCurrent, Nobody, UserFree
    <3> QED
      BY <2>1, <3>1, LockedUserStays
  <2>2. CASE req'[k] # req[k]
    BY <1>1, <2>2, RequestSteps
  <2> QED
    BY <2>1, <2>2
<1> QED
  BY <1>1 DEF SignInIsCurrent

\* A step that keeps a session live neither changes the password nor suspends.
LEMMA LiveIsCurrentKept ==
    ASSUME TypeOK, SignInIsCurrent, LiveIsCurrent, Next
    PROVE  LiveIsCurrent'
<1>0. user \in User /\ user.password \in Nat /\ user.era \in Nat
  BY DEF TypeOK, User
<1>1. \/ user'.password = user.password /\ user'.era = user.era
      \/ session' = AllRevoked
  <2>1. ASSUME NEW kind \in {"PASSWORD", "STAFF"}, Register(kind)
        PROVE  user'.password = user.password /\ user'.era = user.era
    BY <1>0, <2>1 DEF Register, User
  <2>2. ASSUME Reactivate \/ Anonymize
        PROVE  user'.password = user.password /\ user'.era = user.era
    <3>1. CASE Reactivate
      BY <1>0, <3>1 DEF Reactivate, User
    <3>2. CASE Anonymize
      BY <1>0, <3>2 DEF Anonymize, User
    <3> QED
      BY <2>2, <3>1, <3>2
  <2>3. Suspend => session' = AllRevoked
    BY DEF Suspend
  <2>4. ASSUME user' = [user EXCEPT !.verified = TRUE, !.active = TRUE]
        PROVE  user'.password = user.password /\ user'.era = user.era
    BY <1>0, <2>4 DEF User
  <2> QED
    BY <2>1, <2>2, <2>3, <2>4, UserSteps
<1>2. CASE session' = AllRevoked
  BY <1>2, RevokedType DEF LiveIsCurrent
<1>3. CASE session' # AllRevoked
  <2>1. user'.password = user.password /\ user'.era = user.era
    BY <1>1, <1>3
  <2>2. ASSUME NEW t \in Sessions, session'[t].state = "live"
        PROVE  session'[t].password = user.password /\ session'[t].era = user.era
    <3>1. CASE session'[t] = session[t]
      BY <2>2, <3>1 DEF LiveIsCurrent
    <3>2. ASSUME NEW s \in Sessions, EndSession(s)
          PROVE  session'[t] = session[t]
      <4>1. session' = [session EXCEPT ![s] = [session[s] EXCEPT !.state = "revoked"]]
        BY <3>2 DEF EndSession, TypeOK
      <4>2. session[s] \in Session
        BY DEF TypeOK
      <4> QED
        BY <2>2, <4>1, <4>2 DEF TypeOK, Session
    <3>3. ASSUME NEW r \in Requests, NEW s \in Sessions, FinishLogin(r, s)
          PROVE  \/ session'[t] = session[t]
                 \/ session'[t].password = user.password /\ session'[t].era = user.era
      <4>1. req[r].password = user.password /\ req[r].era = user.era
        BY <3>3 DEF FinishLogin, SignInIsCurrent
      <4>2. NewSession(s, user.password, user.era)
        BY <3>3, <4>1 DEF FinishLogin
      <4> QED
        BY <4>2, <1>0, SessionType
    <3>4. ~Suspend
      BY <1>3 DEF Suspend
    <3> QED
      BY <1>3, <2>2, <3>1, <3>2, <3>3, <3>4, SessionSteps
  <2> QED
    BY <2>1, <2>2 DEF LiveIsCurrent
<1> QED
  BY <1>2, <1>3

-----------------------------------------------------------------------------
(* The account *)

\* The account, its anonymization and who may be suspended, step by step.
LEMMA UserMoves ==
    ASSUME TypeOK, Nobody, Out, Next
    PROVE  /\ user'.kind = "none" => /\ user.kind = "none" /\ ~user'.active
           /\ user'.suspended => user'.kind = "STAFF"
           /\ \/ user'.anonymized = user.anonymized /\ user'.forgotten = user.forgotten
              \/ Anonymize
           /\ user'.anonymized => user'.kind \in {"PASSWORD", "LEGACY"}
<1>0. user \in User
  BY DEF TypeOK
<1>1. CASE user' = user
  BY <1>1 DEF Nobody, Out
<1>2. ASSUME NEW kind \in {"PASSWORD", "STAFF"}, Register(kind)
      PROVE  /\ user.kind = "none" /\ user'.kind = kind /\ user'.suspended = user.suspended
             /\ user'.anonymized = user.anonymized /\ user'.forgotten = user.forgotten
  BY <1>0, <1>2 DEF Register, User
<1>3. ASSUME Suspend
      PROVE  /\ user.kind = "STAFF" /\ user'.kind = "STAFF" /\ ~user'.active
             /\ user'.anonymized = user.anonymized /\ user'.forgotten = user.forgotten
  BY <1>0, <1>3 DEF Suspend, User
<1>4. ASSUME Reactivate
      PROVE  /\ user.suspended /\ ~user'.suspended /\ user'.kind = user.kind
             /\ user'.anonymized = user.anonymized /\ user'.forgotten = user.forgotten
  BY <1>0, <1>4 DEF Reactivate, User
<1>5. ASSUME Anonymize
      PROVE  /\ user'.suspended = user.suspended
             /\ user'.kind = user.kind /\ user.kind \in {"PASSWORD", "LEGACY"}
  BY <1>0, <1>5 DEF Anonymize, User
<1>6. ASSUME user' = [user EXCEPT !.verified = TRUE, !.active = TRUE], code.exists
      PROVE  /\ user.kind # "none" /\ user'.kind = user.kind
             /\ user'.suspended = user.suspended
             /\ user'.anonymized = user.anonymized /\ user'.forgotten = user.forgotten
  BY <1>0, <1>6 DEF User, Nobody
<1>7. ASSUME user' = [user EXCEPT !.password = @ + 1]
      PROVE  /\ user'.kind = user.kind /\ user'.active = user.active
             /\ user'.suspended = user.suspended
             /\ user'.anonymized = user.anonymized /\ user'.forgotten = user.forgotten
  BY <1>0, <1>7 DEF User
<1> QED
  BY <1>1, <1>2, <1>3, <1>4, <1>5, <1>6, <1>7, UserSteps DEF Nobody, Out

LEMMA NobodyKept ==
    ASSUME TypeOK, Nobody, Out, Next
    PROVE  Nobody'
<1> SUFFICES ASSUME user'.kind = "none" PROVE Nobody'
  BY DEF Nobody
<1>1. user.kind = "none" /\ ~user'.active
  BY UserMoves
<1>2. ~code.exists /\ \A r \in Requests : req[r].op # "send"
  BY <1>1 DEF Nobody
<1>3. ~code'.exists
  BY <1>2, CodeSteps DEF FinishSend
<1>4. ASSUME NEW k \in Requests PROVE req'[k].op # "send"
  BY <1>1, <1>2, RequestSteps
<1> QED
  BY <1>1, <1>3, <1>4 DEF Nobody

\* The code of an anonymized account is in a row later than those it had before.
LEMMA OutKept ==
    ASSUME TypeOK, Nobody, Out, Next
    PROVE  Out'
<1>0. code.row \in Nat /\ code'.row \in Nat /\ user.forgotten \in Nat
  BY CodeSteps DEF TypeOK, Code, User
<1>1. CASE Anonymize
  <2>1. ~code'.exists /\ code'.row = code.row
    BY <1>1 DEF Anonymize, Forgotten, TypeOK, Code
  <2>2. user'.forgotten = code.row
    BY <1>1 DEF Anonymize, TypeOK, User
  <2> QED
    BY <1>0, <2>1, <2>2, UserMoves DEF Out
<1>2. CASE ~Anonymize
  <2>1. user'.anonymized = user.anonymized /\ user'.forgotten = user.forgotten
    BY <1>2, UserMoves
  <2> QED
    BY <1>0, <2>1, CodeSteps, UserMoves DEF Out
<1> QED
  BY <1>1, <1>2

-----------------------------------------------------------------------------
(* The theorems *)

LEMMA InitIInv == Init => IInv
<1> SUFFICES ASSUME Init PROVE IInv
  OBVIOUS
<1>1. /\ \A r \in Requests : req[r].op = "none"
      /\ \A s \in Sessions : session[s].state = "none"
      /\ ~code.exists
  BY DEF Init, Idle, NoSession
<1>2. /\ ~user.suspended /\ ~user.anonymized
      /\ user.kind = "none" => ~user.active
  <2>1. PICK k \in {"none", "LEGACY"} :
          user = [kind |-> k, active |-> k = "LEGACY", verified |-> FALSE, suspended |-> FALSE,
                  anonymized |-> FALSE, password |-> 1, era |-> 0, forgotten |-> 0]
    BY DEF Init
  <2> QED
    BY <2>1
<1> QED
  BY <1>1, <1>2, InitTypeOK
  DEF IInv, SignInIsCurrent, LiveIsCurrent, Nobody, Out

LEMMA StepIInv == IInv /\ [Next]_accountVars => IInv'
<1> SUFFICES ASSUME IInv, [Next]_accountVars PROVE IInv'
  OBVIOUS
<1>1. TypeOK'
  BY TypeKept DEF IInv
<1>2. CASE Next
  BY <1>1, <1>2, SignInIsCurrentKept, LiveIsCurrentKept, NobodyKept, OutKept DEF IInv
<1>3. CASE UNCHANGED accountVars
  BY <1>1, <1>3
  DEF accountVars, IInv, SignInIsCurrent, LiveIsCurrent, Nobody, Out
<1> QED
  BY <1>2, <1>3

\* The inductive invariant, of which the theorems below are parts or consequences.
THEOREM Invariance == Spec => []IInv
<1> QED
  BY InitIInv, StepIInv, PTL DEF Spec

\* Every variable has its type, and what a request works on is a row.
THEOREM TypeOKHolds == Spec => []TypeOK
<1>1. IInv => TypeOK
  BY DEF IInv
<1> QED
  BY Invariance, <1>1, PTL

\* However sign-ins, resets and suspensions interleave, no session outlives its password
\* or a suspension.
THEOREM WorkingSessionsAreCurrentHolds == Spec => []WorkingSessionsAreCurrent
<1>1. IInv => WorkingSessionsAreCurrent
  BY DEF IInv, LiveIsCurrent, WorkingSessionsAreCurrent, Works
<1> QED
  BY Invariance, <1>1, PTL

\* No sign-in and no code from before an anonymization brings the account back: until a code
\* stored since is used it stays inactive and without a new session.
THEOREM InactiveUntilNewCodeHolds == Spec => InactiveUntilNewCode
<1>1. ASSUME IInv, [Next]_accountVars
      PROVE  [user.anonymized /\ ~user.active =>
                /\ user'.active => code.row > user.forgotten
                /\ \A s \in Sessions :
                     session[s].state = "none" => session'[s].state = "none"]_accountVars
  <2>1. ASSUME Next, user.anonymized, ~user.active
        PROVE  /\ user'.active => code.row > user.forgotten
               /\ \A t \in Sessions : session[t].state = "none" => session'[t].state = "none"
    <3>0. user \in User /\ code.row \in Nat
      BY <1>1 DEF IInv, TypeOK, Code
    <3>1. user.kind \in {"PASSWORD", "LEGACY"} /\ ~user.suspended
      BY <1>1, <2>1 DEF IInv, Out
    <3>2. ~Reactivate /\ ~Suspend /\ \A kind \in {"PASSWORD", "STAFF"} : ~Register(kind)
      BY <2>1, <3>1 DEF Reactivate, Suspend, Register
    <3>3. ASSUME code.exists PROVE code.row > user.forgotten
      BY <1>1, <2>1, <3>0, <3>3 DEF IInv, Out, User
    <3>4. ASSUME user' = [user EXCEPT !.password = @ + 1] PROVE user'.active = user.active
      BY <3>0, <3>4 DEF User
    <3>5. user'.active => code.row > user.forgotten
      BY <1>1, <2>1, <3>2, <3>3, <3>4, UserSteps DEF Anonymize, IInv
    <3>6. \A r \in Requests, s \in Sessions : ~FinishLogin(r, s)
      BY <1>1, <2>1 DEF IInv, SignInIsCurrent, FinishLogin
    <3>7. ASSUME NEW s \in Sessions, EndSession(s)
          PROVE  \A t \in Sessions : session[t].state = "none" => session'[t].state = "none"
      BY <1>1, <3>7 DEF EndSession, IInv, TypeOK, Session
    <3> QED
      BY <1>1, <2>1, <3>2, <3>5, <3>6, <3>7, SessionSteps, RevokedType DEF IInv
  <2> QED
    BY <1>1, <2>1
<1> QED
  BY Invariance, <1>1, PTL DEF Spec, InactiveUntilNewCode

=============================================================================
