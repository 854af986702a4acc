----------------------------- MODULE SessionProofs -----------------------------
(***************************************************************************)
(* Proofs about the sessions of a browser and the key they are signed      *)
(* with.  SessionSecret, for any number of orchestrators: they all sign    *)
(* with one key.  Session, for any number of overlapping requests, grants, *)
(* lost answers and revocations: a logout ends the session.                *)
(***************************************************************************)
EXTENDS Session, SessionSecret, TLAPS

-----------------------------------------------------------------------------
(* The key *)

Writing(p) == at[p] = "write"

\* The key comes from the one process that created the file: while that has
\* yet to write, or if it never does, there is no key and nobody has one.
OneWriter ==
    /\ \A p, q \in Starters : Writing(p) /\ Writing(q) => p = q
    /\ \A p \in Starters : Writing(p) => exists /\ content = {}
    /\ ~exists => content = {}

OneContent == \A k, l \in content : k = l

SecretInv == SecretTypeOK /\ OneWriter /\ OneContent /\ issued \subseteq content

LEMMA SecretInitInv == SecretInit => SecretInv
BY DEF SecretInit, SecretInv, SecretTypeOK, OneWriter, OneContent, Writing

\* Every step of a process keeps the invariant.
LEMMA SecretNextInv == SecretInv /\ [SecretNext]_secretVars => SecretInv'
<1> SUFFICES ASSUME SecretInv, [SecretNext]_secretVars PROVE SecretInv'
  OBVIOUS
<1> USE DEF SecretInv, SecretTypeOK, OneWriter, OneContent, Writing
<1>1. ASSUME NEW p \in Starters, Launch(p) \/ End(p) \/ StartFails(p)
      PROVE  SecretInv'
  BY <1>1 DEF Launch, End, StartFails, SecretStep
<1>2. ASSUME NEW p \in Starters, ReadSecret(p) PROVE SecretInv'
  BY <1>2 DEF ReadSecret, SecretStep
<1>3. ASSUME NEW p \in Starters, CreateSecret(p) PROVE SecretInv'
  <2>1. CASE exists
    BY <1>3, <2>1 DEF CreateSecret, SecretStep
  <2>2. CASE ~exists
    BY <1>3, <2>2 DEF CreateSecret, SecretStep
  <2> QED
    BY <2>1, <2>2
<1>4. ASSUME NEW p \in Starters, WriteSecret(p) PROVE SecretInv'
  <2>1. /\ at[p] = "write" /\ content = {} /\ exists
        /\ \A q \in Starters \ {p} : at[q] # "write"
    BY <1>4 DEF WriteSecret, SecretStep
  <2>2. /\ at' = [at EXCEPT ![p] = "up"] /\ content' = {p}
        /\ issued' = issued \cup {p} /\ exists' = exists
    BY <1>4 DEF WriteSecret, SecretStep
  <2> QED
    BY <2>1, <2>2
<1>5. CASE UNCHANGED secretVars
  BY <1>5 DEF secretVars
<1> QED
  BY <1>1, <1>2, <1>3, <1>4, <1>5 DEF SecretNext, LoadOrCreateSecret

\* The inductive invariant: one writer, one key in the file, and no other key
\* ever returned by LoadOrCreateSecret.
THEOREM SecretInvariant == SecretSpec => []SecretInv
<1> QED
  BY SecretInitInv, SecretNextInv, PTL DEF SecretSpec

\* Type correctness of the key file and its users, however many they are.
THEOREM SecretTypeCorrect == SecretSpec => []SecretTypeOK
<1>1. SecretInv => SecretTypeOK
  BY DEF SecretInv
<1> QED
  BY <1>1, SecretInvariant, PTL

\* Orchestrators that start together, fail, stop at any step and start again
\* all sign with one key: LoadOrCreateSecret returns no second one.
THEOREM SecretIsOne == SecretSpec => []OneSecret
<1>1. SecretInv => OneSecret
  BY DEF SecretInv, OneContent, OneSecret
<1> QED
  BY <1>1, SecretInvariant, PTL

-----------------------------------------------------------------------------
(* The sessions *)

Kinds == {"plain", "logout", "callback", "loggedOut", "loggedIn"}
Steps == {"idle", "verify", "renew", "handle", "answer"}
VisitType == [kind : Kinds, step : Steps, sent : 0 .. MaxVisits,
              cookie : Sessions, answer : SUBSET Sessions]

\* A request has an answer only once it is renewed, and its kind tells of a
\* login or logout only when it is answered.
Shape ==
    \A c \in Visits :
        /\ visit[c].step \in {"idle", "verify", "renew"} => visit[c].answer = {}
        /\ visit[c].kind \in {"loggedOut", "loggedIn"} => visit[c].step = "answer"
        /\ visit[c].kind = "loggedOut" => visit[c].answer = {NoSession}

\* No grant has the number that stands for none.
Granted == 0 \notin valid

\* Since the logout no request has a session, or brings one but by a login.
SinceLogout ==
    loggedOut /\ ~haunted =>
        /\ jar = NoSession
        /\ \A c \in InFlight \ old :
              /\ visit[c].cookie = NoSession
              /\ visit[c].answer \subseteq {NoSession} \/ visit[c].kind = "loggedIn"

SessionInv == SessionTypeOK /\ Shape /\ Granted /\ SinceLogout

-----------------------------------------------------------------------------
(* Steps of the handler *)

\* A request goes on, with or without another kind, and the browser does not
\* notice.
Proceeds(c, kind, step, answer) ==
    /\ visit' = [visit EXCEPT ![c] = Request(kind, step, visit[c].sent, visit[c].cookie, answer)]
    /\ UNCHANGED browser /\ visits' = visits

LEMMA GoProceeds ==
    ASSUME NEW c \in Visits, NEW from, NEW to, NEW answer, Go(c, from, to, answer)
    PROVE  /\ visit[c].step = from
           /\ visit' = [visit EXCEPT ![c] =
                           Request(visit[c].kind, to, visit[c].sent, visit[c].cookie, answer)]
BY DEF Go

LEMMA AnswerProceeds ==
    ASSUME NEW c \in Visits, NEW kind, NEW answer, Answer(c, kind, answer)
    PROVE  /\ visit[c].step = "handle"
           /\ visit' = [visit EXCEPT ![c] =
                           Request(kind, "answer", visit[c].sent, visit[c].cookie, answer)]
BY DEF Answer

-----------------------------------------------------------------------------
(* Types *)

LEMMA RequestType ==
    ASSUME NEW kind \in Kinds, NEW step \in Steps, NEW sent \in 0 .. MaxVisits,
           NEW cookie \in Sessions, NEW answer \in SUBSET Sessions
    PROVE  Request(kind, step, sent, cookie, answer) \in VisitType
BY DEF Request, VisitType

LEMMA SessionTypes ==
    /\ NoSession \in Sessions
    /\ \A s \in Sessions, t \in Tokens : Renewed(s, t) \in Sessions
    /\ \A s \in Sessions, t \in Tokens : [s EXCEPT !.id = t] \in Sessions
    /\ \A t \in Tokens : [refresh |-> 0, id |-> t] \in Sessions
    /\ \A t \in Tokens : [refresh |-> t, id |-> t] \in Sessions
BY SessionAssumption DEF NoSession, Sessions, Tokens, Renewed

LEMMA SessionInitInv == SessionInit => SessionInv
<1> SUFFICES ASSUME SessionInit PROVE SessionInv
  OBVIOUS
<1>1. \A c \in Visits : visit[c] = Idle
  BY DEF SessionInit
<1>2. SessionTypeOK
  <2>1. Idle \in VisitType
    BY SessionTypes, SessionAssumption, RequestType DEF Idle, Kinds, Steps
  <2>2. visit \in [Visits -> VisitType]
    BY <2>1 DEF SessionInit
  <2> QED
    <3>1. /\ jar \in Sessions /\ granted \in Tokens
          /\ visits \in 0 .. MaxVisits /\ faults \in 0 .. MaxFaults
      BY SessionTypes, SessionAssumption DEF SessionInit, Tokens
    <3> QED
      BY <2>2, <3>1 DEF SessionInit, SessionTypeOK, VisitType, Kinds, Steps
<1>3. Shape /\ Granted
  BY <1>1 DEF SessionInit, Shape, Granted, Idle, Request
<1>4. SinceLogout
  BY DEF SessionInit, SinceLogout
<1> QED
  BY <1>2, <1>3, <1>4 DEF SessionInv

\* A step of a handler gives a request a next state of its type.
LEMMA ProceedsType ==
    ASSUME SessionTypeOK, NEW c \in Visits, NEW kind \in Kinds, NEW step \in Steps,
           NEW answer \in SUBSET Sessions,
           visit' = [visit EXCEPT ![c] =
                        Request(kind, step, visit[c].sent, visit[c].cookie, answer)]
    PROVE  visit' \in [Visits -> VisitType]
<1>1. visit \in [Visits -> VisitType]
  BY DEF SessionTypeOK, VisitType, Kinds, Steps
<1>2. Request(kind, step, visit[c].sent, visit[c].cookie, answer) \in VisitType
  BY <1>1, RequestType DEF VisitType
<1> QED
  BY <1>1, <1>2

LEMMA SessionNextTypes ==
    ASSUME SessionTypeOK, [SessionNext]_sessionVars
    PROVE  SessionTypeOK'
<1> USE SessionAssumption DEF issuer, browser
<1>0. visit \in [Visits -> VisitType]
  BY DEF SessionTypeOK, VisitType, Kinds, Steps
<1>00. \A c \in Visits : /\ visit[c].kind \in Kinds /\ visit[c].step \in Steps
                         /\ visit[c].sent \in 0 .. MaxVisits
                         /\ visit[c].cookie \in Sessions
                         /\ visit[c].answer \in SUBSET Sessions
  BY <1>0 DEF VisitType
<1>1. ASSUME NEW c \in Visits, NEW kind \in {"plain", "logout", "callback"},
             SendVisit(c, kind)
      PROVE  SessionTypeOK'
  <2>1. Request(kind, "verify", visits + 1, jar, {}) \in VisitType
    <3>1. visits + 1 \in 0 .. MaxVisits
      BY <1>1 DEF SendVisit, SessionTypeOK
    <3> QED
      BY <3>1, RequestType DEF SessionTypeOK, Kinds, Steps
  <2>2. visit' \in [Visits -> VisitType]
    BY <1>0, <1>1, <2>1 DEF SendVisit
  <2>3. visits' \in 0 .. MaxVisits
    BY <1>1 DEF SendVisit, SessionTypeOK
  <2> QED
    BY <1>1, <2>2, <2>3 DEF SendVisit, SessionTypeOK, VisitType, Kinds, Steps
<1>2. ASSUME NEW c \in Visits, Verify(c) \/ RenewNothing(c) \/ Reissue(c) \/ Serve(c)
      PROVE  SessionTypeOK'
  <2>1. PICK step \in Steps, answer \in SUBSET Sessions :
           visit' = [visit EXCEPT ![c] =
                        Request(visit[c].kind, step, visit[c].sent, visit[c].cookie, answer)]
    BY <1>2, <1>00, GoProceeds DEF Verify, RenewNothing, Reissue, Serve, Steps
  <2>2. visit' \in [Visits -> VisitType]
    BY <1>00, <2>1, ProceedsType
  <2> QED
    BY <1>2, <2>2 DEF Verify, RenewNothing, Reissue, Serve, SessionTypeOK,
                      VisitType, Kinds, Steps
<1>3. ASSUME NEW c \in Visits, Refresh(c) PROVE SessionTypeOK'
  <2>1. granted + 1 \in Tokens /\ granted' = granted + 1
    BY <1>3 DEF Refresh, SessionTypeOK, Tokens
  <2>2. PICK answer \in SUBSET Sessions :
           visit' = [visit EXCEPT ![c] =
                        Request(visit[c].kind, "handle", visit[c].sent, visit[c].cookie, answer)]
    <3>1. /\ {Renewed(visit[c].cookie, granted + 1)} \in SUBSET Sessions
          /\ {[visit[c].cookie EXCEPT !.id = granted + 1]} \in SUBSET Sessions
      BY <1>00, <2>1, SessionTypes
    <3> QED
      BY <1>3, <3>1, GoProceeds DEF Refresh
  <2>3. visit' \in [Visits -> VisitType]
    BY <1>00, <2>2, ProceedsType DEF Steps
  <2>4. valid' \subseteq Tokens
    BY <1>3, <2>1 DEF Refresh, SessionTypeOK
  <2> QED
    BY <1>3, <2>1, <2>3, <2>4 DEF Refresh, SessionTypeOK, VisitType, Kinds, Steps
<1>4. ASSUME NEW c \in Visits, RefreshFails(c) PROVE SessionTypeOK'
  <2>1. visit' \in [Visits -> VisitType]
    <3>1. visit' = [visit EXCEPT ![c] =
                       Request(visit[c].kind, "handle", visit[c].sent, visit[c].cookie,
                               {NoSession})]
      BY <1>4, GoProceeds DEF RefreshFails
    <3>2. {NoSession} \in SUBSET Sessions /\ "handle" \in Steps
      BY SessionTypes DEF Steps
    <3> QED
      BY <1>00, <3>1, <3>2, ProceedsType
  <2>2. valid' \subseteq Tokens /\ faults' \in 0 .. MaxFaults
    BY <1>4 DEF RefreshFails, Fault, SessionTypeOK
  <2> QED
    BY <1>4, <2>1, <2>2 DEF RefreshFails, SessionTypeOK, VisitType, Kinds, Steps
<1>5. ASSUME NEW c \in Visits, Logout(c) PROVE SessionTypeOK'
  <2>1. visit' \in [Visits -> VisitType]
    <3>1. visit' = [visit EXCEPT ![c] =
                       Request("loggedOut", "answer", visit[c].sent, visit[c].cookie, {NoSession})]
      BY <1>5, AnswerProceeds DEF Logout, Cleared
    <3>2. {NoSession} \in SUBSET Sessions /\ "answer" \in Steps /\ "loggedOut" \in Kinds
      BY SessionTypes DEF Steps, Kinds
    <3> QED
      BY <3>1, <3>2, ProceedsType
  <2> QED
    BY <1>5, <2>1 DEF Logout, SessionTypeOK, VisitType, Kinds, Steps
<1>6. ASSUME NEW c \in Visits, Callback(c) PROVE SessionTypeOK'
  <2>1. granted + 1 \in Tokens /\ granted' = granted + 1
    BY <1>6 DEF Callback, SessionTypeOK, Tokens
  <2>2. PICK answer \in SUBSET Sessions :
           visit' = [visit EXCEPT ![c] =
                        Request("loggedIn", "answer", visit[c].sent, visit[c].cookie, answer)]
    <3>1. /\ {[refresh |-> granted + 1, id |-> granted + 1]} \in SUBSET Sessions
          /\ {[refresh |-> 0, id |-> granted + 1]} \in SUBSET Sessions
      BY <2>1, SessionTypes
    <3> QED
      BY <1>6, <3>1, AnswerProceeds DEF Callback
  <2>3. visit' \in [Visits -> VisitType]
    BY <1>00, <2>2, ProceedsType DEF Steps, Kinds
  <2>4. valid' \subseteq Tokens
    BY <1>6, <2>1 DEF Callback, SessionTypeOK
  <2> QED
    BY <1>6, <2>1, <2>3, <2>4 DEF Callback, SessionTypeOK, VisitType, Kinds, Steps
<1>7. ASSUME NEW c \in Visits, Arrive(c) \/ LoseAnswer(c) PROVE SessionTypeOK'
  <2>1. Idle \in VisitType
    BY SessionTypes, RequestType DEF Idle, Kinds, Steps
  <2>2. visit' \in [Visits -> VisitType]
    BY <1>0, <1>7, <2>1 DEF Arrive, LoseAnswer
  <2>3. jar' \in Sessions
    BY <1>00, <1>7 DEF Arrive, LoseAnswer, SessionTypeOK
  <2>4. old' \subseteq Visits
    BY <1>7 DEF Arrive, LoseAnswer, SessionTypeOK, InFlight
  <2>5. /\ loggedOut' \in BOOLEAN /\ haunted' \in BOOLEAN /\ inOrder' \in BOOLEAN
    BY <1>7 DEF Arrive, LoseAnswer, SessionTypeOK
  <2>6. faults' \in 0 .. MaxFaults /\ visits' = visits /\ UNCHANGED issuer
    BY <1>7 DEF Arrive, LoseAnswer, SessionTypeOK, Fault
  <2> QED
    BY <2>2, <2>3, <2>4, <2>5, <2>6 DEF SessionTypeOK, VisitType, Kinds, Steps
<1>8. ASSUME NEW t \in Tokens, Expire(t) \/ Revoke(t) PROVE SessionTypeOK'
  BY <1>8 DEF Expire, Revoke, Fault, SessionTypeOK
<1>9. CASE UNCHANGED sessionVars
  BY <1>9 DEF sessionVars, SessionTypeOK
<1> QED
  BY <1>1, <1>2, <1>3, <1>4, <1>5, <1>6, <1>7, <1>8, <1>9 DEF SessionNext, Renewal

-----------------------------------------------------------------------------
(* What a step of a handler comes to *)

Handler(c) == Verify(c) \/ Renewal(c) \/ Serve(c) \/ Logout(c) \/ Callback(c)

\* The request and its answer afterwards.
Progress(c, kind, step, answer) ==
    /\ Proceeds(c, kind, step, answer)
    /\ visit[c].step # "idle"
    /\ step \in {"renew", "handle", "answer"}
    /\ step = "renew" => answer = {}
    /\ kind \in {"loggedOut", "loggedIn"} => step = "answer"
    /\ kind = "loggedOut" => answer = {NoSession}
    /\ visit[c].cookie = NoSession =>
          answer = visit[c].answer \/ answer = {NoSession} \/ kind = "loggedIn"

LEMMA HandlerProgress ==
    ASSUME SessionTypeOK, Shape, Granted, NEW c \in Visits, Handler(c)
    PROVE  \E kind \in Kinds, step \in Steps, answer \in SUBSET Sessions :
               Progress(c, kind, step, answer)
<1> DEFINE k == visit[c].kind
           n == visit[c].sent
           s == visit[c].cookie
           a == visit[c].answer
<1>0. k \in Kinds /\ s \in Sessions /\ a \in SUBSET Sessions
  BY DEF SessionTypeOK, Kinds
<1>1. /\ visit[c].step \in {"verify", "renew"} => a = {}
      /\ visit[c].step # "answer" => k \notin {"loggedOut", "loggedIn"}
      /\ NoSession.refresh = 0 /\ 0 \notin valid
  BY DEF Shape, Granted, NoSession
<1>2. UNCHANGED browser /\ visits' = visits
  BY DEF Handler, Verify, Renewal, RenewNothing, Reissue, Refresh, RefreshFails,
         Serve, Logout, Callback
<1> USE DEF Progress, Proceeds, Steps
<1> HIDE DEF k, n, s, a
<1>3. CASE Verify(c) \/ RenewNothing(c)
  <2>1. PICK step \in {"renew", "handle", "answer"} :
           /\ visit' = [visit EXCEPT ![c] = Request(k, step, n, s, {})]
           /\ visit[c].step \in {"verify", "renew"}
    BY <1>3, GoProceeds DEF Verify, RenewNothing, k, n, s
  <2> QED
    BY <1>0, <1>1, <1>2, <2>1 DEF k, n, s, a
<1>4. CASE Reissue(c)
  <2>1. /\ visit' = [visit EXCEPT ![c] = Request(k, "handle", n, s, {s})]
        /\ visit[c].step = "renew" /\ s # NoSession
    BY <1>4, GoProceeds DEF Reissue, k, n, s
  <2>2. {s} \in SUBSET Sessions
    BY <1>0
  <2>3. Progress(c, k, "handle", {s})
    BY <1>1, <1>2, <2>1 DEF k, n, s
  <2> QED
    BY <1>0, <2>2, <2>3
<1>5. CASE Refresh(c)
  <2>1. granted + 1 \in Tokens /\ s # NoSession
    <3>1. granted \in 0 .. MaxTokens /\ granted < MaxTokens
      BY <1>5 DEF Refresh, SessionTypeOK, Tokens
    <3>2. granted + 1 \in Tokens
      BY <3>1, SessionAssumption DEF Tokens
    <3> QED
      BY <1>1, <1>5, <3>2 DEF Refresh, s
  <2>2. PICK t \in Sessions : Go(c, "renew", "handle", {t})
    <3>1. Renewed(s, granted + 1) \in Sessions /\ [s EXCEPT !.id = granted + 1] \in Sessions
      BY <1>0, <2>1, SessionTypes
    <3> QED
      BY <1>5, <3>1 DEF Refresh, s
  <2>3. /\ visit' = [visit EXCEPT ![c] = Request(k, "handle", n, s, {t})]
        /\ visit[c].step = "renew"
    BY <2>2, GoProceeds DEF k, n, s
  <2>4. Progress(c, k, "handle", {t})
    BY <1>1, <1>2, <2>1, <2>3 DEF k, n, s
  <2> QED
    BY <1>0, <2>4
<1>6. CASE RefreshFails(c)
  <2>1. /\ visit' = [visit EXCEPT ![c] = Request(k, "handle", n, s, {NoSession})]
        /\ visit[c].step = "renew"
    BY <1>6, GoProceeds DEF RefreshFails, k, n, s
  <2>2. Progress(c, k, "handle", {NoSession})
    BY <1>1, <1>2, <2>1 DEF k, n, s
  <2> QED
    BY <1>0, <2>2, SessionTypes
<1>7. CASE Serve(c)
  <2>1. /\ visit' = [visit EXCEPT ![c] = Request(k, "answer", n, s, a)]
        /\ visit[c].step = "handle"
    BY <1>7, GoProceeds DEF Serve, k, n, s, a
  <2>2. Progress(c, k, "answer", a)
    BY <1>1, <1>2, <2>1 DEF k, n, s, a
  <2> QED
    BY <1>0, <2>2
<1>8. CASE Logout(c)
  <2>1. /\ visit' = [visit EXCEPT ![c] = Request("loggedOut", "answer", n, s, {NoSession})]
        /\ visit[c].step = "handle"
    BY <1>8, AnswerProceeds DEF Logout, Cleared, n, s
  <2>2. Progress(c, "loggedOut", "answer", {NoSession})
    BY <1>2, <2>1 DEF n, s
  <2> QED
    BY <2>2, SessionTypes DEF Kinds
<1>9. CASE Callback(c)
  <2>1. granted + 1 \in Tokens
    <3>1. granted \in 0 .. MaxTokens /\ granted < MaxTokens
      BY <1>9 DEF Callback, SessionTypeOK, Tokens
    <3> QED
      BY <3>1, SessionAssumption DEF Tokens
  <2>2. PICK t \in Sessions : Answer(c, "loggedIn", {t})
    BY <1>9, <2>1, SessionTypes DEF Callback
  <2>3. /\ visit' = [visit EXCEPT ![c] = Request("loggedIn", "answer", n, s, {t})]
        /\ visit[c].step = "handle"
    BY <2>2, AnswerProceeds DEF n, s
  <2>4. Progress(c, "loggedIn", "answer", {t})
    BY <1>2, <2>3 DEF n, s
  <2> QED
    BY <2>4 DEF Kinds
<1> QED
  BY <1>3, <1>4, <1>5, <1>6, <1>7, <1>8, <1>9 DEF Handler, Renewal

\* A request as it was, as it has become, and the others.
LEMMA ProgressFacts ==
    ASSUME SessionTypeOK, NEW c \in Visits, NEW kind, NEW step, NEW answer,
           Progress(c, kind, step, answer)
    PROVE  /\ visit'[c].kind = kind /\ visit'[c].step = step
           /\ visit'[c].cookie = visit[c].cookie /\ visit'[c].answer = answer
           /\ \A d \in Visits : d # c => visit'[d] = visit[d]
           /\ UNCHANGED <<jar, loggedOut, old, haunted, inOrder>>
<1>1. visit' = [visit EXCEPT ![c] = Request(kind, step, visit[c].sent, visit[c].cookie, answer)]
  BY DEF Progress, Proceeds
<1>2. visit'[c] = Request(kind, step, visit[c].sent, visit[c].cookie, answer)
  BY <1>1 DEF SessionTypeOK
<1>3. \A d \in Visits : d # c => visit'[d] = visit[d]
  BY <1>1 DEF SessionTypeOK
<1> QED
  BY <1>2, <1>3 DEF Progress, Proceeds, browser, Request

\* The steps outside the handlers.
LEMMA SendFacts ==
    ASSUME SessionTypeOK, NEW c \in Visits, NEW kind, SendVisit(c, kind)
    PROVE  /\ visit'[c].kind = kind /\ visit'[c].step = "verify"
           /\ visit'[c].cookie = jar /\ visit'[c].answer = {}
           /\ visit[c].step = "idle" /\ visit[c].answer = {}
           /\ \A d \in Visits : d # c => visit'[d] = visit[d]
           /\ UNCHANGED <<issuer, browser>>
BY DEF SendVisit, SessionTypeOK, Request, Idle

LEMMA ReturnFacts ==
    ASSUME SessionTypeOK, NEW c \in Visits, Arrive(c) \/ LoseAnswer(c)
    PROVE  /\ visit'[c].kind = "plain" /\ visit'[c].step = "idle"
           /\ visit'[c].cookie = NoSession /\ visit'[c].answer = {}
           /\ visit[c].step = "answer"
           /\ \A d \in Visits : d # c => visit'[d] = visit[d]
           /\ UNCHANGED issuer
           /\ jar' = jar \/ (Arrive(c) /\ jar' \in visit[c].answer)
BY DEF Arrive, LoseAnswer, SessionTypeOK, Request, Idle, issuer

LEMMA SessionCases ==
    ASSUME [SessionNext]_sessionVars
    PROVE  \/ \E c \in Visits : Handler(c)
           \/ \E c \in Visits, kind \in {"plain", "logout", "callback"} : SendVisit(c, kind)
           \/ \E c \in Visits : Arrive(c) \/ LoseAnswer(c)
           \/ \E t \in Tokens : Expire(t) \/ Revoke(t)
           \/ UNCHANGED sessionVars
BY DEF SessionNext, Handler

-----------------------------------------------------------------------------
(* Shape and grants *)

LEMMA SessionNextShape ==
    ASSUME SessionTypeOK, Shape, Granted, [SessionNext]_sessionVars
    PROVE  Shape'
<1>1. ASSUME NEW c \in Visits, Handler(c) PROVE Shape'
  <2>1. PICK kind \in Kinds, step \in Steps, answer \in SUBSET Sessions :
           Progress(c, kind, step, answer)
    BY <1>1, HandlerProgress
  <2>2. /\ step \in {"idle", "verify", "renew"} => answer = {}
        /\ kind \in {"loggedOut", "loggedIn"} => step = "answer"
        /\ kind = "loggedOut" => answer = {NoSession}
    BY <2>1 DEF Progress
  <2> QED
    BY <2>1, <2>2, ProgressFacts DEF Shape
<1>2. ASSUME NEW c \in Visits, NEW kind \in {"plain", "logout", "callback"}, SendVisit(c, kind)
      PROVE  Shape'
  BY <1>2, SendFacts DEF Shape
<1>3. ASSUME NEW c \in Visits, Arrive(c) \/ LoseAnswer(c) PROVE Shape'
  BY <1>3, ReturnFacts DEF Shape
<1>4. ASSUME NEW t \in Tokens, Expire(t) \/ Revoke(t) PROVE Shape'
  BY <1>4 DEF Expire, Revoke, Shape
<1>5. CASE UNCHANGED sessionVars
  BY <1>5 DEF sessionVars, Shape
<1> QED
  BY <1>1, <1>2, <1>3, <1>4, <1>5, SessionCases

LEMMA SessionNextGranted ==
    ASSUME SessionTypeOK, Granted, [SessionNext]_sessionVars
    PROVE  Granted'
<1>1. granted \in Nat
  BY SessionAssumption DEF SessionTypeOK, Tokens
<1>2. valid' \subseteq valid \cup {granted + 1}
  BY DEF SessionNext, SendVisit, Verify, Renewal, RenewNothing, Reissue, Refresh, RefreshFails,
         Serve, Logout, Callback, Arrive, LoseAnswer, Expire, Revoke, sessionVars, issuer
<1> QED
  BY <1>1, <1>2 DEF Granted

-----------------------------------------------------------------------------
(* After a logout *)

LEMMA SessionNextSinceLogout ==
    ASSUME SessionTypeOK, Shape, Granted, SinceLogout, [SessionNext]_sessionVars
    PROVE  SinceLogout'
<1> SUFFICES ASSUME loggedOut', ~haunted' PROVE
        /\ jar' = NoSession
        /\ \A c \in Visits : visit'[c].step # "idle" /\ c \notin old' =>
              /\ visit'[c].cookie = NoSession
              /\ visit'[c].answer \subseteq {NoSession} \/ visit'[c].kind = "loggedIn"
  BY DEF SinceLogout, InFlight
<1>0. loggedOut /\ ~haunted =>
        /\ jar = NoSession
        /\ \A c \in Visits : visit[c].step # "idle" /\ c \notin old =>
              /\ visit[c].cookie = NoSession
              /\ visit[c].answer \subseteq {NoSession} \/ visit[c].kind = "loggedIn"
  BY DEF SinceLogout, InFlight
<1>1. ASSUME NEW c \in Visits, Handler(c)
      PROVE  /\ jar' = NoSession
             /\ \A d \in Visits : visit'[d].step # "idle" /\ d \notin old' =>
                   /\ visit'[d].cookie = NoSession
                   /\ visit'[d].answer \subseteq {NoSession} \/ visit'[d].kind = "loggedIn"
  <2>1. PICK kind \in Kinds, step \in Steps, answer \in SUBSET Sessions :
           Progress(c, kind, step, answer)
    BY <1>1, HandlerProgress
  <2>2. /\ UNCHANGED <<jar, loggedOut, haunted, old>>
        /\ visit'[c].kind = kind /\ visit'[c].cookie = visit[c].cookie
        /\ visit'[c].answer = answer /\ visit[c].step # "idle"
        /\ \A d \in Visits : d # c => visit'[d] = visit[d]
    BY <2>1, ProgressFacts DEF Progress
  <2>3. visit[c].cookie = NoSession =>
           answer = visit[c].answer \/ answer = {NoSession} \/ kind = "loggedIn"
    BY <2>1 DEF Progress
  <2>4. visit[c].kind # "loggedIn" \/ visit[c].step = "answer"
    BY DEF Shape
  <2>5. visit[c].step # "answer"
    BY <1>1 DEF Handler, Verify, Renewal, RenewNothing, Reissue, Refresh, RefreshFails,
                Serve, Logout, Callback, Go, Answer
  <2> QED
    BY <1>0, <2>2, <2>3, <2>4, <2>5
<1>2. ASSUME NEW c \in Visits, NEW kind \in {"plain", "logout", "callback"}, SendVisit(c, kind)
      PROVE  /\ jar' = NoSession
             /\ \A d \in Visits : visit'[d].step # "idle" /\ d \notin old' =>
                   /\ visit'[d].cookie = NoSession
                   /\ visit'[d].answer \subseteq {NoSession} \/ visit'[d].kind = "loggedIn"
  BY <1>0, <1>2, SendFacts DEF issuer, browser
<1>3. ASSUME NEW c \in Visits, Arrive(c)
      PROVE  /\ jar' = NoSession
             /\ \A d \in Visits : visit'[d].step # "idle" /\ d \notin old' =>
                   /\ visit'[d].cookie = NoSession
                   /\ visit'[d].answer \subseteq {NoSession} \/ visit'[d].kind = "loggedIn"
  <2>1. /\ visit'[c].step = "idle" /\ visit[c].step = "answer"
        /\ \A d \in Visits : d # c => visit'[d] = visit[d]
    BY <1>3, ReturnFacts
  <2>2. /\ IF visit[c].answer = {} THEN jar' = jar ELSE jar' \in visit[c].answer
        /\ loggedOut' = ((loggedOut \/ visit[c].kind = "loggedOut") /\ visit[c].kind # "loggedIn")
        /\ old' = IF visit[c].kind = "loggedOut" THEN InFlight \ {c} ELSE old \ {c}
        /\ haunted' = (visit[c].kind # "loggedOut" /\
                         (haunted \/ (c \in old /\ visit[c].answer \notin {{}, {jar}})))
    BY <1>3 DEF Arrive
  <2>3. CASE visit[c].kind = "loggedOut"
    <3>1. visit[c].answer = {NoSession}
      BY <2>3 DEF Shape
    <3> QED
      BY <2>1, <2>2, <2>3, <3>1 DEF InFlight
  <2>4. CASE visit[c].kind # "loggedOut"
    <3>1. /\ loggedOut /\ ~haunted /\ visit[c].kind # "loggedIn"
          /\ c \in old => visit[c].answer \in {{}, {jar}}
      BY <2>2, <2>4
    <3>2. jar' = NoSession
      BY <1>0, <2>1, <2>2, <3>1
    <3> QED
      BY <1>0, <2>1, <2>2, <2>4, <3>1, <3>2
  <2> QED
    BY <2>3, <2>4
<1>4. ASSUME NEW c \in Visits, LoseAnswer(c)
      PROVE  /\ jar' = NoSession
             /\ \A d \in Visits : visit'[d].step # "idle" /\ d \notin old' =>
                   /\ visit'[d].cookie = NoSession
                   /\ visit'[d].answer \subseteq {NoSession} \/ visit'[d].kind = "loggedIn"
  <2>1. /\ visit'[c].step = "idle"
        /\ \A d \in Visits : d # c => visit'[d] = visit[d]
    BY <1>4, ReturnFacts
  <2>2. old' = old \ {c} /\ UNCHANGED <<jar, loggedOut, haunted>>
    BY <1>4 DEF LoseAnswer
  <2> QED
    BY <1>0, <2>1, <2>2
<1>5. ASSUME (\E t \in Tokens : Expire(t) \/ Revoke(t)) \/ UNCHANGED sessionVars
      PROVE  /\ jar' = NoSession
             /\ \A d \in Visits : visit'[d].step # "idle" /\ d \notin old' =>
                   /\ visit'[d].cookie = NoSession
                   /\ visit'[d].answer \subseteq {NoSession} \/ visit'[d].kind = "loggedIn"
  <2>1. UNCHANGED <<browser, visit>>
    BY <1>5 DEF Expire, Revoke, sessionVars
  <2> QED
    BY <1>0, <2>1 DEF browser
<1> QED
  BY <1>1, <1>2, <1>3, <1>4, <1>5, SessionCases

-----------------------------------------------------------------------------
\* The inductive invariant: types, the answers' shape, the grants' numbers, and
\* what a logout has left.
THEOREM SessionInvariant == SessionSpec => []SessionInv
<1>1. SessionInv /\ [SessionNext]_sessionVars => SessionInv'
  BY SessionNextTypes, SessionNextShape, SessionNextGranted, SessionNextSinceLogout
     DEF SessionInv
<1> QED
  BY <1>1, SessionInitInv, PTL DEF SessionSpec

\* Type correctness of browser, requests and issuer for any bounds.
THEOREM SessionTypeCorrect == SessionSpec => []SessionTypeOK
<1>1. SessionInv => SessionTypeOK
  BY DEF SessionInv
<1> QED
  BY <1>1, SessionInvariant, PTL

\* A logout that was answered leaves no session, although it may have been
\* renewed on the way and other requests run beside it.
THEOREM SessionLogoutIsFinal == SessionSpec => []LogoutIsFinal
<1>1. SessionInv => LogoutIsFinal
  BY DEF SessionInv, SinceLogout, LogoutIsFinal
<1> QED
  BY <1>1, SessionInvariant, PTL
=============================================================================
