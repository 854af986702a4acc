------------------------------- MODULE Session -------------------------------
(***************************************************************************)
(* The session cookie of one browser (pkg/auth): login and callback, the   *)
(* verification and the renewal that every request passes, logout, and the *)
(* answers that set or clear the cookie in whatever order they arrive.     *)
(* The browser and the issuer are external.  A session is the refresh and  *)
(* the ID token its cookie carries, each named by a number; the signature  *)
(* is left out.                                                            *)
(***************************************************************************)
EXTENDS Naturals

CONSTANTS
    Visits,     \* requests that can be under way together
    MaxTokens,  \* bound: grants of the issuer
    MaxVisits,  \* bound: requests in a behaviour
    MaxFaults   \* bound: lost answers, revocations and failures

ASSUME SessionAssumption ==
    /\ MaxTokens \in Nat /\ MaxVisits \in Nat /\ MaxFaults \in Nat

Tokens == 0 .. MaxTokens   \* 0: none
Sessions == [refresh : Tokens, id : Tokens]
NoSession == [refresh |-> 0, id |-> 0]

VARIABLES
    jar,       \* the session cookie of the browser
    visit,     \* request -> its kind, step, cookie and answer
    granted,   \* grants so far
    valid,     \* refresh tokens the issuer still takes
    expired,   \* ID tokens whose time is over
    revoked,   \* refresh tokens the issuer has taken back
    loggedOut, \* a logout was answered, and no login since
    old,       \* requests under way when it was
    haunted,   \* one of those brought a session back
    inOrder,   \* no answer was lost, and all came in the order of the requests
    visits, faults

issuer == <<granted, valid, expired, revoked>>
browser == <<jar, loggedOut, old, haunted, inOrder>>
sessionVars == <<issuer, browser, visit, visits, faults>>

\* sent: the number of the request; cookie: the jar when it left; answer: what
\* its Set-Cookie headers come to, nothing when there is none.
Request(kind, step, sent, cookie, answer) ==
    [kind |-> kind, step |-> step, sent |-> sent, cookie |-> cookie, answer |-> answer]
Idle == Request("plain", "idle", 0, NoSession, {})

SessionInit ==
    /\ jar = NoSession
    /\ visit = [c \in Visits |-> Idle]
    /\ granted = 0
    /\ valid = {} /\ expired = {} /\ revoked = {}
    /\ loggedOut = FALSE /\ old = {} /\ haunted = FALSE /\ inOrder = TRUE
    /\ visits = 0 /\ faults = 0

Fault == faults < MaxFaults /\ faults' = faults + 1
InFlight == {c \in Visits : visit[c].step # "idle"}

\* The request goes on to a step with an answer.
Go(c, from, to, answer) ==
    /\ visit[c].step = from
    /\ visit' = [visit EXCEPT ![c] = Request(@.kind, to, @.sent, @.cookie, answer)]

\* Its handler has run to its end, as the new kind says.
Answer(c, kind, answer) ==
    /\ visit[c].step = "handle"
    /\ visit' = [visit EXCEPT ![c] = Request(kind, "answer", @.sent, @.cookie, answer)]

-----------------------------------------------------------------------------
\* External: the browser sends a plain request, a logout, or, back from the
\* issuer, a callback.
SendVisit(c, kind) ==
    /\ visit[c] = Idle /\ visits < MaxVisits
    /\ visits' = visits + 1
    /\ visit' = [visit EXCEPT ![c] = Request(kind, "verify", visits + 1, jar, {})]
    /\ UNCHANGED <<issuer, browser, faults>>

\* The public paths need no identity.
Exempt(c) == visit[c].kind # "plain"

\* A session cookie identifies, whatever became of its tokens.
Identified(c) == visit[c].cookie # NoSession

Verify(c) ==
    /\ Go(c, "verify", IF Exempt(c) \/ Identified(c) THEN "renew" ELSE "answer", {})
    /\ UNCHANGED <<issuer, browser, visits, faults>>

\* Without a session nothing is renewed.
RenewNothing(c) ==
    /\ visit[c].cookie = NoSession
    /\ Go(c, "renew", "handle", {})
    /\ UNCHANGED <<issuer, browser, visits, faults>>

\* The time of its ID token is over.
Over(s) == s.id \in expired

\* The cookie is issued anew with what it carried.
Reissue(c) ==
    /\ visit[c].cookie # NoSession
    /\ visit[c].cookie.refresh = 0 \/ ~Over(visit[c].cookie)
    /\ Go(c, "renew", "handle", {visit[c].cookie})
    /\ UNCHANGED <<issuer, browser, visits, faults>>

\* The renewed session when the issuer has rotated the refresh token.
Renewed(s, token) == [refresh |-> token, id |-> token]

\* The ID token is over: the issuer grants another, with or without rotating
\* the refresh token.
Refresh(c) ==
    LET s == visit[c].cookie
    IN  /\ s.refresh \in valid /\ Over(s)
        /\ granted < MaxTokens
        /\ granted' = granted + 1
        /\ \/ /\ valid' = (valid \ {s.refresh}) \cup {granted + 1}
              /\ Go(c, "renew", "handle", {Renewed(s, granted + 1)})
           \/ /\ valid' = valid
              /\ Go(c, "renew", "handle", {[s EXCEPT !.id = granted + 1]})
        /\ UNCHANGED <<expired, revoked, browser, visits, faults>>

\* The refresh token is refused, the issuer cannot be reached, or its answer,
\* after a rotation perhaps, is of no use: the cookie is cleared.
RefreshFails(c) ==
    LET s == visit[c].cookie
    IN  /\ s.refresh # 0 /\ Over(s)
        /\ \/ s.refresh \notin valid /\ UNCHANGED <<valid, faults>>
           \/ s.refresh \in valid /\ Fault /\ valid' \in {valid, valid \ {s.refresh}}
        /\ Go(c, "renew", "handle", {NoSession})
        /\ UNCHANGED <<granted, expired, revoked, browser, visits>>

\* Any handler that leaves the cookie alone, be it by refusing the request.
Serve(c) ==
    /\ Go(c, "handle", "answer", visit[c].answer)
    /\ UNCHANGED <<issuer, browser, visits, faults>>

\* Faulty variant: the cookie of the renewal comes after the one that clears.
ClearedFirst(answer) == IF answer = {} THEN {NoSession} ELSE answer

\* Set-Cookie headers are added in order, and the last one counts.
Cleared(answer) == {NoSession}

Logout(c) ==
    /\ visit[c].kind = "logout"
    /\ Answer(c, "loggedOut", Cleared(visit[c].answer))
    /\ UNCHANGED <<issuer, browser, visits, faults>>

\* The code is exchanged for tokens, a refresh token among them or not.
Callback(c) ==
    /\ visit[c].kind = "callback" /\ granted < MaxTokens
    /\ granted' = granted + 1
    /\ \/ valid' = valid \cup {granted + 1}
          /\ Answer(c, "loggedIn", {[refresh |-> granted + 1, id |-> granted + 1]})
       \/ valid' = valid
          /\ Answer(c, "loggedIn", {[refresh |-> 0, id |-> granted + 1]})
    /\ UNCHANGED <<expired, revoked, browser, visits, faults>>

\* External: the answer reaches the browser.
Arrive(c) ==
    LET r == visit[c]
        sets == r.answer # {} /\ r.answer # {jar}
        out == r.kind = "loggedOut"
        in == r.kind = "loggedIn"
    IN  /\ r.step = "answer"
        /\ visit' = [visit EXCEPT ![c] = Idle]
        /\ IF r.answer = {} THEN UNCHANGED jar ELSE jar' \in r.answer
        /\ inOrder' = (inOrder /\ \A d \in InFlight : r.sent <= visit[d].sent)
        /\ loggedOut' = ((loggedOut \/ out) /\ ~in)
        /\ old' = IF out THEN InFlight \ {c} ELSE old \ {c}
        /\ haunted' = (~out /\ (haunted \/ (c \in old /\ sets)))
        /\ UNCHANGED <<issuer, visits, faults>>

\* External: the answer is lost.
LoseAnswer(c) ==
    /\ visit[c].step = "answer" /\ Fault
    /\ visit' = [visit EXCEPT ![c] = Idle]
    /\ inOrder' = FALSE /\ old' = old \ {c}
    /\ UNCHANGED <<issuer, jar, loggedOut, haunted, visits>>

\* External: an ID token runs out; the issuer takes a refresh token back.
Expire(t) ==
    /\ t \in 1 .. granted /\ t \notin expired
    /\ expired' = expired \cup {t}
    /\ UNCHANGED <<granted, valid, revoked, browser, visit, visits, faults>>

Revoke(t) ==
    /\ t \in valid /\ Fault
    /\ valid' = valid \ {t} /\ revoked' = revoked \cup {t}
    /\ UNCHANGED <<granted, expired, browser, visit, visits>>

-----------------------------------------------------------------------------
Renewal(c) == RenewNothing(c) \/ Reissue(c) \/ Refresh(c) \/ RefreshFails(c)

SessionNext ==
    \/ \E c \in Visits :
          \/ \E kind \in {"plain", "logout", "callback"} : SendVisit(c, kind)
          \/ Verify(c) \/ Renewal(c)
          \/ Serve(c) \/ Logout(c) \/ Callback(c)
          \/ Arrive(c) \/ LoseAnswer(c)
    \/ \E t \in Tokens : Expire(t) \/ Revoke(t)

SessionSpec == SessionInit /\ [][SessionNext]_sessionVars

-----------------------------------------------------------------------------
(* Properties *)

\* Type invariant.
SessionTypeOK ==
    /\ jar \in Sessions
    /\ visit \in [Visits -> [kind : {"plain", "logout", "callback", "loggedOut", "loggedIn"},
                           step : {"idle", "verify", "renew", "handle", "answer"},
                           sent : 0 .. MaxVisits, cookie : Sessions, answer : SUBSET Sessions]]
    /\ granted \in Tokens
    /\ {valid, expired, revoked} \subseteq SUBSET Tokens
    /\ {loggedOut, haunted, inOrder} \subseteq BOOLEAN
    /\ old \subseteq Visits
    /\ visits \in 0 .. MaxVisits /\ faults \in 0 .. MaxFaults

\* The session slides on with every request (oidc.go:220): no answer leaves the
\* browser with a refresh token that has been spent for it, unless the answer
\* that replaces it is on its way.  It speaks of answers that arrive in the
\* order of their requests, and of tokens the issuer has not taken back.  Of
\* two requests with one cookie the first may rotate the token; the second,
\* which was let through while the ID token was still good, puts it back.
SessionIsUsable ==
    \/ jar.refresh \in valid \cup revoked \cup {0}
    \/ ~inOrder
    \/ \E c \in InFlight : /\ visit[c].cookie.refresh = jar.refresh
                           /\ visit[c].answer \notin {{}, {jar}}

\* Once a logout has been answered the browser has no session until the next
\* login, even if the logout itself had to renew; unless a request from
\* before the logout is answered after it and sets the cookie again.
LogoutIsFinal == loggedOut => jar = NoSession \/ haunted
=============================================================================
