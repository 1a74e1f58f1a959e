------------------------------- MODULE Access -------------------------------
(***************************************************************************)
(* Signing in to the hub, and what a signed-in browser's requests are      *)
(* answered: internal/identity (the Service and its three stores),         *)
(* identitypg, the provider adapter and the HTTP routes and middleware     *)
(* over them.  One browser with several tabs: the tabs share its two       *)
(* cookies, and every request is taken apart at its calls to the store and *)
(* to the provider, so that requests interleave.  Postgres and the         *)
(* provider are shared and may fail; a crash loses the requests only.      *)
(*                                                                         *)
(* A sign-in's number stands for its four secrets, so a callback carries   *)
(* two of them: the cookie's, and the state the provider echoed.  The      *)
(* static token, whose check reads and writes nothing, is the choice       *)
(* bearer when a request arrives.                                          *)
(***************************************************************************)
EXTENDS Naturals, Sequences, FiniteSets

CONSTANTS
    Tabs,             \* requests that may be in flight together
    Subjects,         \* who may answer the provider's page
    MaxSignIns,       \* bound: sign-ins begun
    SessionLifetime,  \* in ticks of the clock
    SignInLifetime,
    TokenLifetime,    \* of the provider's access token, when it states one
    MaxTime,          \* bound: the clock
    Rotates           \* whether the provider honours a refresh token once only

ASSUME TabsAreFinite == IsFiniteSet(Tabs)
ASSUME LifetimesAreTicks ==
    /\ {MaxSignIns, SessionLifetime, SignInLifetime, TokenLifetime, MaxTime} \subseteq Nat \ {0}
    /\ Rotates \in BOOLEAN

SignIns == 1 .. MaxSignIns
SessionIDs == 1 .. MaxSignIns + 1   \* one to spare, for a sign-in completed twice
Nobody == "nobody"                  \* not answered yet
Refusal == "refusal"                \* the provider's error instead of a code
ASSUME SubjectsArePeople == Subjects \cap {Nobody, Refusal} = {}

Missing == [is |-> FALSE]

VARIABLES
    now,
    pending,      \* identity_sign_ins: when each sign-in expires, or Missing
    sessions,     \* identity_sessions
    browser,      \* the two cookies; 0 is none
    answered,     \* what the provider has to say to each sign-in
    grants,       \* the provider's grants: the refresh token in force, and revocation
    calls,        \* the requests in flight, and the last answer of each tab
    begun,        \* sign-ins begun so far
    minted,       \* history: which sign-in each session came from, and whose it is
    over          \* history: sessions the store has let go of

store == <<pending, sessions>>
provider == <<answered, grants>>
vars == <<now, pending, sessions, browser, answered, grants, calls, begun, minted, over>>

NoExpiry == 0                       \* the provider did not say

NoTokens == [refresh |-> 0, expires |-> NoExpiry]
Idle == [step |-> "idle", told |-> "nothing", purpose |-> "read", signIn |-> 0, state |-> 0,
         session |-> 0, tokens |-> NoTokens, stale |-> FALSE]

(* Expired of a record: the moment named is already too late. *)
Expired(record) == now >= record.expires
TokensExpired(tokens) == tokens.expires # NoExpiry /\ Expired(tokens)

Remove(s) == /\ sessions' = [sessions EXCEPT ![s] = Missing]
             /\ over' = IF sessions[s].is THEN over \cup {s} ELSE over
Kept == UNCHANGED <<sessions, over>>

Step(c, step) == calls' = [calls EXCEPT ![c].step = step]
Told(c, told) == [Idle EXCEPT !.told = told, !.session = calls[c].session, !.stale = calls[c].stale]
Tell(c, told) == calls' = [calls EXCEPT ![c] = Told(c, told)]
At(c, step) == calls[c].step = step

-----------------------------------------------------------------------------
(* The browser and the provider's page. *)

Init ==
    /\ now = 0 /\ begun = 0 /\ over = {} /\ minted = <<>>
    /\ pending = [n \in SignIns |-> Missing]
    /\ sessions = [s \in SessionIDs |-> Missing]
    /\ browser = [signIn |-> 0, session |-> 0]
    /\ answered = [n \in SignIns |-> Nobody]
    /\ grants = [n \in SignIns |-> [current |-> 0, revoked |-> FALSE]]
    /\ calls = [c \in Tabs |-> Idle]

(* GET /auth/sign-in: the row is written before the browser leaves, and a  *)
(* second tab's sign-in replaces the first one's cookie.                   *)
BeginSignIn ==
    /\ begun < MaxSignIns
    /\ begun' = begun + 1
    /\ pending' = [pending EXCEPT ![begun'] = [is |-> TRUE, expires |-> now + SignInLifetime]]
    /\ browser' = [browser EXCEPT !.signIn = begun']
    /\ UNCHANGED <<now, sessions, answered, grants, calls, minted, over>>

AnswerProvider(n) ==
    /\ n <= begun /\ answered[n] = Nobody
    /\ \E answer \in Subjects \cup {Refusal} : answered' = [answered EXCEPT ![n] = answer]
    /\ UNCHANGED <<now, store, browser, grants, calls, begun, minted, over>>

Revoke(n) ==
    /\ answered[n] \in Subjects /\ ~grants[n].revoked
    /\ grants' = [grants EXCEPT ![n].revoked = TRUE]
    /\ UNCHANGED <<now, store, browser, answered, calls, begun, minted, over>>

Tick == /\ now < MaxTime
        /\ now' = now + 1
        /\ UNCHANGED <<store, browser, provider, calls, begun, minted, over>>

-----------------------------------------------------------------------------
(* GET /auth/callback.  A tab may replay it.  Whatever the answer, it      *)
(* takes the sign-in cookie away.                                          *)

Callback(c, n) ==
    /\ At(c, "idle") /\ answered[n] # Nobody /\ browser.signIn # 0
    /\ calls' = [calls EXCEPT ![c] = [Idle EXCEPT !.step = "take", !.signIn = browser.signIn, !.state = n]]
    /\ UNCHANGED <<now, store, browser, provider, begun, minted, over>>

RefuseSignIn(c, told) ==
    /\ Tell(c, told)
    /\ browser' = [browser EXCEPT !.signIn = 0]

(* TakePendingSignIn: one statement reads the row and deletes it. *)
TakeKept(n) == UNCHANGED pending
TakePendingSignIn(n) == pending' = [pending EXCEPT ![n] = Missing]

(* CompleteSignIn up to the exchange: the row is consumed first, then it   *)
(* must be in time and be the one whose state came back, with a code.      *)
CompleteSignIn(c) ==
    LET n == calls[c].signIn
        completable == /\ pending[n].is
                       /\ ~Expired(pending[n])
                       /\ calls[c].state = n
                       /\ answered[n] \in Subjects
    IN /\ At(c, "take")
       /\ \/ /\ TakePendingSignIn(n)
             /\ IF completable THEN Step(c, "exchange") /\ UNCHANGED browser
                               ELSE RefuseSignIn(c, "signInFailed")
          \/ RefuseSignIn(c, "internal") /\ UNCHANGED pending     \* the store failed
       /\ UNCHANGED <<now, sessions, provider, begun, minted, over>>

(* Exchange: a verified identity and the tokens that come with it, with or *)
(* without a refresh token and a stated expiry; or no usable answer.       *)
Exchange(c) ==
    LET n == calls[c].signIn
        first == [grants[n] EXCEPT !.current = 1]
    IN /\ At(c, "exchange")
       /\ \/ /\ \E refresh \in {0, 1}, expires \in {NoExpiry, now + TokenLifetime} :
                   calls' = [calls EXCEPT ![c].step = "create",
                                ![c].tokens = [refresh |-> refresh, expires |-> expires]]
             /\ grants' = [grants EXCEPT ![n] = first]
             /\ UNCHANGED browser
          \/ RefuseSignIn(c, "signInFailed") /\ UNCHANGED grants
       /\ UNCHANGED <<now, store, answered, begun, minted, over>>

(* CreateSession, in one transaction with its principal, and the answer    *)
(* that gives the browser its cookie, which may never arrive.              *)
CreateSession(c) ==
    LET n == calls[c].signIn
        s == Len(minted) + 1
        session == [is |-> TRUE, principal |-> answered[n], grant |-> n,
                    expires |-> now + SessionLifetime, tokens |-> calls[c].tokens]
    IN /\ At(c, "create")
       /\ \/ /\ s \in SessionIDs
             /\ sessions' = [sessions EXCEPT ![s] = session]
             /\ minted' = Append(minted, [from |-> n, principal |-> answered[n]])
             /\ Tell(c, "granted")
             /\ \E arrives \in BOOLEAN :
                   browser' = IF arrives THEN [signIn |-> 0, session |-> s] ELSE browser
          \/ RefuseSignIn(c, "internal") /\ UNCHANGED <<sessions, minted>>
       /\ UNCHANGED <<now, pending, provider, begun, over>>

-----------------------------------------------------------------------------
(* Every other request: the authenticate middleware, and the sign-out      *)
(* behind it.  Which session it presents is settled when it arrives.       *)

Request(c, purpose) ==
    LET s == browser.session
    IN /\ At(c, "idle") /\ s # 0
       /\ \E bearer \in IF purpose = "signOut" THEN BOOLEAN ELSE {FALSE} :
             calls' = [calls EXCEPT ![c] =
                [Idle EXCEPT !.step = IF bearer THEN "signOut" ELSE "read", !.purpose = purpose,
                             !.session = s,
                             !.stale = ~bearer /\ (s \in over \/ Expired(sessions[s]))]]
       /\ UNCHANGED <<now, store, browser, provider, begun, minted, over>>

(* The handler runs, for the principal the session names. *)
Accept(c) ==
    IF calls[c].purpose = "signOut"
    THEN calls' = [calls EXCEPT ![c] = [Told(c, "nothing") EXCEPT !.step = "signOut"]]
    ELSE Tell(c, "principal")

(* Authenticate: an error of the store stops the chain and is no refusal. *)
Authenticate(c) ==
    LET row == sessions[calls[c].session]
    IN /\ At(c, "read")
       /\ \/ ~row.is /\ Tell(c, "unauthenticated")
          \/ row.is /\ Expired(row) /\ Step(c, "end")
          \/ row.is /\ ~Expired(row) /\ ~TokensExpired(row.tokens) /\ Accept(c)
          \/ /\ row.is /\ ~Expired(row) /\ TokensExpired(row.tokens)
             /\ calls' = [calls EXCEPT
                             ![c].tokens = row.tokens, ![c].signIn = row.grant,
                             ![c].step = IF row.tokens.refresh = 0 THEN "end" ELSE "renew"]
          \/ Tell(c, "unavailable")
       /\ UNCHANGED <<now, store, browser, provider, begun, minted, over>>

(* What the provider makes of a refresh token. *)
Honours(n, refresh) == ~grants[n].revoked /\ (Rotates => refresh = grants[n].current)

(* The renewal was not answered: the session is left alone. *)
EndWhenUnreachable(c) == Step(c, "end")
WhenUnreachable(c) == Tell(c, "unavailable")

(* Any answer but tokens counts as the provider's refusal, for which the    *)
(* session is ended: invalid_grant, but also a 503 or a 429, a body that    *)
(* cannot be read or that breaks off.                                       *)
WhenAnsweredNoTokens(c) == Step(c, "refused")

(* A token that is honoured is renewed, unless the provider fails; where    *)
(* tokens rotate it may be used up by a renewal nobody hears of.            *)
Refresh(c) ==
    LET n == calls[c].signIn
        honoured == Honours(n, calls[c].tokens.refresh)
        used == IF Rotates THEN [grants EXCEPT ![n].current = @ + 1] ELSE grants
    IN /\ At(c, "renew")
       /\ \/ /\ honoured /\ grants' = used
             /\ \E expires \in {NoExpiry, now + TokenLifetime} :
                   calls' = [calls EXCEPT ![c].step = "write", ![c].tokens =
                               [refresh |-> IF Rotates THEN used[n].current ELSE @.refresh,
                                expires |-> expires]]
          \/ /\ WhenAnsweredNoTokens(c) \/ WhenUnreachable(c)
             /\ grants' \in {grants} \cup (IF honoured THEN {used} ELSE {})
       /\ UNCHANGED <<now, store, browser, answered, begun, minted, over>>

(* UPDATE ... WHERE token_hash: a row that has gone meanwhile stays gone,  *)
(* and the request ends with an error of the store.                        *)
UpsertSessionTokens(c) ==
    LET s == calls[c].session
    IN /\ sessions' = [sessions EXCEPT ![s] =
             [is |-> TRUE, principal |-> minted[s].principal, grant |-> calls[c].signIn,
              expires |-> now + SessionLifetime, tokens |-> calls[c].tokens]]
       /\ Accept(c)
UpdateSessionTokens(c) ==
    LET s == calls[c].session
    IN IF sessions[s].is
       THEN sessions' = [sessions EXCEPT ![s].tokens = calls[c].tokens] /\ Accept(c)
       ELSE UNCHANGED sessions /\ Tell(c, "unavailable")

WriteTokens(c) ==
    /\ At(c, "write")
    /\ UpdateSessionTokens(c) \/ (Tell(c, "unavailable") /\ UNCHANGED sessions)
    /\ UNCHANGED <<now, pending, browser, provider, begun, minted, over>>

(* EndSession after a refusal is best effort: the answer is the same. *)
EndSession(c) ==
    /\ At(c, "end") \/ At(c, "refused")
    /\ Remove(calls[c].session) \/ Kept
    /\ Tell(c, "unauthenticated")
    /\ UNCHANGED <<now, pending, browser, provider, begun, minted>>

(* DELETE /auth/session, once authenticated. *)
SignOut(c) ==
    /\ At(c, "signOut")
    /\ \/ /\ Remove(calls[c].session)
          /\ Tell(c, "signedOut")
          /\ \E arrives \in BOOLEAN :
                browser' = IF arrives THEN [browser EXCEPT !.session = 0] ELSE browser
       \/ Kept /\ Tell(c, "unavailable") /\ UNCHANGED browser
    /\ UNCHANGED <<now, pending, provider, begun, minted>>

-----------------------------------------------------------------------------
(* PurgeExpired: the sessions first, then the sign-ins unless the store    *)
(* fails in between.                                                       *)
PurgeExpired ==
    LET aged(rows) == {r \in DOMAIN rows : rows[r].is /\ Expired(rows[r])}
        without(rows, gone) == [r \in DOMAIN rows |-> IF r \in gone THEN Missing ELSE rows[r]]
    IN /\ aged(sessions) \cup aged(pending) # {}
       /\ sessions' = without(sessions, aged(sessions))
       /\ over' = over \cup aged(sessions)
       /\ \E both \in BOOLEAN :
             pending' = IF both THEN without(pending, aged(pending)) ELSE pending
       /\ UNCHANGED <<now, browser, provider, calls, begun, minted>>

(* The process restarts: its requests are gone, what they did stays. *)
Crash ==
    /\ \E c \in Tabs : ~At(c, "idle")
    /\ calls' = [c \in Tabs |-> Idle]
    /\ UNCHANGED <<now, store, browser, provider, begun, minted, over>>

Serve(c) ==
    \/ CompleteSignIn(c) \/ Exchange(c) \/ CreateSession(c)
    \/ Authenticate(c) \/ Refresh(c) \/ WriteTokens(c) \/ EndSession(c) \/ SignOut(c)

Next ==
    \/ BeginSignIn \/ Tick \/ PurgeExpired \/ Crash
    \/ \E n \in SignIns : AnswerProvider(n) \/ Revoke(n)
    \/ \E c \in Tabs : \/ Serve(c)
                       \/ \E n \in SignIns : Callback(c, n)
                       \/ \E purpose \in {"read", "signOut"} : Request(c, purpose)

Spec == Init /\ [][Next]_vars

-----------------------------------------------------------------------------
(* A sign-in is completed at most once, and as the person who answered the  *)
(* provider's page for it: two tabs that replay one callback together, or   *)
(* bring back each other's, give the browser one session between them.      *)
OneSessionPerSignIn ==
    /\ \A s, t \in DOMAIN minted : minted[s].from = minted[t].from => s = t
    /\ \A s \in DOMAIN minted : minted[s].principal = answered[minted[s].from]

(* A session the store has let go of never comes back, whatever requests of *)
(* it are still renewing its tokens; no request that arrived after it was   *)
(* over is answered as its principal; and a browser told it is signed out   *)
(* is.                                                                      *)
OverStaysOver ==
    /\ \A s \in over : ~sessions[s].is
    /\ \A c \in Tabs :
          /\ calls[c].stale => calls[c].told # "principal" /\ ~At(c, "signOut")
          /\ calls[c].told = "signedOut" => ~sessions[calls[c].session].is

(* Both: every session is one person's own sign-in, and only while it lasts. *)
SessionsAreGenuine == OneSessionPerSignIn /\ OverStaysOver

(* A session leaves the store for one of four reasons only: its own         *)
(* lifetime is over, its tokens ran out with nothing to renew them, the     *)
(* provider answered the very request that ends it and gave no tokens, or   *)
(* somebody signs out.  A provider that does not answer, a store that       *)
(* fails, a restart, and another tab's requests sign nobody out.            *)
Leaves(c, step) == At(c, step) /\ ~At(c, step)'
WhyOver(s) ==
    \/ Expired(sessions[s])
    \/ TokensExpired(sessions[s].tokens) /\ sessions[s].tokens.refresh = 0
    \/ \E c \in Tabs : calls[c].session = s /\ (Leaves(c, "refused") \/ Leaves(c, "signOut"))
EndsOnlyWhenOver ==
    [][\A s \in SessionIDs : sessions[s].is /\ ~sessions'[s].is => WhyOver(s)]_vars
=============================================================================
