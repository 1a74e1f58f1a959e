---------------------------- MODULE AccessProofs ----------------------------
(***************************************************************************)
(* For any number of tabs, people and sign-ins, and whatever the lifetimes:*)
(* every session is one person's own sign-in, and is answered as theirs    *)
(* only while it lasts.                                                    *)
(***************************************************************************)
EXTENDS Access, TLAPS

Steps == {"idle", "take", "exchange", "create", "read", "renew", "write", "end", "refused",
          "signOut"}
Answers == {"nothing", "signInFailed", "internal", "granted", "unauthenticated", "principal",
            "unavailable", "signedOut"}
TokenSets == [refresh : Nat, expires : Nat]
Calls == [step : Steps, told : Answers, purpose : {"read", "signOut"}, signIn : Nat, state : Nat,
          session : Nat, tokens : TokenSets, stale : BOOLEAN]
PendingRows == [is : {TRUE}, expires : Nat] \cup {Missing}
SessionRows == [is : {TRUE}, principal : Subjects, grant : SignIns, expires : Nat,
                tokens : TokenSets] \cup {Missing}
Minted == [from : SignIns, principal : Subjects]

\* What every variable ranges over.
Types ==
  /\ now \in Nat /\ begun \in 0..MaxSignIns
  /\ pending \in [SignIns -> PendingRows] /\ sessions \in [SessionIDs -> SessionRows]
  /\ browser \in [signIn : 0..MaxSignIns, session : Nat]
  /\ answered \in [SignIns -> Subjects \cup {Nobody, Refusal}]
  /\ grants \in [SignIns -> [current : Nat, revoked : BOOLEAN]]
  /\ calls \in [Tabs -> Calls]
  /\ minted \in Seq(Minted) /\ over \subseteq SessionIDs

Completing(c) == calls[c].step \in {"exchange", "create"}

\* A sign-in is in one place at a time: waiting for its callback, in the hands
\* of one request, or a session.
OnePlace ==
  /\ browser.signIn <= begun
  /\ \A n \in SignIns : pending[n].is => n <= begun
  /\ \A s \in DOMAIN minted : minted[s].from <= begun /\ ~pending[minted[s].from].is
  /\ OneSessionPerSignIn

\* A session the browser knows of is in the store, or is over for good.
InStoreOrOver ==
  /\ DOMAIN minted \subseteq SessionIDs /\ over \subseteq DOMAIN minted
  /\ \A s \in SessionIDs : sessions[s].is => s \in DOMAIN minted /\ s \notin over
  /\ \A s \in DOMAIN minted : sessions[s].is \/ s \in over
  /\ browser.session # 0 => browser.session \in DOMAIN minted

\* A request that comes too late finds nothing, or a session that is expired.
TooLate(s) == s \in over \/ (sessions[s].is /\ Expired(sessions[s]))

\* What holds of a request at each of its steps.
Sound(c) ==
  /\ calls[c].step = "take" => calls[c].signIn \in SignIns /\ calls[c].signIn <= begun
  /\ Completing(c) =>
       /\ calls[c].signIn \in SignIns /\ calls[c].signIn <= begun
       /\ ~pending[calls[c].signIn].is
       /\ answered[calls[c].signIn] \in Subjects
       /\ \A d \in Tabs : Completing(d) /\ calls[d].signIn = calls[c].signIn => d = c
       /\ \A s \in DOMAIN minted : minted[s].from # calls[c].signIn
  /\ calls[c].step \in {"read", "renew", "write", "end", "refused", "signOut"} =>
       calls[c].session \in DOMAIN minted
  /\ calls[c].step \in {"renew", "write"} => calls[c].signIn \in SignIns
  /\ calls[c].told = "signedOut" => calls[c].session \in over
  /\ calls[c].stale =>
       /\ calls[c].session \in DOMAIN minted /\ TooLate(calls[c].session)
       /\ calls[c].told # "principal" /\ calls[c].step \in {"idle", "read", "end"}

CallsAreSound == \A c \in Tabs : Sound(c)

AInv == Types /\ OnePlace /\ InStoreOrOver /\ CallsAreSound

-----------------------------------------------------------------------------
LEMMA InitIsGood == Init => AInv
<1>. SUFFICES ASSUME Init PROVE AInv
  OBVIOUS
<1>. USE DEF Init
<1>1. Types
  BY LifetimesAreTicks DEF Types, Calls, Idle, NoTokens, NoExpiry, TokenSets, Steps, Answers,
                           PendingRows, SessionRows, Missing, SignIns, Minted
<1>2. OnePlace
  BY DEF OnePlace, OneSessionPerSignIn, Missing
<1>3. InStoreOrOver
  BY DEF InStoreOrOver, Missing
<1>4. CallsAreSound
  BY DEF CallsAreSound, Sound, Completing, Idle
<1>. QED BY <1>1, <1>2, <1>3, <1>4 DEF AInv

LEMMA Bounds ==
  /\ MaxSignIns \in Nat /\ SessionLifetime \in Nat /\ SignInLifetime \in Nat /\ TokenLifetime \in Nat
  /\ \A n : n \in SignIns <=> n \in Nat /\ 1 <= n /\ n <= MaxSignIns
  /\ Idle \in Calls /\ Idle.step = "idle" /\ Idle.told = "nothing" /\ ~Idle.stale
<1>1. MaxSignIns \in Nat /\ SessionLifetime \in Nat /\ SignInLifetime \in Nat /\ TokenLifetime \in Nat
  BY LifetimesAreTicks
<1>2. Idle \in Calls
  BY DEF Idle, Calls, NoTokens, NoExpiry, TokenSets, Steps, Answers
<1>. QED BY <1>1, <1>2 DEF SignIns, Idle

\* What a tab's record may become.
LEMMA RecordsAreCalls ==
  ASSUME Types, NEW c \in Tabs
  PROVE  /\ calls[c] \in Calls
         /\ \A told \in Answers : Told(c, told) \in Calls /\ Told(c, told).step = "idle"
                /\ Told(c, told).told = told /\ Told(c, told).session = calls[c].session
                /\ Told(c, told).stale = calls[c].stale
         /\ \A step \in Steps : [calls[c] EXCEPT !.step = step] \in Calls
<1>1. calls[c] \in Calls
  BY DEF Types
<1>2. ASSUME NEW told \in Answers
      PROVE  Told(c, told) \in Calls /\ Told(c, told).step = "idle"
                /\ Told(c, told).told = told /\ Told(c, told).session = calls[c].session
                /\ Told(c, told).stale = calls[c].stale
  BY <1>1, Bounds DEF Told, Calls
<1>3. ASSUME NEW step \in Steps PROVE [calls[c] EXCEPT !.step = step] \in Calls
  BY <1>1 DEF Calls
<1>. QED BY <1>1, <1>2, <1>3

\* Where a session came from.
LEMMA MintedRows ==
  ASSUME Types, NEW s \in DOMAIN minted
  PROVE  minted[s].from \in SignIns /\ minted[s].principal \in Subjects
<1>1. minted[s] \in Minted
  BY DEF Types
<1>. QED BY <1>1 DEF Minted

-----------------------------------------------------------------------------
(* What most steps leave true: the store only loses sign-ins and sessions, *)
(* and a session it keeps keeps its lifetime.                              *)

Onward ==
  /\ UNCHANGED <<now, begun, minted, answered>>
  /\ browser'.signIn \in {0, browser.signIn} /\ browser'.session \in {0, browser.session}
  /\ \A n \in SignIns : pending'[n].is => pending[n].is
  /\ over \subseteq over'
  /\ \A s \in SessionIDs :
       \/ sessions'[s] = sessions[s] /\ (s \in over' <=> s \in over)
       \/ sessions[s].is /\ ~sessions'[s].is /\ s \in over'
       \/ /\ sessions[s].is /\ sessions'[s].is /\ s \notin over'
          /\ sessions'[s].expires = sessions[s].expires

LEMMA LateStaysLate ==
  ASSUME AInv, Onward, NEW s \in SessionIDs, TooLate(s) PROVE TooLate(s)'
BY DEF TooLate, Expired, Onward

\* When nothing comes back, a request that does not move stays sound.
LEMMA OnwardKeeps ==
  ASSUME AInv, Onward, Types', \A c \in Tabs : calls'[c] = calls[c] \/ Sound(c)'
  PROVE  AInv'
<1>. USE DEF AInv
<1>1. OnePlace'
  <2>1. \A s \in DOMAIN minted : ~pending'[minted[s].from].is
    BY MintedRows DEF OnePlace, Onward
  <2>2. browser'.signIn <= begun
    BY DEF OnePlace, Onward, Types
  <2>. QED BY <2>1, <2>2 DEF OnePlace, OneSessionPerSignIn, Onward
<1>2. InStoreOrOver'
  <2>1. \A s \in SessionIDs : sessions'[s].is => s \in DOMAIN minted /\ s \notin over'
    BY DEF InStoreOrOver, Onward
  <2>2. \A s \in DOMAIN minted : sessions'[s].is \/ s \in over'
    BY DEF InStoreOrOver, Onward
  <2>3. over' \subseteq DOMAIN minted
    BY DEF InStoreOrOver, Onward, Types
  <2>. QED BY <2>1, <2>2, <2>3 DEF InStoreOrOver, Onward
<1>3. \A s \in SessionIDs : TooLate(s) => TooLate(s)'
  BY DEF TooLate, Expired, Onward
<1>4. ASSUME NEW c \in Tabs, calls'[c] = calls[c] PROVE Sound(c)'
  <2>1. Completing(c) => ~pending'[calls[c].signIn].is
    <3>1. Completing(c) => calls[c].signIn \in SignIns /\ ~pending[calls[c].signIn].is
      BY DEF CallsAreSound, Sound
    <3>. QED BY <3>1 DEF Onward
  <2>2. \A d \in Tabs : Completing(c) /\ Completing(d)' /\ calls'[d].signIn = calls[c].signIn => d = c
    BY <1>4 DEF CallsAreSound, Sound, Completing
  <2>3. calls[c].stale => TooLate(calls[c].session)'
    <3>1. calls[c].stale => calls[c].session \in SessionIDs /\ TooLate(calls[c].session)
      BY DEF CallsAreSound, Sound, InStoreOrOver
    <3>. QED BY <1>3, <1>4, <3>1
  <2>. QED BY <1>4, <2>1, <2>2, <2>3 DEF CallsAreSound, Sound, Completing, Onward
<1>. QED BY <1>1, <1>2, <1>4 DEF CallsAreSound

-----------------------------------------------------------------------------
(* The browser, the clock and the provider's page.                         *)

LEMMA BeginSignInKeeps == ASSUME AInv, BeginSignIn PROVE AInv'
<1>1. /\ begun' = begun + 1 /\ begun \in Nat /\ begun' \in Nat /\ begun' <= MaxSignIns
      /\ begun' \in SignIns
  BY Bounds DEF AInv, Types, BeginSignIn
<1>2. \A n \in SignIns : n <= begun => pending'[n] = pending[n]
  BY <1>1, Bounds DEF AInv, Types, BeginSignIn
<1>3. Types'
  <2>1. [is |-> TRUE, expires |-> now + SignInLifetime] \in PendingRows
    BY Bounds DEF AInv, Types, PendingRows
  <2>2. pending' \in [SignIns -> PendingRows]
    BY <1>1, <2>1 DEF AInv, Types, BeginSignIn
  <2>3. browser \in [signIn : 0..MaxSignIns, session : Nat]
    BY DEF AInv, Types
  <2>4. begun' \in 0..MaxSignIns /\ browser' = [browser EXCEPT !.signIn = begun']
    BY <1>1, Bounds DEF BeginSignIn
  <2>5. browser' \in [signIn : 0..MaxSignIns, session : Nat]
    BY <2>3, <2>4
  <2>. QED BY <2>2, <2>4, <2>5 DEF AInv, Types, BeginSignIn
<1>4. OnePlace'
  <2>1. \A n \in SignIns : pending'[n].is => n <= begun'
    BY <1>1, <1>2, Bounds DEF AInv, Types, OnePlace, BeginSignIn
  <2>2. browser'.signIn = begun'
    BY DEF AInv, Types, BeginSignIn
  <2>3. \A s \in DOMAIN minted : minted[s].from <= begun' /\ ~pending'[minted[s].from].is
    BY <1>1, <1>2, MintedRows, Bounds DEF AInv, OnePlace
  <2>. QED BY <1>1, <2>1, <2>2, <2>3 DEF AInv, OnePlace, OneSessionPerSignIn, BeginSignIn
<1>5. InStoreOrOver'
  <2>1. browser'.session = browser.session
    BY DEF AInv, Types, BeginSignIn
  <2>. QED BY <2>1 DEF AInv, InStoreOrOver, BeginSignIn
<1>6. ASSUME NEW c \in Tabs PROVE Sound(c)'
  <2>1. Sound(c)
    BY DEF AInv, CallsAreSound
  <2>2. calls[c].signIn <= begun /\ calls[c].signIn \in SignIns => calls[c].signIn <= begun'
    BY <1>1, Bounds
  <2>3. TooLate(calls[c].session)' <=> TooLate(calls[c].session)
    BY DEF TooLate, Expired, BeginSignIn
  <2>. QED BY <1>2, <2>1, <2>2, <2>3 DEF Sound, Completing, BeginSignIn
<1>. QED BY <1>3, <1>4, <1>5, <1>6 DEF AInv, CallsAreSound

LEMMA AnswerProviderKeeps == ASSUME AInv, NEW n \in SignIns, AnswerProvider(n) PROVE AInv'
<1>1. Types'
  BY DEF AInv, Types, AnswerProvider, store
<1>2. \A m \in SignIns : answered[m] \in Subjects => answered'[m] = answered[m]
  BY SubjectsArePeople DEF AInv, Types, AnswerProvider
<1>3. OnePlace'
  BY <1>2, MintedRows DEF AInv, OnePlace, OneSessionPerSignIn, AnswerProvider, store
<1>4. InStoreOrOver'
  BY DEF AInv, InStoreOrOver, AnswerProvider, store
<1>5. ASSUME NEW c \in Tabs PROVE Sound(c)'
  <2>1. Sound(c)
    BY DEF AInv, CallsAreSound
  <2>2. TooLate(calls[c].session)' <=> TooLate(calls[c].session)
    BY DEF TooLate, Expired, AnswerProvider, store
  <2>. QED BY <1>2, <2>1, <2>2 DEF Sound, Completing, AnswerProvider, store
<1>. QED BY <1>1, <1>3, <1>4, <1>5 DEF AInv, CallsAreSound

LEMMA TickKeeps == ASSUME AInv, Tick PROVE AInv'
<1>1. Types'
  BY DEF AInv, Types, Tick, store, provider
<1>2. OnePlace' /\ InStoreOrOver'
  BY DEF AInv, OnePlace, OneSessionPerSignIn, InStoreOrOver, Tick, store, provider
<1>3. ASSUME NEW s \in SessionIDs, TooLate(s) PROVE TooLate(s)'
  <2>1. CASE s \in over
    BY <2>1 DEF TooLate, Tick
  <2>2. CASE sessions[s].is /\ now >= sessions[s].expires
    <3>1. sessions[s] \in SessionRows /\ sessions[s] # Missing
      BY <2>2 DEF AInv, Types, Missing
    <3>2. sessions[s].expires \in Nat
      BY <3>1 DEF SessionRows
    <3>. QED BY <2>2, <3>2 DEF TooLate, Expired, Tick, store, AInv, Types
  <2>. QED BY <1>3, <2>1, <2>2 DEF TooLate, Expired
<1>4. ASSUME NEW c \in Tabs PROVE Sound(c)'
  <2>1. Sound(c) /\ (calls[c].stale => calls[c].session \in SessionIDs)
    BY DEF AInv, CallsAreSound, Sound, InStoreOrOver
  <2>2. UNCHANGED <<calls, pending, answered, minted, over, begun>>
    BY DEF Tick, store, provider
  <2>3. calls[c].stale => TooLate(calls[c].session)'
    BY <1>3, <2>1, <2>2 DEF Sound
  <2>. QED BY <2>1, <2>2, <2>3 DEF Sound, Completing
<1>. QED BY <1>1, <1>2, <1>4 DEF AInv, CallsAreSound

LEMMA RevokeKeeps == ASSUME AInv, NEW n \in SignIns, Revoke(n) PROVE AInv'
<1>1. Types'
  BY DEF AInv, Types, Revoke, store
<1>2. Onward
  BY DEF Onward, Revoke, store
<1>. QED BY <1>1, <1>2, OnwardKeeps DEF Revoke

-----------------------------------------------------------------------------
(* The requests.                                                           *)

LEMMA OneMoves ==
  ASSUME AInv, NEW c \in Tabs, NEW r \in Calls, calls' = [calls EXCEPT ![c] = r]
  PROVE  calls' \in [Tabs -> Calls] /\ calls'[c] = r /\ \A d \in Tabs : d # c => calls'[d] = calls[d]
BY DEF AInv, Types

\* An answer is sound, when it is no stale request's that is told it succeeded.
LEMMA AnswerIsSound ==
  ASSUME AInv, Onward, NEW c \in Tabs, NEW told \in Answers, told # "signedOut",
         told = "principal" => ~calls[c].stale, Tell(c, told)
  PROVE  calls' \in [Tabs -> Calls] /\ \A d \in Tabs : calls'[d] = calls[d] \/ Sound(d)'
<1>1. Told(c, told) \in Calls /\ Told(c, told).step = "idle" /\ Told(c, told).told = told
      /\ Told(c, told).session = calls[c].session /\ Told(c, told).stale = calls[c].stale
  BY RecordsAreCalls DEF AInv
<1>2. calls' \in [Tabs -> Calls] /\ calls'[c] = Told(c, told)
      /\ \A d \in Tabs : d # c => calls'[d] = calls[d]
  BY <1>1, OneMoves DEF Tell
<1>3. calls[c].stale => calls[c].session \in DOMAIN minted /\ TooLate(calls[c].session)'
  <2>1. calls[c].stale => /\ calls[c].session \in DOMAIN minted /\ TooLate(calls[c].session)
                          /\ calls[c].session \in SessionIDs
    BY DEF AInv, CallsAreSound, Sound, InStoreOrOver
  <2>2. calls'[c].session = calls[c].session
    BY <1>1, <1>2
  <2>3. ASSUME calls[c].stale PROVE TooLate(calls[c].session)'
    BY <2>1, <2>2, <2>3, LateStaysLate
  <2>. QED BY <2>1, <2>3
<1>4. Sound(c)'
  BY <1>1, <1>2, <1>3 DEF Sound, Completing, Onward
<1>. QED BY <1>2, <1>4

LEMMA CallbackKeeps ==
  ASSUME AInv, NEW c \in Tabs, NEW n \in SignIns, Callback(c, n) PROVE AInv'
<1>. DEFINE r == [Idle EXCEPT !.step = "take", !.signIn = browser.signIn, !.state = n]
<1>1. browser.signIn \in SignIns /\ browser.signIn <= begun /\ n \in Nat
  BY Bounds DEF AInv, Types, OnePlace, Callback
<1>2. r \in Calls /\ r.step = "take" /\ r.signIn = browser.signIn /\ r.told = "nothing" /\ ~r.stale
  <2>1. browser.signIn \in Nat /\ "take" \in Steps
    BY <1>1, Bounds DEF Steps
  <2>. QED BY <1>1, <2>1, Bounds DEF Calls
<1>3. calls' = [calls EXCEPT ![c] = r]
  BY DEF Callback
<1>. HIDE DEF r
<1>4. calls' \in [Tabs -> Calls] /\ calls'[c] = r /\ \A d \in Tabs : d # c => calls'[d] = calls[d]
  BY <1>2, <1>3, OneMoves
<1>5. Onward
  BY DEF Onward, Callback, store, provider
<1>6. Types'
  BY <1>4 DEF AInv, Types, Callback, store, provider
<1>7. Sound(c)'
  BY <1>1, <1>2, <1>4 DEF Sound, Completing, Callback
<1>. QED BY <1>4, <1>5, <1>6, <1>7, OnwardKeeps

LEMMA CompleteSignInKeeps == ASSUME AInv, NEW c \in Tabs, CompleteSignIn(c) PROVE AInv'
<1>. DEFINE n == calls[c].signIn
<1>1. n \in SignIns /\ n <= begun
  BY DEF AInv, CallsAreSound, Sound, CompleteSignIn, At
<1>2. UNCHANGED <<now, sessions, answered, grants, begun, minted, over>>
  BY DEF CompleteSignIn, provider
<1>3. browser' = browser \/ browser' = [browser EXCEPT !.signIn = 0]
  BY DEF CompleteSignIn, RefuseSignIn
<1>4. pending' = pending \/ pending' = [pending EXCEPT ![n] = Missing]
  BY DEF CompleteSignIn, TakePendingSignIn
<1>5. browser' \in [signIn : 0..MaxSignIns, session : Nat] /\ pending' \in [SignIns -> PendingRows]
  <2>1. browser \in [signIn : 0..MaxSignIns, session : Nat] /\ 0 \in 0..MaxSignIns
    BY Bounds DEF AInv, Types
  <2>2. browser' \in [signIn : 0..MaxSignIns, session : Nat]
    BY <1>3, <2>1
  <2>3. pending \in [SignIns -> PendingRows] /\ Missing \in PendingRows
    BY DEF AInv, Types, PendingRows
  <2>. QED BY <1>4, <2>2, <2>3
<1>6. Onward
  <2>1. \A m \in SignIns : pending'[m].is => pending[m].is
    <3>1. pending \in [SignIns -> PendingRows] /\ ~Missing.is
      BY DEF AInv, Types, Missing
    <3>. QED BY <1>1, <1>4, <3>1
  <2>2. browser'.signIn \in {0, browser.signIn} /\ browser'.session = browser.session
    BY <1>3 DEF AInv, Types
  <2>. QED BY <1>2, <2>1, <2>2 DEF Onward
<1>7. CASE Tell(c, "signInFailed") \/ Tell(c, "internal")
  <2>1. calls' \in [Tabs -> Calls] /\ \A d \in Tabs : calls'[d] = calls[d] \/ Sound(d)'
    BY <1>6, <1>7, AnswerIsSound DEF Answers
  <2>2. Types'
    BY <1>2, <1>5, <2>1 DEF AInv, Types
  <2>. QED BY <1>6, <2>1, <2>2, OnwardKeeps
<1>8. CASE Step(c, "exchange") /\ TakePendingSignIn(n) /\ pending[n].is /\ answered[n] \in Subjects
  <2>. DEFINE r == [calls[c] EXCEPT !.step = "exchange"]
  <2>1. r \in Calls /\ r.step = "exchange" /\ r.signIn = n /\ r.told = calls[c].told
        /\ r.stale = calls[c].stale /\ r.session = calls[c].session
    <3>1. calls[c] \in Calls /\ "exchange" \in Steps
      BY RecordsAreCalls DEF AInv, Steps
    <3>. QED BY <3>1 DEF Calls
  <2>2. calls' = [calls EXCEPT ![c] = r]
    BY <1>8 DEF Step, AInv, Types
  <2>. HIDE DEF r
  <2>3. calls' \in [Tabs -> Calls] /\ calls'[c] = r /\ \A d \in Tabs : d # c => calls'[d] = calls[d]
    BY <2>1, <2>2, OneMoves
  <2>4. ~pending'[n].is
    BY <1>1, <1>8 DEF TakePendingSignIn, AInv, Types, Missing
  <2>5. \A d \in Tabs : d # c /\ Completing(d)' => calls'[d].signIn # n
    BY <1>8, <2>3 DEF AInv, CallsAreSound, Sound, Completing
  <2>6. \A s \in DOMAIN minted : minted[s].from # n
    BY <1>8 DEF AInv, OnePlace
  <2>7. ~calls[c].stale /\ (calls[c].told = "signedOut" => calls[c].session \in over)
    BY DEF AInv, CallsAreSound, Sound, CompleteSignIn, At
  <2>8. Sound(c)'
    BY <1>1, <1>2, <1>8, <2>1, <2>3, <2>4, <2>5, <2>6, <2>7 DEF Sound, Completing
  <2>9. Types'
    BY <1>2, <1>5, <2>3 DEF AInv, Types
  <2>. QED BY <1>6, <2>3, <2>8, <2>9, OnwardKeeps
<1>. QED BY <1>7, <1>8 DEF CompleteSignIn, RefuseSignIn

LEMMA ExchangeKeeps == ASSUME AInv, NEW c \in Tabs, Exchange(c) PROVE AInv'
<1>. DEFINE n == calls[c].signIn
<1>1. n \in SignIns /\ Sound(c) /\ calls[c].step = "exchange" /\ calls[c] \in Calls
  BY RecordsAreCalls DEF AInv, CallsAreSound, Sound, Completing, Exchange, At
<1>2. UNCHANGED <<now, pending, sessions, answered, begun, minted, over>>
  BY DEF Exchange, store
<1>3. browser' = browser \/ browser' = [browser EXCEPT !.signIn = 0]
  BY DEF Exchange, RefuseSignIn
<1>4. browser' \in [signIn : 0..MaxSignIns, session : Nat]
      /\ browser'.signIn \in {0, browser.signIn} /\ browser'.session = browser.session
  <2>1. browser \in [signIn : 0..MaxSignIns, session : Nat] /\ 0 \in 0..MaxSignIns
    BY Bounds DEF AInv, Types
  <2>. QED BY <1>3, <2>1
<1>5. Onward
  BY <1>2, <1>4 DEF Onward
<1>6. grants' \in [SignIns -> [current : Nat, revoked : BOOLEAN]]
  <2>1. grants \in [SignIns -> [current : Nat, revoked : BOOLEAN]]
    BY DEF AInv, Types
  <2>2. [grants[n] EXCEPT !.current = 1] \in [current : Nat, revoked : BOOLEAN]
    BY <1>1, <2>1
  <2>3. grants' = grants \/ grants' = [grants EXCEPT ![n] = [grants[n] EXCEPT !.current = 1]]
    BY DEF Exchange
  <2>. QED BY <2>1, <2>2, <2>3
<1>7. CASE Tell(c, "signInFailed")
  <2>1. calls' \in [Tabs -> Calls] /\ \A d \in Tabs : calls'[d] = calls[d] \/ Sound(d)'
    BY <1>5, <1>7, AnswerIsSound DEF Answers
  <2>2. Types'
    BY <1>2, <1>4, <1>6, <2>1 DEF AInv, Types
  <2>. QED BY <1>5, <2>1, <2>2, OnwardKeeps
<1>8. ASSUME NEW refresh \in {0, 1}, NEW expires \in {NoExpiry, now + TokenLifetime},
             calls' = [calls EXCEPT ![c].step = "create",
                          ![c].tokens = [refresh |-> refresh, expires |-> expires]]
      PROVE  AInv'
  <2>. DEFINE t == [refresh |-> refresh, expires |-> expires]
              r == [calls[c] EXCEPT !.step = "create", !.tokens = t]
  <2>1. t \in TokenSets
    BY Bounds DEF TokenSets, NoExpiry, AInv, Types
  <2>. HIDE DEF t
  <2>2. r \in Calls /\ r.step = "create" /\ r.signIn = n /\ r.told = calls[c].told
        /\ r.stale = calls[c].stale /\ r.session = calls[c].session
    BY <1>1, <2>1 DEF Calls, Steps
  <2>3. calls' = [calls EXCEPT ![c] = r]
    BY <1>8 DEF AInv, Types, t
  <2>. HIDE DEF r
  <2>4. calls' \in [Tabs -> Calls] /\ calls'[c] = r /\ \A d \in Tabs : d # c => calls'[d] = calls[d]
    BY <2>2, <2>3, OneMoves
  <2>5. Sound(c)'
    BY <1>1, <1>2, <2>2, <2>4 DEF Sound, Completing
  <2>6. Types'
    BY <1>2, <1>4, <1>6, <2>4 DEF AInv, Types
  <2>. QED BY <1>5, <2>4, <2>5, <2>6, OnwardKeeps
<1>. QED BY <1>7, <1>8 DEF Exchange, RefuseSignIn

LEMMA RequestKeeps ==
  ASSUME AInv, NEW c \in Tabs, NEW purpose \in {"read", "signOut"}, Request(c, purpose) PROVE AInv'
<1>. DEFINE s == browser.session
<1>1. s \in Nat /\ s \in DOMAIN minted /\ s \in SessionIDs
  BY DEF AInv, Types, InStoreOrOver, Request
<1>2. PICK bearer \in BOOLEAN :
        calls' = [calls EXCEPT ![c] =
           [Idle EXCEPT !.step = IF bearer THEN "signOut" ELSE "read", !.purpose = purpose,
                        !.session = s,
                        !.stale = ~bearer /\ (s \in over \/ Expired(sessions[s]))]]
  BY DEF Request
<1>. DEFINE r == [Idle EXCEPT !.step = IF bearer THEN "signOut" ELSE "read", !.purpose = purpose,
                        !.session = s,
                        !.stale = ~bearer /\ (s \in over \/ Expired(sessions[s]))]
<1>3. /\ r \in Calls /\ r.step \in {"read", "signOut"} /\ r.told = "nothing" /\ r.session = s
      /\ r.stale => r.step = "read" /\ (s \in over \/ Expired(sessions[s]))
  <2>1. (IF bearer THEN "signOut" ELSE "read") \in Steps
        /\ (~bearer /\ (s \in over \/ Expired(sessions[s]))) \in BOOLEAN
    BY DEF Steps
  <2>. QED BY <1>1, <2>1, Bounds DEF Calls
<1>. HIDE DEF r
<1>4. calls' \in [Tabs -> Calls] /\ calls'[c] = r /\ \A d \in Tabs : d # c => calls'[d] = calls[d]
  BY <1>2, <1>3, OneMoves DEF r
<1>5. UNCHANGED <<now, pending, sessions, browser, answered, grants, begun, minted, over>>
  BY DEF Request, store, provider
<1>6. Onward
  BY <1>5 DEF Onward
<1>7. Types'
  BY <1>4, <1>5 DEF AInv, Types
<1>8. r.stale => TooLate(s)
  BY <1>1, <1>3 DEF TooLate, AInv, InStoreOrOver
<1>9. r.stale => TooLate(calls[c].session)'
  <2>1. calls'[c].session = s
    BY <1>3, <1>4
  <2>. QED BY <1>1, <1>6, <1>8, <2>1, LateStaysLate
<1>10. Sound(c)'
  BY <1>1, <1>3, <1>4, <1>5, <1>9 DEF Sound, Completing
<1>. QED BY <1>4, <1>6, <1>7, <1>10, OnwardKeeps

\* A request that is not stale may be let through to its handler.
LEMMA AcceptIsSound ==
  ASSUME AInv, Onward, NEW c \in Tabs, ~calls[c].stale, calls[c].session \in DOMAIN minted, Accept(c)
  PROVE  calls' \in [Tabs -> Calls] /\ \A d \in Tabs : calls'[d] = calls[d] \/ Sound(d)'
<1>1. CASE calls[c].purpose # "signOut"
  BY <1>1, AnswerIsSound DEF Accept, Answers
<1>2. CASE calls[c].purpose = "signOut"
  <2>. DEFINE r == [Told(c, "nothing") EXCEPT !.step = "signOut"]
  <2>1. r \in Calls /\ r.step = "signOut" /\ r.told = "nothing" /\ ~r.stale
        /\ r.session = calls[c].session
    <3>1. Told(c, "nothing") \in Calls /\ Told(c, "nothing").told = "nothing"
          /\ ~Told(c, "nothing").stale /\ Told(c, "nothing").session = calls[c].session
      BY RecordsAreCalls DEF AInv, Answers
    <3>2. "signOut" \in Steps
      BY DEF Steps
    <3>. QED BY <3>1, <3>2 DEF Calls
  <2>2. calls' = [calls EXCEPT ![c] = r]
    BY <1>2 DEF Accept
  <2>. HIDE DEF r
  <2>3. calls' \in [Tabs -> Calls] /\ calls'[c] = r /\ \A d \in Tabs : d # c => calls'[d] = calls[d]
    BY <2>1, <2>2, OneMoves
  <2>4. Sound(c)'
    BY <2>1, <2>3 DEF Sound, Completing, Onward
  <2>. QED BY <2>3, <2>4
<1>. QED BY <1>1, <1>2

\* A request whose record only moves on to another step.
LEMMA StepIsSound ==
  ASSUME AInv, Onward, NEW c \in Tabs, NEW r \in Calls, calls' = [calls EXCEPT ![c] = r],
         r.step \in {"renew", "write", "end", "refused"}, r.told = calls[c].told,
         r.session = calls[c].session, r.session \in DOMAIN minted, r.stale = calls[c].stale,
         r.step # "end" => r.signIn \in SignIns /\ ~r.stale
  PROVE  calls' \in [Tabs -> Calls] /\ \A d \in Tabs : calls'[d] = calls[d] \/ Sound(d)'
<1>1. calls' \in [Tabs -> Calls] /\ calls'[c] = r /\ \A d \in Tabs : d # c => calls'[d] = calls[d]
  BY OneMoves
<1>2. Sound(c) /\ r.session \in SessionIDs
  BY DEF AInv, CallsAreSound, InStoreOrOver
<1>3. r.stale => TooLate(calls[c].session)'
  <2>1. ASSUME r.stale PROVE TooLate(calls[c].session)'
    <3>1. TooLate(r.session)
      BY <1>2, <2>1 DEF Sound
    <3>. QED BY <1>1, <1>2, <3>1, LateStaysLate
  <2>. QED BY <2>1
<1>4. Sound(c)'
  BY <1>1, <1>2, <1>3 DEF Sound, Completing, Onward
<1>. QED BY <1>1, <1>4

\* At every step behind a cookie the session is one the hub gave out.
LEMMA BehindACookie ==
  ASSUME AInv, NEW c \in Tabs,
         calls[c].step \in {"read", "renew", "write", "end", "refused", "signOut"}
  PROVE  /\ calls[c].session \in DOMAIN minted /\ calls[c].session \in SessionIDs
         /\ calls[c] \in Calls /\ sessions[calls[c].session] \in SessionRows
         /\ calls[c].step \in {"renew", "write", "signOut"} => ~calls[c].stale
         /\ calls[c].step \in {"renew", "write"} => calls[c].signIn \in SignIns
         /\ sessions[calls[c].session].is /\ ~Expired(sessions[calls[c].session]) => ~calls[c].stale
<1>1. Sound(c)
  BY DEF AInv, CallsAreSound
<1>2. calls[c].session \in DOMAIN minted /\ calls[c].session \in SessionIDs
  BY <1>1 DEF Sound, AInv, InStoreOrOver
<1>3. sessions[calls[c].session].is /\ ~Expired(sessions[calls[c].session]) => ~calls[c].stale
  BY <1>1, <1>2 DEF Sound, TooLate, AInv, InStoreOrOver
<1>. QED BY <1>1, <1>2, <1>3, RecordsAreCalls DEF Sound, AInv, Types

LEMMA AuthenticateKeeps == ASSUME AInv, NEW c \in Tabs, Authenticate(c) PROVE AInv'
<1>. DEFINE row == sessions[calls[c].session]
<1>1. UNCHANGED <<now, pending, sessions, browser, answered, grants, begun, minted, over>>
  BY DEF Authenticate, store, provider
<1>2. Onward
  BY <1>1 DEF Onward
<1>3. /\ calls[c].session \in DOMAIN minted /\ calls[c] \in Calls /\ row \in SessionRows
      /\ row.is /\ ~Expired(row) => ~calls[c].stale
  BY BehindACookie DEF Authenticate, At
<1>4. SUFFICES calls' \in [Tabs -> Calls] /\ \A d \in Tabs : calls'[d] = calls[d] \/ Sound(d)'
  BY <1>1, <1>2, OnwardKeeps DEF AInv, Types
<1>5. CASE Tell(c, "unauthenticated") \/ Tell(c, "unavailable")
  BY <1>2, <1>5, AnswerIsSound DEF Answers
<1>6. CASE Step(c, "end")
  <2>. DEFINE r == [calls[c] EXCEPT !.step = "end"]
  <2>1. r \in Calls /\ r.step = "end" /\ r.told = calls[c].told /\ r.session = calls[c].session
        /\ r.stale = calls[c].stale
    BY <1>3 DEF Calls, Steps
  <2>2. calls' = [calls EXCEPT ![c] = r]
    BY <1>6 DEF Step, AInv, Types
  <2>. HIDE DEF r
  <2>. QED BY <1>2, <1>3, <2>1, <2>2, StepIsSound
<1>7. CASE row.is /\ ~Expired(row) /\ Accept(c)
  BY <1>2, <1>3, <1>7, AcceptIsSound
<1>8. CASE /\ row.is /\ ~Expired(row)
           /\ calls' = [calls EXCEPT
                          ![c].tokens = row.tokens, ![c].signIn = row.grant,
                          ![c].step = IF row.tokens.refresh = 0 THEN "end" ELSE "renew"]
  <2>. DEFINE next == IF row.tokens.refresh = 0 THEN "end" ELSE "renew"
              r == [calls[c] EXCEPT !.tokens = row.tokens, !.signIn = row.grant, !.step = next]
  <2>1. row.tokens \in TokenSets /\ row.grant \in SignIns /\ row.grant \in Nat
    <3>1. row # Missing
      BY <1>8 DEF Missing
    <3>. QED BY <1>3, <3>1, Bounds DEF SessionRows
  <2>2. r \in Calls /\ r.step \in {"renew", "end"} /\ r.told = calls[c].told
        /\ r.session = calls[c].session /\ r.stale = calls[c].stale /\ r.signIn = row.grant
    BY <1>3, <2>1 DEF Calls, Steps
  <2>3. calls' = [calls EXCEPT ![c] = r]
    BY <1>8 DEF AInv, Types
  <2>. HIDE DEF r
  <2>. QED BY <1>2, <1>3, <1>8, <2>1, <2>2, <2>3, StepIsSound
<1>. QED BY <1>5, <1>6, <1>7, <1>8 DEF Authenticate

\* A renewal gives tokens with a refresh token.
LEMMA RenewedTokens ==
  ASSUME AInv, NEW c \in Tabs, Refresh(c),
         ~(WhenUnreachable(c) \/ WhenAnsweredNoTokens(c))
  PROVE  \E refresh \in Nat, expires \in Nat :
           /\ calls' = [calls EXCEPT ![c].step = "write",
                           ![c].tokens = [refresh |-> refresh, expires |-> expires]]
           /\ refresh = calls[c].tokens.refresh \/ refresh # 0
<1>. DEFINE n == calls[c].signIn
            used == IF Rotates THEN [grants EXCEPT ![n].current = @ + 1] ELSE grants
            refresh == IF Rotates THEN used[n].current ELSE calls[c].tokens.refresh
<1>1. n \in SignIns /\ calls[c] \in Calls /\ calls \in [Tabs -> Calls]
      /\ grants \in [SignIns -> [current : Nat, revoked : BOOLEAN]] /\ now \in Nat
  BY BehindACookie DEF Refresh, At, AInv, Types
<1>2. calls[c].tokens.refresh \in Nat
  BY <1>1 DEF Calls, TokenSets
<1>3. Rotates => used[n].current = grants[n].current + 1
  BY <1>1
<1>4. grants[n].current \in Nat
  BY <1>1
<1>5. refresh \in Nat /\ (refresh = calls[c].tokens.refresh \/ refresh # 0)
  BY <1>2, <1>3, <1>4
<1>6. PICK expires \in {NoExpiry, now + TokenLifetime} :
        calls' = [calls EXCEPT ![c].step = "write", ![c].tokens =
                    [refresh |-> IF Rotates THEN used[n].current ELSE @.refresh,
                     expires |-> expires]]
  BY DEF Refresh
<1>7. expires \in Nat
  BY <1>1, <1>6, Bounds DEF NoExpiry
<1>8. calls' = [calls EXCEPT ![c].step = "write",
                   ![c].tokens = [refresh |-> refresh, expires |-> expires]]
  BY <1>1, <1>6
<1>. HIDE DEF refresh
<1>. QED BY <1>5, <1>7, <1>8

LEMMA RefreshKeeps == ASSUME AInv, NEW c \in Tabs, Refresh(c) PROVE AInv'
<1>. DEFINE n == calls[c].signIn
<1>1. UNCHANGED <<now, pending, sessions, browser, answered, begun, minted, over>>
  BY DEF Refresh, store
<1>2. Onward
  BY <1>1 DEF Onward
<1>3. calls[c].session \in DOMAIN minted /\ calls[c] \in Calls /\ ~calls[c].stale /\ n \in SignIns
  BY BehindACookie DEF Refresh, At
<1>4. grants \in [SignIns -> [current : Nat, revoked : BOOLEAN]]
  BY DEF AInv, Types
<1>5. grants' \in [SignIns -> [current : Nat, revoked : BOOLEAN]]
  <2>1. grants[n].current + 1 \in Nat
    BY <1>3, <1>4
  <2>2. [grants[n] EXCEPT !.current = grants[n].current + 1] \in [current : Nat, revoked : BOOLEAN]
    BY <1>3, <1>4, <2>1
  <2>3. grants' = grants
        \/ grants' = [grants EXCEPT ![n] = [grants[n] EXCEPT !.current = grants[n].current + 1]]
    <3>. DEFINE used == IF Rotates THEN [grants EXCEPT ![n].current = @ + 1] ELSE grants
    <3>1. grants' = used \/ grants' = grants
      BY DEF Refresh
    <3>. QED BY <1>3, <1>4, <3>1
  <2>. QED BY <1>4, <2>2, <2>3
<1>6. SUFFICES calls' \in [Tabs -> Calls] /\ \A d \in Tabs : calls'[d] = calls[d] \/ Sound(d)'
  BY <1>1, <1>2, <1>5, OnwardKeeps DEF AInv, Types
<1>7. CASE Tell(c, "unavailable")
  BY <1>2, <1>7, AnswerIsSound DEF Answers
<1>8. CASE Step(c, "refused")
  <2>. DEFINE r == [calls[c] EXCEPT !.step = "refused"]
  <2>1. r \in Calls /\ r.step = "refused" /\ r.told = calls[c].told /\ r.session = calls[c].session
        /\ r.stale = calls[c].stale /\ r.signIn = n
    BY <1>3 DEF Calls, Steps
  <2>2. calls' = [calls EXCEPT ![c] = r]
    BY <1>8 DEF Step, AInv, Types
  <2>. HIDE DEF r
  <2>. QED BY <1>2, <1>3, <2>1, <2>2, StepIsSound
<1>9. ASSUME NEW refresh \in Nat, NEW expires \in Nat,
             calls' = [calls EXCEPT ![c].step = "write",
                          ![c].tokens = [refresh |-> refresh, expires |-> expires]]
      PROVE  calls' \in [Tabs -> Calls] /\ \A d \in Tabs : calls'[d] = calls[d] \/ Sound(d)'
  <2>. DEFINE t == [refresh |-> refresh, expires |-> expires]
              r == [calls[c] EXCEPT !.step = "write", !.tokens = t]
  <2>1. t \in TokenSets
    BY DEF TokenSets
  <2>2. calls' = [calls EXCEPT ![c] = r]
    BY <1>9, <1>3 DEF AInv, Types
  <2>. HIDE DEF t
  <2>3. r \in Calls /\ r.step = "write" /\ r.told = calls[c].told /\ r.session = calls[c].session
        /\ r.stale = calls[c].stale /\ r.signIn = n
    BY <1>3, <2>1 DEF Calls, Steps
  <2>. HIDE DEF r
  <2>. QED BY <1>2, <1>3, <2>2, <2>3, StepIsSound
<1>. QED BY <1>3, <1>7, <1>8, <1>9, RenewedTokens DEF Refresh, WhenUnreachable, WhenAnsweredNoTokens

LEMMA WriteTokensKeeps == ASSUME AInv, NEW c \in Tabs, WriteTokens(c) PROVE AInv'
<1>. DEFINE s == calls[c].session
<1>1. UNCHANGED <<now, pending, browser, answered, grants, begun, minted, over>>
  BY DEF WriteTokens, provider
<1>2. /\ s \in DOMAIN minted /\ s \in SessionIDs /\ calls[c] \in Calls /\ ~calls[c].stale
      /\ sessions[s] \in SessionRows
  BY BehindACookie DEF WriteTokens, At
<1>3. CASE UNCHANGED sessions /\ Tell(c, "unavailable")
  <2>1. Onward
    BY <1>1, <1>3 DEF Onward
  <2>2. calls' \in [Tabs -> Calls] /\ \A d \in Tabs : calls'[d] = calls[d] \/ Sound(d)'
    BY <1>3, <2>1, AnswerIsSound DEF Answers
  <2>. QED BY <1>1, <1>3, <2>1, <2>2, OnwardKeeps DEF AInv, Types
<1>4. CASE /\ sessions[s].is /\ sessions' = [sessions EXCEPT ![s].tokens = calls[c].tokens]
           /\ Accept(c)
  <2>. DEFINE row == [sessions[s] EXCEPT !.tokens = calls[c].tokens]
  <2>1. sessions[s] # Missing /\ calls[c].tokens \in TokenSets
    BY <1>2, <1>4 DEF Missing, Calls
  <2>2. row \in SessionRows /\ row.is /\ row.expires = sessions[s].expires
    BY <1>2, <2>1 DEF SessionRows
  <2>3. sessions' = [sessions EXCEPT ![s] = row]
    BY <1>2, <1>4 DEF AInv, Types
  <2>. HIDE DEF row
  <2>4. sessions' \in [SessionIDs -> SessionRows]
    BY <2>2, <2>3 DEF AInv, Types
  <2>5. Onward
    BY <1>1, <1>2, <1>4, <2>2, <2>3 DEF Onward, AInv, Types, InStoreOrOver
  <2>6. calls' \in [Tabs -> Calls] /\ \A d \in Tabs : calls'[d] = calls[d] \/ Sound(d)'
    BY <1>2, <1>4, <2>5, AcceptIsSound
  <2>. QED BY <1>1, <2>4, <2>5, <2>6, OnwardKeeps DEF AInv, Types
<1>. QED BY <1>3, <1>4 DEF WriteTokens, UpdateSessionTokens

\* Letting go of a session, or failing to.
LEMMA RemoveIsOnward ==
  ASSUME AInv, NEW s \in SessionIDs, Remove(s) \/ Kept,
         UNCHANGED <<now, pending, answered, begun, minted>>,
         browser'.signIn = browser.signIn, browser'.session \in {0, browser.session}
  PROVE  /\ Onward
         /\ sessions' \in [SessionIDs -> SessionRows] /\ over' \subseteq SessionIDs
         /\ Remove(s) /\ s \in DOMAIN minted => s \in over'
<1>1. sessions \in [SessionIDs -> SessionRows] /\ Missing \in SessionRows /\ ~Missing.is
      /\ over \subseteq SessionIDs
  BY DEF AInv, Types, SessionRows, Missing
<1>2. ~sessions[s].is => sessions[s] = Missing
  BY <1>1 DEF SessionRows
<1>3. CASE Kept
  BY <1>1, <1>3 DEF Onward, Kept, Remove, AInv, InStoreOrOver
<1>4. CASE Remove(s)
  <2>1. sessions' \in [SessionIDs -> SessionRows] /\ over' \subseteq SessionIDs
    BY <1>1, <1>4 DEF Remove
  <2>2. \A t \in SessionIDs : t # s => sessions'[t] = sessions[t] /\ (t \in over' <=> t \in over)
    BY <1>1, <1>4 DEF Remove
  <2>3. sessions'[s] = Missing /\ (s \in over' <=> sessions[s].is \/ s \in over)
    BY <1>1, <1>4 DEF Remove
  <2>4. Onward
    BY <1>1, <1>2, <1>4, <2>2, <2>3 DEF Onward, Remove
  <2>. QED BY <2>1, <2>3, <2>4 DEF AInv, InStoreOrOver
<1>. QED BY <1>3, <1>4

LEMMA EndSessionKeeps == ASSUME AInv, NEW c \in Tabs, EndSession(c) PROVE AInv'
<1>1. UNCHANGED <<now, pending, browser, answered, grants, begun, minted>>
  BY DEF EndSession, provider
<1>2. calls[c].session \in SessionIDs
  BY BehindACookie DEF EndSession, At
<1>3. Onward /\ sessions' \in [SessionIDs -> SessionRows] /\ over' \subseteq SessionIDs
  BY <1>1, <1>2, RemoveIsOnward DEF EndSession
<1>4. calls' \in [Tabs -> Calls] /\ \A d \in Tabs : calls'[d] = calls[d] \/ Sound(d)'
  BY <1>3, AnswerIsSound DEF EndSession, Answers
<1>. QED BY <1>1, <1>3, <1>4, OnwardKeeps DEF AInv, Types

LEMMA SignOutKeeps == ASSUME AInv, NEW c \in Tabs, SignOut(c) PROVE AInv'
<1>. DEFINE s == calls[c].session
<1>1. UNCHANGED <<now, pending, answered, grants, begun, minted>>
  BY DEF SignOut, provider
<1>2. s \in DOMAIN minted /\ s \in SessionIDs /\ calls[c] \in Calls /\ ~calls[c].stale
  BY BehindACookie DEF SignOut, At
<1>3. browser' \in [signIn : 0..MaxSignIns, session : Nat] /\ browser'.signIn = browser.signIn
      /\ browser'.session \in {0, browser.session}
  <2>1. browser \in [signIn : 0..MaxSignIns, session : Nat]
    BY DEF AInv, Types
  <2>2. browser' = browser \/ browser' = [browser EXCEPT !.session = 0]
    BY DEF SignOut
  <2>. QED BY <2>1, <2>2
<1>4. Onward /\ sessions' \in [SessionIDs -> SessionRows] /\ over' \subseteq SessionIDs
      /\ (Remove(s) => s \in over')
  BY <1>1, <1>2, <1>3, RemoveIsOnward DEF SignOut
<1>5. SUFFICES calls' \in [Tabs -> Calls] /\ \A d \in Tabs : calls'[d] = calls[d] \/ Sound(d)'
  BY <1>1, <1>3, <1>4, OnwardKeeps DEF AInv, Types
<1>6. CASE Tell(c, "unavailable")
  BY <1>4, <1>6, AnswerIsSound DEF Answers
<1>7. CASE Remove(s) /\ Tell(c, "signedOut")
  <2>1. Told(c, "signedOut") \in Calls /\ Told(c, "signedOut").step = "idle"
        /\ Told(c, "signedOut").session = s /\ ~Told(c, "signedOut").stale
    BY <1>2, RecordsAreCalls DEF AInv, Answers
  <2>2. calls' \in [Tabs -> Calls] /\ calls'[c] = Told(c, "signedOut")
        /\ \A d \in Tabs : d # c => calls'[d] = calls[d]
    BY <1>7, <2>1, OneMoves DEF Tell
  <2>3. Sound(c)'
    BY <1>4, <1>7, <2>1, <2>2 DEF Sound, Completing
  <2>. QED BY <2>2, <2>3
<1>. QED BY <1>6, <1>7 DEF SignOut

-----------------------------------------------------------------------------
(* The purge, a restart, and the session a completed sign-in is given.     *)

LEMMA PurgeExpiredKeeps == ASSUME AInv, PurgeExpired PROVE AInv'
<1>1. UNCHANGED <<now, browser, answered, grants, calls, begun, minted>>
  BY DEF PurgeExpired, provider
<1>2. Missing \in SessionRows /\ Missing \in PendingRows /\ ~Missing.is
  BY DEF SessionRows, PendingRows, Missing
<1>. DEFINE aged == {s \in SessionIDs : sessions[s].is /\ Expired(sessions[s])}
<1>3. /\ sessions' = [s \in SessionIDs |-> IF s \in aged THEN Missing ELSE sessions[s]]
      /\ over' = over \cup aged
  BY DEF PurgeExpired, AInv, Types
<1>4. pending' \in [SignIns -> PendingRows] /\ \A n \in SignIns : pending'[n].is => pending[n].is
  BY <1>2 DEF PurgeExpired, AInv, Types
<1>5. Onward
  BY <1>1, <1>2, <1>3, <1>4 DEF Onward
<1>6. Types'
  BY <1>1, <1>2, <1>3, <1>4 DEF AInv, Types
<1>. QED BY <1>1, <1>5, <1>6, OnwardKeeps

LEMMA CrashKeeps == ASSUME AInv, Crash PROVE AInv'
<1>1. Onward
  BY DEF Onward, Crash, store, provider
<1>2. Types'
  BY Bounds DEF AInv, Types, Crash, store, provider
<1>3. ASSUME NEW c \in Tabs PROVE Sound(c)'
  BY Bounds DEF Crash, Sound, Completing, Idle
<1>. QED BY <1>1, <1>2, <1>3, OnwardKeeps

LEMMA CreateSessionKeeps == ASSUME AInv, NEW c \in Tabs, CreateSession(c) PROVE AInv'
<1>. DEFINE n == calls[c].signIn
            s == Len(minted) + 1
            who == [from |-> n, principal |-> answered[n]]
            session == [is |-> TRUE, principal |-> answered[n], grant |-> n,
                        expires |-> now + SessionLifetime, tokens |-> calls[c].tokens]
<1>1. /\ Sound(c) /\ Completing(c) /\ calls[c] \in Calls /\ n \in SignIns /\ n <= begun
      /\ ~pending[n].is /\ answered[n] \in Subjects /\ ~calls[c].stale
      /\ \A d \in Tabs : Completing(d) /\ calls[d].signIn = n => d = c
      /\ \A t \in DOMAIN minted : minted[t].from # n
  BY RecordsAreCalls DEF AInv, CallsAreSound, Sound, Completing, CreateSession, At
<1>2. UNCHANGED <<now, pending, answered, grants, begun, over>>
  BY DEF CreateSession, provider
<1>3. browser \in [signIn : 0..MaxSignIns, session : Nat] /\ 0 \in 0..MaxSignIns
  BY Bounds DEF AInv, Types
<1>4. CASE RefuseSignIn(c, "internal") /\ UNCHANGED <<sessions, minted>>
  <2>1. browser' \in [signIn : 0..MaxSignIns, session : Nat]
        /\ browser'.signIn = 0 /\ browser'.session = browser.session
    BY <1>3, <1>4 DEF RefuseSignIn
  <2>2. Onward
    BY <1>2, <1>4, <2>1 DEF Onward
  <2>3. calls' \in [Tabs -> Calls] /\ \A d \in Tabs : calls'[d] = calls[d] \/ Sound(d)'
    BY <1>4, <2>2, AnswerIsSound DEF RefuseSignIn, Answers
  <2>. QED BY <1>2, <1>4, <2>1, <2>2, <2>3, OnwardKeeps DEF AInv, Types
<1>5. CASE /\ s \in SessionIDs
           /\ sessions' = [sessions EXCEPT ![s] = session]
           /\ minted' = Append(minted, who)
           /\ Tell(c, "granted")
           /\ \E arrives \in BOOLEAN :
                 browser' = IF arrives THEN [signIn |-> 0, session |-> s] ELSE browser
  <2>1. minted \in Seq(Minted) /\ who \in Minted /\ s \in Nat
    BY <1>1 DEF AInv, Types, Minted
  <2>2. /\ minted' \in Seq(Minted) /\ DOMAIN minted' = DOMAIN minted \cup {s}
        /\ s \notin DOMAIN minted /\ minted'[s] = who
        /\ \A t \in DOMAIN minted : minted'[t] = minted[t]
    <3>. HIDE DEF who
    <3>. QED BY <1>5, <2>1
  <2>3. session \in SessionRows /\ session.is
    BY <1>1, Bounds DEF SessionRows, Calls, AInv, Types
  <2>4. /\ sessions' \in [SessionIDs -> SessionRows] /\ sessions'[s] = session
        /\ \A t \in SessionIDs : t # s => sessions'[t] = sessions[t]
    <3>. HIDE DEF session
    <3>. QED BY <1>5, <2>3 DEF AInv, Types
  <2>5. browser' \in [signIn : 0..MaxSignIns, session : Nat] /\ browser'.signIn <= begun
        /\ (browser'.session # 0 => browser'.session \in DOMAIN minted')
    BY <1>3, <1>5, <2>1, <2>2 DEF AInv, OnePlace, InStoreOrOver, Types
  <2>6. Told(c, "granted") \in Calls /\ Told(c, "granted").step = "idle"
        /\ Told(c, "granted").told = "granted" /\ ~Told(c, "granted").stale
    BY <1>1, RecordsAreCalls DEF AInv, Answers
  <2>7. calls' \in [Tabs -> Calls] /\ calls'[c] = Told(c, "granted")
        /\ \A d \in Tabs : d # c => calls'[d] = calls[d]
    BY <1>5, <2>6, OneMoves DEF Tell
  <2>. HIDE DEF session, s
  <2>8. Types'
    BY <1>2, <2>2, <2>4, <2>5, <2>7 DEF AInv, Types
  <2>9. OnePlace'
    <3>1. \A t \in DOMAIN minted' : minted'[t].from <= begun /\ ~pending[minted'[t].from].is
          /\ minted'[t].principal = answered[minted'[t].from]
      BY <1>1, <2>2 DEF AInv, OnePlace, OneSessionPerSignIn
    <3>2. \A t, u \in DOMAIN minted' : minted'[t].from = minted'[u].from => t = u
      BY <1>1, <2>2 DEF AInv, OnePlace, OneSessionPerSignIn
    <3>. QED BY <1>2, <2>5, <3>1, <3>2 DEF AInv, OnePlace, OneSessionPerSignIn
  <2>10. InStoreOrOver'
    BY <1>2, <1>5, <2>2, <2>3, <2>4, <2>5 DEF AInv, InStoreOrOver
  <2>11. Sound(c)'
    BY <2>6, <2>7 DEF Sound, Completing
  <2>12. ASSUME NEW d \in Tabs, d # c PROVE Sound(d)'
    <3>1. Sound(d) /\ calls'[d] = calls[d] /\ calls'[c].step = "idle"
      BY <2>6, <2>7, <2>12 DEF AInv, CallsAreSound
    <3>2. Completing(d) => \A t \in DOMAIN minted' : minted'[t].from # calls[d].signIn
      BY <1>1, <2>2, <2>12, <3>1 DEF Sound
    <3>3. Completing(d) => \A e \in Tabs : Completing(e)' /\ calls'[e].signIn = calls[d].signIn => e = d
      BY <2>7, <3>1 DEF Sound, Completing
    <3>4. calls[d].stale => TooLate(calls[d].session)'
      <4>1. calls[d].stale => calls[d].session # s /\ calls[d].session \in SessionIDs
        BY <2>2, <3>1 DEF Sound, AInv, InStoreOrOver
      <4>2. calls[d].stale => sessions'[calls[d].session] = sessions[calls[d].session]
        BY <2>4, <4>1
      <4>. QED BY <1>2, <3>1, <4>2 DEF Sound, TooLate, Expired
    <3>. QED BY <1>2, <2>2, <3>1, <3>2, <3>3, <3>4 DEF Sound, Completing
  <2>. QED BY <2>8, <2>9, <2>10, <2>11, <2>12 DEF AInv, CallsAreSound
<1>. QED BY <1>4, <1>5 DEF CreateSession

-----------------------------------------------------------------------------
\* What every reachable state of the sign-ins, the calls and the sessions owes
\* to the answers of the provider (identity.Service, its stores).
THEOREM AccessInvariant == Spec => []AInv
<1>1. ASSUME AInv, [Next]_vars PROVE AInv'
  <2>1. CASE UNCHANGED vars
    <3>1. Onward
      BY <2>1 DEF Onward, vars, store, provider
    <3>2. Types'
      BY <1>1, <2>1 DEF AInv, Types, vars, store, provider
    <3>. QED BY <1>1, <2>1, <3>1, <3>2, OnwardKeeps DEF vars
  <2>2. CASE BeginSignIn \/ Tick \/ PurgeExpired \/ Crash
    BY <1>1, <2>2, BeginSignInKeeps, TickKeeps, PurgeExpiredKeeps, CrashKeeps
  <2>3. ASSUME NEW n \in SignIns, AnswerProvider(n) \/ Revoke(n) PROVE AInv'
    BY <1>1, <2>3, AnswerProviderKeeps, RevokeKeeps
  <2>4. ASSUME NEW c \in Tabs, Serve(c) PROVE AInv'
    BY <1>1, <2>4, CompleteSignInKeeps, ExchangeKeeps, CreateSessionKeeps, AuthenticateKeeps,
       RefreshKeeps, WriteTokensKeeps, EndSessionKeeps, SignOutKeeps DEF Serve
  <2>5. ASSUME NEW c \in Tabs, NEW n \in SignIns, Callback(c, n) PROVE AInv'
    BY <1>1, <2>5, CallbackKeeps
  <2>6. ASSUME NEW c \in Tabs, NEW purpose \in {"read", "signOut"}, Request(c, purpose) PROVE AInv'
    BY <1>1, <2>6, RequestKeeps
  <2>. QED BY <1>1, <2>1, <2>2, <2>3, <2>4, <2>5, <2>6 DEF Next
<1>. QED BY <1>1, InitIsGood, PTL DEF Spec

\* A sign-in gives one session, to the person who answered the provider for
\* it; a session that is over never comes back, and no request that arrives
\* after it is over is answered as its principal (CompleteSignIn, Authenticate,
\* EndSession, and the guarded UpdateSessionTokens), however many tabs,
\* retries, outages and restarts there are.
THEOREM Genuine == Spec => []SessionsAreGenuine
<1>1. AInv => SessionsAreGenuine
  <2>. SUFFICES ASSUME AInv PROVE SessionsAreGenuine
    OBVIOUS
  <2>1. \A s \in over : ~sessions[s].is
    BY DEF AInv, InStoreOrOver
  <2>2. ASSUME NEW c \in Tabs
        PROVE  /\ calls[c].stale => calls[c].told # "principal" /\ ~At(c, "signOut")
               /\ calls[c].told = "signedOut" => ~sessions[calls[c].session].is
    BY <2>1 DEF AInv, CallsAreSound, Sound, At
  <2>. QED BY <2>1, <2>2 DEF AInv, OnePlace, SessionsAreGenuine, OverStaysOver
<1>. QED BY <1>1, AccessInvariant, PTL

-----------------------------------------------------------------------------
(* Why a session ends.  What a request knows of its session when it is     *)
(* about to end it, or to renew its tokens, is still so when it does: the  *)
(* clock does not go back, and only a session that has a refresh token is  *)
(* given new tokens.  One that was refused needs to know no more.          *)

IsOver(s) ==
  \/ Expired(sessions[s])
  \/ TokensExpired(sessions[s].tokens) /\ sessions[s].tokens.refresh = 0

Renewable(s) == sessions[s].tokens.refresh # 0

Ending(c) ==
  LET s == calls[c].session
  IN /\ At(c, "end") /\ sessions[s].is => IsOver(s)
     /\ calls[c].step \in {"renew", "write"} =>
          calls[c].tokens.refresh # 0 /\ (sessions[s].is => Renewable(s))

EndsForAReason == \A c \in Tabs : Ending(c)

EndsInv == AInv /\ EndsForAReason

SameRow(s) ==
  /\ sessions'[s].expires = sessions[s].expires
  /\ \/ sessions'[s].tokens = sessions[s].tokens
     \/ sessions'[s].tokens.refresh # 0 /\ sessions[s].tokens.refresh # 0

\* What every step leaves of the reasons.
Lasting ==
  /\ now \in Nat /\ now' \in Nat /\ now <= now'
  /\ \A s \in DOMAIN minted : sessions'[s].is => sessions[s].is /\ SameRow(s)

LEMMA RowsOfSessions ==
  ASSUME AInv, NEW s \in DOMAIN minted, sessions[s].is
  PROVE  /\ sessions[s].expires \in Nat /\ sessions[s].tokens \in TokenSets /\ s \in SessionIDs
         /\ sessions[s].tokens.expires \in Nat
<1>1. s \in SessionIDs /\ sessions[s] \in SessionRows /\ sessions[s] # Missing
  BY DEF AInv, Types, InStoreOrOver, Missing
<1>. QED BY <1>1 DEF SessionRows, TokenSets

LEMMA OverLasts ==
  ASSUME AInv, Lasting, NEW s \in DOMAIN minted, sessions'[s].is
  PROVE  /\ sessions[s].is
         /\ IsOver(s) => IsOver(s)'
         /\ Renewable(s) => Renewable(s)'
<1>1. sessions[s].is /\ SameRow(s) /\ now \in Nat /\ now' \in Nat /\ now <= now'
  BY DEF Lasting
<1>2. sessions[s].expires \in Nat /\ sessions[s].tokens.expires \in Nat
  BY <1>1, RowsOfSessions
<1>3. Expired(sessions[s]) => Expired(sessions[s])'
  BY <1>1, <1>2 DEF Expired, SameRow
<1>4. TokensExpired(sessions[s].tokens) /\ sessions[s].tokens.refresh = 0
      => (TokensExpired(sessions[s].tokens) /\ sessions[s].tokens.refresh = 0)'
  BY <1>1, <1>2 DEF TokensExpired, Expired, SameRow, NoExpiry
<1>5. Renewable(s) => Renewable(s)'
  BY <1>1 DEF Renewable, SameRow
<1>. QED BY <1>1, <1>3, <1>4, <1>5 DEF IsOver

\* A request that does not move keeps its reason.
LEMMA ReasonLasts ==
  ASSUME EndsInv, Lasting, NEW c \in Tabs, calls'[c] = calls[c]
  PROVE  Ending(c)'
<1>. DEFINE s == calls[c].session
<1>1. Ending(c) /\ Sound(c)
  BY DEF EndsInv, EndsForAReason, AInv, CallsAreSound
<1>2. CASE calls[c].step \in {"renew", "write", "end"}
  <2>1. s \in DOMAIN minted
    BY <1>1, <1>2 DEF Sound
  <2>2. CASE sessions'[s].is
    <3>1. sessions[s].is /\ (IsOver(s) => IsOver(s)')
          /\ (Renewable(s) => Renewable(s)')
      BY <2>1, <2>2, OverLasts DEF EndsInv
    <3>2. /\ At(c, "end")' => IsOver(calls[c].session)'
          /\ calls'[c].step \in {"renew", "write"} =>
               calls'[c].tokens.refresh # 0 /\ Renewable(calls[c].session)'
      BY <1>1, <3>1 DEF Ending, At
    <3>3. calls'[c].session = s
      OBVIOUS
    <3>. QED BY <3>2, <3>3 DEF Ending, IsOver, Renewable
  <2>3. CASE ~sessions'[s].is
    BY <1>1, <2>3 DEF Ending, At
  <2>. QED BY <2>2, <2>3
<1>3. CASE calls[c].step \notin {"renew", "write", "end"}
  BY <1>3 DEF Ending, At
<1>. QED BY <1>2, <1>3

\* Steps that leave the rows and the clock alone.
LEMMA StillLasts ==
  ASSUME AInv, UNCHANGED <<now, sessions>> PROVE Lasting
BY DEF Lasting, SameRow, AInv, Types

\* A request about to do something else needs no reason.
LEMMA NoReasonNeeded ==
  ASSUME NEW c \in Tabs, calls'[c].step \notin {"renew", "write", "end"} PROVE Ending(c)'
BY DEF Ending, At

LEMMA ReasonsLast ==
  ASSUME EndsInv, Lasting, NEW c \in Tabs, Ending(c)',
         \A d \in Tabs : d # c => calls'[d] = calls[d]
  PROVE  EndsForAReason'
BY ReasonLasts DEF EndsForAReason

\* The browser, the clock, the provider, the purge, a restart.
LEMMA OthersGiveNoReason ==
  ASSUME EndsInv, \/ BeginSignIn \/ Tick \/ PurgeExpired \/ Crash
                  \/ \E n \in SignIns : AnswerProvider(n) \/ Revoke(n)
  PROVE  EndsForAReason'
<1>. USE DEF EndsInv
<1>1. CASE BeginSignIn \/ \E n \in SignIns : AnswerProvider(n)
  <2>1. UNCHANGED <<now, sessions, calls>>
    BY <1>1 DEF BeginSignIn, AnswerProvider, store
  <2>2. Lasting
    BY <2>1, StillLasts
  <2>. QED BY <2>1, <2>2, ReasonLasts DEF EndsForAReason
<1>2. CASE Tick
  <2>1. Lasting /\ UNCHANGED calls
    BY <1>2 DEF Tick, Lasting, SameRow, AInv, Types, store, provider
  <2>. QED BY <2>1, ReasonLasts DEF EndsForAReason
<1>3. ASSUME NEW n \in SignIns, Revoke(n) PROVE EndsForAReason'
  <2>1. Lasting /\ UNCHANGED calls
    BY <1>3, StillLasts DEF Revoke, store
  <2>. QED BY <2>1, ReasonLasts DEF EndsForAReason
<1>4. CASE PurgeExpired
  <2>1. \A s \in SessionIDs : sessions'[s].is => sessions'[s] = sessions[s]
    BY <1>4 DEF PurgeExpired, AInv, Types, Missing
  <2>2. Lasting /\ UNCHANGED calls
    BY <1>4, <2>1 DEF PurgeExpired, Lasting, SameRow, AInv, Types, InStoreOrOver, provider
  <2>. QED BY <2>2, ReasonLasts DEF EndsForAReason
<1>5. CASE Crash
  BY <1>5, NoReasonNeeded, Bounds DEF Crash, EndsForAReason
<1>. QED BY <1>1, <1>2, <1>3, <1>4, <1>5

\* Signing in, arriving, and signing out lead to no such step.
LEMMA ArrivalsGiveNoReason ==
  ASSUME EndsInv, NEW c \in Tabs,
         \/ CompleteSignIn(c) \/ \E n \in SignIns : Callback(c, n)
         \/ \E purpose \in {"read", "signOut"} : Request(c, purpose)
  PROVE  EndsForAReason'
<1>. USE DEF EndsInv
<1>1. UNCHANGED <<now, sessions>>
  BY DEF CompleteSignIn, Callback, Request, store, provider
<1>2. calls \in [Tabs -> Calls] /\ \A told \in Answers : Told(c, told).step = "idle"
  BY RecordsAreCalls DEF AInv, Types
<1>3. /\ \A d \in Tabs : d # c => calls'[d] = calls[d]
      /\ calls'[c].step \notin {"renew", "write", "end"}
  <2>1. CASE CompleteSignIn(c)
    <3>1. Tell(c, "signInFailed") \/ Tell(c, "internal") \/ Step(c, "exchange")
      BY <2>1 DEF CompleteSignIn, RefuseSignIn
    <3>. QED BY <1>2, <3>1 DEF Tell, Step, Answers, Calls
  <2>2. CASE \E n \in SignIns : Callback(c, n)
    BY <1>2, <2>2 DEF Callback, Idle
  <2>3. CASE \E purpose \in {"read", "signOut"} : Request(c, purpose)
    <3>1. PICK purpose \in {"read", "signOut"} : Request(c, purpose)
      BY <2>3
    <3>. DEFINE arrived(bearer, stale) ==
           [Idle EXCEPT !.step = IF bearer THEN "signOut" ELSE "read", !.purpose = purpose,
                        !.session = browser.session, !.stale = stale]
    <3>2. \A bearer, stale : arrived(bearer, stale).step \in {"signOut", "read"}
      BY DEF Idle
    <3>3. \E bearer, stale : calls' = [calls EXCEPT ![c] = arrived(bearer, stale)]
      BY <3>1 DEF Request
    <3>. HIDE DEF arrived
    <3>. QED BY <1>2, <3>2, <3>3
  <2>. QED BY <2>1, <2>2, <2>3
<1>4. Lasting
  BY <1>1, StillLasts
<1>. QED BY <1>3, <1>4, NoReasonNeeded, ReasonsLast

LEMMA ExchangeGivesNoReason ==
  ASSUME EndsInv, NEW c \in Tabs, Exchange(c) PROVE EndsForAReason'
<1>. DEFINE n == calls[c].signIn
<1>. USE DEF EndsInv
<1>1. calls \in [Tabs -> Calls] /\ \A told \in Answers : Told(c, told).step = "idle"
  BY RecordsAreCalls DEF AInv, Types
<1>2. Lasting
  BY StillLasts DEF Exchange, store
<1>3. /\ \A d \in Tabs : d # c => calls'[d] = calls[d]
      /\ calls'[c].step \notin {"renew", "write", "end"}
  <2>1. CASE Tell(c, "signInFailed")
    BY <1>1, <2>1 DEF Tell, Answers
  <2>2. CASE \E refresh \in {0, 1}, expires \in {NoExpiry, now + TokenLifetime} :
                calls' = [calls EXCEPT ![c].step = "create",
                             ![c].tokens = [refresh |-> refresh, expires |-> expires]]
    BY <1>1, <2>2 DEF Calls
  <2>. QED BY <2>1, <2>2 DEF Exchange, RefuseSignIn
<1>. QED BY <1>2, <1>3, NoReasonNeeded, ReasonsLast

LEMMA CreateSessionGivesNoReason ==
  ASSUME EndsInv, NEW c \in Tabs, CreateSession(c) PROVE EndsForAReason'
<1>. USE DEF EndsInv
<1>1. calls \in [Tabs -> Calls] /\ \A told \in Answers : Told(c, told).step = "idle"
  BY RecordsAreCalls DEF AInv, Types
<1>2. Len(minted) + 1 \notin DOMAIN minted
  BY DEF AInv, Types
<1>3. \A s \in DOMAIN minted : sessions'[s] = sessions[s]
  BY <1>2 DEF CreateSession, AInv, Types, InStoreOrOver
<1>4. Lasting
  BY <1>3 DEF CreateSession, Lasting, SameRow, AInv, Types, provider
<1>5. /\ \A d \in Tabs : d # c => calls'[d] = calls[d]
      /\ calls'[c].step \notin {"renew", "write", "end"}
  <2>1. Tell(c, "granted") \/ Tell(c, "internal")
    BY DEF CreateSession, RefuseSignIn
  <2>. QED BY <1>1, <2>1 DEF Tell, Answers
<1>. QED BY <1>4, <1>5, NoReasonNeeded, ReasonsLast

\* A session is found over, or renewable, by the request that read it.
LEMMA AuthenticateHasReason ==
  ASSUME EndsInv, NEW c \in Tabs, Authenticate(c) PROVE EndsForAReason'
<1>. DEFINE s == calls[c].session
            row == sessions[s]
<1>. USE DEF EndsInv
<1>1. UNCHANGED <<now, sessions>>
  BY DEF Authenticate, store, provider
<1>2. /\ s \in DOMAIN minted /\ calls[c] \in Calls /\ calls \in [Tabs -> Calls]
      /\ \A told \in Answers : Told(c, told).step = "idle"
      /\ Told(c, "nothing") \in Calls
  BY RecordsAreCalls, BehindACookie DEF Authenticate, At, AInv, Types, Answers
<1>3. Lasting
  BY <1>1, StillLasts
<1>4. SUFFICES Ending(c)' /\ \A d \in Tabs : d # c => calls'[d] = calls[d]
  BY <1>3, ReasonsLast
<1>5. CASE Tell(c, "unauthenticated") \/ Tell(c, "unavailable")
  <2>1. calls'[c].step = "idle" /\ \A d \in Tabs : d # c => calls'[d] = calls[d]
    BY <1>2, <1>5 DEF Tell, Answers
  <2>. QED BY <2>1, NoReasonNeeded
<1>6. CASE Accept(c)
  <2>1. calls'[c].step \in {"idle", "signOut"} /\ \A d \in Tabs : d # c => calls'[d] = calls[d]
    <3>1. CASE Tell(c, "principal")
      BY <1>2, <3>1 DEF Tell, Answers
    <3>2. CASE calls' = [calls EXCEPT ![c] = [Told(c, "nothing") EXCEPT !.step = "signOut"]]
      BY <1>2, <3>2 DEF Calls
    <3>. QED BY <1>6, <3>1, <3>2 DEF Accept
  <2>. QED BY <2>1, NoReasonNeeded
<1>7. CASE Expired(row) /\ Step(c, "end")
  <2>1. /\ calls'[c] = [calls[c] EXCEPT !.step = "end"]
        /\ \A d \in Tabs : d # c => calls'[d] = calls[d]
    BY <1>2, <1>7 DEF Step
  <2>2. calls'[c].step = "end" /\ calls'[c].session = s
    BY <1>2, <2>1 DEF Calls
  <2>3. now' >= sessions'[s].expires
    BY <1>1, <1>7 DEF Expired
  <2>. QED BY <2>1, <2>2, <2>3 DEF Ending, At, IsOver, Expired
<1>8. CASE /\ row.is /\ ~Expired(row) /\ TokensExpired(row.tokens)
           /\ calls' = [calls EXCEPT
                           ![c].tokens = row.tokens, ![c].signIn = row.grant,
                           ![c].step = IF row.tokens.refresh = 0 THEN "end" ELSE "renew"]
  <2>. DEFINE step == IF row.tokens.refresh = 0 THEN "end" ELSE "renew"
              r == [calls[c] EXCEPT !.tokens = row.tokens, !.signIn = row.grant, !.step = step]
  <2>1. calls' = [calls EXCEPT ![c] = r]
    BY <1>2, <1>8
  <2>2. r.step = step /\ r.session = s /\ r.tokens = row.tokens
    <3>. HIDE DEF step
    <3>. QED BY <1>2 DEF Calls
  <2>. HIDE DEF r
  <2>3. calls'[c] = r /\ \A d \in Tabs : d # c => calls'[d] = calls[d]
    BY <1>2, <2>1
  <2>4. sessions'[s].tokens = row.tokens /\ row.tokens.expires # NoExpiry
        /\ now' >= row.tokens.expires
    BY <1>1, <1>8 DEF TokensExpired, Expired
  <2>5. CASE row.tokens.refresh = 0
    <3>1. calls'[c].step = "end" /\ calls'[c].session = s
      BY <2>2, <2>3, <2>5
    <3>. QED BY <2>3, <2>4, <2>5, <3>1 DEF Ending, At, IsOver, Expired, TokensExpired
  <2>6. CASE row.tokens.refresh # 0
    <3>1. calls'[c].step = "renew" /\ calls'[c].session = s
          /\ calls'[c].tokens.refresh # 0
      BY <2>2, <2>3, <2>6
    <3>. QED BY <1>1, <2>3, <2>6, <3>1 DEF Ending, At, Renewable
  <2>. QED BY <2>5, <2>6
<1>. QED BY <1>5, <1>6, <1>7, <1>8 DEF Authenticate

\* A renewal is of a session that has a refresh token, and gives another.
LEMMA RefreshHasReason ==
  ASSUME EndsInv, NEW c \in Tabs, Refresh(c) PROVE EndsForAReason'
<1>. DEFINE s == calls[c].session
<1>. USE DEF EndsInv
<1>1. UNCHANGED <<now, sessions>>
  BY DEF Refresh, store
<1>2. /\ calls[c] \in Calls /\ calls \in [Tabs -> Calls]
      /\ \A told \in Answers : Told(c, told).step = "idle"
  BY RecordsAreCalls DEF AInv, Types
<1>3. calls[c].tokens.refresh # 0 /\ (sessions[s].is => Renewable(s))
  BY DEF EndsForAReason, Ending, Refresh, At
<1>4. Lasting
  BY <1>1, StillLasts
<1>5. SUFFICES Ending(c)' /\ \A d \in Tabs : d # c => calls'[d] = calls[d]
  BY <1>4, ReasonsLast
<1>6. CASE WhenUnreachable(c) \/ WhenAnsweredNoTokens(c)
  <2>1. calls'[c].step \in {"idle", "refused"} /\ \A d \in Tabs : d # c => calls'[d] = calls[d]
    <3>1. CASE Tell(c, "unavailable")
      BY <1>2, <3>1 DEF Tell, Answers
    <3>2. CASE Step(c, "refused")
      BY <1>2, <3>2 DEF Step, Calls
    <3>. QED BY <1>6, <3>1, <3>2 DEF WhenUnreachable, WhenAnsweredNoTokens
  <2>. QED BY <2>1, NoReasonNeeded
<1>7. CASE ~(WhenUnreachable(c) \/ WhenAnsweredNoTokens(c))
  <2>1. PICK refresh \in Nat, expires \in Nat :
          /\ calls' = [calls EXCEPT ![c].step = "write",
                          ![c].tokens = [refresh |-> refresh, expires |-> expires]]
          /\ refresh = calls[c].tokens.refresh \/ refresh # 0
    BY <1>7, RenewedTokens
  <2>. DEFINE t == [refresh |-> refresh, expires |-> expires]
              r == [calls[c] EXCEPT !.step = "write", !.tokens = t]
  <2>2. calls' = [calls EXCEPT ![c] = r]
    BY <1>2, <2>1
  <2>3. t.refresh # 0
    BY <1>3, <2>1
  <2>. HIDE DEF t
  <2>4. r.step = "write" /\ r.session = s /\ r.tokens = t
    BY <1>2 DEF Calls
  <2>. HIDE DEF r
  <2>5. calls'[c] = r /\ \A d \in Tabs : d # c => calls'[d] = calls[d]
    BY <1>2, <2>2
  <2>. QED BY <1>1, <1>3, <2>3, <2>4, <2>5 DEF Ending, At, Renewable
<1>. QED BY <1>6, <1>7

\* Another request's reason survives the tokens a renewal writes: it had a
\* refresh token before, and has one now.
LEMMA WriteTokensHasReason ==
  ASSUME EndsInv, NEW c \in Tabs, WriteTokens(c) PROVE EndsForAReason'
<1>. DEFINE s == calls[c].session
<1>. USE DEF EndsInv
<1>1. UNCHANGED <<now, minted>>
  BY DEF WriteTokens, provider
<1>2. /\ s \in DOMAIN minted /\ s \in SessionIDs /\ calls[c] \in Calls /\ calls \in [Tabs -> Calls]
      /\ \A told \in Answers : Told(c, told).step = "idle"
      /\ Told(c, "nothing") \in Calls
  BY RecordsAreCalls, BehindACookie DEF WriteTokens, At, AInv, Types, Answers
<1>3. calls[c].tokens.refresh # 0 /\ (sessions[s].is => Renewable(s))
  BY DEF EndsForAReason, Ending, WriteTokens, At
<1>4. Lasting
  <2>1. CASE UNCHANGED sessions
    BY <1>1, <2>1, StillLasts
  <2>2. CASE sessions[s].is /\ sessions' = [sessions EXCEPT ![s].tokens = calls[c].tokens]
    <3>. DEFINE row == [sessions[s] EXCEPT !.tokens = calls[c].tokens]
    <3>1. sessions[s] \in SessionRows /\ sessions[s] # Missing
      BY <1>2, <2>2 DEF AInv, Types, Missing
    <3>2. row.expires = sessions[s].expires /\ row.tokens = calls[c].tokens
      BY <3>1 DEF SessionRows
    <3>3. sessions' = [sessions EXCEPT ![s] = row]
      BY <1>2, <2>2 DEF AInv, Types
    <3>. HIDE DEF row
    <3>4. sessions'[s] = row /\ \A t \in SessionIDs : t # s => sessions'[t] = sessions[t]
      BY <1>2, <3>3 DEF AInv, Types
    <3>5. SameRow(s)
      BY <1>3, <2>2, <3>2, <3>4 DEF SameRow, Renewable
    <3>6. \A t \in DOMAIN minted : t # s => sessions'[t] = sessions[t] /\ SameRow(t)
      BY <3>4 DEF AInv, InStoreOrOver, SameRow
    <3>7. now \in Nat
      BY DEF AInv, Types
    <3>. QED BY <1>1, <2>2, <3>5, <3>6, <3>7 DEF Lasting
  <2>. QED BY <2>1, <2>2 DEF WriteTokens, UpdateSessionTokens
<1>5. calls'[c].step \in {"idle", "signOut"} /\ \A d \in Tabs : d # c => calls'[d] = calls[d]
  <2>1. CASE Tell(c, "unavailable") \/ Tell(c, "principal")
    BY <1>2, <2>1 DEF Tell, Answers
  <2>2. CASE calls' = [calls EXCEPT ![c] = [Told(c, "nothing") EXCEPT !.step = "signOut"]]
    BY <1>2, <2>2 DEF Calls
  <2>. QED BY <2>1, <2>2 DEF WriteTokens, UpdateSessionTokens, Accept
<1>. QED BY <1>4, <1>5, NoReasonNeeded, ReasonsLast

LEMMA DepartureGivesNoReason ==
  ASSUME EndsInv, NEW c \in Tabs, EndSession(c) \/ SignOut(c) PROVE EndsForAReason'
<1>. DEFINE s == calls[c].session
<1>. USE DEF EndsInv
<1>1. UNCHANGED now
  BY DEF EndSession, SignOut, provider
<1>2. /\ s \in SessionIDs /\ calls \in [Tabs -> Calls]
      /\ \A told \in Answers : Told(c, told).step = "idle"
  BY RecordsAreCalls, BehindACookie DEF EndSession, SignOut, At, AInv, Types
<1>3. \A t \in SessionIDs : sessions'[t].is => sessions'[t] = sessions[t]
  <2>1. Remove(s) \/ Kept
    BY DEF EndSession, SignOut
  <2>. QED BY <1>2, <2>1 DEF Remove, Kept, AInv, Types, Missing
<1>4. Lasting
  BY <1>1, <1>3 DEF Lasting, SameRow, AInv, Types, InStoreOrOver
<1>5. calls'[c].step = "idle" /\ \A d \in Tabs : d # c => calls'[d] = calls[d]
  <2>1. Tell(c, "unauthenticated") \/ Tell(c, "signedOut") \/ Tell(c, "unavailable")
    BY DEF EndSession, SignOut
  <2>. QED BY <1>2, <2>1 DEF Tell, Answers
<1>. QED BY <1>4, <1>5, NoReasonNeeded, ReasonsLast

\* And what a call that is about to end a session knows of it
\* (Service.Authenticate, SignOut).
THEOREM EndingInvariant == Spec => []EndsInv
<1>1. Init => EndsForAReason
  BY Bounds DEF Init, EndsForAReason, Ending, At
<1>2. ASSUME EndsInv, [Next]_vars PROVE EndsForAReason'
  <2>1. CASE UNCHANGED vars
    <3>1. Lasting /\ UNCHANGED calls
      BY <1>2, <2>1, StillLasts DEF vars, store, provider, EndsInv
    <3>. QED BY <1>2, <3>1, ReasonLasts DEF EndsForAReason
  <2>2. CASE \/ BeginSignIn \/ Tick \/ PurgeExpired \/ Crash
             \/ \E n \in SignIns : AnswerProvider(n) \/ Revoke(n)
    BY <1>2, <2>2, OthersGiveNoReason
  <2>3. ASSUME NEW c \in Tabs, Serve(c) PROVE EndsForAReason'
    BY <1>2, <2>3, ArrivalsGiveNoReason, ExchangeGivesNoReason, CreateSessionGivesNoReason,
       AuthenticateHasReason, RefreshHasReason, WriteTokensHasReason, DepartureGivesNoReason
       DEF Serve
  <2>4. ASSUME NEW c \in Tabs,
               \/ \E n \in SignIns : Callback(c, n)
               \/ \E purpose \in {"read", "signOut"} : Request(c, purpose)
        PROVE  EndsForAReason'
    BY <1>2, <2>4, ArrivalsGiveNoReason
  <2>. QED BY <1>2, <2>1, <2>2, <2>3, <2>4 DEF Next
<1>. QED BY <1>1, <1>2, AccessInvariant, PTL DEF Spec, EndsInv

\* Which steps let go of a session, and of which.
LEMMA LetsGo ==
  ASSUME EndsInv, Next, NEW s \in SessionIDs, sessions[s].is, ~sessions'[s].is
  PROVE  \/ PurgeExpired /\ Expired(sessions[s])
         \/ \E c \in Tabs : (EndSession(c) \/ SignOut(c)) /\ calls[c].session = s
<1>. USE DEF EndsInv
<1>1. CASE UNCHANGED sessions
  BY <1>1
<1>2. CASE PurgeExpired
  BY <1>2 DEF PurgeExpired, AInv, Types
<1>3. ASSUME NEW c \in Tabs, CreateSession(c) PROVE FALSE
  <2>1. CASE UNCHANGED sessions
    BY <2>1
  <2>2. CASE Len(minted) + 1 \in SessionIDs /\ ~UNCHANGED sessions
    <3>. DEFINE session == [is |-> TRUE, principal |-> answered[calls[c].signIn],
                            grant |-> calls[c].signIn, expires |-> now + SessionLifetime,
                            tokens |-> calls[c].tokens]
    <3>1. sessions' = [sessions EXCEPT ![Len(minted) + 1] = session] /\ session.is
      BY <1>3, <2>2 DEF CreateSession
    <3>. HIDE DEF session
    <3>. QED BY <3>1 DEF AInv, Types
  <2>. QED BY <1>3, <2>1, <2>2 DEF CreateSession
<1>4. ASSUME NEW c \in Tabs, WriteTokens(c) PROVE FALSE
  <2>. DEFINE t == calls[c].session
              row == [sessions[t] EXCEPT !.tokens = calls[c].tokens]
  <2>1. CASE UNCHANGED sessions
    BY <2>1
  <2>2. CASE sessions[t].is /\ sessions' = [sessions EXCEPT ![t].tokens = calls[c].tokens]
    <3>1. t \in SessionIDs
      BY <1>4, BehindACookie DEF WriteTokens, At
    <3>2. sessions[t] \in SessionRows /\ sessions[t] # Missing
      BY <2>2, <3>1 DEF AInv, Types, Missing
    <3>3. row.is
      BY <3>2 DEF SessionRows
    <3>4. sessions' = [sessions EXCEPT ![t] = row]
      BY <2>2, <3>1 DEF AInv, Types
    <3>. HIDE DEF row
    <3>. QED BY <3>1, <3>3, <3>4 DEF AInv, Types
  <2>. QED BY <1>4, <2>1, <2>2 DEF WriteTokens, UpdateSessionTokens
<1>5. ASSUME NEW c \in Tabs, EndSession(c) \/ SignOut(c) PROVE calls[c].session = s
  <2>1. Remove(calls[c].session) \/ Kept
    BY <1>5 DEF EndSession, SignOut
  <2>. QED BY <2>1 DEF Remove, Kept, AInv, Types
<1>6. ASSUME NEW c \in Tabs,
             \/ CompleteSignIn(c) \/ Exchange(c) \/ Authenticate(c) \/ Refresh(c)
             \/ \E n \in SignIns : Callback(c, n)
             \/ \E purpose \in {"read", "signOut"} : Request(c, purpose)
      PROVE  UNCHANGED sessions
  BY <1>6 DEF CompleteSignIn, Exchange, Authenticate, Refresh, Callback, Request, store
<1>7. ASSUME \/ BeginSignIn \/ Tick \/ Crash \/ \E n \in SignIns : AnswerProvider(n) \/ Revoke(n)
      PROVE  UNCHANGED sessions
  BY <1>7 DEF BeginSignIn, Tick, Crash, AnswerProvider, Revoke, store
<1>. QED BY <1>1, <1>2, <1>3, <1>4, <1>5, <1>6, <1>7 DEF Next, Serve

\* A session leaves the store only because it is signed out, expired, without
\* a way to renew its tokens, or because the provider answered the renewal of
\* the request that ends it and gave no tokens (Service.Authenticate, renew,
\* SignOut, PurgeExpired): no restart, no other tab, no failing store and no
\* provider that does not answer signs anybody out.
THEOREM EndsForCause == Spec => EndsOnlyWhenOver
<1>1. ASSUME EndsInv, [Next]_vars, NEW s \in SessionIDs, sessions[s].is, ~sessions'[s].is
      PROVE  WhyOver(s)
  <2>1. Next
    BY <1>1 DEF vars, store
  <2>2. CASE Expired(sessions[s])
    BY <2>2 DEF WhyOver
  <2>3. ASSUME NEW c \in Tabs, EndSession(c), calls[c].session = s PROVE WhyOver(s)
    <3>1. CASE At(c, "end")
      <4>1. Ending(c)
        BY <1>1 DEF EndsInv, EndsForAReason
      <4>. QED BY <1>1, <2>3, <3>1, <4>1 DEF Ending, IsOver, WhyOver
    <3>2. CASE At(c, "refused")
      <4>1. calls \in [Tabs -> Calls] /\ \A told \in Answers : Told(c, told).step = "idle"
        BY <1>1, RecordsAreCalls DEF EndsInv, AInv, Types
      <4>2. calls'[c].step = "idle"
        BY <2>3, <4>1 DEF EndSession, Tell, Answers
      <4>. QED BY <2>3, <3>2, <4>2 DEF At, Leaves, WhyOver
    <3>. QED BY <2>3, <3>1, <3>2 DEF EndSession
  <2>4. ASSUME NEW c \in Tabs, SignOut(c), calls[c].session = s PROVE WhyOver(s)
    <3>1. At(c, "signOut") /\ (Tell(c, "signedOut") \/ Tell(c, "unavailable"))
      BY <2>4 DEF SignOut
    <3>2. calls \in [Tabs -> Calls] /\ \A told \in Answers : Told(c, told).step = "idle"
      BY <1>1, RecordsAreCalls DEF EndsInv, AInv, Types
    <3>3. calls'[c].step = "idle"
      BY <3>1, <3>2 DEF Tell, Answers
    <3>. QED BY <2>4, <3>1, <3>3 DEF At, Leaves, WhyOver
  <2>. QED BY <1>1, <2>1, <2>2, <2>3, <2>4, LetsGo
<1>2. EndsInv /\ [Next]_vars =>
        [\A s \in SessionIDs : sessions[s].is /\ ~sessions'[s].is => WhyOver(s)]_vars
  BY <1>1
<1>. QED BY <1>2, EndingInvariant, PTL DEF Spec, EndsOnlyWhenOver

=============================================================================
