------------------------------ MODULE HubProofs ------------------------------
(***************************************************************************)
(* For any number of operators, requests, places and repeats: a request    *)
(* may be repeated without harm, and no start is submitted into a tree the *)
(* hub knew to be busy when the call began.  For any runs and viewers: a   *)
(* dismissal hides the state that was looked at, and an overview shows a   *)
(* run that nothing happened to as it is.  For any recorded places: what a *)
(* response publishes of them is one tree.                                 *)
(***************************************************************************)
EXTENDS HubParts, FiniteSetTheorems, SequenceTheorems, WellFoundedInduction, TLAPS

\* Past its look at the recorded launches, a call may still submit.
Deciding == {"known", "place", "submit", "record"}

Calls == [step : {"idle", "repeat"} \cup Deciding, request : Requests \cup {""},
          busy : SUBSET (Trees \cup {NoTree}), worked : SUBSET Trees]

LaunchTypes ==
  /\ registry \in [Trees -> Callers \cup {NoBody}]
  /\ launches \in [Requests -> Callers \cup {NoBody}]
  /\ begun \in [Requests -> Nat] /\ running \subseteq Requests
  /\ overEarly \subseteq Requests
  /\ call \in [Callers -> Calls]
  /\ \A c \in Callers : call[c].step # "idle" => call[c].request \in Requests
  /\ seen \subseteq Requests /\ worked \subseteq Trees
  /\ answers \subseteq Requests \X Callers
  /\ watched \in [Callers -> SUBSET Trees]

\* A run that is over, and early for nobody, has its launch on record, and no
\* call of its request is past its look at it.
OverIsKnown ==
  \A r \in Requests :
    begun[r] > 0 /\ r \notin running /\ r \notin overEarly =>
      /\ launches[r] # NoBody
      /\ \A c \in Callers : call[c].request = r => call[c].step \notin Deciding

\* What runs was begun, and a launch is recorded of a run that was.
RecordedWasBegun ==
  /\ \A r \in running : begun[r] > 0
  /\ \A r \in Requests : launches[r] # NoBody => begun[r] > 0
  /\ \A c \in Callers : At(c, "record") => begun[call[c].request] > 0

\* What the sources showed when the call began and show still, its look at the
\* work saw.
WatchedIsBusy ==
  \A c \in Callers :
    /\ call[c].step \in {"repeat", "known"} => watched[c] \subseteq BusyTrees
    /\ At(c, "place") => watched[c] \subseteq call[c].busy

-----------------------------------------------------------------------------
(* Types.                                                                  *)

LEMMA NoOneIsACall == NoOne \in Calls /\ NoOne.step = "idle"
BY DEF NoOne, Calls

\* A call that is over, or goes on to its next step, is a call still.
LEMMA CallStays ==
  ASSUME LaunchTypes, NEW c \in Callers, NEW next \in Calls,
         next.step # "idle" => next.request \in Requests,
         call' = [call EXCEPT ![c] = next]
  PROVE  /\ call' \in [Callers -> Calls]
         /\ \A d \in Callers : call'[d].step # "idle" => call'[d].request \in Requests
BY DEF LaunchTypes

\* A call's next step keeps its request.
LEMMA NextIsACall ==
  ASSUME NEW old \in Calls, NEW step \in Deciding
  PROVE  /\ [old EXCEPT !.step = step] \in Calls
         /\ [old EXCEPT !.step = step].request = old.request
BY DEF Calls

LEMMA InitTypes == InitLaunch => LaunchTypes
<1> SUFFICES ASSUME InitLaunch PROVE LaunchTypes
  OBVIOUS
<1>1. call \in [Callers -> Calls] /\ \A c \in Callers : call[c].step = "idle"
  BY NoOneIsACall DEF InitLaunch
<1> QED
  BY <1>1, LaunchAssumption DEF InitLaunch, LaunchTypes

LEMMA TypesStep == LaunchTypes /\ NextLaunch => LaunchTypes'
<1> SUFFICES ASSUME LaunchTypes, NextLaunch PROVE LaunchTypes'
  OBVIOUS
<1> USE LaunchAssumption DEF runs
<1> DEFINE CallsHold == /\ call' \in [Callers -> Calls]
                        /\ \A d \in Callers :
                             call'[d].step # "idle" => call'[d].request \in Requests
<1>1. ASSUME NEW c \in Callers, Over(c) PROVE CallsHold /\ watched' \in [Callers -> SUBSET Trees]
  <2>1. CallsHold
    BY <1>1, CallStays, NoOneIsACall DEF Over
  <2> QED
    BY <1>1, <2>1 DEF Over, LaunchTypes
<1>2. ASSUME NEW c \in Callers, NEW step \in Deciding, ~At(c, "idle"),
             Goes(c, [call[c] EXCEPT !.step = step])
      PROVE  CallsHold
  <2>1. call[c] \in Calls /\ call[c].request \in Requests
    BY <1>2 DEF LaunchTypes, At
  <2>2. [call[c] EXCEPT !.step = step] \in Calls
        /\ [call[c] EXCEPT !.step = step].request = call[c].request
    BY <2>1, NextIsACall
  <2> QED
    BY <1>2, <2>1, <2>2, CallStays DEF Goes
<1>3. ASSUME NEW c \in Callers, NEW typed \in Typed, Register(c, typed) PROVE LaunchTypes'
  BY <1>3 DEF LaunchTypes, Register
<1>4. ASSUME NEW c \in Callers, NEW r \in Requests, Begin(c, r) PROVE LaunchTypes'
  <2>1. BusyTrees \ {NoTree} \subseteq Trees
    BY DEF LaunchTypes, BusyTrees, RunsIn
  <2>2. [NoOne EXCEPT !.step = "repeat", !.request = r] \in Calls
        /\ [NoOne EXCEPT !.step = "repeat", !.request = r].request = r
    BY DEF NoOne, Calls
  <2>3. CallsHold
    BY <1>4, <2>2, CallStays DEF Begin, Goes
  <2> QED
    BY <1>4, <2>1, <2>3 DEF LaunchTypes, Begin
<1>5. ASSUME NEW c \in Callers, StartWork(c) PROVE LaunchTypes'
  <2>1. CASE Unavailable(c)
    BY <2>1, <1>1 DEF LaunchTypes, Unavailable
  <2>2. CASE AlreadyStarted(c)
    <3>1. CASE launches[call[c].request] # NoBody
      BY <2>2, <3>1, <1>1 DEF LaunchTypes, AlreadyStarted, At
    <3>2. CASE launches[call[c].request] = NoBody
      <4>1. CallsHold
        BY <2>2, <3>2, <1>2 DEF AlreadyStarted, At, Deciding
      <4> QED
        BY <2>2, <3>2, <4>1 DEF LaunchTypes, AlreadyStarted
    <3> QED
      BY <3>1, <3>2
  <2>3. CASE KnownWork(c)
    <3>1. BusyTrees \subseteq Trees \cup {NoTree}
      BY DEF LaunchTypes, BusyTrees, RunsIn
    <3> DEFINE next == [call[c] EXCEPT !.step = "place", !.busy = BusyTrees, !.worked = worked]
    <3>2. call[c] \in Calls /\ call[c].request \in Requests /\ worked \in SUBSET Trees
      BY <2>3 DEF LaunchTypes, KnownWork, At
    <3>3. next \in Calls /\ next.request = call[c].request
      BY <3>1, <3>2 DEF Calls, Deciding
    <3>4. CallsHold
      BY <2>3, <3>2, <3>3, CallStays DEF KnownWork, Goes
    <3> QED
      BY <2>3, <3>4 DEF LaunchTypes, KnownWork
  <2>4. CASE PlaceToWorkIn(c)
    <3>1. CallsHold /\ watched' \in [Callers -> SUBSET Trees]
      BY <2>4, <1>1, <1>2 DEF PlaceToWorkIn, At, Deciding, LaunchTypes
    <3> QED
      BY <2>4, <3>1 DEF LaunchTypes, PlaceToWorkIn
  <2>5. CASE Submit(c)
    <3>1. CallsHold /\ watched' \in [Callers -> SUBSET Trees]
      BY <2>5, <1>1, <1>2 DEF Submit, At, Deciding, LaunchTypes
    <3>2. call[c].request \in Requests
      BY <2>5 DEF LaunchTypes, Submit, At
    <3> QED
      BY <2>5, <3>1, <3>2 DEF LaunchTypes, Submit, RunBegins
  <2>6. CASE Record(c)
    <3>1. CallsHold /\ watched' \in [Callers -> SUBSET Trees]
      BY <2>6, <1>1 DEF Record
    <3>2. call[c].request \in Requests
      BY <2>6 DEF LaunchTypes, Record, At
    <3> QED
      BY <2>6, <3>1, <3>2 DEF LaunchTypes, Record
  <2> QED
    BY <1>5, <2>1, <2>2, <2>3, <2>4, <2>5, <2>6 DEF StartWork
<1>6. ASSUME NEW r \in Requests, Appear(r) PROVE LaunchTypes'
  BY <1>6 DEF LaunchTypes, Appear
<1>7. ASSUME NEW r \in Requests, End(r) PROVE LaunchTypes'
  BY <1>7 DEF LaunchTypes, End, NoLongerWatched
<1>8. ASSUME OtherLeaves PROVE LaunchTypes'
  BY <1>8 DEF LaunchTypes, OtherLeaves, NoLongerWatched
<1> QED
  BY <1>3, <1>4, <1>5, <1>6, <1>7, <1>8 DEF NextLaunch

-----------------------------------------------------------------------------
(* Requests may be repeated.                                               *)

Idempotent == OverIsKnown /\ RecordedWasBegun /\ RequestsAreIdempotent

LEMMA InitIdempotent == InitLaunch => Idempotent
BY NoOneIsACall
DEF InitLaunch, Idempotent, OverIsKnown, RecordedWasBegun, RequestsAreIdempotent,
    OneRunPerRequest, AnswersAgree, At

\* A step that leaves runs, launches and answers alone, and takes a call at most
\* back to the start or past a look that found nothing.
LEMMA QuietIdempotent ==
  ASSUME LaunchTypes, Idempotent, UNCHANGED <<launches, begun, running, overEarly, answers>>,
         \A c \in Callers :
           \/ call'[c] = call[c]
           \/ call'[c].step \notin Deciding
           \/ /\ call'[c].request = call[c].request /\ call'[c].step # "record"
              /\ call[c].step \in Deciding \/ launches[call[c].request] = NoBody
  PROVE  Idempotent'
<1>1. OverIsKnown'
  BY DEF Idempotent, OverIsKnown
<1>2. RecordedWasBegun'
  BY DEF Idempotent, RecordedWasBegun, Deciding, At
<1>3. RequestsAreIdempotent'
  BY DEF Idempotent, RequestsAreIdempotent, OneRunPerRequest, AnswersAgree
<1> QED
  BY <1>1, <1>2, <1>3 DEF Idempotent

LEMMA IdempotentStep == LaunchTypes /\ Idempotent /\ NextLaunch => Idempotent'
<1> SUFFICES ASSUME LaunchTypes, Idempotent, NextLaunch PROVE Idempotent'
  OBVIOUS
<1> USE DEF runs
<1>1. ASSUME NEW c \in Callers, Over(c)
      PROVE  \A d \in Callers : call'[d] = call[d] \/ call'[d].step \notin Deciding
  BY <1>1, NoOneIsACall DEF Over, LaunchTypes, Deciding
<1>2. ASSUME NEW c \in Callers, NEW typed \in Typed, Register(c, typed) PROVE Idempotent'
  BY <1>2, QuietIdempotent DEF Register
<1>3. ASSUME NEW c \in Callers, NEW r \in Requests, Begin(c, r) PROVE Idempotent'
  <2>1. \A d \in Callers : call'[d] = call[d] \/ call'[d].step \notin Deciding
    BY <1>3 DEF Begin, Goes, NoOne, LaunchTypes, Deciding
  <2> QED
    BY <1>3, <2>1, QuietIdempotent DEF Begin
<1>4. ASSUME NEW c \in Callers, Unavailable(c) PROVE Idempotent'
  BY <1>4, <1>1, QuietIdempotent DEF Unavailable
<1>5. ASSUME NEW c \in Callers, AlreadyStarted(c) PROVE Idempotent'
  <2> DEFINE r == call[c].request
  <2>1. r \in Requests
    BY <1>5 DEF AlreadyStarted, At, LaunchTypes
  <2>2. CASE launches[r] # NoBody
    <3>1. /\ UNCHANGED <<launches, begun, running, overEarly>>
          /\ answers' = answers \cup {<<r, launches[r]>>}
          /\ \A d \in Callers : call'[d] = call[d] \/ call'[d].step \notin Deciding
      BY <1>5, <1>1, <2>2 DEF AlreadyStarted
    <3>2. OverIsKnown'
      BY <3>1 DEF Idempotent, OverIsKnown
    <3>3. RecordedWasBegun'
      BY <3>1 DEF Idempotent, RecordedWasBegun, At, Deciding
    <3>4. RequestsAreIdempotent'
      BY <2>1, <2>2, <3>1
      DEF Idempotent, RecordedWasBegun, RequestsAreIdempotent, OneRunPerRequest, AnswersAgree
    <3> QED
      BY <3>2, <3>3, <3>4 DEF Idempotent
  <2>3. CASE launches[r] = NoBody
    <3>1. Goes(c, [call[c] EXCEPT !.step = "known"])
      BY <1>5, <2>3 DEF AlreadyStarted
    <3>2. UNCHANGED <<launches, begun, running, overEarly, answers>>
      BY <1>5, <2>3 DEF AlreadyStarted
    <3>3. \A d \in Callers :
            \/ call'[d] = call[d]
            \/ /\ call'[d].request = call[d].request /\ call'[d].step # "record"
               /\ launches[call[d].request] = NoBody
      BY <2>3, <3>1 DEF Goes, LaunchTypes, Calls
    <3> HIDE DEF r
    <3> QED
      BY <3>2, <3>3, QuietIdempotent
  <2> QED
    BY <2>2, <2>3
<1>6. ASSUME NEW c \in Callers, KnownWork(c) PROVE Idempotent'
  <2>1. \A d \in Callers :
          \/ call'[d] = call[d]
          \/ d = c /\ call'[d].request = call[c].request /\ call'[d].step = "place"
    BY <1>6 DEF KnownWork, Goes, LaunchTypes, Calls
  <2> QED
    BY <1>6, <2>1, QuietIdempotent DEF KnownWork, At, Deciding
<1>7. ASSUME NEW c \in Callers, PlaceToWorkIn(c) PROVE Idempotent'
  <2>1. \A d \in Callers :
          \/ call'[d] = call[d] \/ call'[d].step \notin Deciding
          \/ d = c /\ call'[d].request = call[c].request /\ call'[d].step = "submit"
    <3>1. CASE Over(c)
      BY <3>1, <1>1
    <3>2. CASE Goes(c, [call[c] EXCEPT !.step = "submit"])
      BY <3>2 DEF Goes, LaunchTypes, Calls
    <3> QED
      BY <1>7, <3>1, <3>2 DEF PlaceToWorkIn
  <2> QED
    BY <1>7, <2>1, QuietIdempotent DEF PlaceToWorkIn, At, Deciding
<1>8. ASSUME NEW c \in Callers, Submit(c) PROVE Idempotent'
  <2> DEFINE r == call[c].request
  <2>1. r \in Requests /\ begun[r] \in Nat /\ call[c].step = "submit"
    BY <1>8 DEF Submit, At, LaunchTypes
  <2>2. /\ running' = running \cup {r} /\ UNCHANGED <<launches, overEarly, answers>>
        /\ begun' = [begun EXCEPT ![r] = IF r \in running THEN @ ELSE @ + 1]
    BY <1>8 DEF Submit, RunBegins
  <2>3. \A d \in Callers :
          \/ call'[d] = call[d] \/ call'[d].step \notin Deciding
          \/ d = c /\ call'[d].request = r /\ call'[d].step = "record"
    <3>1. CASE Over(c)
      BY <3>1, <1>1
    <3>2. CASE Goes(c, [call[c] EXCEPT !.step = "record"])
      BY <3>2 DEF Goes, LaunchTypes, Calls
    <3> QED
      BY <1>8, <3>1, <3>2 DEF Submit
  <2>4. \A s \in Requests : /\ s # r => begun'[s] = begun[s]
                            /\ begun'[r] > 0 /\ begun'[r] >= begun[r]
                            /\ begun'[r] > 1 => begun[r] > 1 \/ r \in overEarly
    <3>1. r \in running \/ begun[r] = 0 \/ r \in overEarly
      BY <2>1 DEF Idempotent, OverIsKnown, Deciding
    <3>2. r \in running => begun[r] > 0
      BY <2>1 DEF Idempotent, RecordedWasBegun
    <3> QED
      BY <2>1, <2>2, <3>1, <3>2 DEF LaunchTypes
  <2>5. OverIsKnown'
    BY <2>2, <2>3, <2>4 DEF Idempotent, OverIsKnown, LaunchTypes
  <2>6. RecordedWasBegun'
    BY <2>1, <2>2, <2>3, <2>4 DEF Idempotent, RecordedWasBegun, At, Deciding, LaunchTypes
  <2>7. RequestsAreIdempotent'
    BY <2>2, <2>4
    DEF Idempotent, RequestsAreIdempotent, OneRunPerRequest, AnswersAgree, LaunchTypes
  <2> QED
    BY <2>5, <2>6, <2>7 DEF Idempotent
<1>9. ASSUME NEW c \in Callers, Record(c) PROVE Idempotent'
  <2> DEFINE r == call[c].request
             stored == IF launches[r] = NoBody THEN c ELSE launches[r]
  <2>1. r \in Requests /\ begun[r] > 0
    BY <1>9 DEF Record, At, LaunchTypes, Idempotent, RecordedWasBegun
  <2>2. /\ launches' = [launches EXCEPT ![r] = stored]
        /\ answers' \in {answers, answers \cup {<<r, stored>>}}
        /\ UNCHANGED <<begun, running, overEarly>>
        /\ \A d \in Callers : call'[d] = call[d] \/ call'[d].step \notin Deciding
    BY <1>9, <1>1 DEF Record
  <2>3. /\ stored # NoBody /\ launches'[r] = stored
        /\ \A s \in Requests : launches[s] # NoBody => launches'[s] = launches[s]
        /\ \A s \in Requests : s # r => launches'[s] = launches[s]
    BY <2>1, <2>2, LaunchAssumption DEF LaunchTypes
  <2>4. OverIsKnown'
    BY <2>2, <2>3 DEF Idempotent, OverIsKnown
  <2>5. RecordedWasBegun'
    BY <2>1, <2>2, <2>3 DEF Idempotent, RecordedWasBegun, At, Deciding
  <2>6. AnswersAgree'
    <3>1. \A a \in answers : /\ a[1] \in Requests /\ a[2] \in Callers /\ begun[a[1]] > 0
                             /\ launches[a[1]] = a[2]
      BY DEF Idempotent, RequestsAreIdempotent, AnswersAgree, LaunchTypes
    <3> HIDE DEF stored
    <3> QED
      BY <2>1, <2>2, <2>3, <3>1, LaunchAssumption DEF AnswersAgree
  <2> QED
    BY <2>2, <2>4, <2>5, <2>6 DEF Idempotent, RequestsAreIdempotent, OneRunPerRequest
<1>10. ASSUME NEW r \in Requests, Appear(r) PROVE Idempotent'
  BY <1>10, QuietIdempotent DEF Appear
<1>11. ASSUME NEW r \in Requests, End(r) PROVE Idempotent'
  <2>1. /\ UNCHANGED <<launches, begun, call, answers>> /\ running' = running \ {r}
        /\ overEarly' = IF Unaware(r) THEN overEarly \cup {r} ELSE overEarly
    BY <1>11 DEF End
  <2>2. OverIsKnown'
    BY <2>1 DEF Idempotent, OverIsKnown, Unaware, Deciding
  <2>3. RecordedWasBegun' /\ RequestsAreIdempotent'
    BY <2>1
    DEF Idempotent, RecordedWasBegun, At, RequestsAreIdempotent, OneRunPerRequest, AnswersAgree
  <2> QED
    BY <2>2, <2>3 DEF Idempotent
<1>12. ASSUME OtherLeaves PROVE Idempotent'
  BY <1>12, QuietIdempotent DEF OtherLeaves
<1> QED
  BY <1>2, <1>3, <1>4, <1>5, <1>6, <1>7, <1>8, <1>9, <1>10, <1>11, <1>12
  DEF NextLaunch, StartWork

-----------------------------------------------------------------------------
(* No start collides with work the hub knew of.                            *)

Careful == WatchedIsBusy /\ NeverCollidesKnowingly

LEMMA InitCareful == InitLaunch => Careful
BY NoOneIsACall DEF InitLaunch, Careful, WatchedIsBusy, NeverCollidesKnowingly, At

\* A step of one call, which changes what is going on nowhere.
LEMMA CallCareful ==
  ASSUME LaunchTypes, Careful, NEW c \in Callers, BusyTrees \subseteq BusyTrees',
         \A d \in Callers \ {c} : call'[d] = call[d] /\ watched'[d] = watched[d],
         call'[c].step \in {"repeat", "known"} => watched'[c] \subseteq BusyTrees',
         call'[c].step = "place" => watched'[c] \subseteq call'[c].busy,
         call'[c].step = "submit" => Target[call'[c].request] \notin watched'[c]
  PROVE  Careful'
<1>1. \A d \in Callers \ {c} :
        /\ call'[d].step \in {"repeat", "known"} => watched'[d] \subseteq BusyTrees'
        /\ call'[d].step = "place" => watched'[d] \subseteq call'[d].busy
        /\ call'[d].step = "submit" => Target[call'[d].request] \notin watched'[d]
  BY DEF Careful, WatchedIsBusy, NeverCollidesKnowingly, At
<1> QED
  BY <1>1 DEF Careful, WatchedIsBusy, NeverCollidesKnowingly, At

\* Work ends in one tree, and nobody watches that one any more.
LEMMA EndCareful ==
  ASSUME LaunchTypes, Careful, NEW t, BusyTrees \ {t} \subseteq BusyTrees', call' = call,
         NoLongerWatched(t)
  PROVE  Careful'
<1>1. \A c \in Callers : watched'[c] = watched[c] \ {t}
  BY DEF NoLongerWatched
<1>2. WatchedIsBusy'
  BY <1>1 DEF Careful, WatchedIsBusy, At
<1>3. NeverCollidesKnowingly'
  BY <1>1 DEF Careful, NeverCollidesKnowingly, At
<1> QED
  BY <1>2, <1>3 DEF Careful

LEMMA CarefulStep == LaunchTypes /\ Careful /\ NextLaunch => Careful'
<1> SUFFICES ASSUME LaunchTypes, Careful, NextLaunch PROVE Careful'
  OBVIOUS
<1> USE DEF runs
<1>1. ASSUME NEW c \in Callers, Over(c), BusyTrees \subseteq BusyTrees' PROVE Careful'
  BY <1>1, NoOneIsACall, CallCareful DEF Over, LaunchTypes
<1>2. ASSUME UNCHANGED <<seen, other>> PROVE BusyTrees' = BusyTrees
  BY <1>2 DEF BusyTrees, RunsIn
<1>3. ASSUME NEW c \in Callers, NEW step, Goes(c, [call[c] EXCEPT !.step = step])
      PROVE  /\ \A d \in Callers \ {c} : call'[d] = call[d]
             /\ call'[c].step = step /\ call'[c].request = call[c].request
  BY <1>3 DEF Goes, LaunchTypes, Calls
<1>4. ASSUME NEW c \in Callers, NEW typed \in Typed, Register(c, typed) PROVE Careful'
  BY <1>4, <1>2, CallCareful DEF Register, Careful, WatchedIsBusy, NeverCollidesKnowingly, At
<1>5. ASSUME NEW c \in Callers, NEW r \in Requests, Begin(c, r) PROVE Careful'
  <2>1. /\ \A d \in Callers \ {c} : call'[d] = call[d] /\ watched'[d] = watched[d]
        /\ call'[c].step = "repeat" /\ watched'[c] = BusyTrees \ {NoTree}
        /\ BusyTrees' = BusyTrees
    BY <1>5, <1>2 DEF Begin, Goes, NoOne, LaunchTypes
  <2> QED
    BY <2>1, CallCareful
<1>6. ASSUME NEW c \in Callers, Unavailable(c) PROVE Careful'
  BY <1>6, <1>1, <1>2 DEF Unavailable
<1>7. ASSUME NEW c \in Callers, AlreadyStarted(c) PROVE Careful'
  <2>1. BusyTrees' = BusyTrees
    BY <1>7, <1>2 DEF AlreadyStarted
  <2>2. CASE Over(c)
    BY <2>1, <2>2, <1>1
  <2>3. CASE Goes(c, [call[c] EXCEPT !.step = "known"]) /\ UNCHANGED watched
    <3>1. watched[c] \subseteq BusyTrees
      BY <1>7 DEF AlreadyStarted, At, Careful, WatchedIsBusy
    <3> QED
      BY <2>1, <2>3, <3>1, <1>3, CallCareful
  <2> QED
    BY <1>7, <2>2, <2>3 DEF AlreadyStarted
<1>8. ASSUME NEW c \in Callers, KnownWork(c) PROVE Careful'
  <2>1. /\ \A d \in Callers \ {c} : call'[d] = call[d] /\ watched'[d] = watched[d]
        /\ call'[c].step = "place" /\ call'[c].busy = BusyTrees /\ watched'[c] = watched[c]
        /\ BusyTrees' = BusyTrees
    BY <1>8, <1>2 DEF KnownWork, Goes, LaunchTypes, Calls
  <2>2. watched[c] \subseteq BusyTrees
    BY <1>8 DEF KnownWork, At, Careful, WatchedIsBusy
  <2> QED
    BY <2>1, <2>2, CallCareful
<1>9. ASSUME NEW c \in Callers, PlaceToWorkIn(c) PROVE Careful'
  <2>1. BusyTrees' = BusyTrees
    BY <1>9, <1>2 DEF PlaceToWorkIn
  <2>2. CASE Over(c)
    BY <2>1, <2>2, <1>1
  <2>3. CASE /\ Goes(c, [call[c] EXCEPT !.step = "submit"]) /\ UNCHANGED watched
             /\ Target[call[c].request] \notin call[c].busy
    <3>1. watched[c] \subseteq call[c].busy
      BY <1>9 DEF PlaceToWorkIn, At, Careful, WatchedIsBusy
    <3>2. /\ \A d \in Callers \ {c} : call'[d] = call[d] /\ watched'[d] = watched[d]
          /\ call'[c].step = "submit" /\ call'[c].request = call[c].request
      BY <2>3, <1>3
    <3>3. Target[call'[c].request] \notin watched'[c]
      BY <2>3, <3>1, <3>2
    <3> QED
      BY <2>1, <3>2, <3>3, CallCareful
  <2> QED
    BY <1>9, <2>2, <2>3 DEF PlaceToWorkIn
<1>10. ASSUME NEW c \in Callers, Submit(c) PROVE Careful'
  <2>1. BusyTrees' = BusyTrees
    BY <1>10, <1>2 DEF Submit, RunBegins
  <2>2. CASE Over(c)
    BY <2>1, <2>2, <1>1
  <2>3. CASE Goes(c, [call[c] EXCEPT !.step = "record"]) /\ UNCHANGED watched
    BY <2>1, <2>3, <1>3, CallCareful
  <2> QED
    BY <1>10, <2>2, <2>3 DEF Submit
<1>11. ASSUME NEW c \in Callers, Record(c) PROVE Careful'
  BY <1>11, <1>1, <1>2 DEF Record
<1>12. ASSUME NEW r \in Requests, Appear(r) PROVE Careful'
  <2>1. BusyTrees \subseteq BusyTrees' /\ UNCHANGED <<call, watched>>
    BY <1>12 DEF Appear, BusyTrees, RunsIn
  <2> QED
    BY <2>1 DEF Careful, WatchedIsBusy, NeverCollidesKnowingly, At
<1>13. ASSUME NEW r \in Requests, End(r) PROVE Careful'
  <2>1. BusyTrees \ {RunsIn(r)} \subseteq BusyTrees'
    BY <1>13 DEF End, BusyTrees, RunsIn
  <2> QED
    BY <1>13, <2>1, EndCareful DEF End
<1>14. ASSUME OtherLeaves PROVE Careful'
  <2>1. BusyTrees \ {Elsewhere} \subseteq BusyTrees'
    BY <1>14 DEF OtherLeaves, BusyTrees, RunsIn
  <2> QED
    BY <1>14, <2>1, EndCareful DEF OtherLeaves
<1> QED
  BY <1>4, <1>5, <1>6, <1>7, <1>8, <1>9, <1>10, <1>11, <1>12, <1>13, <1>14
  DEF NextLaunch, StartWork

-----------------------------------------------------------------------------
(* The theorems.                                                           *)

LEMMA LaunchInductive == LaunchSpec => [](LaunchTypes /\ Idempotent /\ Careful)
<1> DEFINE Inv == LaunchTypes /\ Idempotent /\ Careful
<1>1. InitLaunch => Inv
  BY InitTypes, InitIdempotent, InitCareful
<1>2. Inv /\ [NextLaunch]_launchVars => Inv'
  <2>1. CASE NextLaunch
    BY <2>1, TypesStep, IdempotentStep, CarefulStep
  <2>2. CASE UNCHANGED launchVars
    BY <2>2
    DEF launchVars, runs, LaunchTypes, Idempotent, OverIsKnown, RecordedWasBegun,
        RequestsAreIdempotent, OneRunPerRequest, AnswersAgree, Careful, WatchedIsBusy,
        NeverCollidesKnowingly, BusyTrees, RunsIn, At
  <2> QED
    BY <2>1, <2>2
<1> QED
  BY <1>1, <1>2, PTL DEF LaunchSpec

\* However many operators repeat a request however often, and whatever answers
\* are lost on the way: its run is begun again only where it was over before its
\* launch was recorded, and every answer names the recorded initiator
\* (agenthub/launch.go StartWork).
THEOREM RepeatsAreHarmless == LaunchSpec => []RequestsAreIdempotent
<1>1. Idempotent => RequestsAreIdempotent
  BY DEF Idempotent
<1> QED
  BY <1>1, LaunchInductive, PTL

\* A start is never submitted into a tree where work went on all through the
\* call and the hub's sources showed it (agenthub/launch.go knownWork).
THEOREM KnownWorkIsRespected == LaunchSpec => []NeverCollidesKnowingly
<1>1. Careful => NeverCollidesKnowingly
  BY DEF Careful
<1> QED
  BY <1>1, LaunchInductive, PTL

-----------------------------------------------------------------------------
(* Dismissals.                                                             *)

\* What is about to be hidden is what the viewer looked at, and there is
\* something: the reads since then only decide whether it is hidden at all.
Reviewed ==
  /\ dismiss.step # "idle" => dismiss.viewed # {}
  /\ dismiss.step = "store" => dismiss.item = dismiss.viewed

LEMMA ReviewedStarts == Init => Reviewed
  BY DEF Init, Reviewed, NoDismissal

\* The runs and the reads of the collection leave the dismissals alone.
LEMMA OthersHideNothing ==
  ASSUME ReadStep \/ (\E c \in Chains : WorldStep(c))
  PROVE  UNCHANGED <<hidden, dismiss>>
<1>1. ReadStep => UNCHANGED <<hidden, dismiss>>
  BY DEF ReadStep, BeginRead, ReadLive, ReadPage, ResolvePage, ReadFails
<1>2. ASSUME NEW c, WorldStep(c) PROVE UNCHANGED <<hidden, dismiss>>
  BY <1>2 DEF WorldStep, StartRun, RecordStart, Ask, SettleRow, ContinueAsNew, Close, Forget, List,
              Happens
<1>. QED BY <1>1, <1>2

LEMMA DismissStepReviewed == Reviewed /\ DismissStep => Reviewed'
<1>. SUFFICES ASSUME Reviewed, DismissStep PROVE Reviewed'
  OBVIOUS
<1>1. ASSUME NEW c, View(c) PROVE Reviewed'
  <2>. DEFINE shown == ItemFrom(c, RowsRead(c))
  <2>1. shown # {} /\ dismiss' = [NoDismissal EXCEPT !.step = "rows", !.id = c, !.viewed = shown]
    BY <1>1 DEF View
  <2>. HIDE DEF shown
  <2>. QED BY <2>1 DEF Reviewed, NoDismissal
<1>2. CASE ReadRows
  <2>. DEFINE chain == RowsRead(dismiss.id)
  <2>1. dismiss.step = "rows" /\ dismiss' = [dismiss EXCEPT !.step = "live", !.chain = chain]
    BY <1>2 DEF ReadRows
  <2>. HIDE DEF chain
  <2>. QED BY <2>1 DEF Reviewed
<1>3. CASE CheckRevision
  <2>1. CASE Current = dismiss.viewed
    <3>1. /\ dismiss.step = "live"
          /\ dismiss' = [dismiss EXCEPT !.step = "store", !.chain = {}, !.item = dismiss.viewed]
      BY <1>3, <2>1 DEF CheckRevision
    <3>. QED BY <3>1 DEF Reviewed
  <2>2. CASE Current # dismiss.viewed
    BY <1>3, <2>2 DEF CheckRevision, Reviewed, NoDismissal
  <2>. QED BY <2>1, <2>2
<1>4. CASE StoreDismissal
  BY <1>4 DEF StoreDismissal, Reviewed, NoDismissal
<1>5. ASSUME NEW c, Undismiss(c) PROVE Reviewed'
  BY <1>5 DEF Undismiss, Reviewed
<1>. QED BY <1>1, <1>2, <1>3, <1>4, <1>5 DEF DismissStep

LEMMA ReviewedStep == Reviewed /\ [Next]_vars => Reviewed'
<1>. SUFFICES ASSUME Reviewed, [Next]_vars PROVE Reviewed'
  OBVIOUS
<1>1. CASE UNCHANGED <<hidden, dismiss>>
  BY <1>1 DEF Reviewed
<1>2. CASE DismissStep
  BY <1>2, DismissStepReviewed
<1>. QED BY <1>1, <1>2, OthersHideNothing DEF Next, vars

\* What a step hides anew, it hides in the state that was looked at.
LEMMA HidesTheReviewed ==
  ASSUME Reviewed, [Next]_vars, NEW c \in DOMAIN hidden',
         c \notin DOMAIN hidden \/ hidden[c] # hidden'[c]
  PROVE  hidden'[c] \in dismiss.viewed
<1>1. UNCHANGED hidden \/ DismissStep
  BY OthersHideNothing DEF Next, vars
<1>2. ~UNCHANGED hidden
  OBVIOUS
<1>3. CASE StoreDismissal
  <2>1. c = dismiss.id /\ hidden'[c] = (CHOOSE item \in dismiss.item : TRUE)
    BY <1>3 DEF StoreDismissal
  <2>2. dismiss.item = dismiss.viewed /\ dismiss.item # {}
    BY <1>3 DEF StoreDismissal, Reviewed
  <2>. QED BY <2>1, <2>2
<1>4. ASSUME NEW d, Undismiss(d) PROVE FALSE
  BY <1>4 DEF Undismiss
<1>5. StoreDismissal \/ \E d : Undismiss(d)
  BY <1>1, <1>2 DEF DismissStep, View, ReadRows, CheckRevision
<1>. QED BY <1>3, <1>4, <1>5

\* For any chains, viewers and collection: a dismissal hides exactly the state
\* its viewer looked at, however the run went on in between and in whatever
\* order its sources were read (agenthub/service.go DismissFor,
\* currentStateRevision: a stale state revision is refused).
THEOREM HidesTheSeen == Spec => HidesWhatWasSeen
<1>1. Spec => []Reviewed
  BY ReviewedStarts, ReviewedStep, PTL DEF Spec
<1>2. Reviewed /\ [Next]_vars =>
        [\A c \in DOMAIN hidden' :
           (c \notin DOMAIN hidden \/ hidden[c] # hidden'[c]) => hidden'[c] \in dismiss.viewed]_vars
  BY HidesTheReviewed
<1>. QED BY <1>1, <1>2, PTL DEF Spec, HidesWhatWasSeen

-----------------------------------------------------------------------------
(* The values that are referred to.                                        *)

Placeable == Directories \cup Remotes

\* What a recorded fact says of a place.
Carried ==
  {<<Unknown>>} \cup {<<a>> : a \in Placeable} \cup {<<v[1], v[2]>> : v \in Placeable \X Placeable}

\* The values a response refers to, with the ancestors they carry.
Referred == UNION {Place!Ancestors(Place!Values[i]) : i \in DOMAIN Place!Values}

Named == UNION {Place!ToSet(Place!Values[i]) : i \in DOMAIN Place!Values}

LEMMA OneLong ==
  ASSUME NEW S, NEW s \in Seq(S), Len(s) = 1
  PROVE  s = <<s[1]>>
OBVIOUS

LEMMA OfAlone ==
  ASSUME NEW a
  PROVE  /\ Len(<<a>>) = 1 /\ DOMAIN <<a>> = {1} /\ <<a>>[1] = a
         /\ Place!Ancestors(<<a>>) = {<<a>>} /\ Place!ToSet(<<a>>) = {a}
<1>1. Len(<<a>>) = 1 /\ DOMAIN <<a>> = {1} /\ <<a>>[1] = a
  OBVIOUS
<1>2. SubSeq(<<a>>, 1, 1) = <<a>>
  BY <<a>> \in Seq({a}), SubSeqFull, <1>1
<1>. QED BY <1>1, <1>2 DEF Place!Ancestors, Place!ToSet

LEMMA OfTwo ==
  ASSUME NEW a, NEW b
  PROVE  /\ Len(<<a, b>>) = 2 /\ DOMAIN <<a, b>> = {1, 2} /\ <<a, b>>[1] = a /\ <<a, b>>[2] = b
         /\ Tail(<<a, b>>) = <<b>> /\ SubSeq(<<a, b>>, 1, 1) = <<a>> /\ SubSeq(<<a, b>>, 1, 0) = <<>>
         /\ Place!Ancestors(<<a, b>>) = {<<a, b>>, <<b>>} /\ Place!ToSet(<<a, b>>) = {a, b}
<1>1. Len(<<a, b>>) = 2 /\ DOMAIN <<a, b>> = {1, 2} /\ <<a, b>>[1] = a /\ <<a, b>>[2] = b
  OBVIOUS
<1>2. <<a, b>> \in Seq({a, b}) /\ <<a>> \in Seq({a, b}) /\ <<b>> \in Seq({a, b})
  OBVIOUS
<1>3. SubSeq(<<a, b>>, 1, 2) = <<a, b>> /\ SubSeq(<<a, b>>, 1, 0) = <<>>
  <2>1. SubSeq(<<a, b>>, 1, Len(<<a, b>>)) = <<a, b>>
    BY <1>2, SubSeqFull
  <2>2. SubSeq(<<a, b>>, 1, 0) = <<>>
    BY SubSeqEmpty
  <2>. QED BY <1>1, <2>1, <2>2
<1>4. SubSeq(<<a, b>>, 2, 2) = <<b>>
  <2>1. \A i \in 2..2 : <<a, b>>[i] \in {a, b}
    BY <1>1
  <2>2. /\ SubSeq(<<a, b>>, 2, 2) \in Seq({a, b}) /\ Len(SubSeq(<<a, b>>, 2, 2)) = 1
        /\ SubSeq(<<a, b>>, 2, 2)[1] = b
    BY <2>1, <1>1, SubSeqProperties
  <2>. QED BY <2>2, OneLong
<1>5. SubSeq(<<a, b>>, 1, 1) = <<a>>
  <2>1. \A i \in 1..1 : <<a, b>>[i] \in {a, b}
    BY <1>1
  <2>2. /\ SubSeq(<<a, b>>, 1, 1) \in Seq({a, b}) /\ Len(SubSeq(<<a, b>>, 1, 1)) = 1
        /\ SubSeq(<<a, b>>, 1, 1)[1] = a
    BY <2>1, <1>1, SubSeqProperties
  <2>. QED BY <2>2, OneLong
<1>6. Tail(<<a, b>>) = <<b>>
  OBVIOUS
<1>7. /\ {SubSeq(<<a, b>>, i, 2) : i \in {1, 2}} = {<<a, b>>, <<b>>}
      /\ {<<a, b>>[i] : i \in {1, 2}} = {a, b}
  BY <1>1, <1>3, <1>4
<1>. QED BY <1>1, <1>3, <1>5, <1>6, <1>7 DEF Place!Ancestors, Place!ToSet

LEMMA OfCarried ==
  ASSUME NEW v \in Carried
  PROVE  /\ v[1] \in Nat /\ v[1] \in Placeable \cup {Unknown} /\ v \in Seq(Nat)
         /\ \/ Len(v) = 1 /\ v = <<v[1]>>
            \/ Len(v) = 2 /\ v = <<v[1], v[2]>> /\ v[1] \in Placeable /\ v[2] \in Placeable
         /\ v[1] = Unknown => v = <<Unknown>>
<1>1. CASE v = <<Unknown>>
  <2>1. v[1] = Unknown /\ Len(v) = 1 /\ v = <<v[1]>>
    BY <1>1, OfAlone
  <2>. QED BY <1>1, <2>1, PlacesAssumption
<1>2. CASE v \in {<<a>> : a \in Placeable}
  <2>1. PICK a \in Placeable : v = <<a>>
    BY <1>2
  <2>2. v[1] = a /\ Len(v) = 1 /\ v = <<v[1]>>
    BY <2>1, OfAlone
  <2>. QED BY <2>1, <2>2, PlacesAssumption DEF Placeable
<1>3. CASE v \in {<<w[1], w[2]>> : w \in Placeable \X Placeable}
  <2>1. PICK a \in Placeable, b \in Placeable : v = <<a, b>>
    BY <1>3
  <2>2. v[1] = a /\ v[2] = b /\ Len(v) = 2 /\ v = <<v[1], v[2]>>
    BY <2>1, OfTwo
  <2>. QED BY <2>1, <2>2, PlacesAssumption DEF Placeable
<1>. QED BY <1>1, <1>2, <1>3 DEF Carried

\* Facts that could be told as places are told as such.
LEMMA FactsAreCarried ==
  ASSUME NEW fact \in Place!Facts, Place!Location(fact) # <<>>
  PROVE  Place!Location(fact) \in Carried
<1>1. CASE fact \in [directory : Directories, repository : Directories \cup {Place!Nowhere},
                     ref : {Place!Nowhere}]
  <2>1. fact.directory # Place!Nowhere
    BY <1>1, PlacesAssumption DEF Place!Nowhere
  <2>2. \/ Place!Location(fact) = <<fact.directory>> \o <<>>
        \/ fact.repository \in Directories /\ Place!Location(fact) = <<fact.directory>> \o <<fact.repository>>
    BY <1>1, <2>1 DEF Place!Location, Place!NewDirectoryLocation, Place!Invalid
  <2>3. \/ Place!Location(fact) = <<fact.directory>>
        \/ fact.repository \in Directories /\ Place!Location(fact) = <<fact.directory, fact.repository>>
    BY <2>2
  <2>. QED BY <1>1, <2>3 DEF Carried, Placeable
<1>2. CASE fact \in [directory : {Place!Nowhere}, repository : {Place!Nowhere},
                     ref : Remotes \cup {Place!Nowhere}]
  <2>1. fact.directory = Place!Nowhere
    BY <1>2
  <2>2. \/ Place!Location(fact) = <<Unknown>>
        \/ fact.ref \in Remotes /\ Place!Location(fact) = <<fact.ref>>
    BY <1>2, <2>1 DEF Place!Location
  <2>. QED BY <2>2 DEF Carried, Placeable
<1>. QED BY <1>1, <1>2 DEF Place!Facts

-----------------------------------------------------------------------------
(* Which of two values is the better known.                                *)

LEMMA BetterKnown ==
  ASSUME NEW v \in Carried, NEW w \in Carried, v[1] = w[1]
  PROVE  Place!betterKnownThan(v, w) <=>
           \/ Len(v) = 2 /\ Len(w) = 1
           \/ Len(v) = 2 /\ Len(w) = 2 /\ v[2] < w[2]
<1>0. v[1] \in Nat /\ ~(v[1] < v[1])
  BY OfCarried
<1>1. CASE Len(v) = 1 /\ Len(w) = 1
  <2>1. DOMAIN v = {1}
    BY <1>1, OfCarried, OfAlone
  <2>. QED BY <1>0, <1>1, <2>1 DEF Place!betterKnownThan
<1>2. CASE Len(v) # Len(w)
  BY <1>2, OfCarried DEF Place!betterKnownThan
<1>3. CASE Len(v) = 2 /\ Len(w) = 2
  <2>1. v = <<v[1], v[2]>> /\ w = <<w[1], w[2]>>
    BY <1>3, OfCarried
  <2>2. SubSeq(<<v[1], v[2]>>, 1, 1) = <<v[1]>>
    BY OfTwo, Zenon
  <2>4. SubSeq(<<w[1], w[2]>>, 1, 1) = <<w[1]>>
    BY OfTwo, Zenon
  <2>3. DOMAIN v = {1, 2} /\ SubSeq(v, 1, 2 - 1) = <<v[1]>> /\ SubSeq(w, 1, 2 - 1) = <<w[1]>>
    BY <1>3, <2>1, <2>2, <2>4
  <2>. QED BY <1>0, <1>3, <2>3 DEF Place!betterKnownThan
<1>. QED BY <1>1, <1>2, <1>3, OfCarried

LEMMA BetterIsAnOrder ==
  ASSUME NEW u \in Carried, NEW v \in Carried, NEW w \in Carried, u[1] = v[1], v[1] = w[1]
  PROVE  /\ ~(Place!betterKnownThan(u, v) /\ Place!betterKnownThan(v, u))
         /\ u = v \/ Place!betterKnownThan(u, v) \/ Place!betterKnownThan(v, u)
         /\ Place!betterKnownThan(u, v) /\ Place!betterKnownThan(v, w) => Place!betterKnownThan(u, w)
<1>1. /\ Len(u) = 2 => u[2] \in Nat
      /\ Len(v) = 2 => v[2] \in Nat
      /\ Len(w) = 2 => w[2] \in Nat
  BY OfCarried, PlacesAssumption DEF Placeable
<1>2. Len(u) \in {1, 2} /\ Len(v) \in {1, 2} /\ Len(w) \in {1, 2}
  BY OfCarried
<1>3. Len(u) = 1 /\ Len(v) = 1 => u = v
  BY OfCarried
<1>4. Len(u) = 2 /\ Len(v) = 2 /\ u[2] = v[2] => u = v
  BY OfCarried
<1>. QED BY <1>1, <1>2, <1>3, <1>4, BetterKnown

\* What is referred to carries its ancestors, which are referred to as well.
LEMMA ReferredValues ==
  ASSUME \A i \in DOMAIN Place!Values : Place!Values[i] \in Carried
  PROVE  /\ Referred \subseteq Carried
         /\ \A v \in Referred : Len(v) = 2 => <<v[2]>> \in Referred
         /\ Named = {v[1] : v \in Referred}
         /\ \A i \in DOMAIN Place!Values : Place!Values[i] \in Referred
<1>. DEFINE told(i) == Place!Values[i]
<1>1. ASSUME NEW i \in DOMAIN Place!Values
      PROVE  \/ /\ told(i) \in Carried /\ Len(told(i)) = 1
                /\ Place!Ancestors(told(i)) = {told(i)} /\ Place!ToSet(told(i)) = {told(i)[1]}
             \/ /\ told(i) \in Carried /\ Len(told(i)) = 2 /\ <<told(i)[2]>> \in Carried
                /\ Place!Ancestors(told(i)) = {told(i), <<told(i)[2]>>}
                /\ Place!ToSet(told(i)) = {told(i)[1], <<told(i)[2]>>[1]}
  <2>. DEFINE v == told(i)
  <2>1. v \in Carried
    BY <1>1
  <2>. HIDE DEF v
  <2>2. CASE Len(v) = 1 /\ v = <<v[1]>>
    <3>1. Place!Ancestors(<<v[1]>>) = {<<v[1]>>} /\ Place!ToSet(<<v[1]>>) = {v[1]}
      BY OfAlone
    <3>. QED BY <2>1, <2>2, <3>1 DEF v
  <2>3. CASE Len(v) = 2 /\ v = <<v[1], v[2]>> /\ v[2] \in Placeable
    <3>1. \A a, b : Place!Ancestors(<<a, b>>) = {<<a, b>>, <<b>>} /\ Place!ToSet(<<a, b>>) = {a, b}
      BY OfTwo
    <3>3. /\ Place!Ancestors(<<v[1], v[2]>>) = {<<v[1], v[2]>>, <<v[2]>>}
          /\ Place!ToSet(<<v[1], v[2]>>) = {v[1], v[2]}
      BY <3>1
    <3>2. <<v[2]>> \in Carried /\ <<v[2]>>[1] = v[2]
      BY <2>3, OfAlone DEF Carried
    <3>. QED BY <2>1, <2>3, <3>2, <3>3 DEF v
  <2>. QED BY <2>1, <2>2, <2>3, OfCarried
<1>2. \A v : v \in Referred <=> \E i \in DOMAIN Place!Values : v \in Place!Ancestors(told(i))
  BY DEF Referred
<1>3. \A id : id \in Named <=> \E i \in DOMAIN Place!Values : id \in Place!ToSet(told(i))
  BY DEF Named
<1>4. \A i \in DOMAIN Place!Values : told(i) = Place!Values[i]
  OBVIOUS
<1>. HIDE DEF told
<1>5. ASSUME NEW v \in Referred PROVE v \in Carried
  <2>1. PICK i \in DOMAIN Place!Values : v \in Place!Ancestors(told(i))
    BY <1>2
  <2>. QED BY <1>1, <2>1
<1>6. ASSUME NEW v \in Referred, Len(v) = 2 PROVE <<v[2]>> \in Referred
  <2>1. PICK i \in DOMAIN Place!Values : v \in Place!Ancestors(told(i))
    BY <1>2
  <2>2. Len(<<told(i)[2]>>) = 1
    BY OfAlone
  <2>3. v # <<told(i)[2]>>
    BY <1>6, <2>2
  <2>4. v = told(i)
    BY <1>1, <2>1, <2>3
  <2>5. <<v[2]>> \in Place!Ancestors(told(i))
    BY <1>1, <1>6, <2>4
  <2>. QED BY <1>2, <2>5
<1>7. \A i \in DOMAIN Place!Values : told(i) \in Referred
  BY <1>1, <1>2
<1>8. ASSUME NEW id \in Named PROVE \E v \in Referred : id = v[1]
  <2>1. PICK i \in DOMAIN Place!Values : id \in Place!ToSet(told(i))
    BY <1>3
  <2>. QED BY <1>1, <1>2, <2>1
<1>9. ASSUME NEW v \in Referred PROVE v[1] \in Named
  <2>1. PICK i \in DOMAIN Place!Values : v \in Place!Ancestors(told(i))
    BY <1>2
  <2>2. v[1] \in Place!ToSet(told(i))
    BY <1>1, <2>1
  <2>. QED BY <1>3, <2>2
<1>. QED BY <1>4, <1>5, <1>6, <1>7, <1>8, <1>9

Best(id) == Place!BestKnown(Place!Values, id)

\* The value of a place that is better known than all others.
Champion(id, v) ==
  /\ v \in Referred /\ v[1] = id
  /\ \A w \in Referred : w[1] = id => w = v \/ Place!betterKnownThan(v, w)

LEMMA BestIsChampion ==
  ASSUME Referred \subseteq Carried, NEW id, NEW v, Champion(id, v)
  PROVE  Best(id) = v
<1>. DEFINE known == {w \in Referred : w[1] = id}
            Wins(u) == \A w \in known \ {u} : Place!betterKnownThan(u, w)
<1>1. Best(id) = CHOOSE u \in known : Wins(u)
  BY DEF Best, Place!BestKnown, Referred
<1>2. v \in known /\ Wins(v)
  BY DEF Champion
<1>3. ASSUME NEW u \in known, Wins(u) PROVE u = v
  <2>1. u \in Carried /\ v \in Carried /\ u[1] = v[1]
    BY <1>2
  <2>2. u # v => Place!betterKnownThan(u, v) /\ Place!betterKnownThan(v, u)
    BY <1>2, <1>3
  <2>. QED BY <2>1, <2>2, BetterIsAnOrder
<1>. HIDE DEF known, Wins
<1>. QED BY <1>1, <1>2, <1>3

-----------------------------------------------------------------------------
(* The chosen entries as a graph.                                          *)

ChosenTypes ==
  /\ chosen = [id \in DOMAIN chosen |-> chosen[id]] /\ IsFiniteSet(DOMAIN chosen)
  /\ Unknown \in DOMAIN chosen /\ chosen[Unknown] = <<Unknown>>
  /\ \A id \in DOMAIN chosen : chosen[id] \in Carried /\ chosen[id][1] = id

Up(id) == Place!chosenParent(chosen, id)

\* No part of the entries hangs only under itself.
Grounded(ids) == \A part \in SUBSET ids : part # {} => \E id \in part : Up(id) \notin part

LEMMA UpIsChosen ==
  ASSUME ChosenTypes
  PROVE  /\ Place!Nowhere \notin DOMAIN chosen /\ DOMAIN chosen \subseteq Nat
         /\ \A id \in DOMAIN chosen :
              /\ Up(id) \in DOMAIN chosen \cup {Place!Nowhere}
              /\ Up(id) # Place!Nowhere =>
                    Len(chosen[id]) = 2 /\ Up(id) = chosen[id][2] /\ chosen[id] = <<id, Up(id)>>
<1>1. DOMAIN chosen \subseteq Nat
  BY OfCarried DEF ChosenTypes
<1>. QED BY <1>1, OfCarried DEF ChosenTypes, Up, Place!chosenParent, Place!Nowhere

\* Where no part hangs under itself, every entry has its depth, one below its
\* parent's.
LEMMA DepthsExist ==
  ASSUME ChosenTypes, Grounded(DOMAIN chosen)
  PROVE  \A id \in DOMAIN chosen :
           /\ Place!publishedDepth(chosen)[id] \in Nat
           /\ Up(id) # Place!Nowhere =>
                Place!publishedDepth(chosen)[Up(id)] < Place!publishedDepth(chosen)[id]
<1>. DEFINE ids == DOMAIN chosen
            none == Place!Nowhere
            Closed(part) == \A id \in part : Up(id) # none => Up(id) \in part
            Above(id) == {a \in ids : \A part \in SUBSET ids :
                            Closed(part) /\ (Up(id) # none => Up(id) \in part) => a \in part}
<1>1. none \notin ids /\ \A id \in ids : Up(id) \in ids \cup {none}
  BY UpIsChosen
<1>. HIDE DEF none
<1>2. ASSUME NEW id \in ids PROVE Closed(Above(id)) /\ (Up(id) # none => Up(id) \in Above(id))
  BY <1>1
<1>3. ASSUME NEW id \in ids, Up(id) # none
      PROVE  Above(id) = Above(Up(id)) \cup {Up(id)}
  <2>. DEFINE up == Up(id)
  <2>1. up \in ids
    BY <1>1, <1>3
  <2>2. Closed(Above(up) \cup {up}) /\ Above(up) \cup {up} \subseteq ids
    <3>1. Closed(Above(up)) /\ (Up(up) # none => Up(up) \in Above(up))
      BY <1>2, <2>1
    <3>. QED BY <2>1, <3>1
  <2>3. Above(id) \subseteq Above(up) \cup {up}
    BY <2>2
  <2>4. up \in Above(id)
    BY <1>2, <1>3
  <2>5. ASSUME NEW a \in Above(up) PROVE a \in Above(id)
    <3>1. ASSUME NEW part \in SUBSET ids, Closed(part), up \in part PROVE a \in part
      <4>1. Up(up) # none => Up(up) \in part
        BY <3>1
      <4>. QED BY <2>5, <3>1, <4>1
    <3>. QED BY <1>3, <2>5, <3>1
  <2>. QED BY <2>3, <2>4, <2>5
<1>4. ASSUME NEW id \in ids, Up(id) = none PROVE Above(id) = {}
  <2>1. Closed({}) /\ {} \subseteq ids
    OBVIOUS
  <2>2. ASSUME NEW a \in Above(id) PROVE a \in {}
    BY <1>4, <2>1, <2>2
  <2>. QED BY <2>2
<1>5. ASSUME NEW id \in ids PROVE id \notin Above(id)
  <2>. DEFINE under == {a \in ids : a \in Above(a)}
  <2>1. ASSUME NEW a \in under PROVE Up(a) \in under
    <3>1. Up(a) # none
      BY <1>4, <2>1
    <3>2. Up(a) \in ids /\ Above(a) = Above(Up(a)) \cup {Up(a)}
      BY <1>1, <1>3, <2>1, <3>1
    <3>3. a \in ids /\ a \in Above(a)
      BY <2>1
    <3>4. Closed(Above(Up(a)))
      BY <1>2, <3>2
    <3>. HIDE DEF Above
    <3>. QED BY <3>1, <3>2, <3>3, <3>4
  <2>2. under \subseteq ids
    OBVIOUS
  <2>. HIDE DEF under
  <2>3. under = {}
    BY <2>1, <2>2 DEF Grounded
  <2>. HIDE DEF Above
  <2>. QED BY <2>3 DEF under
<1>6. \A id \in ids : Above(id) \subseteq ids
  OBVIOUS
<1>. HIDE DEF Above
<1>. DEFINE Deeper(f) == [id \in ids |-> IF Up(id) = none THEN 0 ELSE f[Up(id)] + 1]
            height == [id \in ids |-> Cardinality(Above(id))]
            depth == CHOOSE f : f = Deeper(f)
<1>7. height = Deeper(height)
  <2>1. ASSUME NEW id \in ids
        PROVE  height[id] = IF Up(id) = none THEN 0 ELSE height[Up(id)] + 1
    <3>1. IsFiniteSet(ids)
      BY DEF ChosenTypes
    <3>2. CASE Up(id) = none
      <4>1. height[id] = Cardinality({})
        BY <1>4, <3>2
      <4>. QED BY <3>2, <4>1, FS_EmptySet
    <3>3. CASE Up(id) # none
      <4>1. Up(id) \in ids
        BY <1>1, <3>3
      <4>2. IsFiniteSet(Above(Up(id))) /\ Up(id) \notin Above(Up(id))
        BY <1>5, <1>6, <3>1, <4>1, FS_Subset
      <4>3. Cardinality(Above(Up(id)) \cup {Up(id)}) = Cardinality(Above(Up(id))) + 1
        BY <4>2, FS_AddElement
      <4>. QED BY <1>3, <3>3, <4>1, <4>3
    <3>. QED BY <3>2, <3>3
  <2>. QED BY <2>1
<1>8. depth = Deeper(depth)
  <2>. HIDE DEF Deeper, height
  <2>. QED BY <1>7
<1>9. Place!publishedDepth(chosen) = depth
  BY DEF Place!publishedDepth, Up, none
<1>. HIDE DEF depth
<1>10. \A id \in ids : depth[id] = IF Up(id) = none THEN 0 ELSE depth[Up(id)] + 1
  BY <1>8
<1>11. \A id \in ids : depth[id] \in Nat
  <2>. DEFINE odd == {id \in ids : depth[id] \notin Nat}
  <2>1. ASSUME NEW id \in odd PROVE Up(id) \in odd
    BY <1>1, <1>10, <2>1
  <2>2. odd \subseteq ids
    OBVIOUS
  <2>. HIDE DEF odd
  <2>3. odd = {}
    BY <2>1, <2>2 DEF Grounded
  <2>. QED BY <2>3 DEF odd
<1>12. \A id \in ids : Up(id) # none => depth[Up(id)] \in Nat /\ depth[id] = depth[Up(id)] + 1
  BY <1>1, <1>10, <1>11
<1>. QED BY <1>9, <1>11, <1>12 DEF none

-----------------------------------------------------------------------------
(* The loops the best known values close.                                  *)

Hanging(id) == Place!BestParent(Place!Values, id)

Cycle(loop) ==
  /\ loop \in SUBSET Named /\ loop # {}
  /\ {Hanging(id) : id \in loop} = loop
  /\ \A part \in SUBSET loop : part # {} /\ (\A id \in part : Hanging(id) \in part) => part = loop

LEMMA SmallestPlace ==
  ASSUME NEW T, T \subseteq Nat, T # {}
  PROVE  Place!Min(T) \in T /\ \A j \in T : Place!Min(T) <= j
<1>1. PICK i \in T : \A j \in T : ~(<<j, i>> \in OpToRel(<, Nat))
  BY NatLessThanWellFounded, WFMin
<1>2. \A j \in T : ~(j < i)
  BY <1>1 DEF OpToRel
<1>3. \E k \in T : \A j \in T : k <= j
  BY <1>2
<1>. QED BY <1>3 DEF Place!Min

LEMMA LoopsOf ==
  ASSUME NEW loop
  PROVE  loop \in Place!Loops(Place!Values) <=>
           /\ loop \in SUBSET Named /\ loop # {} /\ {Hanging(id) : id \in loop} = loop
           /\ \A second \in SUBSET Named :
                second # {} /\ {Hanging(id) : id \in second} = second /\ second \subseteq loop => second = loop
<1>. DEFINE closed == {part \in (SUBSET Named) \ {{}} : {Hanging(id) : id \in part} = part}
<1>1. Place!Loops(Place!Values) =
        {part \in closed : \A second \in closed : second \subseteq part => second = part}
  BY DEF Place!Loops, Named, Hanging
<1>2. \A part : part \in closed <=>
                  part \in SUBSET Named /\ part # {} /\ {Hanging(id) : id \in part} = part
  OBVIOUS
<1>. HIDE DEF closed
<1>3. loop \in Place!Loops(Place!Values) <=>
        loop \in closed /\ \A second \in closed : second \subseteq loop => second = loop
  BY <1>1
<1>. QED BY <1>2, <1>3

LEMMA CyclesAreLoops ==
  ASSUME NEW loop, Cycle(loop)
  PROVE  loop \in Place!Loops(Place!Values)
<1>1. ASSUME NEW second, {Hanging(id) : id \in second} = second PROVE \A id \in second : Hanging(id) \in second
  BY <1>1
<1>. QED BY <1>1, LoopsOf DEF Cycle

LEMMA LoopsThatMeet ==
  ASSUME NEW loop, Cycle(loop), NEW second \in Place!Loops(Place!Values), NEW id \in loop, id \in second
  PROVE  second = loop
<1>. DEFINE both == loop \cap second
<1>1. {Hanging(i) : i \in second} = second /\ {Hanging(i) : i \in loop} = loop
  BY LoopsOf DEF Cycle
<1>2. \A i \in both : Hanging(i) \in both
  BY <1>1
<1>3. both = loop
  BY <1>2 DEF Cycle
<1>4. loop \subseteq second /\ loop \in SUBSET Named /\ loop # {}
  BY <1>3 DEF Cycle
<1>5. \A third \in SUBSET Named :
        third # {} /\ {Hanging(i) : i \in third} = third /\ third \subseteq second => third = second
  BY LoopsOf, Zenon
<1>. QED BY <1>1, <1>4, <1>5, Zenon

\* A walk up the parents that meets itself has found such a loop.
LEMMA WalkedLoop ==
  ASSUME walked \in Seq(DOMAIN chosen), NEW met \in 1..Len(walked),
         \A k \in 1..(Len(walked) - 1) : Up(walked[k]) = walked[k + 1],
         Up(walked[Len(walked)]) = walked[met],
         NEW loop, loop = {walked[i] : i \in met..Len(walked)}
  PROVE  /\ loop # {} /\ loop \subseteq DOMAIN chosen /\ {Up(id) : id \in loop} = loop
         /\ \A part \in SUBSET loop : part # {} /\ (\A id \in part : Up(id) \in part) => part = loop
<1>. DEFINE last == Len(walked)
<1>1. last \in Nat /\ \A i \in met..last : walked[i] \in DOMAIN chosen
  OBVIOUS
<1>2. \A i \in met..(last - 1) : Up(walked[i]) = walked[i + 1] /\ i + 1 \in met..last
  BY <1>1
<1>3. ASSUME NEW id \in loop PROVE Up(id) \in loop
  <2>1. PICK i \in met..last : id = walked[i]
    OBVIOUS
  <2>2. CASE i = last
    BY <2>1, <2>2, <1>1
  <2>3. CASE i # last
    <3>1. i \in met..(last - 1)
      BY <2>3, <1>1
    <3>. QED BY <1>2, <2>1, <3>1
  <2>. QED BY <2>2, <2>3
<1>4. ASSUME NEW id \in loop PROVE \E i \in loop : id = Up(i)
  <2>1. PICK i \in met..last : id = walked[i]
    OBVIOUS
  <2>2. CASE i = met
    <3>1. walked[last] \in loop
      BY <1>1
    <3>. QED BY <2>1, <2>2, <3>1
  <2>3. CASE i # met
    <3>1. i - 1 \in met..(last - 1) /\ i - 1 \in met..last /\ (i - 1) + 1 = i
      BY <2>3, <1>1
    <3>2. Up(walked[i - 1]) = walked[i] /\ walked[i - 1] \in loop
      BY <1>2, <3>1
    <3>. QED BY <2>1, <3>2
  <2>. QED BY <2>2, <2>3
<1>5. ASSUME NEW part \in SUBSET loop, part # {}, \A id \in part : Up(id) \in part
      PROVE  part = loop
  <2>. DEFINE Missing(from) == {i \in from..last : walked[i] \notin part}
  <2>1. ASSUME NEW k \in met..last, walked[k] \in part PROVE Missing(k) = {}
    <3>. SUFFICES ASSUME Missing(k) # {} PROVE FALSE
      OBVIOUS
    <3>1. Missing(k) \subseteq Nat
      BY <1>1
    <3>2. PICK i \in Missing(k) : \A j \in Missing(k) : i <= j
      <4>. HIDE DEF Missing
      <4>. QED BY <3>1, SmallestPlace
    <3>3. i \in k..last /\ i # k /\ walked[i] \notin part
      BY <2>1, <3>2
    <3>4. i - 1 \in k..last /\ i - 1 \in met..(last - 1) /\ (i - 1) + 1 = i /\ ~(i <= i - 1)
      BY <3>3, <1>1
    <3>5. walked[i - 1] \in part
      BY <3>2, <3>4
    <3>6. Up(walked[i - 1]) = walked[i]
      BY <1>2, <3>4
    <3>. QED BY <1>5, <3>3, <3>5, <3>6
  <2>2. PICK k \in met..last : walked[k] \in part
    BY <1>5
  <2>3. walked[last] \in part
    BY <1>1, <2>1, <2>2
  <2>4. walked[met] \in part
    BY <1>5, <2>3
  <2>5. Missing(met) = {}
    BY <1>1, <2>1, <2>4
  <2>. QED BY <2>5
<1>6. loop # {} /\ loop \subseteq DOMAIN chosen
  BY <1>1
<1>7. {Up(id) : id \in loop} = loop
  BY <1>3, <1>4, Zenon
<1>. QED BY <1>5, <1>6, <1>7

-----------------------------------------------------------------------------
(* The invariant.                                                          *)

\* What is referred to, once it is known that every fact is a place.
Told ==
  /\ \E n \in Nat : facts \in [1..n -> Place!Facts]
  /\ outcome \in {"reading", "failed", "choosing", "breaking", "ordering", "published"}
  /\ outcome \notin {"reading", "failed"} =>
       \A i \in DOMAIN Place!Values : Place!Values[i] \in Carried

\* The value is chosen, or one that is better known.
Outdone(v) ==
  v[1] \in DOMAIN chosen /\ (chosen[v[1]] = v \/ Place!betterKnownThan(chosen[v[1]], v))

\* What has been considered is outdone, the rest is yet to come.
Choosing ==
  /\ outcome \in {"reading", "failed"} => DOMAIN chosen = {Unknown}
  /\ outcome = "choosing" =>
       /\ pending \in Seq(Referred)
       /\ \A v \in Referred :
            Outdone(v) \/ \E k \in 1..Len(pending) : v \in Place!Ancestors(pending[k])
       /\ \A id \in DOMAIN chosen \ {Unknown} : chosen[id] \in Referred

\* Every place is chosen as it is best known, or opens a loop.
Opens(id) == \E loop : Cycle(loop) /\ id = Place!Min(loop)

Chosen ==
  outcome \in {"breaking", "ordering", "published"} =>
    /\ DOMAIN chosen = {Unknown} \cup Named
    /\ \A id \in Named :
         /\ Champion(id, Best(id))
         /\ chosen[id] = Best(id) \/ (chosen[id] = <<id>> /\ Opens(id))

\* What is settled leads to a root, and what is on the walk hangs together.
Walking ==
  /\ outcome \in {"reading", "failed", "choosing"} => settled = {} /\ walked = <<>>
  /\ outcome \in {"ordering", "published"} => settled = DOMAIN chosen
  /\ walked \in Seq(DOMAIN chosen)
  /\ \A k \in 1..(Len(walked) - 1) : Up(walked[k]) = walked[k + 1]
  /\ settled \subseteq DOMAIN chosen /\ Grounded(settled)
  /\ \A id \in settled : Up(id) \in settled \cup {Place!Nowhere}

\* Who is published is so once, and behind its parent.
Ordered ==
  /\ outcome \notin {"ordering", "published"} => published = <<>>
  /\ published \in Seq(Carried)
  /\ \A i \in 1..Len(published) :
       /\ published[i][1] \in DOMAIN chosen /\ published[i] = chosen[published[i][1]]
       /\ Up(published[i][1]) # Place!Nowhere =>
            \E j \in 1..(i - 1) : published[j][1] = Up(published[i][1])
  /\ \A i, j \in 1..Len(published) : published[i][1] = published[j][1] => i = j
  /\ outcome = "published" => \A id \in DOMAIN chosen : \E i \in 1..Len(published) : published[i][1] = id

PlacesInv == Told /\ ChosenTypes /\ Choosing /\ Chosen /\ Walking /\ Ordered

LEMMA PlacesBegin == Place!Init => PlacesInv
<1>. SUFFICES ASSUME Place!Init PROVE PlacesInv
  OBVIOUS
<1>. USE DEF Place!Init
<1>1. Told
  BY PlacesAssumption DEF Told
<1>2. DOMAIN chosen = {Unknown} /\ chosen[Unknown] = <<Unknown>>
  OBVIOUS
<1>3. <<Unknown>> \in Carried /\ <<Unknown>>[1] = Unknown
  BY OfAlone DEF Carried
<1>4. ChosenTypes
  BY <1>2, <1>3, FS_Singleton DEF ChosenTypes
<1>5. Choosing /\ Chosen
  BY <1>2 DEF Choosing, Chosen
<1>6. Walking
  <2>1. walked \in Seq(DOMAIN chosen) /\ Len(walked) = 0
    OBVIOUS
  <2>. QED BY <2>1 DEF Walking, Grounded
<1>7. Ordered
  <2>1. published \in Seq(Carried) /\ Len(published) = 0
    OBVIOUS
  <2>. QED BY <2>1 DEF Ordered
<1>. QED BY <1>1, <1>4, <1>5, <1>6, <1>7 DEF PlacesInv

\* What is known of the facts does not change while the registry is built.
LEMMA SameFacts ==
  ASSUME facts' = facts
  PROVE  /\ Place!Values' = Place!Values /\ Referred' = Referred /\ Named' = Named
         /\ \A id, v : Champion(id, v)' <=> Champion(id, v)
         /\ \A id : Best(id)' = Best(id)
         /\ \A loop : Cycle(loop)' <=> Cycle(loop)
         /\ \A id : Opens(id)' <=> Opens(id)
<1>1. Place!Values' = Place!Values
  BY DEF Place!Values
<1>2. Referred' = Referred /\ Named' = Named
  BY <1>1 DEF Referred, Named
<1>3. \A id : Best(id)' = Best(id)
  BY <1>1 DEF Best
<1>4. \A id : Hanging(id)' = Hanging(id)
  BY <1>1 DEF Hanging
<1>5. \A id, v : Champion(id, v)' <=> Champion(id, v)
  BY <1>2 DEF Champion
<1>6. \A loop : Cycle(loop)' <=> Cycle(loop)
  BY <1>2, <1>4 DEF Cycle
<1>. QED BY <1>1, <1>2, <1>3, <1>5, <1>6 DEF Opens

LEMMA SameChosen ==
  ASSUME chosen' = chosen
  PROVE  /\ \A id : Up(id)' = Up(id)
         /\ \A ids : Grounded(ids)' <=> Grounded(ids)
         /\ ChosenTypes' <=> ChosenTypes
         /\ \A v : Outdone(v)' <=> Outdone(v)
<1>1. \A id : Up(id)' = Up(id)
  BY DEF Up
<1>. QED BY <1>1 DEF Grounded, ChosenTypes, Outdone

LEMMA PlacesResolve ==
  ASSUME PlacesInv, Place!Resolve
  PROVE  PlacesInv'
<1>. USE DEF PlacesInv, Place!Resolve
<1>1. facts' = facts /\ chosen' = chosen /\ walked' = walked /\ settled' = settled /\ published' = published
      /\ outcome = "reading" /\ outcome' \in {"failed", "choosing"}
  OBVIOUS
<1>2. /\ DOMAIN chosen = {Unknown} /\ settled = {} /\ walked = <<>> /\ published = <<>>
      /\ ChosenTypes'
  BY <1>1, SameChosen DEF Choosing, Walking, Ordered
<1>3. Told'
  <2>1. ASSUME outcome' = "choosing", NEW i \in DOMAIN Place!Values PROVE Place!Values[i] \in Carried
    <3>1. Place!Invalid \notin Place!ToSet(Place!Values)
      BY <2>1
    <3>2. Place!Values[i] # <<>>
      BY <3>1 DEF Place!ToSet, Place!Invalid
    <3>3. Place!Values[i] = Place!Location(facts[i]) /\ facts[i] \in Place!Facts
      BY DEF Told, Place!Values
    <3>. QED BY <3>2, <3>3, FactsAreCarried
  <2>. QED BY <1>1, <2>1, SameFacts DEF Told
<1>4. Choosing'
  <2>1. CASE outcome' = "failed"
    BY <1>1, <1>2, <2>1 DEF Choosing
  <2>2. CASE outcome' = "choosing"
    <3>1. pending' = Place!Values /\ \A i \in DOMAIN Place!Values : Place!Values[i] \in Carried
      BY <1>1, <1>3, <2>2, SameFacts DEF Told
    <3>2. PICK n \in Nat : facts \in [1..n -> Place!Facts]
      BY DEF Told
    <3>3. DOMAIN Place!Values = 1..n /\ \A i \in 1..n : Place!Values[i] \in Referred
      BY <3>1, <3>2, ReferredValues DEF Place!Values
    <3>4. Place!Values \in Seq(Referred) /\ Len(Place!Values) = n
      <4>1. Place!Values = [i \in 1..n |-> Place!Values[i]]
        BY <3>3 DEF Place!Values
      <4>. QED BY <3>3, <4>1
    <3>5. \A v \in Referred : \E k \in 1..n : v \in Place!Ancestors(Place!Values[k])
      BY <3>3 DEF Referred
    <3>. QED BY <1>1, <1>2, <2>2, <3>1, <3>4, <3>5, SameFacts DEF Choosing
  <2>. QED BY <1>1, <2>1, <2>2
<1>5. Chosen'
  BY <1>1 DEF Chosen
<1>6. Walking'
  BY <1>1, <1>2, SameChosen DEF Walking
<1>7. Ordered'
  BY <1>1, SameChosen DEF Ordered
<1>. QED BY <1>2, <1>3, <1>4, <1>5, <1>6, <1>7

\* A value that is considered is outdone, and what was outdone still is.
LEMMA ConsideredIsOutdone ==
  ASSUME ChosenTypes, NEW value \in Carried,
         chosen' = IF ~Place!Keeps(value) THEN chosen
                   ELSE [id \in DOMAIN chosen \cup {value[1]} |->
                           IF id = value[1] THEN value ELSE chosen[id]]
  PROVE  /\ ChosenTypes' /\ Outdone(value)'
         /\ \A v \in Carried : Outdone(v) => Outdone(v)'
         /\ \A id \in DOMAIN chosen' : chosen'[id] = value \/ (id \in DOMAIN chosen /\ chosen'[id] = chosen[id])
<1>1. CASE ~Place!Keeps(value)
  <2>1. chosen' = chosen /\ value[1] \in DOMAIN chosen
        /\ ~Place!betterKnownThan(value, chosen[value[1]])
    BY <1>1 DEF Place!Keeps
  <2>2. chosen[value[1]] \in Carried /\ chosen[value[1]][1] = value[1]
    BY <2>1 DEF ChosenTypes
  <2>3. Outdone(value)
    BY <2>1, <2>2, BetterIsAnOrder DEF Outdone
  <2>. QED BY <2>1, <2>3, SameChosen
<1>2. CASE Place!Keeps(value)
  <2>1. /\ DOMAIN chosen' = DOMAIN chosen \cup {value[1]}
        /\ chosen'[value[1]] = value
        /\ \A id \in DOMAIN chosen : id # value[1] => chosen'[id] = chosen[id]
        /\ chosen' = [id \in DOMAIN chosen' |-> chosen'[id]]
    BY <1>2
  <2>2. value[1] \notin DOMAIN chosen \/ Place!betterKnownThan(value, chosen[value[1]])
    BY <1>2 DEF Place!Keeps
  <2>3. ChosenTypes'
    <3>1. value[1] = Unknown => value = <<Unknown>>
      BY OfCarried
    <3>2. IsFiniteSet(DOMAIN chosen \cup {value[1]})
      BY FS_AddElement DEF ChosenTypes
    <3>. QED BY <2>1, <3>1, <3>2 DEF ChosenTypes
  <2>4. Outdone(value)'
    BY <2>1 DEF Outdone
  <2>5. ASSUME NEW v \in Carried, Outdone(v) PROVE Outdone(v)'
    <3>1. CASE v[1] # value[1]
      BY <2>1, <2>5, <3>1 DEF Outdone
    <3>2. CASE v[1] = value[1]
      <4>1. chosen[v[1]] \in Carried /\ chosen[v[1]][1] = v[1] /\ v[1] \in DOMAIN chosen
        BY <2>5 DEF Outdone, ChosenTypes
      <4>2. Place!betterKnownThan(value, chosen[v[1]])
        BY <2>2, <3>2, <4>1
      <4>3. chosen[v[1]] = v \/ Place!betterKnownThan(chosen[v[1]], v)
        BY <2>5 DEF Outdone
      <4>4. Place!betterKnownThan(value, v)
        BY <3>2, <4>1, <4>2, <4>3, BetterIsAnOrder
      <4>. QED BY <2>1, <3>2, <4>4 DEF Outdone
    <3>. QED BY <3>1, <3>2
  <2>. QED BY <2>1, <2>3, <2>4, <2>5
<1>. QED BY <1>1, <1>2

LEMMA PlacesConsider ==
  ASSUME PlacesInv, Place!Consider
  PROVE  PlacesInv'
<1>. USE DEF PlacesInv
<1>. DEFINE value == Head(pending)
            rest == Tail(pending)
            up == IF Len(value) = 1 THEN <<>> ELSE <<Tail(value)>>
<1>1. /\ outcome = "choosing" /\ outcome' = outcome /\ facts' = facts /\ pending # <<>>
      /\ walked' = walked /\ settled' = settled /\ published' = published
      /\ pending' = up \o rest
      /\ chosen' = IF ~Place!Keeps(value) THEN chosen
                   ELSE [id \in DOMAIN chosen \cup {value[1]} |->
                           IF id = value[1] THEN value ELSE chosen[id]]
  BY DEF Place!Consider
<1>2. Referred \subseteq Carried /\ \A v \in Referred : Len(v) = 2 => <<v[2]>> \in Referred
  BY <1>1, ReferredValues DEF Told
<1>3. /\ pending \in Seq(Referred) /\ settled = {} /\ walked = <<>> /\ published = <<>>
      /\ \A id \in DOMAIN chosen \ {Unknown} : chosen[id] \in Referred
      /\ \A v \in Referred :
            Outdone(v) \/ \E k \in 1..Len(pending) : v \in Place!Ancestors(pending[k])
  BY <1>1 DEF Choosing, Walking, Ordered
<1>4. /\ value \in Referred /\ rest \in Seq(Referred) /\ Len(rest) = Len(pending) - 1
      /\ value = pending[1] /\ \A i \in 1..Len(rest) : rest[i] = pending[i + 1]
  BY <1>1, <1>3, HeadTailProperties
<1>. HIDE DEF value, rest, up
<1>5. value \in Carried
  BY <1>2, <1>4
<1>6. /\ ChosenTypes' /\ (value[1] \in DOMAIN chosen' /\ (chosen'[value[1]] = value \/ Place!betterKnownThan(chosen'[value[1]], value)))
      /\ \A v \in Carried : Outdone(v) => Outdone(v)'
      /\ \A id \in DOMAIN chosen' : chosen'[id] = value \/ (id \in DOMAIN chosen /\ chosen'[id] = chosen[id])
  BY <1>1, <1>5, ConsideredIsOutdone DEF Outdone
<1>7. /\ up \in Seq(Referred)
      /\ \A v \in Place!Ancestors(value) :
            v = value \/ \E k \in 1..Len(up) : v \in Place!Ancestors(up[k])
  <2>1. CASE Len(value) = 1 /\ value = <<value[1]>>
    <3>1. Place!Ancestors(<<value[1]>>) = {<<value[1]>>}
      BY OfAlone
    <3>. QED BY <2>1, <3>1 DEF up
  <2>2. CASE Len(value) = 2 /\ value = <<value[1], value[2]>>
    <3>1. \A a, b : Place!Ancestors(<<a, b>>) = {<<a, b>>, <<b>>}
      BY OfTwo
    <3>7. Tail(<<value[1], value[2]>>) = <<value[2]>>
      OBVIOUS
    <3>2. Place!Ancestors(value) = {value, <<value[2]>>} /\ Tail(value) = <<value[2]>>
      BY <2>2, <3>1, <3>7
    <3>3. Place!Ancestors(<<value[2]>>) = {<<value[2]>>}
      BY OfAlone
    <3>4. <<value[2]>> \in Referred
      BY <1>2, <1>4, <2>2
    <3>5. up = <<(<<value[2]>>)>>
      BY <2>2, <3>2 DEF up
    <3>6. up \in Seq(Referred) /\ Len(up) = 1 /\ up[1] = <<value[2]>>
      BY <3>4, <3>5
    <3>. QED BY <3>2, <3>3, <3>6
  <2>. QED BY <1>5, <2>1, <2>2, OfCarried
<1>8. Choosing'
  <2>1. /\ pending' \in Seq(Referred) /\ Len(pending') = Len(up) + Len(rest)
        /\ \A k \in 1..(Len(up) + Len(rest)) :
              pending'[k] = IF k <= Len(up) THEN up[k] ELSE rest[k - Len(up)]
    BY <1>1, <1>4, <1>7, ConcatProperties
  <2>2. ASSUME NEW v \in Referred
        PROVE  Outdone(v)' \/ \E k \in 1..Len(pending') : v \in Place!Ancestors(pending'[k])
    <3>1. CASE Outdone(v)
      BY <1>2, <1>6, <3>1
    <3>4. CASE v = value
      BY <1>6, <3>4 DEF Outdone
    <3>2. CASE v \in Place!Ancestors(value) /\ v # value
      <4>1. PICK k \in 1..Len(up) : v \in Place!Ancestors(up[k])
        BY <1>7, <3>2
      <4>2. Len(up) \in Nat /\ Len(rest) \in Nat
        BY <1>4, <1>7
      <4>3. k \in 1..Len(pending') /\ pending'[k] = up[k]
        BY <2>1, <4>2
      <4>. QED BY <4>1, <4>3
    <3>3. CASE \E k \in 1..Len(pending) : k # 1 /\ v \in Place!Ancestors(pending[k])
      <4>1. PICK k \in 1..Len(pending) : k # 1 /\ v \in Place!Ancestors(pending[k])
        BY <3>3
      <4>2. Len(up) \in Nat /\ Len(rest) \in Nat /\ Len(pending) \in Nat
        BY <1>3, <1>4, <1>7
      <4>3. k - 1 \in 1..Len(rest) /\ rest[k - 1] = pending[k]
        BY <1>4, <4>1, <4>2
      <4>. DEFINE at == k - 1 + Len(up)
      <4>4. at \in 1..(Len(up) + Len(rest)) /\ ~(at <= Len(up)) /\ at - Len(up) = k - 1
        BY <4>2, <4>3
      <4>. HIDE DEF at
      <4>5. at \in 1..Len(pending') /\ pending'[at] = rest[k - 1]
        BY <2>1, <4>4
      <4>. QED BY <4>1, <4>3, <4>5
    <3>. QED BY <1>3, <1>4, <3>1, <3>2, <3>3, <3>4
  <2>3. \A id \in DOMAIN chosen' \ {Unknown} : chosen'[id] \in Referred
    BY <1>3, <1>4, <1>6
  <2>. QED BY <1>1, <2>1, <2>2, <2>3, SameFacts DEF Choosing, Place!Ancestors
<1>9. Told' /\ Chosen'
  BY <1>1, SameFacts DEF Told, Chosen
<1>10. Walking'
  <2>1. walked' \in Seq(DOMAIN chosen') /\ Len(walked') = 0 /\ settled' = {}
    BY <1>1, <1>3
  <2>. QED BY <1>1, <1>3, <2>1 DEF Walking, Grounded
<1>11. Ordered'
  <2>1. published' \in Seq(Carried) /\ Len(published') = 0
    BY <1>1, <1>3
  <2>. QED BY <1>1, <1>3, <2>1 DEF Ordered
<1>. QED BY <1>6, <1>8, <1>9, <1>10, <1>11

LEMMA PlacesConsidered ==
  ASSUME PlacesInv, Place!Considered
  PROVE  PlacesInv'
<1>. USE DEF PlacesInv, Place!Considered
<1>1. /\ outcome = "choosing" /\ outcome' = "breaking" /\ facts' = facts /\ pending = <<>>
      /\ chosen' = chosen /\ walked' = walked /\ settled' = settled /\ published' = published
  OBVIOUS
<1>2. Referred \subseteq Carried /\ Named = {v[1] : v \in Referred}
  BY <1>1, ReferredValues DEF Told
<1>3. \A v \in Referred : Outdone(v)
  <2>1. Len(pending) = 0
    BY <1>1
  <2>. QED BY <1>1, <2>1 DEF Choosing
<1>4. \A id \in DOMAIN chosen \ {Unknown} : chosen[id] \in Referred
  BY <1>1 DEF Choosing
<1>5. DOMAIN chosen = {Unknown} \cup Named
  <2>1. ASSUME NEW id \in DOMAIN chosen, id # Unknown PROVE id \in Named
    BY <1>2, <1>4, <2>1 DEF ChosenTypes
  <2>2. ASSUME NEW id \in Named PROVE id \in DOMAIN chosen
    BY <1>2, <1>3, <2>2 DEF Outdone
  <2>. QED BY <2>1, <2>2 DEF ChosenTypes
<1>6. ASSUME NEW id \in Named PROVE Champion(id, chosen[id]) /\ Best(id) = chosen[id]
  <2>1. chosen[id] \in Referred
    <3>1. PICK v \in Referred : v[1] = id
      BY <1>2
    <3>2. id = Unknown => v = chosen[id]
      BY <1>2, <3>1, OfCarried DEF ChosenTypes
    <3>. QED BY <1>4, <1>5, <3>1, <3>2
  <2>2. Champion(id, chosen[id])
    BY <1>3, <1>5, <2>1 DEF Champion, Outdone, ChosenTypes
  <2>. QED BY <1>2, <2>2, BestIsChampion
<1>7. Chosen'
  BY <1>1, <1>5, <1>6, SameFacts DEF Chosen
<1>8. Told' /\ ChosenTypes' /\ Choosing'
  BY <1>1, SameFacts, SameChosen DEF Told, Choosing
<1>9. Walking' /\ Ordered'
  BY <1>1, SameChosen DEF Walking, Ordered
<1>. QED BY <1>7, <1>8, <1>9

\* A walk changes nothing of what is chosen.
LEMMA WalkingOn ==
  ASSUME PlacesInv, outcome = "breaking", Walking',
         UNCHANGED <<facts, outcome, pending, chosen, published>>
  PROVE  PlacesInv'
<1>. USE DEF PlacesInv
<1>1. Told' /\ Chosen' /\ Choosing' /\ ChosenTypes'
  BY SameFacts, SameChosen DEF Told, Chosen, Choosing
<1>2. Ordered'
  BY DEF Ordered
<1>. QED BY <1>1, <1>2

LEMMA PlacesSetOut ==
  ASSUME PlacesInv, outcome = "breaking", Place!SetOut, UNCHANGED <<facts, pending, published>>
  PROVE  PlacesInv'
<1>. DEFINE first == Place!Min(DOMAIN chosen \ settled)
<1>1. /\ walked = <<>> /\ settled # DOMAIN chosen /\ walked' = <<first>>
      /\ UNCHANGED <<facts, outcome, pending, chosen, settled, published>>
  BY DEF Place!SetOut
<1>2. first \in DOMAIN chosen
  <2>1. DOMAIN chosen \ settled \subseteq Nat /\ DOMAIN chosen \ settled # {}
    BY <1>1, UpIsChosen DEF PlacesInv, Walking
  <2>. QED BY <2>1, SmallestPlace
<1>. HIDE DEF first
<1>3. walked' \in Seq(DOMAIN chosen) /\ Len(walked') = 1
  BY <1>1, <1>2
<1>4. Walking'
  <2>1. 1..(Len(walked') - 1) = {}
    BY <1>3
  <2>. QED BY <1>1, <1>3, <2>1, SameChosen DEF PlacesInv, Walking
<1>. QED BY <1>1, <1>4, WalkingOn

LEMMA PlacesClimb ==
  ASSUME PlacesInv, outcome = "breaking", Place!Climb, UNCHANGED <<facts, pending, published>>
  PROVE  PlacesInv'
<1>. DEFINE last == Len(walked)
<1>1. /\ walked # <<>> /\ walked' = Append(walked, Up(walked[last])) /\ Up(walked[last]) # Place!Nowhere
      /\ UNCHANGED <<facts, outcome, pending, chosen, settled, published>>
  BY DEF Place!Climb, Place!Onward, Up
<1>2. /\ walked \in Seq(DOMAIN chosen) /\ \A k \in 1..(last - 1) : Up(walked[k]) = walked[k + 1]
  BY DEF PlacesInv, Walking
<1>3. last \in Nat \ {0} /\ walked[last] \in DOMAIN chosen
  BY <1>1, <1>2
<1>4. Up(walked[last]) \in DOMAIN chosen
  BY <1>1, <1>3, UpIsChosen DEF PlacesInv
<1>5. /\ walked' \in Seq(DOMAIN chosen) /\ Len(walked') = last + 1
      /\ \A k \in 1..last : walked'[k] = walked[k]
      /\ walked'[last + 1] = Up(walked[last])
  BY <1>1, <1>2, <1>4, AppendProperties
<1>. HIDE DEF last
<1>6. ASSUME NEW k \in 1..(Len(walked') - 1) PROVE Up(walked'[k]) = walked'[k + 1]
  <2>1. k \in 1..last
    BY <1>3, <1>5
  <2>2. CASE k = last
    BY <1>5, <2>1, <2>2
  <2>3. CASE k # last
    <3>1. k \in 1..(last - 1) /\ k + 1 \in 1..last
      BY <1>3, <2>1, <2>3
    <3>. QED BY <1>2, <1>5, <2>1, <3>1
  <2>. QED BY <2>2, <2>3
<1>7. Walking'
  BY <1>1, <1>5, <1>6 DEF PlacesInv, Walking, Grounded, Up
<1>. QED BY <1>1, <1>7, WalkingOn

LEMMA PlacesSettle ==
  ASSUME PlacesInv, outcome = "breaking", Place!Settle, UNCHANGED <<facts, pending, published>>
  PROVE  PlacesInv'
<1>. DEFINE last == Len(walked)
            none == Place!Nowhere
            path == {walked[k] : k \in 1..last}
<1>1. /\ walked # <<>> /\ Up(walked[last]) \in {none} \cup settled /\ walked' = <<>>
      /\ UNCHANGED <<facts, outcome, pending, chosen, published>>
  BY DEF Place!Settle, Place!Onward, Up
<1>2. /\ walked \in Seq(DOMAIN chosen) /\ \A k \in 1..(last - 1) : Up(walked[k]) = walked[k + 1]
      /\ settled \subseteq DOMAIN chosen /\ Grounded(settled)
      /\ \A id \in settled : Up(id) \in settled \cup {none}
  BY DEF PlacesInv, Walking
<1>3. settled' = settled \cup path /\ path \subseteq DOMAIN chosen /\ last \in Nat
  <2>1. DOMAIN walked = 1..last /\ last \in Nat
    BY <1>2
  <2>. QED BY <1>2, <2>1 DEF Place!Settle, Place!ToSet
<1>4. none \notin DOMAIN chosen
  BY UpIsChosen DEF PlacesInv
<1>. HIDE DEF last, none
<1>5. ASSUME NEW id \in settled \cup path PROVE Up(id) \in settled \cup path \cup {none}
  <2>1. ASSUME NEW k \in 1..last, id = walked[k] PROVE Up(id) \in settled \cup path \cup {none}
    <3>1. CASE k = last
      BY <1>1, <2>1, <3>1
    <3>2. CASE k # last
      <4>1. k \in 1..(last - 1) /\ k + 1 \in 1..last
        BY <1>3, <2>1, <3>2
      <4>. QED BY <1>2, <2>1, <4>1
    <3>. QED BY <3>1, <3>2
  <2>. QED BY <1>2, <2>1
<1>6. ASSUME NEW part \in SUBSET (settled \cup path), part # {}
      PROVE  \E id \in part : Up(id) \notin part
  <2>1. CASE part \cap settled # {}
    <3>1. PICK id \in part \cap settled : Up(id) \notin part \cap settled
      BY <1>2, <2>1 DEF Grounded
    <3>2. none \notin part
      BY <1>2, <1>3, <1>4
    <3>. QED BY <1>2, <3>1, <3>2
  <2>2. CASE part \cap settled = {}
    <3>. DEFINE behind == {last - k : k \in {i \in 1..last : walked[i] \in part}}
    <3>1. behind \subseteq Nat /\ behind # {}
      BY <1>3, <1>6, <2>2
    <3>2. PICK low \in behind : \A j \in behind : low <= j
      <4>. HIDE DEF behind
      <4>. QED BY <3>1, SmallestPlace
    <3>3. PICK k \in 1..last : walked[k] \in part /\ low = last - k
      BY <3>2
    <3>4. CASE k = last
      <4>1. none \notin part /\ part \cap settled = {}
        BY <1>2, <1>3, <1>4, <2>2
      <4>. QED BY <1>1, <3>3, <3>4, <4>1
    <3>5. CASE k # last
      <4>1. k \in 1..(last - 1) /\ k + 1 \in 1..last /\ ~(low <= last - (k + 1))
        BY <1>3, <3>3, <3>5
      <4>2. walked[k + 1] \notin part
        BY <3>2, <4>1
      <4>. QED BY <1>2, <3>3, <4>1, <4>2
    <3>. QED BY <3>4, <3>5
  <2>. QED BY <2>1, <2>2
<1>. HIDE DEF path
<1>7. Grounded(settled')
  BY <1>3, <1>6 DEF Grounded
<1>8. Walking'
  <2>1. walked' \in Seq(DOMAIN chosen) /\ Len(walked') = 0
    BY <1>1
  <2>2. /\ settled' \subseteq DOMAIN chosen
        /\ \A id \in settled' : Up(id) \in settled' \cup {none}
    BY <1>2, <1>3, <1>5
  <2>. QED BY <1>1, <1>7, <2>1, <2>2 DEF Walking, Grounded, Up, none
<1>. QED BY <1>1, <1>8, WalkingOn

\* A place that hangs under another does so as it is best known.
LEMMA HangsAsBestKnown ==
  ASSUME PlacesInv, outcome = "breaking", NEW id \in DOMAIN chosen, Up(id) # Place!Nowhere
  PROVE  id \in Named /\ id \in Placeable /\ Hanging(id) = Up(id)
<1>1. Len(chosen[id]) = 2 /\ Up(id) = chosen[id][2]
  BY UpIsChosen DEF PlacesInv
<1>2. chosen[id] \in Carried /\ chosen[id][1] = id
  BY DEF PlacesInv, ChosenTypes
<1>3. id \in Placeable /\ id # Unknown
  <2>1. chosen[id][1] \in Placeable
    BY <1>1, <1>2, OfCarried
  <2>. QED BY <1>2, <2>1, PlacesAssumption DEF Placeable
<1>4. id \in Named
  BY <1>3 DEF PlacesInv, Chosen
<1>5. Len(<<id>>) = 1
  BY OfAlone
<1>6. chosen[id] = Best(id)
  BY <1>1, <1>4, <1>5 DEF PlacesInv, Chosen
<1>7. Hanging(id) = IF Len(Best(id)) > 1 THEN Best(id)[2] ELSE Place!Nowhere
  BY DEF Hanging, Place!BestParent, Best
<1>8. Len(Best(id)) = 2 /\ Up(id) = Best(id)[2]
  BY <1>1, <1>6
<1>9. Hanging(id) = Best(id)[2]
  BY <1>7, <1>8
<1>. QED BY <1>3, <1>4, <1>8, <1>9

\* Where every named place hangs as it is best known, or is a root, a loop of
\* the chosen is a loop of the best known.
LEMMA ChosenLoop ==
  ASSUME PlacesInv, outcome = "breaking", NEW loop, loop # {}, loop \subseteq DOMAIN chosen,
         {Up(id) : id \in loop} = loop,
         \A part \in SUBSET loop : part # {} /\ (\A id \in part : Up(id) \in part) => part = loop
  PROVE  /\ Cycle(loop)
         /\ \A id \in loop : id \in Placeable
<1>1. ASSUME NEW id \in loop PROVE id \in Named /\ id \in Placeable /\ Hanging(id) = Up(id)
  <2>1. id \in DOMAIN chosen /\ Up(id) \in DOMAIN chosen
    OBVIOUS
  <2>2. Up(id) # Place!Nowhere
    BY <2>1, UpIsChosen DEF PlacesInv
  <2>. QED BY <2>1, <2>2, HangsAsBestKnown
<1>2. {Hanging(id) : id \in loop} = {Up(id) : id \in loop}
  BY <1>1
<1>3. ASSUME NEW part \in SUBSET loop, part # {}, \A id \in part : Hanging(id) \in part PROVE part = loop
  BY <1>1, <1>3
<1>. QED BY <1>1, <1>2, <1>3 DEF Cycle

LEMMA PlacesBreak ==
  ASSUME PlacesInv, outcome = "breaking", Place!Break, UNCHANGED <<facts, pending, published>>
  PROVE  PlacesInv'
<1>1. PICK met \in 1..Len(walked) :
        /\ walked[met] = Up(walked[Len(walked)])
        /\ chosen' = [chosen EXCEPT ![Place!Min({walked[i] : i \in met..Len(walked)})] =
                                      <<Place!Min({walked[i] : i \in met..Len(walked)})>>]
  <2>1. DOMAIN walked = 1..Len(walked)
    BY DEF PlacesInv, Walking
  <2>. QED BY <2>1 DEF Place!Break, Place!Onward, Up
<1>2. walked' = <<>> /\ settled' = {} /\ UNCHANGED <<facts, outcome, pending, published>>
  BY DEF Place!Break
<1>. DEFINE loop == {walked[i] : i \in met..Len(walked)}
            open == Place!Min(loop)
<1>3. /\ walked \in Seq(DOMAIN chosen)
      /\ \A k \in 1..(Len(walked) - 1) : Up(walked[k]) = walked[k + 1]
  BY DEF PlacesInv, Walking
<1>4. chosen' = [chosen EXCEPT ![open] = <<open>>]
  BY <1>1
<1>5. /\ loop # {} /\ loop \subseteq DOMAIN chosen /\ {Up(id) : id \in loop} = loop
      /\ \A part \in SUBSET loop : part # {} /\ (\A id \in part : Up(id) \in part) => part = loop
  <2>1. \E l : l = loop
    OBVIOUS
  <2>. HIDE DEF loop
  <2>. QED BY <1>1, <1>3, <2>1, WalkedLoop DEF loop
<1>. HIDE DEF loop
<1>6. Cycle(loop) /\ \A id \in loop : id \in Placeable
  BY <1>5, ChosenLoop
<1>7. open \in loop
  BY <1>5, <1>6, SmallestPlace, PlacesAssumption DEF Placeable
<1>8. open \in DOMAIN chosen /\ open \in Placeable /\ open # Unknown /\ Opens(open)
  BY <1>5, <1>6, <1>7, PlacesAssumption DEF Placeable, Opens
<1>. HIDE DEF open
<1>9. DOMAIN chosen' = DOMAIN chosen /\ chosen'[open] = <<open>>
      /\ \A id \in DOMAIN chosen : id # open => chosen'[id] = chosen[id]
  BY <1>4, <1>8 DEF PlacesInv, ChosenTypes
<1>10. ChosenTypes'
  <2>1. <<open>> \in Carried /\ <<open>>[1] = open
    BY <1>8, OfAlone DEF Carried
  <2>2. chosen' = [id \in DOMAIN chosen' |-> chosen'[id]]
    BY <1>4
  <2>. QED BY <1>8, <1>9, <2>1, <2>2 DEF PlacesInv, ChosenTypes
<1>11. Chosen'
  <2>1. /\ DOMAIN chosen = {Unknown} \cup Named
        /\ \A id \in Named :
             /\ Champion(id, Best(id))
             /\ chosen[id] = Best(id) \/ (chosen[id] = <<id>> /\ Opens(id))
    BY DEF PlacesInv, Chosen
  <2>2. \A id \in Named : chosen'[id] = Best(id) \/ (chosen'[id] = <<id>> /\ Opens(id))
    BY <1>8, <1>9, <2>1
  <2>3. Named' = Named /\ \A id : Best(id)' = Best(id) /\ (Opens(id)' <=> Opens(id))
    BY <1>2, SameFacts
  <2>4. \A id \in Named : Champion(id, Best(id))'
    BY <1>2, <2>1, <2>3, SameFacts DEF Champion
  <2>. QED BY <1>9, <2>1, <2>2, <2>3, <2>4 DEF Chosen
<1>12. Told' /\ Choosing'
  BY <1>2, SameFacts DEF PlacesInv, Told, Choosing
<1>13. Walking'
  <2>1. walked' \in Seq(DOMAIN chosen') /\ Len(walked') = 0
    BY <1>2
  <2>. QED BY <1>2, <2>1 DEF Walking, Grounded
<1>14. Ordered'
  <2>1. published' = <<>> /\ outcome' = "breaking"
    BY <1>2 DEF PlacesInv, Ordered
  <2>2. published' \in Seq(Carried) /\ Len(published') = 0
    BY <2>1
  <2>. QED BY <2>1, <2>2 DEF Ordered
<1>. QED BY <1>10, <1>11, <1>12, <1>13, <1>14 DEF PlacesInv

LEMMA PlacesBroken ==
  ASSUME PlacesInv, outcome = "breaking", Place!Broken, UNCHANGED <<facts, pending, published>>
  PROVE  PlacesInv'
<1>. USE DEF PlacesInv, Place!Broken
<1>1. Told' /\ Chosen' /\ Choosing' /\ ChosenTypes'
  BY SameFacts, SameChosen DEF Told, Chosen, Choosing
<1>2. Walking' /\ Ordered'
  BY DEF Walking, Ordered, Grounded, Up
<1>. QED BY <1>1, <1>2

\* Whatever is the least of what is left has its parent published.
LEMMA PlacesOrder ==
  ASSUME PlacesInv, Place!publicationOrder
  PROVE  PlacesInv'
<1>. DEFINE depth == Place!publishedDepth(chosen)
            left == DOMAIN chosen \ Place!ToSet(Place!Ids)
            n == Len(published)
            done == {published[i][1] : i \in 1..n}
<1>1. /\ outcome = "ordering" /\ UNCHANGED <<facts, pending, chosen, walked, settled>>
      /\ outcome' \in {"ordering", "published"}
  BY DEF Place!publicationOrder
<1>2. PICK id \in left :
        /\ \A second \in left :
              depth[id] < depth[second] \/ (depth[id] = depth[second] /\ id <= second)
        /\ published' = Append(published, chosen[id])
        /\ outcome' = IF left = {id} THEN "published" ELSE "ordering"
  BY DEF Place!publicationOrder
<1>3. /\ published \in Seq(Carried) /\ n \in Nat /\ ChosenTypes /\ Grounded(DOMAIN chosen)
      /\ \A i \in 1..n :
           /\ published[i][1] \in DOMAIN chosen /\ published[i] = chosen[published[i][1]]
           /\ Up(published[i][1]) # Place!Nowhere =>
                \E j \in 1..(i - 1) : published[j][1] = Up(published[i][1])
      /\ \A i, j \in 1..n : published[i][1] = published[j][1] => i = j
  BY <1>1 DEF PlacesInv, Walking, Ordered
<1>4. Place!ToSet(Place!Ids) = done
  <2>1. DOMAIN published = 1..n
    BY <1>3
  <2>. QED BY <2>1 DEF Place!ToSet, Place!Ids
<1>5. /\ \A i \in DOMAIN chosen : depth[i] \in Nat
      /\ \A i \in DOMAIN chosen : Up(i) # Place!Nowhere => depth[Up(i)] < depth[i]
  BY <1>3, DepthsExist
<1>6. id \in DOMAIN chosen /\ chosen[id] \in Carried /\ chosen[id][1] = id
  BY <1>3 DEF ChosenTypes
<1>. HIDE DEF depth
<1>7. Up(id) # Place!Nowhere => \E j \in 1..n : published[j][1] = Up(id)
  <2>. SUFFICES ASSUME Up(id) # Place!Nowhere PROVE Up(id) \in done
    OBVIOUS
  <2>1. Up(id) \in DOMAIN chosen
    BY <1>3, <1>6, UpIsChosen
  <2>4. depth[Up(id)] < depth[id]
    BY <1>5, <1>6
  <2>2. depth[Up(id)] < depth[id] /\ depth[Up(id)] \in Nat /\ depth[id] \in Nat
    BY <1>5, <1>6, <2>1, <2>4
  <2>3. Up(id) \notin left
    BY <1>2, <2>2
  <2>. QED BY <1>4, <2>1, <2>3
<1>8. \A i \in 1..n : published[i][1] # id
  BY <1>2, <1>4
<1>9. /\ published' \in Seq(Carried) /\ Len(published') = n + 1
      /\ \A i \in 1..n : published'[i] = published[i]
      /\ published'[n + 1] = chosen[id]
  BY <1>2, <1>3, <1>6, AppendProperties
<1>10. outcome' = "published" => DOMAIN chosen \subseteq done \cup {id}
  BY <1>2, <1>4
<1>. HIDE DEF left, n
<1>11. Ordered'
  <2>1. ASSUME NEW i \in 1..(n + 1)
        PROVE  /\ published'[i][1] \in DOMAIN chosen /\ published'[i] = chosen[published'[i][1]]
               /\ Up(published'[i][1]) # Place!Nowhere =>
                    \E j \in 1..(i - 1) : published'[j][1] = Up(published'[i][1])
    <3>1. CASE i = n + 1
      <4>1. published'[i] = chosen[id] /\ i - 1 = n
        BY <1>3, <1>9, <3>1
      <4>. QED BY <1>6, <1>7, <1>9, <4>1
    <3>2. CASE i # n + 1
      <4>1. i \in 1..n /\ \A j \in 1..(i - 1) : j \in 1..n
        BY <1>3, <2>1, <3>2
      <4>2. published'[i] = published[i] /\ \A j \in 1..(i - 1) : published'[j] = published[j]
        BY <1>9, <4>1
      <4>. QED BY <1>3, <4>1, <4>2
    <3>. QED BY <3>1, <3>2
  <2>2. ASSUME NEW i \in 1..(n + 1), NEW j \in 1..(n + 1), published'[i][1] = published'[j][1] PROVE i = j
    <3>1. i \in 1..n \/ i = n + 1
      BY <1>3, <2>2
    <3>2. j \in 1..n \/ j = n + 1
      BY <1>3, <2>2
    <3>. QED BY <1>3, <1>6, <1>8, <1>9, <2>2, <3>1, <3>2
  <2>3. ASSUME outcome' = "published", NEW place \in DOMAIN chosen
        PROVE  \E i \in 1..(n + 1) : published'[i][1] = place
    <3>1. CASE place = id
      <4>1. n + 1 \in 1..(n + 1)
        BY <1>3
      <4>. QED BY <1>6, <1>9, <3>1, <4>1
    <3>2. CASE place # id
      <4>1. PICK i \in 1..n : published[i][1] = place
        BY <1>10, <2>3, <3>2
      <4>2. i \in 1..(n + 1)
        BY <1>3
      <4>. QED BY <1>9, <4>1, <4>2
    <3>. QED BY <3>1, <3>2
  <2>4. outcome' \notin {"ordering", "published"} => published' = <<>>
    BY <1>1
  <2>. QED BY <1>1, <1>9, <2>1, <2>2, <2>3, <2>4 DEF Ordered, Up
<1>12. Told' /\ Chosen' /\ Choosing' /\ ChosenTypes'
  BY <1>1, SameFacts, SameChosen DEF PlacesInv, Told, Chosen, Choosing
<1>13. Walking'
  BY <1>1 DEF PlacesInv, Walking, Grounded, Up
<1>. QED BY <1>11, <1>12, <1>13 DEF PlacesInv

LEMMA PlacesStay == PlacesInv /\ [Place!Next]_(Place!vars) => PlacesInv'
<1>. SUFFICES ASSUME PlacesInv, [Place!Next]_(Place!vars) PROVE PlacesInv'
  OBVIOUS
<1>1. CASE Place!Resolve
  BY <1>1, PlacesResolve
<1>2. CASE Place!Consider
  BY <1>2, PlacesConsider
<1>3. CASE Place!Considered
  BY <1>3, PlacesConsidered
<1>4. CASE Place!breakCycles
  BY <1>4, PlacesSetOut, PlacesClimb, PlacesSettle, PlacesBreak, PlacesBroken DEF Place!breakCycles
<1>5. CASE Place!publicationOrder
  BY <1>5, PlacesOrder
<1>6. CASE UNCHANGED Place!vars
  <2>. USE <1>6 DEF Place!vars, PlacesInv
  <2>1. Told' /\ Chosen' /\ ChosenTypes'
    BY SameFacts, SameChosen DEF Told, Chosen
  <2>3. Choosing'
    BY SameFacts DEF Choosing, Outdone, Place!Ancestors
  <2>2. Walking' /\ Ordered'
    BY DEF Walking, Ordered, Grounded, Up
  <2>. QED BY <2>1, <2>2, <2>3
<1>. QED BY <1>1, <1>2, <1>3, <1>4, <1>5, <1>6 DEF Place!Next

\* What is published is a tree, in an order a client can build it in.
LEMMA PublishedIsATree == PlacesInv => Place!TreeInOnePass
<1>. SUFFICES ASSUME PlacesInv, outcome = "published" PROVE
        /\ Place!IsInjective(Place!Ids) /\ Unknown \in Place!ToSet(Place!Ids)
        /\ \A i \in DOMAIN Place!Values : Place!ToSet(Place!Values[i]) \subseteq Place!ToSet(Place!Ids)
        /\ \A i \in DOMAIN published :
             Place!Parent(i) # Place!Nowhere => \E j \in 1..(i - 1) : Place!Ids[j] = Place!Parent(i)
  BY DEF Place!TreeInOnePass
<1>1. /\ published \in Seq(Carried)
      /\ \A i \in 1..Len(published) :
           /\ published[i][1] \in DOMAIN chosen /\ published[i] = chosen[published[i][1]]
           /\ Up(published[i][1]) # Place!Nowhere =>
                \E j \in 1..(i - 1) : published[j][1] = Up(published[i][1])
      /\ \A i, j \in 1..Len(published) : published[i][1] = published[j][1] => i = j
      /\ \A id \in DOMAIN chosen : \E i \in 1..Len(published) : published[i][1] = id
  BY DEF PlacesInv, Ordered
<1>2. /\ ChosenTypes /\ DOMAIN chosen = {Unknown} \cup Named
      /\ \A id \in Named :
           /\ Champion(id, Best(id))
           /\ chosen[id] = Best(id) \/ (chosen[id] = <<id>> /\ Opens(id))
      /\ \A i \in DOMAIN Place!Values : Place!Values[i] \in Carried
  BY DEF PlacesInv, Chosen, Told
<1>3. /\ DOMAIN Place!Ids = 1..Len(published) /\ DOMAIN published = 1..Len(published)
      /\ \A i \in 1..Len(published) : Place!Ids[i] = published[i][1]
  BY <1>1 DEF Place!Ids
<1>4. Place!IsInjective(Place!Ids)
  BY <1>1, <1>3 DEF Place!IsInjective
<1>5. DOMAIN chosen \subseteq Place!ToSet(Place!Ids)
  BY <1>1, <1>3 DEF Place!ToSet
<1>6. \A i \in DOMAIN Place!Values : Place!ToSet(Place!Values[i]) \subseteq Named
  BY DEF Named
<1>7. ASSUME NEW i \in 1..Len(published), Place!Parent(i) # Place!Nowhere
      PROVE  \E j \in 1..(i - 1) : Place!Ids[j] = Place!Parent(i)
  <2>. DEFINE id == published[i][1]
  <2>1. id \in DOMAIN chosen /\ published[i] = chosen[id] /\ chosen[id] \in Carried
    BY <1>1, <1>2, <1>7 DEF ChosenTypes
  <2>. HIDE DEF id
  <2>2. Len(chosen[id]) > 1 /\ Place!Parent(i) = chosen[id][2]
    BY <1>7, <2>1 DEF Place!Parent
  <2>3. Len(chosen[id]) = 2 /\ chosen[id][1] \in Placeable /\ chosen[id][1] = id
    BY <1>2, <2>1, <2>2, OfCarried DEF ChosenTypes
  <2>4. id \in Named /\ Len(<<id>>) = 1
    BY <1>2, <2>1, <2>3, OfAlone, PlacesAssumption DEF Placeable
  <2>5. chosen[id] \in Referred
    BY <1>2, <2>3, <2>4 DEF Champion
  <2>6. chosen[id][2] \in Named
    <3>1. <<chosen[id][2]>> \in Referred /\ Named = {v[1] : v \in Referred}
      BY <1>2, <2>3, <2>5, ReferredValues
    <3>2. <<chosen[id][2]>>[1] = chosen[id][2]
      BY OfAlone
    <3>. QED BY <3>1, <3>2
  <2>7. Up(id) = chosen[id][2]
    BY <1>2, <2>2, <2>6 DEF Up, Place!chosenParent
  <2>8. PICK j \in 1..(i - 1) : published[j][1] = Up(id)
    BY <1>1, <1>7, <2>2, <2>7 DEF id
  <2>9. j \in 1..Len(published)
    BY <1>1
  <2>. QED BY <1>3, <2>2, <2>7, <2>8, <2>9
<1>. QED BY <1>2, <1>3, <1>4, <1>5, <1>6, <1>7

\* A place is published as the facts know it best, or opens a loop: in every
\* loop one does, and it is the first.
LEMMA PublishedAsBestKnown == PlacesInv => Place!SameFactsSameRegistry
<1>. DEFINE opened == {Place!Min(loop) : loop \in Place!Loops(Place!Values)}
<1>. SUFFICES ASSUME PlacesInv, outcome = "published", NEW i \in DOMAIN published, Place!Ids[i] # Unknown
              PROVE  published[i] = IF Place!Ids[i] \in opened THEN <<Place!Ids[i]>> ELSE Best(Place!Ids[i])
  BY DEF Place!SameFactsSameRegistry, Best
<1>. DEFINE id == published[i][1]
<1>1. id \in DOMAIN chosen /\ published[i] = chosen[id] /\ Place!Ids[i] = id
  BY DEF PlacesInv, Ordered, Place!Ids
<1>. HIDE DEF id
<1>2. /\ ChosenTypes /\ DOMAIN chosen = {Unknown} \cup Named /\ Grounded(DOMAIN chosen)
      /\ \A place \in Named : chosen[place] = Best(place) \/ (chosen[place] = <<place>> /\ Opens(place))
  BY DEF PlacesInv, Chosen, Walking
<1>3. id \in Named
  BY <1>1, <1>2
<1>4. ASSUME id \in opened PROVE chosen[id] = <<id>>
  <2>1. PICK loop \in Place!Loops(Place!Values) : id = Place!Min(loop)
    BY <1>4
  <2>2. loop \in SUBSET Named /\ loop # {} /\ {Hanging(place) : place \in loop} = loop
    BY LoopsOf
  <2>3. PICK place \in loop : Up(place) \notin loop
    BY <1>2, <2>2 DEF Grounded
  <2>4. place \in Named /\ Hanging(place) \in loop /\ Hanging(place) \in Named
    BY <2>2, <2>3
  <2>5. chosen[place] # Best(place)
    <3>. SUFFICES ASSUME chosen[place] = Best(place) PROVE FALSE
      OBVIOUS
    <3>1. Hanging(place) = IF Len(Best(place)) > 1 THEN Best(place)[2] ELSE Place!Nowhere
      BY DEF Hanging, Place!BestParent, Best
    <3>2. Hanging(place) \in DOMAIN chosen /\ Place!Nowhere \notin DOMAIN chosen
      BY <1>2, <2>4, UpIsChosen
    <3>3. Len(chosen[place]) > 1 /\ chosen[place][2] = Hanging(place)
      BY <3>1, <3>2
    <3>4. Up(place) = Hanging(place)
      BY <3>2, <3>3 DEF Up, Place!chosenParent
    <3>. QED BY <2>3, <2>4, <3>4
  <2>6. chosen[place] = <<place>> /\ Opens(place)
    BY <1>2, <2>4, <2>5
  <2>7. PICK cycle : Cycle(cycle) /\ place = Place!Min(cycle)
    BY <2>6 DEF Opens
  <2>8. place \in cycle
    <3>1. cycle \subseteq Nat /\ cycle # {}
      BY <1>2, <2>7, UpIsChosen DEF Cycle
    <3>. QED BY <2>7, <3>1, SmallestPlace
  <2>9. loop = cycle
    BY <2>3, <2>7, <2>8, LoopsThatMeet
  <2>. QED BY <2>1, <2>6, <2>7, <2>9
<1>5. ASSUME chosen[id] # Best(id) PROVE id \in opened /\ chosen[id] = <<id>>
  <2>1. chosen[id] = <<id>> /\ Opens(id)
    BY <1>2, <1>3, <1>5
  <2>. QED BY <2>1, CyclesAreLoops DEF Opens
<1>. HIDE DEF opened
<1>. QED BY <1>1, <1>4, <1>5

\* Whatever places were recorded of the work a response refers to, and in
\* whatever order: a client builds their tree in one pass, each is published as
\* it is best known, and only the first place of a loop gives up its parent
\* (NewLocationRegistry).
THEOREM OneTreeIsPublished == Place!Spec => []PublishesOneTree
<1>1. PlacesInv => PublishesOneTree
  BY PublishedIsATree, PublishedAsBestKnown DEF PublishesOneTree, Place!PublishesOneTree
<1>. QED BY <1>1, PlacesBegin, PlacesStay, PTL DEF Place!Spec

-----------------------------------------------------------------------------
(* The overview: what the runs leave.                                      *)

\* The iterations begun so far.
Begun == {s \in Chains \X (1..MaxRuns) : s[2] <= Len(starts[s[1]])}

RowTypes == [outcome : {"running", "succeeded", "failed"}, waiting : BOOLEAN, place : {Unsaid, "tree"}]

WorldTypes ==
  /\ exec \in [Chains -> {"none", "running", "succeeded", "failed", "gone"}]
  /\ listed \in [Chains -> Nat] /\ starts \in [Chains -> Seq(Nat)]
  /\ rows \in [Chains -> Seq(RowTypes)]

\* No two iterations began at one time, and a later one began later.
Timed ==
  /\ \A c \in Chains : Len(starts[c]) <= Clock
  /\ \A c \in Chains : \A i \in 1..Len(starts[c]) : starts[c][i] \in 1..Clock
  /\ \A c \in Chains : \A i, j \in 1..Len(starts[c]) : i < j => starts[c][i] < starts[c][j]
  /\ \A c, d \in Chains : c # d =>
       \A i \in 1..Len(starts[c]), j \in 1..Len(starts[d]) : starts[c][i] # starts[d][j]

\* A chain's rows are those of its iterations, but perhaps for the last: the
\* first tells where it runs, only the last may run still, and asks only then.
Lived(c) ==
  /\ exec[c] = "none" <=> Len(starts[c]) = 0
  /\ Len(rows[c]) <= Len(starts[c]) /\ Len(starts[c]) <= Len(rows[c]) + 1
  /\ listed[c] <= Len(starts[c])
  /\ \A i \in 1..Len(rows[c]) :
       /\ rows[c][i].place = IF i = 1 THEN "tree" ELSE Unsaid
       /\ i < Len(starts[c]) => rows[c][i].outcome # "running"
       /\ rows[c][i].outcome # "running" => rows[c][i].waiting = FALSE
  /\ exec[c] = "succeeded" => Len(rows[c]) = Len(starts[c]) /\ Last(rows[c]).outcome = "succeeded"

WorldInv == WorldTypes /\ Timed /\ \A c \in Chains : Lived(c)

-----------------------------------------------------------------------------
(* What a chain's rows come to.                                            *)

Represented == Chains \ Fired   \* those that are shown as runs of their own

Concluded(c, from) == {i \in from..Len(rows[c]) : rows[c][i].outcome # "running"}

\* The latest row, with what those from first on add to it.
Latest(c, first) ==
  LET last == Len(rows[c])
  IN [Iteration(c, last, rows[c][last].outcome, rows[c][last].waiting, Unsaid)
        EXCEPT !.start = starts[c][first], !.tokens = Cardinality(Concluded(c, first)),
               !.place = IF first = 1 THEN "tree" ELSE Unsaid]

\* The chain of the rows from first on.
Collapsed(c, first) ==
  [iterations |-> Len(rows[c]) - first + 1, tokens |-> Cardinality(Concluded(c, first)),
   start |-> starts[c][first], latest |-> Latest(c, first)]

RecordedChain(c) == Collapsed(c, 1)

-----------------------------------------------------------------------------
(* What a read has learnt.                                                 *)

\* The page that was read tells of the chain.
OnPage(c) == \E chain \in reader.page : chain.latest.id = c

\* The chain is among the live executions.
IsLive(c) == \E e \in reader.live : e.id = c

LiveRuns == {e \in reader.live : isRunSatellite(e)}

\* What the orchestrator says of a chain whose listing or row says it runs.
Now(c) == IF exec[c] \in {"running", "succeeded"} THEN exec[c] ELSE "failed"

\* An iteration as the listing tells of it.
ListedAs(c, i) == Iteration(c, i, "running", FALSE, Unsaid)

\* ToldFields of an iteration of a chain, as far as all sources agree.
IsOf(e) ==
  /\ e.id \in Chains /\ e.run \in Nat /\ e.class = "run" /\ e.parent = Unsaid
  /\ e.schedule = (IF e.id \in Fired THEN "schedule" ELSE Unsaid)

\* Dated by one of the chain's iterations.
Dated(r) == r.id \in Chains /\ \E i \in 1..Len(starts[r.id]) : r.start = starts[r.id][i]

\* The live executions are each told of once, a steady one as it is.
LiveInv ==
  reader.step \in {"page", "states"} =>
    /\ \A e \in reader.live : IsOf(e) /\ Dated(e)
    /\ \A e, f \in reader.live : e.id = f.id => e = f
    /\ \A c \in steady : listed[c] # 0 => IsLive(c)
    /\ \A e \in reader.live : e.id \in steady =>
         /\ e.run = Len(starts[e.id]) /\ e.outcome = Now(e.id)
         /\ exec[e.id] = "running" \/ Recorded(e.id)
         /\ rows[e.id] = <<>> => e = ListedAs(e.id, 1)

\* A chain with rows, and one that began after another.
Old(c) == rows[c] # <<>>

Later(c, d) == starts[c][1] > starts[d][1]

\* A page tells of each chain once, of a steady one all that its rows say.
PageInv ==
  reader.step = "states" =>
    /\ \A chain \in reader.page :
         /\ IsOf(chain.latest) /\ chain.latest.id \notin Fired
         /\ Len(starts[chain.latest.id]) > 0 /\ chain.start = starts[chain.latest.id][1]
         /\ chain.latest.start = chain.start
         /\ chain.latest.id \in steady => Old(chain.latest.id) /\ chain = RecordedChain(chain.latest.id)
    /\ \A a, b \in reader.page : a.latest.id = b.latest.id => a = b
    /\ \A c \in reader.ids : c \in Represented /\ OnPage(c) /\ Old(c)

\* What was made visible is told once, of a steady run the truth.
ItemsInv ==
  reader.step \in {"page", "states"} =>
    /\ \A r \in reader.items : Dated(r) /\ r.id \in reader.seen /\ r.id \notin Fired
    /\ \A r, q \in reader.items : r.id = q.id => r = q
    /\ ~reader.crowded => \A c \in steady :
         /\ \A r \in reader.items : r.id = c => r = Truth(c)
         /\ c \in reader.seen => Truth(c) \in reader.items \/ Dismissed(reader.hidden, Truth(c))

\* What the pages read so far leave out is on the next ones.
Covered ==
  /\ reader.step = "page" =>
       /\ reader.cursor # 0 => reader.cursor \in Represented /\ Old(reader.cursor)
       /\ \A c \in steady \ Fired : Old(c) =>
            reader.cursor = 0 \/ c \in reader.seen \/ Later(reader.cursor, c)
       /\ ~reader.crowded /\ reader.cursor # 0 =>
            \A c \in steady \ Fired : IsLive(c) => c \in reader.seen
  /\ reader.step = "states" =>
       /\ reader.next # 0 => reader.next \in Represented /\ Old(reader.next)
       /\ \A c \in steady \ Fired : Old(c) =>
            \/ c \in reader.seen \/ OnPage(c)
            \/ reader.next # 0 /\ Later(reader.next, c) /\ \A d \in reader.ids : Later(d, c)
       /\ ~reader.crowded /\ Cardinality(LiveRuns) <= Limit =>
            \A c \in steady \ Fired : IsLive(c) => c \in reader.seen \/ ~Old(c) \/ OnPage(c)

\* The viewer either reads or dismisses, and a read starts with nothing.
Quiet ==
  /\ reader.step \in {"idle", "live", "page", "states", "published", "failed"}
  /\ reader.step # "idle" => dismiss.step = "idle"
  /\ dismiss.step # "idle" => dismiss.id \in Chains
  /\ DOMAIN hidden \subseteq Chains /\ DOMAIN reader.hidden \subseteq Chains /\ steady \subseteq Chains
  /\ reader.step # "published" => reader.published = {}
  /\ reader.step \in {"idle", "live", "failed"} =>
       /\ reader.items = {} /\ reader.seen = {}
       /\ reader.cursor = 0 /\ reader.next = 0 /\ reader.crowded = FALSE

\* What is steady has begun, and its sources agree.
Settled ==
  reader.step \in {"live", "page", "states", "published"} =>
    \A c \in steady : exec[c] # "none" /\ InSync(c)

\* All of it together is inductive.
OverviewInv ==
  WorldInv /\ Quiet /\ Settled /\ LiveInv /\ PageInv /\ ItemsInv /\ Covered /\ OverviewTellsTheTruth

\* Of a nonempty set of numbers one is least.
LEMMA LeastExists ==
  ASSUME NEW T, T \subseteq Nat, T # {}
  PROVE  \E i \in T : \A j \in T : i <= j
<1>1. PICK i \in T : \A j \in T : ~(<<j, i>> \in OpToRel(<, Nat))
  BY NatLessThanWellFounded, WFMin
<1>2. \A j \in T : ~(j < i)
  BY <1>1 DEF OpToRel
<1>. QED BY <1>2

\* An order by a key, the largest first.
ByKey(S, key, bound, order) ==
  /\ IsFiniteSet(S) /\ key \in [S -> 0..bound]
  /\ \A x, y \in S : key[x] = key[y] => x = y
  /\ \A x, y \in S : <<y, x>> \in order <=> key[y] > key[x]

\* Of a nonempty set one is last, and one first.
LEMMA EndsExist ==
  ASSUME NEW S, NEW key, NEW bound \in Nat, key \in [S -> 0..bound], NEW T \in SUBSET S, T # {}
  PROVE  /\ \E x \in T : \A y \in T : key[x] <= key[y]
         /\ \E x \in T : \A y \in T : key[y] <= key[x]
<1>. DEFINE keys == {n \in 0..bound : \E x \in T : key[x] = n}
            reverse == {n \in 0..bound : \E x \in T : bound - key[x] = n}
<1>0. \A x \in T : key[x] \in 0..bound
  OBVIOUS
<1>1. keys \subseteq Nat /\ keys # {} /\ \A x \in T : key[x] \in keys
  BY <1>0
<1>2. reverse \subseteq Nat /\ reverse # {} /\ \A x \in T : bound - key[x] \in reverse
  <2>1. \A x \in T : bound - key[x] \in 0..bound
    BY <1>0
  <2>. QED BY <2>1
<1>3. PICK i \in keys : \A j \in keys : i <= j
  <2>. HIDE DEF keys
  <2>. QED BY <1>1, LeastExists
<1>4. PICK i2 \in reverse : \A j \in reverse : i2 <= j
  <2>. HIDE DEF reverse
  <2>. QED BY <1>2, LeastExists
<1>5. PICK x \in T : key[x] = i
  OBVIOUS
<1>6. \A y \in T : key[x] <= key[y]
  BY <1>1, <1>3, <1>5
<1>7. PICK x2 \in T : bound - key[x2] = i2
  OBVIOUS
<1>8. \A y \in T : bound - key[x2] <= bound - key[y]
  BY <1>2, <1>4, <1>7
<1>9. \A y \in T : key[y] <= key[x2]
  BY <1>0, <1>8
<1>. QED BY <1>6, <1>9

\* The first n are among them, all of them where there are no more, and all
\* before those that are not.
LEMMA ForemostAreFirst ==
  ASSUME NEW S, NEW key, NEW bound \in Nat, NEW order, ByKey(S, key, bound, order), NEW n \in Nat
  PROVE  /\ Foremost(S, n, order) \subseteq S /\ IsFiniteSet(Foremost(S, n, order))
         /\ Cardinality(S) <= n => Foremost(S, n, order) = S
         /\ \A x \in Foremost(S, n, order), y \in S \ Foremost(S, n, order) : key[x] > key[y]
         /\ \A x \in S, T \in SUBSET S :
              Cardinality(T) >= n /\ (\A y \in T : key[y] > key[x]) => x \notin Foremost(S, n, order)
<1>. DEFINE before(x) == {y \in S : <<y, x>> \in order}
            first == Foremost(S, n, order)
<1>0. first = {x \in S : Cardinality(before(x)) < n}
  BY DEF Foremost
<1>1. IsFiniteSet(S) /\ key \in [S -> 0..bound]
  BY DEF ByKey
<1>2. \A x \in S : before(x) = {y \in S : key[y] > key[x]}
  BY DEF ByKey
<1>3. \A x \in S : IsFiniteSet(before(x)) /\ Cardinality(before(x)) \in Nat
  <2>1. \A x \in S : before(x) \in SUBSET S
    OBVIOUS
  <2>. HIDE DEF before
  <2>. QED BY <1>1, <2>1, FS_Subset, FS_CardinalityType
<1>4. first \subseteq S /\ IsFiniteSet(first)
  BY <1>0, <1>1, FS_Subset
<1>5. ASSUME Cardinality(S) <= n, NEW x \in S PROVE x \in first
  <2>1. before(x) \in SUBSET (S \ {x})
    BY <1>1, <1>2
  <2>2. IsFiniteSet(S \ {x}) /\ Cardinality(S \ {x}) = Cardinality(S) - 1
    BY <1>1, FS_RemoveElement
  <2>3. Cardinality(before(x)) <= Cardinality(S) - 1
    <3>. HIDE DEF before
    <3>. QED BY <2>1, <2>2, FS_Subset
  <2>4. Cardinality(S) \in Nat
    BY <1>1, FS_CardinalityType
  <2>. QED BY <1>0, <1>3, <1>5, <2>3, <2>4
<1>6. ASSUME NEW x \in first, NEW y \in S \ first PROVE key[x] > key[y]
  <2>1. key[x] \in Nat /\ key[y] \in Nat /\ x \in S
    BY <1>1, <1>4
  <2>2. CASE key[x] <= key[y]
    <3>1. before(y) \in SUBSET before(x)
      <4>1. ASSUME NEW z \in before(y) PROVE z \in before(x)
        <5>1. z \in S /\ key[z] > key[y] /\ key[z] \in Nat
          BY <1>1, <1>2
        <5>. QED BY <1>2, <2>1, <2>2, <5>1
      <4>. QED BY <4>1
    <3>2. Cardinality(before(y)) <= Cardinality(before(x))
      BY <1>3, <2>1, <3>1, FS_Subset
    <3>. QED BY <1>0, <1>3, <2>1, <3>2
  <2>. QED BY <2>1, <2>2
<1>7. ASSUME NEW x \in S, NEW T \in SUBSET S, Cardinality(T) >= n, \A y \in T : key[y] > key[x]
      PROVE  x \notin first
  <2>1. T \in SUBSET before(x)
    BY <1>2, <1>7
  <2>2. Cardinality(T) <= Cardinality(before(x))
    BY <1>3, <2>1, FS_Subset
  <2>3. IsFiniteSet(T) /\ Cardinality(T) \in Nat
    BY <1>1, FS_Subset, FS_CardinalityType
  <2>4. ~(Cardinality(before(x)) < n)
    <3>. HIDE DEF before
    <3>. QED BY <1>3, <1>7, <2>2, <2>3
  <2>. QED BY <1>0, <2>4
<1>. QED BY <1>4, <1>5, <1>6, <1>7

\* Where there are enough, they are n.
LEMMA ForemostAreMany ==
  ASSUME NEW S, NEW key, NEW bound \in Nat, NEW order, ByKey(S, key, bound, order), NEW n \in Nat,
         n <= Cardinality(S)
  PROVE  Cardinality(Foremost(S, n, order)) = n
<1>. DEFINE wrong == {m \in 0..Cardinality(S) : Cardinality(Foremost(S, m, order)) # m}
            before(x) == {y \in S : <<y, x>> \in order}
<1>1. IsFiniteSet(S) /\ key \in [S -> 0..bound] /\ Cardinality(S) \in Nat
  BY FS_CardinalityType DEF ByKey
<1>2. \A x \in S : before(x) = {y \in S : key[y] > key[x]}
  BY DEF ByKey
<1>3. \A x \in S : IsFiniteSet(before(x)) /\ Cardinality(before(x)) \in Nat
  <2>1. \A x \in S : before(x) \in SUBSET S
    OBVIOUS
  <2>. HIDE DEF before
  <2>. QED BY <1>1, <2>1, FS_Subset, FS_CardinalityType
<1>4. wrong = {}
  <2>. SUFFICES ASSUME wrong # {} PROVE FALSE
    OBVIOUS
  <2>1. wrong \subseteq Nat
    BY <1>1
  <2>2. PICK m \in wrong : \A j \in wrong : m <= j
    <3>. HIDE DEF wrong
    <3>. QED BY <2>1, LeastExists
  <2>3. m # 0
    <3>1. Foremost(S, 0, order) = {}
      BY <1>3 DEF Foremost
    <3>. QED BY <2>2, <3>1, FS_EmptySet
  <2>. DEFINE l == m - 1
              less == Foremost(S, l, order)
  <2>4. l \in Nat /\ l < Cardinality(S) /\ m = l + 1
    BY <1>1, <2>2, <2>3
  <2>5. Cardinality(less) = l
    BY <1>1, <2>2, <2>4
  <2>. HIDE DEF wrong
  <2>6. /\ less \in SUBSET S /\ IsFiniteSet(less)
        /\ \A x \in less, y \in S \ less : key[x] > key[y]
    BY <2>4, ForemostAreFirst
  <2>7. S \ less # {}
    BY <2>4, <2>5, <2>6
  <2>8. PICK x \in S \ less : \A y \in S \ less : key[y] <= key[x]
    <3>1. S \ less \in SUBSET S
      OBVIOUS
    <3>. HIDE DEF less
    <3>. QED BY <1>1, <2>7, <3>1, EndsExist
  <2>9. before(x) = less
    <3>1. \A y \in S : key[y] \in Nat
      BY <1>1
    <3>. QED BY <1>2, <2>6, <2>8, <3>1
  <2>10. Foremost(S, m, order) = less \cup {x}
    <3>0. /\ Foremost(S, m, order) = {z \in S : Cardinality(before(z)) < m}
          /\ less = {z \in S : Cardinality(before(z)) < l}
      BY DEF Foremost
    <3>. HIDE DEF before, less
    <3>1. x \in Foremost(S, m, order)
      BY <2>4, <2>5, <2>9, <3>0
    <3>2. less \subseteq Foremost(S, m, order)
      BY <1>3, <2>4, <3>0
    <3>3. ASSUME NEW y \in Foremost(S, m, order), y \notin less PROVE y = x
      <4>1. y \in S /\ Cardinality(before(y)) < m
        BY <3>0
      <4>2. CASE y # x
        <5>1. key[y] < key[x] /\ key[x] \in Nat /\ key[y] \in Nat
          BY <1>1, <2>8, <3>3, <4>1, <4>2 DEF ByKey
        <5>2. less \cup {x} \in SUBSET before(y)
          BY <1>1, <1>2, <2>6, <2>8, <3>3, <4>1, <5>1
        <5>3. Cardinality(less \cup {x}) = m
          BY <2>4, <2>5, <2>6, <2>8, FS_AddElement
        <5>4. Cardinality(less \cup {x}) <= Cardinality(before(y))
          BY <1>3, <4>1, <5>2, FS_Subset
        <5>. QED BY <1>3, <2>4, <4>1, <5>3, <5>4
      <4>. QED BY <4>2
    <3>. QED BY <3>1, <3>2, <3>3
  <2>11. Cardinality(Foremost(S, m, order)) = m
    <3>. HIDE DEF less
    <3>1. Cardinality(less \cup {x}) = m
      BY <2>4, <2>5, <2>6, <2>8, FS_AddElement
    <3>. QED BY <2>10, <3>1
  <2>. QED BY <2>2, <2>11 DEF wrong
<1>. QED BY <1>1, <1>4

\* The clock counts the iterations begun.
LEMMA ClockIsANumber == Clock \in Nat /\ IsFiniteSet(Begun) /\ Clock = Cardinality(Begun)
<1>1. IsFiniteSet(Chains) /\ IsFiniteSet(1..MaxRuns)
  BY CollectionAssumption, FS_Interval
<1>2. IsFiniteSet(Chains \X (1..MaxRuns)) /\ Begun \in SUBSET (Chains \X (1..MaxRuns))
  BY <1>1, FS_Product DEF Begun
<1>3. IsFiniteSet(Begun) /\ Cardinality(Begun) \in Nat
  BY <1>2, FS_Subset, FS_CardinalityType
<1>. QED BY <1>3 DEF Begun, Clock

\* A new iteration begins later than all others.
LEMMA TimedTicks ==
  ASSUME WorldTypes, Timed, NEW c \in Chains, Clock < MaxRuns,
         starts' = [starts EXCEPT ![c] = Append(@, Clock + 1)]
  PROVE  Timed' /\ starts' \in [Chains -> Seq(Nat)]
<1>. DEFINE new == <<c, Len(starts[c]) + 1>>
<1>0. Clock \in Nat /\ MaxRuns \in Nat /\ \A d \in Chains : starts[d] \in Seq(Nat) /\ Len(starts[d]) \in Nat
  BY ClockIsANumber, CollectionAssumption, LenProperties DEF WorldTypes
<1>1. /\ starts'[c] = Append(starts[c], Clock + 1) /\ starts'[c] \in Seq(Nat)
      /\ Len(starts'[c]) = Len(starts[c]) + 1
      /\ \A d \in Chains \ {c} : starts'[d] = starts[d]
  BY <1>0, AppendProperties DEF WorldTypes
<1>2. starts' \in [Chains -> Seq(Nat)]
  BY <1>0, <1>1 DEF WorldTypes
<1>3. Begun' = Begun \cup {new} /\ new \notin Begun
  <2>1. Len(starts[c]) + 1 \in 1..MaxRuns
    BY <1>0 DEF Timed
  <2>2. \A s \in Chains \X (1..MaxRuns) : s[1] \in Chains /\ s[2] \in 1..MaxRuns /\ s = <<s[1], s[2]>>
    OBVIOUS
  <2>3. ASSUME NEW s \in Chains \X (1..MaxRuns)
        PROVE  s[2] <= Len(starts'[s[1]]) <=> s[2] <= Len(starts[s[1]]) \/ s = new
    <3>1. CASE s[1] = c
      BY <1>0, <1>1, <2>2, <3>1
    <3>2. CASE s[1] # c
      BY <1>1, <2>2, <3>2
    <3>. QED BY <3>1, <3>2
  <2>4. new \in Chains \X (1..MaxRuns) /\ ~(new[2] <= Len(starts[new[1]]))
    BY <1>0, <2>1
  <2>. HIDE DEF new
  <2>. QED BY <2>3, <2>4 DEF Begun
<1>4. Clock' = Clock + 1
  <2>1. Clock = Cardinality(Begun) /\ Clock' = Cardinality(Begun')
    BY DEF Clock, Begun
  <2>. HIDE DEF new
  <2>. QED BY <1>3, <2>1, ClockIsANumber, FS_AddElement
<1>5. /\ \A i \in 1..Len(starts[c]) : starts'[c][i] = starts[c][i]
      /\ starts'[c][Len(starts[c]) + 1] = Clock + 1
  BY <1>0, <1>1, AppendProperties
<1>6. \A d \in Chains : Len(starts'[d]) <= Clock'
  BY <1>0, <1>1, <1>4 DEF Timed
<1>7. \A d \in Chains : \A i \in 1..Len(starts'[d]) : starts'[d][i] \in 1..Clock'
  <2>1. \A d \in Chains : \A i \in 1..Len(starts[d]) : starts[d][i] \in 1..Clock
    BY DEF Timed
  <2>2. ASSUME NEW i \in 1..Len(starts'[c]) PROVE starts'[c][i] \in 1..Clock'
    <3>1. i \in 1..Len(starts[c]) \/ i = Len(starts[c]) + 1
      BY <1>0, <1>1
    <3>2. CASE i \in 1..Len(starts[c])
      BY <1>0, <1>4, <1>5, <2>1, <3>2
    <3>3. CASE i = Len(starts[c]) + 1
      BY <1>0, <1>4, <1>5, <3>3
    <3>. QED BY <3>1, <3>2, <3>3
  <2>3. ASSUME NEW d \in Chains \ {c}, NEW i \in 1..Len(starts'[d]) PROVE starts'[d][i] \in 1..Clock'
    BY <1>0, <1>1, <1>4, <2>1
  <2>. QED BY <2>2, <2>3
<1>8. \A d \in Chains : \A i, j \in 1..Len(starts'[d]) : i < j => starts'[d][i] < starts'[d][j]
  <2>1. ASSUME NEW i \in 1..Len(starts'[c]), NEW j \in 1..Len(starts'[c]), i < j
        PROVE  starts'[c][i] < starts'[c][j]
    <3>1. i \in 1..Len(starts[c])
      BY <1>0, <1>1, <2>1
    <3>2. CASE j \in 1..Len(starts[c])
      BY <1>5, <2>1, <3>1, <3>2 DEF Timed
    <3>3. CASE j = Len(starts[c]) + 1
      <4>1. starts[c][i] \in 1..Clock
        BY <3>1 DEF Timed
      <4>. QED BY <1>0, <1>5, <3>1, <3>3, <4>1
    <3>. QED BY <1>0, <1>1, <3>2, <3>3
  <2>. QED BY <1>1, <2>1 DEF Timed
<1>9. ASSUME NEW d \in Chains, NEW e \in Chains, d # e,
             NEW i \in 1..Len(starts'[d]), NEW j \in 1..Len(starts'[e])
      PROVE  starts'[d][i] # starts'[e][j]
  <2>1. ASSUME NEW f \in Chains \ {c}, NEW k \in 1..Len(starts'[c]), NEW l \in 1..Len(starts[f])
        PROVE  starts'[c][k] # starts[f][l]
    <3>1. CASE k \in 1..Len(starts[c])
      BY <1>5, <3>1 DEF Timed
    <3>2. CASE k = Len(starts[c]) + 1
      <4>1. starts[f][l] \in 1..Clock
        BY DEF Timed
      <4>. QED BY <1>0, <1>5, <3>2, <4>1
    <3>3. k \in 1..Len(starts[c]) \/ k = Len(starts[c]) + 1
      BY <1>0, <1>1
    <3>. QED BY <3>1, <3>2, <3>3
  <2>2. CASE d = c
    BY <1>1, <1>9, <2>1, <2>2
  <2>3. CASE e = c
    BY <1>1, <1>9, <2>1, <2>3
  <2>4. CASE d # c /\ e # c
    BY <1>1, <1>9, <2>4 DEF Timed
  <2>. QED BY <2>2, <2>3, <2>4
<1>. QED BY <1>2, <1>6, <1>7, <1>8, <1>9 DEF Timed

\* When nothing begins, the times are as they were.
LEMMA TimedStays == Timed /\ UNCHANGED starts => Timed'
BY DEF Timed, Clock

\* A chain nothing happens to is as it was.
LEMMA LivedStays ==
  ASSUME NEW c, Lived(c), exec'[c] = exec[c], starts'[c] = starts[c], rows'[c] = rows[c],
         listed'[c] = listed[c]
  PROVE  Lived(c)'
BY DEF Lived, Last

\* Nothing has begun.
LEMMA WorldBegins == Init => WorldInv
<1>. SUFFICES ASSUME Init PROVE WorldInv
  OBVIOUS
<1>0. \A c \in Chains : /\ exec[c] = "none" /\ listed[c] = 0 /\ starts[c] = <<>> /\ rows[c] = <<>>
                        /\ Len(starts[c]) = 0 /\ Len(rows[c]) = 0
  BY DEF Init
<1>1. WorldTypes
  BY DEF Init, WorldTypes
<1>2. Timed
  BY <1>0, ClockIsANumber DEF Timed
<1>3. ASSUME NEW c \in Chains PROVE Lived(c)
  BY <1>0 DEF Lived
<1>. QED BY <1>1, <1>2, <1>3 DEF WorldInv

\* A row of the chain is put in place of another, or added.
LEMMA RowsStay ==
  ASSUME WorldTypes, NEW c \in Chains, NEW s \in Seq(RowTypes), rows' = [rows EXCEPT ![c] = s]
  PROVE  /\ rows' \in [Chains -> Seq(RowTypes)] /\ rows'[c] = s
         /\ \A d \in Chains \ {c} : rows'[d] = rows[d]
BY DEF WorldTypes

\* Whatever step is taken, the rows stay those of the iterations (Collection's
\* steps of a run: record, ask, settle, continue as new, close, forget).
LEMMA WorldStays == WorldInv /\ [Next]_vars => WorldInv'
<1>. SUFFICES ASSUME WorldInv, [Next]_vars PROVE WorldInv'
  OBVIOUS
<1>0. WorldTypes /\ Timed /\ \A c \in Chains : Lived(c)
  BY DEF WorldInv
<1>1. CASE UNCHANGED world
  <2>1. WorldTypes' /\ Timed'
    BY <1>0, <1>1, TimedStays DEF WorldTypes, world
  <2>2. ASSUME NEW c \in Chains PROVE Lived(c)'
    BY <1>0, <1>1, LivedStays DEF world
  <2>. QED BY <2>1, <2>2 DEF WorldInv
<1>2. ASSUME NEW c \in Chains, WorldStep(c) PROVE WorldInv'
  <2>. USE <1>0
  <2>0. /\ starts[c] \in Seq(Nat) /\ rows[c] \in Seq(RowTypes) /\ listed[c] \in Nat
        /\ Len(starts[c]) \in Nat /\ Len(rows[c]) \in Nat /\ Lived(c)
        /\ \A i \in 1..Len(rows[c]) : rows[c][i] \in RowTypes
    BY LenProperties, ElementOfSeq DEF WorldTypes
  <2>. DEFINE now == IF Listable(c) = 0 THEN 0 ELSE Len(starts[c])
  <2>1. CASE StartRun(c)
    <3>0. exec[c] = "none" /\ Len(starts[c]) = 0 /\ starts[c] = <<>> /\ Len(rows[c]) = 0
      BY <2>0, <2>1, EmptySeq DEF StartRun, Lived
    <3>1. /\ exec' = [exec EXCEPT ![c] = "running"] /\ Clock < MaxRuns
          /\ starts' = [starts EXCEPT ![c] = Append(@, Clock + 1)] /\ UNCHANGED <<listed, rows>>
      <4>1. Append(starts[c], Clock + 1) = <<Clock + 1>>
        BY <3>0
      <4>. QED BY <2>1, <4>1 DEF StartRun
    <3>2. Timed' /\ WorldTypes'
      BY <3>1, TimedTicks DEF WorldTypes
    <3>3. Lived(c)'
      <4>1. starts'[c] = Append(starts[c], Clock + 1) /\ Len(starts'[c]) = 1
        BY <2>0, <3>0, <3>1, ClockIsANumber, AppendProperties DEF WorldTypes
      <4>2. exec'[c] = "running" /\ rows'[c] = rows[c] /\ listed'[c] = listed[c] /\ listed[c] = 0
        BY <2>0, <3>0, <3>1 DEF WorldTypes, Lived
      <4>. QED BY <3>0, <4>1, <4>2 DEF Lived
    <3>4. ASSUME NEW d \in Chains \ {c} PROVE Lived(d)'
      BY <3>1, LivedStays DEF WorldTypes
    <3>. QED BY <3>2, <3>3, <3>4 DEF WorldInv
  <2>2. CASE RecordStart(c)
    <3>. DEFINE row == [outcome |-> "running", waiting |-> FALSE,
                        place |-> IF rows[c] = <<>> THEN "tree" ELSE Unsaid]
    <3>1. /\ rows' = [rows EXCEPT ![c] = Append(rows[c], row)] /\ UNCHANGED <<exec, listed, starts>>
          /\ exec[c] = "running" /\ Len(rows[c]) < Len(starts[c])
      BY <2>2 DEF RecordStart
    <3>2. row \in RowTypes
      BY DEF RowTypes
    <3>3. Append(rows[c], row) \in Seq(RowTypes) /\ Len(Append(rows[c], row)) = Len(rows[c]) + 1
          /\ \A i \in 1..Len(rows[c]) : Append(rows[c], row)[i] = rows[c][i]
          /\ Append(rows[c], row)[Len(rows[c]) + 1] = row
      BY <2>0, <3>2, AppendProperties
    <3>4. WorldTypes' /\ Timed' /\ rows'[c] = Append(rows[c], row) /\ \A d \in Chains \ {c} : rows'[d] = rows[d]
      BY <3>1, <3>3, RowsStay, TimedStays DEF WorldTypes
    <3>5. Lived(c)'
      <4>0. Len(rows[c]) = 0 <=> rows[c] = <<>>
        BY <2>0, EmptySeq
      <4>1. Len(rows'[c]) = Len(rows[c]) + 1 /\ Len(starts[c]) = Len(rows[c]) + 1
        BY <2>0, <3>1, <3>3, <3>4 DEF Lived
      <4>2. ASSUME NEW i \in 1..Len(rows'[c])
            PROVE  /\ rows'[c][i].place = IF i = 1 THEN "tree" ELSE Unsaid
                   /\ i < Len(starts[c]) => rows'[c][i].outcome # "running"
                   /\ rows'[c][i].outcome # "running" => rows'[c][i].waiting = FALSE
        <5>1. CASE i \in 1..Len(rows[c])
          BY <2>0, <3>3, <3>4, <5>1 DEF Lived
        <5>2. CASE i = Len(rows[c]) + 1
          <6>1. rows'[c][i] = row /\ ~(i < Len(starts[c])) /\ (i = 1 <=> rows[c] = <<>>)
            BY <2>0, <3>3, <3>4, <4>0, <4>1, <5>2
          <6>. QED BY <6>1
        <5>3. i \in 1..Len(rows[c]) \/ i = Len(rows[c]) + 1
          BY <2>0, <4>1
        <5>. QED BY <5>1, <5>2, <5>3
      <4>. QED BY <2>0, <3>1, <4>1, <4>2 DEF Lived
    <3>6. ASSUME NEW d \in Chains \ {c} PROVE Lived(d)'
      BY <3>1, <3>4, LivedStays DEF WorldTypes
    <3>. QED BY <3>4, <3>5, <3>6 DEF WorldInv
  <2>3. CASE Ask(c) \/ SettleRow(c)
    <3>. DEFINE k == Len(rows[c])
    <3>0. /\ k \in 1..Len(rows[c]) /\ k = Len(starts[c]) /\ rows[c][k].outcome = "running" /\ exec[c] = "running"
          /\ UNCHANGED <<exec, listed, starts>>
      <4>1. Recorded(c) /\ exec[c] = "running" /\ UNCHANGED <<exec, listed, starts>>
        BY <2>3 DEF Ask, SettleRow
      <4>. QED BY <2>0, <4>1, EmptySeq DEF Recorded, Last
    <3>1. PICK row \in RowTypes :
            /\ rows' = [rows EXCEPT ![c] = [rows[c] EXCEPT ![k] = row]]
            /\ row.place = rows[c][k].place /\ (row.outcome # "running" => row.waiting = FALSE)
      <4>1. CASE Ask(c)
        <5>1. rows' = [rows EXCEPT ![c] = [rows[c] EXCEPT ![k] = [rows[c][k] EXCEPT !.waiting = ~@]]]
          BY <4>1 DEF Ask
        <5>2. [rows[c][k] EXCEPT !.waiting = ~@] \in RowTypes
          BY <2>0, <3>0 DEF RowTypes
        <5>. QED BY <2>0, <3>0, <5>1, <5>2 DEF RowTypes
      <4>2. CASE SettleRow(c)
        <5>1. PICK out \in {"succeeded", "failed"} :
                rows' = [rows EXCEPT ![c] = [rows[c] EXCEPT ![k] = [rows[c][k] EXCEPT !.outcome = out, !.waiting = FALSE]]]
          BY <4>2 DEF SettleRow
        <5>2. [rows[c][k] EXCEPT !.outcome = out, !.waiting = FALSE] \in RowTypes
          BY <2>0, <3>0 DEF RowTypes
        <5>. QED BY <2>0, <3>0, <5>1, <5>2 DEF RowTypes
      <4>. QED BY <2>3, <4>1, <4>2
    <3>2. /\ [rows[c] EXCEPT ![k] = row] \in Seq(RowTypes) /\ Len([rows[c] EXCEPT ![k] = row]) = Len(rows[c])
          /\ \A i \in 1..Len(rows[c]) : [rows[c] EXCEPT ![k] = row][i] = IF i = k THEN row ELSE rows[c][i]
      BY <2>0, <3>0, ExceptSeq
    <3>3. WorldTypes' /\ Timed' /\ rows'[c] = [rows[c] EXCEPT ![k] = row] /\ \A d \in Chains \ {c} : rows'[d] = rows[d]
      BY <3>0, <3>1, <3>2, RowsStay, TimedStays DEF WorldTypes
    <3>4. Lived(c)'
      <4>2. ASSUME NEW i \in 1..Len(rows'[c])
            PROVE  /\ rows'[c][i].place = IF i = 1 THEN "tree" ELSE Unsaid
                   /\ i < Len(starts[c]) => rows'[c][i].outcome # "running"
                   /\ rows'[c][i].outcome # "running" => rows'[c][i].waiting = FALSE
        BY <2>0, <3>0, <3>1, <3>2, <3>3 DEF Lived
      <4>. QED BY <2>0, <3>0, <3>2, <3>3, <4>2 DEF Lived
    <3>5. ASSUME NEW d \in Chains \ {c} PROVE Lived(d)'
      BY <3>0, <3>3, LivedStays DEF WorldTypes
    <3>. QED BY <3>3, <3>4, <3>5 DEF WorldInv
  <2>4. CASE ContinueAsNew(c)
    <3>1. /\ Clock < MaxRuns /\ exec[c] = "running" /\ Len(rows[c]) = Len(starts[c])
          /\ rows[c][Len(rows[c])].outcome = "succeeded"
          /\ starts' = [starts EXCEPT ![c] = Append(@, Clock + 1)] /\ UNCHANGED <<exec, listed, rows>>
      BY <2>4 DEF ContinueAsNew, Last
    <3>2. Timed' /\ WorldTypes'
      BY <3>1, TimedTicks DEF WorldTypes
    <3>3. Lived(c)'
      <4>1. starts'[c] = Append(starts[c], Clock + 1) /\ Len(starts'[c]) = Len(starts[c]) + 1
        BY <2>0, <3>1, ClockIsANumber, AppendProperties DEF WorldTypes
      <4>2. exec[c] = exec'[c] /\ rows'[c] = rows[c] /\ listed'[c] = listed[c]
        BY <3>1
      <4>3. \A i \in 1..Len(rows[c]) : rows[c][i].outcome # "running"
        BY <2>0, <3>1 DEF Lived
      <4>. QED BY <2>0, <3>1, <4>1, <4>2, <4>3 DEF Lived
    <3>4. ASSUME NEW d \in Chains \ {c} PROVE Lived(d)'
      BY <3>1, LivedStays DEF WorldTypes
    <3>. QED BY <3>2, <3>3, <3>4 DEF WorldInv
  <2>5. CASE Close(c) \/ Forget(c)
    <3>1. PICK out \in {"succeeded", "failed", "gone"} :
            /\ exec' = [exec EXCEPT ![c] = out] /\ UNCHANGED <<listed, starts, rows>> /\ exec[c] # "none"
            /\ out = "succeeded" => Len(rows[c]) = Len(starts[c]) /\ Last(rows[c]).outcome = "succeeded"
      <4>1. CASE Close(c)
        <5>0. Len(starts[c]) # 0 /\ exec[c] = "running"
          BY <2>0, <4>1 DEF Close, Lived
        <5>1. CASE Len(rows[c]) = Len(starts[c]) /\ ~Recorded(c)
          <6>1. rows[c] # <<>> /\ Len(rows[c]) \in 1..Len(rows[c])
            BY <2>0, <5>0, <5>1, EmptySeq
          <6>2. Last(rows[c]).outcome \in {"succeeded", "failed"}
            BY <2>0, <5>1, <6>1 DEF Recorded, Last, RowTypes
          <6>. QED BY <4>1, <5>0, <5>1, <6>2 DEF Close
        <5>2. CASE ~(Len(rows[c]) = Len(starts[c]) /\ ~Recorded(c))
          BY <4>1, <5>0, <5>2 DEF Close
        <5>. QED BY <5>1, <5>2
      <4>2. CASE Forget(c)
        BY <4>2 DEF Forget
      <4>. QED BY <2>5, <4>1, <4>2
    <3>2. WorldTypes' /\ Timed'
      BY <3>1, TimedStays DEF WorldTypes
    <3>3. Lived(c)'
      <4>1. exec'[c] = out /\ rows'[c] = rows[c] /\ starts'[c] = starts[c] /\ listed'[c] = listed[c]
        BY <3>1 DEF WorldTypes
      <4>. QED BY <2>0, <3>1, <4>1 DEF Lived, Last
    <3>4. ASSUME NEW d \in Chains \ {c} PROVE Lived(d)'
      BY <3>1, LivedStays DEF WorldTypes
    <3>. QED BY <3>2, <3>3, <3>4 DEF WorldInv
  <2>6. CASE List(c)
    <3>1. listed' = [listed EXCEPT ![c] = Listable(c)] /\ UNCHANGED <<exec, starts, rows>>
      BY <2>6 DEF List
    <3>2. Listable(c) \in Nat /\ Listable(c) <= Len(starts[c])
      BY <2>0 DEF Listable
    <3>3. WorldTypes' /\ Timed'
      BY <3>1, <3>2, TimedStays DEF WorldTypes
    <3>4. Lived(c)'
      BY <2>0, <3>1, <3>2 DEF Lived, WorldTypes, Last
    <3>5. ASSUME NEW d \in Chains \ {c} PROVE Lived(d)'
      BY <3>1, LivedStays DEF WorldTypes
    <3>. QED BY <3>3, <3>4, <3>5 DEF WorldInv
  <2>. QED BY <1>2, <2>1, <2>2, <2>3, <2>4, <2>5, <2>6 DEF WorldStep
<1>3. ASSUME ReadStep \/ DismissStep PROVE UNCHANGED world
  BY <1>3 DEF ReadStep, BeginRead, ReadLive, ReadPage, ResolvePage, ReadFails, DismissStep, View, ReadRows,
              CheckRevision, StoreDismissal, Undismiss
<1>. QED BY <1>1, <1>2, <1>3 DEF Next, vars

\* The empty string is no name.
LEMMA UnsaidIsNothing == Unsaid # "tree" /\ Unsaid # "schedule"
BY Zenon DEF Unsaid

\* An iteration as its row tells of it.
Row(c, i) == Iteration(c, i, rows[c][i].outcome, rows[c][i].waiting, rows[c][i].place)

\* A run of the collection is not detached.
Never == FALSE

\* What an iteration says, field by field.
LEMMA IterationFields ==
  ASSUME NEW c, NEW i, NEW out, NEW waiting, NEW place
  PROVE  LET e == Iteration(c, i, out, waiting, place)
         IN /\ e.id = c /\ e.run = i /\ e.start = starts[c][i] /\ e.outcome = out
            /\ e.tokens = (IF out \in {"succeeded", "failed"} THEN 1 ELSE 0) /\ e.waiting = waiting
            /\ e.class = "run" /\ e.parent = Unsaid /\ e.label = Unsaid /\ e.place = place /\ e.plan = Unsaid /\ e.detached = Never
            /\ e.schedule = IF c \in Fired THEN "schedule" ELSE Unsaid
BY DEF Iteration, Never

\* The rows of a chain among all rows are its own.
LEMMA OwnRows ==
  ASSUME WorldInv
  PROVE  /\ \A c \in Represented : RowsOf(Eligible, c) = {Row(c, i) : i \in 1..Len(rows[c])}
         /\ \A e \in Eligible : e.id \in Represented /\ \E i \in 1..Len(rows[e.id]) : e = Row(e.id, i)
<1>1. Rows = UNION {{Row(c, i) : i \in 1..Len(rows[c])} : c \in Chains}
  BY DEF Rows, Row
<1>2. \A c, i : Row(c, i).id = c /\ Row(c, i).class = "run" /\ Row(c, i).parent = Unsaid
                /\ Row(c, i).schedule = IF c \in Fired THEN "schedule" ELSE Unsaid
  BY IterationFields DEF Row
<1>3. \A c, i : isRunSatellite(Row(c, i)) <=> c \notin Fired
  BY <1>2, UnsaidIsNothing DEF isRunSatellite, runClasses
<1>4. ASSUME NEW e \in Eligible
      PROVE  e.id \in Represented /\ \E i \in 1..Len(rows[e.id]) : e = Row(e.id, i)
  <2>1. PICK c \in Chains : \E i \in 1..Len(rows[c]) : e = Row(c, i)
    BY <1>1 DEF Eligible
  <2>. QED BY <1>2, <1>3, <2>1 DEF Eligible, Represented
<1>5. ASSUME NEW c \in Represented PROVE RowsOf(Eligible, c) = {Row(c, i) : i \in 1..Len(rows[c])}
  <2>1. ASSUME NEW i \in 1..Len(rows[c]) PROVE Row(c, i) \in RowsOf(Eligible, c)
    BY <1>1, <1>2, <1>3 DEF RowsOf, Eligible, Represented
  <2>2. ASSUME NEW e \in RowsOf(Eligible, c) PROVE \E i \in 1..Len(rows[c]) : e = Row(c, i)
    BY <1>4 DEF RowsOf
  <2>. QED BY <2>1, <2>2
<1>. QED BY <1>4, <1>5

\* The identities of a page, and when they began.
LEMMA OldIds ==
  ASSUME WorldInv
  PROVE  /\ IdsOf(Eligible) = {c \in Represented : Old(c)}
         /\ \A c \in Represented : Old(c) =>
              Len(rows[c]) \in Nat \ {0} /\ Len(starts[c]) \in Nat \ {0} /\ Started(Eligible, c) = starts[c][1]
<1>0. WorldTypes /\ Timed /\ \A c \in Chains : Lived(c)
  BY DEF WorldInv
<1>1. \A c \in Represented : c \in Chains /\ rows[c] \in Seq(RowTypes) /\ starts[c] \in Seq(Nat)
                             /\ Len(rows[c]) \in Nat /\ Len(starts[c]) \in Nat
  BY <1>0, LenProperties DEF WorldTypes, Represented
<1>2. \A c \in Represented : Old(c) <=> Len(rows[c]) # 0
  BY <1>1, EmptySeq DEF Old
<1>3. \A c \in Represented : IF Old(c) THEN RowsOf(Eligible, c) # {} ELSE RowsOf(Eligible, c) = {}
  <2>1. ASSUME NEW c \in Represented, Old(c) PROVE RowsOf(Eligible, c) # {}
    <3>1. 1 \in 1..Len(rows[c])
      BY <1>1, <1>2, <2>1
    <3>2. Row(c, 1) \in RowsOf(Eligible, c)
      BY <3>1, OwnRows
    <3>. QED BY <3>2
  <2>2. ASSUME NEW c \in Represented, ~Old(c) PROVE RowsOf(Eligible, c) = {}
    <3>1. 1..Len(rows[c]) = {}
      BY <1>1, <1>2, <2>2
    <3>. QED BY <3>1, OwnRows
  <2>. QED BY <2>1, <2>2
<1>4. IdsOf(Eligible) = {c \in Represented : Old(c)}
  <2>1. ASSUME NEW c \in IdsOf(Eligible) PROVE c \in Represented /\ Old(c)
    BY <1>3, OwnRows DEF IdsOf, RowsOf
  <2>2. ASSUME NEW c \in Represented, Old(c) PROVE c \in IdsOf(Eligible)
    BY <1>3, <2>2 DEF IdsOf, RowsOf
  <2>. QED BY <2>1, <2>2
<1>5. ASSUME NEW c \in Represented, Old(c) PROVE Len(starts[c]) # 0 /\ Started(Eligible, c) = starts[c][1]
  <2>. DEFINE times == {e.start : e \in RowsOf(Eligible, c)}
  <2>1. Len(starts[c]) # 0 /\ Len(rows[c]) >= 1 /\ Len(rows[c]) <= Len(starts[c])
    BY <1>0, <1>1, <1>2, <1>5 DEF Lived
  <2>2. \A i \in 1..Len(rows[c]) : Row(c, i).start = starts[c][i]
    BY IterationFields DEF Row
  <2>3. \A i \in 1..Len(starts[c]) : starts[c][i] \in Nat /\ starts[c][1] <= starts[c][i]
    <3>1. \A i \in 1..Len(starts[c]) : starts[c][i] \in Nat
      BY <1>1, ElementOfSeq
    <3>2. \A i \in 1..Len(starts[c]) : 1 < i => starts[c][1] < starts[c][i]
      BY <1>0, <1>1, <2>1 DEF Timed
    <3>. QED BY <1>1, <2>1, <3>1, <3>2
  <2>4. RowsOf(Eligible, c) = {Row(c, i) : i \in 1..Len(rows[c])}
    BY OwnRows
  <2>5. \A e \in RowsOf(Eligible, c) : starts[c][1] <= e.start
    BY <1>1, <2>1, <2>2, <2>3, <2>4
  <2>6. starts[c][1] \in times
    BY <1>1, <2>1, <2>2, <2>4
  <2>7. \A t \in times : (\A e \in RowsOf(Eligible, c) : t <= e.start) => t = starts[c][1]
    <3>1. \A t \in times : t \in Nat /\ starts[c][1] <= t
      BY <1>1, <2>1, <2>2, <2>3, <2>4
    <3>2. PICK e \in RowsOf(Eligible, c) : e.start = starts[c][1]
      BY <2>6
    <3>3. starts[c][1] \in Nat
      BY <1>1, <2>1, <2>3
    <3>. HIDE DEF times
    <3>. QED BY <3>1, <3>2, <3>3
  <2>. HIDE DEF times
  <2>8. Started(Eligible, c) = CHOOSE t \in times : \A e \in RowsOf(Eligible, c) : t <= e.start
    BY DEF Started, times
  <2>. QED BY <2>1, <2>5, <2>6, <2>7, <2>8
<1>. QED BY <1>1, <1>2, <1>4, <1>5

\* The rows of a chain by their numbers.
Numbered(c, from, to, some) == some = {Row(c, i) : i \in from..to}

\* As many rows as they have numbers.
LEMMA RowsAreMany ==
  ASSUME NEW c, NEW from \in Nat, NEW to \in Nat, NEW some, Numbered(c, from, to, some)
  PROVE  IsFiniteSet(some) /\ Cardinality(some) = IF from > to THEN 0 ELSE to - from + 1
<1>. DEFINE f == [i \in from..to |-> Row(c, i)]
<1>0. some = {Row(c, i) : i \in from..to}
  BY DEF Numbered
<1>1. \A i : Row(c, i).run = i
  BY IterationFields DEF Row
<1>2. f \in Bijection(from..to, some)
  <2>1. f \in [from..to -> some]
    BY <1>0
  <2>2. \A a, b \in from..to : f[a] = f[b] => a = b
    BY <1>1
  <2>3. \A e \in some : \E a \in from..to : f[a] = e
    BY <1>0
  <2>. HIDE DEF f
  <2>. QED BY <2>1, <2>2, <2>3 DEF Bijection, Injection, Surjection, IsInjective
<1>3. IsFiniteSet(from..to) /\ Cardinality(from..to) = IF from > to THEN 0 ELSE to - from + 1
  BY FS_Interval
<1>. HIDE DEF f
<1>4. ExistsBijection(from..to, some)
  BY <1>2 DEF ExistsBijection
<1>5. IsFiniteSet(some) /\ Cardinality(some) = Cardinality(from..to)
  BY <1>3, <1>4, FS_Bijection
<1>. QED BY <1>3, <1>5

\* The rows in order are those of the iterations, the last first.
LEMMA LastFirst ==
  ASSUME WorldInv, NEW c \in Represented
  PROVE  /\ Cardinality(RowsOf(Eligible, c)) = Len(rows[c])
         /\ \A n \in 1..Len(rows[c]) : NewestFirst(RowsOf(Eligible, c))[n] = Row(c, Len(rows[c]) - n + 1)
<1>. DEFINE k == Len(rows[c])
            all == {Row(c, i) : i \in 1..k}
<1>0. c \in Chains /\ WorldTypes /\ Timed /\ Lived(c) /\ RowsOf(Eligible, c) = all
  BY OwnRows DEF WorldInv, Represented
<1>1. k \in Nat /\ Len(starts[c]) \in Nat /\ k <= Len(starts[c]) /\ starts[c] \in Seq(Nat)
  BY <1>0, LenProperties DEF WorldTypes, Lived
<1>2. Cardinality(all) = k
  <2>1. 1 \in Nat /\ (IF 1 > k THEN 0 ELSE k - 1 + 1) = k
    BY <1>1
  <2>2. Numbered(c, 1, k, all)
    BY DEF Numbered
  <2>. HIDE DEF k, all
  <2>3. Cardinality(all) = IF 1 > k THEN 0 ELSE k - 1 + 1
    BY <1>1, <2>1, <2>2, RowsAreMany
  <2>. QED BY <2>1, <2>3
<1>3. \A i \in 1..k : Row(c, i).start = starts[c][i] /\ Row(c, i).run = i /\ starts[c][i] \in Nat
  BY <1>1, IterationFields, ElementOfSeq DEF Row
<1>4. \A i, j \in 1..k : newer(Row(c, i), Row(c, j)) <=> i > j
  <2>1. \A i, j \in 1..k : i < j => starts[c][i] < starts[c][j]
    <3>1. \A i, j \in 1..Len(starts[c]) : i < j => starts[c][i] < starts[c][j]
      BY <1>0 DEF Timed
    <3>. HIDE DEF k
    <3>. QED BY <1>1, <3>1
  <2>2. ASSUME NEW i \in 1..k, NEW j \in 1..k PROVE newer(Row(c, i), Row(c, j)) <=> i > j
    <3>1. i < j \/ i = j \/ i > j
      BY <1>1
    <3>2. newer(Row(c, i), Row(c, j)) <=> starts[c][i] > starts[c][j] \/ (starts[c][i] = starts[c][j] /\ i > j)
      BY <1>3 DEF newer
    <3>. QED BY <1>1, <1>3, <2>1, <3>1, <3>2
  <2>. QED BY <2>2
<1>5. ASSUME NEW j \in 1..k PROVE Cardinality({o \in all : newer(o, Row(c, j))}) = k - j
  <2>1. {o \in all : newer(o, Row(c, j))} = {Row(c, i) : i \in (j + 1)..k}
    BY <1>1, <1>4
  <2>2. j + 1 \in Nat /\ (IF j + 1 > k THEN 0 ELSE k - (j + 1) + 1) = k - j
    BY <1>1
  <2>. DEFINE later == {Row(c, i) : i \in (j + 1)..k}
  <2>4. Numbered(c, j + 1, k, later)
    BY DEF Numbered
  <2>. HIDE DEF k, later
  <2>3. Cardinality(later) = IF j + 1 > k THEN 0 ELSE k - (j + 1) + 1
    BY <1>1, <2>2, <2>4, RowsAreMany
  <2>. QED BY <2>1, <2>2, <2>3 DEF later
<1>6. ASSUME NEW n \in 1..k PROVE NewestFirst(all)[n] = Row(c, k - n + 1)
  <2>1. k - n + 1 \in 1..k
    BY <1>1
  <2>2. Row(c, k - n + 1) \in all /\ Cardinality({o \in all : newer(o, Row(c, k - n + 1))}) = n - 1
    <3>1. k - (k - n + 1) = n - 1
      BY <1>1
    <3>. HIDE DEF k
    <3>2. Row(c, k - n + 1) \in all
      BY <2>1
    <3>. HIDE DEF all
    <3>. QED BY <1>5, <2>1, <3>1, <3>2
  <2>3. ASSUME NEW e \in all, Cardinality({o \in all : newer(o, e)}) = n - 1 PROVE e = Row(c, k - n + 1)
    <3>1. PICK j \in 1..k : e = Row(c, j)
      OBVIOUS
    <3>2. k - j = n - 1
      BY <1>5, <2>3, <3>1
    <3>3. j = k - n + 1
      BY <1>1, <3>2
    <3>. QED BY <3>1, <3>3
  <2>. HIDE DEF all, k
  <2>4. NewestFirst(all)[n] = CHOOSE e \in all : Cardinality({o \in all : newer(o, e)}) = n - 1
    BY <1>2 DEF NewestFirst
  <2>. QED BY <2>2, <2>3, <2>4
<1>. QED BY <1>0, <1>2, <1>6

-----------------------------------------------------------------------------
(* Records, field by field.                                                *)

\* What a source tells of an execution.
ToldFields == {"id", "run", "start", "outcome", "tokens", "label", "waiting", "class", "parent",
         "detached", "schedule", "plan", "place"}

IsTold(e) == e = [x \in ToldFields |-> e[x]]

\* An iteration is told with these fields and no other.
LEMMA IterationIsTold ==
  ASSUME NEW c, NEW i, NEW out, NEW waiting, NEW place
  PROVE  IsTold(Iteration(c, i, out, waiting, place))
BY DEF Iteration, ToldFields, IsTold

\* A row whose figures, and whose place, are put in.
Revised(e, start, tokens) == [e EXCEPT !.start = start, !.tokens = tokens]

Replaced(e, start, tokens, place) == [e EXCEPT !.start = start, !.tokens = tokens, !.place = place]

\* Only the figures differ.
LEMMA RevisedIsTold ==
  ASSUME NEW e, IsTold(e), NEW start, NEW tokens
  PROVE  LET f == Revised(e, start, tokens)
         IN /\ IsTold(f) /\ f.start = start /\ f.tokens = tokens
            /\ f.id = e.id /\ f.run = e.run /\ f.outcome = e.outcome /\ f.label = e.label /\ f.waiting = e.waiting
            /\ f.class = e.class /\ f.parent = e.parent /\ f.detached = e.detached /\ f.schedule = e.schedule
            /\ f.plan = e.plan /\ f.place = e.place
BY DEF ToldFields, IsTold, Revised

\* Only the figures and the place differ.
LEMMA ReplacedIsTold ==
  ASSUME NEW e, IsTold(e), NEW start, NEW tokens, NEW place
  PROVE  LET f == Replaced(e, start, tokens, place)
         IN /\ IsTold(f) /\ f.start = start /\ f.tokens = tokens /\ f.place = place
            /\ f.id = e.id /\ f.run = e.run /\ f.outcome = e.outcome /\ f.label = e.label /\ f.waiting = e.waiting
            /\ f.class = e.class /\ f.parent = e.parent /\ f.detached = e.detached /\ f.schedule = e.schedule
            /\ f.plan = e.plan
BY DEF ToldFields, IsTold, Replaced

\* Only what was not said comes from the older row (appendToChain).
LEMMA InheritedIsTold ==
  ASSUME NEW e, IsTold(e), NEW older
  PROVE  LET f == Inherit(e, older)
         IN /\ IsTold(f) /\ f.label = firstNonEmpty(e.label, older.label) /\ f.plan = firstNonEmpty(e.plan, older.plan)
            /\ f.schedule = firstNonEmpty(e.schedule, older.schedule)
            /\ f.parent = firstNonEmpty(e.parent, older.parent) /\ f.place = firstNonEmpty(e.place, older.place)
            /\ f.id = e.id /\ f.run = e.run /\ f.start = e.start /\ f.outcome = e.outcome /\ f.tokens = e.tokens
            /\ f.waiting = e.waiting /\ f.class = e.class /\ f.detached = e.detached
BY DEF ToldFields, IsTold, Inherit

\* Two that agree in every field are one.
LEMMA ToldAlike ==
  ASSUME NEW e, IsTold(e), NEW f, IsTold(f), e.id = f.id, e.run = f.run, e.start = f.start, e.outcome = f.outcome,
         e.tokens = f.tokens, e.label = f.label, e.waiting = f.waiting, e.class = f.class, e.parent = f.parent,
         e.detached = f.detached, e.schedule = f.schedule, e.plan = f.plan, e.place = f.place
  PROVE  e = f
<1>1. \A x \in ToldFields : e[x] = f[x]
  BY DEF ToldFields
<1>. QED BY <1>1 DEF IsTold

\* The tokens from a row on are its own and those of the rows after it.
LEMMA ConcludedCounts ==
  ASSUME WorldInv, NEW c \in Chains, NEW j \in 1..Len(rows[c])
  PROVE  /\ Cardinality(Concluded(c, j)) \in Nat
         /\ Cardinality(Concluded(c, j)) =
              Cardinality(Concluded(c, j + 1)) + Row(c, j).tokens
         /\ Concluded(c, Len(rows[c]) + 1) = {}
<1>. DEFINE k == Len(rows[c])
<1>0. rows[c] \in Seq(RowTypes) /\ k \in Nat
  BY LenProperties DEF WorldInv, WorldTypes
<1>1. rows[c][j].outcome \in {"running", "succeeded", "failed"}
  <2>1. rows[c][j] \in RowTypes
    <3>. HIDE DEF RowTypes
    <3>. QED BY <1>0, ElementOfSeq
  <2>. QED BY <2>1 DEF RowTypes
<1>2. Row(c, j).tokens = IF rows[c][j].outcome \in {"succeeded", "failed"} THEN 1 ELSE 0
  BY IterationFields DEF Row
<1>3. \A from \in 1..(k + 1) : IsFiniteSet(Concluded(c, from)) /\ Cardinality(Concluded(c, from)) \in Nat
  <2>1. ASSUME NEW from \in 1..(k + 1) PROVE IsFiniteSet(Concluded(c, from)) /\ Cardinality(Concluded(c, from)) \in Nat
    <3>1. Concluded(c, from) \in SUBSET (from..k)
      BY DEF Concluded
    <3>2. IsFiniteSet(from..k)
      BY <1>0, FS_Interval
    <3>. QED BY <3>1, <3>2, FS_Subset, FS_CardinalityType
  <2>. QED BY <2>1
<1>4. j \notin Concluded(c, j + 1) /\ j + 1 \in 1..(k + 1) /\ j \in 1..(k + 1)
  BY <1>0 DEF Concluded
<1>5. Concluded(c, j) = IF rows[c][j].outcome # "running" THEN Concluded(c, j + 1) \cup {j} ELSE Concluded(c, j + 1)
  BY <1>0 DEF Concluded
<1>6. Cardinality(Concluded(c, j + 1) \cup {j}) = Cardinality(Concluded(c, j + 1)) + 1
  BY <1>3, <1>4, FS_AddElement
<1>7. Concluded(c, k + 1) = {}
  BY <1>0 DEF Concluded
<1>. QED BY <1>1, <1>2, <1>3, <1>4, <1>5, <1>6, <1>7

\* What the latest row says, field by field.
LEMMA LatestFields ==
  ASSUME NEW c, NEW first
  PROVE  LET e == Latest(c, first) last == Len(rows[c])
         IN /\ IsTold(e)
            /\ e.id = c /\ e.run = last /\ e.start = starts[c][first] /\ e.outcome = rows[c][last].outcome
            /\ e.tokens = Cardinality(Concluded(c, first)) /\ e.waiting = rows[c][last].waiting
            /\ e.class = "run" /\ e.parent = Unsaid /\ e.label = Unsaid
            /\ e.place = (IF first = 1 THEN "tree" ELSE Unsaid) /\ e.plan = Unsaid /\ e.detached = Never
            /\ e.schedule = IF c \in Fired THEN "schedule" ELSE Unsaid
<1>. DEFINE it == Iteration(c, Len(rows[c]), rows[c][Len(rows[c])].outcome, rows[c][Len(rows[c])].waiting, Unsaid)
<1>1. IsTold(it)
  BY IterationIsTold
<1>2. /\ it.id = c /\ it.run = Len(rows[c]) /\ it.outcome = rows[c][Len(rows[c])].outcome
      /\ it.waiting = rows[c][Len(rows[c])].waiting /\ it.class = "run" /\ it.parent = Unsaid /\ it.label = Unsaid
      /\ it.plan = Unsaid /\ it.detached = Never /\ it.schedule = IF c \in Fired THEN "schedule" ELSE Unsaid
  BY IterationFields
<1>3. Latest(c, first) = Replaced(it, starts[c][first], Cardinality(Concluded(c, first)),
                                    IF first = 1 THEN "tree" ELSE Unsaid)
  BY DEF Latest, Replaced
<1>. HIDE DEF it
<1>. QED BY <1>1, <1>2, <1>3, ReplacedIsTold

\* The first row is a chain of its own.
LEMMA OneOfThem ==
  ASSUME WorldInv, NEW c \in Represented, Old(c)
  PROVE  appendToChain(noChain, Row(c, Len(rows[c]))) = Collapsed(c, Len(rows[c]))
<1>. DEFINE k == Len(rows[c])
            e == Row(c, k)
<1>0. k \in Nat \ {0} /\ k \in 1..k /\ c \in Chains /\ Lived(c)
  BY OldIds DEF Represented, WorldInv
<1>1. Cardinality(Concluded(c, k)) = Row(c, k).tokens /\ Row(c, k).tokens \in {0, 1}
  <2>1. Cardinality(Concluded(c, k + 1)) = 0
    BY <1>0, ConcludedCounts, FS_EmptySet
  <2>2. Row(c, k).tokens \in {0, 1}
    BY IterationFields DEF Row
  <2>. QED BY <1>0, <2>1, <2>2, ConcludedCounts
<1>2. appendToChain(noChain, e) =
        [iterations |-> 1, tokens |-> e.tokens, start |-> e.start,
         latest |-> Revised(e, e.start, e.tokens)]
  <2>1. e.tokens \in Int
    BY <1>1
  <2>. HIDE DEF e
  <2>2. noChain.iterations = 0 /\ noChain.iterations + 1 = 1 /\ noChain.tokens + e.tokens = e.tokens
    BY <2>1 DEF noChain
  <2>. QED BY <2>2 DEF appendToChain, Revised
<1>3. e.start = starts[c][k]
  BY IterationFields DEF Row
<1>4. rows[c][k].place = IF k = 1 THEN "tree" ELSE Unsaid
  BY <1>0 DEF Lived
<1>5. Revised(e, e.start, e.tokens) = Latest(c, k)
  <2>1. IsTold(e)
    BY IterationIsTold DEF Row
  <2>2. /\ e.id = c /\ e.run = k /\ e.outcome = rows[c][k].outcome /\ e.waiting = rows[c][k].waiting
        /\ e.class = "run" /\ e.parent = Unsaid /\ e.label = Unsaid /\ e.place = rows[c][k].place
        /\ e.plan = Unsaid /\ e.detached = Never /\ e.schedule = IF c \in Fired THEN "schedule" ELSE Unsaid
    BY IterationFields DEF Row
  <2>. DEFINE f == Revised(e, e.start, e.tokens)
  <2>3. /\ IsTold(f) /\ f.start = e.start /\ f.tokens = e.tokens
        /\ f.id = e.id /\ f.run = e.run /\ f.outcome = e.outcome /\ f.label = e.label /\ f.waiting = e.waiting
        /\ f.class = e.class /\ f.parent = e.parent /\ f.detached = e.detached /\ f.schedule = e.schedule
        /\ f.plan = e.plan /\ f.place = e.place
    <3>. HIDE DEF e
    <3>. QED BY <2>1, RevisedIsTold
  <2>. DEFINE g == Latest(c, k)
  <2>4. /\ IsTold(g) /\ g.id = c /\ g.run = k /\ g.start = starts[c][k] /\ g.outcome = rows[c][k].outcome
        /\ g.tokens = Cardinality(Concluded(c, k)) /\ g.waiting = rows[c][k].waiting
        /\ g.class = "run" /\ g.parent = Unsaid /\ g.label = Unsaid
        /\ g.place = (IF k = 1 THEN "tree" ELSE Unsaid) /\ g.plan = Unsaid /\ g.detached = Never
        /\ g.schedule = IF c \in Fired THEN "schedule" ELSE Unsaid
    <3>1. k = Len(rows[c])
      OBVIOUS
    <3>2. ASSUME NEW first
          PROVE  LET l == Latest(c, first)
                 IN /\ IsTold(l) /\ l.id = c /\ l.run = k /\ l.start = starts[c][first] /\ l.outcome = rows[c][k].outcome
                    /\ l.tokens = Cardinality(Concluded(c, first)) /\ l.waiting = rows[c][k].waiting
                    /\ l.class = "run" /\ l.parent = Unsaid /\ l.label = Unsaid
                    /\ l.place = (IF first = 1 THEN "tree" ELSE Unsaid) /\ l.plan = Unsaid /\ l.detached = Never
                    /\ l.schedule = IF c \in Fired THEN "schedule" ELSE Unsaid
      BY LatestFields
    <3>. HIDE DEF k
    <3>. QED BY <3>2
  <2>5. e.tokens = Cardinality(Concluded(c, k))
    BY <1>1
  <2>6. f = g
    <3>. HIDE DEF f, g, e, k
    <3>. QED BY <1>3, <1>4, <2>2, <2>3, <2>4, <2>5, ToldAlike
  <2>. QED BY <2>6
<1>. QED BY <1>0, <1>1, <1>2, <1>3, <1>5 DEF Collapsed

\* An older row adds itself to those after it.
LEMMA OneMoreOfThem ==
  ASSUME WorldInv, NEW c \in Represented, NEW j \in 1..Len(rows[c]), j < Len(rows[c])
  PROVE  appendToChain(Collapsed(c, j + 1), Row(c, j)) = Collapsed(c, j)
<1>. DEFINE k == Len(rows[c])
            e == Row(c, j)
            latest == Latest(c, j + 1)
            sum == Cardinality(Concluded(c, j))
<1>0. c \in Chains /\ WorldTypes /\ Timed /\ Lived(c) /\ k \in Nat /\ Len(starts[c]) \in Nat /\ starts[c] \in Seq(Nat)
      /\ j + 1 \in 1..k
  BY LenProperties DEF Represented, WorldInv, WorldTypes
<1>1. Cardinality(Concluded(c, j + 1)) + e.tokens = sum
  BY <1>0, ConcludedCounts
<1>2. starts[c][j] < starts[c][j + 1] /\ starts[c][j] \in Nat /\ starts[c][j + 1] \in Nat
  <2>1. j \in 1..Len(starts[c]) /\ j + 1 \in 1..Len(starts[c])
    BY <1>0 DEF Lived
  <2>. QED BY <1>0, <2>1, ElementOfSeq DEF Timed
<1>3. e.start = starts[c][j] /\ latest.start = starts[c][j + 1]
  BY IterationFields, LatestFields DEF Row
<1>4. ~newer(e, latest) /\ Least(starts[c][j + 1], e.start) = starts[c][j]
  BY <1>2, <1>3 DEF newer, Least
<1>5. appendToChain(Collapsed(c, j + 1), e) =
        [iterations |-> k - j + 1, tokens |-> sum, start |-> starts[c][j],
         latest |-> Revised(Inherit(latest, e), starts[c][j], sum)]
  <2>1. /\ Collapsed(c, j + 1).iterations = k - j /\ Collapsed(c, j + 1).start = starts[c][j + 1]
        /\ Collapsed(c, j + 1).latest = latest
        /\ Collapsed(c, j + 1).tokens = Cardinality(Concluded(c, j + 1)) /\ k - j # 0
    <3>1. k - (j + 1) + 1 = k - j /\ k - j # 0
      BY <1>0
    <3>. HIDE DEF k
    <3>. QED BY <3>1 DEF Collapsed, k
  <2>. HIDE DEF sum, latest, e
  <2>2. k - j + 1 = Collapsed(c, j + 1).iterations + 1
    BY <2>1
  <2>. QED BY <1>1, <1>4, <2>1, <2>2 DEF appendToChain, Revised
<1>6. rows[c][j].place = IF j = 1 THEN "tree" ELSE Unsaid
  BY <1>0 DEF Lived
<1>7. Revised(Inherit(latest, e), starts[c][j], sum) = Latest(c, j)
  <2>1. j + 1 # 1
    BY <1>0
  <2>2. /\ e.label = Unsaid /\ e.plan = Unsaid /\ e.parent = Unsaid
        /\ e.schedule = (IF c \in Fired THEN "schedule" ELSE Unsaid) /\ e.place = rows[c][j].place
    BY IterationFields DEF Row
  <2>3. /\ IsTold(latest) /\ latest.id = c /\ latest.run = k /\ latest.outcome = rows[c][k].outcome
        /\ latest.waiting = rows[c][k].waiting /\ latest.class = "run" /\ latest.parent = Unsaid
        /\ latest.label = Unsaid /\ latest.place = Unsaid /\ latest.plan = Unsaid /\ latest.detached = Never
        /\ latest.schedule = IF c \in Fired THEN "schedule" ELSE Unsaid
    BY <2>1, LatestFields
  <2>. DEFINE h == Inherit(latest, e)
              f == Revised(h, starts[c][j], sum)
              g == Latest(c, j)
  <2>4. /\ IsTold(h) /\ h.id = c /\ h.run = k /\ h.outcome = rows[c][k].outcome
        /\ h.waiting = rows[c][k].waiting /\ h.class = "run" /\ h.parent = Unsaid
        /\ h.label = Unsaid /\ h.place = rows[c][j].place /\ h.plan = Unsaid /\ h.detached = Never
        /\ h.schedule = IF c \in Fired THEN "schedule" ELSE Unsaid
    <3>. HIDE DEF latest, e
    <3>. QED BY <2>2, <2>3, InheritedIsTold DEF firstNonEmpty
  <2>5. /\ IsTold(f) /\ f.start = starts[c][j] /\ f.tokens = sum
        /\ f.id = h.id /\ f.run = h.run /\ f.outcome = h.outcome /\ f.label = h.label /\ f.waiting = h.waiting
        /\ f.class = h.class /\ f.parent = h.parent /\ f.detached = h.detached /\ f.schedule = h.schedule
        /\ f.plan = h.plan /\ f.place = h.place
    <3>. HIDE DEF h
    <3>. QED BY <2>4, RevisedIsTold
  <2>6. /\ IsTold(g) /\ g.id = c /\ g.run = k /\ g.start = starts[c][j] /\ g.outcome = rows[c][k].outcome
        /\ g.tokens = sum /\ g.waiting = rows[c][k].waiting
        /\ g.class = "run" /\ g.parent = Unsaid /\ g.label = Unsaid
        /\ g.place = (IF j = 1 THEN "tree" ELSE Unsaid) /\ g.plan = Unsaid /\ g.detached = Never
        /\ g.schedule = IF c \in Fired THEN "schedule" ELSE Unsaid
    BY LatestFields
  <2>7. f = g
    <3>. HIDE DEF f, g, h, k, sum
    <3>. QED BY <1>6, <2>4, <2>5, <2>6, ToldAlike
  <2>. QED BY <2>7
<1>. QED BY <1>5, <1>7 DEF Collapsed

\* A chain's rows come to what they say together.
LEMMA RowsCollapse ==
  ASSUME WorldInv, NEW c \in Represented, Old(c)
  PROVE  aggregateChain(RowsOf(Eligible, c)) = RecordedChain(c)
<1>. DEFINE k == Len(rows[c])
            all == RowsOf(Eligible, c)
            Fold(f) == [n \in 0..k |-> IF n = 0 THEN noChain ELSE appendToChain(f[n - 1], NewestFirst(all)[n])]
            done == [n \in 0..k |-> IF n = 0 THEN noChain ELSE Collapsed(c, k - n + 1)]
            fold == CHOOSE f : f = Fold(f)
<1>0. k \in Nat \ {0} /\ Cardinality(all) = k /\ \A n \in 1..k : NewestFirst(all)[n] = Row(c, k - n + 1)
  BY OldIds, LastFirst
<1>1. \A n \in 1..k : done[n] = appendToChain(done[n - 1], NewestFirst(all)[n])
  <2>1. ASSUME NEW n \in 1..k PROVE done[n] = appendToChain(done[n - 1], Row(c, k - n + 1))
    <3>1. CASE n = 1
      <4>1. done[n - 1] = noChain /\ done[n] = Collapsed(c, k) /\ k - n + 1 = k
        BY <1>0, <3>1
      <4>. QED BY <4>1, OneOfThem
    <3>2. CASE n > 1
      <4>. DEFINE j == k - n + 1
      <4>1. j \in 1..k /\ j < k /\ n - 1 \in 0..k /\ n - 1 # 0 /\ k - (n - 1) + 1 = j + 1
        BY <1>0, <3>2
      <4>2. done[n - 1] = Collapsed(c, j + 1) /\ done[n] = Collapsed(c, j)
        BY <4>1
      <4>. HIDE DEF j, done
      <4>3. appendToChain(Collapsed(c, j + 1), Row(c, j)) = Collapsed(c, j)
        BY <4>1, OneMoreOfThem
      <4>. QED BY <4>2, <4>3 DEF j
    <3>. QED BY <1>0, <3>1, <3>2
  <2>. QED BY <1>0, <2>1
<1>2. done = Fold(done)
  <2>1. \A n \in 0..k : done[n] = IF n = 0 THEN noChain ELSE appendToChain(done[n - 1], NewestFirst(all)[n])
    <3>1. ASSUME NEW n \in 0..k PROVE done[n] = IF n = 0 THEN noChain ELSE appendToChain(done[n - 1], NewestFirst(all)[n])
      <4>1. n = 0 => done[n] = noChain
        BY <1>0
      <4>2. n # 0 => n \in 1..k
        BY <1>0
      <4>. HIDE DEF done
      <4>. QED BY <1>1, <4>1, <4>2
    <3>. HIDE DEF done
    <3>. QED BY <3>1
  <2>. QED BY <2>1
<1>3. fold = Fold(fold)
  <2>. HIDE DEF Fold, done
  <2>. QED BY <1>2
<1>4. aggregateChain(all) = fold[k]
  BY <1>0 DEF aggregateChain
<1>5. \A n \in 0..k : fold[n] = done[n]
  <2>. DEFINE wrong == {n \in 0..k : fold[n] # done[n]}
  <2>. HIDE DEF fold
  <2>1. wrong \subseteq Nat
    BY <1>0
  <2>2. ASSUME wrong # {} PROVE FALSE
    <3>1. PICK n \in wrong : \A m \in wrong : n <= m
      <4>. HIDE DEF wrong
      <4>. QED BY <2>1, <2>2, LeastExists
    <3>2. n \in 0..k /\ n \in Nat
      BY <1>0
    <3>3. \A m \in 0..k : fold[m] = IF m = 0 THEN noChain ELSE appendToChain(fold[m - 1], NewestFirst(all)[m])
      BY <1>3
    <3>4. CASE n = 0
      BY <3>1, <3>2, <3>3, <3>4
    <3>5. CASE n # 0
      <4>1. n - 1 \in 0..k /\ n \in 1..k /\ ~(n <= n - 1)
        BY <1>0, <3>2, <3>5
      <4>2. fold[n - 1] = done[n - 1]
        BY <3>1, <4>1
      <4>3. fold[n] = done[n]
        <5>. HIDE DEF done
        <5>. QED BY <1>1, <3>2, <3>3, <3>5, <4>1, <4>2
      <4>. QED BY <3>1, <4>3
    <3>. QED BY <3>4, <3>5
  <2>. QED BY <2>2
<1>6. fold[k] = Collapsed(c, 1)
  <2>1. done[k] = Collapsed(c, 1)
    BY <1>0
  <2>. HIDE DEF done, fold
  <2>. QED BY <1>0, <1>5, <2>1
<1>. QED BY <1>4, <1>6 DEF RecordedChain

-----------------------------------------------------------------------------
(* A page leaves out only what comes later.                                *)

\* The foremost of a part of what is ordered.
LEMMA ForemostOf ==
  ASSUME NEW S, NEW key, NEW bound \in Nat, NEW order, ByKey(S, key, bound, order), NEW T \in SUBSET S, NEW n \in Nat
  PROVE  LET first == Foremost(T, n, order)
         IN /\ IsFiniteSet(T) /\ Cardinality(T) \in Nat
            /\ first \subseteq T /\ IsFiniteSet(first) /\ Cardinality(first) \in Nat
            /\ Cardinality(T) <= n => first = T
            /\ \A x \in first, y \in T \ first : key[x] > key[y]
            /\ \A x \in T, R \in SUBSET T :
                 Cardinality(R) >= n /\ (\A y \in R : key[y] > key[x]) => x \notin first
            /\ Cardinality(T) >= n => Cardinality(first) = n
<1>. DEFINE k == [x \in T |-> key[x]]
            first == Foremost(T, n, order)
<1>1. ByKey(T, k, bound, order)
  <2>1. IsFiniteSet(T)
    BY FS_Subset DEF ByKey
  <2>. QED BY <2>1 DEF ByKey
<1>2. /\ first \subseteq T /\ IsFiniteSet(first)
      /\ Cardinality(T) <= n => first = T
      /\ \A x \in first, y \in T \ first : k[x] > k[y]
      /\ \A x \in T, R \in SUBSET T : Cardinality(R) >= n /\ (\A y \in R : k[y] > k[x]) => x \notin first
  <2>. HIDE DEF k
  <2>. QED BY <1>1, ForemostAreFirst
<1>3. n <= Cardinality(T) => Cardinality(first) = n
  <2>. HIDE DEF k
  <2>. QED BY <1>1, ForemostAreMany
<1>4. IsFiniteSet(T) /\ Cardinality(T) \in Nat /\ Cardinality(first) \in Nat
  BY <1>1, <1>2, FS_CardinalityType DEF ByKey
<1>5. \A x \in T : k[x] = key[x]
  OBVIOUS
<1>6. \A x \in first, y \in T \ first : key[x] > key[y]
  <2>. HIDE DEF first, k
  <2>. QED BY <1>2, <1>5
<1>7. ASSUME NEW x \in T, NEW R \in SUBSET T, Cardinality(R) >= n, \A y \in R : key[y] > key[x] PROVE x \notin first
  <2>1. \A y \in R : k[y] > k[x]
    BY <1>5, <1>7
  <2>. HIDE DEF first, k
  <2>. QED BY <1>2, <1>7, <2>1
<1>8. n <= Cardinality(T) <=> Cardinality(T) >= n
  BY <1>4
<1>. HIDE DEF first, k
<1>. QED BY <1>2, <1>3, <1>4, <1>6, <1>7, <1>8 DEF first

\* A page is the first of what lies beyond its cursor: what it leaves out comes
\* after all it shows, its next cursor is on it, and of the required it has all
\* (selectedExecutionsSQL, chainPage).
LEMMA PagesCover ==
  ASSUME NEW eligible, NEW key, NEW bound \in Nat, ByKey(IdsOf(eligible), key, bound, Listing(eligible)),
         NEW limit \in Nat \ {0}, NEW required, NEW cursor
  PROVE  LET page == Page(eligible, limit, required, cursor)
             ids  == IdsOf(eligible)
         IN /\ page.items \subseteq ids /\ page.required \subseteq ids
            /\ page.next # 0 => page.next \in page.items
            /\ \A x \in ids : x \notin page.items /\ (cursor = 0 \/ <<cursor, x>> \in Listing(eligible)) =>
                 page.next \in page.items /\ \A y \in page.items : key[y] > key[x]
            /\ IsFiniteSet(required) /\ Cardinality(required) <= limit =>
                 \A x \in ids \cap required : x \in page.items \/ x \in page.required
<1>. DEFINE ids == IdsOf(eligible)
            order == Listing(eligible)
            beyond == {id \in ids : cursor = 0 \/ <<cursor, id>> \in order}
            front == Foremost(beyond, limit + 1, order)
            others == (ids \cap required) \ front
            extra == Foremost(others, limit, order)
            selected == front \cup extra
            items == Foremost(selected, limit, order)
            rest == (selected \ items) \cap required
            more == Cardinality(selected) > limit
            page == Page(eligible, limit, required, cursor)
<1>1. selected = Selected(eligible, limit, required, cursor)
  BY DEF Selected
<1>2. /\ page.items = items
      /\ page.required = IF more THEN Foremost(rest, limit, order) ELSE {}
      /\ page.next = IF more THEN CHOOSE id \in items : \A before \in items \ {id} : <<before, id>> \in order ELSE 0
  <2>. HIDE DEF selected, order
  <2>. QED BY <1>1 DEF Page, order
<1>3. ByKey(ids, key, bound, order)
  OBVIOUS
<1>. HIDE DEF ids, order, page
<1>. DEFINE Leading(T, n, first) ==
       /\ IsFiniteSet(T) /\ Cardinality(T) \in Nat
       /\ first \subseteq T /\ IsFiniteSet(first) /\ Cardinality(first) \in Nat
       /\ Cardinality(T) <= n => first = T
       /\ \A x \in first, y \in T \ first : key[x] > key[y]
       /\ \A x \in T, R \in SUBSET T : Cardinality(R) >= n /\ (\A y \in R : key[y] > key[x]) => x \notin first
       /\ Cardinality(T) >= n => Cardinality(first) = n
<1>4. \A T \in SUBSET ids, n \in Nat : Leading(T, n, Foremost(T, n, order))
  BY <1>3, ForemostOf
<1>5. beyond \in SUBSET ids /\ Leading(beyond, limit + 1, front)
  <2>1. beyond \in SUBSET ids
    OBVIOUS
  <2>. HIDE DEF Leading, beyond
  <2>. QED BY <1>4, <2>1
<1>6. others \in SUBSET ids /\ Leading(others, limit, extra)
  <2>1. others \in SUBSET ids
    OBVIOUS
  <2>. HIDE DEF Leading, others
  <2>. QED BY <1>4, <2>1
<1>7. selected \in SUBSET ids /\ Leading(selected, limit, items)
  <2>1. selected \in SUBSET ids
    <3>. HIDE DEF beyond, others
    <3>. QED BY <1>5, <1>6
  <2>. HIDE DEF Leading, selected
  <2>. QED BY <1>4, <2>1
<1>8. rest \in SUBSET ids /\ Leading(rest, limit, Foremost(rest, limit, order))
  <2>1. rest \in SUBSET ids
    BY <1>7
  <2>. HIDE DEF Leading, rest
  <2>. QED BY <1>4, <2>1
<1>9. \A x \in ids : key[x] \in Nat
  BY <1>3 DEF ByKey
<1>10. \A x, y \in ids : x # y => key[x] > key[y] \/ key[y] > key[x]
  BY <1>3, <1>9 DEF ByKey
<1>11. \A x, y \in ids : <<x, y>> \in order <=> key[x] > key[y]
  BY <1>3 DEF ByKey
<1>12. items \subseteq ids /\ IsFiniteSet(items)
  BY <1>7
<1>13. ASSUME more PROVE page.next \in items
  <2>1. items # {}
    <3>1. Cardinality(items) = limit
      <4>1. Cardinality(selected) >= limit /\ Cardinality(selected) \in Nat
        <5>. HIDE DEF selected
        <5>. QED BY <1>7, <1>13
      <4>. HIDE DEF selected, items
      <4>. QED BY <1>7, <4>1
    <3>. HIDE DEF items
    <3>. QED BY <3>1, FS_EmptySet
  <2>2. key \in [ids -> 0..bound]
    BY <1>3 DEF ByKey
  <2>. HIDE DEF items, more
  <2>3. PICK id \in items : \A y \in items : key[id] <= key[y]
    BY <1>12, <2>1, <2>2, EndsExist
  <2>4. \A y \in items \ {id} : key[y] > key[id]
    BY <1>9, <1>10, <1>12, <2>3
  <2>5. \A y \in items \ {id} : <<y, id>> \in order
    BY <1>11, <1>12, <2>4
  <2>. QED BY <1>2, <1>13, <2>5
<1>14. ASSUME NEW x \in ids, x \notin items, cursor = 0 \/ <<cursor, x>> \in order
       PROVE  more /\ \A y \in items : key[y] > key[x]
  <2>1. x \in beyond
    BY <1>14
  <2>2. CASE x \in front
    <3>1. x \in selected
      BY <2>2
    <3>. HIDE DEF selected, items
    <3>. QED BY <1>7, <1>14, <3>1
  <2>3. CASE x \notin front
    <3>1. Cardinality(front) = limit + 1 /\ front \subseteq beyond /\ IsFiniteSet(front)
      <4>. HIDE DEF beyond, front
      <4>1. ~(Cardinality(beyond) <= limit + 1) /\ Cardinality(beyond) \in Nat
        BY <1>5, <2>1, <2>3
      <4>. QED BY <1>5, <4>1
    <3>2. \A y \in front : key[y] > key[x]
      <4>. HIDE DEF beyond, front
      <4>. QED BY <1>5, <2>1, <2>3
    <3>3. more
      <4>1. IsFiniteSet(selected) /\ front \subseteq selected /\ Cardinality(selected) \in Nat
        <5>1. front \subseteq selected
          OBVIOUS
        <5>. HIDE DEF selected
        <5>. QED BY <1>7, <5>1
      <4>2. Cardinality(front) <= Cardinality(selected)
        <5>. HIDE DEF selected, front
        <5>. QED BY <4>1, FS_Subset
      <4>. HIDE DEF selected, front
      <4>. QED BY <3>1, <4>1, <4>2
    <3>4. ASSUME NEW y \in items PROVE key[y] > key[x]
      <4>1. y \in ids /\ y \in selected /\ y # x
        <5>. HIDE DEF items, selected
        <5>. QED BY <1>7, <1>12, <1>14
      <4>2. CASE key[x] > key[y]
        <5>1. \A z \in front : key[z] > key[y]
          <6>1. \A z \in front : z \in ids
            BY <3>1
          <6>. HIDE DEF front
          <6>. QED BY <1>9, <3>2, <4>1, <4>2, <6>1
        <5>2. front \in SUBSET selected /\ Cardinality(front) >= limit
          <6>1. front \in SUBSET selected
            OBVIOUS
          <6>. HIDE DEF front, selected
          <6>. QED BY <3>1, <6>1
        <5>. HIDE DEF items, selected, front
        <5>. QED BY <1>7, <4>1, <5>1, <5>2
      <4>. QED BY <1>10, <4>1, <4>2
    <3>. QED BY <3>3, <3>4
  <2>. QED BY <2>2, <2>3
<1>15. ASSUME IsFiniteSet(required), Cardinality(required) <= limit, NEW x \in ids \cap required, x \notin items
       PROVE  more /\ x \in Foremost(rest, limit, order)
  <2>0. \A T \in SUBSET required : IsFiniteSet(T) /\ Cardinality(T) <= limit
    <3>1. \A T \in SUBSET required : IsFiniteSet(T) /\ Cardinality(T) <= Cardinality(required) /\ Cardinality(T) \in Nat
      BY <1>15, FS_Subset, FS_CardinalityType
    <3>2. Cardinality(required) \in Nat
      BY <1>15, FS_CardinalityType
    <3>. QED BY <1>15, <3>1, <3>2
  <2>1. x \in selected
    <3>1. CASE x \in front
      BY <3>1
    <3>2. CASE x \notin front
      <4>1. x \in others /\ others \in SUBSET required
        BY <3>2
      <4>2. Cardinality(others) <= limit
        <5>. HIDE DEF others
        <5>. QED BY <2>0, <4>1
      <4>3. extra = others
        <5>. HIDE DEF others, extra
        <5>. QED BY <1>6, <4>2
      <4>. QED BY <4>1, <4>3
    <3>. QED BY <3>1, <3>2
  <2>2. more
    <3>. HIDE DEF selected, items
    <3>. QED BY <1>7, <1>15, <2>1
  <2>3. x \in rest /\ rest \in SUBSET required
    <3>. HIDE DEF selected, items
    <3>. QED BY <1>15, <2>1
  <2>4. Foremost(rest, limit, order) = rest
    <3>. HIDE DEF rest
    <3>. QED BY <1>8, <2>0, <2>3
  <2>. HIDE DEF rest, more
  <2>. QED BY <2>2, <2>3, <2>4
<1>16. page.required \subseteq ids
  <2>1. Foremost(rest, limit, order) \subseteq ids
    <3>. HIDE DEF rest
    <3>. QED BY <1>8
  <2>. HIDE DEF rest
  <2>. QED BY <1>2, <2>1
<1>17. page.next # 0 => page.next \in items
  <2>. HIDE DEF items, more
  <2>. QED BY <1>2, <1>13
<1>. HIDE DEF items, more, rest
<1>18. \A x \in ids : x \notin page.items /\ (cursor = 0 \/ <<cursor, x>> \in order) =>
                        page.next \in page.items /\ \A y \in page.items : key[y] > key[x]
  BY <1>2, <1>13, <1>14
<1>19. IsFiniteSet(required) /\ Cardinality(required) <= limit =>
         \A x \in ids \cap required : x \in page.items \/ x \in page.required
  BY <1>2, <1>15
<1>. QED BY <1>2, <1>12, <1>16, <1>17, <1>18, <1>19 DEF ids, order, page

-----------------------------------------------------------------------------
(* What goes on beside a read.                                             *)

\* Nothing happens to the chain.
Still(c) == exec'[c] = exec[c] /\ listed'[c] = listed[c] /\ starts'[c] = starts[c] /\ rows'[c] = rows[c]

\* Runs begin, record and end, and what is steady is left alone.
Moves ==
  /\ steady' \subseteq steady /\ \A c \in steady' : Still(c)
  /\ \A c \in Chains : /\ Len(starts[c]) \in Nat /\ Len(starts'[c]) \in Nat /\ Len(starts[c]) <= Len(starts'[c])
                       /\ \A i \in 1..Len(starts[c]) : starts'[c][i] = starts[c][i]
                       /\ Old(c) => Old(c)'

\* The read is where it was.
Paused ==
  /\ reader'.step = reader.step /\ reader'.hidden = reader.hidden /\ reader'.live = reader.live
  /\ reader'.page = reader.page /\ reader'.ids = reader.ids /\ reader'.seen = reader.seen
  /\ reader'.items = reader.items /\ reader'.cursor = reader.cursor /\ reader'.next = reader.next
  /\ reader'.published = reader.published /\ reader'.crowded = reader.crowded

\* A step of a run concerns no read.
LEMMA WorldMoves ==
  ASSUME WorldInv, steady \subseteq Chains, NEW d \in Chains, WorldStep(d)
  PROVE  Moves /\ Paused /\ UNCHANGED <<hidden, dismiss>>
<1>0. WorldTypes /\ Lived(d)
  BY DEF WorldInv
<1>1. Happens(d)
  BY DEF WorldStep, StartRun, RecordStart, Ask, SettleRow, ContinueAsNew, Close, Forget, List
<1>2. Paused /\ UNCHANGED <<hidden, dismiss>> /\ steady' = steady \ {d}
  BY <1>1 DEF Happens, Paused
<1>3. \A c \in Chains : starts[c] \in Seq(Nat) /\ Len(starts[c]) \in Nat /\ rows[c] \in Seq(RowTypes) /\ Len(rows[c]) \in Nat
  BY <1>0, LenProperties DEF WorldTypes
<1>4. \A c \in Chains \ {d} : Still(c)
  BY <1>0 DEF WorldStep, StartRun, RecordStart, Ask, SettleRow, ContinueAsNew, Close, Forget, List, Still, WorldTypes
<1>5. /\ Len(starts'[d]) \in Nat /\ Len(starts[d]) <= Len(starts'[d])
      /\ \A i \in 1..Len(starts[d]) : starts'[d][i] = starts[d][i]
  <2>1. CASE starts'[d] = Append(starts[d], Clock + 1)
    BY <1>3, <2>1, AppendProperties, ClockIsANumber
  <2>2. CASE starts' = starts
    BY <1>3, <2>2
  <2>3. CASE StartRun(d)
    <3>1. starts[d] = <<>> /\ Len(starts[d]) = 0
      BY <1>0, <1>3, <2>3, EmptySeq DEF StartRun, Lived
    <3>2. starts'[d] = <<Clock + 1>> /\ Len(<<Clock + 1>>) = 1
      BY <1>0, <2>3 DEF StartRun, WorldTypes
    <3>. QED BY <3>1, <3>2
  <2>4. CASE ContinueAsNew(d)
    BY <1>0, <2>1, <2>4 DEF ContinueAsNew, WorldTypes
  <2>. QED BY <2>2, <2>3, <2>4 DEF WorldStep, RecordStart, Ask, SettleRow, Close, Forget, List
<1>6. Old(d) => Old(d)'
  <2>1. CASE rows' = rows
    BY <2>1 DEF Old
  <2>2. CASE RecordStart(d)
    <3>1. PICK row \in RowTypes : rows' = [rows EXCEPT ![d] = Append(rows[d], row)]
      <4>. DEFINE row == [outcome |-> "running", waiting |-> FALSE, place |-> IF rows[d] = <<>> THEN "tree" ELSE Unsaid]
      <4>1. row \in RowTypes
        BY DEF RowTypes
      <4>2. rows' = [rows EXCEPT ![d] = Append(rows[d], row)]
        BY <2>2 DEF RecordStart
      <4>. QED BY <4>1, <4>2
    <3>2. rows'[d] = Append(rows[d], row)
      BY <1>0, <3>1 DEF WorldTypes
    <3>3. Append(rows[d], row) # <<>>
      BY <1>3, AppendProperties
    <3>. QED BY <3>2, <3>3 DEF Old
  <2>3. CASE Ask(d) \/ SettleRow(d)
    <3>1. Recorded(d)
      BY <2>3 DEF Ask, SettleRow
    <3>2. \E row : rows'[d] = [rows[d] EXCEPT ![Len(rows[d])] = row]
      BY <1>0, <2>3 DEF Ask, SettleRow, WorldTypes
    <3>3. rows[d] # <<>> /\ Len(rows[d]) \in DOMAIN rows[d]
      BY <1>3, <3>1, EmptySeq, LenProperties DEF Recorded
    <3>4. Len(rows[d]) \in DOMAIN rows'[d]
      BY <3>2, <3>3
    <3>. QED BY <3>4 DEF Old
  <2>. QED BY <2>1, <2>2, <2>3 DEF WorldStep, StartRun, ContinueAsNew, Close, Forget, List
<1>7. ASSUME NEW c \in Chains
      PROVE  /\ Len(starts[c]) \in Nat /\ Len(starts'[c]) \in Nat /\ Len(starts[c]) <= Len(starts'[c])
             /\ \A i \in 1..Len(starts[c]) : starts'[c][i] = starts[c][i]
             /\ Old(c) => Old(c)'
  <2>1. CASE c = d
    BY <1>3, <1>5, <1>6, <2>1
  <2>2. CASE c # d
    BY <1>3, <1>4, <2>2 DEF Still, Old
  <2>. QED BY <2>1, <2>2
<1>8. \A c \in steady' : Still(c)
  BY <1>2, <1>4
<1>. QED BY <1>2, <1>7, <1>8 DEF Moves

\* A dismissal concerns no read.
LEMMA DismissalMoves ==
  ASSUME WorldInv, UNCHANGED <<world, reader>>, steady' \subseteq steady
  PROVE  Moves /\ Paused
<1>1. \A c \in Chains : starts[c] \in Seq(Nat) /\ Len(starts[c]) \in Nat
  BY LenProperties DEF WorldInv, WorldTypes
<1>. QED BY <1>1 DEF Moves, Paused, Still, Old, world

\* What is steady is told alike.
LEMMA StillSays ==
  ASSUME NEW c, Still(c)
  PROVE  /\ Truth(c)' = Truth(c) /\ RecordedChain(c)' = RecordedChain(c)
         /\ (Recorded(c)' <=> Recorded(c)) /\ (InSync(c)' <=> InSync(c)) /\ (Old(c)' <=> Old(c))
         /\ Now(c)' = Now(c) /\ ListedAs(c, 1)' = ListedAs(c, 1)
<1>1. (Recorded(c)' <=> Recorded(c)) /\ (Old(c)' <=> Old(c)) /\ Now(c)' = Now(c)
  BY DEF Still, Recorded, Old, Now, Last
<1>2. InSync(c)' <=> InSync(c)
  BY <1>1 DEF Still, InSync, Listable
<1>3. ListedAs(c, 1)' = ListedAs(c, 1)
  BY DEF Still, Iteration, ListedAs
<1>4. RecordedChain(c)' = RecordedChain(c)
  BY DEF Still, RecordedChain, Collapsed, Latest, Concluded, Iteration
<1>5. Truth(c)' = Truth(c)
  BY <1>1 DEF Still, Truth, Last
<1>. QED BY <1>1, <1>2, <1>3, <1>4, <1>5

\* What a read has learnt stays true while the world moves.
LEMMA MovesKeep ==
  ASSUME OverviewInv, Moves, Paused
  PROVE  Settled' /\ LiveInv' /\ PageInv' /\ ItemsInv' /\ Covered' /\ OverviewTellsTheTruth'
<1>0. /\ WorldInv /\ Quiet /\ Settled /\ LiveInv /\ PageInv /\ ItemsInv /\ Covered /\ OverviewTellsTheTruth
      /\ steady \subseteq Chains /\ steady' \subseteq steady
  BY DEF OverviewInv, Quiet, Moves
<1>1. \A c \in steady' : c \in steady /\ c \in Chains /\ Still(c)
  BY <1>0 DEF Moves
<1>2. \A c \in steady' :
        /\ Truth(c)' = Truth(c) /\ RecordedChain(c)' = RecordedChain(c)
        /\ (Recorded(c)' <=> Recorded(c)) /\ (InSync(c)' <=> InSync(c)) /\ (Old(c)' <=> Old(c))
        /\ Now(c)' = Now(c) /\ ListedAs(c, 1)' = ListedAs(c, 1)
  BY <1>1, StillSays
<1>3. \A c \in Chains : Len(starts[c]) > 0 => Len(starts'[c]) > 0 /\ starts'[c][1] = starts[c][1]
  BY DEF Moves
<1>4. \A r : Dated(r) => Dated(r)'
  <2>1. ASSUME NEW r, Dated(r) PROVE Dated(r)'
    <3>1. PICK i \in 1..Len(starts[r.id]) : r.start = starts[r.id][i]
      BY <2>1 DEF Dated
    <3>2. r.id \in Chains /\ i \in 1..Len(starts'[r.id]) /\ starts'[r.id][i] = starts[r.id][i]
      BY <2>1, <3>1 DEF Moves, Dated
    <3>. QED BY <3>1, <3>2 DEF Dated
  <2>. QED BY <2>1
<1>5. \A c \in Chains : Old(c) => Old(c)' /\ Len(starts[c]) > 0
  <2>1. \A c \in Chains : rows[c] \in Seq(RowTypes) /\ Len(rows[c]) \in Nat /\ Len(rows[c]) <= Len(starts[c])
                          /\ Len(starts[c]) \in Nat
    BY <1>0, LenProperties DEF WorldInv, WorldTypes, Lived
  <2>2. \A c \in Chains : Old(c) => Len(rows[c]) # 0
    BY <2>1, EmptySeq DEF Old
  <2>. QED BY <2>1, <2>2 DEF Moves
<1>6. \A c, d \in Chains : Old(c) /\ Old(d) /\ Later(c, d) => Later(c, d)'
  BY <1>3, <1>5 DEF Later
<1>7. /\ reader'.step = reader.step /\ reader'.hidden = reader.hidden /\ reader'.live = reader.live
      /\ reader'.page = reader.page /\ reader'.ids = reader.ids /\ reader'.seen = reader.seen
      /\ reader'.items = reader.items /\ reader'.cursor = reader.cursor /\ reader'.next = reader.next
      /\ reader'.published = reader.published /\ reader'.crowded = reader.crowded
  BY DEF Paused
<1>8. /\ \A c : IsLive(c)' <=> IsLive(c)
      /\ \A c : OnPage(c)' <=> OnPage(c)
      /\ LiveRuns' = LiveRuns
  BY <1>7 DEF IsLive, OnPage, LiveRuns
<1>9. Settled'
  BY <1>0, <1>1, <1>2, <1>7 DEF Settled, Still
<1>10. LiveInv'
  <2>. SUFFICES ASSUME reader.step \in {"page", "states"} PROVE LiveInv'
    BY <1>7 DEF LiveInv
  <2>1. \A e \in reader.live : IsOf(e) /\ Dated(e)'
    BY <1>0, <1>4 DEF LiveInv
  <2>2. \A e, f \in reader.live : e.id = f.id => e = f
    BY <1>0 DEF LiveInv
  <2>3. \A c \in steady' : listed'[c] # 0 => IsLive(c)
    BY <1>0, <1>1 DEF LiveInv, Still
  <2>4. ASSUME NEW e \in reader.live, e.id \in steady'
        PROVE  /\ e.run = Len(starts'[e.id]) /\ e.outcome = Now(e.id)'
               /\ exec'[e.id] = "running" \/ Recorded(e.id)'
               /\ rows'[e.id] = <<>> => e = ListedAs(e.id, 1)'
    <3>1. e.id \in steady /\ Still(e.id)
      BY <1>1, <2>4
    <3>. QED BY <1>0, <1>2, <2>4, <3>1 DEF LiveInv, Still
  <2>5. \A e : IsOf(e)' <=> IsOf(e)
    BY DEF IsOf
  <2>. QED BY <1>7, <1>8, <2>1, <2>2, <2>3, <2>4, <2>5 DEF LiveInv
<1>11. PageInv'
  <2>. SUFFICES ASSUME reader.step = "states" PROVE PageInv'
    BY <1>7 DEF PageInv
  <2>1. ASSUME NEW chain \in reader.page
        PROVE  /\ IsOf(chain.latest) /\ chain.latest.id \notin Fired
               /\ Len(starts'[chain.latest.id]) > 0 /\ chain.start = starts'[chain.latest.id][1]
               /\ chain.latest.start = chain.start
               /\ chain.latest.id \in steady' => Old(chain.latest.id)' /\ chain = RecordedChain(chain.latest.id)'
    <3>1. /\ IsOf(chain.latest) /\ chain.latest.id \notin Fired
          /\ Len(starts[chain.latest.id]) > 0 /\ chain.start = starts[chain.latest.id][1]
          /\ chain.latest.start = chain.start
          /\ chain.latest.id \in steady => Old(chain.latest.id) /\ chain = RecordedChain(chain.latest.id)
      BY <1>0 DEF PageInv
    <3>2. chain.latest.id \in Chains
      BY <3>1 DEF IsOf
    <3>. QED BY <1>1, <1>2, <1>3, <3>1, <3>2
  <2>2. \A a, b \in reader.page : a.latest.id = b.latest.id => a = b
    BY <1>0 DEF PageInv
  <2>3. \A c \in reader.ids : c \in Represented /\ OnPage(c) /\ Old(c)'
    BY <1>0, <1>5 DEF PageInv, Represented
  <2>4. \A e : IsOf(e)' <=> IsOf(e)
    BY DEF IsOf
  <2>. QED BY <1>7, <1>8, <2>1, <2>2, <2>3, <2>4 DEF PageInv, Represented
<1>12. ItemsInv'
  <2>. SUFFICES ASSUME reader.step \in {"page", "states"} PROVE ItemsInv'
    BY <1>7 DEF ItemsInv
  <2>1. \A r \in reader.items : Dated(r)' /\ r.id \in reader.seen /\ r.id \notin Fired
    BY <1>0, <1>4 DEF ItemsInv
  <2>2. \A r, q \in reader.items : r.id = q.id => r = q
    BY <1>0 DEF ItemsInv
  <2>3. ASSUME ~reader.crowded, NEW c \in steady'
        PROVE  /\ \A r \in reader.items : r.id = c => r = Truth(c)'
               /\ c \in reader.seen => Truth(c)' \in reader.items \/ Dismissed(reader.hidden, Truth(c)')
    <3>1. c \in steady /\ Truth(c)' = Truth(c)
      BY <1>1, <1>2
    <3>. QED BY <1>0, <2>3, <3>1 DEF ItemsInv
  <2>. QED BY <1>7, <2>1, <2>2, <2>3 DEF ItemsInv, Dismissed
<1>13. Covered'
  <2>1. ASSUME reader.step = "page"
        PROVE  /\ reader.cursor # 0 => reader.cursor \in Represented /\ Old(reader.cursor)'
               /\ \A c \in steady' \ Fired : Old(c)' =>
                    reader.cursor = 0 \/ c \in reader.seen \/ Later(reader.cursor, c)'
               /\ ~reader.crowded /\ reader.cursor # 0 =>
                    \A c \in steady' \ Fired : IsLive(c) => c \in reader.seen
    <3>1. /\ reader.cursor # 0 => reader.cursor \in Represented /\ Old(reader.cursor)
          /\ \A c \in steady \ Fired : Old(c) =>
               reader.cursor = 0 \/ c \in reader.seen \/ Later(reader.cursor, c)
          /\ ~reader.crowded /\ reader.cursor # 0 =>
               \A c \in steady \ Fired : IsLive(c) => c \in reader.seen
      BY <1>0, <2>1 DEF Covered
    <3>. QED BY <1>1, <1>2, <1>5, <1>6, <1>7, <3>1 DEF Represented
  <2>2. ASSUME reader.step = "states"
        PROVE  /\ reader.next # 0 => reader.next \in Represented /\ Old(reader.next)'
               /\ \A c \in steady' \ Fired : Old(c)' =>
                    \/ c \in reader.seen \/ OnPage(c)
                    \/ reader.next # 0 /\ Later(reader.next, c)' /\ \A d \in reader.ids : Later(d, c)'
               /\ ~reader.crowded /\ Cardinality(LiveRuns) <= Limit =>
                    \A c \in steady' \ Fired : IsLive(c) => c \in reader.seen \/ ~Old(c)' \/ OnPage(c)
    <3>1. /\ reader.next # 0 => reader.next \in Represented /\ Old(reader.next)
          /\ \A c \in steady \ Fired : Old(c) =>
               \/ c \in reader.seen \/ OnPage(c)
               \/ reader.next # 0 /\ Later(reader.next, c) /\ \A d \in reader.ids : Later(d, c)
          /\ ~reader.crowded /\ Cardinality(LiveRuns) <= Limit =>
               \A c \in steady \ Fired : IsLive(c) => c \in reader.seen \/ ~Old(c) \/ OnPage(c)
      BY <1>0, <2>2 DEF Covered
    <3>2. \A d \in reader.ids : d \in Chains /\ Old(d)
      BY <1>0, <2>2 DEF PageInv, Represented
    <3>. QED BY <1>1, <1>2, <1>5, <1>6, <1>7, <3>1, <3>2 DEF Represented
  <2>. QED BY <1>7, <1>8, <2>1, <2>2 DEF Covered, Represented
<1>14. OverviewTellsTheTruth'
  <2>. SUFFICES ASSUME reader.step = "published", ~reader.crowded PROVE OverviewTellsTheTruth'
    BY <1>7 DEF OverviewTellsTheTruth, SteadyRunsAreToldRight, SteadyRunsAreNotLost
  <2>1. \A c : Published(c)' = Published(c)
    BY <1>7 DEF Published
  <2>2. \A c \in steady : Published(c) \subseteq {Truth(c)}
    BY <1>0 DEF OverviewTellsTheTruth, SteadyRunsAreToldRight
  <2>3. \A c \in steady \ Fired :
          \/ Published(c) # {} \/ (c \in DOMAIN reader.hidden /\ reader.hidden[c] = Truth(c))
          \/ Cardinality(reader.published) = Limit /\ \A r \in reader.published : r.start > starts[c][1]
    BY <1>0 DEF OverviewTellsTheTruth, SteadyRunsAreNotLost
  <2>4. ASSUME NEW c \in steady' PROVE Published(c)' \subseteq {Truth(c)'}
    <3>1. c \in steady /\ Truth(c)' = Truth(c)
      BY <1>1, <1>2
    <3>. QED BY <2>1, <2>2, <3>1
  <2>5. ASSUME NEW c \in steady' \ Fired
        PROVE  \/ Published(c)' # {} \/ (c \in DOMAIN reader.hidden /\ reader.hidden[c] = Truth(c)')
               \/ Cardinality(reader.published) = Limit /\ \A r \in reader.published : r.start > starts'[c][1]
    <3>1. c \in steady \ Fired /\ Truth(c)' = Truth(c) /\ starts'[c] = starts[c]
      BY <1>1, <1>2 DEF Still
    <3>. QED BY <2>1, <2>3, <3>1
  <2>. QED BY <1>7, <2>4, <2>5 DEF OverviewTellsTheTruth, SteadyRunsAreToldRight, SteadyRunsAreNotLost
<1>. QED BY <1>9, <1>10, <1>11, <1>12, <1>13, <1>14

-----------------------------------------------------------------------------
(* A read, step by step.                                                   *)

\* What the listing tells of an iteration, field by field.
LEMMA ListedFields ==
  ASSUME NEW c, NEW i
  PROVE  LET e == ListedAs(c, i)
         IN /\ e.id = c /\ e.run = i /\ e.start = starts[c][i] /\ e.outcome = "running" /\ e.tokens = 0
            /\ e.class = "run" /\ e.parent = Unsaid /\ e.label = Unsaid /\ e.place = Unsaid
            /\ e.schedule = IF c \in Fired THEN "schedule" ELSE Unsaid
BY DEF Iteration, ListedAs

\* What resolving a page comes to, piece by piece.
Latests == {c.latest : c \in reader.page}
PageIds == {c.latest.id : c \in reader.page}
ToldLive == addExecutionStates(reader.live, Latests, Executions)
Kept == Satellites(ToldLive \cup Latests)
Bounded == boundedLiveCandidates(ToldLive, PageIds, Limit, Kept)
Resolved == resolveExecutionChains(reader.page, Bounded, Executions, Kept)
Unseen == {c \in Resolved : c.latest.id \notin reader.seen}
Visible == {r \in {runFrom(c) : c \in Unseen} : ~Dismissed(reader.hidden, r)}
NowItems == reader.items \cup Visible
Enough == Cardinality(reader.ids \cap IdsOf(NowItems)) >= Limit \/ reader.next = 0
Crowds == Cardinality({e \in ToldLive : isRunSatellite(e)}) > Limit
NowSeen == reader.seen \cup {c.latest.id : c \in Unseen}

\* Resolving a page, field by field.
LEMMA Resolving ==
  ASSUME ResolvePage
  PROVE  /\ reader.step = "states" /\ UNCHANGED <<world, hidden, dismiss, steady>>
         /\ reader'.hidden = reader.hidden /\ (reader'.crowded <=> reader.crowded \/ Crowds)
         /\ IF Enough THEN reader'.step = "published" /\ reader'.published = NewestItems(NowItems)
            ELSE /\ reader'.step = "page" /\ reader'.live = ToldLive /\ reader'.seen = NowSeen
                 /\ reader'.items = NowItems /\ reader'.cursor = reader.next /\ reader'.published = {}
<1>1. reader.step = "states" /\ UNCHANGED <<world, hidden, dismiss, steady>>
  BY DEF ResolvePage
<1>2. reader' = [reader EXCEPT !.step = IF Enough THEN "published" ELSE "page",
                               !.live = IF Enough THEN {} ELSE ToldLive, !.page = {}, !.ids = {},
                               !.seen = IF Enough THEN {} ELSE NowSeen,
                               !.items = IF Enough THEN {} ELSE NowItems,
                               !.crowded = @ \/ Crowds,
                               !.cursor = IF Enough THEN 0 ELSE reader.next, !.next = 0,
                               !.published = IF Enough THEN NewestItems(NowItems) ELSE {}]
  BY DEF ResolvePage, Latests, PageIds, ToldLive, Kept, Bounded, Resolved, Unseen, Visible, NowItems, Enough, Crowds, NowSeen
<1>3. reader'.crowded <=> reader.crowded \/ Crowds
  <2>. DEFINE crowd == reader.crowded \/ Crowds
  <2>1. crowd <=> reader.crowded \/ Crowds
    OBVIOUS
  <2>2. reader'.crowded = crowd
    <3>. HIDE DEF crowd
    <3>. QED BY <1>2 DEF crowd
  <2>. HIDE DEF crowd
  <2>. QED BY <2>1, <2>2
<1>. QED BY <1>1, <1>2, <1>3

\* The viewer goes on reading, or dismissing.
LEMMA QuietStays == Quiet /\ [Next]_vars => Quiet'
<1>. SUFFICES ASSUME Quiet, [Next]_vars PROVE Quiet'
  OBVIOUS
<1>1. CASE UNCHANGED vars
  BY <1>1 DEF Quiet, vars
<1>2. CASE BeginRead
  BY <1>2 DEF BeginRead, Quiet, NoRead
<1>3. CASE ReadLive
  BY <1>3 DEF ReadLive, Quiet
<1>4. CASE ReadPage
  <2>1. /\ reader.step = "page" /\ reader'.step = "states" /\ reader'.hidden = reader.hidden
        /\ reader'.published = reader.published /\ UNCHANGED <<hidden, dismiss, steady>>
    BY <1>4 DEF ReadPage
  <2>. QED BY <2>1 DEF Quiet
<1>5. CASE ResolvePage
  <2>1. /\ reader.step = "states" /\ reader'.hidden = reader.hidden /\ UNCHANGED <<hidden, dismiss, steady>>
        /\ reader'.step = "published" \/ (reader'.step = "page" /\ reader'.published = {})
    BY <1>5, Resolving
  <2>. QED BY <2>1 DEF Quiet
<1>6. CASE ReadFails
  BY <1>6 DEF ReadFails, Quiet, NoRead
<1>7. ASSUME NEW c \in Opened, View(c) PROVE Quiet'
  <2>1. /\ reader.step = "idle" /\ dismiss'.id = c /\ UNCHANGED <<hidden, reader, steady>>
    BY <1>7 DEF View
  <2>. QED BY <2>1, CollectionAssumption DEF Quiet
<1>8. CASE ReadRows
  <2>1. /\ dismiss.step = "rows" /\ dismiss'.id = dismiss.id /\ UNCHANGED <<hidden, reader, steady>>
    BY <1>8 DEF ReadRows
  <2>. QED BY <2>1 DEF Quiet
<1>9. CASE CheckRevision
  <2>1. /\ dismiss.step = "live" /\ (dismiss'.id = dismiss.id \/ dismiss'.step = "idle")
        /\ UNCHANGED <<hidden, reader, steady>>
    BY <1>9 DEF CheckRevision, NoDismissal
  <2>. QED BY <1>9, <2>1 DEF Quiet, CheckRevision
<1>10. CASE StoreDismissal
  <2>1. /\ dismiss.step = "store" /\ dismiss'.step = "idle" /\ DOMAIN hidden' = DOMAIN hidden \cup {dismiss.id}
        /\ steady' \subseteq steady /\ UNCHANGED reader
    BY <1>10 DEF StoreDismissal, NoDismissal
  <2>. QED BY <2>1 DEF Quiet
<1>11. ASSUME NEW c, Undismiss(c) PROVE Quiet'
  <2>1. /\ reader.step = "idle" /\ DOMAIN hidden' \subseteq DOMAIN hidden
        /\ steady' \subseteq steady /\ UNCHANGED <<reader, dismiss>>
    BY <1>11 DEF Undismiss
  <2>. QED BY <2>1 DEF Quiet
<1>12. ASSUME NEW c \in Chains, WorldStep(c) PROVE Quiet'
  <2>1. Happens(c)
    BY <1>12 DEF WorldStep, StartRun, RecordStart, Ask, SettleRow, ContinueAsNew, Close, Forget, List
  <2>2. /\ Paused /\ UNCHANGED <<hidden, dismiss>> /\ steady' \subseteq steady
    BY <2>1 DEF Happens, Paused
  <2>. QED BY <2>2 DEF Quiet, Paused
<1>. QED BY <1>1, <1>2, <1>3, <1>4, <1>5, <1>6, <1>7, <1>8, <1>9, <1>10, <1>11, <1>12
         DEF Next, ReadStep, DismissStep

\* A read begins knowing nothing, and one that fails publishes nothing.
LEMMA BeginReadKeeps ==
  ASSUME OverviewInv, BeginRead \/ ReadFails
  PROVE  Settled' /\ LiveInv' /\ PageInv' /\ ItemsInv' /\ Covered' /\ OverviewTellsTheTruth'
<1>1. CASE BeginRead
  <2>1. reader'.step = "live" /\ UNCHANGED world
    BY <1>1 DEF BeginRead, NoRead
  <2>2. \A c \in steady' : exec'[c] # "none" /\ InSync(c)'
    BY <1>1, <2>1 DEF BeginRead, InSync, Listable, Recorded, Last, world
  <2>. QED BY <2>1, <2>2 DEF Settled, LiveInv, PageInv, ItemsInv, Covered, OverviewTellsTheTruth,
              SteadyRunsAreToldRight, SteadyRunsAreNotLost
<1>2. CASE ReadFails
  <2>1. reader'.step = "failed"
    BY <1>2 DEF ReadFails, NoRead
  <2>. QED BY <2>1 DEF Settled, LiveInv, PageInv, ItemsInv, Covered, OverviewTellsTheTruth,
              SteadyRunsAreToldRight, SteadyRunsAreNotLost
<1>. QED BY <1>1, <1>2

\* What the listing shows of a steady chain is its latest iteration.
LEMMA ReadLiveKeeps ==
  ASSUME OverviewInv, ReadLive
  PROVE  Settled' /\ LiveInv' /\ PageInv' /\ ItemsInv' /\ Covered' /\ OverviewTellsTheTruth'
<1>0. /\ WorldInv /\ WorldTypes /\ Quiet /\ Settled /\ \A c \in Chains : Lived(c)
      /\ reader.step = "live" /\ steady \subseteq Chains
  BY DEF OverviewInv, WorldInv, Quiet, ReadLive
<1>1. /\ reader'.step = "page" /\ reader'.live = RunningExecutions /\ reader'.items = {} /\ reader'.seen = {}
      /\ reader'.cursor = 0 /\ UNCHANGED <<world, hidden, dismiss, steady>>
  BY <1>0 DEF ReadLive, Quiet
<1>2. /\ UNCHANGED <<exec, listed, starts, rows, steady>>
  BY <1>1 DEF world
<1>3. \A c \in Chains : Len(starts[c]) \in Nat /\ Len(rows[c]) \in Nat /\ listed[c] \in Nat /\ rows[c] \in Seq(RowTypes)
  BY <1>0, LenProperties DEF WorldTypes
<1>4. ASSUME NEW e \in RunningExecutions
      PROVE  /\ e.id \in Chains /\ listed[e.id] # 0 /\ e = ListedAs(e.id, listed[e.id])
             /\ IsOf(e) /\ Dated(e) /\ e.run = listed[e.id] /\ e.outcome = "running"
  <2>1. PICK c \in Chains : listed[c] # 0 /\ e = ListedAs(c, listed[c])
    BY DEF RunningExecutions, ListedAs
  <2>2. /\ e.id = c /\ e.run = listed[c] /\ e.start = starts[c][listed[c]] /\ e.outcome = "running"
        /\ e.class = "run" /\ e.parent = Unsaid /\ e.schedule = IF c \in Fired THEN "schedule" ELSE Unsaid
    BY <2>1, ListedFields
  <2>3. listed[c] \in 1..Len(starts[c])
    BY <1>0, <1>3, <2>1 DEF Lived
  <2>. QED BY <1>3, <2>1, <2>2, <2>3 DEF IsOf, Dated
<1>5. ASSUME NEW c \in steady, listed[c] # 0
      PROVE  /\ exec[c] = "running" /\ listed[c] = Len(starts[c])
             /\ rows[c] = <<>> => listed[c] = 1
             /\ \E e \in RunningExecutions : e.id = c
  <2>1. InSync(c) /\ c \in Chains
    BY <1>0 DEF Settled
  <2>2. exec[c] = "running" /\ listed[c] = Len(starts[c])
    BY <1>5, <2>1 DEF InSync, Listable
  <2>3. rows[c] = <<>> => listed[c] = 1
    <3>. SUFFICES ASSUME rows[c] = <<>> PROVE listed[c] = 1
      OBVIOUS
    <3>1. Len(rows[c]) = 0
      BY <1>3, <2>1, EmptySeq
    <3>2. Len(starts[c]) <= Len(rows[c]) + 1
      BY <1>0, <2>1 DEF Lived
    <3>3. listed[c] \in Nat
      BY <1>3, <2>1
    <3>4. Len(starts[c]) <= 1
      <4>1. \A m, n : m <= n + 1 /\ n = 0 => m <= 1
        OBVIOUS
      <4>. QED BY <3>1, <3>2, <4>1
    <3>5. listed[c] <= 1
      BY <2>2, <3>4
    <3>6. listed[c] # 0
      BY <1>5
    <3>. QED BY <3>3, <3>5, <3>6
  <2>4. ListedAs(c, listed[c]) \in RunningExecutions
    BY <1>5, <2>1 DEF RunningExecutions, ListedAs
  <2>5. ListedAs(c, listed[c]).id = c
    BY ListedFields
  <2>. QED BY <2>2, <2>3, <2>4, <2>5
<1>6. LiveInv'
  <2>1. \A e \in reader'.live : IsOf(e)' /\ Dated(e)'
    BY <1>1, <1>2, <1>4 DEF IsOf, Dated
  <2>2. \A e, f \in reader'.live : e.id = f.id => e = f
    BY <1>1, <1>4
  <2>3. \A c \in steady' : listed'[c] # 0 => IsLive(c)'
    BY <1>1, <1>2, <1>5 DEF IsLive
  <2>4. ASSUME NEW e \in reader'.live, e.id \in steady'
        PROVE  /\ e.run = Len(starts'[e.id]) /\ e.outcome = Now(e.id)'
               /\ exec'[e.id] = "running" \/ Recorded(e.id)'
               /\ rows'[e.id] = <<>> => e = ListedAs(e.id, 1)'
    <3>1. /\ e \in RunningExecutions /\ e.id \in steady /\ e.run = listed[e.id] /\ e.outcome = "running"
          /\ exec[e.id] = "running" /\ listed[e.id] = Len(starts[e.id])
          /\ rows[e.id] = <<>> => listed[e.id] = 1
          /\ e = ListedAs(e.id, listed[e.id])
      BY <1>1, <1>2, <1>4, <1>5, <2>4
    <3>2. Now(e.id)' = "running"
      BY <1>2, <3>1 DEF Now
    <3>3. ListedAs(e.id, 1)' = ListedAs(e.id, 1)
      BY <1>2 DEF Iteration, ListedAs
    <3>. QED BY <1>2, <3>1, <3>2, <3>3
  <2>. QED BY <2>1, <2>2, <2>3, <2>4 DEF LiveInv
<1>7. Settled'
  BY <1>0, <1>1, <1>2 DEF Settled, InSync, Listable, Recorded, Last
<1>. QED BY <1>1, <1>6, <1>7 DEF PageInv, ItemsInv, Covered, OverviewTellsTheTruth,
              SteadyRunsAreToldRight, SteadyRunsAreNotLost

\* As many as they have identities.
LEMMA IdsAreMany ==
  ASSUME NEW some, \A e \in some : e.id \in Chains, \A e, f \in some : e.id = f.id => e = f
  PROVE  /\ IsFiniteSet(some) /\ Cardinality(some) \in Nat
         /\ IsFiniteSet(IdsOf(some)) /\ Cardinality(IdsOf(some)) = Cardinality(some)
<1>. DEFINE f == [e \in some |-> e.id]
<1>1. f \in Bijection(some, IdsOf(some))
  <2>1. f \in [some -> IdsOf(some)]
    BY DEF IdsOf
  <2>2. \A a, b \in some : f[a] = f[b] => a = b
    OBVIOUS
  <2>3. \A c \in IdsOf(some) : \E a \in some : f[a] = c
    BY DEF IdsOf
  <2>. HIDE DEF f
  <2>. QED BY <2>1, <2>2, <2>3 DEF Bijection, Injection, Surjection, IsInjective
<1>2. IdsOf(some) \in SUBSET Chains
  BY DEF IdsOf
<1>3. IsFiniteSet(IdsOf(some))
  BY <1>2, CollectionAssumption, FS_Subset
<1>4. f \in Injection(some, IdsOf(some)) /\ f \in Surjection(some, IdsOf(some))
  <2>. HIDE DEF f
  <2>. QED BY <1>1 DEF Bijection
<1>5. IsFiniteSet(some) /\ (Cardinality(some) = Cardinality(IdsOf(some)) <=> f \in Surjection(some, IdsOf(some)))
  <2>. HIDE DEF f
  <2>. QED BY <1>3, <1>4, FS_Injection
<1>6. Cardinality(some) \in Nat
  BY <1>5, FS_CardinalityType
<1>. QED BY <1>3, <1>4, <1>5, <1>6

\* Those of different chains began at different times.
LEMMA DatesDiffer ==
  ASSUME WorldInv, NEW some, \A r \in some : Dated(r), \A r, q \in some : r.id = q.id => r = q
  PROVE  /\ IsFiniteSet(some)
         /\ \A order : (\A x, y \in some : <<y, x>> \in order <=> (y.start > x.start \/ (y.start = x.start /\ x # y /\ <<y, x>> \in order)))
              => ByKey(some, [r \in some |-> r.start], Clock, order)
<1>0. Timed /\ Clock \in Nat
  BY ClockIsANumber DEF WorldInv
<1>1. IsFiniteSet(some)
  <2>1. \A r \in some : r.id \in Chains
    BY DEF Dated
  <2>. QED BY <2>1, IdsAreMany
<1>2. \A r \in some : r.start \in 1..Clock
  BY <1>0 DEF Dated, Timed
<1>3. ASSUME NEW x \in some, NEW y \in some, x.start = y.start PROVE x = y
  <2>1. CASE x.id = y.id
    BY <2>1
  <2>2. CASE x.id # y.id
    <3>1. PICK i \in 1..Len(starts[x.id]) : x.start = starts[x.id][i]
      BY DEF Dated
    <3>2. PICK j \in 1..Len(starts[y.id]) : y.start = starts[y.id][j]
      BY DEF Dated
    <3>3. x.id \in Chains /\ y.id \in Chains
      BY DEF Dated
    <3>4. \A c, d \in Chains : c # d => \A m \in 1..Len(starts[c]), n \in 1..Len(starts[d]) : starts[c][m] # starts[d][n]
      BY <1>0 DEF Timed
    <3>5. starts[x.id][i] # starts[y.id][j]
      BY <2>2, <3>3, <3>4
    <3>. QED BY <1>3, <3>1, <3>2, <3>5
  <2>. QED BY <2>1, <2>2
<1>4. ASSUME NEW order,
             \A x, y \in some : <<y, x>> \in order <=> (y.start > x.start \/ (y.start = x.start /\ x # y /\ <<y, x>> \in order))
      PROVE  ByKey(some, [r \in some |-> r.start], Clock, order)
  <2>. DEFINE key == [r \in some |-> r.start]
  <2>1. key \in [some -> 0..Clock] /\ \A r \in some : key[r] = r.start
    BY <1>0, <1>2
  <2>2. \A x, y \in some : <<y, x>> \in order <=> y.start > x.start
    BY <1>3, <1>4
  <2>. HIDE DEF key
  <2>3. ByKey(some, key, Clock, order)
    BY <1>1, <1>3, <2>1, <2>2 DEF ByKey
  <2>. QED BY <2>3 DEF key
<1>. QED BY <1>1, <1>4

\* When a chain with rows began.
Began == [c \in IdsOf(Eligible) |-> starts[c][1]]

\* The rows are listed by when their chains began, the latest first.
LEMMA ListingIsLater ==
  ASSUME WorldInv
  PROVE  /\ ByKey(IdsOf(Eligible), Began, Clock, Listing(Eligible))
         /\ \A c, d \in IdsOf(Eligible) : (<<c, d>> \in Listing(Eligible) <=> Later(c, d)) /\ (Began[c] > Began[d] <=> Later(c, d))
<1>. DEFINE ids == IdsOf(Eligible)
<1>0. WorldTypes /\ Timed /\ Clock \in Nat /\ \A c \in Chains : Lived(c)
  BY ClockIsANumber DEF WorldInv
<1>1. ids = {c \in Represented : Old(c)} /\ \A c \in ids : Started(Eligible, c) = starts[c][1] /\ c \in Chains
      /\ Len(starts[c]) \in Nat \ {0}
  BY OldIds DEF Represented
<1>2. IsFiniteSet(ids)
  <2>1. ids \in SUBSET Chains
    BY <1>1
  <2>. QED BY <2>1, CollectionAssumption, FS_Subset
<1>3. \A c \in ids : starts[c][1] \in 1..Clock /\ c \in Nat
  <2>1. \A c \in ids : 1 \in 1..Len(starts[c]) /\ c \in Chains
    BY <1>1
  <2>2. \A c \in Chains : \A i \in 1..Len(starts[c]) : starts[c][i] \in 1..Clock
    BY <1>0 DEF Timed
  <2>. HIDE DEF ids
  <2>. QED BY <2>1, <2>2, CollectionAssumption
<1>4. \A c, d \in ids : starts[c][1] = starts[d][1] => c = d
  <2>1. \A c \in ids : 1 \in 1..Len(starts[c])
    BY <1>1
  <2>. QED BY <1>0, <1>1, <2>1 DEF Timed
<1>5. \A c, d \in ids : <<c, d>> \in Listing(Eligible) <=>
        starts[c][1] > starts[d][1] \/ (starts[c][1] = starts[d][1] /\ c < d)
  BY <1>1 DEF Listing
<1>6. \A c, d \in ids : <<c, d>> \in Listing(Eligible) <=> Later(c, d)
  <2>. HIDE DEF ids
  <2>1. ASSUME NEW c \in ids, NEW d \in ids PROVE <<c, d>> \in Listing(Eligible) <=> starts[c][1] > starts[d][1]
    <3>1. starts[c][1] = starts[d][1] => ~(c < d)
      <4>1. c \in Nat /\ (starts[c][1] = starts[d][1] => c = d)
        BY <1>3, <1>4
      <4>. QED BY <4>1
    <3>2. <<c, d>> \in Listing(Eligible) <=>
            starts[c][1] > starts[d][1] \/ (starts[c][1] = starts[d][1] /\ c < d)
      BY <1>5
    <3>. QED BY <3>1, <3>2
  <2>. QED BY <2>1 DEF Later
<1>7. Began \in [ids -> 0..Clock] /\ \A c \in ids : Began[c] = starts[c][1]
  BY <1>0, <1>3 DEF Began
<1>. HIDE DEF ids
<1>8. ByKey(ids, Began, Clock, Listing(Eligible))
  BY <1>2, <1>4, <1>6, <1>7 DEF ByKey, Later
<1>. QED BY <1>6, <1>7, <1>8 DEF ids, Later

\* A page holds no fewer than the collection shows (collectionPageLimit).
LEMMA PagesAreLarge ==
  ASSUME Quiet
  PROVE  LET limit == collectionPageLimit(Limit, Cardinality(DOMAIN reader.hidden))
         IN limit \in Nat \ {0} /\ Limit <= limit
<1>1. IsFiniteSet(DOMAIN reader.hidden)
  <2>1. DOMAIN reader.hidden \in SUBSET Chains
    BY DEF Quiet
  <2>. QED BY <2>1, CollectionAssumption, FS_Subset
<1>2. Cardinality(DOMAIN reader.hidden) \in Nat
  BY <1>1, FS_CardinalityType
<1>3. \A n \in Nat : collectionPageLimit(Limit, n) \in Nat \ {0} /\ Limit <= collectionPageLimit(Limit, n)
  BY CollectionAssumption DEF collectionPageLimit
<1>. QED BY <1>2, <1>3

\* The identities that a page must have the rows of.
Required == IF reader.cursor = 0 THEN IdsOf({e \in reader.live : isRunSatellite(e)}) ELSE {}

\* The page that is read next.
PageRead == Page(Eligible, collectionPageLimit(Limit, Cardinality(DOMAIN reader.hidden)), Required, reader.cursor)

\* Reading a page, field by field.
LEMMA Paging ==
  ASSUME ReadPage
  PROVE  /\ reader.step = "page" /\ UNCHANGED <<world, hidden, dismiss, steady>>
         /\ reader'.step = "states" /\ reader'.page = ChainsOf(PageRead.items \cup PageRead.required)
         /\ reader'.ids = PageRead.items /\ reader'.next = PageRead.next
         /\ reader'.hidden = reader.hidden /\ reader'.live = reader.live /\ reader'.seen = reader.seen
         /\ reader'.items = reader.items /\ reader'.crowded = reader.crowded
<1>1. reader.step = "page" /\ UNCHANGED <<world, hidden, dismiss, steady>>
  BY DEF ReadPage
<1>2. reader' = [reader EXCEPT !.step = "states", !.page = ChainsOf(PageRead.items \cup PageRead.required),
                               !.ids = PageRead.items, !.next = PageRead.next]
  BY DEF ReadPage, PageRead, Required
<1>. QED BY <1>1, <1>2

\* The identities of runs of their own are those that no schedule represents.
LEMMA RunsOfTheirOwn == ASSUME NEW e, IsOf(e) PROVE isRunSatellite(e) <=> e.id \notin Fired
BY UnsaidIsNothing DEF IsOf, isRunSatellite, runClasses

\* The page that is read next leaves out only what comes later, and on the first
\* nothing of the running chains, if they are no more than it holds.
LEMMA PageCovers ==
  ASSUME OverviewInv, reader.step = "page"
  PROVE  /\ PageRead.items \subseteq IdsOf(Eligible) /\ PageRead.required \subseteq IdsOf(Eligible)
         /\ PageRead.next # 0 => PageRead.next \in PageRead.items
         /\ \A c \in IdsOf(Eligible) : c \notin PageRead.items /\ (reader.cursor = 0 \/ Later(reader.cursor, c)) =>
              PageRead.next \in PageRead.items /\ \A d \in PageRead.items : Later(d, c)
         /\ Cardinality(LiveRuns) <= Limit /\ reader.cursor = 0 =>
              \A c \in IdsOf(Eligible) \cap IdsOf(LiveRuns) : c \in PageRead.items \/ c \in PageRead.required
<1>. DEFINE limit == collectionPageLimit(Limit, Cardinality(DOMAIN reader.hidden))
            ids == IdsOf(Eligible)
<1>0. WorldInv /\ Quiet /\ LiveInv /\ Covered /\ Clock \in Nat
  BY ClockIsANumber DEF OverviewInv
<1>1. limit \in Nat \ {0} /\ Limit <= limit /\ Limit \in Nat
  BY <1>0, PagesAreLarge, CollectionAssumption
<1>2. /\ ByKey(ids, Began, Clock, Listing(Eligible))
      /\ \A c, d \in ids : (<<c, d>> \in Listing(Eligible) <=> Later(c, d)) /\ (Began[c] > Began[d] <=> Later(c, d))
  BY <1>0, ListingIsLater
<1>3. ids = {c \in Represented : Old(c)}
  BY <1>0, OldIds
<1>. HIDE DEF limit
<1>4. /\ PageRead.items \subseteq ids /\ PageRead.required \subseteq ids
      /\ PageRead.next # 0 => PageRead.next \in PageRead.items
      /\ \A x \in ids : x \notin PageRead.items /\ (reader.cursor = 0 \/ <<reader.cursor, x>> \in Listing(Eligible)) =>
           PageRead.next \in PageRead.items /\ \A y \in PageRead.items : Began[y] > Began[x]
      /\ IsFiniteSet(Required) /\ Cardinality(Required) <= limit =>
           \A x \in ids \cap Required : x \in PageRead.items \/ x \in PageRead.required
  BY <1>0, <1>1, <1>2, PagesCover DEF PageRead, limit
<1>5. reader.cursor # 0 => reader.cursor \in ids
  BY <1>0, <1>3 DEF Covered
<1>6. \A c \in ids : c \notin PageRead.items /\ (reader.cursor = 0 \/ Later(reader.cursor, c)) =>
        PageRead.next \in PageRead.items /\ \A d \in PageRead.items : Later(d, c)
  <2>. HIDE DEF ids
  <2>. QED BY <1>2, <1>4, <1>5
<1>7. ASSUME Cardinality(LiveRuns) <= Limit, reader.cursor = 0
      PROVE  \A c \in ids \cap IdsOf(LiveRuns) : c \in PageRead.items \/ c \in PageRead.required
  <2>1. Required = IdsOf(LiveRuns)
    BY <1>7 DEF Required, LiveRuns
  <2>2. /\ \A e \in LiveRuns : e.id \in Chains
        /\ \A e, f \in LiveRuns : e.id = f.id => e = f
    BY <1>0 DEF LiveInv, LiveRuns, IsOf
  <2>3. IsFiniteSet(Required) /\ Cardinality(Required) = Cardinality(LiveRuns) /\ Cardinality(LiveRuns) \in Nat
    BY <2>1, <2>2, IdsAreMany
  <2>4. Cardinality(Required) <= limit
    BY <1>1, <1>7, <2>3
  <2>. QED BY <1>4, <2>1, <2>3, <2>4
<1>. QED BY <1>4, <1>6, <1>7

\* A page tells of its chains what their rows say together.
LEMMA ReadPageKeeps ==
  ASSUME OverviewInv, ReadPage
  PROVE  Settled' /\ LiveInv' /\ PageInv' /\ ItemsInv' /\ Covered' /\ OverviewTellsTheTruth'
<1>0. /\ WorldInv /\ Quiet /\ Settled /\ LiveInv /\ PageInv /\ ItemsInv /\ Covered /\ OverviewTellsTheTruth
      /\ reader.step = "page" /\ steady \subseteq Chains
  BY Paging DEF OverviewInv, Quiet
<1>. DEFINE items == PageRead.items
            required == PageRead.required
<1>1. /\ UNCHANGED <<exec, listed, starts, rows, hidden, dismiss, steady>>
      /\ reader'.step = "states" /\ reader'.page = ChainsOf(items \cup required)
      /\ reader'.ids = items /\ reader'.next = PageRead.next
      /\ reader'.hidden = reader.hidden /\ reader'.live = reader.live /\ reader'.seen = reader.seen
      /\ reader'.items = reader.items /\ reader'.crowded = reader.crowded
  BY Paging DEF world
<1>2. IdsOf(Eligible) = {c \in Represented : Old(c)}
      /\ \A c \in Represented : Old(c) => Len(rows[c]) \in Nat \ {0} /\ Len(starts[c]) \in Nat \ {0}
  BY <1>0, OldIds
<1>3. /\ items \subseteq IdsOf(Eligible) /\ required \subseteq IdsOf(Eligible)
      /\ PageRead.next # 0 => PageRead.next \in items
      /\ \A c \in IdsOf(Eligible) : c \notin items /\ (reader.cursor = 0 \/ Later(reader.cursor, c)) =>
           PageRead.next \in items /\ \A d \in items : Later(d, c)
      /\ Cardinality(LiveRuns) <= Limit /\ reader.cursor = 0 =>
           \A c \in IdsOf(Eligible) \cap IdsOf(LiveRuns) : c \in items \/ c \in required
  BY <1>0, PageCovers
<1>. HIDE DEF items, required
<1>4. reader'.page = {RecordedChain(c) : c \in items \cup required}
  <2>1. \A c \in items \cup required : aggregateChain(RowsOf(Eligible, c)) = RecordedChain(c)
    BY <1>0, <1>2, <1>3, RowsCollapse
  <2>. QED BY <1>1, <2>1 DEF ChainsOf
<1>5. \A c : RecordedChain(c)' = RecordedChain(c) /\ (Old(c)' <=> Old(c)) /\ Truth(c)' = Truth(c) /\ Still(c)
             /\ (Recorded(c)' <=> Recorded(c)) /\ (InSync(c)' <=> InSync(c)) /\ Now(c)' = Now(c)
             /\ ListedAs(c, 1)' = ListedAs(c, 1)
  <2>1. \A c : Still(c)
    BY <1>1 DEF Still
  <2>. QED BY <2>1, StillSays
<1>6. \A c : /\ RecordedChain(c).latest.id = c /\ RecordedChain(c).start = starts[c][1]
             /\ RecordedChain(c).latest.start = starts[c][1]
             /\ c \in Chains => IsOf(RecordedChain(c).latest)
  <2>1. \A c \in Chains : Len(rows[c]) \in Nat
    BY <1>0, LenProperties DEF WorldInv, WorldTypes
  <2>. QED BY <2>1, LatestFields DEF RecordedChain, Collapsed, IsOf
<1>7. \A c : OnPage(c)' <=> c \in items \cup required
  BY <1>4, <1>6 DEF OnPage
<1>8. Settled' /\ LiveInv' /\ ItemsInv'
  <2>1. Settled'
    BY <1>0, <1>1, <1>5 DEF Settled
  <2>2. LiveInv'
    <3>1. \A c : IsLive(c)' <=> IsLive(c)
      BY <1>1 DEF IsLive
    <3>2. \A e : (IsOf(e)' <=> IsOf(e)) /\ (Dated(e)' <=> Dated(e))
      BY <1>1 DEF IsOf, Dated
    <3>. QED BY <1>0, <1>1, <1>5, <3>1, <3>2 DEF LiveInv
  <2>3. ItemsInv'
    <3>1. \A e : Dated(e)' <=> Dated(e)
      BY <1>1 DEF Dated
    <3>. QED BY <1>0, <1>1, <1>5, <3>1 DEF ItemsInv, Dismissed
  <2>. QED BY <2>1, <2>2, <2>3
<1>9. PageInv'
  <2>1. ASSUME NEW chain \in reader'.page
        PROVE  /\ IsOf(chain.latest)' /\ chain.latest.id \notin Fired
               /\ Len(starts'[chain.latest.id]) > 0 /\ chain.start = starts'[chain.latest.id][1]
               /\ chain.latest.start = chain.start
               /\ chain.latest.id \in steady' => Old(chain.latest.id)' /\ chain = RecordedChain(chain.latest.id)'
    <3>1. PICK c \in items \cup required : chain = RecordedChain(c)
      BY <1>4
    <3>2. c \in Represented /\ Old(c) /\ c \in Chains /\ c \notin Fired /\ Len(starts[c]) \in Nat \ {0}
      BY <1>2, <1>3 DEF Represented
    <3>3. chain.latest.id = c /\ chain.start = starts[c][1] /\ chain.latest.start = starts[c][1] /\ IsOf(chain.latest)
      BY <1>6, <3>1, <3>2
    <3>4. IsOf(chain.latest)'
      BY <3>3 DEF IsOf
    <3>. QED BY <1>1, <1>5, <3>1, <3>2, <3>3, <3>4
  <2>2. \A a, b \in reader'.page : a.latest.id = b.latest.id => a = b
    BY <1>4, <1>6
  <2>3. \A c \in reader'.ids : c \in Represented /\ OnPage(c)' /\ Old(c)'
    BY <1>1, <1>2, <1>3, <1>5, <1>7
  <2>. QED BY <2>1, <2>2, <2>3 DEF PageInv, Represented
<1>10. Covered'
  <2>1. reader'.next # 0 => reader'.next \in Represented /\ Old(reader.next)'
    <3>1. \A c \in items : c \in Represented /\ Old(c)
      BY <1>2, <1>3
    <3>. QED BY <1>1, <1>3, <1>5, <3>1
  <2>2. ASSUME NEW c \in steady \ Fired, Old(c)
        PROVE  \/ c \in reader.seen \/ OnPage(c)'
               \/ PageRead.next # 0 /\ Later(PageRead.next, c) /\ \A d \in items : Later(d, c)
    <3>1. c \in IdsOf(Eligible)
      BY <1>0, <1>2, <2>2 DEF Represented
    <3>2. reader.cursor = 0 \/ c \in reader.seen \/ Later(reader.cursor, c)
      BY <1>0, <2>2 DEF Covered
    <3>3. CASE c \notin items /\ (reader.cursor = 0 \/ Later(reader.cursor, c))
      <4>1. PageRead.next \in items /\ \A d \in items : Later(d, c)
        BY <1>3, <3>1, <3>3
      <4>2. PageRead.next # 0
        BY <1>2, <1>3, <4>1, CollectionAssumption DEF Represented
      <4>. QED BY <4>1, <4>2
    <3>. QED BY <1>7, <3>2, <3>3
  <2>3. ASSUME ~reader.crowded, Cardinality(LiveRuns) <= Limit, NEW c \in steady \ Fired, IsLive(c), Old(c)
        PROVE  c \in reader.seen \/ OnPage(c)'
    <3>1. CASE reader.cursor # 0
      BY <1>0, <2>3, <3>1 DEF Covered
    <3>2. CASE reader.cursor = 0
      <4>1. c \in IdsOf(Eligible)
        BY <1>0, <1>2, <2>3 DEF Represented
      <4>2. PICK e \in reader.live : e.id = c
        BY <2>3 DEF IsLive
      <4>3. IsOf(e)
        BY <1>0 DEF LiveInv
      <4>4. e \in LiveRuns
        BY <2>3, <4>2, <4>3, RunsOfTheirOwn DEF LiveRuns
      <4>5. c \in IdsOf(LiveRuns)
        BY <4>2, <4>4 DEF IdsOf
      <4>. QED BY <1>3, <1>7, <2>3, <3>2, <4>1, <4>5
    <3>. QED BY <3>1, <3>2
  <2>4. LiveRuns' = LiveRuns /\ \A c : IsLive(c)' <=> IsLive(c)
    BY <1>1 DEF LiveRuns, IsLive
  <2>5. \A c, d : Later(c, d)' <=> Later(c, d)
    BY <1>1 DEF Later
  <2>. QED BY <1>1, <1>5, <2>1, <2>2, <2>3, <2>4, <2>5 DEF Covered, Represented
<1>11. OverviewTellsTheTruth'
  BY <1>1 DEF OverviewTellsTheTruth, SteadyRunsAreToldRight, SteadyRunsAreNotLost
<1>. QED BY <1>8, <1>9, <1>10, <1>11

-----------------------------------------------------------------------------
(* What the orchestrator adds.                                             *)

\* What settling changes: the outcome and the iteration (settle).
LEMMA SettledFields ==
  ASSUME NEW e, NEW known
  PROVE  LET s == settle(e, known)
         IN /\ s.id = e.id /\ s.start = e.start /\ s.class = e.class /\ s.parent = e.parent /\ s.schedule = e.schedule
            /\ s.outcome = (IF e.id \in DOMAIN known THEN known[e.id].outcome ELSE "failed")
            /\ s.run = IF e.id \in DOMAIN known THEN known[e.id].run ELSE e.run
<1>1. CASE e.id \in DOMAIN known
  BY <1>1 DEF settle
<1>2. CASE e.id \notin DOMAIN known
  BY <1>2 DEF settle
<1>. QED BY <1>1, <1>2

\* What the orchestrator answers of a chain, if it knows it.
LEMMA KnownFields ==
  ASSUME NEW c \in Chains
  PROVE  /\ c \in DOMAIN Executions <=> exec[c] \notin {"none", "gone"}
         /\ exec[c] \notin {"none", "gone"} => Executions[c].outcome = exec[c] /\ Executions[c].run = Len(starts[c])
<1>. DEFINE told == [Iteration(c, Len(starts[c]), exec[c], FALSE, Unsaid) EXCEPT !.tokens = 0]
<1>1. DOMAIN Executions = {d \in Chains : exec[d] \notin {"none", "gone"}}
  BY DEF Executions
<1>2. told.outcome = exec[c] /\ told.run = Len(starts[c])
  BY DEF Iteration
<1>3. exec[c] \notin {"none", "gone"} => Executions[c] = told
  BY DEF Executions
<1>. HIDE DEF told
<1>. QED BY <1>1, <1>2, <1>3

\* A steady chain's row that says it runs, and that no listing shows: it is the
\* row of its latest iteration.
LEMMA LastRowRuns ==
  ASSUME WorldInv, NEW c \in Chains, InSync(c), listed[c] = 0, Old(c), exec[c] # "none",
         rows[c][Len(rows[c])].outcome = "running"
  PROVE  Recorded(c) /\ Len(rows[c]) = Len(starts[c]) /\ exec[c] # "succeeded"
<1>0. WorldTypes /\ Lived(c)
  BY DEF WorldInv
<1>1. Len(rows[c]) = Len(starts[c])
  BY DEF InSync
<1>2. Recorded(c)
  BY <1>1 DEF Recorded, Old, Last
<1>3. exec[c] # "succeeded"
  BY <1>0 DEF Lived, Last
<1>. QED BY <1>1, <1>2, <1>3

\* Rows that say they run and that no listing shows: these are asked about.
Stale == {r \in Latests : Running(r) /\ r.id \notin IdsOf(reader.live)}

\* The execution is told of as it is.
Counts(e) ==
  /\ e.run = Len(starts[e.id]) /\ e.outcome = Now(e.id)
  /\ exec[e.id] = "running" \/ Recorded(e.id)
  /\ rows[e.id] = <<>> => e = ListedAs(e.id, 1)

\* With the answers of the orchestrator, the live executions are each told of
\* once, a steady one as it is, and every row that runs has one
\* (addExecutionStates).
LEMMA ToldLiveIsRight ==
  ASSUME OverviewInv, reader.step = "states"
  PROVE  /\ \A e \in ToldLive : IsOf(e) /\ Dated(e)
         /\ \A e, f \in ToldLive : e.id = f.id => e = f
         /\ \A e \in ToldLive : e.id \in steady => Counts(e)
         /\ reader.live \subseteq ToldLive
         /\ \A e \in ToldLive : e \in reader.live \/ e.id \in PageIds
         /\ \A r \in Latests : Running(r) => r.id \in IdsOf(ToldLive)
<1>0. WorldInv /\ Quiet /\ Settled /\ LiveInv /\ PageInv /\ steady \subseteq Chains
  BY DEF OverviewInv, Quiet
<1>1. ToldLive = reader.live \cup {settle(e, Executions) : e \in Stale}
  BY DEF ToldLive, addExecutionStates, Stale
<1>2. ASSUME NEW r \in Latests
      PROVE  \E chain \in reader.page : chain.latest = r /\ IsOf(r) /\ Dated(r) /\ r.id \in PageIds
               /\ (r.id \in steady => Old(r.id) /\ chain = RecordedChain(r.id))
  <2>1. PICK chain \in reader.page : chain.latest = r
    BY DEF Latests
  <2>2. IsOf(r) /\ Len(starts[r.id]) > 0 /\ r.start = starts[r.id][1] /\ r.id \in PageIds
        /\ (r.id \in steady => Old(r.id) /\ chain = RecordedChain(r.id))
    BY <1>0, <2>1 DEF PageInv, PageIds
  <2>3. r.id \in Chains
    BY <2>2 DEF IsOf
  <2>4. 1 \in 1..Len(starts[r.id])
    <3>1. Len(starts[r.id]) \in Nat
      BY <1>0, <2>3, LenProperties DEF WorldInv, WorldTypes
    <3>. QED BY <2>2, <3>1
  <2>. QED BY <2>1, <2>2, <2>3, <2>4 DEF Dated
<1>3. \A a, b \in Latests : a.id = b.id => a = b
  BY <1>0 DEF PageInv, Latests
<1>4. ASSUME NEW r \in Stale
      PROVE  LET e == settle(r, Executions)
             IN IsOf(e) /\ Dated(e) /\ e.id = r.id /\ r.id \in PageIds /\ r.id \notin IdsOf(reader.live)
                /\ (e.id \in steady => Counts(e))
  <2>. DEFINE e == settle(r, Executions)
  <2>1. r \in Latests /\ Running(r) /\ r.id \notin IdsOf(reader.live)
    BY DEF Stale
  <2>2. PICK chain \in reader.page : chain.latest = r /\ IsOf(r) /\ Dated(r) /\ r.id \in PageIds
               /\ (r.id \in steady => Old(r.id) /\ chain = RecordedChain(r.id))
    BY <1>2, <2>1
  <2>3. /\ e.id = r.id /\ e.start = r.start /\ e.class = r.class /\ e.parent = r.parent /\ e.schedule = r.schedule
        /\ e.outcome = (IF r.id \in DOMAIN Executions THEN Executions[r.id].outcome ELSE "failed")
        /\ e.run = IF r.id \in DOMAIN Executions THEN Executions[r.id].run ELSE r.run
    BY SettledFields
  <2>. HIDE DEF e
  <2>4. IsOf(e) /\ Dated(e)
    <3>1. e.run \in Nat
      <4>1. r.id \in Chains /\ r.run \in Nat
        BY <2>2 DEF IsOf
      <4>2. Len(starts[r.id]) \in Nat
        BY <1>0, <4>1, LenProperties DEF WorldInv, WorldTypes
      <4>. QED BY <2>3, <4>1, <4>2, KnownFields
    <3>. QED BY <2>2, <2>3, <3>1 DEF IsOf, Dated
  <2>5. ASSUME r.id \in steady PROVE Counts(e)
    <3>. DEFINE c == r.id
    <3>1. c \in Chains /\ Old(c) /\ r = Latest(c, 1) /\ exec[c] # "none" /\ InSync(c) /\ listed[c] = 0
      <4>1. c \in Chains /\ exec[c] # "none" /\ InSync(c)
        BY <1>0, <2>5 DEF Settled, OverviewInv
      <4>2. listed[c] # 0 => IsLive(c)
        BY <1>0, <2>5 DEF LiveInv
      <4>3. ~IsLive(c)
        BY <2>1 DEF IsLive, IdsOf
      <4>4. r = Latest(c, 1)
        BY <2>2, <2>5 DEF RecordedChain, Collapsed
      <4>. QED BY <2>2, <2>5, <4>1, <4>2, <4>3, <4>4
    <3>2. rows[c][Len(rows[c])].outcome = "running" /\ r.run = Len(rows[c])
      <4>1. r.outcome = rows[c][Len(rows[c])].outcome /\ r.run = Len(rows[c])
        BY <3>1, LatestFields
      <4>. QED BY <2>1, <4>1 DEF Running
    <3>3. Recorded(c) /\ Len(rows[c]) = Len(starts[c]) /\ exec[c] # "succeeded"
      BY <1>0, <3>1, <3>2, LastRowRuns
    <3>4. exec[c] \in {"running", "failed", "gone"}
      BY <1>0, <3>1, <3>3 DEF WorldInv, WorldTypes
    <3>5. e.run = Len(starts[c]) /\ e.outcome = Now(c)
      <4>1. /\ c \in DOMAIN Executions <=> exec[c] \notin {"none", "gone"}
            /\ exec[c] \notin {"none", "gone"} => Executions[c].outcome = exec[c] /\ Executions[c].run = Len(starts[c])
        BY <3>1, KnownFields
      <4>. QED BY <2>3, <3>2, <3>3, <3>4, <4>1 DEF Now
    <3>6. e.id = c /\ rows[c] # <<>>
      BY <2>3, <3>1 DEF Old
    <3>. HIDE DEF c
    <3>. QED BY <3>3, <3>5, <3>6 DEF Counts
  <2>. QED BY <2>1, <2>2, <2>3, <2>4, <2>5 DEF e
<1>5. \A e \in reader.live : IsOf(e) /\ Dated(e) /\ e.id \in IdsOf(reader.live) /\ (e.id \in steady => Counts(e))
  BY <1>0 DEF LiveInv, Counts, IdsOf
<1>6. \A e, f \in reader.live : e.id = f.id => e = f
  BY <1>0 DEF LiveInv
<1>7. \A a, b \in Stale : a.id = b.id => a = b
  BY <1>3 DEF Stale
<1>8. \A e \in ToldLive : e \in reader.live \/ \E r \in Stale : e = settle(r, Executions)
  BY <1>1
<1>9. \A e, f \in ToldLive : e.id = f.id => e = f
  BY <1>4, <1>5, <1>6, <1>7, <1>8
<1>10. ASSUME NEW r \in Latests, Running(r) PROVE r.id \in IdsOf(ToldLive)
  <2>1. CASE r.id \in IdsOf(reader.live)
    BY <1>1, <2>1 DEF IdsOf
  <2>2. CASE r.id \notin IdsOf(reader.live)
    <3>1. r \in Stale
      BY <1>10, <2>2 DEF Stale
    <3>2. settle(r, Executions) \in ToldLive /\ settle(r, Executions).id = r.id
      BY <1>1, <1>4, <3>1
    <3>. QED BY <3>2 DEF IdsOf
  <2>. QED BY <2>1, <2>2
<1>. QED BY <1>1, <1>4, <1>5, <1>8, <1>9, <1>10

-----------------------------------------------------------------------------
(* What a page resolves to.                                                *)

\* A live execution without rows is a chain of its own.
Wrap(e) == [iterations |-> 1, latest |-> e, start |-> e.start, tokens |-> e.tokens]

\* A chain under what is known of it now.
CurrentOf(chain) ==
  IF chain.latest.id \in IdsOf(Bounded)
    THEN Overlay(chain, CHOOSE e \in Bounded : e.id = chain.latest.id)
  ELSE IF Running(chain.latest) THEN [chain EXCEPT !.latest = settle(@, Executions)]
  ELSE chain

\* The live runs that no row of the page tells of.
Unlisted == {e \in Bounded : e.id \in Kept /\ e.id \notin PageIds}

\* What is kept are the runs that no schedule represents.
LEMMA KeptAreOwn ==
  ASSUME OverviewInv, reader.step = "states"
  PROVE  /\ \A c : c \in Kept <=> c \notin Fired /\ (c \in IdsOf(ToldLive) \/ c \in PageIds)
         /\ PageIds \subseteq Kept
         /\ \A e \in ToldLive : isRunSatellite(e) <=> e.id \in Kept
<1>0. PageInv
  BY DEF OverviewInv
<1>1. \A e \in ToldLive : IsOf(e)
  BY ToldLiveIsRight
<1>2. \A e \in Latests : IsOf(e) /\ e.id \notin Fired /\ e.id \in PageIds
  BY <1>0 DEF PageInv, Latests, PageIds
<1>3. \A e \in ToldLive \cup Latests : isRunSatellite(e) <=> e.id \notin Fired
  BY <1>1, <1>2, RunsOfTheirOwn
<1>4. \A c : c \in PageIds <=> \E e \in Latests : e.id = c
  BY DEF PageIds, Latests
<1>5. \A c : c \in Kept <=> \E e \in ToldLive \cup Latests : isRunSatellite(e) /\ e.id = c
  BY DEF Kept, Satellites
<1>6. \A c : c \in IdsOf(ToldLive) <=> \E e \in ToldLive : e.id = c
  BY DEF IdsOf
<1>7. \A c : c \in Kept <=> c \notin Fired /\ (c \in IdsOf(ToldLive) \/ c \in PageIds)
  BY <1>3, <1>4, <1>5, <1>6
<1>8. PageIds \subseteq Kept
  BY <1>2, <1>4, <1>7
<1>9. \A e \in ToldLive : isRunSatellite(e) <=> e.id \in Kept
  BY <1>3, <1>6, <1>7
<1>. QED BY <1>7, <1>8, <1>9

\* The page resolves to its chains and the unlisted ones, as they are now.
LEMMA ResolvedAre ==
  ASSUME OverviewInv, reader.step = "states"
  PROVE  Resolved = {CurrentOf(c) : c \in reader.page \cup {Wrap(e) : e \in Unlisted}}
<1>1. {c \in reader.page : c.latest.id \in Kept} = reader.page
  BY KeptAreOwn DEF PageIds
<1>2. {e \in Bounded : e.id \in Kept /\ \A c \in reader.page : c.latest.id # e.id} = Unlisted
  BY DEF Unlisted, PageIds
<1>. QED BY <1>1, <1>2 DEF Resolved, resolveExecutionChains, CurrentOf, Wrap

\* What a live execution changes of a chain: its outcome, its iteration and how
\* many there are.
LEMMA OverlayFields ==
  ASSUME NEW chain, NEW e
  PROVE  LET o == Overlay(chain, e)
         IN /\ o.start = chain.start /\ o.tokens = chain.tokens
            /\ o.iterations = (IF e.run # chain.latest.run THEN chain.iterations + 1 ELSE chain.iterations)
            /\ o.latest.id = chain.latest.id /\ o.latest.outcome = e.outcome /\ o.latest.label = chain.latest.label
            /\ o.latest.waiting = chain.latest.waiting /\ o.latest.place = chain.latest.place
<1>. DEFINE o == Overlay(chain, e)
<1>1. /\ o.start = chain.start /\ o.tokens = chain.tokens
      /\ o.iterations = (IF e.run # chain.latest.run THEN chain.iterations + 1 ELSE chain.iterations)
      /\ o.latest = [chain.latest EXCEPT !.outcome = e.outcome, !.run = e.run]
  BY DEF Overlay
<1>2. LET l == [chain.latest EXCEPT !.outcome = e.outcome, !.run = e.run]
      IN /\ l.id = chain.latest.id /\ l.outcome = e.outcome /\ l.label = chain.latest.label
         /\ l.waiting = chain.latest.waiting /\ l.place = chain.latest.place
  OBVIOUS
<1>. HIDE DEF o
<1>3. /\ o.latest.id = chain.latest.id /\ o.latest.outcome = e.outcome /\ o.latest.label = chain.latest.label
      /\ o.latest.waiting = chain.latest.waiting /\ o.latest.place = chain.latest.place
  BY <1>1, <1>2
<1>. QED BY <1>1, <1>3 DEF o

\* A chain stays who it is and began when it did.
LEMMA CurrentFields ==
  ASSUME NEW chain
  PROVE  CurrentOf(chain).latest.id = chain.latest.id /\ CurrentOf(chain).start = chain.start
<1>1. \A e : Overlay(chain, e).latest.id = chain.latest.id /\ Overlay(chain, e).start = chain.start
  BY OverlayFields
<1>2. [chain EXCEPT !.latest = settle(@, Executions)].latest.id = chain.latest.id
      /\ [chain EXCEPT !.latest = settle(@, Executions)].start = chain.start
  BY SettledFields
<1>. QED BY <1>1, <1>2 DEF CurrentOf

\* Which live executions count.
LEMMA BoundedAre ==
  ASSUME OverviewInv, reader.step = "states"
  PROVE  /\ Bounded \subseteq ToldLive
         /\ \A e \in ToldLive : e.id \in PageIds => e \in Bounded
         /\ ~Crowds => \A e \in ToldLive : e.id \in Kept => e \in Bounded
         /\ LiveRuns \subseteq {e \in ToldLive : isRunSatellite(e)}
         /\ ~Crowds => Cardinality(LiveRuns) <= Limit
<1>. DEFINE own == {e \in ToldLive : e.id \in Kept}
            order == {p \in ToldLive \X ToldLive : newer(p[1], p[2])}
            front == Foremost(own, Limit, order)
<1>0. WorldInv /\ Limit \in Nat
  BY CollectionAssumption DEF OverviewInv
<1>1. Bounded = {e \in ToldLive : e.id \in PageIds} \cup front
  BY DEF Bounded, boundedLiveCandidates
<1>2. front \subseteq own
  BY DEF Foremost
<1>3. own = {e \in ToldLive : isRunSatellite(e)}
  BY KeptAreOwn
<1>4. /\ \A e \in own : Dated(e) /\ e.id \in Chains
      /\ \A e, f \in own : e.id = f.id => e = f
  BY ToldLiveIsRight DEF Dated
<1>5. IsFiniteSet(own) /\ Cardinality(own) \in Nat
  <2>. HIDE DEF own
  <2>. QED BY <1>4, IdsAreMany
<1>6. ASSUME ~Crowds PROVE Cardinality(own) <= Limit
  <2>1. ~(Cardinality(own) > Limit)
    BY <1>3, <1>6 DEF Crowds
  <2>. HIDE DEF own
  <2>. QED BY <1>0, <1>5, <2>1
<1>7. ASSUME ~Crowds PROVE front = own
  <2>. DEFINE key == [r \in own |-> r.start]
  <2>1. \A x, y \in own : <<y, x>> \in order <=>
          (y.start > x.start \/ (y.start = x.start /\ x # y /\ <<y, x>> \in order))
    <3>1. ASSUME NEW x \in own, NEW y \in own PROVE <<y, x>> \in order <=> newer(y, x)
      OBVIOUS
    <3>2. \A x \in own : ~(x.run > x.run)
      <4>1. \A x \in own : x.run \in Nat
        BY ToldLiveIsRight DEF IsOf
      <4>. QED BY <4>1
    <3>. HIDE DEF order, own
    <3>. QED BY <3>1, <3>2 DEF newer
  <2>. HIDE DEF order, own
  <2>2. ByKey(own, key, Clock, order)
    BY <1>0, <1>4, <2>1, DatesDiffer
  <2>3. Clock \in Nat
    BY ClockIsANumber
  <2>. HIDE DEF key
  <2>. QED BY <1>0, <1>6, <1>7, <2>2, <2>3, ForemostAreFirst
<1>8. LiveRuns \subseteq own
  BY <1>3, ToldLiveIsRight DEF LiveRuns
<1>9. ASSUME ~Crowds PROVE Cardinality(LiveRuns) <= Limit
  <2>1. Cardinality(LiveRuns) <= Cardinality(own) /\ Cardinality(LiveRuns) \in Nat
    <3>. HIDE DEF own
    <3>. QED BY <1>5, <1>8, FS_Subset, FS_CardinalityType
  <2>. HIDE DEF own
  <2>. QED BY <1>0, <1>5, <1>6, <1>9, <2>1
<1>10. Bounded \subseteq ToldLive /\ \A e \in ToldLive : e.id \in PageIds => e \in Bounded
  BY <1>1, <1>2
<1>11. ~Crowds => \A e \in ToldLive : e.id \in Kept => e \in Bounded
  BY <1>1, <1>7
<1>. HIDE DEF front, order
<1>. QED BY <1>3, <1>8, <1>9, <1>10, <1>11

-----------------------------------------------------------------------------
(* A steady chain resolves to the truth.                                   *)

\* A run as it is published, and the status that is true of it.
Shown(id, goesOn, label, status, start, iterations, tokens, place) ==
  [id |-> id, running |-> goesOn, label |-> label, status |-> status, start |-> start,
   iterations |-> iterations, tokens |-> tokens, place |-> place]

TrueStatus(c) ==
  IF exec[c] = "running"
    THEN IF Recorded(c) /\ Last(rows[c]).waiting THEN "waiting-input" ELSE "in-progress"
  ELSE IF exec[c] = "succeeded" \/ (rows[c] # <<>> /\ Last(rows[c]).outcome = "succeeded")
    THEN "done" ELSE "failed"

\* What is true of a chain with rows.
LEMMA TruthOfOld ==
  ASSUME WorldInv, NEW c \in Chains, Old(c)
  PROVE  Truth(c) = Shown(c, exec[c] = "running", Unsaid, TrueStatus(c), starts[c][1], Len(starts[c]),
                          Cardinality(Concluded(c, 1)), "tree")
<1>. DEFINE k == Len(rows[c])
            placed == {i \in 1..k : rows[c][i].place # Unsaid}
            last == rows[c][CHOOSE i \in placed : \A j \in placed : j <= i].place
<1>0. Lived(c) /\ k \in Nat \ {0}
  <2>1. rows[c] \in Seq(RowTypes)
    BY DEF WorldInv, WorldTypes
  <2>. QED BY <2>1, LenProperties, EmptySeq DEF Old, WorldInv
<1>1. placed = {1}
  BY <1>0, UnsaidIsNothing DEF Lived
<1>2. rows[c][1].place = "tree"
  BY <1>0 DEF Lived
<1>3. last = "tree" /\ placed # {}
  <2>. HIDE DEF placed
  <2>1. (CHOOSE i \in placed : \A j \in placed : j <= i) = 1
    BY <1>1
  <2>. QED BY <1>1, <1>2, <2>1
<1>4. Truth(c) = Shown(c, exec[c] = "running", Unsaid, TrueStatus(c), starts[c][1], Len(starts[c]),
                       Cardinality(Concluded(c, 1)), IF placed = {} THEN Unsaid ELSE last)
  BY DEF Truth, Shown, TrueStatus, Concluded
<1>. HIDE DEF placed, last
<1>. QED BY <1>3, <1>4

\* What is true of one that has begun and has none.
LEMMA TruthOfNew ==
  ASSUME WorldInv, NEW c \in Chains, ~Old(c), exec[c] = "running", Len(starts[c]) = 1
  PROVE  Truth(c) = Shown(c, TRUE, Unsaid, "in-progress", starts[c][1], 1, 0, Unsaid)
<1>1. rows[c] = <<>> /\ Len(rows[c]) = 0 /\ ~Recorded(c)
  BY DEF Old, Recorded
<1>2. {i \in 1..Len(rows[c]) : rows[c][i].place # Unsaid} = {}
      /\ {i \in 1..Len(rows[c]) : rows[c][i].outcome # "running"} = {}
  BY <1>1
<1>3. Cardinality({}) = 0
  BY FS_EmptySet
<1>. QED BY <1>1, <1>2, <1>3 DEF Truth, Shown

\* A chain is published as its latest row says.
LEMMA ShownFrom ==
  ASSUME NEW chain
  PROVE  runFrom(chain) = Shown(chain.latest.id, Running(chain.latest), chain.latest.label, Status(chain.latest),
                                chain.start, chain.iterations, chain.tokens, chain.latest.place)
BY DEF runFrom, Shown

\* A chain with rows that count, under what the orchestrator counts.
LEMMA ListedTruth ==
  ASSUME OverviewInv, reader.step = "states", NEW chain \in reader.page, chain.latest.id \in steady
  PROVE  runFrom(CurrentOf(chain)) = Truth(chain.latest.id)
<1>. DEFINE c == chain.latest.id
            k == Len(rows[c])
            cur == CurrentOf(chain)
<1>0. /\ WorldInv /\ Quiet /\ Settled /\ LiveInv /\ PageInv /\ c \in Chains /\ c \in PageIds /\ Lived(c)
  <2>1. WorldInv /\ Quiet /\ Settled /\ LiveInv /\ PageInv /\ c \in Chains
    BY DEF OverviewInv, Quiet
  <2>. QED BY <2>1 DEF PageIds, WorldInv
<1>1. Old(c) /\ chain = Collapsed(c, 1) /\ InSync(c) /\ exec[c] # "none" /\ (listed[c] # 0 => IsLive(c))
  <2>1. Old(c) /\ chain = Collapsed(c, 1)
    BY <1>0 DEF PageInv, RecordedChain
  <2>2. InSync(c) /\ exec[c] # "none" /\ (listed[c] # 0 => IsLive(c))
    BY <1>0 DEF Settled, LiveInv
  <2>. QED BY <2>1, <2>2
<1>2. k \in Nat \ {0} /\ Len(starts[c]) \in {k, k + 1} /\ rows[c][k] \in RowTypes
  <2>1. rows[c] \in Seq(RowTypes) /\ Len(starts[c]) \in Nat
    BY <1>0, LenProperties DEF WorldInv, WorldTypes
  <2>2. k \in Nat \ {0}
    BY <1>1, <2>1, LenProperties, EmptySeq DEF Old
  <2>3. rows[c][k] \in RowTypes
    BY <2>1, <2>2, ElementOfSeq
  <2>. QED BY <1>0, <2>1, <2>2, <2>3 DEF Lived
<1>3. /\ chain.iterations = k /\ chain.tokens = Cardinality(Concluded(c, 1)) /\ chain.start = starts[c][1]
      /\ chain.latest = Latest(c, 1)
  BY <1>1, <1>2 DEF Collapsed
<1>4. LET l == Latest(c, 1)
      IN l.run = k /\ l.outcome = rows[c][k].outcome /\ l.waiting = rows[c][k].waiting /\ l.label = Unsaid /\ l.place = "tree"
  BY LatestFields
<1>5. Truth(c) = Shown(c, exec[c] = "running", Unsaid, TrueStatus(c), starts[c][1], Len(starts[c]),
                       Cardinality(Concluded(c, 1)), "tree")
  BY <1>0, <1>1, TruthOfOld
<1>6. /\ rows[c][k].outcome # "running" => rows[c][k].waiting = FALSE
      /\ k < Len(starts[c]) => rows[c][k].outcome # "running"
      /\ exec[c] = "succeeded" => rows[c][k].outcome = "succeeded"
      /\ Recorded(c) <=> k = Len(starts[c]) /\ rows[c][k].outcome = "running"
      /\ Last(rows[c]) = rows[c][k] /\ rows[c] # <<>>
  BY <1>0, <1>1, <1>2 DEF Lived, Recorded, Last, Old
<1>. HIDE DEF c, k
<1>7. ASSUME c \in IdsOf(Bounded) PROVE runFrom(cur) = Truth(c)
  <2>. DEFINE e == CHOOSE x \in Bounded : x.id = c
  <2>1. e \in Bounded /\ e.id = c
    BY <1>7 DEF IdsOf
  <2>2. cur = Overlay(chain, e)
    BY <1>7 DEF CurrentOf, c
  <2>. HIDE DEF e, cur
  <2>3. e.run = Len(starts[c]) /\ e.outcome = Now(c) /\ (exec[c] = "running" \/ Recorded(c))
    <3>1. e \in ToldLive /\ e.id \in steady
      BY <2>1, BoundedAre DEF c
    <3>2. Counts(e)
      BY <3>1, ToldLiveIsRight
    <3>. QED BY <2>1, <3>2 DEF Counts
  <2>4. /\ cur.start = starts[c][1] /\ cur.tokens = Cardinality(Concluded(c, 1)) /\ cur.iterations = Len(starts[c])
        /\ cur.latest.id = c /\ cur.latest.outcome = Now(c) /\ cur.latest.label = Unsaid
        /\ cur.latest.waiting = rows[c][k].waiting /\ cur.latest.place = "tree"
    <3>1. LET o == Overlay(chain, e)
          IN /\ o.start = chain.start /\ o.tokens = chain.tokens
             /\ o.iterations = (IF e.run # chain.latest.run THEN chain.iterations + 1 ELSE chain.iterations)
             /\ o.latest.id = chain.latest.id /\ o.latest.outcome = e.outcome /\ o.latest.label = chain.latest.label
             /\ o.latest.waiting = chain.latest.waiting /\ o.latest.place = chain.latest.place
      BY OverlayFields
    <3>2. chain.latest.id = c
      BY DEF c
    <3>. QED BY <1>2, <1>3, <1>4, <2>2, <2>3, <3>1, <3>2
  <2>5. CASE exec[c] = "running"
    <3>1. Running(cur.latest) = TRUE
      BY <2>4, <2>5 DEF Running, Now
    <3>2. Status(cur.latest) = TrueStatus(c)
      <4>1. Status(cur.latest) = IF rows[c][k].waiting THEN "waiting-input" ELSE "in-progress"
        BY <2>4, <2>5, <3>1 DEF Status, WorkStatus, Now
      <4>2. TrueStatus(c) = IF Recorded(c) /\ rows[c][k].waiting THEN "waiting-input" ELSE "in-progress"
        BY <1>6, <2>5 DEF TrueStatus
      <4>3. rows[c][k].waiting => Recorded(c)
        BY <1>2, <1>6
      <4>. QED BY <4>1, <4>2, <4>3
    <3>. QED BY <1>5, <2>4, <2>5, <3>1, <3>2, ShownFrom
  <2>6. CASE exec[c] # "running"
    <3>1. Recorded(c) /\ rows[c][k].outcome = "running" /\ exec[c] # "succeeded" /\ Now(c) = "failed"
      BY <1>6, <2>3, <2>6 DEF Now
    <3>2. Running(cur.latest) = FALSE
      BY <2>4, <3>1 DEF Running
    <3>3. Status(cur.latest) = "failed" /\ TrueStatus(c) = "failed"
      BY <1>6, <2>4, <2>6, <3>1, <3>2 DEF Status, WorkStatus, TrueStatus
    <3>. QED BY <1>5, <2>4, <2>6, <3>2, <3>3, ShownFrom
  <2>. QED BY <2>5, <2>6
<1>8. ASSUME c \notin IdsOf(Bounded) PROVE runFrom(cur) = Truth(c)
  <2>1. c \notin IdsOf(ToldLive)
    BY <1>0, <1>8, BoundedAre DEF IdsOf
  <2>2. ~Running(chain.latest)
    <3>1. chain.latest \in Latests /\ chain.latest.id = c
      BY DEF Latests, c
    <3>. QED BY <2>1, <3>1, ToldLiveIsRight
  <2>3. cur = chain
    BY <1>8, <2>2 DEF CurrentOf, c
  <2>4. listed[c] = 0
    <3>1. ~IsLive(c)
      BY <2>1, ToldLiveIsRight DEF IsLive, IdsOf
    <3>. QED BY <1>1, <3>1
  <2>5. /\ rows[c][k].outcome # "running" /\ exec[c] # "running" /\ k = Len(starts[c])
    <3>1. rows[c][k].outcome # "running"
      BY <1>3, <1>4, <2>2 DEF Running
    <3>2. exec[c] # "running" /\ Len(rows[c]) = Len(starts[c])
      BY <1>1, <1>6, <2>4, <3>1 DEF InSync
    <3>. QED BY <3>1, <3>2 DEF k
  <2>6. Running(cur.latest) = FALSE /\ Status(cur.latest) = TrueStatus(c)
    <3>1. rows[c][k].outcome \in {"succeeded", "failed"}
      BY <1>2, <2>5 DEF RowTypes
    <3>2. cur.latest.outcome = rows[c][k].outcome
      BY <1>3, <1>4, <2>3
    <3>. HIDE DEF cur
    <3>. QED BY <1>6, <2>5, <3>1, <3>2 DEF Running, Status, WorkStatus, TrueStatus
  <2>7. chain.latest.id = c
    BY DEF c
  <2>. HIDE DEF cur
  <2>. QED BY <1>3, <1>4, <1>5, <2>3, <2>5, <2>6, <2>7, ShownFrom
<1>. QED BY <1>7, <1>8 DEF c

\* One that has none yet, as the listing tells of it.
LEMMA UnlistedTruth ==
  ASSUME OverviewInv, reader.step = "states", NEW e \in Unlisted, e.id \in steady, ~Old(e.id)
  PROVE  runFrom(CurrentOf(Wrap(e))) = Truth(e.id)
<1>. DEFINE c == e.id
            chain == Wrap(e)
            cur == CurrentOf(chain)
<1>0. WorldInv /\ Quiet /\ c \in Chains
  BY DEF OverviewInv, Quiet
<1>1. e \in Bounded /\ e \in ToldLive /\ Counts(e)
  BY BoundedAre, ToldLiveIsRight DEF Unlisted
<1>2. e = ListedAs(c, 1) /\ exec[c] = "running" /\ Len(starts[c]) = 1
  <2>1. e = ListedAs(c, 1) /\ (exec[c] = "running" \/ Recorded(c)) /\ e.run = Len(starts[c])
    BY <1>1 DEF Counts, Old
  <2>2. ~Recorded(c)
    BY DEF Recorded, Old
  <2>3. ListedAs(c, 1).run = 1
    BY ListedFields
  <2>. HIDE DEF c
  <2>. QED BY <2>1, <2>2, <2>3
<1>3. (CHOOSE x \in Bounded : x.id = c) = e /\ c \in IdsOf(Bounded)
  <2>1. \A x \in Bounded : x.id = c => x = e
    BY <1>1, BoundedAre, ToldLiveIsRight
  <2>. QED BY <1>1, <2>1 DEF IdsOf
<1>4. chain.latest = e /\ chain.start = e.start /\ chain.iterations = 1 /\ chain.tokens = e.tokens
  BY DEF Wrap
<1>. HIDE DEF c, chain
<1>5. cur = Overlay(chain, e)
  BY <1>3, <1>4 DEF CurrentOf, c
<1>6. /\ e.id = c /\ e.start = starts[c][1] /\ e.outcome = "running" /\ e.tokens = 0 /\ e.label = Unsaid
      /\ e.place = Unsaid
  BY <1>2, ListedFields DEF c
<1>7. ~e.waiting
  <2>1. ~ListedAs(c, 1).waiting
    BY DEF ListedAs, Iteration
  <2>. QED BY <1>2, <2>1
<1>. HIDE DEF cur
<1>8. /\ cur.start = starts[c][1] /\ cur.tokens = 0 /\ cur.iterations = 1
      /\ cur.latest.id = c /\ cur.latest.outcome = "running" /\ cur.latest.label = Unsaid
      /\ cur.latest.waiting = e.waiting /\ cur.latest.place = Unsaid
  BY <1>4, <1>5, <1>6, OverlayFields
<1>9. Running(cur.latest) = TRUE /\ Status(cur.latest) = "in-progress"
  BY <1>7, <1>8 DEF Running, Status, WorkStatus
<1>10. Truth(c) = Shown(c, TRUE, Unsaid, "in-progress", starts[c][1], 1, 0, Unsaid)
  BY <1>0, <1>2, TruthOfNew DEF c
<1>. QED BY <1>8, <1>9, <1>10, ShownFrom DEF c, cur, chain

\* A page resolves to each of its runs once, a steady one to the truth, and to
\* every live run if they are no more than a page holds (resolveExecutionChains).
LEMMA ResolvedRuns ==
  ASSUME OverviewInv, reader.step = "states"
  PROVE  /\ \A u \in Resolved : Dated(runFrom(u)) /\ runFrom(u).id = u.latest.id /\ u.latest.id \notin Fired
         /\ \A u, v \in Resolved : u.latest.id = v.latest.id => u = v
         /\ ~reader.crowded /\ ~Crowds =>
              \A u \in Resolved : u.latest.id \in steady /\ u.latest.id \notin reader.seen =>
                runFrom(u) = Truth(u.latest.id)
         /\ \A c \in PageIds : \E u \in Resolved : u.latest.id = c
         /\ ~Crowds => \A e \in ToldLive : e.id \notin Fired => \E u \in Resolved : u.latest.id = e.id
<1>. DEFINE sources == reader.page \cup {Wrap(e) : e \in Unlisted}
<1>0. WorldInv /\ LiveInv /\ PageInv /\ Covered
  BY DEF OverviewInv
<1>1. Resolved = {CurrentOf(s) : s \in sources}
  BY ResolvedAre
<1>2. \A s : CurrentOf(s).latest.id = s.latest.id /\ CurrentOf(s).start = s.start
  BY CurrentFields
<1>3. \A e : Wrap(e).latest = e /\ Wrap(e).start = e.start
  BY DEF Wrap
<1>4. \A e \in Unlisted : e \in Bounded /\ e \in ToldLive /\ e.id \in Kept /\ e.id \notin PageIds /\ e.id \notin Fired /\ Dated(e)
  BY BoundedAre, ToldLiveIsRight, KeptAreOwn DEF Unlisted
<1>5. \A s \in reader.page : s.latest.id \in PageIds /\ s.latest.id \notin Fired /\ s.latest.id \in Chains
        /\ Len(starts[s.latest.id]) > 0 /\ s.start = starts[s.latest.id][1]
  BY <1>0 DEF PageInv, PageIds, IsOf
<1>6. \A s \in sources : s.latest.id \notin Fired /\ s.latest.id \in Chains
        /\ \E i \in 1..Len(starts[s.latest.id]) : s.start = starts[s.latest.id][i]
  <2>1. ASSUME NEW s \in reader.page PROVE \E i \in 1..Len(starts[s.latest.id]) : s.start = starts[s.latest.id][i]
    <3>1. Len(starts[s.latest.id]) \in Nat
      BY <1>0, <1>5, LenProperties DEF WorldInv, WorldTypes
    <3>2. 1 \in 1..Len(starts[s.latest.id])
      BY <1>5, <3>1
    <3>. QED BY <1>5, <3>2
  <2>2. ASSUME NEW e \in Unlisted PROVE /\ e.id \notin Fired /\ e.id \in Chains
          /\ \E i \in 1..Len(starts[e.id]) : e.start = starts[e.id][i]
    BY <1>4 DEF Dated
  <2>. QED BY <1>3, <1>5, <2>1, <2>2
<1>7. \A s, t \in sources : s.latest.id = t.latest.id => s = t
  <2>1. \A s, t \in reader.page : s.latest.id = t.latest.id => s = t
    BY <1>0 DEF PageInv
  <2>2. \A e, f \in Unlisted : e.id = f.id => e = f
    BY <1>4, ToldLiveIsRight
  <2>. QED BY <1>3, <1>4, <1>5, <2>1, <2>2
<1>8. \A u : runFrom(u).id = u.latest.id /\ runFrom(u).start = u.start
  BY DEF runFrom
<1>9. ASSUME NEW u \in Resolved PROVE Dated(runFrom(u)) /\ u.latest.id \notin Fired
  <2>1. PICK s \in sources : u = CurrentOf(s)
    BY <1>1
  <2>2. u.latest.id = s.latest.id /\ u.start = s.start
    BY <1>2, <2>1
  <2>. HIDE DEF sources
  <2>. QED BY <1>6, <1>8, <2>2 DEF Dated
<1>10. ASSUME NEW u \in Resolved, NEW v \in Resolved, u.latest.id = v.latest.id PROVE u = v
  <2>1. PICK s \in sources : u = CurrentOf(s)
    BY <1>1
  <2>2. PICK t \in sources : v = CurrentOf(t)
    BY <1>1
  <2>3. s.latest.id = t.latest.id
    BY <1>2, <1>10, <2>1, <2>2
  <2>. HIDE DEF sources
  <2>. QED BY <1>7, <2>1, <2>2, <2>3
<1>11. ASSUME ~reader.crowded, ~Crowds, NEW u \in Resolved, u.latest.id \in steady, u.latest.id \notin reader.seen
       PROVE  runFrom(u) = Truth(u.latest.id)
  <2>1. PICK s \in sources : u = CurrentOf(s)
    BY <1>1
  <2>2. u.latest.id = s.latest.id
    BY <1>2, <2>1
  <2>3. CASE s \in reader.page
    BY <1>11, <2>1, <2>2, <2>3, ListedTruth
  <2>4. CASE s \notin reader.page
    <3>1. PICK e \in Unlisted : s = Wrap(e)
      BY <2>4
    <3>2. e.id = u.latest.id /\ e.id \in steady /\ e.id \notin reader.seen
      BY <1>3, <1>11, <2>2, <3>1
    <3>3. ~Old(e.id)
      <4>1. e \in reader.live /\ ~OnPage(e.id)
        BY <1>4, ToldLiveIsRight DEF OnPage, PageIds
      <4>2. IsLive(e.id)
        BY <4>1 DEF IsLive
      <4>3. Cardinality(LiveRuns) <= Limit
        BY <1>11, BoundedAre
      <4>. QED BY <1>0, <1>4, <1>11, <3>2, <4>1, <4>2, <4>3 DEF Covered
    <3>. QED BY <2>1, <3>1, <3>2, <3>3, UnlistedTruth
  <2>. QED BY <2>3, <2>4
<1>12. ASSUME NEW c \in PageIds PROVE \E u \in Resolved : u.latest.id = c
  <2>1. PICK s \in reader.page : s.latest.id = c
    BY DEF PageIds
  <2>. QED BY <1>1, <1>2, <2>1
<1>13. ASSUME ~Crowds, NEW e \in ToldLive, e.id \notin Fired PROVE \E u \in Resolved : u.latest.id = e.id
  <2>1. CASE e.id \in PageIds
    BY <1>12, <2>1
  <2>2. CASE e.id \notin PageIds
    <3>1. e.id \in Kept
      BY <1>13, KeptAreOwn DEF IdsOf
    <3>2. e \in Unlisted
      BY <1>13, <2>2, <3>1, BoundedAre DEF Unlisted
    <3>3. CurrentOf(Wrap(e)) \in Resolved
      BY <1>1, <3>2
    <3>. QED BY <1>2, <1>3, <3>3
  <2>. QED BY <2>1, <2>2
<1>. HIDE DEF sources
<1>. QED BY <1>8, <1>9, <1>10, <1>11, <1>12, <1>13

\* What is visible after a page: each run once, a steady one as it is.
LEMMA NowItemsAreRight ==
  ASSUME OverviewInv, reader.step = "states"
  PROVE  /\ \A r \in NowItems : Dated(r) /\ r.id \in NowSeen /\ r.id \notin Fired
         /\ \A r, q \in NowItems : r.id = q.id => r = q
         /\ ~reader.crowded /\ ~Crowds => \A c \in steady :
              /\ \A r \in NowItems : r.id = c => r = Truth(c)
              /\ c \in NowSeen => Truth(c) \in NowItems \/ Dismissed(reader.hidden, Truth(c))
         /\ PageIds \subseteq NowSeen /\ reader.seen \subseteq NowSeen
         /\ ~Crowds => \A e \in ToldLive : e.id \notin Fired => e.id \in NowSeen
<1>0. ItemsInv
  BY DEF OverviewInv
<1>1. /\ \A r \in reader.items : Dated(r) /\ r.id \in reader.seen /\ r.id \notin Fired
      /\ \A r, q \in reader.items : r.id = q.id => r = q
      /\ ~reader.crowded => \A c \in steady :
           /\ \A r \in reader.items : r.id = c => r = Truth(c)
           /\ c \in reader.seen => Truth(c) \in reader.items \/ Dismissed(reader.hidden, Truth(c))
  BY <1>0 DEF ItemsInv
<1>2. \A r \in Visible : \E u \in Unseen : r = runFrom(u)
  BY DEF Visible
<1>3. \A u \in Unseen : u \in Resolved /\ u.latest.id \notin reader.seen /\ u.latest.id \in NowSeen
  BY DEF Unseen, NowSeen
<1>4. \A r \in Visible : Dated(r) /\ r.id \notin reader.seen /\ r.id \in NowSeen /\ r.id \notin Fired
  BY <1>2, <1>3, ResolvedRuns
<1>5. \A r, q \in Visible : r.id = q.id => r = q
  <2>1. \A u, v \in Unseen : u.latest.id = v.latest.id => u = v
    BY <1>3, ResolvedRuns
  <2>2. \A u \in Unseen : runFrom(u).id = u.latest.id
    BY <1>3, ResolvedRuns
  <2>. QED BY <1>2, <2>1, <2>2
<1>6. ASSUME ~reader.crowded, ~Crowds, NEW c \in steady
      PROVE  /\ \A r \in NowItems : r.id = c => r = Truth(c)
             /\ c \in NowSeen => Truth(c) \in NowItems \/ Dismissed(reader.hidden, Truth(c))
  <2>1. \A u \in Unseen : u.latest.id = c => runFrom(u) = Truth(c)
    BY <1>3, <1>6, ResolvedRuns
  <2>2. \A r \in Visible : r.id = c => r = Truth(c)
    <3>1. \A u \in Unseen : runFrom(u).id = u.latest.id
      BY <1>3, ResolvedRuns
    <3>. QED BY <1>2, <2>1, <3>1
  <2>3. ASSUME c \in NowSeen, c \notin reader.seen PROVE Truth(c) \in NowItems \/ Dismissed(reader.hidden, Truth(c))
    <3>1. PICK u \in Unseen : u.latest.id = c
      BY <2>3 DEF NowSeen
    <3>2. runFrom(u) = Truth(c)
      BY <2>1, <3>1
    <3>. QED BY <3>1, <3>2 DEF Visible, NowItems
  <2>. QED BY <1>1, <1>6, <2>2, <2>3 DEF NowItems
<1>7. \A u \in Resolved : u.latest.id \in NowSeen
  BY DEF NowSeen, Unseen
<1>8. PageIds \subseteq NowSeen
  BY <1>7, ResolvedRuns
<1>9. ~Crowds => \A e \in ToldLive : e.id \notin Fired => e.id \in NowSeen
  BY <1>7, ResolvedRuns
<1>10. \A r \in NowItems : Dated(r) /\ r.id \in NowSeen /\ r.id \notin Fired
  BY <1>1, <1>4 DEF NowItems, NowSeen
<1>11. \A r, q \in NowItems : r.id = q.id => r = q
  BY <1>1, <1>4, <1>5 DEF NowItems
<1>12. reader.seen \subseteq NowSeen
  BY DEF NowSeen
<1>. QED BY <1>6, <1>8, <1>9, <1>10, <1>11, <1>12

\* While more is read, what was learnt stays.
LEMMA ResolveGoesOn ==
  ASSUME OverviewInv, ResolvePage, ~Enough
  PROVE  Settled' /\ LiveInv' /\ PageInv' /\ ItemsInv' /\ Covered' /\ OverviewTellsTheTruth'
<1>0. /\ WorldInv /\ Quiet /\ Settled /\ LiveInv /\ PageInv /\ ItemsInv /\ Covered /\ reader.step = "states"
      /\ steady \subseteq Chains
  BY Resolving DEF OverviewInv, Quiet
<1>1. /\ UNCHANGED <<exec, listed, starts, rows, hidden, dismiss, steady>>
      /\ reader'.hidden = reader.hidden /\ (reader'.crowded <=> reader.crowded \/ Crowds)
      /\ reader'.step = "page" /\ reader'.live = ToldLive /\ reader'.seen = NowSeen
      /\ reader'.items = NowItems /\ reader'.cursor = reader.next /\ reader'.published = {}
  BY Resolving DEF world
<1>2. \A c : (Old(c)' <=> Old(c)) /\ Truth(c)' = Truth(c) /\ Still(c)
             /\ (Recorded(c)' <=> Recorded(c)) /\ (InSync(c)' <=> InSync(c)) /\ Now(c)' = Now(c)
             /\ ListedAs(c, 1)' = ListedAs(c, 1)
  <2>1. \A c : Still(c)
    BY <1>1 DEF Still
  <2>. QED BY <2>1, StillSays
<1>3. \A e : (IsOf(e)' <=> IsOf(e)) /\ (Dated(e)' <=> Dated(e))
  BY <1>1 DEF IsOf, Dated
<1>4. Settled'
  BY <1>0, <1>1, <1>2 DEF Settled
<1>5. \A c : IsLive(c)' <=> \E e \in ToldLive : e.id = c
  BY <1>1 DEF IsLive
<1>6. LiveInv'
  <2>1. \A e \in ToldLive : IsOf(e) /\ Dated(e)
    BY <1>0, ToldLiveIsRight
  <2>2. \A e, f \in ToldLive : e.id = f.id => e = f
    BY <1>0, ToldLiveIsRight
  <2>3. \A c \in steady : listed[c] # 0 => IsLive(c)'
    <3>1. \A c \in steady : listed[c] # 0 => IsLive(c)
      BY <1>0 DEF LiveInv
    <3>2. reader.live \subseteq ToldLive
      BY <1>0, ToldLiveIsRight
    <3>. QED BY <1>5, <3>1, <3>2 DEF IsLive
  <2>4. \A e \in ToldLive : e.id \in steady => Counts(e)
    BY <1>0, ToldLiveIsRight
  <2>5. \A e \in ToldLive : e.id \in steady =>
          /\ e.run = Len(starts[e.id]) /\ e.outcome = Now(e.id)
          /\ exec[e.id] = "running" \/ Recorded(e.id)
          /\ rows[e.id] = <<>> => e = ListedAs(e.id, 1)
    BY <2>4 DEF Counts
  <2>. QED BY <1>1, <1>2, <1>3, <2>1, <2>2, <2>3, <2>5 DEF LiveInv
<1>7. ItemsInv'
  <2>1. \A r \in NowItems : Dated(r) /\ r.id \in NowSeen /\ r.id \notin Fired
    BY <1>0, NowItemsAreRight
  <2>2. \A r, q \in NowItems : r.id = q.id => r = q
    BY <1>0, NowItemsAreRight
  <2>3. ~reader'.crowded => \A c \in steady :
          /\ \A r \in NowItems : r.id = c => r = Truth(c)
          /\ c \in NowSeen => Truth(c) \in NowItems \/ Dismissed(reader.hidden, Truth(c))
    BY <1>0, <1>1, NowItemsAreRight
  <2>. QED BY <1>1, <1>2, <1>3, <2>1, <2>2, <2>3 DEF ItemsInv, Dismissed
<1>8. Covered'
  <2>0. reader.next # 0
    BY DEF Enough
  <2>1. reader.next \in Represented /\ Old(reader.next)
    BY <1>0, <2>0 DEF Covered
  <2>2. ASSUME NEW c \in steady \ Fired, Old(c) PROVE c \in NowSeen \/ Later(reader.next, c)
    <3>1. \/ c \in reader.seen \/ OnPage(c)
          \/ Later(reader.next, c)
      BY <1>0, <2>2 DEF Covered
    <3>2. OnPage(c) => c \in PageIds
      BY DEF OnPage, PageIds
    <3>. QED BY <1>0, <3>1, <3>2, NowItemsAreRight
  <2>3. ASSUME ~reader'.crowded, NEW c \in steady \ Fired, IsLive(c)' PROVE c \in NowSeen
    <3>1. PICK e \in ToldLive : e.id = c
      BY <1>5, <2>3
    <3>. QED BY <1>0, <1>1, <2>3, <3>1, NowItemsAreRight
  <2>5. \A c, d : Later(c, d)' <=> Later(c, d)
    BY <1>1 DEF Later
  <2>. QED BY <1>1, <1>2, <2>1, <2>2, <2>3, <2>5 DEF Covered, Represented
<1>9. PageInv' /\ OverviewTellsTheTruth'
  BY <1>1 DEF PageInv, OverviewTellsTheTruth, SteadyRunsAreToldRight, SteadyRunsAreNotLost
<1>. QED BY <1>4, <1>6, <1>7, <1>8, <1>9

\* The newest items of a collection, when it has too many.
LEMMA NewestAreShown ==
  ASSUME WorldInv, NEW some, \A r \in some : Dated(r), \A r, q \in some : r.id = q.id => r = q
  PROVE  LET shown == NewestItems(some)
         IN /\ shown \subseteq some
            /\ \A x \in some \ shown : Cardinality(shown) = Limit /\ \A r \in shown : r.start > x.start
            /\ \A t \in Nat, T \in SUBSET some :
                 Cardinality(T) >= Limit /\ (\A y \in T : y.start > t) =>
                   Cardinality(shown) = Limit /\ \A r \in shown : r.start > t
<1>. DEFINE newestFirst == {p \in some \X some :
                              \/ p[1].start > p[2].start
                              \/ p[1].start = p[2].start /\ p[1].id < p[2].id}
            key == [r \in some |-> r.start]
            shown == Foremost(some, Limit, newestFirst)
<1>0. Limit \in Nat /\ Clock \in Nat /\ Timed /\ shown = NewestItems(some)
  BY CollectionAssumption, ClockIsANumber DEF WorldInv, NewestItems
<1>1. ASSUME NEW r \in some PROVE r.start \in Nat /\ r.id \in Nat
  <2>1. Dated(r)
    OBVIOUS
  <2>2. r.id \in Chains /\ \E i \in 1..Len(starts[r.id]) : r.start = starts[r.id][i]
    BY <2>1 DEF Dated
  <2>3. r.start \in 1..Clock
    BY <1>0, <2>2 DEF Timed
  <2>4. \A t \in 1..Clock : t \in Nat
    BY <1>0
  <2>. QED BY <2>2, <2>3, <2>4, CollectionAssumption
<1>2. ByKey(some, key, Clock, newestFirst) /\ IsFiniteSet(some)
  <2>1. \A x, y \in some : <<y, x>> \in newestFirst <=>
          (y.start > x.start \/ (y.start = x.start /\ x # y /\ <<y, x>> \in newestFirst))
    <3>1. ASSUME NEW x \in some, NEW y \in some
          PROVE  <<y, x>> \in newestFirst <=> y.start > x.start \/ (y.start = x.start /\ y.id < x.id)
      OBVIOUS
    <3>2. \A x \in some : ~(x.id < x.id)
      BY <1>1
    <3>. HIDE DEF newestFirst
    <3>. QED BY <3>1, <3>2
  <2>. HIDE DEF newestFirst
  <2>. QED BY <2>1, DatesDiffer
<1>. HIDE DEF newestFirst
<1>3. \A r \in some : key[r] = r.start
  OBVIOUS
<1>. HIDE DEF key
<1>4. /\ shown \subseteq some
      /\ Cardinality(some) <= Limit => shown = some
      /\ \A x \in shown, y \in some \ shown : key[x] > key[y]
      /\ \A x \in some, T \in SUBSET some :
           Cardinality(T) >= Limit /\ (\A y \in T : key[y] > key[x]) => x \notin shown
  BY <1>0, <1>2, ForemostAreFirst
<1>5. Limit <= Cardinality(some) => Cardinality(shown) = Limit
  BY <1>0, <1>2, ForemostAreMany
<1>6. Cardinality(some) \in Nat
  BY <1>2, FS_CardinalityType
<1>7. ASSUME NEW x \in some \ shown PROVE Cardinality(shown) = Limit /\ \A r \in shown : r.start > x.start
  <2>1. ~(Cardinality(some) <= Limit)
    BY <1>4
  <2>. HIDE DEF shown
  <2>. QED BY <1>0, <1>3, <1>4, <1>5, <1>6, <2>1
<1>8. ASSUME NEW t \in Nat, NEW T \in SUBSET some, Cardinality(T) >= Limit, \A y \in T : y.start > t
      PROVE  Cardinality(shown) = Limit /\ \A r \in shown : r.start > t
  <2>1. Cardinality(T) <= Cardinality(some) /\ Cardinality(T) \in Nat
    BY <1>2, FS_Subset, FS_CardinalityType
  <2>2. Limit <= Cardinality(some)
    BY <1>0, <1>6, <1>8, <2>1
  <2>3. ASSUME NEW r \in shown PROVE r.start > t
    <3>1. r \in some
      BY <1>4
    <3>2. CASE ~(r.start > t)
      <4>1. \A y \in T : y.start > r.start
        BY <1>1, <1>8, <3>1, <3>2
      <4>2. \A y \in T : key[y] > key[r]
        BY <1>3, <3>1, <4>1
      <4>. HIDE DEF shown
      <4>. QED BY <1>4, <1>8, <2>3, <3>1, <4>2
    <3>. QED BY <3>2
  <2>. HIDE DEF shown
  <2>. QED BY <1>5, <2>2, <2>3
<1>. HIDE DEF shown
<1>. QED BY <1>0, <1>4, <1>7, <1>8

\* What is published tells the truth.
LEMMA ResolvePublishes ==
  ASSUME OverviewInv, ResolvePage, Enough
  PROVE  Settled' /\ LiveInv' /\ PageInv' /\ ItemsInv' /\ Covered' /\ OverviewTellsTheTruth'
<1>0. /\ WorldInv /\ WorldTypes /\ Timed /\ Quiet /\ Settled /\ LiveInv /\ PageInv /\ ItemsInv /\ Covered
      /\ reader.step = "states" /\ steady \subseteq Chains /\ \A c \in Chains : Lived(c)
  BY Resolving DEF OverviewInv, Quiet, WorldInv
<1>. DEFINE shown == NewestItems(NowItems)
<1>1. /\ UNCHANGED <<exec, listed, starts, rows, hidden, dismiss, steady>>
      /\ reader'.hidden = reader.hidden /\ (reader'.crowded <=> reader.crowded \/ Crowds)
      /\ reader'.step = "published" /\ reader'.published = shown
  BY Resolving DEF world
<1>2. \A c : Truth(c)' = Truth(c) /\ (InSync(c)' <=> InSync(c))
  <2>1. \A c : Still(c)
    BY <1>1 DEF Still
  <2>. QED BY <2>1, StillSays
<1>3. Settled'
  BY <1>0, <1>1, <1>2 DEF Settled
<1>4. LiveInv' /\ PageInv' /\ ItemsInv' /\ Covered'
  BY <1>1 DEF LiveInv, PageInv, ItemsInv, Covered
<1>5. /\ \A r \in NowItems : Dated(r) /\ r.id \in NowSeen
      /\ \A r, q \in NowItems : r.id = q.id => r = q
  BY <1>0, NowItemsAreRight
<1>6. /\ shown \subseteq NowItems
      /\ \A x \in NowItems \ shown : Cardinality(shown) = Limit /\ \A r \in shown : r.start > x.start
      /\ \A t \in Nat, T \in SUBSET NowItems :
           Cardinality(T) >= Limit /\ (\A y \in T : y.start > t) =>
             Cardinality(shown) = Limit /\ \A r \in shown : r.start > t
  BY <1>0, <1>5, NewestAreShown
<1>. HIDE DEF shown
<1>7. OverviewTellsTheTruth'
  <2>. SUFFICES ASSUME ~reader.crowded, ~Crowds PROVE OverviewTellsTheTruth'
    BY <1>1 DEF OverviewTellsTheTruth, SteadyRunsAreToldRight, SteadyRunsAreNotLost
  <2>1. \A c \in steady :
          /\ \A r \in NowItems : r.id = c => r = Truth(c)
          /\ c \in NowSeen => Truth(c) \in NowItems \/ Dismissed(reader.hidden, Truth(c))
    BY <1>0, NowItemsAreRight
  <2>2. \A c : Published(c)' = {r \in shown : r.id = c}
    BY <1>1 DEF Published
  <2>3. ASSUME NEW c \in steady PROVE Published(c)' \subseteq {Truth(c)}
    BY <1>6, <2>1, <2>2
  <2>4. ASSUME NEW c \in steady \ Fired
        PROVE  \/ Published(c)' # {} \/ (c \in DOMAIN reader.hidden /\ reader.hidden[c] = Truth(c))
               \/ Cardinality(shown) = Limit /\ \A r \in shown : r.start > starts[c][1]
    <3>0. c \in Chains /\ exec[c] # "none" /\ InSync(c) /\ Truth(c).id = c /\ Truth(c).start = starts[c][1]
          /\ Len(starts[c]) \in Nat \ {0} /\ starts[c][1] \in Nat
      <4>1. c \in Chains /\ exec[c] # "none" /\ InSync(c)
        BY <1>0 DEF Settled
      <4>2. Truth(c).id = c /\ Truth(c).start = starts[c][1]
        BY DEF Truth
      <4>3. starts[c] \in Seq(Nat) /\ Len(starts[c]) \in Nat \ {0}
        BY <1>0, <4>1, LenProperties DEF WorldTypes, Lived
      <4>4. starts[c][1] \in Nat
        BY <4>3, ElementOfSeq
      <4>. QED BY <4>1, <4>2, <4>3, <4>4
    <3>1. CASE c \in NowSeen
      <4>1. CASE Dismissed(reader.hidden, Truth(c))
        BY <3>0, <4>1 DEF Dismissed
      <4>2. CASE Truth(c) \in shown
        BY <2>2, <3>0, <4>2
      <4>3. CASE Truth(c) \in NowItems \ shown
        BY <1>6, <3>0, <4>3
      <4>. QED BY <2>1, <3>1, <4>1, <4>2, <4>3
    <3>2. CASE c \notin NowSeen
      <4>1. Old(c)
        <5>. SUFFICES ASSUME ~Old(c) PROVE FALSE
          OBVIOUS
        <5>1. Len(rows[c]) = 0
          BY DEF Old
        <5>2. listed[c] # 0
          BY <3>0, <5>1 DEF InSync
        <5>3. IsLive(c)
          BY <1>0, <5>2 DEF LiveInv
        <5>4. PICK e \in ToldLive : e.id = c
          BY <1>0, <5>3, ToldLiveIsRight DEF IsLive
        <5>. QED BY <1>0, <3>2, <5>4, NowItemsAreRight
      <4>2. c \notin reader.seen /\ ~OnPage(c)
        BY <1>0, <3>2, NowItemsAreRight DEF OnPage, PageIds
      <4>3. reader.next # 0 /\ \A d \in reader.ids : Later(d, c)
        BY <1>0, <4>1, <4>2 DEF Covered
      <4>4. Cardinality(reader.ids \cap IdsOf(NowItems)) >= Limit
        BY <4>3 DEF Enough
      <4>. DEFINE T == {r \in NowItems : r.id \in reader.ids}
      <4>5. IdsOf(T) = reader.ids \cap IdsOf(NowItems)
        BY DEF IdsOf
      <4>6. Cardinality(T) >= Limit
        <5>1. /\ \A r \in T : r.id \in Chains
              /\ \A r, q \in T : r.id = q.id => r = q
          BY <1>5 DEF Dated
        <5>. HIDE DEF T
        <5>2. Cardinality(IdsOf(T)) = Cardinality(T)
          BY <5>1, IdsAreMany
        <5>. QED BY <4>4, <4>5, <5>2
      <4>7. ASSUME NEW r \in T PROVE r.start > starts[c][1]
        <5>1. PICK i \in 1..Len(starts[r.id]) : r.start = starts[r.id][i]
          BY <1>5 DEF Dated
        <5>2. r.id \in Chains /\ Later(r.id, c)
          BY <1>5, <4>3 DEF Dated
        <5>3. starts[r.id] \in Seq(Nat) /\ Len(starts[r.id]) \in Nat
          BY <1>0, <5>2, LenProperties DEF WorldTypes
        <5>4. starts[r.id][i] \in Nat /\ starts[r.id][1] \in Nat /\ 1 \in 1..Len(starts[r.id])
          BY <5>1, <5>3, ElementOfSeq
        <5>5. 1 < i => starts[r.id][1] < starts[r.id][i]
          BY <1>0, <5>1, <5>2, <5>4 DEF Timed
        <5>. QED BY <3>0, <5>1, <5>2, <5>3, <5>4, <5>5 DEF Later
      <4>8. T \in SUBSET NowItems
        OBVIOUS
      <4>. HIDE DEF T
      <4>. QED BY <1>6, <3>0, <4>6, <4>7, <4>8
    <3>. QED BY <3>1, <3>2
  <2>. QED BY <1>1, <1>2, <2>3, <2>4 DEF OverviewTellsTheTruth, SteadyRunsAreToldRight, SteadyRunsAreNotLost
<1>. QED BY <1>3, <1>4, <1>7

\* Nothing is read yet.
LEMMA OverviewBegins == Init => OverviewInv
<1>. SUFFICES ASSUME Init PROVE OverviewInv
  OBVIOUS
<1>1. reader.step = "idle" /\ dismiss.step = "idle" /\ steady = {} /\ Quiet
  BY DEF Init, NoRead, NoDismissal, Quiet
<1>2. WorldInv
  BY WorldBegins
<1>. QED BY <1>1, <1>2 DEF OverviewInv, Settled, LiveInv, PageInv, ItemsInv, Covered, OverviewTellsTheTruth,
            SteadyRunsAreToldRight, SteadyRunsAreNotLost

\* All that a reader learns and keeps.
Learnt == Settled /\ LiveInv /\ PageInv /\ ItemsInv /\ Covered /\ OverviewTellsTheTruth

\* Every step keeps what a reader learns.
LEMMA OverviewStays == OverviewInv /\ [Next]_vars => OverviewInv'
<1>. SUFFICES ASSUME OverviewInv, [Next]_vars PROVE OverviewInv'
  OBVIOUS
<1>0. WorldInv /\ Quiet /\ steady \subseteq Chains /\ WorldInv' /\ Quiet'
  BY WorldStays, QuietStays DEF OverviewInv, Quiet
<1>1. ASSUME NEW c \in Chains, WorldStep(c) PROVE Learnt'
  BY <1>0, <1>1, WorldMoves, MovesKeep DEF Learnt
<1>2. ASSUME DismissStep \/ UNCHANGED vars PROVE Learnt'
  <2>1. UNCHANGED <<world, reader>> /\ steady' \subseteq steady
    BY <1>2 DEF DismissStep, View, ReadRows, CheckRevision, StoreDismissal, Undismiss, vars
  <2>. QED BY <1>0, <2>1, DismissalMoves, MovesKeep DEF Learnt
<1>3. ASSUME BeginRead \/ ReadFails PROVE Learnt'
  BY <1>3, BeginReadKeeps DEF Learnt
<1>4. ASSUME ReadLive PROVE Learnt'
  BY <1>4, ReadLiveKeeps DEF Learnt
<1>5. ASSUME ReadPage PROVE Learnt'
  BY <1>5, ReadPageKeeps DEF Learnt
<1>6. ASSUME ResolvePage PROVE Learnt'
  BY <1>6, ResolveGoesOn, ResolvePublishes DEF Learnt
<1>7. Learnt'
  BY <1>1, <1>2, <1>3, <1>4, <1>5, <1>6 DEF Next, ReadStep
<1>. QED BY <1>0, <1>7 DEF OverviewInv, Learnt

\* For any chains, viewers and collection, whatever happens to the runs while
\* their overview is read, source after source and page after page: a run
\* nothing happened to is in it and shown exactly as it is, all its iterations
\* told together, unless the viewer dismissed exactly this state, a schedule
\* represents it, or newer runs fill the collection.  Only a read that met more
\* running runs than a page holds may tell less (agenthub/service.go
\* RunsFor, resolveExecutionChains, boundedLiveCandidates, dismissalSet.has;
\* execpg/overview.go selectedExecutionsSQL, chainPage, appendToChain).
THEOREM SteadyRunsAreShown == Spec => []OverviewTellsTheTruth
<1>1. OverviewInv => OverviewTellsTheTruth
  BY DEF OverviewInv
<1>. QED BY <1>1, OverviewBegins, OverviewStays, PTL DEF Spec

=============================================================================
