---------------------------- MODULE EventStream -----------------------------
(***************************************************************************)
(* The live streams (httpapi/streaming.go over steeringpg): numbered rows   *)
(* that concurrent transactions write and that readers follow from the      *)
(* last number they saw, across lost connections, reloads and an expired    *)
(* credential.                                                              *)
(*                                                                         *)
(* "conversation" rows are a session's turns, numbered under a lock from    *)
(* the rows themselves; "hub" rows are events numbered by a sequence of     *)
(* the database.  A reader is one page: it knows the last number it saw,    *)
(* and what it heard.                                                       *)
(***************************************************************************)
EXTENDS Integers, FiniteSets, FiniteSetsExt

CONSTANTS
  Writers,       \* transactions in all
  Writes,        \* what each writes: "conversation" or "hub"
  Readers,
  Follows,       \* what each reader follows
  Limit,         \* streams a credential may hold open
  Batch,         \* rows one read answers with
  MaxConnects    \* connections a reader makes

VARIABLES
  rows,     \* committed rows: kind and number
  drawn,    \* the number the hub sequence gave last
  lock,     \* the writer that holds the conversation's append lock, or Free
  writer,   \* each writer: its step, and the number it wrote
  stream,   \* each reader's connection: open or not, and its position
  after,    \* the position in the address a reader's page connects to
  stored,   \* the last number the reader's page saw
  heard,    \* the numbers the reader was sent
  counted,  \* the limiter's count of open streams
  valid,    \* the credential is
  connects  \* connections made

vars == <<rows, drawn, lock, writer, stream, after, stored, heard, counted, valid, connects>>

Free == "free"
Kinds == {"conversation", "hub"}
Numbers(kind) == {row.number : row \in {r \in rows : r.kind = kind}}
Last(numbers) == Max({0} \cup numbers)

Init ==
  /\ rows = {} /\ drawn = 0 /\ lock = Free
  /\ writer = [w \in Writers |-> [step |-> "new", number |-> 0]]
  /\ stream = [r \in Readers |-> [open |-> FALSE, position |-> 0]]
  /\ after = [r \in Readers |-> 0] /\ stored = [r \in Readers |-> 0]
  /\ heard = [r \in Readers |-> {}]
  /\ counted = 0 /\ valid = TRUE /\ connects = [r \in Readers |-> 0]

-----------------------------------------------------------------------------
(* Writing a row: numbered, then committed or rolled back.                 *)

NextNumber(w) ==
  IF Writes[w] = "hub" THEN [number |-> drawn + 1, drawn |-> drawn + 1]
  ELSE [number |-> Last(Numbers("conversation")) + 1, drawn |-> drawn]

\* Mutant of Insert: a turn is numbered as an event is.
InsertEvent(w) ==
  /\ writer[w].step = "new"
  /\ writer' = [writer EXCEPT ![w] = [step |-> "open", number |-> drawn + 1]]
  /\ drawn' = drawn + 1
  /\ UNCHANGED <<rows, lock, stream, after, stored, heard, counted, valid, connects>>

\* A turn is numbered by the rows, under the lock; an event by the sequence.
Insert(w) ==
  /\ writer[w].step = "new" /\ (Writes[w] = "conversation" => lock = Free)
  /\ writer' = [writer EXCEPT ![w] = [step |-> "open", number |-> NextNumber(w).number]]
  /\ drawn' = NextNumber(w).drawn
  /\ lock' = IF Writes[w] = "conversation" THEN w ELSE lock
  /\ UNCHANGED <<rows, stream, after, stored, heard, counted, valid, connects>>

Unlocked(w) == IF lock = w THEN Free ELSE lock

\* The primary key refuses a number that is taken.
Commit(w) ==
  /\ writer[w].step = "open" /\ writer[w].number \notin Numbers(Writes[w])
  /\ rows' = rows \cup {[kind |-> Writes[w], number |-> writer[w].number]}
  /\ writer' = [writer EXCEPT ![w].step = "committed"] /\ lock' = Unlocked(w)
  /\ UNCHANGED <<drawn, stream, after, stored, heard, counted, valid, connects>>

RollBack(w) ==
  /\ writer[w].step = "open"
  /\ writer' = [writer EXCEPT ![w].step = "rolled back"] /\ lock' = Unlocked(w)
  /\ UNCHANGED <<rows, drawn, stream, after, stored, heard, counted, valid, connects>>

-----------------------------------------------------------------------------
(* Following.                                                              *)

\* streamPosition: the address's position, else the browser's Last-Event-ID.
\* The browser sends the last number it saw when it reconnects by itself.
streamPosition(address, lastEventID) == IF address # 0 THEN address ELSE lastEventID

\* beginStream under the limiter; a refused connection leaves nothing behind.
Open(r, address, lastEventID) ==
  /\ ~stream[r].open /\ connects[r] < MaxConnects
  /\ connects' = [connects EXCEPT ![r] = @ + 1]
  /\ IF valid /\ counted < Limit
       THEN /\ stream' = [stream EXCEPT ![r] = [open     |-> TRUE,
                                               position |-> streamPosition(address, lastEventID)]]
            /\ counted' = counted + 1
       ELSE UNCHANGED <<stream, counted>>
  /\ UNCHANGED <<rows, drawn, lock, writer, stored, heard, valid>>

\* A page is loaded: it connects after what its storage says it saw.
Load(r) == Open(r, stored[r], 0) /\ after' = [after EXCEPT ![r] = stored[r]]

\* The browser reconnects to the address of the page by itself.
Reconnect(r) == connects[r] > 0 /\ Open(r, after[r], stored[r]) /\ UNCHANGED after

\* The rows after a position, in order, as many as one read answers with; a
\* conversation is read whole.
Following(r) ==
  LET next == {n \in Numbers(Follows[r]) : n > stream[r].position}
  IN IF Follows[r] = "hub" THEN {n \in next : Cardinality({m \in next : m < n}) < Batch} ELSE next

\* One read and everything sent of it; the client keeps the last number.
Poll(r) ==
  /\ stream[r].open /\ Following(r) # {}
  /\ heard' = [heard EXCEPT ![r] = @ \cup Following(r)]
  /\ stream' = [stream EXCEPT ![r].position = Last(Following(r))]
  /\ stored' = [stored EXCEPT ![r] = Last(Following(r))]
  /\ UNCHANGED <<rows, drawn, lock, writer, after, counted, valid, connects>>

\* The reader leaves, a read fails, or the credential is no longer valid at
\* the next tick: the handler returns.
End(r, why) ==
  /\ stream[r].open /\ (why = "auth-expired" => ~valid)
  /\ stream' = [stream EXCEPT ![r].open = FALSE] /\ counted' = counted - 1
  /\ UNCHANGED <<rows, drawn, lock, writer, after, stored, heard, valid, connects>>

ExpireOrSignIn ==
  /\ valid' = ~valid
  /\ UNCHANGED <<rows, drawn, lock, writer, stream, after, stored, heard, counted, connects>>

Next ==
  \/ \E w \in Writers : Insert(w) \/ Commit(w) \/ RollBack(w)
  \/ \E r \in Readers :
       \/ Load(r) \/ Reconnect(r) \/ Poll(r)
       \/ \E why \in {"left", "stream-error", "auth-expired"} : End(r, why)
  \/ ExpireOrSignIn

Spec == Init /\ [][Next]_vars

-----------------------------------------------------------------------------
\* What a page that has come as far as its last number was never sent.
Missed(r) == {n \in Numbers(Follows[r]) : n <= stored[r]} \ heard[r]

\* A page that has seen turn n of a conversation was sent every turn up to n,
\* however the turns were written at once and the stream was cut and resumed
\* (steering.Message: "cannot miss a turn").  A number is never used twice.
ConversationMissesNothing ==
  \A r \in Readers : Follows[r] = "conversation" => Missed(r) = {}

\* What a resumable stream is to give ("resume from a sequence yields no gaps"):
\* the hub's events do not, one number may be committed after a later one.
HubEventsMissNothing == \A r \in Readers : Follows[r] = "hub" => Missed(r) = {}

=============================================================================
