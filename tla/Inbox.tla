------------------------------- MODULE Inbox --------------------------------
(***************************************************************************)
(* Telling operators (wfnotify, notification, notify.Multi, notificationpg): *)
(* a notice goes to the host's channels and to the durable inbox, by an    *)
(* activity that is retried, and operators read the inbox meanwhile.       *)
(***************************************************************************)
EXTENDS Integers

CONSTANTS
  Notices,     \* notices workflows send
  Unkept,      \* those without an identity: for the host's channels only
  Recipient,   \* who a notice is for, or Everybody
  Everybody,
  Principals,  \* operators
  MaxAttempts  \* attempts of the delivery

VARIABLES
  attempts,  \* attempts of each notice's delivery
  sending,   \* deliveries that go on
  items,     \* the notices in the inbox
  reads      \* <<notice, principal>>: who has read which

vars == <<attempts, sending, items, reads>>

Visible(p) == {n \in items : Recipient[n] \in {Everybody, p}}

Init ==
  /\ attempts = [n \in Notices |-> 0] /\ sending = {} /\ items = {} /\ reads = {}

\* NotifyBestEffort: a failure is logged and the workflow goes on.
Send(n) ==
  /\ attempts[n] = 0
  /\ attempts' = [attempts EXCEPT ![n] = 1] /\ sending' = sending \cup {n}
  /\ UNCHANGED <<items, reads>>

\* Mutant of Put: an item that is there is replaced, and is unread again.
PutAgain(n) == [items |-> items \cup {n}, reads |-> {r \in reads : r[1] # n}]
Put(n) == [items |-> items \cup {n}, reads |-> reads]

\* One attempt: every channel is tried whatever the others do, and the attempt
\* fails if one did or if its answer is lost.
Attempt(n, stores, fails) ==
  /\ n \in sending /\ (~stores /\ n \notin Unkept => fails)
  /\ IF stores /\ n \notin Unkept THEN items' = Put(n).items /\ reads' = Put(n).reads
     ELSE UNCHANGED <<items, reads>>
  /\ IF fails /\ attempts[n] < MaxAttempts
       THEN attempts' = [attempts EXCEPT ![n] = @ + 1] /\ UNCHANGED sending
       ELSE sending' = sending \ {n} /\ UNCHANGED attempts

MarkRead(p, n) ==
  /\ n \in Visible(p)
  /\ reads' = reads \cup {<<n, p>>}
  /\ UNCHANGED <<attempts, sending, items>>

MarkAllRead(p) ==
  /\ reads' = reads \cup (Visible(p) \X {p})
  /\ UNCHANGED <<attempts, sending, items>>

\* ClearRead makes everything unread again for its operator.
ClearRead(p) ==
  /\ reads' = {r \in reads : r[2] # p}
  /\ UNCHANGED <<attempts, sending, items>>

Next ==
  \/ \E n \in Notices : Send(n) \/ \E stores, fails \in BOOLEAN : Attempt(n, stores, fails)
  \/ \E p \in Principals : MarkAllRead(p) \/ ClearRead(p) \/ \E n \in items : MarkRead(p, n)

Spec == Init /\ [][Next]_vars

-----------------------------------------------------------------------------
\* What an operator has read stays read, through every retry of its delivery
\* and whatever other operators do, until that operator clears it (Put: "a
\* retried delivery" is "one durable inbox item").
ReadStaysRead == [][\A r \in reads \ reads' : ClearRead(r[2])]_vars

=============================================================================
