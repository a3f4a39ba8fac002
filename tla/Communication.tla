--------------------------- MODULE Communication ----------------------------
(***************************************************************************)
(* A conversation and the notification workers that drain the outbox       *)
(* events its messages leave behind (app/notifications).                   *)
(*                                                                         *)
(* A worker lists the events without a receipt and, some time later, locks *)
(* an event's row, looks for a receipt again, writes the notification and  *)
(* the receipt, commits, and publishes last.  The events of one list are   *)
(* handled one after the other; here a list holds one.                     *)
(***************************************************************************)
EXTENDS Conversation

CONSTANT Workers  \* roles.workers are those that run

VARIABLES
  consumed,       \* notification_event_receipts
  notifications,  \* notifications: one per member and message (its dedupe key)
  announced,      \* how often notification.created was published for an event
  worker          \* [event, at]: the event each worker has listed, locked or committed

notificationVars == <<consumed, notifications, announced, worker>>
vars == <<conversationVars, notificationVars>>

Events == [message : 1..MaxMessages, to : Members]
NoEvent == [message |-> 0, to |-> "NOBODY"]
Free == [event |-> NoEvent, at |-> "IDLE"]

NotificationInit ==
  /\ consumed = {} /\ notifications = {} /\ announced = [e \in Events |-> 0]
  /\ worker = [w \in Workers |-> Free]

\* Listing of drain_notification_outbox; nothing is locked.
Collect(w) ==
  /\ w \in roles.workers /\ worker[w] = Free
  /\ \E e \in events \ consumed : worker' = [worker EXCEPT ![w] = [event |-> e, at |-> "LISTED"]]
  /\ UNCHANGED <<conversationVars, consumed, notifications, announced>>

\* _consume: the event's row FOR UPDATE.
TakeEvent(w) ==
  /\ worker[w].at = "LISTED"
  /\ \A v \in Workers : worker[v].at = "LOCKED" => worker[v].event # worker[w].event
  /\ worker' = [worker EXCEPT ![w].at = "LOCKED"]
  /\ UNCHANGED <<conversationVars, consumed, notifications, announced>>

\* Mutant: the receipt is not looked for again under the lock.
ConsumeUnchecked(w) ==
  /\ worker[w].at = "LOCKED"
  /\ notifications' = notifications \union {worker[w].event}
  /\ consumed' = consumed \union {worker[w].event}
  /\ worker' = [worker EXCEPT ![w].at = "COMMITTED"]
  /\ UNCHANGED <<conversationVars, announced>>

\* _consume: an event another worker has consumed is left; otherwise
\* create_notification, which finds an earlier one by its dedupe key, the
\* receipt and the commit.
Consume(w) ==
  /\ worker[w].at = "LOCKED"
  /\ IF worker[w].event \in consumed
     THEN /\ worker' = [worker EXCEPT ![w] = Free]
          /\ UNCHANGED <<notifications, consumed>>
     ELSE /\ notifications' = notifications \union {worker[w].event}
          /\ consumed' = consumed \union {worker[w].event}
          /\ worker' = [worker EXCEPT ![w].at = "COMMITTED"]
  /\ UNCHANGED <<conversationVars, announced>>

\* publish_notification, after the commit.
Announce(w) ==
  /\ worker[w].at = "COMMITTED"
  /\ announced' = [announced EXCEPT ![worker[w].event] = @ + 1]
  /\ worker' = [worker EXCEPT ![w] = Free]
  /\ UNCHANGED <<conversationVars, consumed, notifications>>

\* A worker dies or meets its time limit; its lock and its list are gone.
WorkerDies(w) ==
  /\ worker[w] # Free /\ Fault
  /\ worker' = [worker EXCEPT ![w] = Free]
  /\ UNCHANGED <<serverVars, calls, thread, pageVars, consumed, notifications, announced>>

Drain(w) == Collect(w) \/ TakeEvent(w) \/ Consume(w) \/ Announce(w)

Init == ConversationInit /\ NotificationInit

Next ==
  \/ ConversationNext /\ UNCHANGED notificationVars
  \/ \E w \in Workers : Drain(w) \/ WorkerDies(w)

Spec == Init /\ [][Next]_vars

\* Celery beat starts the drain every few seconds: while there is an event to
\* handle, some worker goes on.
FairSpec == Spec /\ WF_vars(\E w \in Workers : Drain(w))

\* Threads finish what they began, and a page reads what reaches it, opens,
\* and polls when its socket is down.
PageSpec ==
  /\ FairSpec
  /\ \A t \in Threads : WF_vars((CommitMessage(t) \/ Answer(t)) /\ UNCHANGED notificationVars)
  /\ \A m \in Members :
       WF_vars((Receive(m) \/ Open(m) \/ Poll(m) \/ Apply(m)) /\ UNCHANGED notificationVars)
-----------------------------------------------------------------------------
(* What the conversation promises.                                           *)

\* Numbers are handed out without a gap, and a client message id makes one
\* message: the row lock send_message holds from reading next_sequence and
\* the prior message to its commit.
SequencesGapFree ==
  /\ {r.sequence : r \in rows} = 1..(next - 1)
  /\ Cardinality(rows) = next - 1
  /\ \A q, r \in rows : q.by = r.by /\ q.id = r.id => q = r

\* The read cursor and the receipts, which _mark_receipts writes together,
\* tell one story: a peer's message is READ exactly when the cursor has
\* passed it, and nothing is READ that was not DELIVERED.
ReadMeansReceipts ==
  \A m \in Members, r \in rows : r.by # m =>
    /\ <<r.sequence, m, "READ">> \in receipts <=> r.sequence <= lastRead[m]
    /\ <<r.sequence, m, "READ">> \in receipts => <<r.sequence, m, "DELIVERED">> \in receipts

\* A page that is told its message was sent finds its own words stored: the
\* id of a failed send is used again, and send_message refuses it for other
\* content.
SentAsWritten ==
  [][\A m \in Members : draft[m].id # 0 /\ draft'[m].id = 0 =>
       \E r \in rows : r.by = m /\ r.id = draft[m].id /\ r.text = draft[m].text]_vars

\* Nobody hears of one notification twice, although workers list the same
\* events: the second look under the lock in _consume.
AnnouncedOnce == \A e \in Events : announced[e] <= 1

\* In the end every stored message is among its recipient's notifications,
\* whatever became of the send's thread and of the workers: the outbox row of
\* send_message.  (Only MaxMessages are written.)
RecipientNotified ==
  <>[](roles.workers # {} =>
         \A r \in rows : \A m \in Members \ {r.by} :
           [message |-> r.sequence, to |-> m] \in notifications)

\* In the end a page shows every stored message: ADR-008 lets a broadcast
\* miss a client because clients that connect again fetch the messages after
\* their last sequence.  The page lists only while its socket is down, and
\* connecting lists nothing.
ShownInTheEnd ==
  <>[](\A m \in roles.pages : rows \subseteq shown[m])
=============================================================================
