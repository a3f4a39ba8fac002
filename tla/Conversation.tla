---------------------------- MODULE Conversation ----------------------------
(***************************************************************************)
(* One conversation of app/messaging, the broadcast of app/realtime and    *)
(* the conversation page of each member.                                   *)
(*                                                                         *)
(* A call travels from a page to the server, where a thread locks the      *)
(* conversation row, commits, and only then publishes and answers.  A page *)
(* lists messages after its cursor when it opens and every eight seconds   *)
(* while its socket is down; a live socket brings the rest.  Redis carries *)
(* the broadcast, so what a closed socket has not read is lost.            *)
(***************************************************************************)
EXTENDS Integers, FiniteSets, Sequences, SequencesExt, FiniteSetsExt

CONSTANTS
  Members,      \* the two conversation members
  Roles,        \* the parts played in one conversation; see roles
  Threads,      \* server threads that may be at work at the same time
  MaxMessages,  \* bound on the messages written
  PageSize,     \* messages of one listing; the pages ask for 100
  MaxFaults     \* bound on lost sockets, crashes and failed broadcasts

ASSUME ConversationAssumption ==
  /\ MaxMessages \in Nat /\ PageSize \in Nat \ {0} /\ MaxFaults \in Nat
  /\ "NOBODY" \notin Threads
  /\ \A r \in Roles : r.writers \union r.pages \subseteq Members /\ r.messages <= MaxMessages

VARIABLES
  roles,      \* [writers, pages, workers, messages]: who writes, who sits at a page, who
              \* drains the outbox, and a bound on the messages; never changes
  next,       \* conversations.next_sequence
  holder,     \* the thread with the row lock of conversations, or NOBODY
  rows,       \* messages: [by, id, text, sequence]
  receipts,   \* message_receipts: <<sequence, member, type>>
  lastRead,   \* conversation_members.last_read_sequence
  events,     \* outbox events notification.requested: [message, to]
  calls,      \* calls on their way to the server
  thread,     \* what each thread works on and has read
  faults,     \* faults so far
  live,       \* pages with a socket in the conversation's room
  wire,       \* message.created events a socket has still to deliver
  shown,      \* messages on the page
  cursor,     \* latestSequence of the page
  reply,      \* a listing on its way to the page
  draft       \* the message being sent: [id, text], id 0 when there is none

serverVars == <<roles, next, holder, rows, receipts, lastRead, events>>
pageVars == <<live, wire, shown, cursor, reply, draft>>
conversationVars == <<roles, next, holder, rows, receipts, lastRead, events, calls, thread, faults,
                      live, wire, shown, cursor, reply, draft>>

NoCall == [wants |-> "NOTHING", by |-> "NOBODY", id |-> 0, text |-> 0, through |-> 0]
NoReply == [of |-> "NOTHING", items |-> {}]
NotOpened == [of |-> "MOUNT", items |-> {}]
Resting == [call |-> NoCall, at |-> "IDLE", read |-> 0]

SendCall(m) == [NoCall EXCEPT !.wants = "SEND", !.by = m, !.id = draft[m].id,
                              !.text = draft[m].text]
ReceiptCall(m, type, n) == [NoCall EXCEPT !.wants = type, !.by = m, !.through = n]

LastOf(items, otherwise) ==
  IF items = {} THEN otherwise ELSE Max({r.sequence : r \in items})

\* get_or_create_conversation: the contract's two members, nothing read.
ConversationInit ==
  /\ roles \in Roles
  /\ next = 1 /\ holder = "NOBODY" /\ rows = {} /\ receipts = {} /\ events = {}
  /\ lastRead = [m \in Members |-> 0]
  /\ calls = {} /\ thread = [t \in Threads |-> Resting] /\ faults = 0
  /\ live = {} /\ wire = [m \in Members |-> <<>>]
  /\ shown = [m \in Members |-> {}] /\ cursor = [m \in Members |-> 0]
  /\ reply = [m \in Members |-> NotOpened]
  /\ draft = [m \in Members |-> [id |-> 0, text |-> 0]]

Fault == faults < MaxFaults /\ faults' = faults + 1
-----------------------------------------------------------------------------
(* The server.                                                               *)

\* Mutant: the conversation is read without FOR UPDATE.
LockUnlocked(t) ==
  \E call \in calls :
    /\ thread[t].at = "IDLE"
    /\ thread' = [thread EXCEPT ![t] = [call |-> call, at |-> "LOCKED", read |-> next]]
    /\ calls' = calls \ {call}
    /\ UNCHANGED <<serverVars, faults, pageVars>>

\* SELECT ... FOR UPDATE on the conversation, as send_message and
\* _mark_receipts begin.
Lock(t) ==
  \E call \in calls :
    /\ thread[t].at = "IDLE" /\ holder = "NOBODY"
    /\ thread' = [thread EXCEPT ![t] = [call |-> call, at |-> "LOCKED", read |-> next]]
    /\ calls' = calls \ {call} /\ holder' = t
    /\ UNCHANGED <<roles, next, rows, receipts, lastRead, events, faults, pageVars>>

Prior(call) == {r \in rows : r.by = call.by /\ r.id = call.id}

\* The row goes, the thread still has to publish (at ANSWER) or is done.
Unlock(t, at) ==
  /\ holder' = IF holder = t THEN "NOBODY" ELSE holder
  /\ thread' = [thread EXCEPT ![t] = IF at = "IDLE" THEN Resting ELSE [@ EXCEPT !.at = at, !.read = 0]]

\* Mutant: the message is stored without its notification event.
CommitMessageQuiet(t) ==
  LET call == thread[t].call
      row == [by |-> call.by, id |-> call.id, text |-> call.text, sequence |-> thread[t].read] IN
  /\ thread[t].at = "LOCKED" /\ call.wants = "SEND" /\ Prior(call) = {}
  /\ rows' = rows \union {row} /\ next' = thread[t].read + 1
  /\ Unlock(t, "ANSWER")
  /\ UNCHANGED <<roles, receipts, lastRead, events, calls, faults, pageVars>>

\* send_message: a new row and one notification event per recipient.
CommitMessage(t) ==
  LET call == thread[t].call
      row == [by |-> call.by, id |-> call.id, text |-> call.text, sequence |-> thread[t].read] IN
  /\ thread[t].at = "LOCKED" /\ call.wants = "SEND" /\ Prior(call) = {}
  /\ rows' = rows \union {row} /\ next' = thread[t].read + 1
  /\ events' = events \union {[message |-> row.sequence, to |-> m] : m \in Members \ {call.by}}
  /\ Unlock(t, "ANSWER")
  /\ UNCHANGED <<roles, receipts, lastRead, calls, faults, pageVars>>

\* Mutant: a reused id is answered with the prior row whatever it says.
RepeatAnyMessage(t) ==
  LET call == thread[t].call IN
  /\ thread[t].at = "LOCKED" /\ call.wants = "SEND" /\ Prior(call) # {}
  /\ Unlock(t, "ANSWER")
  /\ UNCHANGED <<roles, next, rows, receipts, lastRead, events, calls, faults, pageVars>>

\* send_message: the prior row of the same id answers, or the 409
\* client_message_id_reused when its content differs.
RepeatMessage(t) ==
  LET call == thread[t].call IN
  /\ thread[t].at = "LOCKED" /\ call.wants = "SEND" /\ Prior(call) # {}
  /\ Unlock(t, IF \E r \in Prior(call) : r.text = call.text THEN "ANSWER" ELSE "IDLE")
  /\ UNCHANGED <<roles, next, rows, receipts, lastRead, events, calls, faults, pageVars>>

MayMark(call) == call.through < next

\* Mutant: a late mark_read is not returned early.
CommitReceiptsAnyway(t) ==
  LET call == thread[t].call
      types == IF call.wants = "READ" THEN {"DELIVERED", "READ"} ELSE {"DELIVERED"}
      peers == {r.sequence : r \in {q \in rows : q.sequence <= call.through /\ q.by # call.by}} IN
  /\ thread[t].at = "LOCKED" /\ call.wants \in {"READ", "DELIVERED"}
  /\ receipts' = receipts \union (peers \X {call.by} \X types)
  /\ lastRead' = IF call.wants = "READ" THEN [lastRead EXCEPT ![call.by] = call.through]
                                        ELSE lastRead
  /\ Unlock(t, "IDLE")
  /\ UNCHANGED <<roles, next, rows, events, calls, faults, pageVars>>

\* _mark_receipts: out of range is refused and an old read cursor returns;
\* otherwise the missing receipts, and for mark_read the cursor.
CommitReceipts(t) ==
  LET call == thread[t].call
      types == IF call.wants = "READ" THEN {"DELIVERED", "READ"} ELSE {"DELIVERED"}
      peers == {r.sequence : r \in {q \in rows : q.sequence <= call.through /\ q.by # call.by}} IN
  /\ thread[t].at = "LOCKED" /\ call.wants \in {"READ", "DELIVERED"}
  /\ IF MayMark(call) /\ (call.wants = "READ" => call.through > lastRead[call.by])
     THEN /\ receipts' = receipts \union (peers \X {call.by} \X types)
          /\ lastRead' = IF call.wants = "READ"
                         THEN [lastRead EXCEPT ![call.by] = call.through] ELSE lastRead
     ELSE UNCHANGED <<receipts, lastRead>>
  /\ Unlock(t, "IDLE")
  /\ UNCHANGED <<roles, next, rows, events, calls, faults, pageVars>>

\* The ack of the socket or the answer of the REST call: submitMessage shows
\* the row and moves the cursor.  A page ignores the answer to a send that is
\* no longer the one it waits for.
Acknowledge(call, row) ==
  IF draft[row.by] = [id |-> call.id, text |-> call.text]
  THEN /\ draft' = [draft EXCEPT ![row.by] = [id |-> 0, text |-> 0]]
       /\ shown' = [shown EXCEPT ![row.by] = @ \union {row}]
       /\ cursor' = [cursor EXCEPT ![row.by] = Max({@, row.sequence})]
  ELSE UNCHANGED <<draft, shown, cursor>>

\* message_send and create_message after the commit: publish_message to the
\* room and the answer; _safe_emit swallows a failed broadcast.
Answer(t) ==
  /\ thread[t].at = "ANSWER"
  /\ \E row \in Prior(thread[t].call) :
       /\ \/ /\ wire' = [m \in Members |-> IF m \in live THEN Append(wire[m], row) ELSE wire[m]]
             /\ UNCHANGED faults
          \/ Fault /\ UNCHANGED wire
       /\ Acknowledge(thread[t].call, row)
  /\ thread' = [thread EXCEPT ![t] = Resting]
  /\ UNCHANGED <<serverVars, calls, live, reply>>

\* The process of a thread dies and its call with it; the database releases
\* its lock.
Crash(t) ==
  /\ thread[t].at # "IDLE" /\ Fault
  /\ Unlock(t, "IDLE")
  /\ UNCHANGED <<roles, next, rows, receipts, lastRead, events, calls, pageVars>>
-----------------------------------------------------------------------------
(* The page.                                                                 *)

\* handlePacket "40" and conversation.join.  Nothing is listed.
Connect(m) ==
  /\ m \in roles.pages \ live /\ live' = live \union {m}
  /\ UNCHANGED <<serverVars, calls, thread, faults, wire, shown, cursor, reply, draft>>

\* handleClose: the socket and what it had not delivered are gone.
Drop(m) ==
  /\ m \in live /\ Fault
  /\ live' = live \ {m} /\ wire' = [wire EXCEPT ![m] = <<>>]
  /\ UNCHANGED <<serverVars, calls, thread, shown, cursor, reply, draft>>

\* onEvent message.created: shown, the cursor moves to it, and a message of
\* the peer is reported read.
Receive(m) ==
  /\ wire[m] # <<>>
  /\ LET row == Head(wire[m]) IN
     /\ wire' = [wire EXCEPT ![m] = Tail(@)]
     /\ shown' = [shown EXCEPT ![m] = @ \union {row}]
     /\ cursor' = [cursor EXCEPT ![m] = Max({@, row.sequence})]
     /\ calls' = IF row.by # m THEN calls \union {ReceiptCall(m, "READ", row.sequence)} ELSE calls
  /\ UNCHANGED <<serverVars, thread, faults, live, reply, draft>>

\* list_messages: the first PageSize rows after a sequence.
Listing(after) ==
  {r \in rows : r.sequence > after
                /\ Cardinality({q \in rows : after < q.sequence /\ q.sequence < r.sequence}) < PageSize}

\* The page opens and lists from the start.
Open(m) ==
  /\ m \in roles.pages /\ reply[m] = NotOpened
  /\ reply' = [reply EXCEPT ![m] = [of |-> "OPEN", items |-> Listing(0)]]
  /\ UNCHANGED <<serverVars, calls, thread, faults, live, wire, shown, cursor, draft>>

\* The eight-second interval, which only runs while the socket is not live.
Poll(m) ==
  /\ m \in roles.pages \ live /\ reply[m] = NoReply /\ Listing(cursor[m]) # {}
  /\ reply' = [reply EXCEPT ![m] = [of |-> "POLL", items |-> Listing(cursor[m])]]
  /\ UNCHANGED <<serverVars, calls, thread, faults, live, wire, shown, cursor, draft>>

\* The listing arrives: the first replaces the page, a poll is merged into
\* it, and what it brought is reported read.
Apply(m) ==
  LET items == reply[m].items
      through == LastOf(items, 0) IN
  /\ reply[m].of \in {"OPEN", "POLL"} /\ reply' = [reply EXCEPT ![m] = NoReply]
  /\ IF reply[m].of = "OPEN"
     THEN /\ shown' = [shown EXCEPT ![m] = items]
          /\ cursor' = [cursor EXCEPT ![m] = through]
     ELSE /\ shown' = [shown EXCEPT ![m] = @ \union items]
          /\ cursor' = [cursor EXCEPT ![m] = Max({@, through})]
  /\ calls' = IF through > 0 THEN calls \union {ReceiptCall(m, "READ", through)} ELSE calls
  /\ UNCHANGED <<serverVars, thread, faults, live, wire, draft>>

Unsent == {m \in Members : draft[m].id # 0 /\ Prior(SendCall(m)) = {}}

\* A new message gets a client id of its own.
Write(m) ==
  /\ m \in roles.writers /\ draft[m].id = 0
  /\ Cardinality(rows) + Cardinality(Unsent) < roles.messages
  /\ draft' = [draft EXCEPT ![m] =
       [id |-> 1 + Cardinality({r \in rows : r.by = m}), text |-> 1]]
  /\ UNCHANGED <<serverVars, calls, thread, faults, live, wire, shown, cursor, reply>>

\* The member edits the text after a failed send; the id stays.
Edit(m) ==
  /\ draft[m].id # 0 /\ draft[m].text = 1
  /\ \/ \E t \in Threads : thread[t].call = SendCall(m)
     \/ Prior(SendCall(m)) # {}
  /\ draft' = [draft EXCEPT ![m].text = 2]
  /\ UNCHANGED <<serverVars, calls, thread, faults, live, wire, shown, cursor, reply>>

\* submitMessage: over the socket, and again over REST when its ack is late
\* or lost, always with the same id.
Submit(m) ==
  /\ draft[m].id # 0 /\ \A call \in calls : call.by = m => call.wants # "SEND"
  /\ calls' = calls \union {SendCall(m)}
  /\ UNCHANGED <<serverVars, thread, faults, pageVars>>

\* POST .../delivered and .../read of an API client, with any sequence.
Report(m) ==
  /\ m \notin roles.pages \union roles.writers /\ \A call \in calls : call.by # m
  /\ \E type \in {"DELIVERED", "READ"}, n \in 1..(next - 1) :
       calls' = calls \union {ReceiptCall(m, type, n)}
  /\ UNCHANGED <<serverVars, thread, faults, pageVars>>

ConversationNext ==
  \/ \E t \in Threads : Lock(t) \/ CommitMessage(t) \/ RepeatMessage(t) \/ CommitReceipts(t)
                        \/ Answer(t) \/ Crash(t)
  \/ \E m \in Members : Connect(m) \/ Drop(m) \/ Receive(m) \/ Open(m) \/ Poll(m) \/ Apply(m)
                        \/ Write(m) \/ Edit(m) \/ Submit(m) \/ Report(m)
=============================================================================
