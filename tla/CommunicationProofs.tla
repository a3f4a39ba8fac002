------------------------ MODULE CommunicationProofs -------------------------
(***************************************************************************)
(* Proofs about Communication for any number of members, server threads,   *)
(* workers, messages and faults: what a conversation stores, what its      *)
(* receipts say, what a sender is told, and how often a notification is    *)
(* announced.                                                              *)
(***************************************************************************)
EXTENDS Communication, FiniteSetTheorems, SequenceTheorems, WellFoundedInduction, TLAPS

RowType == [by : Members, id : Nat, text : Nat, sequence : Nat]
CallType == [wants : {"SEND", "READ", "DELIVERED"}, by : Members, id : Nat, text : Nat, through : Nat]
ReceiptTypes == {"DELIVERED", "READ"}

CommunicationTypeOK ==
  /\ next \in Nat \ {0} /\ holder \in Threads \union {"NOBODY"}
  /\ rows \subseteq RowType
  /\ lastRead \in [Members -> Nat]
  /\ calls \subseteq CallType
  /\ thread \in [Threads -> [call : CallType \union {NoCall}, at : {"IDLE", "LOCKED", "ANSWER"}, read : Nat]]
  /\ wire \in [Members -> Seq(RowType)]
  /\ reply \in [Members -> [of : {"NOTHING", "MOUNT", "OPEN", "POLL"}, items : SUBSET RowType]]
  /\ draft \in [Members -> [id : Nat, text : Nat]]
  /\ announced \in [Events -> Nat]
  /\ worker \in [Workers -> [event : [message : Nat, to : Members \union {"NOBODY"}],
                             at : {"IDLE", "LISTED", "LOCKED", "COMMITTED"}]]
  /\ events \subseteq [message : Nat, to : Members]

\* The row lock of the conversation belongs to one thread, which has read the
\* number the next message gets.
LockHeld ==
  \A t \in Threads :
    /\ thread[t].at = "LOCKED" <=> holder = t
    /\ thread[t].at = "LOCKED" => thread[t].read = next
    /\ thread[t].at # "IDLE" => thread[t].call \in CallType

\* Messages have numbers of their own, below the next one.
RowsNumbered ==
  /\ IsFiniteSet(rows) /\ SequencesGapFree
  /\ \A q, r \in rows : q.sequence = r.sequence => q = r

\* Neither a receipt nor a read cursor is ahead of the messages.
ReceiptsBehind ==
  /\ \A m \in Members : lastRead[m] < next
  /\ \A s, m, type : <<s, m, type>> \in receipts => s \in 1..(next - 1)

\* A listing holds stored messages.
ListedIsStored == \A m \in Members : reply[m].items \subseteq rows

\* Whoever will be told that a message was sent finds it stored as it was written.
AnswerIsStored ==
  \A t \in Threads : thread[t].at = "ANSWER" =>
    \E r \in Prior(thread[t].call) : r.text = thread[t].call.text

\* An event is consumed by one worker, which then announces it.
ConsumedOnce ==
  /\ \A w \in Workers : worker[w].at = "COMMITTED" =>
       /\ worker[w].event \in consumed
       /\ worker[w].event \in Events => announced[worker[w].event] = 0
       /\ \A v \in Workers : worker[v].at = "COMMITTED" /\ worker[v].event = worker[w].event => v = w
  /\ \A e \in Events : announced[e] = 0 \/ (announced[e] = 1 /\ e \in consumed)

CommunicationInv ==
  /\ CommunicationTypeOK /\ LockHeld /\ RowsNumbered /\ ReceiptsBehind /\ ReadMeansReceipts
  /\ ListedIsStored /\ AnswerIsStored /\ ConsumedOnce
-----------------------------------------------------------------------------
(* The records of the model.                                                 *)

Less == {ss \in Nat \X Nat : ss[1] < ss[2]}

\* A set of natural numbers has a least one.
LEMMA LeastNatural ==
  ASSUME NEW S \in SUBSET Nat, S # {} PROVE \E x \in S : \A y \in S : x <= y
  <1>1. IsWellFoundedOn(Less, Nat)
    BY NatLessThanWellFounded DEF OpToRel, Less
  <1>2. PICK x \in S : \A y \in S : ~(<<y, x>> \in Less)
    BY <1>1, WFMin
  <1>3. \A y \in S : ~(y < x)
    BY <1>2 DEF Less
  <1> QED BY <1>3

\* A bounded set of numbers has a greatest one.
LEMMA MaxIn ==
  ASSUME NEW n \in Nat, NEW S \in SUBSET (0..n), S # {}
  PROVE  Max(S) \in S
  <1> DEFINE T == {n - s : s \in S}
  <1>1. T \in SUBSET Nat /\ T # {}
    <2>1. \A s \in S : s \in 0..n
      OBVIOUS
    <2>2. \A s \in S : n - s \in Nat
      BY <2>1
    <2>3. PICK s \in S : TRUE
      OBVIOUS
    <2>4. n - s \in T
      BY <2>3
    <2> QED BY <2>2, <2>4
  <1>2. PICK low \in T : \A t \in T : low <= t
    BY <1>1, LeastNatural
  <1>3. PICK x \in S : low = n - x
    BY <1>2
  <1>4. \A y \in S : x >= y
    <2> SUFFICES ASSUME NEW y \in S PROVE x >= y
      OBVIOUS
    <2>1. n - y \in T
      OBVIOUS
    <2>2. low <= n - y
      BY <1>2, <2>1
    <2> QED BY <1>3, <2>2
  <1> QED BY <1>3, <1>4 DEF Max

\* The number a page reports as read after a listing.
LEMMA LastOfIn ==
  ASSUME CommunicationInv, NEW items \in SUBSET rows PROVE LastOf(items, 0) \in Nat
  <1>1. \A r \in rows : r.sequence \in 1..(next - 1)
    BY DEF CommunicationInv, RowsNumbered, SequencesGapFree
  <1>2. CASE items = {}
    BY <1>2 DEF LastOf
  <1>3. CASE items # {}
    <2> DEFINE numbers == {r.sequence : r \in items}
    <2>1. next \in Nat
      BY DEF CommunicationInv, CommunicationTypeOK
    <2>2. numbers \in SUBSET (0..next) /\ numbers # {}
      BY <1>1, <1>3, <2>1
    <2> HIDE DEF numbers
    <2>3. Max(numbers) \in numbers
      BY <2>1, <2>2, MaxIn, Zenon
    <2>4. \A x \in numbers : x \in Nat
      BY <2>1, <2>2
    <2>5. Max(numbers) \in Nat
      BY <2>3, <2>4, Zenon
    <2> QED BY <1>3, <2>5, Zenon DEF LastOf, numbers
  <1> QED BY <1>2, <1>3

\* What a page asks of the server.
LEMMA CallsMade ==
  ASSUME CommunicationInv, NEW m \in Members
  PROVE  /\ SendCall(m) \in CallType
         /\ \A n \in Nat, type \in {"READ", "DELIVERED"} : ReceiptCall(m, type, n) \in CallType
  <1>1. draft[m].id \in Nat /\ draft[m].text \in Nat
    BY DEF CommunicationInv, CommunicationTypeOK
  <1> QED BY <1>1 DEF SendCall, ReceiptCall, NoCall, CallType

\* A step of a page: the database and the threads stay, and with them all that
\* is said of them.
LEMMA PageStep ==
  ASSUME CommunicationInv, UNCHANGED <<serverVars, thread, notificationVars>>,
         CommunicationTypeOK', ListedIsStored'
  PROVE  CommunicationInv'
  BY DEF serverVars, notificationVars, CommunicationInv, LockHeld, RowsNumbered, SequencesGapFree,
         ReceiptsBehind, ReadMeansReceipts, AnswerIsStored, Prior, ConsumedOnce

\* A socket comes and goes without an effect on what is stored.
LEMMA SocketStep ==
  ASSUME CommunicationInv, UNCHANGED notificationVars, NEW m \in Members, Connect(m) \/ Drop(m)
  PROVE  CommunicationInv'
  <1>1. UNCHANGED <<serverVars, thread, notificationVars, calls, reply, draft>>
    BY DEF Connect, Drop
  <1>2. wire' \in [Members -> Seq(RowType)]
    <2>1. wire \in [Members -> Seq(RowType)]
      BY DEF CommunicationInv, CommunicationTypeOK
    <2>2. <<>> \in Seq(RowType)
      OBVIOUS
    <2>3. wire' = wire \/ wire' = [wire EXCEPT ![m] = <<>>]
      BY DEF Connect, Drop
    <2> QED BY <2>1, <2>2, <2>3
  <1>3. CommunicationTypeOK' /\ ListedIsStored'
    BY <1>1, <1>2 DEF serverVars, notificationVars, CommunicationInv, CommunicationTypeOK, ListedIsStored
  <1> QED BY <1>1, <1>3, PageStep

\* A broadcast that arrives changes what its page has seen only.
LEMMA ReceiveStep ==
  ASSUME CommunicationInv, UNCHANGED notificationVars, NEW m \in Members, Receive(m)
  PROVE  CommunicationInv'
  <1>1. UNCHANGED <<serverVars, thread, notificationVars, reply, draft>>
    BY DEF Receive
  <1>2. wire \in [Members -> Seq(RowType)] /\ wire[m] \in Seq(RowType) /\ wire[m] # <<>>
    BY DEF CommunicationInv, CommunicationTypeOK, Receive
  <1>3. Head(wire[m]) \in RowType /\ Tail(wire[m]) \in Seq(RowType)
    BY <1>2
  <1>4. wire' \in [Members -> Seq(RowType)]
    BY <1>2, <1>3 DEF Receive
  <1>5. calls' \subseteq CallType
    <2>1. Head(wire[m]).sequence \in Nat
      BY <1>3 DEF RowType
    <2>2. ReceiptCall(m, "READ", Head(wire[m]).sequence) \in CallType
      BY <2>1, CallsMade
    <2> QED BY <2>2 DEF Receive, CommunicationInv, CommunicationTypeOK
  <1>6. CommunicationTypeOK' /\ ListedIsStored'
    BY <1>1, <1>4, <1>5 DEF serverVars, notificationVars, CommunicationInv, CommunicationTypeOK, ListedIsStored
  <1> QED BY <1>1, <1>6, PageStep

\* A listing is of stored messages.
LEMMA ListStep ==
  ASSUME CommunicationInv, UNCHANGED notificationVars, NEW m \in Members, Open(m) \/ Poll(m)
  PROVE  CommunicationInv'
  <1>1. UNCHANGED <<serverVars, thread, notificationVars, calls, wire, draft>>
    BY DEF Open, Poll
  <1>2. \A n : Listing(n) \subseteq rows
    BY DEF Listing
  <1>3. \E n : \E of \in {"OPEN", "POLL"} : reply' = [reply EXCEPT ![m] = [of |-> of, items |-> Listing(n)]]
    <2>1. CASE Open(m)
      <3>1. reply' = [reply EXCEPT ![m] = [of |-> "OPEN", items |-> Listing(0)]]
        BY <2>1 DEF Open
      <3> QED BY <3>1
    <2>2. CASE Poll(m)
      <3>1. reply' = [reply EXCEPT ![m] = [of |-> "POLL", items |-> Listing(cursor[m])]]
        BY <2>2 DEF Poll
      <3> QED BY <3>1
    <2> QED BY <2>1, <2>2
  <1>4. /\ reply' \in [Members -> [of : {"NOTHING", "MOUNT", "OPEN", "POLL"}, items : SUBSET RowType]]
        /\ reply'[m].items \subseteq rows /\ \A k \in Members : k # m => reply'[k] = reply[k]
    BY <1>2, <1>3 DEF CommunicationInv, CommunicationTypeOK
  <1>5. CommunicationTypeOK' /\ ListedIsStored'
    BY <1>1, <1>4 DEF serverVars, notificationVars, CommunicationInv, CommunicationTypeOK, ListedIsStored
  <1> QED BY <1>1, <1>5, PageStep

\* Merging a listing leaves the server as it is.
LEMMA ApplyStep ==
  ASSUME CommunicationInv, UNCHANGED notificationVars, NEW m \in Members, Apply(m)
  PROVE  CommunicationInv'
  <1>1. UNCHANGED <<serverVars, thread, notificationVars, wire, draft>>
    BY DEF Apply
  <1>2. /\ reply' \in [Members -> [of : {"NOTHING", "MOUNT", "OPEN", "POLL"}, items : SUBSET RowType]]
        /\ reply'[m].items = {} /\ \A k \in Members : k # m => reply'[k] = reply[k]
    BY DEF Apply, NoReply, CommunicationInv, CommunicationTypeOK
  <1>3. calls' \subseteq CallType
    <2>1. LastOf(reply[m].items, 0) \in Nat
      BY LastOfIn DEF CommunicationInv, ListedIsStored
    <2>2. ReceiptCall(m, "READ", LastOf(reply[m].items, 0)) \in CallType
      BY <2>1, CallsMade
    <2> QED BY <2>2 DEF Apply, CommunicationInv, CommunicationTypeOK
  <1>4. CommunicationTypeOK' /\ ListedIsStored'
    BY <1>1, <1>2, <1>3 DEF serverVars, notificationVars, CommunicationInv, CommunicationTypeOK, ListedIsStored
  <1> QED BY <1>1, <1>4, PageStep

\* Writing and editing change the draft of the page only.
LEMMA DraftStep ==
  ASSUME CommunicationInv, UNCHANGED notificationVars, NEW m \in Members, Write(m) \/ Edit(m)
  PROVE  CommunicationInv'
  <1>1. UNCHANGED <<serverVars, thread, notificationVars, calls, wire, reply>>
    BY DEF Write, Edit
  <1>2. Cardinality({r \in rows : r.by = m}) \in Nat
    <2>1. IsFiniteSet(rows)
      BY DEF CommunicationInv, RowsNumbered
    <2>2. IsFiniteSet({r \in rows : r.by = m})
      BY <2>1, FS_Subset
    <2> QED BY <2>2, FS_CardinalityType
  <1>3. draft' \in [Members -> [id : Nat, text : Nat]]
    <2>1. draft \in [Members -> [id : Nat, text : Nat]]
      BY DEF CommunicationInv, CommunicationTypeOK
    <2>2. CASE Write(m)
      <3>1. draft' = [draft EXCEPT ![m] = [id |-> 1 + Cardinality({r \in rows : r.by = m}), text |-> 1]]
        BY <2>2 DEF Write
      <3> QED BY <1>2, <2>1, <3>1
    <2>3. CASE Edit(m)
      <3>1. draft' = [draft EXCEPT ![m].text = 2]
        BY <2>3 DEF Edit
      <3> QED BY <2>1, <3>1
    <2> QED BY <2>2, <2>3
  <1>4. CommunicationTypeOK' /\ ListedIsStored'
    BY <1>1, <1>3 DEF serverVars, notificationVars, CommunicationInv, CommunicationTypeOK, ListedIsStored
  <1> QED BY <1>1, <1>4, PageStep

\* A request on its way asks for what the page has.
LEMMA RequestStep ==
  ASSUME CommunicationInv, UNCHANGED notificationVars, NEW m \in Members, Submit(m) \/ Report(m)
  PROVE  CommunicationInv'
  <1>1. UNCHANGED <<serverVars, thread, notificationVars, wire, reply, draft>>
    BY DEF Submit, Report, pageVars
  <1>2. calls' \subseteq CallType
    <2>1. \A n \in 1..(next - 1) : n \in Nat
      BY DEF CommunicationInv, CommunicationTypeOK
    <2>2. calls \subseteq CallType
      BY DEF CommunicationInv, CommunicationTypeOK
    <2>3. CASE Submit(m)
      BY <2>2, <2>3, CallsMade DEF Submit
    <2>4. CASE Report(m)
      <3>1. PICK type \in {"DELIVERED", "READ"}, n \in 1..(next - 1) :
              calls' = calls \union {ReceiptCall(m, type, n)}
        BY <2>4 DEF Report
      <3> QED BY <2>1, <2>2, <3>1, CallsMade
    <2> QED BY <2>3, <2>4
  <1>3. CommunicationTypeOK' /\ ListedIsStored'
    BY <1>1, <1>2 DEF serverVars, notificationVars, CommunicationInv, CommunicationTypeOK, ListedIsStored
  <1> QED BY <1>1, <1>3, PageStep
-----------------------------------------------------------------------------
(* The threads of the server.                                                *)

\* A thread that ends or goes on to its answer.
LEMMA Unlocked ==
  ASSUME CommunicationInv, NEW t \in Threads, NEW at \in {"IDLE", "ANSWER"}, Unlock(t, at)
  PROVE  /\ thread' \in [Threads -> [call : CallType \union {NoCall}, at : {"IDLE", "LOCKED", "ANSWER"}, read : Nat]]
         /\ thread'[t].at = at /\ (at = "ANSWER" => thread'[t].call = thread[t].call)
         /\ \A u \in Threads : u # t => thread'[u] = thread[u]
         /\ holder' \in Threads \union {"NOBODY"} /\ holder' # t
         /\ \A u \in Threads : u # t => (holder' = u <=> holder = u)
  <1>1. /\ thread \in [Threads -> [call : CallType \union {NoCall}, at : {"IDLE", "LOCKED", "ANSWER"}, read : Nat]]
        /\ holder \in Threads \union {"NOBODY"}
    BY DEF CommunicationInv, CommunicationTypeOK
  <1>2. holder' \in Threads \union {"NOBODY"} /\ holder' # t
    BY <1>1, ConversationAssumption DEF Unlock
  <1>3. \A u \in Threads : u # t => (holder' = u <=> holder = u)
    BY <1>1, ConversationAssumption DEF Unlock
  <1>4. Resting \in [call : CallType \union {NoCall}, at : {"IDLE", "LOCKED", "ANSWER"}, read : Nat]
    BY DEF Resting
  <1>5. CASE at = "IDLE"
    <2>1. thread' = [thread EXCEPT ![t] = Resting]
      BY <1>5 DEF Unlock
    <2>2. thread'[t].at = "IDLE"
      BY <1>1, <2>1 DEF Resting
    <2> QED BY <1>1, <1>2, <1>3, <1>4, <1>5, <2>1, <2>2
  <1>6. CASE at = "ANSWER"
    <2>1. thread' = [thread EXCEPT ![t] = [thread[t] EXCEPT !.at = "ANSWER", !.read = 0]]
      BY <1>6 DEF Unlock
    <2> QED BY <1>1, <1>2, <1>3, <1>6, <2>1
  <1> QED BY <1>5, <1>6

\* The thread that gets the lock reads the number that is next.
LEMMA LockStep ==
  ASSUME CommunicationInv, UNCHANGED notificationVars, NEW t \in Threads, Lock(t)
  PROVE  CommunicationInv'
  <1> USE DEF CommunicationInv
  <1>1. PICK c \in calls :
          /\ thread[t].at = "IDLE" /\ holder = "NOBODY"
          /\ thread' = [thread EXCEPT ![t] = [call |-> c, at |-> "LOCKED", read |-> next]]
          /\ calls' = calls \ {c} /\ holder' = t
          /\ UNCHANGED <<roles, next, rows, receipts, lastRead, events, faults, pageVars>>
    BY DEF Lock
  <1>2. UNCHANGED <<next, rows, receipts, lastRead, events, wire, reply, draft, consumed, announced, worker>>
    BY <1>1 DEF pageVars, notificationVars
  <1>3. c \in CallType /\ next \in Nat
    BY DEF CommunicationTypeOK
  <1>4. /\ thread' \in [Threads -> [call : CallType \union {NoCall}, at : {"IDLE", "LOCKED", "ANSWER"}, read : Nat]]
        /\ thread'[t].at = "LOCKED" /\ thread'[t].read = next /\ thread'[t].call = c
        /\ \A u \in Threads : u # t => thread'[u] = thread[u]
    BY <1>1, <1>3 DEF CommunicationTypeOK
  <1>5. CommunicationTypeOK'
    BY <1>1, <1>2, <1>4 DEF CommunicationTypeOK
  <1>6. LockHeld'
    BY <1>1, <1>2, <1>3, <1>4, ConversationAssumption DEF LockHeld
  <1>7. RowsNumbered' /\ ReceiptsBehind' /\ ReadMeansReceipts' /\ ListedIsStored' /\ ConsumedOnce'
    BY <1>2 DEF RowsNumbered, SequencesGapFree, ReceiptsBehind, ReadMeansReceipts, ListedIsStored, ConsumedOnce
  <1>8. AnswerIsStored'
    BY <1>2, <1>4 DEF AnswerIsStored, Prior
  <1> QED BY <1>5, <1>6, <1>7, <1>8

\* A new message gets the next number, and nobody else has read it to use it.
LEMMA CommitMessageStep ==
  ASSUME CommunicationInv, UNCHANGED notificationVars, NEW t \in Threads, CommitMessage(t)
  PROVE  CommunicationInv'
  <1> USE DEF CommunicationInv
  <1> DEFINE c == thread[t].call
             row == [by |-> c.by, id |-> c.id, text |-> c.text, sequence |-> thread[t].read]
  <1>1. /\ thread[t].at = "LOCKED" /\ Prior(c) = {} /\ Unlock(t, "ANSWER")
        /\ rows' = rows \union {row} /\ next' = thread[t].read + 1
        /\ events' = events \union {[message |-> row.sequence, to |-> m] : m \in Members \ {c.by}}
        /\ UNCHANGED <<receipts, lastRead, calls, wire, reply, draft, consumed, announced, worker>>
    BY DEF CommitMessage, pageVars, notificationVars
  <1>2. c \in CallType /\ thread[t].read = next /\ next \in Nat \ {0}
    BY <1>1 DEF LockHeld, CommunicationTypeOK
  <1>3. row \in RowType /\ row.sequence = next /\ row.by = c.by /\ row.id = c.id /\ row.text = c.text
    BY <1>2 DEF CallType, RowType
  <1>4. next' = next + 1 /\ next' \in Nat \ {0} /\ holder = t
    BY <1>1, <1>2 DEF LockHeld
  <1>5. /\ thread' \in [Threads -> [call : CallType \union {NoCall}, at : {"IDLE", "LOCKED", "ANSWER"}, read : Nat]]
        /\ thread'[t].at = "ANSWER" /\ thread'[t].call = c
        /\ \A u \in Threads : u # t => thread'[u] = thread[u]
        /\ holder' \in Threads \union {"NOBODY"} /\ holder' # t
        /\ \A u \in Threads : u # t => (holder' = u <=> holder = u)
    BY <1>1, Unlocked
  <1>6. \A r \in rows : r.sequence \in 1..(next - 1) /\ r.sequence < next
    BY <1>2 DEF RowsNumbered, SequencesGapFree
  <1> HIDE DEF row, c
  <1>7. events' \subseteq [message : Nat, to : Members]
    BY <1>1, <1>2, <1>3 DEF CommunicationTypeOK
  <1>8. CommunicationTypeOK'
    BY <1>1, <1>3, <1>4, <1>5, <1>7 DEF CommunicationTypeOK
  <1>9. LockHeld'
    BY <1>2, <1>4, <1>5 DEF LockHeld
  <1>10. row \notin rows
    BY <1>3, <1>6
  <1>11. RowsNumbered'
    <2>1. IsFiniteSet(rows) /\ Cardinality(rows) = next - 1
      BY DEF RowsNumbered, SequencesGapFree
    <2>2. IsFiniteSet(rows') /\ Cardinality(rows') = next' - 1
      BY <1>1, <1>2, <1>4, <1>10, <2>1, FS_AddElement
    <2>3. {r.sequence : r \in rows'} = 1..(next' - 1)
      <3>1. {r.sequence : r \in rows} = 1..(next - 1)
        BY DEF RowsNumbered, SequencesGapFree
      <3>2. {r.sequence : r \in rows'} = {r.sequence : r \in rows} \union {next}
        BY <1>1, <1>3
      <3>3. 1..(next' - 1) = (1..(next - 1)) \union {next}
        BY <1>2, <1>4
      <3> QED BY <3>1, <3>2, <3>3
    <2>4. \A q, r \in rows' : q.sequence = r.sequence => q = r
      BY <1>1, <1>3, <1>6 DEF RowsNumbered
    <2>5. \A q, r \in rows' : q.by = r.by /\ q.id = r.id => q = r
      <3>1. \A r \in rows : ~(r.by = row.by /\ r.id = row.id)
        BY <1>1, <1>3 DEF Prior
      <3> QED BY <1>1, <3>1 DEF RowsNumbered, SequencesGapFree
    <2> QED BY <2>2, <2>3, <2>4, <2>5 DEF RowsNumbered, SequencesGapFree
  <1>12. ReceiptsBehind'
    <2>1. \A m \in Members : lastRead[m] \in Nat /\ lastRead[m] < next
      BY DEF ReceiptsBehind, CommunicationTypeOK
    <2>2. \A m \in Members : lastRead'[m] < next'
      BY <1>1, <1>2, <1>4, <2>1
    <2>3. \A s : s \in 1..(next - 1) => s \in 1..(next' - 1)
      BY <1>2, <1>4
    <2> QED BY <1>1, <2>2, <2>3 DEF ReceiptsBehind
  <1>13. ReadMeansReceipts'
    <2>1. ASSUME NEW m \in Members
          PROVE  ~(row.sequence <= lastRead[m]) /\ <<row.sequence, m, "READ">> \notin receipts
      <3>1. lastRead[m] \in Nat /\ lastRead[m] < next /\ next \notin 1..(next - 1)
        BY <1>2 DEF ReceiptsBehind, CommunicationTypeOK
      <3> QED BY <1>2, <1>3, <3>1 DEF ReceiptsBehind
    <2> QED BY <1>1, <2>1 DEF ReadMeansReceipts
  <1>14. ListedIsStored' /\ ConsumedOnce'
    BY <1>1 DEF ListedIsStored, ConsumedOnce
  <1>15. AnswerIsStored'
    <2>1. ASSUME NEW u \in Threads, thread'[u].at = "ANSWER"
          PROVE  \E r \in rows' : /\ r.by = thread'[u].call.by /\ r.id = thread'[u].call.id
                                  /\ r.text = thread'[u].call.text
      <3>1. CASE u = t
        BY <1>1, <1>3, <1>5, <3>1
      <3>2. CASE u # t
        BY <1>1, <1>5, <2>1, <3>2 DEF AnswerIsStored, Prior
      <3> QED BY <3>1, <3>2
    <2> QED BY <2>1 DEF AnswerIsStored, Prior
  <1> QED BY <1>8, <1>9, <1>11, <1>12, <1>13, <1>14, <1>15

\* A thread that stores nothing lets the row go.
LEMMA LetGoStep ==
  ASSUME CommunicationInv, NEW t \in Threads, NEW at \in {"IDLE", "ANSWER"}, Unlock(t, at),
         UNCHANGED <<next, rows, events, calls, wire, reply, draft, consumed, announced, worker>>,
         at = "ANSWER" => /\ thread[t].call \in CallType
                          /\ \E r \in Prior(thread[t].call) : r.text = thread[t].call.text,
         lastRead' \in [Members -> Nat], ReceiptsBehind', ReadMeansReceipts'
  PROVE  CommunicationInv'
  <1> USE DEF CommunicationInv
  <1>1. /\ thread' \in [Threads -> [call : CallType \union {NoCall}, at : {"IDLE", "LOCKED", "ANSWER"}, read : Nat]]
        /\ thread'[t].at = at /\ (at = "ANSWER" => thread'[t].call = thread[t].call)
        /\ \A u \in Threads : u # t => thread'[u] = thread[u]
        /\ holder' \in Threads \union {"NOBODY"} /\ holder' # t
        /\ \A u \in Threads : u # t => (holder' = u <=> holder = u)
    BY Unlocked
  <1>2. CommunicationTypeOK'
    BY <1>1 DEF CommunicationTypeOK
  <1>3. LockHeld'
    BY <1>1 DEF LockHeld
  <1>4. RowsNumbered' /\ ListedIsStored' /\ ConsumedOnce'
    BY DEF RowsNumbered, SequencesGapFree, ListedIsStored, ConsumedOnce
  <1>5. AnswerIsStored'
    BY <1>1 DEF AnswerIsStored, Prior
  <1> QED BY <1>2, <1>3, <1>4, <1>5

\* A repeated message is answered if the stored one has the same words.
LEMMA RepeatMessageStep ==
  ASSUME CommunicationInv, UNCHANGED notificationVars, NEW t \in Threads, RepeatMessage(t)
  PROVE  CommunicationInv'
  <1> DEFINE c == thread[t].call
             at == IF \E r \in Prior(c) : r.text = c.text THEN "ANSWER" ELSE "IDLE"
  <1>1. /\ thread[t].at = "LOCKED" /\ Unlock(t, at) /\ at \in {"IDLE", "ANSWER"}
        /\ at = "ANSWER" => \E r \in Prior(c) : r.text = c.text
        /\ UNCHANGED <<next, rows, receipts, lastRead, events, calls, wire, reply, draft, consumed, announced, worker>>
    BY DEF RepeatMessage, pageVars, notificationVars
  <1>2. c \in CallType
    BY <1>1 DEF CommunicationInv, LockHeld
  <1>3. lastRead' \in [Members -> Nat] /\ ReceiptsBehind' /\ ReadMeansReceipts'
    BY <1>1 DEF CommunicationInv, CommunicationTypeOK, ReceiptsBehind, ReadMeansReceipts
  <1> HIDE DEF at
  <1> QED BY <1>1, <1>2, <1>3, LetGoStep

\* A thread that dies gives up its lock and takes nothing back.
LEMMA CrashStep ==
  ASSUME CommunicationInv, UNCHANGED notificationVars, NEW t \in Threads, Crash(t)
  PROVE  CommunicationInv'
  <1>1. /\ Unlock(t, "IDLE")
        /\ UNCHANGED <<next, rows, receipts, lastRead, events, calls, wire, reply, draft, consumed, announced, worker>>
    BY DEF Crash, pageVars, notificationVars
  <1>2. lastRead' \in [Members -> Nat] /\ ReceiptsBehind' /\ ReadMeansReceipts'
    BY <1>1 DEF CommunicationInv, CommunicationTypeOK, ReceiptsBehind, ReadMeansReceipts
  <1> QED BY <1>1, <1>2, LetGoStep

\* Receipts and the read cursor advance together.
LEMMA CommitReceiptsStep ==
  ASSUME CommunicationInv, UNCHANGED notificationVars, NEW t \in Threads, CommitReceipts(t)
  PROVE  CommunicationInv'
  <1> DEFINE c == thread[t].call
             types == IF c.wants = "READ" THEN {"DELIVERED", "READ"} ELSE {"DELIVERED"}
             peers == {r.sequence : r \in {q \in rows : q.sequence <= c.through /\ q.by # c.by}}
  <1>1. /\ thread[t].at = "LOCKED" /\ c.wants \in {"READ", "DELIVERED"} /\ Unlock(t, "IDLE")
        /\ UNCHANGED <<next, rows, events, calls, wire, reply, draft, consumed, announced, worker>>
    BY DEF CommitReceipts, pageVars, notificationVars
  <1>2. c \in CallType /\ c.by \in Members /\ c.through \in Nat /\ next \in Nat
    BY <1>1 DEF CommunicationInv, CommunicationTypeOK, LockHeld, CallType
  <1>3. lastRead \in [Members -> Nat] /\ ReceiptsBehind /\ ReadMeansReceipts
    BY DEF CommunicationInv, CommunicationTypeOK
  <1>4. CASE UNCHANGED <<receipts, lastRead>>
    <2>1. lastRead' \in [Members -> Nat] /\ ReceiptsBehind' /\ ReadMeansReceipts'
      BY <1>1, <1>3, <1>4 DEF ReceiptsBehind, ReadMeansReceipts
    <2> QED BY <1>1, <2>1, LetGoStep
  <1>5. CASE /\ MayMark(c) /\ (c.wants = "READ" => c.through > lastRead[c.by])
             /\ receipts' = receipts \union (peers \X {c.by} \X types)
             /\ lastRead' = IF c.wants = "READ" THEN [lastRead EXCEPT ![c.by] = c.through] ELSE lastRead
    <2>1. /\ lastRead' \in [Members -> Nat]
          /\ \A m \in Members : lastRead'[m] = IF m = c.by /\ c.wants = "READ" THEN c.through ELSE lastRead[m]
      BY <1>2, <1>3, <1>5
    <2>2. \A r \in rows : r.sequence \in 1..(next - 1)
      BY DEF CommunicationInv, RowsNumbered, SequencesGapFree
    <2>3. \A s, m, type : <<s, m, type>> \in receipts' <=>
            <<s, m, type>> \in receipts \/ (s \in peers /\ m = c.by /\ type \in types)
      BY <1>5
    <2>4. ASSUME NEW r \in rows PROVE r.sequence \in peers <=> r.sequence <= c.through /\ r.by # c.by
      BY DEF CommunicationInv, RowsNumbered
    <2>5. \A s \in peers : s \in 1..(next - 1)
      BY <2>2
    <2> HIDE DEF peers
    <2>6. ReceiptsBehind'
      <3>1. c.through < next
        BY <1>5 DEF MayMark
      <3> QED BY <1>1, <1>2, <1>3, <2>1, <2>3, <2>5, <3>1 DEF ReceiptsBehind
    <2>7. ReadMeansReceipts'
      <3>1. ASSUME NEW m \in Members, NEW r \in rows, r.by # m
            PROVE  /\ <<r.sequence, m, "READ">> \in receipts' <=> r.sequence <= lastRead'[m]
                   /\ <<r.sequence, m, "READ">> \in receipts' => <<r.sequence, m, "DELIVERED">> \in receipts'
        <4>1. /\ <<r.sequence, m, "READ">> \in receipts <=> r.sequence <= lastRead[m]
              /\ <<r.sequence, m, "READ">> \in receipts => <<r.sequence, m, "DELIVERED">> \in receipts
              /\ r.sequence \in Nat /\ lastRead[m] \in Nat
          BY <1>2, <1>3, <2>2, <3>1 DEF ReadMeansReceipts
        <4>2. CASE m = c.by /\ c.wants = "READ"
          <5>1. types = {"DELIVERED", "READ"} /\ c.through > lastRead[m] /\ lastRead'[m] = c.through
            BY <1>5, <2>1, <4>2
          <5>2. r.sequence \in peers <=> r.sequence <= c.through
            BY <2>4, <3>1, <4>2
          <5> QED BY <1>2, <2>3, <4>1, <4>2, <5>1, <5>2
        <4>3. CASE ~(m = c.by /\ c.wants = "READ")
          BY <2>1, <2>3, <4>1, <4>3
        <4> QED BY <4>2, <4>3
      <3> QED BY <1>1, <3>1 DEF ReadMeansReceipts
    <2> QED BY <1>1, <2>1, <2>6, <2>7, LetGoStep
  <1> QED BY <1>4, <1>5 DEF CommitReceipts

\* An answer and its broadcast are of a message that is stored.
LEMMA AnswerStep ==
  ASSUME CommunicationInv, UNCHANGED notificationVars, NEW t \in Threads, Answer(t)
  PROVE  CommunicationInv'
  <1> USE DEF CommunicationInv
  <1>1. PICK row \in Prior(thread[t].call) :
          /\ \/ wire' = [m \in Members |-> IF m \in live THEN Append(wire[m], row) ELSE wire[m]]
             \/ UNCHANGED wire
          /\ Acknowledge(thread[t].call, row)
    BY DEF Answer
  <1>2. /\ thread[t].at = "ANSWER" /\ thread' = [thread EXCEPT ![t] = Resting]
        /\ UNCHANGED <<next, holder, rows, receipts, lastRead, events, calls, reply, consumed, announced, worker>>
    BY DEF Answer, serverVars, notificationVars
  <1>3. row \in RowType
    BY DEF CommunicationTypeOK, Prior
  <1>4. wire' \in [Members -> Seq(RowType)]
    <2>1. wire \in [Members -> Seq(RowType)]
      BY DEF CommunicationTypeOK
    <2>2. \A m \in Members : wire[m] \in Seq(RowType) /\ Append(wire[m], row) \in Seq(RowType)
      BY <1>3, <2>1
    <2> QED BY <1>1, <2>1, <2>2
  <1>5. draft' \in [Members -> [id : Nat, text : Nat]]
    <2>1. draft \in [Members -> [id : Nat, text : Nat]] /\ [id |-> 0, text |-> 0] \in [id : Nat, text : Nat]
      BY DEF CommunicationTypeOK
    <2>2. draft' = draft \/ draft' = [draft EXCEPT ![row.by] = [id |-> 0, text |-> 0]]
      BY <1>1 DEF Acknowledge
    <2> QED BY <2>1, <2>2
  <1>6. /\ thread' \in [Threads -> [call : CallType \union {NoCall}, at : {"IDLE", "LOCKED", "ANSWER"}, read : Nat]]
        /\ thread'[t].at = "IDLE" /\ \A u \in Threads : u # t => thread'[u] = thread[u]
    BY <1>2 DEF CommunicationTypeOK, Resting
  <1>7. CommunicationTypeOK'
    BY <1>2, <1>4, <1>5, <1>6 DEF CommunicationTypeOK
  <1>8. LockHeld'
    BY <1>2, <1>6 DEF LockHeld
  <1>9. RowsNumbered' /\ ReceiptsBehind' /\ ReadMeansReceipts' /\ ListedIsStored' /\ ConsumedOnce'
    BY <1>2 DEF RowsNumbered, SequencesGapFree, ReceiptsBehind, ReadMeansReceipts, ListedIsStored, ConsumedOnce
  <1>10. AnswerIsStored'
    BY <1>2, <1>6 DEF AnswerIsStored, Prior
  <1> QED BY <1>7, <1>8, <1>9, <1>10
-----------------------------------------------------------------------------
(* The notification workers.                                                 *)

\* A worker changes its own state, the receipts and the announcements.
LEMMA WorkerStep ==
  ASSUME CommunicationInv, UNCHANGED <<next, holder, rows, receipts, lastRead, events, calls, thread, wire, reply, draft>>,
         announced' \in [Events -> Nat],
         worker' \in [Workers -> [event : [message : Nat, to : Members \union {"NOBODY"}],
                                  at : {"IDLE", "LISTED", "LOCKED", "COMMITTED"}]],
         ConsumedOnce'
  PROVE  CommunicationInv'
  BY DEF CommunicationInv, CommunicationTypeOK, LockHeld, RowsNumbered, SequencesGapFree,
         ReceiptsBehind, ReadMeansReceipts, ListedIsStored, AnswerIsStored, Prior

\* A drain consumes an event at most once, whoever else has listed it.
LEMMA DrainStep ==
  ASSUME CommunicationInv, NEW w \in Workers, Drain(w) \/ WorkerDies(w)
  PROVE  CommunicationInv'
  <1> DEFINE WorkerType == [event : [message : Nat, to : Members \union {"NOBODY"}],
                            at : {"IDLE", "LISTED", "LOCKED", "COMMITTED"}]
  <1>1. UNCHANGED <<next, holder, rows, receipts, lastRead, events, calls, thread, wire, reply, draft>>
    BY DEF Drain, Collect, TakeEvent, Consume, Announce, WorkerDies, conversationVars, serverVars, pageVars
  <1>2. worker \in [Workers -> WorkerType] /\ announced \in [Events -> Nat] /\ ConsumedOnce
    BY DEF CommunicationInv, CommunicationTypeOK
  <1>3. Free \in WorkerType /\ Free.at = "IDLE" /\ \A e \in events : [event |-> e, at |-> "LISTED"] \in WorkerType
    BY DEF Free, NoEvent, CommunicationInv, CommunicationTypeOK
  <1> HIDE DEF WorkerType
  \* What a worker that has not committed becomes does not matter.
  <1>4. ASSUME NEW x \in WorkerType, x.at # "COMMITTED", worker' = [worker EXCEPT ![w] = x],
               UNCHANGED <<consumed, announced>>
        PROVE  CommunicationInv'
    <2>1. worker' \in [Workers -> WorkerType] /\ worker'[w].at # "COMMITTED"
          /\ \A v \in Workers : v # w => worker'[v] = worker[v]
      BY <1>2, <1>4
    <2>2. ConsumedOnce'
      BY <1>2, <1>4, <2>1 DEF ConsumedOnce
    <2> QED BY <1>1, <1>2, <1>4, <2>1, <2>2, WorkerStep DEF WorkerType
  <1>5. CASE Collect(w)
    <2>1. PICK e \in events : worker' = [worker EXCEPT ![w] = [event |-> e, at |-> "LISTED"]]
      BY <1>5 DEF Collect
    <2>2. UNCHANGED <<consumed, announced>>
      BY <1>5 DEF Collect
    <2>3. [event |-> e, at |-> "LISTED"] \in WorkerType /\ [event |-> e, at |-> "LISTED"].at = "LISTED"
      BY <1>3
    <2> QED BY <1>4, <2>1, <2>2, <2>3
  <1>6. CASE TakeEvent(w)
    <2>1. worker' = [worker EXCEPT ![w] = [worker[w] EXCEPT !.at = "LOCKED"]] /\ UNCHANGED <<consumed, announced>>
      BY <1>6 DEF TakeEvent
    <2>2. [worker[w] EXCEPT !.at = "LOCKED"] \in WorkerType /\ [worker[w] EXCEPT !.at = "LOCKED"].at = "LOCKED"
      BY <1>2 DEF WorkerType
    <2> QED BY <1>4, <2>1, <2>2
  <1>7. CASE WorkerDies(w)
    BY <1>3, <1>4, <1>7 DEF WorkerDies
  <1>8. CASE Consume(w) /\ worker[w].event \in consumed
    BY <1>3, <1>4, <1>8 DEF Consume
  <1>9. CASE Consume(w) /\ worker[w].event \notin consumed
    <2>1. /\ worker' = [worker EXCEPT ![w] = [worker[w] EXCEPT !.at = "COMMITTED"]] /\ UNCHANGED announced
          /\ consumed' = consumed \union {worker[w].event}
      BY <1>9 DEF Consume
    <2>2. /\ worker' \in [Workers -> WorkerType] /\ worker'[w].event = worker[w].event
          /\ \A v \in Workers : v # w => worker'[v] = worker[v]
      BY <1>2, <2>1 DEF WorkerType
    <2>3. ConsumedOnce'
      BY <1>2, <1>9, <2>1, <2>2 DEF ConsumedOnce
    <2> QED BY <1>1, <1>2, <2>1, <2>2, <2>3, WorkerStep DEF WorkerType
  <1>10. CASE Announce(w)
    <2>1. /\ worker[w].at = "COMMITTED" /\ worker' = [worker EXCEPT ![w] = Free] /\ UNCHANGED consumed
          /\ announced' = [announced EXCEPT ![worker[w].event] = @ + 1]
      BY <1>10 DEF Announce
    <2>2. /\ worker' \in [Workers -> WorkerType] /\ worker'[w].at # "COMMITTED"
          /\ \A v \in Workers : v # w => worker'[v] = worker[v]
      BY <1>2, <1>3, <2>1
    <2>3. /\ announced' \in [Events -> Nat]
          /\ \A e \in Events : announced'[e] = IF e = worker[w].event THEN 1 ELSE announced[e]
      <3>1. worker[w].event \in Events => announced[worker[w].event] = 0
        BY <1>2, <2>1 DEF ConsumedOnce
      <3> DEFINE f == worker[w].event
      <3>2. announced' = [announced EXCEPT ![f] = announced[f] + 1]
        BY <2>1
      <3> HIDE DEF f
      <3>3. f \in Events => announced[f] + 1 = 1
        BY <3>1 DEF f
      <3>4. \A e \in Events : announced'[e] = IF e = f THEN announced[f] + 1 ELSE announced[e]
        BY <1>2, <3>2
      <3>5. announced' \in [Events -> Nat]
        <4>1. announced' = [e \in Events |-> IF e = f THEN announced[f] + 1 ELSE announced[e]]
          BY <1>2, <3>2
        <4>2. \A e \in Events : (IF e = f THEN announced[f] + 1 ELSE announced[e]) \in Nat
          BY <1>2, <3>3
        <4> QED BY <4>1, <4>2, Zenon
      <3> QED BY <3>3, <3>4, <3>5 DEF f
    <2>4. ConsumedOnce'
      BY <1>2, <2>1, <2>2, <2>3 DEF ConsumedOnce
    <2> QED BY <1>1, <2>2, <2>3, <2>4, WorkerStep DEF WorkerType
  <1> QED BY <1>5, <1>6, <1>7, <1>8, <1>9, <1>10 DEF Drain
-----------------------------------------------------------------------------
(* The theorems.                                                             *)

\* An empty conversation satisfies the invariant.
LEMMA CommunicationInitial == Init => CommunicationInv
  <1> SUFFICES ASSUME Init PROVE CommunicationInv
    OBVIOUS
  <1> USE DEF Init, ConversationInit, NotificationInit
  <1>1. CommunicationTypeOK
    <2>1. wire \in [Members -> Seq(RowType)]
      OBVIOUS
    <2> QED BY <2>1 DEF CommunicationTypeOK, Resting, NotOpened, Free, NoEvent
  <1>2. LockHeld /\ AnswerIsStored
    BY ConversationAssumption DEF LockHeld, AnswerIsStored, Resting
  <1>3. RowsNumbered
    BY FS_EmptySet DEF RowsNumbered, SequencesGapFree
  <1>4. ReceiptsBehind /\ ReadMeansReceipts /\ ListedIsStored
    BY DEF ReceiptsBehind, ReadMeansReceipts, ListedIsStored, NotOpened
  <1>5. ConsumedOnce
    BY DEF ConsumedOnce, Free
  <1> QED BY <1>1, <1>2, <1>3, <1>4, <1>5 DEF CommunicationInv

\* What is stored, locked, read and consumed stays consistent through every
\* interleaving of threads, pages and workers, and every crash of one.
THEOREM CommunicationInvariant == Spec => []CommunicationInv
  <1>1. CommunicationInv /\ [Next]_vars => CommunicationInv'
    <2> SUFFICES ASSUME CommunicationInv, [Next]_vars PROVE CommunicationInv'
      OBVIOUS
    <2>1. CASE UNCHANGED vars
      <3>1. CommunicationTypeOK' /\ ListedIsStored'
        BY <2>1 DEF vars, conversationVars, notificationVars, CommunicationInv, CommunicationTypeOK, ListedIsStored
      <3> QED BY <2>1, <3>1, PageStep DEF vars, conversationVars, serverVars
    <2>2. ASSUME NEW t \in Threads, UNCHANGED notificationVars,
                 \/ Lock(t) \/ CommitMessage(t) \/ RepeatMessage(t) \/ CommitReceipts(t)
                 \/ Answer(t) \/ Crash(t)
          PROVE  CommunicationInv'
      BY <2>2, LockStep, CommitMessageStep, RepeatMessageStep, CommitReceiptsStep, AnswerStep, CrashStep
    <2>3. ASSUME NEW m \in Members, UNCHANGED notificationVars,
                 \/ Connect(m) \/ Drop(m) \/ Receive(m) \/ Open(m) \/ Poll(m) \/ Apply(m)
                 \/ Write(m) \/ Edit(m) \/ Submit(m) \/ Report(m)
          PROVE  CommunicationInv'
      BY <2>3, SocketStep, ReceiveStep, ListStep, ApplyStep, DraftStep, RequestStep
    <2>4. ASSUME NEW w \in Workers, Drain(w) \/ WorkerDies(w) PROVE CommunicationInv'
      BY <2>4, DrainStep
    <2> QED BY <2>1, <2>2, <2>3, <2>4 DEF Next, ConversationNext
  <1> QED BY <1>1, CommunicationInitial, PTL DEF Spec

\* The numbers of a conversation's messages have no gap and its client message
\* ids no second row, whatever threads, retries and crashes interleave.
THEOREM SequencesGapFreeHolds == Spec => []SequencesGapFree
  <1>1. CommunicationInv => SequencesGapFree
    BY DEF CommunicationInv, RowsNumbered
  <1> QED BY <1>1, CommunicationInvariant, PTL

\* A peer's message is READ exactly when the read cursor has passed it, and
\* DELIVERED then, however late and in whatever order the reports arrive.
THEOREM ReadMeansReceiptsHolds == Spec => []ReadMeansReceipts
  <1>1. CommunicationInv => ReadMeansReceipts
    BY DEF CommunicationInv
  <1> QED BY <1>1, CommunicationInvariant, PTL

\* Any number of workers announces a notification once at most.
THEOREM AnnouncedOnceHolds == Spec => []AnnouncedOnce
  <1>1. CommunicationInv => AnnouncedOnce
    BY DEF CommunicationInv, ConsumedOnce, AnnouncedOnce
  <1> QED BY <1>1, CommunicationInvariant, PTL

\* A page that is told its message was sent finds the words it sent stored.
THEOREM SentAsWrittenHolds == Spec => SentAsWritten
  <1> DEFINE Told == \A m \in Members : draft[m].id # 0 /\ draft'[m].id = 0 =>
               \E r \in rows : r.by = m /\ r.id = draft[m].id /\ r.text = draft[m].text
  <1>1. CommunicationInv /\ [Next]_vars => [Told]_vars
    <2> SUFFICES ASSUME CommunicationInv, Next PROVE Told
      OBVIOUS
    <2>1. CASE UNCHANGED draft
      BY <2>1
    <2>2. ASSUME NEW t \in Threads, Answer(t) PROVE Told
      <3> DEFINE c == thread[t].call
      <3>1. PICK row \in Prior(c) : Acknowledge(c, row)
        BY <2>2 DEF Answer
      <3>2. PICK r \in Prior(c) : r.text = c.text
        BY <2>2 DEF Answer, CommunicationInv, AnswerIsStored
      <3>3. row = r /\ row \in rows /\ row.by = c.by /\ row.id = c.id /\ row.by \in Members
        BY DEF Prior, CommunicationInv, CommunicationTypeOK, RowType, RowsNumbered, SequencesGapFree
      <3>4. draft \in [Members -> [id : Nat, text : Nat]]
        BY DEF CommunicationInv, CommunicationTypeOK
      <3>5. CASE draft[row.by] = [id |-> c.id, text |-> c.text]
        <4>1. draft' = [draft EXCEPT ![row.by] = [id |-> 0, text |-> 0]]
          BY <3>1, <3>5 DEF Acknowledge
        <4>2. \A m \in Members : m # row.by => draft'[m] = draft[m]
          BY <3>4, <4>1
        <4>3. draft[row.by].id = c.id /\ draft[row.by].text = c.text
          BY <3>5
        <4> QED BY <3>2, <3>3, <4>2, <4>3
      <3>6. CASE draft[row.by] # [id |-> c.id, text |-> c.text]
        BY <2>1, <3>1, <3>6 DEF Acknowledge
      <3> QED BY <3>5, <3>6
    <2>3. ASSUME NEW m \in Members, Write(m) \/ Edit(m) PROVE Told
      <3>1. draft \in [Members -> [id : Nat, text : Nat]]
        BY DEF CommunicationInv, CommunicationTypeOK
      <3>2. \A k \in Members : k # m => draft'[k] = draft[k]
        BY <2>3, <3>1 DEF Write, Edit
      <3>3. draft[m].id = 0 \/ draft'[m].id = draft[m].id
        BY <2>3, <3>1 DEF Write, Edit
      <3> QED BY <3>2, <3>3
    <2>4. ASSUME NEW t \in Threads,
                 Lock(t) \/ CommitMessage(t) \/ RepeatMessage(t) \/ CommitReceipts(t) \/ Crash(t)
          PROVE  UNCHANGED draft
      BY <2>4 DEF Lock, CommitMessage, RepeatMessage, CommitReceipts, Crash, pageVars
    <2>5. ASSUME NEW m \in Members,
                 \/ Connect(m) \/ Drop(m) \/ Receive(m) \/ Open(m) \/ Poll(m) \/ Apply(m)
                 \/ Submit(m) \/ Report(m)
          PROVE  UNCHANGED draft
      BY <2>5 DEF Connect, Drop, Receive, Open, Poll, Apply, Submit, Report, pageVars
    <2>6. ASSUME NEW w \in Workers, Drain(w) \/ WorkerDies(w) PROVE UNCHANGED draft
      BY <2>6 DEF Drain, Collect, TakeEvent, Consume, Announce, WorkerDies, conversationVars, pageVars
    <2> QED BY <2>1, <2>2, <2>3, <2>4, <2>5, <2>6 DEF Next, ConversationNext
  <1> QED BY <1>1, CommunicationInvariant, PTL DEF Spec, SentAsWritten
=============================================================================
