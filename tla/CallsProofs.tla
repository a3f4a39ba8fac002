----------------------------- MODULE CallsProofs -----------------------------
(***************************************************************************)
(* Proofs about Calls for any number of calls and of lost sockets: at most *)
(* one call of a conversation is live, a call never goes back, and a page  *)
(* is connected to the peer of the call it is in, unless that call ended   *)
(* while one of its event handlers waited.                                 *)
(***************************************************************************)
EXTENDS Calls, FiniteSetTheorems, SequenceTheorems, TLAPS

Ops == {"INVITE", "ACCEPT", "END", "BUSY", "OFFER", "ANSWER"}
CallStatuses == {"ABSENT", "INVITED", "ACTIVE", "ENDED"}
Statuses == CallStatuses \union {"NONE", "BUSY", "FREE", "REFUSED"}

Handlers == [op : Ops, by : Members, call : Calls, at : {"SENT", "LOCKED", "COMMITTED", "PUBLISHED"},
             status : Statuses, heard : BOOLEAN]
Messages == [op : Ops, call : Calls, status : Statuses, answer : BOOLEAN]
Tasks == [op : {"OFFER", "ANSWER"}, by : Members, call : Calls, at : {"MEDIA", "ICE"}]

CallsTypeOK ==
  /\ call \in [Calls -> [status : CallStatuses, caller : Members \union {"NOBODY"}]]
  /\ accepted \subseteq Calls /\ answered \subseteq Calls
  /\ work \subseteq Handlers
  /\ inbox \in [Members -> Seq(Messages)]
  /\ page \in [Members -> [call : Calls \union {"NONE"}, status : {"INVITED", "ACTIVE", "ENDED"}]]
  /\ doing \in [Members -> [op : Awaited \union {"START", "PREPARE", "NOTHING"}, call : Calls \union {"NONE"}]]
  /\ tasks \subseteq Tasks /\ interrupted \subseteq Members
  /\ peer \in [Members -> {"NONE", "OPEN"}] /\ remote \in [Members -> Calls \union {"NONE"}]

\* What an event says of its call, from when its handler has committed until the
\* page reads it.
EventTrue(by, e) ==
  /\ call[e.call].status # "ABSENT"
  /\ e.op = "INVITE" => e.status = "INVITED" /\ call[e.call].caller = by
  /\ e.op = "ACCEPT" => e.status = "ACTIVE" /\ e.call \in accepted /\ call[e.call].caller = Other(by)
  /\ e.op \in {"END", "BUSY"} => e.status = "ENDED" /\ call[e.call].status = "ENDED"
  /\ e.op = "OFFER" => e.call \in accepted /\ call[e.call].caller = by
  /\ e.op = "ANSWER" => e.call \in accepted \intersect answered /\ call[e.call].caller = Other(by)

\* What an answer says, and that its page waits for it.
AnswerTrue(by, e) ==
  /\ e.op \in Awaited
  /\ doing[by] = [op |-> e.op, call |-> e.call]
  /\ e.status # "REFUSED" =>
       /\ call[e.call].status # "ABSENT"
       /\ e.op = "INVITE" => e.status = "INVITED" /\ call[e.call].caller = by
       /\ e.op = "ACCEPT" => e.status = "ACTIVE"
       /\ e.op = "END" => e.status = "ENDED" /\ call[e.call].status = "ENDED"

Asked(w) == w.heard /\ w.op \in Awaited

\* A handler on its way.  An invitation names a call that is not there yet.
HandlerTrue(w) ==
  /\ w.at \in {"SENT", "LOCKED"} => (w.op = "INVITE" <=> call[w.call].status = "ABSENT")
  /\ w.at = "SENT" /\ w.op \in {"OFFER", "ANSWER"} => EventTrue(w.by, w)
  /\ w.at = "LOCKED" => /\ w.op \in {"INVITE", "ACCEPT", "END", "BUSY"}
                        /\ w.op # "INVITE" => w.status = call[w.call].status
  /\ w.at = "COMMITTED" => EventTrue(w.by, w)
  /\ w.at = "PUBLISHED" => AnswerTrue(w.by, w) /\ w.heard
  /\ Asked(w) => doing[w.by] = [op |-> w.op, call |-> w.call]

\* Row locks are exclusive, and a call is invited by one handler.
LocksHeld ==
  \A v, w \in work :
    \/ v = w
    \/ /\ v.at = "LOCKED" /\ w.at = "LOCKED" => ~SameRow(v, w)
       /\ v.op = "INVITE" /\ w.op = "INVITE" => v.call # w.call

InboxTrue ==
  \A m \in Members : \A i \in 1..Len(inbox[m]) :
    IF inbox[m][i].answer THEN AnswerTrue(m, inbox[m][i]) ELSE EventTrue(Other(m), inbox[m][i])

\* A page waits for one answer.
OneAnswer ==
  \A m \in Members :
    /\ \A i, j \in 1..Len(inbox[m]) : inbox[m][i].answer /\ inbox[m][j].answer => i = j
    /\ \A v \in work : v.by = m /\ Asked(v) =>
         /\ \A i \in 1..Len(inbox[m]) : ~inbox[m][i].answer
         /\ \A w \in work : w.by = m /\ Asked(w) => v = w

IsAccept(e) == e.op = "ACCEPT" /\ ~e.answer
IsSignal(e) == e.op \in {"OFFER", "ANSWER"}

\* The acceptance of a call is announced once, and signals come after it.
AcceptedOnce ==
  /\ \A c \in Calls : call[c].status \in {"ABSENT", "INVITED"} => c \notin accepted
  /\ \A w \in work : w.op = "ACCEPT" /\ w.at = "COMMITTED" =>
       /\ \A t \in tasks : t.call # w.call
       /\ \A v \in work : v.call = w.call => ~IsSignal(v) /\ (v.op = "ACCEPT" /\ v.at = "COMMITTED" => v = w)
       /\ \A m \in Members : \A i \in 1..Len(inbox[m]) :
            inbox[m][i].call = w.call => ~IsSignal(inbox[m][i]) /\ ~IsAccept(inbox[m][i])
  /\ \A m \in Members : \A i \in 1..Len(inbox[m]) : IsAccept(inbox[m][i]) =>
       /\ \A t \in tasks : t.call # inbox[m][i].call
       /\ \A w \in work : w.call = inbox[m][i].call => ~IsSignal(w)
       /\ \A n \in Members : \A j \in 1..Len(inbox[n]) : inbox[n][j].call = inbox[m][i].call =>
            ~IsSignal(inbox[n][j]) /\ (IsAccept(inbox[n][j]) => n = m /\ j = i)

\* A page out of its call has seen it end, and has no connection and no handler
\* that waits, unless one waited when it left.
PageTrue(m) ==
  /\ page[m].call # "NONE" => call[page[m].call].status # "ABSENT"
  /\ page[m].call = "NONE" => page[m].status = "ENDED"
  /\ page[m].status = "ENDED" =>
       /\ page[m].call # "NONE" => call[page[m].call].status = "ENDED"
       /\ m \notin interrupted => peer[m] = "NONE" /\ \A t \in tasks : t.by # m
  /\ peer[m] = "NONE" => remote[m] = "NONE"

PagesTrue == \A m \in Members : PageTrue(m)

\* What a handler that waits relies on.
TaskTrue(t) ==
  /\ t.call \in accepted
  /\ t.op = "OFFER" => call[t.call].caller = t.by
  /\ t.op = "ANSWER" =>
       /\ call[t.call].caller = Other(t.by)
       /\ t.by \notin interrupted => page[t.by].call = t.call /\ page[t.by].status = "ACTIVE"

TasksOf(m) == \A t \in tasks : t.by = m => TaskTrue(t)

TasksTrue == \A m \in Members : TasksOf(m)

\* No signal of this call will reach a page.
Quiet(c) ==
  /\ call[c].status = "ENDED"
  /\ \A w \in work : w.call = c => ~(w.op = "ANSWER") /\ ~(w.op = "OFFER" /\ w.at # "SENT")
  /\ \A n \in Members : \A i \in 1..Len(inbox[n]) : inbox[n][i].call = c => ~IsSignal(inbox[n][i])
  /\ \A t \in tasks : t.call = c => t.op # "ANSWER"

\* While a page waits to be in another call it gets no connection: what it can
\* come to be in meanwhile is an incoming call, or an old one that is over.
Waits(m) ==
  /\ doing[m].op \in {"START", "INVITE"} =>
       /\ m \notin interrupted => remote[m] = "NONE"
       /\ page[m].status = "INVITED" => call[page[m].call].caller = Other(m)
       /\ page[m].status = "ACTIVE" => call[page[m].call].caller = m /\ Quiet(page[m].call)
  /\ doing[m].op \in {"PREPARE", "ACCEPT"} =>
       /\ page[m].status # "ACTIVE" /\ page[m].call # "NONE"
       /\ call[page[m].call].caller = Other(m)
       /\ doing[m].call \in Calls /\ call[doing[m].call].status # "ABSENT"
       /\ m \notin interrupted => remote[m] \in {"NONE", doing[m].call}

WaitingUnconnected == \A m \in Members : Waits(m)

\* ConnectedToPeer, of one page.
Connected(m) ==
  remote[m] # "NONE" =>
    /\ peer[m] # "NONE" /\ remote[m] \in accepted
    /\ call[remote[m]].caller = m => remote[m] \in answered
    /\ m \notin interrupted => page[m].call = remote[m]

\* What is true of a page.
Sound(m) == PageTrue(m) /\ TasksOf(m) /\ Waits(m) /\ Connected(m)

\* There is at most one live call, and a call that was made has its caller.
LiveAlone ==
  /\ \A c \in Calls : call[c].status # "ABSENT" => call[c].caller \in Members
  /\ \A c, d \in Calls : call[c].status \in Live /\ call[d].status \in Live => c = d

CallsInv ==
  /\ CallsTypeOK /\ LiveAlone /\ (\A w \in work : HandlerTrue(w)) /\ LocksHeld /\ InboxTrue
  /\ OneAnswer /\ AcceptedOnce /\ PagesTrue /\ TasksTrue /\ WaitingUnconnected
  /\ ConnectedToPeer
-----------------------------------------------------------------------------
(* The two members.                                                          *)

\* A conversation has two members, each the other of the other.
LEMMA Pair ==
  /\ \A m \in Members : Other(m) \in Members /\ Other(m) # m /\ Other(Other(m)) = m
  /\ \A m, n \in Members : n = m \/ n = Other(m)
  <1>1. PICK a \in Members : TRUE
    BY CallsAssumption, FS_EmptySet
  <1>2. IsFiniteSet(Members \ {a}) /\ Cardinality(Members \ {a}) = 1
    BY CallsAssumption, FS_RemoveElement
  <1>3. PICK b \in Members \ {a} : TRUE
    BY <1>2, FS_EmptySet
  <1>4. IsFiniteSet((Members \ {a}) \ {b}) /\ Cardinality((Members \ {a}) \ {b}) = 0
    BY <1>2, <1>3, FS_RemoveElement
  <1>5. (Members \ {a}) \ {b} = {}
    BY <1>4, FS_EmptySet
  <1>6. Members = {a, b} /\ a # b
    BY <1>1, <1>3, <1>5
  <1>7. \A m \in Members : Other(m) \in Members /\ Other(m) # m
    BY <1>6 DEF Other
  <1> QED BY <1>6, <1>7

\* What is left of an inbox when its first message is read.
LEMMA TailOf ==
  ASSUME NEW s \in Seq(Messages), s # <<>>
  PROVE  /\ Tail(s) \in Seq(Messages) /\ Len(s) \in Nat /\ Len(Tail(s)) = Len(s) - 1
         /\ 1 \in 1..Len(s) /\ Head(s) = s[1] /\ Head(s) \in Messages
         /\ \A i \in 1..Len(Tail(s)) : i + 1 \in 1..Len(s) /\ Tail(s)[i] = s[i + 1]
  OBVIOUS

\* What an inbox is when a message is put at its end.
LEMMA AppendOf ==
  ASSUME NEW s \in Seq(Messages), NEW e \in Messages
  PROVE  /\ Append(s, e) \in Seq(Messages) /\ Len(s) \in Nat /\ Len(Append(s, e)) = Len(s) + 1
         /\ \A i \in 1..Len(s) : Append(s, e)[i] = s[i]
         /\ Append(s, e)[Len(s) + 1] = e
  OBVIOUS


\* A message of an inbox names a call.
LEMMA MessageType ==
  ASSUME CallsInv, NEW m \in Members, NEW i \in 1..Len(inbox[m])
  PROVE  inbox[m][i] \in Messages /\ inbox[m][i].call \in Calls
  <1>1. inbox[m] \in Seq(Messages)
    BY DEF CallsInv, CallsTypeOK
  <1>2. inbox[m][i] \in Messages
    BY <1>1
  <1> QED BY <1>2 DEF Messages
-----------------------------------------------------------------------------
(* The server's rows only advance, and what was true of a call stays true.   *)

Advances ==
  /\ \A c \in Calls : /\ call[c].status # "ABSENT" => /\ call'[c].status # "ABSENT"
                                                      /\ call'[c].caller = call[c].caller
                      /\ call[c].status = "ENDED" => call'[c].status = "ENDED"
  /\ accepted \subseteq accepted' /\ answered \subseteq answered'

\* A description is of a call that was made.
LEMMA RemoteAccepted ==
  ASSUME CallsInv, NEW m \in Members, remote[m] # "NONE"
  PROVE  remote[m] \in Calls /\ call[remote[m]].status # "ABSENT"
  BY DEF CallsInv, CallsTypeOK, AcceptedOnce, ConnectedToPeer

\* A handler changes no page.
LEMMA PagesKept ==
  ASSUME CallsInv, Advances, UNCHANGED pageVars PROVE PagesTrue' /\ TasksTrue' /\ ConnectedToPeer'
  <1>1. \A m \in Members : page[m].call \in Calls \union {"NONE"} /\ remote[m] \in Calls \union {"NONE"}
    BY DEF CallsInv, CallsTypeOK
  <1>2. PagesTrue'
    BY <1>1 DEF CallsInv, PagesTrue, PageTrue, Advances, pageVars, linkVars
  <1>3. ConnectedToPeer'
    BY <1>1, RemoteAccepted DEF CallsInv, PagesTrue, PageTrue, ConnectedToPeer, Advances, pageVars, linkVars
  <1>4. TasksTrue'
    <2>1. ASSUME NEW t \in tasks PROVE t.call \in Calls /\ call[t.call].status # "ABSENT" /\ TaskTrue(t)
      <3>1. t.call \in Calls /\ t.by \in Members
        BY DEF CallsInv, CallsTypeOK, Tasks
      <3>2. TaskTrue(t)
        BY <3>1 DEF CallsInv, TasksTrue, TasksOf
      <3> QED BY <3>1, <3>2 DEF CallsInv, AcceptedOnce, TaskTrue
    <2> QED BY <2>1 DEF TasksTrue, TasksOf, TaskTrue, Advances, pageVars, linkVars
  <1> QED BY <1>2, <1>3, <1>4

\* Before its acceptance there is neither its announcement nor a signal.
LEMMA SignalsAccepted ==
  ASSUME CallsInv, NEW c \in Calls, c \notin accepted
  PROVE  /\ \A v \in work : v.call = c => ~IsSignal(v) /\ ~(v.op = "ACCEPT" /\ v.at = "COMMITTED")
         /\ \A m \in Members : \A i \in 1..Len(inbox[m]) :
              inbox[m][i].call = c => ~IsSignal(inbox[m][i]) /\ ~IsAccept(inbox[m][i])
         /\ \A t \in tasks : t.call # c
  <1>1. ASSUME NEW v \in work, v.call = c
        PROVE  ~IsSignal(v) /\ ~(v.op = "ACCEPT" /\ v.at = "COMMITTED")
    <2>1. HandlerTrue(v) /\ v.at \in {"SENT", "LOCKED", "COMMITTED", "PUBLISHED"}
      BY DEF CallsInv, CallsTypeOK, Handlers
    <2> QED BY <1>1, <2>1 DEF HandlerTrue, EventTrue, AnswerTrue, IsSignal, Awaited
  <1>2. ASSUME NEW m \in Members, NEW i \in 1..Len(inbox[m]), inbox[m][i].call = c
        PROVE  ~IsSignal(inbox[m][i]) /\ ~IsAccept(inbox[m][i])
    <2>1. CASE inbox[m][i].answer
      <3>1. AnswerTrue(m, inbox[m][i])
        BY <2>1 DEF CallsInv, InboxTrue
      <3> QED BY <2>1, <3>1 DEF AnswerTrue, IsSignal, IsAccept, Awaited
    <2>2. CASE ~inbox[m][i].answer
      <3>1. EventTrue(Other(m), inbox[m][i])
        BY <2>2 DEF CallsInv, InboxTrue
      <3> QED BY <1>2, <3>1 DEF EventTrue, IsSignal, IsAccept
    <2> QED BY <2>1, <2>2
  <1>3. \A t \in tasks : t.call # c
    BY DEF CallsInv, CallsTypeOK, Tasks, TasksTrue, TasksOf, TaskTrue
  <1> QED BY <1>1, <1>2, <1>3

\* What is said of a handler or of a message stays true while the rows advance.
LEMMA HandlerKept ==
  ASSUME CallsInv, NEW v \in work, UNCHANGED <<call, accepted, doing, answered>> PROVE HandlerTrue(v)'
  <1>1. HandlerTrue(v)
    BY DEF CallsInv
  <1> QED BY <1>1 DEF HandlerTrue, EventTrue, AnswerTrue, Asked

\* A message stays true while calls only advance and its page waits as before.
LEMMA MessagesKept ==
  ASSUME CallsInv, Advances, NEW k \in Members, NEW i \in 1..Len(inbox[k]), doing'[k] = doing[k],
         NEW x, x = inbox[k][i]
  PROVE  IF x.answer THEN AnswerTrue(k, x)' ELSE EventTrue(Other(k), x)'
  <1>1. x.call \in Calls
    BY MessageType
  <1>2. IF x.answer THEN AnswerTrue(k, x) ELSE EventTrue(Other(k), x)
    BY DEF CallsInv, InboxTrue
  <1> QED BY <1>1, <1>2 DEF AnswerTrue, EventTrue, Advances

\* A handler goes on, and with it the row of its call at most; nothing is
\* delivered.  What is asked of the step is what depends on the handler.
LEMMA MoveStep ==
  ASSUME CallsInv, Advances, UNCHANGED <<inbox, pageVars>>,
         NEW w \in work, NEW n \in Handlers,
         n.op = w.op, n.by = w.by, n.call = w.call, n.heard = w.heard,
         w.at \in {"SENT", "LOCKED"}, n.at # "SENT",
         work' = (work \ {w}) \union {n} \/ work' = work \ {w},
         n \in work' => HandlerTrue(n)',
         call' \in [Calls -> [status : CallStatuses, caller : Members \union {"NOBODY"}]],
         \A c \in Calls : c # w.call \/ w.at # "LOCKED" => call'[c] = call[c],
         accepted' \subseteq Calls, LiveAlone',
         \A c \in Calls : call'[c].status \in {"ABSENT", "INVITED"} => c \notin accepted',
         n.at = "LOCKED" => \A v \in work : v.at = "LOCKED" => ~SameRow(v, w),
         n.op = "ACCEPT" /\ n.at = "COMMITTED" => w.call \notin accepted,
         n.op = "OFFER" => call[w.call].status = "ACTIVE" \/ n \notin work'
  PROVE  CallsInv'
  <1> USE DEF CallsInv
  <1>1. CallsTypeOK'
    BY DEF CallsTypeOK, pageVars, linkVars
  <1>2. w \in Handlers /\ \A v \in work : v \in Handlers /\ v.call \in Calls
    BY DEF CallsTypeOK, Handlers
  <1>3. \A m \in Members : \A i \in 1..Len(inbox[m]) : inbox[m][i].call \in Calls
    BY MessageType
  <1>4. ASSUME NEW v \in work \ {w} PROVE HandlerTrue(v)'
    <2>1. HandlerTrue(v) /\ HandlerTrue(w)
      OBVIOUS
    <2>2. v.at = "LOCKED" /\ v.op # "INVITE" => call'[v.call] = call[v.call]
      BY <1>2, <2>1 DEF LocksHeld, SameRow, HandlerTrue
    <2>3. v.at \in {"SENT", "LOCKED"} /\ v.op = "INVITE" => call'[v.call] = call[v.call]
      BY <1>2, <2>1 DEF LocksHeld, HandlerTrue
    <2> QED BY <1>2, <2>1, <2>2, <2>3 DEF HandlerTrue, EventTrue, AnswerTrue, Asked, Advances, pageVars, linkVars
  <1>5. \A v \in work' : HandlerTrue(v)'
    BY <1>4
  <1>6. LocksHeld'
    BY DEF LocksHeld, SameRow
  <1>7. InboxTrue'
    BY <1>3 DEF InboxTrue, EventTrue, AnswerTrue, Advances, pageVars, linkVars
  <1>8. OneAnswer'
    BY DEF OneAnswer, Asked
  <1>9. AcceptedOnce'
    BY <1>2, SignalsAccepted DEF AcceptedOnce, IsSignal, pageVars, linkVars
  <1>10. WaitingUnconnected'
    <2>1. \A m \in Members : doing[m].op \in {"START", "INVITE", "ACCEPT"} /\ page[m].status # "ENDED"
            => page[m].call \in Calls /\ call[page[m].call].status # "ABSENT"
      BY DEF CallsTypeOK, PagesTrue, PageTrue
    <2>2. \A c \in Calls : Quiet(c) => Quiet(c)'
      BY <1>2 DEF Quiet, IsSignal, Advances, pageVars, linkVars
    <2> QED BY <2>1, <2>2 DEF WaitingUnconnected, Waits, PagesTrue, PageTrue, CallsTypeOK, Advances, pageVars, linkVars
  <1> QED BY <1>1, <1>5, <1>6, <1>7, <1>8, <1>9, <1>10, PagesKept

\* What becomes of a handler that goes on.
LEMMA MovesTo ==
  ASSUME CallsInv, NEW w \in work, NEW at \in {"LOCKED", "COMMITTED", "PUBLISHED"},
         NEW status \in Statuses, Moves(w, at, status)
  PROVE  \E n \in Handlers :
           /\ n.op = w.op /\ n.by = w.by /\ n.call = w.call /\ n.heard = w.heard
           /\ n.at = at /\ n.status = status
           /\ work' = (work \ {w}) \union {n} \/ work' = work \ {w}
           /\ at = "PUBLISHED" /\ n \in work' => Asked(n)
  <1> DEFINE n == [w EXCEPT !.at = at, !.status = status]
  <1>1. w \in Handlers
    BY DEF CallsInv, CallsTypeOK
  <1>2. /\ n \in Handlers /\ n.op = w.op /\ n.by = w.by /\ n.call = w.call /\ n.heard = w.heard
        /\ n.at = at /\ n.status = status
    BY <1>1 DEF Handlers
  <1>3. /\ work' = (work \ {w}) \union {n} \/ work' = work \ {w}
        /\ at = "PUBLISHED" =>
             work' = work \ {w} \/ (w.op \in Awaited /\ w.heard)
    BY DEF Moves
  <1>4. ASSUME at = "PUBLISHED", n \in work' PROVE Asked(n)
    <2>1. CASE n \in work
      BY <1>2, <1>4, <2>1 DEF CallsInv, HandlerTrue, AnswerTrue, Asked
    <2>2. CASE n \notin work
      <3>1. w.op \in Ops
        BY <1>1 DEF Handlers
      <3> QED BY <1>2, <1>3, <1>4, <2>2, <3>1 DEF Asked
    <2> QED BY <2>1, <2>2
  <1> HIDE DEF n
  <1> QED BY <1>2, <1>3, <1>4

\* Setting the status of a call changes nothing else of the calls.
LEMMA StatusSet ==
  ASSUME CallsInv, NEW c \in Calls, NEW s \in CallStatuses, call' = [call EXCEPT ![c].status = s]
  PROVE  /\ call' \in [Calls -> [status : CallStatuses, caller : Members \union {"NOBODY"}]]
         /\ call'[c].status = s /\ call'[c].caller = call[c].caller
         /\ \A d \in Calls : d # c => call'[d] = call[d]
  <1>1. call \in [Calls -> [status : CallStatuses, caller : Members \union {"NOBODY"}]]
    BY DEF CallsInv, CallsTypeOK
  <1>2. call[c] \in [status : CallStatuses, caller : Members \union {"NOBODY"}]
    BY <1>1
  <1> QED BY <1>1, <1>2

\* A handler that gets its lock has read what nobody changes while it holds it.
LEMMA TakeLockStep ==
  ASSUME CallsInv, NEW w \in work, TakeLock(w) PROVE CallsInv'
  <1> USE DEF CallsInv
  <1> DEFINE status == IF w.op = "INVITE" THEN IF AnyLive THEN "BUSY" ELSE "FREE" ELSE call[w.call].status
  <1>1. /\ w.at = "SENT" /\ w.op \in {"INVITE", "ACCEPT", "END", "BUSY"}
        /\ \A v \in work : v.at = "LOCKED" => ~SameRow(v, w)
        /\ Moves(w, "LOCKED", status)
        /\ UNCHANGED <<call, accepted, inbox, pageVars>>
    BY DEF TakeLock
  <1>2. w.call \in Calls
    BY DEF CallsTypeOK, Handlers
  <1>3. status \in Statuses
    BY <1>2 DEF Statuses, CallsTypeOK
  <1> HIDE DEF status
  <1>4. PICK n \in Handlers :
           /\ n.op = w.op /\ n.by = w.by /\ n.call = w.call /\ n.heard = w.heard
           /\ n.at = "LOCKED" /\ n.status = status
           /\ work' = (work \ {w}) \union {n} \/ work' = work \ {w}
    BY <1>1, <1>3, MovesTo
  <1>5. HandlerTrue(n)'
    <2>1. HandlerTrue(w)
      OBVIOUS
    <2> QED BY <1>1, <1>4, <2>1 DEF HandlerTrue, Asked, pageVars, linkVars, status
  <1>6. Advances /\ LiveAlone'
    BY <1>1 DEF Advances, LiveAlone, pageVars, linkVars
  <1> QED BY <1>1, <1>4, <1>5, <1>6, MoveStep DEF CallsTypeOK, AcceptedOnce

\* An invitation is refused, or its call is the only live one.
LEMMA CommitInviteStep ==
  ASSUME CallsInv, NEW w \in work, CommitInvite(w) PROVE CallsInv'
  <1> USE DEF CallsInv
  <1>1. HandlerTrue(w) /\ w.at = "LOCKED" /\ w.op = "INVITE" /\ UNCHANGED <<accepted, inbox, pageVars>>
    BY DEF CommitInvite
  <1>2. w.call \in Calls /\ w.by \in Members /\ call[w.call].status = "ABSENT"
    BY <1>1 DEF CallsTypeOK, Handlers, HandlerTrue
  <1>3. CASE Moves(w, "PUBLISHED", "REFUSED") /\ UNCHANGED call
    <2>1. PICK n \in Handlers :
             /\ n.op = w.op /\ n.by = w.by /\ n.call = w.call /\ n.heard = w.heard
             /\ n.at = "PUBLISHED" /\ n.status = "REFUSED"
             /\ work' = (work \ {w}) \union {n} \/ work' = work \ {w}
             /\ n \in work' => Asked(n)
      BY <1>3, MovesTo DEF Statuses
    <2>2. n \in work' => HandlerTrue(n)'
      BY <1>1, <2>1 DEF HandlerTrue, AnswerTrue, Asked, pageVars, linkVars
    <2>3. Advances /\ LiveAlone'
      BY <1>1, <1>3 DEF Advances, LiveAlone, pageVars, linkVars
    <2> QED BY <1>1, <1>3, <2>1, <2>2, <2>3, MoveStep DEF CallsTypeOK, AcceptedOnce
  <1>4. CASE /\ ~AnyLive /\ Moves(w, "COMMITTED", "INVITED")
             /\ call' = [call EXCEPT ![w.call] = [status |-> "INVITED", caller |-> w.by]]
    <2>1. PICK n \in Handlers :
             /\ n.op = w.op /\ n.by = w.by /\ n.call = w.call /\ n.heard = w.heard
             /\ n.at = "COMMITTED" /\ n.status = "INVITED"
             /\ work' = (work \ {w}) \union {n} \/ work' = work \ {w}
      BY <1>4, MovesTo DEF Statuses, CallStatuses
    <2>2. /\ call' \in [Calls -> [status : CallStatuses, caller : Members \union {"NOBODY"}]]
          /\ call'[w.call].status = "INVITED" /\ call'[w.call].caller = w.by
          /\ \A c \in Calls : c # w.call => call'[c] = call[c]
      BY <1>2, <1>4 DEF CallsTypeOK, CallStatuses
    <2>3. HandlerTrue(n)'
      BY <1>1, <2>1, <2>2 DEF HandlerTrue, EventTrue, Asked, pageVars, linkVars
    <2>4. Advances
      BY <1>1, <1>2, <2>2 DEF Advances, pageVars, linkVars
    <2>5. LiveAlone'
      BY <1>2, <1>4, <2>2 DEF AnyLive, LiveAlone
    <2>6. \A c \in Calls : call'[c].status \in {"ABSENT", "INVITED"} => c \notin accepted'
      BY <1>1, <1>2, <2>2 DEF AcceptedOnce
    <2>7. accepted' \subseteq Calls
      BY <1>1 DEF CallsTypeOK
    <2> QED BY <1>1, <2>1, <2>2, <2>3, <2>4, <2>5, <2>6, <2>7, MoveStep
  <1> QED BY <1>3, <1>4 DEF CommitInvite

\* Only an invited call is accepted; the row lock says it still is.
LEMMA CommitAcceptStep ==
  ASSUME CallsInv, NEW w \in work, CommitAccept(w) PROVE CallsInv'
  <1> USE DEF CallsInv
  <1>1. HandlerTrue(w) /\ w.at = "LOCKED" /\ w.op = "ACCEPT" /\ UNCHANGED <<inbox, pageVars>>
    BY DEF CommitAccept
  <1>2. w.call \in Calls /\ w.by \in Members /\ call[w.call].status # "ABSENT"
    BY <1>1 DEF CallsTypeOK, Handlers, HandlerTrue
  <1>3. CASE /\ w.by = Callee(w.call) /\ w.status = "INVITED"
             /\ call' = [call EXCEPT ![w.call].status = "ACTIVE"]
             /\ accepted' = accepted \union {w.call} /\ Moves(w, "COMMITTED", "ACTIVE")
    <2>1. PICK n \in Handlers :
             /\ n.op = w.op /\ n.by = w.by /\ n.call = w.call /\ n.heard = w.heard
             /\ n.at = "COMMITTED" /\ n.status = "ACTIVE"
             /\ work' = (work \ {w}) \union {n} \/ work' = work \ {w}
      BY <1>3, MovesTo DEF Statuses, CallStatuses
    <2>2. /\ call' \in [Calls -> [status : CallStatuses, caller : Members \union {"NOBODY"}]]
          /\ call'[w.call].status = "ACTIVE" /\ call'[w.call].caller = call[w.call].caller
          /\ \A c \in Calls : c # w.call => call'[c] = call[c]
      BY <1>2, <1>3, StatusSet DEF CallStatuses
    <2>3. call[w.call].status = "INVITED" /\ w.call \notin accepted
      BY <1>1, <1>2, <1>3 DEF HandlerTrue, AcceptedOnce
    <2>4. call[w.call].caller = Other(w.by)
      <3>1. call[w.call].caller \in Members
        BY <1>2, <2>3 DEF CallsTypeOK, LiveAlone
      <3> QED BY <1>3, <3>1, Pair DEF Callee
    <2>5. HandlerTrue(n)'
      BY <1>1, <1>3, <2>1, <2>2, <2>4 DEF HandlerTrue, EventTrue, Asked, pageVars, linkVars
    <2>6. Advances
      BY <1>1, <1>3, <2>2, <2>3 DEF Advances, pageVars, linkVars
    <2>7. LiveAlone'
      BY <1>2, <2>2, <2>3 DEF Live, LiveAlone
    <2>8. /\ \A c \in Calls : call'[c].status \in {"ABSENT", "INVITED"} => c \notin accepted'
          /\ accepted' \subseteq Calls
      BY <1>2, <1>3, <2>2 DEF AcceptedOnce, CallsTypeOK
    <2> QED BY <1>1, <2>1, <2>2, <2>3, <2>5, <2>6, <2>7, <2>8, MoveStep
  <1>4. CASE /\ Moves(w, "PUBLISHED", IF w.by = Callee(w.call) /\ w.status = "ACTIVE"
                                      THEN "ACTIVE" ELSE "REFUSED")
             /\ UNCHANGED <<call, accepted>>
    <2>1. PICK n \in Handlers :
             /\ n.op = w.op /\ n.by = w.by /\ n.call = w.call /\ n.heard = w.heard
             /\ n.at = "PUBLISHED" /\ n.status \in {"ACTIVE", "REFUSED"}
             /\ work' = (work \ {w}) \union {n} \/ work' = work \ {w}
             /\ n \in work' => Asked(n)
      BY <1>4, MovesTo DEF Statuses, CallStatuses
    <2>2. n \in work' => HandlerTrue(n)'
      BY <1>1, <1>2, <1>4, <2>1 DEF HandlerTrue, AnswerTrue, Asked, pageVars, linkVars
    <2>3. Advances /\ LiveAlone'
      BY <1>1, <1>4 DEF Advances, LiveAlone, pageVars, linkVars
    <2> QED BY <1>1, <1>4, <2>1, <2>2, <2>3, MoveStep DEF CallsTypeOK, AcceptedOnce
  <1> QED BY <1>3, <1>4 DEF CommitAccept

\* Ending a call makes every later event of it one of an ended call.
LEMMA CommitEndStep ==
  ASSUME CallsInv, NEW w \in work, CommitEnd(w) PROVE CallsInv'
  <1> USE DEF CallsInv
  <1>1. HandlerTrue(w) /\ w.at = "LOCKED" /\ w.op \in {"END", "BUSY"} /\ UNCHANGED <<accepted, inbox, pageVars>>
    BY DEF CommitEnd
  <1>2. w.call \in Calls /\ w.by \in Members /\ call[w.call].status # "ABSENT"
    BY <1>1 DEF CallsTypeOK, Handlers, HandlerTrue
  <1>3. PICK at \in {"PUBLISHED", "COMMITTED"} : Moves(w, at, "ENDED")
    BY DEF CommitEnd
  <1>4. PICK n \in Handlers :
           /\ n.op = w.op /\ n.by = w.by /\ n.call = w.call /\ n.heard = w.heard
           /\ n.at = at /\ n.status = "ENDED"
           /\ work' = (work \ {w}) \union {n} \/ work' = work \ {w}
           /\ at = "PUBLISHED" /\ n \in work' => Asked(n)
    BY <1>3, MovesTo DEF Statuses, CallStatuses
  <1>5. /\ call' \in [Calls -> [status : CallStatuses, caller : Members \union {"NOBODY"}]]
        /\ call'[w.call].status = "ENDED" /\ call'[w.call].caller = call[w.call].caller
        /\ \A c \in Calls : c # w.call => call'[c] = call[c]
    BY <1>2, StatusSet DEF CommitEnd, CallStatuses
  <1>6. n \in work' => HandlerTrue(n)'
    BY <1>1, <1>4, <1>5 DEF HandlerTrue, EventTrue, AnswerTrue, Asked, pageVars, linkVars
  <1>7. Advances
    BY <1>1, <1>5 DEF Advances, pageVars, linkVars
  <1>8. LiveAlone'
    BY <1>2, <1>5 DEF Live, LiveAlone
  <1>9. \A c \in Calls : call'[c].status \in {"ABSENT", "INVITED"} => c \notin accepted'
    BY <1>1, <1>5 DEF AcceptedOnce
  <1> QED BY <1>1, <1>4, <1>5, <1>6, <1>7, <1>8, <1>9, MoveStep DEF CallsTypeOK

\* Only an active call carries signals.
LEMMA SignalStep ==
  ASSUME CallsInv, NEW w \in work, Signal(w) PROVE CallsInv'
  <1> USE DEF CallsInv
  <1>1. /\ HandlerTrue(w) /\ w.at = "SENT" /\ w.op \in {"OFFER", "ANSWER"}
        /\ UNCHANGED <<call, accepted, inbox, pageVars>>
    BY DEF Signal
  <1>2. PICK at \in {"PUBLISHED", "COMMITTED"}, status \in {"ACTIVE", "REFUSED"} :
          Moves(w, at, status) /\ (at = "COMMITTED" => call[w.call].status = "ACTIVE")
    BY DEF Signal
  <1>3. PICK n \in Handlers :
           /\ n.op = w.op /\ n.by = w.by /\ n.call = w.call /\ n.heard = w.heard
           /\ n.at = at /\ n.status = status
           /\ work' = (work \ {w}) \union {n} \/ work' = work \ {w}
           /\ at = "PUBLISHED" /\ n \in work' => Asked(n)
    BY <1>2, MovesTo DEF Statuses, CallStatuses
  <1>4. n \in work' => HandlerTrue(n)' /\ call[w.call].status = "ACTIVE"
    BY <1>1, <1>2, <1>3 DEF HandlerTrue, EventTrue, Asked, Awaited, pageVars, linkVars
  <1>5. Advances /\ LiveAlone'
    BY <1>1 DEF Advances, LiveAlone, pageVars, linkVars
  <1> QED BY <1>1, <1>3, <1>4, <1>5, MoveStep DEF CallsTypeOK, AcceptedOnce
-----------------------------------------------------------------------------
(* Deliveries.                                                               *)

\* After a delivery an inbox has the new message or an old one at each place.
LEMMA Delivered ==
  ASSUME inbox \in [Members -> Seq(Messages)], NEW m \in Members, NEW e \in Messages,
         inbox'[m] = Append(inbox[m], e), \A k \in Members : k # m => inbox'[k] = inbox[k]
  PROVE  \A k \in Members : \A i \in 1..Len(inbox'[k]) :
           \/ i \in 1..Len(inbox[k]) /\ inbox'[k][i] = inbox[k][i]
           \/ k = m /\ i = Len(inbox[m]) + 1 /\ inbox'[k][i] = e
  <1>1. \A i \in 1..Len(inbox'[m]) :
          \/ i \in 1..Len(inbox[m]) /\ inbox'[m][i] = inbox[m][i]
          \/ i = Len(inbox[m]) + 1 /\ inbox'[m][i] = e
    BY AppendOf
  <1> QED BY <1>1

\* An event is sent: its handler has made it true.
LEMMA PublishStep ==
  ASSUME CallsInv, NEW w \in work, Publish(w) PROVE CallsInv'
  <1> USE DEF CallsInv
  <1> DEFINE m == Other(w.by)
             e == [op |-> w.op, call |-> w.call, status |-> w.status, answer |-> FALSE]
  <1>1. /\ w.at = "COMMITTED" /\ inbox' = [inbox EXCEPT ![m] = Append(@, e)]
        /\ Moves(w, "PUBLISHED", w.status) /\ UNCHANGED <<call, accepted, pageVars>>
    BY DEF Publish
  <1>2. w \in Handlers /\ m \in Members /\ Other(m) = w.by
    BY Pair DEF CallsTypeOK, Handlers
  <1>3. e \in Messages /\ e.op = w.op /\ e.call = w.call /\ e.status = w.status /\ ~e.answer
    BY <1>2 DEF Messages, Handlers
  <1>4. HandlerTrue(w) /\ EventTrue(w.by, w)
    BY <1>1 DEF HandlerTrue
  <1> HIDE DEF m, e
  <1>5. /\ inbox' \in [Members -> Seq(Messages)]
        /\ \A k \in Members : \A i \in 1..Len(inbox'[k]) :
             \/ i \in 1..Len(inbox[k]) /\ inbox'[k][i] = inbox[k][i]
             \/ k = m /\ i = Len(inbox[m]) + 1 /\ inbox'[k][i] = e
    <2>1. inbox \in [Members -> Seq(Messages)]
      BY DEF CallsTypeOK
    <2>2. /\ inbox' \in [Members -> Seq(Messages)] /\ inbox'[m] = Append(inbox[m], e)
          /\ \A k \in Members : k # m => inbox'[k] = inbox[k]
      BY <1>1, <1>2, <1>3, <2>1, AppendOf
    <2> QED BY <1>2, <1>3, <2>1, <2>2, Delivered
  <1>6. PICK n \in Handlers :
           /\ n.op = w.op /\ n.by = w.by /\ n.call = w.call /\ n.heard = w.heard
           /\ n.at = "PUBLISHED" /\ n.status = w.status
           /\ work' = (work \ {w}) \union {n} \/ work' = work \ {w}
           /\ n \in work' => Asked(n)
    BY <1>1, <1>2, MovesTo DEF Handlers
  <1>7. Advances /\ LiveAlone'
    BY <1>1 DEF Advances, LiveAlone, pageVars, linkVars
  <1>8. CallsTypeOK'
    BY <1>1, <1>5, <1>6 DEF CallsTypeOK, pageVars, linkVars
  <1>9. \A v \in work' : HandlerTrue(v)'
    <2>1. n \in work' => HandlerTrue(n)'
      BY <1>1, <1>4, <1>6 DEF HandlerTrue, EventTrue, AnswerTrue, Asked, pageVars, linkVars
    <2>2. \A v \in work : HandlerTrue(v)'
      BY <1>1, HandlerKept DEF pageVars, linkVars
    <2> QED BY <1>6, <2>1, <2>2
  <1>10. LocksHeld'
    BY <1>6 DEF LocksHeld, SameRow
  <1>11. InboxTrue'
    <2>1. EventTrue(Other(m), e)'
      BY <1>1, <1>2, <1>3, <1>4 DEF EventTrue, pageVars, linkVars
    <2> QED BY <1>1, <1>3, <1>5, <1>7, <2>1, MessagesKept DEF InboxTrue, pageVars, linkVars
  <1>12. OneAnswer'
    <2>1. \A v \in work' : Asked(v) => (v = n /\ Asked(w)) \/ v \in work \ {w}
      BY <1>6 DEF Asked
    <2>2. \A k \in Members : \A i \in 1..Len(inbox'[k]) :
            inbox'[k][i].answer => i \in 1..Len(inbox[k]) /\ inbox[k][i].answer
      BY <1>3, <1>5
    <2> QED BY <1>6, <2>1, <2>2 DEF OneAnswer, Asked
  <1>13. AcceptedOnce'
    <2>1. \A c \in Calls : call'[c].status \in {"ABSENT", "INVITED"} => c \notin accepted'
      BY <1>1 DEF AcceptedOnce
    <2>2. \A v \in work' : v.op = "ACCEPT" /\ v.at = "COMMITTED" =>
            /\ \A u \in work' : u.call = v.call => ~IsSignal(u) /\ (u.op = "ACCEPT" /\ u.at = "COMMITTED" => u = v)
            /\ \A k \in Members : \A i \in 1..Len(inbox'[k]) :
                 inbox'[k][i].call = v.call => ~IsSignal(inbox'[k][i]) /\ ~IsAccept(inbox'[k][i])
      BY <1>1, <1>3, <1>5, <1>6 DEF AcceptedOnce, IsSignal, IsAccept
    <2>3. \A k \in Members : \A i \in 1..Len(inbox'[k]) : IsAccept(inbox'[k][i]) =>
            /\ \A v \in work' : v.call = inbox'[k][i].call => ~IsSignal(v)
            /\ \A l \in Members : \A j \in 1..Len(inbox'[l]) : inbox'[l][j].call = inbox'[k][i].call =>
                 ~IsSignal(inbox'[l][j]) /\ (IsAccept(inbox'[l][j]) => l = k /\ j = i)
      BY <1>1, <1>3, <1>5, <1>6 DEF AcceptedOnce, IsSignal, IsAccept
    <2>4. /\ \A v \in work' : v.op = "ACCEPT" /\ v.at = "COMMITTED" => \A t \in tasks' : t.call # v.call
          /\ \A k \in Members : \A i \in 1..Len(inbox'[k]) : IsAccept(inbox'[k][i]) =>
               \A t \in tasks' : t.call # inbox'[k][i].call
      BY <1>1, <1>3, <1>5, <1>6 DEF AcceptedOnce, IsAccept, pageVars, linkVars
    <2> QED BY <2>1, <2>2, <2>3, <2>4 DEF AcceptedOnce
  <1>14. WaitingUnconnected'
    <2>1. \A c \in Calls : Quiet(c) => Quiet(c)'
      BY <1>1, <1>3, <1>5, <1>6 DEF Quiet, IsSignal, pageVars, linkVars
    <2>2. \A k \in Members : page[k].status = "ACTIVE" => page[k].call \in Calls
      BY DEF CallsTypeOK, PagesTrue, PageTrue
    <2> QED BY <1>1, <2>1, <2>2 DEF WaitingUnconnected, Waits, pageVars, linkVars
  <1> QED BY <1>1, <1>7, <1>8, <1>9, <1>10, <1>11, <1>12, <1>13, <1>14, PagesKept

\* A page gets its answer: it is the only one it waits for.
LEMMA AcknowledgeStep ==
  ASSUME CallsInv, NEW w \in work, Acknowledge(w) PROVE CallsInv'
  <1> USE DEF CallsInv
  <1> DEFINE m == w.by
             e == [op |-> w.op, call |-> w.call, status |-> w.status, answer |-> TRUE]
  <1>1. /\ w.at = "PUBLISHED" /\ inbox' = [inbox EXCEPT ![m] = Append(@, e)]
        /\ work' = work \ {w} /\ UNCHANGED <<call, accepted, pageVars>>
    BY DEF Acknowledge
  <1>2. w \in Handlers /\ m \in Members
    BY DEF CallsTypeOK, Handlers
  <1>3. e \in Messages /\ e.op = w.op /\ e.call = w.call /\ e.status = w.status /\ e.answer
    BY <1>2 DEF Messages, Handlers
  <1>4. HandlerTrue(w) /\ AnswerTrue(w.by, w) /\ Asked(w)
    BY <1>1 DEF HandlerTrue, AnswerTrue, Asked
  <1> HIDE DEF e
  <1>5. /\ inbox' \in [Members -> Seq(Messages)]
        /\ \A k \in Members : \A i \in 1..Len(inbox'[k]) :
             \/ i \in 1..Len(inbox[k]) /\ inbox'[k][i] = inbox[k][i]
             \/ k = m /\ i = Len(inbox[m]) + 1 /\ inbox'[k][i] = e
    <2>1. inbox \in [Members -> Seq(Messages)]
      BY DEF CallsTypeOK
    <2>2. /\ inbox' \in [Members -> Seq(Messages)] /\ inbox'[m] = Append(inbox[m], e)
          /\ \A k \in Members : k # m => inbox'[k] = inbox[k]
      BY <1>1, <1>2, <1>3, <2>1, AppendOf
    <2> QED BY <1>2, <1>3, <2>1, <2>2, Delivered
  <1>6. Advances /\ LiveAlone'
    BY <1>1 DEF Advances, LiveAlone, pageVars, linkVars
  <1>7. CallsTypeOK'
    BY <1>1, <1>5 DEF CallsTypeOK, pageVars, linkVars
  <1>8. \A v \in work' : HandlerTrue(v)'
    BY <1>1, HandlerKept DEF pageVars, linkVars
  <1>9. LocksHeld'
    BY <1>1 DEF LocksHeld, SameRow
  <1>10. InboxTrue'
    <2>1. AnswerTrue(m, e)'
      BY <1>1, <1>3, <1>4 DEF AnswerTrue, pageVars, linkVars
    <2> QED BY <1>1, <1>3, <1>5, <1>6, <2>1, MessagesKept DEF InboxTrue, pageVars, linkVars
  <1>11. OneAnswer'
    BY <1>1, <1>3, <1>4, <1>5 DEF OneAnswer
  <1>12. AcceptedOnce'
    <2>1. ~IsSignal(e) /\ ~IsAccept(e)
      BY <1>3, <1>4 DEF AnswerTrue, IsSignal, IsAccept, Awaited
    <2>2. UNCHANGED <<call, accepted, tasks>> /\ \A v \in work' : v \in work
      BY <1>1 DEF pageVars, linkVars
    <2>3. \A c \in Calls : call'[c].status \in {"ABSENT", "INVITED"} => c \notin accepted'
      BY <2>2 DEF AcceptedOnce
    <2>4. \A v \in work' : v.op = "ACCEPT" /\ v.at = "COMMITTED" =>
            /\ \A t \in tasks' : t.call # v.call
            /\ \A u \in work' : u.call = v.call => ~IsSignal(u) /\ (u.op = "ACCEPT" /\ u.at = "COMMITTED" => u = v)
            /\ \A k \in Members : \A i \in 1..Len(inbox'[k]) :
                 inbox'[k][i].call = v.call => ~IsSignal(inbox'[k][i]) /\ ~IsAccept(inbox'[k][i])
      BY <1>5, <2>1, <2>2 DEF AcceptedOnce
    <2>5. \A k \in Members : \A i \in 1..Len(inbox'[k]) : IsAccept(inbox'[k][i]) =>
            /\ \A t \in tasks' : t.call # inbox'[k][i].call
            /\ \A v \in work' : v.call = inbox'[k][i].call => ~IsSignal(v)
            /\ \A l \in Members : \A j \in 1..Len(inbox'[l]) : inbox'[l][j].call = inbox'[k][i].call =>
                 ~IsSignal(inbox'[l][j]) /\ (IsAccept(inbox'[l][j]) => l = k /\ j = i)
      BY <1>5, <2>1, <2>2 DEF AcceptedOnce
    <2> QED BY <2>3, <2>4, <2>5 DEF AcceptedOnce
  <1>13. WaitingUnconnected'
    <2>1. \A c \in Calls : Quiet(c) => Quiet(c)'
      BY <1>1, <1>3, <1>4, <1>5 DEF Quiet, IsSignal, AnswerTrue, Awaited, pageVars, linkVars
    <2>2. \A k \in Members : page[k].status = "ACTIVE" => page[k].call \in Calls
      BY DEF CallsTypeOK, PagesTrue, PageTrue
    <2> QED BY <1>1, <2>1, <2>2 DEF WaitingUnconnected, Waits, pageVars, linkVars
  <1> QED BY <1>1, <1>6, <1>7, <1>8, <1>9, <1>10, <1>11, <1>12, <1>13, PagesKept
-----------------------------------------------------------------------------
(* The pages.                                                                *)

\* A page that a step leaves alone, but for handlers of its that are done.
LEMMA PageKept ==
  ASSUME CallsInv, Advances, NEW k \in Members, page'[k] = page[k], doing'[k] = doing[k],
         peer'[k] = peer[k], remote'[k] = remote[k], \A c \in Calls : Quiet(c) => Quiet(c)',
         \A t \in tasks' : t.by = k => t \in tasks,
         k \in interrupted => k \in interrupted'
  PROVE  Sound(k)'
  <1>1. /\ page[k].call \in Calls \union {"NONE"} /\ remote[k] \in Calls \union {"NONE"}
        /\ page[k].status \in {"INVITED", "ACTIVE", "ENDED"}
    BY DEF CallsInv, CallsTypeOK
  <1>2. PageTrue(k) /\ TasksOf(k) /\ Waits(k) /\ Connected(k)
    BY DEF CallsInv, PagesTrue, TasksTrue, WaitingUnconnected, ConnectedToPeer, Connected
  <1>3. PageTrue(k)'
    BY <1>1, <1>2 DEF PageTrue, Advances
  <1>4. Waits(k)'
    <2>1. page[k].status # "ENDED" => page[k].call \in Calls
      BY <1>1, <1>2 DEF PageTrue
    <2>2. page[k].status = "ACTIVE" /\ Quiet(page[k].call) => Quiet(page[k].call)'
      BY <2>1 DEF Quiet
    <2> QED BY <1>1, <1>2, <2>1, <2>2 DEF PageTrue, Waits, Advances
  <1>5. Connected(k)'
    BY <1>1, <1>2, RemoteAccepted DEF PageTrue, Connected, Advances
  <1>6. TasksOf(k)'
    <2>1. ASSUME NEW t \in tasks', t.by = k PROVE TaskTrue(t)'
      <3>1. t \in tasks /\ TaskTrue(t) /\ t.call \in Calls
        BY <1>2, <2>1 DEF TasksOf, CallsInv, CallsTypeOK, Tasks
      <3>2. call[t.call].status # "ABSENT"
        BY <3>1 DEF CallsInv, AcceptedOnce, TaskTrue
      <3> QED BY <2>1, <3>1, <3>2 DEF TaskTrue, Advances
    <2> QED BY <2>1 DEF TasksOf
  <1> QED BY <1>3, <1>4, <1>5, <1>6 DEF Sound

\* A page that waits for nothing the server will answer has no answer coming.
LEMMA NothingAsked ==
  ASSUME CallsInv, NEW m \in Members, doing[m].op \in {"NOTHING", "START", "PREPARE"}
  PROVE  /\ \A w \in work : w.by = m => ~Asked(w)
         /\ \A i \in 1..Len(inbox[m]) : ~inbox[m][i].answer
  <1>1. ASSUME NEW w \in work, w.by = m, Asked(w) PROVE FALSE
    <2>1. doing[m] = [op |-> w.op, call |-> w.call]
      BY <1>1 DEF CallsInv, HandlerTrue
    <2>2. doing[m].op = w.op /\ w.op \in Awaited
      BY <1>1, <2>1 DEF Asked
    <2> QED BY <2>2 DEF Awaited
  <1>2. ASSUME NEW i \in 1..Len(inbox[m]), inbox[m][i].answer PROVE FALSE
    <2>1. AnswerTrue(m, inbox[m][i])
      BY <1>2 DEF CallsInv, InboxTrue
    <2>2. doing[m].op = inbox[m][i].op /\ inbox[m][i].op \in Awaited
      BY <2>1 DEF AnswerTrue
    <2> QED BY <2>2 DEF Awaited
  <1> QED BY <1>1, <1>2

PageType ==
  /\ page \in [Members -> [call : Calls \union {"NONE"}, status : {"INVITED", "ACTIVE", "ENDED"}]]
  /\ doing \in [Members -> [op : Awaited \union {"START", "PREPARE", "NOTHING"}, call : Calls \union {"NONE"}]]
  /\ tasks \subseteq Tasks /\ interrupted \subseteq Members
  /\ peer \in [Members -> {"NONE", "OPEN"}] /\ remote \in [Members -> Calls \union {"NONE"}]
  /\ answered \subseteq Calls

\* Cleaning up closes the connection of one page, and a handler of that page
\* which goes on is remembered.
LEMMA CleanedUp ==
  ASSUME PageType, NEW m \in Members, CleanUp(m)
  PROVE  /\ peer' \in [Members -> {"NONE", "OPEN"}] /\ remote' \in [Members -> Calls \union {"NONE"}]
         /\ interrupted' \subseteq Members
         /\ peer'[m] = "NONE" /\ remote'[m] = "NONE"
         /\ m \notin interrupted' => \A t \in tasks : t.by # m
         /\ \A k \in Members : k # m => /\ peer'[k] = peer[k] /\ remote'[k] = remote[k]
                                        /\ k \in interrupted => k \in interrupted'
  BY DEF CleanUp, PageType

\* A media prompt is shown, or is gone without a request: the page may clean up.
LEMMA PromptStep ==
  ASSUME CallsInv, NEW m \in Members, doing[m].op \in {"NOTHING", "START", "PREPARE"},
         NEW d \in [op : {"NOTHING", "START", "PREPARE"}, call : Calls \union {"NONE"}],
         doing' = [doing EXCEPT ![m] = d],
         UNCHANGED <<call, accepted, work, inbox, page, tasks, answered>>,
         CleanUp(m) \/ UNCHANGED <<peer, remote, interrupted>>,
         (\A c \in Calls : Quiet(c) => Quiet(c)') => Waits(m)'
  PROVE  CallsInv'
  <1> USE DEF CallsInv
  <1>1. /\ doing' \in [Members -> [op : Awaited \union {"START", "PREPARE", "NOTHING"}, call : Calls \union {"NONE"}]]
        /\ doing'[m] = d /\ \A k \in Members : k # m => doing'[k] = doing[k]
    BY DEF CallsTypeOK
  <1>2. PageType
    BY DEF CallsTypeOK, PageType
  <1>3. /\ peer' \in [Members -> {"NONE", "OPEN"}] /\ remote' \in [Members -> Calls \union {"NONE"}]
        /\ interrupted' \subseteq Members
        /\ \A k \in Members : k # m => /\ peer'[k] = peer[k] /\ remote'[k] = remote[k]
                                       /\ k \in interrupted => k \in interrupted'
        /\ \/ peer'[m] = "NONE" /\ remote'[m] = "NONE" /\ (m \notin interrupted' => \A t \in tasks : t.by # m)
           \/ UNCHANGED <<peer, remote, interrupted>>
    BY <1>2, CleanedUp DEF PageType
  <1>4. CallsTypeOK'
    BY <1>1, <1>3 DEF CallsTypeOK
  <1>5. Advances /\ LiveAlone' /\ LocksHeld' /\ OneAnswer' /\ AcceptedOnce'
    BY DEF Advances, LiveAlone, LocksHeld, SameRow, OneAnswer, Asked, AcceptedOnce, IsAccept, IsSignal
  <1>6. \A c \in Calls : Quiet(c) => Quiet(c)'
    BY DEF Quiet, IsSignal
  <1>7. \A w \in work' : HandlerTrue(w)'
    <2>1. ASSUME NEW w \in work PROVE HandlerTrue(w)'
      <3>1. HandlerTrue(w) /\ w.by \in Members /\ (w.by = m => ~Asked(w))
        BY NothingAsked DEF CallsTypeOK, Handlers
      <3> QED BY <1>1, <3>1 DEF HandlerTrue, EventTrue, AnswerTrue, Asked
    <2> QED BY <2>1
  <1>8. InboxTrue'
    <2>1. ASSUME NEW k \in Members, NEW i \in 1..Len(inbox[k])
          PROVE  IF inbox[k][i].answer THEN AnswerTrue(k, inbox[k][i])'
                                       ELSE EventTrue(Other(k), inbox[k][i])'
      <3>1. IF inbox[k][i].answer THEN AnswerTrue(k, inbox[k][i]) ELSE EventTrue(Other(k), inbox[k][i])
        BY DEF InboxTrue
      <3>2. k = m => ~inbox[k][i].answer
        BY NothingAsked
      <3> QED BY <1>1, <3>1, <3>2 DEF AnswerTrue, EventTrue
    <2> QED BY <2>1 DEF InboxTrue
  <1>9. \A k \in Members : Sound(k)'
    <2>1. ASSUME NEW k \in Members, k # m PROVE Sound(k)'
      BY <1>1, <1>3, <1>5, <1>6, <2>1, PageKept
    <2>2. PageTrue(m) /\ TasksOf(m) /\ Connected(m)
      BY DEF PagesTrue, TasksTrue, ConnectedToPeer, Connected
    <2>3. PageTrue(m)' /\ TasksOf(m)' /\ Connected(m)'
      BY <1>3, <2>2 DEF PageTrue, TasksOf, TaskTrue, Connected
    <2> QED BY <1>6, <2>1, <2>3 DEF Sound
  <1>10. PagesTrue' /\ TasksTrue' /\ WaitingUnconnected' /\ ConnectedToPeer'
    BY <1>9 DEF Sound, PagesTrue, TasksTrue, WaitingUnconnected, ConnectedToPeer, Connected
  <1> QED BY <1>4, <1>5, <1>7, <1>8, <1>10

\* A page that starts a call is in none, so it has no connection.
LEMMA StartStep ==
  ASSUME CallsInv, NEW m \in Members, Start(m) PROVE CallsInv'
  <1>1. /\ doing[m].op = "NOTHING" /\ page[m].status = "ENDED"
        /\ doing' = [doing EXCEPT ![m] = [op |-> "START", call |-> "NONE"]]
        /\ UNCHANGED <<call, accepted, work, inbox, page, linkVars>>
    BY DEF Start, Idle
  <1>2. doing'[m].op = "START" /\ PageTrue(m)
    BY <1>1 DEF CallsInv, CallsTypeOK, PagesTrue
  <1>3. Waits(m)'
    BY <1>1, <1>2 DEF Waits, PageTrue, linkVars
  <1> QED BY <1>1, <1>3, PromptStep DEF linkVars

\* A page that prepares to accept is at most connected to the call it accepts.
LEMMA AcceptStep ==
  ASSUME CallsInv, NEW m \in Members, Accept(m) PROVE CallsInv'
  <1> DEFINE c == page[m].call
  <1>1. /\ doing[m].op = "NOTHING" /\ page[m].status = "INVITED" /\ Callee(c) = m
        /\ doing' = [doing EXCEPT ![m] = [op |-> "PREPARE", call |-> c]]
        /\ UNCHANGED <<call, accepted, work, inbox, page, linkVars>>
    BY DEF Accept, Idle
  <1>2. PageTrue(m) /\ Connected(m)
    BY DEF CallsInv, PagesTrue, ConnectedToPeer, Connected
  <1>3. c \in Calls /\ call[c].status # "ABSENT" /\ call[c].caller \in Members
    BY <1>1, <1>2 DEF CallsInv, CallsTypeOK, PageTrue, LiveAlone
  <1>4. call[c].caller = Other(m)
    BY <1>1, <1>3, Pair DEF Callee
  <1>5. doing'[m].op = "PREPARE" /\ doing'[m].call = c
    BY <1>1 DEF CallsInv, CallsTypeOK
  <1>6. Waits(m)'
    BY <1>1, <1>2, <1>3, <1>4, <1>5, CallsAssumption DEF Waits, Connected, linkVars
  <1> QED BY <1>1, <1>3, <1>6, PromptStep DEF linkVars

\* A page whose prompt is denied waits for nothing.
LEMMA PromptDeniedStep ==
  ASSUME CallsInv, NEW m \in Members, PromptDenied(m) PROVE CallsInv'
  <1>1. /\ doing[m].op \in {"START", "PREPARE"} /\ doing' = [doing EXCEPT ![m] = Idle]
        /\ CleanUp(m) \/ UNCHANGED <<peer, remote, interrupted>>
        /\ UNCHANGED <<call, accepted, work, inbox, page, tasks, answered>>
    BY DEF PromptDenied
  <1>2. doing'[m].op = "NOTHING" /\ Idle \in [op : {"NOTHING", "START", "PREPARE"}, call : Calls \union {"NONE"}]
    BY <1>1 DEF CallsInv, CallsTypeOK, Idle
  <1>3. Waits(m)'
    BY <1>2 DEF Waits
  <1> QED BY <1>1, <1>2, <1>3, PromptStep

\* A page sends a request and waits for its answer.
LEMMA AskStep ==
  ASSUME CallsInv, NEW m \in Members, doing[m].op \in {"NOTHING", "START", "PREPARE"},
         NEW op \in Awaited, NEW c \in Calls,
         doing' = [doing EXCEPT ![m] = [op |-> op, call |-> c]],
         work' = work \union {Request(op, m, c)},
         UNCHANGED <<call, accepted, inbox, page, linkVars>>,
         op = "INVITE" <=> call[c].status = "ABSENT",
         op = "INVITE" => doing[m].op = "START" /\ \A w \in work : w.call # c,
         op = "ACCEPT" => doing[m] = [op |-> "PREPARE", call |-> c]
  PROVE  CallsInv'
  <1> USE DEF CallsInv
  <1> DEFINE r == Request(op, m, c)
  <1>1. /\ r \in Handlers /\ r.op = op /\ r.by = m /\ r.call = c /\ r.at = "SENT"
        /\ Asked(r) /\ ~IsSignal(r) /\ work' = work \union {r}
    BY DEF Request, Handlers, Ops, Statuses, Asked, IsSignal, Awaited
  <1> HIDE DEF r
  <1>2. /\ doing' \in [Members -> [op : Awaited \union {"START", "PREPARE", "NOTHING"}, call : Calls \union {"NONE"}]]
        /\ doing'[m] = [op |-> op, call |-> c] /\ \A k \in Members : k # m => doing'[k] = doing[k]
    BY DEF CallsTypeOK, Awaited
  <1>3. /\ \A w \in work : w.by = m => ~Asked(w)
        /\ \A i \in 1..Len(inbox[m]) : ~inbox[m][i].answer
    BY NothingAsked
  <1>4. Advances /\ LiveAlone' /\ PagesTrue' /\ TasksTrue' /\ ConnectedToPeer'
    BY DEF Advances, LiveAlone, PagesTrue, PageTrue, TasksTrue, TasksOf, TaskTrue, ConnectedToPeer, linkVars
  <1>5. CallsTypeOK'
    BY <1>1, <1>2 DEF CallsTypeOK, linkVars
  <1>6. \A w \in work' : HandlerTrue(w)'
    <2>1. ASSUME NEW w \in work PROVE HandlerTrue(w)'
      <3>1. HandlerTrue(w) /\ w.by \in Members
        BY DEF CallsTypeOK, Handlers
      <3> QED BY <1>2, <1>3, <3>1 DEF HandlerTrue, EventTrue, AnswerTrue, Asked, linkVars
    <2>2. HandlerTrue(r)'
      BY <1>1, <1>2 DEF HandlerTrue, Awaited
    <2> QED BY <1>1, <2>1, <2>2
  <1>7. LocksHeld'
    BY <1>1 DEF LocksHeld, SameRow
  <1>8. InboxTrue'
    <2>1. ASSUME NEW k \in Members, NEW i \in 1..Len(inbox[k])
          PROVE  IF inbox[k][i].answer THEN AnswerTrue(k, inbox[k][i])'
                                       ELSE EventTrue(Other(k), inbox[k][i])'
      <3>1. IF inbox[k][i].answer THEN AnswerTrue(k, inbox[k][i]) ELSE EventTrue(Other(k), inbox[k][i])
        BY DEF InboxTrue
      <3> QED BY <1>2, <1>3, <3>1 DEF AnswerTrue, EventTrue, linkVars
    <2> QED BY <2>1 DEF InboxTrue
  <1>9. OneAnswer'
    BY <1>1, <1>3 DEF OneAnswer, Asked
  <1>10. AcceptedOnce'
    BY <1>1 DEF AcceptedOnce, IsAccept, IsSignal, linkVars
  <1>11. WaitingUnconnected'
    <2>1. \A d \in Calls : Quiet(d) => Quiet(d)'
      BY <1>1 DEF Quiet, IsSignal, linkVars
    <2>2. ASSUME NEW k \in Members, k # m PROVE Waits(k)'
      BY <1>2, <1>4, <2>1, <2>2, PageKept DEF Sound, linkVars
    <2>3. Waits(m)'
      <3>1. Waits(m) /\ PageTrue(m) /\ Connected(m)
        BY DEF WaitingUnconnected, PagesTrue, ConnectedToPeer, Connected
      <3>2. page[m].status = "ACTIVE" => page[m].call \in Calls
        BY <3>1 DEF PageTrue, CallsTypeOK
      <3>3. page[m].status = "ACTIVE" /\ Quiet(page[m].call) => Quiet(page[m].call)'
        BY <2>1, <3>2 DEF Quiet
      <3> QED BY <1>2, <3>1, <3>3 DEF Waits, Awaited, linkVars
    <2> QED BY <2>2, <2>3 DEF WaitingUnconnected
  <1> QED BY <1>4, <1>5, <1>6, <1>7, <1>8, <1>9, <1>10, <1>11

\* An invitation is the only handler of the new call.
LEMMA InviteStep ==
  ASSUME CallsInv, NEW m \in Members, Invite(m) PROVE CallsInv'
  <1>1. PICK c \in Unused : /\ doing' = [doing EXCEPT ![m] = [op |-> "INVITE", call |-> c]]
                            /\ work' = work \union {Request("INVITE", m, c)}
    BY DEF Invite
  <1>2. c \in Calls /\ call[c].status = "ABSENT" /\ \A w \in work : w.call # c
    BY DEF Unused
  <1> QED BY <1>1, <1>2, AskStep DEF Invite, Awaited

\* The acceptance is sent for the call the page prepared for.
LEMMA SendAcceptStep ==
  ASSUME CallsInv, NEW m \in Members, SendAccept(m) PROVE CallsInv'
  <1> DEFINE c == doing[m].call
  <1>1. /\ doing[m].op = "PREPARE" /\ doing' = [doing EXCEPT ![m].op = "ACCEPT"]
        /\ work' = work \union {Request("ACCEPT", m, c)}
        /\ UNCHANGED <<call, accepted, inbox, page, linkVars>>
    BY DEF SendAccept
  <1>2. doing[m] \in [op : Awaited \union {"START", "PREPARE", "NOTHING"}, call : Calls \union {"NONE"}]
    BY DEF CallsInv, CallsTypeOK
  <1>3. c \in Calls /\ call[c].status # "ABSENT"
    BY <1>1 DEF CallsInv, WaitingUnconnected, Waits
  <1>4. doing[m] = [op |-> "PREPARE", call |-> c]
    BY <1>1, <1>2
  <1>5. doing' = [doing EXCEPT ![m] = [op |-> "ACCEPT", call |-> c]]
    <2>1. [doing[m] EXCEPT !.op = "ACCEPT"] = [op |-> "ACCEPT", call |-> c]
      BY <1>4
    <2> QED BY <1>1, <2>1, Zenon
  <1> QED BY <1>1, <1>3, <1>4, <1>5, AskStep DEF Awaited

\* Ending is a request for the call the page believes in.
LEMMA EndStep ==
  ASSUME CallsInv, NEW m \in Members, End(m) PROVE CallsInv'
  <1> DEFINE c == page[m].call
  <1>1. /\ doing[m].op = "NOTHING" /\ page[m].status \in Live
        /\ doing' = [doing EXCEPT ![m] = [op |-> "END", call |-> c]]
        /\ work' = work \union {Request("END", m, c)}
        /\ UNCHANGED <<call, accepted, inbox, page, linkVars>>
    BY DEF End, Idle
  <1>2. c \in Calls /\ call[c].status # "ABSENT"
    BY <1>1 DEF Live, CallsInv, CallsTypeOK, PagesTrue, PageTrue
  <1> QED BY <1>1, <1>2, AskStep DEF Awaited
-----------------------------------------------------------------------------
(* A page reads what it was sent.                                            *)

\* After a page has read, its inbox is the rest and the other one the same.
LEMMA Taken ==
  ASSUME CallsInv, NEW m \in Members, NEW e, Read(m, e)
  PROVE  /\ inbox' \in [Members -> Seq(Messages)]
         /\ 1 \in 1..Len(inbox[m]) /\ e = inbox[m][1]
         /\ \A k \in Members : k # m => inbox'[k] = inbox[k]
         /\ \A i \in 1..Len(inbox'[m]) : i + 1 \in 1..Len(inbox[m]) /\ inbox'[m][i] = inbox[m][i + 1]
  <1>1. inbox \in [Members -> Seq(Messages)] /\ inbox[m] \in Seq(Messages) /\ inbox[m] # <<>>
    BY DEF Read, CallsInv, CallsTypeOK
  <1>2. /\ inbox'[m] = Tail(inbox[m]) /\ \A k \in Members : k # m => inbox'[k] = inbox[k]
        /\ inbox' \in [Members -> Seq(Messages)]
    BY <1>1, TailOf DEF Read
  <1> QED BY <1>1, <1>2, TailOf DEF Read

\* What holds of handlers and messages survives the reading of a message, whose
\* answer frees the page, the request that the page makes of it, and the handler
\* that it starts.
LEMMA ReadKeeps ==
  ASSUME CallsInv, NEW m \in Members, NEW e, Read(m, e), UNCHANGED <<call, accepted>>,
         answered \subseteq answered',
         \A k \in Members : k # m => doing'[k] = doing[k],
         e.answer \/ doing'[m] = doing[m],
         NEW r,
         \/ work' = work
         \/ /\ work' = work \union {r}
            /\ r.op = "BUSY" /\ r.at = "SENT" /\ r.by = m /\ ~Asked(r) /\ HandlerTrue(r)',
         NEW t,
         \/ tasks' = tasks
         \/ /\ tasks' = tasks \union {t} /\ t.by = m /\ t.call = e.call
            /\ (t.op = "OFFER" /\ IsAccept(e)) \/ (t.op = "ANSWER" /\ e.op = "OFFER")
  PROVE  /\ Advances /\ LiveAlone' /\ (\A w \in work' : HandlerTrue(w)') /\ LocksHeld' /\ InboxTrue'
         /\ OneAnswer' /\ AcceptedOnce' /\ \A c \in Calls : Quiet(c) => Quiet(c)'
  <1> USE DEF CallsInv
  <1>0. \A k \in Members : \A i \in 1..Len(inbox'[k]) : i \in Nat
    <2>1. \A k \in Members : inbox'[k] \in Seq(Messages)
      BY Taken
    <2> QED BY <2>1
  <1>1. /\ 1 \in 1..Len(inbox[m]) /\ e = inbox[m][1]
        /\ \A k \in Members : k # m => inbox'[k] = inbox[k]
        /\ \A i \in 1..Len(inbox'[m]) : i + 1 \in 1..Len(inbox[m]) /\ inbox'[m][i] = inbox[m][i + 1]
    BY Taken
  <1>2. Advances /\ LiveAlone'
    BY DEF Advances, LiveAlone
  <1>3. e.answer => /\ \A w \in work : w.by = m => ~Asked(w)
                    /\ \A i \in 1..Len(inbox'[m]) : ~inbox'[m][i].answer
    <2> SUFFICES ASSUME e.answer
                 PROVE  /\ \A w \in work : w.by = m => ~Asked(w)
                        /\ \A i \in 1..Len(inbox'[m]) : ~inbox'[m][i].answer
      OBVIOUS
    <2>1. \A w \in work : w.by = m => ~Asked(w)
      BY <1>1 DEF OneAnswer
    <2>2. \A i, j \in 1..Len(inbox[m]) : inbox[m][i].answer /\ inbox[m][j].answer => i = j
      BY DEF OneAnswer
    <2>3. \A i \in 1..Len(inbox'[m]) : i + 1 # 1
      BY <1>0
    <2>4. \A i \in 1..Len(inbox'[m]) : ~inbox'[m][i].answer
      BY <1>1, <2>2, <2>3
    <2> QED BY <2>1, <2>4
  <1>4. \A w \in work' : HandlerTrue(w)'
    <2>1. ASSUME NEW w \in work PROVE HandlerTrue(w)'
      <3>1. HandlerTrue(w) /\ w.by \in Members
        BY DEF CallsTypeOK, Handlers
      <3>2. w.by = m => ~e.answer \/ ~Asked(w)
        BY <1>3
      <3> QED BY <3>1, <3>2 DEF HandlerTrue, EventTrue, AnswerTrue, Asked
    <2> QED BY <2>1
  <1>5. LocksHeld'
    BY DEF LocksHeld, SameRow
  <1>6. InboxTrue'
    <2>1. ASSUME NEW k \in Members, k # m, NEW i \in 1..Len(inbox[k])
          PROVE  IF inbox'[k][i].answer THEN AnswerTrue(k, inbox[k][i])'
                                        ELSE EventTrue(Other(k), inbox[k][i])'
      <3>1. IF inbox[k][i].answer THEN AnswerTrue(k, inbox[k][i]) ELSE EventTrue(Other(k), inbox[k][i])
        BY DEF InboxTrue
      <3> QED BY <1>1, <2>1, <3>1 DEF AnswerTrue, EventTrue
    <2>2. ASSUME NEW i \in 1..Len(inbox'[m])
          PROVE  IF inbox'[m][i].answer THEN AnswerTrue(m, inbox[m][i])'
                                        ELSE EventTrue(Other(m), inbox[m][i])'
      <3>1. inbox'[m][i] = inbox[m][i + 1] /\ i + 1 \in 1..Len(inbox[m])
        BY <1>1
      <3>2. IF inbox[m][i + 1].answer THEN AnswerTrue(m, inbox[m][i + 1])
                                      ELSE EventTrue(Other(m), inbox[m][i + 1])
        BY <3>1 DEF InboxTrue
      <3> QED BY <1>3, <3>1, <3>2 DEF AnswerTrue, EventTrue
    <2> QED BY <1>1, <2>1, <2>2 DEF InboxTrue
  <1>7. OneAnswer'
    <2>1. \A k \in Members : k # m =>
            \A i, j \in 1..Len(inbox'[k]) : inbox'[k][i].answer /\ inbox'[k][j].answer => i = j
      BY <1>1 DEF OneAnswer
    <2>2. \A i, j \in 1..Len(inbox'[m]) : inbox'[m][i].answer /\ inbox'[m][j].answer => i = j
      <3>1. \A i, j \in 1..Len(inbox[m]) : inbox[m][i].answer /\ inbox[m][j].answer => i = j
        BY DEF OneAnswer
      <3>2. ASSUME NEW i \in 1..Len(inbox'[m]), NEW j \in 1..Len(inbox'[m]),
                   inbox'[m][i].answer, inbox'[m][j].answer
            PROVE  i = j
        <4>1. i + 1 = j + 1
          BY <1>1, <3>1, <3>2
        <4> QED BY <1>0, <4>1
      <3> QED BY <3>2
    <2>3. \A k \in Members : \A v \in work : v.by = k /\ Asked(v) =>
            /\ \A i \in 1..Len(inbox'[k]) : ~inbox'[k][i].answer
            /\ \A w \in work : w.by = k /\ Asked(w) => v = w
      BY <1>1 DEF OneAnswer
    <2> QED BY <2>1, <2>2, <2>3 DEF OneAnswer
  <1>8. AcceptedOnce'
    <2>1. \A c \in Calls : call'[c].status \in {"ABSENT", "INVITED"} => c \notin accepted'
      BY DEF AcceptedOnce
    <2>2. ASSUME NEW w \in work, w.op = "ACCEPT", w.at = "COMMITTED"
          PROVE  /\ \A u \in tasks' : u.call # w.call
                 /\ \A v \in work' : v.call = w.call =>
                      ~IsSignal(v) /\ (v.op = "ACCEPT" /\ v.at = "COMMITTED" => v = w)
                 /\ \A k \in Members : \A i \in 1..Len(inbox'[k]) :
                      inbox'[k][i].call = w.call => ~IsSignal(inbox'[k][i]) /\ ~IsAccept(inbox'[k][i])
      <3>1. /\ \A u \in tasks : u.call # w.call
            /\ \A v \in work : v.call = w.call =>
                 ~IsSignal(v) /\ (v.op = "ACCEPT" /\ v.at = "COMMITTED" => v = w)
            /\ \A k \in Members : \A i \in 1..Len(inbox[k]) :
                 inbox[k][i].call = w.call => ~IsSignal(inbox[k][i]) /\ ~IsAccept(inbox[k][i])
        BY <2>2 DEF AcceptedOnce
      <3>2. e.call = w.call => ~IsSignal(e) /\ ~IsAccept(e)
        BY <1>1, <3>1
      <3>3. work' # work => ~IsSignal(r) /\ r.op # "ACCEPT"
        BY DEF IsSignal
      <3>4. \A k \in Members : \A i \in 1..Len(inbox'[k]) :
              inbox'[k][i].call = w.call => ~IsSignal(inbox'[k][i]) /\ ~IsAccept(inbox'[k][i])
        BY <1>1, <3>1
      <3>5. \A u \in tasks' : u.call # w.call
        BY <3>1, <3>2 DEF IsSignal
      <3> QED BY <3>1, <3>3, <3>4, <3>5
    <2>3. ASSUME NEW k \in Members, NEW i \in 1..Len(inbox'[k]), IsAccept(inbox'[k][i])
          PROVE  /\ \A u \in tasks' : u.call # inbox'[k][i].call
                 /\ \A w \in work' : w.call = inbox'[k][i].call => ~IsSignal(w)
                 /\ \A l \in Members : \A j \in 1..Len(inbox'[l]) : inbox'[l][j].call = inbox'[k][i].call =>
                      ~IsSignal(inbox'[l][j]) /\ (IsAccept(inbox'[l][j]) => l = k /\ j = i)
      <3> DEFINE Old(l, j) == IF l = m THEN j + 1 ELSE j
      <3>1. \A l \in Members : \A j \in 1..Len(inbox'[l]) :
              /\ Old(l, j) \in 1..Len(inbox[l]) /\ inbox'[l][j] = inbox[l][Old(l, j)]
              /\ l = m => Old(l, j) # 1
        BY <1>1
      <3> HIDE DEF Old
      <3>2. /\ \A u \in tasks : u.call # inbox'[k][i].call
            /\ \A w \in work : w.call = inbox'[k][i].call => ~IsSignal(w)
            /\ \A l \in Members : \A j \in 1..Len(inbox[l]) : inbox[l][j].call = inbox'[k][i].call =>
                 ~IsSignal(inbox[l][j]) /\ (IsAccept(inbox[l][j]) => l = k /\ j = Old(k, i))
        <4>1. Old(k, i) \in 1..Len(inbox[k]) /\ inbox'[k][i] = inbox[k][Old(k, i)]
          BY <3>1
        <4>2. IsAccept(inbox[k][Old(k, i)])
          BY <2>3, <4>1 DEF IsAccept
        <4> QED BY <4>1, <4>2 DEF AcceptedOnce
      <3>3. e.call = inbox'[k][i].call => ~IsSignal(e) /\ ~IsAccept(e)
        BY <1>1, <3>1, <3>2
      <3>4. /\ work' # work => ~IsSignal(r)
            /\ \A u \in tasks' : u.call # inbox'[k][i].call
        BY <3>2, <3>3 DEF IsSignal
      <3>5. ASSUME NEW l \in Members, NEW j \in 1..Len(inbox'[l]), inbox'[l][j].call = inbox'[k][i].call
            PROVE  ~IsSignal(inbox'[l][j]) /\ (IsAccept(inbox'[l][j]) => l = k /\ j = i)
        <4>1. ~IsSignal(inbox'[l][j]) /\ (IsAccept(inbox'[l][j]) => l = k /\ Old(l, j) = Old(k, i))
          <5>1. Old(l, j) \in 1..Len(inbox[l]) /\ inbox'[l][j] = inbox[l][Old(l, j)]
            BY <3>1
          <5>2. /\ ~IsSignal(inbox[l][Old(l, j)])
                /\ IsAccept(inbox[l][Old(l, j)]) => l = k /\ Old(l, j) = Old(k, i)
            BY <3>2, <3>5, <5>1
          <5> QED BY <5>1, <5>2 DEF IsSignal, IsAccept
        <4>2. l = k /\ Old(l, j) = Old(k, i) => j = i
          BY <1>0, <3>5 DEF Old
        <4> QED BY <4>1, <4>2
      <3> QED BY <3>2, <3>4, <3>5
    <2> QED BY <2>1, <2>2, <2>3 DEF AcceptedOnce
  <1>9. \A c \in Calls : Quiet(c) => Quiet(c)'
    <2> SUFFICES ASSUME NEW c \in Calls, Quiet(c) PROVE Quiet(c)'
      OBVIOUS
    <2>1. e.call = c => ~IsSignal(e)
      BY <1>1 DEF Quiet
    <2>2. /\ \A w \in work' : w.call = c => ~(w.op = "ANSWER") /\ ~(w.op = "OFFER" /\ w.at # "SENT")
          /\ \A u \in tasks' : u.call = c => u.op # "ANSWER"
      BY <2>1 DEF Quiet, IsSignal
    <2>3. \A k \in Members : \A i \in 1..Len(inbox'[k]) :
            inbox'[k][i].call = c => ~IsSignal(inbox'[k][i])
      BY <1>1 DEF Quiet
    <2> QED BY <2>2, <2>3 DEF Quiet
  <1> QED BY <1>2, <1>4, <1>5, <1>6, <1>7, <1>8, <1>9

\* The page that reads, and the rest.
LEMMA ReadStep ==
  ASSUME CallsInv, NEW m \in Members, NEW e, Read(m, e), UNCHANGED <<call, accepted>>,
         answered \subseteq answered', PageType',
         e.answer \/ doing'[m] = doing[m],
         \A k \in Members : k # m => /\ doing'[k] = doing[k] /\ page'[k] = page[k]
                                     /\ peer'[k] = peer[k] /\ remote'[k] = remote[k]
                                     /\ k \in interrupted => k \in interrupted',
         NEW r,
         \/ work' = work
         \/ /\ work' = work \union {r} /\ r \in Handlers
            /\ r.op = "BUSY" /\ r.at = "SENT" /\ r.by = m /\ ~Asked(r) /\ HandlerTrue(r)',
         NEW t,
         \/ tasks' = tasks
         \/ /\ tasks' = tasks \union {t} /\ t.by = m /\ t.call = e.call
            /\ (t.op = "OFFER" /\ IsAccept(e)) \/ (t.op = "ANSWER" /\ e.op = "OFFER"),
         (\A c \in Calls : Quiet(c) => Quiet(c)') => Sound(m)'
  PROVE  CallsInv'
  <1>1. /\ Advances /\ LiveAlone' /\ (\A w \in work' : HandlerTrue(w)') /\ LocksHeld' /\ InboxTrue'
        /\ OneAnswer' /\ AcceptedOnce' /\ \A c \in Calls : Quiet(c) => Quiet(c)'
    BY ReadKeeps
  <1>2. \A k \in Members : Sound(k)'
    <2>1. ASSUME NEW k \in Members, k # m PROVE Sound(k)'
      BY <1>1, <2>1, PageKept
    <2> QED BY <1>1, <2>1
  <1>3. PagesTrue' /\ TasksTrue' /\ WaitingUnconnected' /\ ConnectedToPeer'
    BY <1>2 DEF Sound, PagesTrue, TasksTrue, WaitingUnconnected, ConnectedToPeer, Connected
  <1>4. work' \subseteq Handlers
    BY DEF CallsInv, CallsTypeOK
  <1>5. CallsTypeOK'
    BY <1>4, Taken DEF PageType, CallsInv, CallsTypeOK
  <1> QED BY <1>1, <1>3, <1>5 DEF CallsInv

\* What a page knows of the message it reads and of itself.
LEMMA ReadFacts ==
  ASSUME CallsInv, NEW m \in Members, NEW e, Read(m, e)
  PROVE  /\ e \in Messages /\ e.call \in Calls /\ e.call # "NONE"
         /\ IF e.answer THEN AnswerTrue(m, e) ELSE EventTrue(Other(m), e)
         /\ PageType /\ PageTrue(m) /\ TasksOf(m) /\ Waits(m) /\ Connected(m)
         /\ page[m].status \in {"INVITED", "ACTIVE", "ENDED"} /\ page[m].call \in Calls \union {"NONE"}
         /\ 1 \in 1..Len(inbox[m]) /\ e = inbox[m][1]
         /\ Other(m) \in Members /\ Other(m) # m /\ Other(Other(m)) = m
  <1>1. 1 \in 1..Len(inbox[m]) /\ e = inbox[m][1]
    BY Taken
  <1>2. e \in Messages /\ e.call \in Calls /\ e.call # "NONE"
    BY <1>1, MessageType, CallsAssumption
  <1>3. IF e.answer THEN AnswerTrue(m, e) ELSE EventTrue(Other(m), e)
    BY <1>1 DEF CallsInv, InboxTrue
  <1>4. PageType /\ PageTrue(m) /\ TasksOf(m) /\ Waits(m) /\ Connected(m)
    BY DEF CallsInv, CallsTypeOK, PageType, PagesTrue, TasksTrue, WaitingUnconnected, ConnectedToPeer, Connected
  <1>5. page[m].status \in {"INVITED", "ACTIVE", "ENDED"} /\ page[m].call \in Calls \union {"NONE"}
    BY <1>4 DEF PageType
  <1> QED BY <1>1, <1>2, <1>3, <1>4, <1>5, Pair

\* A signal or a busy answer that a page sends.
LEMMA Requested ==
  ASSUME NEW m \in Members, NEW c \in Calls, NEW op \in {"BUSY", "OFFER", "ANSWER"}
  PROVE  LET r == Request(op, m, c) IN
         /\ r \in Handlers /\ r.op = op /\ r.by = m /\ r.call = c /\ r.at = "SENT" /\ ~Asked(r)
  BY DEF Request, Handlers, Ops, Statuses, Asked, Awaited

\* The page that turns to a call is in it; the other page is where it was.
LEMMA Turned ==
  ASSUME PageType, NEW m \in Members, NEW e, e.call \in Calls, e.status \in {"INVITED", "ACTIVE", "ENDED"},
         Turns(m, e)
  PROVE  /\ page' \in [Members -> [call : Calls \union {"NONE"}, status : {"INVITED", "ACTIVE", "ENDED"}]]
         /\ page'[m].call = e.call /\ page'[m].status = e.status
         /\ \A k \in Members : k # m => page'[k] = page[k]
  BY DEF Turns, PageType

\* An incoming call.
LEMMA OnInviteStep ==
  ASSUME CallsInv, NEW m \in Members, NEW e, OnInvite(m, e) PROVE CallsInv'
  <1>1. /\ Read(m, e) /\ e.op = "INVITE" /\ ~e.answer
        /\ UNCHANGED <<call, accepted, doing, linkVars>>
    BY DEF OnInvite
  <1>2. /\ e.call \in Calls /\ e.call # "NONE" /\ EventTrue(Other(m), e)
        /\ PageType /\ PageTrue(m) /\ TasksOf(m) /\ Waits(m) /\ Connected(m)
        /\ page[m].status \in {"INVITED", "ACTIVE", "ENDED"}
    BY <1>1, ReadFacts
  <1>3. CASE page[m].status \in Live
    <2> DEFINE r == Request("BUSY", m, e.call)
    <2>1. UNCHANGED page /\ work' \in {work, work \union {r}}
      BY <1>3 DEF OnInvite
    <2>2. r \in Handlers /\ r.op = "BUSY" /\ r.by = m /\ r.call = e.call /\ r.at = "SENT" /\ ~Asked(r)
      BY <1>2, Requested
    <2> HIDE DEF r
    <2>3. HandlerTrue(r)'
      BY <1>1, <1>2, <2>2 DEF HandlerTrue, EventTrue
    <2>4. Advances
      BY <1>1 DEF Advances, linkVars
    <2>5. (\A c \in Calls : Quiet(c) => Quiet(c)') => Sound(m)'
      BY <1>1, <2>1, <2>4, PageKept DEF linkVars
    <2>6. PageType'
      BY <1>1, <1>2, <2>1 DEF PageType, linkVars
    <2> QED BY <1>1, <2>1, <2>2, <2>3, <2>5, <2>6, ReadStep DEF linkVars
  <1>4. CASE page[m].status \notin Live
    <2>1. Turns(m, e) /\ work' = work /\ page[m].status = "ENDED" /\ e.status = "INVITED"
      BY <1>1, <1>2, <1>4 DEF OnInvite, Live, EventTrue
    <2>2. /\ PageType' /\ page'[m].call = e.call /\ page'[m].status = "INVITED"
          /\ \A k \in Members : k # m => page'[k] = page[k]
      BY <1>1, <1>2, <2>1, Turned DEF PageType, linkVars
    <2>3. Sound(m)'
      BY <1>1, <1>2, <2>1, <2>2 DEF Sound, PageTrue, TasksOf, TaskTrue, Waits, Connected, EventTrue, linkVars
    <2> QED BY <1>1, <2>1, <2>2, <2>3, ReadStep DEF linkVars
  <1> QED BY <1>3, <1>4

\* A handler that a page starts to send a signal of this call.
LEMMA Started ==
  ASSUME NEW m \in Members, NEW c \in Calls, NEW op \in {"OFFER", "ANSWER"}
  PROVE  LET t == Task(op, m, c) IN t \in Tasks /\ t.op = op /\ t.by = m /\ t.call = c
  BY DEF Task, Tasks

\* The caller sets out to make its offer.  A page that has left the call already
\* and is waiting for another one comes back to a call that is over: its offer
\* will be refused.
LEMMA OnAcceptStep ==
  ASSUME CallsInv, NEW m \in Members, NEW e, OnAccept(m, e) PROVE CallsInv'
  <1>1. /\ Read(m, e) /\ e.op = "ACCEPT" /\ ~e.answer
        /\ UNCHANGED <<call, accepted, work, doing, peer, remote, answered, interrupted>>
    BY DEF OnAccept
  <1>2. /\ e.call \in Calls /\ e.call # "NONE" /\ EventTrue(Other(m), e)
        /\ PageType /\ PageTrue(m) /\ TasksOf(m) /\ Waits(m) /\ Connected(m)
        /\ page[m].status \in {"INVITED", "ACTIVE", "ENDED"}
        /\ 1 \in 1..Len(inbox[m]) /\ e = inbox[m][1]
        /\ Other(m) \in Members /\ Other(m) # m /\ Other(Other(m)) = m
    BY <1>1, ReadFacts
  <1>3. CASE page[m].call = e.call
    <2> DEFINE t == Task("OFFER", m, e.call)
    <2>1. Turns(m, e) /\ tasks' = tasks \union {t}
      BY <1>3 DEF OnAccept
    <2>2. e.status = "ACTIVE" /\ e.call \in accepted /\ call[e.call].caller = m /\ IsAccept(e)
      BY <1>1, <1>2 DEF EventTrue, IsAccept
    <2>3. t \in Tasks /\ t.op = "OFFER" /\ t.by = m /\ t.call = e.call
      BY <1>2, Started
    <2> HIDE DEF t
    <2>4. /\ PageType' /\ page'[m].call = e.call /\ page'[m].status = "ACTIVE"
          /\ \A k \in Members : k # m => page'[k] = page[k]
      BY <1>1, <1>2, <2>1, <2>2, <2>3, Turned DEF PageType
    <2>5. PageTrue(m)' /\ Connected(m)'
      BY <1>1, <1>2, <1>3, <2>4 DEF PageTrue, Connected, EventTrue
    <2>6. TasksOf(m)'
      <3>1. ASSUME NEW u \in tasks, u.by = m PROVE TaskTrue(u)'
        <4>1. TaskTrue(u) /\ u.op \in {"OFFER", "ANSWER"}
          BY <1>2, <3>1 DEF TasksOf, PageType, Tasks
        <4>2. u.op = "ANSWER" => m \in interrupted
          BY <1>2, <1>3, <2>2, <3>1, <4>1 DEF TaskTrue
        <4> QED BY <1>1, <3>1, <4>1, <4>2 DEF TaskTrue
      <3>2. TaskTrue(t)'
        BY <1>1, <2>2, <2>3 DEF TaskTrue
      <3> QED BY <2>1, <3>1, <3>2 DEF TasksOf
    <2>7. doing[m].op \in {"START", "INVITE"} => Quiet(e.call)
      <3>1. ASSUME page[m].status = "ENDED" PROVE Quiet(e.call)
        <4>1. call[e.call].status = "ENDED"
          BY <1>2, <1>3, <3>1 DEF PageTrue
        <4>2. /\ \A w \in work : w.call = e.call => ~IsSignal(w)
              /\ \A n \in Members : \A i \in 1..Len(inbox[n]) : inbox[n][i].call = e.call =>
                   ~IsSignal(inbox[n][i])
              /\ \A u \in tasks : u.call # e.call
          BY <1>2, <2>2 DEF CallsInv, AcceptedOnce
        <4> QED BY <4>1, <4>2 DEF Quiet, IsSignal
      <3> QED BY <1>2, <1>3, <2>2, <3>1 DEF Waits
    <2>8. ASSUME \A c \in Calls : Quiet(c) => Quiet(c)' PROVE Sound(m)'
      <3>1. doing[m].op \in {"START", "INVITE"} => Quiet(e.call)'
        BY <1>2, <2>7, <2>8
      <3>2. doing[m].op \notin {"PREPARE", "ACCEPT"}
        BY <1>2, <1>3, <2>2 DEF Waits
      <3>3. Waits(m)'
        BY <1>1, <1>2, <2>2, <2>4, <3>1, <3>2 DEF Waits, Quiet
      <3> QED BY <2>5, <2>6, <3>3 DEF Sound
    <2> QED BY <1>1, <2>1, <2>2, <2>3, <2>4, <2>8, ReadStep
  <1>4. CASE page[m].call # e.call
    <2>1. UNCHANGED <<page, tasks>> /\ Advances /\ PageType'
      BY <1>1, <1>2, <1>4 DEF OnAccept, Advances, PageType
    <2>2. (\A c \in Calls : Quiet(c) => Quiet(c)') => Sound(m)'
      BY <1>1, <2>1, PageKept
    <2> QED BY <1>1, <2>1, <2>2, ReadStep
  <1> QED BY <1>3, <1>4

\* The callee sets out to answer the offer of the active call its page is in.
LEMMA OnOfferStep ==
  ASSUME CallsInv, NEW m \in Members, NEW e, OnOffer(m, e) PROVE CallsInv'
  <1>1. /\ Read(m, e) /\ e.op = "OFFER" /\ ~e.answer
        /\ UNCHANGED <<call, accepted, work, page, doing, peer, remote, answered, interrupted>>
    BY DEF OnOffer
  <1>2. /\ e.call \in Calls /\ e.call # "NONE" /\ EventTrue(Other(m), e)
        /\ PageType /\ PageTrue(m) /\ TasksOf(m) /\ Waits(m) /\ Connected(m)
        /\ Other(m) \in Members /\ Other(m) # m /\ Other(Other(m)) = m
    BY <1>1, ReadFacts
  <1>3. Advances
    BY <1>1 DEF Advances
  <1>4. CASE page[m] = [call |-> e.call, status |-> "ACTIVE"]
    <2> DEFINE t == Task("ANSWER", m, e.call)
    <2>1. tasks' = tasks \union {t}
      BY <1>4 DEF OnOffer
    <2>2. e.call \in accepted /\ call[e.call].caller = Other(m)
      BY <1>1, <1>2 DEF EventTrue
    <2>3. t \in Tasks /\ t.op = "ANSWER" /\ t.by = m /\ t.call = e.call
      BY <1>2, Started
    <2> HIDE DEF t
    <2>4. PageType'
      BY <1>1, <1>2, <2>1, <2>3 DEF PageType
    <2>5. page[m].call = e.call /\ page[m].status = "ACTIVE"
      BY <1>4
    <2>6. PageTrue(m)' /\ TasksOf(m)' /\ Connected(m)'
      BY <1>1, <1>2, <2>1, <2>2, <2>3, <2>5 DEF PageTrue, TasksOf, TaskTrue, Connected
    <2>7. ASSUME \A c \in Calls : Quiet(c) => Quiet(c)' PROVE Sound(m)'
      <3>1. Waits(m)'
        BY <1>1, <1>2, <2>5, <2>7 DEF Waits
      <3> QED BY <2>6, <3>1 DEF Sound
    <2> QED BY <1>1, <2>1, <2>3, <2>4, <2>7, ReadStep
  <1>5. CASE page[m] # [call |-> e.call, status |-> "ACTIVE"]
    <2>1. UNCHANGED tasks /\ PageType'
      BY <1>1, <1>2, <1>5 DEF OnOffer, PageType
    <2>2. (\A c \in Calls : Quiet(c) => Quiet(c)') => Sound(m)'
      BY <1>1, <1>3, <2>1, PageKept
    <2> QED BY <1>1, <2>1, <2>2, ReadStep
  <1> QED BY <1>4, <1>5

\* The caller takes the answer.
LEMMA OnAnswerStep ==
  ASSUME CallsInv, NEW m \in Members, NEW e, OnAnswer(m, e) PROVE CallsInv'
  <1>1. Read(m, e) /\ e.op = "ANSWER" /\ ~e.answer /\ UNCHANGED <<call, accepted, work, page, doing, tasks, peer, answered, interrupted>>
    BY DEF OnAnswer
  <1>2. /\ e.call \in Calls /\ e.call # "NONE" /\ EventTrue(Other(m), e)
        /\ PageType /\ PageTrue(m) /\ TasksOf(m) /\ Waits(m) /\ Connected(m)
        /\ page[m].status \in {"INVITED", "ACTIVE", "ENDED"}
        /\ 1 \in 1..Len(inbox[m]) /\ e = inbox[m][1]
        /\ Other(m) \in Members /\ Other(m) # m /\ Other(Other(m)) = m
    BY <1>1, ReadFacts
  <1>3. CASE page[m].call = e.call /\ peer[m] # "NONE"
    <2>1. remote' = [remote EXCEPT ![m] = e.call]
      BY <1>3 DEF OnAnswer
    <2>2. e.call \in accepted /\ e.call \in answered /\ call[e.call].caller = m
      BY <1>1, <1>2 DEF EventTrue
    <2>3. PageType' /\ remote'[m] = e.call /\ \A k \in Members : k # m => remote'[k] = remote[k]
      BY <1>1, <1>2, <2>1 DEF PageType
    <2>4. ~Quiet(e.call)
      BY <1>1, <1>2 DEF Quiet, IsSignal
    <2>5. PageTrue(m)' /\ TasksOf(m)' /\ Connected(m)'
      BY <1>1, <1>2, <1>3, <2>2, <2>3 DEF PageTrue, TasksOf, TaskTrue, Connected
    <2>6. doing[m].op \notin {"PREPARE", "ACCEPT"}
      BY <1>2, <1>3, <2>2 DEF Waits
    <2>7. doing[m].op \in {"START", "INVITE"} => page[m].status = "ENDED" /\ m \in interrupted
      BY <1>2, <1>3, <2>2, <2>4 DEF Waits, PageTrue
    <2>8. Sound(m)'
      BY <1>1, <1>2, <2>5, <2>6, <2>7 DEF Sound, Waits
    <2> QED BY <1>1, <2>3, <2>8, ReadStep
  <1>4. CASE ~(page[m].call = e.call /\ peer[m] # "NONE")
    <2>1. UNCHANGED remote /\ Advances /\ PageType'
      BY <1>1, <1>2, <1>4 DEF OnAnswer, Advances, PageType
    <2>2. (\A c \in Calls : Quiet(c) => Quiet(c)') => Sound(m)'
      BY <1>1, <2>1, PageKept
    <2> QED BY <1>1, <2>1, <2>2, ReadStep
  <1> QED BY <1>3, <1>4

\* A page leaves the call that has ended, and no other.
LEMMA OnEndStep ==
  ASSUME CallsInv, NEW m \in Members, NEW e, OnEnd(m, e) PROVE CallsInv'
  <1>1. Read(m, e) /\ e.op \in {"END", "BUSY"} /\ ~e.answer /\ UNCHANGED <<call, accepted, work, doing, tasks, answered>>
    BY DEF OnEnd
  <1>2. /\ e.call \in Calls /\ e.call # "NONE" /\ EventTrue(Other(m), e)
        /\ PageType /\ PageTrue(m) /\ TasksOf(m) /\ Waits(m) /\ Connected(m)
    BY <1>1, ReadFacts
  <1>3. CASE page[m].call = e.call
    <2>1. Turns(m, e) /\ CleanUp(m)
      BY <1>3 DEF OnEnd
    <2>2. e.status = "ENDED" /\ call[e.call].status = "ENDED"
      BY <1>1, <1>2 DEF EventTrue
    <2>3. /\ PageType' /\ page'[m].call = e.call /\ page'[m].status = "ENDED"
          /\ peer'[m] = "NONE" /\ remote'[m] = "NONE"
          /\ m \notin interrupted' => \A t \in tasks : t.by # m
          /\ \A k \in Members : k # m => /\ page'[k] = page[k] /\ peer'[k] = peer[k]
                                         /\ remote'[k] = remote[k]
                                         /\ k \in interrupted => k \in interrupted'
      BY <1>1, <1>2, <2>1, <2>2, Turned, CleanedUp DEF PageType
    <2>4. Sound(m)'
      BY <1>1, <1>2, <1>3, <2>2, <2>3 DEF Sound, PageTrue, TasksOf, TaskTrue, Waits, Connected
    <2> QED BY <1>1, <2>3, <2>4, ReadStep
  <1>4. CASE page[m].call # e.call
    <2>1. UNCHANGED <<page, peer, remote, interrupted>> /\ Advances /\ PageType'
      BY <1>1, <1>2, <1>4 DEF OnEnd, Advances, PageType
    <2>2. (\A c \in Calls : Quiet(c) => Quiet(c)') => Sound(m)'
      BY <1>1, <2>1, PageKept
    <2> QED BY <1>1, <2>1, <2>2, ReadStep
  <1> QED BY <1>3, <1>4

\* The answer to what the page waits for moves it to that call, to which alone
\* it may be connected.
LEMMA OnAcknowledgeStep ==
  ASSUME CallsInv, NEW m \in Members, NEW e, OnAcknowledge(m, e) PROVE CallsInv'
  <1>1. /\ Read(m, e) /\ e.answer /\ UNCHANGED <<call, accepted, work, tasks, answered>>
        /\ doing' = [doing EXCEPT ![m] = Idle]
    BY DEF OnAcknowledge
  <1>2. /\ e.call \in Calls /\ e.call # "NONE" /\ AnswerTrue(m, e)
        /\ PageType /\ PageTrue(m) /\ TasksOf(m) /\ Waits(m) /\ Connected(m)
    BY <1>1, ReadFacts
  <1>3. /\ doing' \in [Members -> [op : Awaited \union {"START", "PREPARE", "NOTHING"}, call : Calls \union {"NONE"}]]
        /\ doing'[m].op = "NOTHING" /\ \A k \in Members : k # m => doing'[k] = doing[k]
    BY <1>1, <1>2 DEF PageType, Idle, Awaited
  <1>4. e.op \in Awaited /\ doing[m].op = e.op /\ doing[m].call = e.call
    BY <1>2 DEF AnswerTrue
  <1>5. Waits(m)'
    BY <1>3 DEF Waits
  <1>6. \/ CleanUp(m)
        \/ UNCHANGED <<peer, remote, interrupted>> /\ e.op # "END" /\ ~(e.op = "INVITE" /\ e.status = "REFUSED")
    BY DEF OnAcknowledge
  <1>7. /\ peer' \in [Members -> {"NONE", "OPEN"}] /\ remote' \in [Members -> Calls \union {"NONE"}]
        /\ interrupted' \subseteq Members
        /\ \A k \in Members : k # m => /\ peer'[k] = peer[k] /\ remote'[k] = remote[k]
                                       /\ k \in interrupted => k \in interrupted'
        /\ \/ peer'[m] = "NONE" /\ remote'[m] = "NONE" /\ (m \notin interrupted' => \A t \in tasks : t.by # m)
           \/ UNCHANGED <<peer, remote, interrupted>> /\ e.op # "END"
    BY <1>2, <1>6, CleanedUp DEF PageType
  <1>8. CASE e.status = "REFUSED"
    <2>1. UNCHANGED page
      BY <1>8 DEF OnAcknowledge
    <2>2. PageType'
      BY <1>1, <1>2, <1>3, <1>7, <2>1 DEF PageType
    <2>3. PageTrue(m)' /\ TasksOf(m)' /\ Connected(m)'
      BY <1>1, <1>2, <1>7, <2>1 DEF PageTrue, TasksOf, TaskTrue, Connected
    <2> QED BY <1>1, <1>3, <1>5, <1>7, <2>1, <2>2, <2>3, ReadStep DEF Sound
  <1>9. CASE e.status # "REFUSED"
    <2>1. Turns(m, e) /\ e.status \in {"INVITED", "ACTIVE", "ENDED"}
      BY <1>2, <1>9 DEF OnAcknowledge, AnswerTrue, Awaited
    <2>2. /\ page' \in [Members -> [call : Calls \union {"NONE"}, status : {"INVITED", "ACTIVE", "ENDED"}]]
          /\ page'[m].call = e.call /\ page'[m].status = e.status
          /\ \A k \in Members : k # m => page'[k] = page[k]
      BY <1>2, <2>1, Turned
    <2>3. PageType'
      BY <1>1, <1>2, <1>3, <1>7, <2>2 DEF PageType
    <2>4. PageTrue(m)'
      BY <1>1, <1>2, <1>4, <1>7, <1>9, <2>2 DEF PageTrue, AnswerTrue, Awaited
    <2>5. TasksOf(m)'
      <3>1. ASSUME NEW t \in tasks, t.by = m PROVE TaskTrue(t)'
        <4>1. TaskTrue(t) /\ t.op \in {"OFFER", "ANSWER"}
          BY <1>2, <3>1 DEF TasksOf, PageType, Tasks
        <4>2. t.op = "ANSWER" => m \in interrupted \/ e.op = "END"
          BY <1>2, <1>4, <3>1, <4>1, Pair DEF TaskTrue, Waits, Awaited
        <4> QED BY <1>1, <1>7, <3>1, <4>1, <4>2 DEF TaskTrue
      <3> QED BY <1>1, <3>1 DEF TasksOf
    <2>6. Connected(m)'
      BY <1>1, <1>2, <1>4, <1>7, <2>2 DEF Waits, Connected, Awaited
    <2> QED BY <1>1, <1>3, <1>5, <1>7, <2>2, <2>3, <2>4, <2>5, <2>6, ReadStep DEF Sound
  <1> QED BY <1>8, <1>9
-----------------------------------------------------------------------------
(* Handlers of a page that wait.                                             *)

\* A handler waits on or is done, and has sent its signal: it leaves its page
\* with no description, with the one it had, or with that of the offer.
LEMMA WaitStep ==
  ASSUME CallsInv, NEW t \in tasks,
         UNCHANGED <<call, accepted, inbox, page, doing, interrupted>>,
         NEW u \in Tasks, u.op = t.op, u.by = t.by, u.call = t.call,
         \A v \in tasks' : v \in tasks \/ v = u,
         answered' = answered \/ (t.op = "ANSWER" /\ answered' = answered \union {t.call}),
         work' = work \/ (/\ work' = work \union {Request(t.op, t.by, t.call)}
                          /\ t.op = "ANSWER" => t.call \in answered'),
         peer' \in [Members -> {"NONE", "OPEN"}], remote' \in [Members -> Calls \union {"NONE"}],
         \A k \in Members : k # t.by => peer'[k] = peer[k] /\ remote'[k] = remote[k],
         \/ peer'[t.by] = peer[t.by] /\ remote'[t.by] = remote[t.by]
         \/ peer'[t.by] = "OPEN" /\ (\/ remote'[t.by] \in {"NONE", remote[t.by]}
                                     \/ t.op = "ANSWER" /\ remote'[t.by] = t.call)
  PROVE  CallsInv'
  <1> USE DEF CallsInv
  <1> DEFINE m == t.by
             r == Request(t.op, m, t.call)
  <1>1. m \in Members /\ t.call \in Calls /\ t.op \in {"OFFER", "ANSWER"}
    BY DEF CallsTypeOK, Tasks
  <1>2. PageTrue(m) /\ TasksOf(m) /\ Waits(m) /\ Connected(m) /\ TaskTrue(t)
    BY <1>1 DEF PagesTrue, TasksTrue, TasksOf, WaitingUnconnected, ConnectedToPeer, Connected
  <1>3. call[t.call].status \notin {"ABSENT", "INVITED"}
    BY <1>1, <1>2 DEF TaskTrue, AcceptedOnce
  <1>4. /\ r \in Handlers /\ r.op = t.op /\ r.by = m /\ r.call = t.call /\ r.at = "SENT" /\ ~Asked(r)
        /\ work' = work \/ (work' = work \union {r} /\ (t.op = "ANSWER" => t.call \in answered'))
    BY <1>1, Requested
  <1> HIDE DEF r
  <1>5. Advances /\ LiveAlone'
    BY DEF Advances, LiveAlone
  <1>6. CallsTypeOK'
    BY <1>1, <1>4 DEF CallsTypeOK
  <1>7. \A w \in work' : HandlerTrue(w)'
    <2>1. ASSUME NEW w \in work PROVE HandlerTrue(w)'
      <3>1. HandlerTrue(w)
        OBVIOUS
      <3> QED BY <3>1 DEF HandlerTrue, EventTrue, AnswerTrue, Asked
    <2>2. ASSUME work' = work \union {r}, t.op = "ANSWER" => t.call \in answered' PROVE HandlerTrue(r)'
      BY <1>1, <1>2, <1>3, <1>4, <2>2 DEF HandlerTrue, EventTrue, TaskTrue
    <2> QED BY <1>4, <2>1, <2>2
  <1>8. LocksHeld'
    BY <1>1, <1>4 DEF LocksHeld, SameRow
  <1>9. InboxTrue'
    BY <1>5, MessagesKept DEF InboxTrue
  <1>10. OneAnswer'
    BY <1>4 DEF OneAnswer
  <1>11. AcceptedOnce'
    <2>1. \A w \in work' : w.op = "ACCEPT" /\ w.at = "COMMITTED" => w \in work /\ w.call # t.call
      BY <1>1, <1>4 DEF AcceptedOnce
    <2>2. \A k \in Members : \A i \in 1..Len(inbox[k]) : IsAccept(inbox[k][i]) => inbox[k][i].call # t.call
      BY DEF AcceptedOnce
    <2> QED BY <1>4, <2>1, <2>2 DEF AcceptedOnce, IsAccept, IsSignal
  <1>12. \A c \in Calls : Quiet(c) => Quiet(c)'
    BY <1>1, <1>4 DEF Quiet, IsSignal
  <1>13. PageTrue(m)'
    BY <1>1, <1>2 DEF PageTrue
  <1>14. TasksOf(m)'
    <2>1. ASSUME NEW v \in tasks, v.by = m PROVE TaskTrue(v)'
      BY <1>2, <2>1 DEF TasksOf, TaskTrue
    <2>2. TaskTrue(u)'
      BY <1>2 DEF TaskTrue
    <2> QED BY <2>1, <2>2 DEF TasksOf
  <1>15. Waits(m)'
    <2>1. page[m].status = "ACTIVE" => page[m].call \in Calls
      BY <1>1, <1>2 DEF PageTrue, CallsTypeOK
    <2>2. m \notin interrupted /\ doing[m].op \in {"START", "INVITE", "PREPARE", "ACCEPT"} => t.op # "ANSWER"
      BY <1>1, <1>2, Pair DEF TaskTrue, Waits
    <2> QED BY <1>2, <1>12, <2>1, <2>2 DEF Waits
  <1>16. Connected(m)'
    BY <1>1, <1>2, Pair DEF Connected, TaskTrue, PageTrue
  <1>17. \A k \in Members : Sound(k)'
    <2>1. ASSUME NEW k \in Members, k # m PROVE Sound(k)'
      BY <1>5, <1>12, <2>1, PageKept
    <2> QED BY <1>13, <1>14, <1>15, <1>16, <2>1 DEF Sound
  <1>18. PagesTrue' /\ TasksTrue' /\ WaitingUnconnected' /\ ConnectedToPeer'
    BY <1>17 DEF Sound, PagesTrue, TasksTrue, WaitingUnconnected, ConnectedToPeer, Connected
  <1> QED BY <1>5, <1>6, <1>7, <1>8, <1>9, <1>10, <1>11, <1>18

\* What every handler that waits has of its page.
LEMMA TaskFacts ==
  ASSUME CallsInv, NEW t \in tasks
  PROVE  /\ t \in Tasks /\ t.by \in Members /\ t.call \in Calls /\ t.op \in {"OFFER", "ANSWER"}
         /\ peer \in [Members -> {"NONE", "OPEN"}] /\ remote \in [Members -> Calls \union {"NONE"}]
         /\ remote[t.by] \in Calls \union {"NONE"}
         /\ [t EXCEPT !.at = "ICE"] \in Tasks /\ [t EXCEPT !.at = "ICE"].op = t.op
         /\ [t EXCEPT !.at = "ICE"].by = t.by /\ [t EXCEPT !.at = "ICE"].call = t.call
  BY DEF CallsInv, CallsTypeOK, Tasks

\* A handler that has its connection sends its signal.
LEMMA NegotiateStep ==
  ASSUME CallsInv, NEW t \in tasks, NEW before \in {"NONE", remote[t.by]}, Negotiate(t, before),
         UNCHANGED <<call, accepted, inbox, page, doing, interrupted>>,
         peer' = [peer EXCEPT ![t.by] = "OPEN"]
  PROVE  CallsInv'
  <1>1. /\ t \in Tasks /\ t.by \in Members /\ t.call \in Calls /\ t.op \in {"OFFER", "ANSWER"}
        /\ peer \in [Members -> {"NONE", "OPEN"}] /\ remote \in [Members -> Calls \union {"NONE"}]
        /\ remote[t.by] \in Calls \union {"NONE"}
    BY TaskFacts
  <1>2. /\ peer' \in [Members -> {"NONE", "OPEN"}] /\ remote' \in [Members -> Calls \union {"NONE"}]
        /\ \A k \in Members : k # t.by => peer'[k] = peer[k] /\ remote'[k] = remote[k]
        /\ peer'[t.by] = "OPEN"
        /\ remote'[t.by] = IF t.op = "ANSWER" THEN t.call ELSE before
    BY <1>1 DEF Negotiate
  <1>3. /\ \A v \in tasks' : v \in tasks
        /\ answered' = answered \/ (t.op = "ANSWER" /\ answered' = answered \union {t.call})
        /\ work' = work \union {Request(t.op, t.by, t.call)} /\ (t.op = "ANSWER" => t.call \in answered')
    BY DEF Negotiate
  <1> QED BY <1>1, <1>2, <1>3, WaitStep

\* The media are there.
LEMMA MediaReadyStep ==
  ASSUME CallsInv, NEW t \in tasks, MediaReady(t) PROVE CallsInv'
  <1>1. UNCHANGED <<call, accepted, inbox, page, doing, peer, interrupted>>
    BY DEF MediaReady
  <1>2. CASE peer[t.by] = "NONE"
    <2> DEFINE u == [t EXCEPT !.at = "ICE"]
    <2>1. tasks' = (tasks \ {t}) \union {u} /\ UNCHANGED <<work, remote, answered>>
      BY <1>2 DEF MediaReady
    <2>2. /\ u \in Tasks /\ u.op = t.op /\ u.by = t.by /\ u.call = t.call
          /\ peer \in [Members -> {"NONE", "OPEN"}] /\ remote \in [Members -> Calls \union {"NONE"}]
      BY TaskFacts
    <2> HIDE DEF u
    <2> QED BY <1>1, <2>1, <2>2, WaitStep
  <1>3. CASE peer[t.by] # "NONE"
    <2>1. Negotiate(t, remote[t.by])
      BY <1>3 DEF MediaReady
    <2>2. peer' = [peer EXCEPT ![t.by] = "OPEN"]
      BY <1>1, <1>3, TaskFacts
    <2> QED BY <1>1, <2>1, <2>2, NegotiateStep
  <1> QED BY <1>2, <1>3

\* The ICE servers are there.
LEMMA IceReadyStep ==
  ASSUME CallsInv, NEW t \in tasks, IceReady(t) PROVE CallsInv'
  BY NegotiateStep DEF IceReady

\* A handler that throws leaves everything as it was.
LEMMA HandlerThrowsStep ==
  ASSUME CallsInv, NEW t \in tasks, HandlerThrows(t) PROVE CallsInv'
  <1>1. /\ t \in Tasks /\ peer \in [Members -> {"NONE", "OPEN"}]
        /\ remote \in [Members -> Calls \union {"NONE"}]
    BY TaskFacts
  <1>2. /\ tasks' = tasks \ {t}
        /\ UNCHANGED <<call, accepted, work, inbox, page, doing, peer, remote, answered, interrupted>>
    BY DEF HandlerThrows, linkVars
  <1> QED BY <1>1, <1>2, WaitStep
-----------------------------------------------------------------------------
(* A socket is lost.                                                         *)

\* A handler of the lost socket will not be heard.
Unheard(m, w) == [w EXCEPT !.heard = @ /\ (w.by # m \/ w.op \notin Awaited)]

\* A handler whose socket is lost goes on, and nobody hears its answer.
LEMMA UnheardIs ==
  ASSUME NEW m \in Members, NEW w \in Handlers
  PROVE  LET u == Unheard(m, w) IN
         /\ u \in Handlers /\ u.op = w.op /\ u.by = w.by /\ u.call = w.call /\ u.at = w.at
         /\ u.status = w.status
         /\ w.by = m => ~Asked(u)
         /\ w.by # m => u = w
  <1>1. w.heard \in BOOLEAN /\ (w.heard /\ (w.by # m \/ w.op \notin Awaited)) \in BOOLEAN
    BY DEF Handlers
  <1>2. ASSUME NEW b \in BOOLEAN
        PROVE  LET u == [w EXCEPT !.heard = b] IN
               /\ u \in Handlers /\ u.op = w.op /\ u.by = w.by /\ u.call = w.call /\ u.at = w.at
               /\ u.status = w.status /\ u.heard = b /\ (b = w.heard => u = w)
    BY DEF Handlers
  <1>3. CASE w.by = m /\ w.op \in Awaited
    <2>1. Unheard(m, w) = [w EXCEPT !.heard = FALSE]
      BY <1>1, <1>3, Zenon DEF Unheard
    <2> QED BY <1>2, <1>3, <2>1 DEF Asked
  <1>4. CASE w.by # m \/ w.op \notin Awaited
    <2>1. (w.heard /\ (w.by # m \/ w.op \notin Awaited)) = w.heard
      BY <1>1, <1>4
    <2>2. Unheard(m, w) = [w EXCEPT !.heard = w.heard]
      BY <2>1, Zenon DEF Unheard
    <2> QED BY <1>1, <1>2, <1>4, <2>2 DEF Asked
  <1> QED BY <1>3, <1>4

\* A lost socket loses messages and answers, never what the pages rely on.
LEMMA LoseSocketStep ==
  ASSUME CallsInv, NEW m \in Members, LoseSocket(m) PROVE CallsInv'
  <1> USE DEF CallsInv
  <1>1. /\ UNCHANGED <<call, accepted, page, tasks, answered>>
        /\ (CleanUp(m) \/ UNCHANGED <<peer, remote, interrupted>>)
        /\ inbox' = [inbox EXCEPT ![m] = <<>>]
        /\ doing' = [doing EXCEPT ![m] = IF @.op \in Awaited THEN Idle ELSE @]
        /\ work' = {Unheard(m, w) : w \in {v \in work : v.by # m \/ v.at # "PUBLISHED"}}
    BY DEF LoseSocket, Unheard
  <1>2. ASSUME NEW w \in work
        PROVE  LET u == Unheard(m, w) IN
               /\ w \in Handlers
               /\ u \in Handlers /\ u.op = w.op /\ u.by = w.by /\ u.call = w.call /\ u.at = w.at
               /\ u.status = w.status
               /\ w.by = m => ~Asked(u)
               /\ w.by # m => u = w
    <2>1. w \in Handlers
      BY DEF CallsTypeOK
    <2> QED BY <2>1, UnheardIs
  <1>3. ASSUME NEW u \in work'
        PROVE  \E w \in work :
                 /\ u = Unheard(m, w) /\ (w.by # m \/ w.at # "PUBLISHED")
                 /\ u \in Handlers /\ u.op = w.op /\ u.by = w.by /\ u.call = w.call /\ u.at = w.at
                 /\ w.by = m => ~Asked(u)
                 /\ w.by # m => u = w
    <2>1. PICK w \in work : u = Unheard(m, w) /\ (w.by # m \/ w.at # "PUBLISHED")
      BY <1>1
    <2> QED BY <1>2, <2>1
  <1>4. /\ inbox' \in [Members -> Seq(Messages)] /\ inbox'[m] = <<>>
        /\ \A k \in Members : k # m => inbox'[k] = inbox[k]
    BY <1>1 DEF CallsTypeOK
  <1>5. /\ doing' \in [Members -> [op : Awaited \union {"START", "PREPARE", "NOTHING"}, call : Calls \union {"NONE"}]]
        /\ doing'[m].op = "NOTHING" \/ doing'[m] = doing[m]
        /\ \A k \in Members : k # m => doing'[k] = doing[k]
    BY <1>1 DEF CallsTypeOK, Idle
  <1>6. PageType
    BY DEF CallsTypeOK, PageType
  <1>7. /\ peer' \in [Members -> {"NONE", "OPEN"}] /\ remote' \in [Members -> Calls \union {"NONE"}]
        /\ interrupted' \subseteq Members
        /\ \A k \in Members : k # m => /\ peer'[k] = peer[k] /\ remote'[k] = remote[k]
                                       /\ k \in interrupted => k \in interrupted'
        /\ \/ peer'[m] = "NONE" /\ remote'[m] = "NONE" /\ (m \notin interrupted' => \A t \in tasks : t.by # m)
           \/ UNCHANGED <<peer, remote, interrupted>>
    BY <1>1, <1>6, CleanedUp DEF PageType
  <1>8. Advances /\ LiveAlone'
    BY <1>1 DEF Advances, LiveAlone
  <1>9. CallsTypeOK'
    <2>1. work' \subseteq Handlers
      BY <1>2, <1>3
    <2> QED BY <1>1, <1>4, <1>5, <1>7, <2>1 DEF CallsTypeOK
  <1>10. \A u \in work' : HandlerTrue(u)'
    <2>1. ASSUME NEW w \in work, w.by # m \/ w.at # "PUBLISHED" PROVE HandlerTrue(Unheard(m, w))'
      <3>1. HandlerTrue(w) /\ w.by \in Members
        BY <1>2 DEF Handlers
      <3>2. CASE w.by = m
        <4> DEFINE u == Unheard(m, w)
        <4>1. /\ u.op = w.op /\ u.by = w.by /\ u.call = w.call /\ u.at = w.at
              /\ u.status = w.status /\ ~Asked(u) /\ w.at # "PUBLISHED"
          BY <1>2, <2>1, <3>2
        <4> HIDE DEF u
        <4>2. HandlerTrue(u)'
          BY <1>1, <3>1, <4>1 DEF HandlerTrue, EventTrue, Asked
        <4> QED BY <4>2 DEF u
      <3>3. CASE w.by # m
        <4>1. Unheard(m, w) = w
          BY <1>2, <3>3
        <4>2. HandlerTrue(w)'
          BY <1>1, <1>5, <3>1, <3>3 DEF HandlerTrue, EventTrue, AnswerTrue, Asked
        <4> QED BY <4>1, <4>2
      <3> QED BY <3>2, <3>3
    <2> QED BY <1>3, <2>1
  <1>11. LocksHeld'
    <2>1. ASSUME NEW t \in work', NEW u \in work', t # u
          PROVE  /\ t.at = "LOCKED" /\ u.at = "LOCKED" => ~SameRow(t, u)
                 /\ t.op = "INVITE" /\ u.op = "INVITE" => t.call # u.call
      <3>1. PICK v \in work :
              /\ t = Unheard(m, v) /\ t.op = v.op /\ t.by = v.by /\ t.call = v.call /\ t.at = v.at
              /\ v.by = m => ~Asked(t)
              /\ v.by # m => t = v
        BY <1>3
      <3>2. PICK w \in work :
              /\ u = Unheard(m, w) /\ u.op = w.op /\ u.by = w.by /\ u.call = w.call /\ u.at = w.at
              /\ w.by = m => ~Asked(u)
              /\ w.by # m => u = w
        BY <1>3
      <3>3. v # w
        BY <2>1, <3>1, <3>2
      <3> QED BY <1>2, <3>1, <3>2, <3>3 DEF LocksHeld, SameRow
    <2> QED BY <2>1 DEF LocksHeld, SameRow
  <1>12. \A k \in Members : \A i \in 1..Len(inbox'[k]) : i \in 1..Len(inbox[k]) /\ k # m /\ inbox'[k] = inbox[k]
    BY <1>4
  <1>13. InboxTrue'
    <2>1. ASSUME NEW k \in Members, k # m, NEW i \in 1..Len(inbox[k]), NEW x, x = inbox[k][i]
          PROVE  IF x.answer THEN AnswerTrue(k, x)' ELSE EventTrue(Other(k), x)'
      BY <1>5, <1>8, <2>1, MessagesKept
    <2>2. ASSUME NEW k \in Members, NEW i \in 1..Len(inbox'[k]), NEW x, x = inbox'[k][i]
          PROVE  IF x.answer THEN AnswerTrue(k, x)' ELSE EventTrue(Other(k), x)'
      <3>1. k # m /\ i \in 1..Len(inbox[k]) /\ x = inbox[k][i]
        BY <1>12, <2>2
      <3> QED BY <2>1, <3>1
    <2> QED BY <2>2 DEF InboxTrue
  <1>14. OneAnswer'
    <2>1. ASSUME NEW t \in work', Asked(t) PROVE t \in work /\ t.by # m
      <3>1. PICK v \in work :
              /\ t = Unheard(m, v) /\ t.op = v.op /\ t.by = v.by /\ t.call = v.call /\ t.at = v.at
              /\ v.by = m => ~Asked(t)
              /\ v.by # m => t = v
        BY <1>3
      <3> QED BY <1>2, <2>1, <3>1 DEF Asked
    <2> QED BY <1>12, <2>1 DEF OneAnswer, Asked
  <1>15. AcceptedOnce'
    <2>1. \A c \in Calls : call'[c].status \in {"ABSENT", "INVITED"} => c \notin accepted'
      BY <1>1 DEF AcceptedOnce
    <2>2. ASSUME NEW t \in work', t.op = "ACCEPT", t.at = "COMMITTED"
          PROVE  /\ \A u \in tasks' : u.call # t.call
                 /\ \A u \in work' : u.call = t.call =>
                      ~IsSignal(u) /\ (u.op = "ACCEPT" /\ u.at = "COMMITTED" => u = t)
                 /\ \A k \in Members : \A i \in 1..Len(inbox'[k]) :
                      inbox'[k][i].call = t.call => ~IsSignal(inbox'[k][i]) /\ ~IsAccept(inbox'[k][i])
      <3>1. PICK w \in work :
              /\ t = Unheard(m, w) /\ t.op = w.op /\ t.by = w.by /\ t.call = w.call /\ t.at = w.at
              /\ w.by = m => ~Asked(t)
              /\ w.by # m => t = w
        BY <1>3
      <3>2. w.op = "ACCEPT" /\ w.at = "COMMITTED" /\ w.call = t.call
        BY <1>2, <2>2, <3>1
      <3>3. ASSUME NEW u \in work', u.call = t.call
            PROVE  ~IsSignal(u) /\ (u.op = "ACCEPT" /\ u.at = "COMMITTED" => u = t)
        <4>1. PICK v \in work :
              /\ u = Unheard(m, v) /\ u.op = v.op /\ u.by = v.by /\ u.call = v.call /\ u.at = v.at
              /\ v.by = m => ~Asked(u)
              /\ v.by # m => u = v
          BY <1>3
        <4>2. v.call = w.call
          BY <3>2, <3>3, <4>1
        <4>3. ~IsSignal(v) /\ (v.op = "ACCEPT" /\ v.at = "COMMITTED" => v = w)
          BY <3>2, <4>2 DEF AcceptedOnce
        <4> QED BY <3>1, <4>1, <4>3 DEF IsSignal
      <3> QED BY <1>1, <1>12, <3>2, <3>3 DEF AcceptedOnce
    <2>3. ASSUME NEW k \in Members, NEW i \in 1..Len(inbox'[k]), IsAccept(inbox'[k][i])
          PROVE  /\ \A u \in tasks' : u.call # inbox'[k][i].call
                 /\ \A u \in work' : u.call = inbox'[k][i].call => ~IsSignal(u)
                 /\ \A n \in Members : \A j \in 1..Len(inbox'[n]) : inbox'[n][j].call = inbox'[k][i].call =>
                      ~IsSignal(inbox'[n][j]) /\ (IsAccept(inbox'[n][j]) => n = k /\ j = i)
      <3>1. i \in 1..Len(inbox[k]) /\ inbox'[k] = inbox[k]
        BY <1>12
      <3>2. ASSUME NEW u \in work', u.call = inbox[k][i].call PROVE ~IsSignal(u)
        <4>1. PICK v \in work :
              /\ u = Unheard(m, v) /\ u.op = v.op /\ u.by = v.by /\ u.call = v.call /\ u.at = v.at
              /\ v.by = m => ~Asked(u)
              /\ v.by # m => u = v
          BY <1>3
        <4>2. v.call = inbox[k][i].call /\ IsAccept(inbox[k][i])
          BY <2>3, <3>1, <3>2, <4>1
        <4>3. ~IsSignal(v)
          BY <3>1, <4>2 DEF AcceptedOnce
        <4> QED BY <4>1, <4>3 DEF IsSignal
      <3> QED BY <1>1, <1>12, <2>3, <3>1, <3>2 DEF AcceptedOnce
    <2> QED BY <2>1, <2>2, <2>3 DEF AcceptedOnce, IsSignal, IsAccept
  <1>16. \A c \in Calls : Quiet(c) => Quiet(c)'
    <2>1. ASSUME NEW c \in Calls, Quiet(c), NEW u \in work', u.call = c
          PROVE  ~(u.op = "ANSWER") /\ ~(u.op = "OFFER" /\ u.at # "SENT")
      <3>1. PICK v \in work :
              /\ u = Unheard(m, v) /\ u.op = v.op /\ u.by = v.by /\ u.call = v.call /\ u.at = v.at
              /\ v.by = m => ~Asked(u)
              /\ v.by # m => u = v
        BY <1>3
      <3> QED BY <1>2, <2>1, <3>1 DEF Quiet
    <2> QED BY <1>1, <1>12, <2>1 DEF Quiet, IsSignal
  <1>17. \A k \in Members : Sound(k)'
    <2>1. ASSUME NEW k \in Members, k # m PROVE Sound(k)'
      BY <1>1, <1>5, <1>7, <1>8, <1>16, <2>1, PageKept
    <2>2. PageTrue(m) /\ TasksOf(m) /\ Waits(m) /\ Connected(m)
      BY DEF PagesTrue, TasksTrue, WaitingUnconnected, ConnectedToPeer, Connected
    <2>3. PageTrue(m)' /\ TasksOf(m)' /\ Connected(m)'
      BY <1>1, <1>7, <2>2 DEF PageTrue, TasksOf, TaskTrue, Connected
    <2>4. Waits(m)'
      <3>1. page[m].status = "ACTIVE" => page[m].call \in Calls
        BY <1>6, <2>2 DEF PageTrue, PageType
      <3> QED BY <1>1, <1>5, <1>7, <1>16, <2>2, <3>1 DEF Waits
    <2> QED BY <2>1, <2>3, <2>4 DEF Sound
  <1>18. PagesTrue' /\ TasksTrue' /\ WaitingUnconnected' /\ ConnectedToPeer'
    BY <1>17 DEF Sound, PagesTrue, TasksTrue, WaitingUnconnected, ConnectedToPeer, Connected
  <1> QED BY <1>8, <1>9, <1>10, <1>11, <1>13, <1>14, <1>15, <1>18
-----------------------------------------------------------------------------
(* The theorems.                                                             *)

\* Before any call the invariant holds.
LEMMA CallsInitial == CallsInit => CallsInv
  <1> SUFFICES ASSUME CallsInit PROVE CallsInv
    OBVIOUS
  <1>1. CallsTypeOK
    <2>1. inbox \in [Members -> Seq(Messages)]
      BY DEF CallsInit
    <2> QED BY <2>1 DEF CallsInit, CallsTypeOK, CallStatuses, NoCall, Idle
  <1>2. LiveAlone /\ (\A w \in work : HandlerTrue(w)) /\ LocksHeld
    BY DEF CallsInit, LiveAlone, LocksHeld, Live
  <1>3. InboxTrue /\ OneAnswer /\ AcceptedOnce
    BY DEF CallsInit, InboxTrue, OneAnswer, AcceptedOnce
  <1>4. PagesTrue /\ TasksTrue /\ WaitingUnconnected /\ ConnectedToPeer
    BY DEF CallsInit, PagesTrue, PageTrue, TasksTrue, TasksOf, WaitingUnconnected, Waits, ConnectedToPeer, NoCall, Idle
  <1> QED BY <1>1, <1>2, <1>3, <1>4 DEF CallsInv

\* The handlers, the messages and the pages always say what the rows justify,
\* whatever the order in which events and answers arrive and sockets are lost.
THEOREM CallsInvariant == CallsSpec => []CallsInv
  <1>1. CallsInv /\ [CallsNext]_callVars => CallsInv'
    <2> SUFFICES ASSUME CallsInv, [CallsNext]_callVars PROVE CallsInv'
      OBVIOUS
    <2>1. CASE UNCHANGED callVars
      <3>1. UNCHANGED <<call, accepted, work, inbox, page, doing, tasks, peer, remote, answered, interrupted>>
        BY <2>1 DEF callVars, pageVars, linkVars
      <3> QED
      BY <3>1 DEF CallsInv, CallsTypeOK, LiveAlone, HandlerTrue, EventTrue, AnswerTrue, Asked,
                  LocksHeld, SameRow, InboxTrue, OneAnswer, AcceptedOnce, IsAccept, IsSignal, PagesTrue,
                  PageTrue, TasksTrue, TasksOf, TaskTrue, WaitingUnconnected, Waits, Quiet, ConnectedToPeer
    <2>2. ASSUME NEW w \in work, Handle(w) PROVE CallsInv'
      BY <2>2, TakeLockStep, CommitInviteStep, CommitAcceptStep, CommitEndStep, SignalStep, PublishStep,
         AcknowledgeStep DEF Handle
    <2>3. ASSUME NEW m \in Members,
                 \/ Start(m) \/ Invite(m) \/ Accept(m) \/ SendAccept(m) \/ PromptDenied(m) \/ End(m)
                 \/ LoseSocket(m)
          PROVE  CallsInv'
      BY <2>3, StartStep, InviteStep, AcceptStep, SendAcceptStep, PromptDeniedStep, EndStep, LoseSocketStep
    <2>4. ASSUME NEW m \in Members, NEW e, OnEvent(m, e) PROVE CallsInv'
      BY <2>4, OnInviteStep, OnAcceptStep, OnOfferStep, OnAnswerStep, OnEndStep, OnAcknowledgeStep DEF OnEvent
    <2>5. ASSUME NEW t \in tasks, MediaReady(t) \/ IceReady(t) \/ HandlerThrows(t) PROVE CallsInv'
      BY <2>5, MediaReadyStep, IceReadyStep, HandlerThrowsStep
    <2> QED BY <2>1, <2>2, <2>3, <2>4, <2>5 DEF CallsNext
  <1> QED BY <1>1, CallsInitial, PTL DEF CallsSpec

\* Both members may invite at once: one call is live at most.
THEOREM OneLiveCallHolds == CallsSpec => []OneLiveCall
  <1>1. CallsInv => OneLiveCall
    <2> SUFFICES ASSUME CallsInv PROVE OneLiveCall
      OBVIOUS
    <2> DEFINE live == {c \in Calls : call[c].status \in Live}
    <2>1. \A c, d \in live : c = d
      BY DEF CallsInv, LiveAlone
    <2>2. CASE live = {}
      BY <2>2, FS_EmptySet DEF OneLiveCall
    <2>3. CASE live # {}
      <3>1. PICK c \in live : TRUE
        BY <2>3
      <3>2. live = {c}
        BY <2>1, <3>1
      <3> HIDE DEF live
      <3>3. Cardinality(live) = 1
        BY <3>2, FS_Singleton
      <3> QED BY <3>3 DEF OneLiveCall, live
    <2> QED BY <2>2, <2>3
  <1> QED BY <1>1, CallsInvariant, PTL

\* The description a page's connection was given is of a call the callee has
\* accepted and, for the caller, answered; and of the call the page is in, but
\* for a page whose call ended while one of its handlers waited: although
\* signals and answers may be late, and handlers go on after their call.
THEOREM ConnectedToPeerHolds == CallsSpec => []ConnectedToPeer
  <1>1. CallsInv => ConnectedToPeer
    BY DEF CallsInv
  <1> QED BY <1>1, CallsInvariant, PTL

\* Accepting a call while the other hangs up does not bring it back.
THEOREM CallAdvancesHolds == CallsSpec => CallAdvances
  <1> DEFINE Forward == \A c \in Calls :
               /\ call[c].status = "ENDED" => call'[c].status = "ENDED"
               /\ call[c].status = "ACTIVE" => call'[c].status \in {"ACTIVE", "ENDED"}
  <1>1. CallsInv /\ [CallsNext]_callVars => [Forward]_callVars
    <2> SUFFICES ASSUME CallsInv, CallsNext PROVE Forward
      OBVIOUS
    <2>1. CASE UNCHANGED call
      BY <2>1
    <2>2. ASSUME NEW w \in work, CommitInvite(w) PROVE Forward
      <3>1. HandlerTrue(w) /\ w.call \in Calls /\ call[w.call].status = "ABSENT"
        BY <2>2 DEF CallsInv, CallsTypeOK, Handlers, HandlerTrue, CommitInvite
      <3>2. \A c \in Calls : c # w.call => call'[c] = call[c]
        BY <2>2 DEF CommitInvite, CallsInv, CallsTypeOK
      <3> QED BY <3>1, <3>2
    <2>3. ASSUME NEW w \in work, CommitAccept(w) PROVE Forward
      <3>1. HandlerTrue(w) /\ w.call \in Calls
        BY DEF CallsInv, CallsTypeOK, Handlers
      <3>2. CASE w.status = "INVITED" /\ call' = [call EXCEPT ![w.call].status = "ACTIVE"]
        <4>1. call[w.call].status = "INVITED"
          BY <2>3, <3>1, <3>2 DEF HandlerTrue, CommitAccept
        <4>2. \A c \in Calls : c # w.call => call'[c] = call[c]
          BY <3>2 DEF CallsInv, CallsTypeOK
        <4> QED BY <4>1, <4>2
      <3> QED BY <2>1, <2>3, <3>2 DEF CommitAccept
    <2>4. ASSUME NEW w \in work, CommitEnd(w) PROVE Forward
      <3>1. w.call \in Calls
        BY DEF CallsInv, CallsTypeOK, Handlers
      <3>2. call'[w.call].status = "ENDED" /\ \A c \in Calls : c # w.call => call'[c] = call[c]
        BY <2>4, <3>1 DEF CommitEnd, CallsInv, CallsTypeOK
      <3> QED BY <3>2
    <2>5. ASSUME NEW w \in work, Handle(w) PROVE Forward
      BY <2>1, <2>2, <2>3, <2>4, <2>5 DEF Handle, TakeLock, Signal, Publish, Acknowledge
    <2>6. ASSUME NEW m \in Members,
                 \/ Start(m) \/ Invite(m) \/ Accept(m) \/ SendAccept(m) \/ PromptDenied(m) \/ End(m)
                 \/ LoseSocket(m)
          PROVE  Forward
      BY <2>1, <2>6 DEF Start, Invite, Accept, SendAccept, PromptDenied, End, LoseSocket
    <2>7. ASSUME NEW m \in Members, NEW e, OnEvent(m, e) PROVE Forward
      BY <2>1, <2>7 DEF OnEvent, OnInvite, OnAccept, OnOffer, OnAnswer, OnEnd, OnAcknowledge
    <2>8. ASSUME NEW t \in tasks, MediaReady(t) \/ IceReady(t) \/ HandlerThrows(t) PROVE Forward
      BY <2>1, <2>8 DEF MediaReady, IceReady, HandlerThrows
    <2> QED BY <2>5, <2>6, <2>7, <2>8 DEF CallsNext
  <1> QED BY <1>1, CallsInvariant, PTL DEF CallsSpec, CallAdvances
=============================================================================
