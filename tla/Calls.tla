------------------------------- MODULE Calls --------------------------------
(***************************************************************************)
(* The calls of one conversation: app/calls and its socket handlers, and   *)
(* the call controller of both members' pages.                             *)
(*                                                                         *)
(* A handler runs in a thread of its own: it takes a row lock, commits,    *)
(* publishes to the peer's room and only then answers its page, so an      *)
(* event may overtake an answer or another event.  A page keeps the call   *)
(* it believes to be in and changes it on answers and on events.  What it   *)
(* does on an event runs beside its other handlers: one that waits for the *)
(* camera or for the ICE servers goes on with the call it started with.     *)
(***************************************************************************)
EXTENDS Naturals, Sequences, FiniteSets

CONSTANTS
  Members,   \* the two conversation members
  Calls,     \* calls that may ever be made
  MaxFaults  \* bound on lost sockets and failing event handlers

ASSUME CallsAssumption ==
  /\ MaxFaults \in Nat /\ IsFiniteSet(Members) /\ Cardinality(Members) = 2
  /\ "NONE" \notin Calls

VARIABLES
  call,      \* call_sessions: [status, caller], status ABSENT when there is no row
  accepted,  \* calls whose accepted_at is set
  work,      \* handlers: [op, by, call, at, status, heard]: status is what it has read,
             \* heard whether the socket it came from is still there
  inbox,     \* what the socket has still to deliver to each page: events and answers
  page,      \* each page: [call, status] it believes in, NONE for no call
  doing,     \* what the user waits for: [op, call]; in START and PREPARE, the media prompt
  tasks,     \* event handlers that wait: [op, by, call, at], at MEDIA for camera and
             \* microphone, at ICE for the list of ICE servers
  peer,      \* the page's peer connection: OPEN, or NONE without one
  remote,    \* the call of the description the peer connection was given, or NONE
  answered,  \* calls whose callee has taken the offer
  interrupted, \* history: pages whose last clean-up came while a handler of theirs waited
  faults

linkVars == <<tasks, peer, remote, answered, interrupted>>
pageVars == <<page, doing, linkVars>>
callVars == <<call, accepted, work, inbox, pageVars, faults>>

Live == {"INVITED", "ACTIVE"}
NoCall == [call |-> "NONE", status |-> "ENDED"]
Idle == [op |-> "NOTHING", call |-> "NONE"]
Other(m) == CHOOSE n \in Members : n # m
Callee(c) == Other(call[c].caller)

CallsInit ==
  /\ call = [c \in Calls |-> [status |-> "ABSENT", caller |-> "NOBODY"]]
  /\ accepted = {} /\ work = {} /\ inbox = [m \in Members |-> <<>>]
  /\ page = [m \in Members |-> NoCall] /\ doing = [m \in Members |-> Idle]
  /\ tasks = {} /\ peer = [m \in Members |-> "NONE"] /\ remote = [m \in Members |-> "NONE"]
  /\ answered = {} /\ interrupted = {} /\ faults = 0

\* The requests whose answer the page waits for.
Awaited == {"INVITE", "ACCEPT", "END"}

Request(op, m, c) == [op |-> op, by |-> m, call |-> c, at |-> "SENT",
                     status |-> "NONE", heard |-> TRUE]

\* A page does nothing with the answer to a signal or to the end of a
\* competing call, and an answer to a closed socket is lost: what is left of
\* such a handler is dropped.
Moves(w, at, status) ==
  work' = IF at = "PUBLISHED" /\ (w.op \notin Awaited \/ ~w.heard)
          THEN work \ {w}
          ELSE (work \ {w}) \union {[w EXCEPT !.at = at, !.status = status]}
-----------------------------------------------------------------------------
(* The server.                                                               *)

\* invite_call locks the conversation; accept_call and end_call the call.
SameRow(v, w) ==
  \/ v.op = "INVITE" /\ w.op = "INVITE"
  \/ v.op # "INVITE" /\ w.op # "INVITE" /\ v.call = w.call

AnyLive == \E c \in Calls : call[c].status \in Live

\* Mutant: the rows are read without FOR UPDATE.
TakeLockUnlocked(w) ==
  /\ w.at = "SENT" /\ w.op \in {"INVITE", "ACCEPT", "END", "BUSY"}
  /\ Moves(w, "LOCKED", IF w.op = "INVITE"
                        THEN IF AnyLive THEN "BUSY" ELSE "FREE"
                        ELSE call[w.call].status)
  /\ UNCHANGED <<call, accepted, inbox, pageVars, faults>>

\* with_for_update in invite_call and _locked_call, and what they read.
TakeLock(w) ==
  /\ w.at = "SENT" /\ w.op \in {"INVITE", "ACCEPT", "END", "BUSY"}
  /\ \A v \in work : v.at = "LOCKED" => ~SameRow(v, w)
  /\ Moves(w, "LOCKED", IF w.op = "INVITE"
                        THEN IF AnyLive THEN "BUSY" ELSE "FREE"
                        ELSE call[w.call].status)
  /\ UNCHANGED <<call, accepted, inbox, pageVars, faults>>

\* Mutant: no look for a live call, and no index.
CommitInviteAnyway(w) ==
  /\ w.at = "LOCKED" /\ w.op = "INVITE"
  /\ call' = [call EXCEPT ![w.call] = [status |-> "INVITED", caller |-> w.by]]
  /\ Moves(w, "COMMITTED", "INVITED")
  /\ UNCHANGED <<accepted, inbox, pageVars, faults>>

\* invite_call: the conversation was busy, or uq_call_sessions_live_conversation
\* says so at the commit, or there is a new call to announce.
CommitInvite(w) ==
  /\ w.at = "LOCKED" /\ w.op = "INVITE"
  /\ IF w.status = "BUSY" \/ AnyLive
     THEN Moves(w, "PUBLISHED", "REFUSED") /\ UNCHANGED call
     ELSE /\ call' = [call EXCEPT ![w.call] = [status |-> "INVITED", caller |-> w.by]]
          /\ Moves(w, "COMMITTED", "INVITED")
  /\ UNCHANGED <<accepted, inbox, pageVars, faults>>

\* accept_call: only the callee, only an invited call; an active one is
\* returned unchanged.
CommitAccept(w) ==
  /\ w.at = "LOCKED" /\ w.op = "ACCEPT"
  /\ IF w.by = Callee(w.call) /\ w.status = "INVITED"
     THEN /\ call' = [call EXCEPT ![w.call].status = "ACTIVE"]
          /\ accepted' = accepted \union {w.call}
          /\ Moves(w, "COMMITTED", "ACTIVE")
     ELSE /\ Moves(w, "PUBLISHED", IF w.by = Callee(w.call) /\ w.status = "ACTIVE"
                                   THEN "ACTIVE" ELSE "REFUSED")
          /\ UNCHANGED <<call, accepted>>
  /\ UNCHANGED <<inbox, pageVars, faults>>

\* end_call: either party; a call that has ended is returned unchanged.
CommitEnd(w) ==
  /\ w.at = "LOCKED" /\ w.op \in {"END", "BUSY"}
  /\ call' = [call EXCEPT ![w.call].status = "ENDED"]
  /\ Moves(w, IF w.status = "ENDED" THEN "PUBLISHED" ELSE "COMMITTED", "ENDED")
  /\ UNCHANGED <<accepted, inbox, pageVars, faults>>

\* signal_peer: a read without a lock; only an active call carries signals.
Signal(w) ==
  /\ w.at = "SENT" /\ w.op \in {"OFFER", "ANSWER"}
  /\ IF call[w.call].status = "ACTIVE" THEN Moves(w, "COMMITTED", "ACTIVE")
                                       ELSE Moves(w, "PUBLISHED", "REFUSED")
  /\ UNCHANGED <<call, accepted, inbox, pageVars, faults>>

\* publish_call_event to the peer, with the call as it was committed.
Publish(w) ==
  /\ w.at = "COMMITTED"
  /\ inbox' = [inbox EXCEPT ![Other(w.by)] =
       Append(@, [op |-> w.op, call |-> w.call, status |-> w.status, answer |-> FALSE])]
  /\ Moves(w, "PUBLISHED", w.status)
  /\ UNCHANGED <<call, accepted, pageVars, faults>>

\* The handler returns and Socket.IO acknowledges.
Acknowledge(w) ==
  /\ w.at = "PUBLISHED"
  /\ inbox' = [inbox EXCEPT ![w.by] =
       Append(@, [op |-> w.op, call |-> w.call, status |-> w.status, answer |-> TRUE])]
  /\ work' = work \ {w}
  /\ UNCHANGED <<call, accepted, pageVars, faults>>
-----------------------------------------------------------------------------
(* The page: WebRtcCallController.                                           *)

Unused ==
  {c \in Calls : /\ call[c].status = "ABSENT" /\ \A w \in work : w.call # c
                 /\ \A m \in Members : doing[m].call # c}

Read(m, e) == inbox[m] # <<>> /\ e = Head(inbox[m]) /\ inbox' = [inbox EXCEPT ![m] = Tail(@)]
Turns(m, e) == page' = [page EXCEPT ![m] = [call |-> e.call, status |-> e.status]]

\* cleanupPeerAndMedia: it stops no handler that waits.
CleanUp(m) ==
  /\ peer' = [peer EXCEPT ![m] = "NONE"] /\ remote' = [remote EXCEPT ![m] = "NONE"]
  /\ interrupted' = IF \E t \in tasks : t.by = m THEN interrupted \union {m} ELSE interrupted \ {m}

\* start: refused in a call; the media prompt comes before the invitation.
Start(m) ==
  /\ doing[m] = Idle /\ page[m].status = "ENDED"
  /\ doing' = [doing EXCEPT ![m] = [op |-> "START", call |-> "NONE"]]
  /\ UNCHANGED <<call, accepted, work, inbox, page, linkVars, faults>>

\* start, when the prompt is answered; the page is not looked at again.
Invite(m) ==
  /\ doing[m].op = "START"
  /\ \E c \in Unused :
       /\ doing' = [doing EXCEPT ![m] = [op |-> "INVITE", call |-> c]]
       /\ work' = work \union {Request("INVITE", m, c)}
  /\ UNCHANGED <<call, accepted, inbox, page, linkVars, faults>>

\* accept, of an incoming call: it too asks for the media first.
Accept(m) ==
  /\ doing[m] = Idle /\ page[m].status = "INVITED" /\ Callee(page[m].call) = m
  /\ doing' = [doing EXCEPT ![m] = [op |-> "PREPARE", call |-> page[m].call]]
  /\ UNCHANGED <<call, accepted, work, inbox, page, linkVars, faults>>

\* accept, when the prompt is answered: for the call it started with, whatever
\* the page has become in the meantime.
SendAccept(m) ==
  /\ doing[m].op = "PREPARE"
  /\ doing' = [doing EXCEPT ![m].op = "ACCEPT"]
  /\ work' = work \union {Request("ACCEPT", m, doing[m].call)}
  /\ UNCHANGED <<call, accepted, inbox, page, linkVars, faults>>

\* The prompt is denied, or the socket is down when it is answered: start
\* cleans up, accept does not.
PromptDenied(m) ==
  /\ doing[m].op \in {"START", "PREPARE"}
  /\ doing' = [doing EXCEPT ![m] = Idle]
  /\ IF doing[m].op = "START" THEN CleanUp(m) ELSE UNCHANGED <<peer, remote, interrupted>>
  /\ UNCHANGED <<call, accepted, work, inbox, page, tasks, answered, faults>>

\* end and decline.
End(m) ==
  /\ doing[m] = Idle /\ page[m].status \in Live
  /\ doing' = [doing EXCEPT ![m] = [op |-> "END", call |-> page[m].call]]
  /\ work' = work \union {Request("END", m, page[m].call)}
  /\ UNCHANGED <<call, accepted, inbox, page, linkVars, faults>>

\* Event call.invite: taken unless the page is in a call; another call than
\* its own is ended as busy.
OnInvite(m, e) ==
  /\ Read(m, e) /\ e.op = "INVITE" /\ ~e.answer
  /\ IF page[m].status \in Live
     THEN /\ UNCHANGED page
          /\ work' = IF page[m].call # e.call THEN work \union {Request("BUSY", m, e.call)} ELSE work
     ELSE Turns(m, e) /\ UNCHANGED work
  /\ UNCHANGED <<call, accepted, doing, linkVars, faults>>

Task(op, m, c) == [op |-> op, by |-> m, call |-> c, at |-> "MEDIA"]

\* Event call.accept: of the page's call only; the caller sets out to make
\* its offer, createAndSendOffer.
OnAccept(m, e) ==
  /\ Read(m, e) /\ e.op = "ACCEPT" /\ ~e.answer
  /\ IF page[m].call = e.call
     THEN Turns(m, e) /\ tasks' = tasks \union {Task("OFFER", m, e.call)}
     ELSE UNCHANGED <<page, tasks>>
  /\ UNCHANGED <<call, accepted, work, doing, peer, remote, answered, interrupted, faults>>

\* Event webrtc.offer: the callee sets out to answer it, acceptOffer; only in
\* an active call, else the handler throws and the offer is lost.
OnOffer(m, e) ==
  /\ Read(m, e) /\ e.op = "OFFER" /\ ~e.answer
  /\ tasks' = IF page[m] = [call |-> e.call, status |-> "ACTIVE"]
              THEN tasks \union {Task("ANSWER", m, e.call)} ELSE tasks
  /\ UNCHANGED <<call, accepted, work, page, doing, peer, remote, answered, interrupted, faults>>

\* A handler has its peer connection, which holds the description `before`:
\* acceptOffer gives it the offer, and both send their own description.  The
\* page is not looked at again.  What they wait for on the way to the request
\* (createOffer, setLocalDescription) is part of the request's own way.
Negotiate(t, before) ==
  /\ remote' = [remote EXCEPT ![t.by] = IF t.op = "ANSWER" THEN t.call ELSE before]
  /\ answered' = IF t.op = "ANSWER" THEN answered \union {t.call} ELSE answered
  /\ work' = work \union {Request(t.op, t.by, t.call)}
  /\ tasks' = tasks \ {t}

\* ensureLocalMedia returns, at once if there is a stream, and ensurePeer uses
\* the connection there is or asks for the ICE servers.
MediaReady(t) ==
  /\ t.at = "MEDIA"
  /\ IF peer[t.by] = "NONE"
     THEN /\ tasks' = (tasks \ {t}) \union {[t EXCEPT !.at = "ICE"]}
          /\ UNCHANGED <<work, remote, answered>>
     ELSE Negotiate(t, remote[t.by])
  /\ UNCHANGED <<call, accepted, inbox, page, doing, peer, interrupted, faults>>

\* The ICE servers are there: ensurePeer stores a new connection, over one that
\* another handler has stored while it waited.
IceReady(t) ==
  /\ t.at = "ICE" /\ peer' = [peer EXCEPT ![t.by] = "OPEN"] /\ Negotiate(t, "NONE")
  /\ UNCHANGED <<call, accepted, inbox, page, doing, interrupted, faults>>

\* The media prompt or the request for the ICE servers fails, or the socket is
\* down when the description is ready: the handler throws.
HandlerThrows(t) ==
  /\ faults < MaxFaults /\ faults' = faults + 1
  /\ tasks' = tasks \ {t}
  /\ UNCHANGED <<call, accepted, work, inbox, page, doing, peer, remote, answered, interrupted>>

\* Mutant: the answer of another call is taken.
OnAnswerOfAny(m, e) ==
  /\ Read(m, e) /\ e.op = "ANSWER" /\ ~e.answer
  /\ remote' = IF peer[m] # "NONE" THEN [remote EXCEPT ![m] = e.call] ELSE remote
  /\ UNCHANGED <<call, accepted, work, page, doing, tasks, peer, answered, interrupted, faults>>

\* Event webrtc.answer: of the page's call, with a peer connection waiting.
OnAnswer(m, e) ==
  /\ Read(m, e) /\ e.op = "ANSWER" /\ ~e.answer
  /\ remote' = IF page[m].call = e.call /\ peer[m] # "NONE"
               THEN [remote EXCEPT ![m] = e.call] ELSE remote
  /\ UNCHANGED <<call, accepted, work, page, doing, tasks, peer, answered, interrupted, faults>>

\* Event call.end.
OnEnd(m, e) ==
  /\ Read(m, e) /\ e.op \in {"END", "BUSY"} /\ ~e.answer
  /\ IF page[m].call = e.call THEN Turns(m, e) /\ CleanUp(m)
                              ELSE UNCHANGED <<page, peer, remote, interrupted>>
  /\ UNCHANGED <<call, accepted, work, doing, tasks, answered, faults>>

\* start, accept and end take their answer, whatever the page has become in
\* the meantime.
OnAcknowledge(m, e) ==
  /\ Read(m, e) /\ e.answer
  /\ doing' = [doing EXCEPT ![m] = Idle]
  /\ IF e.status = "REFUSED" THEN UNCHANGED page ELSE Turns(m, e)
  /\ IF e.op = "END" \/ (e.op = "INVITE" /\ e.status = "REFUSED")
     THEN CleanUp(m) ELSE UNCHANGED <<peer, remote, interrupted>>
  /\ UNCHANGED <<call, accepted, work, tasks, answered, faults>>

\* The socket closes: what it had not delivered is lost, and the request the
\* user waits for is rejected; a media prompt stays.  Connecting again does
\* not restore the call.
LoseSocket(m) ==
  /\ faults < MaxFaults /\ faults' = faults + 1
  /\ inbox[m] # <<>> \/ doing[m].op \in Awaited
  /\ inbox' = [inbox EXCEPT ![m] = <<>>]
  /\ doing' = [doing EXCEPT ![m] = IF @.op \in Awaited THEN Idle ELSE @]
  /\ IF doing[m].op \in {"INVITE", "END"} THEN CleanUp(m) ELSE UNCHANGED <<peer, remote, interrupted>>
  /\ work' = {[w EXCEPT !.heard = @ /\ (w.by # m \/ w.op \notin Awaited)] :
               w \in {v \in work : v.by # m \/ v.at # "PUBLISHED"}}
  /\ UNCHANGED <<call, accepted, page, tasks, answered>>

OnEvent(m, e) ==
  \/ OnInvite(m, e) \/ OnAccept(m, e) \/ OnOffer(m, e) \/ OnAnswer(m, e) \/ OnEnd(m, e)
  \/ OnAcknowledge(m, e)

Handle(w) ==
  \/ TakeLock(w) \/ CommitInvite(w) \/ CommitAccept(w) \/ CommitEnd(w) \/ Signal(w)
  \/ Publish(w) \/ Acknowledge(w)

CallsNext ==
  \/ \E w \in work : Handle(w)
  \/ \E t \in tasks : MediaReady(t) \/ IceReady(t) \/ HandlerThrows(t)
  \/ \E m \in Members :
       \/ Start(m) \/ Invite(m) \/ Accept(m) \/ SendAccept(m) \/ PromptDenied(m) \/ End(m)
       \/ LoseSocket(m)
       \/ inbox[m] # <<>> /\ OnEvent(m, Head(inbox[m]))

CallsSpec == CallsInit /\ [][CallsNext]_callVars
-----------------------------------------------------------------------------
\* One invited or active call per conversation, although both members may
\* invite at once: the look of invite_call under its lock, and the partial
\* unique index.
OneLiveCall == Cardinality({c \in Calls : call[c].status \in Live}) <= 1

\* A call goes from INVITED to ACTIVE to ENDED and never back, when one
\* member accepts while the other hangs up: the row lock of accept_call and
\* end_call.
CallAdvances ==
  [][\A c \in Calls :
       /\ call[c].status = "ENDED" => call'[c].status = "ENDED"
       /\ call[c].status = "ACTIVE" => call'[c].status \in {"ACTIVE", "ENDED"}]_callVars

\* A description a page's connection was given is of a call the callee has
\* accepted and, for the caller, whose offer the callee has taken; and it is of
\* the call the page is in, unless a call of the page ended while a handler of
\* its events waited for media or ICE servers.  Signals of an older call that
\* arrive late are told apart by their call id, and a call that ends takes its
\* connection with it.
ConnectedToPeer ==
  \A m \in Members : remote[m] # "NONE" =>
    /\ peer[m] # "NONE" /\ remote[m] \in accepted
    /\ call[remote[m]].caller = m => remote[m] \in answered
    /\ m \notin interrupted => page[m].call = remote[m]

\* A page's connection is never one of a call it has left: a call that ends
\* while acceptOffer waits for media or ICE servers leaves the connection and
\* the description that are stored afterwards to the next call.
ConnectionIsLeft ==
  \A m \in Members : remote[m] # "NONE" =>
    page[m].call = remote[m] /\ page[m].status # "ENDED"

\* A page that has seen its call end does not return to it.
EndedIsLeft ==
  [][\A m \in Members : page[m].call # "NONE" /\ page[m].status = "ENDED" =>
       ~(page'[m].call = page[m].call /\ page'[m].status \in Live)]_callVars
=============================================================================
