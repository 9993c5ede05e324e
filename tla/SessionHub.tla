------------------------------ MODULE SessionHub ------------------------------
(***************************************************************************)
(* The WebSocket notification of internal/biz/hub.go, the socket handler   *)
(* of internal/server/ws.go that registers with it, and the goroutines     *)
(* that end sessions and then notify (KickSession, CheckSession and the    *)
(* idle job of internal/biz/session.go).                                   *)
(*                                                                         *)
(* The hub keeps one channel per session, in a map under a lock.  A socket *)
(* looks its session up in the database, upgrades the connection, and only *)
(* then registers; a notifier updates the database, reads the map, and     *)
(* only then sends.  Each of these is a step of its own.                   *)
(*                                                                         *)
(* The hub is one process's own (newSessionHub in NewUseCase), while the   *)
(* sessions are in the database of all instances: this module is one       *)
(* instance, its sockets and its notifiers, and sessions may also end      *)
(* without it.  A statement may fail, and may report an error although it  *)
(* took effect.                                                            *)
(*                                                                         *)
(* Abstractions: a channel is the socket that made it (every call of       *)
(* Register makes one); the session row is reduced to whether it is        *)
(* active (a purged row is not); what ends a session, and when, is         *)
(* Sessions.                                                               *)
(***************************************************************************)
CONSTANTS
    Session,    \* session ids
    Socket,     \* socket handlers, each serving one connection
    Notifier,   \* goroutines that end a session and notify
    None        \* no channel, no event

ASSUME NoneAssumption == None \notin Socket \union {"kicked", "expired"}

VARIABLES
    active,     \* the sessions whose row is active
    chs,        \* SessionHub.chs: the channel registered for each session
    buffer,     \* the event waiting in each channel (capacity 1)
    socket,     \* the state of each socket handler
    notifier,   \* the state of each notifier
    late,       \* history: sockets that registered after the session ended
    shared,     \* history: sessions that two sockets registered for
    quiet,      \* history: sessions whose end nobody tells this hub
    unexpired   \* history: sessions a check told of without ending them

vars ==
    <<active, chs, buffer, socket, notifier, late, shared, quiet, unexpired>>

-----------------------------------------------------------------------------
Event == {"kicked", "expired"}

\* KickSession, the idle job, CheckSession.
Ender == {"kick", "job", "check"}

\* Notify sends one event, NotifyExpired the other.
EventOf(by) == IF by = "kick" THEN "kicked" ELSE "expired"

Idle == [phase |-> "idle"]

Handler == [phase : {"found", "upgraded", "open", "leaving", "unregistered",
                     "closed"},
            session : Session]
Working == [phase : {"update", "lookup"}, session : Session, by : Ender]
Sending == [phase : {"send"}, session : Session, by : Ender, to : Socket]

TypeOK ==
    /\ active \in SUBSET Session
    /\ chs \in [Session -> Socket \union {None}]
    /\ buffer \in [Socket -> Event \union {None}]
    /\ socket \in [Socket -> Handler \union {Idle}]
    /\ notifier \in [Notifier -> Working \union Sending \union {Idle}]
    /\ late \in SUBSET Socket
    /\ shared \in SUBSET Session
    /\ quiet \in SUBSET Session
    /\ unexpired \in SUBSET Session

\* Every session starts active: a socket needs one that is.
Init ==
    /\ active = Session
    /\ chs = [s \in Session |-> None]
    /\ buffer = [c \in Socket |-> None]
    /\ socket = [c \in Socket |-> Idle]
    /\ notifier = [n \in Notifier |-> Idle]
    /\ late = {}
    /\ shared = {}
    /\ quiet = {}
    /\ unexpired = {}

-----------------------------------------------------------------------------
(***************************************************************************)
(* The socket handler                                                      *)
(***************************************************************************)
In(c, phase) == socket[c].phase = phase

Goto(c, phase) == socket' = [socket EXCEPT ![c].phase = phase]

\* FindSessionByToken: a session that is not active, and one the query
\* cannot tell of, is answered with 401.
Connect(c, s) ==
    /\ socket[c] = Idle
    /\ \E phase \in {"found", "closed"} :
          /\ phase = "found" => s \in active
          /\ socket' = [socket EXCEPT ![c] = [phase |-> phase, session |-> s]]
    /\ UNCHANGED <<active, chs, buffer, notifier, late, shared, quiet,
                   unexpired>>

\* The upgrade answers the client, or fails and the handler returns.
Upgrade(c) ==
    /\ In(c, "found")
    /\ Goto(c, "upgraded") \/ Goto(c, "closed")
    /\ UNCHANGED <<active, chs, buffer, notifier, late, shared, quiet,
                   unexpired>>

\* The sockets registered for s whose deferred calls have yet to run.
Registered(s) ==
    {c \in Socket : /\ socket[c].phase \in {"open", "leaving"}
                    /\ socket[c].session = s}

\* Register replaces whatever channel the session had.
Register(c) ==
    /\ In(c, "upgraded")
    /\ LET s == socket[c].session
       IN  /\ chs' = [chs EXCEPT ![s] = c]
           /\ late' = IF s \in active THEN late ELSE late \union {c}
           /\ shared' = IF Registered(s) = {} THEN shared ELSE shared \union {s}
    /\ Goto(c, "open")
    /\ UNCHANGED <<active, buffer, notifier, quiet, unexpired>>

\* Mutant: the handler returns without its deferred Unregister.
ReturnsWithout == "unregistered"

\* What the deferred calls of a returning handler do first.
ReturnsTo == "leaving"

\* Mutant: the handler writes the event and listens on.
ListensOn(c) == UNCHANGED socket

Return(c) == Goto(c, ReturnsTo)

\* The handler receives the event, writes it and returns.
Deliver(c) ==
    /\ In(c, "open")
    /\ buffer[c] # None
    /\ buffer' = [buffer EXCEPT ![c] = None]
    /\ Return(c)
    /\ UNCHANGED <<active, chs, notifier, late, shared, quiet, unexpired>>

\* The client goes away, a ping fails, or the request is cancelled.
Disconnect(c) ==
    /\ In(c, "open")
    /\ Goto(c, ReturnsTo)
    /\ UNCHANGED <<active, chs, buffer, notifier, late, shared, quiet,
                   unexpired>>

\* Unregister removes the entry of the session, whichever socket made it.
Unregister(c) ==
    /\ In(c, "leaving")
    /\ chs' = [chs EXCEPT ![socket[c].session] = None]
    /\ Goto(c, "unregistered")
    /\ UNCHANGED <<active, buffer, notifier, late, shared, quiet, unexpired>>

Close(c) ==
    /\ In(c, "unregistered")
    /\ Goto(c, "closed")
    /\ UNCHANGED <<active, chs, buffer, notifier, late, shared, quiet,
                   unexpired>>

-----------------------------------------------------------------------------
(***************************************************************************)
(* The notifiers: a kick, a sweep or a check has found the session active; *)
(* it ends it in the database and then calls Notify or NotifyExpired.      *)
(***************************************************************************)
\* Mutant: the hub is told before the database.
NotifiesFirst == "lookup"

StartsWith == "update"

\* Mutant: the session is ended and the hub never told.
EndsSilently(n) == notifier' = [notifier EXCEPT ![n] = Idle]

ThenNotifies(n) == notifier' = [notifier EXCEPT ![n].phase = "lookup"]

Begin(n, s, by) ==
    /\ notifier[n] = Idle
    /\ s \in active
    /\ notifier' = [notifier EXCEPT
          ![n] = [phase |-> StartsWith, session |-> s, by |-> by]]
    /\ UNCHANGED <<active, chs, buffer, socket, late, shared, quiet, unexpired>>

EndSession(n) ==
    /\ notifier[n].phase = "update"
    /\ active' = active \ {notifier[n].session}
    /\ ThenNotifies(n)
    /\ UNCHANGED <<chs, buffer, socket, late, shared, quiet, unexpired>>

\* Mutant: a kick, too, drops the error of its statement and notifies.
TellsAnyway(n) == TRUE

\* CheckSession does not look at the error of ExpireSession.
IgnoresError(n) == notifier[n].by = "check"

GivesUp(n) == notifier' = [notifier EXCEPT ![n] = Idle]

\* The statement reports an error, with or without having ended the session:
\* a kick and the job return, a check tells the hub all the same.
EndFails(n) ==
    LET s == notifier[n].session
    IN  /\ notifier[n].phase = "update"
        /\ active' \in {active, active \ {s}}
        /\ \/ /\ IgnoresError(n)
              /\ ThenNotifies(n)
              /\ unexpired' = IF notifier[n].by = "check"
                              THEN unexpired \union (active' \cap {s})
                              ELSE unexpired
              /\ UNCHANGED quiet
           \/ /\ ~IgnoresError(n)
              /\ GivesUp(n)
              /\ quiet' = quiet \union (active \ active')
              /\ UNCHANGED unexpired
        /\ UNCHANGED <<chs, buffer, socket, late, shared>>

\* Mutant: the second result of the map lookup is not looked at.
FoundUnchecked(c) == TRUE

Found(c) == c # None

\* notify reads the map under the read lock ...
Lookup(n) ==
    /\ notifier[n].phase = "lookup"
    /\ LET q == notifier[n]
           c == chs[q.session]
       IN  notifier' = [notifier EXCEPT ![n] =
              IF Found(c)
              THEN [phase |-> "send", session |-> q.session,
                    by |-> q.by, to |-> c]
              ELSE Idle]
    /\ UNCHANGED <<active, chs, buffer, socket, late, shared, quiet, unexpired>>

\* Mutant: the send waits for room in the channel.
MaySendBlocking(c) == buffer[c] = None

MaySend(c) == TRUE

\* ... and sends after it has released it, unless the channel is full.
Send(n) ==
    /\ notifier[n].phase = "send"
    /\ MaySend(notifier[n].to)
    /\ LET c == notifier[n].to
       IN  buffer' = [buffer EXCEPT
              ![c] = IF @ = None THEN EventOf(notifier[n].by) ELSE @]
    /\ notifier' = [notifier EXCEPT ![n] = Idle]
    /\ UNCHANGED <<active, chs, socket, late, shared, quiet, unexpired>>

\* A session ends and nobody tells this hub: a logout (LogoutSession), or a
\* kick, a sweep, a check or the purge at another instance.
EndUntold(s) ==
    /\ s \in active
    /\ active' = active \ {s}
    /\ quiet' = quiet \union {s}
    /\ UNCHANGED <<chs, buffer, socket, notifier, late, shared, unexpired>>

Handle(c) ==
    Upgrade(c) \/ Register(c) \/ Deliver(c) \/ Unregister(c) \/ Close(c)

Work(n) == EndSession(n) \/ EndFails(n) \/ Lookup(n) \/ Send(n)

Next ==
    \/ \E c \in Socket : \/ \E s \in Session : Connect(c, s)
                         \/ Handle(c)
                         \/ Disconnect(c)
    \/ \E n \in Notifier :
          \/ \E s \in Session, by \in Ender : Begin(n, s, by)
          \/ Work(n)
    \/ \E s \in Session : EndUntold(s)

Spec == Init /\ [][Next]_vars

\* Goroutines that have started run on; no client ever has to disconnect.
FairSpec ==
    /\ Spec
    /\ \A c \in Socket : WF_vars(Handle(c))
    /\ \A n \in Notifier : WF_vars(Work(n))

-----------------------------------------------------------------------------
(***************************************************************************)
(* Properties                                                              *)
(***************************************************************************)
Open(c) == In(c, "open")

\* What a check may be mistaken about.
Mistakable(s, event) == event = "expired" /\ s \in unexpired

\* No interleaving of the map, the channels and the database tells a live
\* session's page that it was kicked, and none that it expired except after a
\* check of this instance that found the session idle and whose statement to
\* end it failed (CheckSession, notify, Register, Deliver).
NoSpuriousSignal ==
    \A c \in Socket :
        buffer[c] # None /\ socket[c].session \in active
            => Mistakable(socket[c].session, buffer[c])

\* The hub leaks no entry and never signals a session through another one's
\* socket: an entry belongs to a handler of that session that has yet to run
\* its Unregister, whatever entries the sockets of one session have replaced
\* or removed for each other.
EntriesAreHeld ==
    \A s \in Session : chs[s] # None =>
        /\ socket[chs[s]].phase \in {"open", "leaving"}
        /\ socket[chs[s]].session = s

\* The only ways a page can miss the end of its session: it registered after
\* the end, it shares the session with another socket, or nobody told its hub
\* of the end: a logout, another instance, or a kick or sweep whose statement
\* ended the session and yet reported an error.
MissedSignalsExplained ==
    \A c \in Socket :
        /\ Open(c)
        /\ socket[c].session \notin active
        /\ buffer[c] = None
        /\ \A n \in Notifier :
              notifier[n] = Idle \/ notifier[n].session # socket[c].session
        => \/ c \in late
           \/ socket[c].session \in shared
           \/ socket[c].session \in quiet

\* A handler that kicks a session, and the idle job, never wait for a page:
\* not for a full channel and not for one nobody reads any more.
NotifiersFinish ==
    \A n \in Notifier : notifier[n] # Idle ~> notifier[n] = Idle

\* An event that has reached a channel ends the connection.
SignalledSocketsClose ==
    \A c \in Socket : (Open(c) /\ buffer[c] # None) ~> In(c, "closed")

\* "Register returns a channel that receives the event type when the session
\* is terminated": internal/biz/hub.go, line 15; for sessions that are ended
\* by a kick or by expiry at this instance, without an error.
TerminationReachesSocket ==
    \A c \in Socket :
        (Open(c) /\ socket[c].session \notin active \union quiet)
            ~> ~Open(c)

\* Where a page stands in the abstract specification, by the state q of its
\* handler and the event b in its channel.
Stage(q, b) ==
    CASE q.phase \in {"found", "upgraded"} -> "connecting"
      [] q.phase = "open" /\ b = None -> "watching"
      [] q.phase = "open" /\ b # None -> "told"
      [] OTHER -> "gone"

Page(q, b) ==
    IF q = Idle THEN [stage |-> "away"]
    ELSE [stage |-> Stage(q, b), session |-> q.session]

PageMap == [c \in Socket |-> Page(socket[c], buffer[c])]

Notice == INSTANCE SessionNotice
          WITH ended <- Session \ active, lapsed <- unexpired, page <- PageMap

\* Whatever the map and the channels hold for other sockets, a page is told
\* once, of its own session, after its end or after a check that found it idle
\* and could not end it; an event that has reached it is neither lost nor
\* taken back, and a connection that has ended gets none that counts
\* (Register, Unregister, notify, the select of ws.go).
KeepsNotice == Notice!Spec

(***************************************************************************)
(* The inductive invariant behind the three safety properties              *)
(***************************************************************************)
\* A notifier that is past its statement, or found a channel, speaks of a
\* session that has ended, or that its check could not end; the channel is one
\* of that session's sockets.
NotifiersSpeakTruth ==
    \A n \in Notifier :
        /\ /\ notifier[n].phase \in {"lookup", "send"}
           /\ notifier[n].session \in active
           => Mistakable(notifier[n].session, EventOf(notifier[n].by))
        /\ notifier[n].phase = "send"
              => /\ socket[notifier[n].to] # Idle
                 /\ socket[notifier[n].to].session = notifier[n].session

BuffersSpeakTruth ==
    \A c \in Socket : buffer[c] # None =>
        /\ socket[c] # Idle
        /\ socket[c].session \in active
              => Mistakable(socket[c].session, buffer[c])

\* Unless two sockets shared it, the entry of a session is its open socket's.
UnsharedEntry ==
    \A s \in Session : s \notin shared =>
        \A c \in Registered(s) :
            Registered(s) = {c} /\ (Open(c) => chs[s] = c)

\* The end of a session is on its way to an open socket that registered in
\* time.
OnItsWay(c) ==
    \/ buffer[c] # None
    \/ \E n \in Notifier :
          \/ /\ notifier[n].phase = "lookup"
             /\ notifier[n].session = socket[c].session
          \/ /\ notifier[n].phase = "send"
             /\ notifier[n].to = c

SignalsOnTheirWay ==
    \A c \in Socket :
        /\ Open(c)
        /\ c \notin late
        /\ socket[c].session \notin active \union shared \union quiet
        => OnItsWay(c)

\* What holds between the map, the channels, the sockets and the notifiers
\* in every order of Register, Unregister, notify and the database updates.
IInv ==
    /\ TypeOK
    /\ EntriesAreHeld
    /\ NotifiersSpeakTruth
    /\ BuffersSpeakTruth
    /\ UnsharedEntry
    /\ SignalsOnTheirWay
=============================================================================
