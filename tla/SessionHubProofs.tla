--------------------------- MODULE SessionHubProofs ---------------------------
(***************************************************************************)
(* Theorems about SessionHub, for any number of sessions, sockets and      *)
(* notifiers.                                                              *)
(*                                                                         *)
(* The argument for MissedSignalsExplained: while one socket at a time     *)
(* serves a session, the session's entry is that socket's channel, so a    *)
(* notifier that looks after it has ended the session finds it.  What has  *)
(* to be tracked is the signal on its way: at the map, at the channel or   *)
(* in it.                                                                  *)
(***************************************************************************)
EXTENDS SessionHub, TLAPS

USE NoneAssumption

\* The invariant holds at the start, when nothing is registered.
LEMMA InitIInv == Init => IInv
<1> SUFFICES ASSUME Init PROVE IInv
  OBVIOUS
<1>1. TypeOK
  BY DEF Init, TypeOK
<1> QED BY <1>1 DEF Init, IInv, EntriesAreHeld, NotifiersSpeakTruth,
          BuffersSpeakTruth, UnsharedEntry, Registered, SignalsOnTheirWay,
          Open, In, Idle

\* A socket in a phase past the first is a handler, and so on.
LEMMA SocketType ==
    ASSUME TypeOK, NEW c \in Socket, socket[c] # Idle
    PROVE  socket[c] \in Handler /\ socket[c].session \in Session
BY DEF TypeOK, Handler

\* A socket handler in one of its phases is not idle.
LEMMA SocketPhase ==
    ASSUME NEW c \in Socket,
           socket[c].phase \in {"found", "upgraded", "open", "leaving",
                                "unregistered", "closed"}
    PROVE  socket[c] # Idle
BY DEF Idle

\* The parts of a notifier's record in each of its phases.
LEMMA NotifierType ==
    ASSUME TypeOK, NEW n \in Notifier
    PROVE  /\ notifier[n].phase \in {"update", "lookup"}
                => notifier[n] \in Working /\ notifier[n].session \in Session
           /\ notifier[n].phase = "send"
                => /\ notifier[n] \in Sending /\ notifier[n].to \in Socket
                   /\ notifier[n].session \in Session
BY DEF TypeOK, Working, Sending, Idle

-----------------------------------------------------------------------------
\* A socket goes to a phase that is neither open nor, unless it was open,
\* leaving; the map is as it was.
LEMMA GotoKeepsIInv ==
    ASSUME IInv, NEW c \in Socket, socket[c] # Idle,
           NEW phase \in {"upgraded", "leaving", "unregistered", "closed"},
           Goto(c, phase),
           phase = "leaving" => Open(c),
           phase # "leaving" => socket[c].phase \notin {"open", "leaving"},
           buffer' = buffer \/ buffer' = [buffer EXCEPT ![c] = None],
           buffer' # buffer => phase = "leaving",
           UNCHANGED <<active, chs, notifier, late, shared, quiet, unexpired>>
    PROVE  IInv'
<1>1. /\ TypeOK /\ socket[c] \in Handler /\ socket[c].session \in Session
      /\ EntriesAreHeld /\ NotifiersSpeakTruth /\ BuffersSpeakTruth
      /\ UnsharedEntry /\ SignalsOnTheirWay
  BY SocketType DEF IInv
<1>2. \A d \in Socket :
        /\ d # c => socket'[d] = socket[d]
        /\ socket'[d] = Idle <=> socket[d] = Idle
        /\ socket[d] # Idle => socket'[d].session = socket[d].session
        /\ socket'[d].phase \in {"open", "leaving"}
             <=> socket[d].phase \in {"open", "leaving"}
        /\ Open(d)' => Open(d) /\ d # c
  BY <1>1 DEF Goto, TypeOK, Handler, Idle, Open, In
<1>3. TypeOK'
  BY <1>1 DEF TypeOK, Goto, Handler
<1>4. \A d \in Socket : buffer'[d] = buffer[d] \/ (d = c /\ buffer'[d] = None)
  BY <1>1 DEF TypeOK
<1>5. EntriesAreHeld'
  <2> SUFFICES ASSUME NEW s \in Session, chs[s] # None
               PROVE  /\ socket'[chs[s]].phase \in {"open", "leaving"}
                      /\ socket'[chs[s]].session = s
    BY DEF EntriesAreHeld
  <2>1. chs[s] \in Socket
    BY <1>1 DEF TypeOK
  <2>2. /\ socket[chs[s]].phase \in {"open", "leaving"}
        /\ socket[chs[s]].session = s
    BY <1>1 DEF EntriesAreHeld
  <2> QED BY <1>2, <2>1, <2>2, SocketPhase
<1>6. NotifiersSpeakTruth'
  BY <1>1, <1>2, NotifierType DEF NotifiersSpeakTruth, Mistakable
<1>7. BuffersSpeakTruth'
  BY <1>1, <1>2, <1>4 DEF BuffersSpeakTruth, Mistakable
<1>8. \A s \in Session : Registered(s)' = Registered(s)
  BY <1>2, SocketPhase DEF Registered
<1>9. UnsharedEntry'
  <2> SUFFICES ASSUME NEW s \in Session, s \notin shared,
                      NEW d \in Registered(s)
               PROVE  Registered(s) = {d} /\ (Open(d)' => chs[s] = d)
    BY <1>8 DEF UnsharedEntry
  <2> QED BY <1>1, <1>2 DEF UnsharedEntry, Registered
<1>10. SignalsOnTheirWay'
  <2> SUFFICES ASSUME NEW d \in Socket, Open(d)', d \notin late,
                      socket'[d].session \notin active \union shared \union quiet
               PROVE  OnItsWay(d)'
    BY DEF SignalsOnTheirWay
  <2>1. Open(d) /\ d # c /\ socket'[d] = socket[d]
    BY <1>2
  <2>2. OnItsWay(d)
    BY <1>1, <2>1 DEF SignalsOnTheirWay
  <2> QED BY <1>4, <2>1, <2>2 DEF OnItsWay
<1> QED BY <1>3, <1>5, <1>6, <1>7, <1>9, <1>10 DEF IInv

\* Looking the session up keeps the invariant: nothing is registered yet.
LEMMA ConnectKeepsIInv ==
    ASSUME IInv, NEW c \in Socket, NEW s \in Session, Connect(c, s)
    PROVE  IInv'
<1>0. PICK phase \in {"found", "closed"} :
        socket' = [socket EXCEPT ![c] = [phase |-> phase, session |-> s]]
  BY DEF Connect
<1> DEFINE q == [phase |-> phase, session |-> s]
<1>1. /\ socket[c] = Idle /\ socket' = [socket EXCEPT ![c] = q]
      /\ UNCHANGED <<active, chs, buffer, notifier, late, shared, quiet, unexpired>>
  BY <1>0 DEF Connect
<1>2. q \in Handler /\ q # Idle /\ q.phase \notin {"open", "leaving"}
  BY DEF Handler, Idle
<1> HIDE DEF q
<1>3. /\ TypeOK /\ EntriesAreHeld /\ NotifiersSpeakTruth /\ BuffersSpeakTruth
      /\ UnsharedEntry /\ SignalsOnTheirWay
  BY DEF IInv
<1>4. \A d \in Socket : /\ d # c => socket'[d] = socket[d]
                        /\ socket'[c] = q
                        /\ Open(d)' => Open(d) /\ d # c
  BY <1>1, <1>2, <1>3 DEF TypeOK, Open, In
<1>5. Idle.phase = "idle"
  BY DEF Idle
<1>6. TypeOK'
  BY <1>1, <1>2, <1>3 DEF TypeOK
<1>7. EntriesAreHeld'
  <2> SUFFICES ASSUME NEW i \in Session, chs[i] # None
               PROVE  /\ socket'[chs[i]].phase \in {"open", "leaving"}
                      /\ socket'[chs[i]].session = i
    BY <1>1 DEF EntriesAreHeld
  <2>1. /\ chs[i] \in Socket
        /\ socket[chs[i]].phase \in {"open", "leaving"}
        /\ socket[chs[i]].session = i
    BY <1>3 DEF EntriesAreHeld, TypeOK
  <2> QED BY <1>1, <1>4, <1>5, <2>1
<1>8. NotifiersSpeakTruth'
  BY <1>1, <1>3, <1>4, NotifierType DEF NotifiersSpeakTruth, Mistakable
<1>9. BuffersSpeakTruth'
  BY <1>1, <1>3, <1>4 DEF BuffersSpeakTruth, Mistakable
<1>10. \A i \in Session : Registered(i)' = Registered(i)
  BY <1>1, <1>2, <1>4, <1>5 DEF Registered
<1>11. UnsharedEntry'
  BY <1>1, <1>3, <1>4, <1>10 DEF UnsharedEntry, Registered
<1>12. SignalsOnTheirWay'
  BY <1>1, <1>3, <1>4 DEF SignalsOnTheirWay, OnItsWay
<1> QED BY <1>6, <1>7, <1>8, <1>9, <1>11, <1>12 DEF IInv

\* Register keeps the invariant: the entry it makes is its own, and whatever
\* it replaced belonged to a socket that now shares the session.
LEMMA RegisterKeepsIInv ==
    ASSUME IInv, NEW c \in Socket, Register(c)
    PROVE  IInv'
<1> DEFINE s == socket[c].session
<1>1. /\ TypeOK /\ EntriesAreHeld /\ NotifiersSpeakTruth /\ BuffersSpeakTruth
      /\ UnsharedEntry /\ SignalsOnTheirWay
      /\ socket[c].phase = "upgraded" /\ socket[c] # Idle
      /\ socket[c] \in Handler /\ s \in Session
  BY SocketType, SocketPhase DEF IInv, Register, In
<1>2. /\ chs' = [chs EXCEPT ![s] = c]
      /\ late' = IF s \in active THEN late ELSE late \union {c}
      /\ shared' = IF Registered(s) = {} THEN shared ELSE shared \union {s}
      /\ socket' = [socket EXCEPT ![c].phase = "open"]
      /\ UNCHANGED <<active, buffer, notifier, quiet, unexpired>>
  BY DEF Register, Goto
<1>3. /\ socket'[c].phase = "open" /\ socket'[c].session = s
      /\ socket'[c] # Idle
      /\ \A d \in Socket : d # c => socket'[d] = socket[d]
  BY <1>1, <1>2 DEF TypeOK, Handler, Idle
<1>4. TypeOK'
  BY <1>1, <1>2 DEF TypeOK, Handler
<1> HIDE DEF s
<1>5. \A i \in Session : chs'[i] = IF i = s THEN c ELSE chs[i]
  BY <1>1, <1>2 DEF TypeOK
<1>6. EntriesAreHeld'
  <2> SUFFICES ASSUME NEW i \in Session, chs'[i] # None
               PROVE  /\ socket'[chs'[i]].phase \in {"open", "leaving"}
                      /\ socket'[chs'[i]].session = i
    BY DEF EntriesAreHeld
  <2>1. CASE i = s
    BY <1>3, <1>5, <2>1
  <2>2. CASE i # s
    <3>1. /\ chs[i] \in Socket /\ chs'[i] = chs[i]
          /\ socket[chs[i]].phase \in {"open", "leaving"}
          /\ socket[chs[i]].session = i
      BY <1>1, <1>5, <2>2 DEF EntriesAreHeld, TypeOK
    <3> QED BY <1>1, <1>3, <3>1
  <2> QED BY <2>1, <2>2
<1>7. NotifiersSpeakTruth'
  BY <1>1, <1>2, <1>3, NotifierType DEF NotifiersSpeakTruth, Mistakable, s
<1>8. BuffersSpeakTruth'
  BY <1>1, <1>2, <1>3 DEF BuffersSpeakTruth, Mistakable, s
<1>9. /\ Registered(s)' = Registered(s) \union {c}
      /\ \A i \in Session : i # s => Registered(i)' = Registered(i)
  BY <1>1, <1>3 DEF Registered, s
<1>10. UnsharedEntry'
  <2> SUFFICES ASSUME NEW i \in Session, i \notin shared',
                      NEW d \in Registered(i)'
               PROVE  Registered(i)' = {d} /\ (Open(d)' => chs'[i] = d)
    BY DEF UnsharedEntry
  <2>1. CASE i = s
    <3>1. Registered(s) = {}
      BY <1>2, <2>1
    <3>2. Registered(i)' = Registered(s)'
      BY <1>3, <2>1 DEF Registered, s
    <3>3. Registered(i)' = {c} /\ d = c
      BY <1>9, <3>1, <3>2
    <3> QED BY <1>5, <2>1, <3>3
  <2>2. CASE i # s
    <3>1. i \notin shared /\ d \in Registered(i) /\ d # c
      BY <1>1, <1>2, <1>9, <2>2 DEF Registered
    <3> QED BY <1>1, <1>3, <1>5, <1>9, <2>2, <3>1
            DEF UnsharedEntry, Open, In, Registered
  <2> QED BY <2>1, <2>2
<1>11. SignalsOnTheirWay'
  <2> SUFFICES ASSUME NEW d \in Socket, Open(d)', d \notin late',
                      socket'[d].session \notin active \union shared' \union quiet
               PROVE  OnItsWay(d)'
    BY <1>2 DEF SignalsOnTheirWay
  <2>1. d # c
    BY <1>2, <1>3
  <2>2. socket'[d] = socket[d] /\ Open(d) /\ d \notin late
    BY <1>2, <1>3, <2>1 DEF Open, In
  <2>3. socket[d].session \notin active \union shared \union quiet
    BY <1>2, <2>2
  <2>4. OnItsWay(d)
    BY <1>1, <2>2, <2>3 DEF SignalsOnTheirWay
  <2> QED BY <1>2, <2>2, <2>4 DEF OnItsWay
<1> QED BY <1>4, <1>6, <1>7, <1>8, <1>10, <1>11 DEF IInv

\* Unregister keeps the invariant: the entry it removes is its own unless
\* the session is shared.
LEMMA UnregisterKeepsIInv ==
    ASSUME IInv, NEW c \in Socket, Unregister(c)
    PROVE  IInv'
<1> DEFINE s == socket[c].session
<1>1. /\ TypeOK /\ EntriesAreHeld /\ NotifiersSpeakTruth /\ BuffersSpeakTruth
      /\ UnsharedEntry /\ SignalsOnTheirWay
      /\ socket[c].phase = "leaving" /\ socket[c] # Idle
      /\ socket[c] \in Handler /\ s \in Session
  BY SocketType, SocketPhase DEF IInv, Unregister, In
<1>2. /\ chs' = [chs EXCEPT ![s] = None]
      /\ socket' = [socket EXCEPT ![c].phase = "unregistered"]
      /\ UNCHANGED <<active, buffer, notifier, late, shared, quiet, unexpired>>
  BY DEF Unregister, Goto
<1>3. /\ socket'[c].phase = "unregistered" /\ socket'[c].session = s
      /\ socket'[c] # Idle
      /\ \A d \in Socket : d # c => socket'[d] = socket[d]
  BY <1>1, <1>2 DEF TypeOK, Handler, Idle
<1>4. TypeOK'
  BY <1>1, <1>2 DEF TypeOK, Handler
<1> HIDE DEF s
<1>5. \A i \in Session : chs'[i] = IF i = s THEN None ELSE chs[i]
  BY <1>1, <1>2 DEF TypeOK
<1>6. EntriesAreHeld'
  <2> SUFFICES ASSUME NEW i \in Session, chs'[i] # None
               PROVE  /\ socket'[chs'[i]].phase \in {"open", "leaving"}
                      /\ socket'[chs'[i]].session = i
    BY DEF EntriesAreHeld
  <2>1. i # s /\ chs'[i] = chs[i]
    BY <1>5
  <2>2. /\ chs[i] \in Socket
        /\ socket[chs[i]].phase \in {"open", "leaving"}
        /\ socket[chs[i]].session = i
    BY <1>1, <2>1 DEF EntriesAreHeld, TypeOK
  <2>3. chs[i] # c
    BY <2>1, <2>2 DEF s
  <2> QED BY <1>3, <2>1, <2>2, <2>3
<1>7. NotifiersSpeakTruth'
  BY <1>1, <1>2, <1>3, NotifierType DEF NotifiersSpeakTruth, Mistakable, s
<1>8. BuffersSpeakTruth'
  BY <1>1, <1>2, <1>3 DEF BuffersSpeakTruth, Mistakable, s
<1>9. /\ c \in Registered(s)
      /\ \A i \in Session : Registered(i)' = Registered(i) \ {c}
  BY <1>1, <1>3 DEF Registered, s
<1>10. UnsharedEntry'
  <2> SUFFICES ASSUME NEW i \in Session, i \notin shared,
                      NEW d \in Registered(i) \ {c}
               PROVE  Registered(i) \ {c} = {d} /\ (Open(d)' => chs'[i] = d)
    BY <1>2, <1>9 DEF UnsharedEntry
  <2>1. Registered(i) = {d} /\ (Open(d) => chs[i] = d)
    BY <1>1 DEF UnsharedEntry
  <2>2. i # s
    BY <1>9, <2>1
  <2>3. Open(d)' => Open(d)
    BY <1>3 DEF Open, In, Registered
  <2> QED BY <1>5, <2>1, <2>2, <2>3
<1>11. SignalsOnTheirWay'
  BY <1>1, <1>2, <1>3 DEF SignalsOnTheirWay, OnItsWay, Open, In
<1> QED BY <1>4, <1>6, <1>7, <1>8, <1>10, <1>11 DEF IInv

\* The steps of a handler and of its client.
LEMMA HandlerKeepsIInv ==
    ASSUME IInv, NEW c \in Socket, Handle(c) \/ Disconnect(c)
    PROVE  IInv'
<1>1. CASE Upgrade(c)
  <2>1. socket[c] # Idle /\ socket[c].phase = "found"
    BY <1>1, SocketPhase DEF Upgrade, In
  <2> QED BY <1>1, <2>1, GotoKeepsIInv DEF Upgrade
<1>2. CASE Deliver(c) \/ Disconnect(c)
  <2>1. socket[c] # Idle /\ Open(c)
    BY <1>2, SocketPhase DEF Deliver, Disconnect, Open, In
  <2>2. Goto(c, "leaving")
    BY <1>2 DEF Deliver, Disconnect, Return, ReturnsTo
  <2> QED BY <1>2, <2>1, <2>2, GotoKeepsIInv DEF Deliver, Disconnect
<1>3. CASE Close(c)
  <2>1. socket[c] # Idle /\ socket[c].phase = "unregistered"
    BY <1>3, SocketPhase DEF Close, In
  <2> QED BY <1>3, <2>1, GotoKeepsIInv DEF Close
<1> QED BY <1>1, <1>2, <1>3, RegisterKeepsIInv, UnregisterKeepsIInv DEF Handle

-----------------------------------------------------------------------------
\* A notifier that has found a session active has promised nothing yet.
LEMMA BeginKeepsIInv ==
    ASSUME IInv, NEW n \in Notifier, NEW s \in Session, NEW by \in Ender,
           Begin(n, s, by)
    PROVE  IInv'
<1> DEFINE q == [phase |-> "update", session |-> s, by |-> by]
<1>1. /\ notifier[n] = Idle /\ notifier' = [notifier EXCEPT ![n] = q]
      /\ UNCHANGED <<active, chs, buffer, socket, late, shared, quiet, unexpired>>
  BY DEF Begin, StartsWith
<1>2. q \in Working /\ q.phase = "update"
  BY DEF Working
<1> HIDE DEF q
<1>3. /\ TypeOK /\ EntriesAreHeld /\ NotifiersSpeakTruth /\ BuffersSpeakTruth
      /\ UnsharedEntry /\ SignalsOnTheirWay
  BY DEF IInv
<1>4. /\ notifier'[n] = q
      /\ \A m \in Notifier : m # n => notifier'[m] = notifier[m]
      /\ notifier[n].phase = "idle"
  BY <1>1, <1>3 DEF TypeOK, Idle
<1>5. TypeOK'
  BY <1>1, <1>2, <1>3 DEF TypeOK
<1>6. NotifiersSpeakTruth'
  BY <1>1, <1>2, <1>3, <1>4 DEF NotifiersSpeakTruth, Mistakable
<1>7. SignalsOnTheirWay'
  BY <1>1, <1>3, <1>4 DEF SignalsOnTheirWay, OnItsWay, Open, In
<1> QED BY <1>1, <1>3, <1>5, <1>6, <1>7
        DEF IInv, EntriesAreHeld, BuffersSpeakTruth, Mistakable, UnsharedEntry,
            Registered, Open, In

\* The statement that ends a session keeps the invariant: the notifier that
\* made it is on its way to the hub, or owns up to its silence; if it left the
\* session as it was, it is a check and owns up to that.
LEMMA StatementKeepsIInv ==
    ASSUME IInv, NEW n \in Notifier, EndSession(n) \/ EndFails(n)
    PROVE  IInv'
<1> DEFINE s == notifier[n].session
           q == [notifier[n] EXCEPT !.phase = "lookup"]
<1>1. /\ TypeOK /\ EntriesAreHeld /\ NotifiersSpeakTruth /\ BuffersSpeakTruth
      /\ UnsharedEntry /\ SignalsOnTheirWay
      /\ notifier[n] \in Working /\ s \in Session
      /\ notifier[n].phase = "update"
  BY NotifierType DEF IInv, EndSession, EndFails
<1>2. PICK next \in {q, Idle} :
        /\ notifier' = [notifier EXCEPT ![n] = next]
        /\ active' \in {active, active \ {s}}
        /\ next = q /\ s \in active'
              => s \in unexpired' /\ notifier[n].by = "check"
        /\ next = Idle => active' = active \/ s \in quiet'
        /\ quiet \subseteq quiet' /\ quiet' \in SUBSET Session
        /\ unexpired \subseteq unexpired' /\ unexpired' \in SUBSET Session
        /\ UNCHANGED <<chs, buffer, socket, late, shared>>
  <2>0. /\ active \subseteq Session
        /\ quiet \subseteq Session /\ unexpired \subseteq Session
    BY <1>1 DEF TypeOK
  <2>1. CASE EndSession(n)
    <3>1. notifier' = [notifier EXCEPT ![n] = q]
      BY <2>1 DEF EndSession, ThenNotifies
    <3>2. /\ active' = active \ {s}
          /\ UNCHANGED <<quiet, unexpired, chs, buffer, socket, late, shared>>
      BY <2>1 DEF EndSession
    <3>3. Idle # q
      BY <1>1 DEF Working, Idle
    <3> HIDE DEF q, s
    <3> QED BY <2>0, <3>1, <3>2, <3>3
  <2>2. CASE EndFails(n) /\ IgnoresError(n)
    <3>1. /\ notifier' = [notifier EXCEPT ![n] = q]
          /\ active' \in {active, active \ {s}}
          /\ unexpired' = unexpired \union (active' \cap {s})
          /\ UNCHANGED <<quiet, chs, buffer, socket, late, shared>>
          /\ notifier[n].by = "check"
      BY <2>2 DEF EndFails, IgnoresError, ThenNotifies
    <3>2. s \in active' => s \in unexpired'
      BY <3>1
    <3>3. unexpired \subseteq unexpired' /\ unexpired' \subseteq Session
      BY <1>1, <2>0, <3>1
    <3>4. Idle # q
      BY <1>1 DEF Working, Idle
    <3> HIDE DEF q, s
    <3> QED BY <2>0, <3>1, <3>2, <3>3, <3>4
  <2>3. CASE EndFails(n) /\ ~IgnoresError(n)
    <3>1. /\ notifier' = [notifier EXCEPT ![n] = Idle]
          /\ active' \in {active, active \ {s}}
          /\ quiet' = quiet \union (active \ active')
          /\ UNCHANGED <<unexpired, chs, buffer, socket, late, shared>>
      BY <2>3 DEF EndFails, GivesUp
    <3>2. active' = active \/ s \in quiet'
      BY <3>1
    <3>3. quiet \subseteq quiet' /\ quiet' \subseteq Session
      BY <2>0, <3>1
    <3>4. Idle # q
      BY <1>1 DEF Working, Idle
    <3> HIDE DEF q, s
    <3> QED BY <2>0, <3>1, <3>2, <3>3, <3>4
  <2> HIDE DEF q, s
  <2> QED BY <2>1, <2>2, <2>3
<1>3. /\ q \in Working /\ q.phase = "lookup" /\ q.session = s
      /\ q.by = notifier[n].by
      /\ Idle.phase = "idle" /\ q # Idle
  BY <1>1 DEF Working, Idle
<1> HIDE DEF q
<1>4. /\ notifier'[n] = next
      /\ \A m \in Notifier : m # n => notifier'[m] = notifier[m]
  BY <1>1, <1>2 DEF TypeOK
<1>5. TypeOK'
  <2>1. notifier' \in [Notifier -> Working \union Sending \union {Idle}]
    BY <1>1, <1>2, <1>3 DEF TypeOK
  <2> QED BY <1>1, <1>2, <2>1 DEF TypeOK
<1>6. active' \subseteq active
  BY <1>2
<1>7. NotifiersSpeakTruth'
  <2>1. ASSUME NEW m \in Notifier
        PROVE  (/\ (/\ notifier[m].phase \in {"lookup", "send"}
                    /\ notifier[m].session \in active)
                   => Mistakable(notifier[m].session, EventOf(notifier[m].by))
                /\ notifier[m].phase = "send"
                   => /\ socket[notifier[m].to] # Idle
                      /\ socket[notifier[m].to].session = notifier[m].session)'
    <3>1. CASE m = n /\ next = Idle
      BY <1>3, <1>4, <3>1
    <3>2. CASE m = n /\ next = q
      BY <1>2, <1>3, <1>4, <3>2 DEF Mistakable, EventOf
    <3>3. CASE m # n
      BY <1>1, <1>2, <1>4, <1>6, <3>3 DEF NotifiersSpeakTruth, Mistakable
    <3> QED BY <1>2, <3>1, <3>2, <3>3
  <2> QED BY <2>1 DEF NotifiersSpeakTruth
<1>8. BuffersSpeakTruth'
  BY <1>1, <1>2, <1>6 DEF BuffersSpeakTruth, Mistakable
<1>9. SignalsOnTheirWay'
  <2> SUFFICES ASSUME NEW d \in Socket, Open(d), d \notin late,
                      socket[d].session \notin active' \union shared \union quiet'
               PROVE  OnItsWay(d)'
    BY <1>2 DEF SignalsOnTheirWay, Open, In
  <2>1. CASE socket[d].session = s /\ next = q
    BY <1>2, <1>3, <1>4, <2>1 DEF OnItsWay
  <2>2. CASE socket[d].session # s \/ active' = active
    <3>1. OnItsWay(d)
      BY <1>1, <1>2, <1>6, <2>2 DEF SignalsOnTheirWay
    <3> QED BY <1>1, <1>2, <1>4, <3>1 DEF OnItsWay
  <2>3. CASE socket[d].session = s /\ next = Idle /\ active' # active
    BY <1>2, <2>3
  <2> QED BY <1>2, <2>1, <2>2, <2>3
<1> QED BY <1>1, <1>2, <1>5, <1>7, <1>8, <1>9
        DEF IInv, EntriesAreHeld, UnsharedEntry, Registered, Open, In

\* The lookup keeps the invariant: the entry it finds is the open socket's,
\* unless the session is shared.
LEMMA LookupKeepsIInv ==
    ASSUME IInv, NEW n \in Notifier, Lookup(n)
    PROVE  IInv'
<1> DEFINE s == notifier[n].session
           c == chs[s]
           q == IF c # None
                THEN [phase |-> "send", session |-> s,
                      by |-> notifier[n].by, to |-> c]
                ELSE Idle
<1>1. /\ TypeOK /\ EntriesAreHeld /\ NotifiersSpeakTruth /\ BuffersSpeakTruth
      /\ UnsharedEntry /\ SignalsOnTheirWay
      /\ notifier[n] \in Working /\ s \in Session
      /\ notifier[n].phase = "lookup"
      /\ s \in active => Mistakable(s, EventOf(notifier[n].by))
  BY NotifierType DEF IInv, Lookup, NotifiersSpeakTruth
<1>2. /\ notifier' = [notifier EXCEPT ![n] = q]
      /\ UNCHANGED <<active, chs, buffer, socket, late, shared, quiet, unexpired>>
  BY DEF Lookup, Found
<1>3. c # None => /\ c \in Socket /\ socket[c].session = s
                  /\ socket[c] # Idle
                  /\ q \in Sending /\ q.phase = "send"
                  /\ q.session = s /\ q.to = c
                  /\ q.by = notifier[n].by
  BY <1>1, SocketPhase DEF EntriesAreHeld, TypeOK, Sending, Working
<1>4. c = None => q = Idle /\ q.phase = "idle"
  BY DEF Idle
<1>5. /\ notifier'[n] = q
      /\ \A m \in Notifier : m # n => notifier'[m] = notifier[m]
  BY <1>1, <1>2 DEF TypeOK
<1> HIDE DEF q
<1>6. TypeOK'
  BY <1>1, <1>2, <1>3, <1>4 DEF TypeOK
<1> HIDE DEF s, c
<1>7. NotifiersSpeakTruth'
  BY <1>1, <1>2, <1>3, <1>4, <1>5 DEF NotifiersSpeakTruth, Mistakable
<1>8. SignalsOnTheirWay'
  <2> SUFFICES ASSUME NEW d \in Socket, Open(d), d \notin late,
                      socket[d].session \notin active \union shared \union quiet
               PROVE  OnItsWay(d)'
    BY <1>2 DEF SignalsOnTheirWay, Open, In
  <2>1. OnItsWay(d)
    BY <1>1 DEF SignalsOnTheirWay
  <2>2. CASE socket[d].session = s
    <3>1. c = d /\ d # None
      BY <1>1, <2>2 DEF UnsharedEntry, Registered, Open, In, c
    <3> QED BY <1>3, <1>5, <3>1 DEF OnItsWay
  <2>3. CASE socket[d].session # s
    <3>1. /\ notifier[n].phase = "lookup" /\ notifier[n].session = s
      BY <1>1 DEF s
    <3> QED BY <1>2, <1>5, <2>1, <2>3, <3>1 DEF OnItsWay
  <2> QED BY <2>2, <2>3
<1> QED BY <1>1, <1>2, <1>6, <1>7, <1>8
        DEF IInv, EntriesAreHeld, BuffersSpeakTruth, Mistakable, UnsharedEntry,
            Registered, Open, In

\* The send keeps the invariant: when it drops the event, one is there.
LEMMA SendKeepsIInv ==
    ASSUME IInv, NEW n \in Notifier, Send(n)
    PROVE  IInv'
<1> DEFINE c == notifier[n].to
           e == EventOf(notifier[n].by)
<1>1. /\ TypeOK /\ EntriesAreHeld /\ NotifiersSpeakTruth /\ BuffersSpeakTruth
      /\ UnsharedEntry /\ SignalsOnTheirWay
      /\ notifier[n].phase = "send"
      /\ notifier[n] \in Sending /\ c \in Socket /\ e \in Event
      /\ socket[c] # Idle
      /\ socket[c].session \in active => Mistakable(socket[c].session, e)
  BY NotifierType
     DEF IInv, Send, NotifiersSpeakTruth, Sending, EventOf, Event
<1>2. /\ buffer' = [buffer EXCEPT ![c] = IF @ = None THEN e ELSE @]
      /\ notifier' = [notifier EXCEPT ![n] = Idle]
      /\ UNCHANGED <<active, chs, socket, late, shared, quiet, unexpired>>
  BY DEF Send
<1>3. TypeOK'
  BY <1>1, <1>2 DEF TypeOK
<1>4. /\ buffer'[c] # None
      /\ \A d \in Socket : d # c => buffer'[d] = buffer[d]
  BY <1>1, <1>2 DEF TypeOK, Event
<1>5. /\ notifier'[n] = Idle /\ Idle.phase = "idle"
      /\ \A m \in Notifier : m # n => notifier'[m] = notifier[m]
  BY <1>1, <1>2 DEF TypeOK, Idle
<1>6. notifier[n].to = c
  OBVIOUS
<1> HIDE DEF c, e
<1>7. NotifiersSpeakTruth'
  BY <1>1, <1>2, <1>5 DEF NotifiersSpeakTruth, Mistakable
<1>8. BuffersSpeakTruth'
  BY <1>1, <1>2, <1>4 DEF BuffersSpeakTruth, Mistakable
<1>9. SignalsOnTheirWay'
  <2> SUFFICES ASSUME NEW d \in Socket, Open(d), d \notin late,
                      socket[d].session \notin active \union shared \union quiet
               PROVE  OnItsWay(d)'
    BY <1>2 DEF SignalsOnTheirWay, Open, In
  <2>1. OnItsWay(d)
    BY <1>1 DEF SignalsOnTheirWay
  <2>2. CASE d = c
    BY <1>4, <2>2 DEF OnItsWay
  <2>3. CASE d # c
    BY <1>1, <1>2, <1>4, <1>5, <1>6, <2>1, <2>3 DEF OnItsWay
  <2> QED BY <2>2, <2>3
<1> QED BY <1>1, <1>2, <1>3, <1>7, <1>8, <1>9
        DEF IInv, EntriesAreHeld, UnsharedEntry, Registered, Open, In

\* An end that nobody tells this hub of keeps the invariant: it is counted.
LEMMA EndUntoldKeepsIInv ==
    ASSUME IInv, NEW s \in Session, EndUntold(s)
    PROVE  IInv'
<1>1. /\ active' = active \ {s} /\ quiet' = quiet \union {s}
      /\ UNCHANGED <<chs, buffer, socket, notifier, late, shared, unexpired>>
  BY DEF EndUntold
<1>2. TypeOK'
  BY <1>1 DEF IInv, TypeOK
<1>3. SignalsOnTheirWay'
  BY <1>1 DEF IInv, SignalsOnTheirWay, OnItsWay, Open, In
<1> QED BY <1>1, <1>2, <1>3
        DEF IInv, EntriesAreHeld, NotifiersSpeakTruth, BuffersSpeakTruth,
            Mistakable, UnsharedEntry, Registered, Open, In

-----------------------------------------------------------------------------
\* Every step of the handlers and the notifiers keeps the invariant.
LEMMA NextKeepsIInv == IInv /\ [Next]_vars => IInv'
<1> SUFFICES ASSUME IInv, [Next]_vars PROVE IInv'
  OBVIOUS
<1>1. CASE UNCHANGED vars
  BY <1>1 DEF vars, IInv, TypeOK, EntriesAreHeld, NotifiersSpeakTruth,
              BuffersSpeakTruth, Mistakable, UnsharedEntry, Registered,
              SignalsOnTheirWay, OnItsWay, Open, In
<1>2. ASSUME NEW n \in Notifier, Work(n) PROVE IInv'
  BY <1>2, StatementKeepsIInv, LookupKeepsIInv, SendKeepsIInv DEF Work
<1> QED BY <1>1, <1>2, ConnectKeepsIInv, HandlerKeepsIInv, BeginKeepsIInv,
           EndUntoldKeepsIInv DEF Next

\* The inductive invariant of the hub holds in every reachable state.
THEOREM SessionHubInvariant == Spec => []IInv
<1> QED BY InitIInv, NextKeepsIInv, PTL DEF Spec

\* The hub keeps no entry of a handler that has run its Unregister, and none
\* of another session's handler, for any number of sockets per session.
THEOREM EntriesAreHeldAlways == Spec => []EntriesAreHeld
<1>1. IInv => EntriesAreHeld
  BY DEF IInv
<1> QED BY <1>1, SessionHubInvariant, PTL

\* No page of a session still active is told that it was kicked, and none that
\* it expired unless a check of this instance failed to record that it had.
THEOREM NoSpuriousSignalEver == Spec => []NoSpuriousSignal
<1>1. IInv => NoSpuriousSignal
  BY DEF IInv, BuffersSpeakTruth, NoSpuriousSignal
<1> QED BY <1>1, SessionHubInvariant, PTL

\* A page misses the end of its session in three ways and no other: it
\* registered late, it shared the session with another socket, or nobody told
\* its hub (a logout, another instance, a statement that reported an error).
THEOREM MissedSignalsAreExplained == Spec => []MissedSignalsExplained
<1>1. IInv => MissedSignalsExplained
  <2> SUFFICES ASSUME IInv, NEW c \in Socket, Open(c),
                      socket[c].session \notin active, buffer[c] = None,
                      \A n \in Notifier :
                          \/ notifier[n] = Idle
                          \/ notifier[n].session # socket[c].session,
                      c \notin late,
                      socket[c].session \notin shared \union quiet
               PROVE  FALSE
    BY DEF MissedSignalsExplained
  <2>1. PICK n \in Notifier :
          \/ /\ notifier[n].phase = "lookup"
             /\ notifier[n].session = socket[c].session
          \/ /\ notifier[n].phase = "send"
             /\ notifier[n].to = c
    BY DEF IInv, SignalsOnTheirWay, OnItsWay
  <2>2. notifier[n] # Idle /\ notifier[n].session = socket[c].session
    BY <2>1 DEF IInv, NotifiersSpeakTruth, Idle
  <2> QED BY <2>2
<1> QED BY <1>1, SessionHubInvariant, PTL

-----------------------------------------------------------------------------
(***************************************************************************)
(* The hub keeps the promise of SessionNotice.                             *)
(***************************************************************************)
\* Until its handler registers, a page has no channel that anybody could
\* have sent to.
Unopened(c) == socket[c] = Idle \/ socket[c].phase \in {"found", "upgraded"}

NInv ==
    \A c \in Socket : Unopened(c) =>
        /\ buffer[c] = None
        /\ \A n \in Notifier : ~(notifier[n].phase = "send" /\ notifier[n].to = c)

LEMMA InitNInv == Init => NInv
BY DEF Init, NInv, Unopened, Idle

\* A handler never turns back, and a channel is found in the map only.
LEMMA NextNInv == IInv /\ NInv /\ [Next]_vars => NInv'
<1> SUFFICES ASSUME IInv, NInv, [Next]_vars PROVE NInv'
  OBVIOUS
<1>1. ASSUME NEW c \in Socket, NEW s \in Session, Connect(c, s) PROVE NInv'
  BY <1>1 DEF Connect, IInv, TypeOK, NInv, Unopened, Idle
<1>2. ASSUME NEW c \in Socket, Upgrade(c) \/ Register(c) \/ Unregister(c)
             \/ Close(c) \/ Disconnect(c)
      PROVE  NInv'
  <2>1. PICK phase \in {"upgraded", "closed", "open", "leaving", "unregistered"} :
          /\ socket' = [socket EXCEPT ![c].phase = phase]
          /\ phase = "upgraded" => socket[c].phase = "found"
          /\ UNCHANGED <<buffer, notifier>>
    BY <1>2 DEF Upgrade, Register, Unregister, Close, Disconnect, Goto, In,
                ReturnsTo
  <2>2. socket[c] # Idle
    BY <1>2 DEF Upgrade, Register, Unregister, Close, Disconnect, In, Idle
  <2>3. socket[c] \in Handler
    BY <2>2, SocketType DEF IInv
  <2>4. /\ \A d \in Socket : d # c => socket'[d] = socket[d]
        /\ socket'[c].phase = phase /\ socket'[c] # Idle
    BY <2>1, <2>3 DEF IInv, TypeOK, Handler, Idle
  <2>5. \A d \in Socket : Unopened(d)' => Unopened(d)
    BY <2>1, <2>4 DEF Unopened
  <2> QED BY <2>1, <2>5 DEF NInv
<1>3. ASSUME NEW c \in Socket, Deliver(c) PROVE NInv'
  <2>1. /\ socket' = [socket EXCEPT ![c].phase = "leaving"]
        /\ buffer' = [buffer EXCEPT ![c] = None]
        /\ UNCHANGED notifier
    BY <1>3 DEF Deliver, Return, Goto, ReturnsTo
  <2>2. socket[c] # Idle /\ socket[c] \in Handler
    BY <1>3, SocketType DEF Deliver, In, Idle, IInv
  <2>3. \A d \in Socket : Unopened(d)' => Unopened(d) /\ d # c
    BY <2>1, <2>2 DEF Unopened, IInv, TypeOK, Handler, Idle
  <2> QED BY <2>1, <2>3 DEF NInv, IInv, TypeOK
<1>4. ASSUME NEW n \in Notifier, NEW s \in Session, NEW by \in Ender,
             Begin(n, s, by)
      PROVE  NInv'
  BY <1>4 DEF Begin, StartsWith, IInv, TypeOK, NInv, Unopened
<1>5. ASSUME NEW n \in Notifier, EndSession(n) \/ EndFails(n) PROVE NInv'
  <2>1. /\ UNCHANGED <<socket, buffer>>
        /\ notifier[n] \in Working
        /\ notifier' \in {[notifier EXCEPT ![n].phase = "lookup"],
                         [notifier EXCEPT ![n] = Idle]}
    BY <1>5, NotifierType DEF EndSession, EndFails, ThenNotifies, GivesUp, IInv
  <2> QED BY <2>1 DEF IInv, TypeOK, NInv, Unopened, Working, Idle
<1>6. ASSUME NEW n \in Notifier, Lookup(n) PROVE NInv'
  <2> DEFINE q == notifier[n]
             c == chs[q.session]
             r == IF Found(c)
                  THEN [phase |-> "send", session |-> q.session,
                        by |-> q.by, to |-> c]
                  ELSE Idle
  <2>1. /\ notifier' = [notifier EXCEPT ![n] = r]
        /\ UNCHANGED <<socket, buffer>>
        /\ q.session \in Session
    BY <1>6, NotifierType DEF Lookup, IInv
  <2>2. r.phase = "send" => ~Unopened(r.to)
    BY <2>1 DEF Found, IInv, EntriesAreHeld, Unopened, Idle
  <2> HIDE DEF r
  <2>3. \A m \in Notifier : notifier'[m] = IF m = n THEN r ELSE notifier[m]
    BY <2>1 DEF IInv, TypeOK
  <2> QED BY <2>1, <2>2, <2>3 DEF NInv, Unopened
<1>7. ASSUME NEW n \in Notifier, Send(n) PROVE NInv'
  <2> DEFINE c == notifier[n].to
  <2>1. /\ UNCHANGED socket
        /\ notifier' = [notifier EXCEPT ![n] = Idle]
        /\ \A d \in Socket : d # c => buffer'[d] = buffer[d]
        /\ notifier[n].phase = "send"
    BY <1>7 DEF Send, IInv, TypeOK
  <2>2. \A d \in Socket : Unopened(d) => d # c
    BY <2>1 DEF NInv
  <2>3. \A m \in Notifier : notifier'[m] = IF m = n THEN Idle ELSE notifier[m]
    BY <2>1 DEF IInv, TypeOK
  <2> QED BY <2>1, <2>2, <2>3 DEF NInv, Unopened, Idle
<1>8. ASSUME NEW s \in Session, EndUntold(s) PROVE NInv'
  BY <1>8 DEF EndUntold, NInv, Unopened
<1>9. CASE UNCHANGED vars
  BY <1>9 DEF vars, NInv, Unopened
<1> QED BY <1>1, <1>2, <1>3, <1>4, <1>5, <1>6, <1>7, <1>8, <1>9
        DEF Next, Handle, Work

\* The stages of a page, and that a step of one moves no other.
LEMMA StageOf ==
    ASSUME NEW q \in Handler, NEW b
    PROVE  /\ Page(q, b) = [stage |-> Stage(q, b), session |-> q.session]
           /\ q.phase \in {"found", "upgraded"} => Stage(q, b) = "connecting"
           /\ q.phase = "open" /\ b = None => Stage(q, b) = "watching"
           /\ q.phase = "open" /\ b # None => Stage(q, b) = "told"
           /\ q.phase \in {"leaving", "unregistered", "closed"}
                => Stage(q, b) = "gone"
BY DEF Page, Stage, Handler, Idle

LEMMA OnePage ==
    ASSUME NEW c \in Socket,
           \A d \in Socket : d # c => socket'[d] = socket[d] /\ buffer'[d] = buffer[d]
    PROVE  PageMap' = [PageMap EXCEPT ![c] = Page(socket'[c], buffer'[c])]
BY DEF PageMap

LEMMA SamePages ==
    ASSUME \A d \in Socket : Page(socket'[d], buffer'[d]) = Page(socket[d], buffer[d])
    PROVE  PageMap' = PageMap
BY DEF PageMap

\* A handler in a stage moves to the next, as SessionNotice allows.
LEMMA PageMoves ==
    ASSUME NEW c \in Socket, NEW q \in Handler, UNCHANGED <<active, unexpired>>,
           socket[c] \in Handler, q.session = socket[c].session,
           socket'[c] = q,
           \A d \in Socket : d # c => socket'[d] = socket[d] /\ buffer'[d] = buffer[d],
           \/ /\ Stage(q, buffer'[c]) = "gone"
              /\ Stage(socket[c], buffer[c]) \in {"connecting", "watching", "told"}
           \/ /\ Stage(q, buffer'[c]) = "watching"
              /\ Stage(socket[c], buffer[c]) = "connecting"
           \/ /\ Stage(q, buffer'[c]) = "told"
              /\ Stage(socket[c], buffer[c]) = "watching"
              /\ q.session \in (Session \ active) \union unexpired
    PROVE  Notice!Next
<1> DEFINE s == q.session
<1>1. s \in Session
  BY DEF Handler
<1>2. PageMap[c] = [stage |-> Stage(socket[c], buffer[c]), session |-> s]
  BY StageOf DEF PageMap
<1>3. PageMap' = [PageMap EXCEPT ![c] =
                    [stage |-> Stage(q, buffer'[c]), session |-> s]]
  BY OnePage, StageOf
<1>4. CASE /\ Stage(q, buffer'[c]) = "gone"
           /\ Stage(socket[c], buffer[c]) \in {"connecting", "watching", "told"}
  <2>1. Notice!Leave(c, s)
    BY <1>2, <1>3, <1>4 DEF Notice!Leave, Notice!Move, Notice!At
  <2> QED BY <1>1, <2>1 DEF Notice!Next
<1>5. CASE /\ Stage(q, buffer'[c]) = "watching"
           /\ Stage(socket[c], buffer[c]) = "connecting"
  <2>1. Notice!Watch(c, s)
    BY <1>2, <1>3, <1>5 DEF Notice!Watch, Notice!Move, Notice!At
  <2> QED BY <1>1, <2>1 DEF Notice!Next
<1>6. CASE /\ Stage(q, buffer'[c]) = "told"
           /\ Stage(socket[c], buffer[c]) = "watching"
           /\ q.session \in (Session \ active) \union unexpired
  <2>1. Notice!Tell(c, s)
    BY <1>2, <1>3, <1>6 DEF Notice!Tell, Notice!Move, Notice!At
  <2> QED BY <1>1, <2>1 DEF Notice!Next
<1> QED BY <1>4, <1>5, <1>6

LEMMA InitKeepsNotice == Init => Notice!Init
<1> SUFFICES ASSUME Init PROVE Notice!Init
  OBVIOUS
<1>1. \A c \in Socket : Page(socket[c], buffer[c]) = [stage |-> "away"]
  BY DEF Init, Page
<1> QED BY <1>1 DEF Init, Notice!Init, Notice!Away, PageMap

\* Connect is Connect, Upgrade is Leave or nothing, Register is Watch,
\* Deliver and Disconnect are Leave, the rest of a handler is nothing.
LEMMA HandlersKeepNotice ==
    ASSUME IInv, NInv, NEW c \in Socket,
           Handle(c) \/ Disconnect(c) \/ \E s \in Session : Connect(c, s)
    PROVE  Notice!Next \/ UNCHANGED <<Session \ active, unexpired, PageMap>>
<1> DEFINE q == socket[c]
<1>0. socket \in [Socket -> Handler \union {Idle}]
  BY DEF IInv, TypeOK
<1>1. CASE \E s \in Session : Connect(c, s)
  <2>1. PICK s \in Session : Connect(c, s)
    BY <1>1
  <2>0. PICK phase \in {"found", "closed"} :
          /\ phase = "found" => s \in active
          /\ socket' = [socket EXCEPT ![c] = [phase |-> phase, session |-> s]]
    BY <2>1 DEF Connect
  <2> DEFINE h == [phase |-> phase, session |-> s]
             stage == IF phase = "found" THEN "connecting" ELSE "gone"
  <2>2. /\ q = Idle /\ socket' = [socket EXCEPT ![c] = h]
        /\ UNCHANGED <<active, buffer, unexpired>>
    BY <2>0, <2>1 DEF Connect
  <2>3. PageMap[c] = [stage |-> "away"]
    BY <2>2 DEF PageMap, Page
  <2>4. /\ Page(h, buffer[c]) = [stage |-> stage, session |-> s]
        /\ stage \in {"connecting", "gone"}
        /\ stage = "connecting" => s \notin Session \ active
    BY <2>0 DEF Page, Stage, Idle
  <2> HIDE DEF h, stage
  <2>5. PageMap' = [PageMap EXCEPT ![c] = Page(h, buffer[c])]
    <3>1. /\ socket'[c] = h /\ buffer'[c] = buffer[c]
          /\ \A d \in Socket : d # c =>
               socket'[d] = socket[d] /\ buffer'[d] = buffer[d]
      BY <1>0, <2>2
    <3> QED BY <3>1, OnePage
  <2>6. Notice!Connect(c, s)
    BY <2>2, <2>3, <2>4, <2>5
       DEF Notice!Connect, Notice!Move, Notice!At, Notice!Away
  <2> QED BY <2>6 DEF Notice!Next
<1>2. CASE Handle(c) \/ Disconnect(c)
  <2>1. q # Idle /\ q \in Handler
    BY <1>0, <1>2 DEF Handle, Upgrade, Register, Deliver, Unregister, Close,
                      Disconnect, In, Idle
  <2>2. PICK phase \in {"upgraded", "closed", "open", "leaving", "unregistered"} :
          /\ socket' = [socket EXCEPT ![c].phase = phase]
          /\ phase = "upgraded" => q.phase = "found"
          /\ phase = "open" => q.phase = "upgraded"
          /\ phase = "closed" => q.phase \in {"found", "unregistered"}
          /\ phase = "leaving" => q.phase = "open"
          /\ phase = "unregistered" => q.phase = "leaving"
          /\ phase # "leaving" => buffer' = buffer
    BY <1>2 DEF Handle, Upgrade, Register, Deliver, Unregister, Close,
                Disconnect, In, Goto, Return, ReturnsTo
  <2>3. UNCHANGED <<active, unexpired>> /\ \A d \in Socket : d # c => buffer'[d] = buffer[d]
    BY <1>2 DEF Handle, Upgrade, Register, Deliver, Unregister, Close,
                Disconnect, IInv, TypeOK
  <2> DEFINE h == [q EXCEPT !.phase = phase]
  <2>4. /\ h \in Handler /\ h.phase = phase /\ h.session = q.session
        /\ socket'[c] = h
        /\ \A d \in Socket : d # c => socket'[d] = socket[d]
    BY <1>0, <2>1, <2>2 DEF Handler
  <2> HIDE DEF h, q
  <2>5. \/ Stage(h, buffer'[c]) = Stage(q, buffer[c]) /\ buffer'[c] = buffer[c]
        \/ /\ Stage(h, buffer'[c]) = "gone"
           /\ Stage(q, buffer[c]) \in {"connecting", "watching", "told"}
        \/ /\ Stage(h, buffer'[c]) = "watching"
           /\ Stage(q, buffer[c]) = "connecting"
    <3>1. CASE phase = "upgraded"
      BY <2>1, <2>2, <2>4, <3>1, StageOf
    <3>2. CASE phase = "open"
      <4>1. buffer[c] = None
        BY <2>1, <2>2, <3>2 DEF NInv, Unopened, q
      <4> QED BY <2>1, <2>2, <2>4, <3>2, <4>1, StageOf
    <3>3. CASE phase = "closed"
      BY <2>1, <2>2, <2>4, <3>3, StageOf
    <3>4. CASE phase = "leaving"
      BY <2>1, <2>2, <2>4, <3>4, StageOf
    <3>5. CASE phase = "unregistered"
      BY <2>1, <2>2, <2>4, <3>5, StageOf
    <3> QED BY <3>1, <3>2, <3>3, <3>4, <3>5
  <2>6. CASE Stage(h, buffer'[c]) = Stage(q, buffer[c]) /\ buffer'[c] = buffer[c]
    <3>1. Page(h, buffer'[c]) = Page(q, buffer[c])
      BY <2>1, <2>4, <2>6, StageOf
    <3>2. PageMap' = PageMap
      BY <2>3, <2>4, <3>1, SamePages DEF q
    <3> QED BY <2>3, <3>2
  <2>7. CASE ~(Stage(h, buffer'[c]) = Stage(q, buffer[c])
               /\ buffer'[c] = buffer[c])
    BY <2>1, <2>3, <2>4, <2>5, <2>7, PageMoves DEF q
  <2> QED BY <2>6, <2>7
<1> QED BY <1>1, <1>2

\* The statement is End, Lapse or nothing, the send is Tell or nothing.
LEMMA NotifiersKeepNotice ==
    ASSUME IInv, NInv, NEW n \in Notifier,
           Work(n) \/ \E s \in Session, by \in Ender : Begin(n, s, by)
    PROVE  Notice!Next \/ UNCHANGED <<Session \ active, unexpired, PageMap>>
<1>1. CASE Lookup(n) \/ \E s \in Session, by \in Ender : Begin(n, s, by)
  BY <1>1 DEF Lookup, Begin, PageMap
<1>2. CASE EndSession(n) \/ EndFails(n)
  <2> DEFINE s == notifier[n].session
  <2>1. /\ PageMap' = PageMap /\ s \in Session
        /\ active' \in {active, active \ {s}}
        /\ unexpired' \in {unexpired, unexpired \union {s}}
        /\ active' = active \/ unexpired' = unexpired
    BY <1>2, NotifierType DEF EndSession, EndFails, PageMap, IInv
  <2>2. CASE active' = active /\ unexpired' = unexpired
    BY <2>1, <2>2
  <2>3. CASE active' = active \ {s} /\ unexpired' = unexpired
    <3>1. Notice!End(s)
      BY <2>1, <2>3 DEF Notice!End
    <3> QED BY <2>1, <3>1 DEF Notice!Next
  <2>4. CASE active' = active /\ unexpired' = unexpired \union {s}
    <3>1. Notice!Lapse(s)
      BY <2>1, <2>4 DEF Notice!Lapse
    <3> QED BY <2>1, <3>1 DEF Notice!Next
  <2> HIDE DEF s
  <2> QED BY <2>1, <2>2, <2>3, <2>4
<1>3. CASE Send(n)
  <2> DEFINE c == notifier[n].to
             q == socket[c]
  <2>1. /\ notifier[n].phase = "send" /\ c \in Socket
        /\ UNCHANGED <<active, unexpired, socket>>
        /\ buffer' = [buffer EXCEPT
              ![c] = IF @ = None THEN EventOf(notifier[n].by) ELSE @]
    BY <1>3, NotifierType DEF Send, IInv
  <2>2. /\ \A d \in Socket : d # c => buffer'[d] = buffer[d]
        /\ buffer[c] # None => buffer'[c] = buffer[c]
        /\ buffer'[c] # None
    BY <2>1, NotifierType DEF IInv, TypeOK, Sending, Event, EventOf
  <2>3. /\ q \in Handler /\ q.session \in (Session \ active) \union unexpired
        /\ q.phase \notin {"found", "upgraded"}
    BY <2>1, SocketType
       DEF IInv, NotifiersSpeakTruth, Mistakable, NInv, Unopened
  <2>4. CASE q.phase = "open" /\ buffer[c] = None
    <3>1. Stage(q, buffer'[c]) = "told" /\ Stage(q, buffer[c]) = "watching"
      BY <2>2, <2>3, <2>4, StageOf
    <3> QED BY <2>1, <2>2, <2>3, <3>1, PageMoves
  <2>5. CASE ~(q.phase = "open" /\ buffer[c] = None)
    <3>1. Stage(q, buffer'[c]) = Stage(q, buffer[c])
      BY <2>2, <2>3, <2>5 DEF Stage
    <3>2. Page(q, buffer'[c]) = Page(q, buffer[c])
      BY <3>1 DEF Page
    <3>3. PageMap' = PageMap
      BY <2>1, <2>2, <3>2, SamePages
    <3> QED BY <2>1, <3>3
  <2> QED BY <2>4, <2>5
<1> QED BY <1>1, <1>2, <1>3 DEF Work

\* Every step of the hub is one of SessionNotice, or changes none of it.
LEMMA StepKeepsNotice ==
    IInv /\ NInv /\ [Next]_vars =>
        Notice!Next \/ UNCHANGED <<Session \ active, unexpired, PageMap>>
<1> SUFFICES ASSUME IInv, NInv, [Next]_vars
             PROVE  Notice!Next \/ UNCHANGED <<Session \ active, unexpired, PageMap>>
  OBVIOUS
<1>1. ASSUME NEW s \in Session, EndUntold(s)
      PROVE  Notice!Next
  <2>1. Notice!End(s)
    BY <1>1 DEF EndUntold, Notice!End, PageMap
  <2> QED BY <2>1 DEF Notice!Next
<1>2. CASE UNCHANGED vars
  BY <1>2 DEF vars, PageMap
<1> QED BY <1>1, <1>2, HandlersKeepNotice, NotifiersKeepNotice DEF Next

\* The hub implements SessionNotice, for any number of pages per session and
\* every order of Register, Unregister, notify and the database updates.
THEOREM HubKeepsNotice == Spec => KeepsNotice
<1>1. IInv /\ NInv /\ [Next]_vars => [Notice!Next]_<<Session \ active, unexpired, PageMap>>
  BY StepKeepsNotice
<1> QED BY <1>1, InitNInv, NextNInv, InitKeepsNotice, SessionHubInvariant, PTL
        DEF Spec, KeepsNotice, Notice!Spec, Notice!vars
=============================================================================
