------------------------------- MODULE Sessions -------------------------------
(***************************************************************************)
(* Login sessions: internal/biz/session.go and internal/data/session.go,   *)
(* with the callers that drive them (the login and logout handlers of      *)
(* internal/service/service.go, authMiddleware of internal/server/auth.go, *)
(* the kick handler, and the two cron jobs).                               *)
(*                                                                         *)
(* A login signs a JWT that names the user and the second it was issued    *)
(* and nothing else, so that is what a token is here.  Its session is a    *)
(* row found by the hash of the token.  Every database statement is a step *)
(* of its own; what was read in one statement is used in a later one.      *)
(*                                                                         *)
(* Abstractions: time is a small counter (its unit stands for the second   *)
(* of the iat claim and for the idle and retention periods alike); address *)
(* and browser are left out; the row id is the token, since a token has at *)
(* most one row.  The hub the notifications go to is in SessionHub.        *)
(***************************************************************************)
EXTENDS Integers, FiniteSets

CONSTANTS
    User,          \* users who log in
    Client,        \* concurrent requests: logins and authenticated calls
    Admin,         \* concurrent KickSession handlers
    Sweeper,       \* concurrent runs of the idle job (several instances)
    IdleTimeout,   \* sessionIdleTimeout
    Retention,     \* session_log_retention_days
    HandlerTime,   \* the longest a handler or job may stay in flight
    DBFaults,      \* TRUE iff a statement may fail
    LastLogin,     \* bound: no login is signed later than this
    MaxLogins,     \* bound on the number of successful logins
    MaxTime        \* bound on the clock

ASSUME TimingAssumption ==
    /\ IdleTimeout \in Nat
    /\ Retention \in Nat
    /\ HandlerTime \in Nat
    /\ HandlerTime <= Retention
ASSUME BoundsAssumption ==
    /\ MaxLogins \in Nat
    /\ MaxTime \in Nat
    /\ LastLogin \in 0 .. MaxTime
ASSUME FaultsAssumption == DBFaults \in BOOLEAN

VARIABLES
    now,        \* the clock
    rows,       \* auth_user_sessions
    request,    \* the request each client has in flight
    kick,       \* the kick each administrator has in flight
    sweep,      \* the idle job each sweeper has in flight
    issued,     \* tokens some login has returned
    logins,     \* history: successful logins
    opened,     \* history: tokens that ever had a row
    loggedOut,  \* history: tokens whose logout was carried out
    lastUse,    \* history: when a request last passed CheckSession
    idleSeen    \* history: tokens whose live session once went unused for
                \* longer than IdleTimeout less the time statements may take

vars == <<now, rows, request, kick, sweep, issued, logins, opened,
          loggedOut, lastUse, idleSeen>>

(***************************************************************************)
(* Types                                                                   *)
(***************************************************************************)
Time == 0 .. MaxTime
Token == User \X (0 .. LastLogin)     \* signToken: user_id and iat

NoRow == [status |-> "none"]
\* endedAt: history, when the row was last seen to leave "active".
Row == [status : {"active", "kicked", "expired"}, kickedBy : BOOLEAN,
        loginAt : Time, lastAccess : Time, endedAt : Time]

Idle == [phase |-> "idle"]

\* dead: the session was already terminated when the request arrived.
\* blind: the query for its session failed although there was a row.
\* stamp: the time a statement in flight is about to write.
Request ==
    [phase : {"signed", "arrived", "expire", "touch", "logout", "served"},
     token : Token, at : Time, logout : BOOLEAN, dead : BOOLEAN,
     blind : BOOLEAN, stamp : Time]
Kick == [phase : {"update"}, token : Token, at : Time]
Sweep == [phase : {"update"}, ids : SUBSET Token, at : Time]

TypeOK ==
    /\ now \in Time
    /\ rows \in [Token -> Row \union {NoRow}]
    /\ request \in [Client -> Request \union {Idle}]
    /\ kick \in [Admin -> Kick \union {Idle}]
    /\ sweep \in [Sweeper -> Sweep \union {Idle}]
    /\ issued \in SUBSET Token
    /\ logins \in 0 .. MaxLogins
    /\ opened \in SUBSET Token
    /\ loggedOut \in SUBSET Token
    /\ lastUse \in [Token -> Time]
    /\ idleSeen \in SUBSET Token

HasRow(t) == rows[t] # NoRow
Active(t) == rows[t].status = "active"
Terminated(t) == rows[t].status \in {"kicked", "expired"}

Init ==
    /\ now = 0
    /\ rows = [t \in Token |-> NoRow]
    /\ request = [c \in Client |-> Idle]
    /\ kick = [a \in Admin |-> Idle]
    /\ sweep = [s \in Sweeper |-> Idle]
    /\ issued = {}
    /\ logins = 0
    /\ opened = {}
    /\ loggedOut = {}
    /\ lastUse = [t \in Token |-> 0]
    /\ idleSeen = {}

-----------------------------------------------------------------------------
(***************************************************************************)
(* The statements on auth_user_sessions: the table after each.             *)
(***************************************************************************)
\* When the session of a row that is not active any more ended.
EndedAt(t) == IF Active(t) THEN now ELSE rows[t].endedAt

\* UPDATE ... WHERE id IN ids: rows that are gone are not touched.
WithStatus(ids, status) ==
    [t \in Token |-> IF t \in ids /\ HasRow(t)
                     THEN [rows[t] EXCEPT !.status = status, !.endedAt = EndedAt(t)]
                     ELSE rows[t]]

\* ExpireSession: only an active row changes.
Expired(t, stamp) ==
    IF Active(t)
    THEN [rows EXCEPT ![t] = [@ EXCEPT !.status = "expired",
                                       !.lastAccess = stamp, !.endedAt = now]]
    ELSE rows

\* Mutant: the update of last_access_at writes the whole row back.
TouchedActive(t, stamp) ==
    IF HasRow(t)
    THEN [rows EXCEPT ![t].status = "active", ![t].lastAccess = stamp]
    ELSE rows

\* UpdateSessionLastAccess: whatever the status.
Touched(t, stamp) ==
    IF HasRow(t) THEN [rows EXCEPT ![t].lastAccess = stamp] ELSE rows

\* The second statement of KickSession does not look at the status again.
Kicked(t) ==
    IF HasRow(t)
    THEN [rows EXCEPT ![t] = [@ EXCEPT !.status = "kicked", !.kickedBy = TRUE,
                                       !.endedAt = EndedAt(t)]]
    ELSE rows

\* DeleteSessionsBefore looks at the login time only.
Purged(t) == HasRow(t) /\ now - rows[t].loginAt > Retention

WithoutPurged == [t \in Token |-> IF Purged(t) THEN NoRow ELSE rows[t]]

\* Mutant: idleness counted from the login.
OverdueSinceLogin(t) == now - rows[t].loginAt > IdleTimeout

\* Idle for longer than the timeout, in CheckSession and in the idle job.
Overdue(t) == now - rows[t].lastAccess > IdleTimeout

-----------------------------------------------------------------------------
(***************************************************************************)
(* Login and VerifyTOTPLogin: sign the token, then create its row; the     *)
(* error of CreateSession (a token_hash that exists already, a failing     *)
(* statement) is dropped and the token returned all the same.              *)
(***************************************************************************)
InFlight(t, phase, logout, dead, stamp) ==
    [phase |-> phase, token |-> t, at |-> now, logout |-> logout,
     dead |-> dead, blind |-> FALSE, stamp |-> stamp]

\* Mutant: a login takes over the row of a terminated session.
MayInsertOver(t) == ~Active(t)

\* token_hash is unique.
MayInsert(t) == ~HasRow(t)

Login(c, u) ==
    /\ request[c] = Idle
    /\ now <= LastLogin
    /\ logins < MaxLogins
    /\ request' = [request EXCEPT
          ![c] = InFlight(<<u, now>>, "signed", FALSE, FALSE, now)]
    /\ UNCHANGED <<now, rows, kick, sweep, issued, logins, opened, loggedOut,
                   lastUse, idleSeen>>

Insert(t) ==
    /\ rows' = [rows EXCEPT ![t] = [status |-> "active", kickedBy |-> FALSE,
                                    loginAt |-> now, lastAccess |-> now,
                                    endedAt |-> now]]
    /\ opened' = opened \union {t}
    /\ lastUse' = [lastUse EXCEPT ![t] = now]

CreateSession(c) ==
    /\ request[c].phase = "signed"
    /\ logins < MaxLogins
    /\ LET t == request[c].token
       IN  /\ \/ /\ MayInsert(t)
                 /\ Insert(t)
              \/ /\ ~MayInsert(t) \/ DBFaults
                 /\ UNCHANGED <<rows, opened, lastUse>>
           /\ issued' = issued \union {t}
    /\ logins' = logins + 1
    /\ request' = [request EXCEPT ![c] = Idle]
    /\ UNCHANGED <<now, kick, sweep, loggedOut, idleSeen>>

-----------------------------------------------------------------------------
(***************************************************************************)
(* An authenticated call: authMiddleware runs CheckSession, then the       *)
(* handler; the handler of a logout expires the session.                   *)
(***************************************************************************)
Arrive(c, t, logout) ==
    /\ request[c] = Idle
    /\ t \in issued
    /\ request' = [request EXCEPT
          ![c] = InFlight(t, "arrived", logout, Terminated(t), now)]
    /\ UNCHANGED <<now, rows, kick, sweep, issued, logins, opened, loggedOut,
                   lastUse, idleSeen>>

\* The phase a request enters once CheckSession has returned nil.
AfterCheck(q) == IF q.logout THEN "logout" ELSE "served"

Goto(c, phase) ==
    request' = [request EXCEPT ![c].phase = phase, ![c].stamp = now]

\* CheckSession lets a request through when it finds no row, or when the
\* query fails.
FindNothing(c) ==
    /\ request[c].phase = "arrived"
    /\ ~HasRow(request[c].token) \/ DBFaults
    /\ request' = [request EXCEPT ![c] =
          [request[c] EXCEPT !.phase = AfterCheck(request[c]), !.stamp = now,
                             !.blind = HasRow(request[c].token)]]
    /\ UNCHANGED <<now, rows, kick, sweep, issued, logins, opened, loggedOut,
                   lastUse, idleSeen>>

\* A session that is not active is refused.
FindTerminated(c) ==
    /\ request[c].phase = "arrived"
    /\ Terminated(request[c].token)
    /\ request' = [request EXCEPT ![c] = Idle]
    /\ UNCHANGED <<now, rows, kick, sweep, issued, logins, opened, loggedOut,
                   lastUse, idleSeen>>

\* An overdue one is about to be expired, any other one to be touched.
FindActive(c) ==
    /\ request[c].phase = "arrived"
    /\ Active(request[c].token)
    /\ LET t == request[c].token
       IN  IF Overdue(t)
           THEN Goto(c, "expire") /\ UNCHANGED lastUse
           ELSE Goto(c, "touch") /\ lastUse' = [lastUse EXCEPT ![t] = now]
    /\ UNCHANGED <<now, rows, kick, sweep, issued, logins, opened, loggedOut,
                   idleSeen>>

\* ... and the request refused.
ExpireIdle(c) ==
    /\ request[c].phase = "expire"
    /\ \/ rows' = Expired(request[c].token, request[c].stamp)
       \/ DBFaults /\ UNCHANGED rows
    /\ request' = [request EXCEPT ![c] = Idle]
    /\ UNCHANGED <<now, kick, sweep, issued, logins, opened, loggedOut,
                   lastUse, idleSeen>>

UpdateLastAccess(c) ==
    /\ request[c].phase = "touch"
    /\ \/ rows' = Touched(request[c].token, request[c].stamp)
       \/ DBFaults /\ UNCHANGED rows
    /\ Goto(c, AfterCheck(request[c]))
    /\ UNCHANGED <<now, kick, sweep, issued, logins, opened, loggedOut,
                   lastUse, idleSeen>>

Logout(c) ==
    /\ request[c].phase = "logout"
    /\ \/ /\ rows' = Expired(request[c].token, now)
          /\ loggedOut' = loggedOut \union {request[c].token}
       \/ DBFaults /\ UNCHANGED <<rows, loggedOut>>
    /\ request' = [request EXCEPT ![c] = Idle]
    /\ UNCHANGED <<now, kick, sweep, issued, logins, opened, lastUse, idleSeen>>

Reply(c) ==
    /\ request[c].phase = "served"
    /\ request' = [request EXCEPT ![c] = Idle]
    /\ UNCHANGED <<now, rows, kick, sweep, issued, logins, opened, loggedOut,
                   lastUse, idleSeen>>

-----------------------------------------------------------------------------
(***************************************************************************)
(* KickSession: read the row, refuse unless it is active, then update it.  *)
(***************************************************************************)
KickSession(a, t) ==
    /\ kick[a] = Idle
    /\ Active(t)
    /\ kick' = [kick EXCEPT ![a] = [phase |-> "update", token |-> t, at |-> now]]
    /\ UNCHANGED <<now, rows, request, sweep, issued, logins, opened, loggedOut,
                   lastUse, idleSeen>>

KickUpdate(a) ==
    /\ kick[a].phase = "update"
    /\ \/ rows' = Kicked(kick[a].token)
       \/ DBFaults /\ UNCHANGED rows
    /\ kick' = [kick EXCEPT ![a] = Idle]
    /\ UNCHANGED <<now, request, sweep, issued, logins, opened, loggedOut,
                   lastUse, idleSeen>>

-----------------------------------------------------------------------------
(***************************************************************************)
(* The cron jobs.  ExpireInactiveSessions selects the ids of the overdue   *)
(* sessions and then updates them by id; a run that selects nothing ends.  *)
(***************************************************************************)
\* Mutant: the job selects by the time of the last use only.
OverdueRows == {t \in Token : HasRow(t) /\ Overdue(t)}

\* Mutant: the job uses the retention period as its cutoff.
OverdueForRetention == {t \in Token : Active(t) /\ now - rows[t].lastAccess > Retention}

OverdueSessions == {t \in Token : Active(t) /\ Overdue(t)}

SweepSelect(s) ==
    /\ sweep[s] = Idle
    /\ OverdueSessions # {}
    /\ sweep' = [sweep EXCEPT
          ![s] = [phase |-> "update", ids |-> OverdueSessions, at |-> now]]
    /\ UNCHANGED <<now, rows, request, kick, issued, logins, opened, loggedOut,
                   lastUse, idleSeen>>

SweepUpdate(s) ==
    /\ sweep[s].phase = "update"
    /\ \/ rows' = WithStatus(sweep[s].ids, "expired")
       \/ DBFaults /\ UNCHANGED rows
    /\ sweep' = [sweep EXCEPT ![s] = Idle]
    /\ UNCHANGED <<now, request, kick, issued, logins, opened, loggedOut,
                   lastUse, idleSeen>>

\* DeleteSessionsBefore, the daily job: one statement.
DeleteSessionsBefore ==
    /\ \E t \in Token : Purged(t)
    /\ rows' = WithoutPurged
    /\ UNCHANGED <<now, request, kick, sweep, issued, logins, opened, loggedOut,
                   lastUse, idleSeen>>

-----------------------------------------------------------------------------
(***************************************************************************)
(* The clock.  It does not pass the point where a handler or a job would   *)
(* have been in flight for longer than HandlerTime.                        *)
(***************************************************************************)
Prompt(process) ==
    \A p \in DOMAIN process :
        process[p] # Idle => now - process[p].at < HandlerTime

\* Slack: a touch in flight hides the latest use for up to HandlerTime, and
\* a late touch may put back the time of an earlier one.
NearlyIdle(t, time) == time - lastUse[t] > IdleTimeout - 2 * HandlerTime

Tick ==
    /\ now < MaxTime
    /\ Prompt(request) /\ Prompt(kick) /\ Prompt(sweep)
    /\ now' = now + 1
    /\ idleSeen' = idleSeen \union
                     {t \in Token : Active(t) /\ NearlyIdle(t, now + 1)}
    /\ UNCHANGED <<rows, request, kick, sweep, issued, logins, opened,
                   loggedOut, lastUse>>

Serve(c) ==
    \/ CreateSession(c) \/ FindNothing(c) \/ FindTerminated(c) \/ FindActive(c)
    \/ ExpireIdle(c) \/ UpdateLastAccess(c) \/ Logout(c) \/ Reply(c)

Next ==
    \/ \E c \in Client :
          \/ \E u \in User : Login(c, u)
          \/ \E t \in Token, logout \in BOOLEAN : Arrive(c, t, logout)
          \/ Serve(c)
    \/ \E a \in Admin : KickUpdate(a) \/ \E t \in Token : KickSession(a, t)
    \/ \E s \in Sweeper : SweepSelect(s) \/ SweepUpdate(s)
    \/ DeleteSessionsBefore
    \/ Tick

Spec == Init /\ [][Next]_vars

\* The idle job of one instance runs again and again, and finishes.
FairSpec ==
    /\ Spec
    /\ \A s \in Sweeper : WF_vars(SweepSelect(s)) /\ WF_vars(SweepUpdate(s))

-----------------------------------------------------------------------------
(***************************************************************************)
(* Properties                                                              *)
(***************************************************************************)
\* Where the record of a token stands in the abstract specification.
Life(t) ==
    IF HasRow(t)
    THEN IF Active(t) THEN "live" ELSE "ended"
    ELSE IF t \in opened THEN "purged" ELSE "none"

LifeMap == [t \in Token |-> Life(t)]

Lifecycle == INSTANCE SessionLifecycle WITH life <- LifeMap

\* The statements of concurrent requests, kicks and jobs never bring a
\* terminated session back, end it twice or open it again (CheckSession,
\* KickSession, ExpireInactiveSessions, CreateSession).
KeepsLifecycle == Lifecycle!Spec

\* A request that arrives after its session was terminated is served only
\* once the record is purged, or if its own query for the session failed: no
\* touch, kick, job, failing update or second login with the same token undoes
\* a termination (CheckSession).
TerminationSticks ==
    \A c \in Client :
        /\ request[c].phase \in {"touch", "logout", "served"}
        /\ request[c].dead
        => ~HasRow(request[c].token) \/ request[c].blind

\* How a session ended is settled once nothing that began before its end can
\* be in flight any more: only until then may a kick be overwritten by an
\* expiry, or an expiry by a kick (KickSession, ExpireInactiveSessions).
EndsSettle ==
    [][\A t \in Token :
         Terminated(t) /\ Terminated(t)' /\ rows'[t].status # rows[t].status
           => now - rows[t].endedAt <= HandlerTime]_vars

\* A session nobody logged out is expired only if it had really been unused
\* for longer than the timeout, up to the time statements take, at some
\* moment: calls made in time keep a session, however their statements and
\* the idle job's interleave.
NoEarlyExpiry ==
    \A t \in Token : rows[t].status = "expired" /\ ~rows[t].kickedBy
                        => t \in idleSeen \union loggedOut

\* A session that is overdue does not stay active: the idle job gets to it
\* even if no request ever does.
OverdueSessionsEnd ==
    \A t \in Token : (Active(t) /\ Overdue(t)) ~> ~(Active(t) /\ Overdue(t))

\* "A kicked session immediately returns 401": README.md, line 523.
KickedIsRefused ==
    \A c \in Client : request[c].phase = "served" => ~request[c].dead

(***************************************************************************)
(* The inductive invariant                                                 *)
(***************************************************************************)
\* Nothing stays in flight for longer than HandlerTime.
Punctual(process) ==
    \A p \in DOMAIN process : process[p] # Idle =>
        process[p].at <= now /\ now - process[p].at <= HandlerTime

\* A row was inserted after its token was signed, and a token whose row is
\* gone was signed longer ago than the retention period: so no login that is
\* still in flight can open it again.
RowsByAge ==
    \A t \in Token :
        /\ HasRow(t) => t \in opened /\ t[2] <= rows[t].loginAt
        /\ t \in opened /\ ~HasRow(t) => now - t[2] > Retention

SignedNow ==
    \A c \in Client :
        request[c].phase = "signed" => request[c].token[2] = request[c].at

\* The session of a request that arrived after its end is still ended, or
\* purged.
DeadStayDead ==
    \A c \in Client :
        (request[c] # Idle /\ request[c].dead) =>
            /\ request[c].phase # "signed"
            /\ request[c].token \in opened
            /\ ~Active(request[c].token)

\* What the statements of CreateSession, CheckSession, KickSession and the
\* jobs leave behind in every order: records are opened once and stay ended.
IInv ==
    /\ TypeOK
    /\ Punctual(request) /\ Punctual(kick) /\ Punctual(sweep)
    /\ RowsByAge
    /\ SignedNow
    /\ DeadStayDead
    /\ TerminationSticks
=============================================================================
