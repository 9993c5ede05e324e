---------------------------- MODULE SessionsProofs ----------------------------
(***************************************************************************)
(* Theorems about Sessions, for every number of users, requests,           *)
(* administrators and sweepers, and every choice of the periods and bounds *)
(* that satisfies TimingAssumption and BoundsAssumption.                   *)
(*                                                                         *)
(* The argument: a statement changes rows in one of four ways (a row is    *)
(* inserted, updated without becoming active, ended, or purged).  The only *)
(* step that could undo an end is an insert, and RowsByAge with Punctual   *)
(* says that a login still in flight is too young for its token to have    *)
(* been purged already.                                                    *)
(***************************************************************************)
EXTENDS Sessions, TLAPS

USE TimingAssumption, BoundsAssumption, FaultsAssumption

\* A row is active, terminated or absent.
LEMMA RowStatus ==
    ASSUME TypeOK, NEW t \in Token
    PROVE  /\ HasRow(t) <=> rows[t] \in Row
           /\ HasRow(t) <=> Active(t) \/ Terminated(t)
           /\ ~(Active(t) /\ Terminated(t))
BY DEF TypeOK, HasRow, Active, Terminated, Row, NoRow

-----------------------------------------------------------------------------
(***************************************************************************)
(* The table after each statement.                                         *)
(***************************************************************************)
\* How a statement other than an insert or a purge may change the row of a
\* token: not at all, or to a row with the same login time that is not newly
\* active and, if it is not active, ended when it did or ends now.
MayBecome(old, new) ==
    \/ new = old
    \/ /\ old \in Row /\ new \in Row
       /\ new.loginAt = old.loginAt
       /\ new.status = "active" => old.status = "active"
       /\ new.status # "active" =>
            new.endedAt = IF old.status = "active" THEN now ELSE old.endedAt

NoInsert ==
    \A t \in Token : MayBecome(rows[t], rows'[t])

\* What ExpireSession leaves in the table: no row appears or disappears, and
\* none becomes active.
LEMMA ExpiredRow ==
    ASSUME TypeOK, NEW t \in Token, NEW stamp \in Time,
           rows' = Expired(t, stamp)
    PROVE  rows' \in [Token -> Row \union {NoRow}] /\ NoInsert
<1>1. Active(t) => rows[t] \in Row
  BY RowStatus
<1>2. now \in Time
  BY DEF TypeOK
<1> QED BY <1>1, <1>2 DEF TypeOK, Expired, Active, NoInsert, MayBecome, Row

\* What UpdateSessionLastAccess leaves in the table: only a time changes.
LEMMA TouchedRow ==
    ASSUME TypeOK, NEW t \in Token, NEW stamp \in Time,
           rows' = Touched(t, stamp)
    PROVE  rows' \in [Token -> Row \union {NoRow}] /\ NoInsert
<1>1. HasRow(t) => rows[t] \in Row
  BY RowStatus
<1> QED BY <1>1 DEF TypeOK, Touched, NoInsert, MayBecome, Row

\* What the update of KickSession leaves in the table.
LEMMA KickedRow ==
    ASSUME TypeOK, NEW t \in Token, rows' = Kicked(t)
    PROVE  rows' \in [Token -> Row \union {NoRow}] /\ NoInsert
<1>1. HasRow(t) => rows[t] \in Row
  BY RowStatus
<1>2. HasRow(t) => EndedAt(t) \in Time
  BY <1>1 DEF TypeOK, EndedAt, Row
<1> QED BY <1>1, <1>2 DEF TypeOK, Kicked, NoInsert, MayBecome, Row, EndedAt, Active

\* What the update of the idle job leaves in the table.
LEMMA SweptRows ==
    ASSUME TypeOK, NEW ids \in SUBSET Token, rows' = WithStatus(ids, "expired")
    PROVE  rows' \in [Token -> Row \union {NoRow}] /\ NoInsert
<1>1. ASSUME NEW t \in Token
      PROVE  rows'[t] \in Row \union {NoRow} /\ MayBecome(rows[t], rows'[t])
  <2>1. rows'[t] = IF t \in ids /\ HasRow(t)
                   THEN [rows[t] EXCEPT !.status = "expired", !.endedAt = EndedAt(t)]
                   ELSE rows[t]
    BY DEF WithStatus
  <2>2. CASE t \in ids /\ HasRow(t)
    <3>1. rows[t] \in Row
      BY <2>2, RowStatus
    <3>2. EndedAt(t) \in Time
          /\ EndedAt(t) = IF rows[t].status = "active" THEN now ELSE rows[t].endedAt
      BY <3>1 DEF TypeOK, EndedAt, Row, Active
    <3> QED BY <2>1, <2>2, <3>1, <3>2 DEF MayBecome, Row
  <2>3. CASE ~(t \in ids /\ HasRow(t))
    BY <2>1, <2>3 DEF MayBecome, TypeOK
  <2> QED BY <2>2, <2>3
<1>2. rows' = [t \in Token |-> rows'[t]]
  BY DEF WithStatus
<1> QED BY <1>1, <1>2 DEF NoInsert

-----------------------------------------------------------------------------
(***************************************************************************)
(* The parts of the invariant, over the values they depend on.             *)
(***************************************************************************)
ByAge(R, O, n) ==
    \A t \in Token :
        /\ R[t] # NoRow => t \in O /\ t[2] <= R[t].loginAt
        /\ t \in O /\ R[t] = NoRow => n - t[2] > Retention

Good(q, R, O, n) ==
    q # Idle =>
        /\ q.at <= n /\ n - q.at <= HandlerTime
        /\ q.phase = "signed" => q.token[2] = q.at
        /\ q.dead => /\ q.phase # "signed"
                     /\ q.token \in O
                     /\ R[q.token].status # "active"
        /\ (q.dead /\ q.phase \in {"touch", "logout", "served"})
              => R[q.token] = NoRow \/ q.blind

AllGood == \A c \in Client : Good(request[c], rows, opened, now)

\* The invariant splits into its parts before a step ...
LEMMA IInvParts ==
    TypeOK => (IInv <=> /\ Punctual(kick) /\ Punctual(sweep)
                        /\ ByAge(rows, opened, now)
                        /\ AllGood)
<1> SUFFICES ASSUME TypeOK
             PROVE  IInv <=> /\ Punctual(kick) /\ Punctual(sweep)
                             /\ ByAge(rows, opened, now)
                             /\ AllGood
  OBVIOUS
<1>1. RowsByAge <=> ByAge(rows, opened, now)
  BY DEF RowsByAge, ByAge, HasRow
<1>2. Punctual(request) /\ SignedNow /\ DeadStayDead
        /\ TerminationSticks <=> AllGood
  <2>1. \A c \in Client : request[c] = Idle \/ request[c] \in Request
    BY DEF TypeOK
  <2>2. DOMAIN request = Client
    BY DEF TypeOK
  <2>3. Idle \notin Request /\ Idle.phase = "idle"
    BY DEF Idle, Request
  <2> QED BY <2>1, <2>2, <2>3
          DEF AllGood, Good, Punctual, SignedNow, DeadStayDead,
              TerminationSticks, HasRow, Active
<1> QED BY <1>1, <1>2 DEF IInv

\* ... and is put together from them after it.
LEMMA IInvPartsNext ==
    (TypeOK => (IInv <=> /\ Punctual(kick) /\ Punctual(sweep)
                         /\ ByAge(rows, opened, now)
                         /\ AllGood))'
BY IInvParts, PTL

\* A statement other than an insert keeps what is known of rows and of a
\* request.
LEMMA NoInsertKeepsByAge ==
    ASSUME TypeOK, NoInsert, ByAge(rows, opened, now)
    PROVE  ByAge(rows', opened, now)
<1> QED BY DEF TypeOK, NoInsert, MayBecome, ByAge, Row, NoRow

\* A statement that inserts nothing and revives nothing keeps the promise
\* made to a request whose session had ended.
LEMMA NoInsertKeepsGood ==
    ASSUME TypeOK, NoInsert, NEW q \in Request \union {Idle},
           Good(q, rows, opened, now)
    PROVE  Good(q, rows', opened, now)
<1>1. SUFFICES ASSUME q # Idle PROVE Good(q, rows', opened, now)
  BY DEF Good
<1>2. q.token \in Token
  BY <1>1 DEF Request
<1>3. MayBecome(rows[q.token], rows'[q.token])
  BY <1>2 DEF NoInsert
<1>4. rows[q.token] = NoRow => rows'[q.token] = NoRow
  BY <1>3 DEF MayBecome, Row, NoRow
<1>5. rows[q.token].status # "active" => rows'[q.token].status # "active"
  BY <1>3 DEF MayBecome
<1> QED BY <1>1, <1>4, <1>5 DEF Good

\* One request moves on, and the table changes otherwise than by an insert.
LEMMA OneRequestKeepsIInv ==
    ASSUME IInv, TypeOK', NoInsert,
           NEW c \in Client, NEW q \in Request \union {Idle},
           request' = [request EXCEPT ![c] = q],
           Good(q, rows, opened, now),
           UNCHANGED <<now, kick, sweep, opened>>
    PROVE  IInv'
<1>1. /\ TypeOK /\ Punctual(kick) /\ Punctual(sweep)
      /\ ByAge(rows, opened, now) /\ AllGood
  BY IInvParts DEF IInv
<1>2. Punctual(kick)' /\ Punctual(sweep)'
  BY <1>1 DEF Punctual
<1>3. ByAge(rows, opened, now)'
  BY <1>1, NoInsertKeepsByAge DEF ByAge
<1>4. ASSUME NEW d \in Client
      PROVE  Good(request'[d], rows', opened, now)
  <2>1. Good(request'[d], rows, opened, now)
        /\ request'[d] \in Request \union {Idle}
    BY <1>1 DEF AllGood, TypeOK
  <2> QED BY <1>1, <2>1, NoInsertKeepsGood
<1>5. AllGood'
  BY <1>4 DEF AllGood, Good
<1> QED BY <1>2, <1>3, <1>5, IInvPartsNext

\* A kick or an idle job moves on.
LEMMA JobKeepsIInv ==
    ASSUME IInv, TypeOK', NoInsert, Punctual(kick)', Punctual(sweep)',
           UNCHANGED <<now, request, opened>>
    PROVE  IInv'
<1>1. TypeOK /\ ByAge(rows, opened, now) /\ AllGood
  BY IInvParts DEF IInv
<1>2. ByAge(rows, opened, now)'
  BY <1>1, NoInsertKeepsByAge DEF ByAge
<1>3. ASSUME NEW d \in Client
      PROVE  Good(request[d], rows', opened, now)
  <2>1. Good(request[d], rows, opened, now)
        /\ request[d] \in Request \union {Idle}
    BY <1>1 DEF AllGood, TypeOK
  <2> QED BY <1>1, <2>1, NoInsertKeepsGood
<1>4. AllGood'
  BY <1>3 DEF AllGood, Good
<1> QED BY <1>2, <1>4, IInvPartsNext

-----------------------------------------------------------------------------
(***************************************************************************)
(* Each action preserves the invariant.                                    *)
(***************************************************************************)
LEMMA InitIInv == Init => IInv
<1> SUFFICES ASSUME Init PROVE IInv
  OBVIOUS
<1>1. TypeOK
  BY DEF Init, TypeOK, Time
<1>2. ByAge(rows, opened, now) /\ AllGood
  BY DEF Init, ByAge, AllGood, Good
<1>3. Punctual(kick) /\ Punctual(sweep)
  BY DEF Init, Punctual
<1> QED BY <1>1, <1>2, <1>3, IInvParts

\* A step that leaves the table alone is no insert.
LEMMA SameRows == rows' = rows => NoInsert
BY DEF NoInsert, MayBecome

\* What a request in flight satisfies, by name.
LEMMA RequestFacts ==
    ASSUME IInv, NEW c \in Client, request[c] # Idle
    PROVE  /\ request[c] \in Request /\ request[c].token \in Token
           /\ request[c].stamp \in Time
           /\ Good(request[c], rows, opened, now)
<1>1. TypeOK /\ AllGood
  BY IInvParts DEF IInv
<1> QED BY <1>1 DEF TypeOK, AllGood, Request

\* Signing a token keeps the invariant: it is signed at the present second.
LEMMA LoginKeepsIInv ==
    ASSUME IInv, NEW c \in Client, NEW u \in User, Login(c, u)
    PROVE  IInv'
<1> DEFINE q == InFlight(<<u, now>>, "signed", FALSE, FALSE, now)
<1>1. TypeOK /\ now \in Time /\ now <= LastLogin
  BY DEF IInv, TypeOK, Login
<1>2. q \in Request
  BY <1>1 DEF Request, InFlight, Token, Time
<1>3. Good(q, rows, opened, now)
  BY <1>1 DEF Good, InFlight, Time
<1>4. /\ request' = [request EXCEPT ![c] = q]
      /\ UNCHANGED <<now, rows, kick, sweep, issued, logins, opened,
                     loggedOut, lastUse, idleSeen>>
  BY DEF Login
<1> HIDE DEF q
<1>5. TypeOK'
  BY <1>1, <1>2, <1>4 DEF TypeOK
<1> QED BY <1>2, <1>3, <1>4, <1>5, SameRows, OneRequestKeepsIInv

\* An arriving request keeps the invariant: it notes whether its session
\* had ended.
LEMMA ArriveKeepsIInv ==
    ASSUME IInv, NEW c \in Client, NEW t \in Token, NEW logout \in BOOLEAN,
           Arrive(c, t, logout)
    PROVE  IInv'
<1> DEFINE q == InFlight(t, "arrived", logout, Terminated(t), now)
<1>1. TypeOK /\ now \in Time /\ ByAge(rows, opened, now)
  BY IInvParts DEF IInv, TypeOK
<1>2. Terminated(t) \in BOOLEAN
  BY DEF Terminated
<1>3. q \in Request
  BY <1>1, <1>2 DEF Request, InFlight
<1>4. Terminated(t) => t \in opened /\ ~Active(t)
  BY <1>1, RowStatus DEF ByAge, HasRow
<1>5. Good(q, rows, opened, now)
  BY <1>1, <1>4 DEF Good, InFlight, Time, Active
<1>6. /\ request' = [request EXCEPT ![c] = q]
      /\ UNCHANGED <<now, rows, kick, sweep, issued, logins, opened,
                     loggedOut, lastUse, idleSeen>>
  BY DEF Arrive
<1> HIDE DEF q
<1>7. TypeOK'
  BY <1>1, <1>3, <1>6 DEF TypeOK
<1> QED BY <1>3, <1>5, <1>6, <1>7, SameRows, OneRequestKeepsIInv

\* A request in flight goes on to another phase of its handler.
LEMMA GotoKeepsIInv ==
    ASSUME IInv, NEW c \in Client, request[c] # Idle,
           NEW phase \in {"expire", "touch", "logout", "served"},
           Goto(c, phase), NoInsert,
           rows' \in [Token -> Row \union {NoRow}],
           lastUse' \in [Token -> Time],
           request[c].dead => rows[request[c].token] = NoRow \/ request[c].blind,
           UNCHANGED <<now, kick, sweep, issued, logins, opened, loggedOut,
                       idleSeen>>
    PROVE  IInv'
<1> DEFINE q == [request[c] EXCEPT !.phase = phase, !.stamp = now]
<1>1. /\ request[c] \in Request
      /\ Good(request[c], rows, opened, now)
      /\ TypeOK /\ now \in Time
  BY RequestFacts DEF IInv, TypeOK
<1>2. q \in Request
  BY <1>1 DEF Request
<1>3. Good(q, rows, opened, now)
  BY <1>1 DEF Good, Request
<1>4. request' = [request EXCEPT ![c] = q]
  BY DEF Goto
<1> HIDE DEF q
<1>5. TypeOK'
  BY <1>1, <1>2, <1>4 DEF TypeOK
<1> QED BY <1>2, <1>3, <1>4, <1>5, OneRequestKeepsIInv

\* A handler returns.
LEMMA ReturnKeepsIInv ==
    ASSUME IInv, NEW c \in Client, request' = [request EXCEPT ![c] = Idle],
           NoInsert, rows' \in [Token -> Row \union {NoRow}],
           loggedOut' \in SUBSET Token,
           UNCHANGED <<now, kick, sweep, issued, logins, opened, lastUse,
                       idleSeen>>
    PROVE  IInv'
<1>1. TypeOK'
  BY DEF IInv, TypeOK
<1>2. Good(Idle, rows, opened, now)
  BY DEF Good
<1> QED BY <1>1, <1>2, OneRequestKeepsIInv

\* A handler in one of its phases is not idle.
LEMMA NotIdle ==
    ASSUME NEW c \in Client,
           request[c].phase \in {"signed", "arrived", "expire", "touch",
                                 "logout", "served"}
    PROVE  request[c] # Idle
BY DEF Idle

\* The query of CheckSession keeps the invariant in each of its outcomes.
LEMMA FindKeepsIInv ==
    ASSUME IInv, NEW c \in Client,
           FindNothing(c) \/ FindTerminated(c) \/ FindActive(c)
    PROVE  IInv'
<1> DEFINE t == request[c].token
<1>1. /\ request[c] # Idle /\ request[c] \in Request /\ t \in Token
      /\ Good(request[c], rows, opened, now)
      /\ TypeOK /\ NoInsert
  BY NotIdle, RequestFacts, SameRows
  DEF FindNothing, FindTerminated, FindActive, IInv
<1>2. CASE FindNothing(c)
  <2> DEFINE blind == HasRow(t)
             q == [request[c] EXCEPT !.phase = AfterCheck(request[c]),
                                     !.stamp = now, !.blind = blind]
  <2>1. AfterCheck(request[c]) \in {"logout", "served"}
    BY DEF AfterCheck
  <2>2. blind \in BOOLEAN /\ (~blind => rows[t] = NoRow)
    BY DEF HasRow
  <2>3. /\ request' = [request EXCEPT ![c] = q]
        /\ UNCHANGED <<now, rows, kick, sweep, issued, logins, opened,
                       loggedOut, lastUse, idleSeen>>
    BY <1>2 DEF FindNothing
  <2> HIDE DEF blind
  <2>4. /\ q \in Request /\ q.token = t /\ q.at = request[c].at
        /\ q.dead = request[c].dead /\ q.blind = blind
        /\ q.phase \in {"logout", "served"}
    BY <1>1, <2>1, <2>2 DEF Request, TypeOK
  <2> HIDE DEF q
  <2>5. Good(q, rows, opened, now)
    BY <1>1, <2>2, <2>4 DEF Good
  <2>6. TypeOK'
    BY <1>1, <2>3, <2>4 DEF TypeOK
  <2> QED BY <1>1, <2>3, <2>4, <2>5, <2>6, OneRequestKeepsIInv
<1>3. CASE FindTerminated(c)
  BY <1>1, <1>3, ReturnKeepsIInv DEF FindTerminated, IInv, TypeOK
<1>4. CASE FindActive(c)
  <2>1. ~request[c].dead
    BY <1>1, <1>4 DEF FindActive, Good, Active
  <2>2. lastUse' \in [Token -> Time]
    BY <1>1, <1>4 DEF FindActive, TypeOK
  <2>3. Goto(c, "expire") \/ Goto(c, "touch")
    BY <1>4 DEF FindActive
  <2> QED BY <1>1, <1>4, <2>1, <2>2, <2>3, GotoKeepsIInv
          DEF FindActive, TypeOK
<1> QED BY <1>2, <1>3, <1>4

\* The expiry in CheckSession keeps the invariant.
LEMMA ExpireIdleKeepsIInv ==
    ASSUME IInv, NEW c \in Client, ExpireIdle(c)
    PROVE  IInv'
<1>1. /\ request[c] \in Request /\ request[c].token \in Token
      /\ request[c].stamp \in Time /\ TypeOK
  BY NotIdle, RequestFacts DEF ExpireIdle, IInv
<1>2. NoInsert /\ rows' \in [Token -> Row \union {NoRow}]
  <2>1. CASE rows' = Expired(request[c].token, request[c].stamp)
    BY <1>1, <2>1, ExpiredRow
  <2>2. CASE UNCHANGED rows
    BY <1>1, <2>2, SameRows DEF TypeOK
  <2> QED BY <2>1, <2>2 DEF ExpireIdle
<1> QED BY <1>1, <1>2, ReturnKeepsIInv DEF ExpireIdle, TypeOK

\* The touch in CheckSession keeps the invariant, however late it comes.
LEMMA UpdateLastAccessKeepsIInv ==
    ASSUME IInv, NEW c \in Client, UpdateLastAccess(c)
    PROVE  IInv'
<1>1. /\ request[c] # Idle /\ request[c] \in Request
      /\ request[c].token \in Token
      /\ request[c].stamp \in Time /\ TypeOK
      /\ Good(request[c], rows, opened, now)
  BY NotIdle, RequestFacts DEF UpdateLastAccess, IInv
<1>2. NoInsert /\ rows' \in [Token -> Row \union {NoRow}]
  <2>1. CASE rows' = Touched(request[c].token, request[c].stamp)
    BY <1>1, <2>1, TouchedRow
  <2>2. CASE UNCHANGED rows
    BY <1>1, <2>2, SameRows DEF TypeOK
  <2> QED BY <2>1, <2>2 DEF UpdateLastAccess
<1>3. request[c].dead => rows[request[c].token] = NoRow \/ request[c].blind
  BY <1>1 DEF Good, UpdateLastAccess
<1>4. AfterCheck(request[c]) \in {"expire", "touch", "logout", "served"}
  BY DEF AfterCheck
<1> QED BY <1>1, <1>2, <1>3, <1>4, GotoKeepsIInv DEF UpdateLastAccess, TypeOK

\* LogoutSession keeps the invariant.
LEMMA LogoutKeepsIInv ==
    ASSUME IInv, NEW c \in Client, Logout(c)
    PROVE  IInv'
<1>1. /\ request[c].token \in Token /\ TypeOK /\ now \in Time
  BY NotIdle, RequestFacts DEF Logout, IInv, TypeOK
<1>2. NoInsert /\ rows' \in [Token -> Row \union {NoRow}]
  <2>1. CASE rows' = Expired(request[c].token, now)
    BY <1>1, <2>1, ExpiredRow
  <2>2. CASE UNCHANGED rows
    BY <1>1, <2>2, SameRows DEF TypeOK
  <2> QED BY <2>1, <2>2 DEF Logout
<1>3. loggedOut' \in SUBSET Token
  BY <1>1 DEF Logout, TypeOK
<1> QED BY <1>2, <1>3, ReturnKeepsIInv DEF Logout

\* The end of a handler keeps the invariant.
LEMMA ReplyKeepsIInv ==
    ASSUME IInv, NEW c \in Client, Reply(c)
    PROVE  IInv'
BY SameRows, ReturnKeepsIInv DEF Reply, IInv, TypeOK

\* The login in flight is too young for its token to have been purged: what
\* it inserts was never there before.
LEMMA InsertIsNew ==
    ASSUME IInv, NEW c \in Client, request[c].phase = "signed",
           ~HasRow(request[c].token)
    PROVE  request[c].token \notin opened
<1> DEFINE q == request[c]
<1>1. /\ q \in Request /\ q.token \in Token
      /\ Good(q, rows, opened, now)
      /\ now \in Time /\ ByAge(rows, opened, now)
  BY NotIdle, RequestFacts, IInvParts DEF IInv, TypeOK
<1>2. q.token[2] = q.at /\ now - q.at <= HandlerTime
  BY <1>1, NotIdle DEF Good
<1>3. q.at \in Nat /\ now \in Nat
  BY <1>1 DEF Request, Time
<1>4. ~(now - q.token[2] > Retention)
  BY <1>2, <1>3
<1> QED BY <1>1, <1>4 DEF ByAge, HasRow

\* CreateSession keeps the invariant: it opens a record only for a token
\* that never had one.
LEMMA CreateSessionKeepsIInv ==
    ASSUME IInv, NEW c \in Client, CreateSession(c)
    PROVE  IInv'
<1> DEFINE q == request[c]
           t == q.token
           new == [status |-> "active", kickedBy |-> FALSE,
                   loginAt |-> now, lastAccess |-> now, endedAt |-> now]
<1>1. /\ q # Idle /\ q \in Request /\ t \in Token /\ q.phase = "signed"
      /\ Good(q, rows, opened, now)
      /\ TypeOK /\ now \in Time
      /\ ByAge(rows, opened, now) /\ AllGood
      /\ Punctual(kick) /\ Punctual(sweep)
  BY NotIdle, RequestFacts, IInvParts DEF CreateSession, IInv, TypeOK
<1>2. /\ request' = [request EXCEPT ![c] = Idle]
      /\ issued' = issued \union {t} /\ logins' = logins + 1
      /\ logins < MaxLogins
      /\ UNCHANGED <<now, kick, sweep, loggedOut, idleSeen>>
  BY DEF CreateSession
<1>3. logins' \in 0 .. MaxLogins
  BY <1>1, <1>2 DEF TypeOK
<1>4. CASE UNCHANGED <<rows, opened, lastUse>>
  <2>1. TypeOK'
    BY <1>1, <1>2, <1>3, <1>4 DEF TypeOK
  <2>2. Good(Idle, rows, opened, now)
    BY DEF Good
  <2> QED BY <1>2, <1>4, <2>1, <2>2, SameRows, OneRequestKeepsIInv
<1>5. CASE ~HasRow(t) /\ Insert(t)
  <2>1. /\ rows' = [rows EXCEPT ![t] = new]
        /\ opened' = opened \union {t}
        /\ lastUse' = [lastUse EXCEPT ![t] = now]
    BY <1>5 DEF Insert
  <2>2. new \in Row /\ new # NoRow /\ new.loginAt = now
    BY <1>1 DEF Row, NoRow
  <2>3. t \notin opened
    BY <1>1, <1>5, InsertIsNew
  <2>4. t[2] <= now
    BY <1>1 DEF Good
  <2> HIDE DEF new
  <2>5. TypeOK'
    BY <1>1, <1>2, <1>3, <2>1, <2>2 DEF TypeOK
  <2>6. \A u \in Token : u # t => rows'[u] = rows[u]
    BY <1>1, <2>1 DEF TypeOK
  <2>7. rows'[t] = new
    BY <1>1, <2>1 DEF TypeOK
  <2> HIDE DEF t, q
  <2>8. ByAge(rows, opened, now)'
    <3> SUFFICES ASSUME NEW u \in Token
                 PROVE  /\ rows'[u] # NoRow =>
                             u \in opened' /\ u[2] <= rows'[u].loginAt
                        /\ u \in opened' /\ rows'[u] = NoRow =>
                             now - u[2] > Retention
      BY <1>2 DEF ByAge
    <3>1. CASE u = t
      BY <2>1, <2>2, <2>4, <2>7, <3>1
    <3>2. CASE u # t
      BY <1>1, <2>1, <2>6, <3>2 DEF ByAge
    <3> QED BY <3>1, <3>2
  <2>9. ASSUME NEW d \in Client
        PROVE  Good(request'[d], rows', opened', now)
    <3>1. CASE request'[d] = Idle
      BY <3>1 DEF Good
    <3>2. CASE request'[d] # Idle
      <4>1. request'[d] = request[d]
        BY <1>1, <1>2, <3>2 DEF TypeOK
      <4>2. Good(request[d], rows, opened, now) /\ request[d] \in Request
        BY <1>1, <3>2, <4>1 DEF AllGood, TypeOK
      <4>3. request[d].dead => request[d].token # t /\ request[d].token \in Token
        BY <2>3, <3>2, <4>1, <4>2 DEF Good, Request
      <4> QED BY <2>1, <2>6, <4>1, <4>2, <4>3 DEF Good
    <3> QED BY <3>1, <3>2
  <2>10. AllGood' /\ Punctual(kick)' /\ Punctual(sweep)'
    BY <1>1, <1>2, <2>9 DEF AllGood, Good, Punctual
  <2> QED BY <2>5, <2>8, <2>10, IInvPartsNext
<1> QED BY <1>4, <1>5 DEF CreateSession, MayInsert

\* Both statements of KickSession keep the invariant.
LEMMA KickKeepsIInv ==
    ASSUME IInv, NEW a \in Admin,
           KickUpdate(a) \/ \E t \in Token : KickSession(a, t)
    PROVE  IInv'
<1>1. TypeOK /\ now \in Time /\ Punctual(kick) /\ Punctual(sweep)
  BY DEF IInv, TypeOK
<1>2. ASSUME NEW t \in Token, KickSession(a, t) PROVE IInv'
  <2> DEFINE k == [phase |-> "update", token |-> t, at |-> now]
  <2>1. k \in Kick /\ k.at = now
    BY <1>1 DEF Kick
  <2>2. /\ kick' = [kick EXCEPT ![a] = k]
        /\ UNCHANGED <<now, rows, request, sweep, issued, logins, opened,
                       loggedOut, lastUse, idleSeen>>
    BY <1>2 DEF KickSession
  <2> HIDE DEF k
  <2>3. TypeOK'
    BY <1>1, <2>1, <2>2 DEF TypeOK
  <2>4. Punctual(kick)' /\ Punctual(sweep)'
    BY <1>1, <2>1, <2>2 DEF Punctual, TypeOK, Time
  <2> QED BY <2>2, <2>3, <2>4, SameRows, JobKeepsIInv
<1>3. CASE KickUpdate(a)
  <2>1. kick[a] \in Kick
    BY <1>1, <1>3 DEF KickUpdate, TypeOK, Idle
  <2>2. NoInsert /\ rows' \in [Token -> Row \union {NoRow}]
    <3>1. CASE rows' = Kicked(kick[a].token)
      BY <1>1, <2>1, <3>1, KickedRow DEF Kick
    <3>2. CASE UNCHANGED rows
      BY <1>1, <3>2, SameRows DEF TypeOK
    <3> QED BY <1>3, <3>1, <3>2 DEF KickUpdate
  <2>3. /\ kick' = [kick EXCEPT ![a] = Idle]
        /\ UNCHANGED <<now, request, sweep, issued, logins, opened,
                       loggedOut, lastUse, idleSeen>>
    BY <1>3 DEF KickUpdate
  <2>4. TypeOK'
    BY <1>1, <2>2, <2>3 DEF TypeOK
  <2>5. Punctual(kick)' /\ Punctual(sweep)'
    BY <1>1, <2>3 DEF Punctual, TypeOK
  <2> QED BY <2>2, <2>3, <2>4, <2>5, JobKeepsIInv
<1> QED BY <1>2, <1>3

\* Both statements of ExpireInactiveSessions keep the invariant.
LEMMA SweepKeepsIInv ==
    ASSUME IInv, NEW s \in Sweeper, SweepSelect(s) \/ SweepUpdate(s)
    PROVE  IInv'
<1>1. TypeOK /\ now \in Time /\ Punctual(kick) /\ Punctual(sweep)
  BY DEF IInv, TypeOK
<1>2. CASE SweepSelect(s)
  <2> DEFINE k == [phase |-> "update", ids |-> OverdueSessions, at |-> now]
  <2>1. k \in Sweep /\ k.at = now
    BY <1>1 DEF Sweep, OverdueSessions
  <2>2. /\ sweep' = [sweep EXCEPT ![s] = k]
        /\ UNCHANGED <<now, rows, request, kick, issued, logins, opened,
                       loggedOut, lastUse, idleSeen>>
    BY <1>2 DEF SweepSelect
  <2> HIDE DEF k
  <2>3. TypeOK'
    BY <1>1, <2>1, <2>2 DEF TypeOK
  <2>4. Punctual(kick)' /\ Punctual(sweep)'
    BY <1>1, <2>1, <2>2 DEF Punctual, TypeOK, Time
  <2> QED BY <2>2, <2>3, <2>4, SameRows, JobKeepsIInv
<1>3. CASE SweepUpdate(s)
  <2>1. sweep[s] \in Sweep
    BY <1>1, <1>3 DEF SweepUpdate, TypeOK, Idle
  <2>2. NoInsert /\ rows' \in [Token -> Row \union {NoRow}]
    <3>1. CASE rows' = WithStatus(sweep[s].ids, "expired")
      BY <1>1, <2>1, <3>1, SweptRows DEF Sweep
    <3>2. CASE UNCHANGED rows
      BY <1>1, <3>2, SameRows DEF TypeOK
    <3> QED BY <1>3, <3>1, <3>2 DEF SweepUpdate
  <2>3. /\ sweep' = [sweep EXCEPT ![s] = Idle]
        /\ UNCHANGED <<now, request, kick, issued, logins, opened,
                       loggedOut, lastUse, idleSeen>>
    BY <1>3 DEF SweepUpdate
  <2>4. TypeOK'
    BY <1>1, <2>2, <2>3 DEF TypeOK
  <2>5. Punctual(kick)' /\ Punctual(sweep)'
    BY <1>1, <2>3 DEF Punctual, TypeOK
  <2> QED BY <2>2, <2>3, <2>4, <2>5, JobKeepsIInv
<1> QED BY <1>2, <1>3

\* What a purge does to one row.
LEMMA PurgedRow ==
    ASSUME TypeOK, DeleteSessionsBefore, NEW t \in Token
    PROVE  rows'[t] = IF Purged(t) THEN NoRow ELSE rows[t]
BY DEF DeleteSessionsBefore, WithoutPurged

\* DeleteSessionsBefore keeps the invariant: what it removes was signed
\* longer ago than the retention period.
LEMMA PurgeKeepsIInv ==
    ASSUME IInv, DeleteSessionsBefore
    PROVE  IInv'
<1>1. /\ TypeOK /\ now \in Time /\ Punctual(kick) /\ Punctual(sweep)
      /\ ByAge(rows, opened, now) /\ AllGood
  BY IInvParts DEF IInv, TypeOK
<1>2. /\ rows' = WithoutPurged
      /\ UNCHANGED <<now, request, kick, sweep, issued, logins, opened,
                     loggedOut, lastUse, idleSeen>>
  BY DEF DeleteSessionsBefore
<1>3. TypeOK'
  BY <1>1, <1>2 DEF TypeOK, WithoutPurged
<1>4. ByAge(rows, opened, now)'
  <2> SUFFICES ASSUME NEW t \in Token
               PROVE  /\ rows'[t] # NoRow =>
                           t \in opened /\ t[2] <= rows'[t].loginAt
                      /\ t \in opened /\ rows'[t] = NoRow =>
                           now - t[2] > Retention
    BY <1>2 DEF ByAge
  <2>1. CASE Purged(t)
    <3>1. rows'[t] = NoRow
      BY <1>1, <2>1, PurgedRow
    <3>2. /\ rows[t] \in Row /\ t[2] <= rows[t].loginAt
          /\ now - rows[t].loginAt > Retention
      BY <1>1, <2>1, RowStatus DEF Purged, HasRow, ByAge
    <3>3. t[2] \in Int /\ now \in Int /\ rows[t].loginAt \in Int
      BY <1>1, <3>2 DEF Row, Time, Token
    <3> QED BY <3>1, <3>2, <3>3
  <2>2. CASE ~Purged(t)
    BY <1>1, <2>2, PurgedRow DEF ByAge
  <2> QED BY <2>1, <2>2
<1>5. ASSUME NEW d \in Client
      PROVE  Good(request[d], rows', opened, now)
  <2>1. CASE request[d] = Idle
    BY <2>1 DEF Good
  <2>2. CASE request[d] # Idle
    <3>1. request[d].token \in Token /\ Good(request[d], rows, opened, now)
      BY <2>2, RequestFacts
    <3>2. \/ rows'[request[d].token] = NoRow
          \/ rows'[request[d].token] = rows[request[d].token]
      BY <1>1, <3>1, PurgedRow
    <3>3. NoRow.status # "active"
      BY DEF NoRow
    <3> QED BY <2>2, <3>1, <3>2, <3>3 DEF Good
  <2> QED BY <2>1, <2>2
<1>6. AllGood' /\ Punctual(kick)' /\ Punctual(sweep)'
  BY <1>1, <1>2, <1>5 DEF AllGood, Good, Punctual
<1> QED BY <1>3, <1>4, <1>6, IInvPartsNext

\* The passing of time keeps the invariant: nothing stays in flight for
\* longer than HandlerTime.
LEMMA TickKeepsIInv ==
    ASSUME IInv, Tick
    PROVE  IInv'
<1>1. /\ TypeOK /\ now \in 0 .. MaxTime /\ Punctual(kick) /\ Punctual(sweep)
      /\ ByAge(rows, opened, now) /\ AllGood
  BY IInvParts DEF IInv, TypeOK, Time
<1>2. /\ now' = now + 1 /\ now < MaxTime
      /\ idleSeen' = idleSeen \union
                       {t \in Token : Active(t) /\ NearlyIdle(t, now + 1)}
      /\ Prompt(request) /\ Prompt(kick) /\ Prompt(sweep)
      /\ UNCHANGED <<rows, request, kick, sweep, issued, logins, opened,
                     loggedOut, lastUse>>
  BY DEF Tick
<1>3. now' \in Time
  BY <1>1, <1>2 DEF Time
<1>4. TypeOK'
  BY <1>1, <1>2, <1>3 DEF TypeOK
<1>5. ByAge(rows, opened, now)'
  <2>1. \A t \in Token : t[2] \in Int
    BY DEF Token
  <2> QED BY <1>1, <1>2, <2>1 DEF ByAge
<1>6. Punctual(kick)'
  <2>1. \A a \in Admin : kick[a] # Idle => kick[a].at \in Int
    BY <1>1 DEF TypeOK, Kick, Time
  <2>2. DOMAIN kick = Admin
    BY <1>1 DEF TypeOK
  <2> QED BY <1>1, <1>2, <2>1, <2>2 DEF Punctual, Prompt
<1>7. Punctual(sweep)'
  <2>1. \A s \in Sweeper : sweep[s] # Idle => sweep[s].at \in Int
    BY <1>1 DEF TypeOK, Sweep, Time
  <2>2. DOMAIN sweep = Sweeper
    BY <1>1 DEF TypeOK
  <2> QED BY <1>1, <1>2, <2>1, <2>2 DEF Punctual, Prompt
<1>8. AllGood'
  <2> SUFFICES ASSUME NEW c \in Client, request[c] # Idle
               PROVE  Good(request[c], rows, opened, now + 1)
    BY <1>2 DEF AllGood, Good
  <2>1. request[c].at \in Int /\ Good(request[c], rows, opened, now)
    BY RequestFacts DEF Request, Time
  <2>2. now - request[c].at < HandlerTime
    BY <1>1, <1>2 DEF Prompt, TypeOK
  <2> QED BY <1>1, <2>1, <2>2 DEF Good
<1> QED BY <1>4, <1>5, <1>6, <1>7, <1>8, IInvPartsNext

-----------------------------------------------------------------------------
\* The invariant is inductive.
LEMMA NextKeepsIInv == IInv /\ [Next]_vars => IInv'
<1> SUFFICES ASSUME IInv, [Next]_vars PROVE IInv'
  OBVIOUS
<1>1. ASSUME NEW c \in Client, Serve(c) PROVE IInv'
  BY <1>1, CreateSessionKeepsIInv, FindKeepsIInv, ExpireIdleKeepsIInv,
     UpdateLastAccessKeepsIInv, LogoutKeepsIInv, ReplyKeepsIInv DEF Serve
<1>2. CASE UNCHANGED vars
  <2>1. TypeOK'
    BY <1>2 DEF vars, IInv, TypeOK
  <2>2. AllGood /\ ByAge(rows, opened, now)
    BY IInvParts DEF IInv
  <2>3. AllGood' /\ ByAge(rows, opened, now)'
    BY <1>2, <2>2 DEF vars, AllGood, Good, ByAge
  <2>4. Punctual(kick)' /\ Punctual(sweep)'
    BY <1>2 DEF vars, IInv, Punctual
  <2> QED BY <2>1, <2>3, <2>4, IInvPartsNext
<1> QED BY <1>1, <1>2, LoginKeepsIInv, ArriveKeepsIInv, KickKeepsIInv,
           SweepKeepsIInv, PurgeKeepsIInv, TickKeepsIInv DEF Next

\* The inductive invariant of the session table holds in every reachable
\* state.
THEOREM SessionsInvariant == Spec => []IInv
<1> QED BY InitIInv, NextKeepsIInv, PTL DEF Spec

\* The state keeps its shape whatever requests, kicks and jobs interleave.
THEOREM SessionsTypeCorrect == Spec => []TypeOK
<1>1. IInv => TypeOK
  BY DEF IInv
<1> QED BY <1>1, SessionsInvariant, PTL

\* Whether or not statements fail, a request that arrives after its session
\* was ended is served only once the record is purged, or if its own query
\* failed (CheckSession), for any number of concurrent requests, kicks and
\* jobs.
THEOREM TerminationSticksAlways == Spec => []TerminationSticks
<1>1. IInv => TerminationSticks
  BY DEF IInv
<1> QED BY <1>1, SessionsInvariant, PTL

-----------------------------------------------------------------------------
(***************************************************************************)
(* Sessions implements SessionLifecycle.                                   *)
(***************************************************************************)
\* Where a record stands, from its row.
LEMMA LifeOfRow ==
    ASSUME TypeOK, NEW t \in Token
    PROVE  /\ LifeMap[t] = Life(t)
           /\ Life(t) = "live" <=> Active(t)
           /\ Life(t) = "ended" <=> Terminated(t)
           /\ HasRow(t) <=> Life(t) \in {"live", "ended"}
<1>1. HasRow(t) <=> Active(t) \/ Terminated(t)
  BY RowStatus
<1>2. ~(Active(t) /\ Terminated(t))
  BY RowStatus
<1> QED BY <1>1, <1>2 DEF LifeMap, Life

\* A statement other than an insert ends the sessions it makes inactive, and
\* moves no other record.
LEMMA NoInsertEnds ==
    ASSUME TypeOK, NoInsert, opened' = opened
    PROVE  \E T \in SUBSET Token : Lifecycle!End(T)
<1> DEFINE T == {t \in Token : Active(t) /\ rows'[t].status # "active"}
<1>1. ASSUME NEW t \in T PROVE LifeMap[t] = "live"
  BY LifeOfRow
<1>2. ASSUME NEW t \in Token
      PROVE  Life(t)' = IF t \in T THEN "ended" ELSE Life(t)
  <2>1. MayBecome(rows[t], rows'[t])
    BY DEF NoInsert
  <2>2. HasRow(t) <=> rows[t] \in Row
    BY RowStatus
  <2> QED BY <2>1, <2>2 DEF Life, HasRow, Active, MayBecome, Row, NoRow
<1>3. LifeMap' = [t \in Token |-> IF t \in T THEN "ended" ELSE LifeMap[t]]
  BY <1>2 DEF LifeMap
<1>4. Lifecycle!End(T)
  BY <1>1, <1>3 DEF Lifecycle!End, Lifecycle!Move
<1> QED BY <1>4

\* An insertion opens the record in the abstract specification.
LEMMA InsertOpens ==
    ASSUME IInv, NEW t \in Token, t \notin opened, ~HasRow(t), Insert(t)
    PROVE  Lifecycle!Open(t)
<1>1. TypeOK
  BY DEF IInv
<1>2. LifeMap[t] = "none"
  BY DEF LifeMap, Life
<1>3. ASSUME NEW u \in Token
      PROVE  Life(u)' = IF u \in {t} THEN "live" ELSE Life(u)
  BY <1>1 DEF Insert, TypeOK, Life, HasRow, Active, NoRow
<1>4. LifeMap' = [u \in Token |-> IF u \in {t} THEN "live" ELSE LifeMap[u]]
  BY <1>3 DEF LifeMap
<1> QED BY <1>2, <1>4 DEF Lifecycle!Open, Lifecycle!Move

\* A purge purges the records in the abstract specification.
LEMMA PurgePurges ==
    ASSUME IInv, DeleteSessionsBefore
    PROVE  \E T \in SUBSET Token : Lifecycle!Purge(T)
<1> DEFINE T == {t \in Token : Purged(t)}
<1>1. TypeOK /\ opened' = opened
  BY DEF IInv, DeleteSessionsBefore
<1>2. ASSUME NEW t \in T PROVE LifeMap[t] \in {"live", "ended"}
  BY <1>1, LifeOfRow DEF Purged
<1>3. ASSUME NEW t \in Token
      PROVE  Life(t)' = IF t \in T THEN "purged" ELSE Life(t)
  <2>1. rows'[t] = IF Purged(t) THEN NoRow ELSE rows[t]
    BY <1>1, PurgedRow
  <2>2. Purged(t) => t \in opened
    BY DEF IInv, RowsByAge, Purged
  <2> QED BY <1>1, <2>1, <2>2 DEF Life, HasRow, Active
<1>4. LifeMap' = [t \in Token |-> IF t \in T THEN "purged" ELSE LifeMap[t]]
  BY <1>3 DEF LifeMap
<1>5. Lifecycle!Purge(T)
  BY <1>2, <1>4 DEF Lifecycle!Purge, Lifecycle!Move
<1> QED BY <1>5

\* Initial states are initial states of the abstract specification.
LEMMA InitImplements == Init => Lifecycle!Init
BY DEF Init, Lifecycle!Init, LifeMap, Life, HasRow

\* Every step opens a record that never was, purges, or does neither.
LEMMA StepKinds ==
    ASSUME IInv, [Next]_vars
    PROVE  \/ NoInsert /\ opened' = opened
           \/ \E t \in Token : t \notin opened /\ ~HasRow(t) /\ Insert(t)
           \/ DeleteSessionsBefore
<1>1. TypeOK /\ now \in Time
  BY DEF IInv, TypeOK
<1>2. ASSUME NEW c \in Client, CreateSession(c)
      PROVE  \/ NoInsert /\ opened' = opened
             \/ \E t \in Token : t \notin opened /\ ~HasRow(t) /\ Insert(t)
  <2> DEFINE t == request[c].token
  <2>1. t \in Token
    BY <1>2, NotIdle, RequestFacts DEF CreateSession
  <2>2. CASE UNCHANGED <<rows, opened, lastUse>>
    BY <2>2, SameRows
  <2>3. CASE ~HasRow(t) /\ Insert(t)
    <3>1. t \notin opened
      BY <1>2, <2>3, InsertIsNew DEF CreateSession
    <3> QED BY <2>1, <2>3, <3>1
  <2> QED BY <1>2, <2>2, <2>3 DEF CreateSession, MayInsert
<1>3. ASSUME NEW c \in Client, Serve(c), ~CreateSession(c)
      PROVE  NoInsert /\ opened' = opened
  <2>1. opened' = opened
    BY <1>3 DEF Serve, FindNothing, FindTerminated, FindActive, ExpireIdle,
                UpdateLastAccess, Logout, Reply
  <2>2. CASE FindNothing(c) \/ FindTerminated(c) \/ FindActive(c) \/ Reply(c)
    BY <2>2, SameRows DEF FindNothing, FindTerminated, FindActive, Reply
  <2>3. CASE ExpireIdle(c) \/ UpdateLastAccess(c) \/ Logout(c)
    <3>1. request[c].token \in Token /\ request[c].stamp \in Time
      BY <2>3, NotIdle, RequestFacts DEF ExpireIdle, UpdateLastAccess, Logout
    <3>2. \/ rows' = rows
          \/ \E stamp \in Time : rows' = Expired(request[c].token, stamp)
          \/ rows' = Touched(request[c].token, request[c].stamp)
      BY <1>1, <2>3, <3>1 DEF ExpireIdle, UpdateLastAccess, Logout
    <3> QED BY <1>1, <3>1, <3>2, SameRows, ExpiredRow, TouchedRow, <2>1
  <2> QED BY <1>3, <2>1, <2>2, <2>3 DEF Serve
<1>4. ASSUME NEW a \in Admin, KickUpdate(a) PROVE NoInsert /\ opened' = opened
  <2>1. kick[a].token \in Token
    BY <1>1, <1>4 DEF KickUpdate, TypeOK, Kick, Idle
  <2> QED BY <1>1, <1>4, <2>1, KickedRow, SameRows DEF KickUpdate
<1>5. ASSUME NEW s \in Sweeper, SweepUpdate(s)
      PROVE  NoInsert /\ opened' = opened
  <2>1. sweep[s].ids \in SUBSET Token
    BY <1>1, <1>5 DEF SweepUpdate, TypeOK, Sweep, Idle
  <2> QED BY <1>1, <1>5, <2>1, SweptRows, SameRows DEF SweepUpdate
<1>6. CASE Tick
  BY <1>6, SameRows DEF Tick
<1>7. CASE UNCHANGED vars
  BY <1>7, SameRows DEF vars
<1>8. ASSUME NEW c \in Client, NEW u \in User, Login(c, u)
       PROVE  NoInsert /\ opened' = opened
  BY <1>8, SameRows DEF Login
<1>9. ASSUME NEW c \in Client, NEW t \in Token, NEW logout \in BOOLEAN,
              Arrive(c, t, logout)
       PROVE  NoInsert /\ opened' = opened
  BY <1>9, SameRows DEF Arrive
<1>10. ASSUME NEW a \in Admin, NEW t \in Token, KickSession(a, t)
       PROVE  NoInsert /\ opened' = opened
  BY <1>10, SameRows DEF KickSession
<1>11. ASSUME NEW s \in Sweeper, SweepSelect(s)
       PROVE  NoInsert /\ opened' = opened
  BY <1>11, SameRows DEF SweepSelect
<1> QED BY <1>2, <1>3, <1>4, <1>5, <1>6, <1>7, <1>8, <1>9, <1>10, <1>11
        DEF Next

\* Every step is a step of the abstract specification or leaves it alone.
LEMMA StepImplements ==
    IInv /\ [Next]_vars => [Lifecycle!Next]_LifeMap
<1> SUFFICES ASSUME IInv, [Next]_vars PROVE [Lifecycle!Next]_LifeMap
  OBVIOUS
<1>1. CASE NoInsert /\ opened' = opened
  BY <1>1, NoInsertEnds DEF Lifecycle!Next, IInv
<1>2. ASSUME NEW t \in Token, t \notin opened, ~HasRow(t), Insert(t)
      PROVE  Lifecycle!Next
  BY <1>2, InsertOpens DEF Lifecycle!Next
<1>3. CASE DeleteSessionsBefore
  BY <1>3, PurgePurges DEF Lifecycle!Next
<1> QED BY <1>1, <1>2, <1>3, StepKinds

\* The session table keeps the life cycle of every record: whatever
\* requests, kicks and jobs interleave, and whether or not statements fail,
\* a session that was ended is never live again and a purged record is never
\* opened again.
THEOREM SessionsImplementLifecycle == Spec => KeepsLifecycle
<1>1. Init => Lifecycle!Init
  BY InitImplements
<1>2. IInv /\ [Next]_vars => [Lifecycle!Next]_LifeMap
  BY StepImplements
<1> QED BY <1>1, <1>2, SessionsInvariant, PTL
        DEF Spec, KeepsLifecycle, Lifecycle!Spec

-----------------------------------------------------------------------------
(***************************************************************************)
(* How a session ended is settled soon: only a kick or a run of the idle   *)
(* job may rewrite it, and these have selected the session when it was     *)
(* still active.                                                           *)
(***************************************************************************)
Over(row) == row.status \in {"kicked", "expired"}

\* A row selected at a moment had not ended before it.
Since(at, row) == Over(row) => at <= row.endedAt

Selected ==
    /\ \A a \in Admin : kick[a] # Idle => Since(kick[a].at, rows[kick[a].token])
    /\ \A s \in Sweeper : sweep[s] # Idle =>
          \A t \in sweep[s].ids : Since(sweep[s].at, rows[t])

\* No step moves the end of a session to an earlier moment.
LEMMA SinceStays ==
    ASSUME IInv, [Next]_vars, NEW t \in Token, NEW at \in Int, at <= now,
           Since(at, rows[t])
    PROVE  Since(at, rows'[t])
<1>1. TypeOK
  BY DEF IInv
<1>2. CASE NoInsert
  <2>1. MayBecome(rows[t], rows'[t])
    BY <1>2 DEF NoInsert
  <2> QED BY <2>1 DEF MayBecome, Since, Over, Row
<1>3. ASSUME NEW u \in Token, ~HasRow(u), Insert(u) PROVE Since(at, rows'[t])
  <2>1. t # u => rows'[t] = rows[t]
    BY <1>1, <1>3 DEF Insert, TypeOK
  <2>2. t = u => rows'[t].status = "active"
    BY <1>1, <1>3 DEF Insert, TypeOK
  <2> QED BY <2>1, <2>2 DEF Since, Over
<1>4. CASE DeleteSessionsBefore
  <2>1. rows'[t] = NoRow \/ rows'[t] = rows[t]
    BY <1>1, <1>4, PurgedRow
  <2> QED BY <2>1 DEF Since, Over, NoRow
<1> QED BY <1>2, <1>3, <1>4, StepKinds

\* A kick in flight was so before, or its session has just been found active.
LEMMA KicksSelect ==
    ASSUME TypeOK, [Next]_vars, NEW a \in Admin, kick'[a] # Idle
    PROVE  kick'[a] = kick[a] \/ ~Over(rows'[kick'[a].token])
<1>1. ASSUME NEW b \in Admin, NEW t \in Token, KickSession(b, t)
      PROVE  kick'[a] = kick[a] \/ ~Over(rows'[kick'[a].token])
  <2> DEFINE k == [phase |-> "update", token |-> t, at |-> now]
  <2>1. /\ kick' = [kick EXCEPT ![b] = k] /\ rows' = rows /\ Active(t)
        /\ k.token = t
    BY <1>1 DEF KickSession
  <2> HIDE DEF k
  <2> QED BY <2>1 DEF TypeOK, Over, Active
<1>2. ASSUME NEW b \in Admin, KickUpdate(b) PROVE kick'[a] = kick[a]
  BY <1>2 DEF KickUpdate, TypeOK
<1>3. CASE UNCHANGED kick
  BY <1>3
<1> QED BY <1>1, <1>2, <1>3
        DEF Next, vars, Login, Arrive, Serve, CreateSession, FindNothing,
            FindTerminated, FindActive, ExpireIdle, UpdateLastAccess, Logout,
            Reply, SweepSelect, SweepUpdate, DeleteSessionsBefore, Tick

\* The same of a run of the idle job.
LEMMA SweepsSelect ==
    ASSUME TypeOK, [Next]_vars, NEW s \in Sweeper, sweep'[s] # Idle
    PROVE  sweep'[s] = sweep[s] \/ \A t \in sweep'[s].ids : ~Over(rows'[t])
<1>1. ASSUME NEW b \in Sweeper, SweepSelect(b)
      PROVE  sweep'[s] = sweep[s] \/ \A t \in sweep'[s].ids : ~Over(rows'[t])
  <2> DEFINE k == [phase |-> "update", ids |-> OverdueSessions, at |-> now]
  <2>1. /\ sweep' = [sweep EXCEPT ![b] = k] /\ rows' = rows
        /\ \A t \in k.ids : Active(t)
    BY <1>1 DEF SweepSelect, OverdueSessions
  <2> HIDE DEF k
  <2> QED BY <2>1 DEF TypeOK, Over, Active
<1>2. ASSUME NEW b \in Sweeper, SweepUpdate(b) PROVE sweep'[s] = sweep[s]
  BY <1>2 DEF SweepUpdate, TypeOK
<1>3. CASE UNCHANGED sweep
  BY <1>3
<1> QED BY <1>1, <1>2, <1>3
        DEF Next, vars, Login, Arrive, Serve, CreateSession, FindNothing,
            FindTerminated, FindActive, ExpireIdle, UpdateLastAccess, Logout,
            Reply, KickSession, KickUpdate, DeleteSessionsBefore, Tick

LEMMA NextKeepsSelected ==
    ASSUME IInv, Selected, [Next]_vars
    PROVE  Selected'
<1>1. TypeOK /\ Punctual(kick) /\ Punctual(sweep)
  BY DEF IInv
<1>2. ASSUME NEW a \in Admin, kick'[a] # Idle
      PROVE  Since(kick'[a].at, rows'[kick'[a].token])
  <2>1. CASE kick'[a] = kick[a]
    <3>1. /\ kick[a].token \in Token /\ kick[a].at \in Int /\ kick[a].at <= now
          /\ Since(kick[a].at, rows[kick[a].token])
      BY <1>1, <1>2, <2>1 DEF TypeOK, Kick, Time, Punctual, Selected
    <3> QED BY <2>1, <3>1, SinceStays
  <2>2. CASE ~Over(rows'[kick'[a].token])
    BY <2>2 DEF Since
  <2> QED BY <1>1, <1>2, <2>1, <2>2, KicksSelect
<1>3. ASSUME NEW s \in Sweeper, sweep'[s] # Idle, NEW t \in sweep'[s].ids
      PROVE  Since(sweep'[s].at, rows'[t])
  <2>1. CASE sweep'[s] = sweep[s]
    <3>1. /\ t \in Token /\ sweep[s].at \in Int /\ sweep[s].at <= now
          /\ Since(sweep[s].at, rows[t])
      BY <1>1, <1>3, <2>1 DEF TypeOK, Sweep, Time, Punctual, Selected
    <3> QED BY <2>1, <3>1, SinceStays
  <2>2. CASE ~Over(rows'[t])
    BY <2>2 DEF Since
  <2> QED BY <1>1, <1>3, <2>1, <2>2, SweepsSelect
<1> QED BY <1>2, <1>3 DEF Selected

\* Only a kick or a run of the idle job rewrites how a session ended.
LEMMA Rewrites ==
    ASSUME IInv, [Next]_vars, NEW t \in Token, Over(rows[t]), Over(rows'[t]),
           rows'[t].status # rows[t].status
    PROVE  \/ \E a \in Admin : kick[a] # Idle /\ kick[a].token = t
           \/ \E s \in Sweeper : sweep[s] # Idle /\ t \in sweep[s].ids
<1>1. TypeOK /\ rows' # rows /\ ~Active(t)
  BY DEF IInv, Over, Active
<1>2. HasRow(t) /\ rows[t] \in Row
  BY <1>1, RowStatus DEF Over, HasRow, NoRow
<1>3. ASSUME NEW c \in Client, ExpireIdle(c) \/ UpdateLastAccess(c) \/ Logout(c)
      PROVE  FALSE
  <2>1. request[c].token \in Token
    BY <1>3, NotIdle, RequestFacts DEF ExpireIdle, UpdateLastAccess, Logout
  <2>2. \/ \E stamp : rows' = Expired(request[c].token, stamp)
        \/ rows' = Touched(request[c].token, request[c].stamp)
    BY <1>1, <1>3 DEF ExpireIdle, UpdateLastAccess, Logout
  <2>3. ASSUME NEW stamp, rows' = Expired(request[c].token, stamp)
        PROVE  rows'[t] = rows[t]
    BY <1>1, <2>1, <2>3 DEF Expired, TypeOK
  <2>4. CASE rows' = Touched(request[c].token, request[c].stamp)
    BY <1>1, <1>2, <2>1, <2>4 DEF Touched, TypeOK, Row
  <2> QED BY <2>2, <2>3, <2>4
<1>4. ASSUME NEW c \in Client, CreateSession(c) PROVE FALSE
  <2>1. request[c].token \in Token
    BY <1>4, NotIdle, RequestFacts DEF CreateSession
  <2> QED BY <1>1, <1>2, <1>4, <2>1
          DEF CreateSession, Insert, MayInsert, TypeOK
<1>5. ASSUME NEW a \in Admin, KickUpdate(a)
      PROVE  kick[a] # Idle /\ kick[a].token = t
  <2>1. kick[a] # Idle
    BY <1>5 DEF KickUpdate, Idle
  <2>2. kick[a].token \in Token
    BY <1>1, <2>1 DEF TypeOK, Kick
  <2>3. rows' = Kicked(kick[a].token)
    BY <1>1, <1>5 DEF KickUpdate
  <2> QED BY <1>1, <2>1, <2>2, <2>3 DEF Kicked, TypeOK
<1>6. ASSUME NEW s \in Sweeper, SweepUpdate(s)
      PROVE  sweep[s] # Idle /\ t \in sweep[s].ids
  <2>1. sweep[s] # Idle
    BY <1>6 DEF SweepUpdate, Idle
  <2>2. rows' = WithStatus(sweep[s].ids, "expired")
    BY <1>1, <1>6 DEF SweepUpdate
  <2>3. t \notin sweep[s].ids => rows'[t] = rows[t]
    BY <2>2 DEF WithStatus
  <2> QED BY <2>1, <2>3
<1>7. ~DeleteSessionsBefore
  <2>1. DeleteSessionsBefore => rows'[t] = rows[t] \/ rows'[t] = NoRow
    BY <1>1, PurgedRow
  <2> QED BY <2>1 DEF Over, NoRow
<1> QED BY <1>1, <1>3, <1>4, <1>5, <1>6, <1>7
        DEF Next, vars, Login, Arrive, Serve, FindNothing, FindTerminated,
            FindActive, Reply, KickSession, SweepSelect, Tick

\* For every number of administrators and instances: how a session ended is
\* settled once HandlerTime has passed since (KickSession,
\* ExpireInactiveSessions).
THEOREM EndsSettleAlways == Spec => EndsSettle
<1> DEFINE Settled ==
      \A t \in Token :
        Terminated(t) /\ Terminated(t)' /\ rows'[t].status # rows[t].status
          => now - rows[t].endedAt <= HandlerTime
<1>1. Init => Selected
  BY DEF Init, Selected
<1>2. IInv /\ Selected /\ [Next]_vars => Selected'
  BY NextKeepsSelected
<1>3. IInv /\ Selected /\ [Next]_vars => [Settled]_vars
  <2> SUFFICES ASSUME IInv, Selected, [Next]_vars, NEW t \in Token,
                      Terminated(t), Terminated(t)',
                      rows'[t].status # rows[t].status
               PROVE  now - rows[t].endedAt <= HandlerTime
    OBVIOUS
  <2>1. TypeOK /\ Punctual(kick) /\ Punctual(sweep)
    BY DEF IInv
  <2>2. Over(rows[t]) /\ Over(rows'[t])
    BY DEF Over, Terminated
  <2>3. rows[t].endedAt \in Int /\ now \in Int
    BY <2>1, <2>2, RowStatus DEF Row, Time, TypeOK, Over, Terminated
  <2>4. ASSUME NEW a \in Admin, kick[a] # Idle, kick[a].token = t
        PROVE  now - rows[t].endedAt <= HandlerTime
    <3>1. /\ kick[a].at \in Int /\ now - kick[a].at <= HandlerTime
          /\ kick[a].at <= rows[t].endedAt
      BY <2>1, <2>2, <2>4 DEF TypeOK, Kick, Time, Punctual, Selected, Since
    <3> QED BY <2>3, <3>1
  <2>5. ASSUME NEW s \in Sweeper, sweep[s] # Idle, t \in sweep[s].ids
        PROVE  now - rows[t].endedAt <= HandlerTime
    <3>1. /\ sweep[s].at \in Int /\ now - sweep[s].at <= HandlerTime
          /\ sweep[s].at <= rows[t].endedAt
      BY <2>1, <2>2, <2>5 DEF TypeOK, Sweep, Time, Punctual, Selected, Since
    <3> QED BY <2>3, <3>1
  <2> QED BY <2>2, <2>4, <2>5, Rewrites
<1> QED BY <1>1, <1>2, <1>3, SessionsInvariant, PTL DEF Spec, EndsSettle

-----------------------------------------------------------------------------
(***************************************************************************)
(* No session in use is expired, when the database answers and statements  *)
(* are fast compared with the idle timeout.                                *)
(*                                                                         *)
(* lastUse is ahead of the last_access_at of a row while a touch is in     *)
(* flight, and stays ahead of it by at most HandlerTime when touches land  *)
(* out of order.  The 2 * HandlerTime of slack in idleSeen are these two.  *)
(***************************************************************************)
StatementsAreFast == ~DBFaults /\ 2 * HandlerTime <= IdleTimeout

\* The time a statement in flight will write is not older than its request.
Stamped ==
    \A c \in Client : request[c] # Idle =>
        request[c].at <= request[c].stamp /\ request[c].stamp <= now

\* A touch is in flight that was due when it was decided upon.
Touching(t) ==
    \E c \in Client :
        /\ request[c].phase = "touch"
        /\ request[c].token = t
        /\ request[c].stamp - rows[t].lastAccess <= IdleTimeout - HandlerTime

\* A session used lately has a row that says so, or is about to.
Fresh(t) ==
    /\ lastUse[t] <= now
    /\ now - lastUse[t] <= IdleTimeout - 2 * HandlerTime
    /\ lastUse[t] - rows[t].lastAccess <= HandlerTime \/ Touching(t)

InUse == \A t \in Token : Active(t) => t \in idleSeen \/ Fresh(t)

\* What is about to be expired for idleness was idle.
Marked ==
    /\ \A c \in Client :
          request[c].phase = "expire" => request[c].token \in idleSeen
    /\ \A s \in Sweeper : sweep[s] # Idle => sweep[s].ids \subseteq idleSeen

EInv == Stamped /\ InUse /\ Marked /\ NoEarlyExpiry

\* A session in use is not overdue for CheckSession or the idle job: this is
\* where the slack is spent.
LEMMA NotOverdue ==
    ASSUME StatementsAreFast, IInv, EInv, NEW t \in Token, Active(t),
           t \notin idleSeen
    PROVE  /\ ~Overdue(t)
           /\ Fresh(t)
           /\ \/ now - rows[t].lastAccess <= IdleTimeout - HandlerTime
              \/ Touching(t)
<1>1. Fresh(t)
  BY DEF EInv, InUse
<1>2. TypeOK /\ rows[t] \in Row /\ now \in Int /\ lastUse[t] \in Int
  BY RowStatus DEF IInv, TypeOK, Time
<1>3. rows[t].lastAccess \in Int
  BY <1>2 DEF Row, Time
<1>4. CASE lastUse[t] - rows[t].lastAccess <= HandlerTime
  <2>1. now - rows[t].lastAccess <= IdleTimeout - HandlerTime
    BY <1>1, <1>2, <1>3, <1>4 DEF Fresh
  <2> QED BY <1>1, <1>2, <1>3, <2>1 DEF Overdue
<1>5. CASE Touching(t)
  <2>1. PICK c \in Client :
            /\ request[c].phase = "touch"
            /\ request[c].token = t
            /\ request[c].stamp - rows[t].lastAccess
                 <= IdleTimeout - HandlerTime
    BY <1>5 DEF Touching
  <2>2. /\ request[c] # Idle /\ request[c] \in Request
        /\ now - request[c].at <= HandlerTime
    BY <2>1, NotIdle, RequestFacts DEF Good
  <2>3. request[c].at <= request[c].stamp
    BY <2>2 DEF EInv, Stamped
  <2>4. request[c].at \in Int /\ request[c].stamp \in Int
    BY <2>2 DEF Request, Time
  <2>5. ~(now - rows[t].lastAccess > IdleTimeout)
    BY <1>2, <1>3, <2>1, <2>2, <2>3, <2>4
  <2> QED BY <1>1, <1>5, <2>5 DEF Overdue
<1> QED BY <1>1, <1>4, <1>5 DEF Fresh

\* A step that ends sessions at most, and only those it may end, and leaves
\* every touch in flight alone.
LEMMA QuietStep ==
    ASSUME TypeOK, EInv, Stamped', Marked',
           \A t \in Token : rows'[t].status = "active" => rows'[t] = rows[t],
           \A t \in Token : rows'[t].status = "expired" /\ ~rows'[t].kickedBy
               => rows'[t] = rows[t] \/ t \in idleSeen \union loggedOut',
           loggedOut \subseteq loggedOut',
           \A c \in Client : request[c].phase = "touch"
               => request'[c] = request[c],
           UNCHANGED <<now, lastUse, idleSeen>>
    PROVE  EInv'
<1>1. InUse'
  <2> SUFFICES ASSUME NEW t \in Token, rows'[t].status = "active",
                      t \notin idleSeen
               PROVE  Fresh(t)'
    BY DEF InUse, Active
  <2>1. rows'[t] = rows[t] /\ Fresh(t)
    BY DEF EInv, InUse, Active
  <2>2. Touching(t) => Touching(t)'
    BY <2>1 DEF Touching
  <2> QED BY <2>1, <2>2 DEF Fresh
<1>2. NoEarlyExpiry'
  BY DEF EInv, NoEarlyExpiry
<1> QED BY <1>1, <1>2 DEF EInv

\* One request goes on.
LEMMA RequestMarked ==
    ASSUME TypeOK, EInv, NEW c \in Client, NEW q,
           request' = [request EXCEPT ![c] = q],
           q # Idle => q.at <= q.stamp /\ q.stamp <= now,
           q.phase = "expire" => q.token \in idleSeen,
           UNCHANGED <<now, sweep, idleSeen>>
    PROVE  Stamped' /\ Marked'
<1>1. \A d \in Client : request'[d] = IF d = c THEN q ELSE request[d]
  BY DEF TypeOK
<1>2. Stamped'
  BY <1>1 DEF EInv, Stamped
<1>3. Marked'
  BY <1>1 DEF EInv, Marked
<1> QED BY <1>2, <1>3

\* A request not about to touch goes on without writing.
LEMMA SilentRequest ==
    ASSUME IInv, EInv, NEW c \in Client, NEW q,
           request' = [request EXCEPT ![c] = q],
           request[c].phase # "touch",
           q # Idle => q.at <= q.stamp /\ q.stamp <= now,
           q.phase = "expire" => q.token \in idleSeen,
           UNCHANGED <<now, rows, sweep, loggedOut, lastUse, idleSeen>>
    PROVE  EInv'
<1>1. TypeOK
  BY DEF IInv
<1>2. Stamped' /\ Marked'
  BY <1>1, RequestMarked
<1>3. \A d \in Client : request[d].phase = "touch" => request'[d] = request[d]
  BY <1>1 DEF TypeOK
<1> QED BY <1>1, <1>2, <1>3, QuietStep

LEMMA LoginKeepsEInv ==
    ASSUME IInv, EInv, NEW c \in Client, NEW u \in User, Login(c, u)
    PROVE  EInv'
<1> DEFINE q == InFlight(<<u, now>>, "signed", FALSE, FALSE, now)
<1>1. now \in Int
  BY DEF IInv, TypeOK, Time
<1>2. q.at <= q.stamp /\ q.stamp <= now /\ q.phase # "expire"
  BY <1>1 DEF InFlight
<1>3. /\ request' = [request EXCEPT ![c] = q] /\ request[c].phase # "touch"
      /\ UNCHANGED <<now, rows, sweep, loggedOut, lastUse, idleSeen>>
  BY DEF Login, Idle
<1> HIDE DEF q
<1> QED BY <1>2, <1>3, SilentRequest

LEMMA ArriveKeepsEInv ==
    ASSUME IInv, EInv, NEW c \in Client, NEW t \in Token,
           NEW logout \in BOOLEAN, Arrive(c, t, logout)
    PROVE  EInv'
<1> DEFINE q == InFlight(t, "arrived", logout, Terminated(t), now)
<1>1. now \in Int
  BY DEF IInv, TypeOK, Time
<1>2. q.at <= q.stamp /\ q.stamp <= now /\ q.phase # "expire"
  BY <1>1 DEF InFlight
<1>3. /\ request' = [request EXCEPT ![c] = q] /\ request[c].phase # "touch"
      /\ UNCHANGED <<now, rows, sweep, loggedOut, lastUse, idleSeen>>
  BY DEF Arrive, Idle
<1> HIDE DEF q
<1> QED BY <1>2, <1>3, SilentRequest

\* A request is served, refused or returns without having touched anything.
LEMMA PassKeepsEInv ==
    ASSUME IInv, EInv, NEW c \in Client,
           FindNothing(c) \/ FindTerminated(c) \/ Reply(c)
    PROVE  EInv'
<1> DEFINE q == [request[c] EXCEPT !.phase = AfterCheck(request[c]),
                                   !.stamp = now,
                                   !.blind = HasRow(request[c].token)]
<1>1. /\ request[c] # Idle /\ request[c] \in Request
      /\ request[c].phase # "touch" /\ now \in Int
  BY NotIdle, RequestFacts
  DEF FindNothing, FindTerminated, Reply, IInv, TypeOK, Time
<1>2. UNCHANGED <<now, rows, sweep, loggedOut, lastUse, idleSeen>>
  BY DEF FindNothing, FindTerminated, Reply
<1>3. CASE FindNothing(c)
  <2>1. q.at <= q.stamp /\ q.stamp <= now /\ q.phase # "expire"
    BY <1>1, RequestFacts DEF Good, Request, AfterCheck
  <2>2. request' = [request EXCEPT ![c] = q]
    BY <1>3 DEF FindNothing
  <2> HIDE DEF q
  <2> QED BY <1>1, <1>2, <2>1, <2>2, SilentRequest
<1>4. CASE FindTerminated(c) \/ Reply(c)
  <2>1. request' = [request EXCEPT ![c] = Idle] /\ Idle.phase # "expire"
    BY <1>4 DEF FindTerminated, Reply, Idle
  <2> QED BY <1>1, <1>2, <2>1, SilentRequest
<1> QED BY <1>3, <1>4

\* CheckSession on an active session: it is expired only if it was idle, and
\* its use is noted only together with the touch that will record it.
LEMMA FindActiveKeepsEInv ==
    ASSUME StatementsAreFast, IInv, EInv, NEW c \in Client, FindActive(c)
    PROVE  EInv'
<1> DEFINE t == request[c].token
<1>1. /\ request[c] # Idle /\ request[c] \in Request /\ t \in Token
      /\ request[c].phase = "arrived" /\ Active(t)
      /\ request[c].at <= now
      /\ TypeOK /\ now \in Time /\ now \in Int
  BY NotIdle, RequestFacts DEF FindActive, IInv, TypeOK, Time, Good
<1>2. UNCHANGED <<now, rows, sweep, loggedOut, idleSeen>>
  BY DEF FindActive
<1>3. CASE Overdue(t)
  <2> DEFINE q == [request[c] EXCEPT !.phase = "expire", !.stamp = now]
  <2>1. /\ request' = [request EXCEPT ![c] = q]
        /\ UNCHANGED lastUse
    BY <1>3 DEF FindActive, Goto
  <2>2. t \in idleSeen
    BY <1>1, <1>3, NotOverdue
  <2>3. q.at <= q.stamp /\ q.stamp <= now /\ q.token \in idleSeen
    BY <1>1, <2>2 DEF Request
  <2> HIDE DEF q
  <2> QED BY <1>1, <1>2, <2>1, <2>3, SilentRequest
<1>4. CASE ~Overdue(t)
  <2> DEFINE q == [request[c] EXCEPT !.phase = "touch", !.stamp = now]
  <2>1. /\ request' = [request EXCEPT ![c] = q]
        /\ lastUse' = [lastUse EXCEPT ![t] = now]
    BY <1>4 DEF FindActive, Goto
  <2>2. /\ q.at <= q.stamp /\ q.stamp <= now /\ q.stamp = now
        /\ q.phase = "touch" /\ q.token = t
    BY <1>1 DEF Request
  <2> HIDE DEF q
  <2>3. Stamped' /\ Marked'
    BY <1>1, <1>2, <2>1, <2>2, RequestMarked
  <2>4. \A d \in Client : request[d].phase = "touch" => request'[d] = request[d]
    BY <1>1, <2>1 DEF TypeOK
  <2>5. \A u \in Token : Touching(u) => Touching(u)'
    BY <1>2, <2>4 DEF Touching
  <2>6. InUse'
    <3> SUFFICES ASSUME NEW u \in Token, rows[u].status = "active",
                        u \notin idleSeen
                 PROVE  Fresh(u)'
      BY <1>2 DEF InUse, Active
    <3>1. CASE u = t
      <4>1. lastUse'[u] = now
        BY <1>1, <2>1, <3>1 DEF TypeOK
      <4>2. \/ now - rows[u].lastAccess <= IdleTimeout - HandlerTime
            \/ Touching(u)
        BY <1>1, <3>1, NotOverdue
      <4>3. request'[c] = q /\ q.token = u
        BY <1>1, <2>1, <2>2, <3>1 DEF TypeOK
      <4>4. Touching(u)'
        <5>1. CASE now - rows[u].lastAccess <= IdleTimeout - HandlerTime
          BY <1>2, <2>2, <4>3, <5>1 DEF Touching
        <5>2. CASE Touching(u)
          BY <2>5, <5>2
        <5> QED BY <4>2, <5>1, <5>2
      <4>5. now <= now /\ now - now <= IdleTimeout - 2 * HandlerTime
        BY <1>1 DEF StatementsAreFast
      <4> QED BY <1>2, <4>1, <4>4, <4>5 DEF Fresh
    <3>2. CASE u # t
      <4>1. lastUse'[u] = lastUse[u]
        BY <1>1, <2>1, <3>2 DEF TypeOK
      <4>2. Fresh(u)
        BY DEF EInv, InUse, Active
      <4> QED BY <1>2, <2>5, <4>1, <4>2 DEF Fresh
    <3> QED BY <3>1, <3>2
  <2>7. NoEarlyExpiry'
    BY <1>2 DEF EInv, NoEarlyExpiry
  <2> QED BY <2>3, <2>6, <2>7 DEF EInv
<1> QED BY <1>3, <1>4

\* A touch lands: the row lags behind the latest use by no more than the
\* time the touch was in flight.
LEMMA TouchKeepsEInv ==
    ASSUME StatementsAreFast, IInv, EInv, NEW c \in Client, UpdateLastAccess(c)
    PROVE  EInv'
<1> DEFINE t == request[c].token
           stamp == request[c].stamp
           q == [request[c] EXCEPT !.phase = AfterCheck(request[c]),
                                   !.stamp = now]
<1>1. /\ request[c] # Idle /\ request[c] \in Request /\ t \in Token
      /\ request[c].phase = "touch" /\ stamp \in Time /\ stamp \in Int
      /\ request[c].at \in Int
      /\ request[c].at <= now /\ now - request[c].at <= HandlerTime
      /\ request[c].at <= stamp
      /\ TypeOK /\ now \in Int
  BY NotIdle, RequestFacts
  DEF UpdateLastAccess, IInv, TypeOK, Time, Good, EInv, Stamped, Request
<1>2. /\ rows' = Touched(t, stamp)
      /\ request' = [request EXCEPT ![c] = q]
      /\ UNCHANGED <<now, sweep, loggedOut, lastUse, idleSeen>>
  BY DEF UpdateLastAccess, StatementsAreFast, Goto
<1>3. q.at <= q.stamp /\ q.stamp <= now /\ q.phase # "expire"
  BY <1>1 DEF AfterCheck, Request
<1> HIDE DEF q
<1>4. Stamped' /\ Marked'
  BY <1>1, <1>2, <1>3, RequestMarked
<1>5. \A u \in Token : u # t => rows'[u] = rows[u]
  BY <1>1, <1>2 DEF Touched, TypeOK
<1>6. HasRow(t) => rows'[t] = [rows[t] EXCEPT !.lastAccess = stamp]
  BY <1>1, <1>2 DEF Touched, TypeOK
<1>7. ~HasRow(t) => rows'[t] = rows[t]
  BY <1>1, <1>2 DEF Touched, TypeOK
<1>8. HasRow(t) => rows[t] \in Row
  BY <1>1, RowStatus
<1>9. InUse'
  <2> SUFFICES ASSUME NEW u \in Token, rows'[u].status = "active",
                      u \notin idleSeen
               PROVE  Fresh(u)'
    BY <1>2 DEF InUse, Active
  <2>1. rows[u].status = "active"
    BY <1>5, <1>6, <1>7, <1>8 DEF Row
  <2>2. Fresh(u)
    BY <2>1 DEF EInv, InUse, Active
  <2>3. CASE u = t
    <3>1. HasRow(t)
      BY <2>1, <2>3 DEF HasRow, NoRow
    <3>2. rows'[t].lastAccess = stamp
      BY <1>6, <1>8, <3>1 DEF Row
    <3>3. lastUse[t] \in Int
      BY <1>1 DEF TypeOK, Time
    <3>4. lastUse[t] - stamp <= HandlerTime
      BY <1>1, <2>2, <2>3, <3>3 DEF Fresh
    <3> QED BY <1>2, <2>2, <2>3, <3>2, <3>4 DEF Fresh
  <2>4. CASE u # t
    <3>1. rows'[u] = rows[u]
      BY <1>5, <2>4
    <3>2. Touching(u) => Touching(u)'
      BY <1>1, <1>2, <2>4, <3>1 DEF Touching, TypeOK
    <3> QED BY <1>2, <2>2, <3>1, <3>2 DEF Fresh
  <2> QED BY <2>3, <2>4
<1>10. NoEarlyExpiry'
  <2> SUFFICES ASSUME NEW u \in Token, rows'[u].status = "expired",
                      ~rows'[u].kickedBy
               PROVE  u \in idleSeen \union loggedOut
    BY <1>2 DEF NoEarlyExpiry
  <2>1. rows[u].status = "expired" /\ ~rows[u].kickedBy
    BY <1>5, <1>6, <1>7, <1>8 DEF Row
  <2> QED BY <2>1 DEF EInv, NoEarlyExpiry
<1> QED BY <1>4, <1>9, <1>10 DEF EInv

\* A row that CheckSession or a logout expires was idle, or is logged out.
LEMMA ExpireKeepsEInv ==
    ASSUME IInv, EInv, NEW c \in Client, ExpireIdle(c) \/ Logout(c)
    PROVE  EInv'
<1> DEFINE t == request[c].token
<1>1. /\ t \in Token /\ request[c].phase # "touch" /\ TypeOK
  BY NotIdle, RequestFacts DEF ExpireIdle, Logout, IInv
<1>2. /\ request' = [request EXCEPT ![c] = Idle]
      /\ loggedOut \subseteq loggedOut'
      /\ UNCHANGED <<now, sweep, lastUse, idleSeen>>
  BY DEF ExpireIdle, Logout
<1>3. Stamped' /\ Marked'
  BY <1>1, <1>2, RequestMarked DEF Idle
<1>4. \A d \in Client : request[d].phase = "touch" => request'[d] = request[d]
  BY <1>1, <1>2 DEF TypeOK
<1>5. \/ rows' = rows
      \/ /\ t \in idleSeen \union loggedOut'
         /\ \E stamp : rows' = Expired(t, stamp)
  BY DEF ExpireIdle, Logout, EInv, Marked
<1>6. \A u \in Token : u # t => rows'[u] = rows[u]
  BY <1>1, <1>5 DEF Expired, TypeOK
<1>7. rows'[t].status = "active" => rows'[t] = rows[t]
  <2>1. Active(t) => rows[t] \in Row
    BY <1>1, RowStatus
  <2>2. CASE rows' = rows
    BY <2>2
  <2>3. ASSUME NEW stamp, rows' = Expired(t, stamp)
        PROVE  rows'[t] = rows[t] \/ rows'[t].status = "expired"
    BY <1>1, <2>1, <2>3 DEF Expired, TypeOK, Row
  <2> QED BY <1>5, <2>2, <2>3
<1> QED BY <1>1, <1>2, <1>3, <1>4, <1>5, <1>6, <1>7, QuietStep

\* A new session is used when it is opened.
LEMMA CreateSessionKeepsEInv ==
    ASSUME StatementsAreFast, IInv, EInv, NEW c \in Client, CreateSession(c)
    PROVE  EInv'
<1> DEFINE t == request[c].token
           new == [status |-> "active", kickedBy |-> FALSE,
                   loginAt |-> now, lastAccess |-> now, endedAt |-> now]
<1>1. /\ t \in Token /\ request[c].phase # "touch"
      /\ TypeOK /\ now \in Int
  BY NotIdle, RequestFacts DEF CreateSession, IInv, TypeOK, Time
<1>2. /\ request' = [request EXCEPT ![c] = Idle]
      /\ UNCHANGED <<now, sweep, loggedOut, idleSeen>>
  BY DEF CreateSession
<1>3. CASE UNCHANGED <<rows, opened, lastUse>>
  BY <1>1, <1>2, <1>3, SilentRequest DEF Idle
<1>4. CASE Insert(t)
  <2>1. Stamped' /\ Marked'
    BY <1>1, <1>2, RequestMarked DEF Idle
  <2>2. \A u \in Token : u # t => rows'[u] = rows[u] /\ lastUse'[u] = lastUse[u]
    BY <1>1, <1>4 DEF Insert, TypeOK
  <2>3. rows'[t] = new /\ lastUse'[t] = now
    BY <1>1, <1>4 DEF Insert, TypeOK
  <2>4. InUse'
    <3> SUFFICES ASSUME NEW u \in Token, rows'[u].status = "active",
                        u \notin idleSeen
                 PROVE  Fresh(u)'
      BY <1>2 DEF InUse, Active
    <3>1. CASE u = t
      <4>1. now - now <= IdleTimeout - 2 * HandlerTime /\ now - now <= HandlerTime
        BY <1>1 DEF StatementsAreFast
      <4> QED BY <1>1, <1>2, <2>3, <3>1, <4>1 DEF Fresh
    <3>2. CASE u # t
      <4>1. Fresh(u)
        BY <2>2, <3>2 DEF EInv, InUse, Active
      <4>2. Touching(u) => Touching(u)'
        BY <1>1, <1>2, <2>2, <3>2 DEF Touching, TypeOK
      <4> QED BY <1>2, <2>2, <3>2, <4>1, <4>2 DEF Fresh
    <3> QED BY <3>1, <3>2
  <2>5. NoEarlyExpiry'
    BY <1>2, <2>2, <2>3 DEF EInv, NoEarlyExpiry
  <2> QED BY <2>1, <2>4, <2>5 DEF EInv
<1> QED BY <1>3, <1>4 DEF CreateSession

\* A kick, and a purge, make no session expired.
LEMMA KickKeepsEInv ==
    ASSUME IInv, EInv, NEW a \in Admin,
           KickUpdate(a) \/ \E t \in Token : KickSession(a, t)
    PROVE  EInv'
<1>1. /\ TypeOK
      /\ UNCHANGED <<now, request, sweep, loggedOut, lastUse, idleSeen>>
  BY DEF IInv, KickUpdate, KickSession
<1>2. Stamped' /\ Marked'
  BY <1>1 DEF EInv, Stamped, Marked
<1>3. CASE rows' = rows
  BY <1>1, <1>2, <1>3, QuietStep
<1>4. CASE rows' = Kicked(kick[a].token)
  <2>1. \A t \in Token : HasRow(t) => rows[t] \in Row
    BY <1>1, RowStatus
  <2>2. \A t \in Token : rows'[t] = rows[t] \/ rows'[t].status = "kicked"
    BY <1>1, <1>4, <2>1 DEF Kicked, TypeOK, Row
  <2> QED BY <1>1, <1>2, <2>2, QuietStep
<1> QED BY <1>3, <1>4 DEF KickUpdate, KickSession

LEMMA PurgeKeepsEInv ==
    ASSUME IInv, EInv, DeleteSessionsBefore
    PROVE  EInv'
<1>1. /\ TypeOK
      /\ UNCHANGED <<now, request, sweep, loggedOut, lastUse, idleSeen>>
  BY DEF IInv, DeleteSessionsBefore
<1>2. Stamped' /\ Marked'
  BY <1>1 DEF EInv, Stamped, Marked
<1>3. \A t \in Token : rows'[t] = rows[t] \/ rows'[t].status = "none"
  BY <1>1, PurgedRow DEF NoRow
<1> QED BY <1>1, <1>2, <1>3, QuietStep

\* The idle job expires what it selected, and selects what was idle.
LEMMA SweepKeepsEInv ==
    ASSUME StatementsAreFast, IInv, EInv, NEW s \in Sweeper,
           SweepSelect(s) \/ SweepUpdate(s)
    PROVE  EInv'
<1>1. /\ TypeOK
      /\ UNCHANGED <<now, request, loggedOut, lastUse, idleSeen>>
  BY DEF IInv, SweepSelect, SweepUpdate
<1>2. Stamped'
  BY <1>1 DEF EInv, Stamped
<1>3. CASE SweepSelect(s)
  <2> DEFINE k == [phase |-> "update", ids |-> OverdueSessions, at |-> now]
  <2>1. OverdueSessions \subseteq idleSeen
    BY NotOverdue DEF OverdueSessions
  <2>2. k.ids \subseteq idleSeen
    BY <2>1
  <2>3. sweep' = [sweep EXCEPT ![s] = k] /\ rows' = rows
    BY <1>3 DEF SweepSelect
  <2> HIDE DEF k
  <2>4. Marked'
    BY <1>1, <2>2, <2>3 DEF EInv, Marked, TypeOK
  <2> QED BY <1>1, <1>2, <2>3, <2>4, QuietStep
<1>4. CASE SweepUpdate(s)
  <2>1. sweep' = [sweep EXCEPT ![s] = Idle] /\ sweep[s] # Idle
    BY <1>4 DEF SweepUpdate, Idle
  <2>2. Marked' /\ sweep[s].ids \subseteq idleSeen
    BY <1>1, <2>1 DEF EInv, Marked, TypeOK
  <2>3. \A t \in Token : HasRow(t) => rows[t] \in Row
    BY <1>1, RowStatus
  <2>4. \A t \in Token :
            \/ rows'[t] = rows[t]
            \/ rows'[t].status = "expired" /\ t \in sweep[s].ids
    <3> SUFFICES ASSUME NEW t \in Token, rows'[t] # rows[t]
                 PROVE  rows'[t].status = "expired" /\ t \in sweep[s].ids
      OBVIOUS
    <3>1. /\ t \in sweep[s].ids /\ HasRow(t)
          /\ rows'[t] = [rows[t] EXCEPT !.status = "expired", !.endedAt = EndedAt(t)]
      BY <1>4 DEF SweepUpdate, WithStatus
    <3> QED BY <2>3, <3>1 DEF Row
  <2> QED BY <1>1, <1>2, <2>2, <2>4, QuietStep
<1> QED BY <1>3, <1>4

\* Time passes: a session that goes unused for too long is remembered.
LEMMA TickKeepsEInv ==
    ASSUME StatementsAreFast, IInv, EInv, Tick
    PROVE  EInv'
<1>1. TypeOK /\ now \in Int
  BY DEF IInv, TypeOK, Time
<1>2. /\ now' = now + 1
      /\ idleSeen' = idleSeen \union
                       {t \in Token : Active(t) /\ NearlyIdle(t, now + 1)}
      /\ UNCHANGED <<rows, request, sweep, loggedOut, lastUse>>
  BY DEF Tick
<1>3. Stamped'
  <2>1. \A c \in Client : request[c] # Idle => request[c].stamp \in Int
    BY RequestFacts DEF Time
  <2> QED BY <1>1, <1>2, <2>1 DEF EInv, Stamped
<1>4. Marked' /\ NoEarlyExpiry'
  BY <1>2 DEF EInv, Marked, NoEarlyExpiry
<1>5. InUse'
  <2> SUFFICES ASSUME NEW t \in Token, Active(t), t \notin idleSeen'
               PROVE  Fresh(t)'
    BY <1>2 DEF InUse, Active
  <2>1. Fresh(t) /\ lastUse[t] \in Int /\ ~NearlyIdle(t, now + 1)
    BY <1>1, <1>2 DEF EInv, InUse, TypeOK, Time
  <2>2. Touching(t) => Touching(t)'
    BY <1>2 DEF Touching
  <2> QED BY <1>1, <1>2, <2>1, <2>2 DEF Fresh, NearlyIdle
<1> QED BY <1>3, <1>4, <1>5 DEF EInv

LEMMA NextKeepsEInv ==
    ASSUME StatementsAreFast, IInv, EInv, [Next]_vars
    PROVE  EInv'
<1>1. ASSUME NEW c \in Client, Serve(c) PROVE EInv'
  BY <1>1, CreateSessionKeepsEInv, PassKeepsEInv, FindActiveKeepsEInv,
     ExpireKeepsEInv, TouchKeepsEInv DEF Serve
<1>2. CASE UNCHANGED vars
  <2>1. TypeOK /\ Stamped' /\ Marked'
    BY <1>2 DEF vars, IInv, EInv, Stamped, Marked
  <2> QED BY <1>2, <2>1, QuietStep DEF vars
<1> QED BY <1>1, <1>2, LoginKeepsEInv, ArriveKeepsEInv, KickKeepsEInv,
           SweepKeepsEInv, PurgeKeepsEInv, TickKeepsEInv DEF Next

LEMMA InitEInv == Init => EInv
BY DEF Init, EInv, Stamped, InUse, Active, NoRow, Marked, Idle, NoEarlyExpiry

\* When the database answers and two statements take no longer than the idle
\* timeout, a session nobody logged out or kicked is expired only if it had
\* gone unused (CheckSession, ExpireInactiveSessions), for any number of
\* concurrent requests and jobs.
THEOREM NoEarlyExpiryAlways ==
    ASSUME StatementsAreFast
    PROVE  Spec => []NoEarlyExpiry
<1>1. IInv /\ EInv /\ [Next]_vars => EInv'
  BY NextKeepsEInv
<1>2. EInv => NoEarlyExpiry
  BY DEF EInv
<1> QED BY <1>1, <1>2, InitEInv, SessionsInvariant, PTL DEF Spec

=============================================================================
