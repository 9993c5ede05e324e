----------------------- MODULE ServiceAccountsProofs -----------------------
(***************************************************************************)
(* Theorems about ServiceAccounts, for any accounts, roles, tokens and     *)
(* requests.                                                               *)
(*                                                                         *)
(* The argument: a token belongs to the one request that generated it      *)
(* until this request hands it out, and to none afterwards, so nothing     *)
(* writes back a token that was handed out and replaced.  A row whose date *)
(* is not the one of its token is the first write of a creation that has   *)
(* not come to its second one, and hence has not handed the token out.     *)
(***************************************************************************)
EXTENDS ServiceAccounts, TLAPS

\* The phases tell apart what a request is.
LEMMA Kinds ==
    ASSUME NEW r \in Changing \union Calling \union {Idle}
    PROVE  /\ r \in Calling <=> r.phase \in {"find", "permissions"}
           /\ r = Idle <=> r.phase = "idle"
           /\ r \in Changing <=>
                r.phase \in {"inserted", "token", "reread", "existing",
                             "commit", "last"}
<1>1. r \in Calling => r.phase \in {"find", "permissions"}
  BY DEF Calling
<1>2. r \in Changing => r.phase \in {"inserted", "token", "reread", "existing",
                                     "commit", "last"}
  BY DEF Changing
<1>3. r = Idle => r.phase = "idle"
  BY DEF Idle
<1> QED BY <1>1, <1>2, <1>3

LEMMA RowKinds ==
    ASSUME TypeOK, NEW a \in Account
    PROVE  /\ rows[a] # NoRow <=> rows[a] \in Row
           /\ rows[a] # NoRow <=> rows[a].token \in Token
           /\ replica[a] # NoRow <=> replica[a].token \in Token
<1>1. rows[a] \in Row \union {NoRow} /\ replica[a] \in Row \union {NoRow}
  BY DEF TypeOK
<1>2. \A x \in Row : x.token \in Token
  BY DEF Row
<1>3. NoRow.token = None
  BY DEF NoRow
<1> QED BY <1>1, <1>2, <1>3, TokenAssumption

LEMMA InitIInv == Init => IInv
<1> SUFFICES ASSUME Init PROVE IInv
  OBVIOUS
<1>1. TypeOK
  BY DEF Init, TypeOK
<1>2. /\ \A q \in Request : request[q] = Idle /\ request[q].phase = "idle"
      /\ \A a \in Account : rows[a] = NoRow /\ replica[a] = NoRow
  BY DEF Init, Idle
<1>3. \A q \in Request : request[q] \notin Changing /\ request[q] \notin Calling
  BY <1>1, <1>2, Kinds DEF TypeOK
<1>4. TokensHaveOneOwner /\ DatesFollow /\ DeadStayDead
  BY <1>2, <1>3 DEF Init, TokensHaveOneOwner, DatesFollow, DeadStayDead, Carries
<1>5. RequestsHaveTokens /\ LastUpdateHolds
  BY <1>2 DEF RequestsHaveTokens, LastUpdateHolds
<1> QED BY <1>1, <1>4, <1>5 DEF IInv

-----------------------------------------------------------------------------
(***************************************************************************)
(* Steps that generate no token                                            *)
(***************************************************************************)
\* A request goes on, with the token it had if any, and leaves the tokens of
\* the table as they are.
LEMMA GotoKeepsIInv ==
    ASSUME IInv, NEW q \in Request, Goto(q, request'[q]),
           TypeOK', LastUpdateHolds',
           issued' = issued, replica' = replica, handed' = handed,
           \A a \in Account :
             /\ rows'[a] = NoRow <=> rows[a] = NoRow
             /\ rows[a] # NoRow => /\ rows'[a].token = rows[a].token
                                   /\ rows'[a].expires = rows[a].expires,
           request'[q].phase \in {"inserted", "token", "reread"}
             => request'[q].token \in Token,
           request'[q] \in Changing /\ request'[q].token # None =>
             /\ request[q] \in Changing
             /\ request'[q].token = request[q].token
             /\ request'[q].account = request[q].account
             /\ request[q].phase \in {"inserted", "token"}
                  => request'[q].phase \in {"inserted", "token"},
           request'[q] \in Calling /\ request'[q].dead =>
             /\ request'[q].phase = "find" /\ request'[q].token \in handed
             /\ ~Shows(rows, request'[q].token)
             /\ ~Shows(replica, request'[q].token)
    PROVE  IInv'
<1>1. \A p \in Request : p # q => request'[p] = request[p]
  BY DEF Goto, IInv, TypeOK
<1>2. TypeOK /\ TokensHaveOneOwner /\ DatesFollow /\ DeadStayDead
      /\ RequestsHaveTokens
  BY DEF IInv
<1>3. \A a \in Account : rows'[a].token = rows[a].token
  OBVIOUS
<1>4. \A p \in Request, t \in Token : Carries(p, t)' =>
        Carries(p, t) /\ request'[p].account = request[p].account
  BY <1>1, TokenAssumption DEF Carries
<1>5. TokensHaveOneOwner'
  <2>1. handed' \subseteq issued'
    BY <1>2 DEF TokensHaveOneOwner
  <2>2. \A a \in Account, R \in {rows', replica'} :
          R[a] # NoRow => R[a].token \in issued'
    BY <1>2, <1>3 DEF TokensHaveOneOwner
  <2>3. ASSUME NEW p \in Request, NEW t \in Token, Carries(p, t)'
        PROVE  /\ t \in issued' \ handed'
               /\ \A o \in Request : Carries(o, t)' => o = p
               /\ \A a \in Account : rows'[a].token = t => request'[p].account = a
    BY <1>2, <1>3, <1>4, <2>3 DEF TokensHaveOneOwner
  <2> QED BY <2>1, <2>2, <2>3 DEF TokensHaveOneOwner
<1>6. RequestsHaveTokens'
  BY <1>1, <1>2 DEF RequestsHaveTokens
<1>7. DatesFollow'
  <2> SUFFICES ASSUME NEW a \in Account, rows'[a] # NoRow
               PROVE  \/ rows'[a].expires = (rows'[a].token \in Dated)
                      \/ /\ rows'[a].token \notin handed'
                         /\ \A p \in Request : Carries(p, rows[a].token)'
                              => request'[p].phase \in {"inserted", "token"}
    BY DEF DatesFollow
  <2>1. rows[a] # NoRow /\ rows'[a].token = rows[a].token
        /\ rows'[a].expires = rows[a].expires
    OBVIOUS
  <2>2. rows[a].token \in Token
    BY <1>2, <2>1, RowKinds
  <2>3. ASSUME NEW p \in Request, Carries(p, rows[a].token)',
               request[p].phase \in {"inserted", "token"}
        PROVE  request'[p].phase \in {"inserted", "token"}
    BY <1>1, <2>2, <2>3, TokenAssumption DEF Carries
  <2> QED BY <1>2, <1>4, <2>1, <2>2, <2>3 DEF DatesFollow
<1>8. DeadStayDead'
  <2>1. ASSUME NEW t PROVE Shows(rows', t) <=> Shows(rows, t)
    BY <1>3 DEF Shows
  <2> QED BY <1>1, <1>2, <2>1 DEF DeadStayDead
<1> QED BY <1>5, <1>6, <1>7, <1>8 DEF IInv

\* The same for a step that leaves the table alone.
LEMMA OnlyRequestKeepsIInv ==
    ASSUME IInv, NEW q \in Request, NEW r, Goto(q, r),
           r \in Changing \union Calling \union {Idle},
           UNCHANGED <<rows, spent, replica>>, UNCHANGED <<issued, handed, asked>>,
           r.phase \in {"inserted", "token", "reread"} => r.token \in Token,
           r \in Changing /\ r.token # None =>
             /\ request[q] \in Changing
             /\ r.token = request[q].token /\ r.account = request[q].account
             /\ request[q].phase \in {"inserted", "token"}
                  => r.phase \in {"inserted", "token"},
           r \in Calling /\ r.dead =>
             /\ r.phase = "find" /\ r.token \in handed
             /\ ~Shows(rows, r.token) /\ ~Shows(replica, r.token)
    PROVE  IInv'
<1>1. TypeOK /\ LastUpdateHolds
  BY DEF IInv
<1>2. request' = [request EXCEPT ![q] = r] /\ request'[q] = r
  BY <1>1 DEF Goto, TypeOK
<1>3. TypeOK'
  BY <1>1, <1>2 DEF TypeOK
<1>4. LastUpdateHolds'
  BY <1>1 DEF LastUpdateHolds
<1>5. Goto(q, request'[q])
  BY <1>2 DEF Goto
<1> QED BY <1>2, <1>3, <1>4, <1>5, GotoKeepsIInv

LEMMA FailKeepsIInv ==
    ASSUME IInv, NEW q \in Request, End(q), UNCHANGED table,
           UNCHANGED <<issued, handed, asked>>
    PROVE  IInv'
<1>1. Idle.phase = "idle" /\ Idle \in Changing \union Calling \union {Idle}
  BY DEF Idle
<1>2. Idle \notin Changing /\ Idle \notin Calling
  BY <1>1, Kinds
<1>3. Goto(q, Idle) /\ UNCHANGED <<rows, spent, replica>>
  BY DEF End, table
<1> HIDE DEF Idle
<1> QED BY <1>1, <1>2, <1>3, OnlyRequestKeepsIInv

LEMMA AfterInsertKeepsIInv ==
    ASSUME IInv, NEW q \in Request, AfterInsert(q)
    PROVE  IInv'
<1> DEFINE r == [request[q] EXCEPT !.phase = "token"]
<1>1. request[q] \in Changing /\ request[q].token \in Token
  BY Kinds DEF AfterInsert, In, IInv, TypeOK, RequestsHaveTokens
<1>2. /\ r \in Changing /\ r.phase = "token" /\ r.token = request[q].token
      /\ r.account = request[q].account
  BY <1>1 DEF Changing
<1>3. r \notin Calling
  BY <1>2, Kinds
<1>4. Goto(q, r) /\ UNCHANGED <<rows, spent, replica>>
      /\ UNCHANGED <<issued, handed, asked>>
  BY DEF AfterInsert, table
<1> HIDE DEF r
<1> QED BY <1>1, <1>2, <1>3, <1>4, OnlyRequestKeepsIInv

\* Goes on to a phase behind the writes of a token.
LEMMA LaterKeepsIInv ==
    ASSUME IInv, NEW q \in Request, NEW r \in Changing, Goto(q, r),
           UNCHANGED <<rows, spent, replica>>,
           UNCHANGED <<issued, handed, asked>>,
           request[q] \in Changing,
           request[q].phase \in {"reread", "existing", "commit"},
           r.phase \in {"existing", "commit", "last"},
           r.token = request[q].token, r.account = request[q].account
    PROVE  IInv'
<1>1. r \notin Calling
  BY Kinds
<1> QED BY <1>1, OnlyRequestKeepsIInv

LEMMA ReadExistingKeepsIInv ==
    ASSUME IInv, NEW q \in Request, ReadExisting(q)
    PROVE  IInv'
<1> DEFINE r == [request[q] EXCEPT !.phase = "commit",
                                   !.existing = RolesOf(request[q].account)]
<1>1. request[q] \in Changing /\ request[q].phase = "existing"
  BY Kinds DEF ReadExisting, In, IInv, TypeOK
<1>2. RolesOf(request[q].account) \in SUBSET Role
  BY <1>1, RowKinds DEF RolesOf, IInv, Row, Changing
<1>3. /\ r \in Changing /\ r.phase = "commit" /\ r.token = request[q].token
      /\ r.account = request[q].account
  BY <1>1, <1>2 DEF Changing
<1>4. Goto(q, r) /\ UNCHANGED <<rows, spent, replica>>
      /\ UNCHANGED <<issued, handed, asked>>
  BY DEF ReadExisting, table
<1> HIDE DEF r
<1> QED BY <1>1, <1>3, <1>4, LaterKeepsIInv

LEMMA UpdateKeepsIInv ==
    ASSUME IInv, NEW q \in Request, NEW a \in Account, UpdateServiceAccount(q, a)
    PROVE  IInv'
<1>1. PICK R \in SUBSET Role, d \in BOOLEAN :
        Begin(q, IF R = {} THEN "commit" ELSE "existing", a, None, R, d)
  BY DEF UpdateServiceAccount
<1> DEFINE r == [phase |-> IF R = {} THEN "commit" ELSE "existing",
                 account |-> a, token |-> None, roles |-> R,
                 disabled |-> d, existing |-> {}]
<1>2. Goto(q, r)
  BY <1>1 DEF Begin
<1>3. r \in Changing /\ r.phase \in {"commit", "existing"} /\ r.token = None
  BY DEF Changing
<1>4. r \notin Calling
  BY <1>3, Kinds
<1>5. UNCHANGED <<rows, spent, replica>> /\ UNCHANGED <<issued, handed, asked>>
  BY DEF UpdateServiceAccount, table
<1> HIDE DEF r
<1> QED BY <1>2, <1>3, <1>4, <1>5, OnlyRequestKeepsIInv

LEMMA AuthorizeKeepsIInv ==
    ASSUME IInv, NEW q \in Request, AuthorizeServiceAccount(q)
    PROVE  IInv'
<1>1. PICK t \in handed :
        Goto(q, [phase |-> "find", token |-> t,
                 dead |-> ~Shows(rows, t) /\ ~Shows(replica, t)])
  BY DEF AuthorizeServiceAccount
<1> DEFINE r == [phase |-> "find", token |-> t,
                 dead |-> ~Shows(rows, t) /\ ~Shows(replica, t)]
<1>2. /\ r \in Calling /\ r.phase = "find" /\ r.token = t
      /\ r.dead = (~Shows(rows, t) /\ ~Shows(replica, t))
  BY DEF Calling, IInv, TypeOK
<1>3. r \notin Changing
  BY <1>2, Kinds
<1>4. UNCHANGED <<rows, spent, replica>> /\ UNCHANGED <<issued, handed, asked>>
  BY DEF AuthorizeServiceAccount, table
<1>5. Goto(q, r)
  BY <1>1
<1> HIDE DEF r
<1> QED BY <1>2, <1>3, <1>4, <1>5, OnlyRequestKeepsIInv

\* A dead token is not found.
LEMMA FindKeepsIInv ==
    ASSUME IInv, NEW q \in Request, FindByToken(q)
    PROVE  IInv'
<1> DEFINE r == [request[q] EXCEPT !.phase = "permissions"]
<1>1. request[q] \in Calling
  BY Kinds DEF FindByToken, In, IInv, TypeOK
<1>2. Shows(replica, request[q].token)
  BY DEF FindByToken, Matches, Shows
<1>3. ~request[q].dead
  BY <1>1, <1>2 DEF IInv, DeadStayDead
<1>4. /\ r \in Calling /\ r.phase = "permissions" /\ r.dead = request[q].dead
  BY <1>1 DEF Calling
<1>5. r \notin Changing
  BY <1>4, Kinds
<1>6. Goto(q, r) /\ UNCHANGED <<rows, spent, replica>>
      /\ UNCHANGED <<issued, handed, asked>>
  BY DEF FindByToken, table
<1> HIDE DEF r
<1> QED BY <1>3, <1>4, <1>5, <1>6, OnlyRequestKeepsIInv

\* The flag and the roles are written, and what was asked for with them.
LEMMA CommitWrites ==
    ASSUME TypeOK, LastUpdateHolds, NEW q \in Request, Commit(q),
           request[q] \in Changing
    PROVE  /\ rows' \in [Account -> Row \union {NoRow}]
           /\ asked' \in [Account -> Wanted \union {Unclear}]
           /\ LastUpdateHolds'
           /\ \A a \in Account :
                /\ rows'[a] = NoRow <=> rows[a] = NoRow
                /\ rows[a] # NoRow => /\ rows'[a].token = rows[a].token
                                      /\ rows'[a].expires = rows[a].expires
<1> DEFINE c == request[q]
           a == c.account
           row == rows[a]
           before == asked[a]
           new == [row EXCEPT !.disabled = c.disabled,
                              !.roles = RolesAfter(c, row.roles)]
           ask == AskedBy(c, row, before)
<1>1. /\ c \in Changing /\ a \in Account /\ c.roles \in SUBSET Role
      /\ c.disabled \in BOOLEAN /\ c.existing \in SUBSET Role
  BY DEF Changing
<1>2. row # NoRow /\ row \in Row
  BY <1>1, RowKinds DEF Commit
<1>3. RolesAfter(c, row.roles) \in SUBSET Role
  BY <1>1, <1>2 DEF RolesAfter, Row
<1>4. /\ new \in Row /\ new.token = row.token /\ new.expires = row.expires
      /\ new.disabled = c.disabled /\ new.roles = RolesAfter(c, row.roles)
  BY <1>1, <1>2, <1>3 DEF Row
<1>5. new # NoRow
  <2>1. new.token \in Token
    BY <1>2, <1>4 DEF Row
  <2> QED BY <2>1, TokenAssumption DEF NoRow
<1>6. rows' = [rows EXCEPT ![a] = new] /\ asked' = [asked EXCEPT ![a] = ask]
  BY DEF Commit
<1>7. before \in Wanted \union {Unclear}
  BY <1>1 DEF TypeOK
<1>8. ask # Unclear => ask \in Wanted /\ ask.disabled = c.disabled
                       /\ ask.roles = RolesAfter(c, row.roles)
  <2> SUFFICES ASSUME ask # Unclear
               PROVE  ask \in Wanted /\ ask.disabled = c.disabled
                      /\ ask.roles = RolesAfter(c, row.roles)
    OBVIOUS
  <2>1. /\ c.roles # {} => c.existing = row.roles
        /\ c.token # None => c.disabled = row.disabled
    BY DEF AskedBy
  <2>2. RolesAfter(c, row.roles) = IF c.roles = {} THEN row.roles ELSE c.roles
    BY <2>1 DEF RolesAfter
  <2>3. before # Unclear => before \in Wanted
        /\ before.roles = row.roles /\ before.disabled = row.disabled
    BY <1>1, <1>2, <1>7 DEF LastUpdateHolds
  <2>4. CASE c.token = None /\ c.roles # {}
    <3>1. ask = [disabled |-> c.disabled, roles |-> c.roles]
      BY <2>1, <2>4 DEF AskedBy
    <3> QED BY <1>1, <2>2, <2>4, <3>1 DEF Wanted
  <2>5. CASE c.roles = {}
    <3>1. before # Unclear /\ ask = [before EXCEPT !.disabled = c.disabled]
      BY <2>1, <2>5 DEF AskedBy
    <3> HIDE DEF ask, before, c, row
    <3> QED BY <1>1, <2>2, <2>3, <2>5, <3>1 DEF Wanted
  <2>6. CASE c.roles # {} /\ c.token # None
    <3>1. before # Unclear /\ ask = [before EXCEPT !.roles = c.roles]
      BY <2>1, <2>6 DEF AskedBy
    <3> HIDE DEF ask, before, c, row
    <3> QED BY <1>1, <2>1, <2>2, <2>3, <2>6, <3>1 DEF Wanted
  <2> QED BY <2>4, <2>5, <2>6
<1> HIDE DEF new, ask, before, row, c
<1>9. /\ rows'[a] = new /\ asked'[a] = ask
      /\ \A b \in Account : b # a => rows'[b] = rows[b] /\ asked'[b] = asked[b]
  BY <1>1, <1>6 DEF TypeOK
<1>10. LastUpdateHolds'
  <2>1. ASSUME NEW b \in Account, b # a, rows'[b] # NoRow, asked'[b] # Unclear
        PROVE  rows'[b].roles = asked'[b].roles
               /\ rows'[b].disabled = asked'[b].disabled
    BY <1>9, <2>1 DEF LastUpdateHolds
  <2>2. asked'[a] # Unclear => rows'[a].roles = asked'[a].roles
               /\ rows'[a].disabled = asked'[a].disabled
    BY <1>4, <1>8, <1>9
  <2> QED BY <2>1, <2>2 DEF LastUpdateHolds
<1>11. rows' \in [Account -> Row \union {NoRow}]
  BY <1>1, <1>4, <1>6 DEF TypeOK
<1>12. asked' \in [Account -> Wanted \union {Unclear}]
  BY <1>1, <1>6, <1>8 DEF TypeOK
<1>13. rows[a] = row
  BY DEF row
<1> QED BY <1>2, <1>4, <1>5, <1>9, <1>10, <1>11, <1>12, <1>13

LEMMA CommitKeepsIInv ==
    ASSUME IInv, NEW q \in Request, Commit(q)
    PROVE  IInv'
<1> DEFINE r == [request[q] EXCEPT !.phase = "last"]
<1>1. request[q] \in Changing /\ request[q].phase = "commit"
  BY Kinds DEF Commit, In, IInv, TypeOK
<1>2. /\ r \in Changing /\ r.phase = "last" /\ r.token = request[q].token
      /\ r.account = request[q].account
  BY <1>1 DEF Changing
<1>3. r \notin Calling
  BY <1>2, Kinds
<1>4. Goto(q, r) /\ UNCHANGED <<spent, replica, issued, handed>>
  BY DEF Commit
<1>5. /\ rows' \in [Account -> Row \union {NoRow}]
      /\ asked' \in [Account -> Wanted \union {Unclear}]
      /\ LastUpdateHolds'
      /\ \A a \in Account :
           /\ rows'[a] = NoRow <=> rows[a] = NoRow
           /\ rows[a] # NoRow => /\ rows'[a].token = rows[a].token
                                 /\ rows'[a].expires = rows[a].expires
  BY <1>1, CommitWrites DEF IInv
<1> HIDE DEF r
<1>6. request' = [request EXCEPT ![q] = r] /\ request'[q] = r
  BY <1>4 DEF Goto, IInv, TypeOK
<1>7. TypeOK'
  BY <1>2, <1>4, <1>5, <1>6 DEF IInv, TypeOK
<1>8. Goto(q, request'[q])
  BY <1>6 DEF Goto
<1>9. /\ request'[q].phase \notin {"inserted", "token", "reread"}
      /\ request'[q] \notin Calling
      /\ request'[q].token = request[q].token
      /\ request'[q].account = request[q].account
      /\ request[q].phase \notin {"inserted", "token"}
  BY <1>1, <1>2, <1>3, <1>6
<1>10. issued' = issued /\ replica' = replica /\ handed' = handed
  BY <1>4
<1> QED BY <1>1, <1>5, <1>7, <1>8, <1>9, <1>10, GotoKeepsIInv

LEMMA DeleteKeepsIInv ==
    ASSUME IInv, NEW a \in Account, DeleteServiceAccount(a)
    PROVE  IInv'
<1>1. /\ rows' = [rows EXCEPT ![a] = NoRow]
      /\ asked' = [asked EXCEPT ![a] = Unclear]
      /\ UNCHANGED <<spent, replica, issued, handed, request>>
  BY DEF DeleteServiceAccount
<1>2. TypeOK /\ TokensHaveOneOwner /\ RequestsHaveTokens /\ DatesFollow
      /\ DeadStayDead /\ LastUpdateHolds
  BY DEF IInv
<1>3. /\ rows'[a] = NoRow /\ asked'[a] = Unclear
      /\ \A b \in Account : b # a => rows'[b] = rows[b] /\ asked'[b] = asked[b]
  BY <1>1, <1>2 DEF TypeOK
<1>4. NoRow.token = None
  BY DEF NoRow
<1>5. TypeOK'
  BY <1>1, <1>2 DEF TypeOK
<1>6. TokensHaveOneOwner'
  BY <1>1, <1>2, <1>3, <1>4, TokenAssumption DEF TokensHaveOneOwner, Carries
<1>7. RequestsHaveTokens'
  BY <1>1, <1>2 DEF RequestsHaveTokens
<1>8. DatesFollow'
  BY <1>1, <1>2, <1>3 DEF DatesFollow, Carries
<1>9. DeadStayDead'
  <2>1. ASSUME NEW t \in Token, Shows(rows', t) PROVE Shows(rows, t)
    BY <1>3, <1>4, <2>1, TokenAssumption DEF Shows
  <2>2. handed \subseteq Token
    BY <1>2 DEF TypeOK
  <2> QED BY <1>1, <1>2, <2>1, <2>2 DEF DeadStayDead
<1>10. LastUpdateHolds'
  BY <1>2, <1>3 DEF LastUpdateHolds
<1> QED BY <1>5, <1>6, <1>7, <1>8, <1>9, <1>10 DEF IInv

LEMMA ReplicateKeepsIInv ==
    ASSUME IInv, Replicate
    PROVE  IInv'
<1>1. replica' = rows /\ UNCHANGED <<rows, spent, issued, handed, request, asked>>
  BY DEF Replicate
<1>2. TypeOK /\ TokensHaveOneOwner /\ RequestsHaveTokens /\ DatesFollow
      /\ DeadStayDead /\ LastUpdateHolds
  BY DEF IInv
<1>3. TypeOK'
  BY <1>1, <1>2 DEF TypeOK
<1>4. TokensHaveOneOwner'
  BY <1>1, <1>2 DEF TokensHaveOneOwner, Carries
<1>5. RequestsHaveTokens' /\ DatesFollow' /\ LastUpdateHolds'
  BY <1>1, <1>2 DEF RequestsHaveTokens, DatesFollow, Carries, LastUpdateHolds
<1>6. DeadStayDead'
  BY <1>1, <1>2 DEF DeadStayDead, Shows
<1> QED BY <1>3, <1>4, <1>5, <1>6 DEF IInv

-----------------------------------------------------------------------------
(***************************************************************************)
(* Steps that hand a token out                                             *)
(***************************************************************************)
LEMMA HandOutKeepsIInv ==
    ASSUME IInv, NEW q \in Request, HandOut(q), UNCHANGED <<rows, spent, replica>>,
           UNCHANGED <<issued, asked>>,
           request[q] \in Changing, request[q].phase \in {"reread", "last"}
    PROVE  IInv'
<1> DEFINE t == request[q].token
<1>1. /\ request' = [request EXCEPT ![q] = Idle]
      /\ handed' = handed \union ({t} \ {None})
  BY DEF HandOut, End, Goto
<1>2. TypeOK /\ TokensHaveOneOwner /\ RequestsHaveTokens /\ DatesFollow
      /\ DeadStayDead /\ LastUpdateHolds
  BY DEF IInv
<1>3. t \in Token \union {None}
  BY DEF Changing
<1>4. request'[q] = Idle /\ \A p \in Request : p # q => request'[p] = request[p]
  BY <1>1, <1>2 DEF TypeOK
<1>5. Idle.phase = "idle" /\ Idle \notin Changing /\ Idle \notin Calling
  BY Kinds DEF Idle
<1>6. t \in Token => Carries(q, t)
  BY DEF Carries
<1> HIDE DEF t, Idle
<1>7. \A p \in Request, u \in Token : Carries(p, u)' =>
        Carries(p, u) /\ p # q /\ request'[p] = request[p]
  BY <1>4, <1>5 DEF Carries
<1>8. TypeOK'
  BY <1>1, <1>2, <1>3 DEF TypeOK
<1>9. TokensHaveOneOwner'
  <2>1. handed' \subseteq issued'
    BY <1>1, <1>2, <1>3, <1>6 DEF TokensHaveOneOwner
  <2>2. \A a \in Account, R \in {rows', replica'} :
          R[a] # NoRow => R[a].token \in issued'
    BY <1>2 DEF TokensHaveOneOwner
  <2>3. ASSUME NEW p \in Request, NEW u \in Token, Carries(p, u)'
        PROVE  /\ u \in issued' \ handed'
               /\ \A o \in Request : Carries(o, u)' => o = p
               /\ \A a \in Account : rows'[a].token = u => request'[p].account = a
    <3>1. Carries(p, u) /\ p # q /\ request'[p] = request[p]
      BY <1>7, <2>3
    <3>2. u # t
      BY <1>2, <1>6, <3>1 DEF TokensHaveOneOwner
    <3> QED BY <1>1, <1>2, <1>7, <3>1, <3>2 DEF TokensHaveOneOwner
  <2> QED BY <2>1, <2>2, <2>3 DEF TokensHaveOneOwner
<1>10. RequestsHaveTokens'
  BY <1>2, <1>4, <1>5 DEF RequestsHaveTokens
<1>11. DatesFollow'
  <2> SUFFICES ASSUME NEW a \in Account, rows'[a] # NoRow,
                      rows[a].expires # (rows[a].token \in Dated)
               PROVE  /\ rows'[a].token \notin handed'
                      /\ \A p \in Request : Carries(p, rows[a].token)'
                           => request'[p].phase \in {"inserted", "token"}
    BY DEF DatesFollow
  <2>1. /\ rows[a].token \notin handed /\ rows[a].token \in Token
        /\ \A p \in Request : Carries(p, rows[a].token)
             => request[p].phase \in {"inserted", "token"}
    BY <1>2, RowKinds DEF DatesFollow
  <2>2. rows[a].token # t
    BY <1>6, <2>1
  <2> QED BY <1>1, <1>7, <2>1, <2>2
<1>12. DeadStayDead'
  BY <1>1, <1>2, <1>4, <1>5 DEF DeadStayDead, Shows
<1>13. LastUpdateHolds'
  BY <1>2 DEF LastUpdateHolds
<1> QED BY <1>8, <1>9, <1>10, <1>11, <1>12, <1>13 DEF IInv

LEMMA AfterTokenKeepsIInv ==
    ASSUME IInv, NEW q \in Request, AfterToken(q)
    PROVE  IInv'
<1>1. request[q] \in Changing /\ request[q].phase = "reread"
  BY Kinds DEF AfterToken, In, IInv, TypeOK
<1>2. UNCHANGED <<rows, spent, replica>> /\ UNCHANGED <<issued, asked>>
  BY DEF AfterToken, table
<1>3. CASE request[q].roles = {}
  BY <1>1, <1>2, <1>3, HandOutKeepsIInv DEF AfterToken
<1>4. CASE request[q].roles # {}
  <2> DEFINE r == [request[q] EXCEPT
                     !.phase = "existing",
                     !.disabled = replica[request[q].account].disabled]
  <2>1. Goto(q, r) /\ UNCHANGED <<issued, handed, asked>>
    BY <1>4 DEF AfterToken
  <2>2. replica[request[q].account] \in Row
    BY <1>1 DEF AfterToken, Found, IInv, TypeOK, Changing
  <2>3. replica[request[q].account].disabled \in BOOLEAN
    BY <2>2 DEF Row
  <2>4. /\ r \in Changing /\ r.phase = "existing" /\ r.token = request[q].token
        /\ r.account = request[q].account
    BY <1>1, <2>3 DEF Changing
  <2> HIDE DEF r
  <2> QED BY <1>1, <1>2, <2>1, <2>4, LaterKeepsIInv
<1> QED BY <1>3, <1>4

LEMMA AfterCommitKeepsIInv ==
    ASSUME IInv, NEW q \in Request, AfterCommit(q)
    PROVE  IInv'
<1>1. request[q] \in Changing /\ request[q].phase = "last"
  BY Kinds DEF AfterCommit, In, IInv, TypeOK
<1>2. UNCHANGED <<rows, spent, replica>> /\ UNCHANGED <<issued, asked>>
  BY DEF AfterCommit, table
<1> QED BY <1>1, <1>2, HandOutKeepsIInv DEF AfterCommit

-----------------------------------------------------------------------------
(***************************************************************************)
(* Steps that write a token                                                *)
(***************************************************************************)
\* Writes a token that q carries afterwards and nobody else had or that was
\* q's own already; its date is right, or the row is new and q has yet to go
\* on with it.
LEMMA WriteKeepsIInv ==
    ASSUME IInv, NEW q \in Request, NEW a \in Account, NEW t \in Token,
           NEW row \in Row, NEW r \in Changing,
           request' = [request EXCEPT ![q] = r],
           rows' = [rows EXCEPT ![a] = row],
           UNCHANGED <<replica, handed>>, spent' \in SUBSET Account,
           asked' \in [Account -> Wanted \union {Unclear}], LastUpdateHolds',
           row.token = t, r.token = t, r.account = a,
           issued' = issued \union {t},
           t \notin issued \/ (Carries(q, t) /\ request[q].account = a),
           \/ row.expires = (t \in Dated)
           \/ t \notin issued /\ r.phase = "inserted"
    PROVE  IInv'
<1>1. TypeOK /\ TokensHaveOneOwner /\ RequestsHaveTokens /\ DatesFollow
      /\ DeadStayDead
  BY DEF IInv
<1>2. request'[q] = r /\ \A p \in Request : p # q => request'[p] = request[p]
  BY <1>1 DEF TypeOK
<1>3. rows'[a] = row /\ \A b \in Account : b # a => rows'[b] = rows[b]
  BY <1>1 DEF TypeOK
<1>4. t \notin handed
  BY <1>1 DEF TokensHaveOneOwner
<1>5. \A p \in Request : Carries(p, t) => p = q
  BY <1>1 DEF TokensHaveOneOwner
<1>6. \A b \in Account : b # a => rows[b].token # t
  BY <1>1, RowKinds DEF TokensHaveOneOwner
<1>7. \A p \in Request, u \in Token :
        Carries(p, u)' <=> IF p = q THEN u = t ELSE Carries(p, u)
  BY <1>2 DEF Carries
<1>8. r.phase \notin {"find", "permissions"} /\ r \notin Calling
  BY Kinds
<1>9. TypeOK'
  <2>1. request' \in [Request -> Changing \union Calling \union {Idle}]
    BY <1>1 DEF TypeOK
  <2>2. rows' \in [Account -> Row \union {NoRow}]
    BY <1>1 DEF TypeOK
  <2>3. issued' \in SUBSET Token
    BY <1>1 DEF TypeOK
  <2> QED BY <1>1, <2>1, <2>2, <2>3 DEF TypeOK
<1>10. TokensHaveOneOwner'
  <2>1. handed' \subseteq issued'
    BY <1>1 DEF TokensHaveOneOwner
  <2>2. \A b \in Account, R \in {rows', replica'} :
          R[b] # NoRow => R[b].token \in issued'
    <3>1. \A b \in Account : /\ rows[b] # NoRow => rows[b].token \in issued
                             /\ replica[b] # NoRow => replica[b].token \in issued
      BY <1>1 DEF TokensHaveOneOwner
    <3>2. \A b \in Account : rows'[b] # NoRow => rows'[b].token \in issued'
      BY <1>3, <3>1
    <3> QED BY <3>1, <3>2
  <2>3. ASSUME NEW p \in Request, NEW u \in Token, Carries(p, u)'
        PROVE  /\ u \in issued' \ handed'
               /\ \A o \in Request : Carries(o, u)' => o = p
               /\ \A b \in Account : rows'[b].token = u => request'[p].account = b
    <3>1. CASE p = q
      <4>1. u = t
        BY <1>7, <2>3, <3>1
      <4>2. \A o \in Request : Carries(o, u)' => o = q
        BY <1>5, <1>7, <4>1
      <4>3. \A b \in Account : rows'[b].token = u => request'[q].account = b
        BY <1>2, <1>3, <1>6, <4>1
      <4> QED BY <1>4, <3>1, <4>1, <4>2, <4>3
    <3>2. CASE p # q
      <4>1. Carries(p, u) /\ u # t
        BY <1>5, <1>7, <2>3, <3>2
      <4>2. u \in issued' \ handed'
        BY <1>1, <4>1 DEF TokensHaveOneOwner
      <4>3. \A o \in Request : Carries(o, u)' => o = p
        BY <1>1, <1>7, <4>1 DEF TokensHaveOneOwner
      <4>4. \A b \in Account : rows'[b].token = u => request'[p].account = b
        BY <1>1, <1>2, <1>3, <3>2, <4>1 DEF TokensHaveOneOwner
      <4> QED BY <4>2, <4>3, <4>4
    <3> QED BY <3>1, <3>2
  <2> QED BY <2>1, <2>2, <2>3 DEF TokensHaveOneOwner
<1>11. RequestsHaveTokens'
  BY <1>1, <1>2 DEF RequestsHaveTokens
<1>12. DatesFollow'
  <2> SUFFICES ASSUME NEW b \in Account, rows'[b] # NoRow,
                      rows'[b].expires # (rows'[b].token \in Dated)
               PROVE  /\ rows'[b].token \notin handed'
                      /\ \A p \in Request : Carries(p, rows[b].token)'
                           => request'[p].phase \in {"inserted", "token"}
    BY DEF DatesFollow
  <2>1. CASE b = a
    <3>1. r.phase = "inserted" /\ rows'[b].token = t
      BY <1>3, <2>1
    <3>2. \A p \in Request : Carries(p, rows[b].token)' => p = q
      BY <1>5, <1>7, <3>1
    <3> QED BY <1>2, <1>4, <3>1, <3>2
  <2>2. CASE b # a
    <3>1. /\ rows[b].token \notin handed /\ rows[b].token \in Token
          /\ rows'[b].token = rows[b].token /\ rows[b].token # t
          /\ \A p \in Request : Carries(p, rows[b].token)
               => request[p].phase \in {"inserted", "token"}
      BY <1>1, <1>3, <1>6, <2>2, RowKinds DEF DatesFollow
    <3>2. \A p \in Request : Carries(p, rows[b].token)'
            => Carries(p, rows[b].token) /\ p # q
      BY <1>7, <3>1
    <3> QED BY <1>2, <3>1, <3>2
  <2> QED BY <2>1, <2>2
<1>13. DeadStayDead'
  <2>1. ASSUME NEW u, u # t, Shows(rows', u) PROVE Shows(rows, u)
    BY <1>3, <2>1 DEF Shows
  <2> QED BY <1>1, <1>2, <1>4, <1>8, <2>1 DEF DeadStayDead, Shows
<1> QED BY <1>9, <1>10, <1>11, <1>12, <1>13 DEF IInv

LEMMA CreateKeepsIInv ==
    ASSUME IInv, NEW q \in Request, NEW a \in Account, NEW t \in Token,
           CreateServiceAccount(q, a, t)
    PROVE  IInv'
<1>1. PICK R \in SUBSET Role : Begin(q, "inserted", a, t, R, FALSE)
  BY DEF CreateServiceAccount
<1> DEFINE r == [phase |-> "inserted", account |-> a, token |-> t, roles |-> R,
                 disabled |-> FALSE, existing |-> {}]
           row == [token |-> t, expires |-> FALSE, disabled |-> FALSE,
                   roles |-> {}]
           ask == [disabled |-> FALSE, roles |-> {}]
<1>2. r \in Changing /\ r.phase = "inserted" /\ r.token = t /\ r.account = a
  BY DEF Changing
<1>3. /\ row \in Row /\ row.token = t /\ row.disabled = FALSE /\ row.roles = {}
      /\ ask \in Wanted /\ ask.disabled = FALSE /\ ask.roles = {}
  BY DEF Row, Wanted
<1>4. /\ request' = [request EXCEPT ![q] = r]
      /\ rows' = [rows EXCEPT ![a] = row]
      /\ asked' = [asked EXCEPT ![a] = ask]
      /\ spent' = spent \union {a}
      /\ t \notin issued /\ issued' = issued \union {t}
      /\ UNCHANGED <<replica, handed>>
  BY <1>1 DEF CreateServiceAccount, Begin, Goto, Generate
<1> HIDE DEF r, row, ask
<1>5. TypeOK /\ LastUpdateHolds
  BY DEF IInv
<1>6. /\ asked' \in [Account -> Wanted \union {Unclear}]
      /\ spent' \in SUBSET Account
  BY <1>3, <1>4, <1>5 DEF TypeOK
<1>7. LastUpdateHolds'
  <2>1. /\ rows'[a] = row /\ asked'[a] = ask
        /\ \A b \in Account : b # a => rows'[b] = rows[b] /\ asked'[b] = asked[b]
    BY <1>4, <1>5 DEF TypeOK
  <2> QED BY <1>3, <1>5, <2>1 DEF LastUpdateHolds
<1>8. \/ row.expires = (t \in Dated)
      \/ t \notin issued /\ r.phase = "inserted"
  BY <1>2, <1>4
<1>9. t \notin issued \/ (Carries(q, t) /\ request[q].account = a)
  BY <1>4
<1>10. /\ UNCHANGED <<replica, handed>> /\ issued' = issued \union {t}
       /\ request' = [request EXCEPT ![q] = r]
       /\ rows' = [rows EXCEPT ![a] = row]
  BY <1>4
<1>11. row \in Row /\ row.token = t
  BY <1>3
<1>12. r \in Changing /\ r.token = t /\ r.account = a
  BY <1>2
<1> QED BY <1>6, <1>7, <1>8, <1>9, <1>10, <1>11, <1>12, WriteKeepsIInv

\* What is written for a token.
LEMMA TokenWritten ==
    ASSUME IInv, NEW a \in Account, rows[a] # NoRow, NEW t \in Token,
           rows' = [rows EXCEPT ![a] = WithToken(@, t)], asked' = asked
    PROVE  /\ WithToken(rows[a], t) \in Row
           /\ WithToken(rows[a], t).token = t
           /\ WithToken(rows[a], t).expires = (t \in Dated)
           /\ rows' = [rows EXCEPT ![a] = WithToken(rows[a], t)]
           /\ LastUpdateHolds'
<1> DEFINE row == WithToken(rows[a], t)
<1>1. rows[a] \in Row
  BY RowKinds DEF IInv
<1> DEFINE dated == t \in Dated
<1>2. dated \in BOOLEAN
  OBVIOUS
<1> HIDE DEF dated
<1>3. row = [rows[a] EXCEPT !.token = t, !.expires = dated]
  BY DEF WithToken, dated
<1> HIDE DEF row
<1>4. /\ row \in Row /\ row.token = t /\ row.expires = dated
      /\ row.roles = rows[a].roles /\ row.disabled = rows[a].disabled
  BY <1>1, <1>2, <1>3 DEF Row
<1>5. rows' = [rows EXCEPT ![a] = row]
  BY DEF row
<1>6. rows'[a] = row /\ \A b \in Account : b # a => rows'[b] = rows[b]
  BY <1>5 DEF IInv, TypeOK
<1>7. LastUpdateHolds'
  BY <1>4, <1>6 DEF IInv, LastUpdateHolds
<1> QED BY <1>4, <1>5, <1>7 DEF row, dated

LEMMA UpdateTokenKeepsIInv ==
    ASSUME IInv, NEW q \in Request, UpdateServiceAccountToken(q)
    PROVE  IInv'
<1>1. PICK a \in Account, t \in Token :
        /\ request[q] \in Changing
        /\ request[q].account = a /\ request[q].token = t
  BY Kinds DEF UpdateServiceAccountToken, In, IInv, TypeOK, RequestsHaveTokens,
               Changing
<1> DEFINE r == [request[q] EXCEPT !.phase = "reread"]
<1>2. r \in Changing /\ r.token = t /\ r.account = a
  BY <1>1 DEF Changing
<1>3. /\ rows[a] # NoRow
      /\ rows' = [rows EXCEPT ![a] = WithToken(@, t)]
      /\ request' = [request EXCEPT ![q] = r]
      /\ UNCHANGED <<spent, replica, issued, handed, asked>>
  BY <1>1, <1>2 DEF UpdateServiceAccountToken, Goto
<1> HIDE DEF r
<1>4. Carries(q, t) /\ request[q].account = a
  BY <1>1 DEF Carries
<1>5. t \in issued
  BY <1>1, <1>4 DEF IInv, TokensHaveOneOwner
<1>6. issued' = issued \union {t} /\ UNCHANGED <<replica, handed>>
  BY <1>3, <1>5
<1>7. /\ WithToken(rows[a], t) \in Row
      /\ WithToken(rows[a], t).token = t
      /\ WithToken(rows[a], t).expires = (t \in Dated)
      /\ rows' = [rows EXCEPT ![a] = WithToken(rows[a], t)]
      /\ LastUpdateHolds'
  BY <1>1, <1>3, TokenWritten
<1>8. /\ asked' \in [Account -> Wanted \union {Unclear}]
      /\ spent' \in SUBSET Account
  BY <1>3 DEF IInv, TypeOK
<1> DEFINE row == WithToken(rows[a], t)
<1>9. /\ row \in Row /\ row.token = t
      /\ rows' = [rows EXCEPT ![a] = row]
  BY <1>7
<1>10. \/ row.expires = (t \in Dated)
       \/ t \notin issued /\ r.phase = "inserted"
  BY <1>7
<1> HIDE DEF row
<1>11. t \notin issued \/ (Carries(q, t) /\ request[q].account = a)
  BY <1>4
<1>12. request' = [request EXCEPT ![q] = r]
  BY <1>3
<1>13. LastUpdateHolds'
  BY <1>7
<1> QED BY <1>2, <1>6, <1>8, <1>9, <1>10, <1>11, <1>12, <1>13, WriteKeepsIInv

LEMMA RegenerateKeepsIInv ==
    ASSUME IInv, NEW q \in Request, NEW a \in Account, NEW t \in Token,
           RegenerateServiceAccountToken(q, a, t)
    PROVE  IInv'
<1> DEFINE r == [phase |-> "reread", account |-> a, token |-> t, roles |-> {},
                 disabled |-> FALSE, existing |-> {}]
<1>1. r \in Changing /\ r.token = t /\ r.account = a
  BY DEF Changing
<1>2. /\ rows[a] # NoRow
      /\ rows' = [rows EXCEPT ![a] = WithToken(@, t)]
      /\ request' = [request EXCEPT ![q] = r]
      /\ t \notin issued /\ issued' = issued \union {t}
      /\ UNCHANGED <<spent, replica, handed, asked>>
  BY DEF RegenerateServiceAccountToken, Begin, Goto, Generate
<1> HIDE DEF r
<1>3. /\ WithToken(rows[a], t) \in Row
      /\ WithToken(rows[a], t).token = t
      /\ WithToken(rows[a], t).expires = (t \in Dated)
      /\ rows' = [rows EXCEPT ![a] = WithToken(rows[a], t)]
      /\ LastUpdateHolds'
  BY <1>2, TokenWritten
<1>4. /\ asked' \in [Account -> Wanted \union {Unclear}]
      /\ spent' \in SUBSET Account
  BY <1>2 DEF IInv, TypeOK
<1>5. UNCHANGED <<replica, handed>>
  BY <1>2
<1> DEFINE row == WithToken(rows[a], t)
<1>6. /\ row \in Row /\ row.token = t
      /\ rows' = [rows EXCEPT ![a] = row]
  BY <1>3
<1>7. \/ row.expires = (t \in Dated)
      \/ t \notin issued /\ r.phase = "inserted"
  BY <1>3
<1> HIDE DEF row
<1>8. t \notin issued \/ (Carries(q, t) /\ request[q].account = a)
  BY <1>2
<1>9. /\ request' = [request EXCEPT ![q] = r]
      /\ issued' = issued \union {t} /\ LastUpdateHolds'
  BY <1>2, <1>3
<1> QED BY <1>1, <1>4, <1>5, <1>6, <1>7, <1>8, <1>9, WriteKeepsIInv

-----------------------------------------------------------------------------
(***************************************************************************)
(* The theorems                                                            *)
(***************************************************************************)
LEMMA NextIInv == IInv /\ [Next]_vars => IInv'
<1> SUFFICES ASSUME IInv, [Next]_vars PROVE IInv'
  OBVIOUS
<1>1. CASE Replicate
  BY <1>1, ReplicateKeepsIInv
<1>2. ASSUME NEW a \in Account, DeleteServiceAccount(a) PROVE IInv'
  BY <1>2, DeleteKeepsIInv
<1>3. ASSUME NEW q \in Request, Step(q) PROVE IInv'
  <2>1. ASSUME NEW a \in Account, NEW t \in Token,
               \/ CreateServiceAccount(q, a, t)
               \/ RegenerateServiceAccountToken(q, a, t)
        PROVE  IInv'
    BY <2>1, CreateKeepsIInv, RegenerateKeepsIInv
  <2>2. CASE AfterInsert(q) \/ UpdateServiceAccountToken(q) \/ AfterToken(q)
    BY <2>2, AfterInsertKeepsIInv, UpdateTokenKeepsIInv, AfterTokenKeepsIInv
  <2>3. ASSUME NEW a \in Account, UpdateServiceAccount(q, a) PROVE IInv'
    BY <2>3, UpdateKeepsIInv
  <2>4. CASE ReadExisting(q) \/ Commit(q) \/ AfterCommit(q)
    BY <2>4, ReadExistingKeepsIInv, CommitKeepsIInv, AfterCommitKeepsIInv
  <2>5. CASE AuthorizeServiceAccount(q) \/ FindByToken(q)
    BY <2>5, AuthorizeKeepsIInv, FindKeepsIInv
  <2>6. CASE Answer(q)
    BY <2>6, FailKeepsIInv DEF Answer
  <2>7. CASE Fail(q)
    BY <2>7, FailKeepsIInv DEF Fail
  <2> QED BY <1>3, <2>1, <2>2, <2>3, <2>4, <2>5, <2>6, <2>7 DEF Step
<1>4. CASE UNCHANGED vars
  <2>1. UNCHANGED <<rows, spent, replica, issued, handed, request, asked>>
    BY <1>4 DEF vars
  <2> QED BY <2>1 DEF IInv, TypeOK, TokensHaveOneOwner, RequestsHaveTokens,
                      DatesFollow, DeadStayDead, LastUpdateHolds, Carries, Shows
<1> QED BY <1>1, <1>2, <1>3, <1>4 DEF Next

\* The inductive invariant: a token has one owner until it is handed out
\* (CreateServiceAccount and RegenerateServiceAccountToken of the usecase).
THEOREM ServiceAccountsInvariant == Spec => []IInv
<1>1. Init => IInv
  BY InitIInv
<1>2. IInv /\ [Next]_vars => IInv'
  BY NextIInv
<1> QED BY <1>1, <1>2, PTL DEF Spec

\* The expiry in the table is the token's, for tokens that were handed out:
\* nobody ever gets a token whose row is still the creation's first write.
THEOREM HandedTokensKeepTheirDateAlways == Spec => []HandedTokensKeepTheirDate
<1>1. IInv => HandedTokensKeepTheirDate
  <2> SUFFICES ASSUME IInv, NEW a \in Account, rows[a].token \in handed
               PROVE  rows[a].expires = (rows[a].token \in Dated)
    BY DEF HandedTokensKeepTheirDate
  <2>1. rows[a] # NoRow
    BY TokenAssumption DEF IInv, TypeOK, NoRow
  <2> QED BY <2>1 DEF IInv, DatesFollow
<1> QED BY <1>1, ServiceAccountsInvariant, PTL

\* A token that was replaced, or deleted with its account, after it had been
\* handed out, and that ReadEnt does not show any more, is refused: no request
\* still under way writes it back.  A regeneration that a creation's second
\* write undoes (UpdateServiceAccountToken) brings back a token that had not
\* been handed out, which this does not speak of.
THEOREM ReplacedIsRefusedAlways == Spec => []ReplacedIsRefused
<1>1. IInv => ReplacedIsRefused
  BY Kinds DEF IInv, TypeOK, DeadStayDead, ReplacedIsRefused
<1> QED BY <1>1, ServiceAccountsInvariant, PTL

\* The flag and the roles of an account are the last ones asked for, unless a
\* write was decided on a row that changed before it (UpdateServiceAccount).
THEOREM LastUpdateHoldsAlways == Spec => []LastUpdateHolds
<1>1. IInv => LastUpdateHolds
  BY DEF IInv
<1> QED BY <1>1, ServiceAccountsInvariant, PTL
=============================================================================
