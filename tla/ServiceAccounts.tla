--------------------------- MODULE ServiceAccounts ---------------------------
(***************************************************************************)
(* Service accounts: internal/biz/service_account.go and                   *)
(* internal/data/service_account.go.                                       *)
(*                                                                         *)
(* An account has a token, of which the table keeps the hash and the       *)
(* expiry, a flag and roles.  To create one takes up to three writes: the  *)
(* row with the hash, the hash again with the expiry, the flag again with  *)
(* the roles; each is followed by a read on ReadEnt that must find the     *)
(* account.  Only then is the token handed out.  A new token is one write  *)
(* and such a read; an update reads the present roles first and then       *)
(* removes these and adds its own.  A call looks its token up on ReadEnt.  *)
(*                                                                         *)
(* Abstractions: a hash is its token, tokens are never generated twice,    *)
(* and names and descriptions are left out.  There is no clock: a call     *)
(* with an expired token is refused by the expiry the token carries before *)
(* the table is asked.  Deleting a role is left to Authorization, and so   *)
(* is the walk along the roles that ends a call.                           *)
(***************************************************************************)
EXTENDS FiniteSets

CONSTANTS
    Account, Role, Request,
    Token,     \* what GenerateServiceToken returns
    Dated,     \* those of them that expire
    None       \* no account, no token

ASSUME TokenAssumption == Dated \subseteq Token /\ None \notin Token

VARIABLES
    rows,      \* auth_service_accounts with its roles (WriteEnt)
    spent,     \* accounts that ever were
    replica,   \* rows as ReadEnt shows them
    issued,    \* tokens generated so far
    handed,    \* tokens returned to whoever asked for them
    request,   \* the requests in progress
    asked      \* history: the flag and the roles as last asked for

vars == <<rows, spent, replica, issued, handed, request, asked>>

(***************************************************************************)
(* Types                                                                   *)
(***************************************************************************)
Row == [token : Token, expires : BOOLEAN, disabled : BOOLEAN,
        roles : SUBSET Role]

NoRow == [token |-> None]

\* A write was decided on a row that had changed.
Unclear == [disabled |-> FALSE]

Wanted == [disabled : BOOLEAN, roles : SUBSET Role]

Idle == [phase |-> "idle"]

\* A request that changes an account: the token it has generated, if any,
\* the roles it is to give, the flag it will write and the roles it read.
Changing ==
    [phase : {"inserted", "token", "reread", "existing", "commit", "last"},
     account : Account, token : Token \union {None}, roles : SUBSET Role,
     disabled : BOOLEAN, existing : SUBSET Role]

\* A call; dead if its token had been handed out and replaced on arrival.
Calling == [phase : {"find", "permissions"}, token : Token, dead : BOOLEAN]

TypeOK ==
    /\ rows \in [Account -> Row \union {NoRow}]
    /\ spent \in SUBSET Account
    /\ replica \in [Account -> Row \union {NoRow}]
    /\ issued \in SUBSET Token
    /\ handed \in SUBSET Token
    /\ request \in [Request -> Changing \union Calling \union {Idle}]
    /\ asked \in [Account -> Wanted \union {Unclear}]

Init ==
    /\ rows = [a \in Account |-> NoRow]
    /\ spent = {}
    /\ replica = rows
    /\ issued = {}
    /\ handed = {}
    /\ request = [q \in Request |-> Idle]
    /\ asked = [a \in Account |-> Unclear]

Replicate ==
    /\ replica # rows
    /\ replica' = rows
    /\ UNCHANGED <<rows, spent, issued, handed, request, asked>>

-----------------------------------------------------------------------------
table == <<rows, spent, replica>>

In(q, phase) == request[q].phase = phase

Goto(q, r) == request' = [request EXCEPT ![q] = r]

\* The request ends.
End(q) == Goto(q, Idle)

\* It ends and returns its token, if it has one.
HandOut(q) ==
    /\ End(q)
    /\ handed' = handed \union ({request[q].token} \ {None})

\* A query fails, an account or role is not found, or the answer is lost.
Fail(q) ==
    /\ request[q] # Idle
    /\ End(q)
    /\ UNCHANGED <<table, issued, handed, asked>>

\* A request begins at a phase of its own.
Begin(q, phase, a, t, R, d) ==
    /\ request[q] = Idle
    /\ Goto(q, [phase |-> phase, account |-> a, token |-> t, roles |-> R,
                disabled |-> d, existing |-> {}])

\* Mutant: a token has no random part.
GenerateAgain(t) == issued' = issued \union {t}

\* GenerateServiceToken.
Generate(t) == t \notin issued /\ issued' = issued \union {t}

\* The row gets the hash but no expiry yet; ids are never used twice.
CreateServiceAccount(q, a, t) ==
    /\ a \notin spent
    /\ Generate(t)
    /\ rows' = [rows EXCEPT ![a] = [token |-> t, expires |-> FALSE,
                                    disabled |-> FALSE, roles |-> {}]]
    /\ spent' = spent \union {a}
    /\ \E R \in SUBSET Role : Begin(q, "inserted", a, t, R, FALSE)
    /\ asked' = [asked EXCEPT ![a] = [disabled |-> FALSE, roles |-> {}]]
    /\ UNCHANGED <<replica, handed>>

\* getServiceAccount, on ReadEnt.
Found(q) == replica[request[q].account] # NoRow

AfterInsert(q) ==
    /\ In(q, "inserted") /\ Found(q)
    /\ Goto(q, [request[q] EXCEPT !.phase = "token"])
    /\ UNCHANGED <<table, issued, handed, asked>>

\* Mutant: a date that is there is not cleared.
WithTokenOnly(row, t) ==
    [row EXCEPT !.token = t, !.expires = @ \/ t \in Dated]

WithToken(row, t) == [row EXCEPT !.token = t, !.expires = t \in Dated]

UpdateServiceAccountToken(q) ==
    /\ In(q, "token")
    /\ rows[request[q].account] # NoRow
    /\ rows' = [rows EXCEPT ![request[q].account] = WithToken(@, request[q].token)]
    /\ Goto(q, [request[q] EXCEPT !.phase = "reread"])
    /\ UNCHANGED <<spent, replica, issued, handed, asked>>

\* The same write, for a token that is to replace another.
RegenerateServiceAccountToken(q, a, t) ==
    /\ rows[a] # NoRow
    /\ Generate(t)
    /\ rows' = [rows EXCEPT ![a] = WithToken(@, t)]
    /\ Begin(q, "reread", a, t, {}, FALSE)
    /\ UNCHANGED <<spent, replica, handed, asked>>

\* A creation with roles goes on with the flag it finds there.
AfterToken(q) ==
    /\ In(q, "reread") /\ Found(q)
    /\ IF request[q].roles = {}
       THEN HandOut(q)
       ELSE /\ Goto(q, [request[q] EXCEPT
                 !.phase = "existing",
                 !.disabled = replica[request[q].account].disabled])
            /\ UNCHANGED handed
    /\ UNCHANGED <<table, issued, asked>>

\* An empty list of roles arrives as none and leaves the roles alone.
UpdateServiceAccount(q, a) ==
    /\ rows[a] # NoRow
    /\ \E R \in SUBSET Role, d \in BOOLEAN :
         Begin(q, IF R = {} THEN "commit" ELSE "existing", a, None, R, d)
    /\ UNCHANGED <<table, issued, handed, asked>>

RolesOf(a) == IF rows[a] = NoRow THEN {} ELSE rows[a].roles

\* The present roles, on WriteEnt.
ReadExisting(q) ==
    /\ In(q, "existing")
    /\ Goto(q, [request[q] EXCEPT !.phase = "commit",
                                  !.existing = RolesOf(request[q].account)])
    /\ UNCHANGED <<table, issued, handed, asked>>

\* Mutant: the roles that were there are not removed.
RolesAdded(q, R) == R \union q.roles

\* The roles read are removed and the new ones added.
RolesAfter(q, R) ==
    IF q.roles = {} THEN R ELSE (R \ q.existing) \union q.roles

\* A role to add that another update has added meanwhile is a duplicate key.
Addable(q, R) == q.roles \intersect (R \ q.existing) = {}

\* What has been asked for after c writes to a row: no longer known if the
\* roles changed since c read them, or if c is a creation, which nobody asked
\* to set the flag, and the flag changed since.
AskedBy(c, row, before) ==
    IF \/ c.roles # {} /\ c.existing # row.roles
       \/ c.token # None /\ c.disabled # row.disabled
    THEN Unclear
    ELSE IF c.token = None /\ c.roles # {}
    THEN [disabled |-> c.disabled, roles |-> c.roles]
    ELSE IF before = Unclear THEN Unclear
    ELSE IF c.roles = {} THEN [before EXCEPT !.disabled = c.disabled]
    ELSE [before EXCEPT !.roles = c.roles]

\* One transaction.
Commit(q) ==
    LET c == request[q]
        row == rows[c.account]
    IN  /\ In(q, "commit")
        /\ row # NoRow /\ Addable(c, row.roles)
        /\ rows' = [rows EXCEPT ![c.account] =
             [row EXCEPT !.disabled = c.disabled,
                         !.roles = RolesAfter(c, row.roles)]]
        /\ asked' = [asked EXCEPT ![c.account] = AskedBy(c, row, @)]
        /\ Goto(q, [c EXCEPT !.phase = "last"])
        /\ UNCHANGED <<spent, replica, issued, handed>>

AfterCommit(q) ==
    /\ In(q, "last") /\ Found(q)
    /\ HandOut(q)
    /\ UNCHANGED <<table, issued, asked>>

\* The handler looks the account up on ReadEnt first.
DeleteServiceAccount(a) ==
    /\ replica[a] # NoRow /\ rows[a] # NoRow
    /\ rows' = [rows EXCEPT ![a] = NoRow]
    /\ asked' = [asked EXCEPT ![a] = Unclear]
    /\ UNCHANGED <<spent, replica, issued, handed, request>>

-----------------------------------------------------------------------------
(***************************************************************************)
(* Calls with a token                                                      *)
(***************************************************************************)
Shows(R, t) == \E a \in Account : R[a].token = t

\* The token has not expired by the date it carries.
AuthorizeServiceAccount(q) ==
    /\ request[q] = Idle
    /\ \E t \in handed :
         Goto(q, [phase |-> "find", token |-> t,
                  dead |-> ~Shows(rows, t) /\ ~Shows(replica, t)])
    /\ UNCHANGED <<table, issued, handed, asked>>

\* Mutant: the account is found by what all tokens begin with.
MatchesPrefix(row, t) == row # NoRow

Matches(row, t) == row.token = t

\* FindServiceAccountByTokenHash finds an account that is not disabled; its
\* date, if the token has one, has not passed either.
FindByToken(q) ==
    /\ In(q, "find")
    /\ \E a \in Account : /\ Matches(replica[a], request[q].token)
                          /\ ~replica[a].disabled
    /\ Goto(q, [request[q] EXCEPT !.phase = "permissions"])
    /\ UNCHANGED <<table, issued, handed, asked>>

\* The roles are walked and the call answered.
Answer(q) ==
    /\ In(q, "permissions")
    /\ End(q)
    /\ UNCHANGED <<table, issued, handed, asked>>

Step(q) ==
    \/ \E a \in Account, t \in Token :
         CreateServiceAccount(q, a, t) \/ RegenerateServiceAccountToken(q, a, t)
    \/ AfterInsert(q) \/ UpdateServiceAccountToken(q) \/ AfterToken(q)
    \/ \E a \in Account : UpdateServiceAccount(q, a)
    \/ ReadExisting(q) \/ Commit(q) \/ AfterCommit(q)
    \/ AuthorizeServiceAccount(q) \/ FindByToken(q) \/ Answer(q)
    \/ Fail(q)

Next ==
    \/ Replicate
    \/ \E q \in Request : Step(q)
    \/ \E a \in Account : DeleteServiceAccount(a)

Spec == Init /\ [][Next]_vars

-----------------------------------------------------------------------------
(***************************************************************************)
(* Properties                                                              *)
(***************************************************************************)
\* The date in the table is the one the token carries, for every token that
\* was handed out, although a row is first written without one and requests
\* overwrite each other's tokens (UpdateServiceAccountToken).
HandedTokensKeepTheirDate ==
    \A a \in Account :
        rows[a].token \in handed =>
            rows[a].expires = (rows[a].token \in Dated)

\* A token that was handed out and then replaced, or deleted with its
\* account, is refused from the moment ReadEnt knows: no request still under
\* way writes it back.  A creation's second write may undo a regeneration,
\* but the token it brings back is handed out only after that.
ReplacedIsRefused ==
    \A q \in Request : request[q].phase = "permissions" => ~request[q].dead

\* An account has the flag and the roles the last update asked for, unless a
\* write was decided on a row that changed before it: two updates that both
\* remove the roles they read add up, and a creation writes the flag back
\* that it read before an update set it.
LastUpdateHolds ==
    \A a \in Account :
        rows[a] # NoRow /\ asked[a] # Unclear =>
            /\ rows[a].roles = asked[a].roles
            /\ rows[a].disabled = asked[a].disabled
-----------------------------------------------------------------------------
(***************************************************************************)
(* The inductive invariant                                                 *)
(***************************************************************************)
\* The request is yet to hand out the token it carries.
Carries(q, t) == request[q] \in Changing /\ request[q].token = t

\* A token has one request that may still write it, to one account, or hand
\* it out, and none once it is handed out.
TokensHaveOneOwner ==
    /\ handed \subseteq issued
    /\ \A a \in Account, R \in {rows, replica} :
         R[a] # NoRow => R[a].token \in issued
    /\ \A q \in Request, t \in Token : Carries(q, t) =>
         /\ t \in issued \ handed
         /\ \A p \in Request : Carries(p, t) => p = q
         /\ \A a \in Account : rows[a].token = t => request[q].account = a

\* The requests that create or replace have a token.
RequestsHaveTokens ==
    \A q \in Request : request[q].phase \in {"inserted", "token", "reread"}
        => request[q].token \in Token

\* A row without its token's date is one its creation has yet to go on with,
\* or has failed to.
DatesFollow ==
    \A a \in Account : rows[a] # NoRow =>
        \/ rows[a].expires = (rows[a].token \in Dated)
        \/ /\ rows[a].token \notin handed
           /\ \A q \in Request : Carries(q, rows[a].token)
                => request[q].phase \in {"inserted", "token"}

DeadStayDead ==
    \A q \in Request : request[q] \in Calling /\ request[q].dead =>
        /\ request[q].phase = "find" /\ request[q].token \in handed
        /\ ~Shows(rows, request[q].token) /\ ~Shows(replica, request[q].token)

\* Who holds a token, what the table says of it, and what a call that came
\* too late can find.
IInv ==
    /\ TypeOK
    /\ TokensHaveOneOwner
    /\ RequestsHaveTokens
    /\ DatesFollow
    /\ DeadStayDead
    /\ LastUpdateHolds
=============================================================================
