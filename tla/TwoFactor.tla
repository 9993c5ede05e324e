----------------------------- MODULE TwoFactor -----------------------------
(***************************************************************************)
(* Two-factor authentication of one user: internal/biz/totp.go, the login  *)
(* of internal/biz/auth.go and what they call of internal/data/auth.go,    *)
(* together with Settings, whose totp_enabled a login asks for.            *)
(*                                                                         *)
(* Each operation reads the user on ReadEnt, decides, and writes by id on  *)
(* WriteEnt without looking again.  A setup stores a secret and turns the  *)
(* flag off; to enable takes a code of the secret that was read; disabling *)
(* clears both.  A login reads the user, then the settings, and asks for a *)
(* code if both say so; the second request of such a login reads the user  *)
(* again.  What a login that is asked for a code gets meanwhile, a         *)
(* pre-auth token, authMiddleware of internal/server/auth.go takes for an  *)
(* access token: until it expires, calls are let through with it.          *)
(*                                                                         *)
(* Abstractions: a code is the secret it is made from; passwords, roles    *)
(* and the disabled flag of the user are left out, a login that fails for  *)
(* them changes nothing; a pre-auth token may expire at any time.  Of the  *)
(* calls only that one is let through is kept: Sessions has what becomes   *)
(* of a token with a session, Authorization what it may call.              *)
(***************************************************************************)
EXTENDS Settings, Naturals

CONSTANTS
    Secret,    \* what totp.Generate returns
    On,        \* the value "true"
    Wanted,    \* settings that updates ask for
    MaxStarts  \* bound on what is begun

ASSUME TwoFactorAssumption ==
    /\ On \in Value /\ None \notin Secret
    /\ Wanted \subseteq [Key -> Value]
    /\ MaxStarts \in Nat

VARIABLES
    user,      \* totp_secret and totp_enabled of the user (WriteEnt)
    shown,     \* user as ReadEnt shows it
    issued,    \* secrets generated so far
    request,   \* the requests in progress
    confirmed, \* history: secrets an enabling has had a code of
    starts     \* how much has been begun

userVars == <<user, shown, issued, request, confirmed, starts>>

vars == <<settingsVars, userVars>>

(***************************************************************************)
(* Types                                                                   *)
(***************************************************************************)
\* The row, with a history component: it was enabled after the secret that
\* the code was for had been replaced or cleared.
User == [secret : Secret \union {None}, enabled : BOOLEAN, crossed : BOOLEAN]

NoTwoFactor == [secret |-> None, enabled |-> FALSE, crossed |-> FALSE]

Idle == [phase |-> "idle"]

\* About to enable, after a code of the secret, or to disable.
Writing == [phase : {"enable", "disable"}, secret : Secret \union {None}]

\* A login, with the flag it has read; histories: two-factor was on all the
\* time, for user and system, the row was the same all the time, and a call
\* was let through with the token that the password alone has given.
Login == [phase : {"read", "settings", "code", "in", "refused"},
          enabled : BOOLEAN, failed : BOOLEAN, on : BOOLEAN, same : BOOLEAN,
          served : BOOLEAN]

TypeOK ==
    /\ SettingsTypeOK
    /\ user \in User /\ shown \in User
    /\ issued \in SUBSET Secret /\ confirmed \in SUBSET Secret
    /\ request \in [Call -> Writing \union Login \union {Idle}]
    /\ starts \in 0..MaxStarts

Init ==
    /\ SettingsInit
    /\ user = NoTwoFactor /\ shown = user
    /\ issued = {} /\ confirmed = {} /\ starts = 0
    /\ request = [c \in Call |-> Idle]

-----------------------------------------------------------------------------
IsLogin(r) == r.phase \in {"read", "settings", "code", "in", "refused"}

\* Two-factor is on, for a user u and the rows R.
IsOn(u, R) == u.enabled /\ R[Totp] = On

\* ReadEnt catches up, with the settings and the user.
Replicate ==
    /\ <<replica, shown>> # <<rows, user>>
    /\ ReplicateSettings
    /\ shown' = user
    /\ request' = [c \in Call |->
         IF ~IsLogin(request[c]) THEN request[c]
         ELSE [request[c] EXCEPT !.on = @ /\ IsOn(user, rows),
                                 !.same = @ /\ user = shown]]
    /\ UNCHANGED <<user, issued, confirmed, starts>>

Goto(c, r) == request' = [request EXCEPT ![c] = r]

Starts == starts < MaxStarts /\ starts' = starts + 1

(***************************************************************************)
(* Settings on their own                                                   *)
(***************************************************************************)
\* GET and PATCH /v1/settings; the cleanup at midnight is such a reader.
HandleSettings(c) ==
    /\ request[c] = Idle
    /\ Starts
    /\ \E w \in Wanted \union {None} : GetSettings(c, w) \/ GetDefaults(c, w)
    /\ UNCHANGED <<user, shown, issued, request, confirmed>>

ReplySettings(c) ==
    /\ request[c] = Idle
    /\ Return(c)
    /\ UNCHANGED userVars

UpsertSettings(c) ==
    /\ Upsert(c)
    /\ UNCHANGED userVars

(***************************************************************************)
(* Setting up, enabling, disabling                                         *)
(***************************************************************************)
\* Mutant: the flag is left as it is.
WithSecretOnly(u, s) == [u EXCEPT !.secret = s]

WithSecret(u, s) == [secret |-> s, enabled |-> FALSE, crossed |-> FALSE]

\* SetTOTPSecret; the read before it decides nothing.
Setup2FA ==
    /\ Starts
    /\ \E s \in Secret \ issued :
         /\ user' = WithSecret(user, s)
         /\ issued' = issued \union {s}
    /\ UNCHANGED <<settingsVars, shown, request, confirmed>>

Free(c) == request[c] = Idle /\ call[c] = NotCalled

\* The code is one of the secret that was read.
Enable2FA(c) ==
    /\ Free(c) /\ Starts
    /\ shown.secret # None
    /\ Goto(c, [phase |-> "enable", secret |-> shown.secret])
    /\ UNCHANGED <<settingsVars, user, shown, issued, confirmed>>

EnableTOTP(c) ==
    /\ request[c].phase = "enable"
    /\ user' = [user EXCEPT !.enabled = TRUE,
                            !.crossed = user.secret # request[c].secret]
    /\ confirmed' = confirmed \union {request[c].secret}
    /\ Goto(c, Idle)
    /\ UNCHANGED <<settingsVars, shown, issued, starts>>

\* With a code, or by an administrator without.
Disable2FA(c) ==
    /\ Free(c) /\ Starts
    /\ shown.enabled
    /\ Goto(c, [phase |-> "disable", secret |-> None])
    /\ UNCHANGED <<settingsVars, user, shown, issued, confirmed>>

\* Mutant: only the secret is cleared.
WithoutSecret(u) == [u EXCEPT !.secret = None]

Without(u) == NoTwoFactor

DisableTOTP(c) ==
    /\ request[c].phase = "disable"
    /\ user' = Without(user)
    /\ Goto(c, Idle)
    /\ UNCHANGED <<settingsVars, shown, issued, confirmed, starts>>

(***************************************************************************)
(* Login                                                                   *)
(***************************************************************************)
\* FindUserByUsername.
LoginArrives(c) ==
    /\ Free(c) /\ Starts
    /\ Goto(c, [phase |-> "read", enabled |-> shown.enabled, failed |-> FALSE,
                on |-> IsOn(shown, replica), same |-> TRUE, served |-> FALSE])
    /\ UNCHANGED <<settingsVars, user, shown, issued, confirmed>>

LoginSettings(c) ==
    /\ request[c].phase = "read"
    /\ GetSettings(c, None) \/ GetDefaults(c, None)
    /\ Goto(c, [request[c] EXCEPT !.phase = "settings"])
    /\ UNCHANGED <<user, shown, issued, confirmed, starts>>

\* A code is asked for and a pre-auth token given, or an access token is.
LoginDecides(c) ==
    /\ request[c].phase = "settings"
    /\ Return(c)
    /\ Goto(c, [request[c] EXCEPT
           !.phase = IF call[c].totp = On /\ request[c].enabled
                     THEN "code" ELSE "in",
           !.failed = call[c].failed])
    /\ UNCHANGED <<user, shown, issued, confirmed, starts>>

\* What authMiddleware looks at: key, method and user_id are the same in a
\* pre-auth token as in an access token, and CheckSession admits a token that
\* has no record.  It does not look at totp_pending.
HasToken(r) == r.phase \in {"code", "refused", "in"}

\* A call is let through with the token the login has given so far.
LetThrough(c) ==
    /\ HasToken(request[c])
    /\ Goto(c, [request[c] EXCEPT !.served = TRUE])
    /\ UNCHANGED <<settingsVars, user, shown, issued, confirmed, starts>>

\* VerifyTOTPLogin reads the user again; a right code ends the login.
VerifyTOTPLogin(c) ==
    /\ request[c].phase = "code"
    /\ Goto(c, IF shown.enabled /\ shown.secret # None THEN Idle
               ELSE [request[c] EXCEPT !.phase = "refused"])
    /\ UNCHANGED <<settingsVars, user, shown, issued, confirmed, starts>>

\* The request is answered, fails or is given up, or its token expires; one
\* that has called for the settings goes on until it has them.
Ends(c) ==
    /\ request[c] # Idle /\ request[c].phase # "settings"
    /\ Goto(c, Idle)
    /\ UNCHANGED <<settingsVars, user, shown, issued, confirmed, starts>>

Step(c) ==
    \/ HandleSettings(c) \/ ReplySettings(c) \/ UpsertSettings(c)
    \/ Enable2FA(c) \/ EnableTOTP(c) \/ Disable2FA(c) \/ DisableTOTP(c)
    \/ LoginArrives(c) \/ LoginSettings(c) \/ LoginDecides(c)
    \/ LetThrough(c) \/ VerifyTOTPLogin(c) \/ Ends(c)

Next ==
    \/ Replicate
    \/ Setup2FA
    \/ \E c \in Call : Step(c)

Spec == Init /\ [][Next]_vars

-----------------------------------------------------------------------------
(***************************************************************************)
(* Properties                                                              *)
(***************************************************************************)
\* Two-factor is never on with a secret that nobody has shown to have, unless
\* an enabling was overtaken by a setup or a disabling after the moment that
\* ReadEnt showed it (Enable2FA writes by id what it decided on that row).
EnabledIsConfirmed ==
    user.enabled /\ ~user.crossed => user.secret \in confirmed

\* Calls are let through for the password alone, although two-factor was on
\* for user and system at every moment since the login arrived, only in two
\* ways: the query of the settings failed and gave their defaults, or with
\* the pre-auth token of a login that has been asked for a code (Login,
\* authMiddleware).
NoCodeExplained ==
    \A c \in Call : LET r == request[c] IN
        IsLogin(r) /\ r.served /\ r.on => r.failed \/ r.phase \in {"code", "refused"}

\* A login that was asked for a code is told that there is no two-factor only
\* if the user's row has changed since it arrived, or an enabling was
\* overtaken before.
RefusedIfChanged ==
    \A c \in Call : request[c].phase = "refused" /\ request[c].same => shown.crossed
-----------------------------------------------------------------------------
(***************************************************************************)
(* The inductive invariant                                                 *)
(***************************************************************************)
\* A row that is enabled and was not overtaken has a secret.
HasSecret(u) == u.enabled /\ ~u.crossed => u.secret # None

\* A login has called for the settings or has no call; as long as two-factor
\* is on it has read that it is, and as long as the row is the same it has
\* read what ReadEnt shows.
LoginKnows(c) ==
    LET r == request[c]
    IN  /\ IF r.phase = "settings"
           THEN call[c] # NotCalled /\ ~call[c].saving /\ call[c].want = None
           ELSE call[c] = NotCalled
        /\ r.on => r.enabled /\ IsOn(shown, replica)
        /\ r.phase = "settings" /\ r.on => call[c].failed \/ call[c].totp = On
        /\ r.same => r.enabled = shown.enabled
        /\ r.phase \in {"code", "refused"} => r.enabled
        /\ r.phase = "in" /\ r.on => r.failed
        /\ r.served => HasToken(r)

\* What requests know of what they have read and rows of how they came about.
IInv ==
    /\ TypeOK
    /\ SettingsIInv
    /\ EnabledIsConfirmed
    /\ HasSecret(shown)
    /\ \A c \in Call :
         /\ IsLogin(request[c]) => LoginKnows(c)
         /\ request[c].phase = "enable" => request[c].secret # None
         /\ request[c].phase \in {"enable", "disable"} => call[c] = NotCalled
    /\ NoCodeExplained
    /\ RefusedIfChanged
=============================================================================
