------------------------------ MODULE Settings ------------------------------
(***************************************************************************)
(* System settings: settingsRepo of internal/data/session.go, as the       *)
(* handlers, the login and the cleanup at midnight use it.                 *)
(*                                                                         *)
(* A setting is a row with a key.  Reading takes one query on ReadEnt and  *)
(* then writes the defaults of the keys that the answer did not have; an   *)
(* update first reads and then writes every key.  Both write through the   *)
(* same loop: a query on WriteEnt and then an insert or an update, key     *)
(* after key, in the order of a Go map, which is any order.  Errors end    *)
(* the loop; a reader drops them, an update reports them.                  *)
(*                                                                         *)
(* Abstraction: a value is what it is read as.  A text that is no number,  *)
(* a number of days that is not positive and an empty name are all read as *)
(* the default, and so are they here.                                      *)
(***************************************************************************)
EXTENDS FiniteSets

CONSTANTS
    Key, Value,
    Default,   \* what a key without a row is read as
    Totp,      \* "totp_enabled", the one key without a row by default
    Call,      \* calls of GetSettings and UpdateSystemSettings
    None       \* no row, no key, nothing to store

ASSUME SettingsAssumption ==
    /\ Totp \in Key /\ None \notin Key \union Value
    /\ Default \in [Key -> Value]

VARIABLES
    rows,      \* system_settings (WriteEnt)
    replica,   \* rows as ReadEnt shows them
    call,      \* the calls in progress
    doubt,     \* history: what somebody else may write during an update
    asked      \* history: the settings of the last update, where they are clear

settingsVars == <<rows, replica, call, doubt, asked>>

(***************************************************************************)
(* Types                                                                   *)
(***************************************************************************)
NotCalled == [phase |-> "none"]

\* A call: the keys it has yet to write and the one at hand, whether these are
\* an update's, what it is to store, and what it has read of totp_enabled.
Calling == [phase : {"lookup", "insert", "update", "done"},
            todo : SUBSET Key, key : Key \union {None}, saving : BOOLEAN,
            want : [Key -> Value] \union {None},
            totp : Value, failed : BOOLEAN]

\* Not known: an update is under way, or was not alone, or broke off.
Unclear == None

SettingsTypeOK ==
    /\ rows \in [Key -> Value \union {None}]
    /\ replica \in [Key -> Value \union {None}]
    /\ call \in [Call -> Calling \union {NotCalled}]
    /\ doubt \in [Call -> SUBSET Key]
    /\ asked \in [Key -> Value \union {Unclear}]

SettingsInit ==
    /\ rows = [k \in Key |-> None]
    /\ replica = rows
    /\ call = [c \in Call |-> NotCalled]
    /\ doubt = [c \in Call |-> {}]
    /\ asked = [k \in Key |-> Unclear]

ReplicateSettings ==
    /\ replica' = rows
    /\ UNCHANGED <<rows, call, doubt, asked>>

-----------------------------------------------------------------------------
Saving(c) == call[c] # NotCalled /\ call[c].saving

Others(c) == {d \in Call \ {c} : Saving(d)}

\* Still to be written by a call.
ToWrite(c) == IF call[c] = NotCalled THEN {} ELSE call[c].todo

SetCall(c, r) == call' = [call EXCEPT ![c] = r]

\* Mutant: the keys that have a row are not taken out.
AllDefaults(R) == Key \ {Totp}

\* defaultSettingPairs: the keys that get a row with their default.
DefaultSettingPairs(R) == {k \in Key \ {Totp} : R[k] = None}


\* totp_enabled, as read from the rows R.
ReadTotp(R) == IF R[Totp] = None THEN Default[Totp] ELSE R[Totp]

\* No row and no reader's default can hide the setting any more.
Settled(c, k) ==
    /\ replica[k] # None
    /\ \A d \in Call \ {c} : k \notin ToWrite(d)

\* The update's own writes begin.
StartsSaving(c, r) ==
    /\ SetCall(c, [r EXCEPT !.phase = "lookup", !.todo = Key, !.key = None,
                            !.saving = TRUE])
    /\ doubt' = [d \in Call |->
         IF d = c /\ Others(c) = {} THEN {k \in Key : ~Settled(c, k)}
         ELSE IF d = c \/ Saving(d) THEN Key ELSE doubt[d]]
    /\ asked' = [k \in Key |-> Unclear]

Done(c, r) == SetCall(c, [r EXCEPT !.phase = "done", !.todo = {}, !.key = None,
                                   !.saving = FALSE, !.want = None])

\* The update is complete.
SavedAll(c, r) ==
    /\ Done(c, r)
    /\ doubt' = [doubt EXCEPT ![c] = {}]
    /\ asked' = [k \in Key |-> IF k \in doubt[c] THEN Unclear ELSE r.want[k]]

\* The keys T remain for the loop of upsertSettings.
GoesOn(c, r, T) ==
    \/ /\ T # {}
       /\ SetCall(c, [r EXCEPT !.phase = "lookup", !.todo = T, !.key = None])
       /\ UNCHANGED <<doubt, asked>>
    \/ T = {} /\ ~r.saving /\ r.want # None /\ StartsSaving(c, r)
    \/ T = {} /\ r.saving /\ SavedAll(c, r)
    \/ /\ T = {} /\ ~r.saving /\ r.want = None
       /\ Done(c, r)
       /\ UNCHANGED <<doubt, asked>>

\* An error ends the loop: a reader goes on without, an update fails.
BreaksOff(c) ==
    /\ UNCHANGED <<rows, replica>>
    /\ IF call[c].saving
       THEN /\ SetCall(c, NotCalled)
            /\ doubt' = [doubt EXCEPT ![c] = {}]
            /\ UNCHANGED asked
       ELSE GoesOn(c, call[c], {})

-----------------------------------------------------------------------------
Arriving(w, v, bad) ==
    [phase |-> "lookup", todo |-> {}, key |-> None, saving |-> FALSE,
     want |-> w, totp |-> v, failed |-> bad]

\* The query on ReadEnt; w is what an update is to store.
GetSettings(c, w) ==
    /\ call[c] = NotCalled
    /\ GoesOn(c, Arriving(w, ReadTotp(replica), FALSE), DefaultSettingPairs(replica))
    /\ UNCHANGED <<rows, replica>>

\* The query fails: the defaults are returned and nothing is written.
GetDefaults(c, w) ==
    /\ call[c] = NotCalled
    /\ GoesOn(c, Arriving(w, Default[Totp], TRUE), {})
    /\ UNCHANGED <<rows, replica>>

\* upsertSettings looks for the row of the next key.
Lookup(c) ==
    /\ call[c].phase = "lookup"
    /\ \E k \in call[c].todo :
         SetCall(c, [call[c] EXCEPT
             !.key = k, !.phase = IF rows[k] = None THEN "insert" ELSE "update"])
    /\ UNCHANGED <<rows, replica, doubt, asked>>

\* What it stores.
New(c) == LET r == call[c] IN IF r.saving THEN r.want[r.key] ELSE Default[r.key]

\* Stores it: an insert must not find a row, an update has found it.
Store(c) ==
    /\ \/ call[c].phase = "insert" /\ rows[call[c].key] = None
       \/ call[c].phase = "update"
    /\ rows' = [rows EXCEPT ![call[c].key] = New(c)]
    /\ GoesOn(c, call[c], call[c].todo \ {call[c].key})
    /\ UNCHANGED replica

\* A statement fails; an insert also does so if the key has a row by now.
StatementFails(c) ==
    /\ call[c].phase \in {"lookup", "insert", "update"}
    /\ BreaksOff(c)

\* The call returns.
Return(c) ==
    /\ call[c].phase = "done"
    /\ SetCall(c, NotCalled)
    /\ UNCHANGED <<rows, replica, doubt, asked>>

Upsert(c) == Lookup(c) \/ Store(c) \/ StatementFails(c)

-----------------------------------------------------------------------------
(***************************************************************************)
(* Properties                                                              *)
(***************************************************************************)
\* The settings are those of one update, the last: not a mixture of two, not
\* the defaults a reader found missing.  Excepted are updates that overlapped
\* or broke off, and keys whose row ReadEnt did not show yet when the update
\* was done or that some reader was still to fill in (GetSettings).
SettingsAreOfLastUpdate ==
    \A k \in Key : asked[k] # Unclear => rows[k] = asked[k]

\* Rows stay once they are there, those of ReadEnt are earlier rows; nobody
\* else is to write what an update is sure of, and nobody at all a setting
\* that is clear.
SettingsIInv ==
    /\ SettingsTypeOK
    /\ \A k \in Key : replica[k] # None => rows[k] # None
    /\ \A c \in Call : call[c] # NotCalled =>
         /\ call[c].phase \in {"insert", "update"} => call[c].key \in call[c].todo
         /\ call[c].saving => call[c].want # None
         /\ call[c].phase = "done" => call[c].todo = {}
    /\ \A c \in Call : Saving(c) => \A k \in Key \ doubt[c] :
         /\ Settled(c, k)
         /\ k \notin call[c].todo => rows[k] = call[c].want[k]
    /\ \A k \in Key : asked[k] # Unclear =>
         /\ replica[k] # None
         /\ \A c \in Call : k \notin ToWrite(c)
    /\ SettingsAreOfLastUpdate
=============================================================================
