--------------------------- MODULE AdminBootstrap ---------------------------
(***************************************************************************)
(* The initial password of the user admin: internal/biz/auth.go and        *)
(* internal/data/auth.go.                                                  *)
(*                                                                         *)
(* Every instance that starts generates a password.  It stores its hash if *)
(* there is no admin yet, or if the initial password has not been used so  *)
(* far; it then reads the row again and, unless that says used, logs the   *)
(* password and keeps it in memory, to be shown to whoever asks, or logs   *)
(* in, first.  The first login marks the row used, the plaintext is        *)
(* dropped, and no later start touches the hash.  Each of these is a       *)
(* statement of its own, and a start reads and decides in one, and writes  *)
(* in another.                                                             *)
(*                                                                         *)
(* Abstractions: a hash is the password it was made from.  The module,     *)
(* permission and role records a start ensures before it looks for the     *)
(* admin are left out; that one of those statements fails is a Crash, as   *)
(* any error ends a start with a panic.  A request that is refused at its  *)
(* first read changes nothing and is left out.  The requests of a process  *)
(* that stops end with it.                                                 *)
(***************************************************************************)
CONSTANTS
    Instance,    \* processes that serve, or start to serve
    Request,     \* logins, password changes and questions under way at once
    Generated,   \* what randomPassword returns, each at most once
    Chosen,      \* passwords the administrator picks
    None         \* no password

ASSUME DistinctAssumption ==
    /\ Generated \intersect Chosen = {}
    /\ None \notin Generated \union Chosen

VARIABLES
    row,         \* the admin's row (WriteEnt)
    replica,     \* the row as ReadEnt shows it
    issued,      \* what randomPassword has returned so far
    node,        \* how far each instance is
    memory,      \* uc.initialAdminPassword of each instance
    request,     \* the requests in progress, and how they ended
    loggedIn,    \* some login has returned a token
    announced,   \* history: generated passwords that were logged
    writer,      \* history: the instance whose start stored the last hash
    spent,       \* history: instances a login that returned it is over at
    stale        \* history: a write was decided on a row changed since

vars == <<row, replica, issued, node, memory, request, loggedIn,
          announced, writer, spent, stale>>

database == <<row, replica>>
process == <<issued, node, memory>>
history == <<announced, writer, spent, stale>>

-----------------------------------------------------------------------------
Password == Generated \union Chosen

\* hash is None as long as there is no row
Row == [hash : Password \union {None}, used : BOOLEAN]

Down == [phase |-> "down"]
Up == [phase |-> "up"]
Starting == [phase : {"generated", "create", "overwrite", "reread"},
             password : Generated]

\* When a request began: before the end of any login that returned the
\* initial password; after one, but at another instance and with a replica
\* that did not show the mark; or after one, where that was known.
When == {"before", "behind", "after"}

\* at: the instance that serves it; saw: the row it read first;
\* answer: the initial password it is about to return
Running ==
    [phase : {"matched", "take", "mark", "clear", "show", "change"},
     at : Instance, saw : Row, answer : Generated \union {None},
     began : When]
Ended == [phase : {"done"}, answer : Generated \union {None}, began : When]

TypeOK ==
    /\ row \in Row /\ replica \in Row
    /\ issued \in SUBSET Generated /\ announced \in SUBSET Generated
    /\ node \in [Instance -> {Down, Up} \union Starting]
    /\ memory \in [Instance -> Generated \union {None}]
    /\ request \in [Request -> Running \union Ended]
    /\ writer \in Instance \union {None}
    /\ spent \in SUBSET Instance
    /\ {loggedIn, stale} \subseteq BOOLEAN

\* What the administrator can know.
Known == announced \union Chosen

Init ==
    /\ row = [hash |-> None, used |-> FALSE] /\ replica = row
    /\ issued = {} /\ announced = {}
    /\ node = [i \in Instance |-> Down]
    /\ memory = [i \in Instance |-> None]
    /\ request = [r \in Request |->
                    [phase |-> "done", answer |-> None, began |-> "before"]]
    /\ writer = None
    /\ loggedIn = FALSE /\ spent = {} /\ stale = FALSE

-----------------------------------------------------------------------------
(***************************************************************************)
(* A start                                                                 *)
(***************************************************************************)
StartGoes(i, phase) == node' = [node EXCEPT ![i].phase = phase]

\* BootstrapAdmin generates and hashes a password, and calls the repository.
Start(i) ==
    /\ node[i] = Down
    /\ \E p \in Generated \ issued :
         /\ issued' = issued \union {p}
         /\ node' = [node EXCEPT ![i] = [phase |-> "generated", password |-> p]]
    /\ UNCHANGED <<database, memory, request, loggedIn, history>>

\* Mutant: an admin that exists keeps its hash.
StartReadsKeeping(i) ==
    /\ node[i].phase = "generated"
    /\ StartGoes(i, IF row.hash = None THEN "create" ELSE "reread")
    /\ UNCHANGED <<database, issued, memory, request, loggedIn, history>>

\* The query for the admin decides what is done with the password.
StartReads(i) ==
    /\ node[i].phase = "generated"
    /\ StartGoes(i, IF row.hash = None THEN "create"
                    ELSE IF row.used THEN "reread" ELSE "overwrite")
    /\ UNCHANGED <<database, issued, memory, request, loggedIn, history>>

\* The username is unique: of two instances that saw no admin, the second
\* one's insert fails and its process panics.
StartCreates(i) ==
    /\ node[i].phase = "create"
    /\ IF row.hash = None
         THEN /\ row' = [hash |-> node[i].password, used |-> FALSE]
              /\ writer' = i
              /\ StartGoes(i, "reread")
         ELSE /\ node' = [node EXCEPT ![i] = Down]
              /\ UNCHANGED <<row, writer>>
    /\ UNCHANGED <<replica, issued, memory, request, loggedIn,
                   announced, spent, stale>>

\* Mutant: the start calls the repository's ChangePassword.
StartOverwritesAsUsed(i) ==
    /\ node[i].phase = "overwrite"
    /\ row' = [hash |-> node[i].password, used |-> TRUE]
    /\ stale' = (stale \/ row.used)
    /\ writer' = i
    /\ StartGoes(i, "reread")
    /\ UNCHANGED <<replica, issued, memory, request, loggedIn,
                   announced, spent>>

\* Sets the hash alone, whatever the row says by now.
StartOverwrites(i) ==
    /\ node[i].phase = "overwrite"
    /\ row' = [row EXCEPT !.hash = node[i].password]
    /\ stale' = (stale \/ row.used)
    /\ writer' = i
    /\ StartGoes(i, "reread")
    /\ UNCHANGED <<replica, issued, memory, request, loggedIn,
                   announced, spent>>

\* findUserByID at the end, and what BootstrapAdmin makes of the row.
StartRereads(i) ==
    /\ node[i].phase = "reread"
    /\ node' = [node EXCEPT ![i] = Up]
    /\ IF row.used
         THEN UNCHANGED <<memory, announced>>
         ELSE /\ memory' = [memory EXCEPT ![i] = node[i].password]
              /\ announced' = announced \union {node[i].password}
    /\ UNCHANGED <<database, issued, request, loggedIn, writer, spent, stale>>

\* The process stops, or a statement of its start fails: the memory and the
\* requests it serves are gone.
Crash(i) ==
    /\ node[i] # Down
    /\ node' = [node EXCEPT ![i] = Down]
    /\ memory' = [memory EXCEPT ![i] = None]
    /\ request' = [r \in Request |->
                     IF request[r].phase # "done" /\ request[r].at = i
                       THEN [phase |-> "done", answer |-> None,
                             began |-> request[r].began]
                       ELSE request[r]]
    /\ UNCHANGED <<database, issued, loggedIn, history>>

\* Replication catches up.
Replicate ==
    /\ replica # row
    /\ replica' = row
    /\ UNCHANGED <<row, process, request, loggedIn, history>>

-----------------------------------------------------------------------------
(***************************************************************************)
(* Requests                                                                *)
(***************************************************************************)
BeginsNow(i) ==
    IF spent = {} THEN "before"
    ELSE IF i \notin spent /\ replica.used # row.used THEN "behind"
    ELSE "after"

\* A request reads the row on ReadEnt.
Begin(r, i, phase) ==
    /\ request[r].phase = "done"
    /\ node[i] = Up
    /\ request' = [request EXCEPT ![r] =
         [phase |-> phase, at |-> i, saw |-> replica, answer |-> None,
          began |-> BeginsNow(i)]]
    /\ UNCHANGED <<database, process, loggedIn, history>>

\* It returns, with or without the initial password.
End(r, answer) ==
    request' = [request EXCEPT ![r] =
      [phase |-> "done", answer |-> answer, began |-> request[r].began]]

\* FindUserByUsername; the password somebody knows matches its hash.
LoginReads(r, i) == replica.hash \in Known /\ Begin(r, i, "matched")

\* The password is spent, or not known here: an ordinary login.
LoginIsPlain(r) ==
    /\ request[r].phase = "matched"
    /\ request[r].saw.used \/ memory[request[r].at] = None
    /\ End(r, None)
    /\ loggedIn' = TRUE
    /\ UNCHANGED <<database, process, history>>

\* The row was unused and there is a password in memory.
LoginIsFirst(r) ==
    /\ request[r].phase = "matched"
    /\ ~request[r].saw.used /\ memory[request[r].at] # None
    /\ request' = [request EXCEPT ![r].phase = "take"]
    /\ UNCHANGED <<database, process, loggedIn, history>>

\* Mutant: the plaintext is dropped before the row is marked.
LoginTakesAway(r) ==
    /\ request[r].phase = "take"
    /\ memory' = [memory EXCEPT ![request[r].at] = None]
    /\ request' = [request EXCEPT ![r].phase = "mark",
                                  ![r].answer = memory[request[r].at]]
    /\ UNCHANGED <<database, issued, node, loggedIn, history>>

\* The memory is read a second time, without a lock: another login may have
\* emptied it since.
LoginTakes(r) ==
    /\ request[r].phase = "take"
    /\ request' = [request EXCEPT ![r].phase = "mark",
                                  ![r].answer = memory[request[r].at]]
    /\ UNCHANGED <<database, process, loggedIn, history>>

\* Mutant: the first login forgets the plaintext but does not mark the row.
LoginMarksNothing(r) ==
    /\ request[r].phase = "mark"
    /\ request' = [request EXCEPT ![r].phase = "clear"]
    /\ UNCHANGED <<database, process, loggedIn, history>>

\* MarkInitialPasswordUsed updates the row by its id, whatever its hash is
\* by now.
LoginMarks(r) ==
    /\ request[r].phase = "mark"
    /\ row' = [row EXCEPT !.used = TRUE]
    /\ stale' = (stale \/ row.hash # request[r].saw.hash)
    /\ request' = [request EXCEPT ![r].phase = "clear"]
    /\ UNCHANGED <<replica, process, loggedIn, announced, writer, spent>>

\* The plaintext is dropped and the answer returned.
LoginClears(r) ==
    /\ request[r].phase = "clear"
    /\ memory' = [memory EXCEPT ![request[r].at] = None]
    /\ End(r, request[r].answer)
    /\ loggedIn' = TRUE
    /\ spent' = IF request[r].answer = None THEN spent
                ELSE spent \union {request[r].at}
    /\ UNCHANGED <<database, issued, node, announced, writer, stale>>

\* The user is disabled or has to give a code first; a statement fails,
\* before or after it took effect; two unlocked accesses to the string
\* tear it and the handler faults.
LoginFails(r) ==
    /\ request[r].phase \in {"matched", "take", "mark", "clear"}
    /\ End(r, None)
    /\ UNCHANGED <<database, process, loggedIn, history>>

\* AdminInitialPasswordUsed; no row counts as used.
ShowReads(r, i) ==
    /\ replica.hash # None /\ ~replica.used
    /\ Begin(r, i, "show")

\* InitialPassword returns what is in memory, if anything.
ShowAnswers(r) ==
    /\ request[r].phase = "show"
    /\ End(r, memory[request[r].at])
    /\ UNCHANGED <<database, process, loggedIn, history>>

\* ChangePassword, by someone logged in who knows the old password.
ChangeReads(r, i) ==
    /\ loggedIn /\ replica.hash \in Known
    /\ Begin(r, i, "change")

\* One update sets the hash and the flag.
ChangeWrites(r) ==
    /\ request[r].phase = "change"
    /\ \E p \in Chosen : row' = [hash |-> p, used |-> TRUE]
    /\ End(r, None)
    /\ UNCHANGED <<replica, process, loggedIn, history>>

-----------------------------------------------------------------------------
StartStep(i) ==
    Start(i) \/ StartReads(i) \/ StartCreates(i) \/ StartOverwrites(i)
    \/ StartRereads(i)

RequestStep(r) ==
    \/ \E i \in Instance : LoginReads(r, i) \/ ShowReads(r, i) \/ ChangeReads(r, i)
    \/ LoginIsPlain(r) \/ LoginIsFirst(r) \/ LoginTakes(r) \/ LoginMarks(r)
    \/ LoginClears(r) \/ LoginFails(r)
    \/ ShowAnswers(r) \/ ChangeWrites(r)

Next ==
    \/ \E i \in Instance : StartStep(i) \/ Crash(i)
    \/ \E r \in Request : RequestStep(r)
    \/ Replicate

Spec == Init /\ [][Next]_vars

-----------------------------------------------------------------------------
(***************************************************************************)
(* Properties                                                              *)
(***************************************************************************)
\* The password in force was marked used, so that no start replaces it any
\* more, but it was never logged and nobody chose it.
LockedOut == row.used /\ row.hash \notin Known

\* What docs/auth-permission-design.md (lines 26 to 31) says of
\* BootstrapAdmin: a generated password replaces an unused one only, and is
\* printed.  So none is in force, for good, without anybody knowing it.
NeverLockedOut == ~LockedOut

\* A lock-out takes a write decided on a row that has changed since: a
\* start that overwrites a row that came into use after its query, or a
\* login that marks used a password other than the one it compared.
LockOutNeedsStaleWrite == LockedOut => stale

\* While the initial password is unused, the instance whose start was the
\* last to store one holds exactly that one in memory: what
\* GetInitialPassword shows there opens the account.
LastStartShowsPassword ==
    \A i \in Instance :
        writer = i /\ node[i] = Up /\ ~row.used => memory[i] = row.hash

\* docs/auth-permission-design.md (lines 41 to 43) says of the initial
\* password that after the login that returned it, it is never returned
\* again.  That is so, whatever restarts there are, at the instance the login
\* was at, and at every other as soon as the replica shows the mark.  Only an
\* instance that still has a plaintext of its own and reads a replica that
\* is behind returns one again (InitialPassword, Login).
ReturnedAgainOnlyBehind ==
    \A r \in Request :
        request[r].phase = "done" /\ request[r].began = "after"
            => request[r].answer = None

(***************************************************************************)
(* The inductive invariant                                                 *)
(***************************************************************************)
\* A password that was not marked used is one a start generated: what the
\* administrator chose is never taken for an initial password.
ChosenIsUsed == row.hash \in Chosen => row.used

\* A password in memory was logged; an instance without one knows it is
\* spent.
MemoryWasAnnounced ==
    \A i \in Instance :
        /\ memory[i] # None => node[i] = Up /\ memory[i] \in announced
        /\ node[i] = Up /\ memory[i] = None => row.used

\* Past its query a start knows there is a row, and after its write it is
\* its own until another start replaces it.
StartsKnowTheRow ==
    \A i \in Instance :
        /\ node[i].phase \in {"overwrite", "reread", "up"} => row.hash # None
        /\ node[i].phase = "reread" =>
             row.used \/ writer # i \/ row.hash = node[i].password

\* A login compared a password somebody knows, and a request that began
\* late saw the flag, or asks where the plaintext is gone.
RequestsSawTheRow ==
    \A r \in Request :
        /\ request[r].phase \in {"matched", "take", "mark", "clear", "change"}
             => request[r].saw.hash \in Known
        /\ request[r].phase \in {"take", "mark", "clear", "show"}
             => ~request[r].saw.used
        /\ request[r].phase # "done" /\ request[r].began = "after"
             => /\ request[r].answer = None
                /\ request[r].saw.used \/ request[r].at \in spent
        /\ request[r].phase = "clear" => row.used

\* Only an instance that is up serves, and its requests go down with it.
ServedByUp ==
    \A r \in Request :
        request[r].phase # "done" => node[request[r].at] = Up

\* The flag is never taken back, and the replica is behind, not ahead; where
\* a login has returned the plaintext, it is gone.
UsedForGood ==
    /\ replica.used \/ spent # {} => row.used
    /\ row.hash = None => ~row.used
    /\ \A i \in spent : memory[i] = None

IInv ==
    /\ TypeOK
    /\ ChosenIsUsed
    /\ MemoryWasAnnounced
    /\ StartsKnowTheRow
    /\ RequestsSawTheRow
    /\ ServedByUp
    /\ UsedForGood
    /\ LockOutNeedsStaleWrite
    /\ LastStartShowsPassword
    /\ ReturnedAgainOnlyBehind
=============================================================================
