--------------------------- MODULE SessionLifecycle ---------------------------
(***************************************************************************)
(* What the session table promises of one login token: it has no record,   *)
(* then a live one, which is ended (logout, kick or idleness) at most once *)
(* and for good, and is purged in the end.  Sessions.tla is the code that  *)
(* is meant to keep this promise.                                          *)
(***************************************************************************)
CONSTANT Token

VARIABLE life    \* where the record of each token stands

Stage == {"none", "live", "ended", "purged"}

Init == life = [t \in Token |-> "none"]

\* The tokens of T move to a stage together: one statement may end, or
\* purge, many records.
Move(T, stage) ==
    life' = [t \in Token |-> IF t \in T THEN stage ELSE life[t]]

Open(t) ==
    /\ life[t] = "none"
    /\ Move({t}, "live")

End(T) ==
    /\ \A t \in T : life[t] = "live"
    /\ Move(T, "ended")

Purge(T) ==
    /\ \A t \in T : life[t] \in {"live", "ended"}
    /\ Move(T, "purged")

Next ==
    \/ \E t \in Token : Open(t)
    \/ \E T \in SUBSET Token : End(T) \/ Purge(T)

Spec == Init /\ [][Next]_life
=============================================================================
