---------------------------- MODULE SessionNotice ----------------------------
(***************************************************************************)
(* What the session hub promises of one page's connection: it may watch    *)
(* its session, is told at most once, and once told it does nothing but    *)
(* leave, for good.  It is told only after the session has ended, or has   *)
(* lapsed: a check found it idle for too long and failed to record that.   *)
(* SessionHub.tla, with its map, channels and locks, is the code meant to  *)
(* keep this promise.                                                      *)
(*                                                                         *)
(* That every page is told in the end is not promised: SessionHub says     *)
(* which are not.                                                          *)
(***************************************************************************)
CONSTANTS Session, Socket

VARIABLES
    ended,    \* the sessions that have ended
    lapsed,   \* the sessions found idle without that being recorded
    page      \* where the connection of each page stands

vars == <<ended, lapsed, page>>

Away == [stage |-> "away"]

At(stage, s) == [stage |-> stage, session |-> s]

Init ==
    /\ ended = {}
    /\ lapsed = {}
    /\ page = [c \in Socket |-> Away]

\* A session that has ended stays so.
End(s) ==
    /\ ended' = ended \union {s}
    /\ UNCHANGED <<lapsed, page>>

\* A session that has lapsed may yet be used again.
Lapse(s) ==
    /\ lapsed' = lapsed \union {s}
    /\ UNCHANGED <<ended, page>>

Move(c, next) ==
    /\ page' = [page EXCEPT ![c] = next]
    /\ UNCHANGED <<ended, lapsed>>

\* Only a page of a live session is let in.
Connect(c, s) ==
    /\ page[c] = Away
    /\ \E stage \in {"connecting", "gone"} :
          /\ stage = "connecting" => s \notin ended
          /\ Move(c, At(stage, s))

\* The session may have ended in between.
Watch(c, s) ==
    /\ page[c] = At("connecting", s)
    /\ Move(c, At("watching", s))

Tell(c, s) ==
    /\ page[c] = At("watching", s)
    /\ s \in ended \union lapsed
    /\ Move(c, At("told", s))

Leave(c, s) ==
    /\ page[c] \in {At(stage, s) : stage \in {"connecting", "watching", "told"}}
    /\ Move(c, At("gone", s))

Next ==
    \/ \E s \in Session : End(s) \/ Lapse(s)
    \/ \E c \in Socket, s \in Session :
          Connect(c, s) \/ Watch(c, s) \/ Tell(c, s) \/ Leave(c, s)

Spec == Init /\ [][Next]_vars
=============================================================================
