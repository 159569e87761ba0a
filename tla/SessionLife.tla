---------------------------- MODULE SessionLife ----------------------------
(***************************************************************************)
(* What Service and Session promise to the code above them about the life  *)
(* of a session: it is registered once and told of it once (OnConnected),  *)
(* it receives until it stops and then never again, one caller disconnects *)
(* it (OnDisconnected) and it is released once, after that.  Nothing is    *)
(* said of threads, events, locks or reference counts.                     *)
(***************************************************************************)
CONSTANTS
    Sessions,
    Orderly     \* OnConnected comes before OnDisconnected

VARIABLES
    phase,      \* per session: "none", "new", "open", "closing" or "gone"
    welcomed,   \* the sessions whose OnConnected was called
    receiving   \* the sessions that take packets, or are about to

sessionLife == <<phase, welcomed, receiving>>

Init ==
    /\ phase \in [Sessions -> {"none", "new"}]
    /\ welcomed = {}
    /\ receiving = {}

Moves(s, from, to) == phase[s] = from /\ phase' = [phase EXCEPT ![s] = to]

\* CreateSession, for an accept that may fail at once or later.
Create(s) ==
    /\ Moves(s, "none", "new") \/ Moves(s, "none", "gone")
    /\ UNCHANGED <<welcomed, receiving>>
Refuse(s) == Moves(s, "new", "gone") /\ UNCHANGED <<welcomed, receiving>>

\* A peer is there: the session is registered, OnConnected and the first receive follow.
Join(s) ==
    /\ Moves(s, "new", "open")
    /\ receiving' = receiving \cup {s}
    /\ UNCHANGED welcomed
Welcome(s) ==
    /\ phase[s] = "open" \/ (~Orderly /\ phase[s] \in {"closing", "gone"})
    /\ s \notin welcomed
    /\ welcomed' = welcomed \cup {s}
    /\ UNCHANGED <<phase, receiving>>

\* No receive is outstanding any more, whether or not the session is disconnected.
Deafen(s) ==
    /\ s \in receiving /\ s \in welcomed
    /\ receiving' = receiving \ {s}
    /\ UNCHANGED <<phase, welcomed>>

Disconnect(s) ==
    /\ Moves(s, "open", "closing")
    /\ Orderly => s \in welcomed
    /\ UNCHANGED <<welcomed, receiving>>
Release(s) == Moves(s, "closing", "gone") /\ UNCHANGED <<welcomed, receiving>>

Next ==
    \E s \in Sessions :
        \/ Create(s) \/ Refuse(s) \/ Join(s) \/ Welcome(s)
        \/ Deafen(s) \/ Disconnect(s) \/ Release(s)

Spec == Init /\ [][Next]_sessionLife
=============================================================================
