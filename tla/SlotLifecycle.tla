---------------------------- MODULE SlotLifecycle ----------------------------
(***************************************************************************)
(* What the loops of both builds promise of the slots of their session     *)
(* pools, whatever events, completions and timeouts they handle: a slot is *)
(* free, or holds a Session with an open connection, or one that has       *)
(* closed its connection and waits to be given back.  A descriptor is      *)
(* never held by two Sessions, and a Session never gets a second one.      *)
(***************************************************************************)
CONSTANTS
    Sessions,  \* the slots
    Fds,       \* the descriptors of connections
    NoFd       \* SOCKET_ERROR_VALUE

VARIABLES
    phase,  \* "free", "open" or "closed"
    holds   \* the descriptor of an open slot

slotVars == <<phase, holds>>

Init ==
    /\ phase = [s \in Sessions |-> "free"]
    /\ holds = [s \in Sessions |-> NoFd]

(* A connection is accepted into a free slot; nobody else has it.          *)
Open(s, fd) ==
    /\ phase[s] = "free"
    /\ \A t \in Sessions : holds[t] # fd
    /\ phase' = [phase EXCEPT ![s] = "open"]
    /\ holds' = [holds EXCEPT ![s] = fd]

(* The Session closes its connection and keeps its slot.                   *)
Shut(s) ==
    /\ phase[s] = "open"
    /\ phase' = [phase EXCEPT ![s] = "closed"]
    /\ holds' = [holds EXCEPT ![s] = NoFd]

(* Slots in use go back to the pool, with them what they still hold.       *)
Return(S) ==
    /\ \A s \in S : phase[s] # "free"
    /\ phase' = [s \in Sessions |-> IF s \in S THEN "free" ELSE phase[s]]
    /\ holds' = [s \in Sessions |-> IF s \in S THEN NoFd ELSE holds[s]]

Next ==
    \/ \E s \in Sessions, fd \in Fds : Open(s, fd)
    \/ \E s \in Sessions : Shut(s)
    \/ \E S \in SUBSET Sessions : Return(S)

Spec == Init /\ [][Next]_slotVars

(* A connection belongs to one Session at most, and only while it is open. *)
Exclusive ==
    \A s \in Sessions :
        /\ holds[s] # NoFd => phase[s] = "open"
        /\ \A t \in Sessions : holds[s] = holds[t] /\ holds[s] # NoFd => s = t
=============================================================================
