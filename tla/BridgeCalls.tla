----------------------------- MODULE BridgeCalls -----------------------------
(***************************************************************************)
(* What the bridge promises to those who forward a tool call to it         *)
(* (pkg/bridge/hub.go, ForwardToolCall and the failover loops around it):  *)
(* a call ends once, for good, and with an answer only if some session was *)
(* given the call; no session is given the same call twice.  A session may *)
(* be given a call that has ended: what is queued is not taken back.       *)
(***************************************************************************)
EXTENDS Naturals

CONSTANTS
    Calls,
    Timed,       \* calls whose context has a deadline
    Sessions,
    Outcomes,
    Answers      \* outcomes that are the answer of a client

VARIABLES
    state,    \* state[c]: "idle", "open" or "ended"
    outcome,  \* outcome[c]: how c ended; "none" before
    given     \* given[c][s]: how often session s was given c

callVars == <<state, outcome, given>>

CallsInit ==
    /\ state = [c \in Calls |-> "idle"]
    /\ outcome = [c \in Calls |-> "none"]
    /\ given = [c \in Calls |-> [s \in Sessions |-> 0]]

Begin(c) ==
    /\ state[c] = "idle"
    /\ state' = [state EXCEPT ![c] = "open"]
    /\ UNCHANGED <<outcome, given>>

Give(c, s) ==
    /\ state[c] # "idle"
    /\ given[c][s] = 0
    /\ given' = [given EXCEPT ![c][s] = 1]
    /\ UNCHANGED <<state, outcome>>

End(c, o) ==
    /\ state[c] = "open"
    /\ o \in Answers => (\E s \in Sessions : given[c][s] > 0)
    /\ state' = [state EXCEPT ![c] = "ended"]
    /\ outcome' = [outcome EXCEPT ![c] = o]
    /\ UNCHANGED given

CallsNext ==
    \E c \in Calls :
        \/ Begin(c)
        \/ \E s \in Sessions : Give(c, s)
        \/ \E o \in Outcomes : End(c, o)

CallsSpec == CallsInit /\ [][CallsNext]_callVars

\* A call with a deadline ends, whatever the clients do.
EveryCallEnds == \A c \in Timed : state[c] = "open" ~> state[c] = "ended"
=============================================================================
