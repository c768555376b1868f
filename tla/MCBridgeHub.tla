----------------------------- MODULE MCBridgeHub -----------------------------
(* Client a connects twice, client b once; one call and one stream. *)
EXTENDS BridgeHub, TLC

CONSTANTS a, b, s1, s2, s3, c1, c2

MCClientOf == s1 :> a @@ s2 :> a @@ s3 :> b

\* Calls and rows do not read each other's state.  While a call is under way no
\* connection is in the midst of its statements on the rows, none of which has failed,
\* and the sessions have their rows; the stream is taken with the connections of a
\* only.  One session is closed by an administrator, one connection has messages that
\* are answered, and they come after a call began.
Active == \E c \in Calls : pc[c] # "idle"
Bound ==
    /\ Active =>
          /\ stray = {}
          /\ sessions \subseteq rows
          /\ \A s \in Conns : /\ conn[s] \notin {"upserted", "replaced", "marking"}
                              /\ admin[s] # "marking"
    /\ pc[c2] # "idle" => conn[s3] = "new"
    /\ \A s \in Conns \ {s1} : admin[s] = "none" /\ pushing[s] # "reply"
    /\ ~Active => pushing[s1] = "none"
=============================================================================
