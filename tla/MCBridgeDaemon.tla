---------------------------- MODULE MCBridgeDaemon ----------------------------
(* An instance of BridgeDaemon for TLC: a tool call next to a streamed      *)
(* upload, to a WebSocket tunnel or to a call of the MCP proxy.              *)
EXTENDS BridgeDaemon, TLC

CONSTANTS c1, c2, c3, c4

\* The upload, the tunnel and the proxied call are not sent in the same
\* behaviour; failures of the audit log are combined with the upload only, and
\* not with a failure of its body.
TwoCalls ==
    /\ Cardinality({c \in {c2, c3, c4} : connOf[c] # 0}) <= 1
    /\ auditFailed # {} => connOf[c3] = 0 /\ connOf[c4] = 0 /\ bodyErrors = 0
=============================================================================
