---------------------------- MODULE MCPlayground ----------------------------
(* Instance of Playground for TLC. *)
EXTENDS Playground

\* [DONE] is the last event of a chat completion; a handler that fails may leave some
\* of its callback.
MCChatBatches ==
    {<<"chunk">>, <<"[DONE]">>, <<"chunk", "[DONE]">>, <<"bad">>, <<"bad", "chunk">>,
     <<"bad", "[DONE]">>}

\* response.completed and response.failed may be followed by [DONE].
MCResponsesBatches ==
    {<<"delta">>, <<"delta", "completed">>, <<"completed", "[DONE]">>, <<"failed">>,
     <<"failed", "[DONE]">>, <<"garbled", "delta">>}
=============================================================================
