------------------------ MODULE MCWebSocketTransport ------------------------
(* Two connections, whose clients keep the protocol, break it, or close.     *)
EXTENDS WebSocketTransport, TLC

CONSTANTS c1, c2

Both(first, second) == [c \in Ids |-> IF c = c1 THEN first ELSE second]

MCScenarios ==
    {Both(<<"hello", "whole", "whole">>, <<"hello">>),
     Both(<<"hello", "close">>, <<"hello", "bad">>)}
    \cup {Both(script, <<"bad">>) : script \in
             {<<"hello", "ping", "close">>, <<"hello", "first", "last">>,
              <<"hello", "first", "more", "more">>, <<"hello", "invalid">>,
              <<"hello", "empty", "pong">>}}
=============================================================================
