------------------------------ MODULE MCStreams ------------------------------
(* A small instance of Streams: one console, one event feed, the background  *)
(* loop and one request at a time.                                           *)
EXTENDS Streams

CONSTANTS console, feed, request

Console == {console}
Feed == {feed}
OneRequest == {request}

Roles == {"ADMIN"}
ViewerKind == [v \in Viewers |-> "ADMIN"]
Everything == [l \in Listeners |-> 1..MaxEvents]
=============================================================================
