------------------------------- MODULE MCPump -------------------------------
(* The WebSocket pump: every short script, and longer ones that fill the   *)
(* channels behind either_split or use the pump after part of it stopped.  *)
EXTENDS WsPump

Short ==
  {s \in UNION {[1..n -> Kinds] : n \in 0..2} :
     \A i \in DOMAIN s : s[i] = "close" => i = Len(s)}

Long ==
  {<<"text", "text", "text", "text", "ping">>,
   <<"ping", "pong", "text", "ping", "close">>,
   <<"ping", "binary", "text", "ping">>,
   <<"text", "ping", "error", "ping">>}

MCScripts == Short \cup Long
=============================================================================
