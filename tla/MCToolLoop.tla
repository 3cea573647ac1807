------------------------------- MODULE MCToolLoop ------------------------------
(* Two MCP servers with a tool each, one function of the client's own. *)
EXTENDS ToolLoop

TwoServers == <<{"a"}, {"b"}>>
=============================================================================
