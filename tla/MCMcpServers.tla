---------------------------- MODULE MCMcpServers ----------------------------
(***************************************************************************)
(* Instance of McpServers: one server, lazy or keep-alive, and two calls.  *)
(* Servers share nothing but the shutdown, so one shows what two would.    *)
(***************************************************************************)
EXTENDS McpServers

CONSTANTS srv, c1, c2

ToSrv == [c \in {c1, c2} |-> srv]
=============================================================================
