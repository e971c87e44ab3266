-------------------------- MODULE MCBrokerLifecycle --------------------------
(***************************************************************************)
(* A small instance of BrokerLifecycle: three processes are enough for one *)
(* that shuts down, one that takes its place and one that a caller spawns  *)
(* when it cannot reach either.                                            *)
(***************************************************************************)
EXTENDS BrokerLifecycle

\* Killed anywhere, or never.
KilledAnywhere == Startup \cup Shutdown \cup {"acquire", "serving", "abort"}
=============================================================================
