----------------------------- MODULE MCHostRun -----------------------------
(* HostRun with two sessions and an MCP server. *)
EXTENDS HostRun

CONSTANTS s1, s2, n1

TwoSessions == {s1, s2}
OneServer == {n1}
=============================================================================
