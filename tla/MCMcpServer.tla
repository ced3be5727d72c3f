----------------------------- MODULE MCMcpServer ----------------------------
(* McpServer for one session: a host that calls, sends notifications and what *)
(* is no message, uses an id twice, and compares more models than it may.     *)
EXTENDS McpServer

Says(method, x) == [method |-> method, tool |-> "unknown", models |-> 0, id |-> x]
Calls(tool, n, x) == [method |-> "tools/call", tool |-> tool, models |-> n, id |-> x]

MCScript == <<
  Says("other", "none"),
  Calls("conifer_compare", 4, "b"),
  Says("notifications/initialized", "none"),
  Calls("single", 0, "c"),
  Says("garbage", "a"),
  Calls("conifer_compare", 1, "a"),
  Calls("unknown", 0, "c"),
  Says("blank", "none"),
  Calls("single", 0, "c"),
  Calls("single", 0, "none")>>

MCIds == {"a", "b", "c", "null"}
=============================================================================
