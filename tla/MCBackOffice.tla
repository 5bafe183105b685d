---------------------------- MODULE MCBackOffice ----------------------------
(* Three connections for three requests, so that one that has two leaves   *)
(* one for another, and three that have one each wait for a second.  Each  *)
(* endpoint is asked for beside those that write or read the same rows.    *)
EXTENDS BackOffice

Happened(d, s, r) == [decision |-> d, status |-> s, ruled |-> r]

Some == {Happened("require_hitl", "waiting_for_human", TRUE),
         Happened("unheard_of", "executed", TRUE)}
Before == <<Happened("block", "blocked", TRUE), Happened("require_hitl", "waiting_for_human", TRUE)>>

Together == {
  <<"execute", "execute", "metrics">>,   <<"execute", "report", "report">>,
  <<"report", "report", "stored_report">>,
  <<"retrieve", "retrieve", "retrieve">>, <<"retrieve", "retrieve", "explain">>,
  <<"pages", "execute", "execute">>,     <<"pages", "chat", "retrieve">>,
  <<"execute", "dashboard", "blocked">>, <<"execute", "hitl", "response">>,
  <<"execute", "timeline", "violations">>, <<"chat", "effectiveness", "triggered">>,
  <<"chat", "dangerous", "risk">>}
=============================================================================
