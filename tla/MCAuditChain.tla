--------------------------- MODULE MCAuditChain ----------------------------
(* Three concurrent calls of log: enough for one to hold the lock, one to  *)
(* wait for it and one to have failed or to be still to come.              *)
EXTENDS AuditChain
=============================================================================
