---------------------------- MODULE AuditLedger ----------------------------
(***************************************************************************)
(* What the audit log promises its callers, with no database in sight: a   *)
(* history of numbered entries that never change, to which every call adds *)
(* at most one, and a call that returned normally has added exactly one.   *)
(* Calls that overlap may be entered in either order, but an entry comes   *)
(* after all those there were when its call was opened.  A call that       *)
(* raised may still have added its entry (the acknowledgement of the       *)
(* commit was lost), so callers may not take an exception for "nothing was *)
(* recorded".                                                              *)
(***************************************************************************)
EXTENDS Integers, FiniteSetsExt

CONSTANT Calls      \* calls of PostgresAuditLogger.log, one per executed action

VARIABLES
  entries,          \* the history: whose entry is under which number
  call,             \* what each call has come to
  floor             \* the last number in use when each call was opened

vars == <<entries, call, floor>>

Init ==
  /\ entries = <<>>
  /\ call = [c \in Calls |-> "idle"]
  /\ floor = [c \in Calls |-> 0]

Open(c) ==
  /\ call[c] = "idle"
  /\ call' = [call EXCEPT ![c] = "open"]
  /\ floor' = [floor EXCEPT ![c] = IF DOMAIN entries = {} THEN 0 ELSE Max(DOMAIN entries)]
  /\ UNCHANGED entries

Record(c) ==
  /\ call[c] = "open"
  /\ \E n \in DOMAIN entries' \ DOMAIN entries :
       /\ n > floor[c]
       /\ entries' = [m \in DOMAIN entries \union {n} |-> IF m = n THEN c ELSE entries[m]]
  /\ \E result \in {"logged", "raised"} : call' = [call EXCEPT ![c] = result]
  /\ UNCHANGED floor

Refuse(c) ==
  /\ call[c] = "open"
  /\ call' = [call EXCEPT ![c] = "raised"]
  /\ UNCHANGED <<entries, floor>>

Next == \E c \in Calls : Open(c) \/ Record(c) \/ Refuse(c)

Spec == Init /\ [][Next]_vars
=============================================================================
