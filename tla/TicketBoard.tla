---------------------------- MODULE TicketBoard -----------------------------
(***************************************************************************)
(* What the approval workflow promises about a ticket, with reviewers that *)
(* act at the same time.  A review contends for a ticket only while it is  *)
(* pending; of those that contend, one at a time may run the tool; a ticket*)
(* is resolved by contenders only, as approved exactly by one that ran the *)
(* tool.  Once a ticket is resolved no review joins the contenders, so when*)
(* the last of them is gone the ticket and its tool are final.             *)
(*                                                                         *)
(* It does not promise that only one of the contenders resolves the ticket *)
(* or runs the tool: the code does not keep that.                          *)
(***************************************************************************)
EXTENDS Integers

CONSTANTS Execs, Reviews

VARIABLES
  status,           \* of each ticket
  runs,             \* how often its tool was started
  contenders,       \* reviews that saw the ticket pending and are not done
  ran               \* those of them that have started the tool

vars == <<status, runs, contenders, ran>>

Init ==
  /\ status \in [Execs -> {"none", "pending"}]
  /\ runs = [e \in Execs |-> 0]
  /\ contenders = [e \in Execs |-> {}]
  /\ ran = [e \in Execs |-> {}]

Contend(e, q) ==
  /\ status[e] = "pending"
  /\ contenders' = [contenders EXCEPT ![e] = @ \union {q}]
  /\ UNCHANGED <<status, runs, ran>>

Run(e, q) ==
  /\ q \in contenders[e]
  /\ ran[e] = {}
  /\ runs' = [runs EXCEPT ![e] = @ + 1]
  /\ ran' = [ran EXCEPT ![e] = {q}]
  /\ UNCHANGED <<status, contenders>>

Leave(e, q) ==
  /\ q \in contenders[e]
  /\ contenders' = [contenders EXCEPT ![e] = @ \ {q}]
  /\ ran' = [ran EXCEPT ![e] = @ \ {q}]
  /\ UNCHANGED runs

Resolve(e, q) ==
  /\ \E s \in {"approved", "rejected", "expired"} :
       /\ s = "approved" <=> q \in ran[e]
       /\ status' = [status EXCEPT ![e] = s]
  /\ Leave(e, q)

Withdraw(e, q) == Leave(e, q) /\ UNCHANGED status

Next ==
  \E e \in Execs, q \in Reviews :
    Contend(e, q) \/ Run(e, q) \/ Resolve(e, q) \/ Withdraw(e, q)

Spec == Init /\ [][Next]_vars
=============================================================================
