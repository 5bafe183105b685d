------------------------- MODULE MCApprovalWorkflow -------------------------
(* Two reviews and two tickets: the reviews contend for one ticket, or one *)
(* comes when the other is done, or each has a ticket of its own.  The     *)
(* clock passes the deadline: a ticket may be reviewed before it, at it    *)
(* and after it, and the hour may strike between any two steps.            *)
EXTENDS ApprovalWorkflow
=============================================================================
