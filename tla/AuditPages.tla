----------------------------- MODULE AuditPages -----------------------------
(***************************************************************************)
(* GET /audit/logs: AuditService.search, with which a client reads the     *)
(* audit log page by page, newest first, while entries are added.  Every   *)
(* page is a request of its own.                                           *)
(***************************************************************************)
EXTENDS ActionRecords

CONSTANTS
  PageSize,         \* page_size
  Everything        \* no filter

ASSUME PageSizeAssumption == PageSize \in Nat \ {0}

VARIABLES
  filter,           \* the decision each client searches for
  page,             \* the page it reads
  there,            \* the entries there were when it read the first page
  seen              \* those it has seen

pageVars == <<filter, page, there, seen>>

PagesInit ==
  /\ filter = [q \in Requests |-> Everything]
  /\ page = [q \in Requests |-> 1]
  /\ there = [q \in Requests |-> {}]
  /\ seen = [q \in Requests |-> {}]

\* Ids of the entries that pass a filter.
Filtered(d) == {i \in DOMAIN audits : d = Everything \/ audits[i] = d}

\* Mutated form: pages are counted from zero.
Skipped_from_zero(p) == p * PageSize

Skipped(p) == (p - 1) * PageSize

\* ORDER BY id DESC OFFSET ... LIMIT ...
search(d, p) ==
  {i \in Filtered(d) :
     LET newer == Cardinality({j \in Filtered(d) : j > i}) IN
     Skipped(p) <= newer /\ newer < Skipped(p) + PageSize}

\* The client asks for the next page as long as those it gets are full.  It does not go
\* by the number of pages, which search counts in a statement before.
Search(q) ==
  LET found == search(filter[q], page[q]) IN
  /\ pc[q] = "search" /\ Connected(q)
  /\ there' = [there EXCEPT ![q] = IF page[q] = 1 THEN Filtered(filter[q]) ELSE @]
  /\ seen' = [seen EXCEPT ![q] = @ \union found]
  /\ page' = [page EXCEPT ![q] = @ + 1]
  /\ Committed(q, IF Cardinality(found) = PageSize THEN "auth" ELSE "read")
  /\ UNCHANGED filter

ForgetPages(q) ==
  /\ filter' = [filter EXCEPT ![q] = Everything]
  /\ page' = [page EXCEPT ![q] = 1]
  /\ there' = [there EXCEPT ![q] = {}]
  /\ seen' = [seen EXCEPT ![q] = {}]

ReadAll(q) ==
  /\ pc[q] = "read"
  /\ Over(q, "done")
  /\ ForgetPages(q)

PageStep(q) == Search(q) \/ ReadAll(q)
=============================================================================
