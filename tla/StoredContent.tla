--------------------------- MODULE StoredContent ----------------------------
(***************************************************************************)
(* What the language model wrote about an execution, an audit entry or a   *)
(* simulation, kept in ai_generated_content: app/api/ai_routes.py and      *)
(* AIGeneratedContentRepository.  POST /ai/explain and its like ask Groq   *)
(* and keep the answer; the GET endpoints serve the newest that is kept,   *)
(* or have one written, all within one transaction that is open while Groq *)
(* answers.                                                                *)
(***************************************************************************)
EXTENDS ConnectionPool, Sequences

CONSTANTS
  Sources,          \* what content is about: a source_type, source_id and content_type
  NoSource,
  NoContent         \* nothing kept or served

Content == [source : Sources \union {NoSource}, created_at : Nat]

ASSUME NoContentAssumption == NoContent \notin Content

VARIABLES
  source,           \* what each request is about
  contents,         \* rows of ai_generated_content, in the order of their ids
  served,           \* the content a request answers with
  settled,          \* created_at of the newest content served for a source
  floor             \* settled, when a request came

contentVars == <<source, contents, served, settled, floor>>

ContentInit ==
  /\ source = [q \in Requests |-> NoSource]
  /\ contents = <<>>
  /\ served = [q \in Requests |-> NoContent]
  /\ settled = [s \in Sources |-> 0]
  /\ floor = [q \in Requests |-> 0]

\* Mutated form: the content inserted last.
find_by_source_last(s) ==
  LET those == {i \in DOMAIN contents : contents[i].source = s} IN
  IF those = {} THEN NoContent
  ELSE contents[CHOOSE i \in those : \A j \in those : j <= i]

\* The newest, by the time its transaction began.
find_by_source(s) ==
  LET those == {i \in DOMAIN contents : contents[i].source = s} IN
  IF those = {} THEN NoContent
  ELSE contents[CHOOSE i \in those :
                  \A j \in those : contents[j].created_at <= contents[i].created_at]

Serve(q) == served' = [served EXCEPT ![q] = find_by_source(source[q])]

\* A retrieval finds content, or goes on to the record it is about.
Find(q) ==
  /\ pc[q] = "find" /\ Connected(q)
  /\ Serve(q)
  /\ Proceed(q, IF find_by_source(source[q]) = NoContent THEN "lookup" ELSE "hand_out")
  /\ UNCHANGED <<source, contents, settled, floor>>

\* There is such a record, or the answer is 404.
Lookup(q) ==
  /\ pc[q] = "lookup" /\ Connected(q)
  /\ Proceed(q, "generate") \/ Over(q, "refused")
  /\ UNCHANGED contentVars

\* GroqService.chat returns an answer or, when the SDK has timed out and retried as
\* often as it does, an error.
chat == {"answer", "error"}

\* An error is passed on as a 502.  What was not asked for with the id of a record is not
\* kept.
Generate(q) ==
  /\ pc[q] = "generate"
  /\ \E result \in chat :
       \/ result = "answer" /\ Proceed(q, IF kind[q] = "retrieve" THEN "persist" ELSE "keep")
       \/ result = "answer" /\ kind[q] # "retrieve" /\ Over(q, "done")
       \/ result = "error" /\ Over(q, "failed")
  /\ UNCHANGED contentVars

\* _persist and its commit.
Persist(q) ==
  /\ pc[q] \in {"persist", "keep"} /\ Connected(q)
  /\ contents' = Append(contents, [source |-> source[q], created_at |-> stamp[q]])
  /\ Committed(q, IF pc[q] = "persist" THEN "reread" ELSE "kept")
  /\ UNCHANGED <<source, served, settled, floor>>

\* The retrieval serves what is newest now, its own or another's.
Reread(q) ==
  /\ pc[q] = "reread" /\ Connected(q)
  /\ Serve(q)
  /\ Proceed(q, "hand_out")
  /\ UNCHANGED <<source, contents, settled, floor>>

ForgetContent(q) ==
  /\ source' = [source EXCEPT ![q] = NoSource]
  /\ served' = [served EXCEPT ![q] = NoContent]
  /\ floor' = [floor EXCEPT ![q] = 0]

HandOut(q) ==
  /\ pc[q] \in {"hand_out", "kept"}
  /\ settled' = IF served[q] # NoContent /\ served[q].created_at > settled[source[q]]
                  THEN [settled EXCEPT ![source[q]] = served[q].created_at] ELSE settled
  /\ ForgetContent(q)
  /\ Over(q, "done")
  /\ UNCHANGED contents

ContentStep(q) ==
  Find(q) \/ Lookup(q) \/ Generate(q) \/ Persist(q) \/ Reread(q) \/ HandOut(q)
=============================================================================
