--------------------------- MODULE QueryThreadJob ---------------------------
(***************************************************************************)
(* A QueryThread with a single query, seen as a QueryJob.                  *)
(***************************************************************************)
EXTENDS QueryThread

JobPhase ==
    IF pc \in {"exited", "deleted"} THEN "ended"
    ELSE IF Finished(1) THEN "answered" ELSE "running"

\* The code a query that was answered ends with.
JobCode ==
    IF ~Finished(1) THEN "none"
    ELSE IF rc[1] \in {"conn_lost", "string_invalid", "send_query", "consume_input"}
         THEN "failed" ELSE rc[1]

Job == INSTANCE QueryJob WITH
           phase <- JobPhase, code <- JobCode, announced <- raised[1]

\* The thread keeps the promise the query tool relies on: through every
\* path of Execute and with every failure of the session, one answer, one
\* event with it, and the end of the thread behind both.
ImplementsJob == Job!JobSpec

=============================================================================
