------------------------------ MODULE QueryJob ------------------------------
(***************************************************************************)
(* What a pgQueryThread made for a single query promises the window that   *)
(* started it: it answers once, with the query's event, and only then      *)
(* ends; a query that was cancelled before it was answered says so, unless *)
(* it never got as far as the backend.                                     *)
(***************************************************************************)
EXTENDS Naturals

VARIABLES
    phase,      \* "running", "answered" (IsRunning() still holds) or "ended"
    code,       \* ReturnCode()
    cancelled,  \* m_cancelled
    announced   \* number of events posted

jobVars == <<phase, code, cancelled, announced>>

\* A result that fits, an answer without one, an error from the server, no
\* answer at all (the negative codes of pgQueryResultEvent), a cancellation.
Answers == {"tuples", "command", "error", "failed", "cancelled"}

JobInit ==
    /\ phase = "running"
    /\ code = "none"
    /\ cancelled = FALSE
    /\ announced = 0

Answer(c) ==
    /\ phase = "running"
    /\ IF cancelled THEN c \in {"cancelled", "failed"} ELSE c \in Answers \ {"cancelled"}
    /\ phase' = "answered"
    /\ code' = c
    /\ announced' = announced + 1
    /\ UNCHANGED cancelled

End ==
    /\ phase = "answered"
    /\ phase' = "ended"
    /\ UNCHANGED <<code, cancelled, announced>>

Cancel ==
    /\ ~cancelled
    /\ cancelled' = TRUE
    /\ UNCHANGED <<phase, code, announced>>

JobNext == (\E c \in Answers : Answer(c)) \/ End \/ Cancel

JobSpec == JobInit /\ [][JobNext]_jobVars

=============================================================================
