----------------------------- MODULE Connection -----------------------------
(***************************************************************************)
(* One database session as the code in db/ sees it: the libpq connection   *)
(* inside a pgConn, pgConn's cancel handle, and, as an environment, the    *)
(* network and the PostgreSQL backend at the other end.                    *)
(*                                                                         *)
(* A conversation is the sequence of what PQgetResult and PQgetCopyData    *)
(* still have to hand out.  Rows of a result set, the text of messages and *)
(* the bytes of the protocol are left out; a result is one item.           *)
(*                                                                         *)
(*   "tuples"   PGRES_TUPLES_OK                                            *)
(*   "command"  PGRES_COMMAND_OK (PGRES_EMPTY_QUERY is not told apart)     *)
(*   "copyin"   PGRES_COPY_IN: the backend now waits for the client        *)
(*   "copyout"  PGRES_COPY_OUT, then one "row" per copied row              *)
(*   "error"    PGRES_FATAL_ERROR                                          *)
(*   "ready"    ReadyForQuery: PQgetResult returns NULL                    *)
(***************************************************************************)
EXTENDS Integers, Sequences

CONSTANTS
    CancelCanFail,  \* PQcancel may fail although the session is alive
    NetCanDrop      \* the network may go away

ASSUME ConnectionAssumption ==
    /\ CancelCanFail \in BOOLEAN
    /\ NetCanDrop \in BOOLEAN

ResultKind == {"tuples", "command", "copyin", "copyout", "error"}
Item == ResultKind \cup {"row", "ready"}

VARIABLES
    status,      \* PQstatus(conn): "ok" or "bad"
    link,        \* the network, which libpq only learns about by reading
    stream,      \* what the current command still has to hand out
    sent,        \* how many items of stream the backend has sent
    buffered,    \* how many of those libpq has read from the socket
    backend,     \* "idle", "sent" (the command is on its way) or "busy"
    copyWait,    \* the backend is in COPY FROM STDIN and waits for us
    cancelReq,   \* a cancel signal is pending in the backend
    cancelConn   \* pgConn::m_cancelConn is not NULL

connVars == <<status, link, stream, sent, buffered, backend, copyWait,
              cancelReq, cancelConn>>
serverVars == <<link, backend, copyWait, cancelReq>>

ConnTypeOK ==
    /\ status \in {"ok", "bad"}
    /\ link \in {"up", "down"}
    /\ stream \in Seq(Item)
    /\ sent \in 0..Len(stream)
    /\ buffered \in 0..sent
    /\ backend \in {"idle", "sent", "busy"}
    /\ copyWait \in BOOLEAN
    /\ cancelReq \in BOOLEAN
    /\ cancelConn \in BOOLEAN

\* A connection that pgConn has just opened.
ConnInit ==
    /\ status = "ok"
    /\ link = "up"
    /\ stream = <<>>
    /\ sent = 0
    /\ buffered = 0
    /\ backend = "idle"
    /\ copyWait = FALSE
    /\ cancelReq = FALSE
    /\ cancelConn = FALSE

-----------------------------------------------------------------------------
(* libpq, called from the query thread                                     *)

\* PQsendQuery and PQsendQueryParams: refused while a command is in
\* progress; into a dead socket the send may fail or go unnoticed.
CanSend == stream = <<>>
SendMayFail == stream # <<>> \/ link = "down"

PQsendQuery(script) ==
    /\ CanSend
    /\ stream' = Append(script, "ready")
    /\ sent' = 0
    /\ buffered' = 0
    /\ backend' = IF link = "up" THEN "sent" ELSE backend
    /\ UNCHANGED <<status, link, copyWait, cancelReq, cancelConn>>

\* PQconsumeInput returns 1: whatever has arrived is now in libpq's buffer.
ConsumeSucceeds == link = "up" \/ buffered < sent

PQconsumeInput ==
    /\ ConsumeSucceeds
    /\ buffered' = sent
    /\ UNCHANGED <<status, stream, sent, cancelConn>>
    /\ UNCHANGED serverVars

\* PQconsumeInput returns 0: end of file marks the connection bad, a failed
\* flush does not.
ConsumeFails ==
    /\ ~ConsumeSucceeds
    /\ status' \in {"ok", "bad"}
    /\ UNCHANGED <<stream, sent, buffered, cancelConn>>
    /\ UNCHANGED serverVars

\* PQputCopyEnd with an error message: the backend stops waiting for data.
\* (Mutant: the call is missing.)
MutNoCopyEnd == copyWait' = copyWait

PQputCopyEnd == copyWait' = FALSE

\* Take the next item.  If it is not buffered the call blocks until it is
\* sent, and reads everything that has arrived.
TakeItem ==
    /\ sent > 0
    /\ stream' = Tail(stream)
    /\ sent' = sent - 1
    /\ buffered' = IF buffered > 0 THEN buffered - 1 ELSE sent - 1

\* A blocking PQgetResult on a dead session makes up an error result and
\* leaves the connection bad and idle.
ReadDead ==
    /\ sent = 0
    /\ link = "down"
    /\ status' = "bad"
    /\ stream' = <<>>
    /\ buffered' = 0
    /\ UNCHANGED <<sent, cancelConn>>
    /\ UNCHANGED serverVars

-----------------------------------------------------------------------------
(* pgConn's cancel handle; all three run under m_cancelConnMutex           *)

\* PQgetCancel returns NULL for a connection without a socket.
SetConnCancel == cancelConn' = (status = "ok")

ResetConnCancel == cancelConn' = FALSE

\* The handle is used up whether or not PQcancel succeeds.  A backend that
\* is idle ignores the signal.
CancelRequest ==
    /\ cancelConn' = FALSE
    /\ \/ cancelReq' = (cancelReq \/ (cancelConn /\ link = "up" /\ backend # "idle"))
       \/ CancelCanFail /\ cancelReq' = cancelReq

-----------------------------------------------------------------------------
(* The backend and the network                                             *)

\* The backend reads the command.  A cancel signal that came before it is
\* dropped: the backend was idle then.
ServerStart ==
    /\ link = "up"
    /\ backend = "sent"
    /\ backend' = "busy"
    /\ cancelReq' = FALSE
    /\ UNCHANGED <<status, link, stream, sent, buffered, copyWait, cancelConn>>

\* The backend sends its next item, unless it waits for COPY data.
ServerSend ==
    /\ link = "up"
    /\ backend = "busy"
    /\ ~copyWait
    /\ sent < Len(stream)
    /\ sent' = sent + 1
    /\ copyWait' = (stream[sent + 1] = "copyin")
    /\ IF stream[sent + 1] = "ready"
       THEN backend' = "idle" /\ cancelReq' = FALSE
       ELSE UNCHANGED <<backend, cancelReq>>
    /\ UNCHANGED <<status, link, stream, buffered, cancelConn>>

\* The end of a command that has nothing left to compute.
ServerFlush ==
    /\ sent < Len(stream) /\ stream[sent + 1] \in {"error", "ready"}
    /\ ServerSend

\* The backend notices the cancel signal and gives up the rest of the
\* command with an error.
ServerCancel ==
    /\ link = "up"
    /\ backend = "busy"
    /\ cancelReq
    /\ sent < Len(stream)
    /\ stream[sent + 1] # "ready"
    /\ stream' = SubSeq(stream, 1, sent) \o <<"error", "ready">>
    /\ cancelReq' = FALSE
    /\ copyWait' = FALSE
    /\ UNCHANGED <<status, link, sent, buffered, backend, cancelConn>>

\* The session breaks; some of what was under way still arrives.
NetDrop ==
    /\ NetCanDrop
    /\ link = "up"
    /\ link' = "down"
    /\ \E n \in buffered..sent : sent' = n
    /\ backend' = "idle"
    /\ copyWait' = FALSE
    /\ cancelReq' = FALSE
    /\ UNCHANGED <<status, stream, buffered, cancelConn>>

Environment == ServerStart \/ ServerSend \/ ServerCancel \/ NetDrop

=============================================================================
