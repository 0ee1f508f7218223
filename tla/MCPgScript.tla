----------------------------- MODULE MCPgScript -----------------------------
(***************************************************************************)
(* Instances of PgScript for TLC.                                          *)
(***************************************************************************)
EXTENDS PgScript

CONSTANTS w1, w2

\* One window to close and one that stays.
TwoWindows == {w1, w2}
OneWindow == {w1}

\* Scripts with everything but a query inside a PRINT: some that end, and a
\* loop behind a query.
AllScripts ==
    {<<"print", "query">>, <<"print", "fail", "print">>, <<"query", "loop">>,
     <<"syntax">>}

\* PRINT (SELECT ...).
PrintQueryScripts == {<<"print">>, <<"print_query">>}

=============================================================================
