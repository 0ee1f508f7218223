--------------------------- MODULE MCQueryThread ---------------------------
(***************************************************************************)
(* Instances of QueryThread for TLC.                                       *)
(***************************************************************************)
EXTENDS QueryThreadJob

Q(script, nth) == [script |-> script, nth |-> nth, encodable |-> TRUE]

NotEncodable == [script |-> <<"command">>, nth |-> -1, encodable |-> FALSE]

\* For the queue: a query that libpq cannot be given, a SELECT and a command
\* of which the first result is asked for, an error after rows, and COPY in
\* both directions, the COPY TO STDOUT between two results.
BatchQueries ==
    {NotEncodable, Q(<<"tuples", "command">>, 1), Q(<<"tuples", "error">>, -1),
     Q(<<"copyin", "error">>, -1),
     Q(<<"tuples", "copyout", "row", "command", "tuples">>, 2)}

\* For a single query: longer answers and every choice of the result, among
\* them one that does not exist.
LongQueries ==
    {[script |-> <<"tuples">> \o b \o c, nth |-> n, encodable |-> TRUE] :
        b \in {<<>>, <<"command">>, <<"copyout", "row", "row", "command">>,
               <<"copyout", "command", "tuples">>},
        c \in {<<"tuples">>, <<"error">>, <<"copyin", "error">>,
               <<"copyout", "row", "error">>},
        n \in 0..4}

\* For a cancellation in the midst of COPY TO STDOUT.
CopyOutQueries == {Q(<<"copyout", "row", "row", "command">>, 0)}

=============================================================================
