----------------------------- MODULE MCMiddleware -----------------------------
(* Header values for the instances of the middleware modules.               *)
EXTENDS RequestId

\* Absent, acceptable, padded, Python-padded, too long.
FewTexts == {<<>>, <<"graph", "graph">>, <<"blank", "graph", "blank">>,
             <<"graph", "odd_blank">>, <<"graph", "graph", "graph">>}

\* Absent, padded.
TwoTexts == {<<>>, <<"blank", "graph", "blank">>}
=============================================================================
