------------------------------- MODULE MCStartup -------------------------------
(* Environments for Startup: at most one variable set in each, with values   *)
(* of every kind the parsers tell apart.                                     *)
EXTENDS Startup, TLC

Numerals == ("0" :> 0) @@ ("8080" :> 8080) @@ ("8090" :> 8090) @@ ("65535" :> 65535)
              @@ ("65536" :> 65536)
PyNumerals == Numerals @@ ("8_090" :> 8090)
Lengths == ("0s" :> 0) @@ ("-2s" :> -2) @@ ("2s" :> 2) @@ ("1m" :> 60)
LevelNames == [debug |-> -4, info |-> 0, WARN |-> 4, ERROR |-> 8]

Origin(scheme, host, port, written) ==
  [scheme |-> scheme, host |-> host, port |-> port, user |-> FALSE, written |-> written]
FewOrigins ==
  LET here == Origin("http", "localhost", 8090, "http://localhost:8090")
  IN  ("http://localhost:8090" :> here) @@ ("HTTP://localhost:8090" :> here)
      @@ ("http://localhost:8080" :> Origin("http", "localhost", 8080, "http://localhost:8080"))
      @@ ("https://localhost:8090" :> Origin("https", "localhost", 8090, "https://localhost:8090"))
      @@ ("ftp://localhost:8090" :> Origin("ftp", "localhost", 8090, "ftp://localhost:8090"))
      @@ ("http://" :> Origin("http", "", 0, "http://"))
      @@ ("http://u@localhost:8090" :> [here EXCEPT !.user = TRUE, !.written = "http://u@localhost:8090"])

\* Roots, paths with and without escapes, with a space, broken; queries, fragments.
UrlEnds ==
  {<<>>, <<"/", "/">>, <<"/", "a", "/">>, <<"/", "a", "%20", "/">>, <<"/", "a", "blank">>,
   <<"/", "a", "%3F", "/">>, <<"/", "%2F">>, <<"/", "a", "%2F", "b">>, <<"/", "%zz">>, <<"a">>,
   <<"/", "odd_blank", "a">>, <<"?">>, <<"/", "a", "blank", "b", "/", "?", "#">>, <<"#">>,
   <<"/", "?", "q">>, <<"#", "f">>}

\* A value plain, padded, padded with what only Python trims; and blank ones.
Forms(texts) == texts \cup {<<"blank">> \o t \o <<"blank">> : t \in texts}
                  \cup {t \o <<"odd_blank">> : t \in texts}
                  \cup {<<>>, <<"blank">>, <<"odd_blank">>}
Words(words) == Forms({<<w>> : w \in words})

Numbers == Words({"0", "8080", "8_090", "65535", "65536", "text"})
Durations == Words({"0s", "-2s", "2s", "1m", "text"})
Levels == Words({"debug", "WARN", "WARNING", "ERROR", "text"})
UrlSettings == Forms({<<o>> : o \in DOMAIN Origins}
                       \cup {<<"http://localhost:8090">> \o end : end \in UrlEnds})
Names == Words({"test", "raw"}) \cup {<<"test", "odd_blank", "test">>}

OneOf(key, values) == {key :> v : v \in values}

FewApiEnvironments ==
  {<<>>} \cup OneOf("SEARCH_API_PORT", Numbers) \cup OneOf("LOG_LEVEL", Levels)
  \cup UNION {OneOf(key, Durations) : key \in DOMAIN DefaultTimeout}
  \cup OneOf("ML_SERVICE_URL", UrlSettings)
FewMlEnvironments ==
  {<<>>} \cup OneOf("ML_SERVICE_PORT", Numbers) \cup OneOf("LOG_LEVEL", Levels)
  \cup OneOf("GROUNDEDSEARCH_ENV", Names)
=============================================================================
