---------------------------- MODULE MC_HttpClient ----------------------------
(* HttpClient for every kind of call the providers make. *)
EXTENDS HttpClient

\* OpenAI and Claude go directly, Gemini through its proxy; http:// is a local model.
SomeCalls ==
    [scheme : {"http", "https"}, proxied : BOOLEAN, stream : BOOLEAN, openssl : {TRUE}]
        \cup [scheme : {"https", "other"}, proxied : {FALSE}, stream : {TRUE}, openssl : {FALSE}]

SomeHosts == {<<>>, <<"refuses", "answers">>, <<"silent", "answers">>, <<"answers">>}

Says(parts, n) == [parts |-> parts, length |-> n]

\* Each framing, with nothing, an error, another encoding, or a line that is none.
SomeAnswers ==
    {Says(<<"continue", "ok", "length", "blank", "piece", "piece", "piece">>, 2),
     Says(<<"ok", "chunked", "close", "blank", "size", "piece", "size", "piece", "last", "blank">>, 0),
     Says(<<"ok", "chunked", "blank", "size", "piece", "last", "trailer", "blank">>, 0),
     Says(<<"ok", "chunked", "blank", "size", "piece", "junk">>, 0),
     Says(<<"ok", "chunked", "blank", "size", "piece", "last", "piece", "blank", "piece">>, 0),
     Says(<<"ok", "other", "blank", "piece", "piece">>, 0),
     Says(<<"ok", "gzip", "length", "blank", "piece">>, 1),
     Says(<<"error", "length", "close", "blank", "piece">>, 1),
     Says(<<"nothing", "blank">>, 0),
     Says(<<"junk">>, 0),
     Says(<<"ok", "junk", "blank">>, 0)}

SomeTunnels ==
    {Says(<<"ok", "blank">>, 0), Says(<<"error", "length", "blank", "piece">>, 1),
     Says(<<"junk", "other", "blank">>, 0)}
=============================================================================
