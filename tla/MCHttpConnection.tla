-------------------------- MODULE MCHttpConnection --------------------------
(* The streams of the run of HttpConnection: a request line, up to two headers, *)
(* an empty line, up to three tokens after it, at most one line end malformed;  *)
(* and two requests sent at once. SomeLater is sent later, on the same or a new *)
(* connection.                                                                  *)
EXTENDS HttpConnection, TLC

(* Lengths that count, one that is no number and so 0, a negative one, the greatest *)
(* int, and one that no int holds and that becomes 1, each with INT_MAX = 31.       *)
SomeLengths ==
  ("len0" :> 0) @@ ("len1" :> 1) @@ ("len2" :> 2) @@ ("minus" :> -9) @@ ("max" :> 31) @@ ("wraps" :> 65)

CrLf == <<"cr", "lf">>
Stray == {<<"cr">>, <<"lf">>}

Header == {<<"keep">>, <<"len1">>, <<"len2">>, <<"other">>}
OneHeader == {h \o CrLf : h \in Header}
Headers == {<<>>} \union OneHeader \union {g \o h : g \in OneHeader, h \in OneHeader}
Rest == {<<>>, <<"x">>, <<"x", "x">>, <<"x", "cr", "lf">>, <<"keep", "cr", "lf">>}

Get == <<"get">> \o CrLf

OddHeader == {h \o CrLf : h \in {<<"len0">>, <<"minus">>, <<"max">>, <<"wraps">>}}
OddHeaders == OddHeader \union {<<"len1">> \o CrLf \o h : h \in OddHeader}
                \union {h \o <<"len1">> \o CrLf : h \in OddHeader}

SomeStreams ==
  {Get \o h \o CrLf \o r : h \in Headers, r \in Rest}
    \union {Get \o h \o CrLf \o r : h \in OddHeaders, r \in {<<>>, <<"x">>, <<"x", "cr", "lf">>}}
    \union {l \o CrLf \o h \o CrLf : l \in {<<"other">>, <<>>}, h \in OneHeader}
    \union {<<"get">> \o e \o h \o CrLf : e \in Stray, h \in OneHeader}
    \union {Get \o h \o <<"len1">> \o e \o CrLf \o <<"x">> : e \in Stray, h \in OneHeader}
    \union {Get \o h \o e \o <<"x">> : e \in Stray, h \in OneHeader}
    \union {Get \o <<"keep">> \o CrLf \o CrLf \o Get \o CrLf}

SomeLater == {Get \o CrLf, Get \o <<"keep">> \o CrLf \o CrLf, Get \o <<"len1">> \o CrLf \o CrLf \o <<"x">>}
=============================================================================
