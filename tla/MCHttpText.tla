----------------------------- MODULE MCHttpText -----------------------------
(* HttpText on short requests: index is "i", a method "G", a version "H".  *)
EXTENDS HttpText

MCChars == {"G", "H", "i", "d", "k", "v", "w", "t", "x", "/", ".", ":", " ", "\r", "\n"}

Get(u, headers) == [line |-> <<<<"G">>, u, <<"H">>>>, headers |-> headers]
K == <<"k">>
D == <<"d">>

(* Uris of IndexApp with and without their last slash, with an empty name, *)
(* with dots, without a first slash or any, and of no application; no      *)
(* header, two, one twice, one with spaces in it, an empty one; and some   *)
(* without a space behind the colon, in front of one with the same name.   *)
MCRequests ==
  { Get(<<"/", "i", "/">>, <<<<K, <<" ", "v">>>>, <<K, <<" ", "w">>>>>>),
    Get(<<"/", "i">>, <<>>), Get(<<"i">>, <<>>),
    Get(<<"/", "i", "/", "d", "/", "d">>, <<<<D, <<" ", "v", " ", "w">>>>, <<K, <<" ">>>>>>),
    Get(<<"/", "i", "/", "/", "d", ".", "x", "/">>, <<<<K, <<" ", "v">>>>>>),
    Get(<<"d", "/", "i">>, <<<<K, <<" ", ":", " ", "v">>>>>>),
    Get(<<"/", "d">>, <<<<D, <<"v", " ", "w">>>>, <<D, <<" ", "v">>>>>>),
    Get(<<"/", "d">>, <<<<K, <<>>>>, <<D, <<"v">>>>, <<K, <<" ", "v">>>>>>) }

(* The end of other requests: nothing, text, ends of a request line and of *)
(* a header line, a header, one with no space, lines that are too short.   *)
MCLeftovers ==
  { <<>>, <<"x">>, <<"/", "d", " ", "H", "\r", "\n">>, <<"\n", "k", ":", " ", "w">>,
    <<"k", ":", " ", "w", "\n", "d", ":", " ", "x", "\r", "\n">>,
    <<"v", "\r", "\n", "d", ":", "x">>, <<" ", " ", "\n", "k", ":", "\n", "\r">> }

MCEntries == { <<"d">>, <<"d", ".", "x">>, <<"x", ".", "d", ".", "k">>, <<"k", ".">>, <<"d", " ", "k">> }

MCIndex == <<"i">>

MCWorkDir == <<"/", "w", ".", "x">>

MCMime == [ext \in {<<"x">>, <<"k">>} |-> IF ext = <<"x">> THEN "text/html" ELSE "image/png"]
=============================================================================
