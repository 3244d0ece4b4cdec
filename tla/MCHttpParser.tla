---------------------------- MODULE MCHttpParser ----------------------------
EXTENDS HttpParser, FiniteSets

name   == <<"a">>
length == <<"Content-Length">>

MCParts ==
  [method  : {"GET", "POST"},
   url     : {<<"/", "a">>},
   params  : {<<>>, <<<<name, name>>>>, <<<<name, <<"7">>>>, <<<<"7">>, name>>>>,
              <<<<name, <<"7">>>>, <<name, name>>>>},
   headers : {<<>>, <<<<name, name>>>>, <<<<length, <<"7">>>>>>,
              <<<<length, <<"0">>>>, <<name, <<"a", " ", "7">>>>>>,
              <<<<name, <<>>>>>>},
   version : {"1.1"},
   body    : {<<>>, <<"a", "=">>}]

Texts == {RequestText(p) : p \in MCParts}

Whole == {<<t, <<>>>> : t \in Texts}

(* A request in two reads. *)
SplitOf(texts) ==
  UNION {{<<SubSeq(t, 1, i), SubSeq(t, i + 1, Len(t))>> :
            i \in 1 .. Len(t) - 1} : t \in texts}

Split == SplitOf(Texts)

(* A request with one token too few, or one replaced. *)
Damaged ==
  UNION {{<<SubSeq(t, 1, i - 1) \o SubSeq(t, i + 1, Len(t)), <<>>>> :
            i \in DOMAIN t}
           \cup {<<[t EXCEPT ![i] = x], <<>>>> :
                   i \in DOMAIN t, x \in {" ", "CR", "LF", ":", "/", "a"}}
         : t \in Texts}

MCInput   == Whole \cup Split \cup Damaged
OneRead   == Whole \cup Damaged
=============================================================================
