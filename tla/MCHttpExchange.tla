--------------------------- MODULE MCHttpExchange ---------------------------
EXTENDS HttpExchange, MCHttpParser

user == <<"username", "=">>
word == <<"password", "=">>

(* Login forms: both fields in either order, one of them, one twice, none   *)
(* (with the name behind the eighth character or not), and empty values.    *)
Forms ==
  {user \o <<"wlgls", "&">> \o word \o name,
   user \o <<"wlgls">>,
   user \o name \o <<"&">> \o word \o name,
   user \o <<"wlgls", "a", "&">> \o word \o name,
   user \o <<"&">> \o word,
   word \o name \o <<"&">> \o user \o <<"wlgls">>,
   word \o <<"wlgls">>,
   user \o name \o <<"&">> \o user \o <<"wlgls">>,
   <<"password", "wlgls">>,
   <<"a", "=", "wlgls">>,
   <<"a", "=", "wlgls", "a">>,
   <<"a", "a", "a", "=", "wlgls", "=", "wlgls">>,
   <<>>}

RouteParts ==
  [method  : {"GET", "POST", "HEAD", "PUT"},
   url     : {<<"/">>, <<"/", "mhw">>, <<"/", "cat.jpg">>, <<"/", "login">>,
              <<"/", "login", "/">>},
   params  : {<<>>, <<<<name, name>>>>},
   headers : {<<>>, <<<<length, <<"7">>>>>>, <<<<length, <<"0">>>>>>},
   version : {"1.0"},
   body    : Forms]

(* A login, split everywhere. *)
Logins ==
  [method : {"POST"}, url : {<<"/", "login">>}, params : {<<>>},
   headers : {<<>>, <<<<length, <<"7">>>>>>}, version : {"1.1"}, body : Forms]

ExchangeParts == MCParts \cup RouteParts

(* Requests to every route, whole. *)
Routes == {<<RequestText(p), <<>>>> : p \in RouteParts}

ExchangeInput ==
  MCInput \cup Routes
          \cup SplitOf({RequestText(p) : p \in Logins})

RepositoryFiles == {"index.html", "mhw.html", "cat.jpg"}
=============================================================================
