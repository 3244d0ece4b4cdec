---------------------------- MODULE HttpExchange ----------------------------
(***************************************************************************)
(* What the server makes of a read: HttpParser reads the request, and       *)
(* HttpOnMessage answers it, by HttpResponseCallback and HttpResponse, or   *)
(* with an error. A page is the name of its file; Content-Length always     *)
(* follows from the body and is left out.                                   *)
(***************************************************************************)
EXTENDS HttpParser

CONSTANT Files      (* the files in static_page                            *)

VARIABLE response   (* to what was read last                               *)

exchangeVars == <<vars, response>>

Unset == 0          (* status_code_ before anybody sets it                 *)

HttpResponse ==
  [status |-> Unset, reason |-> "", type |-> "", body |-> "", close |-> FALSE]

(* Nothing has been sent. *)
NoResponse == [status |-> Unset]

ExchangeInit ==
  /\ Init
  /\ response = NoResponse

-----------------------------------------------------------------------------
(* The routes of GET. *)

ReadFile(file) == IF file \in Files THEN file ELSE ""

Page(file, type) ==
  [HttpResponse EXCEPT !.status = 200, !.body = ReadFile(file), !.type = type]

(* Mistake (RoutedRight): a 404 leaves the connection open. *)
NotFoundStaysOpen ==
  [HttpResponse EXCEPT !.status = 404, !.reason = "Not Found",
                       !.body = "Sorry Not Found"]

NotFound ==
  [HttpResponse EXCEPT !.status = 404, !.reason = "Not Found",
                       !.body = "Sorry Not Found", !.close = TRUE]

Get(url) ==
  CASE url = <<"/">>            -> Page("index.htm", "text/html")
    [] url = <<"/", "mhw">>     -> Page("mhw.html", "text/html")
    [] url = <<"/", "cat.jpg">> -> Page("cat.jpg", "image/jpeg")
    [] OTHER                    -> NotFound

-----------------------------------------------------------------------------
(* POST /login. The fields are found by position: a token counts with its   *)
(* characters.                                                              *)

Width(token) ==
  CASE token \in {"username", "password"} -> 8
    [] token = "wlgls"                    -> 5
    [] OTHER                              -> 1

(* The length of the first n tokens. *)
Position(body, n) ==
  LET length[i \in Nat] ==
        IF i = 0 THEN 0 ELSE length[i - 1] + Width(body[i])
  IN  length[n]

(* Where a field's value starts: what find returns, -1 if there is none,    *)
(* and 9 more.                                                              *)
ValuePos(body, field) ==
  LET found == {i \in 1 .. Len(body) - 1 :
                  body[i] = field /\ body[i + 1] = "="}
  IN  9 + (IF found = {} THEN -1
           ELSE Position(body, (CHOOSE i \in found : \A j \in found : i <= j) - 1))

(* Mistake (ThrownOnlyIf): a body has to have both fields. *)
LoginNeedsFields(body) ==
  \E field \in {"username", "password"} :
    Position(body, Len(body)) <= ValuePos(body, field)

(* substr throws if it is to start behind the end. *)
LoginThrows(body) ==
  \E field \in {"username", "password"} :
    Position(body, Len(body)) < ValuePos(body, field)

(* The tokens from the value's position up to "&"; none if the position is  *)
(* inside a token, of which then a part is left.                            *)
UserIs(body, user) ==
  \E n \in 0 .. Len(body) :
    /\ Position(body, n) = ValuePos(body, "username")
    /\ LET rest == SubSeq(body, n + 1, Len(body))
           ends == {i \in DOMAIN rest : rest[i] = "&"}
       IN  IF ends = {}
             THEN rest = user
             ELSE SubSeq(rest, 1, (CHOOSE i \in ends : \A j \in ends : i <= j) - 1)
                    = user

Login(body) ==
  [HttpResponse EXCEPT !.status = 200, !.reason = "OK", !.type = "text/plain",
     !.body = IF UserIs(body, <<"wlgls">>) THEN "login ok!" ELSE "error!"]

-----------------------------------------------------------------------------
(* OnRequest and HttpOnMessage. *)

IsLogin(request) == request.method = "POST" /\ request.url = <<"/", "login">>

(* Other methods, and POST elsewhere, leave the response as it was made.    *)
HttpResponseCallback(request) ==
  IF request.method = "GET" THEN Get(request.url)
  ELSE IF IsLogin(request)  THEN Login(request.body)
  ELSE HttpResponse

DefaultStatusMessage(status) ==
  CASE status = 100 -> "Continue"
    [] status = 200 -> "OK"
    [] status = 400 -> "Bad Request"
    [] status = 403 -> "Forbidden"
    [] status = 404 -> "Not Found"
    [] status = 500 -> "Internal Server Error"
    [] OTHER        -> "Unknown"

(* What status_code_ may hold when nobody has set it: anything. *)
Leftover == {200, 404, 4711}

(* message(): the response as the peer reads it. *)
Message(r, leftover) ==
  LET status == IF r.status = Unset THEN leftover ELSE r.status
  IN  [r EXCEPT !.status = status,
                !.reason = IF @ = "" THEN DefaultStatusMessage(status) ELSE @]

Answering == ~Reading /\ ~thrown /\ response = NoResponse

(* A response that keeps the connection resets the parser.                  *)
OnRequest ==
  /\ Answering
  /\ state_ = "COMPLETE"
  /\ ~(IsLogin(request_) /\ LoginThrows(request_.body))
  /\ \E leftover \in Leftover :
       response' = Message(HttpResponseCallback(request_), leftover)
  /\ IF response'.close
       THEN UNCHANGED <<state_, request_>>
       ELSE state_' = "START" /\ request_' = Empty
  /\ UNCHANGED <<input, buffer, second, start, end, colon, thrown>>

(* Nothing catches what substr throws. *)
LoginWithoutFields ==
  /\ Answering
  /\ state_ = "COMPLETE"
  /\ IsLogin(request_)
  /\ LoginThrows(request_.body)
  /\ thrown' = TRUE
  /\ UNCHANGED <<input, buffer, second, state_, start, end, colon, request_,
                 response>>

(* The read was not, or not all of, a request. The parser is not reset.     *)
BadRequest ==
  /\ Answering
  /\ state_ # "COMPLETE"
  /\ response' = [HttpResponse EXCEPT !.status = 400, !.reason = "Bad Request",
                                      !.close = TRUE]
  /\ UNCHANGED vars

-----------------------------------------------------------------------------

(* The parser runs until the read is answered; another read may come while  *)
(* the response waits to be sent, or on a connection that is kept.          *)
ExchangeNext ==
  \/ ParaseRequest /\ response = NoResponse /\ UNCHANGED response
  \/ OnRequest
  \/ LoginWithoutFields
  \/ BadRequest
  \/ NextRead /\ response # NoResponse /\ response' = NoResponse

ExchangeSpec == ExchangeInit /\ [][ExchangeNext]_exchangeVars

-----------------------------------------------------------------------------
(* What must hold. *)

(* The parser's promise for whole requests, until the answer resets it.     *)
RequestRight == response = NoResponse => ParsedRight

(* The user a form names: the text between its first "username=" and the   *)
(* next "&". A form without that field names whoever stands behind its      *)
(* eighth character.                                                        *)
NamesUser(body, user) ==
  LET Field(i)  == i < Len(body) /\ body[i] = "username" /\ body[i + 1] = "="
      Stands(n) == /\ n + Len(user) <= Len(body)
                   /\ SubSeq(body, n + 1, n + Len(user)) = user
                   /\ n + Len(user) = Len(body) \/ body[n + Len(user) + 1] = "&"
  IN  IF \E i \in DOMAIN body : Field(i)
        THEN \E i \in DOMAIN body :
               /\ Field(i) /\ \A j \in 1 .. i - 1 : ~Field(j)
               /\ Stands(i + 1)
        ELSE \E n \in DOMAIN body : Position(body, n) = 8 /\ Stands(n)

Pages ==
  [url \in {<<"/">>, <<"/", "mhw">>, <<"/", "cat.jpg">>} |->
     CASE url = <<"/">>        -> "index.htm"
       [] url = <<"/", "mhw">> -> "mhw.html"
       [] OTHER                -> "cat.jpg"]

(* It is for a page whose file is there. *)
OwnPage(p) ==
  /\ p.method = "GET" /\ p.url \in DOMAIN Pages
  /\ Pages[p.url] \in Files

(* A request that arrives whole gets what its path promises                 *)
(* (requirements.md:42-43), whatever its parameters and headers: the page,  *)
(* 404 and the close for a path that is not defined, and from POST /login   *)
(* whether the user is known.                                               *)
RoutedRight ==
  response # NoResponse /\ ~second =>
    \A p \in Said(input[1]) :
      /\ OwnPage(p) =>
           /\ response.status = 200 /\ response.reason = "OK" /\ ~response.close
           /\ response.body = Pages[p.url]
      /\ p.method = "GET" /\ p.url \notin DOMAIN Pages =>
           response.status = 404 /\ response.close
      /\ IsLogin(p) =>
           /\ response.status = 200 /\ ~response.close
           /\ (response.body = "login ok!")
                <=> NamesUser(RequestOf(p).body, <<"wlgls">>)

(* The program has something to say to it: to GET of any path, and to a     *)
(* login.                                                                   *)
Supported(p) == p.method = "GET" \/ IsLogin(p)

(* src/requirements.md:44: "对无法解析或不支持的请求应返回错误响应并安全关闭连接",  *)
(* what is not supported gets an error response and the close. Of a request *)
(* that arrived whole, whatever status_code_ happens to hold.               *)
UnsupportedRefused ==
  response # NoResponse /\ ~second =>
    \A p \in Said(input[1]) :
      ~Supported(p) => response.status >= 400 /\ response.close

(* A header has nothing behind its colon. *)
EmptyValue ==
  LET text == input[1] \o input[2]
  IN  \E i \in 1 .. Len(text) - 1 : SubSeq(text, i, i + 1) = <<":", "CR">>

(* A read goes on behind one that ended in a value, and has that value's    *)
(* end in front.                                                            *)
EndInFront ==
  /\ second
  /\ \/ buffer[1] \in {"CR", "&", " "}
     \/ Len(buffer) > 1 /\ buffer[2] = "CR"

(* A login's body has neither field, and fewer than eight characters. *)
NoFields ==
  /\ IsLogin(request_)
  /\ \A i \in DOMAIN request_.body :
       request_.body[i] \notin {"username", "password"}
  /\ Position(request_.body, Len(request_.body)) < 8

(* No other read ends the process. No exception is caught.                  *)
ThrownOnlyIf == thrown => EmptyValue \/ EndInFront \/ NoFields
-----------------------------------------------------------------------------
(* The inductive invariant, that of the parser with what its answers add to *)
(* it: it stops when it is answered, and starts anew if at all.             *)

StopsForAnswer == response # NoResponse => ~Reading \/ state_ = "START"

(* Until it is answered, a whole request in the first read is being read.   *)
WholeIsRead ==
  response = NoResponse /\ ~second => \A p \in Said(input[1]) : InRequest(p)

ExchangeInv ==
  /\ ParserInv
  /\ WholeIsRead
  /\ StopsForAnswer
  /\ ThrownOnlyIf
=============================================================================
