----------------------------- MODULE HttpParser -----------------------------
(***************************************************************************)
(* HttpContext::ParaseRequest: the state machine that reads a request,      *)
(* character by character, out of the buffer of one read. A request that    *)
(* comes in two reads goes on in the state the first one left, while the    *)
(* pointers into the buffer start anew.                                     *)
(*                                                                         *)
(* A token stands for a character, or for a word where the machine cannot   *)
(* stop inside it ("a" is any lower-case letter, "7" a digit, "0" the digit *)
(* zero); a string is a sequence of tokens. Position i of the code is i + 1 *)
(* here.                                                                    *)
(***************************************************************************)
EXTENDS Integers, Sequences

CONSTANTS
  Input,     (* pairs: what the first and the second read return           *)
  Parts      (* well-formed requests, by their parts                       *)

Methods == {"GET", "POST", "HEAD", "PUT", "Delete"}

(* The parser takes a method by its capitals: "Delete" ends at its e.       *)
Upper   == (Methods \ {"Delete"}) \cup {"HTTP"}
Blank   == {" "}
Digit   == {"7", "0", "1.0", "1.1"}
LineEnd == {"CR", "LF"}
Token   == Upper \cup Blank \cup Digit \cup LineEnd
             \cup {"/", "?", "=", "&", ":", "a", "Content-Length", "mhw",
               "cat.jpg", "login", "username", "password", "wlgls", "Delete"}

ASSUME InputAssumption == Input \subseteq Seq(Token) \X Seq(Token)

VARIABLES
  input,     (* the reads                                                  *)
  buffer,    (* the read that is parsed                                    *)
  second,    (* it is the second one                                       *)
  state_,
  start,     (* of the part that is read                                   *)
  end,       (* the next character                                         *)
  colon,     (* the separator in the part that is read                     *)
  request_,
  thrown     (* a std::string was asked for with its end before its start  *)

vars == <<input, buffer, second, state_, start, end, colon, request_, thrown>>

Empty == [method |-> "kInvalid", url |-> <<>>, params |-> <<>>,
          protocol |-> <<>>, version |-> "kUnknown", headers |-> <<>>,
          body |-> <<>>]

Init ==
  /\ input \in Input
  /\ buffer = input[1]
  /\ second = FALSE
  /\ state_ = "START"
  /\ start = 1
  /\ end = 1
  /\ colon = 1
  /\ request_ = Empty
  /\ thrown = FALSE

-----------------------------------------------------------------------------

(* The NUL that c_str puts behind the buffer can be read. *)
Text == Append(buffer, "NUL")
Ch   == Text[end]

(* std::string(from, to) *)
Str(from, to) == SubSeq(Text, from, to - 1)

(* SetMethod *)
MethodOf(s) == IF s \in {<<m>> : m \in Methods} THEN s[1] ELSE "kInvalid"

(* SetVersion *)
VersionOf(s) ==
  IF s = <<"1.0">> THEN "kHttp10"
  ELSE IF s = <<"1.1">> THEN "kHttp11" ELSE "kUnknown"

(* Only the state changes. *)
Move(s) == state_' = s /\ UNCHANGED <<start, colon, request_, thrown>>

(* A part is over: it goes into the request, the next one starts behind it. *)
Cut(s, request) ==
  /\ state_' = s
  /\ start' = end + 1
  /\ request_' = request
  /\ UNCHANGED <<colon, thrown>>

(* map[key] = value *)
Put(map, key, value) ==
  [k \in DOMAIN map \cup {key} |-> IF k = key THEN value ELSE map[k]]

(* A part of two strings, up to colon and from skip behind it: SetRequest-  *)
(* Params and AddHeader, into a map. The strings throw when they would end  *)
(* before they start.                                                       *)
CutPair(s, field, skip) ==
  \/ /\ start <= colon
     /\ colon + skip <= end
     /\ Cut(s, [request_ EXCEPT ![field] =
                  Put(@, Str(start, colon), Str(colon + skip, end))])
  \/ /\ ~ (start <= colon /\ colon + skip <= end)
     /\ thrown' = TRUE
     /\ UNCHANGED <<state_, start, colon, request_>>

StartState ==
  /\ state_ = "START"
  /\ Move(CASE Ch \in LineEnd \cup Blank -> "START"
            [] Ch \in Upper              -> "METHOD"
            [] OTHER                     -> "kINVALID")

Method ==
  /\ state_ = "METHOD"
  /\ \/ Ch \in Upper /\ Move("METHOD")
     \/ /\ Ch \in Blank
        /\ Cut("BEFORE_URL",
               [request_ EXCEPT !.method = MethodOf(Str(start, end))])
     \/ Ch \notin Upper \cup Blank /\ Move("kINVALID")

Url ==
  \/ /\ state_ = "BEFORE_URL"
     /\ Move(CASE Ch = "/"     -> "IN_URL"
               [] Ch \in Blank -> "BEFORE_URL"
               [] OTHER        -> "kINVALID")
  \/ /\ state_ = "IN_URL"
     /\ \/ /\ Ch \in Blank \cup {"?"}
           /\ Cut(IF Ch = "?" THEN "BEFORE_URL_PARAM_KEY"
                              ELSE "BEFORE_PROTOCOL",
                  [request_ EXCEPT !.url = Str(start, end)])
        \/ Ch \notin Blank \cup {"?"} /\ Move("IN_URL")

UrlParams ==
  \/ /\ state_ = "BEFORE_URL_PARAM_KEY"
     /\ Move(IF Ch \in Blank \cup LineEnd THEN "kINVALID" ELSE "URL_PARAM_KEY")
  \/ /\ state_ = "URL_PARAM_KEY"
     /\ \/ /\ Ch = "="
           /\ colon' = end
           /\ state_' = "BEFORE_URL_PARAM_VALUE"
           /\ UNCHANGED <<start, request_, thrown>>
        \/ Ch \in Blank /\ Move("kINVALID")
        \/ Ch \notin Blank \cup {"="} /\ Move("URL_PARAM_KEY")
  \/ /\ state_ = "BEFORE_URL_PARAM_VALUE"
     /\ Move(IF Ch \in Blank \cup LineEnd THEN "kINVALID"
                                          ELSE "URL_PARAM_VALUE")
  \/ /\ state_ = "URL_PARAM_VALUE"
     /\ \/ Ch = "&" /\ CutPair("BEFORE_URL_PARAM_KEY", "params", 1)
        \/ Ch \in Blank /\ CutPair("BEFORE_PROTOCOL", "params", 1)
        \/ Ch \notin Blank \cup {"&"} /\ Move("URL_PARAM_VALUE")

Protocol ==
  \/ /\ state_ = "BEFORE_PROTOCOL"
     /\ Move(IF Ch \in Blank THEN "BEFORE_PROTOCOL" ELSE "PROTOCOL")
  \/ /\ state_ = "PROTOCOL"
     /\ \/ /\ Ch = "/"
           /\ Cut("BEFORE_VERSION",
                  [request_ EXCEPT !.protocol = Str(start, end)])
        \/ Ch # "/" /\ Move("PROTOCOL")

Version ==
  \/ /\ state_ = "BEFORE_VERSION"
     /\ Move(IF Ch \in Digit THEN "VERSION" ELSE "kINVALID")
  \/ /\ state_ = "VERSION"
     /\ \/ /\ Ch = "CR"
           /\ Cut("WHEN_CR",
                  [request_ EXCEPT !.version = VersionOf(Str(start, end))])
        \/ Ch \in Digit /\ Move("VERSION")
        \/ Ch \notin Digit \cup {"CR"} /\ Move("kINVALID")

(* Mistake (RequestRight): a header's value starts right behind the colon. *)
HeaderWithBlank ==
  \/ /\ state_ = "HEADER_KEY"
     /\ \/ /\ Ch = ":"
           /\ colon' = end
           /\ state_' = "HEADER_VALUE"
           /\ UNCHANGED <<start, request_, thrown>>
        \/ Ch # ":" /\ Move("HEADER_KEY")
  \/ /\ state_ = "HEADER_VALUE"
     /\ \/ Ch = "CR" /\ CutPair("WHEN_CR", "headers", 1)
        \/ Ch # "CR" /\ Move("HEADER_VALUE")

(* The value starts two behind the colon, whatever is there. *)
Header ==
  \/ /\ state_ = "HEADER_KEY"
     /\ \/ /\ Ch = ":"
           /\ colon' = end
           /\ state_' = "HEADER_VALUE"
           /\ UNCHANGED <<start, request_, thrown>>
        \/ Ch # ":" /\ Move("HEADER_KEY")
  \/ /\ state_ = "HEADER_VALUE"
     /\ \/ Ch = "CR" /\ CutPair("WHEN_CR", "headers", 2)
        \/ Ch # "CR" /\ Move("HEADER_VALUE")

(* Content-Length, as atoi reads it: blanks, zeros, and then a digit that   *)
(* makes it more than zero.                                                 *)
HasLength    == <<"Content-Length">> \in DOMAIN request_.headers
LengthIsZero ==
  LET value == request_.headers[<<"Content-Length">>]
  IN  ~ \E i \in DOMAIN value : \E j \in 1 .. i :
          /\ value[i] \in {"7", "1.0", "1.1"}
          /\ \A k \in 1 .. j - 1 : value[k] \in {" ", "LF"}
          /\ \A k \in j .. i - 1 : value[k] = "0"

(* Mistake (CompleteMeansEnded): the CR of an empty line ends the request. *)
LinesWithoutLf ==
  \/ /\ state_ = "WHEN_CR"
     /\ \/ Ch = "LF" /\ Cut("CR_LF", request_)
        \/ Ch # "LF" /\ Move("kINVALID")
  \/ /\ state_ = "CR_LF"
     /\ Move(CASE Ch = "CR"    -> "COMPLETE"
               [] Ch \in Blank -> "kINVALID"
               [] OTHER        -> "HEADER_KEY")

(* Line ends, and the empty line before the body. *)
Lines ==
  \/ /\ state_ = "WHEN_CR"
     /\ \/ Ch = "LF" /\ Cut("CR_LF", request_)
        \/ Ch # "LF" /\ Move("kINVALID")
  \/ /\ state_ = "CR_LF"
     /\ Move(CASE Ch = "CR"    -> "CR_LF_CR"
               [] Ch \in Blank -> "kINVALID"
               [] OTHER        -> "HEADER_KEY")
  \/ /\ state_ = "CR_LF_CR"
     /\ \/ /\ Ch = "LF"
           /\ Cut(IF HasLength
                    THEN IF LengthIsZero THEN "COMPLETE" ELSE "BODY"
                    ELSE IF end - 1 < Len(buffer) THEN "BODY" ELSE "COMPLETE",
                  request_)
        \/ Ch # "LF" /\ Move("kINVALID")

(* Mistake (NothingBehindBuffer): the body is one too long. *)
BodyWithNul ==
  /\ state_ = "BODY"
  /\ LET bodylength == Len(buffer) - (end - 1) + 1
     IN  request_' = [request_ EXCEPT !.body = Str(start, start + bodylength)]
  /\ state_' = "COMPLETE"
  /\ UNCHANGED <<start, colon, thrown>>

(* The body is the rest of the buffer, whatever Content-Length says. *)
Body ==
  /\ state_ = "BODY"
  /\ LET bodylength == Len(buffer) - (end - 1)
     IN  request_' = [request_ EXCEPT !.body = Str(start, start + bodylength)]
  /\ state_' = "COMPLETE"
  /\ UNCHANGED <<start, colon, thrown>>

(* The loop's condition: it reads up to and including the NUL. *)
Reading ==
  /\ state_ \notin {"kINVALID", "COMPLETE"}
  /\ end - 1 <= Len(buffer)
  /\ ~thrown

(* One round of the loop. *)
ParaseRequest ==
  /\ Reading
  /\ end' = end + 1
  /\ \/ StartState
     \/ Method
     \/ Url
     \/ UrlParams
     \/ Protocol
     \/ Version
     \/ Header
     \/ Lines
     \/ Body
  /\ UNCHANGED <<input, buffer, second>>

(* Mistake (ExchangeInv): the pointers stay where the first read left them. *)
NextReadGoesOn ==
  /\ ~thrown
  /\ ~second
  /\ input[2] # <<>>
  /\ second' = TRUE
  /\ buffer' = input[2]
  /\ UNCHANGED <<input, state_, start, end, colon, request_, thrown>>

(* The request was not complete; recv0 has replaced the buffer by what came *)
(* next and ParaseRequest is called again.                                  *)
NextRead ==
  /\ ~thrown
  /\ ~second
  /\ input[2] # <<>>
  /\ second' = TRUE
  /\ buffer' = input[2]
  /\ start' = 1
  /\ end' = 1
  /\ colon' = 1
  /\ UNCHANGED <<input, state_, request_, thrown>>

Next == ParaseRequest \/ (~Reading /\ NextRead)

Spec == Init /\ [][Next]_vars

-----------------------------------------------------------------------------
(* The reference: what the text of a request says. *)

(* What is behind the first i strings, one after the other. *)
Joins(strs) ==
  LET text[i \in 0 .. Len(strs)] ==
        IF i = 0 THEN <<>> ELSE text[i - 1] \o strs[i]
  IN  text

Joined(strs) == Joins(strs)[Len(strs)]

ParamTexts(ps) ==
  [i \in DOMAIN ps |->
     <<IF i = 1 THEN "?" ELSE "&">> \o ps[i][1] \o <<"=">> \o ps[i][2]]

HeaderLines(hs) ==
  [i \in DOMAIN hs |-> hs[i][1] \o <<":", " ">> \o hs[i][2] \o <<"CR", "LF">>]

(* A request by its parts. *)
RequestText(p) ==
  <<p.method, " ">> \o p.url \o Joined(ParamTexts(p.params))
    \o <<" ", "HTTP", "/", p.version, "CR", "LF">>
    \o Joined(HeaderLines(p.headers)) \o <<"CR", "LF">> \o p.body

Without(s, tokens) == \A i \in DOMAIN s : s[i] \notin tokens

(* A name or a value that stands between the given tokens. *)
IsWord(s, tokens) ==
  /\ s \in Seq(Token) /\ s # <<>>
  /\ Without(s, tokens \cup Blank \cup LineEnd)

IsNumeral(s) == s # <<>> /\ \A i \in DOMAIN s : s[i] \in {"7", "0"}

WellFormed(p) ==
  /\ p.method \in Methods \ {"Delete"}
  /\ p.version \in {"1.0", "1.1"}
  /\ IsWord(p.url, {"?"}) /\ p.url[1] = "/"
  /\ p.params \in Seq(Seq(Token) \X Seq(Token))
  /\ \A i \in DOMAIN p.params :
       IsWord(p.params[i][1], {"="}) /\ IsWord(p.params[i][2], {"&"})
  /\ p.headers \in Seq(Seq(Token) \X Seq(Token))
  /\ \A i \in DOMAIN p.headers :
       /\ IsWord(p.headers[i][1], {":"})
       /\ Without(p.headers[i][2], LineEnd)
       /\ p.headers[i][1] = <<"Content-Length">> => IsNumeral(p.headers[i][2])
  /\ p.body \in Seq(Token)

ASSUME PartsAssumption == \A p \in Parts : WellFormed(p)

(* The requests a text can be; they differ at most in their parts.          *)
TextOf     == {<<RequestText(p), p>> : p \in Parts}
Said(text) == {pair[2] : pair \in {tp \in TextOf : tp[1] = text}}

(* The map of the first n pairs: a later pair replaces an earlier one.      *)
MapOf(pairs, n) ==
  [k \in {pairs[i][1] : i \in 1 .. n} |->
     pairs[CHOOSE i \in 1 .. n :
             /\ pairs[i][1] = k
             /\ \A j \in 1 .. n : pairs[j][1] = k => j <= i][2]]

(* The version a request says it is of. *)
SentVersion(p) == VersionOf(<<p.version>>)

RequestOf(p) ==
  LET headers == MapOf(p.headers, Len(p.headers))
      length  == <<"Content-Length">>
  IN  [method |-> p.method, url |-> p.url,
       params |-> MapOf(p.params, Len(p.params)),
       protocol |-> <<"HTTP">>, version |-> SentVersion(p),
       headers |-> headers,
       body |-> IF length \in DOMAIN headers
                     /\ \A i \in DOMAIN headers[length] : headers[length][i] = "0"
                THEN <<>> ELSE p.body]

State == {"START", "METHOD", "BEFORE_URL", "IN_URL", "BEFORE_URL_PARAM_KEY",
          "URL_PARAM_KEY", "BEFORE_URL_PARAM_VALUE", "URL_PARAM_VALUE",
          "BEFORE_PROTOCOL", "PROTOCOL", "BEFORE_VERSION", "VERSION",
          "HEADER_KEY", "HEADER_VALUE", "WHEN_CR", "CR_LF", "CR_LF_CR",
          "BODY", "COMPLETE", "kINVALID"}

(* A map of strings. *)
IsMap(m) ==
  /\ m = [k \in DOMAIN m |-> m[k]]
  /\ DOMAIN m \subseteq Seq(Token)
  /\ \A k \in DOMAIN m : m[k] \in Seq(Token)

(* A request is made of what was read. *)
IsRequest(r) ==
  /\ r = [f \in {"method", "url", "params", "protocol", "version", "headers",
                "body"} |-> r[f]]
  /\ r.method \in Methods \cup {"kInvalid"}
  /\ r.version \in {"kHttp10", "kHttp11", "kUnknown"}
  /\ {r.url, r.protocol, r.body} \subseteq Seq(Token)
  /\ IsMap(r.params) /\ IsMap(r.headers)

(* Type invariant. *)
TypeOK ==
  /\ state_ \in State
  /\ {start, end, colon} \subseteq 1 .. Len(buffer) + 2
  /\ IsRequest(request_)
  /\ thrown \in BOOLEAN

(* A request that arrives whole is parsed completely, into its own parts.   *)
ParsedRight ==
  ~Reading /\ input[2] = <<>> =>
    \A p \in Said(input[1]) : state_ = "COMPLETE" /\ request_ = RequestOf(p)

(* What has been sent has an empty line in it. *)
Ended ==
  LET text == input[1] \o input[2]
  IN  \E i \in 1 .. Len(text) - 3 :
        SubSeq(text, i, i + 3) = <<"CR", "LF", "CR", "LF">>

(* Whatever is read, in one read or two: a request is only taken for        *)
(* complete if an empty line ended it.                                      *)
CompleteMeansEnded == state_ = "COMPLETE" => Ended

(* The loop looks at the NUL behind the buffer (its bound is <=); it never  *)
(* becomes a part of the request: of the request line, of a parameter or a  *)
(* header, or of the body.                                                  *)
NothingBehindBuffer ==
  LET pairs   == {request_.params, request_.headers}
      strings == {request_.url, request_.protocol, request_.body}
                   \cup UNION {DOMAIN m \cup {m[k] : k \in DOMAIN m} : m \in pairs}
  IN  \A s \in strings : \A i \in DOMAIN s : s[i] # "NUL"

(* requirements.md:66, a request that cannot be parsed ends in the error    *)
(* branch and not in an exception that nothing catches.                     *)
NothingThrown == ~thrown
-----------------------------------------------------------------------------
(* The inductive invariant behind TypeOK, CompleteMeansEnded and            *)
(* NothingBehindBuffer: what the parser knows, wherever it is, of the       *)
(* characters right in front of it.                                         *)

(* The buffer is one of the two reads, and the second only if there is one. *)
BufferIsRead ==
  /\ input \in Seq(Token) \X Seq(Token)
  /\ second \in BOOLEAN
  /\ buffer = IF second THEN input[2] ELSE input[1]
  /\ second => input[2] # <<>>

(* The part that is read ends behind its start, and so does the first half  *)
(* of a pair; the second half begins behind it unless a new read did.       *)
PairInOrder ==
  /\ start <= end
  /\ state_ \in {"BEFORE_URL_PARAM_VALUE", "URL_PARAM_VALUE", "HEADER_VALUE"} =>
       start <= colon /\ (colon < end \/ (second /\ end = 1 /\ colon = 1))
  /\ state_ = "HEADER_VALUE" /\ colon + 1 = end =>
       Text[colon] = ":" \/ (second /\ end = 2)

(* The parser is where the line ends behind it have brought it. *)
LineEndsRead ==
  /\ state_ \in {"WHEN_CR", "CR_LF_CR"} => end > 1 /\ Text[end - 1] = "CR"
  /\ state_ = "CR_LF" =>
       end > 2 /\ Text[end - 1] = "LF" /\ Text[end - 2] = "CR"
  /\ state_ = "CR_LF_CR" =>
       end > 3 /\ Text[end - 2] = "LF" /\ Text[end - 3] = "CR"
  /\ state_ \in {"BODY", "COMPLETE"} => Ended

(* All of it. *)
ParserInv ==
  /\ TypeOK
  /\ BufferIsRead
  /\ PairInOrder
  /\ LineEndsRead

-----------------------------------------------------------------------------
(* The inductive invariant behind ParsedRight: where in a well-formed       *)
(* request the parser is, and what it has of it, in each of its states.     *)

(* Where a parameter with its separator, the blank behind them, a header    *)
(* and the empty line behind them stand.                                    *)
ParamAt(p, i)  == 3 + Len(p.url) + Len(Joins(ParamTexts(p.params))[i - 1])
HttpAt(p)      == ParamAt(p, Len(p.params) + 1)
HeaderAt(p, i) == HttpAt(p) + 6 + Len(Joins(HeaderLines(p.headers))[i - 1])
EmptyAt(p)     == HeaderAt(p, Len(p.headers) + 1)

(* The request after its method, after n parameters, and after n headers.   *)
MethodRead(p)     == [Empty EXCEPT !.method = p.method]
ParamsRead(p, n)  == [MethodRead(p) EXCEPT !.url = p.url,
                                           !.params = MapOf(p.params, n)]
ProtocolRead(p)   == [ParamsRead(p, Len(p.params)) EXCEPT !.protocol = <<"HTTP">>]
HeadersRead(p, n) == [ProtocolRead(p) EXCEPT !.version = SentVersion(p),
                                             !.headers = MapOf(p.headers, n)]

InRequestLine(p) ==
  \/ state_ = "START" /\ start = 1 /\ end = 1 /\ request_ = Empty
  \/ state_ = "METHOD" /\ start = 1 /\ end = 2 /\ request_ = Empty
  \/ /\ request_ = MethodRead(p) /\ start = 3
     /\ \/ state_ = "BEFORE_URL" /\ end = 3
        \/ state_ = "IN_URL" /\ end \in 4 .. ParamAt(p, 1)
  \/ \E i \in DOMAIN p.params :
       LET equals == ParamAt(p, i) + Len(p.params[i][1]) + 1
       IN  /\ request_ = ParamsRead(p, i - 1) /\ start = ParamAt(p, i) + 1
           /\ \/ state_ = "BEFORE_URL_PARAM_KEY" /\ end = start
              \/ state_ = "URL_PARAM_KEY" /\ end \in start + 1 .. equals
              \/ /\ state_ = "BEFORE_URL_PARAM_VALUE"
                 /\ colon = equals /\ end = colon + 1
              \/ /\ state_ = "URL_PARAM_VALUE"
                 /\ colon = equals /\ end \in colon + 2 .. ParamAt(p, i + 1)
  \/ /\ request_ = ParamsRead(p, Len(p.params)) /\ start = HttpAt(p) + 1
     /\ \/ state_ = "BEFORE_PROTOCOL" /\ end = start
        \/ state_ = "PROTOCOL" /\ end = start + 1
  \/ /\ request_ = ProtocolRead(p) /\ start = HttpAt(p) + 3
     /\ \/ state_ = "BEFORE_VERSION" /\ end = start
        \/ state_ = "VERSION" /\ end = start + 1

InHeaders(p) ==
  \/ \E i \in 1 .. Len(p.headers) + 1 :
       /\ request_ = HeadersRead(p, i - 1)
       /\ \/ state_ = "WHEN_CR" /\ end = HeaderAt(p, i) - 1
          \/ state_ = "CR_LF" /\ start = HeaderAt(p, i) /\ end = start
  \/ \E i \in DOMAIN p.headers :
       LET colonAt == HeaderAt(p, i) + Len(p.headers[i][1])
       IN  /\ request_ = HeadersRead(p, i - 1) /\ start = HeaderAt(p, i)
           /\ \/ state_ = "HEADER_KEY" /\ end \in start + 1 .. colonAt
              \/ /\ state_ = "HEADER_VALUE"
                 /\ colon = colonAt /\ end \in colon + 1 .. HeaderAt(p, i + 1) - 2
  \/ /\ request_ = HeadersRead(p, Len(p.headers))
     /\ \/ state_ = "CR_LF_CR" /\ end = EmptyAt(p) + 1
        \/ /\ state_ = "BODY" /\ start = EmptyAt(p) + 2 /\ end = start
           /\ RequestOf(p).body = p.body

InRequest(p) ==
  \/ ~thrown /\ (InRequestLine(p) \/ InHeaders(p))
  \/ state_ = "COMPLETE" /\ request_ = RequestOf(p)
=============================================================================
