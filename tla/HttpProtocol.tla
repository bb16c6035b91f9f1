---------------------------- MODULE HttpProtocol ----------------------------
(***************************************************************************)
(* HTTPProtocol and HTTPContext (src/protocols/http.{h,cpp}) behind        *)
(* PbServer::data_read_callback, which tries the protocols of a port one   *)
(* after the other: SimpleProtocol first, as examples/echo/server.cpp      *)
(* registers them.  Requests reach a server and responses a client, cut    *)
(* into reads anywhere; after every read the parser runs to a verdict.     *)
(*                                                                         *)
(* A message is its lines, each with a length and what the parser sees in  *)
(* it, and a body of the length the headers declare.  Lines hold no CRLF,  *)
(* header lines are not empty: an empty line ends the headers.  Growth of  *)
(* the read buffer is in SimpleProtocol.tla.                               *)
(***************************************************************************)
EXTENDS Integers, Sequences, FiniteSetsExt

CONSTANTS
  Messages,     \* the messages peers may send
  MaxLineSize,  \* MaxHeadlineSize and MaxHeaderSize
  MaxMessages   \* bound: messages on one connection

Keys == {"Content-Length", "Connection", "other"}
Texts == {"blank", "Keep-Alive", "Keep-alive", "Close", "number", "junk"}

\* key is what stands in front of ':', "none" if there is no ':' or nothing
\* in front of it.  text is the trimmed value; number its value when stoi
\* reads one.
Headers == [key : Keys \cup {"none"}, text : Texts, number : Int, len : Nat \ {0}]

\* head is what a first line begins with: a method of the parser's loop,
\* CONNECT, which `i < _HTTPMethod_MAX` leaves out, or anything else that is
\* not the magic of SimpleProtocol.  shape: a space, a url that starts with
\* '/', a space and no third one.  slash: the url has a second '/'.
MessageSet ==
  [response : BOOLEAN, head : {"method", "CONNECT", "junk"}, shape : BOOLEAN,
   slash : BOOLEAN, line : Nat, headers : Seq(Headers)]

ASSUME HttpAssumption ==
  /\ Messages \subseteq MessageSet
  /\ MaxLineSize \in Nat \ {0}
  /\ MaxMessages \in Nat

VARIABLES
  msg,      \* the message being received
  count,    \* messages received before it
  proto,    \* conn->proto_idx, by the protocol's name
  rindex,   \* _rindex
  windex,   \* _windex
  stage,    \* no context, or _stage
  named,    \* _service and _method are set
  known,    \* the keys of _headers
  bodySize, \* _body_size
  conn,     \* _conn_type
  view,     \* _payload_view
  parsing,  \* inside data_read_callback
  result    \* what it came to

ctx == <<named, known, bodySize, conn, view>>
vars == <<msg, count, proto, rindex, windex, stage, ctx, parsing, result>>

CrlfLen == 2

\* The lengths of the lines, the empty one that ends the headers included.
Lines(m) ==
  <<m.line>> \o [i \in DOMAIN m.headers |-> m.headers[i].len] \o <<0>>

\* Where line i begins; the body begins behind the last line.
Start(m, i) ==
  LET at[j \in 1..Len(Lines(m)) + 1] ==
        IF j = 1 THEN 0 ELSE at[j - 1] + Lines(m)[j - 1] + CrlfLen
  IN  at[i]

BodyAt(m) == Start(m, Len(Lines(m)) + 1)

\* What a header of that key says: the first one that is not blank counts.
First(m, key) ==
  LET set == {i \in DOMAIN m.headers : m.headers[i].key = key /\ m.headers[i].text # "blank"}
  IN  IF set = {} THEN [text |-> "none", number |-> 0]
      ELSE [text |-> m.headers[Min(set)].text, number |-> m.headers[Min(set)].number]

BodyLen(m) == Max({0, First(m, "Content-Length").number})

Total(m) == BodyAt(m) + BodyLen(m)

Verdicts == {"NoEnoughData", "TryAnotherProtocol", "Error", "Success", "throws"}

TypeOK ==
  /\ msg \in Messages
  /\ count \in Nat
  /\ proto \in {"Simple", "HTTP"}
  /\ rindex \in Nat
  /\ windex \in rindex..Total(msg)
  /\ stage \in {"none", "line", "headers", "body", "done"}
  /\ named \in BOOLEAN
  /\ known \subseteq Keys
  /\ bodySize \in Int
  /\ conn \in {"Short", "Single"}
  /\ view \in [begin : Nat, end : Int]
  /\ parsing \in BOOLEAN
  /\ result \in Verdicts

\* A client has allocated its context when it sends the request.
FirstStage(m) == IF m.response THEN "line" ELSE "none"

\* Context::_conn_type at first: CallMethod sets it in the client.
FirstConn(m) == IF m.response THEN {"Short", "Single"} ELSE {"Short"}

Init ==
  /\ msg \in Messages
  /\ count = 0
  /\ proto = IF msg.response THEN "HTTP" ELSE "Simple"
  /\ rindex = 0
  /\ windex = 0
  /\ stage = FirstStage(msg)
  /\ named = FALSE
  /\ known = {}
  /\ bodySize = 0
  /\ conn \in FirstConn(msg)
  /\ view = [begin |-> 0, end |-> 0]
  /\ parsing = FALSE
  /\ result = "NoEnoughData"
-----------------------------------------------------------------------------
Readable == windex - rindex

\* read_fd, then data_read_callback.
ReadFd(n) ==
  /\ ~parsing
  /\ result = "NoEnoughData"
  /\ windex + n <= Total(msg)
  /\ windex' = windex + n
  /\ parsing' = TRUE
  /\ UNCHANGED <<msg, count, proto, rindex, stage, ctx, result>>

Return(verdict) ==
  /\ parsing' = FALSE
  /\ result' = verdict
  /\ UNCHANGED <<msg, count, proto, rindex, windex, stage, ctx>>

\* retrieve(n), and on to the next stage.
Advance(n, next) ==
  /\ rindex' = rindex + n
  /\ stage' = next
  /\ UNCHANGED <<msg, count, proto, windex, parsing, result>>

\* SimpleProtocol::parse_request does not find its magic in the four bytes
\* it wants; data_read_callback goes on with the next protocol.
TrySimple ==
  /\ parsing
  /\ proto = "Simple"
  /\ \/ Readable < 4 /\ Return("NoEnoughData")
     \/ /\ Readable >= 4
        /\ proto' = "HTTP"
        /\ UNCHANGED <<msg, count, rindex, windex, stage, ctx, parsing, result>>

HTTPMethodMaxLen == 7

\* Mutant: the method is looked for before it can be there.
NewContextEarly ==
  /\ parsing
  /\ proto = "HTTP"
  /\ stage = "none"
  /\ \/ /\ msg.head = "method" /\ Readable >= HTTPMethodMaxLen
        /\ Advance(0, "line") /\ UNCHANGED ctx
     \/ (msg.head # "method" \/ Readable < HTTPMethodMaxLen) /\ Return("TryAnotherProtocol")

\* HTTPProtocol::parse_request without a context.
NewContext ==
  /\ parsing
  /\ proto = "HTTP"
  /\ stage = "none"
  /\ \/ Readable < HTTPMethodMaxLen /\ Return("NoEnoughData")
     \/ Readable >= HTTPMethodMaxLen /\ msg.head # "method" /\ Return("TryAnotherProtocol")
     \/ /\ Readable >= HTTPMethodMaxLen
        /\ msg.head = "method"
        /\ Advance(0, "line")
        /\ UNCHANGED ctx

\* The line at _rindex.
Current == CHOOSE i \in DOMAIN Lines(msg) : Start(msg, i) = rindex
LineLen == Lines(msg)[Current]

\* The part of the buffer a line is looked for in.
Window == Min({Readable, MaxLineSize})

\* find_crlf finds the end of the line.
FindCrlf == LineLen + CrlfLen <= Window

\* Mutant: a full window without CRLF only waits for more.
NoLineWaits == Return("NoEnoughData")

\* No CRLF in the window.
NoLine == Return(IF Window = MaxLineSize THEN "Error" ELSE "NoEnoughData")

\* _parse_request_line, _parse_response_line.
ParseLine ==
  /\ parsing
  /\ stage = "line"
  /\ \/ ~FindCrlf /\ NoLine
     \/ FindCrlf /\ ~msg.response /\ ~msg.shape /\ Return("Error")
     \/ /\ FindCrlf
        /\ msg.response \/ msg.shape
        /\ named' = (~msg.response /\ msg.slash)
        /\ Advance(LineLen + CrlfLen, "headers")
        /\ UNCHANGED <<known, bodySize, conn, view>>

\* A header that is stored: the first of its key with a value.
Counts(h) == h.text # "blank" /\ h.key \notin known

ConnType(h) ==
  IF Counts(h) /\ h.key = "Connection" /\ h.text = "Keep-Alive" THEN "Single" ELSE conn

\* std::stoi(value) finds no number.
StoiThrows(h) == Counts(h) /\ h.key = "Content-Length" /\ h.text # "number"

\* _parse_headers, one line at a time.
ParseHeader ==
  /\ parsing
  /\ stage = "headers"
  /\ \/ ~FindCrlf /\ NoLine
     \/ /\ FindCrlf
        /\ LineLen = 0
        /\ Advance(CrlfLen, "body")
        /\ UNCHANGED ctx
     \/ /\ FindCrlf
        /\ LineLen > 0
        /\ LET h == msg.headers[Current - 1]
           IN  \/ h.key = "none" /\ Return("Error")
               \/ h.key # "none" /\ StoiThrows(h) /\ Return("throws")
               \/ /\ h.key # "none"
                  /\ ~StoiThrows(h)
                  /\ bodySize' = IF Counts(h) /\ h.key = "Content-Length"
                                   THEN h.number ELSE bodySize
                  /\ conn' = ConnType(h)
                  /\ known' = IF Counts(h) THEN known \cup {h.key} ELSE known
                  /\ Advance(LineLen + CrlfLen, "headers")
                  /\ UNCHANGED <<named, view>>

\* Mutant: the body is taken to be there.
BodyAlwaysThere == TRUE

\* static_cast<int>(readable()) >= _body_size
BodyThere == Readable >= bodySize

\* _parse_body: the body stays in the buffer.
ParseBody ==
  /\ parsing
  /\ stage = "body"
  /\ \/ ~BodyThere /\ Return("NoEnoughData")
     \/ /\ BodyThere
        /\ view' = [begin |-> rindex, end |-> rindex + bodySize]
        /\ Advance(0, "done")
        /\ UNCHANGED <<named, known, bodySize, conn>>

\* Success; request_callback and response_callback begin with
\* payload_view().str(), a std::string(begin, end).
Finish ==
  /\ parsing
  /\ stage = "done"
  /\ Return(IF view.end < view.begin THEN "throws" ELSE "Success")

\* write_complete_callback of a connection that is kept, and CallMethod in the
\* client: a new context, empty buffers, the same protocol.
NextMessage ==
  /\ ~parsing
  /\ result = "Success"
  /\ msg.response \/ conn = "Single"
  /\ count + 1 < MaxMessages
  /\ count' = count + 1
  /\ msg' \in {m \in Messages : m.response = msg.response}
  /\ rindex' = 0
  /\ windex' = 0
  /\ stage' = FirstStage(msg')
  /\ named' = FALSE
  /\ known' = {}
  /\ bodySize' = 0
  /\ conn' \in FirstConn(msg')
  /\ view' = [begin |-> 0, end |-> 0]
  /\ result' = "NoEnoughData"
  /\ UNCHANGED <<proto, parsing>>

Next ==
  \/ \E n \in 1..Total(msg) : ReadFd(n)
  \/ TrySimple
  \/ NewContext
  \/ ParseLine
  \/ ParseHeader
  \/ ParseBody
  \/ Finish
  \/ NextMessage

Spec == Init /\ [][Next]_vars
-----------------------------------------------------------------------------
Connection(c) ==
  [key |-> "Connection", text |-> IF c = "Short" THEN "Close" ELSE "Keep-Alive",
   number |-> 0, len |-> IF c = "Short" THEN 17 ELSE 22]

ContentType == [key |-> "other", text |-> "junk", number |-> 0, len |-> 30]

ContentLength(n) ==
  [key |-> "Content-Length", text |-> "number", number |-> n, len |-> 17]

\* What pack_request and pack_response send for a payload of n bytes, n < 10.
PackRequest(c, n) ==
  [response |-> FALSE, head |-> "method", shape |-> TRUE, slash |-> TRUE, line |-> 21,
   headers |-> <<Connection(c), ContentType, ContentLength(n)>>]

PackResponse(c, n) ==
  [response |-> TRUE, head |-> "junk", shape |-> TRUE, slash |-> FALSE, line |-> 15,
   headers |-> <<Connection(c), ContentType, ContentLength(n)>>]
-----------------------------------------------------------------------------
\* What a peer must keep to for its message to be served.
Good(m) ==
  /\ m.response \/ (m.head = "method" /\ m.shape)
  /\ \A i \in DOMAIN m.headers : m.headers[i].key # "none"
  /\ \A i \in DOMAIN Lines(m) : Lines(m)[i] + CrlfLen <= MaxLineSize
  /\ First(m, "Content-Length").text \in {"none", "number"}
  /\ First(m, "Content-Length").number >= 0

\* The first Connection header of a request, and it alone, decides whether
\* the server keeps the connection, and no value but a spelling of keep-alive
\* keeps it; the conn_type a client packed into its request is the one the
\* server reads (pack_request, _parse_headers).  Nothing is said of Keep-alive:
\* the code does not keep the connection for it, and its test expects so.
ConnTypeRight ==
  ~msg.response =>
    /\ First(msg, "Connection").text = "Keep-Alive" => conn = "Single"
    /\ First(msg, "Connection").text \notin {"Keep-Alive", "Keep-alive"} => conn = "Short"
    /\ \A c \in {"Short", "Single"}, n \in 0..9 : msg = PackRequest(c, n) => conn = c

\* A message is complete exactly when its last byte has come, and its
\* payload is then what stands behind the headers, as long as the first
\* Content-Length says; the service, the method and the connection type are
\* this request's (_parse_request_line, _parse_headers, _parse_body and the
\* reset between two messages).
SuccessMeansComplete ==
  result = "Success" =>
    /\ named = (~msg.response /\ msg.slash)
    /\ ConnTypeRight
    /\ windex = Total(msg)
    /\ view = [begin |-> BodyAt(msg), end |-> Total(msg)]

\* However a message is cut, a good one is not refused, and one that is not
\* is never handed on; std::stoi and std::string throw, and so end the
\* process, for nothing but a Content-Length that is no length.
VerdictRight ==
  /\ result \in {"Error", "TryAnotherProtocol", "throws"} => ~Good(msg)
  /\ result = "Success" => Good(msg)
  /\ result = "throws" =>
       \/ First(msg, "Content-Length").text \notin {"none", "number"}
       \/ First(msg, "Content-Length").number < 0

\* When the last byte has come, or a window is full without an end of line,
\* there is a verdict: nothing else would make the parser run again, or the
\* buffer would grow for ever.
NoStall ==
  ~parsing /\ result = "NoEnoughData" =>
    /\ windex < Total(msg)
    /\ stage \in {"line", "headers"} => Window < MaxLineSize
=============================================================================
