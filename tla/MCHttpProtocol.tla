-------------------------- MODULE MCHttpProtocol ----------------------------
(***************************************************************************)
(* Instances of HttpProtocol for TLC: every pair of headers from a small   *)
(* set behind good and bad first lines, and what pack_request and          *)
(* pack_response send.                                                     *)
(***************************************************************************)
EXTENDS HttpProtocol

Hdr(key, text, number, len) ==
  [key |-> key, text |-> text, number |-> number, len |-> len]

SomeHeaders ==
  {Hdr("Content-Length", "number", 3, 5), Hdr("Content-Length", "number", 0, 4),
   Hdr("Content-Length", "number", -1, 4), Hdr("Content-Length", "junk", 0, 4),
   Hdr("Content-Length", "blank", 0, 2), Hdr("Connection", "Keep-Alive", 0, 6),
   Hdr("Connection", "Keep-alive", 0, 6), Hdr("Connection", "Close", 0, 3),
   Hdr("other", "junk", 0, 1), Hdr("other", "junk", 0, 40), Hdr("none", "junk", 0, 2)}

Request(head, shape, line, hs) ==
  [response |-> FALSE, head |-> head, shape |-> shape, slash |-> TRUE,
   line |-> line, headers |-> hs]

Pairs == {<<>>} \cup {<<h>> : h \in SomeHeaders} \cup {<<g, h>> : g, h \in SomeHeaders}

MCMessages ==
  {Request("method", TRUE, 8, hs) : hs \in Pairs}
  \cup {[response |-> TRUE, head |-> "junk", shape |-> TRUE, slash |-> FALSE,
         line |-> 2, headers |-> hs] : hs \in Pairs}
  \cup {Request("method", FALSE, 8, <<>>), Request("method", TRUE, 38, <<>>),
        Request("method", TRUE, 39, <<>>), Request("CONNECT", TRUE, 9, <<>>),
        Request("junk", TRUE, 9, <<>>),
        [Request("method", TRUE, 8, <<>>) EXCEPT !.slash = FALSE]}
  \cup {PackRequest(c, n) : c \in {"Short", "Single"}, n \in {0, 2}}
  \cup {PackResponse(c, n) : c \in {"Short", "Single"}, n \in {0, 2}}
=============================================================================
