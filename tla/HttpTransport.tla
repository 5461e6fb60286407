---------------------------- MODULE HttpTransport -----------------------------
(***************************************************************************)
(* Reading one request from a connection.  The client sends a header block *)
(* and then some bytes; what one recv() returns of them depends on the     *)
(* network, and the client may stall or close at any point.  A request     *)
(* stands for its lengths; bytes are counted in units.                     *)
(***************************************************************************)
EXTENDS Integers, FiniteSets

CONSTANTS
  MaxHeader, MaxBody,  \* the limits
  Buf,                 \* size of the receive buffer
  Headers, Lengths, Sents,  \* lengths of header blocks, Content-Lengths, and
                            \* bytes sent after the header block, in use
  Terminator           \* length of the blank line that ends a header block

TransportAssumption ==
  /\ {MaxHeader, MaxBody, Buf, Terminator} \subseteq Nat \ {0}
  /\ Headers \subseteq Nat /\ \A h \in Headers : h > Terminator
  /\ Lengths \subseteq Nat /\ Sents \subseteq Nat
  /\ \A S \in {Headers, Lengths, Sents} : IsFiniteSet(S)

VARIABLES
  request,             \* [header, length, sent], what the client sends
  head,                \* bytes in the head buffer
  body,                \* bytes in the body buffer
  result               \* "head" or "body" while reading, then the outcome

vars == <<request, head, body, result>>

Reading == result \in {"head", "body"}

(* The bytes taken from the socket.  When the header block is complete the *)
(* body starts with what was received beyond it.                           *)
Taken == IF result = "head" THEN head
         ELSE IF body > head - request.header THEN request.header + body
         ELSE head

Available == request.header + request.sent - Taken

Init == /\ request \in [header : Headers, length : Lengths, sent : Sents]
        /\ head = 0 /\ body = 0
        /\ result = "head"

(* parse_http_request on a complete capture: the limits again.  The limit  *)
(* of the header block does not count the blank line.                      *)
Parsed == CASE request.header - Terminator > MaxHeader -> "413"
            [] request.header - Terminator <= MaxHeader
                 /\ request.length > MaxBody -> "413"
            [] OTHER -> "ok"

(* The body that parse_http_request cuts out of head + body, as places in   *)
(* the body that was sent: head still ends with the bytes that body begins *)
(* with.                                                                   *)
Delivered == LET over == head - request.header
             IN  [i \in 1..request.length |-> IF i <= over THEN i ELSE i - over]

(* The head buffer holds n bytes and with them the whole header block: its *)
(* Content-Length is looked at, and the bytes beyond it begin the body.    *)
Scanned(n) ==
  LET over == n - request.header
  IN  CASE request.length > MaxBody -> [body |-> 0, result |-> "413"]
        [] request.length <= MaxBody /\ over > request.length ->
             [body |-> over, result |-> "400"]
        [] request.length <= MaxBody /\ over = request.length ->
             [body |-> over, result |-> Parsed]
        [] OTHER -> [body |-> over, result |-> "body"]

(* recv() into the head buffer; its size is limited first.                 *)
RecvHead ==
  /\ result = "head"
  /\ \E n \in 1..Buf :
       /\ n <= Available
       /\ head' = head + n
       /\ CASE head' > MaxHeader -> result' = "413" /\ UNCHANGED body
            [] head' <= MaxHeader /\ head' >= request.header ->
                 /\ body' = Scanned(head').body
                 /\ result' = Scanned(head').result
            [] OTHER -> UNCHANGED <<body, result>>
  /\ UNCHANGED request

(* recv() of what is missing of the body, never more.                      *)
RecvBody ==
  /\ result = "body"
  /\ \E n \in 1..Buf :
       /\ n <= Available /\ n <= request.length - body
       /\ body' = body + n
       /\ result' = IF body' = request.length THEN Parsed ELSE "body"
  /\ UNCHANGED <<request, head>>

(* recv() returns nothing: the timeout passed, or the client closed.  The  *)
(* connection is closed without an answer.                                 *)
RecvNothing == /\ Reading
               /\ result' = "closed"
               /\ UNCHANGED <<request, head, body>>

Server == RecvHead \/ RecvBody \/ RecvNothing

Done == ~Reading /\ UNCHANGED vars

Next == Server \/ Done

(* recv() returns, at the latest with its timeout.                         *)
Spec == Init /\ [][Next]_vars /\ WF_vars(Server)
-----------------------------------------------------------------------------
(* A request is accepted only with exactly its header block and the bytes  *)
(* of its Content-Length, however they were cut into segments.             *)
AcceptsWhole ==
  result = "ok" => /\ body = request.length
                   /\ request.sent >= request.length
                   /\ request.length <= MaxBody
                   /\ request.header - Terminator <= MaxHeader

(* However much a client sends, nothing is taken after a body that is read *)
(* to its end: what is taken beyond it came with the header block.         *)
CaptureBounded ==
  /\ result = "body" => body < request.length
  /\ Taken > request.header + request.length => head = Taken

(* tools/common/http_transport.h:60: "headers + exactly the Content-Length *)
(* body bytes".  The body that is passed on is the one that was sent.      *)
BodyIsSent ==
  result = "ok" => Delivered = [i \in 1..request.length |-> i]
=============================================================================
