-------------------------------- MODULE MCHttp --------------------------------
(***************************************************************************)
(* The server, part by part: the serving controller called in any order,   *)
(* the HTTP handler over it, the connection a request is read from, the    *)
(* two readers of its header block, its route, and the length gates of the *)
(* turn it asks for.  A behaviour is of one part; the variables of the     *)
(* others stay as they are.                                                *)
(***************************************************************************)
EXTENDS HttpServing

VARIABLES
  part,                \* "controller", "serving", "transport", "headers",
                       \* "routing", "gates"
  request, head, body, result,  \* of HttpTransport
  line, lines, sent,   \* of HttpRequests
  req,                 \* of HttpRouting
  length, tokens, max_new       \* of AdmissionGates

connection == <<request, head, body, result>>
lengths == <<length, tokens, max_new>>
allVars == <<hvars, part, connection, line, lines, sent, req, lengths>>

(* Limits of six and three units, a buffer of three, and header blocks and *)
(* bodies below, at and above them.                                        *)
Transport == INSTANCE HttpTransport WITH
  MaxHeader <- 6, MaxBody <- 3, Buf <- 3, Terminator <- 2,
  Headers <- {3, 5, 6, 7, 8, 10}, Lengths <- {0, 1, 3, 4}, Sents <- {0, 1, 3, 4, 5}

Requests == INSTANCE HttpRequests WITH
  Word <- 4, MaxBody <- 1, MaxDigits <- 4, MaxLines <- 2

Routing == INSTANCE HttpRouting

(* int of five bits, so that some sums overflow and wrap.                  *)
Gates == INSTANCE AdmissionGates WITH
  IntBits <- 5, MaxSeqLen <- 6, ContextCap <- 5, MaxTokens <- 4

ASSUME PartsAssumption ==
  Transport!TransportAssumption /\ Requests!RequestsAssumption
  /\ Gates!GatesAssumption

(* The handler's controller: two sessions, two turns, of which one may     *)
(* have nothing to generate.                                               *)
Handled ==
  [slots |-> 2, sessions |-> 2, live |-> Unlimited, ttl |-> NoTtl, lru |-> FALSE,
   creations |-> 2, admissions |-> 2, time |-> 1, unmanaged |-> FALSE,
   inputs |-> {1}, limits |-> {0, 2}, deadlines |-> {1, 2}]

(* Two turns with deadlines on both sides of every step; and a controller  *)
(* at its session limit, that evicts under pressure and after a TTL.       *)
Streaming ==
  [slots |-> 2, sessions |-> 2, live |-> Unlimited, ttl |-> NoTtl, lru |-> FALSE,
   creations |-> 2, admissions |-> 2, time |-> 1, unmanaged |-> FALSE,
   inputs |-> {1}, limits |-> {2}, deadlines |-> {1, 2}]

Evicting ==
  [slots |-> 3, sessions |-> 2, live |-> 1, ttl |-> 1, lru |-> TRUE,
   creations |-> 3, admissions |-> 1, time |-> 2, unmanaged |-> TRUE,
   inputs |-> {1}, limits |-> {1}, deadlines |-> {1, 3}]

MCConfigs == {Handled, Streaming, Evicting}

MCInit ==
  /\ part \in {"controller", "serving", "transport", "headers", "routing", "gates"}
  /\ HInit /\ config \in (IF part = "controller" THEN {Streaming, Evicting} ELSE {Handled})
  /\ \/ part = "transport" /\ Transport!Init
     \/ /\ part # "transport"
        /\ request = 0 /\ head = 0 /\ body = 0 /\ result = "none"
  /\ \/ part = "headers" /\ Requests!Init
     \/ part # "headers" /\ line = "none" /\ lines = <<>> /\ sent = 0
  /\ \/ part = "routing" /\ Routing!Init
     \/ part # "routing" /\ req = 0
  /\ \/ part = "gates" /\ Gates!Init
     \/ part # "gates" /\ length = 0 /\ tokens = 0 /\ max_new = 0

MCNext ==
  /\ UNCHANGED <<part, line, lines, sent, req>>
  /\ \/ part = "controller" /\ Next /\ UNCHANGED <<conn, connection, lengths>>
     \/ part = "serving" /\ HNext /\ UNCHANGED <<connection, lengths>>
     \/ part = "transport" /\ Transport!Next /\ UNCHANGED <<hvars, lengths>>
     \/ part \in {"headers", "routing", "gates"}
        /\ UNCHANGED <<hvars, connection, lengths>>
     \/ part = "gates" /\ Gates!Next /\ UNCHANGED <<hvars, connection>>

(* The fairness of the handler, and recv() returns, at the latest with its *)
(* timeout.                                                                *)
MCSpec ==
  /\ MCInit /\ [][MCNext]_allVars
  /\ HFairness
  /\ WF_connection(part = "transport" /\ Transport!Server /\ UNCHANGED <<hvars, lengths>>)
-----------------------------------------------------------------------------
(* A request is accepted only with the body its Content-Length says, as an *)
(* integer: however the bytes were cut into segments, however many digits  *)
(* and Content-Length lines the header block has.  A turn is admitted only *)
(* if its session's length, its input and its limit fit, as integers.      *)
LengthsExact ==
  /\ part = "transport" => Transport!AcceptsWhole /\ Transport!CaptureBounded
  /\ part = "headers" => Requests!LengthExact /\ Requests!ScanRefusesLess
  /\ part = "gates" => Gates!SessionGateExact /\ Gates!WithinSequence

(* The streaming endpoint refuses a turn exactly when the synchronous one  *)
(* does, with the same status, and success is answered only to a request   *)
(* that passed every check of its endpoint.                                *)
EndpointsAgree ==
  part = "routing" => Routing!EndpointsAgree /\ Routing!ChangesAreAnswered

(* A connection comes to its end, from its first byte read to its answer,  *)
(* and the server comes back for the next one.                             *)
ServerReturns ==
  /\ conn.phase # "idle" ~> conn.phase = "idle"
  /\ result \in {"head", "body"} ~> result \notin {"head", "body"}
=============================================================================
