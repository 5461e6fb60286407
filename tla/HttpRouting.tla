------------------------------ MODULE HttpRouting ------------------------------
(***************************************************************************)
(* How a parsed request is routed and validated, on its way to the serving *)
(* controller: ServingHttpApi::handle, handle_stream, and the choice       *)
(* between them in the server's loop.                                      *)
(***************************************************************************)
EXTENDS Integers

VARIABLE
  req                  \* what of a request and of the server's state matters

Methods == {"GET", "POST", "DELETE", "other"}

(* "suffix" is a path that ends like the streaming endpoint and is not it. *)
Paths == {"healthz", "stats", "sessions", "session", "reset", "turn",
          "stream", "suffix", "unknown"}

OfSession(path) == path \in {"session", "reset", "turn", "stream"}

Init == req \in [method : Methods, path : Paths,
                 known : BOOLEAN,      \* the session is live
                 busy : BOOLEAN,       \* and has a live request
                 content_type : {"text", "missing", "other"},
                 body : {"empty", "text", "invalid"},
                 query : BOOLEAN,      \* it resolves
                 codec : BOOLEAN,      \* the server has one
                 taken : BOOLEAN]      \* the controller says yes

Next == UNCHANGED req

(* turn_content_type_ok.                                                   *)
ContentTypeOK(r) == r.content_type \in {"text", "missing"}

(* Mutant of TurnChecks: the content type is looked at with the query.     *)
TurnChecksReordered(r) ==
  CASE r.body = "empty" -> 400
    [] r.body # "empty" /\ ~ContentTypeOK(r) -> 415
    [] r.body # "empty" /\ ContentTypeOK(r) /\ ~r.query -> 400
    [] OTHER -> 0

(* The checks of a turn before it is offered to the controller, in order;  *)
(* 0 when all are passed.                                                  *)
TurnChecks(r) ==
  CASE ~ContentTypeOK(r) -> 415
    [] ContentTypeOK(r) /\ r.body = "empty" -> 400
    [] ContentTypeOK(r) /\ r.body # "empty" /\ ~r.query -> 400
    [] OTHER -> 0

(* A missing codec, then a body that does not encode, then the controller: *)
(* 200 stands for a turn that is taken, and may yet end with 408 or 500.   *)
SyncTurn(r) ==
  CASE TurnChecks(r) # 0 -> TurnChecks(r)
    [] TurnChecks(r) = 0 /\ (~r.codec \/ r.body = "invalid") -> 400
    [] TurnChecks(r) = 0 /\ r.codec /\ r.body # "invalid" ->
         IF r.taken THEN 200 ELSE 409

(* handle, for everything but the streaming endpoint.                      *)
Handle(r) ==
  LET only(method, status) == IF r.method = method THEN status ELSE 405
      asked == IF r.taken THEN 200 ELSE 409
  IN  CASE r.path \in {"healthz", "stats"} -> only("GET", 200)
        [] r.path = "sessions" -> only("POST", IF r.taken THEN 201 ELSE 409)
        [] OfSession(r.path) /\ ~r.known -> 404
        [] r.path = "session" /\ r.known ->
             IF r.method = "DELETE" THEN IF r.busy THEN 409 ELSE asked
             ELSE only("GET", 200)
        [] r.path = "reset" /\ r.known -> only("POST", asked)
        [] r.path = "turn" /\ r.known -> only("POST", SyncTurn(r))
        [] r.path = "stream" /\ r.known -> 405
        [] OTHER -> 404

(* handle_stream: the same checks, written out again.                      *)
HandleStream(r) ==
  CASE r.method # "POST" -> 405
    [] r.method = "POST" /\ (r.path # "stream" \/ ~r.known) -> 404
    [] r.method = "POST" /\ r.path = "stream" /\ r.known ->
         IF ~ContentTypeOK(r) THEN 415
         ELSE IF r.body = "empty" \/ ~r.query THEN 400
         ELSE IF ~r.codec \/ r.body = "invalid" THEN 400
         ELSE IF r.taken THEN 200 ELSE 409

(* The server's loop: a POST whose path ends in /turn/stream is streamed.  *)
Dispatch(r) == IF r.method = "POST" /\ r.path \in {"stream", "suffix"}
               THEN HandleStream(r) ELSE Handle(r)
-----------------------------------------------------------------------------
(* The streaming endpoint refuses a turn exactly when the synchronous one  *)
(* does, with the same status: the client that has not seen a token knows  *)
(* as much of its turn either way.                                         *)
EndpointsAgree ==
  req.path = "turn" /\ req.method = "POST" =>
    Dispatch(req) = Dispatch([req EXCEPT !.path = "stream"])

(* Success is answered only to a request that passed every check of its    *)
(* endpoint: the controller took it, its session is live, a session that   *)
(* is deleted has no live request, a turn has a text that encodes.  (The   *)
(* converse is not claimed: a turn that was taken may end with 408 or 500, *)
(* and a creation answered 409 may have evicted sessions that expired.)    *)
ChangesAreAnswered ==
  Dispatch(req) \in {200, 201} /\ req.method # "GET" =>
    /\ req.taken
    /\ OfSession(req.path) => req.known
    /\ req.method = "DELETE" => req.path = "session" /\ ~req.busy
    /\ req.path \in {"turn", "stream"} => req.codec /\ req.body = "text"
=============================================================================
