----------------------------- MODULE HttpServing ------------------------------
(***************************************************************************)
(* The HTTP handler over the serving controller.  One connection is served *)
(* at a time, to its end; only the clock and the client, who may vanish    *)
(* before any write, act in between.                                       *)
(***************************************************************************)
EXTENDS ServingController

CONSTANTS
  Others,              \* the controller has users besides the handler
  StreamCap            \* bound of the passes of the streaming loop

(* No turn takes as many forwards as the loop has passes: the 1,000,000 are *)
(* above max_seq_len, which is 262,144 (qwen35_config.h:155).              *)
ASSUME HttpAssumption ==
  /\ Others \in BOOLEAN /\ StreamCap \in Nat
  /\ \A c \in Configs : \A n \in c.inputs, m \in c.limits : n + m <= StreamCap

VARIABLES
  conn                 \* the connection: [phase, request, sent, answer, passes]

hvars == <<vars, conn>>

Closed == [phase |-> "idle", request |-> 0, sent |-> <<>>, answer |-> 0,
           passes |-> 0]

HInit == Init /\ conn = Closed

Free == conn.phase = "idle"
At(phase) == conn.phase = phase
Goto(phase) == conn' = [conn EXCEPT !.phase = phase]
Answer(code) == conn' = [conn EXCEPT !.phase = "idle", !.answer = code]

-----------------------------------------------------------------------------
(* The endpoints that are one call.  A busy session is not deleted, but it *)
(* is reset.  The connections' past is forgotten when a new one comes.     *)
PostSession == Free /\ CreateSession /\ conn' = Closed

DeleteSession(s) == /\ Free
                    /\ ~Busy(World, s)
                    /\ DestroySession(s)
                    /\ conn' = Closed

PostReset(s) == Free /\ ResetSession(s) /\ conn' = Closed

(* A turn that is admitted; one that is not answers 409 and leaves nothing.*)
PostTurn(s, n, m, d, phase) ==
  /\ Free
  /\ AdmitTurn(s, n, m, d)
  /\ conn' = [Closed EXCEPT !.phase = phase, !.request = next_request]

(* The synchronous turn: run_stream, and one answer from what it returned. *)
DriveTurn == At("admitted") /\ Begin("run_stream") /\ Goto("driving")

Own == log[conn.request]

(* The status code of a synchronous turn; its text may fail to decode.     *)
Code(own) ==
  LET ended == own # <<>> /\ Last(own)[1] = "end"
  IN  CASE ~ended -> 500
        [] ended /\ Last(own)[2] = "Failed" -> 500
        [] ended /\ Last(own)[2] # "Failed" /\ Last(own)[3] -> 408
        [] OTHER -> 200

AnswerTurn ==
  /\ At("driving") /\ loop.kind = "none" /\ ~fatal
  /\ \E code \in {Code(Own), 500} :
       conn' = [conn EXCEPT !.phase = "idle", !.answer = code, !.sent = Own]
  /\ UNCHANGED vars

(* The streaming turn: the header block, then the loop.                    *)
WriteHeader ==
  /\ At("header")
  /\ \E phase \in {"stream", "gone"} : Goto(phase)
  /\ UNCHANGED vars

(* The lines of the events of request id that are new in w; the terminal   *)
(* line has the committed tokens of the request.                           *)
LinesOf(w, id) ==
  LET new == SubSeq(w.log[id], Len(log[id]) + 1, Len(w.log[id]))
  IN  [i \in DOMAIN new |-> IF new[i][1] = "end"
                            THEN new[i] \o <<w.turns[id].committed>>
                            ELSE new[i]]

(* Mutant of Lines: everything the step returned, whoever it belongs to.   *)
LinesOfAll(w) ==
  FoldLeft(LAMBDA x, id : x \o LinesOf(w, id), <<>>,
           [i \in 1..Len(log) |-> i])

(* The lines of a step: the request's own events.                          *)
Lines(w) == LinesOf(w, conn.request)

(* One pass: nothing live ends the loop; else a step and the lines of its  *)
(* events.  A write fails when the client is gone; the text of the end may *)
(* not decode, which writes an error and returns.  The loop goes on while  *)
(* other requests are live.                                                *)
StreamPass ==
  /\ At("stream") /\ ~fatal
  /\ IF LiveCount(World) = 0 \/ conn.passes = StreamCap
     THEN Answer(200) /\ UNCHANGED vars
     ELSE /\ UNCHANGED <<next_session, next_request>> /\ Keep
          /\ \E w \in StepDrive(World, TRUE) :
               LET lines == Lines(w)
                   ends == lines # <<>> /\ Last(lines)[1] = "end"
               IN  /\ Becomes(w)
                   /\ \/ \E k \in 0..Len(lines) - 1 :
                           conn' = [conn EXCEPT !.phase = "gone",
                                       !.sent = @ \o SubSeq(lines, 1, k),
                                       !.passes = @ + 1]
                      \/ /\ ends
                         /\ conn' = [conn EXCEPT !.phase = "idle",
                                       !.sent = @ \o Front(lines),
                                       !.answer = 500,
                                       !.passes = @ + 1]
                      \/ conn' = [conn EXCEPT
                                    !.phase = IF ends /\ LiveCount(w) = 0
                                              THEN "idle" ELSE "stream",
                                    !.answer = IF ends /\ LiveCount(w) = 0
                                               THEN 200 ELSE 0,
                                    !.sent = @ \o lines,
                                    !.passes = @ + 1]

(* Mutant of CleanupCancel: a vanished client's request is left running.   *)
CleanupWithoutCancel ==
  At("gone") /\ Goto("idle") /\ UNCHANGED vars

(* cleanup_disconnected: cancel what is live, then run().                  *)
CleanupCancel ==
  /\ At("gone")
  /\ IF Ended(turns[conn.request]) THEN UNCHANGED vars ELSE Cancel(conn.request)
  /\ Goto("cancelled")

CleanupRun == At("cancelled") /\ Begin("run") /\ Goto("cleaning")

CleanupDone == /\ At("cleaning") /\ loop.kind = "none" /\ ~fatal
               /\ Answer(0) /\ UNCHANGED vars

(* Other users of the controller, between two connections.                 *)
OtherUser ==
  /\ Others /\ Free /\ UNCHANGED conn
  /\ \/ \E s \in sessions, n \in Inputs, m \in Limits, d \in Deadlines :
          AdmitTurn(s, n, m, d)
     \/ \E id \in DOMAIN turns : Cancel(id)

Handler == \/ DriveTurn \/ AnswerTurn
           \/ WriteHeader \/ StreamPass
           \/ CleanupCancel \/ CleanupRun \/ CleanupDone
           \/ Pass /\ UNCHANGED conn

HNext ==
  /\ UNCHANGED config
  /\ \/ Handler
     \/ Tick /\ UNCHANGED conn
     \/ PostSession
     \/ \E s \in sessions :
          \/ DeleteSession(s) \/ PostReset(s)
          \/ \E n \in Inputs, m \in Limits, d \in Deadlines,
                phase \in {"admitted", "header"} : PostTurn(s, n, m, d, phase)
     \/ OtherUser
     \/ (Free \/ fatal) /\ UNCHANGED hvars

HSpec == HInit /\ [][HNext]_hvars

(* Weak fairness of Handler: it runs to the end of a connection, while no  *)
(* client has to come.  It is enabled exactly while a connection is served *)
(* (else TLC would report a deadlock), and its steps are then those that   *)
(* are not the clock's; said without ENABLED, which is costly to evaluate. *)
Serving == ~Free /\ ~fatal
HFairness == []<>~Serving \/ []<><<Serving /\ UNCHANGED now>>_hvars

-----------------------------------------------------------------------------
(* Whatever a client does, when its connection is over its request is over *)
(* too: neither live nor holding undelivered events, so its session can be *)
(* evicted, deleted and used again.                                        *)
NothingLeftBehind ==
  Free /\ conn.request # 0 => conn.request \notin ctl.tracked

(* The client of a stream got a prefix of its own request's events, and    *)
(* all of them if it stayed: the terminal line repeats exactly the tokens  *)
(* that were streamed.                                                     *)
StreamIsOwn ==
  LET lines == conn.sent
      end == Last(lines)
  IN  conn.phase \in {"stream", "gone"} \/ conn.passes > 0 =>
        /\ \A i \in 1..Len(lines) :
             /\ lines[i][1] = "token" => lines[i][2] = i
             /\ lines[i][1] = "end" => i = Len(lines)
        /\ conn.answer = 200 => /\ lines # <<>> /\ end[1] = "end"
                                /\ end[4] = Len(lines) - 1
                                /\ end[2] = turns[conn.request].status

(* A synchronous turn is answered with all of its tokens and how it ended: *)
(* run_stream always brings its end, so 500 means a failure or a text that *)
(* does not decode, and 408 a turn the deadline cancelled.                 *)
AnswerIsWhole ==
  (Free /\ conn.answer # 0 /\ conn.passes = 0 /\ conn.request # 0) =>
    LET t == turns[conn.request]
    IN  conn.sent # <<>> =>
          /\ Len(conn.sent) = t.committed + 1
          /\ Last(conn.sent)[2] = t.status
          /\ conn.answer = 408 => t.status = "Cancelled"
          /\ conn.answer = 200 => t.status \in {"Finished", "Cancelled"}

(* Either way the client is told of its own request and of all of it.      *)
AnswersAreOwn == StreamIsOwn /\ AnswerIsWhole
=============================================================================
