------------------------------ MODULE HttpProofs ------------------------------
(***************************************************************************)
(* The handler over the serving controller: it calls the controller as any *)
(* caller may, it leaves no request behind, and every client is told of    *)
(* its own request and of all of it.                                       *)
(***************************************************************************)
EXTENDS HttpServing, ServingProofs

Phases == {"idle", "admitted", "driving", "header", "stream", "gone",
           "cancelled", "cleaning"}

(* The call of the controller that a phase waits for; when it has returned *)
(* no request is tracked.                                                  *)
LoopOf(phase) == CASE phase = "driving" -> "run_stream"
                   [] phase = "cleaning" -> "run"
                   [] OTHER -> "none"

Waits(phase) == phase \in {"driving", "cleaning"}

CallSound ==
  /\ loop.kind \in {"none", LoopOf(conn.phase)}
  /\ Waits(conn.phase) /\ loop.kind = "none" => ctl.tracked = {}

(* The request of the connection: there is one while it is served, and     *)
(* when it is over it is not tracked.  Nothing drops its events before the *)
(* client is gone.                                                         *)
RequestSound ==
  /\ conn.request \in DOMAIN turns \cup {0}
  /\ conn.request = 0 => Free /\ conn.passes = 0
  /\ Free => conn.request \notin ctl.tracked
  /\ conn.phase \in {"admitted", "driving", "header", "stream"} =>
       conn.request \notin dropped

(* The lines of a request of which everything, or a part, was sent.        *)
SentWhole(t, sent) ==
  \E exceeded \in BOOLEAN :
    sent = Append(Tokens(t.committed),
                  <<"end", t.status, exceeded, t.committed>>)

SentPart(sent) == \E n \in 0..Len(sent) : sent = Tokens(n)

(* The streaming loop has sent what the request has so far, and made no    *)
(* more passes than any live request has made forwards.                    *)
Streaming ==
  LET t == turns[conn.request]
      tracked == conn.request \in ctl.tracked
  IN  /\ tracked => ~Ended(t) /\ conn.sent = log[conn.request]
      /\ ~tracked => conn.passes > 0 /\ SentWhole(t, conn.sent)
      /\ conn.answer = 0
      /\ \A id \in ctl.tracked \cap Live(World) :
           conn.passes <= Forwards(turns[id])

(* What was sent in each phase.                                            *)
SentSound ==
  /\ conn.phase \in {"admitted", "driving", "header"} =>
       conn.sent = <<>> /\ conn.passes = 0 /\ conn.answer = 0
  /\ At("header") => conn.request \in ctl.tracked
  /\ At("header") \/ At("stream") => Streaming
  /\ conn.phase \in {"gone", "cancelled", "cleaning"} =>
       conn.answer = 0 /\ SentPart(conn.sent)
  /\ Free /\ conn.passes > 0 =>
       \/ SentWhole(turns[conn.request], conn.sent)
       \/ SentPart(conn.sent) /\ conn.answer # 200
  /\ AnswerIsWhole

IsConn(c) == c = [phase |-> c.phase, request |-> c.request, sent |-> c.sent,
                  answer |-> c.answer, passes |-> c.passes]

ConnSound ==
  /\ IsConn(conn)
  /\ conn.phase \in Phases /\ conn.passes \in Nat
  /\ CallSound /\ RequestSound /\ SentSound

(* No request takes more forwards than the streaming loop has passes.      *)
BudgetsFit == \A id \in DOMAIN turns : Budget(turns[id]) <= StreamCap

HSafe == Safe /\ ConnSound /\ BudgetsFit

-----------------------------------------------------------------------------
(* The handler calls the controller as any of its callers does: every step *)
(* of the server is a step of the controller, or none.                     *)
LEMMA HandlerCalls ==
  ASSUME HSafe, [HNext]_hvars
  PROVE  [Next]_vars
PROOF
<1> USE DEF At, Goto, Answer
<1>1. CASE UNCHANGED hvars
  BY <1>1 DEF hvars
<1>2. CASE HNext
  <2>1. config' = config
    BY <1>2 DEF HNext
  <2>2. CASE Tick \/ CreateSession \/ Pass
    BY <2>1, <2>2 DEF Next
  <2>3. CASE \E s \in sessions : DestroySession(s) \/ ResetSession(s)
    BY <2>1, <2>3 DEF Next
  <2>4. CASE \E s \in sessions, n \in Inputs, m \in Limits, d \in Deadlines :
               AdmitTurn(s, n, m, d)
    BY <2>1, <2>4 DEF Next
  <2>5. CASE \E id \in DOMAIN turns : Cancel(id)
    BY <2>1, <2>5 DEF Next
  <2>6. CASE Begin("run_stream") \/ Begin("run")
    BY <2>1, <2>6 DEF Next
  <2>7. CASE StreamPass
    <3>1. Idle
      BY <2>7 DEF StreamPass, HSafe, ConnSound, CallSound, LoopOf, Idle
    <3>2. UNCHANGED vars \/ Step(TRUE)
      BY <2>7, <3>1 DEF StreamPass, Step
    <3>3. CASE Step(TRUE)
      BY <2>1, <3>3 DEF Next
    <3> QED BY <3>2, <3>3
  <2>8. CASE CleanupCancel
    <3>1. conn.request \in DOMAIN turns
      BY <2>8 DEF CleanupCancel, HSafe, ConnSound, RequestSound, Free
    <3>2. UNCHANGED vars \/ Cancel(conn.request)
      BY <2>8 DEF CleanupCancel
    <3>3. CASE Cancel(conn.request)
      BY <2>5, <3>1, <3>3
    <3> QED BY <3>2, <3>3
  <2>9. CASE UNCHANGED vars
    BY <2>9
  <2>10. \/ Tick \/ CreateSession \/ Pass
         \/ \E s \in sessions : DestroySession(s) \/ ResetSession(s)
         \/ \E s \in sessions, n \in Inputs, m \in Limits, d \in Deadlines :
              AdmitTurn(s, n, m, d)
         \/ \E id \in DOMAIN turns : Cancel(id)
         \/ Begin("run_stream") \/ Begin("run")
         \/ StreamPass \/ CleanupCancel \/ UNCHANGED vars
    <3>1. CASE Handler
      BY <3>1 DEF Handler, DriveTurn, AnswerTurn, WriteHeader, CleanupRun,
                  CleanupDone
    <3>2. CASE OtherUser
      BY <3>2 DEF OtherUser
    <3>3. CASE \E s \in sessions :
                 \/ DeleteSession(s) \/ PostReset(s)
                 \/ \E n \in Inputs, m \in Limits, d \in Deadlines,
                      phase \in {"admitted", "header"} : PostTurn(s, n, m, d, phase)
      BY <3>3 DEF DeleteSession, PostReset, PostTurn
    <3> QED BY <1>2, <3>1, <3>2, <3>3 DEF HNext, PostSession, hvars
  <2> QED BY <2>2, <2>3, <2>4, <2>5, <2>6, <2>7, <2>8, <2>9, <2>10
<1> QED BY <1>1, <1>2

-----------------------------------------------------------------------------
(* A request that is over stays as it is.                                  *)
LEMMA Frozen ==
  ASSUME Safe, Kept, NEW id \in DOMAIN turns, id \notin ctl.tracked
  PROVE  turns'[id] = turns[id] /\ Ended(turns[id])
PROOF
<1>1. LogExact(World, id) /\ TurnAdvances(World, World', id)
  BY WorldFields DEF Safe, Sound, Kept, Follows
<1>2. Ended(turns[id])
  BY <1>1, WorldFields DEF LogExact
<1>3. World'.turns = turns' /\ World.turns = turns
  BY DEF World
<1> QED BY <1>1, <1>2, <1>3 DEF TurnAdvances

(* Without an admission the requests are the same.                         *)
LEMMA SameRequests ==
  ASSUME Safe, Kept, next_request' = next_request
  PROVE  DOMAIN turns' = DOMAIN turns
PROOF
<1> QED BY DEF Safe, Kept, CountersSound

(* A request's budget is fixed when it is admitted.                        *)
LEMMA BudgetsKept ==
  ASSUME HSafe, Kept,
         \A id \in DOMAIN turns' \ DOMAIN turns : Budget(turns'[id]) <= StreamCap
  PROVE  BudgetsFit'
PROOF
<1>1. ASSUME NEW id \in DOMAIN turns
      PROVE  Budget(turns'[id]) = Budget(turns[id])
  <2>1. TurnAdvances(World, World', id)
    BY WorldFields DEF Kept, Follows
  <2>2. World'.turns = turns' /\ World.turns = turns
    BY DEF World
  <2> QED BY <2>1, <2>2 DEF TurnAdvances
<1> QED BY <1>1 DEF HSafe, BudgetsFit

(* The tracked requests are among the requests, and 0 is none of them.     *)
LEMMA TrackedRequests ==
  ASSUME Safe
  PROVE  ctl.tracked \subseteq DOMAIN turns /\ 0 \notin DOMAIN turns
PROOF
<1> QED BY WorldFields DEF Safe, Sound, CountersSound

(* A connection that has been forgotten.                                   *)
LEMMA ClosedSound ==
  ASSUME Safe', conn' = Closed, loop'.kind = "none"
  PROVE  ConnSound'
PROOF
<1>1. /\ conn'.phase = "idle" /\ conn'.request = 0 /\ conn'.sent = <<>>
      /\ conn'.answer = 0 /\ conn'.passes = 0
      /\ IsConn(conn')
  BY DEF Closed, IsConn
<1>2. ctl'.tracked \subseteq DOMAIN turns' /\ 0 \notin DOMAIN turns'
  <2>1. World'.ctl = ctl' /\ World'.turns = turns'
    BY DEF World
  <2> QED BY <2>1 DEF Safe, Sound, CountersSound
<1>3. CallSound' /\ RequestSound'
  BY <1>1, <1>2 DEF CallSound, Waits, LoopOf, RequestSound, Free
<1>4. SentSound'
  BY <1>1 DEF SentSound, At, Free, AnswerIsWhole
<1> QED BY <1>1, <1>3, <1>4 DEF ConnSound, Phases

-----------------------------------------------------------------------------
(* The synchronous turn is driven by run_stream.                           *)
LEMMA DriveTurnSound ==
  ASSUME HSafe, DriveTurn
  PROVE  ConnSound'
PROOF
<1>1. /\ conn.phase = "admitted" /\ ConnSound /\ loop'.kind = "run_stream"
      /\ UNCHANGED <<turns, ctl, log, dropped>>
      /\ conn' = [conn EXCEPT !.phase = "driving"]
  BY DEF DriveTurn, At, Goto, Begin, HSafe
<1>2. /\ IsConn(conn') /\ conn'.phase = "driving"
      /\ conn'.request = conn.request /\ conn'.sent = conn.sent
      /\ conn'.answer = conn.answer /\ conn'.passes = conn.passes
  BY <1>1 DEF ConnSound, IsConn
<1>3. CallSound' /\ RequestSound'
  BY <1>1, <1>2 DEF CallSound, Waits, LoopOf, RequestSound, Free, ConnSound
<1>4. SentSound'
  BY <1>1, <1>2 DEF SentSound, At, Free, AnswerIsWhole, ConnSound
<1> QED BY <1>1, <1>2, <1>3, <1>4 DEF ConnSound, Phases

(* What was got of a request that is over, and that nobody dropped.        *)
LEMMA OverIsComplete ==
  ASSUME Safe, NEW id \in DOMAIN turns, id \notin ctl.tracked, id \notin dropped
  PROVE  /\ SoundTurn(turns[id]) /\ Ended(turns[id])
         /\ Complete(turns[id], log[id])
PROOF
<1>1. LogExact(World, id) /\ SoundTurn(World.turns[id])
  BY WorldFields DEF Safe, Sound
<1> QED BY <1>1, WorldFields DEF LogExact

(* All events of a request, as a caller reads them: as many as its tokens, *)
(* and how it ended.                                                       *)
LEMMA CompleteReads ==
  ASSUME NEW t, SoundTurn(t), NEW got, Complete(t, got)
  PROVE  /\ got # <<>> /\ Len(got) = t.committed + 1
         /\ Last(got)[1] = "end" /\ Last(got)[2] = t.status
         /\ Last(got)[3] \in BOOLEAN
         /\ Last(got)[3] => t.status = "Cancelled"
PROOF
<1>1. PICK exceeded \in BOOLEAN :
        /\ exceeded => t.status = "Cancelled"
        /\ got = Append(Tokens(t.committed), <<"end", t.status, exceeded>>)
  BY DEF Complete
<1>2. PICK e : e = <<"end", t.status, exceeded>>
  OBVIOUS
<1>3. PICK n \in Nat : n = t.committed
  BY DEF SoundTurn, TurnRecord
<1>4. got = Append(Tokens(n), e)
  BY <1>1, <1>2, <1>3
<1>5. got # <<>> /\ Last(got) = e
  BY <1>4, TokensLast
<1>6. Len(got) = n + 1
  <2> DEFINE S == {<<"token", i>> : i \in Nat} \cup {e}
  <2>1. Tokens(n) \in [1..n -> S] /\ e \in S
    BY DEF Tokens
  <2> HIDE DEF S
  <2>2. Tokens(n) \in Seq(S) /\ Len(Tokens(n)) = n
    BY <2>1
  <2> QED BY <1>4, <2>1, <2>2, AppendProperties
<1>7. e[1] = "end" /\ e[2] = t.status /\ e[3] = exceeded
  BY <1>2
<1> QED BY <1>1, <1>3, <1>5, <1>6, <1>7

(* The answer to a synchronous turn says all of it, and how it ended.      *)
LEMMA AnswerTurnSound ==
  ASSUME HSafe, AnswerTurn
  PROVE  ConnSound'
PROOF
<1>1. PICK code \in {Code(Own), 500} :
        conn' = [conn EXCEPT !.phase = "idle", !.answer = code, !.sent = Own]
  BY DEF AnswerTurn
<1>2. /\ conn.phase = "driving" /\ loop.kind = "none" /\ ConnSound
      /\ UNCHANGED <<turns, ctl, log, dropped, loop>>
  BY DEF AnswerTurn, At, HSafe, vars
<1>3. /\ IsConn(conn') /\ conn'.phase = "idle" /\ conn'.request = conn.request
      /\ conn'.sent = Own /\ conn'.answer = code /\ conn'.passes = conn.passes
  <2>1. PICK sent : sent = Own
    OBVIOUS
  <2> QED BY <1>1, <1>2, <2>1 DEF ConnSound, IsConn
<1>4. /\ ctl.tracked = {} /\ conn.request \in DOMAIN turns
      /\ conn.request \notin dropped /\ conn.passes = 0
  BY <1>2 DEF ConnSound, CallSound, Waits, RequestSound, Free, SentSound
<1>5. PICK t : t = turns[conn.request]
  OBVIOUS
<1>6. PICK own : own = Own
  OBVIOUS
<1>7. SoundTurn(t) /\ Ended(t) /\ Complete(t, own)
  BY <1>4, <1>5, <1>6, OverIsComplete DEF HSafe, Own
<1>8. /\ own # <<>> /\ Len(own) = t.committed + 1
      /\ Last(own)[1] = "end" /\ Last(own)[2] = t.status
      /\ Last(own)[3] \in BOOLEAN
      /\ Last(own)[3] => t.status = "Cancelled"
  BY <1>7, CompleteReads
<1>9. /\ code = 408 => t.status = "Cancelled"
      /\ code = 200 => t.status \in {"Finished", "Cancelled"}
  <2>1. t.status \in {"Finished", "Cancelled", "Failed"}
    BY <1>7 DEF SoundTurn, TurnRecord, Statuses, Ended, TurnsView!Ended
  <2>2. code \in {Code(own), 500}
    BY <1>6
  <2>3. CASE code = 500
    BY <2>3
  <2>4. CASE code = Code(own) /\ t.status = "Failed"
    BY <1>8, <2>4 DEF Code
  <2>5. CASE code = Code(own) /\ t.status # "Failed" /\ Last(own)[3]
    BY <1>8, <2>1, <2>5 DEF Code
  <2>6. CASE code = Code(own) /\ t.status # "Failed" /\ ~Last(own)[3]
    BY <1>8, <2>1, <2>6 DEF Code
  <2> QED BY <1>8, <2>2, <2>3, <2>4, <2>5, <2>6
<1>10. AnswerIsWhole'
  BY <1>2, <1>3, <1>5, <1>6, <1>8, <1>9 DEF AnswerIsWhole
<1>11. CallSound' /\ RequestSound'
  BY <1>2, <1>3, <1>4 DEF CallSound, Waits, LoopOf, RequestSound, Free
<1>12. SentSound'
  BY <1>3, <1>4, <1>10 DEF SentSound, At, Free
<1> QED BY <1>3, <1>4, <1>11, <1>12 DEF ConnSound, Phases

-----------------------------------------------------------------------------
(* A step that leaves the connection and its request alone.                *)
LEMMA StillSound ==
  ASSUME HSafe, UNCHANGED <<conn, sessions, turns, ctl, loop, log, dropped>>
  PROVE  ConnSound'
PROOF
<1>1. World' = World
  BY DEF World
<1>2. ConnSound
  BY DEF HSafe
<1>3. CallSound' /\ RequestSound'
  BY <1>2 DEF ConnSound, CallSound, RequestSound, Free
<1>4. Streaming => Streaming'
  BY <1>1 DEF Streaming
<1>5. AnswerIsWhole => AnswerIsWhole'
  BY DEF AnswerIsWhole, Free
<1>6. SentSound'
  BY <1>2, <1>4, <1>5 DEF ConnSound, SentSound, At, Free
<1> QED BY <1>2, <1>3, <1>6 DEF ConnSound

(* Before the stream nothing was sent; a client that is already gone got   *)
(* nothing of it.                                                          *)
LEMMA WriteHeaderSound ==
  ASSUME HSafe, WriteHeader
  PROVE  ConnSound'
PROOF
<1>1. PICK phase \in {"stream", "gone"} : conn' = [conn EXCEPT !.phase = phase]
  BY DEF WriteHeader, Goto
<1>2. /\ conn.phase = "header" /\ ConnSound
      /\ UNCHANGED <<turns, ctl, log, dropped, loop>>
  BY DEF WriteHeader, At, HSafe, vars
<1>3. /\ IsConn(conn') /\ conn'.phase = phase
      /\ conn'.request = conn.request /\ conn'.sent = conn.sent
      /\ conn'.answer = conn.answer /\ conn'.passes = conn.passes
  BY <1>1, <1>2 DEF ConnSound, IsConn
<1>4. World' = World
  BY DEF WriteHeader, vars, World
<1>5. CallSound' /\ RequestSound'
  BY <1>2, <1>3 DEF CallSound, Waits, LoopOf, RequestSound, Free, ConnSound
<1>6. Streaming'
  BY <1>2, <1>3, <1>4 DEF ConnSound, SentSound, At, Streaming
<1>7. conn'.sent = <<>> /\ conn'.answer = 0
  BY <1>2, <1>3 DEF ConnSound, SentSound
<1>8. SentPart(<<>>)
  BY DEF SentPart, Tokens
<1>9. SentSound'
  BY <1>3, <1>6, <1>7, <1>8 DEF SentSound, At, Free, AnswerIsWhole
<1> QED BY <1>2, <1>3, <1>5, <1>9 DEF ConnSound, Phases

-----------------------------------------------------------------------------
(* cleanup_disconnected ends the request, but sends nothing more.          *)
LEMMA CleanupCancelSound ==
  ASSUME HSafe, CleanupCancel, DOMAIN turns' = DOMAIN turns
  PROVE  ConnSound'
PROOF
<1>1. /\ conn.phase = "gone" /\ ConnSound /\ loop' = loop
      /\ conn' = [conn EXCEPT !.phase = "cancelled"]
  BY DEF CleanupCancel, At, Goto, HSafe, vars, Cancel, Keep
<1>2. /\ IsConn(conn') /\ conn'.phase = "cancelled"
      /\ conn'.request = conn.request /\ conn'.sent = conn.sent
      /\ conn'.answer = conn.answer /\ conn'.passes = conn.passes
  BY <1>1 DEF ConnSound, IsConn
<1>3. CallSound' /\ RequestSound'
  BY <1>1, <1>2 DEF CallSound, Waits, LoopOf, RequestSound, Free, ConnSound
<1>4. SentSound'
  BY <1>1, <1>2 DEF SentSound, At, Free, AnswerIsWhole, ConnSound
<1> QED BY <1>1, <1>2, <1>3, <1>4 DEF ConnSound, Phases

(* It waits for run().                                                     *)
LEMMA CleanupRunSound ==
  ASSUME HSafe, CleanupRun
  PROVE  ConnSound'
PROOF
<1>1. /\ conn.phase = "cancelled" /\ ConnSound /\ loop'.kind = "run"
      /\ turns' = turns
      /\ conn' = [conn EXCEPT !.phase = "cleaning"]
  BY DEF CleanupRun, At, Goto, Begin, HSafe
<1>2. /\ IsConn(conn') /\ conn'.phase = "cleaning"
      /\ conn'.request = conn.request /\ conn'.sent = conn.sent
      /\ conn'.answer = conn.answer /\ conn'.passes = conn.passes
  BY <1>1 DEF ConnSound, IsConn
<1>3. CallSound' /\ RequestSound'
  BY <1>1, <1>2 DEF CallSound, Waits, LoopOf, RequestSound, Free, ConnSound
<1>4. SentSound'
  BY <1>1, <1>2 DEF SentSound, At, Free, AnswerIsWhole, ConnSound
<1> QED BY <1>1, <1>2, <1>3, <1>4 DEF ConnSound, Phases

(* When run() is back no request is left.                                  *)
LEMMA CleanupDoneSound ==
  ASSUME HSafe, CleanupDone
  PROVE  ConnSound'
PROOF
<1>1. /\ conn.phase = "cleaning" /\ loop.kind = "none" /\ ConnSound
      /\ UNCHANGED <<turns, ctl, log, dropped, loop>>
      /\ conn' = [conn EXCEPT !.phase = "idle", !.answer = 0]
  BY DEF CleanupDone, At, Answer, HSafe, vars
<1>2. /\ IsConn(conn') /\ conn'.phase = "idle"
      /\ conn'.request = conn.request /\ conn'.sent = conn.sent
      /\ conn'.answer = 0 /\ conn'.passes = conn.passes
  BY <1>1 DEF ConnSound, IsConn
<1>3. CallSound' /\ RequestSound'
  BY <1>1, <1>2 DEF CallSound, Waits, LoopOf, RequestSound, Free, ConnSound
<1>4. SentSound'
  BY <1>1, <1>2 DEF SentSound, At, Free, AnswerIsWhole, ConnSound
<1> QED BY <1>1, <1>2, <1>3, <1>4 DEF ConnSound, Phases

(* A pass of the loop that the connection waits for.                       *)
LEMMA PassSound ==
  ASSUME HSafe, Pass, config' = config, conn' = conn, DOMAIN turns' = DOMAIN turns
  PROVE  ConnSound'
PROOF
<1>1. ConnSound /\ loop.kind # "none"
  BY DEF HSafe, Pass
<1>2. /\ \/ loop'.kind = loop.kind
         \/ loop'.kind = "none" /\ ctl'.tracked = {}
      /\ loop.kind = "run_stream" => dropped' = dropped
  BY PassKept DEF HSafe
<1>3. \/ conn.phase = "driving" /\ loop.kind = "run_stream"
      \/ conn.phase = "cleaning" /\ loop.kind = "run"
  BY <1>1 DEF ConnSound, CallSound, LoopOf
<1>4. CallSound' /\ RequestSound'
  BY <1>1, <1>2, <1>3 DEF CallSound, Waits, LoopOf, RequestSound, Free, ConnSound
<1>5. SentSound'
  BY <1>1, <1>3 DEF SentSound, At, Free, AnswerIsWhole, ConnSound
<1> QED BY <1>1, <1>4, <1>5 DEF ConnSound

(* A turn of any of the lengths in use fits the passes of the streaming    *)
(* loop.                                                                   *)
LEMMA AdmittedFits ==
  ASSUME Safe, NEW s, NEW n \in Inputs, NEW m \in Limits
  PROVE  Budget(TurnsView!NewTurn(s, n, m)) <= StreamCap
PROOF
<1>1. n + m <= StreamCap
  BY HttpAssumption DEF Safe, CountersSound, Inputs, Limits
<1> QED BY <1>1 DEF Budget, TurnsView!NewTurn

-----------------------------------------------------------------------------
(* What a client may do between two connections, and a new connection.     *)
LEMMA OtherUserSound ==
  ASSUME HSafe, OtherUser, config' = config
  PROVE  ConnSound' /\ BudgetsFit'
PROOF
<1> DEFINE r == conn.request
<1>1. /\ conn.phase = "idle" /\ conn' = conn /\ ConnSound /\ loop.kind = "none"
      /\ Safe
  BY DEF OtherUser, Free, HSafe, ConnSound, CallSound, LoopOf
<1>2. Kept /\ loop' = loop /\ r \in DOMAIN turns' \cup {0} /\ r \notin ctl'.tracked
      /\ BudgetsFit'
  <2>1. ASSUME NEW s \in sessions, NEW n \in Inputs, NEW m \in Limits,
               NEW d \in Deadlines, AdmitTurn(s, n, m, d)
        PROVE  Kept /\ loop' = loop /\ r \in DOMAIN turns' \cup {0}
               /\ r \notin ctl'.tracked /\ BudgetsFit'
    <3>1. PICK t : t = TurnsView!NewTurn(s, n, m)
      OBVIOUS
    <3>2. Kept /\ Admitted(t)
      BY <1>1, <2>1, <3>1, AdmitTurnKept
    <3>3. next_request # 0 /\ loop' = loop
      BY <1>1, <2>1 DEF Safe, CountersSound, AdmitTurn, Keep
    <3>4. r \in DOMAIN turns' \cup {0} /\ r \notin ctl'.tracked
      BY <1>1, <3>2, <3>3 DEF ConnSound, RequestSound, Free, Admitted
    <3>5. Budget(t) <= StreamCap
      BY <1>1, <3>1, AdmittedFits
    <3>6. BudgetsFit'
      BY <3>2, <3>5, BudgetsKept DEF Admitted
    <3> QED BY <3>2, <3>3, <3>4, <3>6
  <2>2. ASSUME NEW id \in DOMAIN turns, Cancel(id)
        PROVE  Kept /\ loop' = loop /\ r \in DOMAIN turns' \cup {0}
               /\ r \notin ctl'.tracked /\ BudgetsFit'
    <3>1. Kept /\ ctl'.tracked = ctl.tracked
      BY <1>1, <2>2, CancelKept
    <3>2. loop' = loop /\ next_request' = next_request
      BY <2>2 DEF Cancel, Keep
    <3>3. DOMAIN turns' = DOMAIN turns
      BY <1>1, <3>1, <3>2, SameRequests
    <3>4. BudgetsFit'
      BY <3>1, <3>3, BudgetsKept
    <3> QED BY <1>1, <3>1, <3>2, <3>3, <3>4 DEF ConnSound, RequestSound, Free
  <2> QED BY <2>1, <2>2 DEF OtherUser
<1>3. CallSound' /\ RequestSound'
  BY <1>1, <1>2 DEF ConnSound, CallSound, Waits, LoopOf, RequestSound, Free
<1>4. r # 0 => turns'[r] = turns[r]
  BY <1>1, <1>2, Frozen DEF ConnSound, RequestSound, Free
<1>5. SentSound'
  BY <1>1, <1>4 DEF ConnSound, RequestSound, SentSound, AnswerIsWhole, At, Free
<1> QED BY <1>1, <1>2, <1>3, <1>5 DEF ConnSound

(* A turn that was admitted is the connection's, and it is tracked.        *)
LEMMA PostTurnSound ==
  ASSUME HSafe, NEW s \in sessions, NEW n \in Inputs, NEW m \in Limits,
         NEW d \in Deadlines, NEW phase \in {"admitted", "header"},
         PostTurn(s, n, m, d, phase), config' = config
  PROVE  ConnSound' /\ BudgetsFit'
PROOF
<1>1. PICK r : r = next_request
  OBVIOUS
<1>2. PICK t : t = TurnsView!NewTurn(s, n, m)
  OBVIOUS
<1>3. /\ AdmitTurn(s, n, m, d) /\ loop' = loop /\ loop.kind = "none" /\ Safe
      /\ conn' = [Closed EXCEPT !.phase = phase, !.request = r]
  BY <1>1 DEF PostTurn, AdmitTurn, Keep, Idle, HSafe
<1>4. /\ IsConn(conn') /\ conn'.phase = phase /\ conn'.request = r
      /\ conn'.sent = <<>> /\ conn'.answer = 0 /\ conn'.passes = 0
  BY <1>3 DEF Closed, IsConn
<1>5. Kept /\ Admitted(t)
  BY <1>2, <1>3, AdmitTurnKept
<1>6. Budget(t) <= StreamCap
  BY <1>2, <1>3, AdmittedFits
<1>7. BudgetsFit'
  BY <1>5, <1>6, BudgetsKept DEF Admitted
<1>8. /\ r # 0 /\ r \notin dropped' /\ r \in DOMAIN turns' /\ r \in ctl'.tracked
      /\ turns'[r] = t /\ log'[r] = <<>>
  BY <1>1, <1>3, <1>5, WorldFields DEF Safe, CountersSound, Sound, Admitted
<1>9. ~Ended(t)
  BY <1>2 DEF TurnsView!NewTurn, Ended, TurnsView!Ended
<1>10. CallSound' /\ RequestSound'
  BY <1>3, <1>4, <1>8 DEF CallSound, Waits, LoopOf, RequestSound, Free
<1>11. ASSUME NEW id \in ctl'.tracked \cap Live(World')
       PROVE  0 <= Forwards(turns'[id])
  <2>1. id \in DOMAIN turns' /\ SoundTurn(turns'[id])
    <3>1. World'.ctl = ctl' /\ World'.turns = turns'
      BY DEF World
    <3> QED BY <1>5, <1>11, <3>1 DEF Kept, Sound
  <2> QED BY <2>1, LiveWithinBudget
<1>12. Streaming'
  BY <1>4, <1>8, <1>9, <1>11 DEF Streaming
<1>13. SentSound'
  BY <1>4, <1>8, <1>12 DEF SentSound, AnswerIsWhole, At, Free
<1> QED BY <1>4, <1>7, <1>10, <1>13 DEF ConnSound, Phases

-----------------------------------------------------------------------------
(* The first tokens of a request are a part of its lines.                  *)
LEMMA TokensArePart ==
  ASSUME NEW n \in Nat
  PROVE  SentPart(Tokens(n)) /\ Len(Tokens(n)) = n
PROOF
<1> DEFINE S == {<<"token", i>> : i \in Nat}
<1>1. Tokens(n) \in [1..n -> S]
  BY DEF Tokens
<1> HIDE DEF S
<1>2. Len(Tokens(n)) = n /\ n \in 0..n
  BY <1>1
<1> QED BY <1>2 DEF SentPart

-----------------------------------------------------------------------------
(* What is new after the first tokens of a stream.                         *)
LEMMA NewTokens ==
  ASSUME NEW e \in Nat, NEW n \in Nat, e <= n, NEW z
  PROVE  /\ SubSeq(Tokens(n), Len(Tokens(e)) + 1, Len(Tokens(n))) = More(e, n)
         /\ SubSeq(Append(Tokens(n), z), Len(Tokens(e)) + 1,
                   Len(Append(Tokens(n), z))) = Append(More(e, n), z)
PROOF
<1> DEFINE S == {<<"token", i>> : i \in Nat} \cup {z}
<1>1. PICK d \in Nat : d = n - e /\ n = e + d
  OBVIOUS
<1>2. PICK a : a = Tokens(n)
  OBVIOUS
<1>3. PICK m : m = More(e, n)
  OBVIOUS
<1>4. /\ a \in [1..n -> S] /\ m \in [1..d -> S] /\ z \in S
      /\ Tokens(e) \in [1..e -> S]
  BY <1>1, <1>2, <1>3 DEF Tokens, More
<1>5. \A i \in 1..d : m[i] = a[e + i]
  <2> SUFFICES ASSUME NEW i \in 1..d PROVE m[i] = a[e + i]
    OBVIOUS
  <2>1. e + i \in 1..n
    BY <1>1
  <2> QED BY <1>1, <1>2, <1>3, <2>1 DEF Tokens, More
<1> HIDE DEF S
<1>6. a \in Seq(S) /\ Len(a) = n /\ m \in Seq(S) /\ Len(m) = d /\ Len(Tokens(e)) = e
  BY <1>4
<1>7. SubSeq(a, e + 1, n) = m
  <2>1. PICK s : s = SubSeq(a, e + 1, n)
    OBVIOUS
  <2>2. e + 1 \in 1..Len(a) + 1 /\ n \in (e + 1) - 1..Len(a)
    BY <1>1, <1>6
  <2>3. /\ s \in Seq(S) /\ Len(s) = n - (e + 1) + 1
        /\ \A i \in 1..n - (e + 1) + 1 : s[i] = a[(e + 1) + i - 1]
    BY <1>6, <2>1, <2>2, SubSeqProperties
  <2>4. n - (e + 1) + 1 = d /\ \A i \in 1..d : (e + 1) + i - 1 = e + i
    BY <1>1
  <2>5. s \in Seq(S) /\ Len(s) = d /\ \A i \in 1..d : s[i] = a[e + i]
    BY <2>3, <2>4
  <2> QED BY <1>5, <1>6, <2>1, <2>5, SeqEqual
<1>8. PICK b : b = Append(a, z)
  OBVIOUS
<1>9. /\ b \in Seq(S) /\ Len(b) = n + 1 /\ b[n + 1] = z
      /\ \A i \in 1..n : b[i] = a[i]
  BY <1>4, <1>6, <1>8, AppendProperties
<1>10. PICK c : c = Append(m, z)
  OBVIOUS
<1>11. /\ c \in Seq(S) /\ Len(c) = d + 1 /\ c[d + 1] = z
       /\ \A i \in 1..d : c[i] = m[i]
  BY <1>4, <1>6, <1>10, AppendProperties
<1>12. SubSeq(b, e + 1, n + 1) = c
  <2>1. PICK s : s = SubSeq(b, e + 1, n + 1)
    OBVIOUS
  <2>2. s \in Seq(S) /\ Len(s) = d + 1 /\ \A i \in 1..d + 1 : s[i] = b[e + i]
    BY <1>1, <1>9, <2>1
  <2>3. ASSUME NEW i \in 1..d + 1 PROVE s[i] = c[i]
    <3>1. CASE i = d + 1
      BY <1>1, <1>9, <1>11, <2>2, <3>1
    <3>2. CASE i \in 1..d
      <4>1. e + i \in 1..n
        BY <1>1, <3>2
      <4> QED BY <1>5, <1>9, <1>11, <2>2, <3>2, <4>1
    <3> QED BY <1>1, <3>1, <3>2
  <2> QED BY <1>11, <2>1, <2>2, <2>3, SeqEqual
<1> QED BY <1>2, <1>3, <1>6, <1>7, <1>8, <1>9, <1>10, <1>12

(* However few of a step's lines get out, what was sent is the first       *)
(* tokens of the request; the last of the lines is the only one that may   *)
(* be terminal.                                                            *)
LEMMA LinesCut ==
  ASSUME NEW e \in Nat, NEW n \in Nat, e <= n, NEW z, z[1] = "end",
         NEW lines \in {More(e, n), Append(More(e, n), z)}
  PROVE  /\ \A k \in 0..Len(lines) - 1 : SentPart(Tokens(e) \o SubSeq(lines, 1, k))
         /\ lines # <<>> /\ Last(lines)[1] = "end" =>
              lines = Append(More(e, n), z) /\ Front(lines) = More(e, n)
         /\ lines = Append(More(e, n), z) =>
              lines # <<>> /\ Last(lines)[1] = "end"
PROOF
<1> DEFINE S == {<<"token", i>> : i \in Nat} \cup {z}
<1>1. PICK d \in Nat : d = n - e /\ n = e + d
  OBVIOUS
<1>2. PICK m : m = More(e, n)
  OBVIOUS
<1>3. m \in [1..d -> S] /\ z \in S /\ \A i \in 1..d : m[i] = <<"token", e + i>>
  BY <1>1, <1>2 DEF More
<1>4. \A i \in 1..d : m[i][1] # "end"
  BY <1>3
<1> HIDE DEF S
<1>5. m \in Seq(S) /\ Len(m) = d
  BY <1>3
<1>6. PICK b : b = Append(m, z)
  OBVIOUS
<1>7. /\ b \in Seq(S) /\ Len(b) = d + 1 /\ b[d + 1] = z
      /\ \A i \in 1..d : b[i] = m[i]
  BY <1>3, <1>5, <1>6, AppendProperties
<1>8. lines \in Seq(S) /\ Len(lines) \in {d, d + 1} /\ \A i \in 1..d : lines[i] = m[i]
  BY <1>2, <1>5, <1>6, <1>7
<1>9. ASSUME NEW k \in 0..Len(lines) - 1
      PROVE  SentPart(Tokens(e) \o SubSeq(lines, 1, k))
  <2>1. k \in Nat /\ k <= d /\ e + k \in Nat /\ e <= e + k
    BY <1>1, <1>8
  <2>2. PICK s : s = SubSeq(lines, 1, k)
    OBVIOUS
  <2>3. s \in Seq(S) /\ Len(s) = k /\ \A i \in 1..k : s[i] = m[i]
    BY <1>8, <2>1, <2>2
  <2>4. PICK t : t = More(e, e + k)
    OBVIOUS
  <2>5. \A i \in 1..k : t[i] = <<"token", e + i>>
    BY <2>1, <2>4 DEF More
  <2>6. t = [i \in 1..k |-> t[i]]
    BY <2>1, <2>4 DEF More
  <2>7. ASSUME NEW i \in 1..k PROVE s[i] = t[i]
    <3>1. i \in 1..d
      BY <2>1
    <3>2. s[i] = m[i] /\ t[i] = <<"token", e + i>>
      BY <2>3, <2>5
    <3>3. m[i] = <<"token", e + i>>
      BY <1>3, <3>1
    <3> QED BY <3>2, <3>3
  <2>8. s = t
    BY <2>3, <2>6, <2>7
  <2>9. Tokens(e) \o s = Tokens(e + k)
    BY <2>1, <2>4, <2>8, TokensJoin
  <2>10. SentPart(Tokens(e + k))
    BY <2>1, TokensArePart
  <2> QED BY <2>2, <2>9, <2>10
<1>10. CASE lines = m
  <2>1. ~(lines # <<>> /\ Last(lines)[1] = "end")
    <3>1. CASE d = 0
      BY <1>5, <1>10, <3>1
    <3>2. CASE d > 0
      BY <1>1, <1>4, <1>5, <1>10, <3>2 DEF Last
    <3> QED BY <1>1, <3>1, <3>2
  <2>2. lines # b
    BY <1>5, <1>7, <1>10
  <2> QED BY <1>2, <1>6, <1>9, <2>1, <2>2
<1>11. CASE lines = b
  <2>1. lines # <<>> /\ Last(lines) = z
    BY <1>7, <1>11 DEF Last
  <2>2. Front(lines) = m
    <3>1. PICK f : f = SubSeq(b, 1, d)
      OBVIOUS
    <3>2. f \in Seq(S) /\ Len(f) = d /\ \A i \in 1..d : f[i] = b[i]
      BY <1>7, <3>1
    <3>3. f = m
      BY <1>5, <1>7, <3>2, SeqEqual
    <3>4. Len(lines) - 1 = d
      BY <1>1, <1>7, <1>11
    <3> QED BY <1>11, <3>1, <3>3, <3>4 DEF Front
  <2> QED BY <1>2, <1>6, <1>9, <1>11, <2>1, <2>2
<1> QED BY <1>2, <1>6, <1>10, <1>11

(* A tuple of three with one more.                                         *)
LEMMA FourInARow ==
  ASSUME NEW S, NEW y \in S, NEW s \in S, NEW b \in S, NEW n \in S
  PROVE  <<y, s, b>> \o <<n>> = <<y, s, b, n>>
PROOF
<1>1. /\ <<y, s, b>> \in Seq(S) /\ <<n>> \in Seq(S)
      /\ <<y, s, b, n>> \in Seq(S)
  OBVIOUS
<1>2. <<y, s, b>> \o <<n>> \in Seq(S) /\ Len(<<y, s, b>> \o <<n>>) = 4
  BY <1>1, ConcatProperties
<1>3. \A i \in 1..4 : i = 1 \/ i = 2 \/ i = 3 \/ i = 4
  OBVIOUS
<1>4. \A i \in 1..4 : (<<y, s, b>> \o <<n>>)[i] = <<y, s, b, n>>[i]
  BY <1>1, <1>2, <1>3, ConcatProperties
<1> QED BY <1>1, <1>2, <1>4, SeqEqual

(* The line of a terminal event has the committed tokens, too.             *)
LEMMA TerminalLine ==
  ASSUME NEW s, NEW b, NEW n
  PROVE  <<"end", s, b>> \o <<n>> = <<"end", s, b, n>>
PROOF
<1>1. PICK y : y = "end"
  OBVIOUS
<1>2. <<y, s, b>> \o <<n>> = <<y, s, b, n>>
  <2>1. PICK S : S = {y, s, b, n}
    OBVIOUS
  <2>2. y \in S /\ s \in S /\ b \in S /\ n \in S
    BY <2>1
  <2> QED BY <2>2, FourInARow
<1> QED BY <1>1, <1>2

(* The lines of new events of a request with n committed tokens.           *)
AsLines(new, n) ==
  [i \in DOMAIN new |-> IF new[i][1] = "end" THEN new[i] \o <<n>> ELSE new[i]]

(* Of new tokens and the terminal event only the last is longer as a line. *)
LEMMA LinesWithEnd ==
  ASSUME NEW e \in Nat, NEW c \in Nat, e <= c, NEW s, NEW b,
         NEW new, new = Append(More(e, c), <<"end", s, b>>)
  PROVE  AsLines(new, c) = Append(More(e, c), <<"end", s, b, c>>)
PROOF
<1>1. PICK z : z = <<"end", s, b>>
  OBVIOUS
<1>2. PICK y : y = <<"end", s, b, c>>
  OBVIOUS
<1>3. PICK d \in Nat : d = c - e
  OBVIOUS
<1>4. PICK m : m = More(e, c)
  OBVIOUS
<1> DEFINE S == {<<"token", i>> : i \in Nat} \cup {z, y}
<1>5. /\ m \in [1..d -> S] /\ z \in S /\ y \in S
      /\ \A i \in 1..d : m[i][1] # "end"
  BY <1>3, <1>4 DEF More
<1> HIDE DEF S
<1>6. m \in Seq(S) /\ Len(m) = d
  BY <1>5
<1>7. PICK a : a = Append(m, z)
  OBVIOUS
<1>8. PICK f : f = Append(m, y)
  OBVIOUS
<1>9. /\ a \in Seq(S) /\ Len(a) = d + 1 /\ a[d + 1] = z
      /\ \A i \in 1..d : a[i] = m[i]
  BY <1>5, <1>6, <1>7, AppendProperties
<1>10. /\ f \in Seq(S) /\ Len(f) = d + 1 /\ f[d + 1] = y
       /\ \A i \in 1..d : f[i] = m[i]
  BY <1>5, <1>6, <1>8, AppendProperties
<1>11. z[1] = "end" /\ z \o <<c>> = y
  BY <1>1, <1>2, TerminalLine
<1>12. ASSUME NEW i \in 1..d + 1
       PROVE  f[i] = IF a[i][1] = "end" THEN a[i] \o <<c>> ELSE a[i]
  <2>1. CASE i = d + 1
    BY <1>9, <1>10, <1>11, <2>1
  <2>2. CASE i \in 1..d
    BY <1>5, <1>9, <1>10, <2>2
  <2> QED BY <1>3, <2>1, <2>2
<1>13. DOMAIN a = 1..d + 1 /\ f = [i \in 1..d + 1 |-> f[i]]
  BY <1>9, <1>10
<1>14. f = AsLines(a, c)
  BY <1>12, <1>13 DEF AsLines
<1> QED BY <1>1, <1>2, <1>4, <1>7, <1>8, <1>14

(* The lines of a step for a request that is tracked: its new tokens, and  *)
(* the terminal one with the end.                                          *)
LEMMA StepLines ==
  ASSUME Safe, NEW x \in StepDrive(World, TRUE), NEW r \in ctl.tracked
  PROVE  \E e \in Nat : \E n \in Nat :
           /\ e <= n /\ log[r] = Tokens(e)
           /\ \/ /\ r \in x.ctl.tracked /\ ~Ended(x.turns[r])
                 /\ x.log[r] = Tokens(n)
                 /\ LinesOf(x, r) = More(e, n)
              \/ /\ r \notin x.ctl.tracked /\ n = x.turns[r].committed
                 /\ \E b \in BOOLEAN :
                      LinesOf(x, r) = Append(More(e, n),
                                             <<"end", x.turns[r].status, b, n>>)
PROOF
<1>1. PICK v \in BOOLEAN : v = TRUE
  OBVIOUS
<1>2. x \in StepDrive(World, v) /\ now \in Nat /\ Sound(World)
  BY <1>1 DEF Safe, CountersSound
<1>3. /\ Sound(x) /\ Advances(World, x) /\ x.dropped = dropped
      /\ TrackedEnded(x) = {} /\ DOMAIN x.turns = DOMAIN turns
  BY <1>1, <1>2, StepDriveAdvances, WorldFields DEF Advances
<1>4. /\ r \in DOMAIN turns /\ LogExact(World, r) /\ LogExact(x, r)
      /\ TurnAdvances(World, x, r) /\ TrackingAdvances(World, x, r)
      /\ SoundTurn(x.turns[r])
  BY <1>2, <1>3, WorldFields DEF Sound, Advances
<1>5. PICK e \in Nat : e = ctl.emitted[r]
  BY <1>2, WorldFields DEF Sound
<1>6. /\ log[r] = Tokens(e) /\ r \notin dropped /\ e <= turns[r].committed
  BY <1>2, <1>4, <1>5, WorldFields DEF LogExact, Sound
<1>7. PICK l : l = x.log[r]
  OBVIOUS
<1>8. PICK new : new = SubSeq(l, Len(Tokens(e)) + 1, Len(l))
  OBVIOUS
<1>9. PICK c : c = x.turns[r].committed
  OBVIOUS
<1>10. LinesOf(x, r) = AsLines(new, c)
  BY <1>6, <1>7, <1>8, <1>9 DEF LinesOf, AsLines
<1>11. CASE r \in x.ctl.tracked
  <2>1. PICK n \in Nat : n = x.ctl.emitted[r]
    BY <1>3, <1>11 DEF Sound
  <2>2. e <= n /\ l = Tokens(n) /\ ~Ended(x.turns[r])
    BY <1>3, <1>4, <1>5, <1>7, <1>11, <2>1, WorldFields
       DEF TrackingAdvances, LogExact, TrackedEnded
  <2>3. new = More(e, n)
    BY <1>8, <2>2, NewTokens
  <2>4. /\ new = [i \in DOMAIN new |-> new[i]]
        /\ \A i \in DOMAIN new : new[i][1] # "end"
    BY <2>3 DEF More
  <2>5. LinesOf(x, r) = new
    BY <1>10, <2>4 DEF AsLines
  <2> QED BY <1>6, <1>7, <1>11, <2>2, <2>3, <2>5
<1>12. CASE r \notin x.ctl.tracked
  <2>1. Complete(x.turns[r], l)
    BY <1>3, <1>4, <1>6, <1>7, <1>12 DEF LogExact
  <2>2. PICK b \in BOOLEAN :
          l = Append(Tokens(c), <<"end", x.turns[r].status, b>>)
    BY <1>9, <2>1 DEF Complete
  <2>3. PICK s : s = x.turns[r].status
    OBVIOUS
  <2>4. PICK z : z = <<"end", s, b>>
    OBVIOUS
  <2>5. c \in Nat /\ turns[r].committed \in Nat /\ turns[r].committed <= c
    BY <1>2, <1>4, <1>9, WorldFields DEF SoundTurn, TurnRecord, TurnAdvances, Sound
  <2>6. e <= c
    BY <1>6, <2>5
  <2>7. new = Append(More(e, c), z)
    BY <1>8, <2>2, <2>3, <2>4, <2>5, <2>6, NewTokens
  <2>8. LinesOf(x, r) = Append(More(e, c), <<"end", s, b, c>>)
    <3>1. new = Append(More(e, c), <<"end", s, b>>)
      BY <2>4, <2>7
    <3> QED BY <1>10, <2>5, <2>6, <3>1, LinesWithEnd
  <2> QED BY <1>6, <1>9, <1>12, <2>3, <2>5, <2>6, <2>8
<1> QED BY <1>11, <1>12

(* A terminal event more makes other lines.                                *)
LEMMA MoreIsShorter ==
  ASSUME NEW e \in Nat, NEW n \in Nat, e <= n, NEW z
  PROVE  More(e, n) # Append(More(e, n), z)
PROOF
<1> DEFINE S == {<<"token", i>> : i \in Nat} \cup {z}
<1>1. More(e, n) \in [1..n - e -> S] /\ n - e \in Nat /\ z \in S
  BY DEF More
<1> HIDE DEF S
<1>2. More(e, n) \in Seq(S)
  BY <1>1
<1>3. Len(Append(More(e, n), z)) = Len(More(e, n)) + 1 /\ Len(More(e, n)) \in Nat
  BY <1>1, <1>2, AppendProperties
<1> QED BY <1>3

(* What a caller has of a request that is over is a sequence.              *)
LEMMA LogIsSequence ==
  ASSUME NEW w, Sound(w), NEW r \in DOMAIN w.turns, r \notin w.ctl.tracked
  PROVE  Len(w.log[r]) \in Nat
PROOF
<1>1. LogExact(w, r) /\ SoundTurn(w.turns[r])
  BY DEF Sound
<1>2. w.turns[r].committed \in Nat
  BY <1>1 DEF SoundTurn, TurnRecord
<1>3. CASE r \in w.dropped
  <2>1. PICK n \in 0..w.turns[r].committed : w.log[r] = Tokens(n)
    BY <1>1, <1>3 DEF LogExact
  <2>2. n \in Nat
    BY <1>2
  <2> QED BY <2>1, <2>2, TokensArePart
<1>4. CASE r \notin w.dropped
  <2>1. Len(w.log[r]) = w.turns[r].committed + 1
    BY <1>1, <1>4, CompleteReads DEF LogExact
  <2> QED BY <1>2, <2>1
<1> QED BY <1>3, <1>4

(* So are all lines of a request.                                          *)
LEMMA WholeIsSequence ==
  ASSUME NEW t, SoundTurn(t), NEW sent, SentWhole(t, sent)
  PROVE  sent \o <<>> = sent
PROOF
<1>1. PICK z : sent = Append(Tokens(t.committed), z)
  BY DEF SentWhole
<1>2. PICK n \in Nat : n = t.committed
  BY DEF SoundTurn, TurnRecord
<1> DEFINE S == {<<"token", i>> : i \in Nat} \cup {z}
<1>3. Tokens(n) \in [1..n -> S] /\ z \in S
  BY DEF Tokens
<1> HIDE DEF S
<1>4. sent \in Seq(S)
  BY <1>1, <1>2, <1>3, AppendProperties
<1> QED BY <1>4, ConcatEmptySeq

-----------------------------------------------------------------------------
(* The streaming loop never runs into its cap: while its own request is    *)
(* live it has made no more passes than that request has forwards left, so *)
(* what ends the loop is that nothing is live, and then all was sent.      *)
LEMMA StreamEndSound ==
  ASSUME HSafe, At("stream"), Answer(200), UNCHANGED vars,
         LiveCount(World) = 0 \/ conn.passes = StreamCap
  PROVE  ConnSound'
PROOF
<1> DEFINE r == conn.request
           t == turns[r]
<1>1. /\ conn.phase = "stream" /\ ConnSound /\ Safe /\ Streaming
      /\ r \in DOMAIN turns /\ r # 0 /\ conn.passes \in Nat
      /\ UNCHANGED <<turns, ctl, log, dropped, loop>>
  BY DEF HSafe, ConnSound, RequestSound, SentSound, At, Free, vars
<1>2. /\ IsConn(conn') /\ conn'.phase = "idle" /\ conn'.request = r
      /\ conn'.sent = conn.sent /\ conn'.answer = 200
      /\ conn'.passes = conn.passes
  BY <1>1 DEF Answer, ConnSound, IsConn
<1>3. r \notin ctl.tracked
  <2> SUFFICES ASSUME r \in ctl.tracked PROVE FALSE
    OBVIOUS
  <2>1. r \in ctl.tracked \cap Live(World) /\ SoundTurn(t) /\ ~Ended(t)
    <3>1. ~Ended(t)
      BY <1>1 DEF Streaming
    <3>2. r \in Live(World)
      BY <1>1, <3>1, WorldFields DEF Live, TurnsView!LiveTurns, Ended
    <3> QED BY <1>1, <3>1, <3>2, WorldFields DEF Safe, Sound
  <2>2. LiveCount(World) # 0
    BY <1>1, <2>1, TrackedLive
  <2>3. conn.passes <= Forwards(t) /\ Budget(t) <= StreamCap
    BY <1>1, <2>1 DEF Streaming, HSafe, BudgetsFit
  <2>4. Forwards(t) \in Nat /\ Budget(t) \in Nat /\ Forwards(t) + 1 <= Budget(t)
    BY <2>1, LiveWithinBudget
  <2> QED BY <1>1, <2>2, <2>3, <2>4, HttpAssumption
<1>4. conn.passes > 0 /\ SentWhole(t, conn.sent)
  BY <1>1, <1>3 DEF Streaming
<1>5. CallSound' /\ RequestSound'
  BY <1>1, <1>2, <1>3 DEF CallSound, Waits, LoopOf, RequestSound, Free, ConnSound
<1>6. SentSound'
  BY <1>1, <1>2, <1>4 DEF SentSound, At, Free, AnswerIsWhole
<1> QED BY <1>1, <1>2, <1>5, <1>6 DEF ConnSound, Phases

(* What a step adds to what was sent, when all of its lines get out: the   *)
(* request's new tokens, or all of its remaining events.                   *)
LEMMA StepSends ==
  ASSUME HSafe, At("stream"), NEW x \in StepDrive(World, TRUE),
         NEW r, r = conn.request, NEW lines, lines = Lines(x)
  PROVE  /\ \A k \in 0..Len(lines) - 1 : SentPart(conn.sent \o SubSeq(lines, 1, k))
         /\ lines # <<>> /\ Last(lines)[1] = "end" =>
              r \notin x.ctl.tracked /\ SentPart(conn.sent \o Front(lines))
         /\ r \in x.ctl.tracked =>
              ~Ended(x.turns[r]) /\ conn.sent \o lines = x.log[r]
         /\ r \notin x.ctl.tracked => SentWhole(x.turns[r], conn.sent \o lines)
PROOF
<1>1. /\ ConnSound /\ Safe /\ Streaming /\ r \in DOMAIN turns /\ now \in Nat
      /\ Sound(World)
  BY DEF HSafe, ConnSound, RequestSound, SentSound, At, Free, Safe, CountersSound
<1>2. lines = LinesOf(x, r)
  BY DEF Lines
<1>3. CASE r \in ctl.tracked
  <2>1. PICK e \in Nat :
          \E n \in Nat :
           /\ e <= n /\ log[r] = Tokens(e)
           /\ \/ /\ r \in x.ctl.tracked /\ ~Ended(x.turns[r])
                 /\ x.log[r] = Tokens(n)
                 /\ LinesOf(x, r) = More(e, n)
              \/ /\ r \notin x.ctl.tracked /\ n = x.turns[r].committed
                 /\ \E b \in BOOLEAN :
                      LinesOf(x, r) = Append(More(e, n),
                                             <<"end", x.turns[r].status, b, n>>)
    BY <1>1, <1>3, StepLines
  <2>2. PICK n \in Nat :
           /\ e <= n /\ log[r] = Tokens(e)
           /\ \/ /\ r \in x.ctl.tracked /\ ~Ended(x.turns[r])
                 /\ x.log[r] = Tokens(n)
                 /\ lines = More(e, n)
              \/ /\ r \notin x.ctl.tracked /\ n = x.turns[r].committed
                 /\ \E b \in BOOLEAN :
                      lines = Append(More(e, n),
                                     <<"end", x.turns[r].status, b, n>>)
    BY <1>2, <2>1
  <2>3. conn.sent = Tokens(e)
    BY <1>1, <1>3, <2>2 DEF Streaming
  <2>4. CASE /\ r \in x.ctl.tracked /\ ~Ended(x.turns[r])
             /\ x.log[r] = Tokens(n) /\ lines = More(e, n)
    <3>1. PICK z : z = <<"end", 0>>
      OBVIOUS
    <3>2. z[1] = "end" /\ lines \in {More(e, n), Append(More(e, n), z)}
      BY <2>4, <3>1
    <3>3. /\ \A k \in 0..Len(lines) - 1 : SentPart(Tokens(e) \o SubSeq(lines, 1, k))
          /\ lines # <<>> /\ Last(lines)[1] = "end" => lines = Append(More(e, n), z)
      BY <2>2, <3>2, LinesCut
    <3>4. lines # Append(More(e, n), z)
      BY <2>2, <2>4, MoreIsShorter
    <3>5. conn.sent \o lines = x.log[r]
      BY <2>2, <2>3, <2>4, TokensJoin
    <3> QED BY <2>3, <2>4, <3>3, <3>4, <3>5
  <2>5. CASE /\ r \notin x.ctl.tracked /\ n = x.turns[r].committed
             /\ \E b \in BOOLEAN :
                  lines = Append(More(e, n), <<"end", x.turns[r].status, b, n>>)
    <3>1. PICK b \in BOOLEAN :
            lines = Append(More(e, n), <<"end", x.turns[r].status, b, n>>)
      BY <2>5
    <3>2. PICK z : z = <<"end", x.turns[r].status, b, n>>
      OBVIOUS
    <3>3. z[1] = "end" /\ lines \in {More(e, n), Append(More(e, n), z)}
          /\ lines = Append(More(e, n), z)
      BY <3>1, <3>2
    <3>4. /\ \A k \in 0..Len(lines) - 1 : SentPart(Tokens(e) \o SubSeq(lines, 1, k))
          /\ lines # <<>> /\ Last(lines)[1] = "end" => Front(lines) = More(e, n)
      BY <2>2, <3>3, LinesCut
    <3>5. /\ Tokens(e) \o More(e, n) = Tokens(n)
          /\ Tokens(e) \o Append(More(e, n), z) = Append(Tokens(n), z)
      BY <2>2, TokensJoin
    <3>6. SentPart(Tokens(n))
      BY TokensArePart
    <3>7. SentWhole(x.turns[r], conn.sent \o lines)
      BY <2>3, <2>5, <3>2, <3>3, <3>5 DEF SentWhole
    <3> QED BY <2>3, <2>5, <3>4, <3>5, <3>6, <3>7
  <2> QED BY <2>2, <2>4, <2>5
<1>4. CASE r \notin ctl.tracked
  <2>1. /\ Sound(x) /\ Advances(World, x) /\ x.ctl.tracked \subseteq ctl.tracked
    <3>1. PICK v \in BOOLEAN : v = TRUE
      OBVIOUS
    <3>2. x \in StepDrive(World, v)
      BY <3>1
    <3> QED BY <1>1, <3>2, StepDriveAdvances, WorldFields
  <2>2. /\ x.log[r] = log[r] /\ TurnAdvances(World, x, r) /\ LogExact(World, r)
    BY <1>1, <1>4, <2>1, WorldFields DEF Advances, LogAdvances, Sound
  <2>3. x.turns[r] = turns[r]
    BY <1>4, <2>2, WorldFields DEF LogExact, TurnAdvances
  <2>4. PICK l : l = log[r]
    OBVIOUS
  <2>5. Len(l) \in Nat
    BY <1>1, <1>4, <2>2, <2>4, LogIsSequence, WorldFields DEF Sound
  <2>6. lines = <<>>
    <3>1. SubSeq(l, Len(l) + 1, Len(l)) = <<>>
      BY <2>5, SubSeqEmpty
    <3> QED BY <1>2, <2>2, <2>4, <3>1 DEF LinesOf
  <2>7. SentWhole(turns[r], conn.sent)
    BY <1>1, <1>4 DEF Streaming
  <2>8. conn.sent \o <<>> = conn.sent
    BY <1>1, <2>7, WholeIsSequence, WorldFields DEF Sound
  <2>9. Len(lines) = 0
    BY <2>6
  <2> QED BY <1>4, <2>1, <2>3, <2>6, <2>7, <2>8, <2>9
<1> QED BY <1>3, <1>4

(* A pass of the streaming loop: the loop ends, or a step is made and its  *)
(* lines get out, a part of them, or all but the terminal one.             *)
LEMMA StreamPassSound ==
  ASSUME HSafe, StreamPass, Kept, DOMAIN turns' = DOMAIN turns
  PROVE  ConnSound'
PROOF
<1>1. CASE LiveCount(World) = 0 \/ conn.passes = StreamCap
  BY <1>1, StreamEndSound DEF StreamPass
<1>2. CASE ~(LiveCount(World) = 0 \/ conn.passes = StreamCap)
  <2>1. PICK x \in StepDrive(World, TRUE) :
          LET lines == Lines(x)
              ends == lines # <<>> /\ Last(lines)[1] = "end"
          IN  /\ Becomes(x)
              /\ \/ \E k \in 0..Len(lines) - 1 :
                      conn' = [conn EXCEPT !.phase = "gone",
                                  !.sent = @ \o SubSeq(lines, 1, k),
                                  !.passes = @ + 1]
                 \/ /\ ends
                    /\ conn' = [conn EXCEPT !.phase = "idle",
                                  !.sent = @ \o Front(lines),
                                  !.answer = 500,
                                  !.passes = @ + 1]
                 \/ conn' = [conn EXCEPT
                               !.phase = IF ends /\ LiveCount(x) = 0
                                         THEN "idle" ELSE "stream",
                               !.answer = IF ends /\ LiveCount(x) = 0
                                          THEN 200 ELSE 0,
                               !.sent = @ \o lines,
                               !.passes = @ + 1]
    BY <1>2 DEF StreamPass
  <2>2. PICK r : r = conn.request
    OBVIOUS
  <2>3. PICK lines : lines = Lines(x)
    OBVIOUS
  <2>4. PICK ends \in BOOLEAN : ends = (lines # <<>> /\ Last(lines)[1] = "end")
    OBVIOUS
  <2>5. /\ At("stream") /\ Safe /\ ConnSound /\ Streaming
        /\ r \in DOMAIN turns /\ r # 0 /\ r \notin dropped
        /\ conn.passes \in Nat /\ now \in Nat /\ Sound(World)
        /\ loop' = loop /\ loop.kind = "none"
    BY <1>2, <2>2 DEF StreamPass, HSafe, ConnSound, CallSound, LoopOf,
         RequestSound, SentSound, At, Free, Safe, CountersSound, Keep
  <2>6. /\ Sound(x) /\ x.dropped = dropped /\ x.ctl.tracked \subseteq ctl.tracked
        /\ \A id \in x.ctl.tracked \cap Live(x) :
             /\ id \in Live(World)
             /\ Forwards(x.turns[id]) = Forwards(turns[id]) + 1
    <3>1. PICK v \in BOOLEAN : v = TRUE
      OBVIOUS
    <3>2. x \in StepDrive(World, v)
      BY <3>1
    <3> QED BY <2>5, <3>2, StepDriveAdvances, WorldFields
  <2>7. /\ \A k \in 0..Len(lines) - 1 : SentPart(conn.sent \o SubSeq(lines, 1, k))
        /\ ends => r \notin x.ctl.tracked /\ SentPart(conn.sent \o Front(lines))
        /\ r \in x.ctl.tracked =>
             ~Ended(x.turns[r]) /\ conn.sent \o lines = x.log[r]
        /\ r \notin x.ctl.tracked => SentWhole(x.turns[r], conn.sent \o lines)
    BY <2>2, <2>3, <2>4, <2>5, StepSends
  <2>8. /\ turns' = x.turns /\ ctl' = x.ctl /\ log' = x.log /\ dropped' = dropped
        /\ World' = x
    BY <2>1, <2>6, BecomesWorld DEF Becomes
  <2>9. PICK passes \in Nat : passes = conn.passes + 1 /\ passes > 0
    BY <2>5
  <2>10. conn.answer = 0
    BY <2>5 DEF Streaming
  <2>11. \A id \in ctl'.tracked \cap Live(World') : passes <= Forwards(turns'[id])
    <3> SUFFICES ASSUME NEW id \in x.ctl.tracked \cap Live(x)
                 PROVE  passes <= Forwards(x.turns[id])
      BY <2>8
    <3>1. /\ id \in ctl.tracked \cap Live(World)
          /\ Forwards(x.turns[id]) = Forwards(turns[id]) + 1
      BY <2>6
    <3>2. conn.passes <= Forwards(turns[id])
      BY <2>5, <3>1 DEF Streaming
    <3>3. Forwards(turns[id]) \in Nat
      BY <2>5, <3>1, TrackedLive, LiveWithinBudget
    <3> QED BY <2>5, <2>9, <3>1, <3>2, <3>3
  <2>12. ASSUME NEW k \in 0..Len(lines) - 1, NEW sent,
                sent = conn.sent \o SubSeq(lines, 1, k),
                conn' = [conn EXCEPT !.phase = "gone", !.sent = sent,
                                     !.passes = passes]
         PROVE  ConnSound'
    <3>1. /\ IsConn(conn') /\ conn'.phase = "gone" /\ conn'.request = r
          /\ conn'.sent = sent /\ conn'.answer = 0 /\ conn'.passes = passes
      BY <2>2, <2>5, <2>10, <2>12 DEF ConnSound, IsConn
    <3>2. SentPart(sent)
      BY <2>7, <2>12
    <3>3. CallSound' /\ RequestSound'
      BY <2>5, <3>1 DEF CallSound, Waits, LoopOf, RequestSound, Free
    <3>4. SentSound'
      BY <3>1, <3>2 DEF SentSound, At, Free, AnswerIsWhole
    <3> QED BY <3>1, <3>3, <3>4 DEF ConnSound, Phases
  <2>13. ASSUME ends, NEW sent, sent = conn.sent \o Front(lines),
                conn' = [conn EXCEPT !.phase = "idle", !.sent = sent,
                                     !.answer = 500, !.passes = passes]
         PROVE  ConnSound'
    <3>1. /\ IsConn(conn') /\ conn'.phase = "idle" /\ conn'.request = r
          /\ conn'.sent = sent /\ conn'.answer = 500 /\ conn'.passes = passes
      BY <2>2, <2>5, <2>13 DEF ConnSound, IsConn
    <3>2. SentPart(sent) /\ r \notin ctl'.tracked
      BY <2>7, <2>8, <2>13
    <3>3. CallSound' /\ RequestSound'
      BY <2>5, <3>1, <3>2 DEF CallSound, Waits, LoopOf, RequestSound, Free
    <3>4. SentSound'
      BY <2>9, <3>1, <3>2 DEF SentSound, At, Free, AnswerIsWhole
    <3> QED BY <3>1, <3>3, <3>4 DEF ConnSound, Phases
  <2>14. ASSUME NEW over \in BOOLEAN, over => ends,
                NEW sent, sent = conn.sent \o lines,
                NEW phase, phase = IF over THEN "idle" ELSE "stream",
                NEW answer, answer = IF over THEN 200 ELSE 0,
                conn' = [conn EXCEPT !.phase = phase, !.sent = sent,
                                     !.answer = answer, !.passes = passes]
         PROVE  ConnSound'
    <3>1. /\ IsConn(conn') /\ conn'.phase = phase /\ conn'.request = r
          /\ conn'.sent = sent /\ conn'.answer = answer /\ conn'.passes = passes
      BY <2>2, <2>5, <2>14 DEF ConnSound, IsConn
    <3>2. /\ r \in ctl'.tracked => ~Ended(turns'[r]) /\ sent = log'[r]
          /\ r \notin ctl'.tracked => SentWhole(turns'[r], sent)
          /\ over => r \notin ctl'.tracked
      BY <2>7, <2>8, <2>14
    <3>3. CallSound' /\ RequestSound'
      BY <2>5, <2>8, <2>14, <3>1, <3>2
         DEF CallSound, Waits, LoopOf, RequestSound, Free
    <3>4. ~over => Streaming'
      BY <2>9, <2>11, <2>14, <3>1, <3>2 DEF Streaming
    <3>5. SentSound'
      BY <2>9, <2>14, <3>1, <3>2, <3>4 DEF SentSound, At, Free, AnswerIsWhole
    <3> QED BY <2>14, <3>1, <3>3, <3>5 DEF ConnSound, Phases
  <2>15. CASE \E k \in 0..Len(lines) - 1 :
                conn' = [conn EXCEPT !.phase = "gone",
                                     !.sent = conn.sent \o SubSeq(lines, 1, k),
                                     !.passes = passes]
    BY <2>12, <2>15
  <2>16. CASE /\ ends
              /\ conn' = [conn EXCEPT !.phase = "idle",
                                      !.sent = conn.sent \o Front(lines),
                                      !.answer = 500, !.passes = passes]
    BY <2>13, <2>16
  <2>17. CASE conn' = [conn EXCEPT
                         !.phase = IF ends /\ LiveCount(x) = 0
                                   THEN "idle" ELSE "stream",
                         !.sent = conn.sent \o lines,
                         !.answer = IF ends /\ LiveCount(x) = 0 THEN 200 ELSE 0,
                         !.passes = passes]
    <3>1. PICK over \in BOOLEAN : over = (ends /\ LiveCount(x) = 0)
      OBVIOUS
    <3>2. PICK sent : sent = conn.sent \o lines
      OBVIOUS
    <3>3. conn' = [conn EXCEPT !.phase = IF over THEN "idle" ELSE "stream",
                               !.sent = sent,
                               !.answer = IF over THEN 200 ELSE 0,
                               !.passes = passes]
      BY <2>17, <3>1, <3>2
    <3> QED BY <2>14, <3>1, <3>2, <3>3
  <2> QED BY <2>1, <2>3, <2>4, <2>9, <2>15, <2>16, <2>17
<1> QED BY <1>1, <1>2

(* The tokens of a stream are numbered from 1, without a gap; a terminal   *)
(* line is the last one, and says how many they were.                      *)
LEMMA PartReads ==
  ASSUME NEW sent, SentPart(sent)
  PROVE  \A i \in 1..Len(sent) :
           /\ sent[i][1] = "token" => sent[i][2] = i
           /\ sent[i][1] = "end" => i = Len(sent)
PROOF
<1>1. PICK n \in 0..Len(sent) : sent = Tokens(n)
  BY DEF SentPart
<1>2. CASE n \in Nat
  <2>1. Len(sent) = n
    BY <1>1, <1>2, TokensArePart
  <2>2. \A i \in 1..n : sent[i] = <<"token", i>>
    BY <1>1 DEF Tokens
  <2> QED BY <2>1, <2>2
<1> QED BY <1>1, <1>2

(* All lines of a request that is over.                                    *)
LEMMA WholeReads ==
  ASSUME NEW t, SoundTurn(t), NEW sent, SentWhole(t, sent)
  PROVE  /\ \A i \in 1..Len(sent) :
              /\ sent[i][1] = "token" => sent[i][2] = i
              /\ sent[i][1] = "end" => i = Len(sent)
         /\ sent # <<>> /\ Last(sent)[1] = "end"
         /\ Last(sent)[4] = Len(sent) - 1
         /\ Last(sent)[2] = t.status
PROOF
<1>1. PICK b \in BOOLEAN :
        sent = Append(Tokens(t.committed), <<"end", t.status, b, t.committed>>)
  BY DEF SentWhole
<1>2. PICK n \in Nat : n = t.committed
  BY DEF SoundTurn, TurnRecord
<1>3. PICK z : z = <<"end", t.status, b, n>>
  OBVIOUS
<1>4. z[1] = "end" /\ z[2] = t.status /\ z[4] = n
  BY <1>3
<1> DEFINE S == {<<"token", i>> : i \in Nat} \cup {z}
<1>5. Tokens(n) \in [1..n -> S] /\ z \in S /\ \A i \in 1..n : Tokens(n)[i] = <<"token", i>>
  BY DEF Tokens
<1> HIDE DEF S
<1>6. Tokens(n) \in Seq(S) /\ Len(Tokens(n)) = n
  BY <1>5
<1>7. sent = Append(Tokens(n), z)
  BY <1>1, <1>2, <1>3
<1>8. /\ sent \in Seq(S) /\ Len(sent) = n + 1 /\ sent[n + 1] = z
      /\ \A i \in 1..n : sent[i] = <<"token", i>>
  BY <1>5, <1>6, <1>7, AppendProperties
<1>9. sent # <<>> /\ Last(sent) = z
  BY <1>8 DEF Last
<1>10. ASSUME NEW i \in 1..n + 1
       PROVE  /\ sent[i][1] = "token" => sent[i][2] = i
              /\ sent[i][1] = "end" => i = n + 1
  <2>1. CASE i = n + 1
    BY <1>4, <1>8, <2>1
  <2>2. CASE i \in 1..n
    BY <1>8, <2>2
  <2> QED BY <1>2, <2>1, <2>2
<1> QED BY <1>2, <1>4, <1>8, <1>9, <1>10

(* What a streaming client has so far.                                     *)
LEMMA StreamingReads ==
  ASSUME Sound(World), ConnSound, conn.phase = "stream"
  PROVE  \/ /\ conn.request \in DOMAIN turns
            /\ SentWhole(turns[conn.request], conn.sent)
         \/ SentPart(conn.sent) /\ conn.answer # 200
PROOF
<1>1. conn.request \in DOMAIN turns /\ Streaming
  BY DEF ConnSound, RequestSound, SentSound, At, Free
<1>2. CASE conn.request \in ctl.tracked
  <2>1. PICK e \in Nat : e = ctl.emitted[conn.request]
    BY <1>2, WorldFields DEF Sound
  <2>2. conn.sent = Tokens(e) /\ conn.answer = 0
    BY <1>1, <1>2, <2>1, WorldFields DEF Streaming, Sound, LogExact
  <2> QED BY <2>2, TokensArePart
<1>3. CASE conn.request \notin ctl.tracked
  BY <1>1, <1>3 DEF Streaming
<1> QED BY <1>2, <1>3

-----------------------------------------------------------------------------
(* Every step of the server keeps the invariant.                           *)
LEMMA HNextSafe ==
  ASSUME HSafe, [HNext]_hvars
  PROVE  HSafe'
PROOF
<1>1. Safe' /\ Kept /\ Safe
  <2>1. Safe /\ [Next]_vars
    BY HandlerCalls DEF HSafe
  <2> QED BY <2>1, NextSafe
<1>2. SUFFICES ConnSound' /\ BudgetsFit'
  BY <1>1 DEF HSafe
<1>3. next_request' = next_request => DOMAIN turns' = DOMAIN turns /\ BudgetsFit'
  <2> SUFFICES ASSUME next_request' = next_request
               PROVE  DOMAIN turns' = DOMAIN turns /\ BudgetsFit'
    OBVIOUS
  <2>1. DOMAIN turns' = DOMAIN turns
    BY <1>1, SameRequests
  <2> QED BY <1>1, <2>1, BudgetsKept
<1>4. CASE UNCHANGED hvars
  <2>1. UNCHANGED <<conn, sessions, turns, ctl, loop, log, dropped>>
        /\ next_request' = next_request
    BY <1>4 DEF hvars, vars
  <2> QED BY <1>3, <2>1, StillSound
<1>5. CASE HNext
  <2>1. config' = config
    BY <1>5 DEF HNext
  <2>2. CASE Tick /\ UNCHANGED conn
    <3>1. UNCHANGED <<conn, sessions, turns, ctl, loop, log, dropped>>
          /\ next_request' = next_request
      BY <2>2 DEF Tick
    <3> QED BY <1>3, <3>1, StillSound
  <2>3. CASE \/ PostSession
             \/ \E s \in sessions : DeleteSession(s) \/ PostReset(s)
    <3>1. conn' = Closed /\ loop' = loop /\ loop.kind = "none"
          /\ next_request' = next_request
      BY <2>3 DEF PostSession, DeleteSession, PostReset, CreateSession,
           DestroySession, ResetSession, Idle, Keep
    <3> QED BY <1>1, <1>3, <3>1, ClosedSound
  <2>4. CASE \E s \in sessions, n \in Inputs, m \in Limits, d \in Deadlines,
                phase \in {"admitted", "header"} : PostTurn(s, n, m, d, phase)
    BY <2>1, <2>4, PostTurnSound
  <2>5. CASE OtherUser
    BY <2>1, <2>5, OtherUserSound
  <2>6. CASE DriveTurn
    <3>1. next_request' = next_request
      BY <2>6 DEF DriveTurn, Begin
    <3> QED BY <1>3, <2>6, <3>1, DriveTurnSound
  <2>7. CASE AnswerTurn \/ WriteHeader \/ CleanupDone
    <3>1. next_request' = next_request
      BY <2>7 DEF AnswerTurn, WriteHeader, CleanupDone, vars
    <3> QED BY <1>3, <2>7, <3>1, AnswerTurnSound, WriteHeaderSound,
              CleanupDoneSound
  <2>8. CASE StreamPass
    <3>1. next_request' = next_request
      BY <2>8 DEF StreamPass, vars
    <3> QED BY <1>1, <1>3, <2>8, <3>1, StreamPassSound
  <2>9. CASE CleanupCancel
    <3>1. next_request' = next_request
      BY <2>9 DEF CleanupCancel, Cancel, vars
    <3> QED BY <1>3, <2>9, <3>1, CleanupCancelSound
  <2>10. CASE CleanupRun
    <3>1. next_request' = next_request
      BY <2>10 DEF CleanupRun, Begin
    <3> QED BY <1>3, <2>10, <3>1, CleanupRunSound
  <2>11. CASE Pass /\ UNCHANGED conn
    <3>1. next_request' = next_request
      BY <2>11 DEF Pass
    <3> QED BY <1>3, <2>1, <2>11, <3>1, PassSound
  <2> QED BY <1>4, <1>5, <2>2, <2>3, <2>4, <2>5, <2>6, <2>7, <2>8, <2>9,
             <2>10, <2>11 DEF HNext, Handler
<1> QED BY <1>4, <1>5

(* The server starts without sessions, and without a connection.           *)
LEMMA HInitSafe ==
  ASSUME HInit
  PROVE  HSafe
PROOF
<1>1. Safe
  BY InitSafe DEF HInit
<1>2. /\ conn.phase = "idle" /\ conn.request = 0 /\ conn.sent = <<>>
      /\ conn.answer = 0 /\ conn.passes = 0 /\ IsConn(conn)
  BY DEF HInit, Closed, IsConn
<1>3. DOMAIN turns = {} /\ ctl.tracked = {} /\ loop.kind = "none"
  BY DEF HInit, Init
<1>4. CallSound /\ RequestSound
  BY <1>2, <1>3 DEF CallSound, Waits, LoopOf, RequestSound, Free
<1>5. SentSound
  BY <1>2 DEF SentSound, At, Free, AnswerIsWhole
<1> QED BY <1>1, <1>2, <1>3, <1>4, <1>5 DEF HSafe, ConnSound, Phases, BudgetsFit

(* The invariant of the server holds in every state.                       *)
THEOREM HttpIsSafe == HSpec => []HSafe
PROOF
<1>1. HInit => HSafe
  BY HInitSafe
<1>2. HSafe /\ [HNext]_hvars => HSafe'
  BY HNextSafe
<1> QED BY <1>1, <1>2, PTL DEF HSpec

(* Every behaviour of the server is one of the controller: what is proved  *)
(* of the controller under any caller holds under the handler, its clients *)
(* and whoever else uses it.                                               *)
THEOREM HttpUsesController == HSpec => Spec
PROOF
<1>1. HInit => Init
  BY DEF HInit
<1>2. HSafe /\ [HNext]_hvars => [Next]_vars
  BY HandlerCalls
<1> QED BY <1>1, <1>2, HttpIsSafe, PTL DEF HSpec, Spec

(* Whatever the client does, when a connection is over its request is not  *)
(* tracked any more: nothing of it is left to drive, to drain or to        *)
(* protect its session from eviction.                                      *)
THEOREM HttpLeavesNothing == HSpec => []NothingLeftBehind
PROOF
<1>1. HSafe => NothingLeftBehind
  BY DEF HSafe, ConnSound, RequestSound, NothingLeftBehind
<1> QED BY <1>1, HttpIsSafe, PTL

(* The client is told of its own request and of all of it: a stream is a   *)
(* prefix of the request's events, and all of them when it is answered as  *)
(* complete; a synchronous answer has all tokens and the status that the   *)
(* request ended with.                                                     *)
THEOREM HttpAnswersOwn == HSpec => []AnswersAreOwn
PROOF
<1>1. ASSUME HSafe PROVE AnswersAreOwn
  <2>1. ConnSound /\ AnswerIsWhole /\ Sound(World)
    BY <1>1 DEF HSafe, Safe, ConnSound, SentSound
  <2>2. PICK lines : lines = conn.sent
    OBVIOUS
  <2>3. PICK t : t = turns[conn.request]
    OBVIOUS
  <2>4. conn.request \in DOMAIN turns => SoundTurn(t)
    BY <2>1, <2>3, WorldFields DEF Sound
  <2>5. conn.phase \in {"stream", "gone"} \/ conn.passes > 0 =>
          \/ conn.request \in DOMAIN turns /\ SentWhole(t, lines)
          \/ SentPart(lines) /\ conn.answer # 200
    <3>1. CASE conn.phase = "stream"
      BY <2>1, <2>2, <2>3, <3>1, StreamingReads
    <3>2. CASE conn.phase \in {"gone", "cancelled", "cleaning"}
      BY <2>1, <2>2, <3>2 DEF ConnSound, SentSound
    <3>3. CASE conn.phase \in {"admitted", "driving", "header"}
      BY <2>1, <3>3 DEF ConnSound, SentSound
    <3>4. CASE conn.phase = "idle"
      BY <2>1, <2>2, <2>3, <3>4 DEF ConnSound, SentSound, RequestSound, Free
    <3> QED BY <2>1, <3>1, <3>2, <3>3, <3>4 DEF ConnSound, Phases
  <2>6. StreamIsOwn
    <3>1. ASSUME conn.phase \in {"stream", "gone"} \/ conn.passes > 0
          PROVE  /\ \A i \in 1..Len(lines) :
                      /\ lines[i][1] = "token" => lines[i][2] = i
                      /\ lines[i][1] = "end" => i = Len(lines)
                 /\ conn.answer = 200 =>
                      /\ lines # <<>> /\ Last(lines)[1] = "end"
                      /\ Last(lines)[4] = Len(lines) - 1
                      /\ Last(lines)[2] = t.status
      <4>1. CASE conn.request \in DOMAIN turns /\ SentWhole(t, lines)
        BY <2>4, <4>1, WholeReads
      <4>2. CASE SentPart(lines) /\ conn.answer # 200
        BY <4>2, PartReads
      <4> QED BY <2>5, <3>1, <4>1, <4>2
    <3> QED BY <2>2, <2>3, <3>1 DEF StreamIsOwn
  <2> QED BY <2>1, <2>6 DEF AnswersAreOwn
<1> QED BY <1>1, HttpIsSafe, PTL
=============================================================================
