-------------------------- MODULE ServingController --------------------------
(***************************************************************************)
(* The serving controller: session and request quotas, deadlines, the      *)
(* drain of committed tokens, and eviction of idle sessions, over the      *)
(* session manager and the scheduler's turns.                              *)
(*                                                                         *)
(* The controller is called from one thread; a call is one action, and     *)
(* run() and run_stream() are one action per iteration, since the clock    *)
(* goes on between two of them.                                            *)
(***************************************************************************)
EXTENDS Integers, FiniteSets, Functions, Sequences, SequencesExt

CONSTANTS
  Configs,             \* what a controller is constructed with, and bounds
  Unlimited, NoTtl     \* a quota of -1, an idle_ttl of nullopt

VARIABLE
  config               \* one of Configs, fixed at construction

Slots == config.slots                \* sequences the state manager has room for
MaxSessions == config.sessions       \* limits_.max_sessions
MaxLive == config.live               \* limits_.max_live_requests
Ttl == config.ttl                    \* policy_.idle_ttl
LruOnPressure == config.lru          \* policy_.lru_on_session_pressure
MaxSessionId == config.creations     \* bounds of creations, admissions, time
MaxRequests == config.admissions
MaxTime == config.time
Unmanaged == config.unmanaged        \* sessions are created elsewhere, too
Inputs == config.inputs              \* the arguments of turns in use
Limits == config.limits
Deadlines == config.deadlines

NoDeadline == MaxTime + 1

ASSUME ServingAssumption ==
  \A c \in Configs :
    /\ {c.slots, c.creations, c.admissions, c.time} \subseteq Nat
    /\ {c.sessions, c.live} \subseteq Nat \cup {Unlimited}
    /\ c.ttl \in Nat \cup {NoTtl} /\ {c.lru, c.unmanaged} \subseteq BOOLEAN
    /\ c.inputs \subseteq Nat \ {0} /\ c.limits \subseteq Nat
    /\ c.deadlines \subseteq 0..c.time + 1

VARIABLES
  sessions, next_session,  \* the session manager's
  turns, next_request,     \* the scheduler's
  ctl,                     \* the controller's own bookkeeping
  now,                     \* its clock
  loop,                    \* run() or run_stream(): iteration and bound
  fatal,                   \* a precondition failed: the process aborts
  log, dropped, used       \* history: events got, requests whose events
                           \* run() dropped, a session's last sign of life

vars == <<config, sessions, next_session, turns, next_request, ctl, now, loop,
          fatal, log, dropped, used>>

TurnsView == INSTANCE Turns
Ended(t) == TurnsView!Ended(t)

(* f with a value of k.                                                    *)
With(f, k, v) == [x \in DOMAIN f \cup {k} |-> IF x = k THEN v ELSE f[x]]

-----------------------------------------------------------------------------
(* A call works on a world, the state its steps change.                    *)
World == [sessions |-> sessions, turns |-> turns, ctl |-> ctl, log |-> log,
          dropped |-> dropped]

(* A session shows a sign of life when it is new or one of its turns       *)
(* changes.                                                                *)
Touched(s, w) ==
  \/ s \notin sessions
  \/ \E id \in DOMAIN w.turns :
       /\ w.turns[id].session = s
       /\ id \in DOMAIN turns => w.turns[id] # turns[id]

Becomes(w) == /\ sessions' = w.sessions
              /\ turns' = w.turns
              /\ ctl' = w.ctl
              /\ log' = w.log
              /\ dropped' = w.dropped
              /\ used' = [s \in w.sessions |->
                            IF Touched(s, w) THEN now ELSE used[s]]

Live(w) == TurnsView!LiveTurns(w.turns)
Busy(w, s) == \E id \in Live(w) : w.turns[id].session = s

(* live_request_count: of the requests admitted here.                      *)
LiveCount(w) == Cardinality(w.ctl.tracked \cap Live(w))

(* Only sessions created here have an entry.                               *)
Refreshed(w, ss) ==
  [w EXCEPT !.ctl.activity = [s \in DOMAIN @ |-> IF s \in ss THEN now
                                                 ELSE @[s]]]

Remember(w, ids) == [w EXCEPT !.ctl.terminal_pending = @ \cup ids]
TrackedEnded(w) == {id \in w.ctl.tracked : Ended(w.turns[id])}

(* All bookkeeping of the requests that are fully drained goes.            *)
Forget(c, ids) ==
  [c EXCEPT !.tracked = @ \ ids,
            !.terminal_pending = @ \ ids,
            !.deadline_cancelled = @ \ ids,
            !.emitted = Restrict(@, DOMAIN @ \ ids),
            !.deadline = Restrict(@, DOMAIN @ \ ids)]

EventsOf(w, id) ==
  LET t == w.turns[id]
      tokens == [i \in 1..t.committed - w.ctl.emitted[id] |->
                   <<"token", w.ctl.emitted[id] + i>>]
  IN  IF Ended(t)
      THEN Append(tokens, <<"end", t.status, id \in w.ctl.deadline_cancelled>>)
      ELSE tokens

(* The events of the requests ids go to the output.                        *)
Logged(w, ids) ==
  [w EXCEPT !.log = [id \in DOMAIN @ |-> IF id \in ids THEN @[id] \o EventsOf(w, id)
                                         ELSE @[id]]]

EndedOf(w, ids) == {id \in ids : Ended(w.turns[id])}

(* Mutant of Drained: the cursor moves only when there is an output.       *)
DrainedKeepingCursor(w, ids, visible) ==
  IF visible THEN [Logged(w, ids) EXCEPT !.ctl = Forget(@, EndedOf(w, ids))]
  ELSE w

(* drain_ of each of the requests ids: what is committed and not yet       *)
(* emitted, then the terminal event and the reap of a request that has     *)
(* ended.  Without an output the events are consumed and go nowhere.  They *)
(* are drained in admission order, which shows in no request's events.     *)
Drained(w, ids, visible) ==
  LET got == IF visible THEN Logged(w, ids)
             ELSE [w EXCEPT !.dropped = @ \cup EndedOf(w, ids)]
      moved == [got EXCEPT
                  !.ctl.emitted = [id \in DOMAIN @ |->
                     IF id \in ids THEN w.turns[id].committed ELSE @[id]]]
  IN  [moved EXCEPT !.ctl = Forget(@, EndedOf(w, ids))]

(* Mutant of Expired: a request cancelled by its deadline is no activity.  *)
ExpiredUnrefreshed(w) ==
  LET due == {id \in w.ctl.tracked \cap Live(w) : now >= w.ctl.deadline[id]}
  IN  [w EXCEPT
         !.turns = [id \in DOMAIN @ |->
             IF id \in due THEN TurnsView!End(@[id], "Cancelled") ELSE @[id]],
         !.ctl.deadline_cancelled = @ \cup due]

(* check_deadlines_: what is due is cancelled before its next forward.     *)
Expired(w) ==
  LET due == {id \in w.ctl.tracked \cap Live(w) :
                /\ w.ctl.deadline[id] # NoDeadline
                /\ now >= w.ctl.deadline[id]}
      cancelled == [w EXCEPT
         !.turns = [id \in DOMAIN @ |->
             IF id \in due THEN TurnsView!End(@[id], "Cancelled") ELSE @[id]],
         !.ctl.deadline_cancelled = @ \cup due]
  IN  Refreshed(cancelled, {w.turns[id].session : id \in due})

(* Mutant of StepResults: a turn that fails is left as it is.              *)
StepResultsRetrying(w) ==
  LET outcomes(id) == {IF t.status = "Failed" THEN w.turns[id] ELSE t :
                         t \in TurnsView!Outcomes(w.turns[id], w.sessions)}
      ends == {f \in [Live(w) -> UNION {outcomes(id) : id \in Live(w)}] :
                 \A id \in Live(w) : f[id] \in outcomes(id)}
  IN  {[w EXCEPT !.turns = [id \in DOMAIN @ |-> IF id \in Live(w) THEN f[id]
                                            ELSE @[id]]] : f \in ends}

(* The results of one scheduler step: every live turn advances.            *)
StepResults(w) ==
  LET outcomes(id) == TurnsView!Outcomes(w.turns[id], w.sessions)
      ends == {f \in [Live(w) -> UNION {outcomes(id) : id \in Live(w)}] :
                 \A id \in Live(w) : f[id] \in outcomes(id)}
  IN  {[w EXCEPT !.turns = [id \in DOMAIN @ |-> IF id \in Live(w) THEN f[id]
                                            ELSE @[id]]] : f \in ends}

(* Mutant of StepDrive: the deadlines are looked at after the step.        *)
StepDriveLate(w, drain) ==
  LET driven == Refreshed(w, {w.turns[id].session :
                                id \in w.ctl.tracked \cap Live(w)})
      ended(x) == Remember(x, TrackedEnded(x))
  IN  {IF drain THEN Drained(ended(Expired(x)), x.ctl.tracked, TRUE)
       ELSE ended(Expired(x)) : x \in StepResults(driven)}

(* step_drive_: deadlines, activity of what is driven, the step, the ended *)
(* requests remembered, and the drain when there is an output.             *)
StepDrive(w, drain) ==
  LET due == Expired(w)
      driven == Refreshed(due, {due.turns[id].session :
                                  id \in due.ctl.tracked \cap Live(due)})
      ended(x) == Remember(x, TrackedEnded(x))
  IN  {IF drain THEN Drained(ended(x), x.ctl.tracked, TRUE) ELSE ended(x) :
         x \in StepResults(driven)}

(* Mutant of Eligible: undelivered events do not protect.                  *)
EligibleUndrained(w, s) == /\ s \in DOMAIN w.ctl.activity
                           /\ s \in w.sessions
                           /\ ~Busy(w, s)

(* is_eviction_eligible                                                    *)
Eligible(w, s) ==
  /\ s \in DOMAIN w.ctl.activity
  /\ s \in w.sessions
  /\ ~Busy(w, s)
  /\ \A id \in TrackedEnded(w) : w.turns[id].session # s

Evicted(w, ss) ==
  [w EXCEPT !.sessions = @ \ ss,
            !.ctl.activity = Restrict(@, DOMAIN @ \ ss)]

(* evict_expired_sessions                                                  *)
Swept(w) ==
  IF Ttl = NoTtl THEN w
  ELSE Evicted(w, {s \in w.sessions : /\ Eligible(w, s)
                                      /\ now - w.ctl.activity[s] >= Ttl})

(* evict_one_lru_idle: oldest activity, then smallest id.                  *)
LruEvicted(w) ==
  LET before(s, t) == \/ w.ctl.activity[s] < w.ctl.activity[t]
                      \/ w.ctl.activity[s] = w.ctl.activity[t] /\ s <= t
      candidates == {s \in w.sessions : Eligible(w, s)}
  IN  Evicted(w, {s \in candidates : \A t \in candidates : before(s, t)})
-----------------------------------------------------------------------------
Init == /\ config \in Configs
        /\ sessions = {} /\ next_session = 1
        /\ turns = <<>> /\ next_request = 1
        /\ ctl = [tracked |-> {}, emitted |-> <<>>, terminal_pending |-> {},
                  deadline |-> <<>>, deadline_cancelled |-> {},
                  activity |-> <<>>]
        /\ now = 0
        /\ loop = [kind |-> "none", i |-> 0, bound |-> 0]
        /\ fatal = FALSE
        /\ log = <<>> /\ dropped = {} /\ used = <<>>

Idle == loop.kind = "none" /\ ~fatal

Keep == UNCHANGED <<now, loop, fatal>>

(* Time passes, also while a call is in progress.                          *)
Tick == /\ now < MaxTime /\ ~fatal
        /\ now' = now + 1
        /\ UNCHANGED <<sessions, next_session, turns, next_request, ctl, loop,
                       fatal, log, dropped, used>>

(* Mutant of MakesRoom: sessions are evicted over the limit, too.          *)
MakesRoomOverLimit(w) ==
  LruOnPressure /\ MaxSessions # 0 /\ Cardinality(w.sessions) >= MaxSessions

MakesRoom(w) ==
  LruOnPressure /\ MaxSessions # 0 /\ Cardinality(w.sessions) = MaxSessions

(* The sweep, one eviction under pressure, the quota, and the manager's    *)
(* own room; what was evicted stays evicted when the creation fails.       *)
CreateSession ==
  /\ Idle
  /\ LET swept == Swept(World)
         w == IF MakesRoom(swept) THEN LruEvicted(swept) ELSE swept
         room == /\ MaxSessions # Unlimited =>
                      Cardinality(w.sessions) < MaxSessions
                 /\ Cardinality(w.sessions) < Slots
     IN  IF room
         THEN /\ next_session <= MaxSessionId
              /\ Becomes([w EXCEPT
                   !.sessions = @ \cup {next_session},
                   !.ctl.activity = With(@, next_session, now)])
              /\ next_session' = next_session + 1
         ELSE Becomes(w) /\ UNCHANGED next_session
  /\ UNCHANGED next_request /\ Keep

(* A session that is not created through the controller.                   *)
CreateUnmanaged ==
  /\ Idle /\ Unmanaged
  /\ next_session <= MaxSessionId /\ Cardinality(sessions) < Slots
  /\ Becomes([World EXCEPT !.sessions = @ \cup {next_session}])
  /\ next_session' = next_session + 1
  /\ UNCHANGED next_request /\ Keep

(* The request quota, then the scheduler's own preflight; the gates on the *)
(* context refuse without a trace.                                         *)
AdmitTurn(s, n, m, d) ==
  /\ Idle
  /\ next_request <= MaxRequests
  /\ MaxLive # Unlimited => LiveCount(World) < MaxLive
  /\ s \in sessions /\ ~Busy(World, s)
  /\ LET id == next_request
     IN  Becomes(Refreshed(
           [World EXCEPT
              !.turns = With(@, id, TurnsView!NewTurn(s, n, m)),
              !.ctl.tracked = @ \cup {id},
              !.ctl.emitted = With(@, id, 0),
              !.ctl.deadline = With(@, id, d),
              !.log = With(@, id, <<>>)], {s}))
  /\ next_request' = next_request + 1
  /\ UNCHANGED next_session /\ Keep

(* The turns of a session that is reset or destroyed go on.                *)
ResetSession(s) == /\ Idle
                   /\ Becomes(Refreshed(World, {s}))
                   /\ UNCHANGED <<next_session, next_request>> /\ Keep

DestroySession(s) == /\ Idle
                     /\ Becomes(Evicted(World, {s}))
                     /\ UNCHANGED <<next_session, next_request>> /\ Keep

(* Mutant of CancelTurn: only the scheduler is told.                       *)
CancelTurnForwarding(w, id) ==
  LET t == w.turns[id]
  IN  Refreshed([w EXCEPT !.turns[id] =
                    IF Ended(t) THEN t ELSE TurnsView!End(t, "Cancelled")],
                {t.session})

(* What has ended stays as it is; a tracked request becomes drainable.     *)
CancelTurn(w, id) ==
  LET t == w.turns[id]
      told == [w EXCEPT !.turns[id] = IF Ended(t) THEN t
                                      ELSE TurnsView!End(t, "Cancelled")]
  IN  Remember(Refreshed(told, {t.session}), {id} \cap w.ctl.tracked)

Cancel(id) == /\ Idle
              /\ Becomes(CancelTurn(World, id))
              /\ UNCHANGED <<next_session, next_request>> /\ Keep

(* step() and step_stream()                                                *)
Step(drain) == /\ Idle
               /\ \E w \in StepDrive(World, drain) : Becomes(w)
               /\ UNCHANGED <<next_session, next_request>> /\ Keep

Poll(id) == /\ Idle
            /\ id \in ctl.tracked
            /\ Becomes(Drained(World, {id}, TRUE))
            /\ UNCHANGED <<next_session, next_request>> /\ Keep

(* evict_expired_sessions and evict_one_lru_idle, called on their own      *)
EvictExpired == /\ Idle
                /\ Becomes(Swept(World))
                /\ UNCHANGED <<next_session, next_request>> /\ Keep

EvictLru == /\ Idle
            /\ Becomes(LruEvicted(World))
            /\ UNCHANGED <<next_session, next_request>> /\ Keep

(* run_bound: the forwards the live requests need in all                   *)
Begin(kind) ==
  /\ Idle
  /\ loop' = [kind |-> kind, i |-> 0,
              bound |-> SumFunctionOnSet([id \in DOMAIN turns |->
                                            turns[id].prompt + turns[id].max_new],
                                         ctl.tracked \cap Live(World))]
  /\ UNCHANGED <<sessions, next_session, turns, next_request, ctl, now, fatal,
                 log, dropped, used>>

Returned == [kind |-> "none", i |-> 0, bound |-> 0]

(* Mutant of Diverges: the bound leaves out the pass that only drains.     *)
DivergesEarly == loop.i + 1 > loop.bound

Diverges == loop.i > loop.bound + Cardinality(ctl.tracked) + 1

(* One iteration: what is pending is drained, and a step is made if a      *)
(* request is live.  run() drops what it drains and drains no step.        *)
Pass ==
  /\ loop.kind # "none" /\ ~fatal
  /\ UNCHANGED <<next_session, next_request, now>>
  /\ LET visible == loop.kind = "run_stream"
         w == Drained(World, ctl.terminal_pending, visible)
         quiet == LiveCount(World) = 0
     IN  \/ /\ quiet /\ (ctl.terminal_pending = {} \/ ~Diverges)
            /\ Becomes(w) /\ loop' = Returned /\ UNCHANGED fatal
         \/ /\ ~quiet /\ ~Diverges
            /\ \E x \in StepDrive(w, visible) : Becomes(x)
            /\ loop' = [loop EXCEPT !.i = @ + 1] /\ UNCHANGED fatal
         \/ /\ ~(quiet /\ ctl.terminal_pending = {}) /\ Diverges
            /\ fatal' = TRUE /\ Becomes(World) /\ UNCHANGED loop

(* A refused call returns an error; an aborted process does nothing.       *)
Refused == (loop.kind = "none" \/ fatal) /\ UNCHANGED vars

Next ==
  /\ UNCHANGED config
  /\ \/ Tick
     \/ CreateSession \/ CreateUnmanaged
     \/ \E s \in sessions :
          \/ \E n \in Inputs, m \in Limits, d \in Deadlines :
               AdmitTurn(s, n, m, d)
          \/ ResetSession(s) \/ DestroySession(s)
     \/ \E id \in DOMAIN turns : Cancel(id) \/ Poll(id)
     \/ \E drain \in BOOLEAN : Step(drain)
     \/ EvictExpired \/ EvictLru
     \/ \E kind \in {"run", "run_stream"} : Begin(kind)
     \/ Pass
     \/ Refused

Spec == Init /\ [][Next]_vars

-----------------------------------------------------------------------------
(* No request is forgotten before its last event is consumed, whichever of *)
(* a step, a deadline or a cancel ends it: the live ones are counted by    *)
(* the quota, and the ended ones are where run_stream looks for them, so   *)
(* their session is protected and their events are not lost.  None stays   *)
(* behind afterwards.                                                      *)
NothingForgotten ==
  LET consumed == {id \in DOMAIN turns :
                     \/ id \in dropped
                     \/ log[id] # <<>> /\ Last(log[id])[1] = "end"}
  IN  /\ ctl.tracked = DOMAIN turns \ consumed
      /\ ctl.terminal_pending = TrackedEnded(World)
      /\ ctl.deadline_cancelled \subseteq ctl.terminal_pending

(* run() and run_stream() come to quiescence within their bound, whatever  *)
(* fails, expires or is cancelled: the process does not abort.             *)
Converges == ~fatal

(* The events of each request, over any mix of poll, step_stream,          *)
(* run_stream, run, cancels and deadlines, are those EventStream promises. *)
E == INSTANCE EventStream WITH
       committed <- [id \in DOMAIN turns |-> turns[id].committed],
       ended <- [id \in DOMAIN turns |->
                   IF Ended(turns[id]) THEN turns[id].status ELSE "no"]
ImplementsStream == E!Spec

Removed == sessions \ sessions'

(* A session that is evicted, by a sweep, under pressure or by a creation  *)
(* (which may then fail), was made here, has no live turn and none with    *)
(* events nobody has consumed: what its owner alone may destroy.           *)
EvictionSafe ==
  [][CreateSession \/ EvictExpired \/ EvictLru =>
       \A s \in Removed :
         /\ s \in DOMAIN ctl.activity
         /\ \A id \in ctl.tracked : turns[id].session # s]_vars

(* No session is given up for nothing: one that has not expired goes only  *)
(* when the creation that asked for its place succeeds in the same call.   *)
EvictionPays ==
  [][(/\ Removed # {} /\ CreateSession
      /\ \E s \in Removed : Ttl = NoTtl \/ now - ctl.activity[s] < Ttl)
       => next_session' = next_session + 1]_vars

(* A session expires only when none of its turns was admitted, forwarded,  *)
(* cancelled or ended for the whole TTL, by whichever call.                *)
IdleForTtl ==
  [][(/\ Removed # {}
      /\ EvictExpired \/ (CreateSession /\ ~MakesRoom(Swept(World)))) =>
       \A s \in Removed : now - used[s] >= Ttl]_vars

(* Once a request's deadline has passed it forwards and commits nothing.   *)
DeadlineStops ==
  [][\A id \in ctl.tracked :
       now >= ctl.deadline[id] /\ ctl.deadline[id] # NoDeadline =>
         /\ turns'[id].left = turns[id].left
         /\ turns'[id].committed = turns[id].committed]_vars

=============================================================================
