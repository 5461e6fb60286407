---------------------------- MODULE ServingProofs -----------------------------
(***************************************************************************)
(* The safety of the serving controller, for every quota, TTL, deadline    *)
(* and number of sessions, requests and ticks.  First the worlds that a    *)
(* call of the controller goes through, one operation after the other:     *)
(* what keeps a world sound, what only takes away from it, and what no     *)
(* operation forgets.  Then the calls, put together from these.            *)
(***************************************************************************)
EXTENDS ServingController, FiniteSetTheorems, SequenceTheorems, Summation,
        TLAPS

--------------------------------------------------------------------------------
(* The worlds.                                                             *)

Statuses == {"Live", "Finished", "Cancelled", "Failed"}

TurnRecord == [session : Nat, prompt : Nat, left : Nat, max_new : Nat,
               committed : Nat, status : Statuses]

(* The forwards a turn has made, and may make in all.                      *)
Forwards(t) == t.prompt - t.left + t.committed
Budget(t) == t.prompt + t.max_new

(* A live turn has a forward left; nothing is committed before the last    *)
(* input is in.                                                            *)
SoundTurn(t) == /\ t \in TurnRecord
                /\ t.left <= t.prompt /\ t.committed <= t.max_new
                /\ t.left > 0 => t.committed = 0
                /\ ~Ended(t) => t.left > 0 \/ t.committed < t.max_new

IsWorld(w) ==
  /\ w = [sessions |-> w.sessions, turns |-> w.turns, ctl |-> w.ctl,
          log |-> w.log, dropped |-> w.dropped]
  /\ w.ctl = [tracked |-> w.ctl.tracked, emitted |-> w.ctl.emitted,
              terminal_pending |-> w.ctl.terminal_pending,
              deadline |-> w.ctl.deadline,
              deadline_cancelled |-> w.ctl.deadline_cancelled,
              activity |-> w.ctl.activity]

Tokens(n) == [i \in 1..n |-> <<"token", i>>]

(* The events of an ended turn, with its terminal one.                     *)
Complete(t, got) ==
  \E exceeded \in BOOLEAN :
    /\ exceeded => t.status = "Cancelled"
    /\ got = Append(Tokens(t.committed), <<"end", t.status, exceeded>>)

(* What its caller has of a request: of a tracked one the tokens up to the *)
(* cursor, of any other everything, unless run() dropped the rest.         *)
LogExact(w, id) ==
  LET t == w.turns[id]
  IN  /\ id \in w.ctl.tracked => /\ w.log[id] = Tokens(w.ctl.emitted[id])
                                 /\ id \notin w.dropped
      /\ id \notin w.ctl.tracked =>
           /\ Ended(t)
           /\ IF id \in w.dropped
              THEN \E n \in 0..t.committed : w.log[id] = Tokens(n)
              ELSE Complete(t, w.log[id])

(* A world in the middle of a call.                                        *)
Sound(w) ==
  /\ IsWorld(w)
  /\ w.turns = [id \in DOMAIN w.turns |-> w.turns[id]]
  /\ \A id \in DOMAIN w.turns : SoundTurn(w.turns[id])
  /\ w.log = [id \in DOMAIN w.turns |-> w.log[id]]
  /\ w.ctl.tracked \subseteq DOMAIN w.turns
  /\ w.ctl.emitted \in [w.ctl.tracked -> Nat]
  /\ \A id \in w.ctl.tracked : w.ctl.emitted[id] <= w.turns[id].committed
  /\ w.ctl.deadline \in [w.ctl.tracked -> Nat]
  /\ w.ctl.terminal_pending \subseteq TrackedEnded(w)
  /\ w.ctl.deadline_cancelled \subseteq
       {id \in w.ctl.tracked : w.turns[id].status = "Cancelled"}
  /\ DOMAIN w.ctl.activity \subseteq w.sessions
  /\ w.ctl.activity \in [DOMAIN w.ctl.activity -> Nat]
  /\ w.dropped \subseteq DOMAIN w.turns
  /\ \A id \in DOMAIN w.turns : LogExact(w, id)

(* Between two calls every ended request that is tracked is remembered.    *)
Remembered(w) == w.ctl.terminal_pending = TrackedEnded(w)

(* run() and run_stream() have made no more passes than any live request   *)
(* has made forwards.                                                      *)
LoopSound ==
  /\ loop \in [kind : {"none", "run", "run_stream"}, i : Nat, bound : Nat]
  /\ loop.i <= loop.bound
  /\ loop.kind # "none" =>
       \A id \in ctl.tracked \cap Live(World) :
         /\ loop.i <= Forwards(turns[id])
         /\ Budget(turns[id]) <= loop.bound

CountersSound ==
  /\ config \in Configs
  /\ now \in Nat /\ next_session \in Nat \ {0} /\ next_request \in Nat \ {0}
  /\ sessions \subseteq 1..next_session - 1
  /\ Cardinality(sessions) <= Slots
  /\ DOMAIN turns = 1..next_request - 1

(* What the controller believes of a session is never older than its last  *)
(* sign of life.                                                           *)
ActivitySound ==
  /\ used \in [sessions -> 0..now]
  /\ \A s \in DOMAIN ctl.activity : used[s] <= ctl.activity[s]

Safe == /\ CountersSound
        /\ Sound(World)
        /\ Remembered(World)
        /\ ActivitySound
        /\ LoopSound
        /\ ~fatal

-----------------------------------------------------------------------------
(* The first n tokens, and perhaps the terminal event after them.          *)
Got(l, n) == l = Tokens(n) \/ \E e : l = Append(Tokens(n), e)

Due(w, id) == w.ctl.deadline[id] # NoDeadline /\ now >= w.ctl.deadline[id]

(* What the steps of a call may do to one request: to its turn,            *)
TurnAdvances(w, x, id) ==
  LET t == w.turns[id]
      u == x.turns[id]
  IN  /\ u.session = t.session /\ Budget(u) = Budget(t)
      /\ t.committed <= u.committed /\ Forwards(t) <= Forwards(u)
      /\ Ended(t) => u = t
      /\ id \in w.ctl.tracked /\ Due(w, id) =>
           u.left = t.left /\ u.committed = t.committed
      /\ u # t /\ t.session \in DOMAIN x.ctl.activity =>
           x.ctl.activity[t.session] = now

(* to its bookkeeping,                                                     *)
TrackingAdvances(w, x, id) ==
  id \in x.ctl.tracked => /\ id \in w.ctl.tracked
                         /\ x.ctl.deadline[id] = w.ctl.deadline[id]
                         /\ w.ctl.emitted[id] <= x.ctl.emitted[id]

(* and to the events its caller has.                                       *)
LogAdvances(w, x, id) ==
  /\ id \in w.ctl.tracked =>
       \E n \in Nat : w.ctl.emitted[id] <= n /\ Got(x.log[id], n)
  /\ id \notin w.ctl.tracked => /\ x.log[id] = w.log[id]
                                /\ id \in x.dropped <=> id \in w.dropped

(* What they may do to the world.                                          *)
Advances(w, x) ==
  /\ x.sessions = w.sessions
  /\ DOMAIN x.turns = DOMAIN w.turns
  /\ DOMAIN x.ctl.activity = DOMAIN w.ctl.activity
  /\ \A s \in DOMAIN w.ctl.activity :
       x.ctl.activity[s] \in {w.ctl.activity[s], now}
  /\ \A id \in DOMAIN w.turns : /\ TurnAdvances(w, x, id)
                                /\ TrackingAdvances(w, x, id)
                                /\ LogAdvances(w, x, id)

(* What a call does in two parts it does as a whole: turns and streams     *)
(* only advance.                                                           *)
LEMMA AdvancesTransitive ==
  ASSUME NEW w, Sound(w), NEW x, Sound(x), NEW y, Sound(y), now \in Nat,
         Advances(w, x), Advances(x, y)
  PROVE  Advances(w, y)
PROOF
<1>1. ASSUME NEW id \in DOMAIN w.turns
      PROVE  /\ TurnAdvances(w, y, id)
             /\ TrackingAdvances(w, y, id)
             /\ LogAdvances(w, y, id)
  <2>1. /\ TurnAdvances(w, x, id) /\ TurnAdvances(x, y, id)
        /\ TrackingAdvances(w, x, id) /\ TrackingAdvances(x, y, id)
        /\ LogAdvances(w, x, id) /\ LogAdvances(x, y, id)
    BY DEF Advances
  <2>2. /\ SoundTurn(w.turns[id]) /\ SoundTurn(x.turns[id]) /\ SoundTurn(y.turns[id])
        /\ DOMAIN x.turns = DOMAIN w.turns /\ LogExact(x, id)
        /\ id \in DOMAIN x.turns
    BY DEF Sound, Advances
  <2> DEFINE t == w.turns[id]
             u == x.turns[id]
             v == y.turns[id]
  <2>3. /\ v.session = t.session /\ Budget(v) = Budget(t)
        /\ t.committed <= v.committed /\ Forwards(t) <= Forwards(v)
        /\ Ended(t) => v = t
    BY <2>1, <2>2 DEF TurnAdvances, Forwards, Budget, SoundTurn, TurnRecord
  <2>4. id \in w.ctl.tracked /\ Due(w, id) =>
           v.left = t.left /\ v.committed = t.committed
    BY <2>1, <2>2 DEF TurnAdvances, TrackingAdvances, LogExact, Due
  <2>5. ASSUME v # t, t.session \in DOMAIN y.ctl.activity
        PROVE  y.ctl.activity[t.session] = now
    <3>1. u.session = t.session /\ t.session \in DOMAIN x.ctl.activity
      BY <2>1, <2>5 DEF TurnAdvances, Advances
    <3>2. CASE v # u
      BY <2>1, <2>5, <3>1, <3>2 DEF TurnAdvances
    <3>3. CASE u # t
      <4>1. x.ctl.activity[t.session] = now
        BY <2>1, <3>1, <3>3 DEF TurnAdvances
      <4> QED BY <3>1, <4>1 DEF Advances
    <3> QED BY <2>5, <3>2, <3>3
  <2>6. TurnAdvances(w, y, id)
    BY <2>3, <2>4, <2>5 DEF TurnAdvances
  <2>7. TrackingAdvances(w, y, id)
    BY <2>1 DEF TrackingAdvances, Sound
  <2>8. ASSUME id \in w.ctl.tracked
        PROVE  \E n \in Nat : w.ctl.emitted[id] <= n /\ Got(y.log[id], n)
    <3>1. CASE id \in x.ctl.tracked
      <4>1. PICK n \in Nat : x.ctl.emitted[id] <= n /\ Got(y.log[id], n)
        BY <2>1, <3>1 DEF LogAdvances
      <4>2. w.ctl.emitted[id] <= x.ctl.emitted[id]
        BY <2>1, <3>1 DEF TrackingAdvances
      <4>3. w.ctl.emitted[id] \in Nat /\ x.ctl.emitted[id] \in Nat
        BY <2>8, <3>1 DEF Sound
      <4> QED BY <4>1, <4>2, <4>3
    <3>2. CASE id \notin x.ctl.tracked
      BY <2>1, <2>8, <3>2 DEF LogAdvances
    <3> QED BY <3>1, <3>2
  <2>9. LogAdvances(w, y, id)
    BY <2>1, <2>8 DEF LogAdvances, TrackingAdvances
  <2> QED BY <2>6, <2>7, <2>9
<1>2. \A s \in DOMAIN w.ctl.activity :
        y.ctl.activity[s] \in {w.ctl.activity[s], now}
  BY DEF Advances
<1> QED BY <1>1, <1>2 DEF Advances

-----------------------------------------------------------------------------
(* The tokens from a cursor up to a commit.                                *)
More(e, c) == [i \in 1..c - e |-> <<"token", e + i>>]

(* The tokens up to a cursor with those after it, and with the terminal    *)
(* event: what drain_ makes of a request's events.                         *)
LEMMA TokensJoin ==
  ASSUME NEW e \in Nat, NEW c \in Nat, e <= c, NEW x
  PROVE  /\ Tokens(e) \o More(e, c) = Tokens(c)
         /\ Tokens(e) \o Append(More(e, c), x) = Append(Tokens(c), x)
PROOF
<1> DEFINE S == {<<"token", i>> : i \in Nat} \cup {x}
<1>1. Tokens(e) \in [1..e -> S] /\ More(e,c) \in [1..c-e -> S] /\ Tokens(c) \in [1..c -> S] /\ c - e \in Nat
  BY DEF Tokens, More
<1>2. Tokens(e) \in Seq(S) /\ More(e,c) \in Seq(S) /\ Tokens(c) \in Seq(S)
   /\ Len(Tokens(e)) = e /\ Len(More(e,c)) = c - e /\ Len(Tokens(c)) = c
  <2> HIDE DEF S
  <2> QED BY <1>1
<1>3. x \in S 
  OBVIOUS
<1>5. PICK d \in Nat : d = c - e /\ e + d = c
   BY <1>1
<1>4. /\ Tokens(e) \o More(e, c) = Tokens(c)
  <2> HIDE DEF S
  <2>1. Len(Tokens(e) \o More(e,c)) = c
   BY <1>2, <1>5
  <2>2. \A i \in 1..c : (Tokens(e) \o More(e,c))[i] = Tokens(c)[i]
    <3> SUFFICES ASSUME NEW i \in 1..c PROVE (Tokens(e) \o More(e,c))[i] = Tokens(c)[i]
      OBVIOUS
    <3>0. Tokens(c)[i] = <<"token", i>> /\ i \in Nat /\ i \in 1..e + d
      BY <1>5 DEF Tokens
    <3>1. CASE i <= e
      <4>1. (Tokens(e) \o More(e,c))[i] = Tokens(e)[i]
        BY <1>2, <1>5, <3>0, <3>1
      <4>2. Tokens(e)[i] = <<"token", i>>
        BY <3>0, <3>1 DEF Tokens
      <4> QED BY <3>0, <4>1, <4>2
    <3>2. CASE i > e
      <4>1. (Tokens(e) \o More(e,c))[i] = More(e,c)[i - e]
        BY <1>2, <1>5, <3>0, <3>2
      <4>2. More(e,c)[i - e] = <<"token", e + (i - e)>> /\ e + (i - e) = i
        BY <1>5, <3>0, <3>2 DEF More
      <4> QED BY <3>0, <4>1, <4>2
    <3>3. i <= e \/ i > e
      BY <3>0
    <3> QED BY <3>1, <3>2, <3>3
  <2> QED BY <2>1, <2>2, <1>2, SeqEqual
<1>6. Tokens(e) \o Append(More(e, c), x) = Append(Tokens(c), x)
  <2> HIDE DEF S
  <2>0. Append(More(e,c), x) \in Seq(S) /\ Append(Tokens(c), x) \in Seq(S)
     BY <1>2, <1>3
  <2>1. Tokens(e) \o Append(More(e,c),x) \in Seq(S) /\ Append(Tokens(e) \o More(e,c), x) \in Seq(S)
    BY <1>2, <2>0, <1>3
  <2>2. Tokens(e) \o Append(More(e,c), x) = Append(Tokens(e) \o More(e,c), x)
    BY <1>2, <2>0, <1>3, <2>1
  <2> QED BY <1>4, <2>2
<1> QED BY <1>4, <1>6

(* The events of fewer committed tokens are a prefix of those of more,     *)
(* with or without a terminal one.                                         *)
LEMMA TokensPrefix ==
  ASSUME NEW m \in Nat, NEW n \in Nat, m <= n, NEW x
  PROVE  /\ IsPrefix(Tokens(m), Tokens(n))
         /\ IsPrefix(Tokens(m), Append(Tokens(n), x))
         /\ IsPrefix(Append(Tokens(n), x), Append(Tokens(n), x))
PROOF
<1> DEFINE S == {<<"token", i>> : i \in Nat} \cup {x}
<1>1. Tokens(m) \in [1..m -> S] /\ Tokens(n) \in [1..n -> S] /\ x \in S
  BY DEF Tokens
<1> HIDE DEF S
<1>2. Tokens(m) \in Seq(S) /\ Len(Tokens(m)) = m /\ Tokens(n) \in Seq(S) /\ Len(Tokens(n)) = n
  BY <1>1
<1>3. \A i \in 1..m : Tokens(m)[i] = <<"token", i>> /\ Tokens(n)[i] = <<"token", i>>
  BY DEF Tokens
<1>4. PICK a : a = Append(Tokens(n), x)
  OBVIOUS
<1>5. a \in Seq(S) /\ Len(a) = n + 1 /\ \A i \in 1..n : a[i] = Tokens(n)[i]
  BY <1>1, <1>2, <1>4, AppendProperties
<1>6. \A i \in 1..m : a[i] = Tokens(m)[i]
  <2>1. \A i \in 1..m : i \in 1..n
    OBVIOUS
  <2> QED BY <1>3, <1>5, <2>1
<1> QED BY <1>2, <1>3, <1>4, <1>5, <1>6 DEF IsPrefix

(* A stream of tokens ends in none of the terminal events.                 *)
LEMMA TokensLast ==
  ASSUME NEW n \in Nat, NEW x
  PROVE  /\ n > 0 => Last(Tokens(n))[1] = "token"
         /\ n = 0 <=> Tokens(n) = <<>>
         /\ Append(Tokens(n), x) # <<>> /\ Last(Append(Tokens(n), x)) = x
PROOF
<1> DEFINE S == {<<"token", i>> : i \in Nat} \cup {x}
<1>1. Tokens(n) \in [1..n -> S] /\ x \in S
  BY DEF Tokens
<1>7. n > 0 => Tokens(n)[n] = <<"token", n>>
  BY DEF Tokens
<1> HIDE DEF S
<1>2. Tokens(n) \in Seq(S) /\ Len(Tokens(n)) = n
  BY <1>1
<1>5. Append(Tokens(n), x) \in Seq(S) /\ Append(Tokens(n), x) # <<>> /\ Len(Append(Tokens(n), x)) = n + 1
    /\ Append(Tokens(n), x)[n+1] = x
  BY <1>1, <1>2, AppendProperties
<1>6. Last(Append(Tokens(n), x)) = x
  BY <1>5 DEF Last
<1>8. n > 0 => Last(Tokens(n))[1] = "token"
  BY <1>2, <1>7 DEF Last
<1>9. n = 0 <=> Tokens(n) = <<>>
  BY <1>2, EmptySeq
<1> QED BY <1>5, <1>6, <1>8, <1>9

-----------------------------------------------------------------------------
(* What one forward makes of a turn, and what a cancel makes of it.        *)
LEMMA TurnForwards ==
  ASSUME NEW t, SoundTurn(t), ~Ended(t), NEW live,
         NEW u \in TurnsView!Outcomes(t, live)
  PROVE  /\ SoundTurn(u) /\ u # t
         /\ u.session = t.session /\ Budget(u) = Budget(t)
         /\ t.committed <= u.committed /\ Forwards(t) <= Forwards(u)
         /\ ~Ended(u) => Forwards(u) = Forwards(t) + 1
PROOF
<1> USE DEF Ended, TurnsView!Ended, TurnsView!End
<1>1. /\ t \in TurnRecord /\ t.left \in Nat /\ t.prompt \in Nat
      /\ t.committed \in Nat /\ t.max_new \in Nat /\ t.status = "Live"
      /\ t.left > 0 \/ t.committed < t.max_new
      /\ t.left <= t.prompt /\ t.committed <= t.max_new
      /\ t.left > 0 => t.committed = 0
  BY DEF SoundTurn, TurnRecord
<1>2. CASE u = TurnsView!End(t, "Failed")
  BY <1>1, <1>2 DEF SoundTurn, TurnRecord, Statuses, Budget, Forwards
<1>3. CASE t.session \in live /\ t.left > 0 /\ u \in TurnsView!AfterInput(t)
  <2>1. PICK v : v = [t EXCEPT !.left = @ - 1]
    OBVIOUS
  <2>2. /\ v \in TurnRecord /\ v.left = t.left - 1 /\ v.session = t.session
        /\ v.prompt = t.prompt /\ v.max_new = t.max_new
        /\ v.committed = t.committed /\ v.status = "Live"
    BY <1>1, <1>3, <2>1 DEF TurnRecord
  <2>3. \/ u = v /\ (v.left > 0 \/ v.max_new > 0)
        \/ u = [v EXCEPT !.status = "Finished"]
        \/ u = [v EXCEPT !.status = "Failed"]
    BY <1>1, <1>3, <2>1, <2>2 DEF TurnsView!AfterInput
  <2> QED BY <1>1, <1>3, <2>2, <2>3
       DEF SoundTurn, TurnRecord, Statuses, Budget, Forwards
<1>4. CASE t.session \in live /\ t.left = 0 /\ u \in TurnsView!AfterCommit(t)
  <2>1. PICK v : v = [t EXCEPT !.committed = @ + 1]
    OBVIOUS
  <2>2. /\ v \in TurnRecord /\ v.left = t.left /\ v.session = t.session
        /\ v.prompt = t.prompt /\ v.max_new = t.max_new
        /\ v.committed = t.committed + 1 /\ v.status = "Live"
    BY <1>1, <1>4, <2>1 DEF TurnRecord
  <2>3. \/ u = v /\ v.committed < v.max_new
        \/ u = [v EXCEPT !.status = "Finished"]
        \/ u = [v EXCEPT !.status = "Failed"]
    BY <1>1, <1>4, <2>1, <2>2 DEF TurnsView!AfterCommit
  <2> QED BY <1>1, <1>4, <2>2, <2>3
       DEF SoundTurn, TurnRecord, Statuses, Budget, Forwards
<1> QED BY <1>1, <1>2, <1>3, <1>4 DEF TurnsView!Outcomes

(* A cancelled turn has ended, with what it had committed.                 *)
LEMMA TurnCancelled ==
  ASSUME NEW t, SoundTurn(t), ~Ended(t), NEW u, u = TurnsView!End(t, "Cancelled")
  PROVE  /\ SoundTurn(u) /\ Ended(u) /\ u.status = "Cancelled"
         /\ u.session = t.session /\ Budget(u) = Budget(t)
         /\ t.committed = u.committed /\ t.left = u.left
         /\ Forwards(t) = Forwards(u)
PROOF
<1> QED BY DEF Ended, TurnsView!Ended, TurnsView!End, SoundTurn, TurnRecord,
             Statuses, Budget, Forwards

-----------------------------------------------------------------------------
(* A world whose turns move and whose sessions show it, with the rest of   *)
(* the bookkeeping as it was: the steps before a drain.                    *)
Moves(w, x) ==
  /\ IsWorld(x)
  /\ x.sessions = w.sessions /\ x.log = w.log /\ x.dropped = w.dropped
  /\ x.turns = [id \in DOMAIN w.turns |-> x.turns[id]]
  /\ x.ctl.tracked = w.ctl.tracked /\ x.ctl.emitted = w.ctl.emitted
  /\ x.ctl.deadline = w.ctl.deadline
  /\ x.ctl.terminal_pending \subseteq TrackedEnded(x)
  /\ x.ctl.deadline_cancelled \subseteq
       {id \in w.ctl.tracked : x.turns[id].status = "Cancelled"}
  /\ x.ctl.activity = [s \in DOMAIN w.ctl.activity |-> x.ctl.activity[s]]
  /\ \A s \in DOMAIN w.ctl.activity :
       x.ctl.activity[s] \in {w.ctl.activity[s], now}
  /\ \A id \in DOMAIN w.turns : /\ SoundTurn(x.turns[id])
                                /\ TurnAdvances(w, x, id)

(* A move of the turns keeps the world sound and advances it.              *)
LEMMA MovesAdvances ==
  ASSUME NEW w, Sound(w), NEW x, Moves(w, x), now \in Nat
  PROVE  Sound(x) /\ Advances(w, x)
PROOF
<1>1. DOMAIN x.turns = DOMAIN w.turns /\ DOMAIN x.ctl.activity = DOMAIN w.ctl.activity
  BY DEF Moves
<1>2. ASSUME NEW id \in DOMAIN w.turns
      PROVE  /\ LogExact(x, id) /\ TrackingAdvances(w, x, id)
             /\ LogAdvances(w, x, id)
  <2>1. /\ LogExact(w, id) /\ x.log = w.log /\ x.dropped = w.dropped
        /\ x.ctl.tracked = w.ctl.tracked /\ x.ctl.emitted = w.ctl.emitted
        /\ x.ctl.deadline = w.ctl.deadline
    BY DEF Sound, Moves
  <2>2. CASE id \in w.ctl.tracked
    <3>1. w.ctl.emitted[id] \in Nat
      BY <2>2 DEF Sound
    <3>2. LogExact(x, id)
      BY <2>1, <2>2 DEF LogExact
    <3>3. w.log[id] = Tokens(w.ctl.emitted[id])
      BY <2>1, <2>2 DEF LogExact
    <3>4. Got(x.log[id], w.ctl.emitted[id])
      BY <2>1, <3>3 DEF Got
    <3> QED BY <2>1, <2>2, <3>1, <3>2, <3>4 DEF TrackingAdvances, LogAdvances
  <2>3. CASE id \notin w.ctl.tracked
    <3>1. x.turns[id] = w.turns[id]
      BY <2>1, <2>3 DEF LogExact, Moves, TurnAdvances
    <3> QED BY <2>1, <2>3, <3>1 DEF LogExact, TrackingAdvances, LogAdvances
  <2> QED BY <2>2, <2>3
<1>3. Advances(w, x)
  BY <1>1, <1>2 DEF Advances, Moves
<1>4. \A id \in w.ctl.tracked : w.ctl.emitted[id] <= x.turns[id].committed
  <2> SUFFICES ASSUME NEW id \in w.ctl.tracked
               PROVE  w.ctl.emitted[id] <= x.turns[id].committed
    OBVIOUS
  <2>1. id \in DOMAIN w.turns
    BY DEF Sound
  <2>2. w.ctl.emitted[id] \in Nat /\ w.ctl.emitted[id] <= w.turns[id].committed
    BY DEF Sound
  <2>3. /\ w.turns[id].committed <= x.turns[id].committed
        /\ w.turns[id].committed \in Nat /\ x.turns[id].committed \in Nat
    BY <2>1 DEF Moves, Sound, SoundTurn, TurnRecord, TurnAdvances
  <2> QED BY <2>2, <2>3
<1>5. x.ctl.activity \in [DOMAIN x.ctl.activity -> Nat]
  <2>1. \A s \in DOMAIN w.ctl.activity : w.ctl.activity[s] \in Nat
    BY DEF Sound
  <2>2. \A s \in DOMAIN w.ctl.activity : x.ctl.activity[s] \in Nat
    BY <2>1 DEF Moves
  <2> QED BY <2>2 DEF Moves
<1>6. /\ IsWorld(x)
      /\ x.turns = [id \in DOMAIN x.turns |-> x.turns[id]]
      /\ \A id \in DOMAIN x.turns : SoundTurn(x.turns[id])
      /\ x.log = [id \in DOMAIN x.turns |-> x.log[id]]
      /\ x.ctl.tracked \subseteq DOMAIN x.turns
      /\ x.ctl.emitted \in [x.ctl.tracked -> Nat]
      /\ \A id \in x.ctl.tracked : x.ctl.emitted[id] <= x.turns[id].committed
      /\ x.ctl.deadline \in [x.ctl.tracked -> Nat]
      /\ DOMAIN x.ctl.activity \subseteq x.sessions
      /\ x.dropped \subseteq DOMAIN x.turns
  BY <1>1, <1>4 DEF Moves, Sound
<1>7. /\ x.ctl.terminal_pending \subseteq TrackedEnded(x)
      /\ x.ctl.deadline_cancelled \subseteq
           {id \in x.ctl.tracked : x.turns[id].status = "Cancelled"}
  BY DEF Moves
<1>8. \A id \in DOMAIN x.turns : LogExact(x, id)
  BY <1>1, <1>2
<1> QED BY <1>3, <1>5, <1>6, <1>7, <1>8 DEF Sound

(* Refreshing the activity of some sessions touches nothing else.          *)
LEMMA RefreshedFields ==
  ASSUME NEW w, IsWorld(w), NEW ss, NEW x, x = Refreshed(w, ss)
  PROVE  /\ IsWorld(x)
         /\ x.sessions = w.sessions /\ x.turns = w.turns
         /\ x.log = w.log /\ x.dropped = w.dropped
         /\ x.ctl.tracked = w.ctl.tracked /\ x.ctl.emitted = w.ctl.emitted
         /\ x.ctl.deadline = w.ctl.deadline
         /\ x.ctl.terminal_pending = w.ctl.terminal_pending
         /\ x.ctl.deadline_cancelled = w.ctl.deadline_cancelled
         /\ x.ctl.activity = [s \in DOMAIN w.ctl.activity |->
                                IF s \in ss THEN now ELSE w.ctl.activity[s]]
PROOF
<1> QED BY DEF Refreshed, IsWorld

(* check_deadlines_ ends what is due and leaves the rest.                  *)
LEMMA ExpiredMoves ==
  ASSUME NEW w, Sound(w), now \in Nat, NEW x, x = Expired(w)
  PROVE  /\ Moves(w, x)
         /\ \A id \in w.ctl.tracked : Due(w, id) => Ended(x.turns[id])
         /\ \A id \in DOMAIN w.turns :
              x.turns[id] = w.turns[id] \/ Ended(x.turns[id])
PROOF
<1> DEFINE due == {id \in w.ctl.tracked \cap Live(w) : Due(w, id)}
           ss == {w.turns[id].session : id \in due}
           cut(id) == IF id \in due THEN TurnsView!End(w.turns[id], "Cancelled")
                      ELSE w.turns[id]
           c == [w EXCEPT !.turns = [id \in DOMAIN @ |->
                            IF id \in due THEN TurnsView!End(@[id], "Cancelled")
                            ELSE @[id]],
                          !.ctl.deadline_cancelled = @ \cup due]
<1>1. x = Refreshed(c, ss)
  BY DEF Expired, Due
<1>2. IsWorld(w)
  BY DEF Sound
<1>3. /\ IsWorld(c) /\ c.sessions = w.sessions
      /\ c.turns = [id \in DOMAIN w.turns |-> cut(id)]
      /\ c.log = w.log /\ c.dropped = w.dropped
      /\ c.ctl.tracked = w.ctl.tracked /\ c.ctl.emitted = w.ctl.emitted
      /\ c.ctl.deadline = w.ctl.deadline
      /\ c.ctl.terminal_pending = w.ctl.terminal_pending
      /\ c.ctl.deadline_cancelled = w.ctl.deadline_cancelled \cup due
      /\ c.ctl.activity = w.ctl.activity
  <2> DEFINE f == [id \in DOMAIN w.turns |-> cut(id)]
             d == w.ctl.deadline_cancelled \cup due
  <2>1. c = [w EXCEPT !.turns = f, !.ctl.deadline_cancelled = d]
    OBVIOUS
  <2> HIDE DEF f, d, c
  <2>2. /\ IsWorld(c) /\ c.sessions = w.sessions
        /\ c.turns = f /\ c.log = w.log /\ c.dropped = w.dropped
        /\ c.ctl.tracked = w.ctl.tracked /\ c.ctl.emitted = w.ctl.emitted
        /\ c.ctl.deadline = w.ctl.deadline
        /\ c.ctl.terminal_pending = w.ctl.terminal_pending
        /\ c.ctl.deadline_cancelled = d
        /\ c.ctl.activity = w.ctl.activity
    BY <1>2, <2>1 DEF IsWorld
  <2> QED BY <2>2 DEF f, d
<1> HIDE DEF c
<1>4. PICK z : z = c
  OBVIOUS
<1>5. /\ IsWorld(x) /\ x.sessions = w.sessions
      /\ x.turns = [id \in DOMAIN w.turns |-> cut(id)]
      /\ x.log = w.log /\ x.dropped = w.dropped
      /\ x.ctl.tracked = w.ctl.tracked /\ x.ctl.emitted = w.ctl.emitted
      /\ x.ctl.deadline = w.ctl.deadline
      /\ x.ctl.terminal_pending = w.ctl.terminal_pending
      /\ x.ctl.deadline_cancelled = w.ctl.deadline_cancelled \cup due
      /\ x.ctl.activity = [s \in DOMAIN w.ctl.activity |->
                             IF s \in ss THEN now ELSE w.ctl.activity[s]]
  BY <1>1, <1>3, RefreshedFields
<1>6. due \subseteq DOMAIN w.turns /\ \A id \in due : ~Ended(w.turns[id])
  BY DEF Live, TurnsView!LiveTurns, Ended
<1> HIDE DEF due, ss, cut
<1>7. ASSUME NEW id \in DOMAIN w.turns
      PROVE  /\ x.turns[id] = cut(id) /\ SoundTurn(cut(id))
             /\ TurnAdvances(w, x, id)
             /\ Ended(w.turns[id]) => cut(id) = w.turns[id]
             /\ id \in due => Ended(cut(id)) /\ cut(id).status = "Cancelled"
  <2>1. x.turns[id] = cut(id) /\ SoundTurn(w.turns[id])
    BY <1>5 DEF Sound
  <2>2. CASE id \in due
    <3>1. cut(id) = TurnsView!End(w.turns[id], "Cancelled") /\ ~Ended(w.turns[id])
      BY <1>6, <2>2 DEF cut
    <3>2. /\ SoundTurn(cut(id)) /\ Ended(cut(id)) /\ cut(id).status = "Cancelled"
          /\ cut(id).session = w.turns[id].session
          /\ Budget(cut(id)) = Budget(w.turns[id])
          /\ w.turns[id].committed = cut(id).committed
          /\ w.turns[id].left = cut(id).left
          /\ Forwards(w.turns[id]) = Forwards(cut(id))
      BY <2>1, <3>1, TurnCancelled
    <3>3. w.turns[id].session \in ss
      BY <2>2 DEF ss
    <3>4. /\ w.turns[id].committed \in Nat
          /\ Forwards(w.turns[id]) \in Int
      BY <2>1 DEF SoundTurn, TurnRecord, Forwards
    <3>5. w.turns[id].session \in DOMAIN x.ctl.activity =>
            x.ctl.activity[w.turns[id].session] = now
      BY <1>5, <3>3
    <3> QED BY <2>1, <3>1, <3>2, <3>4, <3>5 DEF TurnAdvances
  <2>3. CASE id \notin due
    <3>1. cut(id) = w.turns[id]
      BY <2>3 DEF cut
    <3>2. /\ w.turns[id].committed \in Nat
          /\ Forwards(w.turns[id]) \in Int
      BY <2>1 DEF SoundTurn, TurnRecord, Forwards
    <3> QED BY <2>1, <2>3, <3>1, <3>2 DEF TurnAdvances
  <2> QED BY <2>2, <2>3
<1>8. w.ctl.tracked \subseteq DOMAIN w.turns
  BY DEF Sound
<1>9. x.ctl.terminal_pending \subseteq TrackedEnded(x)
  <2>1. \A id \in TrackedEnded(w) : x.turns[id] = w.turns[id]
    BY <1>7, <1>8 DEF TrackedEnded
  <2>2. w.ctl.terminal_pending \subseteq TrackedEnded(w)
    BY DEF Sound
  <2> QED BY <1>5, <2>1, <2>2 DEF TrackedEnded
<1>10. x.ctl.deadline_cancelled \subseteq
         {id \in w.ctl.tracked : x.turns[id].status = "Cancelled"}
  <2>1. \A id \in w.ctl.deadline_cancelled :
           /\ id \in w.ctl.tracked /\ w.turns[id].status = "Cancelled"
           /\ x.turns[id] = w.turns[id]
    BY <1>7, <1>8 DEF Sound, Ended, TurnsView!Ended
  <2>2. \A id \in due : id \in w.ctl.tracked
    BY DEF due
  <2> QED BY <1>5, <1>6, <1>7, <2>1, <2>2
<1>11. ASSUME NEW id \in w.ctl.tracked, Due(w, id)
       PROVE  Ended(x.turns[id])
  <2>1. CASE id \in due
    BY <1>6, <1>7, <2>1
  <2>2. CASE id \notin due
    BY <1>7, <1>8, <1>11, <2>2 DEF due, cut, Live, TurnsView!LiveTurns, Ended
  <2> QED BY <2>1, <2>2
<1>12. /\ x.ctl.activity = [s \in DOMAIN w.ctl.activity |-> x.ctl.activity[s]]
       /\ \A s \in DOMAIN w.ctl.activity :
            x.ctl.activity[s] \in {w.ctl.activity[s], now}
  BY <1>5
<1>13. x.turns = [id \in DOMAIN w.turns |-> x.turns[id]]
  BY <1>5
<1>14. \A id \in DOMAIN w.turns : x.turns[id] = w.turns[id] \/ Ended(x.turns[id])
  BY <1>7 DEF cut
<1> QED BY <1>5, <1>7, <1>9, <1>10, <1>11, <1>12, <1>13, <1>14 DEF Moves

(* Every live turn advances by one forward; those a deadline has passed    *)
(* have ended before.  Then every ended request is remembered.             *)
LEMMA ResultsMove ==
  ASSUME NEW w, Sound(w), now \in Nat,
         \A id \in w.ctl.tracked : Due(w, id) => Ended(w.turns[id]),
         NEW d, d = Refreshed(w, {w.turns[id].session :
                                    id \in w.ctl.tracked \cap Live(w)}),
         NEW y \in StepResults(d),
         NEW x, x = Remember(y, TrackedEnded(y))
  PROVE  /\ Moves(w, x) /\ Remembered(x) /\ x.ctl.tracked = y.ctl.tracked
         /\ \A id \in Live(w) : Ended(x.turns[id])
                               \/ Forwards(x.turns[id]) = Forwards(w.turns[id]) + 1
PROOF
<1> DEFINE ss == {w.turns[id].session : id \in w.ctl.tracked \cap Live(w)}
<1>1. IsWorld(w)
  BY DEF Sound
<1>2. /\ IsWorld(d)
      /\ d.sessions = w.sessions /\ d.turns = w.turns
      /\ d.log = w.log /\ d.dropped = w.dropped
      /\ d.ctl.tracked = w.ctl.tracked /\ d.ctl.emitted = w.ctl.emitted
      /\ d.ctl.deadline = w.ctl.deadline
      /\ d.ctl.terminal_pending = w.ctl.terminal_pending
      /\ d.ctl.deadline_cancelled = w.ctl.deadline_cancelled
      /\ d.ctl.activity = [s \in DOMAIN w.ctl.activity |->
                             IF s \in ss THEN now ELSE w.ctl.activity[s]]
  BY <1>1, RefreshedFields
<1> HIDE DEF ss
<1>3. Live(d) = Live(w)
  BY <1>2 DEF Live
<1>4. PICK f : /\ y = [d EXCEPT !.turns = [id \in DOMAIN @ |->
                                            IF id \in Live(d) THEN f[id] ELSE @[id]]]
               /\ \A id \in Live(d) :
                    f[id] \in TurnsView!Outcomes(d.turns[id], d.sessions)
  BY DEF StepResults
<1>5. PICK g : g = [id \in DOMAIN w.turns |->
                      IF id \in Live(w) THEN f[id] ELSE w.turns[id]]
  OBVIOUS
<1>6. y = [d EXCEPT !.turns = g]
  BY <1>2, <1>3, <1>4, <1>5
<1>7. /\ IsWorld(y) /\ y.sessions = d.sessions /\ y.turns = g
      /\ y.log = d.log /\ y.dropped = d.dropped /\ y.ctl = d.ctl
  BY <1>2, <1>6 DEF IsWorld
<1>8. /\ IsWorld(x) /\ x.sessions = y.sessions /\ x.turns = y.turns
      /\ x.log = y.log /\ x.dropped = y.dropped
      /\ x.ctl.tracked = y.ctl.tracked /\ x.ctl.emitted = y.ctl.emitted
      /\ x.ctl.deadline = y.ctl.deadline
      /\ x.ctl.terminal_pending = y.ctl.terminal_pending \cup TrackedEnded(y)
      /\ x.ctl.deadline_cancelled = y.ctl.deadline_cancelled
      /\ x.ctl.activity = y.ctl.activity
  BY <1>7 DEF IsWorld, Remember
<1>9. /\ IsWorld(x) /\ x.sessions = w.sessions /\ x.turns = g
      /\ x.log = w.log /\ x.dropped = w.dropped
      /\ x.ctl.tracked = w.ctl.tracked /\ x.ctl.emitted = w.ctl.emitted
      /\ x.ctl.deadline = w.ctl.deadline
      /\ x.ctl.terminal_pending = w.ctl.terminal_pending \cup TrackedEnded(y)
      /\ x.ctl.deadline_cancelled = w.ctl.deadline_cancelled
      /\ x.ctl.activity = [s \in DOMAIN w.ctl.activity |->
                             IF s \in ss THEN now ELSE w.ctl.activity[s]]
      /\ TrackedEnded(x) = TrackedEnded(y)
  <2>1. TrackedEnded(x) = TrackedEnded(y)
    BY <1>8 DEF TrackedEnded
  <2> QED BY <1>2, <1>7, <1>8, <2>1
<1>10. \A id \in Live(w) :
         f[id] \in TurnsView!Outcomes(w.turns[id], w.sessions)
  BY <1>2, <1>3, <1>4
<1>11. \A id \in Live(w) : id \in DOMAIN w.turns /\ ~Ended(w.turns[id])
  BY DEF Live, TurnsView!LiveTurns, Ended
<1>12. \A id \in DOMAIN w.turns : id \in Live(w) \/ Ended(w.turns[id])
  BY DEF Live, TurnsView!LiveTurns, Ended
<1>13. \A id \in Live(w) : id \in w.ctl.tracked
  BY <1>11 DEF Sound, LogExact
<1>14. ASSUME NEW id \in DOMAIN w.turns
       PROVE  /\ SoundTurn(x.turns[id]) /\ TurnAdvances(w, x, id)
              /\ id \in Live(w) =>
                   \/ Ended(x.turns[id])
                   \/ Forwards(x.turns[id]) = Forwards(w.turns[id]) + 1
  <2>1. SoundTurn(w.turns[id])
    BY DEF Sound
  <2>2. CASE id \in Live(w)
    <3>1. /\ x.turns[id] = f[id] /\ ~Ended(w.turns[id])
          /\ f[id] \in TurnsView!Outcomes(w.turns[id], w.sessions)
      BY <1>5, <1>9, <1>10, <1>11, <2>2
    <3>2. /\ SoundTurn(f[id])
          /\ f[id].session = w.turns[id].session
          /\ Budget(f[id]) = Budget(w.turns[id])
          /\ w.turns[id].committed <= f[id].committed
          /\ Forwards(w.turns[id]) <= Forwards(f[id])
          /\ ~Ended(f[id]) => Forwards(f[id]) = Forwards(w.turns[id]) + 1
      BY <2>1, <3>1, TurnForwards
    <3>3. w.turns[id].session \in ss
      BY <1>13, <2>2 DEF ss
    <3>4. w.turns[id].session \in DOMAIN x.ctl.activity =>
            x.ctl.activity[w.turns[id].session] = now
      BY <1>9, <3>3
    <3>5. ~(id \in w.ctl.tracked /\ Due(w, id))
      BY <3>1
    <3> QED BY <3>1, <3>2, <3>4, <3>5 DEF TurnAdvances
  <2>3. CASE id \notin Live(w)
    <3>1. x.turns[id] = w.turns[id]
      BY <1>5, <1>9, <2>3
    <3>2. w.turns[id].committed \in Nat /\ Forwards(w.turns[id]) \in Int
      BY <2>1 DEF SoundTurn, TurnRecord, Forwards
    <3> QED BY <2>1, <2>3, <3>1, <3>2 DEF TurnAdvances
  <2> QED BY <2>2, <2>3
<1>15. TrackedEnded(w) \subseteq TrackedEnded(x)
  <2>1. w.ctl.tracked \subseteq DOMAIN w.turns
    BY DEF Sound
  <2>2. \A id \in TrackedEnded(w) : x.turns[id] = w.turns[id]
    BY <1>14, <2>1 DEF TrackedEnded, TurnAdvances
  <2> QED BY <1>9, <2>2 DEF TrackedEnded
<1>16. w.ctl.terminal_pending \subseteq TrackedEnded(w)
  BY DEF Sound
<1>17. x.ctl.terminal_pending = TrackedEnded(x)
  BY <1>9, <1>15, <1>16
<1>18. x.ctl.deadline_cancelled \subseteq
         {id \in w.ctl.tracked : x.turns[id].status = "Cancelled"}
  <2>1. \A id \in w.ctl.deadline_cancelled :
           /\ id \in w.ctl.tracked /\ w.turns[id].status = "Cancelled"
           /\ id \in DOMAIN w.turns
    BY DEF Sound
  <2>2. \A id \in w.ctl.deadline_cancelled : x.turns[id] = w.turns[id]
    BY <1>14, <2>1 DEF TurnAdvances, Ended, TurnsView!Ended
  <2> QED BY <1>9, <2>1, <2>2
<1>19. /\ x.ctl.activity = [s \in DOMAIN w.ctl.activity |-> x.ctl.activity[s]]
       /\ \A s \in DOMAIN w.ctl.activity :
            x.ctl.activity[s] \in {w.ctl.activity[s], now}
  BY <1>9
<1>20. x.turns = [id \in DOMAIN w.turns |-> x.turns[id]]
  BY <1>5, <1>9
<1>21. Moves(w, x)
  BY <1>9, <1>14, <1>17, <1>18, <1>19, <1>20 DEF Moves
<1>22. \A id \in Live(w) : \/ Ended(x.turns[id])
                           \/ Forwards(x.turns[id]) = Forwards(w.turns[id]) + 1
  BY <1>11, <1>14
<1> QED BY <1>8, <1>17, <1>21, <1>22 DEF Remembered

-----------------------------------------------------------------------------
(* The state after drain_ of ids, e of which have ended, field by field.   *)
DrainLeaves(w, ids, visible, e, x) ==
  /\ IsWorld(x)
  /\ x.sessions = w.sessions /\ x.turns = w.turns
  /\ x.log = IF visible
             THEN [id \in DOMAIN w.log |->
                     IF id \in ids THEN w.log[id] \o EventsOf(w, id)
                     ELSE w.log[id]]
             ELSE w.log
  /\ x.dropped = IF visible THEN w.dropped ELSE w.dropped \cup e
  /\ x.ctl.tracked = w.ctl.tracked \ e
  /\ x.ctl.emitted = [id \in DOMAIN w.ctl.emitted \ e |->
                        IF id \in ids THEN w.turns[id].committed
                        ELSE w.ctl.emitted[id]]
  /\ x.ctl.deadline = [id \in DOMAIN w.ctl.deadline \ e |-> w.ctl.deadline[id]]
  /\ x.ctl.terminal_pending = w.ctl.terminal_pending \ e
  /\ x.ctl.deadline_cancelled = w.ctl.deadline_cancelled \ e
  /\ x.ctl.activity = w.ctl.activity

(* Draining some turns leaves exactly what DrainLeaves says: one more      *)
(* event of each, and nothing of those that ended.                         *)
LEMMA DrainedFields ==
  ASSUME NEW w, IsWorld(w), NEW ids, NEW visible \in BOOLEAN,
         NEW x, x = Drained(w, ids, visible), NEW e, e = EndedOf(w, ids)
  PROVE  DrainLeaves(w, ids, visible, e, x)
PROOF
<1> DEFINE l == [id \in DOMAIN w.log |->
                   IF id \in ids THEN w.log[id] \o EventsOf(w, id)
                   ELSE w.log[id]]
           m == [id \in DOMAIN w.ctl.emitted |->
                   IF id \in ids THEN w.turns[id].committed
                   ELSE w.ctl.emitted[id]]
<1>1. PICK got : got = IF visible THEN [w EXCEPT !.log = l]
                       ELSE [w EXCEPT !.dropped = @ \cup e]
  OBVIOUS
<1>2. PICK moved : moved = [got EXCEPT !.ctl.emitted = m]
  OBVIOUS
<1>3. Logged(w, ids) = [w EXCEPT !.log = l]
  BY DEF Logged
<1> HIDE DEF l
<1>4. /\ IsWorld(got) /\ got.sessions = w.sessions /\ got.turns = w.turns
      /\ got.log = (IF visible THEN l ELSE w.log)
      /\ got.dropped = (IF visible THEN w.dropped ELSE w.dropped \cup e)
      /\ got.ctl = w.ctl
  BY <1>1 DEF IsWorld
<1>5. x = [moved EXCEPT !.ctl = Forget(@, e)]
  BY <1>1, <1>2, <1>3, <1>4 DEF Drained
<1> HIDE DEF m
<1>6. /\ IsWorld(moved) /\ moved.sessions = w.sessions /\ moved.turns = w.turns
      /\ moved.log = (IF visible THEN l ELSE w.log)
      /\ moved.dropped = (IF visible THEN w.dropped ELSE w.dropped \cup e)
      /\ moved.ctl.tracked = w.ctl.tracked /\ moved.ctl.emitted = m
      /\ moved.ctl.deadline = w.ctl.deadline
      /\ moved.ctl.terminal_pending = w.ctl.terminal_pending
      /\ moved.ctl.deadline_cancelled = w.ctl.deadline_cancelled
      /\ moved.ctl.activity = w.ctl.activity
  BY <1>2, <1>4 DEF IsWorld
<1>7. PICK c : c = Forget(moved.ctl, e)
  OBVIOUS
<1>8. /\ c = [tracked |-> c.tracked, emitted |-> c.emitted,
              terminal_pending |-> c.terminal_pending,
              deadline |-> c.deadline,
              deadline_cancelled |-> c.deadline_cancelled,
              activity |-> c.activity]
      /\ c.tracked = moved.ctl.tracked \ e
      /\ c.emitted = Restrict(moved.ctl.emitted, DOMAIN moved.ctl.emitted \ e)
      /\ c.deadline = Restrict(moved.ctl.deadline, DOMAIN moved.ctl.deadline \ e)
      /\ c.terminal_pending = moved.ctl.terminal_pending \ e
      /\ c.deadline_cancelled = moved.ctl.deadline_cancelled \ e
      /\ c.activity = moved.ctl.activity
  BY <1>6, <1>7 DEF IsWorld, Forget
<1>9. /\ IsWorld(x) /\ x.sessions = moved.sessions /\ x.turns = moved.turns
      /\ x.log = moved.log /\ x.dropped = moved.dropped /\ x.ctl = c
  BY <1>5, <1>6, <1>7, <1>8 DEF IsWorld
<1>10. /\ c.emitted = [id \in DOMAIN w.ctl.emitted \ e |->
                         IF id \in ids THEN w.turns[id].committed
                         ELSE w.ctl.emitted[id]]
       /\ c.deadline = [id \in DOMAIN w.ctl.deadline \ e |-> w.ctl.deadline[id]]
  <2>1. c.emitted = Restrict(m, DOMAIN m \ e)
    BY <1>6, <1>8
  <2>2. c.deadline = Restrict(w.ctl.deadline, DOMAIN w.ctl.deadline \ e)
    BY <1>6, <1>8
  <2> QED BY <2>1, <2>2 DEF Restrict, m
<1> QED BY <1>6, <1>8, <1>9, <1>10 DEF l, DrainLeaves

(* A drain takes out the requests that have ended; only a run() that drops *)
(* what it drains adds to the dropped ones.                                *)
TakesOut(w, ids, visible, x) ==
  /\ x.ctl.tracked = w.ctl.tracked \ EndedOf(w, ids)
  /\ visible => x.dropped = w.dropped

(* drain_ keeps the world sound: a request's caller has its tokens up to   *)
(* the new cursor, and a request that has ended goes with its last event.  *)
LEMMA DrainedAdvances ==
  ASSUME NEW w, Sound(w), NEW ids, ids \subseteq w.ctl.tracked,
         NEW visible \in BOOLEAN, visible \/ ids \subseteq TrackedEnded(w),
         NEW x, x = Drained(w, ids, visible), now \in Nat
  PROVE  /\ Sound(x) /\ Advances(w, x)
         /\ x.turns = w.turns /\ x.ctl.activity = w.ctl.activity
         /\ TakesOut(w, ids, visible, x)
         /\ Remembered(w) => Remembered(x)
PROOF
<1>1. PICK e : e = EndedOf(w, ids)
  OBVIOUS
<1>2. IsWorld(w) /\ w.ctl.tracked \subseteq DOMAIN w.turns
  BY DEF Sound
<1>3. /\ DOMAIN w.ctl.emitted = w.ctl.tracked
      /\ DOMAIN w.ctl.deadline = w.ctl.tracked
      /\ DOMAIN w.log = DOMAIN w.turns
  BY DEF Sound
<1>4. /\ IsWorld(x) /\ x.sessions = w.sessions /\ x.turns = w.turns
      /\ x.log = IF visible
                 THEN [id \in DOMAIN w.turns |->
                         IF id \in ids THEN w.log[id] \o EventsOf(w, id)
                         ELSE w.log[id]]
                 ELSE w.log
      /\ x.dropped = IF visible THEN w.dropped ELSE w.dropped \cup e
      /\ x.ctl.tracked = w.ctl.tracked \ e
      /\ x.ctl.emitted = [id \in w.ctl.tracked \ e |->
                            IF id \in ids THEN w.turns[id].committed
                            ELSE w.ctl.emitted[id]]
      /\ x.ctl.deadline = [id \in w.ctl.tracked \ e |-> w.ctl.deadline[id]]
      /\ x.ctl.terminal_pending = w.ctl.terminal_pending \ e
      /\ x.ctl.deadline_cancelled = w.ctl.deadline_cancelled \ e
      /\ x.ctl.activity = w.ctl.activity
  <2>1. DrainLeaves(w, ids, visible, e, x)
    BY <1>1, <1>2, DrainedFields
  <2> QED BY <1>3, <2>1 DEF DrainLeaves
<1>5. /\ e \subseteq ids /\ \A id \in e : Ended(w.turns[id])
      /\ \A id \in ids : Ended(w.turns[id]) => id \in e
      /\ ~visible => e = ids
  BY <1>1 DEF EndedOf, TrackedEnded
<1>6. ASSUME NEW id \in DOMAIN w.turns
      PROVE  /\ SoundTurn(w.turns[id]) /\ w.turns[id].committed \in Nat
             /\ LogExact(w, id) /\ Forwards(w.turns[id]) \in Int
             /\ id \in w.ctl.tracked =>
                  /\ w.ctl.emitted[id] \in Nat
                  /\ w.ctl.emitted[id] <= w.turns[id].committed
                  /\ w.ctl.deadline[id] \in Nat
                  /\ w.log[id] = Tokens(w.ctl.emitted[id])
                  /\ id \notin w.dropped
             /\ id \in w.ctl.deadline_cancelled =>
                  w.turns[id].status = "Cancelled"
  <2>1. SoundTurn(w.turns[id]) /\ LogExact(w, id)
    BY DEF Sound
  <2>2. w.turns[id].committed \in Nat /\ Forwards(w.turns[id]) \in Int
    BY <2>1 DEF SoundTurn, TurnRecord, Forwards
  <2>3. id \in w.ctl.tracked => /\ w.ctl.emitted[id] \in Nat
                                /\ w.ctl.emitted[id] <= w.turns[id].committed
                                /\ w.ctl.deadline[id] \in Nat
    BY DEF Sound
  <2>4. id \in w.ctl.deadline_cancelled => w.turns[id].status = "Cancelled"
    BY DEF Sound
  <2> QED BY <2>1, <2>2, <2>3, <2>4 DEF LogExact
<1>7. ASSUME NEW id \in ids, visible
      PROVE  /\ Ended(w.turns[id]) => Complete(w.turns[id], x.log[id])
             /\ ~Ended(w.turns[id]) => x.log[id] = Tokens(w.turns[id].committed)
             /\ Got(x.log[id], w.turns[id].committed)
  <2> DEFINE n == w.ctl.emitted[id]
             c == w.turns[id].committed
             last == <<"end", w.turns[id].status,
                       id \in w.ctl.deadline_cancelled>>
  <2>1. id \in w.ctl.tracked /\ id \in DOMAIN w.turns
    BY <1>2
  <2>2. x.log[id] = Tokens(n) \o EventsOf(w, id)
    BY <1>4, <1>6, <1>7, <2>1
  <2>3. EventsOf(w, id) = IF Ended(w.turns[id]) THEN Append(More(n, c), last)
                          ELSE More(n, c)
    BY DEF EventsOf, More
  <2>4. n \in Nat /\ c \in Nat /\ n <= c
    BY <1>6, <2>1
  <2>5. /\ Tokens(n) \o More(n, c) = Tokens(c)
        /\ Tokens(n) \o Append(More(n, c), last) = Append(Tokens(c), last)
    <3> HIDE DEF n, c, last
    <3> QED BY <2>4, TokensJoin
  <2>6. CASE Ended(w.turns[id])
    <3>1. x.log[id] = Append(Tokens(c), last)
      BY <2>2, <2>3, <2>5, <2>6
    <3>2. id \in w.ctl.deadline_cancelled => w.turns[id].status = "Cancelled"
      BY <1>6, <2>1
    <3>3. Complete(w.turns[id], x.log[id])
      <4>1. CASE id \in w.ctl.deadline_cancelled
        <5>1. x.log[id] = Append(Tokens(c), <<"end", w.turns[id].status, TRUE>>)
          BY <3>1, <4>1
        <5> QED BY <3>2, <4>1, <5>1 DEF Complete
      <4>2. CASE id \notin w.ctl.deadline_cancelled
        <5>1. (id \in w.ctl.deadline_cancelled) = FALSE
          BY <4>2
        <5>2. last = <<"end", w.turns[id].status, FALSE>>
          BY <5>1
        <5>3. x.log[id] = Append(Tokens(c), <<"end", w.turns[id].status, FALSE>>)
          BY <3>1, <5>2
        <5> QED BY <5>3 DEF Complete
      <4> QED BY <4>1, <4>2
    <3>4. Got(x.log[id], c)
      BY <3>1 DEF Got
    <3> QED BY <2>6, <3>3, <3>4
  <2>7. CASE ~Ended(w.turns[id])
    BY <2>2, <2>3, <2>5, <2>7 DEF Got
  <2> QED BY <2>6, <2>7
<1>8. ASSUME NEW id \in DOMAIN w.turns
      PROVE  LogExact(x, id) /\ LogAdvances(w, x, id)
  <2>1. CASE id \in ids /\ visible
    <3>1. id \in w.ctl.tracked /\ id \notin w.dropped /\ x.dropped = w.dropped
      BY <1>4, <1>6, <2>1
    <3>2. LogAdvances(w, x, id)
      BY <1>6, <1>7, <2>1, <3>1 DEF LogAdvances
    <3>3. CASE Ended(w.turns[id])
      <4>1. id \notin x.ctl.tracked /\ Complete(x.turns[id], x.log[id])
        BY <1>4, <1>5, <1>7, <2>1, <3>3
      <4> QED BY <1>4, <3>1, <3>2, <3>3, <4>1 DEF LogExact
    <3>4. CASE ~Ended(w.turns[id])
      <4>1. /\ id \in x.ctl.tracked /\ id \notin e
            /\ x.ctl.emitted[id] = w.turns[id].committed
            /\ x.log[id] = Tokens(w.turns[id].committed)
        BY <1>4, <1>5, <1>7, <2>1, <3>1, <3>4
      <4> QED BY <3>1, <3>2, <4>1 DEF LogExact
    <3> QED BY <3>3, <3>4
  <2>2. CASE id \in ids /\ ~visible
    <3>1. /\ id \in e /\ Ended(w.turns[id]) /\ x.log = w.log
          /\ id \notin x.ctl.tracked /\ id \in x.dropped /\ id \in w.ctl.tracked
      BY <1>4, <1>5, <2>2
    <3>2. x.log[id] = Tokens(w.ctl.emitted[id])
          /\ w.ctl.emitted[id] \in 0..w.turns[id].committed
      BY <1>6, <3>1
    <3>3. Got(x.log[id], w.ctl.emitted[id]) /\ w.ctl.emitted[id] \in Nat
          /\ w.ctl.emitted[id] <= w.ctl.emitted[id]
      BY <1>6, <3>1, <3>2 DEF Got
    <3> QED BY <1>4, <3>1, <3>2, <3>3 DEF LogExact, LogAdvances
  <2>3. CASE id \notin ids
    <3>1. /\ id \notin e /\ x.log[id] = w.log[id]
          /\ id \in x.dropped <=> id \in w.dropped
          /\ id \in x.ctl.tracked <=> id \in w.ctl.tracked
          /\ id \in w.ctl.tracked => x.ctl.emitted[id] = w.ctl.emitted[id]
      BY <1>4, <1>5, <2>3
    <3>2. LogExact(x, id)
      BY <1>4, <1>6, <3>1 DEF LogExact
    <3>3. id \in w.ctl.tracked =>
            /\ w.ctl.emitted[id] \in Nat
            /\ w.ctl.emitted[id] <= w.ctl.emitted[id]
            /\ Got(x.log[id], w.ctl.emitted[id])
      BY <1>6, <3>1 DEF Got
    <3> QED BY <3>1, <3>2, <3>3 DEF LogAdvances
  <2> QED BY <2>1, <2>2, <2>3
<1>9. ASSUME NEW id \in DOMAIN w.turns
      PROVE  TurnAdvances(w, x, id) /\ TrackingAdvances(w, x, id)
  <2>1. TurnAdvances(w, x, id)
    BY <1>4, <1>6 DEF TurnAdvances
  <2>2. id \in x.ctl.tracked => w.ctl.emitted[id] <= x.ctl.emitted[id]
    BY <1>4, <1>6
  <2> QED BY <1>4, <2>1, <2>2 DEF TrackingAdvances
<1>10. Advances(w, x)
  BY <1>4, <1>8, <1>9 DEF Advances
<1>11. /\ x.ctl.emitted \in [x.ctl.tracked -> Nat]
       /\ \A id \in x.ctl.tracked : x.ctl.emitted[id] <= x.turns[id].committed
       /\ x.ctl.deadline \in [x.ctl.tracked -> Nat]
  <2>1. \A id \in w.ctl.tracked \ e :
          /\ w.turns[id].committed \in Nat /\ w.ctl.emitted[id] \in Nat
          /\ w.ctl.deadline[id] \in Nat
          /\ w.ctl.emitted[id] <= w.turns[id].committed
    BY <1>2, <1>6
  <2> QED BY <1>4, <2>1
<1>12. TrackedEnded(x) = TrackedEnded(w) \ e
  BY <1>4 DEF TrackedEnded
<1>13. /\ x.ctl.terminal_pending \subseteq TrackedEnded(x)
       /\ x.ctl.deadline_cancelled \subseteq
            {id \in x.ctl.tracked : x.turns[id].status = "Cancelled"}
       /\ x.dropped \subseteq DOMAIN x.turns
       /\ x.ctl.tracked \subseteq DOMAIN x.turns
  <2>1. /\ w.ctl.terminal_pending \subseteq TrackedEnded(w)
        /\ w.ctl.deadline_cancelled \subseteq
             {id \in w.ctl.tracked : w.turns[id].status = "Cancelled"}
        /\ w.dropped \subseteq DOMAIN w.turns
    BY DEF Sound
  <2> QED BY <1>2, <1>4, <1>5, <1>12, <2>1
<1>14. /\ x.turns = [id \in DOMAIN x.turns |-> x.turns[id]]
       /\ \A id \in DOMAIN x.turns : SoundTurn(x.turns[id])
       /\ DOMAIN x.ctl.activity \subseteq x.sessions
       /\ x.ctl.activity \in [DOMAIN x.ctl.activity -> Nat]
  BY <1>4 DEF Sound
<1>15. x.log = [id \in DOMAIN x.turns |-> x.log[id]]
  <2>1. w.log = [id \in DOMAIN w.turns |-> w.log[id]]
    BY DEF Sound
  <2> QED BY <1>4, <2>1
<1>16. Sound(x)
  BY <1>4, <1>8, <1>11, <1>13, <1>14, <1>15 DEF Sound
<1>17. Remembered(w) => Remembered(x)
  BY <1>4, <1>12 DEF Remembered
<1>18. TakesOut(w, ids, visible, x)
  BY <1>1, <1>4 DEF TakesOut
<1> QED BY <1>4, <1>10, <1>16, <1>17, <1>18

-----------------------------------------------------------------------------
(* step_drive_ as a whole: a live turn that is left has forwarded once.    *)
LEMMA StepDriveAdvances ==
  ASSUME NEW w, Sound(w), now \in Nat, NEW drain \in BOOLEAN,
         NEW x \in StepDrive(w, drain)
  PROVE  /\ Sound(x) /\ Remembered(x) /\ Advances(w, x)
         /\ x.ctl.tracked \subseteq w.ctl.tracked
         /\ x.dropped = w.dropped
         /\ drain => TrackedEnded(x) = {}
         /\ \A id \in x.ctl.tracked \cap Live(x) :
              /\ id \in Live(w)
              /\ Forwards(x.turns[id]) = Forwards(w.turns[id]) + 1
PROOF
<1>1. PICK u : u = Expired(w)
  OBVIOUS
<1>2. /\ Moves(w, u) /\ Sound(u) /\ Advances(w, u)
      /\ \A id \in u.ctl.tracked : Due(u, id) => Ended(u.turns[id])
      /\ \A id \in DOMAIN w.turns : u.turns[id] = w.turns[id] \/ Ended(u.turns[id])
  <2>1. /\ Moves(w, u)
        /\ \A id \in w.ctl.tracked : Due(w, id) => Ended(u.turns[id])
        /\ \A id \in DOMAIN w.turns :
             u.turns[id] = w.turns[id] \/ Ended(u.turns[id])
    BY <1>1, ExpiredMoves
  <2>2. Sound(u) /\ Advances(w, u)
    BY <2>1, MovesAdvances
  <2> QED BY <2>1, <2>2 DEF Moves, Due
<1>3. PICK d : d = Refreshed(u, {u.turns[id].session :
                                   id \in u.ctl.tracked \cap Live(u)})
  OBVIOUS
<1>4. PICK y \in StepResults(d) :
        x = IF drain THEN Drained(Remember(y, TrackedEnded(y)), y.ctl.tracked, TRUE)
            ELSE Remember(y, TrackedEnded(y))
  BY <1>1, <1>3 DEF StepDrive
<1>5. PICK z : z = Remember(y, TrackedEnded(y))
  OBVIOUS
<1>6. /\ Moves(u, z) /\ Remembered(z) /\ z.ctl.tracked = y.ctl.tracked
      /\ \A id \in Live(u) :
           Ended(z.turns[id]) \/ Forwards(z.turns[id]) = Forwards(u.turns[id]) + 1
  BY <1>2, <1>3, <1>5, ResultsMove
<1>7. Sound(z) /\ Advances(u, z)
  BY <1>2, <1>6, MovesAdvances
<1>8. Advances(w, z)
  BY <1>2, <1>7, AdvancesTransitive
<1>9. ASSUME NEW id \in z.ctl.tracked \cap Live(z)
      PROVE  /\ id \in Live(w)
             /\ Forwards(z.turns[id]) = Forwards(w.turns[id]) + 1
  <2>1. id \in DOMAIN z.turns /\ ~Ended(z.turns[id])
    BY DEF Live, TurnsView!LiveTurns, Ended
  <2>2. id \in DOMAIN u.turns /\ id \in DOMAIN w.turns
    BY <1>2, <1>7, <2>1 DEF Advances
  <2>3. TurnAdvances(w, u, id) /\ TurnAdvances(u, z, id)
    BY <1>2, <1>7, <2>2 DEF Advances
  <2>4. ~Ended(u.turns[id]) /\ ~Ended(w.turns[id])
    BY <2>1, <2>3 DEF TurnAdvances
  <2>5. id \in Live(u) /\ id \in Live(w)
    BY <2>2, <2>4 DEF Live, TurnsView!LiveTurns, Ended
  <2>6. Forwards(z.turns[id]) = Forwards(u.turns[id]) + 1
    BY <1>6, <2>1, <2>5
  <2>7. Forwards(u.turns[id]) = Forwards(w.turns[id])
    BY <1>2, <2>2, <2>4
  <2> QED BY <2>5, <2>6, <2>7
<1>10. CASE ~drain
  <2>1. x = z
    BY <1>4, <1>5, <1>10
  <2>2. x.dropped = w.dropped
    BY <1>2, <1>6, <2>1 DEF Moves
  <2> QED BY <1>2, <1>6, <1>7, <1>8, <1>9, <1>10, <2>1, <2>2 DEF Moves
<1>11. CASE drain
  <2>1. x = Drained(z, z.ctl.tracked, TRUE)
    BY <1>4, <1>5, <1>6, <1>11
  <2>2. /\ Sound(x) /\ Advances(z, x) /\ x.turns = z.turns
        /\ x.ctl.tracked \subseteq z.ctl.tracked
        /\ x.dropped = z.dropped /\ TrackedEnded(x) = {}
        /\ Remembered(z) => Remembered(x)
    <3>1. PICK v \in BOOLEAN : v = TRUE
      OBVIOUS
    <3>2. PICK ids : ids = z.ctl.tracked
      OBVIOUS
    <3>3. x = Drained(z, ids, v) /\ ids \subseteq z.ctl.tracked /\ v
      BY <2>1, <3>1, <3>2
    <3>4. /\ Sound(x) /\ Advances(z, x) /\ x.turns = z.turns
          /\ TakesOut(z, ids, v, x)
          /\ Remembered(z) => Remembered(x)
      BY <1>7, <3>1, <3>3, DrainedAdvances
    <3>5. x.ctl.tracked = z.ctl.tracked \ EndedOf(z, ids) /\ x.dropped = z.dropped
      BY <3>1, <3>4 DEF TakesOut
    <3> QED BY <3>2, <3>4, <3>5 DEF TrackedEnded, EndedOf
  <2>3. Advances(w, x)
    BY <1>7, <1>8, <2>2, AdvancesTransitive
  <2>4. Live(x) = Live(z)
    BY <2>2 DEF Live
  <2>5. x.dropped = w.dropped
    BY <1>2, <1>6, <2>2 DEF Moves
  <2> QED BY <1>2, <1>6, <1>9, <2>2, <2>3, <2>4, <2>5 DEF Moves
<1> QED BY <1>10, <1>11

-----------------------------------------------------------------------------
(* cancel_turn ends a live turn at once and remembers it; one that has     *)
(* ended stays as it is.                                                   *)
LEMMA CancelMoves ==
  ASSUME NEW w, Sound(w), Remembered(w), now \in Nat, NEW id \in DOMAIN w.turns,
         NEW x, x = CancelTurn(w, id)
  PROVE  Moves(w, x) /\ Remembered(x)
PROOF
<1> DEFINE t == w.turns[id]
           u == IF Ended(t) THEN t ELSE TurnsView!End(t, "Cancelled")
           f == [w.turns EXCEPT ![id] = u]
<1>1. IsWorld(w)
  BY DEF Sound
<1>2. PICK told : told = [w EXCEPT !.turns = f]
  OBVIOUS
<1>3. PICK y : y = Refreshed(told, {t.session})
  OBVIOUS
<1>4. x = Remember(y, {id} \cap w.ctl.tracked)
  BY <1>2, <1>3 DEF CancelTurn
<1>5. SoundTurn(t) /\ SoundTurn(u) /\ Ended(u) /\ u.session = t.session
      /\ Budget(u) = Budget(t) /\ t.committed = u.committed /\ t.left = u.left
      /\ Forwards(t) = Forwards(u) /\ (Ended(t) => u = t)
      /\ (u # t => u.status = "Cancelled")
  BY TurnCancelled DEF Sound
<1>6. /\ f = [i \in DOMAIN w.turns |-> f[i]] /\ f[id] = u
      /\ \A i \in DOMAIN w.turns : i # id => f[i] = w.turns[i]
  OBVIOUS
<1> HIDE DEF u, f
<1>7. /\ IsWorld(told) /\ told.sessions = w.sessions /\ told.turns = f
      /\ told.log = w.log /\ told.dropped = w.dropped /\ told.ctl = w.ctl
  BY <1>1, <1>2 DEF IsWorld
<1>8. /\ IsWorld(y) /\ y.sessions = w.sessions /\ y.turns = f
      /\ y.log = w.log /\ y.dropped = w.dropped
      /\ y.ctl.tracked = w.ctl.tracked /\ y.ctl.emitted = w.ctl.emitted
      /\ y.ctl.deadline = w.ctl.deadline
      /\ y.ctl.terminal_pending = w.ctl.terminal_pending
      /\ y.ctl.deadline_cancelled = w.ctl.deadline_cancelled
      /\ y.ctl.activity = [s \in DOMAIN w.ctl.activity |->
                             IF s \in {t.session} THEN now
                             ELSE w.ctl.activity[s]]
  BY <1>3, <1>7, RefreshedFields
<1>9. /\ IsWorld(x) /\ x.sessions = w.sessions /\ x.turns = f
      /\ x.log = w.log /\ x.dropped = w.dropped
      /\ x.ctl.tracked = w.ctl.tracked /\ x.ctl.emitted = w.ctl.emitted
      /\ x.ctl.deadline = w.ctl.deadline
      /\ x.ctl.terminal_pending = w.ctl.terminal_pending
                                    \cup ({id} \cap w.ctl.tracked)
      /\ x.ctl.deadline_cancelled = w.ctl.deadline_cancelled
      /\ x.ctl.activity = y.ctl.activity
  <2>1. PICK p : p = y.ctl.terminal_pending \cup ({id} \cap w.ctl.tracked)
    OBVIOUS
  <2>2. x = [y EXCEPT !.ctl.terminal_pending = p]
    BY <1>4, <2>1 DEF Remember
  <2>3. /\ IsWorld(x) /\ x.sessions = y.sessions /\ x.turns = y.turns
        /\ x.log = y.log /\ x.dropped = y.dropped
        /\ x.ctl.tracked = y.ctl.tracked /\ x.ctl.emitted = y.ctl.emitted
        /\ x.ctl.deadline = y.ctl.deadline
        /\ x.ctl.terminal_pending = p
        /\ x.ctl.deadline_cancelled = y.ctl.deadline_cancelled
        /\ x.ctl.activity = y.ctl.activity
    BY <1>8, <2>2 DEF IsWorld
  <2> QED BY <1>8, <2>1, <2>3
<1>10. ASSUME NEW i \in DOMAIN w.turns
       PROVE  SoundTurn(x.turns[i]) /\ TurnAdvances(w, x, i)
  <2>1. SoundTurn(w.turns[i]) /\ w.turns[i].committed \in Nat
        /\ Forwards(w.turns[i]) \in Int
    BY DEF Sound, SoundTurn, TurnRecord, Forwards
  <2>2. CASE i = id
    <3>1. x.turns[i] = u /\ w.turns[i] = t
      BY <1>6, <1>9, <2>2
    <3>2. t.session \in DOMAIN x.ctl.activity => x.ctl.activity[t.session] = now
      BY <1>8, <1>9
    <3> HIDE DEF t
    <3> QED BY <1>5, <2>1, <3>1, <3>2 DEF TurnAdvances
  <2>3. CASE i # id
    <3>1. x.turns[i] = w.turns[i]
      BY <1>6, <1>9, <2>3
    <3> QED BY <2>1, <3>1 DEF TurnAdvances
  <2> QED BY <2>2, <2>3
<1>11. TrackedEnded(x) = TrackedEnded(w) \cup ({id} \cap w.ctl.tracked)
  <2>1. w.ctl.tracked \subseteq DOMAIN w.turns
    BY DEF Sound
  <2>2. \A i \in w.ctl.tracked :
          Ended(x.turns[i]) <=> Ended(w.turns[i]) \/ i = id
    BY <1>5, <1>6, <1>9, <2>1
  <2> QED BY <1>9, <2>2 DEF TrackedEnded
<1>12. x.ctl.terminal_pending = TrackedEnded(x)
  BY <1>9, <1>11 DEF Remembered
<1>13. x.ctl.deadline_cancelled \subseteq
         {i \in w.ctl.tracked : x.turns[i].status = "Cancelled"}
  <2>1. \A i \in w.ctl.deadline_cancelled :
          /\ i \in w.ctl.tracked /\ i \in DOMAIN w.turns
          /\ w.turns[i].status = "Cancelled"
    BY DEF Sound
  <2>2. \A i \in w.ctl.deadline_cancelled : x.turns[i].status = "Cancelled"
    BY <1>5, <1>6, <1>9, <2>1
  <2> QED BY <1>9, <2>1, <2>2
<1>14. /\ x.ctl.activity = [s \in DOMAIN w.ctl.activity |-> x.ctl.activity[s]]
       /\ \A s \in DOMAIN w.ctl.activity :
            x.ctl.activity[s] \in {w.ctl.activity[s], now}
  BY <1>8, <1>9
<1> QED BY <1>6, <1>9, <1>10, <1>12, <1>13, <1>14 DEF Moves, Remembered

(* reset_session only makes the session look used.                         *)
LEMMA RefreshedMoves ==
  ASSUME NEW w, Sound(w), Remembered(w), now \in Nat, NEW ss,
         NEW x, x = Refreshed(w, ss)
  PROVE  Moves(w, x) /\ Remembered(x)
PROOF
<1>1. IsWorld(w)
  BY DEF Sound
<1>2. /\ IsWorld(x) /\ x.sessions = w.sessions /\ x.turns = w.turns
      /\ x.log = w.log /\ x.dropped = w.dropped
      /\ x.ctl.tracked = w.ctl.tracked /\ x.ctl.emitted = w.ctl.emitted
      /\ x.ctl.deadline = w.ctl.deadline
      /\ x.ctl.terminal_pending = w.ctl.terminal_pending
      /\ x.ctl.deadline_cancelled = w.ctl.deadline_cancelled
      /\ x.ctl.activity = [s \in DOMAIN w.ctl.activity |->
                             IF s \in ss THEN now ELSE w.ctl.activity[s]]
  BY <1>1, RefreshedFields
<1>3. \A id \in DOMAIN w.turns :
        /\ SoundTurn(x.turns[id]) /\ w.turns[id].committed \in Nat
        /\ Forwards(w.turns[id]) \in Int /\ x.turns[id] = w.turns[id]
  BY <1>2 DEF Sound, SoundTurn, TurnRecord, Forwards
<1>4. \A id \in DOMAIN w.turns : TurnAdvances(w, x, id)
  BY <1>3 DEF TurnAdvances
<1>5. TrackedEnded(x) = TrackedEnded(w)
  BY <1>2 DEF TrackedEnded
<1>6. /\ x.ctl.activity = [s \in DOMAIN w.ctl.activity |-> x.ctl.activity[s]]
      /\ \A s \in DOMAIN w.ctl.activity :
           x.ctl.activity[s] \in {w.ctl.activity[s], now}
  BY <1>2
<1>7. /\ x.turns = [id \in DOMAIN w.turns |-> x.turns[id]]
      /\ x.ctl.deadline_cancelled \subseteq
           {id \in w.ctl.tracked : x.turns[id].status = "Cancelled"}
  BY <1>2 DEF Sound
<1> QED BY <1>2, <1>3, <1>4, <1>5, <1>6, <1>7 DEF Moves, Remembered

-----------------------------------------------------------------------------
(* x is w with some sessions less, and nothing else.                       *)
Shrinks(w, x) ==
  /\ IsWorld(x)
  /\ x.sessions \subseteq w.sessions
  /\ x.turns = w.turns /\ x.log = w.log /\ x.dropped = w.dropped
  /\ x.ctl.tracked = w.ctl.tracked /\ x.ctl.emitted = w.ctl.emitted
  /\ x.ctl.deadline = w.ctl.deadline
  /\ x.ctl.terminal_pending = w.ctl.terminal_pending
  /\ x.ctl.deadline_cancelled = w.ctl.deadline_cancelled
  /\ x.ctl.activity = [s \in DOMAIN w.ctl.activity \cap x.sessions |->
                         w.ctl.activity[s]]

(* The requests of w are in x, and what became of them is allowed.         *)
Follows(w, x) ==
  /\ DOMAIN w.turns \subseteq DOMAIN x.turns
  /\ \A id \in DOMAIN w.turns : TurnAdvances(w, x, id) /\ LogAdvances(w, x, id)

(* Evicting sessions only takes things away.                               *)
LEMMA EvictedShrinks ==
  ASSUME NEW w, Sound(w), NEW ss, NEW x, x = Evicted(w, ss)
  PROVE  Shrinks(w, x) /\ x.sessions = w.sessions \ ss
PROOF
<1>1. IsWorld(w) /\ DOMAIN w.ctl.activity \subseteq w.sessions
  BY DEF Sound
<1>2. PICK a : a = Restrict(w.ctl.activity, DOMAIN w.ctl.activity \ ss)
  OBVIOUS
<1>3. PICK r : r = w.sessions \ ss
  OBVIOUS
<1>4. x = [w EXCEPT !.sessions = r, !.ctl.activity = a]
  BY <1>2, <1>3 DEF Evicted
<1>5. /\ IsWorld(x) /\ x.sessions = r
      /\ x.turns = w.turns /\ x.log = w.log /\ x.dropped = w.dropped
      /\ x.ctl.tracked = w.ctl.tracked /\ x.ctl.emitted = w.ctl.emitted
      /\ x.ctl.deadline = w.ctl.deadline
      /\ x.ctl.terminal_pending = w.ctl.terminal_pending
      /\ x.ctl.deadline_cancelled = w.ctl.deadline_cancelled
      /\ x.ctl.activity = a
  <2>1. PICK c : c = [w.ctl EXCEPT !.activity = a]
    OBVIOUS
  <2>2. /\ c = [tracked |-> c.tracked, emitted |-> c.emitted,
                terminal_pending |-> c.terminal_pending,
                deadline |-> c.deadline,
                deadline_cancelled |-> c.deadline_cancelled,
                activity |-> c.activity]
        /\ c.tracked = w.ctl.tracked /\ c.emitted = w.ctl.emitted
        /\ c.deadline = w.ctl.deadline
        /\ c.terminal_pending = w.ctl.terminal_pending
        /\ c.deadline_cancelled = w.ctl.deadline_cancelled
        /\ c.activity = a
    BY <1>1, <2>1 DEF IsWorld
  <2>3. x = [w EXCEPT !.sessions = r, !.ctl = c]
    BY <1>1, <1>4, <2>1 DEF IsWorld
  <2>4. /\ x = [sessions |-> x.sessions, turns |-> x.turns, ctl |-> x.ctl,
                log |-> x.log, dropped |-> x.dropped]
        /\ x.sessions = r /\ x.ctl = c
        /\ x.turns = w.turns /\ x.log = w.log /\ x.dropped = w.dropped
    BY <1>1, <2>3 DEF IsWorld
  <2> QED BY <2>2, <2>4 DEF IsWorld
<1>6. a = [s \in DOMAIN w.ctl.activity \cap x.sessions |-> w.ctl.activity[s]]
  <2>1. DOMAIN w.ctl.activity \ ss = DOMAIN w.ctl.activity \cap x.sessions
    BY <1>1, <1>5, <1>3
  <2> QED BY <1>2, <2>1 DEF Restrict
<1> QED BY <1>5, <1>6, <1>3 DEF Shrinks

(* So does evicting again.                                                 *)
LEMMA ShrinksTransitive ==
  ASSUME NEW w, NEW x, NEW y, Shrinks(w, x), Shrinks(x, y)
  PROVE  Shrinks(w, y)
PROOF
<1>1. DOMAIN x.ctl.activity \cap y.sessions = DOMAIN w.ctl.activity \cap y.sessions
  BY DEF Shrinks
<1>2. y.ctl.activity = [s \in DOMAIN w.ctl.activity \cap y.sessions |->
                          w.ctl.activity[s]]
  BY <1>1 DEF Shrinks
<1> QED BY <1>2 DEF Shrinks

(* A request whose turn and events stay as they are.                       *)
LEMMA Stays ==
  ASSUME NEW w, Sound(w), NEW x, NEW id \in DOMAIN w.turns,
         x.turns[id] = w.turns[id], x.log[id] = w.log[id],
         id \in x.dropped <=> id \in w.dropped
  PROVE  TurnAdvances(w, x, id) /\ LogAdvances(w, x, id)
PROOF
<1>1. SoundTurn(w.turns[id]) /\ LogExact(w, id)
  BY DEF Sound
<1>2. w.turns[id].committed \in Nat /\ Forwards(w.turns[id]) \in Int
  BY <1>1 DEF SoundTurn, TurnRecord, Forwards
<1>3. TurnAdvances(w, x, id)
  BY <1>2 DEF TurnAdvances
<1>4. id \in w.ctl.tracked =>
        /\ w.ctl.emitted[id] \in Nat /\ w.ctl.emitted[id] <= w.ctl.emitted[id]
        /\ Got(x.log[id], w.ctl.emitted[id])
  BY <1>1 DEF Sound, LogExact, Got
<1> QED BY <1>3, <1>4 DEF LogAdvances

(* A world that things were taken from is still sound, and forgets nothing *)
(* of what it remembers.                                                   *)
LEMMA ShrinksSound ==
  ASSUME NEW w, Sound(w), NEW x, Shrinks(w, x)
  PROVE  /\ Sound(x) /\ Follows(w, x)
         /\ Remembered(w) => Remembered(x)
PROOF
<1>1. \A id \in DOMAIN w.turns : TurnAdvances(w, x, id) /\ LogAdvances(w, x, id)
  BY Stays DEF Shrinks
<1>2. TrackedEnded(x) = TrackedEnded(w)
  BY DEF Shrinks, TrackedEnded
<1>3. \A id \in DOMAIN w.turns : LogExact(w, id) => LogExact(x, id)
  BY DEF Shrinks, LogExact
<1>4. /\ DOMAIN x.ctl.activity \subseteq x.sessions
      /\ x.ctl.activity \in [DOMAIN x.ctl.activity -> Nat]
  <2>1. \A s \in DOMAIN w.ctl.activity : w.ctl.activity[s] \in Nat
    BY DEF Sound
  <2> QED BY <2>1 DEF Shrinks
<1>5. /\ x.turns = [id \in DOMAIN x.turns |-> x.turns[id]]
      /\ \A id \in DOMAIN x.turns : SoundTurn(x.turns[id])
      /\ x.log = [id \in DOMAIN x.turns |-> x.log[id]]
      /\ x.ctl.tracked \subseteq DOMAIN x.turns
      /\ x.ctl.emitted \in [x.ctl.tracked -> Nat]
      /\ \A id \in x.ctl.tracked : x.ctl.emitted[id] <= x.turns[id].committed
      /\ x.ctl.deadline \in [x.ctl.tracked -> Nat]
      /\ x.ctl.terminal_pending \subseteq TrackedEnded(x)
      /\ x.ctl.deadline_cancelled \subseteq
           {id \in x.ctl.tracked : x.turns[id].status = "Cancelled"}
      /\ x.dropped \subseteq DOMAIN x.turns
      /\ \A id \in DOMAIN x.turns : LogExact(x, id)
  BY <1>2, <1>3 DEF Shrinks, Sound
<1>6. Sound(x)
  BY <1>4, <1>5 DEF Sound, Shrinks
<1> QED BY <1>1, <1>2, <1>6 DEF Shrinks, Follows, Remembered

(* A session that a smaller world would evict, the world would.            *)
LEMMA ShrinksEligible ==
  ASSUME NEW w, NEW x, Shrinks(w, x), NEW s, Eligible(x, s)
  PROVE  Eligible(w, s) /\ x.ctl.activity[s] = w.ctl.activity[s]
PROOF
<1>1. TrackedEnded(x) = TrackedEnded(w) /\ Live(x) = Live(w)
  BY DEF Shrinks, TrackedEnded, Live
<1>2. Busy(x, s) <=> Busy(w, s)
  BY <1>1 DEF Shrinks, Busy
<1> QED BY <1>1, <1>2 DEF Shrinks, Eligible

(* The sweep takes sessions that may be evicted and whose TTL has passed;  *)
LEMMA SweptShrinks ==
  ASSUME NEW w, Sound(w), NEW x, x = Swept(w)
  PROVE  /\ Shrinks(w, x)
         /\ \A s \in w.sessions \ x.sessions :
              /\ Eligible(w, s) /\ Ttl # NoTtl
              /\ now - w.ctl.activity[s] >= Ttl
PROOF
<1>1. CASE Ttl = NoTtl
  <2>1. x = w /\ IsWorld(w) /\ DOMAIN w.ctl.activity \subseteq w.sessions
    BY <1>1 DEF Swept, Sound
  <2>2. w.ctl.activity = [s \in DOMAIN w.ctl.activity |-> w.ctl.activity[s]]
    BY DEF Sound
  <2>3. DOMAIN w.ctl.activity = DOMAIN w.ctl.activity \cap w.sessions
    BY <2>1
  <2>4. w.ctl.activity = [s \in DOMAIN w.ctl.activity \cap w.sessions |->
                            w.ctl.activity[s]]
    BY <2>2, <2>3
  <2> QED BY <2>1, <2>4 DEF Shrinks
<1>2. CASE Ttl # NoTtl
  <2> DEFINE ss == {s \in w.sessions : /\ Eligible(w, s)
                                       /\ now - w.ctl.activity[s] >= Ttl}
  <2>1. x = Evicted(w, ss)
    BY <1>2 DEF Swept
  <2>2. Shrinks(w, x) /\ x.sessions = w.sessions \ ss
    <3> HIDE DEF ss
    <3> QED BY <2>1, EvictedShrinks
  <2> QED BY <1>2, <2>2
<1> QED BY <1>1, <1>2

(* the eviction under pressure takes one that may be evicted.              *)
LEMMA LruShrinks ==
  ASSUME NEW w, Sound(w), NEW x, x = LruEvicted(w)
  PROVE  /\ Shrinks(w, x)
         /\ \A s \in w.sessions \ x.sessions : Eligible(w, s)
PROOF
<1> DEFINE before(s, t) == \/ w.ctl.activity[s] < w.ctl.activity[t]
                           \/ w.ctl.activity[s] = w.ctl.activity[t] /\ s <= t
           candidates == {s \in w.sessions : Eligible(w, s)}
           ss == {s \in candidates : \A t \in candidates : before(s, t)}
<1>1. x = Evicted(w, ss)
  BY DEF LruEvicted
<1>2. Shrinks(w, x) /\ x.sessions = w.sessions \ ss
  <2> HIDE DEF ss
  <2> QED BY <1>1, EvictedShrinks
<1>3. \A s \in ss : Eligible(w, s)
  OBVIOUS
<1> QED BY <1>2, <1>3

--------------------------------------------------------------------------------
(* The calls.                                                              *)

(* A call leaves behind the world it works out.                            *)
LEMMA BecomesWorld ==
  ASSUME NEW x, Sound(x), Becomes(x)
  PROVE  /\ World' = x /\ Sound(World)'
         /\ Remembered(x) => Remembered(World)'
PROOF
<1>1. World' = x
  BY DEF Sound, IsWorld, World, Becomes
<1>2. Sound(World') /\ (Remembered(x) => Remembered(World'))
  BY <1>1
<1> QED BY <1>1, <1>2

(* The variables of the world are the variables.                           *)
LEMMA WorldFields ==
  /\ World.sessions = sessions /\ World.turns = turns /\ World.ctl = ctl
  /\ World.log = log /\ World.dropped = dropped
PROOF
<1> QED BY DEF World

(* The sessions and the requests are finitely many.                        *)
LEMMA FiniteSessions ==
  ASSUME CountersSound
  PROVE  /\ IsFiniteSet(sessions) /\ Cardinality(sessions) \in Nat
         /\ IsFiniteSet(DOMAIN turns) /\ Slots \in Nat
PROOF
<1>1. IsFiniteSet(1..next_session - 1) /\ IsFiniteSet(1..next_request - 1)
  BY FS_Interval DEF CountersSound
<1>2. IsFiniteSet(sessions) /\ IsFiniteSet(DOMAIN turns)
  BY <1>1, FS_Subset DEF CountersSound
<1>3. Slots \in Nat
  BY ServingAssumption DEF CountersSound, Slots
<1> QED BY <1>2, <1>3, FS_CardinalityType

(* What the controller believes of a session stays ahead of its last sign  *)
(* of life, if every turn that changes refreshes its session.              *)
LEMMA ActivityKept ==
  ASSUME Safe, NEW x, Sound(x), Becomes(x), now' = now, Follows(World, x),
         \A s \in DOMAIN x.ctl.activity :
           \/ x.ctl.activity[s] = now
           \/ /\ s \in DOMAIN ctl.activity
              /\ x.ctl.activity[s] = ctl.activity[s],
         \A id \in DOMAIN x.turns \ DOMAIN turns :
           x.turns[id].session \in DOMAIN x.ctl.activity =>
             x.ctl.activity[x.turns[id].session] = now
  PROVE  ActivitySound'
PROOF
<1>1. /\ sessions' = x.sessions /\ ctl' = x.ctl
      /\ used' = [s \in x.sessions |-> IF Touched(s, x) THEN now ELSE used[s]]
  BY DEF Becomes
<1>2. now \in Nat /\ used \in [sessions -> 0..now]
      /\ \A s \in DOMAIN ctl.activity : used[s] <= ctl.activity[s]
  BY DEF Safe, CountersSound, ActivitySound
<1>3. used' \in [sessions' -> 0..now']
  <2>1. \A s \in x.sessions : ~Touched(s, x) => s \in sessions
    BY DEF Touched
  <2> QED BY <1>1, <1>2, <2>1
<1>4. ASSUME NEW s \in DOMAIN x.ctl.activity
      PROVE  used'[s] <= x.ctl.activity[s]
  <2>1. s \in x.sessions
    BY DEF Sound
  <2>2. CASE Touched(s, x)
    <3>1. used'[s] = now
      BY <1>1, <2>1, <2>2
    <3>2. x.ctl.activity[s] = now
      <4>1. CASE s \notin sessions
        <5>1. s \notin DOMAIN ctl.activity
          BY <4>1, WorldFields DEF Safe, Sound
        <5> QED BY <5>1
      <4>2. CASE s \in sessions
        <5>1. PICK id \in DOMAIN x.turns :
                /\ x.turns[id].session = s
                /\ id \in DOMAIN turns => x.turns[id] # turns[id]
          BY <2>2, <4>2 DEF Touched
        <5>2. CASE id \notin DOMAIN turns
          BY <5>1, <5>2
        <5>3. CASE id \in DOMAIN turns
          <6>1. TurnAdvances(World, x, id) /\ World.turns[id] = turns[id]
            BY <5>3, WorldFields DEF Follows
          <6> QED BY <5>1, <5>3, <6>1 DEF TurnAdvances
        <5> QED BY <5>2, <5>3
      <4> QED BY <4>1, <4>2
    <3> QED BY <1>2, <3>1, <3>2
  <2>3. CASE ~Touched(s, x)
    <3>1. used'[s] = used[s] /\ s \in sessions
      BY <1>1, <2>1, <2>3 DEF Touched
    <3>2. used[s] \in 0..now
      BY <1>2, <3>1
    <3> QED BY <1>2, <3>1, <3>2
  <2> QED BY <2>2, <2>3
<1> QED BY <1>1, <1>3, <1>4 DEF ActivitySound

(* What a step must keep, the loop apart.                                  *)
Kept == /\ CountersSound'
        /\ Sound(World)'
        /\ Remembered(World)'
        /\ ActivitySound'
        /\ Follows(World, World')

(* A call that only moves and drains the requests there are.               *)
LEMMA AdvancesKept ==
  ASSUME Safe, NEW x, Sound(x), Remembered(x), Advances(World, x), Becomes(x),
         UNCHANGED <<config, next_session, next_request, now>>
  PROVE  Kept /\ sessions' = sessions
PROOF
<1>1. World' = x /\ Sound(World)' /\ Remembered(World)'
  BY BecomesWorld
<1>2. Follows(World, x)
  BY DEF Advances, Follows
<1>3. sessions' = sessions /\ DOMAIN turns' = DOMAIN turns
  BY WorldFields DEF Becomes, Advances
<1>4. CountersSound'
  BY <1>3 DEF Safe, CountersSound, Slots
<1>5. ActivitySound'
  <2>1. \A s \in DOMAIN x.ctl.activity :
          \/ x.ctl.activity[s] = now
          \/ s \in DOMAIN ctl.activity /\ x.ctl.activity[s] = ctl.activity[s]
    BY WorldFields DEF Advances
  <2>2. DOMAIN x.turns = DOMAIN turns
    BY WorldFields DEF Advances
  <2> QED BY <1>2, <2>1, <2>2, ActivityKept
<1> QED BY <1>1, <1>2, <1>3, <1>4, <1>5 DEF Kept

(* A call that only takes sessions away.                                   *)
LEMMA ShrinksKept ==
  ASSUME Safe, NEW x, Shrinks(World, x), Becomes(x),
         UNCHANGED <<config, next_session, next_request, now>>
  PROVE  Kept
PROOF
<1>1. Sound(x) /\ Follows(World, x) /\ Remembered(x)
  BY ShrinksSound DEF Safe
<1>2. World' = x /\ Sound(World)' /\ Remembered(World)'
  BY <1>1, BecomesWorld
<1>3. sessions' \subseteq sessions /\ turns' = turns
  BY WorldFields DEF Becomes, Shrinks
<1>4. CountersSound'
  <2>1. IsFiniteSet(sessions) /\ Cardinality(sessions') <= Cardinality(sessions)
        /\ Cardinality(sessions) \in Nat /\ Cardinality(sessions') \in Nat
    BY <1>3, FiniteSessions, FS_Subset, FS_CardinalityType DEF Safe
  <2>2. Slots \in Nat
    BY FiniteSessions DEF Safe
  <2> QED BY <1>3, <2>1, <2>2 DEF Safe, CountersSound, Slots
<1>5. ActivitySound'
  <2>1. \A s \in DOMAIN x.ctl.activity :
          s \in DOMAIN ctl.activity /\ x.ctl.activity[s] = ctl.activity[s]
    BY WorldFields DEF Shrinks
  <2>2. DOMAIN x.turns = DOMAIN turns
    BY WorldFields DEF Shrinks
  <2> QED BY <1>1, <2>1, <2>2, ActivityKept
<1> QED BY <1>1, <1>2, <1>4, <1>5 DEF Kept

-----------------------------------------------------------------------------
(* A new session is one more of which nothing is known yet.                *)
Opens(w, x, managed) ==
  /\ IsWorld(x)
  /\ x.sessions = w.sessions \cup {next_session}
  /\ x.turns = w.turns /\ x.log = w.log /\ x.dropped = w.dropped
  /\ x.ctl.tracked = w.ctl.tracked /\ x.ctl.emitted = w.ctl.emitted
  /\ x.ctl.deadline = w.ctl.deadline
  /\ x.ctl.terminal_pending = w.ctl.terminal_pending
  /\ x.ctl.deadline_cancelled = w.ctl.deadline_cancelled
  /\ x.ctl.activity = IF managed THEN With(w.ctl.activity, next_session, now)
                      ELSE w.ctl.activity

(* A session that is opened leaves the world sound, and is active from now *)
(* on.                                                                     *)
LEMMA OpensSound ==
  ASSUME NEW w, Sound(w), NEW managed \in BOOLEAN, NEW x, Opens(w, x, managed),
         now \in Nat
  PROVE  /\ Sound(x) /\ Follows(w, x)
         /\ Remembered(w) => Remembered(x)
         /\ \A s \in DOMAIN x.ctl.activity :
              \/ x.ctl.activity[s] = now
              \/ /\ s \in DOMAIN w.ctl.activity
                 /\ x.ctl.activity[s] = w.ctl.activity[s]
PROOF
<1>1. \A id \in DOMAIN w.turns : TurnAdvances(w, x, id) /\ LogAdvances(w, x, id)
  BY Stays DEF Opens
<1>2. TrackedEnded(x) = TrackedEnded(w)
  BY DEF Opens, TrackedEnded
<1>3. \A id \in DOMAIN w.turns : LogExact(w, id) => LogExact(x, id)
  BY DEF Opens, LogExact
<1>4. /\ DOMAIN w.ctl.activity \subseteq w.sessions
      /\ \A s \in DOMAIN w.ctl.activity : w.ctl.activity[s] \in Nat
      /\ w.ctl.activity = [s \in DOMAIN w.ctl.activity |-> w.ctl.activity[s]]
  BY DEF Sound
<1>5. /\ DOMAIN x.ctl.activity \subseteq x.sessions
      /\ x.ctl.activity \in [DOMAIN x.ctl.activity -> Nat]
      /\ \A s \in DOMAIN x.ctl.activity :
              \/ x.ctl.activity[s] = now
              \/ /\ s \in DOMAIN w.ctl.activity
                 /\ x.ctl.activity[s] = w.ctl.activity[s]
  <2>1. CASE managed
    <3>1. x.ctl.activity = [s \in DOMAIN w.ctl.activity \cup {next_session} |->
                              IF s = next_session THEN now
                              ELSE w.ctl.activity[s]]
      BY <2>1 DEF Opens, With
    <3> QED BY <1>4, <3>1 DEF Opens
  <2>2. CASE ~managed
    BY <1>4, <2>2 DEF Opens
  <2> QED BY <2>1, <2>2
<1>6. /\ x.turns = [id \in DOMAIN x.turns |-> x.turns[id]]
      /\ \A id \in DOMAIN x.turns : SoundTurn(x.turns[id])
      /\ x.log = [id \in DOMAIN x.turns |-> x.log[id]]
      /\ x.ctl.tracked \subseteq DOMAIN x.turns
      /\ x.ctl.emitted \in [x.ctl.tracked -> Nat]
      /\ \A id \in x.ctl.tracked : x.ctl.emitted[id] <= x.turns[id].committed
      /\ x.ctl.deadline \in [x.ctl.tracked -> Nat]
      /\ x.ctl.terminal_pending \subseteq TrackedEnded(x)
      /\ x.ctl.deadline_cancelled \subseteq
           {id \in x.ctl.tracked : x.turns[id].status = "Cancelled"}
      /\ x.dropped \subseteq DOMAIN x.turns
      /\ \A id \in DOMAIN x.turns : LogExact(x, id)
  BY <1>2, <1>3 DEF Opens, Sound
<1>7. Sound(x)
  BY <1>5, <1>6 DEF Sound, Opens
<1> QED BY <1>1, <1>2, <1>5, <1>7 DEF Opens, Follows, Remembered

(* A creation in a world that has shrunk before: the quota leaves room.    *)
LEMMA OpensKept ==
  ASSUME Safe, NEW w, Shrinks(World, w), Cardinality(w.sessions) < Slots,
         NEW managed \in BOOLEAN, NEW x, Opens(w, x, managed), Becomes(x),
         next_session' = next_session + 1,
         UNCHANGED <<config, next_request, now>>
  PROVE  Kept
PROOF
<1>1. now \in Nat /\ next_session \in Nat \ {0}
  BY DEF Safe, CountersSound
<1>2. Sound(w) /\ Follows(World, w) /\ Remembered(w)
  BY ShrinksSound DEF Safe
<1>3. /\ Sound(x) /\ Follows(w, x) /\ Remembered(x)
      /\ \A s \in DOMAIN x.ctl.activity :
           \/ x.ctl.activity[s] = now
           \/ /\ s \in DOMAIN w.ctl.activity
              /\ x.ctl.activity[s] = w.ctl.activity[s]
  BY <1>1, <1>2, OpensSound
<1>4. World' = x /\ Sound(World)' /\ Remembered(World)'
  BY <1>3, BecomesWorld
<1>5. /\ sessions' = w.sessions \cup {next_session} /\ w.sessions \subseteq sessions
      /\ turns' = turns /\ x.turns = turns /\ x.log = log /\ x.dropped = dropped
  BY WorldFields DEF Becomes, Shrinks, Opens
<1>6. Follows(World, x)
  <2>1. \A id \in DOMAIN World.turns :
          TurnAdvances(World, x, id) /\ LogAdvances(World, x, id)
    BY <1>5, Stays, WorldFields DEF Safe
  <2> QED BY <1>5, <2>1, WorldFields DEF Follows
<1>7. CountersSound'
  <2>1. IsFiniteSet(sessions) /\ Slots \in Nat
    BY FiniteSessions DEF Safe
  <2>2. IsFiniteSet(w.sessions)
    BY <1>5, <2>1, FS_Subset
  <2>3. Cardinality(sessions') <= Slots
    <3>1. Cardinality(w.sessions) \in Nat
      BY <2>2, FS_CardinalityType
    <3>2. Cardinality(sessions') \in {Cardinality(w.sessions),
                                      Cardinality(w.sessions) + 1}
      BY <1>5, <2>2, FS_AddElement
    <3> QED BY <2>1, <3>1, <3>2
  <2>4. sessions' \subseteq 1..next_session' - 1
    <3>1. sessions \subseteq 1..next_session - 1
      BY DEF Safe, CountersSound
    <3>2. \A s \in 1..next_session - 1 \cup {next_session} : s \in 1..next_session
      BY <1>1
    <3>3. next_session' - 1 = next_session
      BY <1>1
    <3> QED BY <1>5, <3>1, <3>2, <3>3
  <2> QED BY <1>1, <1>5, <2>3, <2>4 DEF Safe, CountersSound, Slots
<1>8. ActivitySound'
  <2>1. \A s \in DOMAIN w.ctl.activity :
          s \in DOMAIN ctl.activity /\ w.ctl.activity[s] = ctl.activity[s]
    BY WorldFields DEF Shrinks
  <2>2. \A s \in DOMAIN x.ctl.activity :
          \/ x.ctl.activity[s] = now
          \/ /\ s \in DOMAIN ctl.activity
             /\ x.ctl.activity[s] = ctl.activity[s]
    BY <1>3, <2>1
  <2>3. DOMAIN x.turns \ DOMAIN turns = {}
    BY <1>5
  <2> QED BY <1>3, <1>6, <2>2, <2>3, ActivityKept
<1> QED BY <1>4, <1>6, <1>7, <1>8 DEF Kept

(* The world in which create_session looks for room.                       *)
Pressed == LET swept == Swept(World)
           IN  IF MakesRoom(swept) THEN LruEvicted(swept) ELSE swept

(* What eviction under pressure takes away it takes from eligible          *)
(* sessions.                                                               *)
LEMMA PressedShrinks ==
  ASSUME Safe, NEW w, w = Pressed
  PROVE  /\ Shrinks(World, w)
         /\ \A s \in sessions \ w.sessions : Eligible(World, s)
PROOF
<1>1. PICK u : u = Swept(World)
  OBVIOUS
<1>2. /\ Shrinks(World, u) /\ \A s \in sessions \ u.sessions : Eligible(World, s)
  BY <1>1, SweptShrinks, WorldFields DEF Safe
<1>3. CASE MakesRoom(u)
  <2>1. w = LruEvicted(u)
    BY <1>1, <1>3 DEF Pressed
  <2>2. Sound(u)
    BY <1>2, ShrinksSound DEF Safe
  <2>3. Shrinks(u, w) /\ \A s \in u.sessions \ w.sessions : Eligible(u, s)
    BY <2>1, <2>2, LruShrinks
  <2>4. \A s \in u.sessions \ w.sessions : Eligible(World, s)
    BY <1>2, <2>3, ShrinksEligible
  <2>5. Shrinks(World, w)
    BY <1>2, <2>3, ShrinksTransitive
  <2> QED BY <1>2, <2>4, <2>5
<1>4. CASE ~MakesRoom(u)
  <2>1. w = u
    BY <1>1, <1>4 DEF Pressed
  <2> QED BY <1>2, <2>1
<1> QED BY <1>3, <1>4

(* create_session keeps the controller safe, and evicts eligible sessions  *)
(* only.                                                                   *)
LEMMA CreateSessionKept ==
  ASSUME Safe, CreateSession, config' = config
  PROVE  Kept /\ \A s \in sessions \ sessions' : Eligible(World, s)
PROOF
<1>1. PICK w : w = Pressed
  OBVIOUS
<1>2. Shrinks(World, w) /\ \A s \in sessions \ w.sessions : Eligible(World, s)
  BY <1>1, PressedShrinks
<1>3. UNCHANGED <<config, next_request, now>>
  BY DEF CreateSession, Keep
<1>4. \/ Becomes(w) /\ UNCHANGED next_session
      \/ /\ Cardinality(w.sessions) < Slots
         /\ Becomes([w EXCEPT !.sessions = @ \cup {next_session},
                              !.ctl.activity = With(@, next_session, now)])
         /\ next_session' = next_session + 1
  BY <1>1 DEF CreateSession, Pressed
<1>5. CASE Becomes(w) /\ UNCHANGED next_session
  BY <1>2, <1>3, <1>5, ShrinksKept DEF Becomes
<1>6. CASE /\ Cardinality(w.sessions) < Slots
           /\ Becomes([w EXCEPT !.sessions = @ \cup {next_session},
                                !.ctl.activity = With(@, next_session, now)])
           /\ next_session' = next_session + 1
  <2>1. PICK r : r = w.sessions \cup {next_session}
    OBVIOUS
  <2>2. PICK a : a = With(w.ctl.activity, next_session, now)
    OBVIOUS
  <2>3. PICK x : x = [w EXCEPT !.sessions = r, !.ctl.activity = a]
    OBVIOUS
  <2>4. Becomes(x)
    BY <1>6, <2>1, <2>2, <2>3
  <2>5. PICK c : c = [w.ctl EXCEPT !.activity = a]
    OBVIOUS
  <2>6. IsWorld(w)
    BY <1>2 DEF Shrinks
  <2>7. /\ c = [tracked |-> c.tracked, emitted |-> c.emitted,
                terminal_pending |-> c.terminal_pending,
                deadline |-> c.deadline,
                deadline_cancelled |-> c.deadline_cancelled,
                activity |-> c.activity]
        /\ c.tracked = w.ctl.tracked /\ c.emitted = w.ctl.emitted
        /\ c.deadline = w.ctl.deadline
        /\ c.terminal_pending = w.ctl.terminal_pending
        /\ c.deadline_cancelled = w.ctl.deadline_cancelled
        /\ c.activity = a
    BY <2>5, <2>6 DEF IsWorld
  <2>8. x = [w EXCEPT !.sessions = r, !.ctl = c]
    BY <2>3, <2>5, <2>6 DEF IsWorld
  <2>9. /\ x = [sessions |-> x.sessions, turns |-> x.turns, ctl |-> x.ctl,
                log |-> x.log, dropped |-> x.dropped]
        /\ x.sessions = r /\ x.ctl = c
        /\ x.turns = w.turns /\ x.log = w.log /\ x.dropped = w.dropped
    BY <2>6, <2>8 DEF IsWorld
  <2>10. Opens(w, x, TRUE)
    BY <2>1, <2>2, <2>7, <2>9 DEF IsWorld, Opens
  <2>11. w.sessions \subseteq sessions'
    BY <2>1, <2>4, <2>9 DEF Becomes
  <2>12. Kept
    BY <1>2, <1>3, <1>6, <2>4, <2>10, OpensKept
  <2> QED BY <1>2, <2>11, <2>12
<1> QED BY <1>4, <1>5, <1>6

(* A session created behind the controller's back evicts nothing.          *)
LEMMA CreateUnmanagedKept ==
  ASSUME Safe, CreateUnmanaged, config' = config
  PROVE  Kept /\ sessions \subseteq sessions'
PROOF
<1>1. PICK w : w = World
  OBVIOUS
<1>2. IsWorld(w) /\ DOMAIN w.ctl.activity \subseteq w.sessions
      /\ w.ctl.activity = [s \in DOMAIN w.ctl.activity |-> w.ctl.activity[s]]
  BY <1>1 DEF Safe, Sound
<1>3. Shrinks(World, w)
  <2>1. DOMAIN w.ctl.activity = DOMAIN w.ctl.activity \cap w.sessions
    BY <1>2
  <2>2. w.ctl.activity = [s \in DOMAIN w.ctl.activity \cap w.sessions |->
                            w.ctl.activity[s]]
    BY <1>2, <2>1
  <2> QED BY <1>1, <1>2, <2>2 DEF Shrinks
<1>4. PICK r : r = w.sessions \cup {next_session}
  OBVIOUS
<1>5. PICK x : x = [w EXCEPT !.sessions = r]
  OBVIOUS
<1>6. /\ Becomes(x) /\ next_session' = next_session + 1
      /\ UNCHANGED <<config, next_request, now>>
      /\ Cardinality(w.sessions) < Slots
  BY <1>1, <1>4, <1>5, WorldFields DEF CreateUnmanaged, Keep
<1>7. Opens(w, x, FALSE)
  BY <1>2, <1>4, <1>5 DEF IsWorld, Opens
<1>8. sessions \subseteq sessions'
  BY <1>1, <1>4, <1>6, <1>7, WorldFields DEF Opens, Becomes
<1> QED BY <1>3, <1>6, <1>7, <1>8, OpensKept

-----------------------------------------------------------------------------
(* A step that leaves the world alone; time may pass.                      *)
LEMMA UnchangedKept ==
  ASSUME Safe, now' \in {now, now + 1},
         UNCHANGED <<config, sessions, next_session, turns, next_request, ctl,
                     log, dropped, used>>
  PROVE  Kept
PROOF
<1>1. World' = World
  BY DEF World
<1>2. Sound(World') /\ Remembered(World')
  BY <1>1 DEF Safe
<1>3. Sound(World)' /\ Remembered(World)'
  BY <1>2
<1>4. Follows(World, World')
  BY <1>1, Stays DEF Safe, Follows
<1>5. CountersSound'
  BY DEF Safe, CountersSound, Slots
<1>6. ActivitySound'
  <2>1. now \in Nat /\ 0..now \subseteq 0..now'
    BY DEF Safe, CountersSound
  <2> QED BY <2>1 DEF Safe, ActivitySound
<1> QED BY <1>3, <1>4, <1>5, <1>6 DEF Kept

-----------------------------------------------------------------------------
(* The other calls.                                                        *)
LEMMA DestroySessionKept ==
  ASSUME Safe, NEW s \in sessions, DestroySession(s), config' = config
  PROVE  Kept
PROOF
<1>1. PICK x : x = Evicted(World, {s})
  OBVIOUS
<1>2. Becomes(x) /\ UNCHANGED <<config, next_session, next_request, now>>
  BY <1>1 DEF DestroySession, Keep
<1>3. Shrinks(World, x)
  BY <1>1, EvictedShrinks DEF Safe
<1> QED BY <1>2, <1>3, ShrinksKept

(* evict_expired_sessions evicts eligible sessions only.                   *)
LEMMA EvictExpiredKept ==
  ASSUME Safe, EvictExpired, config' = config
  PROVE  Kept /\ \A s \in sessions \ sessions' : Eligible(World, s)
PROOF
<1>1. PICK x : x = Swept(World)
  OBVIOUS
<1>2. Becomes(x) /\ UNCHANGED <<config, next_session, next_request, now>>
  BY <1>1 DEF EvictExpired, Keep
<1>3. Shrinks(World, x) /\ \A s \in sessions \ x.sessions : Eligible(World, s)
  BY <1>1, SweptShrinks, WorldFields DEF Safe
<1> QED BY <1>2, <1>3, ShrinksKept DEF Becomes

(* evict_lru evicts an eligible session.                                   *)
LEMMA EvictLruKept ==
  ASSUME Safe, EvictLru, config' = config
  PROVE  Kept /\ \A s \in sessions \ sessions' : Eligible(World, s)
PROOF
<1>1. PICK x : x = LruEvicted(World)
  OBVIOUS
<1>2. Becomes(x) /\ UNCHANGED <<config, next_session, next_request, now>>
  BY <1>1 DEF EvictLru, Keep
<1>3. Shrinks(World, x) /\ \A s \in sessions \ x.sessions : Eligible(World, s)
  BY <1>1, LruShrinks, WorldFields DEF Safe
<1> QED BY <1>2, <1>3, ShrinksKept DEF Becomes

(* reset_session keeps every session.                                      *)
LEMMA ResetSessionKept ==
  ASSUME Safe, NEW s \in sessions, ResetSession(s), config' = config
  PROVE  Kept /\ sessions' = sessions
PROOF
<1>1. PICK x : x = Refreshed(World, {s})
  OBVIOUS
<1>2. Becomes(x) /\ UNCHANGED <<config, next_session, next_request, now>>
  BY <1>1 DEF ResetSession, Keep
<1>3. Moves(World, x) /\ Remembered(x)
  BY <1>1, RefreshedMoves DEF Safe, CountersSound
<1>4. Sound(x) /\ Advances(World, x)
  BY <1>3, MovesAdvances DEF Safe, CountersSound
<1> QED BY <1>2, <1>3, <1>4, AdvancesKept

(* cancel keeps every session, and what is known of its turn.              *)
LEMMA CancelKept ==
  ASSUME Safe, NEW id \in DOMAIN turns, Cancel(id), config' = config
  PROVE  Kept /\ sessions' = sessions /\ ctl'.tracked = ctl.tracked
PROOF
<1>1. PICK x : x = CancelTurn(World, id)
  OBVIOUS
<1>2. Becomes(x) /\ UNCHANGED <<config, next_session, next_request, now>>
  BY <1>1 DEF Cancel, Keep
<1>3. Moves(World, x) /\ Remembered(x)
  BY <1>1, CancelMoves, WorldFields DEF Safe, CountersSound
<1>4. Sound(x) /\ Advances(World, x)
  BY <1>3, MovesAdvances DEF Safe, CountersSound
<1>5. ctl'.tracked = ctl.tracked
  BY <1>2, <1>3, WorldFields DEF Becomes, Moves
<1> QED BY <1>2, <1>3, <1>4, <1>5, AdvancesKept

(* step keeps every session, with and without a drain.                     *)
LEMMA StepKept ==
  ASSUME Safe, NEW drain \in BOOLEAN, Step(drain), config' = config
  PROVE  Kept /\ sessions' = sessions
PROOF
<1>1. PICK x \in StepDrive(World, drain) : Becomes(x)
  BY DEF Step
<1>2. UNCHANGED <<config, next_session, next_request, now>>
  BY DEF Step, Keep
<1>3. Sound(x) /\ Remembered(x) /\ Advances(World, x)
  BY <1>1, StepDriveAdvances DEF Safe, CountersSound
<1> QED BY <1>1, <1>2, <1>3, AdvancesKept

(* poll keeps every session.                                               *)
LEMMA PollKept ==
  ASSUME Safe, NEW id \in DOMAIN turns, Poll(id), config' = config
  PROVE  Kept /\ sessions' = sessions
PROOF
<1>1. PICK v \in BOOLEAN : v = TRUE
  OBVIOUS
<1>2. PICK ids : ids = {id}
  OBVIOUS
<1>3. PICK x : x = Drained(World, ids, v)
  OBVIOUS
<1>4. /\ Becomes(x) /\ ids \subseteq World.ctl.tracked
      /\ UNCHANGED <<config, next_session, next_request, now>>
  BY <1>1, <1>2, <1>3, WorldFields DEF Poll, Keep
<1>5. Sound(x) /\ Advances(World, x) /\ Remembered(x)
  BY <1>1, <1>3, <1>4, DrainedAdvances DEF Safe, CountersSound
<1> QED BY <1>4, <1>5, AdvancesKept

(* The request that an admission adds has nothing yet.                     *)
Admitted(t) ==
  /\ next_request \notin DOMAIN turns
  /\ DOMAIN turns' = DOMAIN turns \cup {next_request}
  /\ turns'[next_request] = t
  /\ log'[next_request] = <<>>
  /\ ctl'.tracked = ctl.tracked \cup {next_request}
  /\ dropped' = dropped

(* An admission: one request more, of a session that has no live turn.     *)
LEMMA AdmitTurnKept ==
  ASSUME Safe, NEW s \in sessions, NEW n \in Inputs, NEW m \in Limits,
         NEW d \in Deadlines, AdmitTurn(s, n, m, d), config' = config
  PROVE  /\ Kept /\ sessions' = sessions
         /\ Admitted(TurnsView!NewTurn(s, n, m))
PROOF
<1>1. PICK id : id = next_request
  OBVIOUS
<1>2. PICK t : t = TurnsView!NewTurn(s, n, m)
  OBVIOUS
<1>3. /\ n \in Nat \ {0} /\ m \in Nat /\ d \in Nat
      /\ now \in Nat /\ next_request \in Nat \ {0}
      /\ sessions \subseteq 1..next_session - 1 /\ s \in Nat
      /\ DOMAIN turns = 1..next_request - 1
  BY ServingAssumption DEF Safe, CountersSound, Inputs, Limits, Deadlines
<1>4. id \notin DOMAIN turns /\ id \in Nat
  BY <1>1, <1>3
<1>5. SoundTurn(t) /\ t.session = s /\ t.committed = 0 /\ ~Ended(t)
  BY <1>2, <1>3 DEF SoundTurn, TurnRecord, Statuses, TurnsView!NewTurn, Ended,
                    TurnsView!Ended
<1>6. IsWorld(World) /\ Sound(World) /\ Remembered(World)
  BY DEF Safe, Sound
<1> DEFINE a == With(turns, id, t)
           e == With(ctl.emitted, id, 0)
           l == With(ctl.deadline, id, d)
           g == With(log, id, <<>>)
           k == ctl.tracked \cup {id}
<1>7. PICK y : y = [World EXCEPT !.turns = a, !.ctl.tracked = k,
                                 !.ctl.emitted = e, !.ctl.deadline = l,
                                 !.log = g]
  OBVIOUS
<1>8. PICK x : x = Refreshed(y, {s})
  OBVIOUS
<1>9. /\ Becomes(x) /\ next_request' = next_request + 1
      /\ UNCHANGED <<config, next_session, now>>
  BY <1>1, <1>2, <1>7, <1>8, WorldFields DEF AdmitTurn, Keep
<1> HIDE DEF a, e, l, g, k
<1>10. /\ IsWorld(y) /\ y.sessions = sessions /\ y.turns = a
       /\ y.log = g /\ y.dropped = dropped
       /\ y.ctl.tracked = k /\ y.ctl.emitted = e
       /\ y.ctl.deadline = l
       /\ y.ctl.terminal_pending = ctl.terminal_pending
       /\ y.ctl.deadline_cancelled = ctl.deadline_cancelled
       /\ y.ctl.activity = ctl.activity
  <2>1. PICK c : c = [ctl EXCEPT !.tracked = k, !.emitted = e, !.deadline = l]
    OBVIOUS
  <2>2. /\ c = [tracked |-> c.tracked, emitted |-> c.emitted,
                terminal_pending |-> c.terminal_pending,
                deadline |-> c.deadline,
                deadline_cancelled |-> c.deadline_cancelled,
                activity |-> c.activity]
        /\ c.tracked = k /\ c.emitted = e /\ c.deadline = l
        /\ c.terminal_pending = ctl.terminal_pending
        /\ c.deadline_cancelled = ctl.deadline_cancelled
        /\ c.activity = ctl.activity
    BY <1>6, <2>1, WorldFields DEF IsWorld
  <2>3. y = [sessions |-> sessions, turns |-> a, ctl |-> c, log |-> g,
             dropped |-> dropped]
    BY <1>7, <2>1 DEF World
  <2> QED BY <2>2, <2>3 DEF IsWorld
<1>11. /\ IsWorld(x) /\ x.sessions = sessions /\ x.turns = a
       /\ x.log = g /\ x.dropped = dropped
       /\ x.ctl.tracked = k /\ x.ctl.emitted = e
       /\ x.ctl.deadline = l
       /\ x.ctl.terminal_pending = ctl.terminal_pending
       /\ x.ctl.deadline_cancelled = ctl.deadline_cancelled
       /\ x.ctl.activity = [i \in DOMAIN ctl.activity |->
                              IF i \in {s} THEN now ELSE ctl.activity[i]]
  BY <1>8, <1>10, RefreshedFields
<1>12. /\ DOMAIN ctl.emitted = ctl.tracked /\ DOMAIN ctl.deadline = ctl.tracked
       /\ DOMAIN log = DOMAIN turns /\ ctl.tracked \subseteq DOMAIN turns
       /\ dropped \subseteq DOMAIN turns
       /\ ctl.terminal_pending = TrackedEnded(World)
       /\ DOMAIN ctl.activity \subseteq sessions
       /\ \A i \in DOMAIN ctl.activity : ctl.activity[i] \in Nat
       /\ \A i \in DOMAIN turns : SoundTurn(turns[i]) /\ LogExact(World, i)
       /\ \A i \in ctl.tracked : /\ ctl.emitted[i] \in Nat
                                 /\ ctl.deadline[i] \in Nat
                                 /\ ctl.emitted[i] <= turns[i].committed
       /\ ctl.deadline_cancelled \subseteq
            {i \in ctl.tracked : turns[i].status = "Cancelled"}
  BY <1>6, WorldFields DEF Sound, Remembered
<1>13. /\ a = [i \in DOMAIN turns \cup {id} |-> IF i = id THEN t ELSE turns[i]]
       /\ e = [i \in k |-> IF i = id THEN 0 ELSE ctl.emitted[i]]
       /\ l = [i \in k |-> IF i = id THEN d ELSE ctl.deadline[i]]
       /\ g = [i \in DOMAIN turns \cup {id} |-> IF i = id THEN <<>> ELSE log[i]]
  BY <1>12 DEF a, e, l, g, k, With
<1>14. ASSUME NEW i \in DOMAIN turns
       PROVE  /\ a[i] = turns[i] /\ g[i] = log[i] /\ i # id
              /\ i \in k <=> i \in ctl.tracked
              /\ i \in k => e[i] = ctl.emitted[i] /\ l[i] = ctl.deadline[i]
  BY <1>4, <1>13 DEF k
<1>15. TrackedEnded(x) = TrackedEnded(World)
  <2>1. \A i \in k : i = id \/ (i \in ctl.tracked /\ i \in DOMAIN turns)
    BY <1>12 DEF k
  <2>2. a[id] = t /\ id \in k
    BY <1>13 DEF k
  <2> QED BY <1>5, <1>11, <1>12, <1>14, <2>1, <2>2, WorldFields DEF TrackedEnded
<1>16. ASSUME NEW i \in DOMAIN a
       PROVE  LogExact(x, i) /\ SoundTurn(a[i])
  <2>1. CASE i = id
    <3>1. a[i] = t /\ g[i] = <<>> /\ e[i] = 0 /\ i \in k /\ i \notin dropped
      BY <1>4, <1>12, <1>13, <2>1 DEF k
    <3>2. g[i] = Tokens(0)
      BY <3>1, TokensLast
    <3> QED BY <1>5, <1>11, <3>1, <3>2 DEF LogExact
  <2>2. CASE i # id
    <3>1. i \in DOMAIN turns
      BY <1>13, <2>2
    <3> QED BY <1>11, <1>12, <1>14, <3>1, WorldFields DEF LogExact
  <2> QED BY <2>1, <2>2
<1>17. /\ e \in [k -> Nat] /\ l \in [k -> Nat]
       /\ \A i \in k : e[i] <= a[i].committed
       /\ k \subseteq DOMAIN a
  <2>1. k \subseteq DOMAIN a
    BY <1>12, <1>13 DEF k
  <2>2. ASSUME NEW i \in k
        PROVE  e[i] \in Nat /\ l[i] \in Nat /\ e[i] <= a[i].committed
    <3>1. CASE i = id
      BY <1>3, <1>5, <1>13, <2>1, <3>1
    <3>2. CASE i # id
      <4>1. i \in ctl.tracked /\ i \in DOMAIN turns
        BY <1>12, <3>2 DEF k
      <4> QED BY <1>12, <1>14, <4>1
    <3> QED BY <3>1, <3>2
  <2> QED BY <1>13, <2>1, <2>2
<1>18. /\ DOMAIN x.ctl.activity = DOMAIN ctl.activity
       /\ x.ctl.activity \in [DOMAIN x.ctl.activity -> Nat]
       /\ \A i \in DOMAIN x.ctl.activity :
            \/ x.ctl.activity[i] = now
            \/ i \in DOMAIN ctl.activity /\ x.ctl.activity[i] = ctl.activity[i]
       /\ s \in DOMAIN x.ctl.activity => x.ctl.activity[s] = now
  BY <1>3, <1>11, <1>12
<1>19. ctl.deadline_cancelled \subseteq {i \in k : a[i].status = "Cancelled"}
  BY <1>12, <1>14 DEF k
<1>20. Sound(x)
  <2>1. ctl.terminal_pending \subseteq TrackedEnded(x)
    BY <1>12, <1>15
  <2>2. a = [i \in DOMAIN a |-> a[i]] /\ g = [i \in DOMAIN a |-> g[i]]
    BY <1>13
  <2>3. dropped \subseteq DOMAIN a
    BY <1>12, <1>13
  <2> QED BY <1>11, <1>12, <1>16, <1>17, <1>18, <1>19, <2>1, <2>2, <2>3
       DEF Sound
<1>21. Remembered(x)
  BY <1>11, <1>12, <1>15 DEF Remembered
<1>22. Follows(World, x)
  <2>1. \A i \in DOMAIN turns :
          TurnAdvances(World, x, i) /\ LogAdvances(World, x, i)
    BY <1>6, <1>11, <1>14, Stays, WorldFields
  <2> QED BY <1>11, <1>13, <2>1, WorldFields DEF Follows
<1>23. World' = x /\ Sound(World)' /\ Remembered(World)'
  BY <1>9, <1>20, <1>21, BecomesWorld
<1>24. CountersSound' /\ sessions' = sessions
  <2>1. sessions' = sessions /\ turns' = a
    BY <1>9, <1>11 DEF Becomes
  <2>2. DOMAIN turns' = 1..next_request' - 1
    <3>1. next_request' - 1 = next_request
      BY <1>3, <1>9
    <3>2. 1..next_request - 1 \cup {next_request} = 1..next_request
      BY <1>3
    <3> QED BY <1>1, <1>3, <1>13, <2>1, <3>1, <3>2
  <2> QED BY <1>3, <1>9, <2>1, <2>2 DEF Safe, CountersSound, Slots
<1>25. ActivitySound'
  <2>1. \A i \in DOMAIN x.turns \ DOMAIN turns :
          x.turns[i].session \in DOMAIN x.ctl.activity =>
            x.ctl.activity[x.turns[i].session] = now
    <3>1. \A i \in DOMAIN x.turns \ DOMAIN turns : x.turns[i] = t
      BY <1>11, <1>13
    <3> QED BY <1>5, <1>18, <3>1
  <2> QED BY <1>9, <1>18, <1>20, <1>22, <2>1, ActivityKept
<1>26. Admitted(t)
  <2>1. /\ turns' = x.turns /\ log' = x.log /\ ctl' = x.ctl
        /\ dropped' = x.dropped
    BY <1>9 DEF Becomes
  <2> QED BY <1>1, <1>4, <1>11, <1>13, <2>1 DEF Admitted, k
<1> QED BY <1>2, <1>22, <1>23, <1>24, <1>25, <1>26 DEF Kept

-----------------------------------------------------------------------------
(* A live request has a forward left within its budget.                    *)
LEMMA LiveWithinBudget ==
  ASSUME NEW t, SoundTurn(t)
  PROVE  /\ Forwards(t) \in Nat /\ Budget(t) \in Nat /\ Forwards(t) <= Budget(t)
         /\ ~Ended(t) => Forwards(t) + 1 <= Budget(t)
PROOF
<1>1. /\ t.left \in Nat /\ t.prompt \in Nat /\ t.committed \in Nat
      /\ t.max_new \in Nat /\ t.left <= t.prompt /\ t.committed <= t.max_new
      /\ t.left > 0 => t.committed = 0
      /\ ~Ended(t) => t.left > 0 \/ t.committed < t.max_new
  BY DEF SoundTurn, TurnRecord
<1> QED BY <1>1 DEF Forwards, Budget

(* The tracked requests with a forward to make.                            *)
LEMMA TrackedLive ==
  ASSUME Safe
  PROVE  /\ IsFiniteSet(ctl.tracked \cap Live(World))
         /\ IsFiniteSet(ctl.tracked) /\ Cardinality(ctl.tracked) \in Nat
         /\ LiveCount(World) = 0 <=> ctl.tracked \cap Live(World) = {}
         /\ \A id \in ctl.tracked \cap Live(World) :
              id \in DOMAIN turns /\ SoundTurn(turns[id]) /\ ~Ended(turns[id])
PROOF
<1>1. ctl.tracked \subseteq DOMAIN turns /\ \A id \in DOMAIN turns : SoundTurn(turns[id])
  BY WorldFields DEF Safe, Sound
<1>2. IsFiniteSet(DOMAIN turns)
  BY FiniteSessions DEF Safe
<1>3. IsFiniteSet(ctl.tracked)
  BY <1>1, <1>2, FS_Subset
<1>4. IsFiniteSet(ctl.tracked \cap Live(World))
  BY <1>3, FS_Subset, ctl.tracked \cap Live(World) \subseteq ctl.tracked
<1>5. LiveCount(World) = 0 <=> ctl.tracked \cap Live(World) = {}
  BY <1>4, FS_EmptySet, WorldFields DEF LiveCount
<1>6. \A id \in Live(World) : ~Ended(turns[id])
  BY WorldFields DEF Live, TurnsView!LiveTurns, Ended
<1> QED BY <1>1, <1>3, <1>4, <1>5, <1>6, FS_CardinalityType

(* run_bound covers what every live request still needs.                   *)
LEMMA BeginKept ==
  ASSUME Safe, NEW kind \in {"run", "run_stream"}, Begin(kind), config' = config
  PROVE  Kept /\ LoopSound' /\ ~fatal' /\ sessions' = sessions
PROOF
<1> DEFINE S == ctl.tracked \cap Live(World)
           f == [id \in DOMAIN turns |-> turns[id].prompt + turns[id].max_new]
<1>1. UNCHANGED <<config, sessions, next_session, turns, next_request, ctl, now,
                  fatal, log, dropped, used>>
  BY DEF Begin
<1>2. /\ IsFiniteSet(S)
      /\ \A id \in S : /\ id \in DOMAIN turns /\ SoundTurn(turns[id])
                       /\ f[id] = Budget(turns[id]) /\ f[id] \in Nat
  BY TrackedLive, LiveWithinBudget DEF Budget
<1>3. loop' = [kind |-> kind, i |-> 0, bound |-> SumFunctionOnSet(f, S)]
  BY DEF Begin
<1> HIDE DEF S, f
<1>4. SumFunctionOnSet(f, S) \in Nat
  BY <1>2, SumOfNaturals
<1>5. \A id \in S : f[id] <= SumFunctionOnSet(f, S)
  BY <1>2, SumAboveElement
<1>6. World' = World
  BY <1>1 DEF World
<1>7. S = ctl'.tracked \cap Live(World') /\ turns' = turns
  BY <1>1, <1>6 DEF S
<1>8. \A id \in S : 0 <= Forwards(turns[id])
  BY <1>2, LiveWithinBudget
<1>9. LoopSound'
  <2>1. ASSUME NEW id \in ctl'.tracked \cap Live(World')
        PROVE  /\ 0 <= Forwards(turns'[id])
               /\ Budget(turns'[id]) <= SumFunctionOnSet(f, S)
    <3>1. id \in S /\ turns'[id] = turns[id]
      BY <1>7
    <3> QED BY <1>2, <1>5, <1>8, <3>1
  <2> QED BY <1>3, <1>4, <2>1 DEF LoopSound
<1>10. Kept
  BY <1>1, <1>6, UnchangedKept
<1> QED BY <1>1, <1>9, <1>10 DEF Safe

(* A pass of run() or run_stream(): it may return, or forward every live   *)
(* request once; it never runs into its bound.  When it returns no request *)
(* is left, and only run() drops events.                                   *)
LEMMA PassKept ==
  ASSUME Safe, Pass, config' = config
  PROVE  /\ Kept /\ LoopSound' /\ ~fatal' /\ sessions' = sessions
         /\ \/ loop'.kind = loop.kind
            \/ loop'.kind = "none" /\ ctl'.tracked = {}
         /\ loop.kind = "run_stream" => dropped' = dropped
PROOF
<1>1. PICK v \in BOOLEAN : v = (loop.kind = "run_stream")
  OBVIOUS
<1>2. PICK ids : ids = ctl.terminal_pending
  OBVIOUS
<1>3. PICK w : w = Drained(World, ids, v)
  OBVIOUS
<1>4. UNCHANGED <<config, next_session, next_request, now>>
  BY DEF Pass
<1>5. ids \subseteq World.ctl.tracked /\ ids \subseteq TrackedEnded(World)
  BY <1>2, WorldFields DEF Safe, Remembered, TrackedEnded
<1>6. /\ Sound(w) /\ Advances(World, w) /\ Remembered(w)
      /\ w.turns = turns /\ TakesOut(World, ids, v, w)
  BY <1>3, <1>5, DrainedAdvances, WorldFields DEF Safe, CountersSound
<1>7. /\ w.ctl.tracked = ctl.tracked \ EndedOf(World, ids)
      /\ v => w.dropped = dropped
  BY <1>6, WorldFields DEF TakesOut
<1>8. now \in Nat /\ ~fatal
      /\ loop \in [kind : {"none", "run", "run_stream"}, i : Nat, bound : Nat]
      /\ loop.i <= loop.bound /\ loop.kind # "none"
      /\ \A id \in ctl.tracked \cap Live(World) :
         /\ loop.i <= Forwards(turns[id])
         /\ Budget(turns[id]) <= loop.bound
  BY DEF Safe, CountersSound, LoopSound, Pass
<1>9. ~Diverges
  BY <1>8, TrackedLive DEF Diverges
<1>10. \/ /\ LiveCount(World) = 0
          /\ Becomes(w) /\ loop' = Returned /\ fatal' = fatal
       \/ /\ LiveCount(World) # 0
          /\ \E x \in StepDrive(w, v) : Becomes(x)
          /\ loop' = [loop EXCEPT !.i = @ + 1] /\ fatal' = fatal
  BY <1>1, <1>2, <1>3, <1>9 DEF Pass
<1>11. CASE /\ LiveCount(World) = 0
            /\ Becomes(w) /\ loop' = Returned /\ fatal' = fatal
  <2>1. Kept /\ sessions' = sessions
    BY <1>4, <1>6, <1>11, AdvancesKept
  <2>2. LoopSound'
    BY <1>11 DEF Returned, LoopSound
  <2>3. loop'.kind = "none" /\ (v => dropped' = dropped)
    BY <1>11, <1>7 DEF Returned, Becomes
  <2>4. ctl'.tracked = {}
    <3>1. ctl.tracked \cap Live(World) = {} /\ ctl.tracked \subseteq DOMAIN turns
      BY <1>11, TrackedLive, WorldFields DEF Safe, Sound
    <3>2. ctl.tracked = TrackedEnded(World)
      BY <3>1, WorldFields DEF TrackedEnded, Live, TurnsView!LiveTurns, Ended
    <3>3. ids = ctl.tracked /\ EndedOf(World, ids) = ctl.tracked
      BY <1>2, <3>2, WorldFields DEF Safe, Remembered, EndedOf, TrackedEnded
    <3> QED BY <1>11, <1>7, <3>3 DEF Becomes
  <2> QED BY <1>1, <1>8, <1>11, <2>1, <2>2, <2>3, <2>4
<1>12. CASE /\ LiveCount(World) # 0
            /\ \E x \in StepDrive(w, v) : Becomes(x)
            /\ loop' = [loop EXCEPT !.i = @ + 1] /\ fatal' = fatal
  <2>1. PICK x \in StepDrive(w, v) : Becomes(x)
    BY <1>12
  <2>2. /\ Sound(x) /\ Remembered(x) /\ Advances(w, x)
        /\ x.ctl.tracked \subseteq w.ctl.tracked /\ x.dropped = w.dropped
        /\ \A id \in x.ctl.tracked \cap Live(x) :
             /\ id \in Live(w)
             /\ Forwards(x.turns[id]) = Forwards(w.turns[id]) + 1
    BY <1>6, <1>8, <2>1, StepDriveAdvances
  <2>3. Advances(World, x)
    BY <1>6, <1>8, <2>2, AdvancesTransitive DEF Safe
  <2>4. Kept /\ sessions' = sessions
    BY <1>4, <2>1, <2>2, <2>3, AdvancesKept
  <2>5. loop.i + 1 <= loop.bound
    <3>1. PICK id : id \in ctl.tracked \cap Live(World)
      BY <1>12, TrackedLive
    <3>2. /\ loop.i <= Forwards(turns[id]) /\ Budget(turns[id]) <= loop.bound
          /\ SoundTurn(turns[id]) /\ ~Ended(turns[id])
      BY <1>8, <3>1, TrackedLive
    <3>3. Forwards(turns[id]) \in Nat /\ Budget(turns[id]) \in Nat
          /\ Forwards(turns[id]) + 1 <= Budget(turns[id])
      BY <3>2, LiveWithinBudget
    <3> QED BY <1>8, <3>2, <3>3
  <2>6. World' = x /\ turns' = x.turns /\ ctl' = x.ctl
    BY <2>1, <2>2, BecomesWorld DEF Becomes
  <2>7. ASSUME NEW id \in ctl'.tracked \cap Live(World')
        PROVE  loop.i + 1 <= Forwards(turns'[id])
               /\ Budget(turns'[id]) <= loop.bound
    <3>1. id \in x.ctl.tracked \cap Live(x)
      BY <2>6
    <3>2. id \in ctl.tracked /\ id \in Live(w) /\ Live(w) = Live(World)
      BY <1>6, <1>7, <2>2, <3>1, WorldFields DEF Live
    <3>3. Forwards(x.turns[id]) = Forwards(turns[id]) + 1
      BY <1>6, <2>2, <3>1
    <3>4. loop.i <= Forwards(turns[id]) /\ Budget(turns[id]) <= loop.bound
          /\ id \in DOMAIN turns /\ SoundTurn(turns[id])
      BY <1>8, <3>2, TrackedLive
    <3>5. Budget(x.turns[id]) = Budget(turns[id])
      BY <2>3, <3>4, WorldFields DEF Advances, TurnAdvances
    <3>6. Forwards(turns[id]) \in Nat
      BY <3>4, LiveWithinBudget
    <3> QED BY <1>8, <2>6, <3>3, <3>4, <3>5, <3>6
  <2>8. loop' = [kind |-> loop.kind, i |-> loop.i + 1, bound |-> loop.bound]
    BY <1>8, <1>12
  <2>9. LoopSound'
    BY <1>8, <2>5, <2>7, <2>8 DEF LoopSound
  <2>10. loop'.kind = loop.kind /\ (v => dropped' = dropped)
    BY <1>7, <2>1, <2>2, <2>8 DEF Becomes
  <2> QED BY <1>1, <1>8, <1>12, <2>4, <2>9, <2>10
<1> QED BY <1>10, <1>11, <1>12

-----------------------------------------------------------------------------
(* The controller is safe when it is constructed.                          *)
LEMMA InitSafe ==
  ASSUME Init
  PROVE  Safe
PROOF
<1> USE DEF Init
<1>1. config \in Configs /\ Slots \in Nat
  BY ServingAssumption DEF Slots
<1>2. Cardinality(sessions) = 0
  BY FS_EmptySet
<1>3. CountersSound
  BY <1>1, <1>2 DEF CountersSound
<1>4. /\ DOMAIN turns = {} /\ DOMAIN log = {} /\ DOMAIN ctl.activity = {}
      /\ DOMAIN ctl.emitted = {} /\ DOMAIN ctl.deadline = {}
  OBVIOUS
<1>5. turns = [id \in {} |-> turns[id]] /\ log = [id \in {} |-> log[id]]
      /\ ctl.emitted \in [{} -> Nat] /\ ctl.deadline \in [{} -> Nat]
      /\ ctl.activity \in [{} -> Nat]
  OBVIOUS
<1>6. IsWorld(World)
  BY DEF IsWorld, World
<1>7. Sound(World)
  BY <1>4, <1>5, <1>6, WorldFields DEF Sound
<1>8. Remembered(World)
  BY WorldFields DEF Remembered, TrackedEnded
<1>9. ActivitySound
  BY <1>4 DEF ActivitySound
<1>10. LoopSound
  BY DEF LoopSound
<1> QED BY <1>3, <1>7, <1>8, <1>9, <1>10 DEF Safe

(* Outside of run() and run_stream() there is no loop to bound.            *)
LEMMA KeepLoop ==
  ASSUME Safe, Keep, loop.kind = "none"
  PROVE  LoopSound' /\ ~fatal'
PROOF
<1> QED BY DEF Safe, LoopSound, Keep

(* Every step keeps the invariant, and moves every request on as it may.   *)
LEMMA NextSafe ==
  ASSUME Safe, [Next]_vars
  PROVE  Safe' /\ Kept
PROOF
<1> DEFINE Goal == Kept /\ LoopSound' /\ ~fatal'
<1>1. SUFFICES Goal
  BY DEF Kept, Safe
<1>2. CASE UNCHANGED vars
  <2>1. Kept /\ sessions' = sessions /\ fatal' = fatal /\ loop' = loop
    BY <1>2, UnchangedKept DEF vars
  <2>2. World' = World /\ turns' = turns /\ ctl' = ctl
    BY <1>2 DEF vars, World
  <2>3. LoopSound'
    BY <2>1, <2>2 DEF Safe, LoopSound
  <2> QED BY <2>1, <2>3 DEF Safe
<1>3. CASE Tick /\ config' = config
  <2>1. UNCHANGED <<sessions, next_session, turns, next_request, ctl, loop,
                    fatal, log, dropped, used>> /\ now' = now + 1
    BY <1>3 DEF Tick
  <2>2. Kept
    BY <1>3, <2>1, UnchangedKept
  <2>3. World' = World
    BY <2>1 DEF World
  <2>4. LoopSound'
    BY <2>1, <2>3 DEF Safe, LoopSound
  <2> QED BY <2>1, <2>2, <2>4 DEF Safe
<1>4. CASE CreateSession /\ config' = config
  BY <1>4, CreateSessionKept, KeepLoop DEF CreateSession, Idle
<1>5. CASE CreateUnmanaged /\ config' = config
  BY <1>5, CreateUnmanagedKept, KeepLoop DEF CreateUnmanaged, Idle
<1>6. CASE /\ config' = config
           /\ \E s \in sessions, n \in Inputs, m \in Limits, d \in Deadlines :
                AdmitTurn(s, n, m, d)
  <2>1. PICK s \in sessions, n \in Inputs, m \in Limits, d \in Deadlines :
          AdmitTurn(s, n, m, d)
    BY <1>6
  <2>2. Kept /\ sessions' = sessions
    BY <1>6, <2>1, AdmitTurnKept
  <2>3. LoopSound' /\ ~fatal'
    BY <2>1, KeepLoop DEF AdmitTurn, Idle
  <2> QED BY <2>2, <2>3
<1>7. CASE config' = config /\ \E s \in sessions : ResetSession(s)
  BY <1>7, ResetSessionKept, KeepLoop DEF ResetSession, Idle
<1>8. CASE config' = config /\ \E s \in sessions : DestroySession(s)
  BY <1>8, DestroySessionKept, KeepLoop DEF DestroySession, Idle
<1>9. CASE config' = config /\ \E id \in DOMAIN turns : Cancel(id)
  BY <1>9, CancelKept, KeepLoop DEF Cancel, Idle
<1>10. CASE config' = config /\ \E id \in DOMAIN turns : Poll(id)
  BY <1>10, PollKept, KeepLoop DEF Poll, Idle
<1>11. CASE config' = config /\ \E drain \in BOOLEAN : Step(drain)
  BY <1>11, StepKept, KeepLoop DEF Step, Idle
<1>12. CASE EvictExpired /\ config' = config
  BY <1>12, EvictExpiredKept, KeepLoop DEF EvictExpired, Idle
<1>13. CASE EvictLru /\ config' = config
  BY <1>13, EvictLruKept, KeepLoop DEF EvictLru, Idle
<1>14. CASE config' = config /\ \E kind \in {"run", "run_stream"} : Begin(kind)
  BY <1>14, BeginKept
<1>15. CASE Pass /\ config' = config
  BY <1>15, PassKept
<1>16. CASE Next
  <2>1. config' = config
    BY <1>16 DEF Next
  <2>2. \/ Tick \/ CreateSession \/ CreateUnmanaged
        \/ \E s \in sessions, n \in Inputs, m \in Limits, d \in Deadlines :
             AdmitTurn(s, n, m, d)
        \/ \E s \in sessions : ResetSession(s)
        \/ \E s \in sessions : DestroySession(s)
        \/ \E id \in DOMAIN turns : Cancel(id)
        \/ \E id \in DOMAIN turns : Poll(id)
        \/ \E drain \in BOOLEAN : Step(drain)
        \/ EvictExpired \/ EvictLru
        \/ \E kind \in {"run", "run_stream"} : Begin(kind)
        \/ Pass \/ UNCHANGED vars
    BY <1>16 DEF Next, Refused
  <2> HIDE DEF Goal
  <2> QED BY <1>2, <1>3, <1>4, <1>5, <1>6, <1>7, <1>8, <1>9, <1>10, <1>11,
             <1>12, <1>13, <1>14, <1>15, <2>1, <2>2
<1> QED BY <1>2, <1>16

(* The invariant holds in every state.                                     *)
THEOREM ServingIsSafe == Spec => []Safe
PROOF
<1>1. Init => Safe
  BY InitSafe
<1>2. Safe /\ [Next]_vars => Safe'
  BY NextSafe
<1> QED BY <1>1, <1>2, PTL DEF Spec

-----------------------------------------------------------------------------
(* A safe controller has forgotten nothing.                                *)
LEMMA SafeForgetsNothing ==
  ASSUME Safe
  PROVE  NothingForgotten
PROOF
<1> DEFINE consumed == {id \in DOMAIN turns :
                          \/ id \in dropped
                          \/ log[id] # <<>> /\ Last(log[id])[1] = "end"}
<1>1. /\ ctl.tracked \subseteq DOMAIN turns
      /\ \A id \in ctl.tracked : ctl.emitted[id] \in Nat
      /\ \A id \in DOMAIN turns : SoundTurn(turns[id]) /\ LogExact(World, id)
      /\ ctl.deadline_cancelled \subseteq
           {id \in ctl.tracked : turns[id].status = "Cancelled"}
  BY WorldFields DEF Safe, Sound
<1>2. ASSUME NEW id \in DOMAIN turns
      PROVE  id \in ctl.tracked <=> id \notin consumed
  <2>1. CASE id \in ctl.tracked
    <3>1. log[id] = Tokens(ctl.emitted[id]) /\ ctl.emitted[id] \in Nat
          /\ id \notin dropped
      BY <1>1, <2>1, WorldFields DEF LogExact
    <3>2. \/ log[id] = <<>>
          \/ Last(log[id])[1] = "token"
      <4>1. PICK n \in Nat : n = ctl.emitted[id]
        BY <3>1
      <4>2. n = 0 \/ n > 0
        OBVIOUS
      <4>3. log[id] = Tokens(n)
        BY <3>1, <4>1
      <4> QED BY <4>2, <4>3, TokensLast
    <3> QED BY <2>1, <3>1, <3>2
  <2>2. CASE id \notin ctl.tracked /\ id \notin dropped
    <3>1. Complete(turns[id], log[id])
      BY <1>1, <2>2, WorldFields DEF LogExact
    <3>2. PICK e : e[1] = "end" /\ log[id] = Append(Tokens(turns[id].committed), e)
      <4>1. PICK b \in BOOLEAN :
              log[id] = Append(Tokens(turns[id].committed),
                               <<"end", turns[id].status, b>>)
        BY <3>1 DEF Complete
      <4>2. <<"end", turns[id].status, b>>[1] = "end"
        OBVIOUS
      <4> QED BY <4>1, <4>2
    <3>3. turns[id].committed \in Nat
      BY <1>1 DEF SoundTurn, TurnRecord
    <3>4. log[id] # <<>> /\ Last(log[id]) = e
      BY <3>2, <3>3, TokensLast
    <3> QED BY <2>2, <3>2, <3>4
  <2>3. CASE id \notin ctl.tracked /\ id \in dropped
    BY <2>3
  <2> QED BY <2>1, <2>2, <2>3
<1>3. ctl.tracked = DOMAIN turns \ consumed
  BY <1>1, <1>2
<1>4. ctl.terminal_pending = TrackedEnded(World)
  BY WorldFields DEF Safe, Remembered
<1>5. ctl.deadline_cancelled \subseteq ctl.terminal_pending
  BY <1>1, <1>4, WorldFields DEF TrackedEnded, Ended, TurnsView!Ended
<1> QED BY <1>3, <1>4, <1>5 DEF NothingForgotten

(* Whatever ends a request, it stays known until its last event is         *)
(* consumed, and no longer.                                                *)
THEOREM ServingForgetsNothing == Spec => []NothingForgotten
PROOF
<1>1. Safe => NothingForgotten
  BY SafeForgetsNothing
<1> QED BY <1>1, ServingIsSafe, PTL

(* No mix of calls, failures and deadlines makes run() or run_stream()     *)
(* exceed its bound and abort the process.                                 *)
THEOREM ServingConverges == Spec => []Converges
PROOF
<1>1. Safe => Converges
  BY DEF Safe, Converges
<1> QED BY <1>1, ServingIsSafe, PTL

(* A request whose deadline has passed forwards and commits nothing more,  *)
(* in whichever call the deadline is found to have passed.                 *)
THEOREM ServingStopsAtDeadlines == Spec => DeadlineStops
PROOF
<1>1. ASSUME Safe, [Next]_vars, NEW id \in ctl.tracked,
             now >= ctl.deadline[id], ctl.deadline[id] # NoDeadline
      PROVE  /\ turns'[id].left = turns[id].left
             /\ turns'[id].committed = turns[id].committed
  <2>1. id \in DOMAIN turns /\ Due(World, id)
    BY <1>1, WorldFields DEF Safe, Sound, Due
  <2>2. TurnAdvances(World, World', id)
    BY <1>1, <2>1, NextSafe, WorldFields DEF Kept, Follows
  <2> QED BY <1>1, <2>1, <2>2 DEF TurnAdvances, World
<1>2. Safe /\ [Next]_vars =>
        [\A id \in ctl.tracked :
           now >= ctl.deadline[id] /\ ctl.deadline[id] # NoDeadline =>
             /\ turns'[id].left = turns[id].left
             /\ turns'[id].committed = turns[id].committed]_vars
  BY <1>1
<1> QED BY <1>2, ServingIsSafe, PTL DEF Spec, DeadlineStops

-----------------------------------------------------------------------------
(* What the callers of a sound world have is the beginning of what         *)
(* EventStream has for the request.                                        *)
LEMMA LogInStream ==
  ASSUME NEW w, Sound(w), NEW id \in DOMAIN w.turns
  PROVE  \E got \in E!Streams(w.turns[id].committed,
                              IF Ended(w.turns[id]) THEN w.turns[id].status
                              ELSE "no") :
           IsPrefix(w.log[id], got)
PROOF
<1> DEFINE t == w.turns[id]
           n == t.committed
           status == IF Ended(t) THEN t.status ELSE "no"
<1>1. SoundTurn(t) /\ LogExact(w, id)
  BY DEF Sound
<1>2. /\ n \in Nat /\ t.status \in Statuses /\ (t.status = "no") = FALSE
      /\ status = "no" <=> ~Ended(t)
  BY <1>1 DEF SoundTurn, TurnRecord, Statuses
<1>3. E!Streams(n, status) =
        IF ~Ended(t) THEN {Tokens(n)}
        ELSE {Append(Tokens(n), <<"end", t.status, x>>) :
                x \in {FALSE} \cup {y \in {TRUE} : t.status = "Cancelled"}}
  BY <1>2 DEF E!Streams, E!Token, E!Terminal, Tokens
<1>4. CASE \E m \in 0..n : w.log[id] = Tokens(m)
  <2>1. PICK m \in 0..n : w.log[id] = Tokens(m)
    BY <1>4
  <2>2. m \in Nat /\ m <= n
    BY <1>2
  <2>3. CASE ~Ended(t)
    <3>1. IsPrefix(w.log[id], Tokens(n))
      BY <1>2, <2>1, <2>2, TokensPrefix
    <3> QED BY <1>3, <2>3, <3>1
  <2>4. CASE Ended(t)
    <3>1. PICK e : e = <<"end", t.status, FALSE>>
      OBVIOUS
    <3>2. IsPrefix(w.log[id], Append(Tokens(n), e))
      BY <1>2, <2>1, <2>2, TokensPrefix
    <3>3. Append(Tokens(n), e) \in E!Streams(n, status)
      BY <1>3, <2>4, <3>1
    <3> QED BY <3>2, <3>3
  <2> QED BY <2>3, <2>4
<1>5. CASE Ended(t) /\ Complete(t, w.log[id])
  <2>1. PICK b \in BOOLEAN :
          /\ b => t.status = "Cancelled"
          /\ w.log[id] = Append(Tokens(n), <<"end", t.status, b>>)
    BY <1>5 DEF Complete
  <2>2. PICK e : e = <<"end", t.status, b>>
    OBVIOUS
  <2>3. IsPrefix(Append(Tokens(n), e), Append(Tokens(n), e))
    BY <1>2, TokensPrefix
  <2>4. b \in {FALSE} \cup {y \in {TRUE} : t.status = "Cancelled"}
    BY <2>1
  <2>5. Append(Tokens(n), e) \in E!Streams(n, status)
    BY <1>3, <1>5, <2>2, <2>4
  <2> QED BY <2>1, <2>2, <2>3, <2>5
<1>6. \/ \E m \in 0..n : w.log[id] = Tokens(m)
      \/ Ended(t) /\ Complete(t, w.log[id])
  <2>1. CASE id \in w.ctl.tracked
    <3>1. w.ctl.emitted[id] \in Nat /\ w.ctl.emitted[id] <= n
      BY <2>1 DEF Sound
    <3>2. w.ctl.emitted[id] \in 0..n
      BY <1>2, <3>1
    <3> QED BY <1>1, <2>1, <3>2 DEF LogExact
  <2>2. CASE id \notin w.ctl.tracked
    BY <1>1, <2>2 DEF LogExact
  <2> QED BY <2>1, <2>2
<1> QED BY <1>4, <1>5, <1>6

(* What its caller has of a request stays the beginning of what it gets.   *)
LEMMA LogExtends ==
  ASSUME NEW w, Sound(w), NEW x, NEW id \in DOMAIN w.turns,
         LogAdvances(w, x, id)
  PROVE  IsPrefix(w.log[id], x.log[id])
PROOF
<1>1. LogExact(w, id) /\ SoundTurn(w.turns[id])
  BY DEF Sound
<1>2. w.turns[id].committed \in Nat
  BY <1>1 DEF SoundTurn, TurnRecord
<1>3. CASE id \in w.ctl.tracked
  <2>1. w.log[id] = Tokens(w.ctl.emitted[id]) /\ w.ctl.emitted[id] \in Nat
    BY <1>1, <1>3 DEF LogExact, Sound
  <2>2. PICK n \in Nat : w.ctl.emitted[id] <= n /\ Got(x.log[id], n)
    BY <1>3 DEF LogAdvances
  <2> QED BY <2>1, <2>2, TokensPrefix DEF Got
<1>4. CASE id \notin w.ctl.tracked
  <2>1. x.log[id] = w.log[id]
    BY <1>4 DEF LogAdvances
  <2>2. \/ \E n \in Nat : w.log[id] = Tokens(n)
        \/ \E n \in Nat : \E e : w.log[id] = Append(Tokens(n), e)
    <3>1. CASE id \in w.dropped
      BY <1>1, <1>2, <1>4, <3>1 DEF LogExact
    <3>2. CASE id \notin w.dropped
      <4>1. Complete(w.turns[id], w.log[id])
        BY <1>1, <1>4, <3>2 DEF LogExact
      <4>2. PICK b \in BOOLEAN :
              w.log[id] = Append(Tokens(w.turns[id].committed),
                                 <<"end", w.turns[id].status, b>>)
        BY <4>1 DEF Complete
      <4> QED BY <1>2, <4>2
    <3> QED BY <3>1, <3>2
  <2>3. IsPrefix(w.log[id], w.log[id])
    <3>1. ASSUME NEW n \in Nat, w.log[id] = Tokens(n)
          PROVE  IsPrefix(w.log[id], w.log[id])
      <4>1. n <= n
        OBVIOUS
      <4> QED BY <3>1, <4>1, TokensPrefix
    <3>2. ASSUME NEW n \in Nat, NEW e, w.log[id] = Append(Tokens(n), e)
          PROVE  IsPrefix(w.log[id], w.log[id])
      <4>1. n <= n
        OBVIOUS
      <4> QED BY <3>2, <4>1, TokensPrefix
    <3> QED BY <2>2, <3>1, <3>2
  <2> QED BY <2>1, <2>3
<1> QED BY <1>3, <1>4

(* One step of the controller is a step of EventStream, or none.           *)
LEMMA StreamStep ==
  ASSUME Safe, Kept
  PROVE  E!Next
PROOF
<1>1. /\ Sound(World) /\ Sound(World') /\ Follows(World, World')
      /\ DOMAIN turns \subseteq DOMAIN turns'
      /\ World'.turns = turns' /\ World'.log = log' /\ World'.dropped = dropped'
      /\ World.turns = turns /\ World.log = log /\ World.dropped = dropped
      /\ World.ctl = ctl
      /\ DOMAIN log = DOMAIN turns /\ DOMAIN log' = DOMAIN turns'
      /\ dropped \subseteq DOMAIN turns /\ dropped' \subseteq DOMAIN turns'
  <2>1. Sound(World) /\ Sound(World') /\ Follows(World, World')
    BY DEF Kept, Safe
  <2>2. /\ World'.turns = turns' /\ World'.log = log'
        /\ World'.dropped = dropped'
    BY DEF World
  <2> QED BY <2>1, <2>2, WorldFields DEF Follows, Sound
<1>2. ASSUME NEW id \in DOMAIN turns
      PROVE  /\ TurnAdvances(World, World', id) /\ LogAdvances(World, World', id)
             /\ SoundTurn(turns[id]) /\ LogExact(World, id)
  BY <1>1 DEF Follows, Sound
<1>3. ASSUME NEW id \in DOMAIN turns'
      PROVE  SoundTurn(turns'[id]) /\ LogExact(World', id)
  BY <1>1 DEF Sound
<1> DEFINE C == [id \in DOMAIN turns |-> turns[id].committed]
           D == [id \in DOMAIN turns |->
                   IF Ended(turns[id]) THEN turns[id].status ELSE "no"]
           C1 == [id \in DOMAIN turns' |-> turns'[id].committed]
           D1 == [id \in DOMAIN turns' |->
                    IF Ended(turns'[id]) THEN turns'[id].status ELSE "no"]
<1>4. E!Progress
  <2>1. ASSUME NEW id \in DOMAIN turns
        PROVE  /\ C1[id] >= C[id]
               /\ D[id] # "no" => C1[id] = C[id] /\ D1[id] = D[id]
    <3>1. /\ id \in DOMAIN turns' /\ turns[id].committed <= turns'[id].committed
          /\ Ended(turns[id]) => turns'[id] = turns[id]
          /\ turns[id].committed \in Nat /\ turns'[id].committed \in Nat
      BY <1>1, <1>2, <1>3 DEF TurnAdvances, SoundTurn, TurnRecord
    <3> QED BY <3>1
  <2> QED BY <1>1, <2>1 DEF E!Progress
<1>5. DOMAIN log' = DOMAIN C1 /\ dropped \subseteq dropped'
  <2>1. ASSUME NEW id \in dropped
        PROVE  id \in dropped'
    <3>1. id \in DOMAIN turns /\ id \notin ctl.tracked
      BY <1>1, <1>2, <2>1 DEF LogExact
    <3> QED BY <1>1, <1>2, <2>1, <3>1 DEF LogAdvances
  <2> QED BY <1>1, <2>1
<1>6. ASSUME NEW id \in DOMAIN turns'
      PROVE  \E got \in E!Streams(C1[id], D1[id]) : IsPrefix(log'[id], got)
  BY <1>1, LogInStream
<1>7. ASSUME NEW id \in DOMAIN turns
      PROVE  IsPrefix(log[id], log'[id])
  BY <1>1, <1>2, LogExtends
<1>8. ASSUME NEW id \in DOMAIN turns, E!Closed(id)
      PROVE  log'[id] = log[id]
  <2>1. id \notin ctl.tracked
    <3>1. SUFFICES ASSUME id \in ctl.tracked PROVE FALSE
      OBVIOUS
    <3>2. PICK n \in Nat : n = ctl.emitted[id]
      BY <1>1, <3>1 DEF Sound
    <3>3. log[id] = Tokens(n) /\ id \notin dropped
      BY <1>1, <1>2, <3>1, <3>2 DEF LogExact
    <3>4. log[id] = <<>> \/ Last(log[id])[1] = "token"
      <4>1. n = 0 \/ n > 0
        OBVIOUS
      <4> QED BY <3>3, <4>1, TokensLast
    <3> QED BY <1>8, <3>3, <3>4 DEF E!Closed, E!Last, Last
  <2> QED BY <1>1, <1>2, <2>1 DEF LogAdvances
<1>9. ASSUME NEW id \in dropped' \ dropped
      PROVE  D1[id] # "no"
  <2>1. id \in DOMAIN turns' /\ LogExact(World', id) /\ SoundTurn(turns'[id])
    BY <1>1, <1>3
  <2>2. Ended(turns'[id])
    BY <1>1, <2>1 DEF LogExact
  <2>3. turns'[id].status # "no"
    BY <2>1 DEF SoundTurn, TurnRecord, Statuses
  <2> QED BY <2>1, <2>2, <2>3
<1>10. E!Deliver
  BY <1>1, <1>5, <1>6, <1>7, <1>8, <1>9 DEF E!Deliver, E!IsPrefix, IsPrefix
<1> QED BY <1>4, <1>10 DEF E!Next

(* However its caller draws them, the events of a request are what         *)
(* EventStream promises.                                                   *)
THEOREM ServingStreams == Spec => ImplementsStream
PROOF
<1>1. Init => E!Init
  <2>1. SUFFICES ASSUME Init PROVE E!Init
    OBVIOUS
  <2>2. turns = <<>> /\ DOMAIN turns = {} /\ log = <<>> /\ dropped = {}
    BY <2>1 DEF Init
  <2>3. \A f : DOMAIN f = {} /\ f = [x \in {} |-> f[x]] => f = <<>>
    OBVIOUS
  <2> QED BY <2>2, <2>3 DEF E!Init
<1>2. Safe /\ [Next]_vars => [E!Next]_E!vars
  BY NextSafe, StreamStep
<1> QED BY <1>1, <1>2, ServingIsSafe, PTL DEF Spec, ImplementsStream, E!Spec

-----------------------------------------------------------------------------
(* A session that may be evicted has nothing of any request: the live ones *)
(* make it busy, and the ended ones are remembered.                        *)
LEMMA EligibleIsFree ==
  ASSUME Safe, NEW s, Eligible(World, s)
  PROVE  /\ s \in DOMAIN ctl.activity
         /\ \A id \in ctl.tracked : turns[id].session # s
PROOF
<1>1. s \in DOMAIN ctl.activity /\ ~Busy(World, s)
      /\ \A id \in TrackedEnded(World) : turns[id].session # s
  BY WorldFields DEF Eligible
<1>2. ASSUME NEW id \in ctl.tracked
      PROVE  turns[id].session # s
  <2>1. id \in DOMAIN turns
    BY WorldFields DEF Safe, Sound
  <2>2. CASE Ended(turns[id])
    BY <1>1, <2>2, WorldFields DEF TrackedEnded
  <2>3. CASE ~Ended(turns[id])
    <3>1. id \in Live(World)
      BY <2>1, <2>3, WorldFields DEF Live, TurnsView!LiveTurns, Ended
    <3> QED BY <1>1, <3>1, WorldFields DEF Busy
  <2> QED BY <2>2, <2>3
<1> QED BY <1>1, <1>2

(* No session with a live turn or undelivered events is evicted: by the    *)
(* sweep, under pressure, or by a creation.                                *)
THEOREM ServingEvictsSafely == Spec => EvictionSafe
PROOF
<1>1. ASSUME Safe, [Next]_vars, CreateSession \/ EvictExpired \/ EvictLru,
             NEW s \in Removed
      PROVE  /\ s \in DOMAIN ctl.activity
             /\ \A id \in ctl.tracked : turns[id].session # s
  <2>1. config' = config
    BY <1>1 DEF Next, vars
  <2>2. s \in sessions \ sessions'
    BY DEF Removed
  <2>3. Eligible(World, s)
    <3>1. CASE CreateSession
      BY <1>1, <2>1, <2>2, <3>1, CreateSessionKept
    <3>2. CASE EvictExpired
      BY <1>1, <2>1, <2>2, <3>2, EvictExpiredKept
    <3>3. CASE EvictLru
      BY <1>1, <2>1, <2>2, <3>3, EvictLruKept
    <3> QED BY <1>1, <3>1, <3>2, <3>3
  <2> QED BY <1>1, <2>3, EligibleIsFree
<1>2. Safe /\ [Next]_vars =>
        [CreateSession \/ EvictExpired \/ EvictLru =>
           \A s \in Removed :
             /\ s \in DOMAIN ctl.activity
             /\ \A id \in ctl.tracked : turns[id].session # s]_vars
  BY <1>1
<1> QED BY <1>2, ServingIsSafe, PTL DEF Spec, EvictionSafe

(* What create_session has swept, and what it has evicted on top.          *)
LEMMA CreationEvicts ==
  ASSUME Safe, CreateSession, NEW u, u = Swept(World),
         NEW s \in sessions \ sessions'
  PROVE  \/ s \notin u.sessions
         \/ /\ s \in u.sessions /\ MakesRoom(u)
            /\ next_session' = next_session + 1
PROOF
<1>1. PICK w : w = Pressed
  OBVIOUS
<1>2. w = IF MakesRoom(u) THEN LruEvicted(u) ELSE u
  BY <1>1 DEF Pressed
<1> DEFINE room == /\ MaxSessions # Unlimited =>
                        Cardinality(w.sessions) < MaxSessions
                   /\ Cardinality(w.sessions) < Slots
           r == w.sessions \cup {next_session}
           a == With(w.ctl.activity, next_session, now)
           x == [w EXCEPT !.sessions = r, !.ctl.activity = a]
<1>3. IF room THEN Becomes(x) /\ next_session' = next_session + 1
      ELSE Becomes(w) /\ UNCHANGED next_session
  BY <1>1 DEF CreateSession, Pressed
<1>4. /\ Shrinks(World, u) /\ Shrinks(World, w) /\ Sound(u)
      /\ u.sessions \subseteq sessions
  <2>1. Sound(World)
    BY DEF Safe
  <2>2. Shrinks(World, u)
    BY <2>1, SweptShrinks
  <2>3. Sound(u)
    BY <2>1, <2>2, ShrinksSound
  <2>4. Shrinks(World, w)
    BY <1>1, PressedShrinks
  <2>5. u.sessions \subseteq sessions
    BY <2>2, WorldFields DEF Shrinks
  <2> QED BY <2>2, <2>3, <2>4, <2>5
<1>5. s \notin w.sessions
  <2>1. IsWorld(w)
    BY <1>4 DEF Shrinks
  <2>2. x.sessions = r
    <3> HIDE DEF r, a
    <3> QED BY <2>1 DEF IsWorld
  <2>3. sessions' = w.sessions \/ sessions' = r
    <3> HIDE DEF x, r, room
    <3> QED BY <1>3, <2>2 DEF Becomes
  <2> QED BY <2>3
<1>6. ASSUME s \in u.sessions
      PROVE  MakesRoom(u) /\ next_session' = next_session + 1
  <2>1. MakesRoom(u) /\ w = LruEvicted(u)
    BY <1>2, <1>5, <1>6
  <2>2. w.sessions \subseteq u.sessions /\ w.sessions # u.sessions
    BY <1>4, <1>5, <1>6, <2>1, LruShrinks DEF Shrinks
  <2>3. IsFiniteSet(sessions) /\ Slots \in Nat /\ Cardinality(sessions) <= Slots
    BY FiniteSessions DEF Safe, CountersSound
  <2>4. IsFiniteSet(u.sessions) /\ Cardinality(u.sessions) <= Cardinality(sessions)
    BY <1>4, <2>3, FS_Subset
  <2>5. IsFiniteSet(w.sessions)
        /\ Cardinality(w.sessions) <= Cardinality(u.sessions)
        /\ Cardinality(w.sessions) # Cardinality(u.sessions)
    BY <2>2, <2>4, FS_Subset
  <2>6. /\ Cardinality(sessions) \in Nat /\ Cardinality(u.sessions) \in Nat
        /\ Cardinality(w.sessions) \in Nat
    BY <2>3, <2>4, <2>5, FS_CardinalityType
  <2>7. Cardinality(u.sessions) = MaxSessions
    BY <2>1 DEF MakesRoom
  <2>8. room
    BY <2>3, <2>4, <2>5, <2>6, <2>7
  <2> HIDE DEF room
  <2> QED BY <1>3, <2>1, <2>8
<1> QED BY <1>6

(* A session whose TTL has not passed is evicted only by a creation that   *)
(* then succeeds.                                                          *)
THEOREM ServingEvictsForAPlace == Spec => EvictionPays
PROOF
<1>1. ASSUME Safe, CreateSession,
             NEW s \in Removed, Ttl = NoTtl \/ now - ctl.activity[s] < Ttl
      PROVE  next_session' = next_session + 1
  <2>1. PICK u : u = Swept(World)
    OBVIOUS
  <2>2. s \in sessions \ sessions'
    BY DEF Removed
  <2>3. s \in u.sessions
    <3>1. SUFFICES ASSUME s \notin u.sessions PROVE FALSE
      OBVIOUS
    <3>2. /\ Eligible(World, s) /\ Ttl # NoTtl
          /\ now - ctl.activity[s] >= Ttl
      BY <1>1, <2>1, <2>2, <3>1, SweptShrinks, WorldFields DEF Safe
    <3>3. now \in Nat /\ Ttl \in Nat /\ ctl.activity[s] \in Nat
      <4>1. Ttl \in Nat
        BY <1>1, <3>2, ServingAssumption DEF Safe, CountersSound, Ttl
      <4>2. s \in DOMAIN ctl.activity
        BY <3>2, WorldFields DEF Eligible
      <4> QED BY <1>1, <4>1, <4>2, WorldFields DEF Safe, CountersSound, Sound
    <3> QED BY <1>1, <3>2, <3>3
  <2> QED BY <1>1, <2>1, <2>2, <2>3, CreationEvicts
<1>2. Safe /\ [Next]_vars =>
        [(/\ Removed # {} /\ CreateSession
          /\ \E s \in Removed : Ttl = NoTtl \/ now - ctl.activity[s] < Ttl)
           => next_session' = next_session + 1]_vars
  BY <1>1
<1> QED BY <1>2, ServingIsSafe, PTL DEF Spec, EvictionPays

(* A session that expires has shown no sign of life for its whole TTL.     *)
THEOREM ServingExpiresTheIdle == Spec => IdleForTtl
PROOF
<1>1. ASSUME Safe, EvictExpired \/ (CreateSession /\ ~MakesRoom(Swept(World))),
             NEW s \in Removed
      PROVE  now - used[s] >= Ttl
  <2>1. PICK u : u = Swept(World)
    OBVIOUS
  <2>2. s \in sessions /\ s \notin sessions'
    BY DEF Removed
  <2>3. s \notin u.sessions
    <3>1. CASE EvictExpired
      BY <2>1, <2>2, <3>1 DEF EvictExpired, Becomes
    <3>2. CASE CreateSession /\ ~MakesRoom(Swept(World))
      BY <1>1, <2>1, <2>2, <3>2, CreationEvicts
    <3> QED BY <1>1, <3>1, <3>2
  <2>4. /\ Eligible(World, s) /\ Ttl # NoTtl
        /\ now - ctl.activity[s] >= Ttl
    BY <1>1, <2>1, <2>2, <2>3, SweptShrinks, WorldFields DEF Safe
  <2>5. s \in DOMAIN ctl.activity
    BY <2>4, WorldFields DEF Eligible
  <2>6. now \in Nat /\ Ttl \in Nat /\ ctl.activity[s] \in Nat
    <3>1. Ttl \in Nat
      BY <1>1, <2>4, ServingAssumption DEF Safe, CountersSound, Ttl
    <3> QED BY <1>1, <2>5, <3>1, WorldFields DEF Safe, CountersSound, Sound
  <2>7. used[s] \in 0..now /\ used[s] <= ctl.activity[s]
    BY <1>1, <2>2, <2>5 DEF Safe, ActivitySound
  <2> QED BY <2>4, <2>6, <2>7
<1>2. Safe /\ [Next]_vars =>
        [(/\ Removed # {}
          /\ EvictExpired \/ (CreateSession /\ ~MakesRoom(Swept(World)))) =>
           \A s \in Removed : now - used[s] >= Ttl]_vars
  BY <1>1
<1> QED BY <1>2, ServingIsSafe, PTL DEF Spec, IdleForTtl
=============================================================================
