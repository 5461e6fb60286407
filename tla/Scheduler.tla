----------------------------- MODULE Scheduler ------------------------------
(***************************************************************************)
(* The request scheduler over the session manager and the sequence store.  *)
(* A request is a legacy one, which creates a sequence and retires it when *)
(* it ends, or one turn of a session, which appends to the session's       *)
(* sequence and leaves it.  step() advances every live request by one      *)
(* token, consecutive decoding ones in one batched forward.                *)
(*                                                                         *)
(* The program is single-threaded: no other call happens inside step() or  *)
(* run().  step() is split at each advance, so that an invariant is        *)
(* checked between any two of them.                                        *)
(***************************************************************************)
EXTENDS SequenceStore, SequencesExt

CONSTANTS
  MaxRequests,         \* bound of admissions
  Prompts, Limits,     \* the prompt lengths and max_new_tokens in use
  MaxResets,           \* bound of a session's reset_count
  SupportsBatch        \* the forwarder batches

ASSUME SchedulerAssumption ==
  /\ {MaxSeqLen, PageTokens, KvPages, DeltaSlots, MaxId} \subseteq Nat \ {0}
  /\ {MaxRequests, MaxResets} \subseteq Nat
  /\ Prompts \subseteq Nat \ {0} /\ Limits \subseteq Nat
  /\ IsFiniteSet(Prompts) /\ IsFiniteSet(Limits)
  /\ SupportsBatch \in BOOLEAN

VARIABLES
  sessions,            \* live session id -> [sequence, reset_count]
  next_session,
  requests,            \* request id -> Request, never erased
  next_request,
  stats,               \* forward calls: attempts and commits
  queue,               \* what is left of the snapshot of the current step()
  serial,              \* of it: a batch that did not fit, row by row
  loop,                \* run(): its iteration and bound
  fatal                \* scheduler_fatal was called: the process aborts

vars == <<len, next_id, sessions, next_session, requests, next_request, stats,
          queue, serial, loop, fatal>>

NoSession == 0

(* A sampled token is the request's EOS or another one.  With either one,  *)
(* "fault" is the outcome of sampling: the logits copy failed, or the      *)
(* sampler returned no valid token.                                        *)
Tokens == {"eos", "word"}
Outcomes == Tokens \cup {"fault"}

TerminalStatuses == {"Finished", "Cancelled", "Failed"}

Terminal(r) == r.status \in TerminalStatuses
SessionBound(r) == r.session # NoSession
Prefilling(r) == r.prefill_pos < r.prompt
Pending(r) == Len(r.generated) > r.committed
DecodeReady(r) == ~Prefilling(r) /\ Pending(r)

Alive == {id \in DOMAIN requests : ~Terminal(requests[id])}
Busy(s) == \E id \in Alive : requests[id].session = s

-----------------------------------------------------------------------------
(* The state an advance works on, as a value: a step of the model is a     *)
(* chain of operations on it.                                              *)
World == [len |-> len, requests |-> requests, stats |-> stats, fatal |-> fatal]

Becomes(w) == /\ len' = w.len
              /\ requests' = w.requests
              /\ stats' = w.stats
              /\ fatal' = w.fatal
              /\ UNCHANGED next_id

(* finish: a request ends, for a reason.                                   *)
Ended(r, status, reason) ==
  [r EXCEPT !.status = status, !.finish_reason = reason]

Failed(r) == Ended(r, "Failed", "Failed")

(* EOS first, then max_new_tokens, on the count-th generated token.        *)
StopOn(r, token, count) ==
  CASE token = "eos" -> Ended(r, "Finished", "Eos")
    [] token # "eos" /\ count >= r.max_new ->
         Ended(r, "Finished", "MaxNewTokens")
    [] OTHER -> r

(* One successful forward of a token of the request.                       *)
Forwarded(r) ==
  [r EXCEPT !.forward_count = @ + 1,
            !.status = "Running",
            !.prefill_pos = IF Prefilling(r) THEN @ + 1 ELSE @]

(* Mutant of Committed: the stop check looks at the count only.            *)
CommittedIgnoringEos(r) ==
  IF SessionBound(r)
  THEN StopOn([r EXCEPT !.committed = @ + 1], "word", r.committed + 1)
  ELSE r

(* A decode forward of a session's turn commits the pending token, and the *)
(* turn stops on what is committed.                                        *)
Committed(r) ==
  IF SessionBound(r)
  THEN StopOn([r EXCEPT !.committed = @ + 1],
              r.generated[r.committed + 1], r.committed + 1)
  ELSE r

(* Mutant of SampledNext: a request whose sampling failed stays live.      *)
SampledNextSkippingFault(r, o) ==
  LET wants == ~Terminal(r) /\ ~Prefilling(r)
      sampled == [r EXCEPT !.generated = Append(@, o)]
  IN  CASE ~wants \/ o = "fault" -> r
        [] wants /\ r.max_new = 0 -> Ended(r, "Finished", "MaxNewTokens")
        [] OTHER -> IF SessionBound(r) THEN sampled
                    ELSE StopOn(sampled, o, Len(r.generated) + 1)

(* The next token is sampled once the prompt is in, unless the request has *)
(* ended or generates nothing.  A legacy request stops on a sampled token. *)
SampledNext(r, o) ==
  LET wants == ~Terminal(r) /\ ~Prefilling(r)
      sampled == [r EXCEPT !.generated = Append(@, o)]
  IN  CASE ~wants -> r
        [] wants /\ r.max_new = 0 -> Ended(r, "Finished", "MaxNewTokens")
        [] wants /\ r.max_new > 0 /\ o = "fault" -> Failed(r)
        [] OTHER -> IF SessionBound(r) THEN sampled
                    ELSE StopOn(sampled, o, Len(r.generated) + 1)

(* Mutant of Settled: a session's turn retires the sequence too.           *)
SettledRetiringAlways(w, f) ==
  LET gone == {id \in DOMAIN f : Terminal(f[id])
                                   /\ ~Terminal(w.requests[id])}
      retired == {f[id].sequence : id \in gone}
  IN  [w EXCEPT !.requests = [id \in DOMAIN @ |-> IF id \in DOMAIN f
                                                  THEN f[id] ELSE @[id]],
                !.len = Restrict(@, DOMAIN @ \ retired)]

(* The requests become f, the ones in DOMAIN f.  A legacy request that     *)
(* ends retires its sequence, which has to be live.                        *)
Settled(w, f) ==
  LET gone == {id \in DOMAIN f : /\ Terminal(f[id])
                                 /\ ~Terminal(w.requests[id])
                                 /\ ~SessionBound(f[id])}
      retired == {f[id].sequence : id \in gone}
  IN  [w EXCEPT !.requests = [id \in DOMAIN @ |-> IF id \in DOMAIN f
                                                  THEN f[id] ELSE @[id]],
                !.len = Restrict(@, DOMAIN @ \ retired),
                !.fatal = @ \/ ~(retired \subseteq DOMAIN w.len)]

(* The forward counters: attempts, committed singles, batches, their rows. *)
Counted(w, attempts, singles, batches, rows) ==
  [w EXCEPT !.stats = [single |-> @.single + attempts,
                       successful |-> @.successful + singles,
                       batch |-> @.batch + batches,
                       batched |-> @.batched + rows]]

Decoded(r) == IF Prefilling(r) THEN Forwarded(r) ELSE Committed(Forwarded(r))

Longer(w, ids) ==
  [w EXCEPT !.len = Lengthened(@, {w.requests[id].sequence : id \in ids})]

(* Mutant of AdvanceOne: a request whose forward failed stays live.        *)
AdvanceOneRetrying(w, id, o) ==
  LET r == w.requests[id]
  IN  IF Terminal(r) \/ ~Fits(w.len, {r.sequence}) THEN w
      ELSE Settled(Longer(Counted(w, 1, 1, 0, 0), {id}),
                   [i \in {id} |-> SampledNext(Decoded(r), o)])

(* advance_one: one forward, and what follows from it.                     *)
AdvanceOne(w, id, o) ==
  LET r == w.requests[id]
  IN  CASE Terminal(r) -> w
        [] ~Terminal(r) /\ ~Prefilling(r) /\ ~Pending(r) ->
             [w EXCEPT !.fatal = TRUE]
        [] ~Terminal(r) /\ (Prefilling(r) \/ Pending(r))
             /\ ~Fits(w.len, {r.sequence}) ->
             Settled(Counted(w, 1, 0, 0, 0), [i \in {id} |-> Failed(r)])
        [] OTHER -> Settled(Longer(Counted(w, 1, 1, 0, 0), {id}),
                            [i \in {id} |-> SampledNext(Decoded(r), o)])

(* Mutant of BatchedAdvance: the rows that ended on their commit are not   *)
(* skipped when the logits copy fails.                                     *)
BatchedAdvanceFailingAll(w, rows, o) ==
  LET done == Longer(Counted(w, 0, 0, 1, Cardinality(rows)), rows)
      committed == [id \in rows |-> Committed(Forwarded(w.requests[id]))]
  IN  Settled(done, [id \in rows |-> IF \A i \in rows : o[i] = "fault"
                                     THEN Failed(committed[id])
                                     ELSE SampledNext(committed[id], o[id])])

(* Mutant of BatchedAdvance: forward_count moves only with the sampling.   *)
BatchedAdvanceCountingLate(w, rows, o) ==
  LET done == Longer(Counted(w, 0, 0, 1, Cardinality(rows)), rows)
      committed == [id \in rows |-> Committed(Forwarded(w.requests[id]))]
      late(id) == [SampledNext(committed[id], o[id])
                     EXCEPT !.forward_count = w.requests[id].forward_count]
  IN  Settled(done, [id \in rows |-> IF o[id] = "fault" THEN late(id)
                                     ELSE SampledNext(committed[id], o[id])])

(* The forward of the whole batch, every row's commit and stop check, then *)
(* one copy of the logits and every remaining row's sampling.  All rows    *)
(* "fault" when the copy fails.                                            *)
BatchedAdvance(w, rows, o) ==
  LET done == Longer(Counted(w, 0, 0, 1, Cardinality(rows)), rows)
      committed == [id \in rows |-> Committed(Forwarded(w.requests[id]))]
  IN  Settled(done, [id \in rows |-> SampledNext(committed[id], o[id])])

(* Row by row, in ascending order: the last one is the largest.            *)
SerialAdvance(w, rows, o) ==
  MapThenFoldSet(LAMBDA id, x : AdvanceOne(x, id, o[id]), w,
                 LAMBDA id : id, Max, rows)

(* The zero-mutation preflight of a batch.                                 *)
BatchFits(w, rows) ==
  /\ Fits(w.len, {w.requests[id].sequence : id \in rows})
  /\ \A i, j \in rows :
       w.requests[i].sequence = w.requests[j].sequence => i = j

-----------------------------------------------------------------------------
Init == /\ StoreInit
        /\ sessions = <<>> /\ next_session = 1
        /\ requests = <<>> /\ next_request = 1
        /\ stats = [single |-> 0, successful |-> 0, batch |-> 0, batched |-> 0]
        /\ queue = {} /\ serial = {}
        /\ loop = [running |-> FALSE, i |-> 0, bound |-> 0]
        /\ fatal = FALSE

Idle == queue = {} /\ ~loop.running /\ ~fatal

NewRequest(q, s, n, m) ==
  [sequence |-> q, session |-> s, prompt |-> n, max_new |-> m,
   prefill_pos |-> 0, generated |-> <<>>, committed |-> 0,
   forward_count |-> 0, status |-> "Waiting", finish_reason |-> "None"]

Register(r) == /\ next_request <= MaxRequests
               /\ requests' = With(requests, next_request, r)
               /\ next_request' = next_request + 1
               /\ UNCHANGED <<stats, queue, serial, loop, fatal>>

FitsContext(l, n, m) == l + n + m <= MaxSeqLen

(* The last token of a legacy request is sampled and never forwarded.      *)
Admit(n, m) == /\ Idle
               /\ m >= 1
               /\ FitsContext(0, n, m - 1)
               /\ Create
               /\ Register(NewRequest(next_id, NoSession, n, m))
               /\ UNCHANGED <<sessions, next_session>>

(* Mutant of AdmitSessionTurn: a busy session takes another turn.          *)
AdmitSessionTurnWhenBusy(s, n, m) ==
  /\ Idle
  /\ s \in DOMAIN sessions
  /\ FitsContext(len[sessions[s].sequence], n, m)
  /\ Register(NewRequest(sessions[s].sequence, s, n, m))
  /\ UNCHANGED <<len, next_id, sessions, next_session>>

AdmitSessionTurn(s, n, m) ==
  /\ Idle
  /\ s \in DOMAIN sessions
  /\ ~Busy(s)
  /\ FitsContext(len[sessions[s].sequence], n, m)
  /\ Register(NewRequest(sessions[s].sequence, s, n, m))
  /\ UNCHANGED <<len, next_id, sessions, next_session>>

(* Cancelling a request that has ended changes nothing and succeeds.       *)
Cancel(id) ==
  /\ Idle
  /\ IF Terminal(requests[id]) THEN UNCHANGED vars
     ELSE /\ Becomes(Settled(World, [i \in {id} |->
                       Ended(requests[id], "Cancelled", "Cancelled")]))
          /\ UNCHANGED <<sessions, next_session, next_request, queue, serial,
                         loop>>

CreateSession ==
  /\ Idle
  /\ Create
  /\ sessions' = With(sessions, next_session,
                      [sequence |-> next_id, reset_count |-> 0])
  /\ next_session' = next_session + 1
  /\ UNCHANGED <<requests, next_request, stats, queue, serial, loop, fatal>>

(* Neither looks at whether the session has a live turn.                   *)
ResetSession(s) ==
  /\ Idle
  /\ sessions[s].reset_count < MaxResets
  /\ Reset(sessions[s].sequence)
  /\ sessions' = [sessions EXCEPT ![s].reset_count = @ + 1]
  /\ UNCHANGED <<next_session, requests, next_request, stats, queue, serial,
                 loop, fatal>>

DestroySession(s) ==
  /\ Idle
  /\ Retire(sessions[s].sequence)
  /\ sessions' = Restrict(sessions, DOMAIN sessions \ {s})
  /\ UNCHANGED <<next_session, requests, next_request, stats, queue, serial,
                 loop, fatal>>

-----------------------------------------------------------------------------
(* run(): its bound is the sum of the forwards the live requests may make. *)
ForwardBound(r) == r.prompt + IF SessionBound(r) THEN r.max_new
                              ELSE r.max_new - 1

BeginRun ==
  /\ Idle
  /\ Alive # {}
  /\ loop' = [running |-> TRUE, i |-> 0,
              bound |-> SumFunction([id \in Alive |->
                                       ForwardBound(requests[id])])]
  /\ UNCHANGED <<len, next_id, sessions, next_session, requests, next_request,
                 stats, queue, serial, fatal>>

EndRun ==
  /\ loop.running /\ queue = {} /\ Alive = {}
  /\ loop' = [running |-> FALSE, i |-> 0, bound |-> 0]
  /\ UNCHANGED <<len, next_id, sessions, next_session, requests, next_request,
                 stats, queue, serial, fatal>>

(* step(), called by run() or by itself: the live requests are snapshot,   *)
(* to be advanced in admission order, which is that of their ids.  run()   *)
(* aborts when its bound is exceeded.                                      *)
BeginStep ==
  /\ queue = {} /\ ~fatal
  /\ Alive # {}
  /\ queue' = Alive
  /\ fatal' = (loop.running /\ loop.i > loop.bound)
  /\ loop' = IF loop.running THEN [loop EXCEPT !.i = @ + 1] ELSE loop
  /\ UNCHANGED <<len, next_id, sessions, next_session, requests, next_request,
                 stats, serial>>

(* The first ones of what is left that can all decode in one batch.        *)
Cohort == {id \in queue : \A i \in queue : i <= id =>
             ~Terminal(requests[i]) /\ DecodeReady(requests[i])}

AsBatch == /\ Cardinality(Cohort) >= 2 /\ SupportsBatch
           /\ serial = {} /\ ~fatal

AdvanceSingle ==
  /\ queue # {} /\ ~fatal /\ ~AsBatch
  /\ queue' = queue \ {Min(queue)}
  /\ serial' = serial \ {Min(queue)}
  /\ UNCHANGED <<sessions, next_session, next_request, loop>>
  /\ \E o \in Outcomes : Becomes(AdvanceOne(World, Min(queue), o))

AdvanceCohort ==
  /\ AsBatch /\ BatchFits(World, Cohort)
  /\ queue' = queue \ Cohort
  /\ UNCHANGED <<sessions, next_session, next_request, serial, loop>>
  /\ \E o \in [Cohort -> Outcomes] :
       Becomes(BatchedAdvance(World, Cohort, o))

(* The preflight failed and changed nothing: the rows advance one by one.  *)
FallBack ==
  /\ AsBatch /\ ~BatchFits(World, Cohort)
  /\ serial' = Cohort
  /\ UNCHANGED <<len, next_id, sessions, next_session, requests, next_request,
                 stats, queue, loop, fatal>>

Driver == BeginStep \/ AdvanceSingle \/ AdvanceCohort \/ FallBack \/ EndRun

(* Inside a call; an aborted process is in none.                           *)
InCall == (loop.running \/ queue # {}) /\ ~fatal

(* A call that is refused returns an error and changes nothing.            *)
Rejected == ~InCall /\ UNCHANGED vars

Next ==
  \/ \E n \in Prompts, m \in Limits :
       Admit(n, m) \/ \E s \in DOMAIN sessions : AdmitSessionTurn(s, n, m)
  \/ \E id \in DOMAIN requests : Cancel(id)
  \/ CreateSession
  \/ \E s \in DOMAIN sessions : ResetSession(s) \/ DestroySession(s)
  \/ BeginRun
  \/ Driver
  \/ Rejected

(* Inside a call nothing waits, so the program does not stay there without *)
(* a step: weak fairness of Driver, which is enabled exactly then (else    *)
(* TLC would report a deadlock) and is costly to evaluate ENABLED of.  No  *)
(* caller has to make any call.                                            *)
Fairness == []<>~InCall \/ []<><<InCall>>_vars

Spec == Init /\ [][Next]_vars /\ Fairness
-----------------------------------------------------------------------------
(* No call ever reaches scheduler_fatal: a request that ends retires a     *)
(* live sequence, a decode always has a pending token, and run() is done   *)
(* within its bound whatever fails or is out of pages.                     *)
NeverFatal == ~fatal

(* The live sequences are those of the sessions and of the legacy requests *)
(* that have not ended, one each: a session outlives its turns, a legacy   *)
(* request retires its sequence once, and nothing leaks or is shared.      *)
OwnersOfSequences ==
  LET owning == {id \in Alive : ~SessionBound(requests[id])}
      bySession == {sessions[s].sequence : s \in DOMAIN sessions}
      byRequest == {requests[id].sequence : id \in owning}
  IN  /\ Live = bySession \cup byRequest
      /\ Cardinality(Live) = Cardinality(DOMAIN sessions) + Cardinality(owning)

(* What CommitContract says of a request.                                  *)
Contract(r) ==
  LET m == Len(r.generated)
      decoded == r.forward_count - r.prefill_pos
  IN  /\ m - decoded \in {0, 1}
      /\ m > 0 => ~Prefilling(r)
      /\ SessionBound(r) => decoded = r.committed
      /\ \A i \in 1..m - 1 : r.generated[i] # "eos"
      /\ ~Terminal(r) => /\ Prefilling(r) <=> ~Pending(r)
                         /\ \A i \in 1..decoded : r.generated[i] # "eos"
      /\ r.status = "Finished" =>
           /\ ~Prefilling(r)
           /\ decoded = IF SessionBound(r) THEN m ELSE m - 1
           /\ \/ r.finish_reason = "Eos" /\ r.generated[m] = "eos"
              \/ r.finish_reason = "MaxNewTokens" /\ m = r.max_new

(* "sampled # committed": at any time all generated tokens but at most one *)
(* have been forwarded, for a turn those are the committed ones, and none  *)
(* follows an EOS.  A live request always has something to forward.  One   *)
(* that finishes stops for what it says: a turn with all m tokens forward- *)
(* ed (N + m forwards), a legacy request with the last one not forwarded   *)
(* (N + m - 1), neither before its limit nor past it.                      *)
CommitContract == \A id \in DOMAIN requests : Contract(requests[id])

ForwardsOf(ids) ==
  SumFunction([id \in ids |-> requests[id].forward_count])

(* No token is in a state that no request accounts for, and none that is   *)
(* accounted for is missing: across batches, failures and cancellations a  *)
(* session that was never reset holds what its turns forwarded, and a      *)
(* legacy sequence what its request forwarded.  The counters say the same: *)
(* logical token forwards are the forwards of the requests, an attempt     *)
(* that commits nothing ends a request, a batch has at least two rows.     *)
Conservation ==
  /\ \A s \in DOMAIN sessions : sessions[s].reset_count = 0 =>
       len[sessions[s].sequence] =
         ForwardsOf({id \in DOMAIN requests : requests[id].session = s})
  /\ \A id \in Alive : ~SessionBound(requests[id]) =>
       len[requests[id].sequence] = requests[id].forward_count
  /\ stats.successful + stats.batched = ForwardsOf(DOMAIN requests)
  /\ stats.single - stats.successful \in
       0..Cardinality({id \in DOMAIN requests : requests[id].status = "Failed"})
  /\ stats.batched >= 2 * stats.batch

(* Admission is enough: whatever a live request still may forward has a    *)
(* position in its sequence, also when sessions are reset under it, so a   *)
(* forward fails for want of a page or because the session is gone.        *)
AdmissionCovers ==
  \A id \in Alive :
    LET r == requests[id]
    IN  r.sequence \in Live =>
          len[r.sequence] + ForwardBound(r) - r.forward_count <= MaxSeqLen

(* A batched step leaves exactly what the serial steps of its rows would   *)
(* leave, whatever is sampled and whichever copies or samplings fail.      *)
BatchIsSerial ==
  LET rows == Cohort
      view(w) == <<w.len, w.requests, w.fatal>>
  IN  (Cardinality(rows) >= 2 /\ BatchFits(World, rows)) =>
        \A o \in [rows -> Outcomes] :
          view(BatchedAdvance(World, rows, o)) =
            view(SerialAdvance(World, rows, o))

(* A step that began comes to its end, and run() returns: every request    *)
(* ends although forwards, copies and samplings fail.                      *)
RunReturns == /\ queue # {} ~> queue = {}
              /\ loop.running ~> ~loop.running

(* What the scheduler promises to the layers above: the turns of sessions  *)
(* as Turns sees them.  Each advance, single or batched, whatever is out   *)
(* of pages or fails in it, is one forward of each of some live turns.     *)
TurnOf(r) ==
  [session |-> r.session, prompt |-> r.prompt,
   left |-> r.prompt - r.prefill_pos, max_new |-> r.max_new,
   committed |-> r.committed,
   status |-> IF Terminal(r) THEN r.status ELSE "Live"]

SessionTurns ==
  [id \in {i \in DOMAIN requests : SessionBound(requests[i])} |->
     TurnOf(requests[id])]

T == INSTANCE Turns WITH sessions <- DOMAIN sessions, turns <- SessionTurns
ImplementsTurns == T!Spec

(* include/cudalm/session.h:36-37 of a reset session: "Afterwards the      *)
(* session behaves EXACTLY like a fresh one."  A fresh one has no turn     *)
(* that goes on after part of its tokens were erased.                      *)
ResetIsFresh ==
  [][\A s \in DOMAIN sessions \cap DOMAIN sessions' :
       sessions'[s].reset_count > sessions[s].reset_count =>
         \A id \in Alive' :
           requests'[id].session = s => requests'[id].forward_count = 0]_vars
=============================================================================
