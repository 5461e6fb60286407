--------------------------- MODULE SchedulerProofs ---------------------------
(***************************************************************************)
(* The safety of the scheduler, for every number of sessions, requests and *)
(* pages.                                                                  *)
(***************************************************************************)
EXTENDS Scheduler, FiniteSetTheorems, SequenceTheorems, WellFoundedInduction,
        NaturalsInduction, Summation, TLAPS

Reasons == {"None", "Eos", "MaxNewTokens", "Cancelled", "Failed"}

Requests ==
  [sequence : Nat, session : Nat, prompt : Nat \ {0}, max_new : Nat,
   prefill_pos : Nat, generated : Seq(Tokens), committed : Nat,
   forward_count : Nat, status : {"Waiting", "Running"} \cup TerminalStatuses,
   finish_reason : Reasons]

(* What a live request has done, beyond Contract: each token past the      *)
(* prompt is forwarded one forward after it was sampled, and what ends the *)
(* request has not happened yet.                                           *)
Underway(r) ==
  LET m == Len(r.generated)
  IN  /\ Prefilling(r) => m = 0 /\ r.forward_count = r.prefill_pos
      /\ ~Prefilling(r) => m = r.forward_count - r.prefill_pos + 1
      /\ m <= r.max_new
      /\ ~SessionBound(r) => /\ m < r.max_new
                             /\ \A i \in 1..m : r.generated[i] # "eos"

RequestSound(r) ==
  /\ r \in Requests
  /\ r.prefill_pos <= r.prompt /\ r.prefill_pos <= r.forward_count
  /\ ~SessionBound(r) => r.committed = 0
  /\ Contract(r)
  /\ ~Terminal(r) => Underway(r)

Stats == [single : Nat, successful : Nat, batch : Nat, batched : Nat]
Loops == [running : BOOLEAN, i : Nat, bound : Nat]

TypeSound ==
  /\ {next_id, next_session, next_request} \subseteq Nat \ {0}
  /\ len \in [DOMAIN len -> Nat] /\ DOMAIN len \subseteq 1..next_id - 1
  /\ sessions \in [DOMAIN sessions -> [sequence : Nat, reset_count : Nat]]
  /\ DOMAIN sessions \subseteq 1..next_session - 1
  /\ requests \in [1..next_request - 1 -> Requests]
  /\ \A id \in DOMAIN requests : /\ RequestSound(requests[id])
                                 /\ requests[id].session < next_session
                                 /\ requests[id].sequence < next_id
  /\ stats \in Stats /\ loop \in Loops /\ fatal \in BOOLEAN
  /\ queue \subseteq DOMAIN requests /\ serial \subseteq queue

LegacyAlive == {id \in Alive : ~SessionBound(requests[id])}

(* Each live sequence has one owner, and the turns of a session are on its *)
(* sequence for as long as it lives.                                       *)
OwnersSound ==
  /\ \A s \in DOMAIN sessions : sessions[s].sequence \in Live
  /\ \A s, t \in DOMAIN sessions :
       sessions[s].sequence = sessions[t].sequence => s = t
  /\ \A id \in LegacyAlive : requests[id].sequence \in Live
  /\ \A i, j \in LegacyAlive :
       requests[i].sequence = requests[j].sequence => i = j
  /\ \A s \in DOMAIN sessions, id \in LegacyAlive :
       sessions[s].sequence # requests[id].sequence
  /\ \A q \in Live : \/ \E s \in DOMAIN sessions : q = sessions[s].sequence
                     \/ \E id \in LegacyAlive : q = requests[id].sequence
  /\ \A id \in DOMAIN requests : SessionBound(requests[id]) =>
       LET s == requests[id].session
       IN  IF s \in DOMAIN sessions
           THEN requests[id].sequence = sessions[s].sequence
           ELSE requests[id].sequence \notin Live
  /\ \A i, j \in Alive :
       SessionBound(requests[i]) /\ requests[i].session = requests[j].session
         => i = j

(* run() forwards every live request once in each of its iterations.       *)
LoopSound ==
  loop.running =>
    \A id \in Alive :
      /\ ForwardBound(requests[id]) <= loop.bound
      /\ loop.i <= requests[id].forward_count + IF id \in queue THEN 1 ELSE 0

Safe == /\ TypeSound /\ OwnersSound /\ LoopSound
        /\ AdmissionCovers /\ Conservation /\ NeverFatal
(* The fields by which the rest of the model knows a request.              *)
SameTurn(r, x) == /\ x.sequence = r.sequence /\ x.session = r.session
                  /\ x.prompt = r.prompt /\ x.max_new = r.max_new

(* A request that is cancelled or fails keeps what it has done.            *)
LEMMA EndedSound ==
  ASSUME NEW r, RequestSound(r), NEW p, NEW x,
         p \in {"Cancelled", "Failed"}, x = Ended(r, p, p)
  PROVE  /\ RequestSound(x) /\ SameTurn(r, x) /\ Terminal(x)
         /\ x.forward_count = r.forward_count
PROOF
<1>1. /\ x \in Requests /\ SameTurn(r, x) /\ x.status = p
      /\ x.forward_count = r.forward_count /\ x.generated = r.generated
      /\ x.prefill_pos = r.prefill_pos /\ x.committed = r.committed
  BY DEF RequestSound, Requests, Ended, SameTurn, TerminalStatuses, Reasons
<1>2. Terminal(x) /\ x.status # "Finished"
  BY <1>1 DEF Terminal, TerminalStatuses
<1>3. Prefilling(x) = Prefilling(r) /\ SessionBound(x) = SessionBound(r)
  BY <1>1 DEF Prefilling, SessionBound, SameTurn
<1>4. Contract(x)
  BY <1>1, <1>2, <1>3 DEF RequestSound, Contract
<1> QED BY <1>1, <1>2, <1>3, <1>4 DEF RequestSound, SameTurn, Requests

(* What a live request looks like once one of its tokens was forwarded,    *)
(* and, for a turn, committed, if it has not ended by that.                *)
Progressed(r) ==
  LET m == Len(r.generated)
  IN  /\ Prefilling(r) => m = 0 /\ r.forward_count = r.prefill_pos
      /\ ~Prefilling(r) => m = r.forward_count - r.prefill_pos
      /\ m <= r.max_new
      /\ SessionBound(r) /\ m > 0 => m < r.max_new
      /\ ~SessionBound(r) => m < r.max_new
      /\ \A i \in 1..m : r.generated[i] # "eos"

SampleReady(r) ==
  /\ r \in Requests
  /\ r.prefill_pos <= r.prompt /\ r.prefill_pos <= r.forward_count
  /\ ~SessionBound(r) => r.committed = 0
  /\ SessionBound(r) => r.committed = r.forward_count - r.prefill_pos
  /\ r.status = "Running"
  /\ Progressed(r)

(* A forward of a live request.                                            *)
LEMMA ForwardedReady ==
  ASSUME NEW r, RequestSound(r), ~Terminal(r), NEW x, x = Forwarded(r)
  PROVE  /\ x \in Requests /\ SameTurn(r, x) /\ x.generated = r.generated
         /\ x.forward_count = r.forward_count + 1
         /\ x.committed = r.committed /\ x.status = "Running"
         /\ x.prefill_pos = IF Prefilling(r) THEN r.prefill_pos + 1
                                             ELSE r.prefill_pos
PROOF
<1>1. r \in Requests
  BY DEF RequestSound
<1>2. PICK p : p = IF Prefilling(r) THEN r.prefill_pos + 1 ELSE r.prefill_pos
  OBVIOUS
<1>3. PICK n : n = r.forward_count + 1
  OBVIOUS
<1>4. p \in Nat /\ n \in Nat
  BY <1>1, <1>2, <1>3 DEF Requests
<1>5. x = [r EXCEPT !.forward_count = n, !.status = "Running",
                    !.prefill_pos = p]
  BY <1>2, <1>3 DEF Forwarded
<1>6. x \in Requests
  BY <1>1, <1>4, <1>5 DEF Requests
<1> QED BY <1>1, <1>2, <1>3, <1>5, <1>6 DEF Requests, SameTurn

(* ... and what it looks like once a turn committed the token as well.     *)
LEMMA DecodedReady ==
  ASSUME NEW r, RequestSound(r), ~Terminal(r), NEW x, x = Decoded(r)
  PROVE  /\ SampleReady(x) \/ (Terminal(x) /\ RequestSound(x))
         /\ SameTurn(r, x) /\ x.forward_count = r.forward_count + 1
PROOF
<1>1. PICK y : y = Forwarded(r)
  OBVIOUS
<1>2. /\ y \in Requests /\ SameTurn(r, y) /\ y.generated = r.generated
      /\ y.forward_count = r.forward_count + 1
      /\ y.committed = r.committed /\ y.status = "Running"
      /\ y.prefill_pos = IF Prefilling(r) THEN r.prefill_pos + 1
                                          ELSE r.prefill_pos
  BY <1>1, ForwardedReady
<1>3. /\ r \in Requests /\ Contract(r) /\ Underway(r)
      /\ r.prefill_pos <= r.prompt /\ r.prefill_pos <= r.forward_count
      /\ ~SessionBound(r) => r.committed = 0
  BY DEF RequestSound
<1>4. SessionBound(y) = SessionBound(r)
  BY <1>2 DEF SessionBound, SameTurn
<1>5. /\ r.prefill_pos \in Nat /\ r.prompt \in Nat /\ r.max_new \in Nat
      /\ r.forward_count \in Nat /\ r.committed \in Nat
      /\ r.generated \in Seq(Tokens) /\ Len(r.generated) \in Nat
      /\ y.prefill_pos \in Nat
  BY <1>2, <1>3, LenProperties DEF Requests
<1>6. CASE Prefilling(r)
  <2>1. x = y
    BY <1>1, <1>6 DEF Decoded
  <2>2. /\ y.prefill_pos <= y.prompt /\ y.prefill_pos = y.forward_count
        /\ Len(y.generated) = 0 /\ y.committed = 0
    BY <1>2, <1>3, <1>5, <1>6 DEF Prefilling, Underway, SameTurn, Contract
  <2>3. ~SessionBound(y) => 0 < y.max_new
    BY <1>2, <1>3, <1>4, <1>5, <1>6, <2>2 DEF Underway, SameTurn
  <2>4. Progressed(y)
    BY <1>2, <1>5, <2>2, <2>3 DEF Progressed, SameTurn
  <2>5. SampleReady(y)
    BY <1>2, <1>5, <2>2, <2>4 DEF SampleReady
  <2> QED BY <1>2, <2>1, <2>5
<1>7. CASE ~Prefilling(r) /\ ~SessionBound(r)
  <2>1. x = y
    BY <1>1, <1>4, <1>7 DEF Decoded, Committed
  <2>2. /\ y.prefill_pos <= y.prompt /\ y.prefill_pos <= y.forward_count
        /\ ~Prefilling(y) /\ y.committed = 0
        /\ Len(y.generated) = y.forward_count - y.prefill_pos
        /\ Len(y.generated) < y.max_new
    BY <1>2, <1>3, <1>5, <1>7 DEF Prefilling, Underway, SameTurn
  <2>3. \A i \in 1..Len(y.generated) : y.generated[i] # "eos"
    BY <1>2, <1>3, <1>7 DEF Underway
  <2>4. Progressed(y)
    BY <1>2, <1>4, <1>5, <1>7, <2>2, <2>3 DEF Progressed, SameTurn
  <2>5. SampleReady(y)
    BY <1>2, <1>4, <1>5, <1>7, <2>2, <2>4 DEF SampleReady
  <2> QED BY <1>2, <2>1, <2>5
<1>8. CASE ~Prefilling(r) /\ SessionBound(r)
  <2>1. PICK n : n = r.committed + 1
    OBVIOUS
  <2>2. PICK c : c = [y EXCEPT !.committed = n]
    OBVIOUS
  <2>3. x = StopOn(c, r.generated[n], n)
    BY <1>1, <1>2, <1>4, <1>8, <2>1, <2>2 DEF Decoded, Committed
  <2>4. n = Len(r.generated) /\ n \in 1..Len(r.generated) /\ n \in Nat
        /\ n = (r.forward_count + 1) - r.prefill_pos /\ n <= r.max_new
    <3>1. r.committed = r.forward_count - r.prefill_pos
      BY <1>3, <1>8 DEF Contract
    <3>2. /\ Len(r.generated) = r.forward_count - r.prefill_pos + 1
          /\ Len(r.generated) <= r.max_new
      BY <1>3, <1>8 DEF Underway
    <3> QED BY <1>5, <2>1, <3>1, <3>2
  <2>5. /\ c \in Requests /\ SameTurn(r, c) /\ c.generated = r.generated
        /\ c.forward_count = r.forward_count + 1 /\ c.status = "Running"
        /\ c.prefill_pos = r.prefill_pos /\ c.committed = n
    BY <1>2, <1>8, <2>2, <2>4 DEF Requests, SameTurn
  <2>6. ~Prefilling(c) /\ SessionBound(c) /\ c.max_new = r.max_new
    BY <1>8, <2>5 DEF Prefilling, SessionBound, SameTurn
  <2>7. \A i \in 1..n - 1 : r.generated[i] # "eos"
    BY <1>3, <2>4 DEF Contract
  <2>8. ASSUME NEW reason \in {"Eos", "MaxNewTokens"},
               x = Ended(c, "Finished", reason),
               reason = "Eos" => r.generated[n] = "eos",
               reason = "MaxNewTokens" => n = r.max_new
        PROVE  Terminal(x) /\ RequestSound(x) /\ SameTurn(r, x)
               /\ x.forward_count = r.forward_count + 1
    <3>1. /\ x \in Requests /\ SameTurn(r, x) /\ x.status = "Finished"
          /\ x.forward_count = r.forward_count + 1
          /\ x.generated = r.generated /\ x.finish_reason = reason
          /\ x.prefill_pos = r.prefill_pos /\ x.committed = n
      BY <2>5, <2>8 DEF Ended, Requests, SameTurn, TerminalStatuses, Reasons
    <3>2. Terminal(x) /\ ~Prefilling(x) /\ SessionBound(x)
          /\ x.max_new = r.max_new
      BY <1>8, <3>1 DEF Terminal, TerminalStatuses, Prefilling, SessionBound,
                        SameTurn
    <3>3. x.forward_count - x.prefill_pos = n /\ Len(x.generated) = n
      <4>1. x.forward_count - x.prefill_pos
              = (r.forward_count + 1) - r.prefill_pos
        BY <3>1
      <4>2. Len(x.generated) = Len(r.generated)
        BY <3>1
      <4> QED BY <2>4, <4>1, <4>2
    <3>4. \A i \in 1..n - 1 : x.generated[i] # "eos"
      BY <2>7, <3>1
    <3>5. \/ x.finish_reason = "Eos" /\ x.generated[n] = "eos"
          \/ x.finish_reason = "MaxNewTokens" /\ n = x.max_new
      BY <2>8, <3>1, <3>2
    <3>6. Contract(x)
      BY <2>4, <3>1, <3>2, <3>3, <3>4, <3>5 DEF Contract
    <3> QED BY <1>3, <1>5, <3>1, <3>2, <3>6 DEF RequestSound, SameTurn
  <2>9. CASE r.generated[n] = "eos"
    <3>1. x = Ended(c, "Finished", "Eos")
      BY <2>3, <2>9 DEF StopOn
    <3> QED BY <2>8, <2>9, <3>1
  <2>10. CASE r.generated[n] # "eos" /\ n >= c.max_new
    <3>1. x = Ended(c, "Finished", "MaxNewTokens")
      BY <2>3, <2>10 DEF StopOn
    <3>2. n = r.max_new
      BY <1>5, <2>4, <2>6, <2>10
    <3> QED BY <2>8, <3>1, <3>2
  <2>11. CASE r.generated[n] # "eos" /\ ~(n >= c.max_new)
    <3>1. x = c
      BY <2>3, <2>11 DEF StopOn
    <3>2. \A i \in 1..n : c.generated[i] # "eos"
      BY <2>4, <2>5, <2>7, <2>11
    <3>3. /\ Len(c.generated) = n /\ n = c.forward_count - c.prefill_pos
          /\ n < c.max_new
      <4>1. c.forward_count - c.prefill_pos
              = (r.forward_count + 1) - r.prefill_pos
        BY <2>5
      <4>2. Len(c.generated) = Len(r.generated)
        BY <2>5
      <4>3. n < c.max_new
        BY <1>5, <2>4, <2>6, <2>11
      <4> QED BY <2>4, <4>1, <4>2, <4>3
    <3>4. Progressed(c)
      BY <2>4, <2>6, <3>2, <3>3 DEF Progressed
    <3>5. SampleReady(c)
      BY <1>3, <1>5, <2>4, <2>5, <2>6, <3>3, <3>4 DEF SampleReady, SameTurn
    <3> QED BY <2>5, <3>1, <3>5
  <2> QED BY <2>9, <2>10, <2>11
<1> QED BY <1>6, <1>7, <1>8

(* After the forward the next token is sampled, if there is to be one.     *)
LEMMA SampledSound ==
  ASSUME NEW x, SampleReady(x), NEW o \in Outcomes,
         NEW n, n = SampledNext(x, o)
  PROVE  /\ RequestSound(n) /\ SameTurn(x, n)
         /\ n.forward_count = x.forward_count
PROOF
<1>1. /\ x \in Requests /\ x.prefill_pos <= x.prompt
      /\ x.prefill_pos <= x.forward_count /\ x.status = "Running"
      /\ ~SessionBound(x) => x.committed = 0
      /\ SessionBound(x) => x.committed = x.forward_count - x.prefill_pos
      /\ Progressed(x)
  BY DEF SampleReady
<1>2. /\ x.prefill_pos \in Nat /\ x.prompt \in Nat /\ x.max_new \in Nat
      /\ x.forward_count \in Nat /\ x.committed \in Nat
      /\ x.generated \in Seq(Tokens) /\ Len(x.generated) \in Nat
  BY <1>1, LenProperties DEF Requests
<1>3. ~Terminal(x)
  BY <1>1 DEF Terminal, TerminalStatuses
<1>4. PICK m : m = Len(x.generated)
  OBVIOUS
<1>5. /\ m \in Nat /\ m <= x.max_new
      /\ Prefilling(x) => m = 0 /\ x.forward_count = x.prefill_pos
      /\ ~Prefilling(x) => m = x.forward_count - x.prefill_pos
      /\ SessionBound(x) /\ m > 0 => m < x.max_new
      /\ ~SessionBound(x) => m < x.max_new
      /\ \A i \in 1..m : x.generated[i] # "eos"
  BY <1>1, <1>2, <1>4 DEF Progressed
<1>6. CASE Prefilling(x)
  <2>1. n = x
    BY <1>6 DEF SampledNext
  <2>2. m = 0 /\ x.forward_count = x.prefill_pos
    BY <1>5, <1>6
  <2>3. SessionBound(x) => x.committed = 0
    BY <1>1, <1>2, <2>2
  <2>4. x.committed = 0 /\ ~Pending(x)
    BY <1>1, <1>4, <2>2, <2>3 DEF Pending
  <2>5. Contract(x)
    <3>1. x.forward_count - x.prefill_pos = 0
      BY <1>2, <2>2
    <3> QED BY <1>1, <1>4, <1>6, <2>2, <2>4, <3>1 DEF Contract
  <2>6. Underway(x)
    BY <1>4, <1>5, <1>6, <2>2 DEF Underway
  <2> QED BY <1>1, <2>1, <2>5, <2>6 DEF RequestSound, SameTurn
<1>7. ASSUME ~Prefilling(x), NEW p \in {"Finished", "Failed"},
             NEW q \in Reasons, n = Ended(x, p, q),
             p = "Finished" => /\ q = "MaxNewTokens" /\ m = x.max_new
                               /\ SessionBound(x)
      PROVE  RequestSound(n) /\ SameTurn(x, n)
             /\ n.forward_count = x.forward_count
  <2>1. /\ n \in Requests /\ SameTurn(x, n) /\ n.status = p
        /\ n.forward_count = x.forward_count /\ n.finish_reason = q
        /\ n.generated = x.generated /\ n.prefill_pos = x.prefill_pos
        /\ n.committed = x.committed
    BY <1>1, <1>7 DEF Ended, Requests, SameTurn, TerminalStatuses
  <2>2. /\ Terminal(n) /\ ~Prefilling(n) /\ SessionBound(n) = SessionBound(x)
        /\ n.max_new = x.max_new
    BY <1>7, <2>1 DEF Terminal, TerminalStatuses, Prefilling, SessionBound,
                      SameTurn
  <2>3. n.forward_count - n.prefill_pos = m /\ Len(n.generated) = m
    BY <1>2, <1>4, <1>5, <1>7, <2>1
  <2>4. \A i \in 1..m - 1 : n.generated[i] # "eos"
    BY <1>5, <2>1
  <2>5. SessionBound(n) => m = n.committed
    BY <1>1, <1>5, <1>7, <2>1, <2>2
  <2>6. Contract(n)
    BY <1>5, <1>7, <2>1, <2>2, <2>3, <2>4, <2>5 DEF Contract
  <2> QED BY <1>1, <1>2, <2>1, <2>2, <2>6 DEF RequestSound, SameTurn
<1>8. CASE ~Prefilling(x) /\ x.max_new = 0
  <2>1. n = Ended(x, "Finished", "MaxNewTokens")
    BY <1>3, <1>8 DEF SampledNext
  <2>2. m = x.max_new /\ SessionBound(x)
    BY <1>5, <1>8
  <2> QED BY <1>7, <1>8, <2>1, <2>2 DEF Reasons
<1>9. CASE ~Prefilling(x) /\ x.max_new # 0 /\ o = "fault"
  <2>1. n = Ended(x, "Failed", "Failed")
    BY <1>2, <1>3, <1>9 DEF SampledNext, Failed
  <2> QED BY <1>7, <1>9, <2>1 DEF Reasons
<1>10. CASE ~Prefilling(x) /\ x.max_new # 0 /\ o # "fault"
  <2>1. o \in Tokens
    BY <1>10 DEF Outcomes
  <2>2. PICK g : g = Append(x.generated, o)
    OBVIOUS
  <2>3. /\ g \in Seq(Tokens) /\ Len(g) = m + 1 /\ g[m + 1] = o
        /\ \A i \in 1..m : g[i] = x.generated[i]
    BY <1>2, <1>4, <2>1, <2>2, AppendProperties
  <2>4. \A i \in 1..m : g[i] # "eos"
    BY <1>5, <2>3
  <2>5. PICK y : y = [x EXCEPT !.generated = g]
    OBVIOUS
  <2>6. /\ y \in Requests /\ SameTurn(x, y) /\ y.status = "Running"
        /\ y.forward_count = x.forward_count /\ y.generated = g
        /\ y.prefill_pos = x.prefill_pos /\ y.committed = x.committed
    BY <1>1, <2>3, <2>5 DEF Requests, SameTurn
  <2>7. /\ ~Prefilling(y) /\ ~Terminal(y) /\ y.max_new = x.max_new
        /\ SessionBound(y) = SessionBound(x)
    BY <1>3, <1>10, <2>6 DEF Terminal, TerminalStatuses, Prefilling,
                              SessionBound, SameTurn
  <2>8. m = x.forward_count - x.prefill_pos
    BY <1>5, <1>10
  <2>9. n = IF SessionBound(x) THEN y ELSE StopOn(y, o, m + 1)
    BY <1>2, <1>3, <1>4, <1>10, <2>2, <2>5 DEF SampledNext
  <2>10. ASSUME NEW q \in {"Eos", "MaxNewTokens"},
                n = Ended(y, "Finished", q), ~SessionBound(x),
                q = "Eos" => o = "eos", q = "MaxNewTokens" => m + 1 = x.max_new
         PROVE  RequestSound(n) /\ SameTurn(x, n)
                /\ n.forward_count = x.forward_count
    <3>1. /\ n \in Requests /\ SameTurn(x, n) /\ n.status = "Finished"
          /\ n.forward_count = x.forward_count /\ n.finish_reason = q
          /\ n.generated = g /\ n.prefill_pos = x.prefill_pos
          /\ n.committed = x.committed
      BY <2>6, <2>10 DEF Ended, Requests, SameTurn, TerminalStatuses, Reasons
    <3>2. /\ Terminal(n) /\ ~Prefilling(n) /\ ~SessionBound(n)
          /\ n.max_new = x.max_new
      BY <1>10, <2>10, <3>1 DEF Terminal, TerminalStatuses, Prefilling,
                                SessionBound, SameTurn
    <3>3. n.forward_count - n.prefill_pos = m
      BY <2>8, <3>1
    <3>4. Len(n.generated) = m + 1
      BY <2>3, <3>1
    <3>5. \A i \in 1..(m + 1) - 1 : n.generated[i] # "eos"
      BY <1>5, <2>4, <3>1
    <3>6. \/ n.finish_reason = "Eos" /\ n.generated[m + 1] = "eos"
          \/ n.finish_reason = "MaxNewTokens" /\ m + 1 = n.max_new
      BY <2>3, <2>10, <3>1, <3>2
    <3>7. Contract(n)
      BY <1>5, <3>1, <3>2, <3>3, <3>4, <3>5, <3>6 DEF Contract
    <3> QED BY <1>1, <1>2, <2>10, <3>1, <3>2, <3>7 DEF RequestSound, SameTurn
  <2>11. ASSUME n = y,
                SessionBound(x) \/ (o # "eos" /\ m + 1 < x.max_new)
         PROVE  RequestSound(n) /\ SameTurn(x, n)
                /\ n.forward_count = x.forward_count
    <3>1. y.forward_count - y.prefill_pos = m /\ Len(y.generated) = m + 1
      BY <2>3, <2>6, <2>8
    <3>2. Pending(y)
      <4>1. y.committed <= m
        BY <1>1, <1>5, <2>6, <2>8
      <4> QED BY <1>2, <1>5, <2>6, <3>1, <4>1 DEF Pending
    <3>3. /\ \A i \in 1..(m + 1) - 1 : y.generated[i] # "eos"
          /\ \A i \in 1..m : y.generated[i] # "eos"
      BY <1>5, <2>4, <2>6
    <3>4. SessionBound(y) => m = y.committed
      BY <1>1, <2>6, <2>7, <2>8
    <3>5. Contract(y)
      BY <1>5, <2>6, <2>7, <3>1, <3>2, <3>3, <3>4 DEF Contract
    <3>6. m + 1 <= x.max_new
      BY <1>2, <1>5, <1>10, <2>11
    <3>7. ~SessionBound(x) => /\ m + 1 < x.max_new
                              /\ \A i \in 1..m + 1 : y.generated[i] # "eos"
      BY <1>5, <2>3, <2>4, <2>6, <2>11
    <3>8. Underway(y)
      BY <2>7, <3>1, <3>6, <3>7 DEF Underway
    <3> QED BY <1>1, <1>2, <2>6, <2>7, <2>11, <3>5, <3>8
            DEF RequestSound, SameTurn
  <2>12. CASE SessionBound(x)
    BY <2>9, <2>11, <2>12
  <2>13. CASE ~SessionBound(x) /\ o = "eos"
    <3>1. n = Ended(y, "Finished", "Eos")
      BY <2>9, <2>13 DEF StopOn
    <3> QED BY <2>10, <2>13, <3>1
  <2>14. CASE ~SessionBound(x) /\ o # "eos" /\ m + 1 >= y.max_new
    <3>1. n = Ended(y, "Finished", "MaxNewTokens")
      BY <2>9, <2>14 DEF StopOn
    <3>2. m + 1 = x.max_new
      BY <1>2, <1>5, <2>7, <2>14
    <3> QED BY <2>10, <2>14, <3>1, <3>2
  <2>15. CASE ~SessionBound(x) /\ o # "eos" /\ ~(m + 1 >= y.max_new)
    <3>1. n = y
      BY <2>9, <2>15 DEF StopOn
    <3>2. m + 1 < x.max_new
      BY <1>2, <1>5, <2>7, <2>15
    <3> QED BY <2>11, <2>15, <3>1, <3>2
  <2> QED BY <2>12, <2>13, <2>14, <2>15
<1> QED BY <1>6, <1>8, <1>9, <1>10

(***************************************************************************)
(* What advances and cancellations have in common: some live requests make *)
(* one forward each, some others end without one.                          *)
(***************************************************************************)
SequencesOf(ids) == {requests[id].sequence : id \in ids}

RequestsMove(fwd, ended) ==
  /\ fwd \subseteq Alive /\ ended \subseteq Alive \ fwd
  /\ requests' \in [DOMAIN requests -> Requests]
  /\ \A id \in DOMAIN requests :
       /\ RequestSound(requests'[id])
       /\ SameTurn(requests[id], requests'[id])
       /\ requests'[id].forward_count
            = requests[id].forward_count + IF id \in fwd THEN 1 ELSE 0
       /\ id \notin fwd \cup ended => requests'[id] = requests[id]
       /\ id \in ended => Terminal(requests'[id])

LenMoves(fwd) ==
  /\ SequencesOf(fwd) \subseteq Live
  /\ len' = [q \in Live \ SequencesOf({id \in LegacyAlive :
                                          Terminal(requests'[id])}) |->
               len[q] + IF q \in SequencesOf(fwd) THEN 1 ELSE 0]

Moves(fwd, ended) ==
  /\ RequestsMove(fwd, ended) /\ LenMoves(fwd)
  /\ queue' \subseteq queue /\ serial' \subseteq queue'
  /\ (queue \ queue') \cap Alive \subseteq fwd \cup ended
  /\ UNCHANGED <<next_id, sessions, next_session, next_request, loop>>
  /\ fatal' = FALSE

Turned(f) == \A id \in DOMAIN f : requests'[id] = f[id]

(* Settled is such a move, with the lengths of the forwarded already in.   *)
LEMMA SettledMoves ==
  ASSUME TypeSound, OwnersSound,
         NEW ids \in SUBSET Alive, NEW fwd \in SUBSET ids,
         SequencesOf(fwd) \subseteq Live,
         NEW f, DOMAIN f = ids,
         \A id \in ids :
           /\ RequestSound(f[id]) /\ SameTurn(requests[id], f[id])
           /\ f[id].forward_count
                = requests[id].forward_count + IF id \in fwd THEN 1 ELSE 0
           /\ id \notin fwd => Terminal(f[id]),
         NEW c,
         Becomes(Settled([len |-> Lengthened(len, SequencesOf(fwd)),
                          requests |-> requests, stats |-> c,
                          fatal |-> FALSE], f))
  PROVE  /\ RequestsMove(fwd, ids \ fwd) /\ LenMoves(fwd)
         /\ fatal' = FALSE /\ stats' = c /\ UNCHANGED next_id
         /\ Turned(f)
PROOF
<1> DEFINE L == Lengthened(len, SequencesOf(fwd))
           gone == {id \in ids : /\ Terminal(f[id]) /\ ~Terminal(requests[id])
                                 /\ ~SessionBound(f[id])}
           retired == {f[id].sequence : id \in gone}
<1>1. /\ requests' = [id \in DOMAIN requests |-> IF id \in ids THEN f[id]
                                                 ELSE requests[id]]
      /\ len' = Restrict(L, DOMAIN L \ retired)
      /\ fatal' = (FALSE \/ ~(retired \subseteq DOMAIN L))
      /\ stats' = c /\ next_id' = next_id
  BY DEF Becomes, Settled
<1>2. ids \subseteq DOMAIN requests /\ \A id \in ids : ~Terminal(requests[id])
  BY DEF Alive
<1>3. \A id \in DOMAIN requests :
        requests'[id] = IF id \in ids THEN f[id] ELSE requests[id]
  BY <1>1
<1>4. DOMAIN L = Live
  BY DEF Lengthened, Live
<1>5. gone = {id \in LegacyAlive : Terminal(requests'[id])}
  <2>1. \A id \in ids : SessionBound(f[id]) = SessionBound(requests[id])
    BY DEF SameTurn, SessionBound
  <2>2. \A id \in Alive \ ids : ~Terminal(requests'[id])
    BY <1>3 DEF Alive
  <2> QED BY <1>2, <1>3, <2>1, <2>2 DEF LegacyAlive, Alive
<1>6. retired = SequencesOf(gone)
  BY DEF SameTurn, SequencesOf
<1>7. retired \subseteq Live
  <2>1. \A id \in LegacyAlive : requests[id].sequence \in Live
    BY DEF OwnersSound
  <2>2. gone \subseteq LegacyAlive
    BY <1>5
  <2> HIDE DEF gone, retired
  <2> QED BY <1>6, <2>1, <2>2 DEF SequencesOf
<1>8. fatal' = FALSE
  BY <1>1, <1>4, <1>7
<1>9. LenMoves(fwd)
  <2>1. len' = [q \in Live \ retired |-> L[q]]
    BY <1>1, <1>4 DEF Restrict
  <2>2. \A q \in Live : L[q] = len[q] + IF q \in SequencesOf(fwd)
                                        THEN 1 ELSE 0
    BY DEF Lengthened, Live
  <2>3. len' = [q \in Live \ retired |->
                  len[q] + IF q \in SequencesOf(fwd) THEN 1 ELSE 0]
    <3> HIDE DEF L
    <3> QED BY <2>1, <2>2
  <2> QED BY <1>5, <1>6, <2>3 DEF LenMoves
<1>10. \A id \in DOMAIN requests : requests[id] \in Requests
                                    /\ RequestSound(requests[id])
  BY DEF TypeSound
<1>11. ASSUME NEW id \in DOMAIN requests
       PROVE  /\ RequestSound(requests'[id]) /\ requests'[id] \in Requests
              /\ SameTurn(requests[id], requests'[id])
              /\ requests'[id].forward_count
                   = requests[id].forward_count + IF id \in fwd THEN 1 ELSE 0
              /\ id \notin ids => requests'[id] = requests[id]
              /\ id \in ids \ fwd => Terminal(requests'[id])
  <2>1. CASE id \in ids
    BY <1>3, <2>1 DEF RequestSound
  <2>2. CASE id \notin ids
    <3>1. requests'[id] = requests[id] /\ id \notin fwd
      BY <1>3, <2>2
    <3>2. requests[id].forward_count = requests[id].forward_count + 0
      BY <1>10 DEF Requests
    <3> QED BY <1>10, <2>2, <3>1, <3>2 DEF SameTurn
  <2> QED BY <2>1, <2>2
<1>12. RequestsMove(fwd, ids \ fwd)
  <2>1. requests' \in [DOMAIN requests -> Requests]
    BY <1>1, <1>11
  <2> QED BY <1>11, <2>1 DEF RequestsMove
<1>13. Turned(f)
  BY <1>2, <1>3 DEF Turned
<1> QED BY <1>1, <1>8, <1>9, <1>12, <1>13

(* How the counters move: one committed single or batch for the forwards,  *)
(* an attempt more only if a request fails by it.                          *)
CountersMove(fwd, ended) ==
  /\ stats' \in Stats
  /\ stats'.successful + stats'.batched
       = stats.successful + stats.batched + Cardinality(fwd)
  /\ \/ stats'.single - stats'.successful = stats.single - stats.successful
     \/ /\ stats'.single - stats'.successful
             = (stats.single - stats.successful) + 1
        /\ \E id \in ended : requests'[id].status = "Failed"
  /\ stats.batched >= 2 * stats.batch => stats'.batched >= 2 * stats'.batch

Step(fwd, ended) == Moves(fwd, ended) /\ CountersMove(fwd, ended)

(* An advance forwards what fits, and fails what does not.                 *)
Advances(fwd, ended) ==
  /\ \A id \in fwd : \E o \in Outcomes :
       requests'[id] = SampledNext(Decoded(requests[id]), o)
  /\ \A id \in ended : requests'[id] = Failed(requests[id])

(* A live request has something to forward.                                *)
LEMMA AliveReady ==
  ASSUME TypeSound, NEW id \in Alive
  PROVE  /\ id \in DOMAIN requests /\ RequestSound(requests[id])
         /\ ~Terminal(requests[id])
         /\ Prefilling(requests[id]) \/ Pending(requests[id])
PROOF
<1>1. id \in DOMAIN requests /\ ~Terminal(requests[id])
  BY DEF Alive
<1>2. RequestSound(requests[id])
  BY <1>1 DEF TypeSound
<1> QED BY <1>1, <1>2 DEF RequestSound, Contract

(* The outcome of a successful forward of a live request.                  *)
LEMMA AdvancedSound ==
  ASSUME NEW r, RequestSound(r), ~Terminal(r), NEW o \in Outcomes,
         NEW n, n = SampledNext(Decoded(r), o)
  PROVE  /\ RequestSound(n) /\ SameTurn(r, n)
         /\ n.forward_count = r.forward_count + 1
PROOF
<1>1. PICK x : x = Decoded(r)
  OBVIOUS
<1>2. /\ SampleReady(x) \/ (Terminal(x) /\ RequestSound(x))
      /\ SameTurn(r, x) /\ x.forward_count = r.forward_count + 1
  BY <1>1, DecodedReady
<1>3. CASE SampleReady(x)
  <2>1. /\ RequestSound(n) /\ SameTurn(x, n)
        /\ n.forward_count = x.forward_count
    BY <1>1, <1>3, SampledSound
  <2> QED BY <1>2, <2>1 DEF SameTurn
<1>4. CASE Terminal(x) /\ RequestSound(x)
  <2>1. n = x
    BY <1>1, <1>4 DEF SampledNext
  <2> QED BY <1>2, <1>4, <2>1
<1> QED BY <1>2, <1>3, <1>4

(* Every length is the same when nothing is forwarded.                     *)
LEMMA LengthenedByNone ==
  ASSUME TypeSound
  PROVE  Lengthened(len, SequencesOf({})) = len
PROOF
<1>1. SequencesOf({}) = {}
  BY DEF SequencesOf
<1>2. /\ len = [q \in DOMAIN len |-> len[q]]
      /\ \A q \in DOMAIN len : len[q] + 0 = len[q]
  BY DEF TypeSound
<1>3. [q \in DOMAIN len |-> len[q] + IF q \in {} THEN 1 ELSE 0]
        = [q \in DOMAIN len |-> len[q]]
  BY <1>2
<1> QED BY <1>1, <1>2, <1>3 DEF Lengthened

(* cancel() of a live request is a step in which the request ends.         *)
LEMMA CancelSteps ==
  ASSUME TypeSound, OwnersSound, NeverFatal, NEW id \in Alive, Cancel(id)
  PROVE  Step({}, {id})
PROOF
<1>1. /\ id \in DOMAIN requests /\ RequestSound(requests[id])
      /\ ~Terminal(requests[id])
  BY AliveReady
<1>2. PICK e : e = Ended(requests[id], "Cancelled", "Cancelled")
  OBVIOUS
<1>3. /\ RequestSound(e) /\ SameTurn(requests[id], e) /\ Terminal(e)
      /\ e.forward_count = requests[id].forward_count
  BY <1>1, <1>2, EndedSound
<1>4. e.forward_count = requests[id].forward_count + 0
  BY <1>1, <1>3 DEF RequestSound, Requests
<1>5. PICK f : f = [i \in {id} |-> e]
  OBVIOUS
<1>6. /\ Becomes(Settled(World, f))
      /\ UNCHANGED <<sessions, next_session, next_request, queue, serial, loop>>
  BY <1>1, <1>2, <1>5 DEF Cancel
<1>7. Becomes(Settled([len |-> Lengthened(len, SequencesOf({})),
                       requests |-> requests, stats |-> stats,
                       fatal |-> FALSE], f))
  <2>1. fatal = FALSE
    BY DEF NeverFatal, TypeSound
  <2>2. World = [len |-> Lengthened(len, SequencesOf({})),
                 requests |-> requests, stats |-> stats, fatal |-> FALSE]
    BY <2>1, LengthenedByNone DEF World
  <2> QED BY <1>6, <2>2
<1>8. PICK ids \in SUBSET Alive : ids = {id}
  OBVIOUS
<1>9. PICK fwd \in SUBSET ids : fwd = {}
  OBVIOUS
<1>10. SequencesOf(fwd) \subseteq Live
  BY <1>9 DEF SequencesOf
<1>11. /\ DOMAIN f = ids
       /\ \A i \in ids :
           /\ RequestSound(f[i]) /\ SameTurn(requests[i], f[i])
           /\ f[i].forward_count
                = requests[i].forward_count + IF i \in fwd THEN 1 ELSE 0
           /\ i \notin fwd => Terminal(f[i])
  BY <1>3, <1>4, <1>5, <1>8, <1>9
<1>12. /\ RequestsMove(fwd, ids \ fwd) /\ LenMoves(fwd)
       /\ fatal' = FALSE /\ stats' = stats /\ UNCHANGED next_id
  BY <1>7, <1>9, <1>10, <1>11, SettledMoves
<1>13. Moves({}, {id})
  <2>1. RequestsMove({}, {id}) /\ LenMoves({})
    BY <1>8, <1>9, <1>12
  <2> QED BY <1>6, <1>12, <2>1 DEF Moves, TypeSound
<1>14. CountersMove({}, {id})
  BY <1>12, FS_EmptySet DEF CountersMove, TypeSound, Stats
<1> QED BY <1>13, <1>14 DEF Step

(* Nothing moves.                                                          *)
LEMMA IdleMoves ==
  ASSUME TypeSound, requests' = requests, len' = len
  PROVE  RequestsMove({}, {}) /\ LenMoves({})
PROOF
<1>1. \A id \in DOMAIN requests :
        /\ RequestSound(requests[id]) /\ requests[id] \in Requests
        /\ SameTurn(requests[id], requests[id])
        /\ requests[id].forward_count = requests[id].forward_count + 0
  BY DEF TypeSound, Requests, SameTurn
<1>2. requests \in [DOMAIN requests -> Requests]
  BY DEF TypeSound
<1>3. RequestsMove({}, {})
  BY <1>1, <1>2 DEF RequestsMove
<1>4. {id \in LegacyAlive : Terminal(requests[id])} = {}
  BY DEF LegacyAlive, Alive
<1>5. SequencesOf({}) = {}
  BY DEF SequencesOf
<1>6. /\ len = [q \in DOMAIN len |-> len[q]]
      /\ \A q \in DOMAIN len : len[q] + 0 = len[q]
  BY DEF TypeSound
<1>7. [q \in Live \ {} |-> len[q] + IF q \in {} THEN 1 ELSE 0]
        = [q \in DOMAIN len |-> len[q]]
  BY <1>6 DEF Live
<1>8. LenMoves({})
  BY <1>4, <1>5, <1>6, <1>7 DEF LenMoves
<1> QED BY <1>3, <1>8

(* The preflight of one forward, and of a batch: the sequences are live.   *)
LEMMA FitsLive ==
  ASSUME NEW ids, Fits(len, ids)
  PROVE  ids \subseteq Live
PROOF
<1> QED BY DEF Fits, Live

(* The counters as a forward leaves them, in the world it works on.        *)
CountedAs(c, a, s, b, n) ==
  /\ c.single = stats.single + a /\ c.successful = stats.successful + s
  /\ c.batch = stats.batch + b /\ c.batched = stats.batched + n
  /\ Counted(World, a, s, b, n)
       = [len |-> len, requests |-> requests, stats |-> c, fatal |-> FALSE]
  /\ \A ids : Longer(Counted(World, a, s, b, n), ids)
       = [len |-> Lengthened(len, SequencesOf(ids)), requests |-> requests,
          stats |-> c, fatal |-> FALSE]

(* Counting changes the counters, and nothing else of the world.           *)
LEMMA CountedWorld ==
  ASSUME TypeSound, NeverFatal,
         NEW a \in Nat, NEW s \in Nat, NEW b \in Nat, NEW n \in Nat
  PROVE  \E c \in Stats : CountedAs(c, a, s, b, n)
PROOF
<1>1. stats \in Stats /\ fatal = FALSE
  BY DEF TypeSound, NeverFatal
<1>2. PICK c : c = [single |-> stats.single + a,
                    successful |-> stats.successful + s,
                    batch |-> stats.batch + b, batched |-> stats.batched + n]
  OBVIOUS
<1>3. /\ c \in Stats /\ c.single = stats.single + a
      /\ c.successful = stats.successful + s
      /\ c.batch = stats.batch + b /\ c.batched = stats.batched + n
  BY <1>1, <1>2 DEF Stats
<1>4. PICK x : x = [len |-> len, requests |-> requests, stats |-> c,
                    fatal |-> FALSE]
  OBVIOUS
<1>5. Counted(World, a, s, b, n) = x
  <2>1. PICK w : w = World
    OBVIOUS
  <2>2. w = [len |-> len, requests |-> requests, stats |-> stats,
             fatal |-> FALSE]
    BY <1>1, <2>1 DEF World
  <2>3. Counted(w, a, s, b, n) = [w EXCEPT !.stats = c]
    BY <1>2, <2>2 DEF Counted
  <2>4. [w EXCEPT !.stats = c] = x
    <3>1. /\ DOMAIN w = {"len", "requests", "stats", "fatal"}
          /\ w = [i \in DOMAIN w |-> w[i]]
          /\ w["len"] = len /\ w["requests"] = requests /\ w["fatal"] = FALSE
      BY <2>2
    <3>2. /\ DOMAIN x = {"len", "requests", "stats", "fatal"}
          /\ x = [i \in DOMAIN x |-> x[i]]
          /\ x["len"] = len /\ x["requests"] = requests /\ x["fatal"] = FALSE
          /\ x["stats"] = c
      BY <1>4
    <3> QED BY <3>1, <3>2
  <2>5. Counted(w, a, s, b, n) = x
    BY <2>3, <2>4
  <2> QED BY <2>1, <2>5
<1>6. ASSUME NEW ids
      PROVE  Longer(x, ids)
               = [len |-> Lengthened(len, SequencesOf(ids)),
                  requests |-> requests, stats |-> c, fatal |-> FALSE]
  <2>1. {x.requests[id].sequence : id \in ids} = SequencesOf(ids)
    BY <1>4 DEF SequencesOf
  <2>2. Longer(x, ids) = [x EXCEPT !.len = Lengthened(len, SequencesOf(ids))]
    BY <1>4, <2>1 DEF Longer
  <2> QED BY <1>4, <2>2
<1>7. CountedAs(c, a, s, b, n)
  BY <1>3, <1>4, <1>5, <1>6 DEF CountedAs
<1> QED BY <1>3, <1>7

(* AdvanceSingle is one forward of the head, or ends it, or finds it ended. *)
LEMMA SingleSteps ==
  ASSUME TypeSound, OwnersSound, NeverFatal, AdvanceSingle
  PROVE  \E fwd, ended : Step(fwd, ended) /\ Advances(fwd, ended)
PROOF
<1>1. PICK id : id = Min(queue)
  OBVIOUS
<1>2. /\ queue # {} /\ queue' = queue \ {id} /\ serial' = serial \ {id}
      /\ UNCHANGED <<sessions, next_session, next_request, loop>>
  BY <1>1 DEF AdvanceSingle
<1>3. PICK o \in Outcomes : Becomes(AdvanceOne(World, id, o))
  BY <1>1 DEF AdvanceSingle
<1>4. fatal = FALSE
  BY DEF NeverFatal, TypeSound
<1>5. /\ World.len = len /\ World.requests = requests
      /\ World.stats = stats /\ World.fatal = FALSE
  BY <1>4 DEF World
<1>6. queue' \subseteq queue /\ serial' \subseteq queue'
      /\ queue \ queue' \subseteq {id}
  BY <1>2 DEF TypeSound
<1>7. CASE id \in DOMAIN requests /\ ~Terminal(requests[id])
  <2>1. id \in Alive
    BY <1>7 DEF Alive
  <2>2. /\ RequestSound(requests[id]) /\ ~Terminal(requests[id])
        /\ Prefilling(requests[id]) \/ Pending(requests[id])
    BY <2>1, AliveReady
  <2>3. PICK ids \in SUBSET Alive : ids = {id}
    BY <2>1
  <2>4. CASE ~Fits(len, {requests[id].sequence})
    <3>1. PICK e : e = Ended(requests[id], "Failed", "Failed")
      OBVIOUS
    <3>2. /\ RequestSound(e) /\ SameTurn(requests[id], e) /\ Terminal(e)
          /\ e.forward_count = requests[id].forward_count
      BY <2>2, <3>1, EndedSound
    <3>3. e.forward_count = requests[id].forward_count + 0
      BY <2>2, <3>2 DEF RequestSound, Requests
    <3>4. PICK f : f = [i \in {id} |-> e]
      OBVIOUS
    <3>5. PICK c \in Stats : CountedAs(c, 1, 0, 0, 0)
      BY CountedWorld
    <3>7. /\ c.single = stats.single + 1
          /\ c.successful = stats.successful + 0
          /\ c.batch = stats.batch + 0 /\ c.batched = stats.batched + 0
          /\ Counted(World, 1, 0, 0, 0)
               = [len |-> len, requests |-> requests, stats |-> c,
                  fatal |-> FALSE]
      BY <3>5 DEF CountedAs
    <3>6. Becomes(Settled(Counted(World, 1, 0, 0, 0), f))
      BY <1>3, <1>5, <2>2, <2>4, <3>1, <3>4 DEF AdvanceOne, Failed
    <3>8. PICK fwd \in SUBSET ids : fwd = {}
      OBVIOUS
    <3>9. Becomes(Settled([len |-> Lengthened(len, SequencesOf(fwd)),
                           requests |-> requests, stats |-> c,
                           fatal |-> FALSE], f))
      BY <3>6, <3>7, <3>8, LengthenedByNone
    <3>10. SequencesOf(fwd) \subseteq Live
      BY <3>8 DEF SequencesOf
    <3>11. /\ DOMAIN f = ids
           /\ \A i \in ids :
               /\ RequestSound(f[i]) /\ SameTurn(requests[i], f[i])
               /\ f[i].forward_count
                    = requests[i].forward_count + IF i \in fwd THEN 1 ELSE 0
               /\ i \notin fwd => Terminal(f[i])
      BY <3>2, <3>3, <3>4, <2>3, <3>8
    <3>12. /\ RequestsMove(fwd, ids \ fwd) /\ LenMoves(fwd)
           /\ fatal' = FALSE /\ stats' = c /\ UNCHANGED next_id
           /\ Turned(f)
      BY <3>9, <3>10, <3>11, SettledMoves
    <3>13. Moves({}, {id})
      <4>1. RequestsMove({}, {id}) /\ LenMoves({})
        BY <2>3, <3>8, <3>12
      <4> QED BY <1>2, <1>6, <3>12, <4>1 DEF Moves
    <3>14. requests'[id].status = "Failed"
      <4>1. requests'[id] = e
        BY <1>7, <3>4, <3>6, <3>7 DEF Becomes, Settled
      <4> QED BY <2>2, <3>1, <4>1 DEF Ended, RequestSound, Requests
    <3>15. CountersMove({}, {id})
      <4>1. c.single = stats.single + 1
            /\ c.successful = stats.successful /\ c.batch = stats.batch
            /\ c.batched = stats.batched
        BY <3>7 DEF TypeSound, Stats
      <4>2. \E i \in {id} : requests'[i].status = "Failed"
        BY <3>14
      <4>3. stats \in Stats
        BY DEF TypeSound
      <4> QED BY <3>12, <4>1, <4>2, <4>3, FS_EmptySet DEF CountersMove, Stats
    <3>16. Advances({}, {id})
      BY <3>1, <3>4, <3>12 DEF Advances, Failed, Turned
    <3> QED BY <3>13, <3>15, <3>16 DEF Step
  <2>5. CASE Fits(len, {requests[id].sequence})
    <3>1. PICK e : e = SampledNext(Decoded(requests[id]), o)
      OBVIOUS
    <3>2. /\ RequestSound(e) /\ SameTurn(requests[id], e)
          /\ e.forward_count = requests[id].forward_count + 1
      BY <2>2, <3>1, AdvancedSound
    <3>3. PICK f : f = [i \in {id} |-> e]
      OBVIOUS
    <3>4. PICK c \in Stats : CountedAs(c, 1, 1, 0, 0)
      BY CountedWorld
    <3>5. Becomes(Settled(Longer(Counted(World, 1, 1, 0, 0), {id}), f))
      BY <1>3, <1>5, <2>2, <2>5, <3>1, <3>3 DEF AdvanceOne
    <3>7. PICK fwd \in SUBSET ids : fwd = {id}
      BY <2>3
    <3>8. Longer(Counted(World, 1, 1, 0, 0), {id})
            = [len |-> Lengthened(len, SequencesOf(fwd)),
               requests |-> requests, stats |-> c, fatal |-> FALSE]
      BY <3>4, <3>7 DEF CountedAs
    <3>9. Becomes(Settled([len |-> Lengthened(len, SequencesOf(fwd)),
                           requests |-> requests, stats |-> c,
                           fatal |-> FALSE], f))
      BY <3>5, <3>8
    <3>10. SequencesOf(fwd) \subseteq Live
      <4>1. SequencesOf(fwd) = {requests[id].sequence}
        BY <3>7 DEF SequencesOf
      <4> QED BY <2>5, <4>1, FitsLive
    <3>11. /\ DOMAIN f = ids
           /\ \A i \in ids :
               /\ RequestSound(f[i]) /\ SameTurn(requests[i], f[i])
               /\ f[i].forward_count
                    = requests[i].forward_count + IF i \in fwd THEN 1 ELSE 0
               /\ i \notin fwd => Terminal(f[i])
      BY <3>2, <3>3, <2>3, <3>7
    <3>12. /\ RequestsMove(fwd, ids \ fwd) /\ LenMoves(fwd)
           /\ fatal' = FALSE /\ stats' = c /\ UNCHANGED next_id
           /\ Turned(f)
      BY <3>9, <3>10, <3>11, SettledMoves
    <3>13. Moves({id}, {})
      <4>1. RequestsMove({id}, {}) /\ LenMoves({id})
        BY <2>3, <3>7, <3>12
      <4> QED BY <1>2, <1>6, <3>12, <4>1 DEF Moves
    <3>14. CountersMove({id}, {})
      <4>1. c.single = stats.single + 1
            /\ c.successful = stats.successful + 1 /\ c.batch = stats.batch
            /\ c.batched = stats.batched
        BY <3>4 DEF CountedAs, TypeSound, Stats
      <4>2. stats \in Stats
        BY DEF TypeSound
      <4>3. Cardinality({id}) = 1
        BY FS_Singleton
      <4> QED BY <3>12, <4>1, <4>2, <4>3 DEF CountersMove, Stats
    <3>15. Advances({id}, {})
      BY <3>1, <3>3, <3>12 DEF Advances, Turned
    <3> QED BY <3>13, <3>14, <3>15 DEF Step
  <2> QED BY <2>4, <2>5
<1>8. CASE ~(id \in DOMAIN requests /\ ~Terminal(requests[id]))
  <2>1. id \in queue
    <3>1. queue \subseteq 1..next_request - 1 /\ next_request - 1 \in Nat
      BY DEF TypeSound
    <3>2. PICK i : i \in queue /\ \A j \in queue : i <= j
      BY <1>2, <3>1, LeastNat
    <3> QED BY <1>1, <3>2 DEF Min
  <2>2. Terminal(requests[id]) /\ id \notin Alive
    BY <1>8, <2>1 DEF TypeSound, Alive
  <2>3. Becomes(World)
    BY <1>3, <1>5, <2>2 DEF AdvanceOne
  <2>4. /\ len' = len /\ requests' = requests /\ stats' = stats
        /\ fatal' = FALSE /\ next_id' = next_id
    BY <1>5, <2>3 DEF Becomes
  <2>5. Moves({}, {})
    BY <1>2, <1>6, <2>2, <2>4, IdleMoves DEF Moves
  <2>6. CountersMove({}, {})
    BY <2>4, FS_EmptySet DEF CountersMove, TypeSound, Stats
  <2> QED BY <2>5, <2>6 DEF Step, Advances
<1> QED BY <1>7, <1>8

(* The rows of a batch are live, and can decode.                           *)
LEMMA CohortReady ==
  ASSUME TypeSound
  PROVE  /\ Cohort \in SUBSET Alive /\ Cohort \subseteq queue
         /\ \A id \in Cohort : ~Prefilling(requests[id])
         /\ IsFiniteSet(Cohort) /\ Cardinality(Cohort) \in Nat
PROOF
<1>1. Cohort \subseteq queue
  BY DEF Cohort
<1>2. queue \subseteq 1..next_request - 1 /\ next_request - 1 \in Nat
  BY DEF TypeSound
<1>3. ASSUME NEW id \in Cohort
      PROVE  id \in Alive /\ ~Prefilling(requests[id])
  <2>1. id \in Nat /\ id <= id /\ id \in DOMAIN requests
    BY <1>1, <1>2, <1>3 DEF TypeSound
  <2>2. ~Terminal(requests[id]) /\ DecodeReady(requests[id])
    BY <1>1, <1>3, <2>1 DEF Cohort
  <2> QED BY <2>1, <2>2 DEF Alive, DecodeReady
<1>4. IsFiniteSet(Cohort)
  <2>1. IsFiniteSet(1..next_request - 1)
    BY <1>2, FS_Interval
  <2> QED BY <1>1, <1>2, <2>1, FS_Subset
<1> QED BY <1>1, <1>3, <1>4, FS_CardinalityType

(* AdvanceCohort is one forward of each of its rows.                       *)
LEMMA CohortSteps ==
  ASSUME TypeSound, OwnersSound, NeverFatal, AdvanceCohort
  PROVE  \E fwd, ended : Step(fwd, ended) /\ Advances(fwd, ended)
PROOF
<1>1. PICK ids \in SUBSET Alive : ids = Cohort
  BY CohortReady
<1>2. /\ ids \subseteq queue /\ IsFiniteSet(ids) /\ Cardinality(ids) \in Nat
      /\ \A id \in ids : ~Prefilling(requests[id])
  BY <1>1, CohortReady
<1>3. /\ Cardinality(ids) >= 2 /\ serial = {} /\ BatchFits(World, ids)
      /\ queue' = queue \ ids
      /\ UNCHANGED <<sessions, next_session, next_request, serial, loop>>
  BY <1>1 DEF AdvanceCohort, AsBatch
<1>4. PICK o \in [ids -> Outcomes] : Becomes(BatchedAdvance(World, ids, o))
  BY <1>1 DEF AdvanceCohort
<1>5. PICK n : n = Cardinality(ids)
  OBVIOUS
<1>6. PICK c \in Stats : CountedAs(c, 0, 0, 1, n)
  BY <1>2, <1>5, CountedWorld
<1>7. PICK committed :
        committed = [id \in ids |-> Committed(Forwarded(requests[id]))]
  OBVIOUS
<1>8. PICK f : f = [id \in ids |-> SampledNext(committed[id], o[id])]
  OBVIOUS
<1>9. Becomes(Settled(Longer(Counted(World, 0, 0, 1, n), ids), f))
  <2>1. World.requests = requests
    BY DEF World
  <2> QED BY <1>4, <1>5, <1>7, <1>8, <2>1 DEF BatchedAdvance
<1>10. Becomes(Settled([len |-> Lengthened(len, SequencesOf(ids)),
                        requests |-> requests, stats |-> c,
                        fatal |-> FALSE], f))
  BY <1>6, <1>9 DEF CountedAs
<1>11. ASSUME NEW id \in ids
       PROVE  /\ RequestSound(f[id]) /\ SameTurn(requests[id], f[id])
              /\ f[id].forward_count = requests[id].forward_count + 1
              /\ \E p \in Outcomes :
                   f[id] = SampledNext(Decoded(requests[id]), p)
  <2>1. RequestSound(requests[id]) /\ ~Terminal(requests[id])
    BY <1>11, AliveReady
  <2>2. committed[id] = Decoded(requests[id])
    BY <1>2, <1>7, <1>11 DEF Decoded
  <2>3. f[id] = SampledNext(Decoded(requests[id]), o[id])
    BY <1>8, <1>11, <2>2
  <2>4. o[id] \in Outcomes
    BY <1>4, <1>11
  <2> QED BY <2>1, <2>3, <2>4, AdvancedSound
<1>12. SequencesOf(ids) \subseteq Live
  <2>1. {World.requests[id].sequence : id \in ids} = SequencesOf(ids)
        /\ World.len = len
    BY DEF World, SequencesOf
  <2> QED BY <1>3, <2>1, FitsLive DEF BatchFits
<1>13. /\ DOMAIN f = ids
       /\ \A i \in ids :
           /\ RequestSound(f[i]) /\ SameTurn(requests[i], f[i])
           /\ f[i].forward_count
                = requests[i].forward_count + IF i \in ids THEN 1 ELSE 0
           /\ i \notin ids => Terminal(f[i])
  BY <1>8, <1>11
<1>14. /\ RequestsMove(ids, ids \ ids) /\ LenMoves(ids)
       /\ fatal' = FALSE /\ stats' = c /\ UNCHANGED next_id
       /\ Turned(f)
  <2>1. ids \in SUBSET ids
    OBVIOUS
  <2> QED BY <1>10, <1>12, <1>13, <2>1, SettledMoves
<1>15. Moves(ids, {})
  <2>1. RequestsMove(ids, {})
    <3>1. ids \ ids = {}
      OBVIOUS
    <3> QED BY <1>14, <3>1
  <2> QED BY <1>3, <1>14, <2>1 DEF Moves
<1>16. CountersMove(ids, {})
  <2>1. /\ c.single = stats.single + 0 /\ c.successful = stats.successful + 0
        /\ c.batch = stats.batch + 1 /\ c.batched = stats.batched + n
    BY <1>6 DEF CountedAs
  <2>2. stats \in Stats
    BY DEF TypeSound
  <2>3. n \in Nat /\ n >= 2 /\ Cardinality(ids) = n
    BY <1>2, <1>3, <1>5
  <2> QED BY <1>14, <2>1, <2>2, <2>3 DEF CountersMove, Stats
<1>17. Advances(ids, {})
  BY <1>11, <1>13, <1>14 DEF Advances, Turned
<1> QED BY <1>15, <1>16, <1>17 DEF Step

(* What such a step does to the sets of live requests and sequences.       *)
LEMMA StepSets ==
  ASSUME TypeSound, OwnersSound, NEW fwd, NEW ended, Moves(fwd, ended)
  PROVE  /\ DOMAIN requests' = DOMAIN requests
         /\ Alive' \subseteq Alive
         /\ \A id \in DOMAIN requests :
              /\ SessionBound(requests'[id]) = SessionBound(requests[id])
              /\ requests'[id].session = requests[id].session
              /\ requests'[id].sequence = requests[id].sequence
         /\ LegacyAlive' \subseteq LegacyAlive
         /\ Live' = Live \ SequencesOf(LegacyAlive \ LegacyAlive')
PROOF
<1>1. DOMAIN requests' = DOMAIN requests
  BY DEF Moves, RequestsMove
<1>2. ASSUME NEW id \in DOMAIN requests
      PROVE  /\ SessionBound(requests'[id]) = SessionBound(requests[id])
             /\ requests'[id].session = requests[id].session
             /\ requests'[id].sequence = requests[id].sequence
  BY DEF Moves, RequestsMove, SameTurn, SessionBound
<1>3. Alive' \subseteq Alive
  <2>1. ASSUME NEW id \in DOMAIN requests, ~Terminal(requests'[id]),
               Terminal(requests[id])
        PROVE  FALSE
    <3>1. id \notin Alive
      BY <2>1 DEF Alive
    <3>2. requests'[id] = requests[id]
      BY <3>1 DEF Moves, RequestsMove
    <3> QED BY <2>1, <3>2
  <2> QED BY <1>1, <2>1 DEF Alive
<1>4. LegacyAlive' \subseteq LegacyAlive
  BY <1>1, <1>2, <1>3 DEF LegacyAlive, Alive
<1>5. LegacyAlive \ LegacyAlive' = {id \in LegacyAlive : Terminal(requests'[id])}
  BY <1>1, <1>2 DEF LegacyAlive, Alive
<1>6. Live' = Live \ SequencesOf({id \in LegacyAlive : Terminal(requests'[id])})
  BY DEF Moves, LenMoves, Live
<1> QED BY <1>1, <1>2, <1>3, <1>4, <1>5, <1>6

(* A step leaves sound requests, and no id out of range.                   *)
LEMMA StepTypes ==
  ASSUME TypeSound, OwnersSound, NEW fwd, NEW ended, Step(fwd, ended)
  PROVE  TypeSound'
PROOF
<1>1. Moves(fwd, ended) /\ stats' \in Stats
  BY DEF Step, CountersMove
<1>2. /\ next_id' = next_id /\ sessions' = sessions /\ loop' = loop
      /\ next_session' = next_session /\ next_request' = next_request
      /\ fatal' = FALSE /\ queue' \subseteq queue /\ serial' \subseteq queue'
  BY <1>1 DEF Moves
<1>3. len' \in [DOMAIN len' -> Nat] /\ DOMAIN len' \subseteq DOMAIN len
  <2>1. \A q \in Live : len[q] \in Nat
    BY DEF TypeSound, Live
  <2>2. PICK d : d = Live \ SequencesOf({id \in LegacyAlive :
                                           Terminal(requests'[id])})
    OBVIOUS
  <2>3. len' = [q \in d |->
                  len[q] + IF q \in SequencesOf(fwd) THEN 1 ELSE 0]
    BY <1>1, <2>2 DEF Moves, LenMoves
  <2>4. d \subseteq Live
    BY <2>2
  <2> QED BY <2>1, <2>3, <2>4 DEF Live
<1>4. requests' \in [1..next_request' - 1 -> Requests]
  BY <1>1, <1>2 DEF Moves, RequestsMove, TypeSound
<1>5. \A id \in DOMAIN requests' : /\ RequestSound(requests'[id])
                                   /\ requests'[id].session < next_session'
                                   /\ requests'[id].sequence < next_id'
  BY <1>1, <1>2 DEF Moves, RequestsMove, SameTurn, TypeSound
<1>6. DOMAIN len' \subseteq 1..next_id' - 1
  BY <1>2, <1>3 DEF TypeSound
<1>7. queue' \subseteq DOMAIN requests' /\ serial' \subseteq queue'
  BY <1>1, <1>2 DEF TypeSound, Moves, RequestsMove
<1> QED BY <1>1, <1>2, <1>3, <1>4, <1>5, <1>6, <1>7 DEF TypeSound

(* A legacy request that ends takes its sequence along, so every live      *)
(* sequence keeps one owner.                                               *)
LEMMA StepOwners ==
  ASSUME TypeSound, OwnersSound, NEW fwd, NEW ended, Moves(fwd, ended)
  PROVE  OwnersSound'
PROOF
<1>1. /\ DOMAIN requests' = DOMAIN requests /\ Alive' \subseteq Alive
      /\ \A id \in DOMAIN requests :
           /\ SessionBound(requests'[id]) = SessionBound(requests[id])
           /\ requests'[id].session = requests[id].session
           /\ requests'[id].sequence = requests[id].sequence
      /\ LegacyAlive' \subseteq LegacyAlive
      /\ Live' = Live \ SequencesOf(LegacyAlive \ LegacyAlive')
  BY StepSets
<1>2. sessions' = sessions
  BY DEF Moves
<1>3. LegacyAlive \subseteq DOMAIN requests /\ Alive \subseteq DOMAIN requests
  BY DEF LegacyAlive, Alive
<1>4. \A s \in DOMAIN sessions' : sessions'[s].sequence \in Live'
  <2>1. \A s \in DOMAIN sessions : /\ sessions[s].sequence \in Live
          /\ \A id \in LegacyAlive :
               sessions[s].sequence # requests[id].sequence
    BY DEF OwnersSound
  <2> QED BY <1>1, <1>2, <2>1 DEF SequencesOf
<1>5. \A s, t \in DOMAIN sessions' :
        sessions'[s].sequence = sessions'[t].sequence => s = t
  BY <1>2 DEF OwnersSound
<1>6. /\ \A id \in LegacyAlive' : requests'[id].sequence \in Live'
      /\ \A i, j \in LegacyAlive' :
           requests'[i].sequence = requests'[j].sequence => i = j
  <2>1. /\ \A id \in LegacyAlive : requests[id].sequence \in Live
        /\ \A i, j \in LegacyAlive :
             requests[i].sequence = requests[j].sequence => i = j
    BY DEF OwnersSound
  <2> QED BY <1>1, <1>3, <2>1 DEF SequencesOf
<1>7. \A s \in DOMAIN sessions', id \in LegacyAlive' :
        sessions'[s].sequence # requests'[id].sequence
  <2>1. \A s \in DOMAIN sessions, id \in LegacyAlive :
          sessions[s].sequence # requests[id].sequence
    BY DEF OwnersSound
  <2> QED BY <1>1, <1>2, <1>3, <2>1
<1>8. ASSUME NEW q \in Live'
      PROVE  \/ \E s \in DOMAIN sessions' : q = sessions'[s].sequence
             \/ \E id \in LegacyAlive' : q = requests'[id].sequence
  <2>1. q \in Live /\ q \notin SequencesOf(LegacyAlive \ LegacyAlive')
    BY <1>1, <1>8
  <2>2. \/ \E s \in DOMAIN sessions : q = sessions[s].sequence
        \/ \E id \in LegacyAlive : q = requests[id].sequence
    BY <2>1 DEF OwnersSound
  <2> QED BY <1>1, <1>2, <1>3, <2>1, <2>2 DEF SequencesOf
<1>9. ASSUME NEW id \in DOMAIN requests', SessionBound(requests'[id])
      PROVE  IF requests'[id].session \in DOMAIN sessions'
             THEN requests'[id].sequence
                    = sessions'[requests'[id].session].sequence
             ELSE requests'[id].sequence \notin Live'
  <2>1. IF requests[id].session \in DOMAIN sessions
        THEN requests[id].sequence = sessions[requests[id].session].sequence
        ELSE requests[id].sequence \notin Live
    BY <1>1, <1>9 DEF OwnersSound
  <2> QED BY <1>1, <1>2, <1>9, <2>1
<1>10. \A i, j \in Alive' :
         SessionBound(requests'[i])
           /\ requests'[i].session = requests'[j].session => i = j
  <2>1. \A i, j \in Alive :
          SessionBound(requests[i]) /\ requests[i].session = requests[j].session
            => i = j
    BY DEF OwnersSound
  <2> QED BY <1>1, <1>3, <2>1
<1> QED BY <1>4, <1>5, <1>6, <1>7, <1>8, <1>9, <1>10 DEF OwnersSound

(* A live request has not used up its bound.                               *)
LEMMA ForwardsBelowBound ==
  ASSUME TypeSound, NEW id \in Alive
  PROVE  /\ requests[id].forward_count \in Nat
         /\ ForwardBound(requests[id]) \in Nat
         /\ requests[id].forward_count < ForwardBound(requests[id])
PROOF
<1>1. PICK r : r = requests[id]
  OBVIOUS
<1>2. RequestSound(r) /\ ~Terminal(r)
  BY <1>1, AliveReady
<1>3. r \in Requests /\ Underway(r) /\ r.prefill_pos <= r.prompt
  BY <1>2 DEF RequestSound
<1>4. /\ r.prefill_pos \in Nat /\ r.prompt \in Nat \ {0} /\ r.max_new \in Nat
      /\ r.forward_count \in Nat /\ Len(r.generated) \in Nat
  BY <1>3, LenProperties DEF Requests
<1>5. PICK m : m = Len(r.generated)
  OBVIOUS
<1>6. /\ Prefilling(r) => m = 0 /\ r.forward_count = r.prefill_pos
      /\ ~Prefilling(r) => m = r.forward_count - r.prefill_pos + 1
      /\ m <= r.max_new
      /\ ~SessionBound(r) => m < r.max_new
  BY <1>3, <1>5 DEF Underway
<1>7. PICK n \in Nat \ {0}, b \in Nat, p \in Nat, c \in Nat :
        /\ n = r.prompt /\ b = r.max_new /\ p = r.prefill_pos
        /\ c = r.forward_count
  BY <1>4
<1>8. \/ m = 0 /\ c = p /\ p < n
      \/ m = (c - p) + 1 /\ p = n
  BY <1>3, <1>4, <1>5, <1>6, <1>7 DEF Prefilling
<1>9. m \in Nat /\ m <= b
  BY <1>4, <1>5, <1>6, <1>7
<1>10. CASE SessionBound(r)
  <2>1. ForwardBound(r) = n + b
    BY <1>7, <1>10 DEF ForwardBound
  <2>2. n + b \in Nat /\ c < n + b
    BY <1>8, <1>9
  <2> QED BY <1>1, <1>7, <2>1, <2>2
<1>11. CASE ~SessionBound(r)
  <2>1. ForwardBound(r) = n + (b - 1)
    BY <1>7, <1>11 DEF ForwardBound
  <2>2. m < b
    BY <1>5, <1>6, <1>7, <1>11
  <2>3. n + (b - 1) \in Nat /\ c < n + (b - 1)
    BY <1>8, <1>9, <2>2
  <2> QED BY <1>1, <1>7, <2>1, <2>3
<1> QED BY <1>10, <1>11

(* A live request that leaves the queue of a step was forwarded in it, so  *)
(* each iteration of run() counts one forward of it.                       *)
LEMMA StepLoop ==
  ASSUME TypeSound, OwnersSound, LoopSound,
         NEW fwd, NEW ended, Moves(fwd, ended)
  PROVE  LoopSound'
PROOF
<1>1. loop' = loop /\ queue' \subseteq queue
  BY DEF Moves
<1> SUFFICES ASSUME loop.running, NEW id \in Alive'
             PROVE  /\ ForwardBound(requests'[id]) <= loop.bound
                    /\ loop.i <= requests'[id].forward_count
                                   + IF id \in queue' THEN 1 ELSE 0
  BY <1>1 DEF LoopSound
<1>2. id \in Alive /\ id \in DOMAIN requests /\ ~Terminal(requests'[id])
  BY StepSets DEF Alive
<1>3. /\ ForwardBound(requests[id]) <= loop.bound
      /\ loop.i <= requests[id].forward_count + IF id \in queue THEN 1 ELSE 0
  BY <1>2 DEF LoopSound
<1>4. ForwardBound(requests'[id]) = ForwardBound(requests[id])
  BY <1>2 DEF Moves, RequestsMove, SameTurn, ForwardBound, SessionBound
<1>5. requests'[id].forward_count
        = requests[id].forward_count + IF id \in fwd THEN 1 ELSE 0
  BY <1>2 DEF Moves, RequestsMove
<1>6. id \in queue /\ id \notin queue' => id \in fwd
  <2>1. id \notin ended
    BY <1>2 DEF Moves, RequestsMove
  <2> QED BY <1>2, <2>1 DEF Moves
<1>7. requests[id].forward_count \in Nat /\ loop.i \in Nat
  BY <1>2, ForwardsBelowBound DEF TypeSound, Loops
<1> QED BY <1>1, <1>3, <1>4, <1>5, <1>6, <1>7

(* The session of a live sequence's turn is live, so that no two requests  *)
(* of a step share a sequence.                                             *)
LEMMA AliveApart ==
  ASSUME OwnersSound, NEW i \in Alive, NEW j \in Alive,
         requests[i].sequence = requests[j].sequence,
         requests[i].sequence \in Live
  PROVE  i = j
PROOF
<1>1. i \in DOMAIN requests /\ j \in DOMAIN requests
  BY DEF Alive
<1>2. ASSUME NEW k \in {i, j}, SessionBound(requests[k])
      PROVE  /\ requests[k].session \in DOMAIN sessions
             /\ requests[k].sequence = sessions[requests[k].session].sequence
  BY <1>1, <1>2 DEF OwnersSound
<1>3. CASE SessionBound(requests[i]) /\ SessionBound(requests[j])
  <2>1. requests[i].session = requests[j].session
    BY <1>2, <1>3 DEF OwnersSound
  <2> QED BY <1>3, <2>1 DEF OwnersSound
<1>4. CASE ~SessionBound(requests[i]) /\ ~SessionBound(requests[j])
  BY <1>4 DEF OwnersSound, LegacyAlive
<1>5. CASE SessionBound(requests[i]) # SessionBound(requests[j])
  <2>1. ASSUME NEW k \in Alive, NEW l \in Alive, SessionBound(requests[k]),
               ~SessionBound(requests[l]), k \in {i, j}, l \in {i, j}
        PROVE  FALSE
    <3>1. /\ requests[k].session \in DOMAIN sessions
          /\ requests[k].sequence = sessions[requests[k].session].sequence
      BY <1>2, <2>1
    <3>2. l \in LegacyAlive
      BY <2>1 DEF LegacyAlive
    <3>3. sessions[requests[k].session].sequence # requests[l].sequence
      BY <3>1, <3>2 DEF OwnersSound
    <3> QED BY <2>1, <3>1, <3>3
  <2> QED BY <1>5, <2>1 DEF SessionBound
<1> QED BY <1>3, <1>4, <1>5 DEF SessionBound

(* A live request of a step is forwarded if and only if its sequence is    *)
(* one of those that are longer.                                           *)
LEMMA ForwardedSequences ==
  ASSUME OwnersSound, NEW fwd, NEW ended, Moves(fwd, ended), NEW id \in Alive,
         requests[id].sequence \in Live
  PROVE  requests[id].sequence \in SequencesOf(fwd) <=> id \in fwd
PROOF
<1>1. fwd \subseteq Alive
  BY DEF Moves, RequestsMove
<1>2. ASSUME requests[id].sequence \in SequencesOf(fwd) PROVE id \in fwd
  <2>1. PICK i \in fwd : requests[i].sequence = requests[id].sequence
    BY <1>2 DEF SequencesOf
  <2>2. i = id
    BY <1>1, <2>1, AliveApart
  <2> QED BY <2>1, <2>2
<1> QED BY <1>2 DEF SequencesOf

(* A forward takes one position of the ones that were kept for the         *)
(* request.                                                                *)
LEMMA StepCovers ==
  ASSUME TypeSound, OwnersSound, AdmissionCovers,
         NEW fwd, NEW ended, Moves(fwd, ended)
  PROVE  AdmissionCovers'
PROOF
<1> SUFFICES ASSUME NEW id \in Alive', requests'[id].sequence \in Live'
             PROVE  len'[requests'[id].sequence] + ForwardBound(requests'[id])
                      - requests'[id].forward_count <= MaxSeqLen
  BY DEF AdmissionCovers
<1>1. PICK q : q = requests[id].sequence
  OBVIOUS
<1>2. id \in Alive /\ id \in DOMAIN requests /\ requests'[id].sequence = q
  BY <1>1, StepSets DEF Alive
<1>3. q \in Live
  BY <1>2, StepSets
<1>4. len[q] + ForwardBound(requests[id]) - requests[id].forward_count
        <= MaxSeqLen
  BY <1>1, <1>2, <1>3 DEF AdmissionCovers
<1>5. ForwardBound(requests'[id]) = ForwardBound(requests[id])
  BY <1>2 DEF Moves, RequestsMove, SameTurn, ForwardBound, SessionBound
<1>6. requests'[id].forward_count
        = requests[id].forward_count + IF id \in fwd THEN 1 ELSE 0
  BY <1>2 DEF Moves, RequestsMove
<1>7. len'[q] = len[q] + IF id \in fwd THEN 1 ELSE 0
  <2>1. len'[q] = len[q] + IF q \in SequencesOf(fwd) THEN 1 ELSE 0
    BY <1>2, <1>3 DEF Moves, LenMoves, Live
  <2>2. q \in SequencesOf(fwd) <=> id \in fwd
    BY <1>1, <1>2, <1>3, ForwardedSequences
  <2> QED BY <2>1, <2>2
<1>8. /\ requests[id].forward_count \in Nat /\ len[q] \in Nat
      /\ ForwardBound(requests[id]) \in Nat
  BY <1>2, <1>3, ForwardsBelowBound DEF TypeSound, Live
<1>9. MaxSeqLen \in Nat
  BY SchedulerAssumption
<1> QED BY <1>2, <1>4, <1>5, <1>6, <1>7, <1>8, <1>9

(* The forwards of some requests are a number, and a step adds its own.    *)
LEMMA ForwardsNat ==
  ASSUME TypeSound, NEW ids \in SUBSET DOMAIN requests
  PROVE  IsFiniteSet(ids) /\ ForwardsOf(ids) \in Nat
         /\ (ids = {} => ForwardsOf(ids) = 0)
PROOF
<1>1. IsFiniteSet(ids)
  <2>1. next_request - 1 \in Int /\ DOMAIN requests = 1..next_request - 1
    BY DEF TypeSound
  <2>2. IsFiniteSet(DOMAIN requests)
    BY <2>1, FS_Interval
  <2> QED BY <2>2, FS_Subset
<1>2. PICK f : f = [id \in ids |-> requests[id].forward_count]
  OBVIOUS
<1>3. \A id \in ids : f[id] \in Nat
  BY <1>2 DEF TypeSound, Requests
<1>4. ForwardsOf(ids) = SumFunctionOnSet(f, ids)
  BY <1>2 DEF ForwardsOf, SumFunction
<1> QED BY <1>1, <1>3, <1>4, SumOfNaturals

(* The forwards of some requests grow by those of them that were           *)
(* forwarded.                                                              *)
LEMMA ForwardsRaised ==
  ASSUME TypeSound, NEW fwd, NEW ended, RequestsMove(fwd, ended),
         NEW ids \in SUBSET DOMAIN requests
  PROVE  ForwardsOf(ids)' = ForwardsOf(ids) + Cardinality(fwd \cap ids)
PROOF
<1>1. IsFiniteSet(ids)
  BY ForwardsNat
<1>2. PICK f : f = [id \in ids |-> requests[id].forward_count]
  OBVIOUS
<1>3. PICK g : g = [id \in ids |-> requests'[id].forward_count]
  OBVIOUS
<1>4. PICK t \in SUBSET ids : t = fwd \cap ids
  OBVIOUS
<1>5. \A id \in ids : f[id] \in Nat
  BY <1>2 DEF TypeSound, Requests
<1>6. \A id \in ids : g[id] = f[id] + IF id \in t THEN 1 ELSE 0
  BY <1>2, <1>3, <1>4 DEF RequestsMove
<1>7. SumFunctionOnSet(g, ids) = SumFunctionOnSet(f, ids) + Cardinality(t)
  BY <1>1, <1>5, <1>6, SumRaised
<1>8. ForwardsOf(ids) = SumFunctionOnSet(f, ids)
  BY <1>2 DEF ForwardsOf, SumFunction
<1>9. ForwardsOf(ids)' = SumFunctionOnSet(g, ids)
  BY <1>3 DEF ForwardsOf, SumFunction
<1> QED BY <1>4, <1>7, <1>8, <1>9

(* The requests of a session, and the ones that failed.                    *)
TurnsOf(s) == {id \in DOMAIN requests : requests[id].session = s}
FailedOnes == {id \in DOMAIN requests : requests[id].status = "Failed"}

(* The sequence of a live session is forwarded with one of its turns, and  *)
(* with nothing else.                                                      *)
LEMMA SessionForwarded ==
  ASSUME TypeSound, OwnersSound, NEW fwd \in SUBSET Alive,
         NEW s \in DOMAIN sessions
  PROVE  Cardinality(fwd \cap TurnsOf(s))
           = IF sessions[s].sequence \in SequencesOf(fwd) THEN 1 ELSE 0
PROOF
<1>1. PICK q : q = sessions[s].sequence
  OBVIOUS
<1>2. q \in Live /\ s \in Nat \ {0}
  BY <1>1 DEF OwnersSound, TypeSound
<1>3. \A id \in TurnsOf(s) : SessionBound(requests[id])
                              /\ requests[id].sequence = q
  <2> SUFFICES ASSUME NEW id \in TurnsOf(s)
               PROVE  SessionBound(requests[id]) /\ requests[id].sequence = q
    OBVIOUS
  <2>1. /\ id \in DOMAIN requests /\ requests[id].session = s
        /\ SessionBound(requests[id])
    BY <1>2 DEF TurnsOf, SessionBound, NoSession
  <2> QED BY <1>1, <2>1 DEF OwnersSound
<1>4. \A id \in fwd : requests[id].sequence = q => id \in TurnsOf(s)
  <2> SUFFICES ASSUME NEW id \in fwd, requests[id].sequence = q
               PROVE  requests[id].session = s
    BY DEF TurnsOf, Alive
  <2>1. id \in Alive /\ id \in DOMAIN requests
    BY DEF Alive
  <2>2. SessionBound(requests[id])
    <3>1. id \in LegacyAlive => FALSE
      BY <1>1 DEF OwnersSound
    <3> QED BY <2>1, <3>1 DEF LegacyAlive
  <2>3. /\ requests[id].session \in DOMAIN sessions
        /\ sessions[requests[id].session].sequence = q
    BY <1>2, <2>1, <2>2 DEF OwnersSound
  <2> QED BY <1>1, <2>3 DEF OwnersSound
<1>5. CASE q \in SequencesOf(fwd)
  <2>1. PICK i \in fwd : requests[i].sequence = q
    BY <1>5 DEF SequencesOf
  <2>2. \A j \in fwd \cap TurnsOf(s) : j = i
    BY <1>2, <1>3, <2>1, AliveApart
  <2>3. fwd \cap TurnsOf(s) = {i}
    BY <1>4, <2>1, <2>2
  <2> QED BY <1>1, <1>5, <2>3, FS_Singleton
<1>6. CASE q \notin SequencesOf(fwd)
  <2>1. fwd \cap TurnsOf(s) = {}
    BY <1>3, <1>6 DEF SequencesOf
  <2> QED BY <1>1, <1>6, <2>1, FS_EmptySet
<1> QED BY <1>5, <1>6

(* A step accounts for every token: in the sequences, in the requests, in  *)
(* the counters.                                                           *)
LEMMA StepConserves ==
  ASSUME TypeSound, OwnersSound, Conservation,
         NEW fwd, NEW ended, Step(fwd, ended)
  PROVE  Conservation'
PROOF
<1>1. /\ Moves(fwd, ended) /\ RequestsMove(fwd, ended) /\ LenMoves(fwd)
      /\ CountersMove(fwd, ended) /\ sessions' = sessions
      /\ fwd \in SUBSET Alive /\ ended \in SUBSET Alive
  BY DEF Step, Moves, RequestsMove
<1>2. /\ DOMAIN requests' = DOMAIN requests /\ Alive' \subseteq Alive
      /\ \A id \in DOMAIN requests :
           /\ SessionBound(requests'[id]) = SessionBound(requests[id])
           /\ requests'[id].session = requests[id].session
           /\ requests'[id].sequence = requests[id].sequence
      /\ Live' \subseteq Live
  BY <1>1, StepSets
<1>3. Alive \subseteq DOMAIN requests
  BY DEF Alive
<1>4. \A q \in Live' : len'[q] = len[q] + IF q \in SequencesOf(fwd)
                                          THEN 1 ELSE 0
  BY <1>1 DEF LenMoves, Live
<1>5. ASSUME NEW s \in DOMAIN sessions', sessions'[s].reset_count = 0
      PROVE  len'[sessions'[s].sequence]
               = ForwardsOf({id \in DOMAIN requests : requests[id].session = s})'
  <2>1. s \in DOMAIN sessions /\ sessions[s].reset_count = 0
    BY <1>1, <1>5
  <2>2. len[sessions[s].sequence] = ForwardsOf(TurnsOf(s))
    BY <2>1 DEF Conservation, TurnsOf
  <2>3. sessions[s].sequence \in Live'
    BY <1>1, <2>1, StepOwners DEF OwnersSound
  <2>4. PICK ids \in SUBSET DOMAIN requests : ids = TurnsOf(s)
    BY DEF TurnsOf
  <2>5. {id \in DOMAIN requests : requests[id].session = s}' = ids
    BY <1>2, <2>4 DEF TurnsOf
  <2>6. ForwardsOf(ids)' = ForwardsOf(ids) + Cardinality(fwd \cap ids)
    BY <1>1, ForwardsRaised
  <2>7. Cardinality(fwd \cap ids)
          = IF sessions[s].sequence \in SequencesOf(fwd) THEN 1 ELSE 0
    BY <1>1, <2>1, <2>4, SessionForwarded
  <2>8. len'[sessions[s].sequence] = ForwardsOf(ids)'
    BY <1>4, <2>2, <2>3, <2>4, <2>6, <2>7
  <2>9. ForwardsOf({id \in DOMAIN requests : requests[id].session = s})'
          = ForwardsOf(ids)'
    BY <2>5 DEF ForwardsOf
  <2> QED BY <1>1, <2>8, <2>9
<1>6. ASSUME NEW id \in Alive', ~SessionBound(requests'[id])
      PROVE  len'[requests'[id].sequence] = requests'[id].forward_count
  <2>1. id \in Alive /\ ~SessionBound(requests[id]) /\ id \in DOMAIN requests
    BY <1>2, <1>3, <1>6
  <2>2. len[requests[id].sequence] = requests[id].forward_count
    BY <2>1 DEF Conservation
  <2>3. requests[id].sequence \in Live'
    <3>1. id \in LegacyAlive'
      BY <1>6 DEF LegacyAlive
    <3>2. OwnersSound'
      BY <1>1, StepOwners
    <3> QED BY <1>2, <2>1, <3>1, <3>2 DEF OwnersSound
  <2>4. requests[id].sequence \in SequencesOf(fwd) <=> id \in fwd
    BY <1>1, <1>2, <2>1, <2>3, ForwardedSequences
  <2>5. requests'[id].forward_count
          = requests[id].forward_count + IF id \in fwd THEN 1 ELSE 0
    BY <1>1, <2>1 DEF RequestsMove
  <2> QED BY <1>2, <1>4, <2>1, <2>2, <2>3, <2>4, <2>5
<1>7. (stats.successful + stats.batched = ForwardsOf(DOMAIN requests))'
  <2>1. PICK ids \in SUBSET DOMAIN requests : ids = DOMAIN requests
    OBVIOUS
  <2>2. ForwardsOf(ids)' = ForwardsOf(ids) + Cardinality(fwd \cap ids)
    BY <1>1, ForwardsRaised
  <2>3. fwd \cap ids = fwd
    BY <1>1, <1>3, <2>1
  <2>4. stats.successful + stats.batched = ForwardsOf(ids)
    BY <2>1 DEF Conservation
  <2>5. ForwardsOf(DOMAIN requests)' = ForwardsOf(ids)'
    BY <1>2, <2>1 DEF ForwardsOf
  <2> QED BY <1>1, <2>2, <2>3, <2>4, <2>5 DEF CountersMove
<1>8. (stats.single - stats.successful
         \in 0..Cardinality({id \in DOMAIN requests :
                               requests[id].status = "Failed"}))'
  <2>1. /\ stats \in Stats /\ stats' \in Stats
        /\ stats.single - stats.successful \in 0..Cardinality(FailedOnes)
    BY <1>1 DEF TypeSound, CountersMove, Conservation, FailedOnes
  <2>2. FailedOnes \subseteq FailedOnes'
    <3> SUFFICES ASSUME NEW id \in FailedOnes PROVE id \in FailedOnes'
      OBVIOUS
    <3>1. id \in DOMAIN requests /\ id \notin Alive
      BY DEF FailedOnes, Alive, Terminal, TerminalStatuses
    <3>2. requests'[id] = requests[id]
      BY <1>1, <3>1 DEF RequestsMove
    <3> QED BY <1>2, <3>1, <3>2 DEF FailedOnes
  <2>3. IsFiniteSet(FailedOnes) /\ IsFiniteSet(FailedOnes')
    <3>1. FailedOnes \in SUBSET DOMAIN requests
          /\ FailedOnes' \in SUBSET DOMAIN requests
      BY <1>2 DEF FailedOnes
    <3> QED BY <3>1, ForwardsNat
  <2>4. /\ Cardinality(FailedOnes) \in Nat /\ Cardinality(FailedOnes') \in Nat
        /\ Cardinality(FailedOnes) <= Cardinality(FailedOnes')
    BY <2>2, <2>3, FS_CardinalityType, FS_Subset
  <2>5. CASE stats'.single - stats'.successful
               = stats.single - stats.successful
    BY <2>1, <2>4, <2>5 DEF FailedOnes
  <2>6. CASE /\ stats'.single - stats'.successful
                  = (stats.single - stats.successful) + 1
             /\ \E id \in ended : requests'[id].status = "Failed"
    <3>1. PICK id \in ended : requests'[id].status = "Failed"
      BY <2>6
    <3>2. id \in Alive /\ id \in DOMAIN requests
      BY <1>1, <1>3
    <3>3. id \in FailedOnes' /\ id \notin FailedOnes
      BY <1>2, <3>1, <3>2 DEF FailedOnes, Alive, Terminal, TerminalStatuses
    <3>4. Cardinality(FailedOnes) < Cardinality(FailedOnes')
      BY <2>2, <2>3, <2>4, <3>3, FS_Subset
    <3>5. stats'.single - stats'.successful \in 0..Cardinality(FailedOnes')
      BY <2>1, <2>4, <2>6, <3>4
    <3> QED BY <3>5 DEF FailedOnes
  <2> QED BY <1>1, <2>5, <2>6 DEF CountersMove
<1>9. (stats.batched >= 2 * stats.batch)'
  BY <1>1 DEF CountersMove, Conservation
<1> QED BY <1>5, <1>6, <1>7, <1>8, <1>9 DEF Conservation

-----------------------------------------------------------------------------
(* A step of either kind keeps the scheduler safe.                         *)
LEMMA StepSafe ==
  ASSUME Safe, NEW fwd, NEW ended, Step(fwd, ended)
  PROVE  Safe'
PROOF
<1>1. TypeSound /\ OwnersSound /\ LoopSound /\ AdmissionCovers /\ Conservation
  BY DEF Safe
<1>2. Moves(fwd, ended) /\ NeverFatal'
  BY DEF Step, Moves, NeverFatal
<1>3. TypeSound' /\ OwnersSound'
  BY <1>1, <1>2, StepTypes, StepOwners
<1>4. LoopSound' /\ AdmissionCovers' /\ Conservation'
  BY <1>1, <1>2, StepLoop, StepCovers, StepConserves
<1> QED BY <1>2, <1>3, <1>4 DEF Safe

(* Initially there is nothing.                                             *)
LEMMA InitSafe ==
  ASSUME Init PROVE Safe
PROOF
<1>1. /\ len = <<>> /\ next_id = 1 /\ sessions = <<>> /\ next_session = 1
      /\ requests = <<>> /\ next_request = 1 /\ queue = {} /\ serial = {}
      /\ stats = [single |-> 0, successful |-> 0, batch |-> 0, batched |-> 0]
      /\ loop = [running |-> FALSE, i |-> 0, bound |-> 0] /\ fatal = FALSE
  BY DEF Init, StoreInit
<1>2. DOMAIN len = {} /\ DOMAIN sessions = {} /\ DOMAIN requests = {}
  BY <1>1
<1>3. Live = {} /\ Alive = {} /\ LegacyAlive = {}
  BY <1>2 DEF Live, Alive, LegacyAlive
<1>4. TypeSound
  <2>1. /\ len \in [DOMAIN len -> Nat]
        /\ sessions \in [DOMAIN sessions -> [sequence : Nat, reset_count : Nat]]
        /\ requests \in [1..next_request - 1 -> Requests]
    BY <1>1
  <2>2. stats \in Stats /\ loop \in Loops
    BY <1>1 DEF Stats, Loops
  <2>3. {next_id, next_session, next_request} \subseteq Nat \ {0}
    BY <1>1
  <2>4. /\ DOMAIN len \subseteq 1..next_id - 1
        /\ DOMAIN sessions \subseteq 1..next_session - 1
    BY <1>2
  <2>5. queue \subseteq DOMAIN requests /\ serial \subseteq queue
    BY <1>1, <1>2
  <2>6. fatal \in BOOLEAN
    BY <1>1
  <2> QED BY <1>2, <2>1, <2>2, <2>3, <2>4, <2>5, <2>6 DEF TypeSound
<1>5. OwnersSound
  BY <1>2, <1>3 DEF OwnersSound
<1>6. LoopSound /\ AdmissionCovers /\ NeverFatal
  BY <1>1, <1>3 DEF LoopSound, AdmissionCovers, NeverFatal
<1>7. Conservation
  <2>1. PICK ids \in SUBSET DOMAIN requests : ids = DOMAIN requests
    OBVIOUS
  <2>2. ForwardsOf(DOMAIN requests) = 0
    BY <1>2, <1>4, <2>1, ForwardsNat
  <2>3. {id \in DOMAIN requests : requests[id].status = "Failed"} = {}
    BY <1>2
  <2>4. stats.successful = 0 /\ stats.batched = 0 /\ stats.single = 0
        /\ stats.batch = 0
    BY <1>1
  <2> QED BY <1>2, <1>3, <2>2, <2>3, <2>4, FS_EmptySet DEF Conservation
<1> QED BY <1>4, <1>5, <1>6, <1>7 DEF Safe

(* run() begins, ends, its next step() begins, a batch falls back: nothing *)
(* but the bookkeeping of the loop moves.                                  *)
Quiet == UNCHANGED <<len, next_id, sessions, next_session, requests,
                     next_request, stats>>

(* So everything holds that does not speak of the loop.                    *)
LEMMA QuietKeeps ==
  ASSUME Safe, Quiet, queue' \subseteq DOMAIN requests,
         serial' \subseteq queue', loop' \in Loops, fatal' = FALSE
  PROVE  /\ TypeSound' /\ OwnersSound' /\ AdmissionCovers' /\ Conservation'
         /\ NeverFatal' /\ Alive' = Alive
PROOF
<1>1. /\ len' = len /\ next_id' = next_id /\ sessions' = sessions
      /\ next_session' = next_session /\ requests' = requests
      /\ next_request' = next_request /\ stats' = stats
  BY DEF Quiet
<1>2. TypeSound'
  BY <1>1 DEF Safe, TypeSound
<1>3. Live' = Live /\ Alive' = Alive /\ LegacyAlive' = LegacyAlive
  BY <1>1 DEF Live, Alive, LegacyAlive
<1>4. OwnersSound' /\ AdmissionCovers'
  BY <1>1, <1>3 DEF Safe, OwnersSound, AdmissionCovers
<1>5. Conservation'
  BY <1>1, <1>3 DEF Safe, Conservation, ForwardsOf
<1>6. NeverFatal'
  BY DEF NeverFatal
<1> QED BY <1>2, <1>3, <1>4, <1>5, <1>6

(* The bound of run() is at least that of each live request.               *)
LEMMA BeginRunSafe ==
  ASSUME Safe, BeginRun
  PROVE  Safe'
PROOF
<1>1. TypeSound /\ fatal = FALSE
  BY DEF Safe, NeverFatal, TypeSound
<1>2. PICK f : f = [id \in Alive |-> ForwardBound(requests[id])]
  OBVIOUS
<1>3. PICK b : b = SumFunctionOnSet(f, Alive)
  OBVIOUS
<1>4. IsFiniteSet(Alive) /\ Alive \subseteq DOMAIN requests
  <2>1. Alive \in SUBSET DOMAIN requests
    BY DEF Alive
  <2> QED BY <1>1, <2>1, ForwardsNat
<1>5. \A id \in Alive : f[id] \in Nat /\ f[id] = ForwardBound(requests[id])
  BY <1>1, <1>2, ForwardsBelowBound
<1>6. b \in Nat /\ \A id \in Alive : f[id] <= b
  BY <1>3, <1>4, <1>5, SumOfNaturals, SumAboveElement
<1>7. /\ loop' = [running |-> TRUE, i |-> 0, bound |-> b]
      /\ queue = {} /\ queue' = queue /\ serial' = serial /\ fatal' = fatal
      /\ Quiet
  BY <1>2, <1>3 DEF BeginRun, Idle, Quiet, SumFunction
<1>8. /\ TypeSound' /\ OwnersSound' /\ AdmissionCovers' /\ Conservation'
      /\ NeverFatal' /\ Alive' = Alive
  <2>1. loop' \in Loops
    BY <1>6, <1>7 DEF Loops
  <2>2. queue' \subseteq DOMAIN requests /\ serial' \subseteq queue'
    BY <1>1, <1>7 DEF TypeSound
  <2> QED BY <1>1, <1>7, <2>1, <2>2, QuietKeeps
<1>9. LoopSound'
  <2>1. \A id \in Alive :
          /\ ForwardBound(requests[id]) <= b
          /\ 0 <= requests[id].forward_count + 0
    BY <1>1, <1>5, <1>6, ForwardsBelowBound
  <2>2. requests' = requests /\ loop'.i = 0 /\ loop'.bound = b /\ queue' = {}
    BY <1>7 DEF Quiet
  <2> QED BY <1>8, <2>1, <2>2 DEF LoopSound
<1> QED BY <1>8, <1>9 DEF Safe

(* run() is within its bound when it begins another step: a live request   *)
(* has been forwarded in each iteration, and has a forward left.           *)
LEMMA BeginStepSafe ==
  ASSUME Safe, BeginStep
  PROVE  Safe'
PROOF
<1>1. TypeSound /\ LoopSound /\ fatal = FALSE
  BY DEF Safe, NeverFatal, TypeSound
<1>2. /\ queue = {} /\ queue' = Alive /\ serial' = serial /\ Alive # {}
      /\ fatal' = (loop.running /\ loop.i > loop.bound) /\ Quiet
      /\ loop' = IF loop.running THEN [loop EXCEPT !.i = loop.i + 1] ELSE loop
  BY DEF BeginStep, Quiet
<1>3. loop.i \in Nat /\ loop.bound \in Nat /\ loop \in Loops
  BY <1>1 DEF TypeSound, Loops
<1>4. \A id \in Alive :
        /\ requests[id].forward_count \in Nat
        /\ ForwardBound(requests[id]) \in Nat
        /\ requests[id].forward_count < ForwardBound(requests[id])
  BY <1>1, ForwardsBelowBound
<1>5. loop.running =>
        \A id \in Alive : /\ ForwardBound(requests[id]) <= loop.bound
                          /\ loop.i <= requests[id].forward_count
  <2> SUFFICES ASSUME loop.running, NEW id \in Alive
               PROVE  /\ ForwardBound(requests[id]) <= loop.bound
                      /\ loop.i <= requests[id].forward_count
    OBVIOUS
  <2>1. /\ ForwardBound(requests[id]) <= loop.bound
        /\ loop.i <= requests[id].forward_count + 0
    BY <1>1, <1>2 DEF LoopSound
  <2> QED BY <1>4, <2>1
<1>6. fatal' = FALSE
  <2>1. PICK id \in Alive : TRUE
    BY <1>2
  <2>2. loop.running => ~(loop.i > loop.bound)
    BY <1>3, <1>4, <1>5, <2>1
  <2> QED BY <1>2, <2>2
<1>7. loop' \in Loops /\ (loop'.running => loop.running /\ loop'.i = loop.i + 1
                                             /\ loop'.bound = loop.bound)
  BY <1>2, <1>3 DEF Loops
<1>8. /\ TypeSound' /\ OwnersSound' /\ AdmissionCovers' /\ Conservation'
      /\ NeverFatal' /\ Alive' = Alive
  <2>1. queue' \subseteq DOMAIN requests
    BY <1>2 DEF Alive
  <2>2. serial' \subseteq queue'
    BY <1>1, <1>2 DEF TypeSound
  <2> QED BY <1>2, <1>6, <1>7, <2>1, <2>2, QuietKeeps
<1>9. LoopSound'
  <2>1. requests' = requests /\ queue' = Alive
    BY <1>2 DEF Quiet
  <2> SUFFICES ASSUME loop'.running, NEW id \in Alive
               PROVE  /\ ForwardBound(requests[id]) <= loop'.bound
                      /\ loop'.i <= requests[id].forward_count + 1
    BY <1>8, <2>1 DEF LoopSound
  <2> QED BY <1>3, <1>4, <1>5, <1>7
<1> QED BY <1>8, <1>9 DEF Safe

(* run() returns with nothing alive.                                       *)
LEMMA EndRunSafe ==
  ASSUME Safe, EndRun
  PROVE  Safe'
PROOF
<1>1. /\ loop' = [running |-> FALSE, i |-> 0, bound |-> 0]
      /\ queue' = queue /\ serial' = serial /\ fatal' = fatal /\ Quiet
  BY DEF EndRun, Quiet
<1>2. loop' \in Loops /\ ~loop'.running
  BY <1>1 DEF Loops
<1>3. /\ queue' \subseteq DOMAIN requests /\ serial' \subseteq queue'
      /\ fatal' = FALSE
  BY <1>1 DEF Safe, TypeSound, NeverFatal
<1> QED BY <1>1, <1>2, <1>3, QuietKeeps DEF Safe, LoopSound

(* A batch that falls back to single rows changes nothing but the mode.    *)
LEMMA FallBackSafe ==
  ASSUME Safe, FallBack
  PROVE  Safe'
PROOF
<1>1. /\ loop' = loop /\ queue' = queue /\ serial' = Cohort
      /\ fatal' = fatal /\ Quiet
  BY DEF FallBack, Quiet
<1>2. /\ queue' \subseteq DOMAIN requests /\ serial' \subseteq queue'
      /\ fatal' = FALSE /\ loop' \in Loops
  BY <1>1 DEF Safe, TypeSound, NeverFatal, Cohort
<1>3. /\ TypeSound' /\ OwnersSound' /\ AdmissionCovers' /\ Conservation'
      /\ NeverFatal' /\ Alive' = Alive
  BY <1>1, <1>2, QuietKeeps
<1>4. LoopSound'
  BY <1>1, <1>3 DEF Safe, LoopSound, Quiet
<1> QED BY <1>3, <1>4 DEF Safe

(* A live request may have a forward to make.                              *)
LEMMA BoundNat ==
  ASSUME NEW r, RequestSound(r), ~Terminal(r)
  PROVE  ForwardBound(r) \in Nat
PROOF
<1>1. /\ r.prompt \in Nat /\ r.max_new \in Nat
      /\ r.generated \in Seq(Tokens)
      /\ ~SessionBound(r) => Len(r.generated) < r.max_new
  BY DEF RequestSound, Requests, Underway
<1>2. Len(r.generated) \in Nat
  BY <1>1, LenProperties
<1>3. ~SessionBound(r) => r.max_new >= 1
  BY <1>1, <1>2
<1> QED BY <1>1, <1>3 DEF ForwardBound

(* A request as it is admitted.                                            *)
NewSound(r, q, s, n, m) ==
  /\ RequestSound(r) /\ ~Terminal(r) /\ r.forward_count = 0
  /\ r.sequence = q /\ r.session = s /\ r.status = "Waiting"
  /\ ForwardBound(r) = n + (IF s = NoSession THEN m - 1 ELSE m)

(* What is admitted is sound: a legacy request is to generate something.   *)
LEMMA NewRequestSound ==
  ASSUME NEW q \in Nat, NEW s \in Nat, NEW n \in Nat \ {0}, NEW m \in Nat,
         s # NoSession \/ m >= 1
  PROVE  NewSound(NewRequest(q, s, n, m), q, s, n, m)
PROOF
<1>0. PICK r : r = NewRequest(q, s, n, m)
  OBVIOUS
<1>1. <<>> \in Seq(Tokens) /\ Len(<<>>) = 0
  OBVIOUS
<1>2. PICK g : g = <<>>
  OBVIOUS
<1>3. r = [sequence |-> q, session |-> s, prompt |-> n, max_new |-> m,
           prefill_pos |-> 0, generated |-> g, committed |-> 0,
           forward_count |-> 0, status |-> "Waiting",
           finish_reason |-> "None"]
  BY <1>0, <1>2 DEF NewRequest
<1>4. g \in Seq(Tokens) /\ Len(g) = 0
  BY <1>1, <1>2
<1>5. /\ r.sequence = q /\ r.session = s /\ r.prompt = n /\ r.max_new = m
      /\ r.prefill_pos = 0 /\ r.generated = g /\ r.committed = 0
      /\ r.forward_count = 0 /\ r.status = "Waiting"
  BY <1>3
<1>6. r \in Requests
  BY <1>3, <1>4 DEF Requests, Reasons
<1>7. /\ ~Terminal(r) /\ Prefilling(r) /\ ~Pending(r)
      /\ SessionBound(r) <=> s # NoSession
  BY <1>4, <1>5 DEF Terminal, TerminalStatuses, Prefilling, Pending,
                    SessionBound
<1>8. Contract(r)
  BY <1>4, <1>5, <1>7 DEF Contract
<1>9. Underway(r)
  <2>1. \A i \in 1..Len(g) : g[i] # "eos"
    BY <1>4
  <2>2. s = NoSession => 0 < m
    OBVIOUS
  <2> QED BY <1>4, <1>5, <1>7, <2>1, <2>2 DEF Underway
<1>10. ForwardBound(r) = n + (IF s = NoSession THEN m - 1 ELSE m)
  BY <1>5, <1>7 DEF ForwardBound
<1>11. NewSound(r, q, s, n, m)
  BY <1>5, <1>6, <1>7, <1>8, <1>9, <1>10 DEF RequestSound, NewSound
<1> QED BY <1>0, <1>11

(* A new request has forwarded nothing yet.                                *)
LEMMA RegisteredSums ==
  ASSUME TypeSound, NEW r, r.forward_count = 0, NEW new, new = next_request,
         requests' = With(requests, new, r),
         NEW ids \in SUBSET DOMAIN requests
  PROVE  /\ ForwardsOf(ids)' = ForwardsOf(ids)
         /\ ForwardsOf(ids \cup {new})' = ForwardsOf(ids)
PROOF
<1>1. /\ new \in Nat /\ new \notin DOMAIN requests
      /\ requests'[new] = r
      /\ \A id \in DOMAIN requests : requests'[id] = requests[id]
  BY DEF With, TypeSound
<1>2. PICK f : f = [id \in ids |-> requests[id].forward_count]
  OBVIOUS
<1>3. PICK all : all = ids \cup {new}
  OBVIOUS
<1>4. PICK g : g = [id \in all |-> requests'[id].forward_count]
  OBVIOUS
<1>5. PICK h : h = [id \in ids |-> requests'[id].forward_count]
  OBVIOUS
<1>6. IsFiniteSet(ids) /\ \A id \in ids : f[id] \in Nat
  BY <1>2, ForwardsNat DEF TypeSound, Requests
<1>7. IsFiniteSet(all) /\ all \ {new} = ids /\ new \in all
  BY <1>1, <1>3, <1>6, FS_AddElement
<1>8. \A id \in ids : g[id] = f[id] + 0 /\ h[id] = f[id] + 0
  BY <1>1, <1>2, <1>3, <1>4, <1>5, <1>6
<1>9. \A id \in all : g[id] \in Nat
  BY <1>1, <1>2, <1>3, <1>4, <1>6
<1>10. PICK none \in SUBSET ids : none = {}
  OBVIOUS
<1>11. Cardinality(none) = 0
  BY <1>10, FS_EmptySet
<1>12. SumFunctionOnSet(f, ids) \in Nat
  BY <1>6, SumOfNaturals
<1>13. SumFunctionOnSet(h, ids) = SumFunctionOnSet(f, ids)
  <2>1. \A id \in ids : h[id] = f[id] + IF id \in none THEN 1 ELSE 0
    BY <1>8, <1>10
  <2>2. SumFunctionOnSet(h, ids) = SumFunctionOnSet(f, ids) + Cardinality(none)
    BY <1>6, <2>1, SumRaised
  <2> QED BY <1>11, <1>12, <2>2
<1>14. SumFunctionOnSet(g, ids) = SumFunctionOnSet(f, ids)
  <2>1. \A id \in ids : g[id] = f[id] + IF id \in none THEN 1 ELSE 0
    BY <1>8, <1>10
  <2>2. SumFunctionOnSet(g, ids) = SumFunctionOnSet(f, ids) + Cardinality(none)
    BY <1>6, <2>1, SumRaised
  <2> QED BY <1>11, <1>12, <2>2
<1>15. SumFunctionOnSet(g, all) = g[new] + SumFunctionOnSet(g, ids)
  <2>1. SumFunctionOnSet(g, all)
          = g[new] + SumFunctionOnSet(g, all \ {new})
    BY <1>7, <1>9, SumOfNaturals
  <2> QED BY <1>7, <2>1
<1>16. g[new] = 0
  BY <1>1, <1>4, <1>7
<1>17. SumFunctionOnSet(g, all) = SumFunctionOnSet(f, ids)
  BY <1>12, <1>14, <1>15, <1>16
<1>18. ForwardsOf(ids) = SumFunctionOnSet(f, ids)
  BY <1>2 DEF ForwardsOf, SumFunction
<1>19. ForwardsOf(ids)' = SumFunctionOnSet(h, ids)
  BY <1>5 DEF ForwardsOf, SumFunction
<1>20. ForwardsOf(ids \cup {new})' = SumFunctionOnSet(g, all)
  <2>1. g = [id \in ids \cup {new} |-> requests'[id].forward_count]
    BY <1>3, <1>4
  <2> QED BY <1>3, <2>1 DEF ForwardsOf, SumFunction
<1> QED BY <1>13, <1>17, <1>18, <1>19, <1>20

(* Admission of a request r, on a sequence of its own or on that of a      *)
(* session which has no other live request.                                *)
OnSession(r) ==
  /\ SessionBound(r) /\ r.session \in DOMAIN sessions
  /\ r.sequence = sessions[r.session].sequence
  /\ \A id \in Alive : requests[id].session # r.session
  /\ len' = len /\ next_id' = next_id

OnItsOwn(r) ==
  /\ ~SessionBound(r) /\ r.sequence = next_id
  /\ len' = With(len, next_id, 0) /\ next_id' = next_id + 1

Admitted(r) ==
  /\ RequestSound(r) /\ ~Terminal(r) /\ r.forward_count = 0
  /\ r.status = "Waiting"
  /\ OnSession(r) \/ OnItsOwn(r)
  /\ len'[r.sequence] + ForwardBound(r) <= MaxSeqLen
  /\ Idle /\ Register(r) /\ UNCHANGED <<sessions, next_session>>

(* What an admission does to the sets of live requests and sequences.      *)
LEMMA AdmittedSets ==
  ASSUME Safe, NEW r, Admitted(r), NEW new, new = next_request
  PROVE  /\ new \notin DOMAIN requests
         /\ DOMAIN requests' = DOMAIN requests \cup {new}
         /\ requests'[new] = r
         /\ \A id \in DOMAIN requests : requests'[id] = requests[id]
         /\ Alive' = Alive \cup {new}
         /\ LegacyAlive' = IF SessionBound(r) THEN LegacyAlive
                           ELSE LegacyAlive \cup {new}
         /\ Live' = IF SessionBound(r) THEN Live ELSE Live \cup {next_id}
         /\ next_id \notin Live /\ r.sequence \in Live'
         /\ \A q \in Live : len'[q] = len[q]
         /\ ~SessionBound(r) => len'[next_id] = 0
PROOF
<1>1. TypeSound /\ OwnersSound
  BY DEF Safe
<1>2. requests' = With(requests, new, r) /\ ~Terminal(r)
  BY DEF Admitted, Register
<1>3. /\ new \notin DOMAIN requests
      /\ DOMAIN requests' = DOMAIN requests \cup {new} /\ requests'[new] = r
      /\ \A id \in DOMAIN requests : requests'[id] = requests[id]
  BY <1>1, <1>2 DEF With, TypeSound
<1>4. Alive' = Alive \cup {new}
  BY <1>2, <1>3 DEF Alive
<1>5. LegacyAlive' = IF SessionBound(r) THEN LegacyAlive
                     ELSE LegacyAlive \cup {new}
  BY <1>3, <1>4 DEF LegacyAlive, Alive
<1>6. next_id \notin Live
  BY <1>1 DEF TypeSound, Live
<1>7. CASE OnSession(r)
  BY <1>1, <1>3, <1>4, <1>5, <1>6, <1>7 DEF OnSession, OwnersSound, Live
<1>8. CASE OnItsOwn(r)
  <2>1. /\ DOMAIN len' = DOMAIN len \cup {next_id} /\ len'[next_id] = 0
        /\ \A q \in DOMAIN len : q # next_id => len'[q] = len[q]
    BY <1>8 DEF OnItsOwn, With
  <2>2. ~SessionBound(r) /\ r.sequence = next_id
    BY <1>8 DEF OnItsOwn
  <2> QED BY <1>3, <1>4, <1>5, <1>6, <2>1, <2>2 DEF Live
<1> QED BY <1>7, <1>8 DEF Admitted

(* An admitted request is in range, and takes the next id.                 *)
LEMMA AdmittedTypes ==
  ASSUME Safe, NEW r, Admitted(r)
  PROVE  TypeSound'
PROOF
<1>1. PICK new : new = next_request
  OBVIOUS
<1>2. TypeSound /\ RequestSound(r)
  BY DEF Safe, Admitted
<1>3. /\ requests' = With(requests, new, r)
      /\ next_request' = next_request + 1 /\ stats' = stats /\ queue' = queue
      /\ serial' = serial /\ loop' = loop /\ fatal' = fatal
      /\ sessions' = sessions /\ next_session' = next_session
  BY <1>1 DEF Admitted, Register
<1>4. /\ DOMAIN requests' = DOMAIN requests \cup {new}
      /\ requests'[new] = r
      /\ \A id \in DOMAIN requests : requests'[id] = requests[id]
  BY <1>1, AdmittedSets
<1>5. /\ next_id \in Nat \ {0} /\ next_id' \in Nat \ {0} /\ next_id <= next_id'
      /\ r.sequence < next_id' /\ r.session < next_session
      /\ len' \in [DOMAIN len' -> Nat] /\ DOMAIN len' \subseteq 1..next_id' - 1
  <2>1. next_id \in Nat \ {0} /\ next_session \in Nat \ {0}
        /\ len \in [DOMAIN len -> Nat] /\ DOMAIN len \subseteq 1..next_id - 1
    BY <1>2 DEF TypeSound
  <2>2. CASE OnSession(r)
    <3>1. r.session \in DOMAIN sessions /\ r.sequence \in Live
      BY <2>2 DEF OnSession, Safe, OwnersSound
    <3>2. r.session \in 1..next_session - 1 /\ r.sequence \in 1..next_id - 1
      BY <1>2, <3>1 DEF TypeSound, Live
    <3> QED BY <2>1, <2>2, <3>2 DEF OnSession
  <2>3. CASE OnItsOwn(r)
    <3>1. r.session = 0
      BY <2>3 DEF OnItsOwn, SessionBound, NoSession
    <3>2. len' = [y \in DOMAIN len \cup {next_id} |-> IF y = next_id THEN 0
                                                      ELSE len[y]]
      BY <2>3 DEF OnItsOwn, With
    <3>3. len' \in [DOMAIN len' -> Nat]
      BY <2>1, <3>2
    <3>4. DOMAIN len' \subseteq 1..next_id' - 1
      BY <2>1, <2>3, <3>2 DEF OnItsOwn
    <3> QED BY <2>1, <2>3, <3>1, <3>3, <3>4 DEF OnItsOwn
  <2> QED BY <2>2, <2>3 DEF Admitted
<1>6. DOMAIN requests' = 1..next_request' - 1
  <2>1. DOMAIN requests = 1..next_request - 1 /\ next_request \in Nat \ {0}
    BY <1>2 DEF TypeSound
  <2>2. (1..next_request - 1) \cup {next_request} = 1..(next_request + 1) - 1
    BY <2>1
  <2> QED BY <1>1, <1>3, <1>4, <2>1, <2>2
<1>7. requests' \in [1..next_request' - 1 -> Requests]
  <2>1. r \in Requests
    BY <1>2 DEF RequestSound
  <2>2. requests' = [id \in DOMAIN requests' |-> requests'[id]]
    BY <1>3 DEF With
  <2>3. \A id \in DOMAIN requests' : requests'[id] \in Requests
    BY <1>2, <1>4, <2>1 DEF TypeSound
  <2> QED BY <1>6, <2>2, <2>3
<1>8. \A id \in DOMAIN requests' : /\ RequestSound(requests'[id])
                                   /\ requests'[id].session < next_session'
                                   /\ requests'[id].sequence < next_id'
  <2>1. \A id \in DOMAIN requests :
          /\ RequestSound(requests[id])
          /\ requests[id].session < next_session
          /\ requests[id].sequence \in Nat /\ requests[id].sequence < next_id
    BY <1>2 DEF TypeSound, Requests
  <2>2. \A id \in DOMAIN requests : requests[id].sequence < next_id'
    BY <1>5, <2>1
  <2> QED BY <1>2, <1>3, <1>4, <1>5, <2>1, <2>2
<1>9. next_request' \in Nat \ {0}
  BY <1>2, <1>3 DEF TypeSound
<1> QED BY <1>2, <1>3, <1>4, <1>5, <1>7, <1>8, <1>9 DEF TypeSound

(* An admitted request owns a new sequence, or is the one live turn of its *)
(* session.                                                                *)
LEMMA AdmittedOwners ==
  ASSUME Safe, NEW r, Admitted(r)
  PROVE  OwnersSound'
PROOF
<1>1. PICK new : new = next_request
  OBVIOUS
<1>2. /\ new \notin DOMAIN requests
      /\ DOMAIN requests' = DOMAIN requests \cup {new} /\ requests'[new] = r
      /\ \A id \in DOMAIN requests : requests'[id] = requests[id]
      /\ Alive' = Alive \cup {new}
      /\ LegacyAlive' = IF SessionBound(r) THEN LegacyAlive
                        ELSE LegacyAlive \cup {new}
      /\ Live' = IF SessionBound(r) THEN Live ELSE Live \cup {next_id}
      /\ next_id \notin Live
  BY <1>1, AdmittedSets
<1>3. sessions' = sessions /\ OwnersSound /\ TypeSound
  BY DEF Admitted, Safe
<1>4. Alive \subseteq DOMAIN requests /\ LegacyAlive \subseteq Alive
  BY DEF Alive, LegacyAlive
<1>5. \A id \in DOMAIN requests : requests[id].sequence # next_id
  BY <1>3 DEF TypeSound, Requests
<1>6. ~SessionBound(r) => r.sequence = next_id
  BY DEF Admitted, OnItsOwn, OnSession
<1>7. SessionBound(r) => OnSession(r)
  BY DEF Admitted, OnItsOwn
<1>8. /\ \A s \in DOMAIN sessions : sessions[s].sequence \in Live
      /\ \A id \in LegacyAlive : requests[id].sequence \in Live
  BY <1>3 DEF OwnersSound
<1>9. \A s \in DOMAIN sessions' : sessions'[s].sequence \in Live'
  BY <1>2, <1>3, <1>8
<1>10. \A s, t \in DOMAIN sessions' :
         sessions'[s].sequence = sessions'[t].sequence => s = t
  BY <1>3 DEF OwnersSound
<1>11. \A id \in LegacyAlive' : requests'[id].sequence \in Live'
  BY <1>2, <1>4, <1>6, <1>8
<1>12. \A i, j \in LegacyAlive' :
         requests'[i].sequence = requests'[j].sequence => i = j
  <2>1. \A i, j \in LegacyAlive :
          requests[i].sequence = requests[j].sequence => i = j
    BY <1>3 DEF OwnersSound
  <2> QED BY <1>2, <1>4, <1>5, <1>6, <2>1
<1>13. \A s \in DOMAIN sessions', id \in LegacyAlive' :
         sessions'[s].sequence # requests'[id].sequence
  <2>1. \A s \in DOMAIN sessions, id \in LegacyAlive :
          sessions[s].sequence # requests[id].sequence
    BY <1>3 DEF OwnersSound
  <2> QED BY <1>2, <1>3, <1>4, <1>6, <1>8, <2>1
<1>14. \A q \in Live' : \/ \E s \in DOMAIN sessions' : q = sessions'[s].sequence
                        \/ \E id \in LegacyAlive' : q = requests'[id].sequence
  <2>1. \A q \in Live : \/ \E s \in DOMAIN sessions : q = sessions[s].sequence
                        \/ \E id \in LegacyAlive : q = requests[id].sequence
    BY <1>3 DEF OwnersSound
  <2> QED BY <1>2, <1>3, <1>4, <1>6, <2>1
<1>15. ASSUME NEW id \in DOMAIN requests', SessionBound(requests'[id])
       PROVE  IF requests'[id].session \in DOMAIN sessions'
              THEN requests'[id].sequence
                     = sessions'[requests'[id].session].sequence
              ELSE requests'[id].sequence \notin Live'
  <2>1. CASE id = new
    BY <1>2, <1>3, <1>7, <1>15, <2>1 DEF OnSession
  <2>2. CASE id \in DOMAIN requests
    <3>1. IF requests[id].session \in DOMAIN sessions
          THEN requests[id].sequence = sessions[requests[id].session].sequence
          ELSE requests[id].sequence \notin Live
      BY <1>2, <1>3, <1>15, <2>2 DEF OwnersSound
    <3> QED BY <1>2, <1>3, <1>5, <2>2, <3>1
  <2> QED BY <1>2, <2>1, <2>2
<1>16. \A i, j \in Alive' :
         SessionBound(requests'[i])
           /\ requests'[i].session = requests'[j].session => i = j
  <2>1. \A i, j \in Alive :
          SessionBound(requests[i]) /\ requests[i].session = requests[j].session
            => i = j
    BY <1>3 DEF OwnersSound
  <2>2. \A i \in Alive : SessionBound(r) => requests[i].session # r.session
    BY <1>7 DEF OnSession
  <2> QED BY <1>2, <1>4, <2>1, <2>2 DEF SessionBound
<1> QED BY <1>9, <1>10, <1>11, <1>12, <1>13, <1>14, <1>15, <1>16
        DEF OwnersSound

(* Admission keeps the scheduler safe: the positions it was asked for are  *)
(* left in the sequence.                                                   *)
LEMMA AdmittedSafe ==
  ASSUME Safe, NEW r, Admitted(r)
  PROVE  Safe'
PROOF
<1>1. PICK new : new = next_request
  OBVIOUS
<1>2. /\ new \notin DOMAIN requests
      /\ DOMAIN requests' = DOMAIN requests \cup {new} /\ requests'[new] = r
      /\ \A id \in DOMAIN requests : requests'[id] = requests[id]
      /\ Alive' = Alive \cup {new}
      /\ LegacyAlive' = IF SessionBound(r) THEN LegacyAlive
                        ELSE LegacyAlive \cup {new}
      /\ Live' = IF SessionBound(r) THEN Live ELSE Live \cup {next_id}
      /\ next_id \notin Live /\ r.sequence \in Live'
      /\ \A q \in Live : len'[q] = len[q]
      /\ ~SessionBound(r) => len'[next_id] = 0
  BY <1>1, AdmittedSets
<1>3. /\ TypeSound /\ OwnersSound /\ AdmissionCovers /\ Conservation
      /\ fatal = FALSE /\ Alive \subseteq DOMAIN requests
  BY DEF Safe, NeverFatal, Alive, TypeSound
<1>4. TypeSound' /\ OwnersSound'
  BY AdmittedTypes, AdmittedOwners
<1>5. /\ sessions' = sessions /\ stats' = stats /\ loop' = loop
      /\ fatal' = fatal /\ ~loop.running
      /\ requests' = With(requests, new, r) /\ r.forward_count = 0
      /\ r.status = "Waiting"
  BY <1>1 DEF Admitted, Register, Idle
<1>6. LoopSound' /\ NeverFatal'
  BY <1>3, <1>5 DEF LoopSound, NeverFatal
<1>7. AdmissionCovers'
  <2> SUFFICES ASSUME NEW id \in Alive', requests'[id].sequence \in Live'
               PROVE  len'[requests'[id].sequence]
                        + ForwardBound(requests'[id])
                        - requests'[id].forward_count <= MaxSeqLen
    BY DEF AdmissionCovers
  <2>1. CASE id = new
    <3>1. len'[r.sequence] + ForwardBound(r) <= MaxSeqLen
      BY DEF Admitted
    <3>2. len'[r.sequence] \in Nat /\ ForwardBound(r) \in Nat
      <4>1. len'[r.sequence] \in Nat
        BY <1>2, <1>4 DEF TypeSound, Live
      <4>2. ForwardBound(r) \in Nat
        BY BoundNat DEF Admitted
      <4> QED BY <4>1, <4>2
    <3>3. MaxSeqLen \in Nat
      BY SchedulerAssumption
    <3> QED BY <1>2, <1>5, <2>1, <3>1, <3>2, <3>3
  <2>2. CASE id \in Alive
    <3>1. requests[id].sequence \in Live
      <4>1. requests[id].sequence # next_id
        BY <1>3, <2>2 DEF TypeSound, Requests
      <4> QED BY <1>2, <1>3, <2>2, <4>1
    <3>2. len[requests[id].sequence] + ForwardBound(requests[id])
            - requests[id].forward_count <= MaxSeqLen
      BY <1>3, <2>2, <3>1 DEF AdmissionCovers
    <3> QED BY <1>2, <1>3, <2>2, <3>1, <3>2
  <2> QED BY <1>2, <2>1, <2>2
<1>8. Conservation'
  <2>1. ASSUME NEW ids \in SUBSET DOMAIN requests
        PROVE  /\ ForwardsOf(ids)' = ForwardsOf(ids)
               /\ ForwardsOf(ids \cup {new})' = ForwardsOf(ids)
    BY <1>1, <1>3, <1>5, RegisteredSums
  <2>2. ASSUME NEW s \in DOMAIN sessions', sessions'[s].reset_count = 0
        PROVE  len'[sessions'[s].sequence]
                 = ForwardsOf({id \in DOMAIN requests :
                                 requests[id].session = s})'
    <3>1. s \in DOMAIN sessions /\ sessions[s].reset_count = 0
      BY <1>5, <2>2
    <3>2. PICK ids \in SUBSET DOMAIN requests : ids = TurnsOf(s)
      BY DEF TurnsOf
    <3>3. len[sessions[s].sequence] = ForwardsOf(ids)
      BY <1>3, <3>1, <3>2 DEF Conservation, TurnsOf
    <3>4. sessions[s].sequence \in Live
      BY <1>3, <3>1 DEF OwnersSound
    <3>5. PICK turns : turns = {id \in DOMAIN requests' :
                                  requests'[id].session = s}
      OBVIOUS
    <3>6. turns = ids \/ turns = ids \cup {new}
      <4>1. \A id \in DOMAIN requests : id \in turns <=> id \in ids
        BY <1>2, <3>2, <3>5 DEF TurnsOf
      <4>2. turns \subseteq DOMAIN requests \cup {new}
        BY <1>2, <3>5
      <4> QED BY <3>2, <4>1, <4>2
    <3>7. ForwardsOf(turns)' = ForwardsOf(ids)
      BY <2>1, <3>6
    <3>8. ForwardsOf({id \in DOMAIN requests : requests[id].session = s})'
            = ForwardsOf(turns)'
      BY <3>5 DEF ForwardsOf
    <3> QED BY <1>2, <1>5, <3>3, <3>4, <3>7, <3>8
  <2>3. ASSUME NEW id \in Alive', ~SessionBound(requests'[id])
        PROVE  len'[requests'[id].sequence] = requests'[id].forward_count
    <3>1. CASE id = new
      BY <1>2, <1>5, <2>3, <3>1 DEF Admitted, OnSession, OnItsOwn
    <3>2. CASE id \in Alive
      <4>1. ~SessionBound(requests[id]) /\ id \in LegacyAlive
        BY <1>2, <1>3, <2>3, <3>2 DEF LegacyAlive
      <4>2. requests[id].sequence \in Live
        BY <1>3, <4>1 DEF OwnersSound
      <4>3. len[requests[id].sequence] = requests[id].forward_count
        BY <1>3, <3>2, <4>1 DEF Conservation
      <4> QED BY <1>2, <1>3, <3>2, <4>2, <4>3
    <3> QED BY <1>2, <3>1, <3>2
  <2>4. (stats.successful + stats.batched = ForwardsOf(DOMAIN requests))'
    <3>1. PICK ids \in SUBSET DOMAIN requests : ids = DOMAIN requests
      OBVIOUS
    <3>2. ForwardsOf(ids \cup {new})' = ForwardsOf(ids)
      BY <2>1
    <3>3. ForwardsOf(DOMAIN requests)' = ForwardsOf(ids \cup {new})'
      BY <1>2, <3>1 DEF ForwardsOf
    <3> QED BY <1>3, <1>5, <3>1, <3>2, <3>3 DEF Conservation
  <2>5. {id \in DOMAIN requests : requests[id].status = "Failed"}'
          = {id \in DOMAIN requests : requests[id].status = "Failed"}
    BY <1>2, <1>5
  <2>6. (stats.single - stats.successful
           \in 0..Cardinality({id \in DOMAIN requests :
                                 requests[id].status = "Failed"}))'
    BY <1>3, <1>5, <2>5 DEF Conservation
  <2>7. (stats.batched >= 2 * stats.batch)'
    BY <1>3, <1>5 DEF Conservation
  <2> QED BY <2>2, <2>3, <2>4, <2>6, <2>7 DEF Conservation
<1> QED BY <1>4, <1>6, <1>7, <1>8 DEF Safe

(* admit() is such an admission, of a legacy request.                      *)
LEMMA AdmitAdmits ==
  ASSUME Safe, NEW n \in Prompts, NEW m \in Limits, Admit(n, m)
  PROVE  \E r : Admitted(r) /\ ~SessionBound(r)
PROOF
<1>1. PICK r : r = NewRequest(next_id, NoSession, n, m)
  OBVIOUS
<1>2. /\ n \in Nat \ {0} /\ m \in Nat /\ MaxSeqLen \in Nat
      /\ next_id \in Nat /\ m >= 1
  BY SchedulerAssumption DEF Safe, TypeSound, Admit
<1>3. /\ RequestSound(r) /\ ~Terminal(r) /\ r.forward_count = 0
      /\ r.sequence = next_id /\ r.session = NoSession
      /\ r.status = "Waiting" /\ ForwardBound(r) = n + (m - 1)
  <2>1. PICK q \in Nat : q = next_id
    BY <1>2
  <2>2. PICK z \in Nat : z = NoSession
    BY DEF NoSession
  <2>3. r = NewRequest(q, z, n, m)
    BY <1>1, <2>1, <2>2
  <2>4. z # NoSession \/ m >= 1
    BY <1>2
  <2>5. NewSound(r, q, z, n, m)
    BY <1>2, <2>1, <2>2, <2>3, <2>4, NewRequestSound
  <2> QED BY <2>1, <2>2, <2>5 DEF NewSound
<1>4. ~SessionBound(r)
  BY <1>3 DEF SessionBound
<1>5. /\ Idle /\ Register(r) /\ UNCHANGED <<sessions, next_session>>
      /\ 0 + n + (m - 1) <= MaxSeqLen
      /\ len' = With(len, next_id, 0) /\ next_id' = next_id + 1
  BY <1>1 DEF Admit, Create, FitsContext
<1>6. OnItsOwn(r) /\ len'[r.sequence] = 0
  BY <1>3, <1>4, <1>5 DEF OnItsOwn, With
<1> QED BY <1>2, <1>3, <1>4, <1>5, <1>6 DEF Admitted

(* admit_session_turn() is one too, of a turn of its session.              *)
LEMMA AdmitTurnAdmits ==
  ASSUME Safe, NEW n \in Prompts, NEW m \in Limits,
         NEW s \in DOMAIN sessions, AdmitSessionTurn(s, n, m)
  PROVE  /\ Admitted(NewRequest(sessions[s].sequence, s, n, m))
         /\ NewRequest(sessions[s].sequence, s, n, m).session = s
PROOF
<1>1. PICK r : r = NewRequest(sessions[s].sequence, s, n, m)
  OBVIOUS
<1>2. /\ n \in Nat \ {0} /\ m \in Nat /\ MaxSeqLen \in Nat
      /\ s \in Nat \ {0} /\ sessions[s].sequence \in Nat
  BY SchedulerAssumption DEF Safe, TypeSound
<1>3. /\ RequestSound(r) /\ ~Terminal(r) /\ r.forward_count = 0
      /\ r.sequence = sessions[s].sequence /\ r.session = s
      /\ r.status = "Waiting" /\ ForwardBound(r) = n + m
  <2>1. PICK q \in Nat : q = sessions[s].sequence
    BY <1>2
  <2>2. PICK z \in Nat : z = s
    BY <1>2
  <2>3. r = NewRequest(q, z, n, m)
    BY <1>1, <2>1, <2>2
  <2>4. z # NoSession
    BY <1>2, <2>2 DEF NoSession
  <2>5. z # NoSession \/ m >= 1
    BY <2>4
  <2>6. NewSound(r, q, z, n, m)
    BY <1>2, <2>1, <2>2, <2>3, <2>5, NewRequestSound
  <2> QED BY <2>1, <2>2, <2>4, <2>6 DEF NewSound
<1>4. SessionBound(r)
  BY <1>2, <1>3 DEF SessionBound, NoSession
<1>5. /\ Idle /\ Register(r) /\ UNCHANGED <<sessions, next_session>>
      /\ len[sessions[s].sequence] + n + m <= MaxSeqLen
      /\ len' = len /\ next_id' = next_id /\ ~Busy(s)
  BY <1>1 DEF AdmitSessionTurn, FitsContext
<1>6. OnSession(r)
  BY <1>3, <1>4, <1>5 DEF OnSession, Busy
<1>7. sessions[s].sequence \in Live /\ len[sessions[s].sequence] \in Nat
  BY DEF Safe, OwnersSound, TypeSound, Live
<1>8. len'[r.sequence] + ForwardBound(r) <= MaxSeqLen
  BY <1>2, <1>3, <1>5, <1>7
<1>9. Admitted(r)
  BY <1>3, <1>5, <1>6, <1>8 DEF Admitted
<1> QED BY <1>1, <1>3, <1>9

(* A session is created, reset or destroyed: no request moves.             *)
StillRequests ==
  UNCHANGED <<requests, next_request, stats, queue, serial, loop, fatal>>

(* Then the rest follows from what happens to the sequences.               *)
LEMMA SessionsKeep ==
  ASSUME Safe, StillRequests, TypeSound', OwnersSound',
         \A q \in Live' : (\E id \in Alive : requests[id].sequence = q) =>
           q \in Live /\ len'[q] <= len[q],
         \A id \in LegacyAlive :
           len'[requests[id].sequence] = len[requests[id].sequence],
         \A s \in DOMAIN sessions' : sessions'[s].reset_count = 0 =>
           len'[sessions'[s].sequence] = ForwardsOf(TurnsOf(s))
  PROVE  Safe'
PROOF
<1>1. /\ requests' = requests /\ stats' = stats /\ queue' = queue
      /\ loop' = loop /\ fatal' = fatal
  BY DEF StillRequests
<1>2. Alive' = Alive /\ LegacyAlive' = LegacyAlive
  BY <1>1 DEF Alive, LegacyAlive
<1>3. LoopSound' /\ NeverFatal'
  BY <1>1, <1>2 DEF Safe, LoopSound, NeverFatal
<1>4. AdmissionCovers'
  <2> SUFFICES ASSUME NEW id \in Alive, requests[id].sequence \in Live'
               PROVE  len'[requests[id].sequence] + ForwardBound(requests[id])
                        - requests[id].forward_count <= MaxSeqLen
    BY <1>1, <1>2 DEF AdmissionCovers
  <2>1. PICK q : q = requests[id].sequence
    OBVIOUS
  <2>2. q \in Live /\ q \in Live' /\ len'[q] <= len[q]
    BY <2>1
  <2>3. len[q] \in Nat /\ len'[q] \in Nat
    BY <2>2 DEF Safe, TypeSound, Live
  <2>4. /\ ForwardBound(requests[id]) \in Nat
        /\ requests[id].forward_count \in Nat
    BY ForwardsBelowBound DEF Safe
  <2>5. len[q] + ForwardBound(requests[id]) - requests[id].forward_count
          <= MaxSeqLen
    BY <2>1, <2>2 DEF Safe, AdmissionCovers
  <2>6. PICK b \in Nat : b = ForwardBound(requests[id])
    BY <2>4
  <2>7. MaxSeqLen \in Nat
    BY SchedulerAssumption
  <2> QED BY <2>1, <2>2, <2>3, <2>4, <2>5, <2>6, <2>7
<1>5. Conservation'
  <2>1. \A s \in DOMAIN sessions' : sessions'[s].reset_count = 0 =>
          len'[sessions'[s].sequence]
            = ForwardsOf({id \in DOMAIN requests : requests[id].session = s})'
    BY <1>1 DEF ForwardsOf, TurnsOf
  <2>2. ForwardsOf(DOMAIN requests)' = ForwardsOf(DOMAIN requests)
    BY <1>1 DEF ForwardsOf
  <2>3. \A id \in Alive' : ~SessionBound(requests'[id]) =>
          len'[requests'[id].sequence] = requests'[id].forward_count
    BY <1>1, <1>2 DEF Safe, Conservation, LegacyAlive
  <2> QED BY <1>1, <2>1, <2>2, <2>3 DEF Safe, Conservation
<1> QED BY <1>3, <1>4, <1>5 DEF Safe

(* A session's sequence is new, and no request is on it.                   *)
LEMMA CreateSessionSafe ==
  ASSUME Safe, CreateSession
  PROVE  Safe'
PROOF
<1>1. PICK s : s = next_session
  OBVIOUS
<1>2. PICK q : q = next_id
  OBVIOUS
<1>3. PICK rec : rec = [sequence |-> q, reset_count |-> 0]
  OBVIOUS
<1>4. TypeSound /\ OwnersSound
  BY DEF Safe
<1>5. /\ StillRequests /\ next_id' = q + 1 /\ next_session' = s + 1
      /\ len' = [y \in Live \cup {q} |-> IF y = q THEN 0 ELSE len[y]]
      /\ sessions' = [y \in DOMAIN sessions \cup {s} |->
                        IF y = s THEN rec ELSE sessions[y]]
  BY <1>1, <1>2, <1>3
     DEF CreateSession, Create, With, Live, StillRequests
<1>6. /\ q \in Nat \ {0} /\ s \in Nat \ {0} /\ next_request \in Nat \ {0}
      /\ len \in [Live -> Nat] /\ Live \subseteq 1..q - 1
      /\ sessions \in [DOMAIN sessions -> [sequence : Nat, reset_count : Nat]]
      /\ DOMAIN sessions \subseteq 1..s - 1
      /\ rec \in [sequence : Nat, reset_count : Nat]
  BY <1>1, <1>2, <1>3, <1>4 DEF TypeSound, Live
<1>7. q \notin Live /\ s \notin DOMAIN sessions
  BY <1>6
<1>8. /\ Live' = Live \cup {q} /\ len'[q] = 0
      /\ \A p \in Live : len'[p] = len[p]
      /\ DOMAIN sessions' = DOMAIN sessions \cup {s}
      /\ sessions'[s].sequence = q
      /\ \A t \in DOMAIN sessions : sessions'[t] = sessions[t]
  BY <1>3, <1>5, <1>7 DEF Live
<1>9. \A id \in DOMAIN requests :
        /\ requests[id].session # s /\ requests[id].sequence # q
        /\ requests[id].session < s + 1 /\ requests[id].sequence < q + 1
  <2> SUFFICES ASSUME NEW id \in DOMAIN requests
               PROVE  /\ requests[id].session # s /\ requests[id].sequence # q
                      /\ requests[id].session < s + 1
                      /\ requests[id].sequence < q + 1
    OBVIOUS
  <2>1. /\ requests[id].session \in Nat /\ requests[id].sequence \in Nat
        /\ requests[id].session < s /\ requests[id].sequence < q
    BY <1>1, <1>2, <1>4 DEF TypeSound, Requests
  <2> QED BY <1>6, <2>1
<1>10. TypeSound'
  <2>1. len' \in [DOMAIN len' -> Nat] /\ DOMAIN len' \subseteq 1..next_id' - 1
    <3>1. len' \in [Live \cup {q} -> Nat]
      BY <1>5, <1>6
    <3>2. Live \cup {q} \subseteq 1..(q + 1) - 1
      BY <1>6
    <3> QED BY <1>5, <3>1, <3>2
  <2>2. /\ sessions' \in [DOMAIN sessions' ->
                            [sequence : Nat, reset_count : Nat]]
        /\ DOMAIN sessions' \subseteq 1..next_session' - 1
    <3>1. sessions' \in [DOMAIN sessions \cup {s} ->
                           [sequence : Nat, reset_count : Nat]]
      BY <1>5, <1>6
    <3>2. DOMAIN sessions \cup {s} \subseteq 1..(s + 1) - 1
      BY <1>6
    <3> QED BY <1>5, <3>1, <3>2
  <2>3. next_id' \in Nat \ {0} /\ next_session' \in Nat \ {0}
    BY <1>5, <1>6
  <2> QED BY <1>4, <1>5, <1>6, <1>9, <2>1, <2>2, <2>3
          DEF TypeSound, StillRequests
<1>11. /\ requests' = requests /\ Alive' = Alive /\ LegacyAlive' = LegacyAlive
       /\ Alive \subseteq DOMAIN requests /\ LegacyAlive \subseteq Alive
  BY <1>5 DEF StillRequests, Alive, LegacyAlive
<1>12. OwnersSound'
  <2>1. /\ \A t \in DOMAIN sessions' : sessions'[t].sequence \in Live'
        /\ \A t, u \in DOMAIN sessions' :
             sessions'[t].sequence = sessions'[u].sequence => t = u
    BY <1>4, <1>7, <1>8 DEF OwnersSound
  <2>2. /\ \A id \in LegacyAlive : requests[id].sequence \in Live'
        /\ \A t \in DOMAIN sessions', id \in LegacyAlive :
             sessions'[t].sequence # requests[id].sequence
    BY <1>4, <1>8, <1>9, <1>11 DEF OwnersSound
  <2>3. \A p \in Live' :
          \/ \E t \in DOMAIN sessions' : p = sessions'[t].sequence
          \/ \E id \in LegacyAlive : p = requests[id].sequence
    BY <1>4, <1>8 DEF OwnersSound
  <2>4. \A id \in DOMAIN requests : SessionBound(requests[id]) =>
          IF requests[id].session \in DOMAIN sessions'
          THEN requests[id].sequence = sessions'[requests[id].session].sequence
          ELSE requests[id].sequence \notin Live'
    BY <1>4, <1>8, <1>9 DEF OwnersSound
  <2>5. /\ \A i, j \in LegacyAlive :
             requests[i].sequence = requests[j].sequence => i = j
        /\ \A i, j \in Alive :
             SessionBound(requests[i])
               /\ requests[i].session = requests[j].session => i = j
    BY <1>4 DEF OwnersSound
  <2> QED BY <1>11, <2>1, <2>2, <2>3, <2>4, <2>5 DEF OwnersSound
<1>13. \A p \in Live' : (\E id \in Alive : requests[id].sequence = p) =>
         p \in Live /\ len'[p] <= len[p]
  BY <1>6, <1>8, <1>9, <1>11
<1>14. \A id \in LegacyAlive :
         len'[requests[id].sequence] = len[requests[id].sequence]
  BY <1>4, <1>8 DEF OwnersSound
<1>15. ASSUME NEW t \in DOMAIN sessions', sessions'[t].reset_count = 0
       PROVE  len'[sessions'[t].sequence] = ForwardsOf(TurnsOf(t))
  <2>1. CASE t \in DOMAIN sessions
    <3>1. sessions[t].sequence \in Live
      BY <1>4, <2>1 DEF OwnersSound
    <3> QED BY <1>8, <1>15, <2>1, <3>1 DEF Safe, Conservation, TurnsOf
  <2>2. CASE t = s
    <3>1. PICK ids \in SUBSET DOMAIN requests : ids = TurnsOf(t)
      BY DEF TurnsOf
    <3>2. ids = {}
      BY <1>9, <2>2, <3>1 DEF TurnsOf
    <3>3. ForwardsOf(ids) = 0
      BY <1>4, <3>2, ForwardsNat
    <3> QED BY <1>8, <2>2, <3>1, <3>3
  <2> QED BY <1>8, <2>1, <2>2
<1> QED BY <1>5, <1>10, <1>12, <1>13, <1>14, <1>15, SessionsKeep

(* A reset session is not the one Conservation speaks of, and its sequence *)
(* got shorter.                                                            *)
LEMMA ResetSessionSafe ==
  ASSUME Safe, NEW s \in DOMAIN sessions, ResetSession(s)
  PROVE  Safe'
PROOF
<1>1. PICK q : q = sessions[s].sequence
  OBVIOUS
<1>2. PICK n : n = sessions[s].reset_count + 1
  OBVIOUS
<1>3. TypeSound /\ OwnersSound
  BY DEF Safe
<1>4. /\ StillRequests /\ next_id' = next_id /\ next_session' = next_session
      /\ q \in Live /\ len' = [len EXCEPT ![q] = 0]
      /\ sessions' = [sessions EXCEPT ![s].reset_count = n]
  BY <1>1, <1>2 DEF ResetSession, Reset, StillRequests
<1>5. /\ len \in [Live -> Nat]
      /\ sessions \in [DOMAIN sessions -> [sequence : Nat, reset_count : Nat]]
      /\ n \in Nat \ {0}
  BY <1>2, <1>3 DEF TypeSound, Live
<1>6. /\ Live' = Live /\ len'[q] = 0
      /\ \A p \in Live : p # q => len'[p] = len[p]
      /\ \A p \in Live : len'[p] <= len[p] /\ len'[p] \in Nat
  BY <1>4, <1>5 DEF Live
<1>7. /\ DOMAIN sessions' = DOMAIN sessions
      /\ sessions'[s].reset_count = n
      /\ \A t \in DOMAIN sessions : /\ sessions'[t].sequence
                                         = sessions[t].sequence
                                    /\ t # s => sessions'[t] = sessions[t]
      /\ sessions' \in [DOMAIN sessions -> [sequence : Nat, reset_count : Nat]]
  BY <1>4, <1>5
<1>8. /\ requests' = requests /\ Alive' = Alive /\ LegacyAlive' = LegacyAlive
      /\ LegacyAlive \subseteq Alive
  BY <1>4 DEF StillRequests, Alive, LegacyAlive
<1>9. TypeSound'
  <2>1. len' \in [DOMAIN len' -> Nat] /\ DOMAIN len' = DOMAIN len
    BY <1>4, <1>5 DEF Live
  <2> QED BY <1>3, <1>4, <1>7, <2>1 DEF TypeSound, StillRequests
<1>10. OwnersSound'
  BY <1>3, <1>6, <1>7, <1>8 DEF OwnersSound
<1>11. ASSUME NEW id \in LegacyAlive
       PROVE  len'[requests[id].sequence] = len[requests[id].sequence]
  <2>1. requests[id].sequence \in Live /\ requests[id].sequence # q
    BY <1>1, <1>3 DEF OwnersSound
  <2> QED BY <1>6, <2>1
<1>12. ASSUME NEW t \in DOMAIN sessions', sessions'[t].reset_count = 0
       PROVE  len'[sessions'[t].sequence] = ForwardsOf(TurnsOf(t))
  <2>1. t # s /\ t \in DOMAIN sessions
    BY <1>5, <1>7, <1>12
  <2>2. sessions[t].sequence \in Live /\ sessions[t].sequence # q
    BY <1>1, <1>3, <2>1 DEF OwnersSound
  <2>3. len[sessions[t].sequence] = ForwardsOf(TurnsOf(t))
    BY <1>7, <1>12, <2>1 DEF Safe, Conservation, TurnsOf
  <2> QED BY <1>6, <1>7, <2>1, <2>2, <2>3
<1> QED BY <1>4, <1>6, <1>9, <1>10, <1>11, <1>12, SessionsKeep

(* The sequence of a destroyed session goes, and nobody else was on it.    *)
LEMMA DestroySessionSafe ==
  ASSUME Safe, NEW s \in DOMAIN sessions, DestroySession(s)
  PROVE  Safe'
PROOF
<1>1. PICK q : q = sessions[s].sequence
  OBVIOUS
<1>2. TypeSound /\ OwnersSound
  BY DEF Safe
<1>3. /\ StillRequests /\ next_id' = next_id /\ next_session' = next_session
      /\ q \in Live
      /\ len' = [p \in Live \ {q} |-> len[p]]
      /\ sessions' = [t \in DOMAIN sessions \ {s} |-> sessions[t]]
  BY <1>1 DEF DestroySession, Retire, Without, Restrict, StillRequests, Live
<1>4. /\ len \in [Live -> Nat]
      /\ sessions \in [DOMAIN sessions -> [sequence : Nat, reset_count : Nat]]
  BY <1>2 DEF TypeSound, Live
<1>5. /\ Live' = Live \ {q}
      /\ \A p \in Live' : len'[p] = len[p] /\ len'[p] <= len[p]
      /\ DOMAIN sessions' = DOMAIN sessions \ {s}
      /\ \A t \in DOMAIN sessions' : sessions'[t] = sessions[t]
  BY <1>3, <1>4 DEF Live
<1>6. /\ requests' = requests /\ Alive' = Alive /\ LegacyAlive' = LegacyAlive
      /\ LegacyAlive \subseteq Alive
  BY <1>3 DEF StillRequests, Alive, LegacyAlive
<1>7. TypeSound'
  <2>1. len' \in [DOMAIN len' -> Nat] /\ DOMAIN len' \subseteq DOMAIN len
    BY <1>3, <1>4 DEF Live
  <2>2. sessions' \in [DOMAIN sessions' -> [sequence : Nat, reset_count : Nat]]
    BY <1>3, <1>4
  <2> QED BY <1>2, <1>3, <1>5, <2>1, <2>2 DEF TypeSound, StillRequests
<1>8. \A t \in DOMAIN sessions' : /\ sessions[t].sequence # q
                                  /\ sessions[t].sequence \in Live
  BY <1>1, <1>2, <1>5 DEF OwnersSound
<1>9. \A id \in LegacyAlive : /\ requests[id].sequence # q
                              /\ requests[id].sequence \in Live
  BY <1>1, <1>2 DEF OwnersSound
<1>10. OwnersSound'
  <2>1. /\ \A t \in DOMAIN sessions' : sessions'[t].sequence \in Live'
        /\ \A t, u \in DOMAIN sessions' :
             sessions'[t].sequence = sessions'[u].sequence => t = u
        /\ \A id \in LegacyAlive : requests[id].sequence \in Live'
        /\ \A t \in DOMAIN sessions', id \in LegacyAlive :
             sessions'[t].sequence # requests[id].sequence
    BY <1>2, <1>5, <1>8, <1>9 DEF OwnersSound
  <2>2. \A p \in Live' :
          \/ \E t \in DOMAIN sessions' : p = sessions'[t].sequence
          \/ \E id \in LegacyAlive : p = requests[id].sequence
    BY <1>1, <1>2, <1>5 DEF OwnersSound
  <2>3. \A id \in DOMAIN requests : SessionBound(requests[id]) =>
          IF requests[id].session \in DOMAIN sessions'
          THEN requests[id].sequence = sessions'[requests[id].session].sequence
          ELSE requests[id].sequence \notin Live'
    BY <1>1, <1>2, <1>5 DEF OwnersSound
  <2>4. /\ \A i, j \in LegacyAlive :
             requests[i].sequence = requests[j].sequence => i = j
        /\ \A i, j \in Alive :
             SessionBound(requests[i])
               /\ requests[i].session = requests[j].session => i = j
    BY <1>2 DEF OwnersSound
  <2> QED BY <1>6, <2>1, <2>2, <2>3, <2>4 DEF OwnersSound
<1>11. \A id \in LegacyAlive :
         len'[requests[id].sequence] = len[requests[id].sequence]
  BY <1>5, <1>9
<1>12. \A t \in DOMAIN sessions' : sessions'[t].reset_count = 0 =>
         len'[sessions'[t].sequence] = ForwardsOf(TurnsOf(t))
  BY <1>5, <1>8 DEF Safe, Conservation, TurnsOf
<1> QED BY <1>3, <1>5, <1>7, <1>10, <1>11, <1>12, SessionsKeep

(* Every call of the scheduler, and every part of step() and run(), keeps  *)
(* it safe.                                                                *)
LEMMA NextSafe ==
  ASSUME Safe, [Next]_vars
  PROVE  Safe'
PROOF
<1>1. CASE UNCHANGED vars
  <2>1. Quiet /\ UNCHANGED <<queue, serial, loop, fatal>>
    BY <1>1 DEF vars, Quiet
  <2>2. /\ queue' \subseteq DOMAIN requests /\ serial' \subseteq queue'
        /\ loop' \in Loops /\ fatal' = FALSE
    BY <2>1 DEF Safe, TypeSound, NeverFatal
  <2>3. Alive' = Alive
    BY <2>1, <2>2, QuietKeeps
  <2>4. LoopSound'
    BY <2>1, <2>3 DEF Safe, LoopSound, Quiet
  <2> QED BY <2>1, <2>2, <2>4, QuietKeeps DEF Safe
<1>2. ASSUME NEW n \in Prompts, NEW m \in Limits, Admit(n, m)
      PROVE  Safe'
  BY <1>2, AdmitAdmits, AdmittedSafe
<1>3. ASSUME NEW n \in Prompts, NEW m \in Limits, NEW s \in DOMAIN sessions,
             AdmitSessionTurn(s, n, m)
      PROVE  Safe'
  BY <1>3, AdmitTurnAdmits, AdmittedSafe
<1>4. ASSUME NEW id \in DOMAIN requests, Cancel(id)
      PROVE  Safe'
  <2>1. CASE id \in Alive
    BY <1>4, <2>1, CancelSteps, StepSafe DEF Safe
  <2>2. CASE id \notin Alive
    BY <1>1, <1>4, <2>2 DEF Cancel, Alive
  <2> QED BY <2>1, <2>2
<1>5. CASE CreateSession
  BY <1>5, CreateSessionSafe
<1>6. ASSUME NEW s \in DOMAIN sessions, ResetSession(s) \/ DestroySession(s)
      PROVE  Safe'
  BY <1>6, ResetSessionSafe, DestroySessionSafe
<1>7. CASE BeginRun
  BY <1>7, BeginRunSafe
<1>8. CASE Driver
  <2>1. CASE AdvanceSingle
    BY <2>1, SingleSteps, StepSafe DEF Safe
  <2>2. CASE AdvanceCohort
    BY <2>2, CohortSteps, StepSafe DEF Safe
  <2> QED BY <1>8, <2>1, <2>2, BeginStepSafe, FallBackSafe, EndRunSafe
          DEF Driver
<1>9. CASE Rejected
  BY <1>1, <1>9 DEF Rejected
<1> QED BY <1>1, <1>2, <1>3, <1>4, <1>5, <1>6, <1>7, <1>8, <1>9 DEF Next

-----------------------------------------------------------------------------
(* The scheduler is safe: every sequence has its owner, every live request *)
(* has done what its token counts say, run() is within its bound.          *)
THEOREM SchedulerIsSafe == Spec => []Safe
PROOF
<1>1. Init => Safe
  BY InitSafe
<1>2. Safe /\ [Next]_vars => Safe'
  BY NextSafe
<1> QED BY <1>1, <1>2, PTL DEF Spec

(* scheduler_fatal is never reached, and run() ends within its bound.      *)
THEOREM SchedulerNeverFatal == Spec => []NeverFatal
PROOF
<1>1. Safe => NeverFatal
  BY DEF Safe
<1> QED BY <1>1, SchedulerIsSafe, PTL

(* What is sampled is committed by its own forward, and a request stops    *)
(* for the reason it says.                                                 *)
THEOREM SchedulerCommits == Spec => []CommitContract
PROOF
<1>1. Safe => CommitContract
  BY DEF Safe, TypeSound, RequestSound, CommitContract
<1> QED BY <1>1, SchedulerIsSafe, PTL

(* No token of a sequence is unaccounted for, and none is counted twice.   *)
THEOREM SchedulerConserves == Spec => []Conservation
PROOF
<1>1. Safe => Conservation
  BY DEF Safe
<1> QED BY <1>1, SchedulerIsSafe, PTL

(* A live request never runs out of positions.                             *)
THEOREM SchedulerAdmitsEnough == Spec => []AdmissionCovers
PROOF
<1>1. Safe => AdmissionCovers
  BY DEF Safe
<1> QED BY <1>1, SchedulerIsSafe, PTL

(* A family of things that are told apart by a value has as many values.   *)
LEMMA SameNumber ==
  ASSUME NEW S, IsFiniteSet(S), NEW f \in [S -> Nat],
         \A x, y \in S : f[x] = f[y] => x = y,
         NEW R, R = {f[x] : x \in S}
  PROVE  IsFiniteSet(R) /\ Cardinality(R) = Cardinality(S)
PROOF
<1>1. f \in [S -> R]
  OBVIOUS
<1>2. f \in Injection(S, R)
  BY <1>1 DEF Injection, IsInjective
<1>3. f \in Surjection(S, R)
  BY <1>1 DEF Surjection
<1>4. f \in Bijection(S, R)
  BY <1>2, <1>3 DEF Bijection
<1>5. ExistsBijection(S, R)
  BY <1>4 DEF ExistsBijection
<1> QED BY <1>5, FS_Bijection

(* The owners are told apart by their sequences, and every live sequence   *)
(* is one of theirs.                                                       *)
LEMMA SafeOwners ==
  ASSUME Safe
  PROVE  OwnersOfSequences
PROOF
<1>1. TypeSound /\ OwnersSound
  BY DEF Safe
<1>2. PICK bySession : bySession = {sessions[s].sequence : s \in DOMAIN sessions}
  OBVIOUS
<1>3. PICK byRequest : byRequest = {requests[id].sequence : id \in LegacyAlive}
  OBVIOUS
<1>4. LegacyAlive \in SUBSET DOMAIN requests
  BY DEF LegacyAlive, Alive
<1>5. IsFiniteSet(DOMAIN sessions) /\ IsFiniteSet(LegacyAlive)
  <2>1. next_session - 1 \in Int /\ DOMAIN sessions \subseteq 1..next_session - 1
    BY <1>1 DEF TypeSound
  <2>2. IsFiniteSet(1..next_session - 1)
    BY <2>1, FS_Interval
  <2>3. IsFiniteSet(DOMAIN sessions)
    BY <2>1, <2>2, FS_Subset
  <2>4. PICK ids \in SUBSET DOMAIN requests : ids = LegacyAlive
    BY <1>4
  <2>5. IsFiniteSet(ids)
    BY <1>1, ForwardsNat
  <2> QED BY <2>3, <2>4, <2>5
<1>6. IsFiniteSet(bySession)
      /\ Cardinality(bySession) = Cardinality(DOMAIN sessions)
  <2>1. PICK S : S = DOMAIN sessions
    OBVIOUS
  <2>2. PICK f : f = [s \in S |-> sessions[s].sequence]
    OBVIOUS
  <2>3. f \in [S -> Nat]
    BY <1>1, <2>1, <2>2 DEF TypeSound
  <2>4. \A x, y \in S : f[x] = f[y] => x = y
    BY <1>1, <2>1, <2>2 DEF OwnersSound
  <2>5. bySession = {f[x] : x \in S}
    BY <1>2, <2>1, <2>2
  <2> QED BY <1>5, <2>1, <2>3, <2>4, <2>5, SameNumber
<1>7. IsFiniteSet(byRequest)
      /\ Cardinality(byRequest) = Cardinality(LegacyAlive)
  <2>1. PICK S : S = LegacyAlive
    OBVIOUS
  <2>2. PICK f : f = [id \in S |-> requests[id].sequence]
    OBVIOUS
  <2>3. f \in [S -> Nat]
    BY <1>1, <1>4, <2>1, <2>2 DEF TypeSound, Requests
  <2>4. \A x, y \in S : f[x] = f[y] => x = y
    BY <1>1, <2>1, <2>2 DEF OwnersSound
  <2>5. byRequest = {f[x] : x \in S}
    BY <1>3, <2>1, <2>2
  <2> QED BY <1>5, <2>1, <2>3, <2>4, <2>5, SameNumber
<1>8. Live = bySession \cup byRequest
  <2>1. /\ \A s \in DOMAIN sessions : sessions[s].sequence \in Live
        /\ \A id \in LegacyAlive : requests[id].sequence \in Live
        /\ \A q \in Live : \/ \E s \in DOMAIN sessions : q = sessions[s].sequence
                           \/ \E id \in LegacyAlive : q = requests[id].sequence
    BY <1>1 DEF OwnersSound
  <2> QED BY <1>2, <1>3, <2>1
<1>9. bySession \cap byRequest = {}
  BY <1>1, <1>2, <1>3 DEF OwnersSound
<1>10. Cardinality(Live)
         = Cardinality(DOMAIN sessions) + Cardinality(LegacyAlive)
  <2>1. Cardinality(bySession \cup byRequest)
          = Cardinality(bySession) + Cardinality(byRequest)
              - Cardinality(bySession \cap byRequest)
    BY <1>6, <1>7, FS_Union
  <2>2. Cardinality(bySession) \in Nat /\ Cardinality(byRequest) \in Nat
    BY <1>6, <1>7, FS_CardinalityType
  <2>3. Cardinality(bySession \cap byRequest) = 0
    BY <1>9, FS_EmptySet
  <2>4. Cardinality(bySession \cup byRequest)
          = Cardinality(bySession) + Cardinality(byRequest)
    BY <2>1, <2>2, <2>3
  <2> QED BY <1>6, <1>7, <1>8, <2>4
<1> QED BY <1>2, <1>3, <1>8, <1>10 DEF OwnersOfSequences, LegacyAlive

(* The live sequences are those of the sessions and of the live legacy     *)
(* requests, one each: none leaks, none is shared.                         *)
THEOREM SchedulerOwns == Spec => []OwnersOfSequences
PROOF
<1> QED BY SafeOwners, SchedulerIsSafe, PTL

-----------------------------------------------------------------------------
(***************************************************************************)
(* Turns: what the layers above see of a turn, through TurnOf.             *)
(***************************************************************************)
(* A request that ends is seen to end so.                                  *)
LEMMA EndedTurn ==
  ASSUME NEW x \in Requests, ~Terminal(x), NEW p \in TerminalStatuses,
         NEW reason \in Reasons
  PROVE  TurnOf(Ended(x, p, reason)) = T!End(TurnOf(x), p)
PROOF
<1>1. PICK y : y = Ended(x, p, reason)
  OBVIOUS
<1>2. /\ y.session = x.session /\ y.prompt = x.prompt
      /\ y.prefill_pos = x.prefill_pos /\ y.max_new = x.max_new
      /\ y.committed = x.committed /\ y.status = p
  BY <1>1 DEF Ended, Requests
<1>3. Terminal(y)
  BY <1>2 DEF Terminal
<1> QED BY <1>1, <1>2, <1>3 DEF TurnOf, T!End

(* What is sampled is not seen until it is committed.                      *)
LEMMA AppendedTurn ==
  ASSUME NEW x \in Requests, NEW g
  PROVE  TurnOf([x EXCEPT !.generated = g]) = TurnOf(x)
PROOF
<1>1. PICK y : y = [x EXCEPT !.generated = g]
  OBVIOUS
<1>2. /\ y.session = x.session /\ y.prompt = x.prompt
      /\ y.prefill_pos = x.prefill_pos /\ y.max_new = x.max_new
      /\ y.committed = x.committed /\ y.status = x.status
  BY <1>1 DEF Requests
<1> QED BY <1>1, <1>2 DEF TurnOf, Terminal

(* After its forward a turn samples, or fails to, unless it is still       *)
(* reading its prompt, or generates nothing.                               *)
LEMMA SampledTurn ==
  ASSUME NEW x, SampleReady(x), SessionBound(x), NEW o \in Outcomes,
         NEW n, n = SampledNext(x, o), NEW t, t = TurnOf(x)
  PROVE  /\ Prefilling(x) => TurnOf(n) = t
         /\ ~Prefilling(x) /\ x.max_new = 0 => TurnOf(n) = T!End(t, "Finished")
         /\ ~Prefilling(x) /\ x.max_new > 0 =>
              TurnOf(n) \in {t, T!End(t, "Failed")}
PROOF
<1>1. x \in Requests /\ ~Terminal(x) /\ x.max_new \in Nat
  BY DEF SampleReady, Requests, Terminal, TerminalStatuses
<1>2. CASE Prefilling(x)
  BY <1>1, <1>2 DEF SampledNext
<1>3. CASE ~Prefilling(x) /\ x.max_new = 0
  <2>1. n = Ended(x, "Finished", "MaxNewTokens")
    BY <1>1, <1>3 DEF SampledNext
  <2> QED BY <1>1, <1>3, <2>1, EndedTurn DEF TerminalStatuses, Reasons
<1>4. CASE ~Prefilling(x) /\ x.max_new > 0 /\ o = "fault"
  <2>1. n = Ended(x, "Failed", "Failed")
    BY <1>1, <1>4 DEF SampledNext, Failed
  <2>2. TurnOf(n) = T!End(t, "Failed")
    BY <1>1, <2>1, EndedTurn DEF TerminalStatuses, Reasons
  <2> QED BY <1>1, <1>4, <2>2
<1>5. CASE ~Prefilling(x) /\ x.max_new > 0 /\ o # "fault"
  <2>1. PICK g : g = Append(x.generated, o)
    OBVIOUS
  <2>2. n = [x EXCEPT !.generated = g]
    BY <1>1, <1>5, <2>1 DEF SampledNext
  <2>3. TurnOf(n) = t
    BY <1>1, <2>2, AppendedTurn
  <2> QED BY <1>1, <1>5, <2>3
<1> QED BY <1>1, <1>2, <1>3, <1>4, <1>5

(* A forward of a live turn has one of the outcomes that Turns promises.   *)
LEMMA AdvancedTurn ==
  ASSUME NEW r, RequestSound(r), ~Terminal(r), SessionBound(r),
         NEW o \in Outcomes, NEW n, n = SampledNext(Decoded(r), o),
         NEW live, r.session \in live
  PROVE  TurnOf(n) \in T!Outcomes(TurnOf(r), live)
PROOF
<1>1. PICK t : t = TurnOf(r)
  OBVIOUS
<1>2. PICK x : x = Forwarded(r)
  OBVIOUS
<1>3. PICK d : d = Decoded(r)
  OBVIOUS
<1>4. /\ x \in Requests /\ SameTurn(r, x) /\ x.generated = r.generated
      /\ x.forward_count = r.forward_count + 1
      /\ x.committed = r.committed /\ x.status = "Running"
      /\ x.prefill_pos = IF Prefilling(r) THEN r.prefill_pos + 1
                                          ELSE r.prefill_pos
  BY <1>2, ForwardedReady
<1>5. /\ SampleReady(d) \/ (Terminal(d) /\ RequestSound(d))
      /\ SameTurn(r, d)
  BY <1>3, DecodedReady
<1>6. /\ r \in Requests /\ r.prefill_pos \in Nat /\ r.prompt \in Nat
      /\ r.prefill_pos <= r.prompt /\ r.max_new \in Nat /\ r.committed \in Nat
  BY DEF RequestSound, Requests
<1>7. t = [session |-> r.session, prompt |-> r.prompt,
           left |-> r.prompt - r.prefill_pos, max_new |-> r.max_new,
           committed |-> r.committed, status |-> "Live"]
  BY <1>1 DEF TurnOf
<1>8. /\ x.session = r.session /\ x.prompt = r.prompt
      /\ x.max_new = r.max_new /\ SessionBound(x)
      /\ ~Terminal(x) /\ ~Terminal(r)
  BY <1>4 DEF SameTurn, SessionBound, Terminal, TerminalStatuses
<1>9. CASE Prefilling(r)
  <2>1. d = x /\ x.prefill_pos = r.prefill_pos + 1
    BY <1>2, <1>3, <1>4, <1>9 DEF Decoded
  <2>2. SampleReady(x)
    BY <1>5, <1>8, <2>1
  <2>3. PICK u : u = TurnOf(x)
    OBVIOUS
  <2>4. PICK k : k = t.left - 1
    OBVIOUS
  <2>5. k = r.prompt - (r.prefill_pos + 1) /\ k \in Nat /\ t.left = k + 1
    <3>1. t.left = r.prompt - r.prefill_pos
      BY <1>7
    <3>2. r.prefill_pos < r.prompt
      BY <1>9 DEF Prefilling
    <3> QED BY <1>6, <2>4, <3>1, <3>2
  <2>6. u = [session |-> r.session, prompt |-> r.prompt, left |-> k,
             max_new |-> r.max_new, committed |-> r.committed,
             status |-> "Live"]
    BY <1>4, <1>8, <2>1, <2>3, <2>5 DEF TurnOf
  <2>7. u = [t EXCEPT !.left = k]
    BY <1>7, <2>6
  <2>8. /\ Prefilling(x) => TurnOf(n) = u
        /\ ~Prefilling(x) /\ x.max_new = 0 => TurnOf(n) = T!End(u, "Finished")
        /\ ~Prefilling(x) /\ x.max_new > 0 =>
             TurnOf(n) \in {u, T!End(u, "Failed")}
    BY <1>3, <1>8, <2>1, <2>2, <2>3, SampledTurn
  <2>9. Prefilling(x) <=> k > 0
    <3>1. Prefilling(x) <=> r.prefill_pos + 1 < r.prompt
      BY <1>8, <2>1 DEF Prefilling
    <3> QED BY <1>6, <2>5, <3>1
  <2>10. u.left = k /\ u.max_new = x.max_new /\ x.max_new \in Nat
    BY <1>6, <1>8, <2>6
  <2>11. T!AfterInput(t) =
           CASE u.left > 0 -> {u}
             [] u.left = 0 /\ u.max_new = 0 -> {T!End(u, "Finished")}
             [] u.left = 0 /\ u.max_new > 0 -> {u, T!End(u, "Failed")}
    BY <2>4, <2>7 DEF T!AfterInput
  <2>12. TurnOf(n) \in T!AfterInput(t)
    <3>1. CASE k > 0
      BY <2>8, <2>9, <2>10, <2>11, <3>1
    <3>2. CASE k = 0 /\ x.max_new = 0
      BY <2>8, <2>9, <2>10, <2>11, <3>2
    <3>3. CASE k = 0 /\ x.max_new > 0
      BY <2>8, <2>9, <2>10, <2>11, <3>3
    <3> QED BY <2>5, <2>10, <3>1, <3>2, <3>3
  <2>13. t.session \in live /\ t.left > 0
    BY <1>7, <2>5
  <2> QED BY <1>1, <2>12, <2>13 DEF T!Outcomes
<1>10. CASE ~Prefilling(r)
  <2>1. PICK k : k = r.committed + 1
    OBVIOUS
  <2>2. PICK c : c = [x EXCEPT !.committed = k]
    OBVIOUS
  <2>3. d = StopOn(c, r.generated[k], k)
    BY <1>2, <1>3, <1>4, <1>8, <1>10, <2>1, <2>2 DEF Decoded, Committed
  <2>4. k \in Nat /\ k = t.committed + 1
    BY <1>6, <1>7, <2>1
  <2>5. /\ c \in Requests /\ c.session = r.session /\ c.prompt = r.prompt
        /\ c.prefill_pos = r.prefill_pos /\ c.max_new = r.max_new
        /\ c.committed = k /\ c.status = "Running"
    BY <1>4, <1>8, <1>10, <2>2, <2>4 DEF Requests
  <2>6. ~Terminal(c) /\ ~Prefilling(c) /\ SessionBound(c)
    BY <1>8, <1>10, <2>5 DEF Terminal, TerminalStatuses, Prefilling,
                             SessionBound
  <2>7. PICK u : u = TurnOf(c)
    OBVIOUS
  <2>8. u = [session |-> r.session, prompt |-> r.prompt,
             left |-> r.prompt - r.prefill_pos, max_new |-> r.max_new,
             committed |-> k, status |-> "Live"]
    BY <2>5, <2>6, <2>7 DEF TurnOf
  <2>9. u = [t EXCEPT !.committed = k]
    BY <1>7, <2>8
  <2>10. T!AfterCommit(t) = {T!End(u, "Finished")}
           \cup IF u.committed < u.max_new THEN {u, T!End(u, "Failed")} ELSE {}
    BY <2>4, <2>9 DEF T!AfterCommit
  <2>11. u.committed = k /\ u.max_new = c.max_new
    BY <2>5, <2>8
  <2>12. ASSUME NEW reason \in Reasons, d = Ended(c, "Finished", reason)
         PROVE  TurnOf(n) \in T!AfterCommit(t)
    <3>1. Terminal(d)
      BY <2>5, <2>12 DEF Ended, Requests, Terminal, TerminalStatuses
    <3>2. n = d
      BY <1>3, <3>1 DEF SampledNext
    <3>3. TurnOf(n) = T!End(u, "Finished")
      BY <2>5, <2>6, <2>7, <2>12, <3>2, EndedTurn DEF TerminalStatuses
    <3> QED BY <2>10, <3>3
  <2>13. TurnOf(n) \in T!AfterCommit(t)
    <3>1. CASE r.generated[k] = "eos"
      <4>1. d = Ended(c, "Finished", "Eos")
        BY <2>3, <3>1 DEF StopOn
      <4> QED BY <2>12, <4>1 DEF Reasons
    <3>2. CASE r.generated[k] # "eos" /\ k >= c.max_new
      <4>1. d = Ended(c, "Finished", "MaxNewTokens")
        BY <2>3, <3>2 DEF StopOn
      <4> QED BY <2>12, <4>1 DEF Reasons
    <3>3. CASE r.generated[k] # "eos" /\ ~(k >= c.max_new)
      <4>1. d = c
        BY <2>3, <3>3 DEF StopOn
      <4>2. SampleReady(c)
        BY <1>5, <2>6, <4>1
      <4>3. k < c.max_new /\ c.max_new \in Nat
        BY <1>6, <2>4, <2>5, <3>3
      <4>4. c.max_new > 0
        BY <2>4, <4>3
      <4>5. TurnOf(n) \in {u, T!End(u, "Failed")}
        BY <1>3, <2>6, <2>7, <4>1, <4>2, <4>4, SampledTurn
      <4> QED BY <2>10, <2>11, <4>3, <4>5
    <3>4. k >= c.max_new \/ ~(k >= c.max_new)
      OBVIOUS
    <3> QED BY <3>1, <3>2, <3>3, <3>4
  <2>14. t.session \in live /\ t.left = 0
    <3>1. r.prompt = r.prefill_pos
      BY <1>6, <1>10 DEF Prefilling
    <3> QED BY <1>6, <1>7, <3>1
  <2> QED BY <1>1, <2>13, <2>14 DEF T!Outcomes
<1> QED BY <1>9, <1>10

BoundOnes == {id \in DOMAIN requests : SessionBound(requests[id])}

(* Turns sees the requests of sessions, each through TurnOf.               *)
LEMMA TurnsSeen ==
  /\ SessionTurns = [id \in BoundOnes |-> TurnOf(requests[id])]
  /\ DOMAIN SessionTurns = BoundOnes
  /\ \A id \in BoundOnes : SessionTurns[id] = TurnOf(requests[id])
  /\ T!LiveTurns(SessionTurns) = BoundOnes \cap Alive
PROOF
<1>1. SessionTurns = [id \in BoundOnes |-> TurnOf(requests[id])]
  BY DEF SessionTurns, BoundOnes
<1>2. \A id \in BoundOnes : T!Ended(TurnOf(requests[id]))
                               <=> Terminal(requests[id])
  BY DEF T!Ended, TurnOf, Terminal, TerminalStatuses
<1>3. DOMAIN SessionTurns = BoundOnes
      /\ \A id \in BoundOnes : SessionTurns[id] = TurnOf(requests[id])
  BY <1>1
<1>4. T!LiveTurns(SessionTurns) = BoundOnes \cap Alive
  BY <1>2, <1>3 DEF T!LiveTurns, BoundOnes, Alive
<1> QED BY <1>1, <1>3, <1>4

(* No request of a session moves, none is admitted.                        *)
LEMMA TurnsStill ==
  ASSUME requests' = requests
  PROVE  SessionTurns' = SessionTurns
PROOF
<1>1. SessionTurns' = [id \in {i \in DOMAIN requests' :
                                 SessionBound(requests'[i])} |->
                         TurnOf(requests'[id])]
  BY DEF SessionTurns, TurnOf, SessionBound, Terminal
<1> QED BY <1>1 DEF SessionTurns

(* Whatever the scheduler forwards or fails in one step, for the turns of  *)
(* sessions it is an advance of some of them.                              *)
LEMMA StepAdvances ==
  ASSUME Safe, NEW fwd, NEW ended, Step(fwd, ended), Advances(fwd, ended)
  PROVE  T!Advance
PROOF
<1>1. /\ RequestsMove(fwd, ended) /\ LenMoves(fwd)
      /\ sessions' = sessions /\ TypeSound /\ OwnersSound
  BY DEF Step, Moves, Safe
<1>2. /\ DOMAIN requests' = DOMAIN requests
      /\ \A id \in DOMAIN requests :
           /\ SameTurn(requests[id], requests'[id])
           /\ id \notin fwd \cup ended => requests'[id] = requests[id]
  BY <1>1 DEF RequestsMove
<1>3. BoundOnes' = BoundOnes
  BY <1>2 DEF BoundOnes, SameTurn, SessionBound
<1>4. /\ DOMAIN SessionTurns = BoundOnes /\ DOMAIN SessionTurns' = BoundOnes
      /\ \A id \in BoundOnes : /\ SessionTurns[id] = TurnOf(requests[id])
                               /\ SessionTurns'[id] = TurnOf(requests'[id])
  <2>1. SessionTurns' = [id \in BoundOnes' |-> TurnOf(requests'[id])]
    BY DEF SessionTurns, BoundOnes, TurnOf, SessionBound, Terminal
  <2> QED BY <1>3, <2>1, TurnsSeen
<1>5. ASSUME NEW id \in BoundOnes, SessionTurns'[id] # SessionTurns[id]
      PROVE  /\ id \in T!LiveTurns(SessionTurns)
             /\ SessionTurns'[id]
                  \in T!Outcomes(SessionTurns[id], DOMAIN sessions)
  <2>1. id \in DOMAIN requests /\ SessionBound(requests[id])
    BY DEF BoundOnes
  <2>2. id \in fwd \cup ended
    BY <1>2, <1>4, <1>5, <2>1
  <2>3. id \in Alive /\ fwd \subseteq Alive /\ ended \subseteq Alive
    BY <1>1, <2>2 DEF RequestsMove
  <2>4. RequestSound(requests[id]) /\ ~Terminal(requests[id])
        /\ requests[id] \in Requests
    BY <1>1, <2>3, AliveReady DEF RequestSound
  <2>5. CASE id \in fwd
    <3>1. PICK o \in Outcomes :
            requests'[id] = SampledNext(Decoded(requests[id]), o)
      BY <2>5 DEF Advances
    <3>2. requests[id].sequence \in Live
      BY <1>1, <2>5 DEF LenMoves, SequencesOf
    <3>3. requests[id].session \in DOMAIN sessions
      BY <1>1, <2>1, <3>2 DEF OwnersSound
    <3>4. TurnOf(requests'[id])
            \in T!Outcomes(TurnOf(requests[id]), DOMAIN sessions)
      BY <2>1, <2>4, <3>1, <3>3, AdvancedTurn
    <3> QED BY <1>4, <2>1, <2>3, <3>4, TurnsSeen
  <2>6. CASE id \in ended
    <3>1. requests'[id] = Ended(requests[id], "Failed", "Failed")
      BY <2>6 DEF Advances, Failed
    <3>2. TurnOf(requests'[id]) = T!End(TurnOf(requests[id]), "Failed")
      BY <2>4, <3>1, EndedTurn DEF TerminalStatuses, Reasons
    <3> QED BY <1>4, <2>1, <2>3, <3>2, TurnsSeen DEF T!Outcomes
  <2> QED BY <2>2, <2>5, <2>6
<1> QED BY <1>1, <1>4, <1>5 DEF T!Advance

(* Cancelling the turn of a session ends it; cancelling another request is *)
(* not seen.                                                               *)
LEMMA CancelSeen ==
  ASSUME Safe, NEW id \in Alive, Cancel(id)
  PROVE  /\ DOMAIN sessions' = DOMAIN sessions
         /\ \/ T!Cancel(id) /\ id \in DOMAIN SessionTurns
            \/ SessionTurns' = SessionTurns
PROOF
<1>1. PICK e : e = Ended(requests[id], "Cancelled", "Cancelled")
  OBVIOUS
<1>2. id \in DOMAIN requests /\ requests[id] \in Requests
      /\ ~Terminal(requests[id])
  BY AliveReady DEF Safe, RequestSound
<1>3. /\ sessions' = sessions
      /\ requests' = [i \in DOMAIN requests |-> IF i \in {id} THEN e
                                                ELSE requests[i]]
  BY <1>1, <1>2 DEF Cancel, Becomes, Settled, World
<1>4. /\ DOMAIN requests' = DOMAIN requests /\ requests'[id] = e
      /\ \A i \in DOMAIN requests : i # id => requests'[i] = requests[i]
  BY <1>2, <1>3
<1>5. SessionBound(e) <=> SessionBound(requests[id])
  BY <1>1, <1>2 DEF Ended, Requests, SessionBound
<1>6. BoundOnes' = BoundOnes
  BY <1>4, <1>5 DEF BoundOnes, SessionBound
<1>7. SessionTurns' = [i \in BoundOnes |-> TurnOf(requests'[i])]
  BY <1>6 DEF SessionTurns, BoundOnes, TurnOf, SessionBound, Terminal
<1>8. TurnOf(e) = T!End(TurnOf(requests[id]), "Cancelled")
  BY <1>1, <1>2, EndedTurn DEF TerminalStatuses, Reasons
<1>9. SessionTurns = [i \in BoundOnes |-> TurnOf(requests[i])]
  BY TurnsSeen
<1>10. CASE id \in BoundOnes
  <2>1. id \in T!LiveTurns(SessionTurns) /\ DOMAIN SessionTurns = BoundOnes
    BY <1>10, TurnsSeen
  <2>2. SessionTurns'
          = [SessionTurns EXCEPT ![id] = T!End(SessionTurns[id], "Cancelled")]
    <3>1. \A i \in BoundOnes : i # id => requests'[i] = requests[i]
      BY <1>4 DEF BoundOnes
    <3>2. PICK g : g = [SessionTurns EXCEPT
                          ![id] = T!End(SessionTurns[id], "Cancelled")]
      OBVIOUS
    <3>3. /\ g = [i \in BoundOnes |-> g[i]]
          /\ g[id] = T!End(TurnOf(requests[id]), "Cancelled")
          /\ \A i \in BoundOnes : i # id => g[i] = TurnOf(requests[i])
      BY <1>9, <1>10, <3>2
    <3>4. \A i \in BoundOnes : g[i] = TurnOf(requests'[i])
      BY <1>4, <1>8, <3>1, <3>3
    <3> QED BY <1>7, <3>2, <3>3, <3>4
  <2> QED BY <1>3, <1>10, <2>1, <2>2 DEF T!Cancel
<1>11. CASE id \notin BoundOnes
  <2>1. \A i \in BoundOnes : requests'[i] = requests[i]
    BY <1>4, <1>11 DEF BoundOnes
  <2> QED BY <1>3, <1>7, <1>9, <2>1
<1> QED BY <1>10, <1>11

(* The turn that is admitted is a new one, of a session with no live turn. *)
LEMMA AdmitTurnSeen ==
  ASSUME Safe, NEW n \in Prompts, NEW m \in Limits,
         NEW s \in DOMAIN sessions, AdmitSessionTurn(s, n, m)
  PROVE  DOMAIN SessionTurns' # DOMAIN SessionTurns /\ T!Admit
PROOF
<1>1. PICK r : r = NewRequest(sessions[s].sequence, s, n, m)
  OBVIOUS
<1>2. PICK new : new = next_request
  OBVIOUS
<1>3. Admitted(r) /\ r.session = s
  BY <1>1, AdmitTurnAdmits
<1>4. /\ new \notin DOMAIN requests
      /\ DOMAIN requests' = DOMAIN requests \cup {new}
      /\ requests'[new] = r
      /\ \A id \in DOMAIN requests : requests'[id] = requests[id]
  BY <1>2, <1>3, AdmittedSets
<1>5. SessionBound(r) /\ s # NoSession /\ sessions' = sessions
      /\ \A id \in Alive : requests[id].session # s
  <2>1. s \in 1..next_session - 1
    BY DEF Safe, TypeSound
  <2>2. s # NoSession
    BY <2>1 DEF NoSession
  <2> QED BY <1>3, <2>2 DEF SessionBound, AdmitSessionTurn, Busy
<1>6. BoundOnes' = BoundOnes \cup {new} /\ new \notin BoundOnes
      /\ BoundOnes \subseteq DOMAIN requests
  BY <1>4, <1>5 DEF BoundOnes, SessionBound
<1>7. PICK after : after = SessionTurns'
  OBVIOUS
<1>8. after = [id \in BoundOnes \cup {new} |-> TurnOf(requests'[id])]
  BY <1>6, <1>7 DEF SessionTurns, BoundOnes, TurnOf, SessionBound, Terminal
<1>9. SessionTurns = [id \in BoundOnes |-> TurnOf(requests[id])]
      /\ DOMAIN SessionTurns = BoundOnes
      /\ T!LiveTurns(SessionTurns) = BoundOnes \cap Alive
      /\ \A id \in BoundOnes : SessionTurns[id] = TurnOf(requests[id])
  BY TurnsSeen
<1>10. DOMAIN after = BoundOnes \cup {new} /\ after[new] = TurnOf(r)
  BY <1>4, <1>8
<1>11. (CHOOSE i \in DOMAIN after : i \notin DOMAIN SessionTurns) = new
  BY <1>6, <1>9, <1>10
<1>12. SessionTurns = [id \in DOMAIN after \ {new} |-> after[id]]
  <2>1. DOMAIN after \ {new} = BoundOnes
    BY <1>6, <1>10
  <2>2. \A id \in BoundOnes : after[id] = TurnOf(requests[id])
    BY <1>4, <1>6, <1>8
  <2> QED BY <1>9, <2>1, <2>2
<1>13. TurnOf(r) = T!NewTurn(s, n, m)
  <2>1. /\ r.session = s /\ r.prompt = n /\ r.max_new = m
        /\ r.prefill_pos = 0 /\ r.committed = 0 /\ r.status = "Waiting"
    BY <1>1 DEF NewRequest
  <2>2. n - 0 = n
    BY SchedulerAssumption
  <2> QED BY <2>1, <2>2 DEF TurnOf, T!NewTurn, Terminal, TerminalStatuses
<1>14. /\ after[new].session = s /\ after[new].prompt = n
       /\ after[new].max_new = m
  BY <1>10, <1>13 DEF T!NewTurn
<1>15. \A i \in T!LiveTurns(SessionTurns) : SessionTurns[i].session # s
  <2>1. \A i \in BoundOnes : SessionTurns[i].session = requests[i].session
    BY <1>9 DEF TurnOf
  <2> QED BY <1>5, <1>9, <2>1
<1>16. T!Admit
  BY <1>5, <1>7, <1>10, <1>11, <1>12, <1>13, <1>14, <1>15
     DEF T!Admit, T!Restrict
<1> QED BY <1>6, <1>7, <1>9, <1>10, <1>16

(* Every call and every step is one of Turns, or is not seen there.        *)
LEMMA NextSeen ==
  ASSUME Safe, [Next]_vars
  PROVE  [T!Next]_(T!vars)
PROOF
<1> DEFINE Unseen == DOMAIN sessions' = DOMAIN sessions
                       /\ SessionTurns' = SessionTurns
<1>1. Unseen => [T!Next]_(T!vars)
  BY DEF T!vars
<1>2. sessions' = sessions /\ requests' = requests => Unseen
  BY TurnsStill
<1> HIDE DEF Unseen
<1>3. CASE UNCHANGED vars
  BY <1>1, <1>2, <1>3 DEF vars
<1>4. ASSUME NEW n \in Prompts, NEW m \in Limits, Admit(n, m)
      PROVE  Unseen
  <2>1. PICK r : Admitted(r) /\ ~SessionBound(r)
    BY <1>4, AdmitAdmits
  <2>2. PICK new : new = next_request
    OBVIOUS
  <2>3. /\ new \notin DOMAIN requests
        /\ DOMAIN requests' = DOMAIN requests \cup {new}
        /\ requests'[new] = r
        /\ \A id \in DOMAIN requests : requests'[id] = requests[id]
    BY <2>1, <2>2, AdmittedSets
  <2>4. BoundOnes' = BoundOnes
    BY <2>1, <2>3 DEF BoundOnes, SessionBound
  <2>5. SessionTurns' = [id \in BoundOnes |-> TurnOf(requests'[id])]
    BY <2>4 DEF SessionTurns, BoundOnes, TurnOf, SessionBound, Terminal
  <2>6. \A id \in BoundOnes : requests'[id] = requests[id]
    BY <2>3 DEF BoundOnes
  <2>7. SessionTurns' = SessionTurns
    BY <2>5, <2>6, TurnsSeen
  <2> QED BY <1>4, <2>7 DEF Admit, Unseen
<1>5. ASSUME NEW n \in Prompts, NEW m \in Limits, NEW s \in DOMAIN sessions,
             AdmitSessionTurn(s, n, m)
      PROVE  T!Next
  BY <1>5, AdmitTurnSeen DEF T!Next
<1>6. ASSUME NEW id \in DOMAIN requests, Cancel(id)
      PROVE  [T!Next]_(T!vars)
  <2>1. CASE id \in Alive
    <3>1. /\ DOMAIN sessions' = DOMAIN sessions
          /\ \/ T!Cancel(id) /\ id \in DOMAIN SessionTurns
             \/ SessionTurns' = SessionTurns
      BY <1>6, <2>1, CancelSeen
    <3>2. CASE T!Cancel(id) /\ id \in DOMAIN SessionTurns
      BY <3>2 DEF T!Next
    <3>3. CASE SessionTurns' = SessionTurns
      BY <1>1, <3>1, <3>3 DEF Unseen
    <3> QED BY <3>1, <3>2, <3>3
  <2>2. CASE id \notin Alive
    BY <1>3, <1>6, <2>2 DEF Cancel, Alive
  <2> QED BY <2>1, <2>2
<1>7. CASE CreateSession
  <2>1. PICK s : s = next_session
    OBVIOUS
  <2>2. DOMAIN sessions' = DOMAIN sessions \cup {s} /\ requests' = requests
    BY <1>7, <2>1 DEF CreateSession, With
  <2>3. s \notin DOMAIN sessions
    BY <2>1 DEF Safe, TypeSound
  <2>4. s \in DOMAIN sessions' /\ DOMAIN sessions = DOMAIN sessions' \ {s}
    BY <2>2, <2>3
  <2>5. T!Sessions
    BY <2>2, <2>4, TurnsStill DEF T!Sessions
  <2> QED BY <2>5 DEF T!Next
<1>8. ASSUME NEW s \in DOMAIN sessions, ResetSession(s)
      PROVE  Unseen
  BY <1>8, TurnsStill DEF ResetSession, Unseen
<1>9. ASSUME NEW s \in DOMAIN sessions, DestroySession(s)
      PROVE  T!Next
  <2>1. DOMAIN sessions' = DOMAIN sessions \ {s} /\ requests' = requests
    BY <1>9 DEF DestroySession, Restrict
  <2>2. T!Sessions
    BY <2>1, TurnsStill DEF T!Sessions
  <2> QED BY <2>2 DEF T!Next
<1>10. CASE BeginRun \/ BeginStep \/ FallBack \/ EndRun
  BY <1>1, <1>2, <1>10 DEF BeginRun, BeginStep, FallBack, EndRun
<1>11. CASE AdvanceSingle \/ AdvanceCohort
  BY <1>11, SingleSteps, CohortSteps, StepAdvances DEF Safe, T!Next
<1> QED BY <1>1, <1>3, <1>4, <1>5, <1>6, <1>7, <1>8, <1>9, <1>10, <1>11
        DEF Next, Driver, Rejected

(* The scheduler implements Turns: whatever it batches, falls back from,   *)
(* cancels, fails or runs out of, a turn of a session forwards its inputs, *)
(* then commits token after token, and ends once.                          *)
THEOREM SchedulerImplementsTurns == Spec => ImplementsTurns
PROOF
<1>1. Init => T!Init
  <2> SUFFICES ASSUME Init
               PROVE  T!Init
    OBVIOUS
  <2>1. requests = <<>> /\ sessions = <<>>
    BY DEF Init
  <2>2. DOMAIN requests = {} /\ DOMAIN sessions = {}
    BY <2>1
  <2>3. BoundOnes = {}
    BY <2>2 DEF BoundOnes
  <2>4. SessionTurns = <<>>
    BY <2>3, TurnsSeen
  <2> QED BY <2>2, <2>4 DEF T!Init
<1>2. Safe /\ [Next]_vars => [T!Next]_(T!vars)
  BY NextSeen
<1> QED BY <1>1, <1>2, SchedulerIsSafe, PTL DEF Spec, ImplementsTurns, T!Spec

-----------------------------------------------------------------------------
(***************************************************************************)
(* BatchIsSerial: what a batch leaves, of any part of its rows, is what    *)
(* the fold over single advances has left when it has done that part.      *)
(***************************************************************************)
(* Live requests past their prompts that fit into a batch together.        *)
Batch(rows) ==
  /\ rows \subseteq Alive /\ IsFiniteSet(rows)
  /\ \A id \in rows : ~Prefilling(requests[id])
  /\ BatchFits(World, rows)

(* A row when it has advanced.                                             *)
Row(id, t) == SampledNext(Decoded(requests[id]), t)

(* The rows of s that retire their sequences.                              *)
Leaving(s, o) ==
  {id \in s : Terminal(Row(id, o[id])) /\ ~SessionBound(requests[id])}

LenAfter(s, o) ==
  [q \in Live \ SequencesOf(Leaving(s, o)) |->
     len[q] + IF q \in SequencesOf(s) THEN 1 ELSE 0]

RequestsAfter(s, o) ==
  [id \in DOMAIN requests |-> IF id \in s THEN Row(id, o[id])
                              ELSE requests[id]]

StatsAfter(s) ==
  [single |-> stats.single + Cardinality(s),
   successful |-> stats.successful + Cardinality(s),
   batch |-> stats.batch, batched |-> stats.batched]

(* The world when the rows of s have advanced by themselves.               *)
After(s, o) ==
  [len |-> LenAfter(s, o), requests |-> RequestsAfter(s, o),
   stats |-> StatsAfter(s), fatal |-> FALSE]

(* A row stays in its turn and on its sequence.                            *)
LEMMA RowSound ==
  ASSUME TypeSound, NEW id \in Alive, NEW t \in Outcomes
  PROVE  /\ Row(id, t).sequence = requests[id].sequence
         /\ SessionBound(Row(id, t)) = SessionBound(requests[id])
         /\ Pending(requests[id]) \/ Prefilling(requests[id])
         /\ ~Terminal(requests[id]) /\ id \in DOMAIN requests
PROOF
<1>1. /\ id \in DOMAIN requests /\ RequestSound(requests[id])
      /\ ~Terminal(requests[id])
      /\ Prefilling(requests[id]) \/ Pending(requests[id])
  BY AliveReady
<1>2. PICK n : n = SampledNext(Decoded(requests[id]), t)
  OBVIOUS
<1>3. SameTurn(requests[id], n)
  BY <1>1, <1>2, AdvancedSound
<1> QED BY <1>1, <1>2, <1>3 DEF Row, SameTurn, SessionBound

(* The rows of a batch have live sequences, one each, each below the end.  *)
LEMMA BatchRows ==
  ASSUME TypeSound, NEW rows, Batch(rows)
  PROVE  /\ SequencesOf(rows) \subseteq Live
         /\ \A i, j \in rows :
              requests[i].sequence = requests[j].sequence => i = j
         /\ \A id \in rows : /\ requests[id].sequence \in Live
                             /\ len[requests[id].sequence] < MaxSeqLen
         /\ Fits(len, SequencesOf(rows))
PROOF
<1>1. World.len = len /\ World.requests = requests
  BY DEF World
<1>2. {World.requests[id].sequence : id \in rows} = SequencesOf(rows)
  BY <1>1 DEF SequencesOf
<1>3. /\ Fits(len, SequencesOf(rows))
      /\ \A i, j \in rows :
           requests[i].sequence = requests[j].sequence => i = j
  BY <1>1, <1>2 DEF Batch, BatchFits
<1>4. \A id \in rows : requests[id].sequence \in SequencesOf(rows)
  BY DEF SequencesOf
<1> QED BY <1>3, <1>4 DEF Fits, Live

SettledAs(w, f, l, rq, c, retired) ==
  Settled(w, f)
    = [len |-> Restrict(l, DOMAIN l \ retired),
       requests |-> [id \in DOMAIN rq |-> IF id \in DOMAIN f THEN f[id]
                                          ELSE rq[id]],
       stats |-> c, fatal |-> FALSE]

(* The requests become f and the lengths lose those that retire, and       *)
(* nothing is wrong as long as these are live.                             *)
LEMMA SettledLeaves ==
  ASSUME NEW w, NEW l, NEW rq, NEW c, NEW f, NEW retired,
         w = [len |-> l, requests |-> rq, stats |-> c, fatal |-> FALSE],
         \A q : q \in retired <=>
           \E i \in DOMAIN f : /\ Terminal(f[i]) /\ ~Terminal(rq[i])
                               /\ ~SessionBound(f[i]) /\ q = f[i].sequence,
         retired \subseteq DOMAIN l
  PROVE  SettledAs(w, f, l, rq, c, retired)
PROOF
<1>2. w.len = l /\ w.requests = rq /\ w.fatal = FALSE
  OBVIOUS
<1>6. retired = {f[id].sequence : id \in
                   {i \in DOMAIN f : /\ Terminal(f[i]) /\ ~Terminal(rq[i])
                                     /\ ~SessionBound(f[i])}}
  OBVIOUS
<1>3. PICK a, b : /\ a = [id \in DOMAIN rq |-> IF id \in DOMAIN f THEN f[id]
                                              ELSE rq[id]]
                  /\ b = Restrict(l, DOMAIN l \ retired)
  OBVIOUS
<1>4. Settled(w, f) = [w EXCEPT !.requests = a, !.len = b, !.fatal = FALSE]
  BY <1>2, <1>3, <1>6 DEF Settled
<1>5. [w EXCEPT !.requests = a, !.len = b, !.fatal = FALSE]
        = [len |-> b, requests |-> a, stats |-> c, fatal |-> FALSE]
  <2>1. PICK x, y : /\ x = [w EXCEPT !.requests = a, !.len = b, !.fatal = FALSE]
                    /\ y = [len |-> b, requests |-> a, stats |-> c,
                            fatal |-> FALSE]
    OBVIOUS
  <2>2. /\ DOMAIN w = {"len", "requests", "stats", "fatal"}
        /\ w["stats"] = c
    OBVIOUS
  <2>3. /\ DOMAIN x = {"len", "requests", "stats", "fatal"}
        /\ x = [i \in DOMAIN x |-> x[i]]
        /\ x["len"] = b /\ x["requests"] = a /\ x["stats"] = c
        /\ x["fatal"] = FALSE
    BY <2>1, <2>2
  <2>4. /\ DOMAIN y = {"len", "requests", "stats", "fatal"}
        /\ y = [i \in DOMAIN y |-> y[i]]
        /\ y["len"] = b /\ y["requests"] = a /\ y["stats"] = c
        /\ y["fatal"] = FALSE
    BY <2>1
  <2> QED BY <2>1, <2>3, <2>4
<1> QED BY <1>3, <1>4, <1>5 DEF SettledAs

(* How the pages of a length grow.                                         *)
LEMMA PagesRaised ==
  ASSUME SchedulerAssumption, NEW n \in Nat
  PROVE  /\ PagesFor(n) \in Nat
         /\ PagesFor(n + 1) = PagesFor(n) + IF n % PageTokens = 0 THEN 1 ELSE 0
PROOF
<1>1. PageTokens \in Nat \ {0}
  BY DEF SchedulerAssumption
<1>2. /\ PagesFor(n) = (n + PageTokens - 1) \div PageTokens
      /\ PagesFor(n + 1) = (n + 1 + PageTokens - 1) \div PageTokens
  BY DEF PagesFor
<1>3. n \div PageTokens \in Nat
  BY <1>1, DivFacts
<1>4. /\ n % PageTokens = 0 => PagesFor(n) = n \div PageTokens
      /\ n % PageTokens # 0 => PagesFor(n) = n \div PageTokens + 1
      /\ PagesFor(n + 1) = n \div PageTokens + 1
  <2> HIDE DEF PagesFor
  <2>1. PICK p : p = PageTokens
    OBVIOUS
  <2>2. p \in Nat \ {0}
    BY <1>1, <2>1
  <2>3. /\ n % p = 0 => (n + p - 1) \div p = n \div p
        /\ n % p # 0 => (n + p - 1) \div p = n \div p + 1
        /\ (n + 1 + p - 1) \div p = n \div p + 1
    BY <2>2, RoundedUp
  <2> QED BY <1>2, <2>1, <2>3
<1>5. PICK k \in Nat : k = n \div PageTokens
  BY <1>3
<1> QED BY <1>4, <1>5

(* Some sequences that are one longer, and others that are gone, take no   *)
(* more pages than the new blocks of the former.                           *)
LEMMA PagesLater ==
  ASSUME SchedulerAssumption, NEW l, IsFiniteSet(DOMAIN l),
         l \in [DOMAIN l -> Nat], NEW Q \in SUBSET DOMAIN l,
         NEW D \in SUBSET DOMAIN l, NEW m,
         m = [q \in D |-> l[q] + IF q \in Q THEN 1 ELSE 0]
  PROVE  /\ PagesOf(m) \in Nat /\ PagesOf(l) \in Nat
         /\ PagesOf(m) <= PagesOf(l)
                            + Cardinality({q \in Q : l[q] % PageTokens = 0})
PROOF
<1>1. PICK S : S = DOMAIN l
  OBVIOUS
<1>2. PICK G \in SUBSET S : G = {q \in Q : l[q] % PageTokens = 0}
  BY <1>1
<1>3. PICK f : f = [q \in S |-> PagesFor(l[q])]
  OBVIOUS
<1>4. PICK g : g = [q \in S |-> PagesFor(l[q] + IF q \in Q THEN 1 ELSE 0)]
  OBVIOUS
<1>5. PICK h : h = [q \in D |-> PagesFor(m[q])]
  OBVIOUS
<1>6. \A q \in S : /\ l[q] \in Nat /\ f[q] \in Nat /\ g[q] \in Nat
                   /\ g[q] = f[q] + IF q \in G THEN 1 ELSE 0
  <2> SUFFICES ASSUME NEW q \in S
               PROVE  /\ l[q] \in Nat /\ f[q] \in Nat /\ g[q] \in Nat
                      /\ g[q] = f[q] + IF q \in G THEN 1 ELSE 0
    OBVIOUS
  <2>1. l[q] \in Nat
    BY <1>1
  <2>2. /\ PagesFor(l[q]) \in Nat
        /\ PagesFor(l[q] + 1)
             = PagesFor(l[q]) + IF l[q] % PageTokens = 0 THEN 1 ELSE 0
    BY <2>1, PagesRaised
  <2>3. f[q] = PagesFor(l[q])
    BY <1>3
  <2>4. CASE q \in Q
    <3>1. g[q] = PagesFor(l[q] + 1)
      BY <1>4, <2>4
    <3>2. q \in G <=> l[q] % PageTokens = 0
      BY <1>2, <2>4
    <3> QED BY <2>1, <2>2, <2>3, <3>1, <3>2
  <2>5. CASE q \notin Q
    <3>1. g[q] = PagesFor(l[q] + 0) /\ l[q] + 0 = l[q]
      BY <1>4, <2>5, <2>1
    <3>2. q \notin G
      BY <1>2, <2>5
    <3> QED BY <2>1, <2>2, <2>3, <3>1, <3>2
  <2> QED BY <2>4, <2>5
<1>7. SumFunctionOnSet(g, S) = SumFunctionOnSet(f, S) + Cardinality(G)
  <2>1. \A q \in S : f[q] \in Nat
    BY <1>6
  <2>2. \A q \in S : g[q] = f[q] + IF q \in G THEN 1 ELSE 0
    BY <1>6
  <2> QED BY <1>1, <2>1, <2>2, SumRaised
<1>8. /\ SumFunctionOnSet(g, D) <= SumFunctionOnSet(g, S)
      /\ SumFunctionOnSet(g, D) \in Nat /\ SumFunctionOnSet(f, S) \in Nat
      /\ SumFunctionOnSet(g, S) \in Nat
  <2>1. IsFiniteSet(S) /\ D \in SUBSET S
    BY <1>1
  <2>2. \A q \in S : g[q] \in Nat /\ f[q] \in Nat
    BY <1>6
  <2>3. IsFiniteSet(D) /\ \A q \in D : g[q] \in Nat
    BY <2>1, <2>2, FS_Subset
  <2> QED BY <2>1, <2>2, <2>3, SumOfPart, SumOfNaturals
<1>9. SumFunctionOnSet(h, D) = SumFunctionOnSet(g, D)
  <2>1. IsFiniteSet(D)
    BY FS_Subset
  <2>2. \A q \in D : g[q] \in Nat /\ h[q] = g[q]
    BY <1>1, <1>4, <1>5, <1>6
  <2> QED BY <2>1, <2>2, SumSame
<1>10. PagesOf(l) = SumFunctionOnSet(f, S)
  <2>1. PagesOf(l) = SumFunction(f)
    BY <1>1, <1>3 DEF PagesOf
  <2>2. DOMAIN f = S
    BY <1>3
  <2> QED BY <2>1, <2>2 DEF SumFunction
<1>11. PagesOf(m) = SumFunctionOnSet(h, D)
  <2>1. DOMAIN m = D
    OBVIOUS
  <2>2. PagesOf(m) = SumFunction(h)
    BY <2>1, <1>5 DEF PagesOf
  <2>3. DOMAIN h = D
    BY <1>5
  <2> QED BY <2>2, <2>3 DEF SumFunction
<1>12. Cardinality(G) \in Nat
  BY <1>1, FS_Subset, FS_CardinalityType
<1> QED BY <1>2, <1>7, <1>8, <1>9, <1>10, <1>11, <1>12

(* While a part of the rows has advanced, any other one still finds a page.*)
LEMMA NextRowFits ==
  ASSUME SchedulerAssumption, TypeSound, NEW rows, Batch(rows),
         NEW s \in SUBSET rows, NEW o \in [rows -> Outcomes],
         NEW x \in rows, x \notin s
  PROVE  Fits(LenAfter(s, o), {requests[x].sequence})
PROOF
<1>1. PICK q : q = requests[x].sequence
  OBVIOUS
<1>2. PICK Q : Q = SequencesOf(s)
  OBVIOUS
<1>3. PICK D : D = Live \ SequencesOf(Leaving(s, o))
  OBVIOUS
<1>4. PICK m : m = LenAfter(s, o)
  OBVIOUS
<1>5. /\ SequencesOf(rows) \subseteq Live /\ Fits(len, SequencesOf(rows))
      /\ \A i, j \in rows :
           requests[i].sequence = requests[j].sequence => i = j
      /\ q \in Live /\ len[q] < MaxSeqLen
  BY <1>1, BatchRows
<1>6. Q \subseteq SequencesOf(rows) /\ q \in SequencesOf(rows) /\ q \notin Q
      /\ SequencesOf(Leaving(s, o)) \subseteq Q
  BY <1>1, <1>2, <1>5 DEF SequencesOf, Leaving
<1>7. IsFiniteSet(Live) /\ len \in [Live -> Nat]
  <2>1. DOMAIN len \subseteq 1..next_id - 1 /\ next_id - 1 \in Nat
        /\ len \in [DOMAIN len -> Nat]
    BY DEF TypeSound
  <2>2. PICK k \in Nat : k = next_id - 1
    BY <2>1
  <2>3. IsFiniteSet(1..k)
    BY UpToFinite
  <2>4. DOMAIN len \in SUBSET (1..k)
    BY <2>1, <2>2
  <2>5. IsFiniteSet(DOMAIN len)
    BY <2>3, <2>4, FS_Subset
  <2> QED BY <2>1, <2>5 DEF Live
<1>8. m = [p \in D |-> len[p] + IF p \in Q THEN 1 ELSE 0]
  BY <1>2, <1>3, <1>4 DEF LenAfter
<1>9. q \in D /\ m[q] = len[q] /\ DOMAIN m = D
  BY <1>3, <1>5, <1>6, <1>7, <1>8
<1>10. PICK G : G = {p \in Q : len[p] % PageTokens = 0}
  OBVIOUS
<1>11. PICK F : F = {p \in SequencesOf(rows) : len[p] % PageTokens = 0}
  OBVIOUS
<1>12. /\ PagesOf(m) \in Nat /\ PagesOf(len) \in Nat
       /\ PagesOf(m) <= PagesOf(len) + Cardinality(G)
  <2>1. Q \in SUBSET DOMAIN len /\ D \in SUBSET DOMAIN len
        /\ IsFiniteSet(DOMAIN len) /\ len \in [DOMAIN len -> Nat]
    BY <1>3, <1>5, <1>6, <1>7 DEF Live
  <2> QED BY <1>8, <1>10, <2>1, PagesLater
<1>13. PagesOf(len) + Cardinality(F) <= KvPages
  BY <1>5, <1>11 DEF Fits
<1>14. PICK N : N = {p \in {q} : m[p] % PageTokens = 0}
  OBVIOUS
<1>15. N = {} \/ (N = {q} /\ q \in F)
  BY <1>6, <1>9, <1>11, <1>14
<1>16. G \subseteq F /\ q \notin G /\ IsFiniteSet(F) /\ IsFiniteSet(G)
  <2>1. G \subseteq F /\ q \notin G /\ F \subseteq Live
    BY <1>5, <1>6, <1>10, <1>11
  <2> QED BY <1>7, <2>1, FS_Subset
<1>17. Cardinality(G) \in Nat /\ Cardinality(F) \in Nat
  BY <1>16, FS_CardinalityType
<1>18. Cardinality(G) + Cardinality(N) <= Cardinality(F)
  <2>1. CASE N = {}
    <3>1. Cardinality(N) = 0
      BY <2>1, FS_EmptySet
    <3>2. Cardinality(G) <= Cardinality(F)
      BY <1>16, FS_Subset
    <3> QED BY <1>17, <3>1, <3>2
  <2>2. CASE N = {q} /\ q \in F
    <3>1. Cardinality(N) = 1
      BY <2>2, FS_Singleton
    <3>2. Cardinality(G \cup {q}) = Cardinality(G) + 1
      BY <1>16, FS_AddElement
    <3>3. G \cup {q} \in SUBSET F
      BY <1>16, <2>2
    <3>4. Cardinality(G \cup {q}) <= Cardinality(F)
      BY <1>16, <3>3, FS_Subset
    <3> QED BY <1>17, <3>1, <3>2, <3>4
  <2> QED BY <1>15, <2>1, <2>2
<1>19. Cardinality(N) \in Nat
  <2>1. IsFiniteSet({q})
    BY FS_Singleton
  <2>2. N \in SUBSET {q}
    BY <1>14
  <2> QED BY <2>1, <2>2, FS_Subset, FS_CardinalityType
<1>20. KvPages \in Nat
  BY DEF SchedulerAssumption
<1>21. PagesOf(m) + Cardinality(N) <= KvPages
  BY <1>12, <1>13, <1>17, <1>18, <1>19, <1>20
<1> QED BY <1>1, <1>4, <1>5, <1>9, <1>14, <1>21 DEF Fits

(* The single advance of one more row leaves what that row and the ones    *)
(* before it leave.                                                        *)
LEMMA OneRowMore ==
  ASSUME SchedulerAssumption, TypeSound, NEW rows, Batch(rows),
         NEW s \in SUBSET rows, NEW o \in [rows -> Outcomes],
         NEW x \in rows, x \notin s
  PROVE  AdvanceOne(After(s, o), x, o[x]) = After(s \cup {x}, o)
PROOF
<1>1. PICK w : w = After(s, o)
  OBVIOUS
<1>2. PICK r, n, q : /\ r = requests[x] /\ n = Row(x, o[x])
                     /\ q = requests[x].sequence
  OBVIOUS
<1>3. PICK u : u = s \cup {x}
  OBVIOUS
<1>4. /\ w.len = LenAfter(s, o) /\ w.requests = RequestsAfter(s, o)
      /\ w.stats = StatsAfter(s) /\ w.fatal = FALSE
  BY <1>1 DEF After
<1>5. /\ rows \subseteq Alive /\ IsFiniteSet(rows)
      /\ \A id \in rows : ~Prefilling(requests[id]) /\ o[id] \in Outcomes
  BY DEF Batch
<1>6. \A id \in rows :
        /\ Row(id, o[id]).sequence = requests[id].sequence
        /\ SessionBound(Row(id, o[id])) = SessionBound(requests[id])
        /\ Pending(requests[id]) \/ Prefilling(requests[id])
        /\ ~Terminal(requests[id]) /\ id \in DOMAIN requests
  BY <1>5, RowSound
<1>7. /\ n.sequence = q /\ SessionBound(n) = SessionBound(r)
      /\ ~Prefilling(r) /\ Pending(r) /\ ~Terminal(r) /\ x \in DOMAIN requests
  BY <1>2, <1>5, <1>6
<1>8. w.requests[x] = r
  BY <1>2, <1>4, <1>7 DEF RequestsAfter
<1>9. Fits(w.len, {r.sequence})
  BY <1>2, <1>4, NextRowFits
<1>10. PICK f : f = [i \in {x} |-> n]
  OBVIOUS
<1>11. AdvanceOne(w, x, o[x]) = Settled(Longer(Counted(w, 1, 1, 0, 0), {x}), f)
  BY <1>2, <1>7, <1>8, <1>9, <1>10 DEF AdvanceOne, Row
<1>12. PICK l, rq, c : /\ l = Lengthened(LenAfter(s, o), {q})
                       /\ rq = RequestsAfter(s, o) /\ c = StatsAfter(u)
  OBVIOUS
<1>13. Longer(Counted(w, 1, 1, 0, 0), {x})
         = [len |-> l, requests |-> rq, stats |-> c, fatal |-> FALSE]
  <2>1. PICK d : d = [single |-> w.stats.single + 1,
                      successful |-> w.stats.successful + 1,
                      batch |-> w.stats.batch + 0,
                      batched |-> w.stats.batched + 0]
    OBVIOUS
  <2>2. d = c
    <3>1. Cardinality(u) = Cardinality(s) + 1 /\ Cardinality(s) \in Nat
      <4>1. IsFiniteSet(s)
        BY <1>5, FS_Subset
      <4> QED BY <1>3, <4>1, FS_AddElement, FS_CardinalityType
    <3>2. stats \in Stats
      BY DEF TypeSound
    <3>3. /\ w.stats.single = stats.single + Cardinality(s)
          /\ w.stats.successful = stats.successful + Cardinality(s)
          /\ w.stats.batch = stats.batch /\ w.stats.batched = stats.batched
      BY <1>4 DEF StatsAfter
    <3>4. /\ w.stats.single + 1 = stats.single + Cardinality(u)
          /\ w.stats.successful + 1 = stats.successful + Cardinality(u)
          /\ w.stats.batch + 0 = stats.batch
          /\ w.stats.batched + 0 = stats.batched
      BY <3>1, <3>2, <3>3 DEF Stats
    <3> QED BY <1>12, <2>1, <3>4 DEF StatsAfter
  <2>3. PICK v : v = [len |-> LenAfter(s, o), requests |-> rq, stats |-> d,
                      fatal |-> FALSE]
    OBVIOUS
  <2>4. Counted(w, 1, 1, 0, 0) = v
    <3>1. Counted(w, 1, 1, 0, 0) = [w EXCEPT !.stats = d]
      BY <2>1 DEF Counted
    <3>2. PICK y : y = [w EXCEPT !.stats = d]
      OBVIOUS
    <3>3. /\ DOMAIN w = {"len", "requests", "stats", "fatal"}
          /\ w["len"] = LenAfter(s, o) /\ w["requests"] = rq
          /\ w["fatal"] = FALSE
      BY <1>1, <1>12 DEF After
    <3>4. /\ DOMAIN y = {"len", "requests", "stats", "fatal"}
          /\ y = [i \in DOMAIN y |-> y[i]]
          /\ y["len"] = LenAfter(s, o) /\ y["requests"] = rq
          /\ y["stats"] = d /\ y["fatal"] = FALSE
      BY <3>2, <3>3
    <3>5. /\ DOMAIN v = {"len", "requests", "stats", "fatal"}
          /\ v = [i \in DOMAIN v |-> v[i]]
          /\ v["len"] = LenAfter(s, o) /\ v["requests"] = rq
          /\ v["stats"] = d /\ v["fatal"] = FALSE
      BY <2>3
    <3>6. y = v
      BY <3>4, <3>5
    <3> QED BY <3>1, <3>2, <3>6
  <2>5. v.requests[x] = r /\ v.len = LenAfter(s, o)
    BY <1>4, <1>8, <1>12, <2>3
  <2>6. {v.requests[i].sequence : i \in {x}} = {q}
    BY <1>2, <2>5
  <2>7. Longer(v, {x}) = [v EXCEPT !.len = l]
    BY <1>12, <2>5, <2>6 DEF Longer
  <2>8. [v EXCEPT !.len = l]
          = [len |-> l, requests |-> rq, stats |-> d, fatal |-> FALSE]
    <3>1. PICK y, z : /\ y = [v EXCEPT !.len = l]
                      /\ z = [len |-> l, requests |-> rq, stats |-> d,
                              fatal |-> FALSE]
      OBVIOUS
    <3>2. /\ DOMAIN v = {"len", "requests", "stats", "fatal"}
          /\ v["requests"] = rq /\ v["stats"] = d /\ v["fatal"] = FALSE
      BY <2>3
    <3>3. /\ DOMAIN y = {"len", "requests", "stats", "fatal"}
          /\ y = [i \in DOMAIN y |-> y[i]]
          /\ y["len"] = l /\ y["requests"] = rq
          /\ y["stats"] = d /\ y["fatal"] = FALSE
      BY <3>1, <3>2
    <3>4. /\ DOMAIN z = {"len", "requests", "stats", "fatal"}
          /\ z = [i \in DOMAIN z |-> z[i]]
          /\ z["len"] = l /\ z["requests"] = rq
          /\ z["stats"] = d /\ z["fatal"] = FALSE
      BY <3>1
    <3> QED BY <3>1, <3>3, <3>4
  <2> QED BY <2>2, <2>4, <2>7, <2>8
<1>14. PICK gone : gone = IF Terminal(n) /\ ~SessionBound(n) THEN {q} ELSE {}
  OBVIOUS
<1>15. \A p : p \in gone <=>
         \E i \in DOMAIN f : /\ Terminal(f[i]) /\ ~Terminal(rq[i])
                             /\ ~SessionBound(f[i]) /\ p = f[i].sequence
  <2>1. DOMAIN f = {x} /\ f[x] = n /\ rq[x] = r
    BY <1>4, <1>8, <1>10, <1>12
  <2> QED BY <1>7, <1>14, <2>1
<1>16. q \in DOMAIN LenAfter(s, o)
  BY <1>2, <1>4, <1>9 DEF Fits
<1>17. DOMAIN l = DOMAIN LenAfter(s, o) /\ gone \subseteq DOMAIN l
  BY <1>12, <1>14, <1>16 DEF Lengthened
<1>18. AdvanceOne(w, x, o[x])
         = [len |-> Restrict(l, DOMAIN l \ gone),
            requests |-> [id \in DOMAIN rq |-> IF id \in DOMAIN f THEN f[id]
                                               ELSE rq[id]],
            stats |-> c, fatal |-> FALSE]
  <2>1. PICK v : v = [len |-> l, requests |-> rq, stats |-> c,
                      fatal |-> FALSE]
    OBVIOUS
  <2>2. SettledAs(v, f, l, rq, c, gone)
    BY <1>15, <1>17, <2>1, SettledLeaves
  <2> QED BY <1>11, <1>13, <2>1, <2>2 DEF SettledAs
<1>19. [id \in DOMAIN rq |-> IF id \in DOMAIN f THEN f[id] ELSE rq[id]]
         = RequestsAfter(u, o)
  <2>1. rq = [id \in DOMAIN requests |-> IF id \in s THEN Row(id, o[id])
                                         ELSE requests[id]]
    BY <1>12 DEF RequestsAfter
  <2>2. DOMAIN rq = DOMAIN requests
    BY <2>1
  <2>3. ASSUME NEW id \in DOMAIN requests
        PROVE  (IF id \in DOMAIN f THEN f[id] ELSE rq[id])
                 = IF id \in u THEN Row(id, o[id]) ELSE requests[id]
    BY <1>2, <1>3, <1>10, <2>1, <2>3
  <2> QED BY <2>2, <2>3 DEF RequestsAfter
<1>20. Restrict(l, DOMAIN l \ gone) = LenAfter(u, o)
  <2>1. Leaving(u, o) = Leaving(s, o)
                          \cup IF Terminal(n) /\ ~SessionBound(n) THEN {x} ELSE {}
    BY <1>2, <1>3, <1>7 DEF Leaving
  <2>2. SequencesOf(Leaving(u, o)) = SequencesOf(Leaving(s, o)) \cup gone
    BY <1>2, <1>14, <2>1 DEF SequencesOf
  <2>3. SequencesOf(u) = SequencesOf(s) \cup {q}
    BY <1>2, <1>3 DEF SequencesOf
  <2>4. q \notin SequencesOf(s)
    <3>1. \A i, j \in rows :
            requests[i].sequence = requests[j].sequence => i = j
      BY BatchRows
    <3> QED BY <1>2, <3>1 DEF SequencesOf
  <2>5. \A p \in Live : len[p] \in Nat
    BY DEF TypeSound, Live
  <2>6. PICK D : D = Live \ SequencesOf(Leaving(s, o))
    OBVIOUS
  <2>7. DOMAIN LenAfter(s, o) = D
    BY <2>6 DEF LenAfter
  <2>8. PICK E : E = D \ gone
    OBVIOUS
  <2>9. E = Live \ SequencesOf(Leaving(u, o))
    BY <2>2, <2>6, <2>8
  <2>10. \A p \in D : l[p] = len[p] + IF p \in SequencesOf(u) THEN 1 ELSE 0
    <3> SUFFICES ASSUME NEW p \in D
                 PROVE  l[p] = len[p] + IF p \in SequencesOf(u) THEN 1 ELSE 0
      OBVIOUS
    <3>1. l[p] = LenAfter(s, o)[p] + IF p \in {q} THEN 1 ELSE 0
      BY <1>12, <2>7 DEF Lengthened
    <3>2. LenAfter(s, o)[p] = len[p] + IF p \in SequencesOf(s) THEN 1 ELSE 0
      BY <2>6 DEF LenAfter
    <3>3. len[p] \in Nat
      BY <2>5, <2>6
    <3> QED BY <2>3, <2>4, <3>1, <3>2, <3>3
  <2>11. Restrict(l, DOMAIN l \ gone) = [p \in E |-> l[p]]
    BY <1>17, <2>7, <2>8 DEF Restrict
  <2>12. [p \in E |-> l[p]]
           = [p \in E |-> len[p] + IF p \in SequencesOf(u) THEN 1 ELSE 0]
    BY <2>8, <2>10
  <2> QED BY <2>9, <2>11, <2>12 DEF LenAfter
<1> QED BY <1>1, <1>3, <1>12, <1>18, <1>19, <1>20 DEF After

(* The recursion of the serial fold: the largest row advances last.        *)
Advancing(rows, o, it) ==
  it = [s \in SUBSET rows |->
          IF s = {} THEN World
          ELSE AdvanceOne(it[s \ {Max(s)}], Max(s), o[Max(s)])]

(* A set of numbers has its largest one in it.                             *)
LEMMA MaxWithin ==
  ASSUME NEW S \in SUBSET Nat, IsFiniteSet(S), S # {}
  PROVE  Max(S) \in S
PROOF
<1>1. \E x \in S : \A y \in S : x >= y
  BY LargestNat
<1> QED BY <1>1 DEF Max

(* Before any row has advanced.                                            *)
LEMMA NoRowYet ==
  ASSUME TypeSound, NeverFatal, NEW o
  PROVE  After({}, o) = World
PROOF
<1>1. Leaving({}, o) = {} /\ SequencesOf({}) = {}
  BY DEF Leaving, SequencesOf
<1>2. LenAfter({}, o) = len
  <2>1. /\ len = [q \in Live |-> len[q]]
        /\ \A q \in Live : len[q] + 0 = len[q]
    BY DEF TypeSound, Live
  <2>2. [q \in Live |-> len[q] + IF q \in {} THEN 1 ELSE 0]
          = [q \in Live |-> len[q]]
    BY <2>1
  <2>3. Live \ {} = Live
    OBVIOUS
  <2> QED BY <1>1, <2>1, <2>2, <2>3 DEF LenAfter
<1>3. RequestsAfter({}, o) = requests
  BY DEF RequestsAfter, TypeSound
<1>4. StatsAfter({}) = stats
  <2>1. Cardinality({}) = 0
    BY FS_EmptySet
  <2>2. stats \in Stats
    BY DEF TypeSound
  <2>3. stats.single + 0 = stats.single /\ stats.successful + 0 = stats.successful
    BY <2>2 DEF Stats
  <2>4. StatsAfter({}) = [single |-> stats.single,
                          successful |-> stats.successful,
                          batch |-> stats.batch, batched |-> stats.batched]
    BY <2>1, <2>3 DEF StatsAfter
  <2> QED BY <2>2, <2>4 DEF Stats
<1>5. fatal = FALSE
  BY DEF NeverFatal, TypeSound
<1> QED BY <1>2, <1>3, <1>4, <1>5 DEF After, World

(* The single advances of all rows, in ascending order, leave what the     *)
(* rows leave.                                                             *)
LEMMA SerialLeaves ==
  ASSUME SchedulerAssumption, TypeSound, NeverFatal, NEW rows, Batch(rows),
         NEW o \in [rows -> Outcomes]
  PROVE  SerialAdvance(World, rows, o) = After(rows, o)
PROOF
<1>1. IsFiniteSet(rows) /\ rows \in SUBSET Nat
  <2>1. rows \subseteq DOMAIN requests
    BY DEF Batch, Alive
  <2>2. DOMAIN requests \subseteq Nat
    BY DEF TypeSound
  <2> QED BY <2>1, <2>2 DEF Batch
<1>2. \A s \in SUBSET rows : s # {} => Max(s) \in s
  BY <1>1, MaxWithin, FS_Subset
<1>3. PICK all : all = [s \in SUBSET rows |-> After(s, o)]
  OBVIOUS
<1>4. Advancing(rows, o, all)
  <2>1. ASSUME NEW s \in SUBSET rows
        PROVE  After(s, o)
                 = IF s = {} THEN World
                   ELSE AdvanceOne(all[s \ {Max(s)}], Max(s), o[Max(s)])
    <3>1. CASE s = {}
      BY <3>1, NoRowYet
    <3>2. CASE s # {}
      <4>1. PICK x \in rows : x = Max(s) /\ x \in s
        BY <1>2, <3>2
      <4>2. PICK t \in SUBSET rows : t = s \ {x}
        OBVIOUS
      <4>3. all[t] = After(t, o) /\ x \notin t /\ t \cup {x} = s
        BY <1>3, <4>1, <4>2
      <4>4. AdvanceOne(After(t, o), x, o[x]) = After(t \cup {x}, o)
        BY <4>3, OneRowMore
      <4> QED BY <3>2, <4>1, <4>2, <4>3, <4>4
    <3> QED BY <3>1, <3>2
  <2> QED BY <1>3, <2>1 DEF Advancing
<1>5. PICK it : it = CHOOSE g : Advancing(rows, o, g)
  OBVIOUS
<1>6. Advancing(rows, o, it)
  BY <1>4, <1>5
<1>7. SerialAdvance(World, rows, o) = it[rows]
  BY <1>5 DEF SerialAdvance, MapThenFoldSet, Advancing
<1>8. \A s \in SUBSET rows : it[s] = After(s, o)
  <2> DEFINE Bad == {s \in SUBSET rows : it[s] # After(s, o)}
  <2> SUFFICES ASSUME Bad # {} PROVE FALSE
    OBVIOUS
  <2>1. Bad \in SUBSET (SUBSET rows)
    OBVIOUS
  <2> HIDE DEF Bad
  <2>2. PICK s \in Bad : \A u \in Bad : u \subseteq s => u = s
    <3>1. PICK K : K = rows
      OBVIOUS
    <3>2. IsFiniteSet(K) /\ Bad \in SUBSET (SUBSET K) /\ Bad # {}
      BY <1>1, <2>1, <3>1
    <3> QED BY <3>2, SmallestSet
  <2>3. s \in SUBSET rows /\ it[s] # After(s, o)
    BY <2>2 DEF Bad
  <2>4. s # {}
    <3>1. it[{}] = World
      BY <1>6 DEF Advancing
    <3> QED BY <2>3, <3>1, NoRowYet
  <2>5. PICK x \in rows : x = Max(s) /\ x \in s
    BY <1>2, <2>3, <2>4
  <2>6. PICK t \in SUBSET rows : t = s \ {x}
    BY <2>3
  <2>7. it[s] = AdvanceOne(it[t], x, o[x])
    BY <1>6, <2>3, <2>4, <2>5, <2>6 DEF Advancing
  <2>8. it[t] = After(t, o)
    BY <2>2, <2>5, <2>6 DEF Bad
  <2>9. AdvanceOne(After(t, o), x, o[x]) = After(t \cup {x}, o)
    BY <2>5, <2>6, OneRowMore
  <2>10. t \cup {x} = s
    BY <2>5, <2>6
  <2> QED BY <2>3, <2>7, <2>8, <2>9, <2>10
<1> QED BY <1>7, <1>8

(* The forward of the whole batch, and what follows from it, leave what    *)
(* the rows leave; only the forward calls are counted otherwise.           *)
LEMMA BatchLeaves ==
  ASSUME TypeSound, NeverFatal, NEW rows, Batch(rows),
         NEW o \in [rows -> Outcomes], NEW w, w = BatchedAdvance(World, rows, o)
  PROVE  /\ w.len = LenAfter(rows, o) /\ w.requests = RequestsAfter(rows, o)
         /\ w.fatal = FALSE
PROOF
<1>1. /\ rows \in SUBSET Alive /\ IsFiniteSet(rows)
      /\ \A id \in rows : ~Prefilling(requests[id]) /\ o[id] \in Outcomes
  BY DEF Batch
<1>2. PICK n \in Nat : n = Cardinality(rows)
  BY <1>1, FS_CardinalityType
<1>3. PICK c \in Stats : CountedAs(c, 0, 0, 1, n)
  BY CountedWorld
<1>4. PICK committed :
        committed = [id \in rows |-> Committed(Forwarded(requests[id]))]
  OBVIOUS
<1>5. PICK f : f = [id \in rows |-> SampledNext(committed[id], o[id])]
  OBVIOUS
<1>6. w = Settled(Longer(Counted(World, 0, 0, 1, n), rows), f)
  <2>1. World.requests = requests
    BY DEF World
  <2> QED BY <1>2, <1>4, <1>5, <2>1 DEF BatchedAdvance
<1>7. PICK l : l = Lengthened(len, SequencesOf(rows))
  OBVIOUS
<1>8. PICK v : v = [len |-> l, requests |-> requests, stats |-> c,
                    fatal |-> FALSE]
  OBVIOUS
<1>9. w = Settled(v, f)
  BY <1>3, <1>6, <1>7, <1>8 DEF CountedAs
<1>10. ASSUME NEW id \in rows PROVE f[id] = Row(id, o[id])
  <2>1. committed[id] = Decoded(requests[id])
    BY <1>1, <1>4 DEF Decoded
  <2> QED BY <1>5, <2>1 DEF Row
<1>11. \A id \in rows :
         /\ Row(id, o[id]).sequence = requests[id].sequence
         /\ SessionBound(Row(id, o[id])) = SessionBound(requests[id])
         /\ ~Terminal(requests[id])
  BY <1>1, RowSound
<1>12. PICK gone : gone = SequencesOf(Leaving(rows, o))
  OBVIOUS
<1>13. DOMAIN f = rows
  BY <1>5
<1>14. \A p : p \in gone <=>
         \E i \in DOMAIN f : /\ Terminal(f[i]) /\ ~Terminal(requests[i])
                             /\ ~SessionBound(f[i]) /\ p = f[i].sequence
  BY <1>10, <1>11, <1>12, <1>13 DEF SequencesOf, Leaving
<1>15. DOMAIN l = Live /\ gone \subseteq Live
  <2>1. gone \subseteq SequencesOf(rows)
    BY <1>12 DEF SequencesOf, Leaving
  <2>2. SequencesOf(rows) \subseteq Live
    BY BatchRows
  <2> QED BY <1>7, <2>1, <2>2 DEF Lengthened, Live
<1>16. SettledAs(v, f, l, requests, c, gone)
  BY <1>8, <1>14, <1>15, SettledLeaves
<1>17. /\ w.len = Restrict(l, Live \ gone) /\ w.fatal = FALSE
       /\ w.requests = [id \in DOMAIN requests |-> IF id \in DOMAIN f THEN f[id]
                                                   ELSE requests[id]]
  BY <1>9, <1>15, <1>16 DEF SettledAs
<1>18. w.requests = RequestsAfter(rows, o)
  BY <1>10, <1>13, <1>17 DEF RequestsAfter
<1>19. w.len = LenAfter(rows, o)
  <2>1. Restrict(l, Live \ gone) = [q \in Live \ gone |-> l[q]]
    BY DEF Restrict
  <2>2. \A q \in Live : l[q] = len[q] + IF q \in SequencesOf(rows) THEN 1 ELSE 0
    BY <1>7 DEF Lengthened, Live
  <2> QED BY <1>12, <1>17, <2>1, <2>2 DEF LenAfter
<1> QED BY <1>17, <1>18, <1>19

(* BatchIsSerial in every state that is safe.                              *)
LEMMA SafeIsSerial == Safe => BatchIsSerial
PROOF
<1> SUFFICES ASSUME Safe, Cardinality(Cohort) >= 2, BatchFits(World, Cohort),
                    NEW o \in [Cohort -> Outcomes]
             PROVE  /\ BatchedAdvance(World, Cohort, o).len
                         = SerialAdvance(World, Cohort, o).len
                    /\ BatchedAdvance(World, Cohort, o).requests
                         = SerialAdvance(World, Cohort, o).requests
                    /\ BatchedAdvance(World, Cohort, o).fatal
                         = SerialAdvance(World, Cohort, o).fatal
  BY DEF BatchIsSerial
<1>1. TypeSound /\ NeverFatal
  BY DEF Safe
<1>2. PICK rows : rows = Cohort
  OBVIOUS
<1>3. Batch(rows) /\ o \in [rows -> Outcomes]
  BY <1>1, <1>2, CohortReady DEF Batch
<1>4. PICK w : w = BatchedAdvance(World, rows, o)
  OBVIOUS
<1>5. /\ w.len = LenAfter(rows, o) /\ w.requests = RequestsAfter(rows, o)
      /\ w.fatal = FALSE
  BY <1>1, <1>3, <1>4, BatchLeaves
<1>6. SerialAdvance(World, rows, o) = After(rows, o)
  BY <1>1, <1>3, SchedulerAssumption, SerialLeaves
<1>7. PICK x : x = After(rows, o)
  OBVIOUS
<1>8. /\ x.len = LenAfter(rows, o) /\ x.requests = RequestsAfter(rows, o)
      /\ x.fatal = FALSE
  BY <1>7 DEF After
<1> QED BY <1>2, <1>4, <1>5, <1>6, <1>7, <1>8

(* A batched step leaves exactly what the serial steps of its rows would   *)
(* leave, whatever is sampled and whichever copies or samplings fail.      *)
THEOREM SchedulerBatches == Spec => []BatchIsSerial
PROOF
<1> QED BY SafeIsSerial, SchedulerIsSafe, PTL
=============================================================================
