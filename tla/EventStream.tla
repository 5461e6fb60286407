----------------------------- MODULE EventStream ------------------------------
(***************************************************************************)
(* What a caller of the serving controller is promised of each request's   *)
(* events, whichever of poll, step_stream and run_stream it draws them     *)
(* with: the committed tokens, each once and in order, then one terminal   *)
(* event, and never a token before it is committed.  run() may drop what   *)
(* is left of a request that has ended, and nothing follows then.          *)
(***************************************************************************)
EXTENDS Naturals, Sequences, SequencesExt

VARIABLES
  committed,           \* request -> number of committed tokens
  ended,               \* request -> how it ended, "no" while it is live
  log,                 \* request -> the events its callers got
  dropped              \* the requests whose remaining events were dropped

vars == <<committed, ended, log, dropped>>

Token(i) == <<"token", i>>
Terminal(status, exceeded) == <<"end", status, exceeded>>

(* All events of a request so far; a terminal event may report a deadline  *)
(* only of a request that was cancelled.                                   *)
Streams(n, status) ==
  LET tokens == [i \in 1..n |-> Token(i)]
  IN  IF status = "no" THEN {tokens}
      ELSE {Append(tokens, Terminal(status, x)) :
              x \in {FALSE} \cup {y \in {TRUE} : status = "Cancelled"}}

Closed(id) == \/ id \in dropped
              \/ log[id] # <<>> /\ Last(log[id])[1] = "end"

Init == committed = <<>> /\ ended = <<>> /\ log = <<>> /\ dropped = {}

(* Requests begin, commit tokens and end; a request that has ended stays   *)
(* as it is.                                                               *)
Progress ==
  /\ DOMAIN committed \subseteq DOMAIN committed'
  /\ DOMAIN ended' = DOMAIN committed'
  /\ \A id \in DOMAIN committed :
       /\ committed'[id] >= committed[id]
       /\ ended[id] # "no" => /\ committed'[id] = committed[id]
                              /\ ended'[id] = ended[id]

(* Callers get further events of what there is now.                        *)
Deliver ==
  /\ DOMAIN log' = DOMAIN committed'
  /\ dropped \subseteq dropped'
  /\ \A id \in DOMAIN committed' :
       /\ \E s \in Streams(committed'[id], ended'[id]) : IsPrefix(log'[id], s)
       /\ id \in DOMAIN log => IsPrefix(log[id], log'[id])
  /\ \A id \in DOMAIN log : Closed(id) => log'[id] = log[id]
  /\ \A id \in dropped' \ dropped : ended'[id] # "no"

Next == Progress /\ Deliver

Spec == Init /\ [][Next]_vars
=============================================================================
