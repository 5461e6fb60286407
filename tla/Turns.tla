-------------------------------- MODULE Turns --------------------------------
(***************************************************************************)
(* What the scheduler promises to the layers above it about the turns of   *)
(* sessions: a live turn forwards one token at a time, first its inputs    *)
(* and then what it generates, each generated token is committed when it   *)
(* is forwarded, and a turn ends once.  Which requests share a batch, and  *)
(* why a forward fails, is not visible here.                               *)
(***************************************************************************)
EXTENDS Naturals, Functions

VARIABLES
  sessions,            \* the live session ids
  turns                \* request id -> Turn, never erased

vars == <<sessions, turns>>

NewTurn(s, n, m) == [session |-> s, prompt |-> n, left |-> n, max_new |-> m,
                     committed |-> 0, status |-> "Live"]

Ended(t) == t.status # "Live"
LiveTurns(ts) == {id \in DOMAIN ts : ~Ended(ts[id])}

End(t, status) == [t EXCEPT !.status = status]

(* After the last input: a turn that generates nothing is over, any other  *)
(* samples its first token, or fails to.                                   *)
AfterInput(t) ==
  LET u == [t EXCEPT !.left = @ - 1]
  IN  CASE u.left > 0 -> {u}
        [] u.left = 0 /\ u.max_new = 0 -> {End(u, "Finished")}
        [] u.left = 0 /\ u.max_new > 0 -> {u, End(u, "Failed")}

(* After a commit: the token was the EOS or the last one, or the next one  *)
(* is sampled, or fails to be.                                             *)
AfterCommit(t) ==
  LET u == [t EXCEPT !.committed = @ + 1]
  IN  {End(u, "Finished")}
        \cup IF u.committed < u.max_new THEN {u, End(u, "Failed")} ELSE {}

(* The outcomes of one forward of a live turn; it fails if it cannot be    *)
(* done, in particular when the session is gone.                           *)
Outcomes(t, live) ==
  {End(t, "Failed")}
    \cup CASE t.session \notin live -> {}
           [] t.session \in live /\ t.left > 0 -> AfterInput(t)
           [] t.session \in live /\ t.left = 0 -> AfterCommit(t)

-----------------------------------------------------------------------------
Init == sessions = {} /\ turns = <<>>

(* A session begins or ends; its turns are told by their next forward.     *)
Sessions == /\ \/ \E s \in sessions' : sessions = sessions' \ {s}
               \/ \E s \in sessions : sessions' = sessions \ {s}
            /\ UNCHANGED turns

(* A session has one live turn at most.                                    *)
Admit == LET id == CHOOSE i \in DOMAIN turns' : i \notin DOMAIN turns
         IN  /\ turns = Restrict(turns', DOMAIN turns' \ {id})
             /\ turns'[id].session \in sessions
             /\ \A i \in LiveTurns(turns) :
                  turns[i].session # turns'[id].session
             /\ turns'[id] = NewTurn(turns'[id].session, turns'[id].prompt,
                                     turns'[id].max_new)
             /\ UNCHANGED sessions

Cancel(id) == /\ id \in LiveTurns(turns)
              /\ turns' = [turns EXCEPT ![id] = End(@, "Cancelled")]
              /\ UNCHANGED sessions

(* Some live turns advance, each by one forward.                           *)
Advance == /\ DOMAIN turns' = DOMAIN turns
           /\ \A id \in DOMAIN turns : turns'[id] # turns[id] =>
                /\ id \in LiveTurns(turns)
                /\ turns'[id] \in Outcomes(turns[id], sessions)
           /\ UNCHANGED sessions

Next == Sessions \/ (DOMAIN turns' # DOMAIN turns /\ Admit)
          \/ (\E id \in DOMAIN turns : Cancel(id)) \/ Advance

Spec == Init /\ [][Next]_vars
=============================================================================
