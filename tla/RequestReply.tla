------------------------------ MODULE RequestReply ------------------------------
(***************************************************************************)
(* What a request/reply channel promises: a request is executed once at    *)
(* most, and only if it was made; it is settled once; it is answered only  *)
(* by its own execution, run to its end; and an execution is told to stop  *)
(* only when nobody waits for it, or when the channel is gone.  Several    *)
(* requests may move in one step.                                          *)
(***************************************************************************)
CONSTANT Request

VARIABLES
  outcome,  \* "new", "pending", or how the request was settled
  work,     \* its execution: "none", "running", "stopped" (told to), "done" or "abandoned"
  cut       \* is the channel gone?

replyVars == <<outcome, work, cut>>

GivenUp == {"cancelled", "lost"}
Outcome == {"new", "pending", "answered"} \cup GivenUp
Work == {"none", "running", "stopped", "done", "abandoned"}

ReplyInit ==
  /\ outcome = [r \in Request |-> "new"]
  /\ work = [r \in Request |-> "none"]
  /\ cut = FALSE

\* The caller makes the request, gives it up (lost, if the channel is gone), or has its answer.
Made(r) == outcome[r] = "new" /\ outcome'[r] = "pending"
Dropped(r) ==
  /\ outcome[r] \in {"new", "pending"} /\ outcome'[r] \in GivenUp
  /\ outcome'[r] = "lost" => cut'
Answered(r) == outcome[r] = "pending" /\ work[r] = "done" /\ outcome'[r] = "answered"

Started(r) == outcome[r] # "new" /\ work[r] = "none" /\ work'[r] = "running"
Stopped(r) ==
  /\ work[r] = "running" /\ work'[r] = "stopped"
  /\ outcome[r] \in GivenUp \/ cut
Ended(r) ==
  \/ work[r] = "running" /\ work'[r] = "done"
  \/ work[r] = "stopped" /\ work'[r] = "abandoned"

ReplyNext ==
  /\ cut' \in {cut, TRUE}
  /\ outcome' \in [Request -> Outcome] /\ work' \in [Request -> Work]
  /\ \A r \in Request :
       /\ outcome'[r] = outcome[r] \/ Made(r) \/ Dropped(r) \/ Answered(r)
       /\ work'[r] = work[r] \/ Started(r) \/ Stopped(r) \/ Ended(r)

ReplySpec == ReplyInit /\ [][ReplyNext]_replyVars

=============================================================================
