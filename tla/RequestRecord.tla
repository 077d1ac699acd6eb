--------------------------- MODULE RequestRecord ----------------------------
(***************************************************************************)
(* What GET /v1/requests/{id} promises to the sender who polls one         *)
(* request: the columns status and result of its row.  There is no agent,  *)
(* no socket and no frame here, and no time but the order of the writes.   *)
(*                                                                         *)
(* RequestLifecycle implements this specification for each request.        *)
(***************************************************************************)
VARIABLES
    status,    \* requests.status; "absent": a poll gets 404
    answer,    \* requests.result; "none" while there is none
    submitting \* has the POST not been responded to, nor given up?

vars == <<status, answer, submitting>>

Init ==
    /\ status = "absent"
    /\ answer = "none"
    /\ submitting

\* The POST has passed every check: the row appears.
Create ==
    /\ submitting
    /\ status = "absent"
    /\ status' = "pending"
    /\ UNCHANGED <<answer, submitting>>

\* The POST ends, and writes where it has got: over whatever the agent has
\* made of the row by then, an acknowledgement or a final status.
Conclude ==
    /\ submitting
    /\ status # "absent"
    /\ status' \in {"dispatched", "timeout"}
    /\ ~submitting'
    /\ UNCHANGED answer

\* The POST ends and writes nothing: it is refused, or fails.
GiveUp ==
    /\ submitting
    /\ ~submitting'
    /\ UNCHANGED <<status, answer>>

\* The agent acknowledges: never after its answer.
Acknowledge ==
    /\ status # "absent"
    /\ answer = "none"
    /\ status' = "acked"
    /\ UNCHANGED <<answer, submitting>>

\* The agent answers once, and the outcome is written with the answer.
Conclusion(a) == IF a = "completed" THEN "completed" ELSE "rejected"

AnswerOnce(a) ==
    /\ status # "absent"
    /\ answer = "none"
    /\ answer' = a
    /\ status' = Conclusion(a)
    /\ UNCHANGED submitting

\* What nobody has acknowledged expires; what is acknowledged does not.
Expire ==
    /\ status \in {"pending", "dispatched"}
    /\ status' = "timeout"
    /\ UNCHANGED <<answer, submitting>>

Next ==
    \/ Create \/ Conclude \/ GiveUp
    \/ Acknowledge \/ (\E a \in {"completed", "error"} : AnswerOnce(a))
    \/ Expire

Spec == Init /\ [][Next]_vars
=============================================================================
