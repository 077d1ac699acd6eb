-------------------------- MODULE RequestLifecycle --------------------------
(***************************************************************************)
(* The life of the requests sent to one agent: submit_request in           *)
(* routes/requests.py, the rows kept by services/request_tracker.py, the   *)
(* "ack" and "action.result" branches of routes/agent_ws.py, and the agent *)
(* program of agent_sdk/client.py at the other end of the WebSocket.       *)
(*                                                                         *)
(* A request is handled by three tasks that never synchronise: the HTTP    *)
(* handler that submits it, the agent, and the WebSocket handler that      *)
(* records what the agent answers.  The HTTP handler and the WebSocket     *)
(* handler both write the column requests.status.                          *)
(*                                                                         *)
(* How sockets come to be registered is the subject of AgentChannel, which *)
(* implements the specification Presence; here the registration and the    *)
(* links change by the steps of Presence, whichever they are.              *)
(***************************************************************************)
EXTENDS Naturals, Sequences

CONSTANTS
    Requests,    \* every POST of a behaviour, each handled once
    Sockets,     \* every WebSocket of the agent, each opened once
    NoSocket,    \* "not registered", or no socket looked up
    NoRequest,   \* the agent is between two requests
    SweeperRuns, \* does anything call expire_stale_requests?
    Faults       \* may the database refuse a write, and the process restart?

ASSUME NoSocketAssumption == NoSocket \notin Sockets
ASSUME NoRequestAssumption == NoRequest \notin Requests
ASSUME FlagsAssumption == SweeperRuns \in BOOLEAN /\ Faults \in BOOLEAN

VARIABLES
    row,        \* requests.status; "absent": the row is not committed
    result,     \* requests.result
    expired,    \* has requests.expires_at passed?
    submit,     \* where submit_request stands, for each request
    conn,       \* the socket its call of ConnectionManager.send looked up
    registered, \* ConnectionManager._connections[agent]
    link,       \* the state of each WebSocket
    downlink,   \* the request.received frames in flight to the agent
    uplink,     \* the ack and action.result frames in flight to the server
    working     \* the request the agent acked and has still to answer

vars == <<row, result, expired, submit, conn, registered, link, downlink,
          uplink, working>>

rows == <<row, result, expired>>
lanes == <<downlink, uplink, working>>
channel == <<link, lanes>>

\* The registration and the links of this agent.
Channel == INSTANCE Presence

RowState ==
    {"absent", "pending", "dispatched", "acked", "completed", "rejected", "timeout"}
SubmitState ==
    {"start", "create", "send", "writing", "draining", "sent", "unsent",
     "accepted", "refused", "errored", "killed"}
Answer == {"completed", "error"}
Frame == [type : {"ack"} \cup Answer, req : Requests]

TypeOK ==
    /\ row \in [Requests -> RowState]
    /\ result \in [Requests -> Answer \cup {"none"}]
    /\ expired \in [Requests -> BOOLEAN]
    /\ submit \in [Requests -> SubmitState]
    /\ conn \in [Requests -> Sockets \cup {NoSocket}]
    /\ registered \in Sockets \cup {NoSocket}
    /\ link \in [Sockets -> {"none", "up", "down"}]
    /\ downlink \in [Sockets -> Seq(Requests)]
    /\ uplink \in [Sockets -> Seq(Frame)]
    /\ working \in [Sockets -> Requests \cup {NoRequest}]

Init ==
    /\ row = [r \in Requests |-> "absent"]
    /\ result = [r \in Requests |-> "none"]
    /\ expired = [r \in Requests |-> FALSE]
    /\ submit = [r \in Requests |-> "start"]
    /\ conn = [r \in Requests |-> NoSocket]
    /\ registered = NoSocket
    /\ link = [k \in Sockets |-> "none"]
    /\ downlink = [k \in Sockets |-> << >>]
    /\ uplink = [k \in Sockets |-> << >>]
    /\ working = [k \in Sockets |-> NoRequest]

-----------------------------------------------------------------------------
(* submit_request.                                                         *)

Goto(r, pc) == submit' = [submit EXCEPT ![r] = pc]

\* update_status: an UPDATE by id, whatever the status was.
UpdateStatus(r, st) == row' = [row EXCEPT ![r] = st]

\* 404, 422 from the pipeline, or 503 from is_connected: no row is written.
Refuse(r) ==
    /\ submit[r] = "start"
    /\ Goto(r, "refused")
    /\ UNCHANGED <<rows, conn, registered, channel>>

\* The pipeline has passed, and is_connected holds.
Admit(r) ==
    /\ submit[r] = "start"
    /\ registered # NoSocket
    /\ Goto(r, "create")
    /\ UNCHANGED <<rows, conn, registered, channel>>

\* Mutant: the row is flushed, and committed only by a later update_status.
FlushOnly(r) ==
    /\ submit[r] = "create"
    /\ Goto(r, "send")
    /\ UNCHANGED <<rows, conn, registered, channel>>

\* create_request and the commit of the row.
Create(r) ==
    /\ submit[r] = "create"
    /\ UpdateStatus(r, "pending")
    /\ Goto(r, "send")
    /\ UNCHANGED <<result, expired, conn, registered, channel>>

\* Mutant: 503 at once when the agent is gone.
LookUpOrRaise(r) ==
    /\ submit[r] = "send"
    /\ conn' = [conn EXCEPT ![r] = registered]
    /\ Goto(r, IF registered = NoSocket THEN "refused" ELSE "writing")
    /\ UNCHANGED <<rows, registered, channel>>

\* send: look up the connection, which may be gone or another one by now.
LookUp(r) ==
    /\ submit[r] = "send"
    /\ conn' = [conn EXCEPT ![r] = registered]
    /\ Goto(r, IF registered = NoSocket THEN "unsent" ELSE "writing")
    /\ UNCHANGED <<rows, registered, channel>>

\* send_json hands the frame to the transport, and waits for it to drain.
WriteFrame(r) ==
    /\ submit[r] = "writing"
    /\ link[conn[r]] = "up"
    /\ downlink' = [downlink EXCEPT ![conn[r]] = Append(@, r)]
    /\ Goto(r, "draining")
    /\ UNCHANGED <<rows, conn, registered, link, uplink, working>>

\* send_json returns.  A lost peer may not have been noticed: then the frame
\* is lost as well.
SendOk(r) ==
    /\ \/ submit[r] = "draining"
       \/ submit[r] = "writing" /\ link[conn[r]] = "down"
    /\ Goto(r, "sent")
    /\ UNCHANGED <<rows, conn, registered, channel>>

\* send_json raises, perhaps after the agent has got the frame; send removes
\* the agent's registration, whichever socket it is by now.
SendFails(r) ==
    /\ submit[r] \in {"writing", "draining"}
    /\ link[conn[r]] = "down"
    /\ registered' = NoSocket
    /\ Goto(r, "unsent")
    /\ UNCHANGED <<rows, conn, channel>>

\* sent: update_status "dispatched" and 202.
MarkDispatched(r) ==
    /\ submit[r] = "sent"
    /\ UpdateStatus(r, "dispatched")
    /\ Goto(r, "accepted")
    /\ UNCHANGED <<result, expired, conn, registered, channel>>

\* Not sent: update_status "timeout" and 503.
MarkTimeout(r) ==
    /\ submit[r] = "unsent"
    /\ UpdateStatus(r, "timeout")
    /\ Goto(r, "refused")
    /\ UNCHANGED <<result, expired, conn, registered, channel>>

\* The database refuses one of the three writes: 500.
SubmitFails(r) ==
    /\ Faults
    /\ submit[r] \in {"create", "sent", "unsent"}
    /\ Goto(r, "errored")
    /\ UNCHANGED <<rows, conn, registered, channel>>

-----------------------------------------------------------------------------
(* The agent program: one message at a time.                               *)

\* _message_loop takes a frame; _handle_request sends the ack first.
AgentTakes(k) ==
    /\ link[k] = "up"
    /\ working[k] = NoRequest
    /\ downlink[k] # << >>
    /\ LET r == Head(downlink[k])
       IN  /\ working' = [working EXCEPT ![k] = r]
           /\ uplink' = [uplink EXCEPT ![k] = Append(@, [type |-> "ack", req |-> r])]
    /\ downlink' = [downlink EXCEPT ![k] = Tail(@)]
    /\ UNCHANGED <<rows, submit, conn, registered, link>>

\* Mutant: the except clause answers again after a result that was sent.
AgentAnswersTwice(k) ==
    /\ link[k] = "up"
    /\ working[k] # NoRequest
    /\ uplink' = [uplink EXCEPT ![k] =
                     @ \o <<[type |-> "completed", req |-> working[k]],
                            [type |-> "error", req |-> working[k]]>>]
    /\ working' = [working EXCEPT ![k] = NoRequest]
    /\ UNCHANGED <<rows, submit, conn, registered, link, downlink>>

\* Mutant: a handler that raises is logged and not answered.
AgentAnswersOrLogs(k) ==
    /\ link[k] = "up"
    /\ working[k] # NoRequest
    /\ uplink' \in {uplink,
                    [uplink EXCEPT ![k] =
                       Append(@, [type |-> "completed", req |-> working[k]])]}
    /\ working' = [working EXCEPT ![k] = NoRequest]
    /\ UNCHANGED <<rows, submit, conn, registered, link, downlink>>

\* The registered handler has returned, or raised (or there is none).
AgentAnswers(k) ==
    /\ link[k] = "up"
    /\ working[k] # NoRequest
    /\ \E a \in Answer :
         uplink' = [uplink EXCEPT ![k] = Append(@, [type |-> a, req |-> working[k]])]
    /\ working' = [working EXCEPT ![k] = NoRequest]
    /\ UNCHANGED <<rows, submit, conn, registered, link, downlink>>

-----------------------------------------------------------------------------
(* The receive loop of agent_websocket.                                    *)

FirstIs(k, types) == uplink[k] # << >> /\ Head(uplink[k]).type \in types

Consume(k) == uplink' = [uplink EXCEPT ![k] = Tail(@)]

\* "ack": update_status "acked".
ReceiveAck(k) ==
    /\ FirstIs(k, {"ack"})
    /\ UpdateStatus(Head(uplink[k]).req, "acked")
    /\ Consume(k)
    /\ UNCHANGED <<result, expired, submit, conn, registered, link, downlink, working>>

\* Mutant: the agent's own word for the outcome becomes the status.
ReceiveRaw(k) ==
    /\ FirstIs(k, Answer)
    /\ LET f == Head(uplink[k])
       IN  /\ UpdateStatus(f.req, f.type)
           /\ result' = [result EXCEPT ![f.req] = f.type]
    /\ Consume(k)
    /\ UNCHANGED <<expired, submit, conn, registered, link, downlink, working>>

\* "action.result": the final status and the result, in one UPDATE.
ReceiveResult(k) ==
    /\ FirstIs(k, Answer)
    /\ LET f == Head(uplink[k])
       IN  /\ UpdateStatus(f.req, IF f.type = "completed" THEN "completed"
                                                          ELSE "rejected")
           /\ result' = [result EXCEPT ![f.req] = f.type]
    /\ Consume(k)
    /\ UNCHANGED <<expired, submit, conn, registered, link, downlink, working>>

\* What the loss of a link leaves: nothing more is exchanged, and the server
\* still reads some of what had reached it.
Cut(k, n) ==
    /\ uplink' = [uplink EXCEPT ![k] = SubSeq(@, 1, n)]
    /\ downlink' = [downlink EXCEPT ![k] = << >>]
    /\ working' = [working EXCEPT ![k] = NoRequest]

\* update_status raises: the loop ends, and nobody reads the socket any more.
ReceiveFails(k) ==
    /\ Faults
    /\ FirstIs(k, {"ack"} \cup Answer)
    /\ Cut(k, 0)
    /\ link' = [link EXCEPT ![k] = "down"]
    /\ UNCHANGED <<rows, submit, conn, registered>>

-----------------------------------------------------------------------------
(* The registration and the links change by the steps of Presence, which    *)
(* AgentChannel implements.                                                *)

\* register.
Attach(k) ==
    /\ Channel!Attach(k)
    /\ UNCHANGED <<rows, submit, conn, lanes>>

\* remove, called for this socket or for an earlier one: the socket that it
\* unregisters may stay open, and its handler goes on reading it.
Detach ==
    /\ Channel!Detach
    /\ UNCHANGED <<rows, submit, conn, lanes>>

\* Either end closes the socket, the network drops, or it is never accepted.
LinkDown(k) ==
    /\ Channel!LinkDown(k)
    /\ \E n \in 0 .. Len(uplink[k]) : Cut(k, n)
    /\ UNCHANGED <<rows, submit, conn>>

-----------------------------------------------------------------------------
(* Time, expiry, restart.                                                  *)

Expire(r) ==
    /\ row[r] # "absent"
    /\ ~expired[r]
    /\ expired' = [expired EXCEPT ![r] = TRUE]
    /\ UNCHANGED <<row, result, submit, conn, registered, channel>>

\* Mutant: every row past its expiry.
AnyExpired(r) == expired[r] /\ row[r] # "timeout"

Stale(r) == expired[r] /\ row[r] \in {"pending", "dispatched"}

\* expire_stale_requests: one UPDATE for every stale row.  The function has no
\* caller in the repository.
Sweep ==
    /\ SweeperRuns
    /\ \E r \in Requests : Stale(r)
    /\ row' = [r \in Requests |-> IF Stale(r) THEN "timeout" ELSE row[r]]
    /\ UNCHANGED <<result, expired, submit, conn, registered, channel>>

Responded == {"accepted", "refused", "errored", "killed"}

\* The process restarts: the rows and the sockets never opened are left.
Restart ==
    /\ Faults
    /\ registered # NoSocket \/ \E r \in Requests : submit[r] \notin Responded \cup {"start"}
    /\ submit' = [r \in Requests |-> IF submit[r] \in Responded \cup {"start"}
                                     THEN submit[r] ELSE "killed"]
    /\ Channel!Restart
    /\ downlink' = [k \in Sockets |-> << >>]
    /\ uplink' = [k \in Sockets |-> << >>]
    /\ working' = [k \in Sockets |-> NoRequest]
    /\ UNCHANGED <<rows, conn>>

-----------------------------------------------------------------------------
SubmitStep(r) ==
    \/ Create(r) \/ LookUp(r) \/ WriteFrame(r) \/ SendOk(r) \/ SendFails(r)
    \/ MarkDispatched(r) \/ MarkTimeout(r) \/ SubmitFails(r)

ReceiveStep(k) == ReceiveAck(k) \/ ReceiveResult(k) \/ ReceiveFails(k)

AgentStep(k) == AgentTakes(k) \/ AgentAnswers(k)

Next ==
    \/ \E r \in Requests : Refuse(r) \/ Admit(r) \/ SubmitStep(r) \/ Expire(r)
    \/ \E k \in Sockets : AgentStep(k) \/ ReceiveStep(k) \/ Attach(k) \/ LinkDown(k)
    \/ Detach \/ Sweep \/ Restart

Spec == Init /\ [][Next]_vars

\* The event loop runs every ready task, writes and sends end, the agent
\* program takes every frame and its request handler returns, and time passes.
\* Nothing is assumed of links, of when requests and sockets arrive, nor of the
\* sweeper, which nothing calls.
Fairness ==
    /\ \A r \in Requests : WF_vars(SubmitStep(r)) /\ WF_vars(Expire(r))
    /\ \A k \in Sockets : WF_vars(ReceiveStep(k)) /\ WF_vars(AgentStep(k))

FairSpec == Spec /\ Fairness

-----------------------------------------------------------------------------
(* Safety.                                                                 *)

\* Request r is in one lane (a socket's downlink d, its uplink u, the request w
\* being worked on): it has been sent and is not answered yet.
On(r, d, u, w) ==
    \/ \E i \in 1 .. Len(d) : d[i] = r
    \/ \E i \in 1 .. Len(u) : u[i].req = r
    \/ w = r

InFlight(r) == \E k \in Sockets : On(r, downlink[k], uplink[k], working[k])

\* No frame about a request exists before its row is committed: an ack or a
\* result can not be an UPDATE that matches nothing and is lost.
FramesHaveRows == \A r \in Requests : InFlight(r) => row[r] # "absent"

\* Once a result is recorded nothing more is in flight for the request: an ack
\* never comes after the result, and no second result does.
AnsweredIsQuiet == \A r \in Requests : result[r] # "none" => ~InFlight(r)

\* A recorded result never changes.
ResultIsFinal ==
    [][\A r \in Requests : result[r] # "none" => result'[r] = result[r]]_vars

\* A status "completed" or "rejected" is overwritten by nobody but the
\* request's own submit_request, which has not responded yet.
FinalUntilSubmit ==
    [][\A r \in Requests :
         (row[r] \in {"completed", "rejected"} /\ row'[r] # row[r])
           => submit[r] \in {"sent", "unsent"} /\ submit[r] # submit'[r]]_vars

\* A row that is still "pending" belongs to a submit_request that is running,
\* failed to write its status, or died with the process.
PendingHasSubmitter ==
    \A r \in Requests : row[r] = "pending" =>
        submit[r] \in {"send", "writing", "draining", "sent", "unsent",
                       "errored", "killed"}

\* The row of request r, as its sender sees it.
Record(r) == INSTANCE RequestRecord WITH
    status <- row[r], answer <- result[r], submitting <- submit[r] \notin Responded

\* Every request is what its sender is promised (RequestRecord): the frames, the
\* sockets, the sweeper and the restarts add up to one acknowledgement and one
\* answer, never in the wrong order, and to one last write by the POST.
\* (Record(r)!Spec for every request, written as one property of the steps.)
ImplementsRecord ==
    /\ \A r \in Requests : Record(r)!Init
    /\ [][\A r \in Requests : [Record(r)!Next]_(Record(r)!vars)]_vars

\* Why AnsweredIsQuiet holds: in a lane a request is delivered once, worked on
\* after that, acked before it is answered, and answered once.
LaneOK(d, u, w) ==
    /\ \A i, j \in 1 .. Len(d) : d[i] = d[j] => i = j
    /\ \A i \in 1 .. Len(d) : d[i] # w /\ \A j \in 1 .. Len(u) : u[j].req # d[i]
    /\ \A j \in 1 .. Len(u) : u[j].req = w => u[j].type = "ack"
    /\ \A i, j \in 1 .. Len(u) :
         (i < j /\ u[i].req = u[j].req) => u[i].type = "ack" /\ u[j].type \in Answer

\* And over all the lanes: a request is only on the lane its send looked up, it
\* has been committed, and nothing is recorded for it.
OneLane ==
    \A k \in Sockets :
        /\ LaneOK(downlink[k], uplink[k], working[k])
        /\ \A r \in Requests : On(r, downlink[k], uplink[k], working[k]) =>
             /\ conn[r] = k
             /\ submit[r] \notin {"start", "create", "send", "writing"}
             /\ row[r] # "absent"
             /\ result[r] = "none"

(* Liveness.                                                               *)

\* A request answered 202 gets a result from the agent, unless the socket it
\* was sent on is lost.
AcceptedIsAnswered ==
    \A r \in Requests :
        submit[r] = "accepted" ~>
          result[r] # "none" \/ conn[r] = NoSocket \/ link[conn[r]] = "down"

\* Without any sweeper, a row that was committed is answered, or its POST times it
\* out (the agent may have gone since is_connected held), unless there is a cause:
\* the database refused a write of the POST, the process restarted, or the socket
\* the request was sent on is lost, for whichever reason.
UnfinishedHasCause ==
    \A r \in Requests :
        row[r] # "absent" ~>
          \/ result[r] # "none" \/ row[r] = "timeout"
          \/ submit[r] \in {"errored", "killed"}
          \/ conn[r] # NoSocket /\ link[conn[r]] = "down"

-----------------------------------------------------------------------------
(* Two claims of the repository that the code does not keep.               *)

\* A poll that shows the agent's result shows its final status
\* (tests/test_request_flow.py: status == "completed" with the result).
ResultHasFinalStatus ==
    \A r \in Requests : result[r] # "none" => row[r] \in {"completed", "rejected"}

\* "Time before unfinished requests expire" (README.md).
UnfinishedExpires ==
    \A r \in Requests :
        expired[r] ~> row[r] \notin {"pending", "dispatched", "acked"}
=============================================================================
