------------------------------ MODULE Pipeline ------------------------------
(***************************************************************************)
(* The enforcement pipeline: execute_pipeline of pipeline/executor.py and  *)
(* its two stages, policy_engine and capability_sandbox.                   *)
(*                                                                         *)
(* A stage is a function that runs in a thread of the event loop's default *)
(* executor, a pool of bounded size with a first-come first-served queue.  *)
(* wait_for gives the stage a time limit, queueing included, but can not   *)
(* stop a thread: a stage that overruns keeps its thread, for nobody.      *)
(*                                                                         *)
(* Time is left out: a waiting request may time out at any moment, and a   *)
(* thread may take for ever.                                               *)
(***************************************************************************)
EXTENDS Naturals, Sequences, FiniteSetsExt

CONSTANTS
    Requests,  \* the requests submitted in a behaviour
    Workers,   \* the threads of the executor
    Contexts,  \* what a request may ask for, of an agent with what rules
    NoJob      \* an idle thread

-----------------------------------------------------------------------------
(* What a stage looks at.  The outcome of an expression of a rule, and of  *)
(* a JSON schema, is part of the context: simpleeval and jsonschema are    *)
(* libraries.                                                              *)

Rule == [value : {"true", "false", "error"}, action : {"reject", "allow"}]

\* One entry of "constraints", and the parameter that it names: not given,
\* given as a number, or as something Python can not compare with one.
Bound == [kind : {"max", "min", "other"}, limit : Nat,
          given : {"no", "number", "text"}, value : Nat]

Capability == [action : STRING, schema : {"none", "met", "violated", "broken"},
               constraints : Seq(Bound)]

Context == [action : STRING, rules : Seq(Rule), capabilities : Seq(Capability)]

ASSUME ContextsAssumption == Contexts \subseteq Context

ASSUME NoJobAssumption == NoJob \notin Requests \X {1, 2}

Stages == {1, 2} \* policy_engine, then capability_sandbox

Outcome == {"passed", "rejected", "raised"}

\* The loop over the rules ends at the first one that can not be evaluated, or
\* that holds and says reject.
Stops(rule) ==
    rule.value = "error" \/ (rule.value = "true" /\ rule.action = "reject")

PolicyEngine(c) ==
    IF \E i \in DOMAIN c.rules : Stops(c.rules[i]) THEN "rejected" ELSE "passed"

Compared(b) == b.kind # "other" /\ b.given # "no"

\* Mutant: a value equal to the limit is refused.
OverOrEqual(b) ==
    \/ b.kind = "max" /\ b.value >= b.limit
    \/ b.kind = "min" /\ b.value <= b.limit

Over(b) ==
    \/ b.kind = "max" /\ b.value > b.limit
    \/ b.kind = "min" /\ b.value < b.limit

\* The loop over the constraints ends at the first one whose comparison raises
\* or says the value is out of bounds.
Constraints(bs) ==
    LET stops == {i \in DOMAIN bs : Compared(bs[i]) /\ (bs[i].given = "text" \/ Over(bs[i]))}
    IN  IF stops = {} THEN "passed"
        ELSE IF bs[Min(stops)].given = "text" THEN "raised"
        ELSE "rejected"

Matching(c) == {i \in DOMAIN c.capabilities : c.capabilities[i].action = c.action}

\* The first capability for the action decides.
CapabilitySandbox(c) ==
    IF Matching(c) = {} THEN "rejected"
    ELSE LET capability == c.capabilities[Min(Matching(c))]
         IN  CASE capability.schema = "violated" -> "rejected"
               [] capability.schema = "broken" -> "raised"
               [] OTHER -> Constraints(capability.constraints)

StageFn(stage, c) == IF stage = 1 THEN PolicyEngine(c) ELSE CapabilitySandbox(c)

-----------------------------------------------------------------------------
VARIABLES
    ctx,    \* the context of each request
    phase,  \* where its execute_pipeline stands
    stage,  \* the stage it runs
    future, \* the outcome of that stage, once its thread has set it
    cause,  \* why it was rejected
    queue,  \* the jobs that no thread has taken, oldest first
    thread  \* the job of each thread

vars == <<ctx, phase, stage, future, cause, queue, thread>>

Jobs == Requests \X Stages

TypeOK ==
    /\ ctx \in [Requests -> Contexts]
    /\ phase \in [Requests -> {"start", "waiting", "admitted", "rejected"}]
    /\ stage \in [Requests -> Stages]
    /\ future \in [Requests -> Outcome \cup {"none"}]
    /\ cause \in [Requests -> {"none", "stage", "timeout"}]
    /\ queue \in Seq(Jobs)
    /\ thread \in [Workers -> Jobs \cup {NoJob}]

Init ==
    /\ ctx \in [Requests -> Contexts]
    /\ phase = [r \in Requests |-> "start"]
    /\ stage = [r \in Requests |-> 1]
    /\ future = [r \in Requests |-> "none"]
    /\ cause = [r \in Requests |-> "none"]
    /\ queue = << >>
    /\ thread = [w \in Workers |-> NoJob]

Queued(job) == \E i \in 1 .. Len(queue) : queue[i] = job
Running(job) == \E w \in Workers : thread[w] = job

\* The queue without its i-th job.
Without(i) ==
    [j \in 1 .. Len(queue) - 1 |-> IF j < i THEN queue[j] ELSE queue[j + 1]]

\* run_in_executor for the first stage.
Start(r) ==
    /\ phase[r] = "start"
    /\ phase' = [phase EXCEPT ![r] = "waiting"]
    /\ queue' = Append(queue, <<r, 1>>)
    /\ UNCHANGED <<ctx, stage, future, cause, thread>>

\* A free thread takes the oldest job.
Take(w) ==
    /\ thread[w] = NoJob
    /\ queue # << >>
    /\ thread' = [thread EXCEPT ![w] = Head(queue)]
    /\ queue' = Tail(queue)
    /\ UNCHANGED <<ctx, phase, stage, future, cause>>

\* The stage function ends.  Its outcome is dropped when nobody waits for it.
Finish(w) ==
    /\ thread[w] # NoJob
    /\ LET r == thread[w][1]
       IN  future' = [future EXCEPT ![r] = IF phase[r] = "waiting"
                                           THEN StageFn(thread[w][2], ctx[r])
                                           ELSE @]
    /\ thread' = [thread EXCEPT ![w] = NoJob]
    /\ UNCHANGED <<ctx, phase, stage, cause, queue>>

\* Mutant: only a result that says rejected rejects.
NotRejected(outcome) == outcome # "rejected"

\* Fail-closed: a stage that raises has not passed.
Passed(outcome) == outcome = "passed"

\* wait_for returns, or raises what the stage raised: on to the next stage, or
\* to a decision.
Collect(r) ==
    /\ phase[r] = "waiting"
    /\ future[r] # "none"
    /\ future' = [future EXCEPT ![r] = "none"]
    /\ \/ /\ ~Passed(future[r])
          /\ phase' = [phase EXCEPT ![r] = "rejected"]
          /\ cause' = [cause EXCEPT ![r] = "stage"]
          /\ UNCHANGED <<stage, queue>>
       \/ /\ Passed(future[r])
          /\ stage[r] = 1
          /\ stage' = [stage EXCEPT ![r] = 2]
          /\ queue' = Append(queue, <<r, 2>>)
          /\ UNCHANGED <<phase, cause>>
       \/ /\ Passed(future[r])
          /\ stage[r] = 2
          /\ phase' = [phase EXCEPT ![r] = "admitted"]
          /\ UNCHANGED <<stage, cause, queue>>
    /\ UNCHANGED <<ctx, thread>>

\* Mutant: the time limit starts to run when a thread takes the job.
TimeoutRunning(r) ==
    /\ phase[r] = "waiting"
    /\ Running(<<r, stage[r]>>)
    /\ phase' = [phase EXCEPT ![r] = "rejected"]
    /\ cause' = [cause EXCEPT ![r] = "timeout"]
    /\ future' = [future EXCEPT ![r] = "none"]
    /\ UNCHANGED <<ctx, stage, queue, thread>>

\* Mutant: the job of a request that timed out stays in the queue.
TimeoutOnly(r) ==
    /\ phase[r] = "waiting"
    /\ phase' = [phase EXCEPT ![r] = "rejected"]
    /\ cause' = [cause EXCEPT ![r] = "timeout"]
    /\ future' = [future EXCEPT ![r] = "none"]
    /\ UNCHANGED <<ctx, stage, queue, thread>>

\* wait_for gives up, perhaps just after the outcome was set.  Cancelling the
\* future takes the job out of the queue; a thread that has it goes on.
Timeout(r) ==
    /\ phase[r] = "waiting"
    /\ phase' = [phase EXCEPT ![r] = "rejected"]
    /\ cause' = [cause EXCEPT ![r] = "timeout"]
    /\ future' = [future EXCEPT ![r] = "none"]
    /\ \/ \E i \in 1 .. Len(queue) : queue[i] = <<r, stage[r]>> /\ queue' = Without(i)
       \/ ~Queued(<<r, stage[r]>>) /\ UNCHANGED queue
    /\ UNCHANGED <<ctx, stage, thread>>

Next ==
    \/ \E r \in Requests : Start(r) \/ Collect(r) \/ Timeout(r)
    \/ \E w \in Workers : Take(w) \/ Finish(w)

Spec == Init /\ [][Next]_vars

\* The event loop runs, and its timers fire.  Nothing is assumed of threads.
Fairness == \A r \in Requests : WF_vars(Collect(r)) /\ WF_vars(Timeout(r))

FairSpec == Spec /\ Fairness

-----------------------------------------------------------------------------
\* What the rules and the contract of the agent allow, whatever evaluates them:
\* every rule can be evaluated and none that says reject holds; some capability
\* is for the action, and the first one has a schema that the parameters meet
\* and bounds they can be compared with and keep.
Kept(b) ==
    \/ b.kind = "other"
    \/ b.given = "no"
    \/ b.given = "number" /\ b.kind = "max" /\ b.value <= b.limit
    \/ b.given = "number" /\ b.kind = "min" /\ b.value >= b.limit

Permitted(c) ==
    /\ \A i \in DOMAIN c.rules :
         /\ c.rules[i].value # "error"
         /\ c.rules[i].action = "reject" => c.rules[i].value = "false"
    /\ Matching(c) # {}
    /\ \A i \in Matching(c) : (\A j \in Matching(c) : i <= j) =>
         /\ c.capabilities[i].schema \in {"none", "met"}
         /\ \A k \in DOMAIN c.capabilities[i].constraints : Kept(c.capabilities[i].constraints[k])

\* Fail-closed: whatever raises, overruns or comes late, no request gets
\* through that the agent's rules and contract do not permit.
AdmittedIsPermitted == \A r \in Requests : phase[r] = "admitted" => Permitted(ctx[r])

\* And the other way round: a permitted request is rejected by time only.
PermittedOnlyTimesOut ==
    \A r \in Requests :
        (phase[r] = "rejected" /\ Permitted(ctx[r])) => cause[r] = "timeout"

\* A waiting request has its current stage queued, running or finished.
NoJobLost ==
    \A r \in Requests : phase[r] = "waiting" =>
      \/ Queued(<<r, stage[r]>>)
      \/ Running(<<r, stage[r]>>)
      \/ future[r] # "none"

\* What is queued is waited for, is queued once, and runs nowhere.
NoJobStray ==
    \A i \in 1 .. Len(queue) :
      /\ phase[queue[i][1]] = "waiting"
      /\ stage[queue[i][1]] = queue[i][2]
      /\ future[queue[i][1]] = "none"
      /\ ~Running(queue[i])
      /\ \A j \in 1 .. Len(queue) : queue[j] = queue[i] => i = j

\* A thread works for nobody only after a timeout, and no two on one job.
NoJobInVain ==
    \A w \in Workers : thread[w] # NoJob =>
      /\ \A v \in Workers : thread[v] = thread[w] => v = w
      /\ LET r == thread[w][1]
         IN  \/ phase[r] = "waiting" /\ stage[r] = thread[w][2] /\ future[r] = "none"
             \/ phase[r] = "rejected" /\ cause[r] = "timeout"

\* No job is lost, doubled, left in the queue or run in vain, whatever times
\* out: the queue, the threads and the requests that wait agree.
JobsAccounted == NoJobLost /\ NoJobStray /\ NoJobInVain

\* Every request is decided, even if no thread ever ends its stage.
RequestIsDecided ==
    \A r \in Requests : phase[r] = "waiting" ~> phase[r] \in {"admitted", "rejected"}
=============================================================================
