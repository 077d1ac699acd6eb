--------------------------- MODULE PipelineProofs ---------------------------
(***************************************************************************)
(* Proofs about Pipeline, for any number of requests and threads and any   *)
(* rules and contracts.                                                    *)
(*                                                                         *)
(* The inductive invariant ties the jobs to the requests that wait for     *)
(* them (JobsAccounted) and what is decided to what the stages said        *)
(* (Verdicts); two lemmas on the stages turn that into what is permitted.  *)
(***************************************************************************)
EXTENDS Pipeline, WellFoundedInduction, TLAPS

-----------------------------------------------------------------------------
(* What the two stages compute.                                            *)

LEMMA MinIs ==
    ASSUME NEW S \in SUBSET Nat, NEW i \in S, \A j \in S : i <= j
    PROVE  Min(S) = i
  <1>1. Min(S) \in S /\ \A j \in S : Min(S) <= j
    <2>1. \E x \in S : \A y \in S : x <= y
      OBVIOUS
    <2> QED
      BY <2>1, Zenon DEF Min
  <1>2. Min(S) <= i /\ i <= Min(S)
    BY <1>1
  <1>3. Min(S) \in Nat /\ i \in Nat
    BY <1>1
  <1> HIDE DEF Min
  <1> QED
    BY <1>2, <1>3

LEMMA MinExists ==
    ASSUME NEW S \in SUBSET Nat, S # {}
    PROVE  \E i \in S : \A j \in S : i <= j
  <1>1. PICK i \in S : \A j \in S : ~ (<<j, i>> \in OpToRel(<, Nat))
    BY WFMin, NatLessThanWellFounded
  <1>2. \A j \in S : ~ (j < i)
    BY <1>1 DEF OpToRel
  <1> QED
    BY <1>2

\* The first element of a nonempty set of positions.
LEMMA MinFirst ==
    ASSUME NEW S \in SUBSET Nat, S # {}
    PROVE  Min(S) \in S /\ \A j \in S : Min(S) <= j
  BY MinExists, MinIs

LEMMA ContextFields ==
    ASSUME NEW c \in Contexts
    PROVE  /\ c.rules \in Seq(Rule)
           /\ c.capabilities \in Seq(Capability)
           /\ Matching(c) \in SUBSET Nat
           /\ \A i \in Matching(c) : c.capabilities[i] \in Capability
  <1>1. c.rules \in Seq(Rule) /\ c.capabilities \in Seq(Capability)
    BY ContextsAssumption DEF Context
  <1>2. Matching(c) \subseteq 1 .. Len(c.capabilities)
    BY <1>1 DEF Matching
  <1> QED
    BY <1>1, <1>2

\* The loop over the rules lets a request pass exactly if no rule stops it.
LEMMA PolicyPasses ==
    ASSUME NEW c \in Contexts
    PROVE  PolicyEngine(c) = "passed" <=>
             \A i \in DOMAIN c.rules :
               /\ c.rules[i].value # "error"
               /\ c.rules[i].action = "reject" => c.rules[i].value = "false"
  <1>1. \A i \in DOMAIN c.rules : c.rules[i] \in Rule
    BY ContextFields
  <1>2. \A rule \in Rule :
          ~Stops(rule) <=> /\ rule.value # "error"
                           /\ rule.action = "reject" => rule.value = "false"
    BY DEF Rule, Stops
  <1> QED
    BY <1>1, <1>2 DEF PolicyEngine

\* The loop over the constraints passes exactly if every one is kept.
LEMMA ConstraintsPass ==
    ASSUME NEW bs \in Seq(Bound)
    PROVE  Constraints(bs) = "passed" <=> \A k \in DOMAIN bs : Kept(bs[k])
  <1>1. \A k \in DOMAIN bs : bs[k] \in Bound
    OBVIOUS
  <1>2. \A b \in Bound : Kept(b) <=> ~(Compared(b) /\ (b.given = "text" \/ Over(b)))
    BY DEF Bound, Kept, Compared, Over
  <1>3. Constraints(bs) = "passed" <=>
          {i \in DOMAIN bs : Compared(bs[i]) /\ (bs[i].given = "text" \/ Over(bs[i]))} = {}
    BY DEF Constraints
  <1> QED
    BY <1>1, <1>2, <1>3

\* The sandbox passes exactly if the first capability for the action does.
LEMMA SandboxPasses ==
    ASSUME NEW c \in Contexts
    PROVE  CapabilitySandbox(c) = "passed" <=>
             /\ Matching(c) # {}
             /\ \A i \in Matching(c) : (\A j \in Matching(c) : i <= j) =>
                  /\ c.capabilities[i].schema \in {"none", "met"}
                  /\ \A k \in DOMAIN c.capabilities[i].constraints :
                       Kept(c.capabilities[i].constraints[k])
  <1>1. CASE Matching(c) = {}
    BY <1>1 DEF CapabilitySandbox
  <1>2. CASE Matching(c) # {}
    <2> DEFINE m == Min(Matching(c))
               cap == c.capabilities[m]
    <2>1. m \in Matching(c) /\ \A j \in Matching(c) : m <= j
      BY <1>2, ContextFields, MinFirst
    <2>2. \A i \in Matching(c) : (\A j \in Matching(c) : i <= j) => i = m
      BY ContextFields, MinIs
    <2>3. cap \in Capability
      BY <2>1, ContextFields
    <2>4. CapabilitySandbox(c) =
            CASE cap.schema = "violated" -> "rejected"
              [] cap.schema = "broken" -> "raised"
              [] OTHER -> Constraints(cap.constraints)
      BY <1>2 DEF CapabilitySandbox
    <2> HIDE DEF m
    <2>5. CapabilitySandbox(c) = "passed" <=>
            /\ cap.schema \in {"none", "met"}
            /\ \A k \in DOMAIN cap.constraints : Kept(cap.constraints[k])
      <3>1. cap.constraints \in Seq(Bound)
        BY <2>3 DEF Capability
      <3>2. Constraints(cap.constraints) = "passed" <=>
              \A k \in DOMAIN cap.constraints : Kept(cap.constraints[k])
        BY <3>1, ConstraintsPass
      <3>3. cap.schema \in {"none", "met", "violated", "broken"}
        BY <2>3 DEF Capability
      <3> HIDE DEF cap
      <3>4. CASE cap.schema \in {"none", "met"}
        BY <2>4, <3>2, <3>4
      <3>5. CASE cap.schema = "violated"
        BY <2>4, <3>5
      <3>6. CASE cap.schema = "broken"
        BY <2>4, <3>6
      <3> QED
        BY <3>3, <3>4, <3>5, <3>6
    <2> QED
      BY <1>2, <2>1, <2>2, <2>5
  <1> QED
    BY <1>1, <1>2

\* The stages together decide what the rules and the contract permit.
THEOREM StagesDecide ==
    ASSUME NEW c \in Contexts
    PROVE  Permitted(c) <=> \A s \in Stages : StageFn(s, c) = "passed"
  BY PolicyPasses, SandboxPasses DEF Permitted, Stages, StageFn

\* A stage ends in one of three ways.
LEMMA StageOutcome ==
    ASSUME NEW c \in Contexts, NEW s \in Stages
    PROVE  StageFn(s, c) \in Outcome
  <1>1. PolicyEngine(c) \in Outcome
    BY DEF PolicyEngine, Outcome
  <1>2. \A bs : Constraints(bs) \in Outcome
    BY DEF Constraints, Outcome
  <1>3. CapabilitySandbox(c) \in Outcome
    BY <1>2 DEF CapabilitySandbox, Outcome
  <1> QED
    BY <1>1, <1>3 DEF StageFn
-----------------------------------------------------------------------------
(* The state.                                                              *)

\* What is decided is what the stages said.
Verdicts ==
    \A r \in Requests :
      /\ phase[r] = "start" => stage[r] = 1 /\ future[r] = "none"
      /\ phase[r] = "waiting" /\ stage[r] = 2 => StageFn(1, ctx[r]) = "passed"
      /\ phase[r] = "admitted" => \A s \in Stages : StageFn(s, ctx[r]) = "passed"
      /\ phase[r] = "rejected" /\ cause[r] # "timeout" =>
           \E s \in Stages : StageFn(s, ctx[r]) # "passed"
      /\ future[r] # "none" =>
           phase[r] = "waiting" /\ future[r] = StageFn(stage[r], ctx[r])

IndInv == TypeOK /\ JobsAccounted /\ Verdicts

\* A job is a request and a stage, and no idle thread.
LEMMA JobFields ==
    ASSUME TypeOK
    PROVE  /\ \A i \in 1 .. Len(queue) :
                /\ queue[i] \in Jobs
                /\ queue[i] = <<queue[i][1], queue[i][2]>>
                /\ queue[i][1] \in Requests
                /\ queue[i][2] \in Stages
           /\ \A w \in Workers : thread[w] # NoJob =>
                /\ thread[w] \in Jobs
                /\ thread[w] = <<thread[w][1], thread[w][2]>>
                /\ thread[w][1] \in Requests
                /\ thread[w][2] \in Stages
           /\ NoJob \notin Jobs
           /\ Len(queue) \in Nat
  <1>1. \A job \in Jobs : job = <<job[1], job[2]>> /\ job[1] \in Requests /\ job[2] \in Stages
    BY DEF Jobs
  <1>2. NoJob \notin Jobs
    BY NoJobAssumption DEF Jobs, Stages
  <1>3. queue \in Seq(Jobs) /\ thread \in [Workers -> Jobs \cup {NoJob}]
    BY DEF TypeOK
  <1>4. \A i \in 1 .. Len(queue) : queue[i] \in Jobs
    BY <1>3
  <1>5. \A w \in Workers : thread[w] # NoJob => thread[w] \in Jobs
    BY <1>3
  <1> QED
    BY <1>1, <1>2, <1>3, <1>4, <1>5

\* The queue without its i-th job has the other jobs, each one once.
LEMMA WithoutIs ==
    ASSUME TypeOK, NEW i \in 1 .. Len(queue)
    PROVE  /\ Without(i) \in Seq(Jobs)
           /\ Len(Without(i)) = Len(queue) - 1
           /\ \A j \in 1 .. Len(Without(i)) :
                \/ j < i /\ j \in 1 .. Len(queue) /\ Without(i)[j] = queue[j]
                \/ ~ (j < i) /\ j + 1 \in 1 .. Len(queue) /\ Without(i)[j] = queue[j + 1]
           /\ \A k \in 1 .. Len(queue) : k # i =>
                \E j \in 1 .. Len(Without(i)) : Without(i)[j] = queue[k]
  <1> DEFINE n == Len(queue)
  <1>1. n \in Nat /\ \A k \in 1 .. n : queue[k] \in Jobs
    BY JobFields
  <1>2. Without(i) = [j \in 1 .. n - 1 |-> IF j < i THEN queue[j] ELSE queue[j + 1]]
    BY DEF Without
  <1> DEFINE q == Without(i)
  <1>3. n - 1 \in Nat
    BY <1>1
  <1> HIDE DEF n, q
  <1>4. i \in 1 .. n
    BY DEF n
  <1>5. q = [j \in 1 .. n - 1 |-> IF j < i THEN queue[j] ELSE queue[j + 1]]
    BY <1>2 DEF q
  <1>6. \A j \in 1 .. n - 1 : q[j] \in Jobs
    BY <1>1, <1>3, <1>4, <1>5
  <1>7. q \in Seq(Jobs) /\ Len(q) = n - 1
    <2>1. q \in [1 .. n - 1 -> Jobs]
      BY <1>5, <1>6
    <2> QED
      BY <1>3, <2>1
  <1>8. \A j \in 1 .. n - 1 :
          \/ j < i /\ j \in 1 .. n /\ q[j] = queue[j]
          \/ ~ (j < i) /\ j + 1 \in 1 .. n /\ q[j] = queue[j + 1]
    BY <1>1, <1>4, <1>5
  <1>9. ASSUME NEW k \in 1 .. n, k # i
        PROVE  \E j \in 1 .. n - 1 : q[j] = queue[k]
    <2>1. CASE k < i
      <3>1. k \in 1 .. n - 1 /\ q[k] = queue[k]
        BY <1>1, <1>4, <1>5, <2>1
      <3> QED
        BY <3>1
    <2>2. CASE ~ (k < i)
      <3>1. k - 1 \in 1 .. n - 1 /\ ~ (k - 1 < i) /\ (k - 1) + 1 = k
        BY <1>1, <1>4, <1>9, <2>2
      <3>2. q[k - 1] = queue[k]
        BY <1>5, <3>1
      <3> QED
        BY <3>1, <3>2
    <2> QED
      BY <2>1, <2>2
  <1> QED
    BY <1>7, <1>8, <1>9 DEF n, q

\* The initial state.
LEMMA InitInv == Init => IndInv
  <1> SUFFICES ASSUME Init PROVE IndInv
    OBVIOUS
  <1>1. TypeOK
    BY DEF Init, TypeOK, Stages, Outcome
  <1>2. Len(queue) = 0
    BY DEF Init
  <1>3. JobsAccounted
    BY <1>2 DEF Init, JobsAccounted, NoJobLost, NoJobStray, NoJobInVain
  <1>4. Verdicts
    BY DEF Init, Verdicts
  <1> QED
    BY <1>1, <1>3, <1>4 DEF IndInv

\* Every step keeps the types.
LEMMA TypeStep == TypeOK /\ [Next]_vars => TypeOK'
  <1> SUFFICES ASSUME TypeOK, [Next]_vars PROVE TypeOK'
    OBVIOUS
  <1> USE DEF TypeOK
  <1>1. ASSUME NEW r \in Requests, Start(r) PROVE TypeOK'
    <2>1. <<r, 1>> \in Jobs
      BY DEF Jobs, Stages
    <2> QED
      BY <1>1, <2>1 DEF Start
  <1>2. ASSUME NEW r \in Requests, Collect(r) PROVE TypeOK'
    <2>1. <<r, 2>> \in Jobs /\ 2 \in Stages
      BY DEF Jobs, Stages
    <2>2. queue' \in Seq(Jobs)
      <3>1. queue' = queue \/ queue' = Append(queue, <<r, 2>>)
        BY <1>2 DEF Collect
      <3> QED
        BY <2>1, <3>1
    <2>3. stage' \in [Requests -> Stages]
      BY <1>2, <2>1 DEF Collect
    <2>4. future' \in [Requests -> Outcome \cup {"none"}]
      BY <1>2 DEF Collect
    <2>5. phase' \in [Requests -> {"start", "waiting", "admitted", "rejected"}]
      BY <1>2 DEF Collect
    <2>6. cause' \in [Requests -> {"none", "stage", "timeout"}]
      BY <1>2 DEF Collect
    <2>7. ctx' = ctx /\ thread' = thread
      BY <1>2 DEF Collect
    <2> QED
      BY <2>2, <2>3, <2>4, <2>5, <2>6, <2>7
  <1>3. ASSUME NEW r \in Requests, Timeout(r) PROVE TypeOK'
    <2>1. queue' \in Seq(Jobs)
      BY <1>3, WithoutIs DEF Timeout
    <2> QED
      BY <1>3, <2>1 DEF Timeout
  <1>4. ASSUME NEW w \in Workers, Take(w) PROVE TypeOK'
    <2>1. Head(queue) \in Jobs /\ Tail(queue) \in Seq(Jobs)
      BY <1>4 DEF Take
    <2> QED
      BY <1>4, <2>1 DEF Take
  <1>5. ASSUME NEW w \in Workers, Finish(w) PROVE TypeOK'
    <2> DEFINE r == thread[w][1]
               s == thread[w][2]
    <2>1. r \in Requests /\ s \in Stages
      BY <1>5, JobFields DEF Finish
    <2>2. StageFn(s, ctx[r]) \in Outcome
      BY <2>1, StageOutcome
    <2>3. future' = [future EXCEPT ![r] = IF phase[r] = "waiting"
                                          THEN StageFn(s, ctx[r]) ELSE @]
      BY <1>5 DEF Finish
    <2> HIDE DEF r, s
    <2>4. future' \in [Requests -> Outcome \cup {"none"}]
      BY <2>1, <2>2, <2>3
    <2> QED
      BY <1>5, <2>4 DEF Finish
  <1>6. CASE UNCHANGED vars
    BY <1>6 DEF vars
  <1> QED
    BY <1>1, <1>2, <1>3, <1>4, <1>5, <1>6 DEF Next

\* Every step keeps what is decided in line with the stages.
LEMMA VerdictsStep == IndInv /\ [Next]_vars => Verdicts'
  <1> SUFFICES ASSUME IndInv, [Next]_vars PROVE Verdicts'
    OBVIOUS
  <1> USE DEF IndInv
  <1>1. ASSUME NEW r \in Requests, Start(r) PROVE Verdicts'
    BY <1>1 DEF Start, Verdicts, TypeOK
  <1>2. ASSUME NEW r \in Requests, Collect(r) PROVE Verdicts'
    <2>1. phase[r] = "waiting" /\ future[r] = StageFn(stage[r], ctx[r]) /\ stage[r] \in Stages
      BY <1>2 DEF Collect, Verdicts, TypeOK
    <2>2. CASE ~Passed(future[r])
      <3>1. StageFn(stage[r], ctx[r]) # "passed"
        BY <2>1, <2>2 DEF Passed
      <3> QED
        BY <1>2, <2>1, <2>2, <3>1 DEF Collect, Verdicts, TypeOK
    <2>3. CASE Passed(future[r]) /\ stage[r] = 1
      <3>1. StageFn(1, ctx[r]) = "passed"
        BY <2>1, <2>3 DEF Passed
      <3> QED
        BY <1>2, <2>1, <2>3, <3>1 DEF Collect, Verdicts, TypeOK
    <2>4. CASE Passed(future[r]) /\ stage[r] = 2
      <3>1. \A s \in Stages : StageFn(s, ctx[r]) = "passed"
        BY <2>1, <2>4 DEF Passed, Verdicts, Stages
      <3> QED
        BY <1>2, <2>1, <2>4, <3>1 DEF Collect, Verdicts, TypeOK
    <2> QED
      BY <1>2, <2>2, <2>3, <2>4 DEF Collect
  <1>3. ASSUME NEW r \in Requests, Timeout(r) PROVE Verdicts'
    BY <1>3 DEF Timeout, Verdicts, TypeOK
  <1>4. ASSUME NEW w \in Workers, Take(w) PROVE Verdicts'
    BY <1>4 DEF Take, Verdicts
  <1>5. ASSUME NEW w \in Workers, Finish(w) PROVE Verdicts'
    <2> DEFINE r == thread[w][1]
               s == thread[w][2]
    <2>1. r \in Requests /\ s \in Stages
      BY <1>5, JobFields DEF Finish
    <2>2. phase[r] = "waiting" => stage[r] = s
      BY <1>5 DEF Finish, JobsAccounted, NoJobInVain
    <2>3. future' = [future EXCEPT ![r] = IF phase[r] = "waiting"
                                          THEN StageFn(s, ctx[r]) ELSE @]
      BY <1>5 DEF Finish
    <2> HIDE DEF r, s
    <2> QED
      BY <1>5, <2>1, <2>2, <2>3 DEF Finish, Verdicts, TypeOK
  <1>6. CASE UNCHANGED vars
    BY <1>6 DEF vars, Verdicts
  <1> QED
    BY <1>1, <1>2, <1>3, <1>4, <1>5, <1>6 DEF Next

\* What it is to append a job to the queue.
LEMMA Appended ==
    ASSUME TypeOK, NEW r \in Requests, NEW s \in Stages, queue' = Append(queue, <<r, s>>)
    PROVE  /\ Len(queue') = Len(queue) + 1
           /\ \A i \in 1 .. Len(queue) : queue'[i] = queue[i]
           /\ queue'[Len(queue) + 1] = <<r, s>>
  <1>1. queue \in Seq(Jobs) /\ <<r, s>> \in Jobs
    BY DEF TypeOK, Jobs
  <1> QED
    BY <1>1

\* The next stage of a request that has no job is put in the queue.
LEMMA NewJob ==
    ASSUME TypeOK, NoJobLost, NoJobStray, NoJobInVain,
           NEW r \in Requests, NEW s \in Stages,
           \A i \in 1 .. Len(queue) : queue[i][1] # r,
           \A w \in Workers : thread[w] # NoJob => thread[w][1] # r,
           Len(queue') = Len(queue) + 1,
           \A i \in 1 .. Len(queue) : queue'[i] = queue[i],
           queue'[Len(queue) + 1] = <<r, s>>,
           phase'[r] = "waiting" /\ stage'[r] = s /\ future'[r] = "none",
           \A q \in Requests \ {r} : /\ phase'[q] = phase[q] /\ stage'[q] = stage[q]
                                     /\ future'[q] = future[q] /\ cause'[q] = cause[q],
           thread' = thread
    PROVE  JobsAccounted'
  <1> DEFINE new == <<r, s>>
             n == Len(queue)
  <1>1. /\ n \in Nat
        /\ Len(queue') = n + 1
        /\ \A i \in 1 .. n : queue'[i] = queue[i]
        /\ queue'[n + 1] = new
    BY JobFields
  <1>2. new[1] = r /\ new[2] = s
    OBVIOUS
  <1>3. NoJobLost'
    <2> SUFFICES ASSUME NEW q \in Requests, phase'[q] = "waiting"
                 PROVE  Queued(<<q, stage[q]>>)' \/ Running(<<q, stage[q]>>)' \/ future'[q] # "none"
      BY DEF NoJobLost
    <2>1. CASE q = r
      <3>1. n + 1 \in 1 .. Len(queue') /\ queue'[n + 1] = <<q, stage'[q]>>
        BY <1>1, <2>1
      <3> QED
        BY <3>1 DEF Queued
    <2>2. CASE q # r
      <3>1. phase[q] = "waiting" /\ stage'[q] = stage[q] /\ future'[q] = future[q]
        BY <2>2
      <3>2. Queued(<<q, stage[q]>>) \/ Running(<<q, stage[q]>>) \/ future[q] # "none"
        BY <3>1 DEF NoJobLost
      <3>3. Queued(<<q, stage[q]>>) => Queued(<<q, stage[q]>>)'
        BY <1>1, <3>1 DEF Queued
      <3> QED
        BY <3>1, <3>2, <3>3 DEF Running
    <2> QED
      BY <2>1, <2>2
  <1>4. NoJobStray'
    <2> HIDE DEF new
    <2> SUFFICES ASSUME NEW i \in 1 .. Len(queue')
                 PROVE  /\ phase'[queue'[i][1]] = "waiting"
                        /\ stage'[queue'[i][1]] = queue'[i][2]
                        /\ future'[queue'[i][1]] = "none"
                        /\ \A w \in Workers : thread[w] # queue'[i]
                        /\ \A j \in 1 .. Len(queue') : queue'[j] = queue'[i] => i = j
      BY DEF NoJobStray, Running
    <2>1. CASE i = n + 1
      <3>1. queue'[i] = new
        BY <1>1, <2>1
      <3>2. \A w \in Workers : thread[w] # new
        <4>1. new # NoJob
          BY NoJobAssumption DEF new, Stages
        <4> QED
          BY <1>2, <4>1
      <3>3. \A j \in 1 .. n : queue'[j] # new
        BY <1>1, <1>2
      <3> QED
        BY <1>1, <1>2, <2>1, <3>1, <3>2, <3>3
    <2>2. CASE i \in 1 .. n
      <3>1. queue'[i] = queue[i] /\ queue[i][1] # r /\ queue[i][1] \in Requests
        BY <1>1, <2>2, JobFields
      <3>2. /\ phase[queue[i][1]] = "waiting"
            /\ stage[queue[i][1]] = queue[i][2]
            /\ future[queue[i][1]] = "none"
            /\ \A w \in Workers : thread[w] # queue[i]
            /\ \A j \in 1 .. n : queue[j] = queue[i] => i = j
        BY <2>2 DEF NoJobStray, Running
      <3>3. queue'[n + 1] # queue[i]
        BY <1>1, <1>2, <3>1
      <3> QED
        BY <1>1, <3>1, <3>2, <3>3
    <2> QED
      BY <1>1, <2>1, <2>2
  <1>5. NoJobInVain'
    <2> SUFFICES ASSUME NEW w \in Workers, thread[w] # NoJob
                 PROVE  /\ \A v \in Workers : thread[v] = thread[w] => v = w
                        /\ \/ /\ phase'[thread[w][1]] = "waiting"
                              /\ stage'[thread[w][1]] = thread[w][2]
                              /\ future'[thread[w][1]] = "none"
                           \/ /\ phase'[thread[w][1]] = "rejected"
                              /\ cause'[thread[w][1]] = "timeout"
      BY DEF NoJobInVain
    <2>1. thread[w][1] \in Requests \ {r}
      BY JobFields
    <2> QED
      BY <2>1 DEF NoJobInVain
  <1> QED
    BY <1>3, <1>4, <1>5 DEF JobsAccounted

\* A request that has no job is decided.
LEMMA Decided ==
    ASSUME TypeOK, NoJobLost, NoJobStray, NoJobInVain,
           NEW r \in Requests,
           \A i \in 1 .. Len(queue) : queue[i][1] # r,
           \A w \in Workers : thread[w] # NoJob => thread[w][1] # r,
           phase'[r] # "waiting",
           \A q \in Requests \ {r} : /\ phase'[q] = phase[q] /\ stage'[q] = stage[q]
                                     /\ future'[q] = future[q] /\ cause'[q] = cause[q],
           queue' = queue, thread' = thread
    PROVE  JobsAccounted'
  <1>1. NoJobLost'
    <2> SUFFICES ASSUME NEW q \in Requests, phase'[q] = "waiting"
                 PROVE  Queued(<<q, stage[q]>>)' \/ Running(<<q, stage[q]>>)' \/ future'[q] # "none"
      BY DEF NoJobLost
    <2>1. q # r
      OBVIOUS
    <2>2. phase[q] = "waiting" /\ stage'[q] = stage[q] /\ future'[q] = future[q]
      BY <2>1
    <2> QED
      BY <2>2 DEF NoJobLost, Queued, Running
  <1>2. NoJobStray'
    BY JobFields DEF NoJobStray, Running
  <1>3. NoJobInVain'
    BY JobFields DEF NoJobInVain
  <1> QED
    BY <1>1, <1>2, <1>3 DEF JobsAccounted

\* A request times out, and its job leaves the queue.
LEMMA TimedOut ==
    ASSUME TypeOK, NoJobLost, NoJobStray, NoJobInVain,
           NEW r \in Requests, Timeout(r)
    PROVE  JobsAccounted'
  <1>1. /\ phase[r] = "waiting"
        /\ phase'[r] = "rejected"
        /\ cause'[r] = "timeout"
        /\ stage' = stage
        /\ thread' = thread
        /\ \A q \in Requests \ {r} : /\ phase'[q] = phase[q] /\ cause'[q] = cause[q]
                                     /\ future'[q] = future[q]
    BY DEF Timeout, TypeOK
  <1> DEFINE n == Len(queue)
             job == <<r, stage[r]>>
  <1>2. job[1] = r /\ job[2] = stage[r]
    OBVIOUS
  <1>3. \A k \in 1 .. n : queue[k][1] = r => queue[k] = job
    BY JobFields DEF NoJobStray
  <1> HIDE DEF job
  \* What is left in the queue was there, once, and is not of r.
  <1>4. /\ \A j \in 1 .. Len(queue') : \E k \in 1 .. n : queue'[j] = queue[k] /\ queue[k][1] # r
        /\ \A k \in 1 .. n : queue[k][1] # r =>
             \E j \in 1 .. Len(queue') : queue'[j] = queue[k]
        /\ \A j, l \in 1 .. Len(queue') : queue'[j] = queue'[l] => j = l
    <2>0. n \in Nat /\ \A k, l \in 1 .. n : queue[k] = queue[l] => k = l
      BY JobFields DEF NoJobStray
    <2>1. CASE \E i \in 1 .. n : queue[i] = job /\ queue' = Without(i)
      <3>1. PICK i \in 1 .. n : queue[i] = job /\ queue' = Without(i)
        BY <2>1
      <3>2. \A k \in 1 .. n : k # i => queue[k][1] # r
        BY <1>3, <2>0, <3>1
      <3>3. \A j \in 1 .. Len(queue') :
              \/ j < i /\ j \in 1 .. n /\ queue'[j] = queue[j]
              \/ ~ (j < i) /\ j + 1 \in 1 .. n /\ queue'[j] = queue[j + 1]
        BY <3>1, WithoutIs
      <3>4. \A k \in 1 .. n : k # i => \E j \in 1 .. Len(queue') : queue'[j] = queue[k]
        BY <3>1, WithoutIs
      <3>5. i \in Nat
        BY <2>0, <3>1
      <3>6. Len(queue') \in Nat
        BY <3>1, WithoutIs
      <3> HIDE DEF n
      <3>7. ASSUME NEW j \in 1 .. Len(queue')
            PROVE  \E k \in 1 .. n : queue'[j] = queue[k] /\ queue[k][1] # r
        <4>1. CASE j < i /\ j \in 1 .. n /\ queue'[j] = queue[j]
          BY <3>2, <3>5, <3>6, <4>1
        <4>2. CASE ~ (j < i) /\ j + 1 \in 1 .. n /\ queue'[j] = queue[j + 1]
          <5>1. j + 1 # i
            BY <3>5, <3>6, <4>2
          <5> QED
            BY <3>2, <4>2, <5>1
        <4> QED
          BY <3>3, <4>1, <4>2
      <3>8. \A k \in 1 .. n : queue[k][1] # r => \E j \in 1 .. Len(queue') : queue'[j] = queue[k]
        BY <1>2, <3>1, <3>4
      <3>9. \A j, l \in 1 .. Len(queue') : queue'[j] = queue'[l] => j = l
        BY <2>0, <3>3, <3>5, <3>6
      <3> QED
        BY <3>7, <3>8, <3>9
    <2>2. CASE ~Queued(job) /\ queue' = queue
      <3>1. \A k \in 1 .. n : queue[k][1] # r
        BY <1>3, <2>2 DEF Queued
      <3> QED
        BY <2>0, <2>2, <3>1
    <2> QED
      BY <2>1, <2>2 DEF Timeout, job
  <1>5. NoJobLost'
    <2> SUFFICES ASSUME NEW q \in Requests, phase'[q] = "waiting"
                 PROVE  Queued(<<q, stage[q]>>)' \/ Running(<<q, stage[q]>>)' \/ future'[q] # "none"
      BY DEF NoJobLost
    <2>1. q # r /\ phase[q] = "waiting" /\ future'[q] = future[q]
      BY <1>1
    <2>2. Queued(<<q, stage[q]>>) \/ Running(<<q, stage[q]>>) \/ future[q] # "none"
      BY <2>1 DEF NoJobLost
    <2>3. ASSUME Queued(<<q, stage[q]>>) PROVE Queued(<<q, stage[q]>>)'
      <3>1. PICK k \in 1 .. n : queue[k] = <<q, stage[q]>>
        BY <2>3 DEF Queued
      <3>2. queue[k][1] # r
        BY <2>1, <3>1
      <3> QED
        BY <1>1, <1>4, <3>1, <3>2 DEF Queued
    <2> QED
      BY <1>1, <2>1, <2>2, <2>3 DEF Running
  <1>6. NoJobStray'
    <2> SUFFICES ASSUME NEW j \in 1 .. Len(queue')
                 PROVE  /\ phase'[queue'[j][1]] = "waiting"
                        /\ stage[queue'[j][1]] = queue'[j][2]
                        /\ future'[queue'[j][1]] = "none"
                        /\ \A w \in Workers : thread[w] # queue'[j]
                        /\ \A l \in 1 .. Len(queue') : queue'[l] = queue'[j] => j = l
      BY <1>1 DEF NoJobStray, Running
    <2>1. PICK k \in 1 .. n : queue'[j] = queue[k] /\ queue[k][1] # r
      BY <1>4
    <2>2. queue[k][1] \in Requests
      BY JobFields
    <2>3. /\ phase[queue[k][1]] = "waiting"
          /\ stage[queue[k][1]] = queue[k][2]
          /\ future[queue[k][1]] = "none"
          /\ \A w \in Workers : thread[w] # queue[k]
      BY DEF NoJobStray, Running
    <2> QED
      BY <1>1, <1>4, <2>1, <2>2, <2>3
  <1>7. NoJobInVain'
    BY <1>1, JobFields DEF NoJobInVain
  <1> QED
    BY <1>5, <1>6, <1>7 DEF JobsAccounted

\* A thread takes a job.
LEMMA Taken ==
    ASSUME TypeOK, NoJobLost, NoJobStray, NoJobInVain,
           NEW w \in Workers, Take(w)
    PROVE  JobsAccounted'
  <1> DEFINE n == Len(queue)
             head == queue[1]
  <1>1. /\ n \in Nat
        /\ 1 \in 1 .. n
        /\ Len(queue') = n - 1
        /\ \A i \in 1 .. n - 1 : i + 1 \in 1 .. n /\ queue'[i] = queue[i + 1]
        /\ Head(queue) = head
    <2>1. queue \in Seq(Jobs) /\ queue # << >> /\ queue' = Tail(queue)
      BY DEF Take, TypeOK
    <2> QED
      BY <2>1
  <1>2. /\ thread[w] = NoJob
        /\ thread' = [thread EXCEPT ![w] = head]
        /\ thread \in [Workers -> Jobs \cup {NoJob}]
        /\ phase' = phase /\ stage' = stage /\ future' = future /\ cause' = cause
    BY <1>1 DEF Take, TypeOK
  <1>3. thread'[w] = head /\ \A v \in Workers \ {w} : thread'[v] = thread[v]
    BY <1>2
  <1>4. /\ phase[head[1]] = "waiting" /\ stage[head[1]] = head[2] /\ future[head[1]] = "none"
        /\ \A v \in Workers : thread[v] # head
        /\ \A j \in 1 .. n : queue[j] = head => 1 = j
        /\ head # NoJob
    BY <1>1, JobFields DEF NoJobStray, Running
  <1> HIDE DEF head
  <1>5. NoJobLost'
    <2> SUFFICES ASSUME NEW q \in Requests, phase[q] = "waiting"
                 PROVE  \/ \E i \in 1 .. Len(queue') : queue'[i] = <<q, stage[q]>>
                        \/ \E v \in Workers : thread'[v] = <<q, stage[q]>>
                        \/ future[q] # "none"
      BY <1>2 DEF NoJobLost, Queued, Running
    <2>1. CASE Queued(<<q, stage[q]>>)
      <3>1. PICK i \in 1 .. n : queue[i] = <<q, stage[q]>>
        BY <2>1 DEF Queued
      <3>2. CASE i = 1
        BY <1>3, <3>1, <3>2 DEF head
      <3>3. CASE i # 1
        <4>1. i - 1 \in 1 .. n - 1 /\ (i - 1) + 1 = i
          BY <1>1, <3>3
        <4> QED
          BY <1>1, <3>1, <4>1
      <3> QED
        BY <3>2, <3>3
    <2>2. CASE Running(<<q, stage[q]>>)
      <3>1. PICK v \in Workers : thread[v] = <<q, stage[q]>>
        BY <2>2 DEF Running
      <3>2. <<q, stage[q]>> # NoJob
        BY JobFields DEF TypeOK, Jobs
      <3>3. v # w
        BY <1>2, <3>1, <3>2
      <3> QED
        BY <1>3, <3>1, <3>3
    <2> QED
      BY <2>1, <2>2 DEF NoJobLost
  <1>6. NoJobStray'
    <2> SUFFICES ASSUME NEW i \in 1 .. n - 1
                 PROVE  /\ phase[queue'[i][1]] = "waiting"
                        /\ stage[queue'[i][1]] = queue'[i][2]
                        /\ future[queue'[i][1]] = "none"
                        /\ \A v \in Workers : thread'[v] # queue'[i]
                        /\ \A j \in 1 .. n - 1 : queue'[j] = queue'[i] => i = j
      BY <1>1, <1>2 DEF NoJobStray, Running
    <2>1. i + 1 \in 1 .. n /\ queue'[i] = queue[i + 1] /\ i + 1 # 1
      BY <1>1
    <2>2. /\ phase[queue[i + 1][1]] = "waiting"
          /\ stage[queue[i + 1][1]] = queue[i + 1][2]
          /\ future[queue[i + 1][1]] = "none"
          /\ \A v \in Workers : thread[v] # queue[i + 1]
          /\ \A j \in 1 .. n : queue[j] = queue[i + 1] => i + 1 = j
      BY <2>1 DEF NoJobStray, Running
    <2>3. queue[i + 1] # head
      BY <1>4, <2>1
    <2>4. \A j \in 1 .. n - 1 : queue'[j] = queue'[i] => i = j
      BY <1>1, <2>1, <2>2
    <2> QED
      BY <1>3, <2>1, <2>2, <2>3, <2>4
  <1>7. NoJobInVain'
    <2> SUFFICES ASSUME NEW u \in Workers, thread'[u] # NoJob
                 PROVE  /\ \A v \in Workers : thread'[v] = thread'[u] => v = u
                        /\ \/ /\ phase[thread'[u][1]] = "waiting"
                              /\ stage[thread'[u][1]] = thread'[u][2]
                              /\ future[thread'[u][1]] = "none"
                           \/ /\ phase[thread'[u][1]] = "rejected"
                              /\ cause[thread'[u][1]] = "timeout"
      BY <1>2 DEF NoJobInVain
    <2>1. CASE u = w
      BY <1>3, <1>4, <2>1
    <2>2. CASE u # w
      BY <1>3, <1>4, <2>2 DEF NoJobInVain
    <2> QED
      BY <2>1, <2>2
  <1> QED
    BY <1>5, <1>6, <1>7 DEF JobsAccounted

\* A stage ends.
LEMMA Finished ==
    ASSUME TypeOK, NoJobLost, NoJobStray, NoJobInVain,
           NEW w \in Workers, Finish(w)
    PROVE  JobsAccounted'
  <1> DEFINE job == thread[w]
             r == job[1]
             s == job[2]
  <1>1. /\ job # NoJob /\ job = <<r, s>> /\ r \in Requests /\ s \in Stages
        /\ queue' = queue /\ phase' = phase /\ stage' = stage /\ cause' = cause
    BY JobFields DEF Finish
  <1>2. thread'[w] = NoJob /\ \A v \in Workers \ {w} : thread'[v] = thread[v]
    BY DEF Finish, TypeOK
  <1>3. /\ \A v \in Workers : thread[v] = job => v = w
        /\ \/ phase[r] = "waiting" /\ stage[r] = s /\ future[r] = "none"
           \/ phase[r] = "rejected" /\ cause[r] = "timeout"
    BY <1>1 DEF NoJobInVain
  <1>4. /\ \A q \in Requests \ {r} : future'[q] = future[q]
        /\ phase[r] = "waiting" => future'[r] # "none"
        /\ phase[r] # "waiting" => future'[r] = future[r]
    <2>1. ctx[r] \in Contexts
      BY <1>1 DEF TypeOK
    <2>2. StageFn(s, ctx[r]) # "none"
      BY <1>1, <2>1, StageOutcome DEF Outcome
    <2>3. future' = [future EXCEPT ![r] = IF phase[r] = "waiting" THEN StageFn(s, ctx[r]) ELSE @]
      BY DEF Finish
    <2> HIDE DEF r, s
    <2> QED
      BY <1>1, <2>2, <2>3 DEF TypeOK
  <1> HIDE DEF job, r, s
  <1>5. NoJobLost'
    <2> SUFFICES ASSUME NEW q \in Requests, phase[q] = "waiting"
                 PROVE  \/ Queued(<<q, stage[q]>>)
                        \/ \E v \in Workers : thread'[v] = <<q, stage[q]>>
                        \/ future'[q] # "none"
      BY <1>1 DEF NoJobLost, Queued, Running
    <2>1. CASE q = r
      BY <1>4, <2>1
    <2>2. CASE q # r
      <3>1. <<q, stage[q]>> # job
        BY <1>1, <2>2
      <3>2. \A v \in Workers : thread[v] = <<q, stage[q]>> => v # w
        BY <3>1 DEF job
      <3> QED
        BY <1>2, <1>4, <2>2, <3>2 DEF NoJobLost, Running
    <2> QED
      BY <2>1, <2>2
  <1>6. NoJobStray'
    <2> SUFFICES ASSUME NEW i \in 1 .. Len(queue)
                 PROVE  /\ phase[queue[i][1]] = "waiting"
                        /\ stage[queue[i][1]] = queue[i][2]
                        /\ future'[queue[i][1]] = "none"
                        /\ \A v \in Workers : thread'[v] # queue[i]
                        /\ \A j \in 1 .. Len(queue) : queue[j] = queue[i] => i = j
      BY <1>1 DEF NoJobStray, Running
    <2>1. /\ phase[queue[i][1]] = "waiting"
          /\ stage[queue[i][1]] = queue[i][2]
          /\ future[queue[i][1]] = "none"
          /\ \A v \in Workers : thread[v] # queue[i]
          /\ \A j \in 1 .. Len(queue) : queue[j] = queue[i] => i = j
      BY DEF NoJobStray, Running
    <2>2. /\ queue[i] = <<queue[i][1], queue[i][2]>>
          /\ queue[i][1] \in Requests
          /\ queue[i] # NoJob
      BY JobFields
    <2>3. queue[i][1] # r
      <3>1. CASE phase[r] = "waiting" /\ stage[r] = s
        BY <1>1, <2>1, <2>2, <3>1 DEF job
      <3>2. CASE phase[r] = "rejected"
        BY <2>1, <3>2
      <3> QED
        BY <1>3, <3>1, <3>2
    <2> QED
      BY <1>2, <1>4, <2>1, <2>2, <2>3
  <1>7. NoJobInVain'
    <2> SUFFICES ASSUME NEW u \in Workers, thread'[u] # NoJob
                 PROVE  /\ \A v \in Workers : thread'[v] = thread'[u] => v = u
                        /\ \/ /\ phase[thread'[u][1]] = "waiting"
                              /\ stage[thread'[u][1]] = thread'[u][2]
                              /\ future'[thread'[u][1]] = "none"
                           \/ /\ phase[thread'[u][1]] = "rejected"
                              /\ cause[thread'[u][1]] = "timeout"
      BY <1>1 DEF NoJobInVain
    <2>1. u # w /\ thread'[u] = thread[u]
      BY <1>2
    <2>2. thread[u] = <<thread[u][1], thread[u][2]>> /\ thread[u][1] \in Requests
      BY <2>1, JobFields
    <2>3. /\ \A v \in Workers : thread[v] = thread[u] => v = u
          /\ \/ /\ phase[thread[u][1]] = "waiting"
                /\ stage[thread[u][1]] = thread[u][2]
                /\ future[thread[u][1]] = "none"
             \/ /\ phase[thread[u][1]] = "rejected"
                /\ cause[thread[u][1]] = "timeout"
      BY <2>1 DEF NoJobInVain
    <2>4. \A v \in Workers : thread'[v] = thread'[u] => v = u
      BY <1>2, <2>1, <2>3
    <2>5. CASE thread[u][1] = r /\ phase[r] = "waiting"
      <3>1. thread[u] = job
        BY <1>1, <1>3, <2>2, <2>3, <2>5
      <3> QED
        BY <1>3, <2>1, <3>1
    <2>6. CASE ~ (thread[u][1] = r /\ phase[r] = "waiting")
      BY <1>4, <2>1, <2>2, <2>3, <2>4, <2>6
    <2> QED
      BY <2>5, <2>6
  <1> QED
    BY <1>5, <1>6, <1>7 DEF JobsAccounted

\* Every step keeps the jobs and the requests that wait in agreement.
LEMMA JobsStep == IndInv /\ [Next]_vars => JobsAccounted'
  <1> SUFFICES ASSUME IndInv, [Next]_vars PROVE JobsAccounted'
    OBVIOUS
  <1>0. TypeOK /\ NoJobLost /\ NoJobStray /\ NoJobInVain /\ Verdicts
    BY DEF IndInv, JobsAccounted
  <1>1. ASSUME NEW r \in Requests, Start(r) PROVE JobsAccounted'
    <2>1. phase[r] = "start" /\ stage[r] = 1 /\ future[r] = "none" /\ 1 \in Stages
      BY <1>0, <1>1 DEF Start, Verdicts, Stages
    <2>2. /\ \A i \in 1 .. Len(queue) : queue[i][1] # r
          /\ \A w \in Workers : thread[w] # NoJob => thread[w][1] # r
      BY <1>0, <2>1 DEF NoJobStray, NoJobInVain
    <2>3. /\ phase'[r] = "waiting" /\ stage'[r] = 1 /\ future'[r] = "none"
          /\ \A q \in Requests \ {r} : /\ phase'[q] = phase[q] /\ stage'[q] = stage[q]
                                       /\ future'[q] = future[q] /\ cause'[q] = cause[q]
          /\ thread' = thread /\ queue' = Append(queue, <<r, 1>>)
      BY <1>0, <1>1, <2>1 DEF Start, TypeOK
    <2> QED
      BY <1>0, <2>1, <2>2, <2>3, Appended, NewJob
  <1>2. ASSUME NEW r \in Requests, Collect(r) PROVE JobsAccounted'
    <2>1. phase[r] = "waiting" /\ future[r] # "none" /\ 2 \in Stages
      BY <1>2 DEF Collect, Stages
    <2>2. /\ \A i \in 1 .. Len(queue) : queue[i][1] # r
          /\ \A w \in Workers : thread[w] # NoJob => thread[w][1] # r
      BY <1>0, <2>1 DEF NoJobStray, NoJobInVain
    <2>3. /\ \A q \in Requests \ {r} : /\ phase'[q] = phase[q] /\ stage'[q] = stage[q]
                                       /\ future'[q] = future[q] /\ cause'[q] = cause[q]
          /\ thread' = thread
      BY <1>0, <1>2 DEF Collect, TypeOK
    <2>4. \/ queue' = queue /\ phase'[r] # "waiting"
          \/ /\ queue' = Append(queue, <<r, 2>>)
             /\ phase'[r] = "waiting" /\ stage'[r] = 2 /\ future'[r] = "none"
      BY <1>0, <1>2 DEF Collect, TypeOK
    <2>5. CASE queue' = queue /\ phase'[r] # "waiting"
      BY <1>0, <2>2, <2>3, <2>5, Decided
    <2>6. CASE /\ queue' = Append(queue, <<r, 2>>)
               /\ phase'[r] = "waiting" /\ stage'[r] = 2 /\ future'[r] = "none"
      BY <1>0, <2>1, <2>2, <2>3, <2>6, Appended, NewJob
    <2> QED
      BY <2>4, <2>5, <2>6
  <1>3. ASSUME NEW r \in Requests, Timeout(r) PROVE JobsAccounted'
    BY <1>0, <1>3, TimedOut
  <1>4. ASSUME NEW w \in Workers, Take(w) PROVE JobsAccounted'
    BY <1>0, <1>4, Taken
  <1>5. ASSUME NEW w \in Workers, Finish(w) PROVE JobsAccounted'
    BY <1>0, <1>5, Finished
  <1>6. CASE UNCHANGED vars
    <2>1. /\ phase' = phase /\ stage' = stage /\ future' = future /\ cause' = cause
          /\ queue' = queue /\ thread' = thread
      BY <1>6 DEF vars
    <2>2. NoJobLost'
      BY <1>0, <2>1 DEF NoJobLost, Queued, Running
    <2>3. NoJobStray'
      BY <1>0, <2>1 DEF NoJobStray, Running
    <2>4. NoJobInVain'
      BY <1>0, <2>1 DEF NoJobInVain
    <2> QED
      BY <2>2, <2>3, <2>4 DEF JobsAccounted
  <1> QED
    BY <1>1, <1>2, <1>3, <1>4, <1>5, <1>6 DEF Next

\* The inductive invariant holds.
LEMMA Inductive == Spec => []IndInv
  <1>1. IndInv /\ [Next]_vars => IndInv'
    BY TypeStep, JobsStep, VerdictsStep DEF IndInv
  <1> QED
    BY InitInv, <1>1, PTL DEF Spec

\* Every variable keeps its type.
THEOREM TypeCorrect == Spec => []TypeOK
  <1>1. IndInv => TypeOK
    BY DEF IndInv
  <1> QED
    BY Inductive, <1>1, PTL

\* The queue, the threads and the waiting requests agree, for a pool of any size.
THEOREM JobsAreAccounted == Spec => []JobsAccounted
  <1>1. IndInv => JobsAccounted
    BY DEF IndInv
  <1> QED
    BY Inductive, <1>1, PTL

\* Fail-closed: only what the rules and the contract permit is admitted.
THEOREM AdmittedArePermitted == Spec => []AdmittedIsPermitted
  <1>1. IndInv => AdmittedIsPermitted
    BY StagesDecide DEF IndInv, Verdicts, AdmittedIsPermitted, TypeOK
  <1> QED
    BY Inductive, <1>1, PTL

\* What the rules and the contract permit is only ever rejected by a timeout.
THEOREM PermittedAreTimedOut == Spec => []PermittedOnlyTimesOut
  <1>1. IndInv => PermittedOnlyTimesOut
    BY StagesDecide DEF IndInv, Verdicts, PermittedOnlyTimesOut, TypeOK
  <1> QED
    BY Inductive, <1>1, PTL
=============================================================================
