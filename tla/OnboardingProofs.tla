--------------------------- MODULE OnboardingProofs ---------------------------
(***************************************************************************)
(* Proofs about Onboarding: it is a behaviour of each of its two parts, so *)
(* what is proved of them holds of an agent that is being created among    *)
(* others while programs run.                                              *)
(***************************************************************************)
EXTENDS Onboarding, ClawciergeAgentProofs

RegProofs == INSTANCE RegistrationProofs

\* A step is a step of one part and a stutter of the other.
LEMMA PartStep ==
    ASSUME [OnboardingNext]_OnboardingVars
    PROVE  [Next]_vars /\ [Reg!Next]_regVars
  <1>1. CASE Client(Next)
    BY <1>1 DEF Client
  <1>2. CASE Platform(Reg!Next)
    BY <1>2 DEF Platform
  <1>3. CASE UNCHANGED OnboardingVars
    BY <1>3 DEF OnboardingVars, regVars
  <1> QED
    BY <1>1, <1>2, <1>3 DEF OnboardingNext

\* The agent program does nothing here that ClawciergeAgent does not allow.
LEMMA OnboardingRunsAgent == OnboardingSpec => Spec
  <1>1. OnboardingInit => Init
    BY DEF OnboardingInit
  <1> QED
    BY <1>1, PartStep, PTL DEF OnboardingSpec, Spec

\* The instance with the proofs is the same specification.
LEMMA SameSteps == Reg!Next => RegProofs!Next
  BY
    DEF Reg!Next, RegProofs!Next, Reg!Invalid, RegProofs!Invalid, Reg!Check,
        RegProofs!Check, Reg!Proceed, RegProofs!Proceed, Reg!InsertAgent,
        RegProofs!InsertAgent, Reg!InsertHandle, RegProofs!InsertHandle,
        Reg!KeyIsBusy, RegProofs!KeyIsBusy, Reg!Commit, RegProofs!Commit,
        Reg!Respond, RegProofs!Respond, Reg!Fail, RegProofs!Fail, Reg!StartDelete,
        RegProofs!StartDelete, Reg!EndDelete, RegProofs!EndDelete, Reg!CommitDelete,
        RegProofs!CommitDelete, Reg!FailDelete, RegProofs!FailDelete, Reg!Goto,
        RegProofs!Goto, Reg!tables, RegProofs!tables

\* Nor the platform what Registration does not.
LEMMA RunsRegistration == OnboardingSpec => RegProofs!Spec
  <1>1. OnboardingInit => RegProofs!Init
    BY DEF OnboardingInit, Reg!Init, RegProofs!Init
  <1>2. [OnboardingNext]_OnboardingVars => [RegProofs!Next]_(RegProofs!vars)
    BY PartStep, SameSteps DEF regVars, RegProofs!vars
  <1> QED
    BY <1>1, <1>2, PTL DEF OnboardingSpec, RegProofs!Spec

\* An agent whose program runs has its row, its handle and its key, or is deleted
\* with all but the key.
THEOREM AgentsAreComplete == OnboardingSpec => []AgentIsComplete
  <1>1. RegProofs!AgentIsComplete => AgentIsComplete
    BY DEF AgentIsComplete, Reg!AgentIsComplete, RegProofs!AgentIsComplete, Reg!Resolve,
           RegProofs!Resolve, Reg!Authenticates, RegProofs!Authenticates
  <1> QED
    BY <1>1, RunsRegistration, RegProofs!AgentsAreComplete, PTL

\* The key a program was started with works for as long as it runs, and the handle
\* until an operator deletes the agent.
THEOREM ReturnedKeysWork == OnboardingSpec => []ReturnedKeyWorks
  <1>1. RegProofs!ReturnedKeyWorks => ReturnedKeyWorks
    BY DEF ReturnedKeyWorks, Reg!ReturnedKeyWorks, RegProofs!ReturnedKeyWorks, Reg!Resolve,
           RegProofs!Resolve, Reg!Authenticates, RegProofs!Authenticates
  <1> QED
    BY <1>1, RunsRegistration, RegProofs!ReturnedKeysWork, PTL

\* The registrations among which the programs run behave as one directory of
\* handles.
THEOREM OnboardingIsDirectory == OnboardingSpec => ImplementsDirectory
  <1>1. RegProofs!ImplementsDirectory => ImplementsDirectory
    <2>1. RegProofs!Dir!Init => Reg!Dir!Init
      BY DEF Reg!Dir!Init, RegProofs!Dir!Init, Reg!Resolve, RegProofs!Resolve
    <2>2. [RegProofs!Dir!Next]_(RegProofs!Dir!vars) => [Reg!Dir!Next]_(Reg!Dir!vars)
      BY DEF Reg!Dir!Next, Reg!Dir!Claim, Reg!Dir!Release, Reg!Dir!vars, Reg!Resolve,
             RegProofs!Dir!Next, RegProofs!Dir!Claim, RegProofs!Dir!Release,
             RegProofs!Dir!vars, RegProofs!Resolve
    <2> QED
      BY <2>1, <2>2, PTL
      DEF ImplementsDirectory, Reg!ImplementsDirectory, RegProofs!ImplementsDirectory,
          Reg!Dir!Spec, RegProofs!Dir!Spec
  <1> QED
    BY <1>1, RunsRegistration, RegProofs!RegistrationIsDirectory, PTL

-----------------------------------------------------------------------------
(* The program of the agent.                                               *)

\* No program runs, or has a socket, without the key that a registration returned;
\* and that key still authenticates it, so an attempt to come back is never refused
\* for its key, even when the agent's row has been deleted meanwhile.
RunsWithItsKey ==
    (loop # "idle" \/ current # NoSession) =>
      /\ creation[Own] = "created"
      /\ Reg!Authenticates(Own)
      /\ Reg!Resolve(wanted[Own]) = {Own} \/ removal[Own] = "deleted"

\* A POST that has answered stays answered.
LEMMA CreatedStays ==
    ASSUME Reg!TypeOK, [Reg!Next]_regVars, creation[Own] = "created"
    PROVE  creation'[Own] = "created"
  <1> USE OwnAssumption DEF Reg!TypeOK, Reg!CreationState, Reg!Goto, Reg!tables
  <1>1. ASSUME NEW c \in Creations, Reg!Invalid(c) \/ Reg!Check(c) \/ Reg!InsertAgent(c)
        PROVE  creation'[Own] = "created"
    BY <1>1 DEF Reg!Invalid, Reg!Check, Reg!InsertAgent
  <1>2. ASSUME NEW c \in Creations, Reg!InsertHandle(c) \/ Reg!Commit(c)
        PROVE  creation'[Own] = "created"
    BY <1>2 DEF Reg!InsertHandle, Reg!Commit
  <1>3. ASSUME NEW c \in Creations, Reg!Respond(c) \/ Reg!Fail(c)
        PROVE  creation'[Own] = "created"
    BY <1>3 DEF Reg!Respond, Reg!Fail
  <1>4. ASSUME NEW c \in Creations, Reg!StartDelete(c) \/ Reg!EndDelete(c)
        PROVE  creation'[Own] = "created"
    BY <1>4 DEF Reg!StartDelete, Reg!EndDelete, Reg!CommitDelete, Reg!FailDelete
  <1>5. CASE UNCHANGED regVars
    BY <1>5 DEF regVars
  <1> QED
    BY <1>1, <1>2, <1>3, <1>4, <1>5 DEF Reg!Next, Reg!Proceed

\* A program that has a socket has left "idle" for good.
LEMMA StartedOnce ==
    ASSUME [Next]_vars
    PROVE  /\ loop' = "idle" => loop = "idle"
           /\ (loop = "idle" /\ loop' = "idle") => current' = current
  BY DEF Next, LoopStep, BeatStep, Connect, Accepted, Refused, Wake, Handled, EndSession,
         Stopped, Receive, BeatEnds, Disconnect, Closed, PeerCloses, Retry, vars

StartedWithKey == (loop # "idle" \/ current # NoSession) => creation[Own] = "created"

\* Whatever registers and deletes agents beside it, a running program has a key
\* that works.
THEOREM ProgramsHaveTheirKey == OnboardingSpec => []RunsWithItsKey
  <1>1. OnboardingInit => StartedWithKey
    BY DEF OnboardingInit, Init, StartedWithKey
  <1>2. Reg!TypeOK /\ StartedWithKey /\ [OnboardingNext]_OnboardingVars => StartedWithKey'
    <2> SUFFICES ASSUME Reg!TypeOK, StartedWithKey, [OnboardingNext]_OnboardingVars
                 PROVE  StartedWithKey'
      OBVIOUS
    <2>1. [Next]_vars /\ [Reg!Next]_regVars
      BY PartStep
    <2>2. creation[Own] = "created" => creation'[Own] = "created"
      BY <2>1, CreatedStays
    <2>3. CASE Client(Next)
      BY <2>1, <2>2, <2>3, StartedOnce DEF Client, Permitted, StartedWithKey
    <2>4. CASE UNCHANGED vars
      BY <2>2, <2>4 DEF vars, StartedWithKey
    <2> QED
      BY <2>3, <2>4 DEF OnboardingNext, OnboardingVars, Platform
  <1>3. RegProofs!TypeOK => Reg!TypeOK
    BY DEF Reg!TypeOK, RegProofs!TypeOK, Reg!CreationState, RegProofs!CreationState
  <1>4. StartedWithKey /\ ReturnedKeyWorks => RunsWithItsKey
    BY OwnAssumption DEF StartedWithKey, ReturnedKeyWorks, Reg!ReturnedKeyWorks, RunsWithItsKey
  <1> QED
    BY <1>1, <1>2, <1>3, <1>4, RunsRegistration, RegProofs!TypeCorrect, ReturnedKeysWork,
       PTL DEF OnboardingSpec

\* What is proved of the agent program alone holds of one that runs beside the
\* platform: it has its types, one heartbeat that belongs to its session, and after
\* disconnect at most one session, opened late.
THEOREM AgentInvariantsCarryOver ==
    OnboardingSpec => [](TypeOK /\ OneHeartbeat /\ SurvivorWasLate /\ OneLateSession)
  BY OnboardingRunsAgent, TypeCorrect, HeartbeatsEnd, SurvivorsAreLate,
     AtMostOneLateSession, PTL
=============================================================================
