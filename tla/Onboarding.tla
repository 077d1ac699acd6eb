----------------------------- MODULE Onboarding -----------------------------
(***************************************************************************)
(* An agent from its registration on: the POST that creates it             *)
(* (Registration), among others and under deletions, and the agent program *)
(* (ClawciergeAgent), which is started with the key that the POST returned *)
(* and is accepted by agent_websocket for as long as the key authenticates *)
(* it.                                                                     *)
(***************************************************************************)
EXTENDS ClawciergeAgent

CONSTANTS
    Creations, Handles, InsertsFail,  \* see Registration
    Own                               \* the POST that created this agent

ASSUME OwnAssumption == Own \in Creations

VARIABLES creation, wanted, agents, handles, keys, removal

Reg == INSTANCE Registration

regVars == <<creation, wanted, agents, handles, keys, removal>>

OnboardingVars == <<vars, regVars>>

OnboardingInit == Init /\ Reg!Init

-----------------------------------------------------------------------------
\* The program is started with a key; and agent_websocket accepts it when the key
\* authenticates it: it looks at the key only, not at the agent's row.
Permitted ==
    /\ (loop = "idle" /\ loop' # "idle") => creation[Own] = "created"
    /\ current' # current => Reg!Authenticates(Own)

Client(A) == A /\ Permitted /\ UNCHANGED regVars

Platform(A) == A /\ UNCHANGED vars

OnboardingNext == Client(Next) \/ Platform(Reg!Next)

OnboardingSpec == OnboardingInit /\ [][OnboardingNext]_OnboardingVars

\* What each of the two assumes of its own tasks.
OnboardingFairness ==
    /\ WF_OnboardingVars(Client(LoopStep))
    /\ WF_OnboardingVars(Client(BeatStep))
    /\ \A d \in Calls : WF_OnboardingVars(Client(Closed(d)))
    /\ \A c \in Creations :
         /\ WF_OnboardingVars(Platform(Reg!Proceed(c)))
         /\ WF_OnboardingVars(Platform(Reg!EndDelete(c)))

OnboardingFairSpec == OnboardingSpec /\ OnboardingFairness

-----------------------------------------------------------------------------
(* What Registration promises, beside a running agent program.             *)

\* An agent is created and deleted in one piece, with its handle and its key.
AgentIsComplete == Reg!AgentIsComplete

\* A returned key authenticates for ever, and the agent keeps its handle until
\* it is deleted.
ReturnedKeyWorks == Reg!ReturnedKeyWorks

\* Registrations that wait for each other, and for deletions, all end.
CreationEnds == Reg!CreationEnds

\* A handle has one owner, who keeps it until an operator deletes the agent.
ImplementsDirectory == Reg!ImplementsDirectory
=============================================================================
