-------------------------- MODULE RequestAdmission ---------------------------
(***************************************************************************)
(* What a request is checked against, while uploads go on: submit_request  *)
(* (routes/requests.py) reads the active capability contract with one      *)
(* statement and the active policy with the next; so does the admin page   *)
(* of the agent (routes/admin.py).  The contracts are uploaded as          *)
(* VersionedUpload says, the policies as another instance of it.           *)
(*                                                                         *)
(* Every handler has a session (database.py), which takes a connection     *)
(* from the engine's pool at its first statement, and gives it back when   *)
(* the transaction or the handler ends.  What a handler does after its own *)
(* commit (refresh, the status of a request) takes a connection again and  *)
(* waits for no other one while it has it; this, and the sessions of the   *)
(* other handlers, are left out.                                           *)
(***************************************************************************)
EXTENDS VersionedUpload, FiniteSets

CONSTANTS
    PolicyUploads, \* the PUTs of a policy, like Uploads those of a contract
    Readers,       \* the POSTs of requests to the agent, and the views of its
                   \* admin page: the same statements
    NoVersion,     \* no contract, or policy, is active
    PoolSize       \* the connections of the engine's pool

ASSUME AdmissionAssumption ==
    /\ NoVersion \notin Uploads \cup PolicyUploads
    /\ PoolSize \in Nat \ {0}

\* A name is that of one handler: the pool counts names.
ASSUME HandlersDisjoint ==
    /\ Uploads \cap PolicyUploads = {}
    /\ Uploads \cap Readers = {}
    /\ PolicyUploads \cap Readers = {}

VARIABLES
    pUpload, pCurrent, pMatched, pAt, pLocked, pVersion, pActive, pSeen, \* see
              \* VersionedUpload
    reader,   \* where the handler stands, for each of Readers
    contract, \* the contract it has read
    policy,   \* the policy it has read
    began,    \* history: the uploads committed when the reader began
    offered   \* history: the policies committed when an upload of a contract began

Policies == INSTANCE VersionedUpload WITH
    Uploads <- PolicyUploads,
    upload <- pUpload, current <- pCurrent, matched <- pMatched, at <- pAt,
    locked <- pLocked, version <- pVersion, active <- pActive, seen <- pSeen

policyVars == <<pUpload, pCurrent, pMatched, pAt, pLocked, pVersion, pActive, pSeen>>
readerVars == <<reader, contract, policy, began>>
admissionVars == <<vars, policyVars, readerVars, offered>>

ReaderState == {"start", "open", "contract", "policy", "done", "failed"}

ReaderTypeOK ==
    /\ reader \in [Readers -> ReaderState]
    /\ contract \in [Readers -> Uploads \cup {NoVersion}]
    /\ policy \in [Readers -> PolicyUploads \cup {NoVersion}]
    /\ began \in [Readers -> [contracts : SUBSET Uploads, policies : SUBSET PolicyUploads]]
    /\ offered \in [Uploads -> SUBSET PolicyUploads]

AdmissionTypeOK == TypeOK /\ Policies!TypeOK /\ ReaderTypeOK

AdmissionInit ==
    /\ Init
    /\ Policies!Init
    /\ reader = [r \in Readers |-> "start"]
    /\ contract = [r \in Readers |-> NoVersion]
    /\ policy = [r \in Readers |-> NoVersion]
    /\ began = [r \in Readers |-> [contracts |-> {}, policies |-> {}]]
    /\ offered = [u \in Uploads |-> {}]

-----------------------------------------------------------------------------
(* The connections of the pool.                                            *)

\* Mutant: a session whose handler raised keeps its connection.
InUseLeaky ==
    {u \in Uploads : upload[u] \in {"read", "updating", "failed"}}
      \cup {p \in PolicyUploads : pUpload[p] \in {"read", "updating", "failed"}}
      \cup {r \in Readers : reader[r] \in {"open", "contract", "policy", "failed"}}

InUse ==
    {u \in Uploads : upload[u] \in {"read", "updating"}}
      \cup {p \in PolicyUploads : pUpload[p] \in {"read", "updating"}}
      \cup {r \in Readers : reader[r] \in {"open", "contract", "policy"}}

PoolFree == Cardinality(InUse) < PoolSize

-----------------------------------------------------------------------------
(* The uploads, each of which begins when it gets a connection.            *)

BeginContract(u) ==
    /\ PoolFree
    /\ Read(u)
    /\ offered' = [offered EXCEPT ![u] = Policies!Committed]
    /\ UNCHANGED <<policyVars, readerVars>>

GoOnContract(u) == Proceed(u) /\ UNCHANGED <<policyVars, readerVars, offered>>

FailContract(u) ==
    /\ Fail(u)
    /\ offered' = [offered EXCEPT ![u] = {}]
    /\ UNCHANGED <<policyVars, readerVars>>

VictimContract(u) ==
    /\ Victim(u)
    /\ offered' = [offered EXCEPT ![u] = {}]
    /\ UNCHANGED <<policyVars, readerVars>>

BeginPolicy(p) ==
    /\ PoolFree
    /\ Policies!Read(p)
    /\ UNCHANGED <<vars, readerVars, offered>>

GoOnPolicy(p) == Policies!Proceed(p) /\ UNCHANGED <<vars, readerVars, offered>>

FailPolicy(p) == Policies!Fail(p) /\ UNCHANGED <<vars, readerVars, offered>>

VictimPolicy(p) == Policies!Victim(p) /\ UNCHANGED <<vars, readerVars, offered>>

-----------------------------------------------------------------------------
(* The readers.                                                            *)

Advance(r, pc) == reader' = [reader EXCEPT ![r] = pc]

\* The handler returns or raises, and its local state is gone.
EndReader(r, pc) ==
    /\ Advance(r, pc)
    /\ contract' = [contract EXCEPT ![r] = NoVersion]
    /\ policy' = [policy EXCEPT ![r] = NoVersion]
    /\ began' = [began EXCEPT ![r] = [contracts |-> {}, policies |-> {}]]
    /\ UNCHANGED <<vars, policyVars, offered>>

\* The first statement: the API key's row, or the agent's.
Begin(r) ==
    /\ reader[r] = "start"
    /\ PoolFree
    /\ began' = [began EXCEPT ![r] = [contracts |-> Committed,
                                      policies |-> Policies!Committed]]
    /\ Advance(r, "open")
    /\ UNCHANGED <<vars, policyVars, contract, policy, offered>>

\* Mutant: the contracts are loaded without the condition on is_active.
LoadAnyContract(r) ==
    /\ reader[r] = "open"
    /\ contract' \in {[contract EXCEPT ![r] = v] :
                        v \in IF Committed = {} THEN {NoVersion} ELSE Committed}
    /\ Advance(r, "contract")
    /\ UNCHANGED <<vars, policyVars, policy, began, offered>>

\* The active contract.  Of two, a request takes the one that comes last, in no
\* particular order.
LoadContract(r) ==
    /\ reader[r] = "open"
    /\ \E v \in IF active = {} THEN {NoVersion} ELSE active :
         contract' = [contract EXCEPT ![r] = v]
    /\ Advance(r, "contract")
    /\ UNCHANGED <<vars, policyVars, policy, began, offered>>

\* Mutant: the policy of the reader's first statement, out of a cache.
LoadPolicyCached(r) ==
    /\ reader[r] = "contract"
    /\ \E v \in PolicyUploads \cup {NoVersion} :
         /\ IF began[r].policies = {} THEN v = NoVersion
            ELSE /\ v \in began[r].policies
                 /\ \A w \in began[r].policies : pVersion[w] <= pVersion[v]
         /\ policy' = [policy EXCEPT ![r] = v]
    /\ Advance(r, "policy")
    /\ UNCHANGED <<vars, policyVars, contract, began, offered>>

\* The active policy, by a statement of its own.
LoadPolicy(r) ==
    /\ reader[r] = "contract"
    /\ Cardinality(pActive) <= 1
    /\ \E v \in IF pActive = {} THEN {NoVersion} ELSE pActive :
         policy' = [policy EXCEPT ![r] = v]
    /\ Advance(r, "policy")
    /\ UNCHANGED <<vars, policyVars, contract, began, offered>>

\* Of two active policies, or of two contracts if a page asks for them,
\* scalar_one_or_none raises.
MultipleResultsFound(r) ==
    /\ \/ reader[r] = "open" /\ Cardinality(active) > 1
       \/ reader[r] = "contract" /\ Cardinality(pActive) > 1
    /\ EndReader(r, "failed")

\* The request is refused, or its row is committed; the page is rendered.
Finish(r) ==
    /\ reader[r] = "policy"
    /\ EndReader(r, "done")

\* A statement raises.  (A reader that fails before, or for which no connection
\* comes in time, has not read anything.)
FailReader(r) ==
    /\ Faults
    /\ reader[r] \in {"open", "contract", "policy"}
    /\ EndReader(r, "failed")

-----------------------------------------------------------------------------
GoOnReader(r) ==
    LoadContract(r) \/ LoadPolicy(r) \/ MultipleResultsFound(r) \/ Finish(r)

AdmissionNext ==
    \/ \E u \in Uploads :
         BeginContract(u) \/ GoOnContract(u) \/ FailContract(u) \/ VictimContract(u)
    \/ \E p \in PolicyUploads :
         BeginPolicy(p) \/ GoOnPolicy(p) \/ FailPolicy(p) \/ VictimPolicy(p)
    \/ \E r \in Readers : Begin(r) \/ GoOnReader(r) \/ FailReader(r)

AdmissionSpec == AdmissionInit /\ [][AdmissionNext]_admissionVars

\* A handler that has its connection goes on; PostgreSQL wakes a statement that
\* waits for nobody any more, and breaks every circle.
AdmissionFairness ==
    /\ \A u \in Uploads :
         WF_admissionVars(GoOnContract(u)) /\ WF_admissionVars(VictimContract(u))
    /\ \A p \in PolicyUploads :
         WF_admissionVars(GoOnPolicy(p)) /\ WF_admissionVars(VictimPolicy(p))
    /\ \A r \in Readers : WF_admissionVars(GoOnReader(r))

AdmissionFairSpec == AdmissionSpec /\ AdmissionFairness

-----------------------------------------------------------------------------
\* v is what an agent with the uploads S is entitled to expect: not nothing, and
\* no version that an upload of S superseded, after[u] being those it did.
CurrentFor(v, S, after) ==
    /\ v = NoVersion => S = {}
    /\ \A u \in S : v \notin after[u]

\* A request is checked against a contract and a policy that were not superseded
\* before it began; no upload in progress makes it see none, or an older one.
AdmittedIsCurrent ==
    \A r \in Readers : reader[r] = "policy" =>
        /\ CurrentFor(contract[r], began[r].contracts, seen)
        /\ CurrentFor(policy[r], began[r].policies, pSeen)

\* The two statements come in the safe order: a policy that was in force before
\* the upload of a contract began, is applied to whatever is checked against
\* this contract.
PolicyBeforeCapability ==
    \A r \in Readers : reader[r] = "policy" /\ contract[r] # NoVersion =>
        CurrentFor(policy[r], offered[contract[r]], pSeen)

\* Why: what is committed when a reader, or the upload of a contract, begins,
\* stays committed.
HistoryCommitted ==
    /\ \A r \in Readers :
         /\ began[r].contracts \subseteq Committed
         /\ began[r].policies \subseteq Policies!Committed
         /\ contract[r] \in Committed \cup {NoVersion}
    /\ \A u \in Uploads : offered[u] \subseteq Policies!Committed

\* And what has been read first is current already.
ContractIsCurrent ==
    \A r \in Readers : reader[r] \in {"contract", "policy"} =>
        CurrentFor(contract[r], began[r].contracts, seen)

\* No handler waits for a connection that only waiting handlers could give back:
\* however many wait for row locks, the pool is not exhausted for ever.
PoolRecovers == []<>PoolFree
=============================================================================
