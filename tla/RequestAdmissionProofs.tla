----------------------- MODULE RequestAdmissionProofs -----------------------
(***************************************************************************)
(* Proofs about RequestAdmission, for any number of uploads, readers and   *)
(* connections.  What VersionedUploadProofs shows of the uploads of one    *)
(* table is used for both.                                                 *)
(***************************************************************************)
EXTENDS RequestAdmission, VersionedUploadProofs, FiniteSetTheorems

PolicyProofs == INSTANCE VersionedUploadProofs WITH
    Uploads <- PolicyUploads,
    upload <- pUpload, current <- pCurrent, matched <- pMatched, at <- pAt,
    locked <- pLocked, version <- pVersion, active <- pActive, seen <- pSeen

-----------------------------------------------------------------------------
\* The two ways in which an upload raises.
EndContract(u) == FailContract(u) \/ VictimContract(u)
EndPolicy(p) == FailPolicy(p) \/ VictimPolicy(p)

\* A step is, for each of the two tables, one of its uploads or none.
LEMMA ContractStep == [AdmissionNext]_admissionVars => [Next]_vars
  <1> SUFFICES ASSUME [AdmissionNext]_admissionVars PROVE [Next]_vars
    OBVIOUS
  <1>1. ASSUME NEW u \in Uploads, BeginContract(u) \/ GoOnContract(u) \/ EndContract(u)
        PROVE  Next
    BY <1>1 DEF BeginContract, GoOnContract, EndContract, FailContract, VictimContract, Next
  <1>2. ASSUME NEW p \in PolicyUploads, BeginPolicy(p) \/ GoOnPolicy(p) \/ EndPolicy(p)
        PROVE  UNCHANGED vars
    BY <1>2 DEF BeginPolicy, GoOnPolicy, EndPolicy, FailPolicy, VictimPolicy
  <1>3. ASSUME NEW r \in Readers, Begin(r) \/ GoOnReader(r) \/ FailReader(r)
        PROVE  UNCHANGED vars
    BY <1>3 DEF Begin, GoOnReader, LoadContract, LoadPolicy, MultipleResultsFound,
                Finish, FailReader, EndReader
  <1>4. CASE UNCHANGED admissionVars
    BY <1>4 DEF admissionVars
  <1> QED
    BY <1>1, <1>2, <1>3, <1>4 DEF AdmissionNext, EndContract, EndPolicy

LEMMA PolicyStep == [AdmissionNext]_admissionVars => [Policies!Next]_policyVars
  <1> SUFFICES ASSUME [AdmissionNext]_admissionVars PROVE [Policies!Next]_policyVars
    OBVIOUS
  <1>1. ASSUME NEW u \in Uploads, BeginContract(u) \/ GoOnContract(u) \/ EndContract(u)
        PROVE  UNCHANGED policyVars
    BY <1>1 DEF BeginContract, GoOnContract, EndContract, FailContract, VictimContract
  <1>2. ASSUME NEW p \in PolicyUploads, BeginPolicy(p) \/ GoOnPolicy(p) \/ EndPolicy(p)
        PROVE  Policies!Next
    BY <1>2 DEF BeginPolicy, GoOnPolicy, EndPolicy, FailPolicy, VictimPolicy, Policies!Next
  <1>3. ASSUME NEW r \in Readers, Begin(r) \/ GoOnReader(r) \/ FailReader(r)
        PROVE  UNCHANGED policyVars
    BY <1>3 DEF Begin, GoOnReader, LoadContract, LoadPolicy, MultipleResultsFound,
                Finish, FailReader, EndReader
  <1>4. CASE UNCHANGED admissionVars
    BY <1>4 DEF admissionVars
  <1> QED
    BY <1>1, <1>2, <1>3, <1>4 DEF AdmissionNext, EndContract, EndPolicy

\* The instance with the proofs is the same specification.
LEMMA SameCircles ==
    /\ Policies!Waiting = PolicyProofs!Waiting
    /\ \A p : Policies!InCircle(p) <=> PolicyProofs!InCircle(p)
  BY DEF Policies!Waiting, PolicyProofs!Waiting, Policies!WaitsFor, PolicyProofs!WaitsFor,
         Policies!InCircle, PolicyProofs!InCircle, Policies!Knot, PolicyProofs!Knot

LEMMA SameStep == [Policies!Next]_policyVars => [PolicyProofs!Next]_(PolicyProofs!vars)
  <1>1. ASSUME NEW p \in PolicyUploads, Policies!Read(p) PROVE PolicyProofs!Read(p)
    BY <1>1 DEF Policies!Read, PolicyProofs!Read, Policies!Goto, PolicyProofs!Goto,
                Policies!Committed, PolicyProofs!Committed
  <1>2. ASSUME NEW p \in PolicyUploads, Policies!Proceed(p) PROVE PolicyProofs!Proceed(p)
    BY <1>2 DEF Policies!Proceed, PolicyProofs!Proceed, Policies!StartUpdate,
                PolicyProofs!StartUpdate, Policies!LockRow, PolicyProofs!LockRow,
                Policies!Commit, PolicyProofs!Commit, Policies!WaitsFor,
                PolicyProofs!WaitsFor, Policies!ScanOn, PolicyProofs!ScanOn,
                Policies!Goto, PolicyProofs!Goto, Policies!Leave, PolicyProofs!Leave,
                Policies!Unlock, PolicyProofs!Unlock
  <1>3. ASSUME NEW p \in PolicyUploads, Policies!Fail(p) PROVE PolicyProofs!Fail(p)
    BY <1>3 DEF Policies!Fail, PolicyProofs!Fail, Policies!Rollback, PolicyProofs!Rollback,
                Policies!Goto, PolicyProofs!Goto, Policies!Leave, PolicyProofs!Leave,
                Policies!Unlock, PolicyProofs!Unlock
  <1>4. ASSUME NEW p \in PolicyUploads, Policies!Victim(p) PROVE PolicyProofs!Victim(p)
    BY <1>4, SameCircles
       DEF Policies!Victim, PolicyProofs!Victim, Policies!Rollback, PolicyProofs!Rollback,
           Policies!Goto, PolicyProofs!Goto, Policies!Leave, PolicyProofs!Leave,
           Policies!Unlock, PolicyProofs!Unlock
  <1> QED
    BY <1>1, <1>2, <1>3, <1>4
    DEF policyVars, PolicyProofs!vars, Policies!Next, PolicyProofs!Next

LEMMA SameCommitted == Policies!Committed = PolicyProofs!Committed
  BY DEF Policies!Committed, PolicyProofs!Committed

\* So what is proved of the uploads of one table holds of both.
LEMMA AdmissionRunsUploads == AdmissionSpec => Spec
  <1>1. AdmissionInit => Init
    BY DEF AdmissionInit
  <1> QED
    BY <1>1, ContractStep, PTL DEF AdmissionSpec, Spec

LEMMA AdmissionRunsPolicies == AdmissionSpec => PolicyProofs!Spec
  <1>1. AdmissionInit => PolicyProofs!Init
    BY DEF AdmissionInit, Policies!Init, PolicyProofs!Init
  <1> QED
    BY <1>1, PolicyStep, SameStep, PTL DEF AdmissionSpec, PolicyProofs!Spec

-----------------------------------------------------------------------------
TablesOK == IndInv /\ PolicyProofs!IndInv

LEMMA TablesStep == TablesOK /\ [AdmissionNext]_admissionVars => TablesOK'
  <1>1. IndInv /\ [AdmissionNext]_admissionVars => IndInv'
    BY ContractStep, IndInvStep
  <1>2. PolicyProofs!IndInv /\ [PolicyProofs!Next]_(PolicyProofs!vars) => PolicyProofs!IndInv'
    BY FaultsAssumption, PolicyProofs!IndInvStep
  <1>3. PolicyProofs!IndInv /\ [AdmissionNext]_admissionVars => PolicyProofs!IndInv'
    BY <1>2, PolicyStep, SameStep
  <1> QED
    BY <1>1, <1>3 DEF TablesOK

\* What the commits of the past are like does not change.
LEMMA PastStays ==
    ASSUME TablesOK, [AdmissionNext]_admissionVars
    PROVE  /\ Committed \subseteq Committed'
           /\ \A u \in Committed : seen'[u] = seen[u]
           /\ Policies!Committed \subseteq Policies!Committed'
           /\ \A p \in Policies!Committed : pSeen'[p] = pSeen[p]
  <1>1. /\ Committed \subseteq Committed'
        /\ \A u \in Committed : seen'[u] = seen[u]
    BY ContractStep, CommittedStays DEF TablesOK, IndInv
  <1>2. /\ PolicyProofs!Committed \subseteq PolicyProofs!Committed'
        /\ \A p \in PolicyProofs!Committed : pSeen'[p] = pSeen[p]
    <2>1. PolicyProofs!TypeOK /\ [PolicyProofs!Next]_(PolicyProofs!vars)
      BY PolicyStep, SameStep DEF TablesOK, PolicyProofs!IndInv
    <2> QED
      BY <2>1, FaultsAssumption, PolicyProofs!CommittedStays
  <1> QED
    BY <1>1, <1>2 DEF Policies!Committed, PolicyProofs!Committed
-----------------------------------------------------------------------------
\* The rows that are active supersede, with those that are read, whatever was
\* committed before: for each of the two tables.
LEMMA ActiveContractIsCurrent ==
    ASSUME TablesOK, NEW S \in SUBSET Committed,
           NEW v \in IF active = {} THEN {NoVersion} ELSE active
    PROVE  CurrentFor(v, S, seen)
  <1> USE DEF TablesOK, IndInv, TypeOK, Committed
  <1>1. v = NoVersion => S = {}
    BY AdmissionAssumption DEF NeverWithout
  <1>2. ASSUME NEW u \in S PROVE v \notin seen[u]
    BY AdmissionAssumption DEF NeverWithout, LaterSupersedes
  <1> QED
    BY <1>1, <1>2 DEF CurrentFor

LEMMA ActivePolicyIsCurrent ==
    ASSUME TablesOK, NEW S \in SUBSET Policies!Committed,
           NEW v \in IF pActive = {} THEN {NoVersion} ELSE pActive
    PROVE  CurrentFor(v, S, pSeen)
  <1> USE DEF TablesOK, PolicyProofs!IndInv, PolicyProofs!TypeOK, PolicyProofs!Committed,
              Policies!Committed
  <1>1. v = NoVersion => S = {}
    BY AdmissionAssumption DEF PolicyProofs!NeverWithout
  <1>2. ASSUME NEW u \in S PROVE v \notin pSeen[u]
    BY AdmissionAssumption DEF PolicyProofs!NeverWithout, PolicyProofs!LaterSupersedes
  <1> QED
    BY <1>1, <1>2 DEF CurrentFor

LEMMA ReaderTypeStep ==
    TablesOK /\ ReaderTypeOK /\ [AdmissionNext]_admissionVars => ReaderTypeOK'
  <1> SUFFICES ASSUME TablesOK, ReaderTypeOK, [AdmissionNext]_admissionVars
               PROVE  ReaderTypeOK'
    OBVIOUS
  <1> USE DEF ReaderTypeOK, ReaderState, readerVars
  <1>0. /\ active \subseteq Uploads
        /\ pActive \subseteq PolicyUploads
    BY DEF TablesOK, IndInv, TypeOK, PolicyProofs!IndInv, PolicyProofs!TypeOK
  <1>1. ASSUME NEW u \in Uploads, BeginContract(u) \/ GoOnContract(u) \/ EndContract(u)
        PROVE  ReaderTypeOK'
    BY <1>1 DEF BeginContract, GoOnContract, EndContract, FailContract, VictimContract,
                Policies!Committed
  <1>2. ASSUME NEW p \in PolicyUploads, BeginPolicy(p) \/ GoOnPolicy(p) \/ EndPolicy(p)
        PROVE  ReaderTypeOK'
    BY <1>2 DEF BeginPolicy, GoOnPolicy, EndPolicy, FailPolicy, VictimPolicy
  <1>3. ASSUME NEW r \in Readers, Begin(r) PROVE ReaderTypeOK'
    BY <1>3 DEF Begin, Advance, Committed, Policies!Committed
  <1>4. ASSUME NEW r \in Readers, LoadContract(r) PROVE ReaderTypeOK'
    BY <1>0, <1>4 DEF LoadContract, Advance
  <1>5. ASSUME NEW r \in Readers, LoadPolicy(r) PROVE ReaderTypeOK'
    <2>1. PICK v \in IF pActive = {} THEN {NoVersion} ELSE pActive :
            policy' = [policy EXCEPT ![r] = v]
      BY <1>5 DEF LoadPolicy
    <2>2. v \in PolicyUploads \cup {NoVersion}
      BY <1>0, <2>1
    <2> QED
      BY <1>5, <2>1, <2>2 DEF LoadPolicy, Advance
  <1>6. ASSUME NEW r \in Readers, MultipleResultsFound(r) \/ Finish(r) \/ FailReader(r)
        PROVE  ReaderTypeOK'
    <2>1. PICK pc \in {"done", "failed"} : EndReader(r, pc)
      BY <1>6 DEF MultipleResultsFound, Finish, FailReader
    <2>2. reader' \in [Readers -> ReaderState] /\ UNCHANGED offered
      BY <2>1 DEF EndReader, Advance
    <2>3. /\ contract' \in [Readers -> Uploads \cup {NoVersion}]
          /\ policy' \in [Readers -> PolicyUploads \cup {NoVersion}]
      BY <2>1 DEF EndReader
    <2>4. began' \in [Readers -> [contracts : SUBSET Uploads, policies : SUBSET PolicyUploads]]
      BY <2>1 DEF EndReader
    <2> QED
      BY <2>2, <2>3, <2>4
  <1>7. CASE UNCHANGED admissionVars
    BY <1>7 DEF admissionVars
  <1> QED
    BY <1>1, <1>2, <1>3, <1>4, <1>5, <1>6, <1>7 DEF AdmissionNext, EndContract, EndPolicy,
                                                    GoOnReader

LEMMA HistoryStep ==
    TablesOK /\ ReaderTypeOK /\ HistoryCommitted /\ [AdmissionNext]_admissionVars
      => HistoryCommitted'
  <1> SUFFICES ASSUME TablesOK, ReaderTypeOK, HistoryCommitted, [AdmissionNext]_admissionVars
               PROVE  HistoryCommitted'
    OBVIOUS
  <1>0. /\ Committed \subseteq Committed'
        /\ Policies!Committed \subseteq Policies!Committed'
        /\ active \subseteq Committed
    BY PastStays DEF TablesOK, IndInv
  <1> USE <1>0 DEF ReaderTypeOK, HistoryCommitted, readerVars
  <1>1. ASSUME NEW u \in Uploads, BeginContract(u) PROVE HistoryCommitted'
    BY <1>1 DEF BeginContract
  <1>2. ASSUME NEW u \in Uploads, GoOnContract(u) \/ EndContract(u)
        PROVE  HistoryCommitted'
    BY <1>2 DEF GoOnContract, EndContract, FailContract, VictimContract
  <1>3. ASSUME NEW p \in PolicyUploads, BeginPolicy(p) \/ GoOnPolicy(p) \/ EndPolicy(p)
        PROVE  HistoryCommitted'
    BY <1>3 DEF BeginPolicy, GoOnPolicy, EndPolicy, FailPolicy, VictimPolicy
  <1>4. ASSUME NEW r \in Readers, Begin(r) PROVE HistoryCommitted'
    BY <1>4 DEF Begin
  <1>5. ASSUME NEW r \in Readers, LoadContract(r) PROVE HistoryCommitted'
    BY <1>5 DEF LoadContract
  <1>6. ASSUME NEW r \in Readers, LoadPolicy(r) PROVE HistoryCommitted'
    BY <1>6 DEF LoadPolicy
  <1>7. ASSUME NEW r \in Readers, MultipleResultsFound(r) \/ Finish(r) \/ FailReader(r)
        PROVE  HistoryCommitted'
    BY <1>7 DEF MultipleResultsFound, Finish, FailReader, EndReader
  <1>8. CASE UNCHANGED admissionVars
    BY <1>8 DEF admissionVars
  <1> QED
    BY <1>1, <1>2, <1>3, <1>4, <1>5, <1>6, <1>7, <1>8 DEF AdmissionNext, EndContract,
                                                          EndPolicy, GoOnReader

-----------------------------------------------------------------------------
\* What a step may do to a reader.
LEMMA ReaderCases ==
    ASSUME ReaderTypeOK, [AdmissionNext]_admissionVars, NEW r \in Readers
    PROVE  \/ /\ reader'[r] = reader[r]
              /\ contract'[r] = contract[r]
              /\ policy'[r] = policy[r]
              /\ began'[r] = began[r]
           \/ reader'[r] \in {"open", "done", "failed"}
           \/ /\ reader'[r] = "contract"
              /\ contract'[r] \in IF active = {} THEN {NoVersion} ELSE active
              /\ began'[r] = began[r]
           \/ /\ reader[r] = "contract"
              /\ reader'[r] = "policy"
              /\ contract'[r] = contract[r]
              /\ policy'[r] \in IF pActive = {} THEN {NoVersion} ELSE pActive
              /\ began'[r] = began[r]
  <1> DEFINE Cases == \/ /\ reader'[r] = reader[r]
                         /\ contract'[r] = contract[r]
                         /\ policy'[r] = policy[r]
                         /\ began'[r] = began[r]
                      \/ reader'[r] \in {"open", "done", "failed"}
                      \/ /\ reader'[r] = "contract"
                         /\ contract'[r] \in IF active = {} THEN {NoVersion} ELSE active
                         /\ began'[r] = began[r]
                      \/ /\ reader[r] = "contract"
                         /\ reader'[r] = "policy"
                         /\ contract'[r] = contract[r]
                         /\ policy'[r] \in IF pActive = {} THEN {NoVersion} ELSE pActive
                         /\ began'[r] = began[r]
  <1> USE DEF ReaderTypeOK, readerVars
  <1>1. ASSUME NEW u \in Uploads, BeginContract(u) \/ GoOnContract(u) \/ EndContract(u)
        PROVE  Cases
    BY <1>1 DEF BeginContract, GoOnContract, EndContract, FailContract, VictimContract
  <1>2. ASSUME NEW p \in PolicyUploads, BeginPolicy(p) \/ GoOnPolicy(p) \/ EndPolicy(p)
        PROVE  Cases
    BY <1>2 DEF BeginPolicy, GoOnPolicy, EndPolicy, FailPolicy, VictimPolicy
  <1>3. ASSUME NEW s \in Readers, Begin(s) PROVE Cases
    BY <1>3 DEF Begin, Advance
  <1>4. ASSUME NEW s \in Readers, LoadContract(s) PROVE Cases
    BY <1>4 DEF LoadContract, Advance
  <1>5. ASSUME NEW s \in Readers, LoadPolicy(s) PROVE Cases
    BY <1>5 DEF LoadPolicy, Advance
  <1>6. ASSUME NEW s \in Readers, MultipleResultsFound(s) \/ Finish(s) \/ FailReader(s)
        PROVE  Cases
    BY <1>6 DEF MultipleResultsFound, Finish, FailReader, EndReader, Advance
  <1>7. CASE UNCHANGED admissionVars
    BY <1>7 DEF admissionVars
  <1>8. Cases
    BY <1>1, <1>2, <1>3, <1>4, <1>5, <1>6, <1>7 DEF AdmissionNext, EndContract, EndPolicy,
                                                    GoOnReader
  <1> QED
    BY <1>8

\* The upload of a contract, once committed, keeps what it was offered.
LEMMA OfferedStays ==
    ASSUME ReaderTypeOK, TablesOK, [AdmissionNext]_admissionVars
    PROVE  \A u \in Committed : offered'[u] = offered[u]
  <1> USE DEF ReaderTypeOK, Committed
  <1>1. ASSUME NEW u \in Uploads, BeginContract(u) \/ GoOnContract(u) \/ EndContract(u)
        PROVE  \A v \in Committed : offered'[v] = offered[v]
    BY <1>1 DEF BeginContract, GoOnContract, EndContract, FailContract, VictimContract,
                Read,
                Fail, Victim
  <1>2. ASSUME NEW p \in PolicyUploads, BeginPolicy(p) \/ GoOnPolicy(p) \/ EndPolicy(p)
        PROVE  UNCHANGED offered
    BY <1>2 DEF BeginPolicy, GoOnPolicy, EndPolicy, FailPolicy, VictimPolicy
  <1>3. ASSUME NEW r \in Readers, Begin(r) \/ GoOnReader(r) \/ FailReader(r)
        PROVE  UNCHANGED offered
    BY <1>3 DEF Begin, GoOnReader, LoadContract, LoadPolicy, MultipleResultsFound,
                Finish, FailReader, EndReader
  <1>4. CASE UNCHANGED admissionVars
    BY <1>4 DEF admissionVars
  <1> QED
    BY <1>1, <1>2, <1>3, <1>4 DEF AdmissionNext, EndContract, EndPolicy

-----------------------------------------------------------------------------
\* What every step preserves: the two tables in order, the history of what was
\* committed, and what each reader has read so far.
AdmissionInv ==
    /\ TablesOK
    /\ ReaderTypeOK
    /\ HistoryCommitted
    /\ ContractIsCurrent
    /\ AdmittedIsCurrent
    /\ PolicyBeforeCapability

LEMMA ContractCurrentStep ==
    AdmissionInv /\ [AdmissionNext]_admissionVars => ContractIsCurrent'
  <1> SUFFICES ASSUME AdmissionInv, [AdmissionNext]_admissionVars,
                      NEW r \in Readers, reader'[r] \in {"contract", "policy"}
               PROVE  CurrentFor(contract'[r], began'[r].contracts, seen')
    BY DEF ContractIsCurrent, CurrentFor
  <1>1. began[r].contracts \subseteq Committed
    BY DEF AdmissionInv, HistoryCommitted
  <1>2. /\ CurrentFor(contract'[r], began[r].contracts, seen)
        /\ began'[r] = began[r]
    BY ReaderCases, ActiveContractIsCurrent, <1>1 DEF AdmissionInv, ContractIsCurrent
  <1>3. \A u \in Committed : seen'[u] = seen[u]
    BY PastStays DEF AdmissionInv
  <1> QED
    BY <1>1, <1>2, <1>3 DEF CurrentFor

LEMMA AdmittedCurrentStep ==
    AdmissionInv /\ [AdmissionNext]_admissionVars => AdmittedIsCurrent'
  <1> SUFFICES ASSUME AdmissionInv, [AdmissionNext]_admissionVars,
                      NEW r \in Readers, reader'[r] = "policy"
               PROVE  /\ CurrentFor(contract'[r], began'[r].contracts, seen')
                      /\ CurrentFor(policy'[r], began'[r].policies, pSeen')
    BY DEF AdmittedIsCurrent, CurrentFor
  <1>1. CurrentFor(contract'[r], began'[r].contracts, seen')
    BY ContractCurrentStep DEF ContractIsCurrent, CurrentFor
  <1>2. began[r].policies \subseteq Policies!Committed
    BY DEF AdmissionInv, HistoryCommitted
  <1>3. /\ CurrentFor(policy'[r], began[r].policies, pSeen)
        /\ began'[r] = began[r]
    BY ReaderCases, ActivePolicyIsCurrent, <1>2 DEF AdmissionInv, AdmittedIsCurrent
  <1>4. \A p \in Policies!Committed : pSeen'[p] = pSeen[p]
    BY PastStays DEF AdmissionInv
  <1> QED
    BY <1>1, <1>2, <1>3, <1>4 DEF CurrentFor

LEMMA PolicyBeforeStep ==
    AdmissionInv /\ [AdmissionNext]_admissionVars => PolicyBeforeCapability'
  <1> SUFFICES ASSUME AdmissionInv, [AdmissionNext]_admissionVars,
                      NEW r \in Readers, reader'[r] = "policy", contract'[r] # NoVersion
               PROVE  CurrentFor(policy'[r], offered'[contract'[r]], pSeen')
    BY DEF PolicyBeforeCapability, CurrentFor
  <1>1. contract'[r] = contract[r]
    BY ReaderCases DEF AdmissionInv
  <1>2. /\ contract[r] \in Committed
        /\ offered[contract[r]] \subseteq Policies!Committed
    BY <1>1 DEF AdmissionInv, HistoryCommitted, Committed
  <1>3. CurrentFor(policy'[r], offered[contract[r]], pSeen)
    BY ReaderCases, ActivePolicyIsCurrent, <1>1, <1>2 DEF AdmissionInv,
                                                          PolicyBeforeCapability
  <1>4. offered'[contract[r]] = offered[contract[r]]
    BY OfferedStays, <1>2 DEF AdmissionInv
  <1>5. \A p \in Policies!Committed : pSeen'[p] = pSeen[p]
    BY PastStays DEF AdmissionInv
  <1> QED
    BY <1>1, <1>2, <1>3, <1>4, <1>5 DEF CurrentFor

LEMMA AdmissionInvHolds == AdmissionSpec => []AdmissionInv
  <1>1. AdmissionInit => AdmissionInv
    <2> SUFFICES ASSUME AdmissionInit PROVE AdmissionInv
      OBVIOUS
    <2>1. IndInv
      BY DEF AdmissionInit, Init, IndInv, TypeOK, UploadState, ReadCovers,
             LaterSupersedes, NeverWithout, Committed
    <2>2. PolicyProofs!IndInv
      BY DEF AdmissionInit, Policies!Init, PolicyProofs!IndInv, PolicyProofs!TypeOK,
             PolicyProofs!UploadState, PolicyProofs!ReadCovers,
             PolicyProofs!LaterSupersedes, PolicyProofs!NeverWithout,
             PolicyProofs!Committed
    <2>3. /\ ReaderTypeOK
          /\ HistoryCommitted
          /\ ContractIsCurrent
          /\ AdmittedIsCurrent
          /\ PolicyBeforeCapability
      BY DEF AdmissionInit, ReaderTypeOK, ReaderState, HistoryCommitted,
             ContractIsCurrent, AdmittedIsCurrent, PolicyBeforeCapability
    <2> QED
      BY <2>1, <2>2, <2>3 DEF AdmissionInv, TablesOK
  <1>2. AdmissionInv /\ [AdmissionNext]_admissionVars => AdmissionInv'
    BY TablesStep, ReaderTypeStep, HistoryStep, ContractCurrentStep,
       AdmittedCurrentStep, PolicyBeforeStep
    DEF AdmissionInv
  <1> QED
    BY <1>1, <1>2, PTL DEF AdmissionSpec

\* The variables of both tables and of the readers keep their types.
THEOREM AdmissionTypeCorrect == AdmissionSpec => []AdmissionTypeOK
  <1>1. PolicyProofs!TypeOK => Policies!TypeOK
    BY DEF PolicyProofs!TypeOK, PolicyProofs!UploadState, Policies!TypeOK,
           Policies!UploadState
  <1>2. AdmissionInv => AdmissionTypeOK
    BY <1>1 DEF AdmissionInv, TablesOK, IndInv, PolicyProofs!IndInv, AdmissionTypeOK
  <1> QED
    BY <1>2, AdmissionInvHolds, PTL

\* A request is checked against nothing that had been superseded when it began,
\* whatever uploads run beside it.
THEOREM RequestsSeeCurrent == AdmissionSpec => []AdmittedIsCurrent
  <1>1. AdmissionInv => AdmittedIsCurrent
    BY DEF AdmissionInv
  <1> QED
    BY <1>1, AdmissionInvHolds, PTL

\* A contract is never applied without the policy it was uploaded under, or a
\* later one.
THEOREM PoliciesComeFirst == AdmissionSpec => []PolicyBeforeCapability
  <1>1. AdmissionInv => PolicyBeforeCapability
    BY DEF AdmissionInv
  <1> QED
    BY <1>1, AdmissionInvHolds, PTL

\* Among each other's uploads and among requests, a contract and a policy are
\* superseded by the later one for good, and never hidden.
THEOREM VersionsAreKept ==
    AdmissionSpec => [](/\ NeverWithout /\ LaterSupersedes
                        /\ Policies!NeverWithout /\ Policies!LaterSupersedes)
  <1>1. TablesOK => NeverWithout /\ LaterSupersedes
    BY DEF TablesOK, IndInv
  <1>2. TablesOK => Policies!NeverWithout /\ Policies!LaterSupersedes
    BY SameCommitted
    DEF TablesOK, PolicyProofs!IndInv, PolicyProofs!NeverWithout, Policies!NeverWithout,
        PolicyProofs!LaterSupersedes, Policies!LaterSupersedes
  <1>3. AdmissionInv => TablesOK
    BY DEF AdmissionInv
  <1> QED
    BY <1>1, <1>2, <1>3, AdmissionInvHolds, PTL

-----------------------------------------------------------------------------
(* The pool of connections.                                                *)

\* The UPDATE of the handler waits for a row, and not in a circle.
MustWait(h) ==
    \/ h \in Waiting /\ ~InCircle(h)
    \/ h \in Policies!Waiting /\ ~Policies!InCircle(h)

\* No more connections are held than there are; and of the handlers that hold one,
\* not all wait for the others.
PoolOK ==
    /\ IsFiniteSet(InUse) /\ Cardinality(InUse) <= PoolSize
    /\ InUse # {} => \E h \in InUse : ~MustWait(h)

\* A step that leaves no more handlers than there were in the pool.
LEMMA InUseShrinks ==
    ASSUME IsFiniteSet(InUse), Cardinality(InUse) <= PoolSize, InUse' \subseteq InUse
    PROVE  IsFiniteSet(InUse') /\ Cardinality(InUse') <= PoolSize
  <1>1. /\ IsFiniteSet(InUse') /\ Cardinality(InUse') <= Cardinality(InUse)
        /\ Cardinality(InUse') \in Nat /\ Cardinality(InUse) \in Nat
    BY FS_Subset, FS_CardinalityType
  <1> QED
    BY <1>1, AdmissionAssumption

\* A step of a handler that had to find a connection free.
LEMMA InUseGrows ==
    ASSUME IsFiniteSet(InUse), PoolFree, NEW h, InUse' \subseteq InUse \cup {h}
    PROVE  IsFiniteSet(InUse') /\ Cardinality(InUse') <= PoolSize
  <1>1. /\ IsFiniteSet(InUse \cup {h})
        /\ Cardinality(InUse \cup {h}) <= Cardinality(InUse) + 1
        /\ Cardinality(InUse) \in Nat
    BY FS_AddElement, FS_CardinalityType
  <1>2. /\ IsFiniteSet(InUse') /\ Cardinality(InUse') <= Cardinality(InUse \cup {h})
        /\ Cardinality(InUse') \in Nat /\ Cardinality(InUse \cup {h}) \in Nat
    BY <1>1, FS_Subset, FS_CardinalityType
  <1> QED
    BY <1>1, <1>2, AdmissionAssumption DEF PoolFree

LEMMA InUseStep ==
    ASSUME TablesOK, ReaderTypeOK, [AdmissionNext]_admissionVars,
           IsFiniteSet(InUse), Cardinality(InUse) <= PoolSize
    PROVE  IsFiniteSet(InUse') /\ Cardinality(InUse') <= PoolSize
  <1> DEFINE Kept == InUse' \subseteq InUse
             Taken(h) == PoolFree /\ InUse' \subseteq InUse \cup {h}
  <1>0. /\ upload \in [Uploads -> UploadState]
        /\ pUpload \in [PolicyUploads -> UploadState]
        /\ reader \in [Readers -> ReaderState]
    BY DEF TablesOK, IndInv, TypeOK, PolicyProofs!IndInv, PolicyProofs!TypeOK,
           PolicyProofs!UploadState, UploadState, ReaderTypeOK
  <1> USE <1>0 DEF InUse, readerVars
  <1>1. ASSUME NEW u \in Uploads, BeginContract(u) PROVE Taken(u)
    BY <1>1 DEF BeginContract, Read, Goto, policyVars
  <1>2. ASSUME NEW u \in Uploads, GoOnContract(u) \/ EndContract(u) PROVE Kept
    BY <1>2 DEF GoOnContract, EndContract, FailContract, VictimContract, Proceed,
                StartUpdate,
                LockRow, Commit, Fail, Victim, Rollback, Goto, Leave, policyVars
  <1>3. ASSUME NEW p \in PolicyUploads, BeginPolicy(p) PROVE Taken(p)
    BY <1>3 DEF BeginPolicy, Policies!Read, Policies!Goto, vars
  <1>4. ASSUME NEW p \in PolicyUploads, GoOnPolicy(p) \/ EndPolicy(p) PROVE Kept
    BY <1>4 DEF GoOnPolicy, EndPolicy, FailPolicy, VictimPolicy, Policies!Proceed,
                Policies!StartUpdate, Policies!LockRow, Policies!Commit, Policies!Fail,
                Policies!Victim, Policies!Rollback, Policies!Goto, Policies!Leave, vars
  <1>5. ASSUME NEW r \in Readers, Begin(r) PROVE Taken(r)
    BY <1>5 DEF Begin, Advance, vars, policyVars
  <1>6. ASSUME NEW r \in Readers, GoOnReader(r) \/ FailReader(r) PROVE Kept
    BY <1>6 DEF GoOnReader, LoadContract, LoadPolicy, MultipleResultsFound, Finish,
                FailReader, EndReader, Advance, vars, policyVars
  <1>7. CASE UNCHANGED admissionVars
    BY <1>7 DEF admissionVars, vars, policyVars
  <1> HIDE DEF InUse
  <1>8. ASSUME NEW h, Taken(h) PROVE IsFiniteSet(InUse') /\ Cardinality(InUse') <= PoolSize
    BY <1>8, InUseGrows
  <1>9. ASSUME Kept PROVE IsFiniteSet(InUse') /\ Cardinality(InUse') <= PoolSize
    BY <1>9, InUseShrinks
  <1> HIDE DEF Kept, Taken
  <1> QED
    BY <1>1, <1>2, <1>3, <1>4, <1>5, <1>6, <1>7, <1>8, <1>9 DEF AdmissionNext,
                                                                EndContract, EndPolicy

\* Who has locked a row, or waits for one, has a connection: so the upload that
\* moves (SomeUploadMoves) is one of those that hold them.
LEMMA ContractMoves ==
    ASSUME LocksHold, IsFiniteSet(InUse), Waiting # {}
    PROVE  \E h \in InUse : ~MustWait(h)
  <1>1. Waiting \subseteq InUse
    BY DEF Waiting, WaitsFor, LocksHold, InUse
  <1>2. PICK u \in Uploads : upload[u] = "updating" /\ (u \notin Waiting \/ InCircle(u))
    BY <1>1, FS_Subset, FaultsAssumption, SomeUploadMoves
  <1>3. u \notin Policies!Waiting
    BY HandlersDisjoint DEF Policies!Waiting
  <1> QED
    BY <1>2, <1>3 DEF InUse, MustWait

LEMMA PolicyMoves ==
    ASSUME PolicyProofs!LocksHold, IsFiniteSet(InUse), Policies!Waiting # {}
    PROVE  \E h \in InUse : ~MustWait(h)
  <1>1. Policies!Waiting \subseteq InUse
    BY DEF Policies!Waiting, Policies!WaitsFor, PolicyProofs!LocksHold, InUse
  <1>2. PICK p \in PolicyUploads :
          pUpload[p] = "updating" /\ (p \notin Policies!Waiting \/ Policies!InCircle(p))
    <2>1. PolicyProofs!IsFiniteSet(PolicyProofs!Waiting) /\ PolicyProofs!Waiting # {}
      BY <1>1, FS_Subset, SameCircles DEF IsFiniteSet, PolicyProofs!IsFiniteSet
    <2>2. \E p \in PolicyUploads :
            /\ pUpload[p] = "updating"
            /\ p \notin PolicyProofs!Waiting \/ PolicyProofs!InCircle(p)
      BY <2>1, FaultsAssumption, PolicyProofs!SomeUploadMoves
    <2> QED
      BY <2>2, SameCircles
  <1>3. p \notin Waiting
    BY HandlersDisjoint DEF Waiting
  <1> QED
    BY <1>2, <1>3 DEF InUse, MustWait

LEMMA SomeoneGoesOn ==
    ASSUME LocksHold, PolicyProofs!LocksHold, IsFiniteSet(InUse), InUse # {}
    PROVE  \E h \in InUse : ~MustWait(h)
  <1>1. CASE Waiting = {} /\ Policies!Waiting = {}
    BY <1>1 DEF MustWait
  <1> QED
    BY <1>1, ContractMoves, PolicyMoves

\* However many uploads wait for rows, one by one and in any order, one of the
\* handlers that hold a connection can go on or is in a circle that PostgreSQL
\* breaks: the pool is never overdrawn, nor held by uploads that all wait for each
\* other and that nothing ends.
THEOREM PoolIsNeverStuck == AdmissionSpec => []PoolOK
  <1>1. AdmissionInit => IsFiniteSet(InUse) /\ Cardinality(InUse) <= PoolSize
    <2> SUFFICES ASSUME AdmissionInit
                 PROVE  IsFiniteSet(InUse) /\ Cardinality(InUse) <= PoolSize
      OBVIOUS
    <2>1. InUse = {}
      BY DEF AdmissionInit, Init, Policies!Init, InUse
    <2> QED
      BY <2>1, FS_EmptySet, AdmissionAssumption
  <1>2. /\ AdmissionInv /\ [AdmissionNext]_admissionVars
        /\ IsFiniteSet(InUse) /\ Cardinality(InUse) <= PoolSize
        => (IsFiniteSet(InUse) /\ Cardinality(InUse) <= PoolSize)'
    BY InUseStep DEF AdmissionInv
  <1>3. AdmissionSpec => [](LocksHold /\ PolicyProofs!LocksHold)
    <2>1. Spec => []LocksHold
      BY RowsAreTakenOnce
    <2>2. PolicyProofs!Spec => []PolicyProofs!LocksHold
      BY FaultsAssumption, PolicyProofs!RowsAreTakenOnce
    <2> QED
      BY <2>1, <2>2, AdmissionRunsUploads, AdmissionRunsPolicies, PTL
  <1>4. /\ IsFiniteSet(InUse) /\ Cardinality(InUse) <= PoolSize
        /\ LocksHold /\ PolicyProofs!LocksHold
        => PoolOK
    BY SomeoneGoesOn DEF PoolOK
  <1> QED
    BY <1>1, <1>2, <1>3, <1>4, AdmissionInvHolds, PTL DEF AdmissionSpec
=============================================================================
