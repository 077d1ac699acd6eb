----------------------- MODULE VersionedUploadProofs ------------------------
(***************************************************************************)
(* Proofs about VersionedUpload, for any number of uploads.                *)
(***************************************************************************)
EXTENDS VersionedUpload, FiniteSetTheorems, TLAPS

\* An upload, once committed, keeps its version and the uploads it superseded, and
\* is only ever deactivated.
LEMMA CommittedStays ==
    ASSUME TypeOK, [Next]_vars
    PROVE  /\ Committed \subseteq Committed'
           /\ \A v \in Committed : version'[v] = version[v] /\ seen'[v] = seen[v]
           /\ active' \cap Committed \subseteq active
  <1> USE DEF TypeOK, Committed, Goto, Leave, Rollback
  <1>1. ASSUME NEW u \in Uploads, Read(u) \/ Proceed(u) \/ Fail(u) \/ Victim(u)
        PROVE  /\ Committed \subseteq Committed'
               /\ \A v \in Committed : version'[v] = version[v] /\ seen'[v] = seen[v]
               /\ active' \cap Committed \subseteq active
    BY <1>1 DEF Proceed, Read, StartUpdate, LockRow, Commit, Fail, Victim
  <1>2. CASE UNCHANGED vars
    BY <1>2 DEF vars
  <1> QED
    BY <1>1, <1>2 DEF Next

LEMMA TypeStep == TypeOK /\ [Next]_vars => TypeOK'
  <1> SUFFICES ASSUME TypeOK, [Next]_vars PROVE TypeOK'
    OBVIOUS
  <1> USE DEF TypeOK, Goto, Leave, ScanOn, Unlock, Rollback, UploadState
  <1>1. ASSUME NEW u \in Uploads, Read(u) PROVE TypeOK'
    BY <1>1 DEF Read, Committed
  <1>2. ASSUME NEW u \in Uploads, StartUpdate(u) PROVE TypeOK'
    BY <1>2 DEF StartUpdate
  <1>3. ASSUME NEW u \in Uploads, LockRow(u) PROVE TypeOK'
    BY <1>3 DEF LockRow
  <1>4. ASSUME NEW u \in Uploads, Commit(u) PROVE TypeOK'
    BY <1>4 DEF Commit
  <1>5. ASSUME NEW u \in Uploads, Fail(u) \/ Victim(u) PROVE TypeOK'
    BY <1>5 DEF Fail, Victim
  <1>6. CASE UNCHANGED vars
    BY <1>6 DEF vars
  <1> QED
    BY <1>1, <1>2, <1>3, <1>4, <1>5, <1>6 DEF Next, Proceed

\* Read makes the bound true of all the committed versions, StartUpdate matches
\* every active row, and the rows that are active later are among them.
LEMMA CoversStep == TypeOK /\ ReadCovers /\ [Next]_vars => ReadCovers'
  <1> SUFFICES ASSUME TypeOK, ReadCovers, [Next]_vars PROVE ReadCovers'
    OBVIOUS
  <1>0. /\ Committed \subseteq Committed'
        /\ \A v \in Committed : version'[v] = version[v]
        /\ active' \cap Committed \subseteq active
    BY CommittedStays
  <1> USE <1>0 DEF TypeOK, ReadCovers, Goto, Leave, ScanOn, Unlock, Rollback
  <1>1. ASSUME NEW u \in Uploads, Read(u) PROVE ReadCovers'
    BY <1>1 DEF Read, Committed
  <1>2. ASSUME NEW u \in Uploads, StartUpdate(u) PROVE ReadCovers'
    BY <1>2 DEF StartUpdate, Committed
  <1>3. ASSUME NEW u \in Uploads, LockRow(u) PROVE ReadCovers'
    BY <1>3 DEF LockRow, Committed
  <1>4. ASSUME NEW u \in Uploads, Commit(u) PROVE ReadCovers'
    BY <1>4 DEF Commit, Committed
  <1>5. ASSUME NEW u \in Uploads, Fail(u) \/ Victim(u) PROVE ReadCovers'
    BY <1>5 DEF Fail, Victim, Committed
  <1>6. CASE UNCHANGED vars
    BY <1>6 DEF vars, Committed
  <1> QED
    BY <1>1, <1>2, <1>3, <1>4, <1>5, <1>6 DEF Next, Proceed

LEMMA SupersedesStep ==
    TypeOK /\ ReadCovers /\ LaterSupersedes /\ [Next]_vars => LaterSupersedes'
  <1> SUFFICES ASSUME TypeOK, ReadCovers, LaterSupersedes, [Next]_vars
               PROVE  LaterSupersedes'
    OBVIOUS
  <1>0. /\ \A v \in Committed : version'[v] = version[v]
        /\ active' \cap Committed \subseteq active
    BY CommittedStays
  <1>1. ASSUME NEW u \in Uploads, Commit(u) PROVE LaterSupersedes'
    <2>1. \A v \in seen[u] : v # u /\ v \in Committed
      BY <1>1 DEF Commit, ReadCovers, Committed
    <2>2. \A v \in seen[u] : version'[v] < version'[u] /\ v \notin active'
      BY <1>1, <2>1 DEF Commit, ReadCovers, TypeOK, Committed
    <2>3. \A w \in Uploads \ {u} : upload'[w] = upload[w]
      BY <1>1 DEF Commit, Goto, Leave, TypeOK
    <2> QED
      BY <1>0, <1>1, <2>2, <2>3 DEF Commit, ReadCovers, LaterSupersedes, TypeOK, Committed
  <1>2. ASSUME NEW u \in Uploads,
               Read(u) \/ StartUpdate(u) \/ LockRow(u) \/ Fail(u) \/ Victim(u)
        PROVE  LaterSupersedes'
    BY <1>2 DEF Read, StartUpdate, LockRow, Fail, Victim, Goto, Leave, Unlock, Rollback,
                TypeOK, LaterSupersedes
  <1>3. CASE UNCHANGED vars
    BY <1>3 DEF vars, LaterSupersedes
  <1> QED
    BY <1>1, <1>2, <1>3 DEF Next, Proceed

\* The active rows are committed ones.
LEMMA ActiveStep ==
    TypeOK /\ active \subseteq Committed /\ [Next]_vars => active' \subseteq Committed'
  <1> USE DEF TypeOK, Goto, Leave, Rollback, Committed
  <1> SUFFICES ASSUME TypeOK, active \subseteq Committed, [Next]_vars
               PROVE  active' \subseteq Committed'
    OBVIOUS
  <1>1. ASSUME NEW u \in Uploads, Read(u) \/ Proceed(u) \/ Fail(u) \/ Victim(u)
        PROVE  active' \subseteq Committed'
    BY <1>1 DEF Proceed, Read, StartUpdate, LockRow, Commit, Fail, Victim
  <1>2. CASE UNCHANGED vars
    BY <1>2 DEF vars
  <1> QED
    BY <1>1, <1>2 DEF Next

LEMMA NeverWithoutStep == TypeOK /\ NeverWithout /\ [Next]_vars => NeverWithout'
  <1> SUFFICES ASSUME TypeOK, NeverWithout, [Next]_vars PROVE NeverWithout'
    OBVIOUS
  <1> USE DEF TypeOK, NeverWithout, Goto, Leave, Rollback, Committed
  <1>1. ASSUME NEW u \in Uploads, Commit(u) PROVE NeverWithout'
    BY <1>1 DEF Commit
  <1>2. ASSUME NEW u \in Uploads,
               Read(u) \/ StartUpdate(u) \/ LockRow(u) \/ Fail(u) \/ Victim(u)
        PROVE  NeverWithout'
    BY <1>2 DEF Read, StartUpdate, LockRow, Fail, Victim
  <1>3. CASE UNCHANGED vars
    BY <1>3 DEF vars
  <1> QED
    BY <1>1, <1>2, <1>3 DEF Next, Proceed

\* What every step preserves: the properties, why they hold, and that the active
\* rows are committed ones.
IndInv ==
    /\ TypeOK
    /\ ReadCovers
    /\ LaterSupersedes
    /\ NeverWithout
    /\ active \subseteq Committed

LEMMA IndInvStep == IndInv /\ [Next]_vars => IndInv'
  BY TypeStep, CoversStep, SupersedesStep, NeverWithoutStep, ActiveStep DEF IndInv

LEMMA IndInvHolds == Spec => []IndInv
  <1>1. Init => IndInv
    BY DEF Init, IndInv, TypeOK, UploadState, ReadCovers, LaterSupersedes,
           NeverWithout, Committed
  <1> QED
    BY <1>1, IndInvStep, PTL DEF Spec

\* Every variable keeps its type.
THEOREM TypeCorrect == Spec => []TypeOK
  <1>1. IndInv => TypeOK
    BY DEF IndInv
  <1> QED
    BY <1>1, IndInvHolds, PTL

\* An upload supersedes every upload that had succeeded when it began, for any
\* number of concurrent uploads.
THEOREM UploadsSupersede == Spec => []LaterSupersedes
  <1>1. IndInv => LaterSupersedes
    BY DEF IndInv
  <1> QED
    BY <1>1, IndInvHolds, PTL

\* After the first successful upload there is always an active version.
THEOREM ActiveVersionExists == Spec => []NeverWithout
  <1>1. IndInv => NeverWithout
    BY DEF IndInv
  <1> QED
    BY <1>1, IndInvHolds, PTL

-----------------------------------------------------------------------------
(* How far OneActiveVersion is from being kept.                            *)

\* Two versions are active only if neither upload had succeeded when the other
\* one began.
TwoActiveOverlapped ==
    \A u, v \in active : u = v \/ (u \notin seen[v] /\ v \notin seen[u])

\* What capabilities.py:36 and policies.py:36 can leave behind is due to uploads
\* that overlap: those that follow each other leave one active version, for any
\* number of uploads and failures between them.
THEOREM OverlapLeavesTwo ==
    Spec => [](/\ TwoActiveOverlapped
               /\ (\A u, v \in Committed : u = v \/ u \in seen[v] \/ v \in seen[u])
                    => OneActiveVersion)
  <1>1. IndInv => TwoActiveOverlapped
    BY DEF IndInv, TwoActiveOverlapped, LaterSupersedes, Committed
  <1>2. IndInv /\ (\A u, v \in Committed : u = v \/ u \in seen[v] \/ v \in seen[u])
          => OneActiveVersion
    BY <1>1 DEF IndInv, TwoActiveOverlapped, OneActiveVersion
  <1> QED
    BY <1>1, <1>2, IndInvHolds, PTL

-----------------------------------------------------------------------------
(* The row locks.                                                          *)

\* The rows that an upload has deactivated and not committed yet are still
\* active for everyone else, and no other upload has deactivated them too.
LocksHold ==
    \A u \in Uploads :
        /\ locked[u] \subseteq active
        /\ locked[u] \cup at[u] # {} => upload[u] = "updating"
        /\ \A v \in Uploads \ {u} : locked[u] \cap locked[v] = {}

LEMMA LocksStep == IndInv /\ LocksHold /\ [Next]_vars => LocksHold'
  <1> SUFFICES ASSUME IndInv, LocksHold, [Next]_vars PROVE LocksHold'
    OBVIOUS
  <1> USE DEF LocksHold, Goto, Leave, Unlock, Rollback
  <1>0. TypeOK
    BY DEF IndInv
  <1>1. ASSUME NEW u \in Uploads, Read(u) \/ Fail(u) \/ Victim(u) PROVE LocksHold'
    BY <1>0, <1>1 DEF TypeOK, Read, Fail, Victim
  <1>2. ASSUME NEW u \in Uploads, StartUpdate(u) PROVE LocksHold'
    BY <1>0, <1>2 DEF TypeOK, StartUpdate, ScanOn
  <1>3. ASSUME NEW u \in Uploads, LockRow(u) PROVE LocksHold'
    <2>1. \A v \in Uploads \ {u} : at[u] \cap locked[v] = {}
      BY <1>3 DEF LockRow, WaitsFor
    <2>2. /\ locked' = [locked EXCEPT ![u] = locked[u] \cup (at[u] \cap active)]
          /\ upload[u] = "updating" /\ upload' = upload
          /\ active' = active
          /\ \A v \in Uploads \ {u} : at'[v] = at[v]
      BY <1>0, <1>3 DEF LockRow, ScanOn, TypeOK
    <2> QED
      BY <1>0, <2>1, <2>2 DEF TypeOK
  <1>4. ASSUME NEW u \in Uploads, Commit(u) PROVE LocksHold'
    BY <1>0, <1>4 DEF TypeOK, Commit
  <1>5. CASE UNCHANGED vars
    BY <1>5 DEF vars
  <1> QED
    BY <1>1, <1>2, <1>3, <1>4, <1>5 DEF Next, Proceed

LEMMA LocksInit == Init => LocksHold
  BY DEF Init, LocksHold

\* A version is deactivated by at most one of the uploads under way, and stays
\* visible until that one commits: no two transactions take the same row.
THEOREM RowsAreTakenOnce == Spec => []LocksHold
  BY LocksInit, LocksStep, IndInvHolds, PTL DEF Spec

\* Of two uploads that wait for each other, directly or not, each has locked a row
\* that is still active.
LEMMA KnotNeedsTwo ==
    ASSUME LocksHold, NEW D \in SUBSET Uploads, Knot(D)
    PROVE  ~OneActiveVersion
  <1>1. PICK u \in D, w \in D : w \in WaitsFor(u)
    BY DEF Knot
  <1>2. PICK x \in D : x \in WaitsFor(w)
    BY DEF Knot
  <1>3. PICK a, b : a \in locked[w] /\ b \in locked[x]
    BY <1>1, <1>2 DEF WaitsFor
  <1>4. x # w /\ x \in Uploads /\ w \in Uploads
    BY <1>2 DEF WaitsFor
  <1>5. a # b /\ a \in active /\ b \in active
    BY <1>3, <1>4 DEF LocksHold
  <1> QED
    BY <1>5 DEF OneActiveVersion

\* An upload that PostgreSQL aborts to break a circle is a consequence of the race
\* at capabilities.py:36 and policies.py:36: as long as there is one active version,
\* uploads wait in a row, and no circle can form.
THEOREM DeadlockNeedsTwo ==
    Spec => [](OneActiveVersion => \A u \in Uploads : ~InCircle(u))
  <1>1. LocksHold => (OneActiveVersion => \A u \in Uploads : ~InCircle(u))
    BY KnotNeedsTwo DEF InCircle, Waiting
  <1> QED
    BY <1>1, RowsAreTakenOnce, PTL

\* If uploads wait, finitely many, one can go on or is in a circle that PostgreSQL
\* breaks: who waits, waits for one that is under way, so if all of these waited
\* they would be a knot, and the smallest knot is a circle.
LEMMA SomeUploadMoves ==
    ASSUME LocksHold, IsFiniteSet(Waiting), Waiting # {}
    PROVE  \E u \in Uploads : upload[u] = "updating" /\ (u \notin Waiting \/ InCircle(u))
  <1> SUFFICES ASSUME \A u \in Uploads : upload[u] = "updating" => u \in Waiting
               PROVE  \E u \in Waiting : upload[u] = "updating" /\ InCircle(u)
    BY DEF Waiting
  <1>1. Knot(Waiting)
    <2> SUFFICES ASSUME NEW u \in Waiting PROVE WaitsFor(u) \cap Waiting # {}
      BY DEF Knot
    <2>1. PICK w \in Uploads : w \in WaitsFor(u) /\ locked[w] # {}
      BY DEF Waiting, WaitsFor
    <2> QED
      BY <2>1 DEF LocksHold
  <1> DEFINE Less == StrictSubsetOrdering(Waiting)
             Knots == {D \in SUBSET Waiting : Knot(D)}
  <1>2. IsWellFoundedOn(Less, SUBSET Waiting)
    BY FS_StrictSubsetOrderingWellFounded, FS_FiniteSubsetsOfFinite
  <1>3. Waiting \in Knots
    BY <1>1
  <1>4. \E D \in Knots : \A E \in Knots : <<E, D>> \notin Less
    <2>1. Knots \subseteq SUBSET Waiting /\ Knots # {}
      BY <1>3
    <2> HIDE DEF Knots, Less
    <2> QED
      BY <1>2, <2>1, WFMin
  <1>5. PICK D \in Knots : \A E \in Knots : <<E, D>> \notin Less
    BY <1>4
  <1>6. ASSUME NEW E \in SUBSET D, Knot(E) PROVE E = D
    <2>1. E \in Knots
      BY <1>6
    <2>2. <<E, D>> \notin Less
      BY <1>5, <2>1
    <2>3. E \in SUBSET Waiting /\ D \in SUBSET Waiting
      BY <2>1
    <2> QED
      BY <2>2, <2>3 DEF StrictSubsetOrdering
  <1>7. PICK u \in D : TRUE
    BY DEF Knot
  <1>8. u \in Waiting /\ InCircle(u)
    BY <1>6, <1>7 DEF InCircle
  <1>9. upload[u] = "updating"
    BY <1>8 DEF Waiting, WaitsFor, LocksHold
  <1> QED
    BY <1>8, <1>9
=============================================================================
