--------------------------- MODULE VersionedUpload --------------------------
(***************************************************************************)
(* The uploads of one agent's capability contract (routes/capabilities.py) *)
(* or of its policy (routes/policies.py, the same code over another        *)
(* table).  An upload is one transaction: read the highest version,        *)
(* deactivate the active rows, insert the next version as the active one,  *)
(* commit.                                                                 *)
(*                                                                         *)
(* PostgreSQL runs it at READ COMMITTED: each statement sees the rows      *)
(* committed when it starts.  An UPDATE scans them one by one and keeps a   *)
(* lock on each row that it has updated until its transaction ends.  Where *)
(* it meets a row that another transaction has locked it waits for that    *)
(* one to end, and then looks at the row again.  SQL fixes no order of the *)
(* scan, so uploads may wait for each other in a circle: PostgreSQL then   *)
(* aborts one of them.                                                     *)
(***************************************************************************)
EXTENDS Naturals

CONSTANTS
    Uploads,  \* the PUTs of a behaviour; each inserts at most one row, so an
              \* upload is also the name of its row
    Faults    \* may a statement or the commit fail?

ASSUME FaultsAssumption == Faults \in BOOLEAN

VARIABLES
    upload,   \* where the handler stands, for each upload
    current,  \* its local variable current_version
    matched,  \* the rows its UPDATE found active when it started, as far as the
              \* scan has not passed them
    at,       \* the one of these that the scan has come to, as a set
    locked,   \* the rows it has deactivated and not committed yet
    version,  \* the column version of its row
    active,   \* the committed rows with is_active
    seen      \* history: the uploads already committed when this one began,
              \* unless it failed

vars == <<upload, current, matched, at, locked, version, active, seen>>

UploadState == {"start", "read", "updating", "done", "failed"}

TypeOK ==
    /\ upload \in [Uploads -> UploadState]
    /\ current \in [Uploads -> Nat]
    /\ matched \in [Uploads -> SUBSET Uploads]
    /\ at \in [Uploads -> SUBSET Uploads]
    /\ locked \in [Uploads -> SUBSET Uploads]
    /\ version \in [Uploads -> Nat]
    /\ active \subseteq Uploads
    /\ seen \in [Uploads -> SUBSET Uploads]

Init ==
    /\ upload = [u \in Uploads |-> "start"]
    /\ current = [u \in Uploads |-> 0]
    /\ matched = [u \in Uploads |-> {}]
    /\ at = [u \in Uploads |-> {}]
    /\ locked = [u \in Uploads |-> {}]
    /\ version = [u \in Uploads |-> 0]
    /\ active = {}
    /\ seen = [u \in Uploads |-> {}]

-----------------------------------------------------------------------------
Committed == {u \in Uploads : upload[u] = "done"}

Goto(u, pc) == upload' = [upload EXCEPT ![u] = pc]

\* The handler returns or raises, and its local state is gone.
Leave(u, pc) ==
    /\ Goto(u, pc)
    /\ current' = [current EXCEPT ![u] = 0]
    /\ matched' = [matched EXCEPT ![u] = {}]
    /\ at' = [at EXCEPT ![u] = {}]

\* The transaction ends, and with it its locks.
Unlock(u) == locked' = [locked EXCEPT ![u] = {}]

\* SELECT version ... ORDER BY version DESC LIMIT 1, or 0.
Read(u) ==
    /\ upload[u] = "start"
    /\ \E m \in {version[v] : v \in Committed} \cup {0} :
         /\ \A v \in Committed : version[v] <= m
         /\ current' = [current EXCEPT ![u] = m]
    /\ seen' = [seen EXCEPT ![u] = Committed]
    /\ Goto(u, "read")
    /\ UNCHANGED <<matched, at, locked, version, active>>

\* The scan has rows left, and goes on to any of them.
ScanOn(u, rows) ==
    /\ matched' = [matched EXCEPT ![u] = rows]
    /\ \E s \in IF rows = {} THEN {{}} ELSE {{v} : v \in rows} : at' = [at EXCEPT ![u] = s]

\* Mutant: of the active rows, the first one only.
StartUpdateFirst(u) ==
    /\ upload[u] = "read"
    /\ \E rows \in IF active = {} THEN {{}} ELSE {{v} : v \in active} : ScanOn(u, rows)
    /\ Goto(u, "updating")
    /\ UNCHANGED <<current, locked, version, active, seen>>

\* UPDATE ... SET is_active = false WHERE is_active: the rows it will lock.
StartUpdate(u) ==
    /\ upload[u] = "read"
    /\ ScanOn(u, active)
    /\ Goto(u, "updating")
    /\ UNCHANGED <<current, locked, version, active, seen>>

\* The uploads that u waits for: whoever has locked the row it has come to.
WaitsFor(u) == {w \in Uploads \ {u} : at[u] \cap locked[w] # {}}

\* The row is free: the UPDATE deactivates and locks it, or, if it is not active
\* any more, skips it.
LockRow(u) ==
    /\ upload[u] = "updating" /\ at[u] # {}
    /\ WaitsFor(u) = {}
    /\ locked' = [locked EXCEPT ![u] = @ \cup (at[u] \cap active)]
    /\ ScanOn(u, matched[u] \ at[u])
    /\ UNCHANGED <<upload, current, version, active, seen>>

\* Mutant: an upload without entries deactivates and inserts nothing active.
CommitMaybeEmpty(u) ==
    /\ upload[u] = "updating" /\ at[u] = {}
    /\ version' = [version EXCEPT ![u] = current[u] + 1]
    /\ active' \in {active \ locked[u], (active \ locked[u]) \cup {u}}
    /\ Leave(u, "done") /\ Unlock(u)
    /\ UNCHANGED seen

\* The scan is over: the INSERT, and the commit that makes both changes visible.
Commit(u) ==
    /\ upload[u] = "updating" /\ at[u] = {}
    /\ version' = [version EXCEPT ![u] = current[u] + 1]
    /\ active' = (active \ locked[u]) \cup {u}
    /\ Leave(u, "done") /\ Unlock(u)
    /\ UNCHANGED seen

\* 500: the session rolls the transaction back.
Rollback(u) ==
    /\ Leave(u, "failed") /\ Unlock(u)
    /\ seen' = [seen EXCEPT ![u] = {}]
    /\ UNCHANGED <<version, active>>

\* Mutant: the session of a handler that raised stays open.
FailKeepsLocks(u) ==
    /\ Faults
    /\ upload[u] \in {"read", "updating"}
    /\ Leave(u, "failed")
    /\ seen' = [seen EXCEPT ![u] = {}]
    /\ UNCHANGED <<locked, version, active>>

\* A statement raises.  (An upload whose first statement raises is as if it had
\* not been sent.)
Fail(u) ==
    /\ Faults
    /\ upload[u] \in {"read", "updating"}
    /\ Rollback(u)

\* The uploads that wait for a row.
Waiting == {u \in Uploads : WaitsFor(u) # {}}

\* Each of D waits for another one of D.
Knot(D) == D # {} /\ \A u \in D : WaitsFor(u) \cap D # {}

\* u waits in a circle: a knot without a smaller one in it.
InCircle(u) ==
    \E D \in SUBSET Waiting :
      /\ u \in D /\ Knot(D)
      /\ \A E \in SUBSET D : Knot(E) => E = D

\* PostgreSQL's deadlock detector makes the UPDATE of one of them raise.
Victim(u) ==
    /\ upload[u] = "updating"
    /\ InCircle(u)
    /\ Rollback(u)

-----------------------------------------------------------------------------
\* The statements that follow the first one.
Proceed(u) == StartUpdate(u) \/ LockRow(u) \/ Commit(u)

Next == \E u \in Uploads : Read(u) \/ Proceed(u) \/ Fail(u) \/ Victim(u)

Spec == Init /\ [][Next]_vars

\* A handler that has begun goes on.  PostgreSQL wakes a statement that waits for
\* nobody any more, and breaks every circle.  No other failure is assumed to end
\* a wait.
Fairness == \A u \in Uploads : WF_vars(Proceed(u)) /\ WF_vars(Victim(u))

FairSpec == Spec /\ Fairness

-----------------------------------------------------------------------------
\* Once one upload has succeeded the agent always has an active version: no
\* reader ever sees the old one deactivated and the new one missing.
NeverWithout == Committed # {} => active # {}

\* An upload that began after another had succeeded supersedes it: it has a
\* higher version, and the older one is never active again, however many
\* uploads run beside it.
LaterSupersedes ==
    \A u, v \in Uploads : (upload[u] = "done" /\ v \in seen[u]) =>
        version[v] < version[u] /\ v \notin active

\* Why: what a running upload has read covers every upload it must supersede.
ReadCovers ==
    \A u \in Uploads :
        /\ seen[u] \subseteq Committed
        /\ upload[u] \in {"read", "updating"} => \A v \in seen[u] : version[v] <= current[u]
        /\ upload[u] = "updating" => seen[u] \cap active \subseteq matched[u] \cup locked[u]
        /\ upload[u] = "updating" => (at[u] = {} <=> matched[u] = {})

\* However uploads lock the same rows, one by one and in any order, and whichever
\* of them fail: none waits for ever.  It ends by itself, or because PostgreSQL
\* breaks the circle it waits in.
UploadEnds == \A u \in Uploads : []<>(upload[u] \notin {"read", "updating"})

\* "uploading again creates a new version and deactivates the old one"
\* (README.md), which scalar_one_or_none in submit_request relies on.
OneActiveVersion == \A u, v \in active : u = v
=============================================================================
