------------------------- MODULE RegistrationProofs -------------------------
(***************************************************************************)
(* Proofs about Registration, for any number of registrations and handles. *)
(*                                                                         *)
(* RowsFollowHandlers says which rows are committed from where the         *)
(* handlers stand; it is inductive with the types, and the rest follows.   *)
(***************************************************************************)
EXTENDS Registration, TLAPS

IndInv == TypeOK /\ RowsFollowHandlers

LEMMA IndInvInit == Init => IndInv
  BY DEF Init, IndInv, TypeOK, CreationState, RowsFollowHandlers

LEMMA TypeStep == TypeOK /\ [Next]_vars => TypeOK'
  <1> SUFFICES ASSUME TypeOK, [Next]_vars PROVE TypeOK'
    OBVIOUS
  <1> USE DEF TypeOK, CreationState, Goto, tables
  <1>1. ASSUME NEW c \in Creations, Invalid(c) \/ Check(c) PROVE TypeOK'
    BY <1>1 DEF Invalid, Check
  <1>2. ASSUME NEW c \in Creations, InsertAgent(c) \/ InsertHandle(c) PROVE TypeOK'
    BY <1>2 DEF InsertAgent, InsertHandle
  <1>3. ASSUME NEW c \in Creations, Commit(c) PROVE TypeOK'
    BY <1>3 DEF Commit
  <1>4. ASSUME NEW c \in Creations, Respond(c) \/ Fail(c) PROVE TypeOK'
    BY <1>4 DEF Respond, Fail
  <1>5. ASSUME NEW c \in Creations, StartDelete(c) \/ EndDelete(c) PROVE TypeOK'
    BY <1>5 DEF StartDelete, EndDelete, CommitDelete, FailDelete
  <1>6. CASE UNCHANGED vars
    BY <1>6 DEF vars
  <1> QED
    BY <1>1, <1>2, <1>3, <1>4, <1>5, <1>6 DEF Next, Proceed

\* Of two handlers that want the same handle, one only is past its INSERT, and
\* then no row of the handle is committed.
LEMMA RowsStep == IndInv /\ [Next]_vars => RowsFollowHandlers'
  <1> SUFFICES ASSUME TypeOK, RowsFollowHandlers, [Next]_vars
               PROVE  RowsFollowHandlers'
    BY DEF IndInv
  <1> USE DEF TypeOK, CreationState, Goto, tables
  <1>1. ASSUME NEW c \in Creations, Invalid(c) \/ Check(c) \/ InsertAgent(c)
        PROVE  RowsFollowHandlers'
    BY <1>1 DEF Invalid, Check, InsertAgent, RowsFollowHandlers
  <1>2. ASSUME NEW c \in Creations, InsertHandle(c) PROVE RowsFollowHandlers'
    <2>1. CASE creation'[c] = "failed"
      BY <1>2, <2>1 DEF InsertHandle, RowsFollowHandlers
    <2>2. CASE creation'[c] = "keyed"
      <3>1. \A d \in Creations : <<wanted[c], d>> \notin handles
        BY <1>2, <2>2 DEF InsertHandle
      <3>2. \A d \in Creations \ {c} : creation[d] = "keyed" => wanted[d] # wanted[c]
        BY <1>2 DEF InsertHandle, KeyIsBusy
      <3>3. \A d \in agents : wanted[d] # wanted[c]
        BY <3>1 DEF RowsFollowHandlers
      <3> QED
        BY <1>2, <2>2, <3>2, <3>3 DEF InsertHandle, RowsFollowHandlers
    <2> QED
      BY <1>2, <2>1, <2>2 DEF InsertHandle
  <1>3. ASSUME NEW c \in Creations, Commit(c) PROVE RowsFollowHandlers'
    <2>1. /\ creation[c] = "keyed" /\ creation' = [creation EXCEPT ![c] = "committed"]
          /\ agents' = agents \cup {c}
          /\ handles' = handles \cup {<<wanted[c], c>>}
          /\ keys' = keys \cup {c}
          /\ UNCHANGED <<wanted, removal>>
      BY <1>3 DEF Commit
    <2>2. removal[c] = "none"
      BY <2>1 DEF RowsFollowHandlers
    <2>3. /\ agents' = {d \in Creations : /\ creation'[d] \in {"committed", "created", "lost"}
                                          /\ removal'[d] # "deleted"}
          /\ keys' = {d \in Creations : creation'[d] \in {"committed", "created", "lost"}}
      BY <2>1, <2>2 DEF RowsFollowHandlers
    <2>4. handles' = {<<wanted'[d], d>> : d \in agents'}
      BY <2>1 DEF RowsFollowHandlers
    <2>5. \A d, e \in agents' : wanted'[d] = wanted'[e] => d = e
      BY <2>1 DEF RowsFollowHandlers
    <2>6. \A d \in Creations : creation'[d] = "keyed" =>
            \A e \in Creations \ {d} :
               (e \in agents' \/ creation'[e] = "keyed") => wanted'[e] # wanted'[d]
      BY <2>1 DEF RowsFollowHandlers
    <2>7. \A d \in Creations : removal'[d] # "none" => d \in keys'
      BY <2>1 DEF RowsFollowHandlers
    <2> QED
      BY <2>3, <2>4, <2>5, <2>6, <2>7 DEF RowsFollowHandlers
  <1>4. ASSUME NEW c \in Creations, Respond(c) \/ Fail(c)
        PROVE  RowsFollowHandlers'
    BY <1>4 DEF Respond, Fail, RowsFollowHandlers
  <1>5. ASSUME NEW c \in Creations, StartDelete(c) \/ FailDelete(c)
        PROVE  RowsFollowHandlers'
    BY <1>5 DEF StartDelete, FailDelete, RowsFollowHandlers
  <1>6. ASSUME NEW c \in Creations, CommitDelete(c) PROVE RowsFollowHandlers'
    <2>1. /\ removal' = [removal EXCEPT ![c] = "deleted"]
          /\ agents' = agents \ {c}
          /\ handles' = {row \in handles : row[2] # c}
          /\ removal[c] = "deleting"
          /\ UNCHANGED <<creation, wanted, keys>>
      BY <1>6 DEF CommitDelete
    <2>2. handles' = {<<wanted'[d], d>> : d \in agents'}
      BY <2>1 DEF RowsFollowHandlers
    <2>3. agents' = {d \in Creations : /\ creation'[d] \in {"committed", "created", "lost"}
                                       /\ removal'[d] # "deleted"}
      BY <2>1 DEF RowsFollowHandlers
    <2> QED
      BY <2>1, <2>2, <2>3 DEF RowsFollowHandlers
  <1>7. CASE UNCHANGED vars
    BY <1>7 DEF vars, RowsFollowHandlers
  <1> QED
    BY <1>1, <1>2, <1>3, <1>4, <1>5, <1>6, <1>7 DEF Next, Proceed, EndDelete

LEMMA IndInvHolds == Spec => []IndInv
  <1>1. IndInv /\ [Next]_vars => IndInv'
    BY TypeStep, RowsStep DEF IndInv
  <1> QED
    BY <1>1, IndInvInit, PTL DEF Spec

\* Every variable keeps its type.
THEOREM TypeCorrect == Spec => []TypeOK
  <1>1. IndInv => TypeOK
    BY DEF IndInv
  <1> QED
    BY <1>1, IndInvHolds, PTL

-----------------------------------------------------------------------------
\* The handles that lead to agents are the rows of handles.
LEMMA ResolveIs ==
    ASSUME IndInv, NEW h \in Handles
    PROVE  Resolve(h) = {c \in agents : wanted[c] = h}
  <1>1. handles = {<<wanted[c], c>> : c \in agents}
    BY DEF IndInv, RowsFollowHandlers
  <1>2. \A c \in agents : <<h, c>> \in handles <=> wanted[c] = h
    BY <1>1
  <1> QED
    BY <1>2 DEF Resolve

\* A row of agents never lacks its handle or its key, and no handle outlives its
\* agent, whichever registrations and deletions run at once.
THEOREM AgentsAreComplete == Spec => []AgentIsComplete
  <1>1. IndInv => AgentIsComplete
    <2> SUFFICES ASSUME IndInv PROVE AgentIsComplete
      OBVIOUS
    <2>1. ASSUME NEW c \in agents
          PROVE  c \in keys /\ wanted[c] \in Handles /\ Resolve(wanted[c]) = {c}
      <3>1. c \in keys /\ wanted[c] \in Handles
        BY DEF IndInv, RowsFollowHandlers, TypeOK
      <3> QED
        BY <3>1, ResolveIs DEF IndInv, RowsFollowHandlers
    <2>2. \A row \in handles : row[2] \in agents
      BY DEF IndInv, RowsFollowHandlers
    <2> QED
      BY <2>1, <2>2 DEF AgentIsComplete, Authenticates
  <1> QED
    BY <1>1, IndInvHolds, PTL

\* The key that a registration returned is never lost, nor the handle before the
\* agent is deleted.
THEOREM ReturnedKeysWork == Spec => []ReturnedKeyWorks
  <1>1. IndInv => ReturnedKeyWorks
    <2> SUFFICES ASSUME IndInv, NEW c \in Creations, creation[c] = "created"
                 PROVE  c \in keys /\ (Resolve(wanted[c]) = {c} \/ removal[c] = "deleted")
      BY DEF ReturnedKeyWorks, Authenticates
    <2>1. c \in keys /\ (c \in agents \/ removal[c] = "deleted") /\ wanted[c] \in Handles
      BY DEF IndInv, RowsFollowHandlers, TypeOK
    <2> QED
      BY <2>1, ResolveIs DEF IndInv, RowsFollowHandlers
  <1> QED
    BY <1>1, IndInvHolds, PTL

-----------------------------------------------------------------------------
(* Registration implements Directory.                                      *)

\* A commit claims the handle, the commit of a deletion releases it, and nothing
\* else is seen.
LEMMA DirectoryStep ==
    ASSUME IndInv, [Next]_vars, RowsFollowHandlers', TypeOK'
    PROVE  [Dir!Next]_(Dir!vars)
  <1>a. IndInv'
    BY DEF IndInv
  <1>b. \A h \in Handles : Resolve(h) = {c \in agents : wanted[c] = h}
    BY ResolveIs
  <1>c. \A h \in Handles : Resolve(h)' = {c \in agents' : wanted'[c] = h}
    BY <1>a DEF IndInv, RowsFollowHandlers, Resolve
  <1> DEFINE own == [h \in Handles |-> Resolve(h)]
             out == {c \in Creations : removal[c] = "deleted"}
  <1>1. ASSUME NEW c \in Creations, Commit(c) PROVE Dir!Next
    <2>1. /\ creation[c] = "keyed" /\ agents' = agents \cup {c}
          /\ UNCHANGED <<wanted, removal>>
      BY <1>1 DEF Commit
    <2>2. c \notin agents /\ removal[c] = "none" /\ wanted[c] \in Handles
      BY <2>1 DEF IndInv, RowsFollowHandlers, TypeOK
    <2>3. \A d \in agents : wanted[d] # wanted[c]
      BY <2>1, <2>2 DEF IndInv, RowsFollowHandlers, TypeOK
    <2>4. /\ Resolve(wanted[c]) = {}
          /\ \A g \in Handles : c \notin Resolve(g)
          /\ c \notin out
      BY <1>b, <2>2, <2>3
    <2>5. Resolve(wanted[c])' = {c}
      BY <1>c, <2>1, <2>2, <2>3
    <2>6. \A g \in Handles : g # wanted[c] => Resolve(g)' = Resolve(g)
      BY <1>b, <1>c, <2>1
    <2>7. own' = [own EXCEPT ![wanted[c]] = {c}]
      BY <2>2, <2>5, <2>6, <2>1
    <2>8. out' = out
      BY <2>1
    <2>9. Dir!Claim(wanted[c], c)
      BY <2>2, <2>4, <2>7, <2>8 DEF Dir!Claim
    <2> QED
      BY <2>2, <2>9 DEF Dir!Next
  <1>2. ASSUME NEW c \in Creations, CommitDelete(c) PROVE Dir!Next
    <2>1. /\ removal[c] = "deleting" /\ removal' = [removal EXCEPT ![c] = "deleted"]
          /\ agents' = agents \ {c} /\ UNCHANGED <<creation, wanted>>
      BY <1>2 DEF CommitDelete
    <2>2. c \in agents /\ wanted[c] \in Handles
      BY <2>1 DEF IndInv, RowsFollowHandlers, TypeOK
    <2>3. \A d \in agents : wanted[d] = wanted[c] => d = c
      BY <2>2 DEF IndInv, RowsFollowHandlers
    <2>4. Resolve(wanted[c]) = {c}
      BY <1>b, <2>2, <2>3
    <2>5. Resolve(wanted[c])' = {}
      BY <1>c, <2>1, <2>2, <2>3
    <2>6. \A g \in Handles : g # wanted[c] => Resolve(g)' = Resolve(g)
      BY <1>b, <1>c, <2>1
    <2>7. own' = [own EXCEPT ![wanted[c]] = {}]
      BY <2>2, <2>5, <2>6, <2>1
    <2>8. out' = out \cup {c}
      BY <2>1 DEF IndInv, TypeOK
    <2>9. Dir!Release(wanted[c], c)
      BY <2>2, <2>4, <2>7, <2>8 DEF Dir!Release
    <2> QED
      BY <2>2, <2>9 DEF Dir!Next
  <1>3. ASSUME UNCHANGED <<wanted, agents, handles>>, out' = out
        PROVE  UNCHANGED Dir!vars
    BY <1>3 DEF Dir!vars, Resolve
  <1>4. ASSUME NEW c \in Creations,
               Invalid(c) \/ Check(c) \/ InsertAgent(c) \/ InsertHandle(c) \/ Respond(c)
                 \/ Fail(c) \/ StartDelete(c) \/ FailDelete(c)
        PROVE  UNCHANGED <<wanted, agents, handles>> /\ out' = out
    BY <1>4 DEF Invalid, Check, InsertAgent, InsertHandle, Respond, Fail, StartDelete,
                FailDelete, tables, IndInv, RowsFollowHandlers, TypeOK
  <1>5. ASSUME UNCHANGED vars PROVE UNCHANGED <<wanted, agents, handles>> /\ out' = out
    BY <1>5 DEF vars
  <1> QED
    BY <1>1, <1>2, <1>3, <1>4, <1>5 DEF Next, Proceed, EndDelete

\* Concurrent registrations and deletions, with their waits, violations and
\* rollbacks, behave as one directory of handles.
THEOREM RegistrationIsDirectory == Spec => ImplementsDirectory
  <1>1. Init => Dir!Init
    BY DEF Init, Dir!Init, Resolve
  <1>2. IndInv /\ [Next]_vars /\ IndInv' => [Dir!Next]_(Dir!vars)
    BY DirectoryStep DEF IndInv
  <1> QED
    BY <1>1, <1>2, IndInvHolds, PTL DEF Spec, ImplementsDirectory, Dir!Spec

-----------------------------------------------------------------------------
(* Who waits for whom.                                                     *)

\* The transaction that makes an INSERT of handle h wait is that of agent d: its
\* creation, or its deletion.
Holds(d, h) ==
    \/ creation[d] = "keyed" /\ wanted[d] = h
    \/ removal[d] = "deleting" /\ <<h, d>> \in handles

\* A handle's key is held by one transaction at most, and that one is past every
\* statement that waits.  So an INSERT that waits waits for one transaction, which
\* waits for nobody: registrations and deletions never form a cycle.  And while a
\* creation holds the key, there is no row of the handle that it would violate.
HeldOnce ==
    \A d \in Creations, h \in Handles : Holds(d, h) =>
        /\ \A e \in Creations : Holds(e, h) => e = d
        /\ creation[d] # "inserted"
        /\ creation[d] = "keyed" => Resolve(h) = {} /\ removal[d] = "none"

\* Registrations and deletions never wait for each other in a cycle.  It is the
\* safety half of CreationEnds.
THEOREM WaitsDoNotCycle == Spec => []HeldOnce
  <1>1. IndInv => HeldOnce
    <2> SUFFICES ASSUME IndInv, NEW d \in Creations, NEW h \in Handles, Holds(d, h)
                 PROVE  /\ \A e \in Creations : Holds(e, h) => e = d
                        /\ creation[d] # "inserted"
                        /\ creation[d] = "keyed" => Resolve(h) = {} /\ removal[d] = "none"
      BY DEF HeldOnce
    <2>1. \A e \in Creations : <<h, e>> \in handles => e \in agents /\ wanted[e] = h
      BY DEF IndInv, RowsFollowHandlers
    <2>2. CASE creation[d] = "keyed" /\ wanted[d] = h
      <3>1. \A e \in Creations \ {d} :
              (e \in agents \/ creation[e] = "keyed") => wanted[e] # h
        BY <2>2 DEF IndInv, RowsFollowHandlers
      <3>2. d \notin agents /\ d \notin keys /\ removal[d] = "none"
        BY <2>2 DEF IndInv, RowsFollowHandlers
      <3>3. Resolve(h) = {}
        BY <2>1, <3>1, <3>2 DEF Resolve, IndInv, TypeOK
      <3> QED
        BY <2>1, <2>2, <3>1, <3>2, <3>3 DEF Holds
    <2>3. CASE removal[d] = "deleting" /\ <<h, d>> \in handles
      <3>1. d \in agents /\ wanted[d] = h
        BY <2>1, <2>3
      <3>2. creation[d] \notin {"inserted", "keyed"}
        BY <3>1 DEF IndInv, RowsFollowHandlers
      <3>3. \A e \in Creations : creation[e] = "keyed" => wanted[e] # h
        BY <3>1, <3>2 DEF IndInv, RowsFollowHandlers
      <3>4. \A e \in agents : wanted[e] = h => e = d
        BY <3>1 DEF IndInv, RowsFollowHandlers
      <3> QED
        BY <2>1, <3>2, <3>3, <3>4 DEF Holds
    <2> QED
      BY <2>2, <2>3 DEF Holds
  <1> QED
    BY <1>1, IndInvHolds, PTL
=============================================================================
