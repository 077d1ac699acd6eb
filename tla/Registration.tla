---------------------------- MODULE Registration ----------------------------
(***************************************************************************)
(* How agents come to exist: register_agent of routes/agents.py, which     *)
(* runs create_agent of services/agent_registry.py and generate_api_key of *)
(* services/key_manager.py in one transaction, and the deletion of the     *)
(* agent's row by routes/admin.py.                                         *)
(*                                                                         *)
(* A registration is a handler with a session of its own.  What it has     *)
(* flushed nobody else sees before it commits; but PostgreSQL makes an     *)
(* INSERT into handles wait for the transaction that inserted, or deleted, *)
(* a row of the same primary key, and then looks at the key again.         *)
(***************************************************************************)
CONSTANTS
    Creations,    \* the POSTs of a behaviour; each inserts at most one agent, so
                  \* a creation is also the name of its agent
    Handles,
    InsertsFail   \* may a statement or a commit fail?

VARIABLES
    creation, \* where the handler stands, for each POST
    wanted,   \* the handle it asks for
    agents,   \* the committed rows of agents
    handles,  \* the committed rows of handles: pairs of a handle and an agent
    keys,     \* the agents with a committed row of api_keys
    removal   \* where the transaction that deletes an agent stands

vars == <<creation, wanted, agents, handles, keys, removal>>

CreationState ==
    {"start", "checked", "inserted", "keyed", "committed", "created",
     "invalid", "taken", "failed", "lost"}

TypeOK ==
    /\ creation \in [Creations -> CreationState]
    /\ wanted \in [Creations -> Handles]
    /\ agents \subseteq Creations
    /\ handles \subseteq Handles \X Creations
    /\ keys \subseteq Creations
    /\ removal \in [Creations -> {"none", "deleting", "deleted", "kept"}]

Init ==
    /\ creation = [c \in Creations |-> "start"]
    /\ wanted \in [Creations -> Handles]
    /\ agents = {}
    /\ handles = {}
    /\ keys = {}
    /\ removal = [c \in Creations |-> "none"]

-----------------------------------------------------------------------------
(* register_agent.                                                         *)

Goto(c, pc) == creation' = [creation EXCEPT ![c] = pc]

tables == <<agents, handles, keys>>

\* validate_handle_format: 422.
Invalid(c) ==
    /\ creation[c] = "start"
    /\ Goto(c, "invalid")
    /\ UNCHANGED <<wanted, tables, removal>>

\* The SELECT finds no committed row with the handle, or one: 409.
Check(c) ==
    /\ creation[c] = "start"
    /\ Goto(c, IF \E d \in Creations : <<wanted[c], d>> \in handles
                 THEN "taken" ELSE "checked")
    /\ UNCHANGED <<wanted, tables, removal>>

\* Mutant: the agent's row is committed at once.
InsertAgentCommits(c) ==
    /\ creation[c] = "checked"
    /\ agents' = agents \cup {c}
    /\ Goto(c, "inserted")
    /\ UNCHANGED <<wanted, handles, keys, removal>>

\* The first flush: the row of agents.
InsertAgent(c) ==
    /\ creation[c] = "checked"
    /\ Goto(c, "inserted")
    /\ UNCHANGED <<wanted, tables, removal>>

\* Another transaction has inserted, or deleted, the key and not committed yet.
KeyIsBusy(h, c) ==
    \/ \E d \in Creations \ {c} : creation[d] = "keyed" /\ wanted[d] = h
    \/ \E d \in Creations : removal[d] = "deleting" /\ <<h, d>> \in handles

\* Mutant: the table has no primary key.
InsertHandleUnchecked(c) ==
    /\ creation[c] = "inserted"
    /\ Goto(c, "keyed")
    /\ UNCHANGED <<wanted, tables, removal>>

\* Mutant: a unique violation is tried again.
InsertHandleRetries(c) ==
    /\ creation[c] = "inserted"
    /\ ~KeyIsBusy(wanted[c], c)
    /\ \A d \in Creations : <<wanted[c], d>> \notin handles
    /\ Goto(c, "keyed")
    /\ UNCHANGED <<wanted, tables, removal>>

\* The flush of generate_api_key: the rows of handles and api_keys; a unique
\* violation is a 500, and rolls all three rows back.
InsertHandle(c) ==
    /\ creation[c] = "inserted"
    /\ ~KeyIsBusy(wanted[c], c)
    /\ Goto(c, IF \E d \in Creations : <<wanted[c], d>> \in handles
                 THEN "failed" ELSE "keyed")
    /\ UNCHANGED <<wanted, tables, removal>>

\* Mutant: the key is flushed after the commit, and never committed.
CommitWithoutKey(c) ==
    /\ creation[c] = "keyed"
    /\ agents' = agents \cup {c}
    /\ handles' = handles \cup {<<wanted[c], c>>}
    /\ Goto(c, "committed")
    /\ UNCHANGED <<wanted, keys, removal>>

Commit(c) ==
    /\ creation[c] = "keyed"
    /\ agents' = agents \cup {c}
    /\ handles' = handles \cup {<<wanted[c], c>>}
    /\ keys' = keys \cup {c}
    /\ Goto(c, "committed")
    /\ UNCHANGED <<wanted, removal>>

\* The refresh finds the row, and the key is returned, once; or the row is
\* deleted by now: the refresh raises, and nobody ever learns the key.
Respond(c) ==
    /\ creation[c] = "committed"
    /\ Goto(c, IF c \in agents THEN "created" ELSE "lost")
    /\ UNCHANGED <<wanted, tables, removal>>

\* A statement or the commit raises: 500.  After the commit the rows stay.
Fail(c) ==
    /\ InsertsFail
    /\ creation[c] \in {"start", "checked", "inserted", "keyed", "committed"}
    /\ Goto(c, IF creation[c] = "committed" THEN "lost" ELSE "failed")
    /\ UNCHANGED <<wanted, tables, removal>>

-----------------------------------------------------------------------------
(* The transaction of delete_agent.                                        *)

\* The DELETE, which takes the rows that refer to the agent along.
StartDelete(c) ==
    /\ c \in agents
    /\ removal[c] = "none"
    /\ removal' = [removal EXCEPT ![c] = "deleting"]
    /\ UNCHANGED <<creation, wanted, tables>>

\* Mutant: handles.agent_id is not declared ON DELETE CASCADE.
CommitDeleteOnly(c) ==
    /\ removal[c] = "deleting"
    /\ removal' = [removal EXCEPT ![c] = "deleted"]
    /\ agents' = agents \ {c}
    /\ UNCHANGED <<creation, wanted, handles, keys>>

\* api_keys has no foreign key: the agent's key stays.
CommitDelete(c) ==
    /\ removal[c] = "deleting"
    /\ removal' = [removal EXCEPT ![c] = "deleted"]
    /\ agents' = agents \ {c}
    /\ handles' = {row \in handles : row[2] # c}
    /\ UNCHANGED <<creation, wanted, keys>>

\* The row stays.  (An agent whose deletion failed is not deleted again: a
\* bound.  With deletions that fail for ever a registration could wait for ever.)
FailDelete(c) ==
    /\ InsertsFail
    /\ removal[c] = "deleting"
    /\ removal' = [removal EXCEPT ![c] = "kept"]
    /\ UNCHANGED <<creation, wanted, tables>>

-----------------------------------------------------------------------------
\* The steps of a handler that has begun.
Proceed(c) == InsertAgent(c) \/ InsertHandle(c) \/ Commit(c) \/ Respond(c)

EndDelete(c) == CommitDelete(c) \/ FailDelete(c)

Next ==
    \E c \in Creations :
        \/ Invalid(c) \/ Check(c) \/ Proceed(c) \/ Fail(c)
        \/ StartDelete(c) \/ EndDelete(c)

Spec == Init /\ [][Next]_vars

\* A handler that has begun goes on, and PostgreSQL ends every statement that
\* waits for nobody.  Nothing is assumed of clients and operators.
Fairness == \A c \in Creations : WF_vars(Proceed(c)) /\ WF_vars(EndDelete(c))

FairSpec == Spec /\ Fairness

-----------------------------------------------------------------------------
\* validate_api_key: a committed row with the hash of the key.
Authenticates(c) == c \in keys

\* get_agent_by_handle: the join of agents and handles.
Resolve(h) == {c \in agents : <<h, c>> \in handles}

\* An agent is created, and deleted, in one piece: a row of agents has its one
\* handle and its key, and no handle is left to an agent that is not there.
AgentIsComplete ==
    /\ \A c \in agents : Authenticates(c) /\ \E h \in Handles : Resolve(h) = {c}
    /\ \A row \in handles : row[2] \in agents

\* A key that was returned authenticates its agent ever after, and the agent has
\* the handle it asked for until an operator deletes it.
ReturnedKeyWorks ==
    \A c \in Creations : creation[c] = "created" =>
        /\ Authenticates(c)
        /\ Resolve(wanted[c]) = {c} \/ removal[c] = "deleted"

\* Registrations that wait for each other, and for deletions, all end.
CreationEnds ==
    \A c \in Creations :
        creation[c] = "checked" ~>
          creation[c] \in {"created", "failed", "lost"}

\* Why: a handler that has inserted a handle is the only one, and finds no other
\* row, until it commits; and what is committed is what the handlers committed.
RowsFollowHandlers ==
    /\ agents = {c \in Creations : /\ creation[c] \in {"committed", "created", "lost"}
                                   /\ removal[c] # "deleted"}
    /\ handles = {<<wanted[c], c>> : c \in agents}
    /\ keys = {c \in Creations : creation[c] \in {"committed", "created", "lost"}}
    /\ \A c \in Creations : removal[c] # "none" => c \in keys
    /\ \A c, d \in agents : wanted[c] = wanted[d] => c = d
    /\ \A c \in Creations : creation[c] = "keyed" =>
         \A d \in Creations \ {c} :
            (d \in agents \/ creation[d] = "keyed") => wanted[d] # wanted[c]

Dir == INSTANCE Directory WITH
    Owners <- Creations,
    owners <- [h \in Handles |-> Resolve(h)],
    gone <- {c \in Creations : removal[c] = "deleted"}

\* The check, the flushes, the waits and the commits of concurrent registrations
\* and deletions add up to a directory.
ImplementsDirectory == Dir!Spec
=============================================================================
