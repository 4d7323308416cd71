---------------------------- MODULE AgentRegistry ----------------------------
(***************************************************************************)
(* The row of a remote agent and the connection that is served under its   *)
(* name: the operator creates the agent, takes it out of service and       *)
(* deletes it, while the agent itself sends heartbeats over HTTP and       *)
(* registers over its websocket.  Each of these reads the row, awaits, and *)
(* writes; a registration reads it twice.  The rows are found by name, so  *)
(* one name is modelled; it has at most one row at a time.                 *)
(*                                                                         *)
(* Left out: the columns that nothing but the list of agents shows (region,*)
(* labels, latency, last_seen_at), and agent_auth_token, one shared secret *)
(* that lets any name in.  What happens to the requests of a connection is *)
(* AgentTransport.tla.                                                     *)
(***************************************************************************)
EXTENDS UnitOfWork

CONSTANTS
    Jobs,           \* handlers that run at the same time
    MaxCalls        \* bound: handlers begun

ASSUME MaxCallsIsPositive == MaxCalls \in Nat \ {0}

VARIABLES
    agents,         \* id -> row; the name is unique
    bound,          \* the token of the connection in AgentManager, or NoLink
    jobs,
    calls,
    issued,         \* tokens generated: 1 .. issued; 0 is the hash of no token
    \* ---- history
    dead,           \* tokens of deleted rows
    met,            \* a deletion has overlapped a heartbeat or a registration
    raced           \* two calls that generate a token have overlapped

vars == <<agents, bound, jobs, calls, issued, dead, met, raced>>

NoLink == -1
\* SQLite gives the id of the last row again, and there is one row at most.
NextId == 1
NewRow == [token |-> 0, active |-> TRUE, draining |-> FALSE]

\* id: the row the session holds, as `held`; 0 for a row it adds.  row: what it
\* wants to write.
NoJob == [op |-> "none", at |-> "idle", token |-> 0, id |-> 0,
          held |-> NewRow, row |-> NewRow]

AgentCalls == {"heartbeat", "register"}
Generates  == {"bootstrap", "rotate"}

Open(ops) == \E j \in Jobs : jobs[j].op \in ops

Begin(j, job) ==
    /\ jobs[j] = NoJob
    /\ calls < MaxCalls
    /\ calls' = calls + 1
    /\ jobs' = [jobs EXCEPT ![j] = job]
    /\ met' = \/ met
              \/ job.op = "delete" /\ Open(AgentCalls)
              \/ job.op \in AgentCalls /\ Open({"delete"})
    /\ raced' = \/ raced
                \/ job.op \in Generates /\ Open(Generates)
    /\ UNCHANGED <<agents, dead>>

\* A handler that has read the row and goes on to commit.
Writing(op, id, row) ==
    [op |-> op, at |-> "commit", token |-> row.token, id |-> id,
     held |-> agents[id], row |-> row]

-----------------------------------------------------------------------------
(* The operator.                                                           *)

\* The name must be free; the row itself is made by upsert_agent.
AdminAgentBootstrap(j) ==
    /\ agents = <<>>
    /\ issued' = issued + 1
    /\ Begin(j, [NoJob EXCEPT !.op = "bootstrap", !.at = "upsert", !.token = issued + 1])
    /\ UNCHANGED bound

AdminUpdateAgent(j) ==
    \E id \in DOMAIN agents, active, draining \in BOOLEAN :
        /\ Begin(j, Writing("update", id, [agents[id] EXCEPT !.active = active,
                                                             !.draining = draining]))
        /\ UNCHANGED <<bound, issued>>

\* Only an agent without a token may get another one.
AdminRotateAgentToken(j) ==
    \E id \in DOMAIN agents :
        /\ agents[id].token = 0
        /\ issued' = issued + 1
        /\ Begin(j, Writing("rotate", id, [agents[id] EXCEPT !.token = issued + 1]))
        /\ UNCHANGED bound

\* Mutant: the connection is left to itself.
AdminDeleteAgentQuietly(j) ==
    \E id \in DOMAIN agents :
        /\ Begin(j, Writing("delete", id, agents[id]))
        /\ UNCHANGED <<bound, issued>>

\* AgentManager.shutdown takes the connection out and then awaits its websocket;
\* the row is deleted after that.  A handler that finds no row stops nobody and
\* deletes by the id, whatever has got it by then.
AdminDeleteAgent(j) ==
    /\ \/ \E id \in DOMAIN agents :
            /\ Begin(j, Writing("delete", id, agents[id]))
            /\ bound' = NoLink
       \/ /\ agents = <<>>
          /\ Begin(j, [NoJob EXCEPT !.op = "delete", !.at = "commit", !.id = NextId])
          /\ UNCHANGED bound
    /\ UNCHANGED issued

-----------------------------------------------------------------------------
(* The agent.                                                              *)

\* A heartbeat or a registration is let in by the token of the row, and by any
\* token if the row has none.
AuthorizeAgentToken(j) ==
    \E op \in AgentCalls, id \in DOMAIN agents, t \in 0..issued :
        /\ agents[id].token \in {0, t}
        /\ Begin(j, [NoJob EXCEPT !.op = op, !.at = "upsert", !.token = t])
        /\ UNCHANGED <<bound, issued>>

\* Only admin_agent_bootstrap passes a token to upsert_agent.
TokenAfter(job, old) == IF job.op = "bootstrap" THEN job.token ELSE old

\* upsert_agent looks the name up again.  It changes or adds a row.
UpsertAgent(j) ==
    LET job == jobs[j] IN
    /\ job.at = "upsert"
    /\ \/ \E id \in DOMAIN agents :
            LET row == [agents[id] EXCEPT !.token = TokenAfter(job, @)]
            IN  jobs' = [jobs EXCEPT ![j] =
                    [Writing(job.op, id, row) EXCEPT !.token = job.token]]
       \/ /\ agents = <<>>
          /\ jobs' = [jobs EXCEPT ![j].at = "commit",
                                  ![j].row.token = TokenAfter(job, 0)]
    /\ UNCHANGED <<agents, bound, calls, issued, dead, met, raced>>

\* The websocket is served from now on, under the name.
Register(j) ==
    /\ jobs[j].at = "register"
    /\ bound' = jobs[j].token
    /\ jobs' = [jobs EXCEPT ![j] = NoJob]
    /\ UNCHANGED <<agents, calls, issued, dead, met, raced>>

Disconnect ==
    /\ bound # NoLink
    /\ bound' = NoLink
    /\ UNCHANGED <<agents, jobs, calls, issued, dead, met, raced>>

-----------------------------------------------------------------------------
(* The end of a session.                                                   *)

Committed(j) ==
    /\ jobs[j].at = "commit"
    /\ jobs' = [jobs EXCEPT ![j] =
                    IF @.op = "register" THEN [@ EXCEPT !.at = "register"] ELSE NoJob]
    /\ UNCHANGED <<bound, calls, issued, met, raced>>

\* The name is unique.
Inserts(j) ==
    /\ jobs[j].id = 0 /\ agents = <<>>
    /\ agents' = With(agents, NextId, jobs[j].row)
    /\ UNCHANGED dead
    /\ Committed(j)

\* An UPDATE that finds no row is an error.
Updates(j) ==
    LET id == jobs[j].id IN
    /\ id \in DOMAIN agents /\ jobs[j].op # "delete"
    /\ agents' = [agents EXCEPT ![id] = MergeRow(@, jobs[j].held, jobs[j].row)]
    /\ UNCHANGED dead
    /\ Committed(j)

\* A DELETE that finds no row is not.
Deletes(j) ==
    LET id == jobs[j].id IN
    /\ jobs[j].op = "delete"
    /\ agents' = Restrict(agents, DOMAIN agents \ {id})
    /\ dead' = (dead \cup {agents[i].token : i \in DOMAIN agents \cap {id}}) \ {0}
    /\ Committed(j)

\* The session fails, or the process is asked to stop.
Rollback(j) ==
    /\ jobs[j].at \in {"upsert", "commit"}
    /\ jobs' = [jobs EXCEPT ![j] = NoJob]
    /\ UNCHANGED <<agents, bound, calls, issued, dead, met, raced>>

\* An agent of old times has no token.
Init ==
    /\ agents \in {<<>>, [id \in {NextId} |-> NewRow]}
    /\ bound = NoLink
    /\ jobs = [j \in Jobs |-> NoJob]
    /\ calls = 0 /\ issued = 0
    /\ dead = {} /\ met = FALSE /\ raced = FALSE

Next ==
    \/ \E j \in Jobs :
        \/ AdminAgentBootstrap(j) \/ AdminUpdateAgent(j)
        \/ AdminRotateAgentToken(j) \/ AdminDeleteAgent(j)
        \/ AuthorizeAgentToken(j) \/ UpsertAgent(j) \/ Register(j)
        \/ Inserts(j) \/ Updates(j) \/ Deletes(j) \/ Rollback(j)
    \/ Disconnect

Spec == Init /\ [][Next]_vars

-----------------------------------------------------------------------------
(* Properties.                                                             *)

Rows == [token : 0..issued, active : BOOLEAN, draining : BOOLEAN]

\* The state is of the right shape: one row at most, and no token is used that
\* was not generated.
TypeOK ==
    /\ \A id \in DOMAIN agents : id = NextId /\ agents[id] \in Rows
    /\ bound \in {NoLink} \cup 0..issued
    /\ jobs \in [Jobs -> [op : AgentCalls \cup Generates \cup {"none", "update", "delete"},
                          at : {"idle", "upsert", "commit", "register"},
                          token : 0..issued, id : {0, NextId}, held : Rows, row : Rows]]
    /\ calls \in 0..MaxCalls /\ issued \in 0..calls
    /\ dead \subseteq 1..issued
    /\ met \in BOOLEAN /\ raced \in BOOLEAN

Ends(j) == jobs[j].at = "commit" /\ jobs'[j] = NoJob

\* What the operator has decided stands: heartbeats and registrations never put a
\* drained or disabled agent back into service (docs/agent.md:102-103), nor does
\* anything else that was not asked to, although all of them write a row they have
\* read before; and the token he was given stays that of the row, unless two calls
\* generated one at the same time.  Then the one that commits last wins.
OnlyTheOperatorDecides ==
    [][ \A id \in DOMAIN agents \cap DOMAIN agents' :
        /\ <<agents[id].active, agents[id].draining>>
                # <<agents'[id].active, agents'[id].draining>>
            => \E j \in Jobs : jobs[j].op = "update" /\ Ends(j)
        /\ agents[id].token \notin {0, agents'[id].token} => raced' ]_vars

DeletedIsStopped == bound \notin dead

\* test_admin_delete_agent_shutdowns_and_rejects_old_heartbeat: after the deletion
\* the heartbeats of the old agent are refused and no row is left.  A row made by
\* a bootstrap has a token; one without it was made by a heartbeat.
DeletedStaysDeleted == dead # {} => \A id \in DOMAIN agents : agents[id].token # 0

\* A deleted agent is gone: its connection is not served, and nothing but a
\* bootstrap makes a row of its name, unless the deletion overlaps a heartbeat or
\* a registration.
DeleteIsFinal == ~met => DeletedIsStopped /\ DeletedStaysDeleted
=============================================================================
