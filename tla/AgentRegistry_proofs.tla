----------------------- MODULE AgentRegistry_proofs ------------------------
(***************************************************************************)
(* Proofs about AgentRegistry, for any set of handlers and number of       *)
(* calls.  IInv is the inductive invariant: what an open handler may       *)
(* write (Shape), that a generated token is nowhere before its handler     *)
(* commits (Fresh), that there is no token to lose while one is generated  *)
(* (Quiet), and that nothing of a deleted agent is left (Gone).            *)
(***************************************************************************)
EXTENDS AgentRegistry, TLAPS

Ops == AgentCalls \cup Generates \cup {"none", "update", "delete"}
Job == [op : Ops, at : {"idle", "upsert", "commit", "register"},
        token : 0..issued, id : {0, NextId}, held : Rows, row : Rows]

\* Only an update writes the flags, and only a bootstrap or a rotation the token.
JobShape(job) ==
    /\ job.op = "none" => job.at = "idle"
    /\ job.at = "idle" => job = NoJob
    /\ job.op \in Generates => job.token # 0
    /\ job.op = "delete" => job.id = NextId
    /\ job.at = "upsert" => job.id = 0 /\ job.op \in AgentCalls \cup {"bootstrap"}
    /\ job.at = "register" => job.op = "register"
    /\ job.at = "commit" =>
        /\ job.op \in Generates => job.row.token = job.token
        /\ job.id = 0 => job.op \in AgentCalls \cup {"bootstrap"}
        /\ job.id = 0 /\ job.op \in AgentCalls => job.row.token = 0
        /\ job.id # 0 /\ job.op \notin Generates => job.row.token = job.held.token
        /\ job.id # 0 /\ job.op # "update" =>
                job.row.active = job.held.active /\ job.row.draining = job.held.draining

Shape == \A j \in Jobs : JobShape(jobs[j])

\* The token of an open generator is in no row, was in none that was deleted, and
\* no other generator has it.
Fresh ==
    /\ \A j \in Jobs : jobs[j].op \in Generates =>
        /\ jobs[j].token \notin dead
        /\ \A id \in DOMAIN agents : agents[id].token # jobs[j].token
        /\ \A k \in Jobs : jobs[k].op \in Generates /\ jobs[k].token = jobs[j].token
                => k = j
    /\ \A id \in DOMAIN agents : agents[id].token \notin dead

\* A token is generated only while there is none, by one handler at a time.
Quiet ==
    ~raced => \A j \in Jobs : jobs[j].op \in Generates =>
        /\ \A id \in DOMAIN agents : agents[id].token = 0
        /\ \A k \in Jobs : jobs[k].op \in Generates => k = j

\* While an agent is deleted nobody acts for it, and whoever acts for an agent
\* has its row under him.
Gone ==
    ~met =>
        /\ \A j \in Jobs : jobs[j].op = "delete" =>
            bound = NoLink /\ \A k \in Jobs : jobs[k].op \notin AgentCalls
        /\ \A j \in Jobs : jobs[j].op \in AgentCalls =>
            /\ DOMAIN agents # {} /\ jobs[j].token \notin dead
            /\ jobs[j].at = "commit" => jobs[j].id # 0
        /\ bound \notin dead
        /\ dead # {} => \A id \in DOMAIN agents : agents[id].token # 0
        /\ DOMAIN agents = {} => bound = NoLink

IInv == TypeOK /\ Shape /\ Fresh /\ Quiet /\ Gone

-----------------------------------------------------------------------------
(* Rows and handlers.                                                      *)

LEMMA RowShape ==
  ASSUME NEW r, r \in Rows
  PROVE  r.token \in 0..issued /\ r.active \in BOOLEAN /\ r.draining \in BOOLEAN
BY DEF Rows

LEMMA NewRowType == TypeOK => NewRow \in Rows
BY DEF NewRow, Rows, TypeOK

LEMMA RowsGrow ==
  ASSUME issued \in Nat, issued' \in Nat, issued <= issued', NEW r \in Rows
  PROVE  r \in Rows'
<1>1. 0..issued \subseteq 0..issued'
  OBVIOUS
<1> QED  BY <1>1 DEF Rows

\* What an UPDATE leaves of a row.
LEMMA MergeRowIs ==
  ASSUME NEW current \in Rows, NEW old \in Rows, NEW new \in Rows
  PROVE  LET merged == MergeRow(current, old, new) IN
         /\ merged \in Rows
         /\ merged.token = IF new.token = old.token THEN current.token ELSE new.token
         /\ new.active = old.active => merged.active = current.active
         /\ new.draining = old.draining => merged.draining = current.draining
<1> DEFINE merged == MergeRow(current, old, new)
<1>1. DOMAIN current = {"token", "active", "draining"}
  BY DEF Rows
<1>2. merged = [c \in {"token", "active", "draining"} |->
                    IF new[c] = old[c] THEN current[c] ELSE new[c]]
  BY <1>1 DEF MergeRow
<1>3. /\ merged.token = IF new.token = old.token THEN current.token ELSE new.token
      /\ merged.active = IF new.active = old.active THEN current.active ELSE new.active
      /\ merged.draining =
            IF new.draining = old.draining THEN current.draining ELSE new.draining
  BY <1>2
<1>4. /\ merged.token \in 0..issued
      /\ merged.active \in BOOLEAN /\ merged.draining \in BOOLEAN
  <2>1. /\ current.token \in 0..issued /\ new.token \in 0..issued
    BY RowShape
  <2>2. /\ current.active \in BOOLEAN /\ new.active \in BOOLEAN
        /\ current.draining \in BOOLEAN /\ new.draining \in BOOLEAN
    BY RowShape
  <2> HIDE DEF merged
  <2>3. merged.token \in 0..issued
    BY <1>3, <2>1
  <2>4. merged.active \in BOOLEAN
    <3>1. merged.active = current.active \/ merged.active = new.active
      BY <1>3
    <3> QED  BY <2>2, <3>1
  <2>5. merged.draining \in BOOLEAN
    <3>1. merged.draining = current.draining \/ merged.draining = new.draining
      BY <1>3
    <3> QED  BY <2>2, <3>1
  <2> QED  BY <2>3, <2>4, <2>5
<1>5. merged \in Rows
  BY <1>2, <1>4 DEF Rows
<1> QED  BY <1>3, <1>5

LEMMA NoJobIs ==
  TypeOK => NoJob \in Job /\ JobShape(NoJob) /\ NoJob.op = "none" /\ NoJob.at = "idle"
<1> SUFFICES ASSUME TypeOK
             PROVE NoJob \in Job /\ JobShape(NoJob) /\ NoJob.op = "none" /\ NoJob.at = "idle"
  OBVIOUS
<1>1. NoJob.op = "none" /\ NoJob.at = "idle"
  BY DEF NoJob
<1>2. JobShape(NoJob)
  BY DEF NoJob, JobShape, Generates
<1>3. 0 \in 0..issued
  BY DEF TypeOK
<1>4. NoJob \in Job
  BY <1>3, NewRowType DEF NoJob, Job, Ops
<1> QED  BY <1>1, <1>2, <1>4

LEMMA JobsGrow ==
  ASSUME issued \in Nat, issued' \in Nat, issued <= issued', NEW job \in Job
  PROVE  job \in Job'
<1>1. 0..issued \subseteq 0..issued'
  OBVIOUS
<1>2. Rows \subseteq Rows'
  BY RowsGrow
<1> QED  BY <1>1, <1>2 DEF Job

-----------------------------------------------------------------------------
(* The handler that each action begins or changes.                         *)

\* issued' is what it was, or one more.
LEMMA IssuedGrows ==
  ASSUME TypeOK, issued' \in {issued, issued + 1}
  PROVE  /\ issued \in Nat /\ issued' \in Nat /\ issued <= issued'
         /\ issued' \in 0..issued'
         /\ \A r \in Rows : r \in Rows'
         /\ \A job \in Job : job \in Job'
<1>1. issued \in Nat
  BY MaxCallsIsPositive DEF TypeOK
<1>2. issued' \in Nat /\ issued <= issued'
  BY <1>1
<1> QED  BY <1>1, <1>2, RowsGrow, JobsGrow

LEMMA WritingIs ==
  ASSUME TypeOK, issued' \in {issued, issued + 1}, NEW id \in DOMAIN agents,
         NEW op \in Ops, NEW row \in Rows'
  PROVE  LET job == Writing(op, id, row) IN
         /\ job \in Job' /\ job.op = op /\ job.at = "commit" /\ job.id = NextId
         /\ job.id # 0 /\ job.token = row.token /\ job.held = agents[id] /\ job.row = row
<1>1. agents[id] \in Rows' /\ id = NextId
  BY IssuedGrows DEF TypeOK
<1>2. row.token \in 0..issued'
  BY DEF Rows
<1>3. NextId # 0
  BY DEF NextId
<1> QED  BY <1>1, <1>2, <1>3 DEF Writing, Job

LEMMA Bootstraps ==
  ASSUME TypeOK, NEW j \in Jobs, AdminAgentBootstrap(j)
  PROVE  \E job \in Job' :
            /\ JobShape(job) /\ job.op = "bootstrap" /\ job.token = issued'
            /\ Begin(j, job)
            /\ issued' = issued + 1 /\ agents = <<>> /\ bound' = bound
<1> DEFINE job == [NoJob EXCEPT !.op = "bootstrap", !.at = "upsert", !.token = issued + 1]
<1>1. Begin(j, job) /\ issued' = issued + 1 /\ agents = <<>> /\ bound' = bound
  BY DEF AdminAgentBootstrap
<1>2. NoJob \in Job' /\ issued' \in 0..issued' /\ issued' # 0
  BY <1>1, IssuedGrows, NoJobIs
<1>3. /\ job.op = "bootstrap" /\ job.at = "upsert" /\ job.token = issued'
      /\ job.id = 0
  BY <1>1 DEF NoJob
<1>4. job \in Job'
  BY <1>1, <1>2 DEF Job, Ops, Generates
<1> HIDE DEF job
<1>5. JobShape(job)
  BY <1>2, <1>3 DEF JobShape, Generates
<1> QED  BY <1>1, <1>3, <1>4, <1>5

LEMMA AdminUpdates ==
  ASSUME TypeOK, NEW j \in Jobs, AdminUpdateAgent(j)
  PROVE  \E job \in Job' :
            /\ JobShape(job) /\ job.op = "update" /\ Begin(j, job)
            /\ issued' = issued /\ bound' = bound
<1>1. PICK id \in DOMAIN agents, active, draining \in BOOLEAN :
        /\ Begin(j, Writing("update", id, [agents[id] EXCEPT !.active = active,
                                                             !.draining = draining]))
        /\ issued' = issued /\ bound' = bound
  BY DEF AdminUpdateAgent
<1> DEFINE row == [agents[id] EXCEPT !.active = active, !.draining = draining]
           job == Writing("update", id, row)
<1>2. agents[id] \in Rows'
  BY <1>1, IssuedGrows DEF TypeOK
<1>3. row \in Rows' /\ row.token = agents[id].token
  BY <1>2 DEF Rows
<1> HIDE DEF row
<1>4. /\ job \in Job' /\ job.op = "update" /\ job.at = "commit" /\ job.id = NextId
      /\ job.id # 0 /\ job.row.token = job.held.token
  BY <1>1, <1>3, WritingIs DEF Ops
<1> HIDE DEF job
<1>5. JobShape(job)
  BY <1>4 DEF JobShape, Generates
<1> QED  BY <1>1, <1>4, <1>5 DEF job, row

LEMMA AdminRotates ==
  ASSUME TypeOK, NEW j \in Jobs, AdminRotateAgentToken(j)
  PROVE  \E job \in Job' :
            /\ JobShape(job) /\ job.op = "rotate" /\ job.token = issued'
            /\ Begin(j, job)
            /\ issued' = issued + 1 /\ bound' = bound
            /\ \A id \in DOMAIN agents : agents[id].token = 0
<1>1. PICK id \in DOMAIN agents :
        /\ agents[id].token = 0
        /\ issued' = issued + 1 /\ bound' = bound
        /\ Begin(j, Writing("rotate", id, [agents[id] EXCEPT !.token = issued + 1]))
  BY DEF AdminRotateAgentToken
<1> DEFINE row == [agents[id] EXCEPT !.token = issued + 1]
           job == Writing("rotate", id, row)
<1>2. agents[id] \in Rows' /\ issued' \in 0..issued' /\ issued' # 0
  BY <1>1, IssuedGrows DEF TypeOK
<1>3. row \in Rows' /\ row.token = issued' /\ row.active = agents[id].active
      /\ row.draining = agents[id].draining
  BY <1>1, <1>2 DEF Rows
<1> HIDE DEF row
<1>4. /\ job \in Job' /\ job.op = "rotate" /\ job.at = "commit" /\ job.id = NextId
      /\ job.id # 0 /\ job.token = row.token /\ job.held = agents[id] /\ job.row = row
  BY <1>1, <1>3, WritingIs DEF Ops, Generates
<1> HIDE DEF job
<1>5. JobShape(job)
  BY <1>2, <1>3, <1>4 DEF JobShape, Generates
<1>6. \A i \in DOMAIN agents : i = id
  BY DEF TypeOK
<1> QED  BY <1>1, <1>3, <1>4, <1>5, <1>6 DEF job, row

LEMMA AdminDeletes ==
  ASSUME TypeOK, NEW j \in Jobs, AdminDeleteAgent(j)
  PROVE  \E job \in Job' :
            /\ JobShape(job) /\ job.op = "delete" /\ Begin(j, job)
            /\ issued' = issued
            /\ bound' = NoLink \/ (bound' = bound /\ DOMAIN agents = {})
<1>1. CASE \E id \in DOMAIN agents :
                Begin(j, Writing("delete", id, agents[id])) /\ bound' = NoLink
  <2>1. PICK id \in DOMAIN agents :
            Begin(j, Writing("delete", id, agents[id])) /\ bound' = NoLink
    BY <1>1
  <2> DEFINE job == Writing("delete", id, agents[id])
  <2>2. issued' = issued
    BY DEF AdminDeleteAgent
  <2>3. agents[id] \in Rows'
    BY <2>2, IssuedGrows DEF TypeOK
  <2>4. /\ job \in Job' /\ job.op = "delete" /\ job.at = "commit" /\ job.id = NextId
        /\ job.id # 0 /\ job.row = job.held
    BY <2>2, <2>3, WritingIs DEF Ops
  <2> HIDE DEF job
  <2>5. JobShape(job)
    BY <2>4 DEF JobShape, Generates
  <2> QED  BY <2>1, <2>2, <2>4, <2>5 DEF job
<1>2. CASE /\ agents = <<>> /\ bound' = bound
           /\ Begin(j, [NoJob EXCEPT !.op = "delete", !.at = "commit", !.id = NextId])
  <2> DEFINE job == [NoJob EXCEPT !.op = "delete", !.at = "commit", !.id = NextId]
  <2>1. issued' = issued /\ Begin(j, job)
    BY <1>2 DEF AdminDeleteAgent
  <2>2. NoJob \in Job'
    BY <2>1, IssuedGrows, NoJobIs
  <2>3. /\ job.op = "delete" /\ job.at = "commit" /\ job.id = NextId
        /\ job.row = job.held
    BY DEF NoJob
  <2>4. job \in Job'
    BY <2>2 DEF Job, Ops
  <2> HIDE DEF job
  <2>5. JobShape(job)
    BY <2>3 DEF JobShape, Generates, NextId
  <2> QED  BY <1>2, <2>1, <2>3, <2>4, <2>5
<1> QED  BY <1>1, <1>2 DEF AdminDeleteAgent

LEMMA Authorizes ==
  ASSUME TypeOK, NEW j \in Jobs, AuthorizeAgentToken(j)
  PROVE  \E job \in Job', id \in DOMAIN agents :
            /\ JobShape(job) /\ job.op \in AgentCalls /\ job.at = "upsert"
            /\ agents[id].token \in {0, job.token}
            /\ Begin(j, job)
            /\ issued' = issued /\ bound' = bound
<1>1. PICK op \in AgentCalls, id \in DOMAIN agents, t \in 0..issued :
        /\ agents[id].token \in {0, t}
        /\ Begin(j, [NoJob EXCEPT !.op = op, !.at = "upsert", !.token = t])
        /\ bound' = bound /\ issued' = issued
  BY DEF AuthorizeAgentToken
<1> DEFINE job == [NoJob EXCEPT !.op = op, !.at = "upsert", !.token = t]
<1>2. NoJob \in Job' /\ t \in 0..issued'
  BY <1>1, IssuedGrows, NoJobIs
<1>3. job.op = op /\ job.at = "upsert" /\ job.token = t /\ job.id = 0
  BY DEF NoJob
<1>4. job \in Job'
  BY <1>2 DEF Job, Ops
<1> HIDE DEF job
<1>5. JobShape(job)
  BY <1>3 DEF JobShape, Generates, AgentCalls
<1> QED  BY <1>1, <1>3, <1>4, <1>5 DEF job

\* The handler after the second look at the row.
LEMMA Upserts ==
  ASSUME TypeOK, Shape, NEW j \in Jobs, UpsertAgent(j)
  PROVE  \E job \in Job' :
            /\ JobShape(job) /\ job.op = jobs[j].op /\ job.token = jobs[j].token
            /\ job.op \in AgentCalls \cup {"bootstrap"}
            /\ agents # <<>> => job.id # 0
            /\ jobs' = [jobs EXCEPT ![j] = job]
<1>1. /\ jobs[j] \in Job /\ jobs[j].at = "upsert" /\ JobShape(jobs[j])
      /\ jobs[j].op \in AgentCalls \cup {"bootstrap"}
      /\ issued' = issued /\ jobs[j].token \in 0..issued
  <2>1. jobs[j] \in Job
    BY DEF TypeOK, Job, Ops
  <2>2. jobs[j].token \in 0..issued
    BY <2>1 DEF Job
  <2> QED  BY <2>1, <2>2 DEF UpsertAgent, Shape, JobShape
<1>2. CASE \E id \in DOMAIN agents :
            LET row == [agents[id] EXCEPT !.token = TokenAfter(jobs[j], @)]
            IN  jobs' = [jobs EXCEPT ![j] =
                    [Writing(jobs[j].op, id, row) EXCEPT !.token = jobs[j].token]]
  <2> DEFINE row(id) == [agents[id] EXCEPT !.token = TokenAfter(jobs[j], @)]
             job(id) == [Writing(jobs[j].op, id, row(id)) EXCEPT !.token = jobs[j].token]
  <2>1. PICK id \in DOMAIN agents : jobs' = [jobs EXCEPT ![j] = job(id)]
    BY <1>2
  <2>2. agents[id] \in Rows
    BY DEF TypeOK
  <2>3. /\ row(id) \in Rows /\ row(id).token = TokenAfter(jobs[j], agents[id].token)
        /\ row(id).active = agents[id].active /\ row(id).draining = agents[id].draining
    BY <1>1, <2>2 DEF Rows, TokenAfter
  <2> HIDE DEF row
  <2>4. /\ Writing(jobs[j].op, id, row(id)) \in Job
        /\ Writing(jobs[j].op, id, row(id)).op = jobs[j].op
        /\ Writing(jobs[j].op, id, row(id)).at = "commit"
        /\ Writing(jobs[j].op, id, row(id)).id = NextId
        /\ Writing(jobs[j].op, id, row(id)).id # 0
        /\ Writing(jobs[j].op, id, row(id)).held = agents[id]
        /\ Writing(jobs[j].op, id, row(id)).row = row(id)
    <3>1. row(id) \in Rows' /\ Job' = Job /\ issued' \in {issued, issued + 1}
      BY <1>1, <2>3 DEF Rows, Job
    <3>2. jobs[j].op \in Ops
      BY <1>1 DEF Ops, Generates
    <3> QED  BY <3>1, <3>2, WritingIs
  <2>5. /\ job(id) \in Job /\ job(id).op = jobs[j].op /\ job(id).at = "commit"
        /\ job(id).id # 0 /\ job(id).held = agents[id]
        /\ job(id).row = row(id) /\ job(id).token = jobs[j].token
    BY <1>1, <2>4 DEF Job
  <2> HIDE DEF job
  <2>6. JobShape(job(id))
    BY <1>1, <2>3, <2>5 DEF JobShape, TokenAfter, Generates, AgentCalls
  <2>7. job(id) \in Job'
    BY <1>1, <2>5 DEF Job, Rows
  <2> QED  BY <1>1, <2>1, <2>5, <2>6, <2>7
<1>3. CASE /\ agents = <<>>
           /\ jobs' = [jobs EXCEPT ![j].at = "commit",
                                   ![j].row.token = TokenAfter(jobs[j], 0)]
  <2> DEFINE row == [jobs[j].row EXCEPT !.token = TokenAfter(jobs[j], 0)]
             job == [jobs[j] EXCEPT !.at = "commit", !.row = row]
  <2>1. jobs[j].row \in Rows /\ jobs[j] \in Job
    BY <1>1 DEF Job
  <2>2. row \in Rows /\ row.token = TokenAfter(jobs[j], 0)
    <3>1. TokenAfter(jobs[j], 0) \in 0..issued
      BY <1>1, MaxCallsIsPositive DEF TokenAfter, TypeOK
    <3> QED  BY <2>1, <3>1 DEF Rows
  <2>3. jobs' = [jobs EXCEPT ![j] = job]
    BY <1>3
  <2> HIDE DEF row
  <2>4. /\ job \in Job /\ job.op = jobs[j].op /\ job.at = "commit" /\ job.row = row
        /\ job.token = jobs[j].token /\ job.id = jobs[j].id /\ job.held = jobs[j].held
    BY <2>1, <2>2 DEF Job
  <2> HIDE DEF job
  <2>5. JobShape(job)
    BY <1>1, <2>2, <2>4 DEF JobShape, TokenAfter, Generates, AgentCalls
  <2>6. job \in Job'
    BY <1>1, <2>4 DEF Job, Rows
  <2> QED  BY <1>1, <1>3, <2>3, <2>4, <2>5, <2>6
<1> QED  BY <1>2, <1>3 DEF UpsertAgent

\* A handler that begins finds its place free.
LEMMA BeginIs ==
  ASSUME TypeOK, NEW j \in Jobs, NEW job \in Job', Begin(j, job)
  PROVE  /\ jobs[j].op = "none" /\ jobs' = [jobs EXCEPT ![j] = job]
         /\ calls' \in 0..MaxCalls /\ calls' = calls + 1
         /\ agents' = agents /\ dead' = dead
         /\ met' \in BOOLEAN /\ raced' \in BOOLEAN
         /\ ~met' => /\ ~met
                     /\ job.op = "delete" =>
                            \A k \in Jobs : jobs[k].op \notin AgentCalls
                     /\ job.op \in AgentCalls => \A k \in Jobs : jobs[k].op # "delete"
         /\ ~raced' => /\ ~raced
                       /\ job.op \in Generates =>
                            \A k \in Jobs : jobs[k].op \notin Generates
<1>1. /\ jobs[j] = NoJob /\ jobs' = [jobs EXCEPT ![j] = job]
      /\ calls < MaxCalls /\ calls' = calls + 1
      /\ agents' = agents /\ dead' = dead
      /\ met' = \/ met
                \/ job.op = "delete" /\ Open(AgentCalls)
                \/ job.op \in AgentCalls /\ Open({"delete"})
      /\ raced' = \/ raced
                  \/ job.op \in Generates /\ Open(Generates)
  BY DEF Begin
<1>2. calls' \in 0..MaxCalls
  BY <1>1, MaxCallsIsPositive DEF TypeOK
<1>3. met' \in BOOLEAN /\ raced' \in BOOLEAN
  BY <1>1 DEF TypeOK, Open
<1> QED  BY <1>1, <1>2, <1>3, NoJobIs DEF Open

\* Every handler that begins, in one form.
LEMMA Beginning ==
  ASSUME TypeOK, NEW j \in Jobs,
         \/ AdminAgentBootstrap(j) \/ AdminUpdateAgent(j) \/ AdminRotateAgentToken(j)
         \/ AdminDeleteAgent(j) \/ AuthorizeAgentToken(j)
  PROVE  \E job \in Job' :
            /\ JobShape(job) /\ Begin(j, job)
            /\ job.op \in Generates =>
                /\ issued' = issued + 1 /\ job.token = issued'
                /\ \A id \in DOMAIN agents : agents[id].token = 0
            /\ job.op \notin Generates => issued' = issued
            /\ \/ bound' = bound /\ (job.op = "delete" => DOMAIN agents = {})
               \/ bound' = NoLink
            /\ job.op \in AgentCalls => job.at = "upsert" /\
                    \E id \in DOMAIN agents : agents[id].token \in {0, job.token}
<1> USE DEF Generates, AgentCalls
<1>1. CASE AdminAgentBootstrap(j)
  BY <1>1, Bootstraps
<1>2. CASE AdminUpdateAgent(j)
  BY <1>2, AdminUpdates
<1>3. CASE AdminRotateAgentToken(j)
  BY <1>3, AdminRotates
<1>4. CASE AdminDeleteAgent(j)
  BY <1>4, AdminDeletes
<1>5. CASE AuthorizeAgentToken(j)
  BY <1>5, Authorizes
<1> QED  BY <1>1, <1>2, <1>3, <1>4, <1>5

\* The end of a session leaves nothing of the handler, except a registration that
\* still has to bind its websocket.
LEMMA CommittedIs ==
  ASSUME TypeOK, Shape, NEW j \in Jobs, Committed(j)
  PROVE  \E job \in Job' :
            /\ JobShape(job) /\ jobs' = [jobs EXCEPT ![j] = job]
            /\ \/ job.op = "none" /\ job = NoJob
               \/ job.op = "register" /\ jobs[j].op = "register"
                  /\ job.token = jobs[j].token /\ job.at = "register"
            /\ jobs[j] \in Job /\ jobs[j].at = "commit" /\ jobs[j].op # "none"
            /\ UNCHANGED <<bound, calls, issued, met, raced>>
<1>1. /\ jobs[j] \in Job /\ jobs[j].at = "commit" /\ JobShape(jobs[j])
      /\ UNCHANGED <<bound, calls, issued, met, raced>>
  BY DEF Committed, Shape, TypeOK, Job, Ops
<1>2. jobs[j].op # "none"
  BY <1>1 DEF JobShape
<1>3. Job' = Job
  BY <1>1 DEF Job, Rows
<1>4. CASE jobs[j].op = "register"
  <2> DEFINE job == [jobs[j] EXCEPT !.at = "register"]
  <2>1. job \in Job /\ job.op = "register" /\ job.at = "register"
        /\ job.token = jobs[j].token
    BY <1>1, <1>4 DEF Job
  <2>2. jobs' = [jobs EXCEPT ![j] = job]
    BY <1>4 DEF Committed
  <2> HIDE DEF job
  <2>3. JobShape(job)
    BY <2>1 DEF JobShape, Generates
  <2> QED  BY <1>1, <1>2, <1>3, <1>4, <2>1, <2>2, <2>3
<1>5. CASE jobs[j].op # "register"
  <2>1. jobs' = [jobs EXCEPT ![j] = NoJob]
    BY <1>5 DEF Committed
  <2> QED  BY <1>1, <1>2, <1>3, <2>1, NoJobIs
<1> QED  BY <1>4, <1>5

\* The table after each kind of commit.
LEMMA InsertsIs ==
  ASSUME TypeOK, Shape, NEW j \in Jobs, Inserts(j)
  PROVE  /\ jobs[j].id = 0 /\ agents = <<>> /\ dead' = dead /\ Committed(j)
         /\ DOMAIN agents' = {NextId} /\ agents'[NextId] = jobs[j].row
         /\ jobs[j].row \in Rows
         /\ jobs[j].op \in AgentCalls => agents'[NextId].token = 0
         /\ jobs[j].op \notin AgentCalls =>
                jobs[j].op \in Generates /\ agents'[NextId].token = jobs[j].token
<1>1. /\ jobs[j].id = 0 /\ agents = <<>> /\ dead' = dead /\ Committed(j)
      /\ agents' = With(agents, NextId, jobs[j].row)
  BY DEF Inserts
<1>2. DOMAIN agents = {}
  BY <1>1
<1>3. DOMAIN agents' = {NextId} /\ agents'[NextId] = jobs[j].row
  BY <1>1, <1>2 DEF With
<1>4. jobs[j] \in Job /\ JobShape(jobs[j]) /\ jobs[j].at = "commit"
  BY <1>1 DEF Committed, Shape, TypeOK, Job, Ops
<1>5. jobs[j].row \in Rows
  BY <1>4 DEF Job
<1> QED  BY <1>1, <1>3, <1>4, <1>5 DEF JobShape, AgentCalls, Generates

LEMMA UpdatesIs ==
  ASSUME TypeOK, Shape, NEW j \in Jobs, Updates(j)
  PROVE  LET id == jobs[j].id IN
         /\ id \in DOMAIN agents /\ jobs[j].op # "delete" /\ dead' = dead /\ Committed(j)
         /\ DOMAIN agents' = DOMAIN agents /\ id = NextId
         /\ \A i \in DOMAIN agents : i = id
         /\ agents'[id] \in Rows
         /\ jobs[j].op \in Generates =>
                agents'[id].token \in {agents[id].token, jobs[j].token}
         /\ jobs[j].op \notin Generates => agents'[id].token = agents[id].token
         /\ jobs[j].op # "update" =>
                /\ agents'[id].active = agents[id].active
                /\ agents'[id].draining = agents[id].draining
<1> DEFINE id == jobs[j].id
           merged == MergeRow(agents[id], jobs[j].held, jobs[j].row)
<1>1. /\ id \in DOMAIN agents /\ jobs[j].op # "delete" /\ dead' = dead /\ Committed(j)
      /\ agents' = [agents EXCEPT ![id] = merged]
  BY DEF Updates
<1>2. jobs[j] \in Job /\ JobShape(jobs[j]) /\ jobs[j].at = "commit"
  BY <1>1 DEF Committed, Shape, TypeOK, Job, Ops
<1>3. agents[id] \in Rows /\ jobs[j].held \in Rows /\ jobs[j].row \in Rows
  BY <1>1, <1>2 DEF Job, TypeOK
<1>4. id = NextId /\ id # 0 /\ \A i \in DOMAIN agents : i = id
  BY <1>1 DEF TypeOK, NextId
<1>5. DOMAIN agents' = DOMAIN agents /\ agents'[id] = merged
  BY <1>1
<1>6. /\ merged \in Rows
      /\ merged.token = IF jobs[j].row.token = jobs[j].held.token
                        THEN agents[id].token ELSE jobs[j].row.token
      /\ jobs[j].row.active = jobs[j].held.active => merged.active = agents[id].active
      /\ jobs[j].row.draining = jobs[j].held.draining
            => merged.draining = agents[id].draining
  BY <1>3, MergeRowIs
<1> HIDE DEF merged, id
<1>7. /\ jobs[j].op \in Generates => jobs[j].row.token = jobs[j].token
      /\ jobs[j].op \notin Generates => jobs[j].row.token = jobs[j].held.token
      /\ jobs[j].op # "update" => jobs[j].row.active = jobs[j].held.active
                                  /\ jobs[j].row.draining = jobs[j].held.draining
  BY <1>2, <1>4 DEF JobShape, id
<1> QED  BY <1>1, <1>4, <1>5, <1>6, <1>7 DEF id

LEMMA DeletesIs ==
  ASSUME TypeOK, Shape, NEW j \in Jobs, Deletes(j)
  PROVE  /\ jobs[j].op = "delete" /\ Committed(j) /\ DOMAIN agents' = {}
         /\ \/ dead' = dead
            \/ \E id \in DOMAIN agents : dead' = (dead \cup {agents[id].token}) \ {0}
<1>1. /\ jobs[j].op = "delete" /\ Committed(j) /\ JobShape(jobs[j])
      /\ agents' = Restrict(agents, DOMAIN agents \ {jobs[j].id})
      /\ dead' = (dead \cup {agents[i].token : i \in DOMAIN agents \cap {jobs[j].id}}) \ {0}
  BY DEF Deletes, Shape
<1>2. jobs[j].id = NextId /\ \A i \in DOMAIN agents : i = NextId
  BY <1>1 DEF JobShape, TypeOK
<1>3. DOMAIN agents' = {}
  BY <1>1, <1>2 DEF Restrict
<1>4. CASE NextId \in DOMAIN agents
  <2>1. dead' = (dead \cup {agents[NextId].token}) \ {0}
    BY <1>1, <1>2, <1>4
  <2> QED  BY <1>1, <1>3, <1>4, <2>1
<1>5. CASE NextId \notin DOMAIN agents
  <2>1. dead' = dead \ {0} /\ dead \subseteq 1..issued
    BY <1>1, <1>2, <1>5 DEF TypeOK
  <2>2. 0 \notin dead
    BY <2>1
  <2> QED  BY <1>1, <1>3, <2>1, <2>2
<1> QED  BY <1>4, <1>5

-----------------------------------------------------------------------------
(* One lemma per part of the invariant.                                    *)

\* The steps that leave all handlers as they are.
Rests == Disconnect \/ UNCHANGED vars

\* The steps that end or go on with a handler and leave the rows alone.
LEMMA QuietSteps ==
  ASSUME TypeOK, Shape, NEW j \in Jobs, UpsertAgent(j) \/ Register(j) \/ Rollback(j)
  PROVE  /\ UNCHANGED <<agents, calls, issued, dead, met, raced>>
         /\ \E job \in Job' :
                /\ JobShape(job) /\ jobs' = [jobs EXCEPT ![j] = job]
                /\ job.op \in {"none", jobs[j].op}
                /\ job.op # "none" => /\ job.token = jobs[j].token
                                      /\ bound' = bound
                                      /\ agents # <<>> => job.id # 0
                /\ job.op # "none" => job.op \in AgentCalls \cup {"bootstrap"}
                /\ \/ bound' = bound
                   \/ jobs[j].op = "register" /\ bound' = jobs[j].token
         /\ bound' \in {bound} \cup 0..issued
<1>1. jobs[j] \in Job /\ JobShape(jobs[j])
  BY DEF Shape, TypeOK, Job, Ops
<1>2. CASE UpsertAgent(j)
  <2>1. UNCHANGED <<agents, bound, calls, issued, dead, met, raced>>
    BY <1>2 DEF UpsertAgent
  <2> QED  BY <1>2, <2>1, Upserts
<1>3. CASE Register(j)
  <2>1. /\ UNCHANGED <<agents, calls, issued, dead, met, raced>>
        /\ jobs' = [jobs EXCEPT ![j] = NoJob] /\ bound' = jobs[j].token
        /\ jobs[j].op = "register"
    BY <1>1, <1>3 DEF Register, JobShape
  <2>2. Job' = Job /\ jobs[j].token \in 0..issued
    BY <1>1, <2>1 DEF Job, Rows
  <2> QED  BY <2>1, <2>2, NoJobIs
<1>4. CASE Rollback(j)
  <2>1. UNCHANGED <<agents, bound, calls, issued, dead, met, raced>>
        /\ jobs' = [jobs EXCEPT ![j] = NoJob]
    BY <1>4 DEF Rollback
  <2>2. Job' = Job
    BY <2>1 DEF Job, Rows
  <2> QED  BY <2>1, <2>2, NoJobIs
<1> QED  BY <1>2, <1>3, <1>4

Begins(j) ==
    \/ AdminAgentBootstrap(j) \/ AdminUpdateAgent(j) \/ AdminRotateAgentToken(j)
    \/ AdminDeleteAgent(j) \/ AuthorizeAgentToken(j)

\* The cases of a step.
LEMMA Cases ==
  ASSUME [Next]_vars
  PROVE  \/ \E j \in Jobs : \/ Begins(j)
                            \/ UpsertAgent(j) \/ Register(j) \/ Rollback(j)
                            \/ Inserts(j) \/ Updates(j) \/ Deletes(j)
         \/ Rests
BY DEF Next, Begins, Rests

TypeParts ==
    /\ \A id \in DOMAIN agents : id = NextId /\ agents[id] \in Rows
    /\ jobs \in [Jobs -> Job]
    /\ bound \in {NoLink} \cup 0..issued
    /\ calls \in 0..MaxCalls /\ issued \in 0..calls
    /\ dead \subseteq 1..issued
    /\ met \in BOOLEAN /\ raced \in BOOLEAN

LEMMA TypeOfParts == TypeOK <=> TypeParts
BY DEF TypeOK, TypeParts, Job, Ops

LEMMA TypeStep ==
  ASSUME TypeOK, Shape, [Next]_vars
  PROVE  TypeOK' /\ Shape'
<1> SUFFICES TypeParts' /\ Shape'
  BY TypeOfParts, PTL
<1>t. TypeParts
  BY TypeOfParts
<1>1. ASSUME NEW j \in Jobs, Begins(j) PROVE TypeParts' /\ Shape'
  <2>1. PICK job \in Job' :
            /\ JobShape(job) /\ Begin(j, job)
            /\ job.op \in Generates => issued' = issued + 1
            /\ job.op \notin Generates => issued' = issued
            /\ \/ bound' = bound /\ (job.op = "delete" => DOMAIN agents = {})
               \/ bound' = NoLink
    BY <1>1, Beginning DEF Begins
  <2>2. /\ jobs' = [jobs EXCEPT ![j] = job]
        /\ calls' \in 0..MaxCalls /\ calls' = calls + 1
        /\ agents' = agents /\ dead' = dead
        /\ met' \in BOOLEAN /\ raced' \in BOOLEAN
    BY <2>1, BeginIs
  <2>3. issued' \in {issued, issued + 1}
    BY <2>1
  <2>4. /\ issued \in Nat /\ issued' \in Nat /\ issued <= issued'
        /\ \A r \in Rows : r \in Rows'
        /\ \A x \in Job : x \in Job'
    BY <2>3, IssuedGrows
  <2>5. jobs' \in [Jobs -> Job']
    BY <1>t, <2>2, <2>4 DEF TypeParts
  <2>6. issued' \in 0..calls' /\ bound' \in {NoLink} \cup 0..issued' /\ dead' \subseteq 1..issued'
    BY <1>t, <2>1, <2>2, <2>3, <2>4 DEF TypeParts
  <2>7. \A id \in DOMAIN agents' : id = NextId /\ agents'[id] \in Rows'
    BY <1>t, <2>2, <2>4 DEF TypeParts
  <2>8. Shape'
    BY <1>t, <2>1, <2>2 DEF Shape, TypeParts
  <2> QED  BY <2>2, <2>5, <2>6, <2>7, <2>8 DEF TypeParts
<1>2. ASSUME NEW j \in Jobs, UpsertAgent(j) \/ Register(j) \/ Rollback(j)
      PROVE TypeParts' /\ Shape'
  <2>1. /\ UNCHANGED <<agents, calls, issued, dead, met, raced>>
        /\ bound' \in {bound} \cup 0..issued
    BY <1>2, QuietSteps
  <2>2. PICK job \in Job' : JobShape(job) /\ jobs' = [jobs EXCEPT ![j] = job]
    BY <1>2, QuietSteps
  <2>3. Job' = Job /\ Rows' = Rows
    BY <2>1 DEF Job, Rows
  <2> QED  BY <1>t, <2>1, <2>2, <2>3 DEF TypeParts, Shape
<1>3. ASSUME NEW j \in Jobs, Inserts(j) \/ Updates(j) \/ Deletes(j)
      PROVE TypeParts' /\ Shape'
  <2>1. Committed(j)
    BY <1>3, InsertsIs, UpdatesIs, DeletesIs
  <2>2. PICK job \in Job' :
            /\ JobShape(job) /\ jobs' = [jobs EXCEPT ![j] = job]
            /\ UNCHANGED <<bound, calls, issued, met, raced>>
    BY <2>1, CommittedIs
  <2>3. Job' = Job /\ Rows' = Rows
    BY <2>2 DEF Job, Rows
  <2>4. jobs' \in [Jobs -> Job'] /\ Shape'
    BY <1>t, <2>2, <2>3 DEF TypeParts, Shape
  <2>5. \A id \in DOMAIN agents' : id = NextId /\ agents'[id] \in Rows
    <3>1. CASE Inserts(j)
      BY <3>1, InsertsIs
    <3>2. CASE Updates(j)
      BY <3>2, UpdatesIs
    <3>3. CASE Deletes(j)
      BY <3>3, DeletesIs
    <3> QED  BY <1>3, <3>1, <3>2, <3>3
  <2>6. dead' \subseteq 1..issued
    <3>1. CASE Inserts(j) \/ Updates(j)
      BY <1>t, <3>1, InsertsIs, UpdatesIs DEF TypeParts
    <3>2. CASE Deletes(j)
      <4>1. \A id \in DOMAIN agents : agents[id].token \in 0..issued
        BY <1>t, RowShape DEF TypeParts
      <4>2. issued \in Nat
        BY <1>t, MaxCallsIsPositive DEF TypeParts
      <4>3. CASE dead' = dead
        BY <1>t, <4>3 DEF TypeParts
      <4>4. ASSUME NEW id \in DOMAIN agents, dead' = (dead \cup {agents[id].token}) \ {0}
            PROVE dead' \subseteq 1..issued
        <5> SUFFICES ASSUME NEW d \in dead' PROVE d \in 1..issued
          OBVIOUS
        <5>1. CASE d \in dead
          BY <1>t, <5>1 DEF TypeParts
        <5>2. CASE d = agents[id].token /\ d # 0
          BY <4>1, <4>2, <5>2
        <5> QED  BY <4>4, <5>1, <5>2
      <4> QED  BY <3>2, <4>3, <4>4, DeletesIs
    <3> QED  BY <1>3, <3>1, <3>2
  <2> QED  BY <1>t, <2>2, <2>3, <2>4, <2>5, <2>6 DEF TypeParts
<1>4. CASE Rests
  BY <1>4, <1>t DEF Rests, Disconnect, vars, TypeParts, Shape, Job, Rows
<1> QED  BY <1>1, <1>2, <1>3, <1>4, Cases

\* A generated token is new, and goes from its handler to the row when it commits.
LEMMA FreshStep ==
  ASSUME TypeOK, Shape, Fresh, [Next]_vars
  PROVE  Fresh'
<1>t. /\ TypeParts /\ issued \in Nat
      /\ \A j \in Jobs : jobs[j] \in Job /\ jobs[j].token \in 0..issued /\ JobShape(jobs[j])
      /\ \A id \in DOMAIN agents : agents[id].token \in 0..issued
  <2>1. TypeParts
    BY TypeOfParts
  <2>2. issued \in Nat
    BY <2>1, MaxCallsIsPositive DEF TypeParts
  <2>3. \A j \in Jobs : jobs[j] \in Job
    BY <2>1 DEF TypeParts
  <2>4. \A j \in Jobs : jobs[j].token \in 0..issued
    BY <2>3 DEF Job
  <2> QED  BY <2>1, <2>2, <2>3, <2>4, RowShape DEF TypeParts, Shape
<1>1. ASSUME NEW j \in Jobs, Begins(j) PROVE Fresh'
  <2>1. PICK job \in Job' :
            /\ Begin(j, job)
            /\ job.op \in Generates => issued' = issued + 1 /\ job.token = issued'
    BY <1>1, Beginning DEF Begins
  <2>2. jobs' = [jobs EXCEPT ![j] = job] /\ agents' = agents /\ dead' = dead
    BY <2>1, BeginIs
  <2>3. job.op \in Generates =>
            /\ job.token \notin dead
            /\ \A id \in DOMAIN agents : agents[id].token # job.token
            /\ \A k \in Jobs : jobs[k].token # job.token
    BY <1>t, <2>1 DEF TypeParts
  <2>4. \A k \in Jobs : jobs'[k] = IF k = j THEN job ELSE jobs[k]
    BY <1>t, <2>2 DEF TypeParts
  <2> QED  BY <2>2, <2>3, <2>4 DEF Fresh
<1>2. ASSUME NEW j \in Jobs, UpsertAgent(j) \/ Register(j) \/ Rollback(j) PROVE Fresh'
  <2>1. PICK job \in Job' :
            /\ jobs' = [jobs EXCEPT ![j] = job]
            /\ job.op \in {"none", jobs[j].op}
            /\ job.op # "none" => job.token = jobs[j].token
    BY <1>2, QuietSteps
  <2>2. agents' = agents /\ dead' = dead
    BY <1>2, QuietSteps
  <2>3. \A k \in Jobs : jobs'[k] = IF k = j THEN job ELSE jobs[k]
    BY <1>t, <2>1 DEF TypeParts
  <2>4. \A k \in Jobs : jobs'[k].op \in Generates =>
            jobs[k].op \in Generates /\ jobs'[k].token = jobs[k].token
    BY <2>1, <2>3 DEF Generates
  <2> QED  BY <2>2, <2>4 DEF Fresh
<1>3. ASSUME NEW j \in Jobs, Inserts(j) \/ Updates(j) \/ Deletes(j) PROVE Fresh'
  <2>1. PICK job \in Job' :
            /\ jobs' = [jobs EXCEPT ![j] = job]
            /\ job.op \in {"none", "register"}
    BY <1>3, InsertsIs, UpdatesIs, DeletesIs, CommittedIs
  <2>2. \A k \in Jobs : jobs'[k].op \in Generates =>
            k # j /\ jobs[k].op \in Generates /\ jobs'[k].token = jobs[k].token
    BY <1>t, <2>1 DEF Generates, TypeParts
  <2>3. CASE Inserts(j)
    <3>1. dead' = dead /\ DOMAIN agents' = {NextId}
      BY <2>3, InsertsIs
    <3>2. \/ agents'[NextId].token = 0
          \/ jobs[j].op \in Generates /\ agents'[NextId].token = jobs[j].token
      BY <2>3, InsertsIs
    <3>3. 0 \notin dead
      BY <1>t DEF TypeParts
    <3>4. \A k \in Jobs : jobs[k].op \in Generates => jobs[k].token # 0
      BY <1>t DEF JobShape
    <3> QED  BY <2>2, <3>1, <3>2, <3>3, <3>4 DEF Fresh
  <2>4. CASE Updates(j)
    <3>1. dead' = dead /\ DOMAIN agents' = DOMAIN agents
      BY <2>4, UpdatesIs
    <3>2. \A id \in DOMAIN agents :
            \/ agents'[id].token = agents[id].token
            \/ jobs[j].op \in Generates /\ agents'[id].token = jobs[j].token
      BY <2>4, UpdatesIs
    <3> QED  BY <2>2, <3>1, <3>2 DEF Fresh
  <2>5. CASE Deletes(j)
    <3>1. DOMAIN agents' = {}
      BY <2>5, DeletesIs
    <3>2. \A d \in dead' : d \in dead \/ \E id \in DOMAIN agents : d = agents[id].token
      BY <2>5, DeletesIs
    <3> QED  BY <2>2, <3>1, <3>2 DEF Fresh
  <2> QED  BY <1>3, <2>3, <2>4, <2>5
<1>4. CASE Rests
  BY <1>4 DEF Rests, Disconnect, vars, Fresh
<1> QED  BY <1>1, <1>2, <1>3, <1>4, Cases

\* A bootstrap begins without a row, a rotation with a row without a token; until
\* it commits only another of their kind writes one.
LEMMA QuietStep ==
  ASSUME TypeOK, Shape, Quiet, [Next]_vars
  PROVE  Quiet'
<1> SUFFICES ASSUME ~raced' PROVE Quiet'
  BY DEF Quiet
<1>t. TypeParts
  BY TypeOfParts
<1>1. ASSUME NEW j \in Jobs, Begins(j) PROVE Quiet'
  <2>1. PICK job \in Job' :
            /\ Begin(j, job)
            /\ job.op \in Generates => \A id \in DOMAIN agents : agents[id].token = 0
    BY <1>1, Beginning DEF Begins
  <2>2. /\ jobs' = [jobs EXCEPT ![j] = job] /\ agents' = agents
        /\ ~raced
        /\ job.op \in Generates => \A k \in Jobs : jobs[k].op \notin Generates
    BY <2>1, BeginIs
  <2>3. \A k \in Jobs : jobs'[k] = IF k = j THEN job ELSE jobs[k]
    BY <1>t, <2>2 DEF TypeParts
  <2> QED  BY <2>1, <2>2, <2>3 DEF Quiet
<1>2. ASSUME NEW j \in Jobs, UpsertAgent(j) \/ Register(j) \/ Rollback(j) PROVE Quiet'
  <2>1. PICK job \in Job' :
            jobs' = [jobs EXCEPT ![j] = job] /\ job.op \in {"none", jobs[j].op}
    BY <1>2, QuietSteps
  <2>2. agents' = agents /\ ~raced
    BY <1>2, QuietSteps
  <2>3. \A k \in Jobs : jobs'[k].op \in Generates => jobs[k].op \in Generates
    BY <1>t, <2>1 DEF Generates, TypeParts
  <2> QED  BY <2>2, <2>3 DEF Quiet
<1>3. ASSUME NEW j \in Jobs, Inserts(j) \/ Updates(j) \/ Deletes(j) PROVE Quiet'
  <2>1. Committed(j)
    BY <1>3, InsertsIs, UpdatesIs, DeletesIs
  <2>2. PICK job \in Job' :
            /\ jobs' = [jobs EXCEPT ![j] = job] /\ raced' = raced
            /\ job.op \in {"none", "register"}
    BY <2>1, CommittedIs
  <2>3. \A k \in Jobs : jobs'[k].op \in Generates => k # j /\ jobs[k].op \in Generates
    BY <1>t, <2>2 DEF Generates, TypeParts
  <2>4. CASE jobs[j].op \in Generates
    BY <2>2, <2>3, <2>4 DEF Quiet
  <2>5. CASE jobs[j].op \notin Generates
    <3>1. CASE Inserts(j)
      BY <2>2, <2>3, <2>5, <3>1, InsertsIs DEF Quiet
    <3>2. CASE Updates(j)
      <4>1. DOMAIN agents' = DOMAIN agents
            /\ \A id \in DOMAIN agents : agents'[id].token = agents[id].token
        BY <2>5, <3>2, UpdatesIs
      <4> QED  BY <2>2, <2>3, <4>1 DEF Quiet
    <3>3. CASE Deletes(j)
      BY <2>2, <2>3, <3>3, DeletesIs DEF Quiet
    <3> QED  BY <1>3, <3>1, <3>2, <3>3
  <2> QED  BY <2>4, <2>5
<1>4. CASE Rests
  BY <1>4 DEF Rests, Disconnect, vars, Quiet
<1> QED  BY <1>1, <1>2, <1>3, <1>4, Cases

\* A deletion has unbound the connection and overlaps no call of the agent, so that
\* nothing but a bootstrap makes a row again.
LEMMA GoneStep ==
  ASSUME TypeOK, Shape, Fresh, Gone, [Next]_vars
  PROVE  Gone'
<1> SUFFICES ASSUME ~met' PROVE Gone'
  BY DEF Gone
<1>t. /\ TypeParts
      /\ \A j \in Jobs : jobs[j] \in Job /\ JobShape(jobs[j])
      /\ NoLink \notin dead
  BY TypeOfParts DEF TypeParts, Shape, NoLink
<1>1. ASSUME NEW j \in Jobs, Begins(j) PROVE Gone'
  <2>1. PICK job \in Job' :
            /\ Begin(j, job)
            /\ \/ bound' = bound /\ (job.op = "delete" => DOMAIN agents = {})
               \/ bound' = NoLink
            /\ job.op \in AgentCalls => job.at = "upsert" /\
                    \E id \in DOMAIN agents : agents[id].token \in {0, job.token}
    BY <1>1, Beginning DEF Begins
  <2>2. /\ jobs' = [jobs EXCEPT ![j] = job] /\ agents' = agents /\ dead' = dead /\ ~met
        /\ job.op = "delete" => \A k \in Jobs : jobs[k].op \notin AgentCalls
        /\ job.op \in AgentCalls => \A k \in Jobs : jobs[k].op # "delete"
    BY <2>1, BeginIs
  <2>3. \A k \in Jobs : jobs'[k] = IF k = j THEN job ELSE jobs[k]
    BY <1>t, <2>2 DEF TypeParts
  <2>4. bound' \notin dead'
    BY <1>t, <2>1, <2>2 DEF Gone
  <2>5. job.op \in AgentCalls => DOMAIN agents # {} /\ job.token \notin dead
    <3> SUFFICES ASSUME job.op \in AgentCalls
                 PROVE DOMAIN agents # {} /\ job.token \notin dead
      OBVIOUS
    <3>1. PICK id \in DOMAIN agents : agents[id].token \in {0, job.token}
      BY <2>1
    <3>2. agents[id].token \notin dead
      BY DEF Fresh
    <3>3. dead # {} => agents[id].token = job.token
      BY <2>2, <3>1 DEF Gone
    <3> QED  BY <3>1, <3>2, <3>3
  <2>6. \A k \in Jobs : jobs'[k].op = "delete" =>
            bound' = NoLink /\ \A i \in Jobs : jobs'[i].op \notin AgentCalls
    BY <2>1, <2>2, <2>3 DEF Gone, AgentCalls
  <2>7. \A k \in Jobs : jobs'[k].op \in AgentCalls =>
            /\ DOMAIN agents' # {} /\ jobs'[k].token \notin dead'
            /\ jobs'[k].at = "commit" => jobs'[k].id # 0
    BY <2>1, <2>2, <2>3, <2>5 DEF Gone
  <2>8. DOMAIN agents' = {} => bound' = NoLink
    BY <2>1, <2>2 DEF Gone
  <2> QED  BY <2>2, <2>4, <2>6, <2>7, <2>8 DEF Gone
<1>2. ASSUME NEW j \in Jobs, UpsertAgent(j) \/ Register(j) \/ Rollback(j) PROVE Gone'
  <2>1. PICK job \in Job' :
            /\ jobs' = [jobs EXCEPT ![j] = job]
            /\ job.op \in {"none", jobs[j].op}
            /\ job.op # "none" => /\ job.token = jobs[j].token
                                  /\ agents # <<>> => job.id # 0
            /\ \/ bound' = bound
               \/ jobs[j].op = "register" /\ bound' = jobs[j].token
    BY <1>2, QuietSteps
  <2>2. agents' = agents /\ dead' = dead /\ ~met
    BY <1>2, QuietSteps
  <2>3. \A k \in Jobs : jobs'[k] = IF k = j THEN job ELSE jobs[k]
    BY <1>t, <2>1 DEF TypeParts
  <2>4. DOMAIN agents # {} => agents # <<>>
    OBVIOUS
  <2>5. bound' \notin dead'
    BY <2>1, <2>2 DEF Gone, AgentCalls
  <2>6. \A k \in Jobs : jobs'[k].op \in AgentCalls =>
            /\ DOMAIN agents' # {} /\ jobs'[k].token \notin dead'
            /\ jobs'[k].at = "commit" => jobs'[k].id # 0
    BY <2>1, <2>2, <2>3, <2>4 DEF Gone, AgentCalls
  <2>7. \A k \in Jobs : jobs'[k].op = "delete" =>
            bound' = NoLink /\ \A i \in Jobs : jobs'[i].op \notin AgentCalls
    BY <2>1, <2>2, <2>3 DEF Gone, AgentCalls
  <2>8. DOMAIN agents' = {} => bound' = NoLink
    BY <2>1, <2>2 DEF Gone, AgentCalls
  <2> QED  BY <2>2, <2>5, <2>6, <2>7, <2>8 DEF Gone
<1>3. ASSUME NEW j \in Jobs, Inserts(j) \/ Updates(j) \/ Deletes(j) PROVE Gone'
  <2>1. Committed(j)
    BY <1>3, InsertsIs, UpdatesIs, DeletesIs
  <2>2. PICK job \in Job' :
            /\ jobs' = [jobs EXCEPT ![j] = job]
            /\ \/ job.op = "none"
               \/ job.op = "register" /\ jobs[j].op = "register"
                  /\ job.token = jobs[j].token /\ job.at = "register"
            /\ jobs[j].at = "commit" /\ bound' = bound /\ met' = met
    BY <2>1, CommittedIs
  <2>3. /\ \A k \in Jobs : jobs'[k].op = "delete" => k # j /\ jobs[k].op = "delete"
        /\ \A k \in Jobs : jobs'[k].op \in AgentCalls =>
                /\ jobs[k].op \in AgentCalls /\ jobs'[k].token = jobs[k].token
                /\ jobs'[k].at = "commit" => jobs'[k] = jobs[k]
    BY <1>t, <2>2 DEF TypeParts, AgentCalls
  <2>4. CASE Inserts(j)
    <3>1. jobs[j].op \notin AgentCalls
      BY <2>2, <2>4, InsertsIs DEF Gone
    <3>2. /\ dead' = dead /\ DOMAIN agents' = {NextId}
          /\ agents'[NextId].token = jobs[j].token /\ jobs[j].op \in Generates
      BY <2>4, <3>1, InsertsIs
    <3>3. agents'[NextId].token # 0
      BY <1>t, <3>2 DEF JobShape
    <3> QED  BY <2>2, <2>3, <3>2, <3>3 DEF Gone
  <2>5. CASE Updates(j)
    <3>1. dead' = dead /\ DOMAIN agents' = DOMAIN agents
      BY <2>5, UpdatesIs
    <3>2. \A id \in DOMAIN agents :
            \/ agents'[id].token = agents[id].token
            \/ jobs[j].op \in Generates /\ agents'[id].token = jobs[j].token
      BY <2>5, UpdatesIs
    <3>3. jobs[j].op \in Generates => jobs[j].token # 0
      BY <1>t DEF JobShape
    <3> QED  BY <2>2, <2>3, <3>1, <3>2, <3>3 DEF Gone
  <2>6. CASE Deletes(j)
    <3>1. jobs[j].op = "delete" /\ DOMAIN agents' = {}
      BY <2>6, DeletesIs
    <3>2. bound = NoLink /\ \A k \in Jobs : jobs[k].op \notin AgentCalls
      BY <2>2, <3>1 DEF Gone
    <3>3. NoLink \notin dead'
      <4>1. \A d \in dead' : d \in dead \/ \E id \in DOMAIN agents : d = agents[id].token
        BY <2>6, DeletesIs
      <4>2. \A id \in DOMAIN agents : agents[id].token \in 0..issued
        BY <1>t, RowShape DEF TypeParts
      <4>3. NoLink \notin 0..issued
        BY DEF NoLink
      <4> QED  BY <1>t, <4>1, <4>2, <4>3
    <3> QED  BY <2>2, <2>3, <3>1, <3>2, <3>3 DEF Gone
  <2> QED  BY <1>3, <2>4, <2>5, <2>6
<1>4. CASE Rests
  BY <1>4, <1>t DEF Rests, Disconnect, vars, Gone
<1> QED  BY <1>1, <1>2, <1>3, <1>4, Cases

LEMMA InitInv == Init => IInv
<1> SUFFICES ASSUME Init PROVE IInv
  OBVIOUS
<1>1. /\ \A id \in DOMAIN agents : id = NextId /\ agents[id] = NewRow
      /\ bound = NoLink /\ jobs = [j \in Jobs |-> NoJob]
      /\ calls = 0 /\ issued = 0 /\ dead = {} /\ met = FALSE /\ raced = FALSE
  BY DEF Init
<1>2. NewRow \in Rows /\ NewRow.token = 0
  BY <1>1 DEF NewRow, Rows
<1>3. NoJob \in Job /\ NoJob.op = "none"
  BY <1>1, <1>2 DEF NoJob, Job, Ops
<1>4. JobShape(NoJob)
  BY DEF NoJob, JobShape, Generates
<1>5. TypeOK
  <2>1. calls \in 0..MaxCalls /\ issued \in 0..calls /\ dead \subseteq 1..issued
    BY <1>1, MaxCallsIsPositive
  <2>2. jobs \in [Jobs -> Job]
    BY <1>1, <1>3
  <2>3. met \in BOOLEAN /\ raced \in BOOLEAN
    BY <1>1
  <2>4. \A id \in DOMAIN agents : id = NextId /\ agents[id] \in Rows
    BY <1>1, <1>2
  <2> QED  BY <1>1, <2>1, <2>2, <2>3, <2>4, TypeOfParts DEF TypeParts
<1>6. Shape
  BY <1>1, <1>4 DEF Shape
<1>7. \A j \in Jobs : jobs[j].op = "none"
  BY <1>1, <1>3
<1>8. Fresh /\ Quiet /\ Gone
  BY <1>1, <1>7 DEF Fresh, Quiet, Gone, Generates, AgentCalls
<1> QED  BY <1>5, <1>6, <1>8 DEF IInv

LEMMA Invariance == Spec => []IInv
<1>1. IInv /\ [Next]_vars => IInv'
  BY TypeStep, FreshStep, QuietStep, GoneStep DEF IInv
<1> QED  BY <1>1, InitInv, PTL DEF Spec

-----------------------------------------------------------------------------
(* The theorems.                                                           *)

\* The state is of the right shape: one row at most, and no token is used that was
\* not generated.
THEOREM TypeCorrect == Spec => []TypeOK
<1>1. IInv => TypeOK
  BY DEF IInv
<1> QED  BY <1>1, Invariance, PTL

\* A deletion that no heartbeat and no registration overlaps is final: the agent is
\* not served, and its name gets no row but by a bootstrap.
THEOREM DeletedForGood == Spec => []DeleteIsFinal
<1>1. IInv => DeleteIsFinal
  BY DEF IInv, Gone, DeleteIsFinal, DeletedIsStopped, DeletedStaysDeleted
<1> QED  BY <1>1, Invariance, PTL

\* Handlers write the columns they changed of rows they read before, and none of
\* them changes what the operator decided but the update he asked for.
THEOREM OperatorDecides == Spec => OnlyTheOperatorDecides
<1> DEFINE Kept(id) ==
        /\ <<agents[id].active, agents[id].draining>>
                # <<agents'[id].active, agents'[id].draining>>
            => \E j \in Jobs : jobs[j].op = "update" /\ Ends(j)
        /\ agents[id].token \notin {0, agents'[id].token} => raced'
           All == \A id \in DOMAIN agents \cap DOMAIN agents' : Kept(id)
<1>1. IInv /\ [Next]_vars => All \/ UNCHANGED vars
  <2> SUFFICES ASSUME IInv, [Next]_vars,
                      NEW id \in DOMAIN agents, id \in DOMAIN agents'
               PROVE Kept(id)
    OBVIOUS
  <2>1. TypeOK /\ Shape /\ Quiet /\ TypeParts
    BY TypeOfParts DEF IInv
  <2>2. CASE agents' = agents
    BY <2>2
  <2>3. ASSUME NEW j \in Jobs, Inserts(j) PROVE Kept(id)
    BY <2>1, <2>3, InsertsIs
  <2>4. ASSUME NEW j \in Jobs, Deletes(j) PROVE Kept(id)
    BY <2>1, <2>4, DeletesIs
  <2>5. ASSUME NEW j \in Jobs, Updates(j) PROVE Kept(id)
    <3>1. /\ Committed(j) /\ id = jobs[j].id
          /\ jobs[j].op \in Generates =>
                agents'[id].token \in {agents[id].token, jobs[j].token}
          /\ jobs[j].op \notin Generates => agents'[id].token = agents[id].token
          /\ jobs[j].op # "update" => /\ agents'[id].active = agents[id].active
                                      /\ agents'[id].draining = agents[id].draining
      BY <2>1, <2>5, UpdatesIs
    <3>2. raced' = raced
      BY <3>1 DEF Committed
    <3>3. jobs[j].op = "update" => Ends(j)
      BY <2>1, <3>1 DEF Committed, Ends, TypeParts
    <3>4. ~raced /\ jobs[j].op \in Generates => agents[id].token = 0
      BY <2>1 DEF Quiet
    <3> QED  BY <3>1, <3>2, <3>3, <3>4
  <2>6. \/ agents' = agents
        \/ \E j \in Jobs : Inserts(j) \/ Updates(j) \/ Deletes(j)
    <3>1. ASSUME NEW j \in Jobs, Begins(j) PROVE agents' = agents
      <4>1. \E job \in Job' : Begin(j, job)
        BY <2>1, <3>1, Beginning DEF Begins
      <4> QED  BY <4>1 DEF Begin
    <3>2. ASSUME NEW j \in Jobs, UpsertAgent(j) \/ Register(j) \/ Rollback(j)
          PROVE agents' = agents
      BY <3>2 DEF UpsertAgent, Register, Rollback
    <3>3. CASE Rests
      BY <3>3 DEF Rests, Disconnect, vars
    <3> QED  BY <3>1, <3>2, <3>3, Cases
  <2> QED  BY <2>2, <2>3, <2>4, <2>5, <2>6
<1>2. IInv /\ [Next]_vars => [All]_vars
  BY <1>1
<1>3. Spec => [][All]_vars
  BY <1>2, Invariance, PTL DEF Spec
<1> QED  BY <1>3 DEF OnlyTheOperatorDecides
=============================================================================
