---------------------------- MODULE PolicyStore ----------------------------
(***************************************************************************)
(* Policies in memory (handler/policy.go) or in PostgreSQL                 *)
(* (repository/pg_policy.go), changed by their handlers while the engine   *)
(* evaluates verdicts (risk/service.go, policy/engine.go).  The store in   *)
(* memory hands out the stored policies themselves: the engine reads them  *)
(* field by field without the lock that Update holds.  Of a request only   *)
(* the SIM swap and the verification result reach the engine, so that      *)
(* neither use case nor country chooses policies, and no policy has rules. *)
(***************************************************************************)
EXTENDS Verdicts

CONSTANTS
  Ids, Seeds,        \* policies, and those seeded in memory, which have no tenant
  Tenants, NoTenant,
  Actions,           \* verdicts used as SIM swap action
  Torn,              \* a string of which half has been written; no verdict
  Writers, Readers,  \* goroutines that update policies, and that evaluate
  Swaps, Results,    \* SIM swap and verification results of requests
  MaxWrites          \* bound of the model: updates begun

StoreAssumption == Torn \notin DOMAIN Severities /\ Seeds \subseteq Ids

VARIABLES
  backend,   \* "memory" or "postgres", chosen by router.New
  stored,    \* the policies in the store
  tenant,    \* tenant[p]: whose policy p is
  policy,    \* policy[p]: its fields, also after it has been deleted
  writer,    \* what each update is doing
  reader,    \* what each evaluation is doing
  seen,      \* history: what each could have read since it listed the policies
  writes,    \* updates begun
  intended,  \* history: intended[p], the fields as create and updates want them
  clash,     \* history: policies of which two updates overlapped
  deleted    \* policies deleted; no id is drawn twice

storeVars == <<backend, stored, tenant, policy, writer, reader, seen, writes, intended, clash, deleted>>

\* An update names any of the fields; {} leaves a field as it is.
Requests == [action : {{}} \union {{a} : a \in Actions}, active : {{}, {TRUE}, {FALSE}}]

Asked(field, value) == IF field = {} THEN value ELSE CHOOSE x \in field : TRUE

Updated(fields, req) ==
  [action |-> Asked(req.action, fields.action), active |-> Asked(req.active, fields.active)]

IdleWriter == [pc |-> "idle"]
IdleReader == [pc |-> "idle"]
NothingSeen == [live |-> {}, steady |-> {}, held |-> {}]

StoreInit ==
  /\ backend \in {"memory", "postgres"}
  /\ stored = IF backend = "memory" THEN Seeds ELSE {}
  /\ tenant = [p \in Ids |-> NoTenant]
  /\ \E actions \in [Ids -> Actions] :
       policy = [p \in Ids |-> [action |-> actions[p], active |-> TRUE]]
  /\ writer = [w \in Writers |-> IdleWriter]
  /\ reader = [r \in Readers |-> IdleReader]
  /\ seen = [r \in Readers |-> NothingSeen]
  /\ writes = 0
  /\ intended = policy
  /\ clash = {}
  /\ deleted = {}

Updates(p) == {w \in Writers : writer[w].pc = "update" /\ writer[w].id = p}

\* In memory an update holds the lock; PostgreSQL reads and writes one row at a time.
Locked == backend = "memory" /\ \E p \in Ids : Updates(p) # {}
-----------------------------------------------------------------------------
(* The handlers *)

Create(p, t, a) ==
  /\ ~Locked
  /\ p \notin stored \union deleted /\ (backend = "memory" => p \notin Seeds)
  /\ stored' = stored \union {p}
  /\ tenant' = [tenant EXCEPT ![p] = t]
  /\ policy' = [policy EXCEPT ![p] = [action |-> a, active |-> TRUE]]
  /\ intended' = [intended EXCEPT ![p] = policy'[p]]
  /\ UNCHANGED <<backend, writer, reader, seen, writes, clash, deleted>>

\* Take the lock and begin to write, or fetch the row; another tenant's policy as well.
\* Evaluations under way may now see p changing.
BeginUpdate(w, p, req) ==
  /\ writer[w] = IdleWriter /\ ~Locked /\ writes < MaxWrites
  /\ p \in stored
  /\ writer' = [writer EXCEPT ![w] = [pc |-> "update", id |-> p, req |-> req, read |-> policy[p]]]
  /\ writes' = writes + 1
  /\ clash' = IF Updates(p) = {} THEN clash ELSE clash \union {p}
  /\ seen' = [r \in Readers |->
       IF backend = "postgres" \/ reader[r] = IdleReader THEN seen[r]
       ELSE LET new == Updated(policy[p], req) IN
         [live |-> IF new.active THEN seen[r].live \union {p} ELSE seen[r].live,
          steady |-> {h \in seen[r].steady : h[1] # p},
          held |-> seen[r].held \union {<<p, new.action>>}]]
  /\ UNCHANGED <<backend, stored, tenant, policy, reader, intended, deleted>>

\* (Definitions named Bug_... are plausible mistakes, which the properties must catch.)
\* An update that does not say so activates the policy.
Bug_EndUpdate(w) ==
  /\ writer[w].pc = "update"
  /\ LET p == writer[w].id
         fields == [Updated(writer[w].read, writer[w].req) EXCEPT
                      !.active = writer[w].req.active # {FALSE}]
     IN /\ policy' = IF p \in stored THEN [policy EXCEPT ![p] = fields] ELSE policy
        /\ intended' = [intended EXCEPT ![p] = Updated(@, writer[w].req)]
  /\ writer' = [writer EXCEPT ![w] = IdleWriter]
  /\ UNCHANGED <<backend, stored, tenant, reader, seen, writes, clash, deleted>>

\* All is written and the lock released, or every column of the row is written back;
\* a row deleted meanwhile is not missed.
EndUpdate(w) ==
  /\ writer[w].pc = "update"
  /\ LET p == writer[w].id
         fields == Updated(writer[w].read, writer[w].req)
     IN /\ policy' = IF p \in stored THEN [policy EXCEPT ![p] = fields] ELSE policy
        /\ intended' = [intended EXCEPT ![p] = Updated(@, writer[w].req)]
  /\ writer' = [writer EXCEPT ![w] = IdleWriter]
  /\ UNCHANGED <<backend, stored, tenant, reader, seen, writes, clash, deleted>>

Delete(p) ==
  /\ ~Locked
  /\ p \in stored
  /\ stored' = stored \ {p}
  /\ deleted' = deleted \union {p}
  /\ UNCHANGED <<backend, tenant, policy, writer, reader, seen, writes, intended, clash>>
-----------------------------------------------------------------------------
(* An evaluation *)

\* EvaluateVerdict passes the rest of the input empty.
Input(swap, result) ==
  [swap |-> swap, result |-> result, confidence |-> 0, deviceChanged |-> FALSE, risk |-> 0]

\* The tenant's column not compared in PostgreSQL either.
Bug_Listed(t) == stored

\* The policies List returns: in memory, those of every tenant.
Listed(t) == IF backend = "memory" THEN stored ELSE {p \in stored : tenant[p] = t}

\* What List brings: all of it, or what has arrived when PostgreSQL fails, since an error
\* met at the first row leaves the engine without policies, and one met later is not asked for.
Brought(t) == IF backend = "memory" THEN {Listed(t)} ELSE SUBSET Listed(t)

\* The request comes in, and List is called.  PostgreSQL returns copies.
ListPolicies(r, t, swap, result) ==
  /\ reader[r] = IdleReader /\ ~Locked
  /\ \E list \in Brought(t) :
       LET in == Input(swap, result)
           read == {<<p, policy[p].action>> : p \in list}
       IN /\ reader' = [reader EXCEPT ![r] =
               [pc |-> "busy", todo |-> list, matching |-> {}, result |-> EvaluateBuiltinSignals(in),
                request |-> [tenant |-> t, in |-> in, copy |->
                  IF backend = "postgres" THEN [p \in list |-> policy[p]] ELSE << >>]]]
          /\ seen' = [seen EXCEPT ![r] =
               [live |-> {p \in list : policy[p].active},
                steady |-> {h \in read : policy[h[1]].active}, held |-> read]]
  /\ UNCHANGED <<backend, stored, tenant, policy, writer, writes, intended, clash, deleted>>

\* What a read without the lock may return to the evaluation q while p is being written.
ActiveRead(q, p) ==
  IF backend = "postgres" THEN {q.request.copy[p].active}
  ELSE {policy[p].active} \union {Updated(policy[p], writer[w].req).active : w \in Updates(p)}

ActionRead(q, p) ==
  IF backend = "postgres" THEN {q.request.copy[p].action}
  ELSE LET new == {Updated(policy[p], writer[w].req).action : w \in Updates(p)} \ {policy[p].action}
       IN {policy[p].action} \union new \union (IF new = {} THEN {} ELSE {Torn})

\* filterPolicies looks at one policy after the other, in the order of the map.
Filter(r, p) ==
  /\ reader[r].pc = "busy" /\ p \in reader[r].todo
  /\ \E active \in ActiveRead(reader[r], p) :
       reader' = [reader EXCEPT ![r] =
         [pc |-> "busy", todo |-> @.todo \ {p},
          matching |-> IF active THEN @.matching \union {p} ELSE @.matching,
          result |-> @.result, request |-> @.request]]
  /\ UNCHANGED <<backend, stored, tenant, policy, writer, seen, writes, intended, clash, deleted>>

\* evaluatePolicyRules, when all are filtered: the SIM swap action of the next policy.
Apply(r, p) ==
  /\ reader[r].pc = "busy" /\ reader[r].todo = {} /\ p \in reader[r].matching
  /\ Swapped(reader[r].request.in)
  /\ \E a \in ActionRead(reader[r], p) :
       reader' = [reader EXCEPT ![r] =
         [pc |-> "busy", todo |-> {}, matching |-> @.matching \ {p},
          result |-> Escalate(@.result, a), request |-> @.request]]
  /\ UNCHANGED <<backend, stored, tenant, policy, writer, seen, writes, intended, clash, deleted>>

\* No policy is left that applies.
Finished(r) ==
  /\ reader[r].pc = "busy" /\ reader[r].todo = {}
  /\ reader[r].matching = {} \/ ~Swapped(reader[r].request.in)

Answer(r) ==
  /\ Finished(r)
  /\ reader' = [reader EXCEPT ![r] = IdleReader]
  /\ seen' = [seen EXCEPT ![r] = NothingSeen]
  /\ UNCHANGED <<backend, stored, tenant, policy, writer, writes, intended, clash, deleted>>

StoreNext ==
  \/ \E p \in Ids, t \in Tenants, a \in Actions : Create(p, t, a)
  \/ \E w \in Writers, p \in Ids, req \in Requests : BeginUpdate(w, p, req)
  \/ \E w \in Writers : EndUpdate(w)
  \/ \E p \in Ids : Delete(p)
  \/ \E r \in Readers, t \in Tenants, swap \in Swaps, result \in Results :
       ListPolicies(r, t, swap, result)
  \/ \E r \in Readers, p \in Ids : Filter(r, p) \/ Apply(r, p)
  \/ \E r \in Readers : Answer(r)

StoreSpec == StoreInit /\ [][StoreNext]_storeVars
-----------------------------------------------------------------------------
(* Properties *)

Verdict(r) == reader[r].result.verdict

\* A policy that was active when it was listed, and that nobody touched until the
\* answer, is obeyed, while others are written as the engine reads them.
PolicyRespected ==
  \A r \in Readers : Finished(r) /\ Swapped(reader[r].request.in) =>
    \A h \in seen[r].steady : Severity(h[2]) <= Severity(Verdict(r))

\* A verdict harsher than the signals call for is the action, at some time during the
\* evaluation, of a listed policy that was active at some time during it; in
\* PostgreSQL, of one of the tenant's own.  Torn reads make no verdict harsher.
VerdictJustified ==
  \A r \in Readers : Finished(r) =>
    LET request == reader[r].request IN
    \/ Verdict(r) = EvaluateBuiltinSignals(request.in).verdict
    \/ \E h \in seen[r].held :
         /\ h[2] = Verdict(r) /\ h[1] \in seen[r].live /\ Swapped(request.in)
         /\ backend = "postgres" => tenant[h[1]] = request.tenant

\* What updates asked for stays, field by field, except that of two updates of one
\* row in PostgreSQL the one that overlaps the other may undo it.
UpdatesKept ==
  \A p \in stored : Updates(p) = {} =>
    policy[p] = intended[p] \/ (backend = "postgres" /\ p \in clash)

=============================================================================
