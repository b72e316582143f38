-------------------------- MODULE MatchPreparation --------------------------
(***************************************************************************)
(* Match preparations of one user and their drill queues, changed by       *)
(* several devices at once.  Every statement is scoped to one user.        *)
(*                                                                         *)
(* Each label of a request is one SQL statement.  Under READ COMMITTED a   *)
(* statement sees what was committed when it ran; what a transaction did   *)
(* shows at its COMMIT.  A statement that writes a row waits for the       *)
(* transaction that wrote or locked it: preparations are locked by Update  *)
(* and by the FOR UPDATE of ReplaceDrills, drills by its DELETE.           *)
(*                                                                         *)
(* A drill is known by the queue write that inserted it and its place in   *)
(* that queue, counted from 1.                                             *)
(* note stands for the columns whose patch has no clear flag (note, court, *)
(* partner_name) and is set or NULL; titles, durations and the columns     *)
(* that a patch sets or clears as asked are left out.                      *)
(***************************************************************************)
EXTENDS Integers, FiniteSets

CONSTANTS
    MaxPreps,       \* bound: preparations ever created
    MaxWrites,      \* bound: queues ever written, by Create or ReplaceDrills
    MaxQueue,       \* bound: drills in a queue; 20 in validateDrills
    Reqs,           \* request slots: requests that are in flight together
    NoReq

ASSUME PrepAssumption ==
    /\ MaxPreps \in Nat /\ MaxWrites \in Nat /\ MaxQueue \in 0..20
    /\ IsFiniteSet(Reqs) /\ NoReq \notin Reqs

VARIABLES
    prep,           \* match_preparation
    drills,         \* match_preparation_drills
    lock,           \* the transaction that holds the lock of a row
    writes,         \* how many queue writes were given out
    pc,             \* where each request is in its handler
    req,            \* what it carries and has read
    told            \* the answer given in this step

vars == <<prep, drills, lock, writes, pc, req, told>>

Preps == 1..MaxPreps
Ids == (1..MaxWrites) \X (1..MaxQueue)
Queues == UNION {[1..n -> BOOLEAN] : n \in 0..MaxQueue}     \* completed, by place

PrepRows == [st: {"none", "live", "deleted"}, note: BOOLEAN]
Drills == [id: Ids, of: Preps, done: BOOLEAN]
NoRow == [st |-> "none", note |-> FALSE]

Patches == {"absent", "blank", "text"}      \* of note

Ops == {"none", "create", "get", "list", "update", "put", "toggle", "delete"}
Pcs == {"idle", "create", "read", "read_drills", "update", "update_read", "update_commit",
        "put", "put_delete", "put_commit", "toggle", "delete"}
NoId == <<0, 0>>
Requests == [op: Ops, p: Preps \cup {0},
             write: 0..MaxWrites, queue: Queues,    \* the queue it writes
             patch: Patches,
             id: Ids \cup {NoId}, done: BOOLEAN,    \* the drill it ticks
             row: PrepRows,                         \* the row its UPDATE returned
             found: SUBSET Preps,                   \* preparations it will tell
             rows: SUBSET Drills,                   \* drills it will tell
             old: SUBSET Drills]                    \* drills its DELETE removes
NoRequest == [op |-> "none", p |-> 0, write |-> 0, queue |-> [i \in 1..0 |-> FALSE],
              patch |-> "absent", id |-> NoId, done |-> FALSE, row |-> NoRow,
              found |-> {}, rows |-> {}, old |-> {}]

Codes == {"none", "ok", "not_found", "error"}
NoAnswer == [code |-> "none", req |-> NoRequest, pct |-> [p \in {} |-> 0]]

Init ==
    /\ prep = [p \in Preps |-> NoRow]
    /\ drills = {}
    /\ lock = [p \in Preps |-> NoReq]
    /\ writes = 0
    /\ pc = [r \in Reqs |-> "idle"]
    /\ req = [r \in Reqs |-> NoRequest]
    /\ told = NoAnswer

Live(p) == prep[p].st = "live"
QueueOf(p) == {d \in drills : d.of = p}

\* Mutant: places are counted from 0.
NewQueueFromZero(w, p, q) == {[id |-> <<w, i - 1>>, of |-> p, done |-> q[i]] : i \in DOMAIN q}

NewQueue(w, p, q) == {[id |-> <<w, i>>, of |-> p, done |-> q[i]] : i \in DOMAIN q}

\* Mutant: an empty queue is taken for a finished one.
PctOfEmpty(done, n) == IF n = 0 THEN 100 ELSE (done * 100 + n \div 2) \div n

computePreparationPct(done, n) == IF n = 0 THEN 0 ELSE (done * 100 + n \div 2) \div n

PctOf(D) == computePreparationPct(Cardinality({d \in D : d.done}), Cardinality(D))

-----------------------------------------------------------------------------
(* Steps of a request.                                                     *)

Goto(r, p, q) ==
    /\ pc' = [pc EXCEPT ![r] = p]
    /\ req' = [req EXCEPT ![r] = q]
    /\ told' = NoAnswer

\* q is the request with all it has read.
Answer(r, code, q) ==
    /\ pc' = [pc EXCEPT ![r] = "idle"]
    /\ req' = [req EXCEPT ![r] = NoRequest]
    /\ told' = [code |-> code, req |-> q,
                pct |-> [p \in q.found |-> PctOf({d \in q.rows : d.of = p})]]

Begin(r, p, q) == pc[r] = "idle" /\ Goto(r, p, q) /\ UNCHANGED <<prep, drills, lock>>

\* A new row is known to its Create alone until it commits.
Unused(p) == prep[p].st = "none" /\ \A r \in Reqs : req[r].op = "create" => req[r].p # p

BeginCreate(r) == \E p \in Preps, q \in Queues, note \in BOOLEAN :
    /\ Unused(p) /\ \A o \in 1..(p - 1) : ~Unused(o)
    /\ writes < MaxWrites /\ writes' = writes + 1
    /\ Begin(r, "create", [NoRequest EXCEPT
         !.op = "create", !.p = p, !.write = writes', !.queue = q,
         !.row = [st |-> "live", note |-> note]])

\* Get and SuggestDrills, then List.
BeginRead(r) ==
    /\ \/ \E p \in Preps : Begin(r, "read", [NoRequest EXCEPT !.op = "get", !.p = p])
       \/ Begin(r, "read", [NoRequest EXCEPT !.op = "list"])
    /\ UNCHANGED writes

BeginUpdate(r) == \E p \in Preps, f \in Patches :
    /\ Begin(r, "update", [NoRequest EXCEPT !.op = "update", !.p = p, !.patch = f])
    /\ UNCHANGED writes

BeginReplace(r) == \E p \in Preps, q \in Queues :
    /\ writes < MaxWrites /\ writes' = writes + 1
    /\ Begin(r, "put", [NoRequest EXCEPT !.op = "put", !.p = p, !.write = writes', !.queue = q])

\* Of a drill that was written once, still there or not.
BeginToggle(r) == \E i \in Ids, done \in BOOLEAN :
    /\ i[1] <= writes
    /\ Begin(r, "toggle", [NoRequest EXCEPT !.op = "toggle", !.id = i, !.done = done])
    /\ UNCHANGED writes

BeginDelete(r) == \E p \in Preps :
    /\ Begin(r, "delete", [NoRequest EXCEPT !.op = "delete", !.p = p])
    /\ UNCHANGED writes

-----------------------------------------------------------------------------
(* Create: one transaction, seen when it commits.  A COMMIT that returns   *)
(* an error may have committed; so may those below.                        *)

Create(r) ==
    /\ pc[r] = "create"
    /\ prep' = [prep EXCEPT ![req[r].p] = req[r].row]
    /\ drills' = drills \cup NewQueue(req[r].write, req[r].p, req[r].queue)
    /\ \/ Answer(r, "ok", [req[r] EXCEPT !.found = {req[r].p},
                             !.rows = NewQueue(req[r].write, req[r].p, req[r].queue)])
       \/ Answer(r, "error", NoRequest)
    /\ UNCHANGED <<lock, writes>>

-----------------------------------------------------------------------------
(* Get and List: two SELECTs without a transaction.                        *)

ReadPreps(r) ==
    /\ pc[r] = "read"
    /\ LET S == {p \in Preps : Live(p) /\ (req[r].op = "list" \/ p = req[r].p)} IN
       \/ S # {} /\ Goto(r, "read_drills", [req[r] EXCEPT !.found = S])
       \/ S = {} /\ Answer(r, IF req[r].op = "list" THEN "ok" ELSE "not_found", req[r])
    /\ UNCHANGED <<prep, drills, lock, writes>>

ReadDrills(r) ==
    /\ pc[r] = "read_drills"
    /\ Answer(r, "ok", [req[r] EXCEPT !.rows = {d \in drills : d.of \in req[r].found}])
    /\ UNCHANGED <<prep, drills, lock, writes>>

-----------------------------------------------------------------------------
(* Update.                                                                 *)

\* Handler.Update turns a blank note into nil, which sets nothing.
Patched(row, f) == [row EXCEPT !.note = @ \/ f = "text"]

UpdateRow(r) ==
    /\ pc[r] = "update" /\ lock[req[r].p] = NoReq
    /\ \/ ~Live(req[r].p) /\ Answer(r, "not_found", req[r]) /\ UNCHANGED lock
       \/ /\ Live(req[r].p)
          /\ lock' = [lock EXCEPT ![req[r].p] = r]
          /\ Goto(r, "update_read",
               [req[r] EXCEPT !.row = Patched(prep[req[r].p], req[r].patch)])
    /\ UNCHANGED <<prep, drills, writes>>

\* Mutant: the UPDATE is committed, and its lock released, before the drills are read.
UpdateReadsLate(r) ==
    /\ pc[r] = "update_read"
    /\ prep' = [prep EXCEPT ![req[r].p] = req[r].row]
    /\ lock' = [lock EXCEPT ![req[r].p] = NoReq]
    /\ Goto(r, "update_commit", [req[r] EXCEPT !.found = {req[r].p}, !.rows = QueueOf(req[r].p)])
    /\ UNCHANGED <<drills, writes>>

UpdateReadsDrills(r) ==
    /\ pc[r] = "update_read"
    /\ Goto(r, "update_commit", [req[r] EXCEPT !.found = {req[r].p}, !.rows = QueueOf(req[r].p)])
    /\ UNCHANGED <<prep, drills, lock, writes>>

UpdateCommits(r) ==
    /\ pc[r] = "update_commit"
    /\ prep' = [prep EXCEPT ![req[r].p] = req[r].row]
    /\ lock' = [lock EXCEPT ![req[r].p] = NoReq]
    /\ Answer(r, "ok", req[r]) \/ Answer(r, "error", NoRequest)
    /\ UNCHANGED <<drills, writes>>

-----------------------------------------------------------------------------
(* ReplaceDrills.                                                          *)

\* Mutant: the SELECT does not lock.
PutJustLooks(r) ==
    /\ pc[r] = "put"
    /\ \/ ~Live(req[r].p) /\ Answer(r, "not_found", req[r])
       \/ Live(req[r].p) /\ Goto(r, "put_delete", req[r])
    /\ UNCHANGED <<prep, drills, lock, writes>>

PutLocks(r) ==
    /\ pc[r] = "put" /\ lock[req[r].p] = NoReq
    /\ \/ ~Live(req[r].p) /\ Answer(r, "not_found", req[r]) /\ UNCHANGED lock
       \/ /\ Live(req[r].p)
          /\ lock' = [lock EXCEPT ![req[r].p] = r]
          /\ Goto(r, "put_delete", req[r])
    /\ UNCHANGED <<prep, drills, writes>>

PutDeletes(r) ==
    /\ pc[r] = "put_delete"
    /\ Goto(r, "put_commit", [req[r] EXCEPT !.old = QueueOf(req[r].p)])
    /\ UNCHANGED <<prep, drills, lock, writes>>

\* The new queue is inserted and updated_at set; all of it shows at the COMMIT.
\* Then the answer is read as Get reads it, outside the transaction.
PutCommits(r) ==
    /\ pc[r] = "put_commit"
    /\ drills' = (drills \ req[r].old) \cup NewQueue(req[r].write, req[r].p, req[r].queue)
    /\ lock' = [lock EXCEPT ![req[r].p] = NoReq]
    /\ Goto(r, "read", req[r]) \/ Answer(r, "error", NoRequest)
    /\ UNCHANGED <<prep, writes>>

-----------------------------------------------------------------------------
(* SetDrillCompleted and Delete: one statement each.                       *)

\* A drill that a transaction is deleting is waited for.
SetDrillCompleted(r) ==
    /\ pc[r] = "toggle"
    /\ \A q \in Reqs : \A d \in req[q].old : pc[q] = "put_commit" => d.id # req[r].id
    /\ LET D == {d \in drills : d.id = req[r].id} IN
       /\ drills' = (drills \ D) \cup {[d EXCEPT !.done = req[r].done] : d \in D}
       /\ Answer(r, IF D = {} THEN "not_found" ELSE "ok", req[r])
    /\ UNCHANGED <<prep, lock, writes>>

\* The drills go with the preparation.
Delete(r) ==
    /\ pc[r] = "delete" /\ lock[req[r].p] = NoReq
    /\ \/ ~Live(req[r].p) /\ Answer(r, "not_found", req[r]) /\ UNCHANGED <<prep, drills>>
       \/ /\ Live(req[r].p)
          /\ prep' = [prep EXCEPT ![req[r].p].st = "deleted"]
          /\ drills' = drills \ QueueOf(req[r].p)
          /\ Answer(r, "ok", req[r])
    /\ UNCHANGED <<lock, writes>>

-----------------------------------------------------------------------------

\* Every error ends the request and rolls its transaction back.
Fail(r) ==
    /\ pc[r] # "idle"
    /\ lock' = [p \in Preps |-> IF lock[p] = r THEN NoReq ELSE lock[p]]
    /\ Answer(r, "error", NoRequest)
    /\ UNCHANGED <<prep, drills, writes>>

Arrive(r) ==
    \/ BeginCreate(r) \/ BeginRead(r) \/ BeginUpdate(r) \/ BeginReplace(r)
    \/ BeginToggle(r) \/ BeginDelete(r)

Step(r) ==
    \/ Create(r) \/ ReadPreps(r) \/ ReadDrills(r)
    \/ UpdateRow(r) \/ UpdateReadsDrills(r) \/ UpdateCommits(r)
    \/ PutLocks(r) \/ PutDeletes(r) \/ PutCommits(r)
    \/ SetDrillCompleted(r) \/ Delete(r)

Next == \E r \in Reqs : Arrive(r) \/ Step(r) \/ Fail(r)

Spec == Init /\ [][Next]_vars

-----------------------------------------------------------------------------
(* Properties.                                                             *)

\* Every variable has the shape of its table or record.
TypeOK ==
    /\ prep \in [Preps -> PrepRows]
    /\ drills \subseteq Drills
    /\ lock \in [Preps -> Reqs \cup {NoReq}]
    /\ writes \in 0..MaxWrites
    /\ pc \in [Reqs -> Pcs]
    /\ req \in [Reqs -> Requests]
    /\ told.code \in Codes /\ told.req \in Requests

\* All drills of a preparation, in D, come from one queue write, from the first
\* place on and without gaps.
OneQueue(D) == \A d \in D :
    /\ \A e \in D : e.of = d.of => e.id[1] = d.id[1] /\ (e.id = d.id => e = d)
    /\ \A i \in 1..d.id[2] : \E e \in D : e.of = d.of /\ e.id = <<d.id[1], i>>

\* Whatever ReplaceDrills, Delete and Create race, "the whole queue" of one PUT is
\* stored and told (store.go:349), never parts of two, and no drill is left behind
\* by its preparation.
QueueIsOneWrite ==
    /\ OneQueue(drills) /\ OneQueue(told.req.rows)
    /\ \A d \in drills : Live(d.of)

\* "not found" is told only of what is not there: a row that another request has
\* locked is waited for (store.go:358).
NotFoundTold == told.code = "not_found" =>
    IF told.req.op = "toggle" THEN \A d \in drills : d.id # told.req.id
    ELSE ~Live(told.req.p)

\* Update answers with the row and the queue as they are when it commits: its
\* transaction keeps other queue writes out (store.go:251).  Ticks may pass it.
UpdateTold == told.code = "ok" /\ told.req.op = "update" =>
    /\ prep[told.req.p] = told.req.row
    /\ {d.id : d \in told.req.rows} = {d.id : d \in QueueOf(told.req.p)}

\* A PUT is never answered with the queue it replaced, though the answer is read
\* after its transaction (store.go:388).
PutTold == told.code = "ok" /\ told.req.op = "put" =>
    \A d \in told.req.rows, e \in told.req.old : d.id # e.id

\* What a handler answers is true when it is told, whichever requests ran between its
\* statements.
AnswersAreTrue == NotFoundTold /\ UpdateTold /\ PutTold

\* A preparation is told to be 100% ready when there are drills and all are done
\* (model.go:53), however the reads of the answer were interleaved.
HundredMeansDone == told.code = "ok" =>
    \A p \in told.req.found :
        LET D == {d \in told.req.rows : d.of = p}
        IN told.pct[p] = 100 <=> D # {} /\ \A d \in D : d.done
=============================================================================
