----------------------- MODULE MatchPreparationProofs -----------------------
(***************************************************************************)
(* Proofs about MatchPreparation, for any number of preparations, queue    *)
(* writes and requests and any length of queue: the rows and their locks   *)
(* first, then what the clients are told of them.                          *)
(***************************************************************************)
EXTENDS MatchPreparation, FiniteSetTheorems, TLAPS

Locked == {"update_read", "update_commit", "put_delete", "put_commit"}
Writing == {"create", "put", "put_delete", "put_commit"}

\* A row is locked by the request that works on it.
LocksOK == \A r \in Reqs, p \in Preps :
    lock[p] = r <=> pc[r] \in Locked /\ req[r].p = p

\* What a request holds at each label.
ShapeOf(r) ==
    /\ pc[r] \in Locked \cup {"create", "update", "put", "delete"} => req[r].p \in Preps
    /\ pc[r] \in Locked => Live(req[r].p)
    /\ pc[r] = "create" => prep[req[r].p].st = "none" /\ req[r].row.st = "live"
    /\ pc[r] = "create" <=> req[r].op = "create"
    /\ pc[r] \in {"update_read", "update_commit"} => req[r].row.st = "live"
    /\ OneQueue(req[r].rows)
    /\ pc[r] = "put_commit" => req[r].old = QueueOf(req[r].p)
    /\ pc[r] \in Writing => req[r].write \in 1..writes /\ \A d \in drills : d.id[1] # req[r].write
Shape == \A r \in Reqs : ShapeOf(r)

\* No two requests write one queue or create one preparation.
Apart == \A q, r \in Reqs : q # r =>
    /\ pc[q] \in Writing /\ pc[r] \in Writing => req[q].write # req[r].write
    /\ pc[q] = "create" /\ pc[r] = "create" => req[q].p # req[r].p

RowsOK == QueueIsOneWrite /\ \A d \in drills : d.id[1] <= writes

Base == TypeOK /\ LocksOK /\ Shape /\ Apart /\ RowsOK

-----------------------------------------------------------------------------
(* Queues.                                                                 *)

\* The rows of one write are one queue.
LEMMA NewQueueOK ==
    ASSUME NEW w \in 1..MaxWrites, NEW p \in Preps, NEW q \in Queues
    PROVE  /\ OneQueue(NewQueue(w, p, q))
           /\ NewQueue(w, p, q) \subseteq Drills
           /\ \A d \in NewQueue(w, p, q) : d.of = p /\ d.id[1] = w
<1>1. PICK n \in 0..MaxQueue : q \in [1..n -> BOOLEAN]
  BY DEF Queues
<1>2. DOMAIN q = 1..n /\ \A i \in 1..n : q[i] \in BOOLEAN
  BY <1>1
<1>3. \A d \in NewQueue(w, p, q) : \E i \in 1..n : d = [id |-> <<w, i>>, of |-> p, done |-> q[i]]
  BY <1>2 DEF NewQueue
<1>4. \A i \in 1..n : [id |-> <<w, i>>, of |-> p, done |-> q[i]] \in NewQueue(w, p, q)
  BY <1>2 DEF NewQueue
<1>5. \A i \in 1..n : <<w, i>> \in Ids /\ i \in Int
  BY PrepAssumption DEF Ids
<1>6. NewQueue(w, p, q) \subseteq Drills
  BY <1>2, <1>3, <1>5 DEF Drills
<1>7. \A d \in NewQueue(w, p, q) : d.of = p /\ d.id[1] = w
  BY <1>3
<1>8. ASSUME NEW d \in NewQueue(w, p, q), NEW e \in NewQueue(w, p, q), e.id = d.id PROVE e = d
  <2>1. PICK i \in 1..n : d = [id |-> <<w, i>>, of |-> p, done |-> q[i]]
    BY <1>3
  <2>2. PICK j \in 1..n : e = [id |-> <<w, j>>, of |-> p, done |-> q[j]]
    BY <1>3
  <2>3. i = j
    BY <1>8, <2>1, <2>2
  <2> QED
    BY <2>1, <2>2, <2>3
<1>9. ASSUME NEW d \in NewQueue(w, p, q), NEW j \in 1..d.id[2]
      PROVE  \E e \in NewQueue(w, p, q) : e.of = d.of /\ e.id = <<d.id[1], j>>
  <2>1. PICK i \in 1..n : d = [id |-> <<w, i>>, of |-> p, done |-> q[i]]
    BY <1>3
  <2>2. j \in 1..n
    BY <1>1, <2>1, PrepAssumption
  <2> QED
    BY <1>4, <2>1, <2>2
<1> QED
  BY <1>6, <1>7, <1>8, <1>9 DEF OneQueue

\* A queue beside the queues of other preparations.
LEMMA BesideOK ==
    ASSUME NEW p, NEW D, NEW N, OneQueue(D), OneQueue(N),
           \A d \in N : d.of = p, \A d \in D : d.of # p
    PROVE  OneQueue(D \cup N)
<1>1. ASSUME NEW d \in D \cup N, NEW e \in D \cup N, e.of = d.of
      PROVE  e.id[1] = d.id[1] /\ (e.id = d.id => e = d)
  <2>1. (d \in D /\ e \in D) \/ (d \in N /\ e \in N)
    BY <1>1
  <2> QED
    BY <1>1, <2>1 DEF OneQueue
<1>0. /\ \A d \in D : \A i \in 1..d.id[2] : \E e \in D : e.of = d.of /\ e.id = <<d.id[1], i>>
      /\ \A d \in N : \A i \in 1..d.id[2] : \E e \in N : e.of = d.of /\ e.id = <<d.id[1], i>>
  BY DEF OneQueue
<1>2. ASSUME NEW d \in D \cup N, NEW i \in 1..d.id[2]
      PROVE  \E e \in D \cup N : e.of = d.of /\ e.id = <<d.id[1], i>>
  <2>1. CASE d \in D
    <3>1. \E e \in D : e.of = d.of /\ e.id = <<d.id[1], i>>
      BY <1>0, <1>2, <2>1
    <3> QED
      BY <3>1
  <2>2. CASE d \in N
    <3>1. \E e \in N : e.of = d.of /\ e.id = <<d.id[1], i>>
      BY <1>0, <1>2, <2>2
    <3> QED
      BY <3>1
  <2> QED
    BY <2>1, <2>2
<1> QED
  BY <1>1, <1>2 DEF OneQueue

\* The queues of some preparations.
LEMMA PartOK == ASSUME NEW S, NEW D, OneQueue(D) PROVE OneQueue({d \in D : d.of \in S})
  BY DEF OneQueue

\* A tick leaves the queue as it is.
Ticked(D, i, done) ==
    LET T == {d \in D : d.id = i} IN (D \ T) \cup {[d EXCEPT !.done = done] : d \in T}
LEMMA TickOK ==
    ASSUME NEW D \in SUBSET Drills, NEW i, NEW done \in BOOLEAN, OneQueue(D)
    PROVE  /\ OneQueue(Ticked(D, i, done)) /\ Ticked(D, i, done) \subseteq Drills
           /\ \A d \in Ticked(D, i, done) : \E e \in D : e.id = d.id /\ e.of = d.of
           /\ \A p : i \notin {d.id : d \in {e \in D : e.of = p}}
                => {d \in Ticked(D, i, done) : d.of = p} = {d \in D : d.of = p}
<1> DEFINE t(d) == IF d.id = i THEN [id |-> d.id, of |-> d.of, done |-> done] ELSE d
<1>1. \A d \in D : t(d) \in Drills /\ t(d).id = d.id /\ t(d).of = d.of
  BY DEF Drills
<1>2. Ticked(D, i, done) = {t(d) : d \in D}
  <2>1. \A d \in D : d.id = i => [d EXCEPT !.done = done] = t(d)
    BY DEF Drills
  <2> QED
    BY <2>1 DEF Ticked
<1> HIDE DEF t
<1>3. OneQueue({t(d) : d \in D})
  BY <1>1 DEF OneQueue
<1>4. \A d \in D : d.id # i => t(d) = d
  BY DEF t
<1>5. \A d \in Ticked(D, i, done) : d \in Drills /\ \E e \in D : e.id = d.id /\ e.of = d.of
  BY <1>1, <1>2
<1>6. ASSUME NEW p, i \notin {d.id : d \in {e \in D : e.of = p}}
      PROVE  {d \in Ticked(D, i, done) : d.of = p} = {d \in D : d.of = p}
  <2>1. \A d \in D : d.of = p => t(d) = d
    BY <1>4, <1>6
  <2> QED
    BY <1>1, <1>2, <2>1
<1> QED
  BY <1>2, <1>3, <1>5, <1>6

-----------------------------------------------------------------------------
(* Steps of a request.                                                     *)

Others(r) == \A s \in Reqs \ {r} : pc'[s] = pc[s] /\ req'[s] = req[s]
ReqTypes == pc' \in [Reqs -> Pcs] /\ req' \in [Reqs -> Requests]
            /\ told'.code \in Codes /\ told'.req \in Requests

LEMMA NothingOK == NoRequest \in Requests /\ OneQueue({}) /\ NoRequest.rows = {}
<1>1. NoRequest.queue \in Queues
  <2>1. NoRequest.queue \in [1..0 -> BOOLEAN]
    BY DEF NoRequest
  <2>2. 0 \in 0..MaxQueue
    BY PrepAssumption
  <2> QED
    BY <2>1, <2>2 DEF Queues
<1>2. NoRequest.queue = [i \in 1..0 |-> FALSE] /\ 0 \in 0..MaxWrites
  BY PrepAssumption DEF NoRequest
<1> QED
  BY <1>1, <1>2 DEF NoRequest, Requests, OneQueue, Ops, Patches, NoRow, PrepRows

LEMMA GotoFacts ==
    ASSUME TypeOK, NEW r \in Reqs, NEW l \in Pcs, NEW q \in Requests, Goto(r, l, q)
    PROVE  ReqTypes /\ Others(r) /\ pc'[r] = l /\ req'[r] = q /\ OneQueue(told'.req.rows)
           /\ told'.code = "none"
<1>1. told' = NoAnswer /\ pc' = [pc EXCEPT ![r] = l] /\ req' = [req EXCEPT ![r] = q]
  BY DEF Goto
<1>2. told'.req = NoRequest /\ told'.code = "none"
  BY <1>1 DEF NoAnswer
<1> QED
  BY <1>1, <1>2, NothingOK DEF ReqTypes, Others, TypeOK, Codes

LEMMA AnswerFacts ==
    ASSUME TypeOK, NEW r \in Reqs, NEW c \in Codes, NEW q \in Requests, Answer(r, c, q)
    PROVE  ReqTypes /\ Others(r) /\ pc'[r] = "idle" /\ req'[r] = NoRequest
           /\ told'.code = c /\ told'.req = q
<1>1. told'.req = q /\ told'.code = c
      /\ pc' = [pc EXCEPT ![r] = "idle"] /\ req' = [req EXCEPT ![r] = NoRequest]
  BY DEF Answer
<1> QED
  BY <1>1, NothingOK DEF ReqTypes, Others, TypeOK, Pcs

\* The row lock keeps the others out of a preparation: a step of r that leaves what
\* is not its own leaves the shape of the others.
LEMMA OthersKept ==
    ASSUME Base, TypeOK', LocksOK', RowsOK', NEW r \in Reqs, Others(r), ShapeOf(r)',
           \A p \in Preps : Live(p) /\ lock[p] \notin {r, NoReq} =>
             prep'[p].st = "live" /\ (pc[lock[p]] = "put_commit" => {d \in drills' : d.of = p} = QueueOf(p)),
           \A s \in Reqs \ {r} : pc[s] = "create" => prep'[req[s].p] = prep[req[s].p],
           \A d \in drills' : \/ \E e \in drills : e.id = d.id
                              \/ pc[r] \in Writing /\ d.id[1] = req[r].write,
           writes' \in Nat, writes <= writes',
           pc'[r] \in Writing =>
             \/ pc[r] \in Writing /\ req'[r].write = req[r].write
             \/ req'[r].write = writes + 1,
           pc'[r] = "create" => \A s \in Reqs \ {r} : pc[s] = "create" => req[s].p # req'[r].p
    PROVE  Base'
<1>1. ASSUME NEW s \in Reqs, s # r PROVE ShapeOf(s)'
  <2>1. pc'[s] = pc[s] /\ req'[s] = req[s] /\ ShapeOf(s)
    BY <1>1 DEF Others, Base, Shape
  <2>2. pc[s] \in Locked => lock[req[s].p] = s /\ req[s].p \in Preps /\ Live(req[s].p) /\ s \notin {r, NoReq}
    BY <1>1, <2>1, PrepAssumption DEF Base, LocksOK, ShapeOf
  <2>3. pc[s] \in Locked =>
          /\ prep'[req[s].p].st = "live"
          /\ pc[s] = "put_commit" => {d \in drills' : d.of = req[s].p} = QueueOf(req[s].p)
    BY <2>2
  <2>4. pc[s] \in Writing => req[s].write \in 1..writes' /\ \A d \in drills' : d.id[1] # req[s].write
    <3> SUFFICES ASSUME pc[s] \in Writing PROVE req[s].write \in 1..writes' /\ \A d \in drills' : d.id[1] # req[s].write
      OBVIOUS
    <3>1. req[s].write \in 1..writes /\ \A d \in drills : d.id[1] # req[s].write
      BY <2>1 DEF ShapeOf
    <3>2. pc[r] \in Writing => req[r].write # req[s].write
      BY <1>1 DEF Base, Apart
    <3>3. ASSUME NEW d \in drills' PROVE d.id[1] # req[s].write
      BY <3>1, <3>2
    <3>4. writes \in Nat
      BY DEF Base, TypeOK
    <3> QED
      BY <3>1, <3>3, <3>4
  <2>5. pc[s] = "create" => prep'[req[s].p] = prep[req[s].p]
    BY <1>1
  <2>6. /\ pc[s] \in Locked \cup {"create", "update", "put", "delete"} => req[s].p \in Preps
        /\ pc[s] = "create" => prep'[req[s].p].st = "none" /\ req[s].row.st = "live"
        /\ pc[s] = "create" <=> req[s].op = "create"
        /\ pc[s] \in {"update_read", "update_commit"} => req[s].row.st = "live"
        /\ OneQueue(req[s].rows)
    BY <2>1, <2>5 DEF ShapeOf
  <2>7. pc[s] = "put_commit" => req[s].old = {d \in drills' : d.of = req[s].p}
    BY <2>1, <2>3 DEF ShapeOf, Locked
  <2> QED
    BY <2>1, <2>3, <2>4, <2>6, <2>7 DEF ShapeOf, Live, QueueOf
<1>2. Shape'
  BY <1>1 DEF Shape
<1>3. ASSUME NEW s \in Reqs, s # r
      PROVE  /\ pc'[s] \in Writing /\ pc'[r] \in Writing => req'[s].write # req'[r].write
             /\ pc'[s] = "create" /\ pc'[r] = "create" => req'[s].p # req'[r].p
  <2>1. pc'[s] = pc[s] /\ req'[s] = req[s] /\ ShapeOf(s)
    BY <1>3 DEF Others, Base, Shape
  <2>2. pc[s] \in Writing => req[s].write \in 1..writes /\ writes \in Nat
    BY <2>1 DEF ShapeOf, Base, TypeOK
  <2>3. pc[s] \in Writing /\ pc[r] \in Writing => req[s].write # req[r].write
    BY <1>3 DEF Base, Apart
  <2> QED
    BY <1>3, <2>1, <2>2, <2>3
<1>4. ASSUME NEW q \in Reqs, NEW s \in Reqs, q # s, q # r, s # r
      PROVE  /\ pc'[s] \in Writing /\ pc'[q] \in Writing => req'[s].write # req'[q].write
             /\ pc'[s] = "create" /\ pc'[q] = "create" => req'[s].p # req'[q].p
  BY <1>4 DEF Others, Base, Apart
<1>5. Apart'
  <2> SUFFICES ASSUME NEW q \in Reqs, NEW s \in Reqs, q # s
               PROVE  /\ pc'[q] \in Writing /\ pc'[s] \in Writing => req'[q].write # req'[s].write
                      /\ pc'[q] = "create" /\ pc'[s] = "create" => req'[q].p # req'[s].p
    BY DEF Apart
  <2>1. CASE q = r
    BY <2>1, <1>3
  <2>2. CASE s = r
    BY <2>2, <1>3
  <2>3. CASE q # r /\ s # r
    BY <2>3, <1>4
  <2> QED
    BY <2>1, <2>2, <2>3
<1> QED
  BY <1>2, <1>5 DEF Base

\* A request that is done holds nothing.
LEMMA IdleShape == ASSUME NEW r \in Reqs, pc'[r] = "idle", req'[r] = NoRequest PROVE ShapeOf(r)'
  BY NothingOK DEF ShapeOf, Locked, Writing, NoRequest

\* Locks: kept, and given back.
LEMMA LocksKept ==
    ASSUME Base, NEW r \in Reqs, Others(r), lock' = lock,
           pc'[r] \in Locked <=> pc[r] \in Locked,
           pc[r] \in Locked => req'[r].p = req[r].p
    PROVE  LocksOK'
<1>1. ASSUME NEW s \in Reqs, NEW p \in Preps
      PROVE  lock'[p] = s <=> pc'[s] \in Locked /\ req'[s].p = p
  <2>1. lock[p] = s <=> pc[s] \in Locked /\ req[s].p = p
    BY DEF Base, LocksOK
  <2>2. CASE s = r
    BY <2>1, <2>2
  <2>3. CASE s # r
    BY <2>1, <2>3 DEF Others
  <2> QED
    BY <2>2, <2>3
<1> QED
  BY <1>1 DEF LocksOK

LEMMA LocksFreed ==
    ASSUME Base, NEW r \in Reqs, Others(r), pc'[r] \notin Locked,
           lock' = [p \in Preps |-> IF lock[p] = r THEN NoReq ELSE lock[p]]
    PROVE  LocksOK' /\ lock' \in [Preps -> Reqs \cup {NoReq}]
<1>1. lock' \in [Preps -> Reqs \cup {NoReq}]
  BY DEF Base, TypeOK
<1>2. ASSUME NEW s \in Reqs, NEW p \in Preps
      PROVE  lock'[p] = s <=> pc'[s] \in Locked /\ req'[s].p = p
  <2>1. lock[p] = s <=> pc[s] \in Locked /\ req[s].p = p
    BY DEF Base, LocksOK
  <2>2. CASE s = r
    BY <2>2, PrepAssumption
  <2>3. CASE s # r
    BY <2>1, <2>3, PrepAssumption DEF Others
  <2> QED
    BY <2>2, <2>3
<1> QED
  BY <1>1, <1>2 DEF LocksOK

\* The request that holds a lock gives it back.
LEMMA OwnLock ==
    ASSUME Base, NEW r \in Reqs, pc[r] \in Locked
    PROVE  [lock EXCEPT ![req[r].p] = NoReq] = [p \in Preps |-> IF lock[p] = r THEN NoReq ELSE lock[p]]
<1>1. \A p \in Preps : lock[p] = r <=> req[r].p = p
  BY DEF Base, LocksOK
<1> QED
  BY <1>1 DEF Base, TypeOK

\* The lock is taken of a row nobody has.
LEMMA LockTaken ==
    ASSUME Base, NEW r \in Reqs, Others(r), req[r].p \in Preps, lock[req[r].p] = NoReq,
           pc[r] \notin Locked, lock' = [lock EXCEPT ![req[r].p] = r],
           pc'[r] \in Locked, req'[r].p = req[r].p
    PROVE  LocksOK' /\ lock' \in [Preps -> Reqs \cup {NoReq}]
<1>1. lock' \in [Preps -> Reqs \cup {NoReq}]
  BY DEF Base, TypeOK
<1>2. ASSUME NEW s \in Reqs, NEW p \in Preps
      PROVE  lock'[p] = s <=> pc'[s] \in Locked /\ req'[s].p = p
  <2>1. lock[p] = s <=> pc[s] \in Locked /\ req[s].p = p
    BY DEF Base, LocksOK
  <2>2. lock'[p] = IF p = req[r].p THEN r ELSE lock[p]
    BY DEF Base, TypeOK
  <2>3. CASE s = r
    BY <2>1, <2>2, <2>3
  <2>4. CASE s # r
    <3>1. p = req[r].p => ~(pc[s] \in Locked /\ req[s].p = p)
      BY <2>1, PrepAssumption
    <3> QED
      BY <2>1, <2>2, <2>4, <3>1 DEF Others
  <2> QED
    BY <2>3, <2>4
<1> QED
  BY <1>1, <1>2 DEF LocksOK

\* A step that leaves the tables.
LEMMA QuietBase ==
    ASSUME Base, NEW r \in Reqs, Others(r), ReqTypes, LocksOK', ShapeOf(r)', OneQueue(told'.req.rows),
           prep' = prep, drills' = drills, writes' = writes,
           lock' \in [Preps -> Reqs \cup {NoReq}],
           pc'[r] \in Writing => pc[r] \in Writing /\ req'[r].write = req[r].write,
           pc'[r] # "create"
    PROVE  Base'
<1>1. TypeOK'
  BY DEF Base, TypeOK, ReqTypes
<1>2. RowsOK'
  BY DEF Base, RowsOK, QueueIsOneWrite, Live
<1>3. \A p \in Preps : prep'[p] = prep[p] /\ {d \in drills' : d.of = p} = QueueOf(p)
  BY DEF QueueOf
<1>4. writes \in Nat
  BY DEF Base, TypeOK
<1> QED
  BY <1>1, <1>2, <1>3, <1>4, OthersKept DEF Live

-----------------------------------------------------------------------------
(* Arrivals.                                                               *)

\* A request that begins without an id to write under.
LEMMA BeginQuiet ==
    ASSUME Base, NEW r \in Reqs, NEW l \in {"read", "update", "toggle", "delete"},
           NEW q \in Requests, Begin(r, l, q), writes' = writes,
           l \in {"update", "delete"} => q.p \in Preps, q.op # "create", q.rows = {}
    PROVE  Base'
<1>1. ReqTypes /\ Others(r) /\ pc'[r] = l /\ req'[r] = q /\ OneQueue(told'.req.rows)
  BY GotoFacts DEF Begin, Base, Pcs
<1>2. pc[r] = "idle" /\ prep' = prep /\ drills' = drills /\ lock' = lock
  BY DEF Begin
<1>3. LocksOK'
  BY <1>1, <1>2, LocksKept DEF Locked
<1>4. ShapeOf(r)'
  BY <1>1, NothingOK DEF ShapeOf, Locked, Writing
<1> QED
  BY <1>1, <1>2, <1>3, <1>4, QuietBase DEF Writing, Base, TypeOK

\* A request that begins with one.
LEMMA BeginWrite ==
    ASSUME Base, NEW r \in Reqs, NEW l \in {"create", "put"}, NEW q \in Requests, Begin(r, l, q),
           writes < MaxWrites, writes' = writes + 1, q.write = writes', q.p \in Preps,
           l = "create" <=> q.op = "create",
           l = "create" => Unused(q.p) /\ q.row.st = "live", q.rows = {}
    PROVE  Base'
<1>1. ReqTypes /\ Others(r) /\ pc'[r] = l /\ req'[r] = q /\ OneQueue(told'.req.rows)
  BY GotoFacts DEF Begin, Base, Pcs
<1>2. pc[r] = "idle" /\ prep' = prep /\ drills' = drills /\ lock' = lock
  BY DEF Begin
<1>3. LocksOK'
  BY <1>1, <1>2, LocksKept DEF Locked
<1>4. writes \in Nat /\ writes' \in 0..MaxWrites /\ writes' \in 1..writes' /\ drills \subseteq Drills
  BY PrepAssumption DEF Base, TypeOK
<1>5. \A d \in drills : d.id[1] <= writes /\ d.id[1] \in Int /\ d.id[1] # writes'
  BY <1>4, PrepAssumption DEF Base, RowsOK, Drills, Ids
<1>6. ShapeOf(r)'
  BY <1>1, <1>2, <1>4, <1>5, NothingOK DEF ShapeOf, Locked, Writing, Unused
<1>7. TypeOK'
  BY <1>1, <1>2, <1>4 DEF Base, TypeOK, ReqTypes
<1>8. RowsOK'
  <2>1. QueueIsOneWrite'
    BY <1>1, <1>2 DEF Base, RowsOK, QueueIsOneWrite, Live
  <2>2. \A d \in drills' : d.id[1] <= writes'
    BY <1>2, <1>4, <1>5
  <2> QED
    BY <2>1, <2>2 DEF RowsOK
<1>9. \A s \in Reqs \ {r} : pc[s] = "create" => req[s].p # req'[r].p \/ pc'[r] # "create"
  BY <1>1 DEF Base, Shape, ShapeOf, Unused
<1>10. \A p \in Preps : prep'[p] = prep[p] /\ {d \in drills' : d.of = p} = QueueOf(p)
  BY <1>2 DEF QueueOf
<1> QED
  BY <1>1, <1>2, <1>3, <1>4, <1>6, <1>7, <1>8, <1>9, <1>10, OthersKept DEF Live

LEMMA ArriveBase == ASSUME Base, NEW r \in Reqs, Arrive(r) PROVE Base'
<1>1. CASE BeginCreate(r)
  <2>1. PICK p \in Preps, q \in Queues, note \in BOOLEAN :
          /\ Unused(p) /\ writes < MaxWrites /\ writes' = writes + 1
          /\ Begin(r, "create", [NoRequest EXCEPT !.op = "create", !.p = p, !.write = writes',
                                  !.queue = q, !.row = [st |-> "live", note |-> note]])
    BY <1>1 DEF BeginCreate
  <2> DEFINE x == [NoRequest EXCEPT !.op = "create", !.p = p, !.write = writes',
                                  !.queue = q, !.row = [st |-> "live", note |-> note]]
  <2>2. writes' \in 0..MaxWrites
    BY <2>1, PrepAssumption DEF Base, TypeOK
  <2>3. x \in Requests /\ x.op = "create" /\ x.p = p /\ x.write = writes' /\ x.row.st = "live" /\ x.rows = {}
    BY <2>2, NothingOK DEF Requests, Ops, PrepRows, NoRequest
  <2> QED
    BY <2>1, <2>3, BeginWrite
<1>2. CASE BeginRead(r)
  <2>1. \A p \in Preps : [NoRequest EXCEPT !.op = "get", !.p = p] \in Requests
    BY NothingOK DEF Requests, Ops, NoRequest
  <2>2. [NoRequest EXCEPT !.op = "list"] \in Requests
    BY NothingOK DEF Requests, Ops, NoRequest
  <2>3. \A p \in Preps : [NoRequest EXCEPT !.op = "get", !.p = p].op # "create"
    BY DEF NoRequest
  <2>4. [NoRequest EXCEPT !.op = "list"].op # "create"
    BY DEF NoRequest
  <2>5. \A p \in Preps : [NoRequest EXCEPT !.op = "get", !.p = p].rows = {}
    BY DEF NoRequest
  <2>6. [NoRequest EXCEPT !.op = "list"].rows = {}
    BY DEF NoRequest
  <2>7. writes' = writes /\ \E q \in Requests : q.op # "create" /\ q.rows = {} /\ Begin(r, "read", q)
    BY <1>2, <2>1, <2>2, <2>3, <2>4, <2>5, <2>6 DEF BeginRead
  <2> QED
    BY <2>7, BeginQuiet
<1>3. CASE BeginUpdate(r)
  <2>1. PICK p \in Preps, f \in Patches :
          Begin(r, "update", [NoRequest EXCEPT !.op = "update", !.p = p, !.patch = f])
    BY <1>3 DEF BeginUpdate
  <2> DEFINE x == [NoRequest EXCEPT !.op = "update", !.p = p, !.patch = f]
  <2>2. x \in Requests /\ x.op # "create" /\ x.p = p /\ x.rows = {}
    BY NothingOK DEF Requests, Ops, NoRequest
  <2>3. writes' = writes
    BY <1>3 DEF BeginUpdate
  <2> QED
    BY <2>1, <2>2, <2>3, BeginQuiet
<1>4. CASE BeginReplace(r)
  <2>1. PICK p \in Preps, q \in Queues :
          /\ writes < MaxWrites /\ writes' = writes + 1
          /\ Begin(r, "put", [NoRequest EXCEPT !.op = "put", !.p = p, !.write = writes', !.queue = q])
    BY <1>4 DEF BeginReplace
  <2> DEFINE x == [NoRequest EXCEPT !.op = "put", !.p = p, !.write = writes', !.queue = q]
  <2>2. writes' \in 0..MaxWrites
    BY <2>1, PrepAssumption DEF Base, TypeOK
  <2>3. x \in Requests /\ x.op = "put" /\ x.p = p /\ x.write = writes' /\ x.rows = {}
    BY <2>2, NothingOK DEF Requests, Ops, NoRequest
  <2> QED
    BY <2>1, <2>3, BeginWrite
<1>5. CASE BeginToggle(r)
  <2>1. PICK i \in Ids, done \in BOOLEAN :
          Begin(r, "toggle", [NoRequest EXCEPT !.op = "toggle", !.id = i, !.done = done])
    BY <1>5 DEF BeginToggle
  <2> DEFINE x == [NoRequest EXCEPT !.op = "toggle", !.id = i, !.done = done]
  <2>2. x \in Requests /\ x.op # "create" /\ x.rows = {}
    BY NothingOK DEF Requests, Ops, NoRequest
  <2>3. writes' = writes
    BY <1>5 DEF BeginToggle
  <2> QED
    BY <2>1, <2>2, <2>3, BeginQuiet
<1>6. CASE BeginDelete(r)
  <2>1. PICK p \in Preps : Begin(r, "delete", [NoRequest EXCEPT !.op = "delete", !.p = p])
    BY <1>6 DEF BeginDelete
  <2> DEFINE x == [NoRequest EXCEPT !.op = "delete", !.p = p]
  <2>2. x \in Requests /\ x.op # "create" /\ x.p = p /\ x.rows = {}
    BY NothingOK DEF Requests, Ops, NoRequest
  <2>3. writes' = writes
    BY <1>6 DEF BeginDelete
  <2> QED
    BY <2>1, <2>2, <2>3, BeginQuiet
<1> QED
  BY <1>1, <1>2, <1>3, <1>4, <1>5, <1>6 DEF Arrive

-----------------------------------------------------------------------------
(* Steps.                                                                  *)

\* An answer after which the tables are as before.
LEMMA AnswerQuiet ==
    ASSUME Base, NEW r \in Reqs, NEW c \in Codes, NEW q \in Requests, Answer(r, c, q), OneQueue(q.rows),
           prep' = prep, drills' = drills, writes' = writes,
           \/ lock' = lock /\ pc[r] \notin Locked
           \/ lock' = [p \in Preps |-> IF lock[p] = r THEN NoReq ELSE lock[p]]
    PROVE  Base'
<1>1. ReqTypes /\ Others(r) /\ pc'[r] = "idle" /\ req'[r] = NoRequest /\ OneQueue(told'.req.rows)
  BY AnswerFacts DEF Base
<1>2. "idle" \notin Locked \cup Writing
  BY DEF Locked, Writing
<1>3. LocksOK' /\ lock' \in [Preps -> Reqs \cup {NoReq}]
  BY <1>1, <1>2, LocksKept, LocksFreed DEF Base, TypeOK
<1> QED
  BY <1>1, <1>2, <1>3, IdleShape, QuietBase

\* What a request carries, before it has read any drill.
LEMMA ReqHas == ASSUME Base, NEW r \in Reqs PROVE ShapeOf(r) /\ req[r] \in Requests /\ pc[r] \in Pcs
  BY DEF Base, Shape, TypeOK

LEMMA CreateBase == ASSUME Base, NEW r \in Reqs, Create(r) PROVE Base'
<1> DEFINE p == req[r].p
           N == NewQueue(req[r].write, req[r].p, req[r].queue)
           x == [req[r] EXCEPT !.found = {req[r].p}, !.rows = N]
<1>1. /\ pc[r] = "create" /\ ShapeOf(r) /\ req[r] \in Requests
      /\ prep' = [prep EXCEPT ![p] = req[r].row] /\ drills' = drills \cup N
      /\ lock' = lock /\ writes' = writes
  BY ReqHas DEF Create
<1>2. /\ p \in Preps /\ prep[p].st = "none" /\ req[r].row.st = "live" /\ req[r].row \in PrepRows
      /\ req[r].write \in 1..writes /\ req[r].write \in 1..MaxWrites /\ req[r].queue \in Queues
  BY <1>1, PrepAssumption DEF ShapeOf, Requests, Writing, Base, TypeOK
<1>3. OneQueue(N) /\ N \subseteq Drills /\ \A d \in N : d.of = p /\ d.id[1] = req[r].write
  BY <1>2, NewQueueOK
<1>4. x \in Requests /\ x.rows = N
  BY <1>1, <1>2, <1>3 DEF Requests
<1>5. Others(r) /\ ReqTypes /\ pc'[r] = "idle" /\ req'[r] = NoRequest /\ OneQueue(told'.req.rows)
  <2>1. CASE Answer(r, "ok", x)
    BY <2>1, <1>3, <1>4, AnswerFacts DEF Codes, Base
  <2>2. CASE Answer(r, "error", NoRequest)
    BY <2>2, NothingOK, AnswerFacts DEF Codes, Base
  <2> QED
    BY <2>1, <2>2 DEF Create
<1>6. \A d \in drills : d.of # p
  BY <1>2 DEF Base, RowsOK, QueueIsOneWrite, Live
<1>7. OneQueue(drills')
  BY <1>1, <1>3, <1>6, BesideOK DEF Base, RowsOK, QueueIsOneWrite
<1>8. prep' \in [Preps -> PrepRows] /\ prep'[p].st = "live" /\ \A o \in Preps : o # p => prep'[o] = prep[o]
  BY <1>1, <1>2 DEF Base, TypeOK
<1>9. TypeOK'
  BY <1>1, <1>3, <1>5, <1>8 DEF Base, TypeOK, ReqTypes
<1>10. RowsOK'
  <2>1. \A d \in drills' : prep'[d.of].st = "live"
    BY <1>1, <1>3, <1>6, <1>8 DEF Base, RowsOK, QueueIsOneWrite, Live, TypeOK, Drills
  <2>2. \A d \in drills' : d.id[1] <= writes'
    BY <1>1, <1>2, <1>3 DEF Base, RowsOK
  <2> QED
    BY <1>5, <1>7, <2>1, <2>2 DEF RowsOK, QueueIsOneWrite, Live
<1>11. LocksOK'
  BY <1>1, <1>5, LocksKept DEF Locked
<1>12. \A o \in Preps : Live(o) /\ lock[o] \notin {r, NoReq} =>
         prep'[o].st = "live" /\ {d \in drills' : d.of = o} = QueueOf(o)
  BY <1>1, <1>2, <1>3, <1>8 DEF QueueOf, Live
<1>13. \A s \in Reqs \ {r} : pc[s] = "create" => prep'[req[s].p] = prep[req[s].p]
  <2>1. \A s \in Reqs \ {r} : pc[s] = "create" => req[s].p # p /\ req[s].p \in Preps
    BY <1>1 DEF Base, Apart, Shape, ShapeOf
  <2> QED
    BY <2>1, <1>8
<1>14. ShapeOf(r)'
  BY <1>5, IdleShape
<1>15. writes' \in Nat /\ writes <= writes' /\ pc'[r] \notin Writing
  BY <1>1, <1>5 DEF Base, TypeOK, Writing
<1>16. \A d \in drills' :
         \/ \E e \in drills : e.id = d.id
         \/ pc[r] \in Writing /\ d.id[1] = req[r].write
  BY <1>1, <1>3 DEF Writing
<1> QED
  BY <1>5, <1>9, <1>10, <1>11, <1>12, <1>13, <1>14, <1>15, <1>16, OthersKept DEF Writing

LEMMA ReadBase == ASSUME Base, NEW r \in Reqs, ReadPreps(r) \/ ReadDrills(r) PROVE Base'
<1>1. req[r] \in Requests /\ ShapeOf(r) /\ pc[r] \in {"read", "read_drills"}
      /\ prep' = prep /\ drills' = drills /\ lock' = lock /\ writes' = writes
  BY ReqHas DEF ReadPreps, ReadDrills
<1>2. pc[r] \notin Locked /\ req[r].op # "create" /\ OneQueue(req[r].rows)
  BY <1>1 DEF Locked, ShapeOf
<1>3. ASSUME NEW S \in SUBSET Preps, Goto(r, "read_drills", [req[r] EXCEPT !.found = S])
      PROVE  Base'
  <2> DEFINE x == [req[r] EXCEPT !.found = S]
  <2>1. x \in Requests /\ x.op # "create" /\ x.rows = req[r].rows
    BY <1>1, <1>2 DEF Requests
  <2>2. Others(r) /\ ReqTypes /\ pc'[r] = "read_drills" /\ req'[r] = x /\ OneQueue(told'.req.rows)
    BY <1>3, <2>1, GotoFacts DEF Base, Pcs
  <2>3. LocksOK'
    BY <1>1, <1>2, <2>2, LocksKept DEF Locked
  <2>4. ShapeOf(r)'
    BY <1>2, <2>1, <2>2 DEF ShapeOf, Locked, Writing
  <2> QED
    BY <1>1, <2>2, <2>3, <2>4, QuietBase DEF Writing, Base, TypeOK
<1>4. ASSUME NEW c \in Codes, Answer(r, c, req[r]) PROVE Base'
  BY <1>1, <1>2, <1>4, AnswerQuiet
<1>5. CASE ReadPreps(r)
  <2> DEFINE S == {p \in Preps : Live(p) /\ (req[r].op = "list" \/ p = req[r].p)}
             c == IF req[r].op = "list" THEN "ok" ELSE "not_found"
  <2>1. Goto(r, "read_drills", [req[r] EXCEPT !.found = S]) \/ Answer(r, c, req[r])
    BY <1>5 DEF ReadPreps
  <2>2. S \in SUBSET Preps /\ c \in Codes
    BY DEF Codes
  <2> HIDE DEF S, c
  <2> QED
    BY <2>1, <2>2, <1>3, <1>4
<1>6. CASE ReadDrills(r)
  <2> DEFINE D == {d \in drills : d.of \in req[r].found}
             x == [req[r] EXCEPT !.rows = D]
  <2>1. D \subseteq Drills /\ OneQueue(D)
    BY PartOK DEF Base, TypeOK, RowsOK, QueueIsOneWrite
  <2>2. x \in Requests /\ x.rows = D
    BY <1>1, <2>1 DEF Requests
  <2> QED
    BY <1>1, <1>2, <1>6, <2>1, <2>2, AnswerQuiet DEF ReadDrills, Codes
<1> QED
  BY <1>5, <1>6

\* The next label of a request that keeps, or takes, its lock.
LEMMA LockedGoto ==
    ASSUME Base, NEW r \in Reqs, NEW l \in Locked, NEW x \in Requests, Goto(r, l, x),
           prep' = prep, drills' = drills, writes' = writes,
           req[r].p \in Preps, Live(req[r].p), req[r].op # "create",
           x.op = req[r].op, x.p = req[r].p, x.write = req[r].write, OneQueue(x.rows),
           l \in {"update_read", "update_commit"} => x.row.st = "live",
           l = "put_commit" => x.old = QueueOf(x.p),
           l \in Writing => pc[r] \in Writing,
           \/ pc[r] \in Locked /\ lock' = lock
           \/ pc[r] \notin Locked /\ lock[req[r].p] = NoReq /\ lock' = [lock EXCEPT ![req[r].p] = r]
    PROVE  Base'
<1>1. Others(r) /\ ReqTypes /\ pc'[r] = l /\ req'[r] = x /\ OneQueue(told'.req.rows)
  BY GotoFacts DEF Base, Pcs, Locked
<1>2. LocksOK' /\ lock' \in [Preps -> Reqs \cup {NoReq}]
  <2>1. CASE pc[r] \in Locked /\ lock' = lock
    BY <1>1, <2>1, LocksKept DEF Base, TypeOK
  <2>2. CASE pc[r] \notin Locked /\ lock[req[r].p] = NoReq /\ lock' = [lock EXCEPT ![req[r].p] = r]
    BY <1>1, <2>2, LockTaken
  <2> QED
    BY <2>1, <2>2
<1>3. pc[r] \in Writing => req[r].write \in 1..writes /\ \A d \in drills : d.id[1] # req[r].write
  BY ReqHas DEF ShapeOf
<1>4. prep'[x.p].st = "live" /\ {d \in drills' : d.of = x.p} = QueueOf(x.p)
  BY DEF Live, QueueOf
<1>5. ShapeOf(r)'
  BY <1>1, <1>3, <1>4 DEF ShapeOf, Live, QueueOf, Locked, Writing
<1> QED
  BY <1>1, <1>2, <1>5, QuietBase DEF Locked

LEMMA UpdateBase ==
    ASSUME Base, NEW r \in Reqs, UpdateRow(r) \/ UpdateReadsDrills(r) PROVE Base'
<1>1. req[r] \in Requests /\ ShapeOf(r) /\ pc[r] \in {"update", "update_read"}
      /\ prep' = prep /\ drills' = drills /\ writes' = writes
  BY ReqHas DEF UpdateRow, UpdateReadsDrills
<1>2. req[r].p \in Preps /\ req[r].op # "create" /\ OneQueue(req[r].rows)
  BY <1>1 DEF Locked, ShapeOf
<1>3. CASE UpdateRow(r) /\ ~Live(req[r].p)
  <2>1. Answer(r, "not_found", req[r]) /\ lock' = lock /\ pc[r] \notin Locked
    BY <1>3 DEF UpdateRow, Locked
  <2> QED
    BY <1>1, <1>2, <2>1, AnswerQuiet DEF Codes
<1>4. CASE UpdateRow(r) /\ Live(req[r].p)
  <2> DEFINE row == Patched(prep[req[r].p], req[r].patch)
             x == [req[r] EXCEPT !.row = row]
  <2>1. Goto(r, "update_read", x) /\ pc[r] \notin Locked /\ lock[req[r].p] = NoReq
        /\ lock' = [lock EXCEPT ![req[r].p] = r]
    BY <1>4 DEF UpdateRow, Locked
  <2>2. row \in PrepRows /\ row.st = "live"
    <3> DEFINE o == prep[req[r].p]
               b == o.note \/ req[r].patch = "text"
    <3>1. o \in PrepRows /\ o.st = "live"
      BY <1>2, <1>4 DEF Live, Base, TypeOK
    <3>2. b \in BOOLEAN
      BY <3>1, Zenon DEF PrepRows
    <3>3. row = [o EXCEPT !.note = b]
      BY Zenon DEF Patched
    <3> HIDE DEF b, o
    <3> QED
      BY <3>1, <3>2, <3>3 DEF PrepRows
  <2> HIDE DEF row
  <2>3. x \in Requests /\ x.op = req[r].op /\ x.p = req[r].p /\ x.write = req[r].write
        /\ x.rows = req[r].rows /\ x.row = row
    BY <1>1, <2>2 DEF Requests
  <2> HIDE DEF x
  <2> QED
    BY <1>1, <1>2, <1>4, <2>1, <2>2, <2>3, LockedGoto DEF Locked, Writing
<1>5. CASE UpdateReadsDrills(r)
  <2> DEFINE x == [req[r] EXCEPT !.found = {req[r].p}, !.rows = QueueOf(req[r].p)]
  <2>1. Goto(r, "update_commit", x) /\ pc[r] \in Locked /\ lock' = lock /\ pc[r] = "update_read"
    BY <1>5 DEF UpdateReadsDrills, Locked
  <2>2. Live(req[r].p) /\ req[r].row.st = "live"
    BY <1>1, <2>1 DEF ShapeOf
  <2>3. QueueOf(req[r].p) \subseteq Drills /\ OneQueue(QueueOf(req[r].p))
    <3>1. QueueOf(req[r].p) = {d \in drills : d.of \in {req[r].p}}
      BY DEF QueueOf
    <3>2. OneQueue(drills) /\ drills \subseteq Drills
      BY DEF Base, TypeOK, RowsOK, QueueIsOneWrite
    <3>3. OneQueue({d \in drills : d.of \in {req[r].p}})
      BY <3>2, PartOK
    <3> QED
      BY <3>1, <3>2, <3>3
  <2>4. x \in Requests /\ x.op = req[r].op /\ x.p = req[r].p /\ x.write = req[r].write
        /\ x.rows = QueueOf(req[r].p) /\ x.row = req[r].row
    BY <1>1, <1>2, <2>3 DEF Requests
  <2> HIDE DEF x
  <2> QED
    BY <1>1, <1>2, <2>1, <2>2, <2>3, <2>4, LockedGoto DEF Locked, Writing
<1> QED
  BY <1>1, <1>3, <1>4, <1>5

LEMMA PutBase == ASSUME Base, NEW r \in Reqs, PutLocks(r) \/ PutDeletes(r) PROVE Base'
<1>1. req[r] \in Requests /\ ShapeOf(r) /\ pc[r] \in {"put", "put_delete"}
      /\ prep' = prep /\ drills' = drills /\ writes' = writes
  BY ReqHas DEF PutLocks, PutDeletes
<1>2. req[r].p \in Preps /\ req[r].op # "create" /\ OneQueue(req[r].rows)
  BY <1>1 DEF Locked, ShapeOf
<1>3. CASE PutLocks(r) /\ ~Live(req[r].p)
  <2>1. Answer(r, "not_found", req[r]) /\ lock' = lock /\ pc[r] \notin Locked
    BY <1>3 DEF PutLocks, Locked
  <2> QED
    BY <1>1, <1>2, <2>1, AnswerQuiet DEF Codes
<1>4. CASE PutLocks(r) /\ Live(req[r].p)
  <2>1. Goto(r, "put_delete", req[r]) /\ pc[r] \notin Locked /\ lock[req[r].p] = NoReq
        /\ lock' = [lock EXCEPT ![req[r].p] = r]
    BY <1>4 DEF PutLocks, Locked
  <2> QED
    BY <1>1, <1>2, <1>4, <2>1, LockedGoto DEF Locked, Writing
<1>5. CASE PutDeletes(r)
  <2> DEFINE x == [req[r] EXCEPT !.old = QueueOf(req[r].p)]
  <2>1. Goto(r, "put_commit", x) /\ pc[r] \in Locked /\ lock' = lock /\ pc[r] = "put_delete"
    BY <1>5 DEF PutDeletes, Locked
  <2>2. Live(req[r].p)
    BY <1>1, <2>1 DEF ShapeOf
  <2>3. QueueOf(req[r].p) \subseteq Drills
    BY DEF QueueOf, Base, TypeOK
  <2>4. x \in Requests /\ x.op = req[r].op /\ x.p = req[r].p /\ x.write = req[r].write
        /\ x.rows = req[r].rows /\ x.old = QueueOf(req[r].p)
    BY <1>1, <2>3 DEF Requests
  <2> HIDE DEF x
  <2> QED
    BY <1>1, <1>2, <2>1, <2>2, <2>4, LockedGoto DEF Locked, Writing
<1> QED
  BY <1>1, <1>3, <1>4, <1>5

LEMMA UpdateCommitsBase == ASSUME Base, NEW r \in Reqs, UpdateCommits(r) PROVE Base'
<1> DEFINE p == req[r].p
<1>1. /\ pc[r] = "update_commit" /\ ShapeOf(r) /\ req[r] \in Requests
      /\ prep' = [prep EXCEPT ![p] = req[r].row] /\ drills' = drills /\ writes' = writes
      /\ lock' = [lock EXCEPT ![p] = NoReq]
  BY ReqHas DEF UpdateCommits
<1>2. pc[r] \in Locked /\ p \in Preps /\ Live(p) /\ req[r].row.st = "live" /\ req[r].row \in PrepRows
      /\ OneQueue(req[r].rows)
  BY <1>1 DEF ShapeOf, Locked, Requests
<1>3. Others(r) /\ ReqTypes /\ pc'[r] = "idle" /\ req'[r] = NoRequest /\ OneQueue(told'.req.rows)
  <2>1. CASE Answer(r, "ok", req[r])
    BY <2>1, <1>1, <1>2, AnswerFacts DEF Codes, Base
  <2>2. CASE Answer(r, "error", NoRequest)
    BY <2>2, NothingOK, AnswerFacts DEF Codes, Base
  <2> QED
    BY <2>1, <2>2 DEF UpdateCommits
<1>4. LocksOK' /\ lock' \in [Preps -> Reqs \cup {NoReq}]
  <2>1. lock' = [o \in Preps |-> IF lock[o] = r THEN NoReq ELSE lock[o]]
    BY <1>1, <1>2, OwnLock
  <2> QED
    BY <1>3, <2>1, LocksFreed DEF Locked
<1>5. /\ prep' \in [Preps -> PrepRows] /\ prep'[p].st = "live"
      /\ \A o \in Preps : o # p => prep'[o] = prep[o]
  BY <1>1, <1>2 DEF Base, TypeOK
<1>6. TypeOK'
  BY <1>1, <1>3, <1>4, <1>5 DEF Base, TypeOK, ReqTypes
<1>7. \A o \in Preps : Live(o) => prep'[o].st = "live" /\ {d \in drills' : d.of = o} = QueueOf(o)
  BY <1>1, <1>2, <1>5 DEF QueueOf, Live
<1>8. RowsOK'
  <2>1. \A d \in drills' : prep'[d.of].st = "live"
    BY <1>1, <1>7 DEF Base, RowsOK, QueueIsOneWrite, TypeOK, Drills
  <2> QED
    BY <1>1, <1>3, <2>1 DEF Base, RowsOK, QueueIsOneWrite, Live
<1>9. \A s \in Reqs \ {r} : pc[s] = "create" => prep'[req[s].p] = prep[req[s].p]
  <2>1. \A s \in Reqs \ {r} : pc[s] = "create" => req[s].p # p /\ req[s].p \in Preps
    BY <1>2 DEF Base, Shape, ShapeOf, Live
  <2> QED
    BY <2>1, <1>5
<1>10. ShapeOf(r)'
  BY <1>3, IdleShape
<1>11. writes' \in Nat /\ writes <= writes' /\ pc'[r] \notin Writing
  BY <1>1, <1>3 DEF Base, TypeOK, Writing
<1>12. \A d \in drills' : \E e \in drills : e.id = d.id
  BY <1>1
<1> QED
  BY <1>3, <1>4, <1>6, <1>7, <1>8, <1>9, <1>10, <1>11, <1>12, OthersKept DEF Writing

LEMMA PutCommitsBase == ASSUME Base, NEW r \in Reqs, PutCommits(r) PROVE Base'
<1> DEFINE p == req[r].p
           N == NewQueue(req[r].write, req[r].p, req[r].queue)
<1>1. /\ pc[r] = "put_commit" /\ ShapeOf(r) /\ req[r] \in Requests
      /\ prep' = prep /\ drills' = (drills \ req[r].old) \cup N /\ writes' = writes
      /\ lock' = [lock EXCEPT ![p] = NoReq]
  BY ReqHas DEF PutCommits
<1>2. /\ pc[r] \in Locked /\ pc[r] \in Writing /\ p \in Preps /\ Live(p) /\ req[r].old = QueueOf(p)
      /\ req[r].write \in 1..writes /\ req[r].write \in 1..MaxWrites /\ req[r].queue \in Queues
      /\ OneQueue(req[r].rows) /\ req[r].op # "create"
  BY <1>1, PrepAssumption DEF ShapeOf, Locked, Writing, Requests, Base, TypeOK
<1>3. OneQueue(N) /\ N \subseteq Drills /\ \A d \in N : d.of = p /\ d.id[1] = req[r].write
  BY <1>2, NewQueueOK
<1>4. /\ Others(r) /\ ReqTypes /\ OneQueue(told'.req.rows) /\ pc'[r] \in {"idle", "read"}
      /\ ShapeOf(r)'
  <2>1. CASE Goto(r, "read", req[r])
    <3>1. Others(r) /\ ReqTypes /\ OneQueue(told'.req.rows) /\ pc'[r] = "read" /\ req'[r] = req[r]
      BY <2>1, <1>1, GotoFacts DEF Pcs, Base
    <3>2. ShapeOf(r)'
      BY <1>2, <3>1 DEF ShapeOf, Locked, Writing
    <3> QED
      BY <3>1, <3>2
  <2>2. CASE Answer(r, "error", NoRequest)
    BY <2>2, NothingOK, AnswerFacts, IdleShape DEF Codes, Base
  <2> QED
    BY <2>1, <2>2 DEF PutCommits
<1>5. LocksOK' /\ lock' \in [Preps -> Reqs \cup {NoReq}]
  <2>1. lock' = [o \in Preps |-> IF lock[o] = r THEN NoReq ELSE lock[o]]
    BY <1>1, <1>2, OwnLock
  <2> QED
    BY <1>4, <2>1, LocksFreed DEF Locked
<1>6. TypeOK'
  BY <1>1, <1>3, <1>4, <1>5 DEF Base, TypeOK, ReqTypes
<1> DEFINE D == {d \in drills : d.of \in Preps \ {p}}
<1>7. drills' = D \cup N
  BY <1>1, <1>2 DEF QueueOf, Base, TypeOK, Drills
<1>8. OneQueue(drills')
  <2>1. OneQueue(drills)
    BY DEF Base, RowsOK, QueueIsOneWrite
  <2>2. OneQueue(D)
    BY <2>1, PartOK
  <2>3. \A d \in D : d.of # p
    OBVIOUS
  <2> HIDE DEF D, N
  <2> QED
    BY <1>3, <1>7, <2>2, <2>3, BesideOK
<1>9. RowsOK'
  <2>1. \A d \in drills' : prep'[d.of].st = "live"
    BY <1>1, <1>2, <1>3 DEF Base, RowsOK, QueueIsOneWrite, Live
  <2>2. \A d \in drills' : d.id[1] <= writes'
    BY <1>1, <1>2, <1>3 DEF Base, RowsOK
  <2> QED
    BY <1>4, <1>8, <2>1, <2>2 DEF RowsOK, QueueIsOneWrite, Live
<1>10. \A o \in Preps : lock[o] \notin {r, NoReq} => {d \in drills' : d.of = o} = QueueOf(o)
  <2>1. lock[p] = r
    BY <1>2 DEF Base, LocksOK
  <2>2. \A o \in Preps : o # p => {d \in drills' : d.of = o} = QueueOf(o)
    BY <1>3, <1>7 DEF QueueOf
  <2> QED
    BY <2>1, <2>2
<1>11. writes' \in Nat /\ writes <= writes' /\ pc'[r] \notin Writing /\ pc'[r] # "create"
  BY <1>1, <1>4 DEF Base, TypeOK, Writing
<1>12. \A d \in drills' :
         \/ \E e \in drills : e.id = d.id
         \/ pc[r] \in Writing /\ d.id[1] = req[r].write
  BY <1>1, <1>2, <1>3
<1> HIDE DEF p, N, D
<1> QED
  BY <1>1, <1>4, <1>5, <1>6, <1>9, <1>10, <1>11, <1>12, OthersKept DEF Live

LEMMA ToggleBase == ASSUME Base, NEW r \in Reqs, SetDrillCompleted(r) PROVE Base'
<1> DEFINE i == req[r].id
           T == {d \in drills : d.id = i}
           c == IF T = {} THEN "not_found" ELSE "ok"
<1>1. /\ pc[r] = "toggle" /\ ShapeOf(r) /\ req[r] \in Requests
      /\ prep' = prep /\ lock' = lock /\ writes' = writes
      /\ drills' = Ticked(drills, i, req[r].done) /\ Answer(r, c, req[r])
      /\ \A q \in Reqs : \A d \in req[q].old : pc[q] = "put_commit" => d.id # i
  BY ReqHas DEF SetDrillCompleted, Ticked
<1>2. req[r].done \in BOOLEAN /\ c \in Codes /\ OneQueue(req[r].rows) /\ pc[r] \notin Locked
  BY <1>1 DEF Requests, Codes, ShapeOf, Locked
<1> HIDE DEF c
<1>3. OneQueue(drills) /\ drills \in SUBSET Drills
  BY DEF Base, TypeOK, RowsOK, QueueIsOneWrite
<1>4. /\ OneQueue(drills') /\ drills' \subseteq Drills
      /\ \A d \in drills' : \E e \in drills : e.id = d.id /\ e.of = d.of
      /\ \A p : i \notin {d.id : d \in {e \in drills : e.of = p}}
           => {d \in drills' : d.of = p} = {d \in drills : d.of = p}
  BY <1>1, <1>2, <1>3, TickOK
<1>5. ReqTypes /\ Others(r) /\ pc'[r] = "idle" /\ req'[r] = NoRequest /\ OneQueue(told'.req.rows)
  BY <1>1, <1>2, AnswerFacts DEF Base
<1>6. LocksOK' /\ TypeOK'
  <2>1. LocksOK'
    BY <1>1, <1>2, <1>5, LocksKept DEF Locked
  <2>2. TypeOK'
    BY <1>1, <1>4, <1>5 DEF Base, TypeOK, ReqTypes
  <2> QED
    BY <2>1, <2>2
<1>7. RowsOK'
  <2>1. \A d \in drills' : prep'[d.of].st = "live" /\ d.id[1] <= writes'
    BY <1>1, <1>4 DEF Base, RowsOK, QueueIsOneWrite, Live
  <2> QED
    BY <1>4, <1>5, <2>1 DEF RowsOK, QueueIsOneWrite, Live
<1>8. ASSUME NEW p \in Preps, Live(p), lock[p] \notin {r, NoReq}
      PROVE  /\ prep'[p].st = "live"
             /\ pc[lock[p]] = "put_commit" => {d \in drills' : d.of = p} = QueueOf(p)
  <2>1. lock[p] \in Reqs
    BY <1>8 DEF Base, TypeOK
  <2>2. req[lock[p]].p = p /\ (pc[lock[p]] = "put_commit" => req[lock[p]].old = QueueOf(p))
    BY <2>1 DEF Base, LocksOK, Shape, ShapeOf
  <2>3. pc[lock[p]] = "put_commit" => i \notin {d.id : d \in {e \in drills : e.of = p}}
    BY <1>1, <2>1, <2>2 DEF QueueOf
  <2> QED
    BY <1>1, <1>4, <1>8, <2>3 DEF QueueOf, Live
<1>9. \A s \in Reqs \ {r} : pc[s] = "create" => prep'[req[s].p] = prep[req[s].p]
  BY <1>1
<1>10. writes' \in Nat /\ writes <= writes' /\ pc'[r] \notin Writing /\ pc'[r] # "create"
  BY <1>1, <1>5 DEF Base, TypeOK, Writing
<1>11. \A d \in drills' : \E e \in drills : e.id = d.id
  BY <1>4
<1> QED
  BY <1>5, <1>6, <1>7, <1>8, <1>9, <1>10, <1>11, IdleShape, OthersKept

LEMMA DeleteBase == ASSUME Base, NEW r \in Reqs, Delete(r) PROVE Base'
<1> DEFINE p == req[r].p
<1>1. /\ pc[r] = "delete" /\ lock[p] = NoReq /\ ShapeOf(r) /\ req[r] \in Requests
      /\ lock' = lock /\ writes' = writes
  BY ReqHas DEF Delete
<1>2. pc[r] \notin Locked /\ p \in Preps /\ OneQueue(req[r].rows)
  BY <1>1 DEF ShapeOf, Locked
<1>3. CASE ~Live(p)
  <2>1. Answer(r, "not_found", req[r]) /\ prep' = prep /\ drills' = drills
    BY <1>3 DEF Delete
  <2> QED
    BY <1>1, <1>2, <2>1, AnswerQuiet DEF Codes
<1>4. CASE Live(p)
  <2>1. /\ prep' = [prep EXCEPT ![p].st = "deleted"] /\ drills' = drills \ QueueOf(p)
        /\ Answer(r, "ok", req[r])
    BY <1>4 DEF Delete
  <2>2. Others(r) /\ ReqTypes /\ pc'[r] = "idle" /\ req'[r] = NoRequest /\ OneQueue(told'.req.rows)
    BY <1>1, <1>2, <2>1, AnswerFacts DEF Codes, Base
  <2>3. /\ prep' \in [Preps -> PrepRows]
        /\ \A o \in Preps : o # p => prep'[o] = prep[o]
    BY <1>2, <2>1 DEF Base, TypeOK, PrepRows
  <2>4. TypeOK' /\ LocksOK'
    <3>1. LocksOK'
      BY <1>1, <1>2, <2>2, LocksKept DEF Locked
    <3> QED
      BY <1>1, <2>1, <2>2, <2>3, <3>1 DEF Base, TypeOK, ReqTypes
  <2>5. drills' = {d \in drills : d.of \in Preps \ {p}}
    BY <2>1 DEF QueueOf, Base, TypeOK, Drills
  <2>6. OneQueue(drills')
    <3>1. OneQueue(drills)
      BY DEF Base, RowsOK, QueueIsOneWrite
    <3> QED
      BY <2>5, <3>1, PartOK
  <2>7. RowsOK'
    <3>1. \A d \in drills' : prep'[d.of].st = "live" /\ d.id[1] <= writes'
      BY <1>1, <2>3, <2>5 DEF Base, RowsOK, QueueIsOneWrite, Live
    <3> QED
      BY <2>2, <2>6, <3>1 DEF RowsOK, QueueIsOneWrite, Live
  <2>8. \A o \in Preps : Live(o) /\ lock[o] \notin {r, NoReq} =>
          prep'[o].st = "live" /\ {d \in drills' : d.of = o} = QueueOf(o)
    <3>1. \A o \in Preps : o # p => {d \in drills' : d.of = o} = QueueOf(o)
      BY <2>5 DEF QueueOf
    <3> QED
      BY <1>1, <2>3, <3>1 DEF Live
  <2>9. \A s \in Reqs \ {r} : pc[s] = "create" => prep'[req[s].p] = prep[req[s].p]
    <3>1. \A s \in Reqs \ {r} : pc[s] = "create" => req[s].p # p /\ req[s].p \in Preps
      BY <1>4 DEF Base, Shape, ShapeOf, Live
    <3> QED
      BY <2>3, <3>1
  <2>10. writes' \in Nat /\ writes <= writes' /\ pc'[r] \notin Writing /\ pc'[r] # "create"
    BY <1>1, <2>2 DEF Base, TypeOK, Writing
  <2>11. \A d \in drills' : \E e \in drills : e.id = d.id
    BY <2>5
  <2> QED
    BY <2>2, <2>4, <2>7, <2>8, <2>9, <2>10, <2>11, IdleShape, OthersKept
<1> QED
  BY <1>3, <1>4

-----------------------------------------------------------------------------
(* Theorems.                                                               *)

LEMMA InitBase == ASSUME Init PROVE Base
<1>1. told.req = NoRequest /\ told.code = "none"
  BY DEF Init, NoAnswer
<1>2. TypeOK
  BY <1>1, NothingOK, PrepAssumption DEF Init, TypeOK, NoRow, PrepRows, Pcs, Codes
<1>3. \A r \in Reqs : pc[r] = "idle" /\ req[r] = NoRequest
  BY DEF Init
<1>4. LocksOK /\ Apart
  BY <1>3, PrepAssumption DEF Init, LocksOK, Apart, Locked, Writing
<1>5. Shape
  <2>1. NoRequest.op = "none" /\ NoRequest.rows = {} /\ OneQueue({})
    BY NothingOK DEF NoRequest
  <2>2. ASSUME NEW r \in Reqs PROVE ShapeOf(r)
    <3>1. pc[r] = "idle" /\ req[r] = NoRequest
      BY <1>3
    <3> QED
      BY <2>1, <3>1 DEF ShapeOf, Locked, Writing
  <2> QED
    BY <2>2 DEF Shape
<1>6. RowsOK
  BY <1>1, NothingOK DEF Init, RowsOK, QueueIsOneWrite
<1> QED
  BY <1>2, <1>4, <1>5, <1>6 DEF Base

LEMMA NextBase == ASSUME Base, [Next]_vars PROVE Base'
<1>1. CASE UNCHANGED vars
  <2>1. /\ prep' = prep /\ drills' = drills /\ lock' = lock /\ writes' = writes
        /\ pc' = pc /\ req' = req /\ told' = told
    BY <1>1 DEF vars
  <2>2. TypeOK' /\ LocksOK' /\ Apart'
    BY <2>1 DEF Base, TypeOK, LocksOK, Apart
  <2>3. Shape'
    BY <2>1 DEF Base, Shape, ShapeOf, Live, QueueOf
  <2>4. RowsOK'
    BY <2>1 DEF Base, RowsOK, QueueIsOneWrite, Live
  <2> QED
    BY <2>2, <2>3, <2>4 DEF Base
<1>2. ASSUME NEW r \in Reqs, Step(r) PROVE Base'
  BY <1>2, CreateBase, ReadBase, UpdateBase, UpdateCommitsBase, PutBase, PutCommitsBase,
     ToggleBase, DeleteBase DEF Step
<1>3. ASSUME NEW r \in Reqs, Fail(r) PROVE Base'
  <2>1. /\ prep' = prep /\ drills' = drills /\ writes' = writes /\ Answer(r, "error", NoRequest)
        /\ lock' = [p \in Preps |-> IF lock[p] = r THEN NoReq ELSE lock[p]]
    BY <1>3 DEF Fail
  <2> QED
    BY <2>1, NothingOK, AnswerQuiet DEF Codes
<1> QED
  BY <1>1, <1>2, <1>3, ArriveBase DEF Next

\* The inductive invariant: who holds which lock, and what each request holds while
\* it has it.
THEOREM Invariant == Spec => []Base
<1>1. Init => Base
  BY InitBase
<1>2. Base /\ [Next]_vars => Base'
  BY NextBase
<1> QED
  BY <1>1, <1>2, PTL DEF Spec

\* Every variable keeps the shape of its table or record, whatever requests overlap.
THEOREM TypeCorrect == Spec => []TypeOK
<1>1. Base => TypeOK
  BY DEF Base
<1> QED
  BY <1>1, Invariant, PTL

\* For any number of requests in flight, what is stored and told of a preparation is
\* the queue of one Create or ReplaceDrills, whole, and it goes with its preparation.
THEOREM QueueWhole == Spec => []QueueIsOneWrite
<1>1. Base => QueueIsOneWrite
  BY DEF Base, RowsOK
<1> QED
  BY <1>1, Invariant, PTL

\* No two requests work on one preparation inside a transaction (store.go:358).
THEOREM OneTransaction ==
    Spec => [](\A q, r \in Reqs : pc[q] \in Locked /\ pc[r] \in Locked /\ req[q].p = req[r].p
                  => q = r)
<1>1. ASSUME Base, NEW q \in Reqs, NEW r \in Reqs,
             pc[q] \in Locked, pc[r] \in Locked, req[q].p = req[r].p
      PROVE  q = r
  <2>1. req[q].p \in Preps
    BY <1>1 DEF Base, Shape, ShapeOf
  <2>2. lock[req[q].p] = q
    BY <1>1, <2>1 DEF Base, LocksOK
  <2>3. lock[req[q].p] = r
    BY <1>1, <2>1 DEF Base, LocksOK
  <2> QED
    BY <2>2, <2>3
<1>2. Base => \A q, r \in Reqs : pc[q] \in Locked /\ pc[r] \in Locked /\ req[q].p = req[r].p => q = r
  BY <1>1
<1> QED
  BY <1>2, Invariant, PTL

-----------------------------------------------------------------------------
(* What clients are told.                                                  *)

Reading == {"read", "read_drills"}

\* What is asked for at each label.
OpOK(r) ==
    /\ pc[r] \in {"update", "update_read", "update_commit"} => req[r].op = "update"
    /\ pc[r] \in {"put", "put_delete", "put_commit"} => req[r].op = "put"
    /\ pc[r] \in Reading =>
         req[r].op \in {"get", "list", "put"} /\ (req[r].op # "list" => req[r].p \in Preps)
    /\ pc[r] = "toggle" => req[r].op = "toggle"
    /\ pc[r] = "delete" => req[r].op = "delete"

\* The drills that a PUT replaced are gone when it reads, and never come back.
GoneOK(r) == pc[r] \in Reading => \A e \in req[r].old :
    /\ e.id[1] <= writes
    /\ \A s \in Reqs : pc[s] \in Writing => req[s].write # e.id[1]
    /\ \A d \in drills : d.id # e.id

IdsOf(D) == {d.id : d \in D}

\* What Update has read stays until it commits, but for ticks.
SeenOK(r) == pc[r] = "update_commit" =>
    req[r].found = {req[r].p} /\ IdsOf(req[r].rows) = IdsOf(QueueOf(req[r].p))

\* The drills of one write belong to one preparation.
WritesApart == \A d, e \in drills : d.id[1] = e.id[1] => d.of = e.of

KeptOf(r) == OpOK(r) /\ GoneOK(r) /\ SeenOK(r)
Kept == WritesApart /\ \A r \in Reqs : KeptOf(r)

\* Percentages are those of the drills told beside them.
PctTold == \A p \in told.req.found : told.pct[p] = PctOf({d \in told.req.rows : d.of = p})

-----------------------------------------------------------------------------
(* The other requests.                                                     *)

\* What a step does to the tables, as far as the others can tell.
DrillsMove(r) ==
    /\ \A d \in drills' : \/ \E e \in drills : e.id = d.id /\ e.of = d.of
                          \/ pc[r] \in Writing /\ d.id[1] = req[r].write /\ d.of = req[r].p
    /\ \A p \in Preps : Live(p) /\ lock[p] \notin {r, NoReq} =>
         IdsOf({d \in drills' : d.of = p}) = IdsOf(QueueOf(p))

LEMMA ApartKept ==
    ASSUME Base, NEW r \in Reqs, WritesApart, DrillsMove(r)
    PROVE  WritesApart'
<1>1. \A d \in drills : pc[r] \in Writing => d.id[1] # req[r].write
  BY DEF Base, Shape, ShapeOf
<1>2. ASSUME NEW d \in drills', NEW e \in drills', d.id[1] = e.id[1] PROVE d.of = e.of
  <2>1. CASE \E f \in drills : f.id = d.id /\ f.of = d.of
    <3>1. PICK f \in drills : f.id = d.id /\ f.of = d.of
      BY <2>1
    <3> QED
      BY <1>1, <1>2, <3>1 DEF DrillsMove, WritesApart
  <2>2. CASE pc[r] \in Writing /\ d.id[1] = req[r].write /\ d.of = req[r].p
    <3>1. CASE \E f \in drills : f.id = e.id /\ f.of = e.of
      BY <1>1, <1>2, <2>2, <3>1
    <3> QED
      BY <1>2, <2>2, <3>1 DEF DrillsMove
  <2> QED
    BY <2>1, <2>2 DEF DrillsMove
<1> QED
  BY <1>2 DEF WritesApart

\* A step that gives out no drill's id twice leaves what the others wait to tell.
LEMMA OthersTell ==
    ASSUME Base, Kept, NEW r \in Reqs, Others(r), DrillsMove(r), KeptOf(r)',
           writes' \in Nat, writes <= writes',
           pc'[r] \in Writing =>
             \/ pc[r] \in Writing /\ req'[r].write = req[r].write
             \/ req'[r].write = writes + 1
    PROVE  Kept'
<1>1. ASSUME NEW s \in Reqs, s # r PROVE KeptOf(s)'
  <2>1. pc'[s] = pc[s] /\ req'[s] = req[s] /\ KeptOf(s) /\ req[s] \in Requests
    BY <1>1, ReqHas DEF Others, Kept
  <2>2. OpOK(s)'
    BY <2>1 DEF KeptOf, OpOK
  <2>3. ASSUME pc[s] \in Reading, NEW e \in req[s].old
        PROVE  /\ e.id[1] <= writes'
               /\ \A q \in Reqs : pc'[q] \in Writing => req'[q].write # e.id[1]
               /\ \A d \in drills' : d.id # e.id
    <3>1. /\ e.id[1] <= writes /\ e.id[1] \in Int /\ writes \in Nat
          /\ \A q \in Reqs : pc[q] \in Writing => req[q].write # e.id[1]
          /\ \A d \in drills : d.id # e.id
      BY <2>1, <2>3, PrepAssumption DEF KeptOf, GoneOK, Requests, Drills, Ids, Base, TypeOK
    <3>2. \A q \in Reqs : pc'[q] \in Writing => req'[q].write # e.id[1]
      BY <3>1 DEF Others
    <3>3. \A d \in drills' : d.id # e.id
      BY <3>1 DEF DrillsMove
    <3> QED
      BY <3>1, <3>2, <3>3
  <2>4. GoneOK(s)'
    BY <2>1, <2>3 DEF GoneOK
  <2>5. ASSUME pc[s] = "update_commit"
        PROVE  IdsOf({d \in drills' : d.of = req[s].p}) = IdsOf(QueueOf(req[s].p))
    <3>1. req[s].p \in Preps /\ Live(req[s].p)
      BY <2>5 DEF Base, Shape, ShapeOf, Locked
    <3>2. lock[req[s].p] = s
      BY <2>5, <3>1 DEF Base, LocksOK, Locked
    <3> QED
      BY <1>1, <3>1, <3>2, PrepAssumption DEF DrillsMove
  <2>6. SeenOK(s)'
    BY <2>1, <2>5 DEF KeptOf, SeenOK, QueueOf
  <2> QED
    BY <2>2, <2>4, <2>6 DEF KeptOf
<1> QED
  BY <1>1, ApartKept DEF Kept

\* A step that leaves the drills.
LEMMA Still == ASSUME NEW r \in Reqs, drills' = drills PROVE DrillsMove(r)
BY DEF DrillsMove, QueueOf

\* A request that is done has nothing left to tell.
LEMMA IdleTells == ASSUME NEW r \in Reqs, pc'[r] = "idle" PROVE KeptOf(r)'
BY DEF KeptOf, OpOK, GoneOK, SeenOK, Reading

-----------------------------------------------------------------------------
(* Answers.                                                                *)

LEMMA SilentStep == ASSUME told'.code \notin {"ok", "not_found"} PROVE AnswersAreTrue'
BY DEF AnswersAreTrue, NotFoundTold, UpdateTold, PutTold

LEMMA RowNotFound ==
    ASSUME told'.code = "not_found", told'.req.op # "toggle", prep'[told'.req.p].st # "live"
    PROVE  AnswersAreTrue'
BY DEF AnswersAreTrue, NotFoundTold, UpdateTold, PutTold, Live

LEMMA OtherOK ==
    ASSUME told'.code = "ok", told'.req.op \notin {"update", "put"} PROVE AnswersAreTrue'
BY DEF AnswersAreTrue, NotFoundTold, UpdateTold, PutTold

\* A request that goes on at label l with x.
LEMMA GoesKept ==
    ASSUME Base, Kept, NEW r \in Reqs, NEW l \in Pcs, NEW x \in Requests, Goto(r, l, x),
           DrillsMove(r), writes' \in Nat, writes <= writes',
           l \in Writing =>
             \/ pc[r] \in Writing /\ x.write = req[r].write
             \/ x.write = writes + 1,
           pc'[r] = l /\ req'[r] = x => KeptOf(r)'
    PROVE  Kept' /\ AnswersAreTrue'
<1>1. Others(r) /\ pc'[r] = l /\ req'[r] = x /\ told'.code = "none"
  BY GotoFacts DEF Base
<1> QED
  BY <1>1, OthersTell, SilentStep

\* A request that answers.
LEMMA AnswerKept ==
    ASSUME Base, Kept, NEW r \in Reqs, NEW c \in Codes, NEW q \in Requests, Answer(r, c, q),
           DrillsMove(r), writes' = writes
    PROVE  Kept' /\ told'.code = c /\ told'.req = q
<1>1. Others(r) /\ pc'[r] = "idle" /\ told'.code = c /\ told'.req = q
  BY AnswerFacts DEF Base
<1>2. writes' \in Nat /\ writes <= writes' /\ pc'[r] \notin Writing
  BY <1>1 DEF Base, TypeOK, Writing
<1> QED
  BY <1>1, <1>2, IdleTells, OthersTell

LEMMA ErrorTold ==
    ASSUME Base, Kept, NEW r \in Reqs, Answer(r, "error", NoRequest), DrillsMove(r), writes' = writes
    PROVE  Kept' /\ AnswersAreTrue'
<1>1. Kept' /\ told'.code = "error"
  BY NothingOK, AnswerKept DEF Codes
<1> QED
  BY <1>1, SilentStep

-----------------------------------------------------------------------------
(* Arrivals.                                                               *)

LEMMA BeginKept ==
    ASSUME Base, Kept, NEW r \in Reqs, NEW l \in Pcs, NEW x \in Requests, Begin(r, l, x),
           writes' \in Nat, writes <= writes',
           l \in Writing => x.write = writes + 1,
           l \in {"create", "read", "update", "put", "toggle", "delete"},
           l = "read" => x.old = {} /\ (x.op = "list" \/ (x.op = "get" /\ x.p \in Preps)),
           l # "read" => x.op = l
    PROVE  Kept' /\ AnswersAreTrue'
<1>1. Goto(r, l, x) /\ drills' = drills
  BY DEF Begin
<1>2. DrillsMove(r)
  BY <1>1, Still
<1>3. pc'[r] = l /\ req'[r] = x => KeptOf(r)'
  BY DEF KeptOf, OpOK, GoneOK, SeenOK, Reading
<1> QED
  BY <1>1, <1>2, <1>3, GoesKept

LEMMA ArriveKept == ASSUME Base, Kept, NEW r \in Reqs, Arrive(r) PROVE Kept' /\ AnswersAreTrue'
<1>0. writes \in Nat /\ NoRequest \in Requests /\ NoRequest.old = {}
  BY NothingOK DEF Base, TypeOK, NoRequest
<1>1. CASE BeginCreate(r)
  <2>1. PICK p \in Preps, q \in Queues, note \in BOOLEAN :
          /\ writes < MaxWrites /\ writes' = writes + 1
          /\ Begin(r, "create", [NoRequest EXCEPT !.op = "create", !.p = p, !.write = writes',
                                  !.queue = q, !.row = [st |-> "live", note |-> note]])
    BY <1>1 DEF BeginCreate
  <2> DEFINE x == [NoRequest EXCEPT !.op = "create", !.p = p, !.write = writes',
                                  !.queue = q, !.row = [st |-> "live", note |-> note]]
  <2>2. writes' \in 0..MaxWrites
    BY <2>1, PrepAssumption DEF Base, TypeOK
  <2>3. x \in Requests /\ x.op = "create" /\ x.write = writes'
    BY <2>2, NothingOK DEF Requests, Ops, PrepRows, NoRequest
  <2> HIDE DEF x
  <2>4. Begin(r, "create", x)
    BY <2>1 DEF x
  <2> QED
    BY <1>0, <2>1, <2>3, <2>4, BeginKept DEF Pcs
<1>2. CASE BeginRead(r)
  <2>1. ASSUME NEW p \in Preps, Begin(r, "read", [NoRequest EXCEPT !.op = "get", !.p = p])
        PROVE  Kept' /\ AnswersAreTrue'
    <3> DEFINE x == [NoRequest EXCEPT !.op = "get", !.p = p]
    <3>1. x \in Requests /\ x.op = "get" /\ x.old = {} /\ x.p = p
      BY NothingOK DEF Requests, Ops, NoRequest
    <3> HIDE DEF x
    <3>2. Begin(r, "read", x) /\ writes' = writes
      BY <1>2, <2>1 DEF x, BeginRead
    <3> QED
      BY <1>0, <3>1, <3>2, BeginKept DEF Pcs, Writing
  <2>2. ASSUME Begin(r, "read", [NoRequest EXCEPT !.op = "list"])
        PROVE  Kept' /\ AnswersAreTrue'
    <3> DEFINE x == [NoRequest EXCEPT !.op = "list"]
    <3>1. x \in Requests /\ x.op = "list" /\ x.old = {}
      BY NothingOK DEF Requests, Ops, NoRequest
    <3> HIDE DEF x
    <3>2. Begin(r, "read", x) /\ writes' = writes
      BY <1>2, <2>2 DEF x, BeginRead
    <3> QED
      BY <1>0, <3>1, <3>2, BeginKept DEF Pcs, Writing
  <2> QED
    BY <1>2, <2>1, <2>2 DEF BeginRead
<1>3. CASE BeginUpdate(r)
  <2>1. PICK p \in Preps, f \in Patches :
          Begin(r, "update", [NoRequest EXCEPT !.op = "update", !.p = p, !.patch = f])
    BY <1>3 DEF BeginUpdate
  <2> DEFINE x == [NoRequest EXCEPT !.op = "update", !.p = p, !.patch = f]
  <2>2. x \in Requests /\ x.op = "update"
    BY NothingOK DEF Requests, Ops, NoRequest
  <2> HIDE DEF x
  <2>3. Begin(r, "update", x) /\ writes' = writes
    BY <1>3, <2>1 DEF x, BeginUpdate
  <2> QED
    BY <1>0, <2>2, <2>3, BeginKept DEF Pcs, Writing
<1>4. CASE BeginReplace(r)
  <2>1. PICK p \in Preps, q \in Queues :
          /\ writes < MaxWrites /\ writes' = writes + 1
          /\ Begin(r, "put", [NoRequest EXCEPT !.op = "put", !.p = p, !.write = writes', !.queue = q])
    BY <1>4 DEF BeginReplace
  <2> DEFINE x == [NoRequest EXCEPT !.op = "put", !.p = p, !.write = writes', !.queue = q]
  <2>2. writes' \in 0..MaxWrites
    BY <2>1, PrepAssumption DEF Base, TypeOK
  <2>3. x \in Requests /\ x.op = "put" /\ x.write = writes'
    BY <2>2, NothingOK DEF Requests, Ops, NoRequest
  <2> HIDE DEF x
  <2>4. Begin(r, "put", x)
    BY <2>1 DEF x
  <2> QED
    BY <1>0, <2>1, <2>3, <2>4, BeginKept DEF Pcs
<1>5. CASE BeginToggle(r)
  <2>1. PICK i \in Ids, done \in BOOLEAN :
          Begin(r, "toggle", [NoRequest EXCEPT !.op = "toggle", !.id = i, !.done = done])
    BY <1>5 DEF BeginToggle
  <2> DEFINE x == [NoRequest EXCEPT !.op = "toggle", !.id = i, !.done = done]
  <2>2. x \in Requests /\ x.op = "toggle"
    BY NothingOK DEF Requests, Ops, NoRequest
  <2> HIDE DEF x
  <2>3. Begin(r, "toggle", x) /\ writes' = writes
    BY <1>5, <2>1 DEF x, BeginToggle
  <2> QED
    BY <1>0, <2>2, <2>3, BeginKept DEF Pcs, Writing
<1>6. CASE BeginDelete(r)
  <2>1. PICK p \in Preps : Begin(r, "delete", [NoRequest EXCEPT !.op = "delete", !.p = p])
    BY <1>6 DEF BeginDelete
  <2> DEFINE x == [NoRequest EXCEPT !.op = "delete", !.p = p]
  <2>2. x \in Requests /\ x.op = "delete"
    BY NothingOK DEF Requests, Ops, NoRequest
  <2> HIDE DEF x
  <2>3. Begin(r, "delete", x) /\ writes' = writes
    BY <1>6, <2>1 DEF x, BeginDelete
  <2> QED
    BY <1>0, <2>2, <2>3, BeginKept DEF Pcs, Writing
<1> QED
  BY <1>1, <1>2, <1>3, <1>4, <1>5, <1>6 DEF Arrive

-----------------------------------------------------------------------------
(* Steps.                                                                  *)

\* What is known of a request at its label.
LEMMA Has ==
    ASSUME Base, Kept, NEW r \in Reqs
    PROVE  /\ ShapeOf(r) /\ KeptOf(r) /\ req[r] \in Requests
           /\ writes \in Nat /\ TypeOK /\ WritesApart
BY ReqHas DEF Base, TypeOK, Kept

LEMMA CreateKept == ASSUME Base, Kept, NEW r \in Reqs, Create(r) PROVE Kept' /\ AnswersAreTrue'
<1> DEFINE p == req[r].p
           N == NewQueue(req[r].write, req[r].p, req[r].queue)
           x == [req[r] EXCEPT !.found = {req[r].p}, !.rows = N]
<1>1. /\ pc[r] = "create" /\ ShapeOf(r) /\ req[r] \in Requests
      /\ drills' = drills \cup N /\ writes' = writes
  BY ReqHas DEF Create
<1>2. /\ p \in Preps /\ prep[p].st = "none" /\ req[r].op = "create"
      /\ req[r].write \in 1..MaxWrites /\ req[r].queue \in Queues
  BY <1>1, PrepAssumption DEF ShapeOf, Requests, Writing, Base, TypeOK
<1>3. N \subseteq Drills /\ \A d \in N : d.of = p /\ d.id[1] = req[r].write
  BY <1>2, NewQueueOK
<1>4. x \in Requests /\ x.op = "create"
  BY <1>1, <1>2, <1>3 DEF Requests
<1>5. DrillsMove(r)
  <2>1. \A d \in drills' : d \in drills \/ (pc[r] \in Writing /\ d.id[1] = req[r].write /\ d.of = p)
    BY <1>1, <1>3 DEF Writing
  <2>2. \A o \in Preps : Live(o) => {d \in drills' : d.of = o} = QueueOf(o)
    BY <1>1, <1>2, <1>3 DEF QueueOf, Live
  <2> HIDE DEF N, x
  <2> QED
    BY <2>1, <2>2 DEF DrillsMove
<1>6. CASE Answer(r, "ok", x)
  <2> HIDE DEF x, N
  <2>1. Kept' /\ told'.code = "ok" /\ told'.req = x
    BY <1>1, <1>4, <1>5, <1>6, AnswerKept DEF Codes
  <2> QED
    BY <1>4, <2>1, OtherOK
<1>7. CASE Answer(r, "error", NoRequest)
  BY <1>1, <1>5, <1>7, ErrorTold
<1> QED
  BY <1>6, <1>7 DEF Create

LEMMA ReadPrepsKept ==
    ASSUME Base, Kept, NEW r \in Reqs, ReadPreps(r) PROVE Kept' /\ AnswersAreTrue'
<1> DEFINE S == {p \in Preps : Live(p) /\ (req[r].op = "list" \/ p = req[r].p)}
           x == [req[r] EXCEPT !.found = S]
<1>1. pc[r] = "read" /\ drills' = drills /\ prep' = prep /\ writes' = writes /\ DrillsMove(r)
  BY Still DEF ReadPreps
<1>2. KeptOf(r) /\ req[r] \in Requests /\ writes \in Nat /\ TypeOK
  BY Has
<1>3. req[r].op \in {"get", "list", "put"} /\ (req[r].op # "list" => req[r].p \in Preps)
  BY <1>1, <1>2 DEF KeptOf, OpOK, Reading
<1>4. CASE Goto(r, "read_drills", x)
  <2>1. x \in Requests /\ x.op = req[r].op /\ x.p = req[r].p /\ x.old = req[r].old
    BY <1>2 DEF Requests
  <2> HIDE DEF x
  <2>2. Others(r) /\ pc'[r] = "read_drills" /\ req'[r] = x
    BY <1>2, <1>4, <2>1, GotoFacts DEF Pcs
  <2>3. KeptOf(r)'
    <3>1. \A s \in Reqs : pc'[s] \in Writing => pc[s] \in Writing /\ req'[s].write = req[s].write
      BY <2>2 DEF Others, Writing
    <3>2. GoneOK(r)'
      BY <1>1, <1>2, <2>1, <2>2, <3>1 DEF KeptOf, GoneOK, Reading
    <3> QED
      BY <1>3, <2>1, <2>2, <3>2 DEF KeptOf, OpOK, SeenOK, Reading
  <2> QED
    BY <1>1, <1>2, <1>4, <2>1, <2>3, GoesKept DEF Pcs, Writing
<1>5. CASE S = {} /\ Answer(r, IF req[r].op = "list" THEN "ok" ELSE "not_found", req[r])
  <2>1. CASE req[r].op = "list"
    <3>1. told'.code = "ok" /\ told'.req = req[r] /\ Kept'
      BY <1>1, <1>2, <1>5, <2>1, AnswerKept DEF Codes
    <3> QED
      BY <2>1, <3>1, OtherOK
  <2>2. CASE req[r].op # "list"
    <3>1. told'.code = "not_found" /\ told'.req = req[r] /\ Kept'
      BY <1>1, <1>2, <1>5, <2>2, AnswerKept DEF Codes
    <3>2. prep'[req[r].p].st # "live"
      BY <1>1, <1>3, <1>5, <2>2 DEF Live
    <3> QED
      BY <1>3, <3>1, <3>2, RowNotFound
  <2> QED
    BY <2>1, <2>2
<1> QED
  BY <1>4, <1>5 DEF ReadPreps

LEMMA ReadDrillsKept ==
    ASSUME Base, Kept, NEW r \in Reqs, ReadDrills(r) PROVE Kept' /\ AnswersAreTrue'
<1> DEFINE x == [req[r] EXCEPT !.rows = {d \in drills : d.of \in req[r].found}]
<1>1. pc[r] = "read_drills" /\ drills' = drills /\ writes' = writes /\ DrillsMove(r)
      /\ Answer(r, "ok", x)
  BY Still DEF ReadDrills
<1>2. KeptOf(r) /\ req[r] \in Requests /\ TypeOK
  BY Has
<1>3. /\ x \in Requests /\ x.op = req[r].op /\ x.old = req[r].old
      /\ \A d \in x.rows : d \in drills
  BY <1>2 DEF Requests, TypeOK
<1> HIDE DEF x
<1>4. Kept' /\ told'.code = "ok" /\ told'.req = x
  BY <1>1, <1>3, AnswerKept DEF Codes
<1>5. x.op # "update" /\ \A d \in x.rows, e \in x.old : d.id # e.id
  BY <1>1, <1>2, <1>3 DEF KeptOf, OpOK, GoneOK, Reading
<1> QED
  BY <1>4, <1>5 DEF AnswersAreTrue, NotFoundTold, UpdateTold, PutTold

LEMMA UpdateKept ==
    ASSUME Base, Kept, NEW r \in Reqs, UpdateRow(r) \/ UpdateReadsDrills(r)
    PROVE  Kept' /\ AnswersAreTrue'
<1>1. /\ pc[r] \in {"update", "update_read"} /\ drills' = drills /\ prep' = prep
      /\ writes' = writes /\ DrillsMove(r)
  BY Still DEF UpdateRow, UpdateReadsDrills
<1>2. KeptOf(r) /\ req[r] \in Requests /\ writes \in Nat /\ TypeOK
  BY Has
<1>3. req[r].op = "update" /\ req[r].p \in Preps
  BY <1>1, <1>2, ReqHas DEF KeptOf, OpOK, ShapeOf, Locked
<1>4. CASE UpdateRow(r) /\ ~Live(req[r].p)
  <2>1. told'.code = "not_found" /\ told'.req = req[r] /\ Kept'
    BY <1>1, <1>2, <1>4, AnswerKept DEF UpdateRow, Codes
  <2> QED
    BY <1>1, <1>3, <1>4, <2>1, RowNotFound DEF Live
<1>5. CASE UpdateRow(r) /\ Live(req[r].p)
  <2> DEFINE n == Patched(prep[req[r].p], req[r].patch)
             x == [req[r] EXCEPT !.row = n]
  <2>1. Goto(r, "update_read", x)
    BY <1>5 DEF UpdateRow
  <2>2. prep[req[r].p] \in PrepRows
    BY <1>2, <1>3 DEF TypeOK
  <2>3. n \in PrepRows
    <3> DEFINE b == prep[req[r].p].note \/ req[r].patch = "text"
    <3>1. b \in BOOLEAN
      OBVIOUS
    <3>2. n = [prep[req[r].p] EXCEPT !.note = b]
      BY Zenon DEF Patched
    <3> HIDE DEF b, n
    <3> QED
      BY <2>2, <3>1, <3>2 DEF PrepRows
  <2> HIDE DEF n
  <2>4. x \in Requests /\ x.op = "update"
    BY <1>2, <1>3, <2>3 DEF Requests
  <2> HIDE DEF x
  <2>5. pc'[r] = "update_read" /\ req'[r] = x => KeptOf(r)'
    BY <2>4 DEF KeptOf, OpOK, GoneOK, SeenOK, Reading
  <2> QED
    BY <1>1, <1>2, <2>1, <2>4, <2>5, GoesKept DEF Pcs, Writing
<1>6. CASE UpdateReadsDrills(r)
  <2> DEFINE x == [req[r] EXCEPT !.found = {req[r].p}, !.rows = QueueOf(req[r].p)]
  <2>1. Goto(r, "update_commit", x)
    BY <1>6 DEF UpdateReadsDrills
  <2>2. x \in Requests /\ x.op = "update" /\ x.p = req[r].p /\ x.found = {req[r].p}
        /\ x.rows = QueueOf(req[r].p)
    BY <1>2, <1>3 DEF Requests, QueueOf, TypeOK
  <2> HIDE DEF x
  <2>3. pc'[r] = "update_commit" /\ req'[r] = x => KeptOf(r)'
    BY <1>1, <2>2 DEF KeptOf, OpOK, GoneOK, SeenOK, Reading, QueueOf
  <2> QED
    BY <1>1, <1>2, <2>1, <2>2, <2>3, GoesKept DEF Pcs, Writing
<1> QED
  BY <1>4, <1>5, <1>6

LEMMA UpdateCommitsKept ==
    ASSUME Base, Kept, NEW r \in Reqs, UpdateCommits(r) PROVE Kept' /\ AnswersAreTrue'
<1>1. /\ pc[r] = "update_commit" /\ drills' = drills /\ writes' = writes /\ DrillsMove(r)
      /\ prep' = [prep EXCEPT ![req[r].p] = req[r].row]
  BY Still DEF UpdateCommits
<1>2. KeptOf(r) /\ req[r] \in Requests /\ TypeOK /\ ShapeOf(r)
  BY Has
<1>3. req[r].op = "update" /\ req[r].p \in Preps /\ IdsOf(req[r].rows) = IdsOf(QueueOf(req[r].p))
  BY <1>1, <1>2 DEF KeptOf, OpOK, SeenOK, ShapeOf, Locked
<1>4. CASE Answer(r, "ok", req[r])
  <2>1. Kept' /\ told'.code = "ok" /\ told'.req = req[r]
    BY <1>1, <1>2, <1>4, AnswerKept DEF Codes
  <2>2. prep'[req[r].p] = req[r].row
    BY <1>1, <1>2, <1>3 DEF TypeOK
  <2> QED
    BY <1>1, <1>3, <2>1, <2>2
    DEF AnswersAreTrue, NotFoundTold, UpdateTold, PutTold, IdsOf, QueueOf
<1>5. CASE Answer(r, "error", NoRequest)
  BY <1>1, <1>5, ErrorTold
<1> QED
  BY <1>4, <1>5 DEF UpdateCommits

LEMMA PutKept ==
    ASSUME Base, Kept, NEW r \in Reqs, PutLocks(r) \/ PutDeletes(r) PROVE Kept' /\ AnswersAreTrue'
<1>1. /\ pc[r] \in {"put", "put_delete"} /\ drills' = drills /\ prep' = prep
      /\ writes' = writes /\ DrillsMove(r)
  BY Still DEF PutLocks, PutDeletes
<1>2. KeptOf(r) /\ req[r] \in Requests /\ writes \in Nat /\ TypeOK
  BY Has
<1>3. req[r].op = "put" /\ req[r].p \in Preps /\ pc[r] \in Writing
  BY <1>1, <1>2, ReqHas DEF KeptOf, OpOK, ShapeOf, Locked, Writing
<1>4. CASE PutLocks(r) /\ ~Live(req[r].p)
  <2>1. told'.code = "not_found" /\ told'.req = req[r] /\ Kept'
    BY <1>1, <1>2, <1>4, AnswerKept DEF PutLocks, Codes
  <2> QED
    BY <1>1, <1>3, <1>4, <2>1, RowNotFound DEF Live
<1>5. CASE PutLocks(r) /\ Live(req[r].p)
  <2>1. Goto(r, "put_delete", req[r])
    BY <1>5 DEF PutLocks
  <2>2. pc'[r] = "put_delete" /\ req'[r] = req[r] => KeptOf(r)'
    BY <1>3 DEF KeptOf, OpOK, GoneOK, SeenOK, Reading
  <2> QED
    BY <1>1, <1>2, <1>3, <2>1, <2>2, GoesKept DEF Pcs
<1>6. CASE PutDeletes(r)
  <2> DEFINE x == [req[r] EXCEPT !.old = QueueOf(req[r].p)]
  <2>1. Goto(r, "put_commit", x)
    BY <1>6 DEF PutDeletes
  <2>2. x \in Requests /\ x.op = "put" /\ x.write = req[r].write
    BY <1>2, <1>3 DEF Requests, QueueOf, TypeOK
  <2> HIDE DEF x
  <2>3. pc'[r] = "put_commit" /\ req'[r] = x => KeptOf(r)'
    BY <2>2 DEF KeptOf, OpOK, GoneOK, SeenOK, Reading
  <2> QED
    BY <1>1, <1>2, <1>3, <2>1, <2>2, <2>3, GoesKept DEF Pcs
<1> QED
  BY <1>4, <1>5, <1>6

\* The queue that is replaced is the one whose lock the request has, and no drill of
\* it is one of another preparation or of a write that is still to come.
LEMMA PutCommitsKept ==
    ASSUME Base, Kept, NEW r \in Reqs, PutCommits(r) PROVE Kept' /\ AnswersAreTrue'
<1> DEFINE p == req[r].p
           N == NewQueue(req[r].write, req[r].p, req[r].queue)
<1>1. /\ pc[r] = "put_commit" /\ drills' = (drills \ req[r].old) \cup N /\ writes' = writes
  BY DEF PutCommits
<1>2. KeptOf(r) /\ req[r] \in Requests /\ writes \in Nat /\ TypeOK /\ ShapeOf(r) /\ WritesApart
  BY Has
<1>3. /\ pc[r] \in Locked /\ pc[r] \in Writing /\ p \in Preps /\ req[r].old = QueueOf(p)
      /\ req[r].op = "put"
      /\ req[r].write \in 1..MaxWrites /\ req[r].queue \in Queues
      /\ \A d \in drills : d.id[1] # req[r].write
  BY <1>1, <1>2, PrepAssumption DEF KeptOf, OpOK, ShapeOf, Locked, Writing, Requests, TypeOK
<1>4. \A d \in N : d.of = p /\ d.id[1] = req[r].write
  BY <1>3, NewQueueOK
<1> HIDE DEF N
<1>5. DrillsMove(r)
  <2>1. \A d \in drills' : d \in drills \/ (pc[r] \in Writing /\ d.id[1] = req[r].write /\ d.of = p)
    BY <1>1, <1>3, <1>4
  <2>2. lock[p] = r
    BY <1>3 DEF Base, LocksOK
  <2>3. \A o \in Preps : o # p => {d \in drills' : d.of = o} = QueueOf(o)
    BY <1>1, <1>3, <1>4 DEF QueueOf
  <2> QED
    BY <2>1, <2>2, <2>3 DEF DrillsMove
<1>6. CASE Goto(r, "read", req[r])
  <2>1. Others(r) /\ pc'[r] = "read" /\ req'[r] = req[r]
    BY <1>2, <1>6, GotoFacts DEF Pcs
  <2>2. ASSUME NEW e \in req[r].old
        PROVE  /\ e.id[1] <= writes
               /\ \A s \in Reqs : pc'[s] \in Writing => req'[s].write # e.id[1]
               /\ \A d \in drills' : d.id # e.id
    <3>1. e \in drills /\ e.of = p
      BY <1>3, <2>2 DEF QueueOf
    <3>2. e.id[1] <= writes
      BY <3>1 DEF Base, RowsOK
    <3>3. ASSUME NEW s \in Reqs, pc'[s] \in Writing PROVE req'[s].write # e.id[1]
      <4>1. s # r /\ pc[s] \in Writing /\ req'[s] = req[s]
        BY <2>1, <3>3 DEF Others, Writing
      <4> QED
        BY <3>1, <4>1 DEF Base, Shape, ShapeOf
    <3>4. ASSUME NEW d \in drills' PROVE d.id # e.id
      <4>1. CASE d \in N
        BY <1>3, <1>4, <3>1, <4>1
      <4>2. CASE d \in drills /\ d.of # p
        BY <1>2, <3>1, <4>2 DEF WritesApart
      <4> QED
        BY <1>1, <1>3, <4>1, <4>2 DEF QueueOf
    <3> QED
      BY <3>2, <3>3, <3>4
  <2>3. KeptOf(r)'
    <3>1. GoneOK(r)'
      BY <1>1, <2>1, <2>2 DEF GoneOK
    <3> QED
      BY <1>3, <2>1, <3>1 DEF KeptOf, OpOK, SeenOK, Reading
  <2> QED
    BY <1>1, <1>2, <1>5, <1>6, <2>3, GoesKept DEF Pcs, Writing
<1>7. CASE Answer(r, "error", NoRequest)
  BY <1>1, <1>5, <1>7, ErrorTold
<1> QED
  BY <1>6, <1>7 DEF PutCommits

LEMMA ToggleKept ==
    ASSUME Base, Kept, NEW r \in Reqs, SetDrillCompleted(r) PROVE Kept' /\ AnswersAreTrue'
<1> DEFINE i == req[r].id
           T == {d \in drills : d.id = i}
           c == IF T = {} THEN "not_found" ELSE "ok"
<1>1. /\ pc[r] = "toggle" /\ writes' = writes
      /\ drills' = (drills \ T) \cup {[d EXCEPT !.done = req[r].done] : d \in T}
      /\ Answer(r, c, req[r])
  BY DEF SetDrillCompleted
<1>2. KeptOf(r) /\ req[r] \in Requests /\ TypeOK /\ req[r].op = "toggle"
  BY <1>1, Has DEF KeptOf, OpOK
<1>3. \A d \in drills : [d EXCEPT !.done = req[r].done].id = d.id
                        /\ [d EXCEPT !.done = req[r].done].of = d.of
  BY <1>2 DEF TypeOK, Drills
<1>4. \A d \in drills' : \E e \in drills : e.id = d.id /\ e.of = d.of
  BY <1>1, <1>3
<1>5. \A e \in drills : \E d \in drills' : e.id = d.id /\ e.of = d.of
  BY <1>1, <1>3
<1>6. DrillsMove(r)
  <2>1. \A o \in Preps : IdsOf({d \in drills' : d.of = o}) = IdsOf({d \in drills : d.of = o})
    BY <1>4, <1>5 DEF IdsOf
  <2> QED
    BY <1>4, <2>1 DEF DrillsMove, QueueOf
<1>7. Kept' /\ told'.code = c /\ told'.req = req[r]
  BY <1>1, <1>2, <1>6, AnswerKept DEF Codes
<1>8. CASE T = {}
  <2>1. \A d \in drills' : d.id # req[r].id
    BY <1>4, <1>8
  <2>2. told'.code = "not_found" /\ told'.req.op = "toggle" /\ told'.req.id = req[r].id
    BY <1>2, <1>7, <1>8
  <2> QED
    BY <1>7, <2>1, <2>2 DEF AnswersAreTrue, NotFoundTold, UpdateTold, PutTold
<1>9. CASE T # {}
  BY <1>2, <1>7, <1>9, OtherOK
<1> QED
  BY <1>8, <1>9

LEMMA DeleteKept ==
    ASSUME Base, Kept, NEW r \in Reqs, Delete(r) PROVE Kept' /\ AnswersAreTrue'
<1> DEFINE p == req[r].p
<1>1. pc[r] = "delete" /\ lock[p] = NoReq /\ writes' = writes
  BY DEF Delete
<1>2. KeptOf(r) /\ req[r] \in Requests /\ TypeOK /\ req[r].op = "delete" /\ p \in Preps
  BY <1>1, Has DEF KeptOf, OpOK, ShapeOf
<1>3. CASE ~Live(p)
  <2>1. Answer(r, "not_found", req[r]) /\ prep' = prep /\ drills' = drills
    BY <1>3 DEF Delete
  <2>2. told'.code = "not_found" /\ told'.req = req[r] /\ Kept'
    BY <1>1, <1>2, <2>1, Still, AnswerKept DEF Codes
  <2> QED
    BY <1>2, <1>3, <2>1, <2>2, RowNotFound DEF Live
<1>4. CASE Live(p)
  <2>1. Answer(r, "ok", req[r]) /\ drills' = drills \ QueueOf(p)
    BY <1>4 DEF Delete
  <2>2. DrillsMove(r)
    <3>1. \A o \in Preps : o # p => {d \in drills' : d.of = o} = QueueOf(o)
      BY <2>1 DEF QueueOf
    <3> QED
      BY <1>1, <2>1, <3>1 DEF DrillsMove
  <2>3. told'.code = "ok" /\ told'.req = req[r] /\ Kept'
    BY <1>1, <1>2, <2>1, <2>2, AnswerKept DEF Codes
  <2> QED
    BY <1>2, <2>3, OtherOK
<1> QED
  BY <1>3, <1>4

LEMMA KeptNext == ASSUME Base, Kept, AnswersAreTrue, [Next]_vars PROVE Kept' /\ AnswersAreTrue'
<1>1. CASE UNCHANGED vars
  <2>1. /\ prep' = prep /\ drills' = drills /\ writes' = writes
        /\ pc' = pc /\ req' = req /\ told' = told
    BY <1>1 DEF vars
  <2>2. Kept'
    <3>1. ASSUME NEW r \in Reqs PROVE KeptOf(r)'
      <4>1. OpOK(r) /\ GoneOK(r) /\ SeenOK(r)
        BY DEF Kept, KeptOf
      <4>2. OpOK(r)'
        BY <2>1, <4>1 DEF OpOK
      <4>3. GoneOK(r)'
        BY <2>1, <4>1 DEF GoneOK
      <4>4. SeenOK(r)'
        BY <2>1, <4>1 DEF SeenOK, QueueOf
      <4> QED
        BY <4>2, <4>3, <4>4 DEF KeptOf
    <3>2. WritesApart'
      BY <2>1 DEF Kept, WritesApart
    <3> QED
      BY <3>1, <3>2 DEF Kept
  <2>3. NotFoundTold' /\ UpdateTold' /\ PutTold'
    BY <2>1 DEF AnswersAreTrue, NotFoundTold, UpdateTold, PutTold, Live, QueueOf
  <2> QED
    BY <2>2, <2>3 DEF AnswersAreTrue
<1>2. ASSUME NEW r \in Reqs, Step(r) PROVE Kept' /\ AnswersAreTrue'
  BY <1>2, CreateKept, ReadPrepsKept, ReadDrillsKept, UpdateKept, UpdateCommitsKept, PutKept,
     PutCommitsKept, ToggleKept, DeleteKept DEF Step
<1>3. ASSUME NEW r \in Reqs, Fail(r) PROVE Kept' /\ AnswersAreTrue'
  BY <1>3, Still, ErrorTold DEF Fail
<1> QED
  BY <1>1, <1>2, <1>3, ArriveKept DEF Next

\* No handler answers "not found" of what is there, Update tells the queue it
\* committed with, and a PUT never the one it replaced, for any number of requests.
THEOREM AnswersTrue == Spec => []AnswersAreTrue
<1>1. Init => Base /\ Kept /\ AnswersAreTrue
  <2> SUFFICES ASSUME Init PROVE Base /\ Kept /\ AnswersAreTrue
    OBVIOUS
  <2>1. told.code = "none" /\ drills = {} /\ \A r \in Reqs : pc[r] = "idle"
    BY DEF Init, NoAnswer
  <2> QED
    BY <2>1, InitBase DEF Kept, WritesApart, KeptOf, OpOK, GoneOK, SeenOK, Reading,
       AnswersAreTrue, NotFoundTold, UpdateTold, PutTold
<1>2. Base /\ Kept /\ AnswersAreTrue /\ [Next]_vars => (Base /\ Kept /\ AnswersAreTrue)'
  BY NextBase, KeptNext
<1> QED
  BY <1>1, <1>2, PTL DEF Spec

-----------------------------------------------------------------------------
(* Percentages.                                                            *)

\* The rounding of model.go:53 shows 100 only for n of n, for fewer than 200 drills: a
\* queue has at most 20 (validateDrills).
LEMMA Hundred ==
    ASSUME NEW n \in 0..199, NEW done \in 0..n
    PROVE  computePreparationPct(done, n) = 100 <=> n # 0 /\ done = n
<1>1. CASE n = 0
  BY <1>1 DEF computePreparationPct
<1>2. CASE n # 0
  <2> DEFINE h == n \div 2
  <2>1. h \in Int /\ 0 <= h /\ h < n /\ h < 100
    BY <1>2
  <2>2. computePreparationPct(done, n) = (done * 100 + h) \div n
    BY <1>2 DEF computePreparationPct
  <2> HIDE DEF h
  <2>3. ASSUME NEW m \in Int PROVE m \div n = 100 <=> 100 * n <= m /\ m < 101 * n
    <3> DEFINE k == m \div n
               t == m % n
    <3>1. k \in Int /\ t \in 0..(n - 1) /\ m = n * k + t
      BY <1>2
    <3> HIDE DEF k, t
    <3>2. k >= 101 => n * k >= n * 101
      BY <1>2, <3>1
    <3>3. k <= 99 => n * k <= n * 99
      BY <1>2, <3>1
    <3>4. k = 100 <=> 100 * n <= m /\ m < 101 * n
      BY <1>2, <3>1, <3>2, <3>3
    <3> QED
      BY <3>4 DEF k
  <2>4. done * 100 + h \in Int
    BY <2>1
  <2>5. computePreparationPct(done, n) = 100
          <=> 100 * n <= done * 100 + h /\ done * 100 + h < 101 * n
    BY <2>2, <2>3, <2>4
  <2>6. CASE done = n
    <3>1. 100 * n <= n * 100 + h /\ n * 100 + h < 101 * n
      BY <1>2, <2>1
    <3> QED
      BY <1>2, <2>5, <2>6, <3>1
  <2>7. CASE done # n
    <3>1. done <= n - 1
      BY <2>7
    <3> QED
      BY <2>1, <2>5, <2>7, <3>1
  <2> QED
    BY <2>6, <2>7
<1> QED
  BY <1>1, <1>2

\* The drills of one preparation are told apart by their places.
LEMMA QueueFits ==
    ASSUME NEW D \in SUBSET Drills, OneQueue(D), \A d, e \in D : d.of = e.of
    PROVE  IsFiniteSet(D) /\ Cardinality(D) \in 0..MaxQueue
<1> DEFINE f == [d \in D |-> d.id[2]]
<1>1. \A d \in D : d.id \in Ids
  BY DEF Drills
<1>2. f \in [D -> 1..MaxQueue]
  BY <1>1 DEF Ids
<1>3. ASSUME NEW d \in D, NEW e \in D, f[d] = f[e] PROVE d = e
  <2>1. d.id[1] = e.id[1]
    BY DEF OneQueue
  <2>2. d.id = e.id
    BY <1>1, <1>3, <2>1 DEF Ids
  <2> QED
    BY <2>2 DEF OneQueue
<1>4. f \in Injection(D, 1..MaxQueue)
  BY <1>2, <1>3 DEF Injection, IsInjective
<1> HIDE DEF f
<1>5. MaxQueue \in Nat /\ 1 \in Int
  BY PrepAssumption
<1>6. IsFiniteSet(1..MaxQueue) /\ Cardinality(1..MaxQueue) <= MaxQueue
  BY <1>5, FS_Interval
<1>7. IsFiniteSet(D) /\ Cardinality(D) <= Cardinality(1..MaxQueue)
  BY <1>4, <1>6, FS_Injection
<1>8. Cardinality(D) \in Nat /\ Cardinality(1..MaxQueue) \in Nat
  BY <1>6, <1>7, FS_CardinalityType
<1> QED
  BY <1>5, <1>6, <1>7, <1>8

LEMMA PctHundred ==
    ASSUME NEW D \in SUBSET Drills, OneQueue(D), \A d, e \in D : d.of = e.of
    PROVE  PctOf(D) = 100 <=> D # {} /\ \A d \in D : d.done
<1> DEFINE F == {d \in D : d.done}
           n == Cardinality(D)
           m == Cardinality(F)
<1>1. IsFiniteSet(D) /\ n \in 0..MaxQueue
  BY QueueFits
<1>2. F \in SUBSET D
  OBVIOUS
<1>3. IsFiniteSet(F) /\ m <= n /\ (n = m => D = F)
  BY <1>1, <1>2, FS_Subset
<1>4. m \in Nat
  BY <1>3, FS_CardinalityType
<1>5. n \in 0..199 /\ m \in 0..n
  BY <1>1, <1>3, <1>4, PrepAssumption
<1>6. D # {} <=> n # 0
  BY <1>1, FS_EmptySet
<1>7. m = n <=> \A d \in D : d.done
  <2>1. (\A d \in D : d.done) => F = D
    OBVIOUS
  <2> QED
    BY <1>3, <2>1
<1> HIDE DEF n, m
<1>8. computePreparationPct(m, n) = 100 <=> n # 0 /\ m = n
  BY <1>5, Hundred
<1>9. PctOf(D) = computePreparationPct(m, n)
  BY DEF PctOf, n, m
<1> QED
  BY <1>6, <1>7, <1>8, <1>9

\* The answer of a handler, with the percentages it computes.
Saying(c, q) == [code |-> c, req |-> q,
    pct |-> [p \in q.found |-> PctOf({d \in q.rows : d.of = p})]]

LEMMA Says ==
    ASSUME [Next]_vars
    PROVE  told' \in {told, NoAnswer} \/ \E c, q : told' = Saying(c, q)
<1>1. ASSUME NEW r, NEW l, NEW q, Goto(r, l, q) PROVE told' = NoAnswer
  BY <1>1 DEF Goto
<1>2. ASSUME NEW r, NEW c, NEW q, Answer(r, c, q) PROVE told' = Saying(c, q)
  BY <1>2 DEF Answer, Saying
<1>3. ASSUME NEW r \in Reqs, Arrive(r) PROVE told' = NoAnswer
  BY <1>1, <1>3 DEF Arrive, BeginCreate, BeginRead, BeginUpdate, BeginReplace, BeginToggle,
     BeginDelete, Begin
<1>4. ASSUME NEW r \in Reqs, Fail(r) PROVE told' = Saying("error", NoRequest)
  BY <1>2, <1>4 DEF Fail
<1>5. ASSUME NEW r \in Reqs, Step(r) PROVE told' = NoAnswer \/ \E c, q : told' = Saying(c, q)
  <2>1. CASE Create(r) \/ ReadPreps(r) \/ ReadDrills(r)
    BY <1>1, <1>2, <2>1 DEF Create, ReadPreps, ReadDrills
  <2>2. CASE UpdateRow(r) \/ UpdateReadsDrills(r) \/ UpdateCommits(r)
    BY <1>1, <1>2, <2>2 DEF UpdateRow, UpdateReadsDrills, UpdateCommits
  <2>3. CASE PutLocks(r) \/ PutDeletes(r) \/ PutCommits(r)
    BY <1>1, <1>2, <2>3 DEF PutLocks, PutDeletes, PutCommits
  <2>4. CASE SetDrillCompleted(r)
    BY <1>2, <2>4 DEF SetDrillCompleted
  <2>5. CASE Delete(r)
    BY <1>2, <2>5 DEF Delete
  <2> QED
    BY <1>5, <2>1, <2>2, <2>3, <2>4, <2>5 DEF Step
<1>6. CASE UNCHANGED vars
  BY <1>6 DEF vars
<1> QED
  BY <1>3, <1>4, <1>5, <1>6 DEF Next

LEMMA PctNext == ASSUME PctTold, [Next]_vars PROVE PctTold'
<1>1. CASE told' = told
  BY <1>1 DEF PctTold
<1>2. CASE told' = NoAnswer
  BY <1>2 DEF PctTold, NoAnswer, NoRequest
<1>3. ASSUME NEW c, NEW q, told' = Saying(c, q) PROVE PctTold'
  BY <1>3 DEF PctTold, Saying
<1> QED
  BY <1>1, <1>2, <1>3, Says

\* With queues of at most 20 drills a preparation is told to be 100% ready exactly
\* when there are drills and all of them are done, however the reads interleaved.
THEOREM HundredTrue == Spec => []HundredMeansDone
<1>1. Init => PctTold
  BY DEF Init, PctTold, NoAnswer, NoRequest
<1>2. PctTold /\ [Next]_vars => PctTold'
  BY PctNext
<1>3. Base /\ PctTold => HundredMeansDone
  <2> SUFFICES ASSUME Base, PctTold, NEW p \in told.req.found
               PROVE  LET D == {d \in told.req.rows : d.of = p}
                      IN told.pct[p] = 100 <=> D # {} /\ \A d \in D : d.done
    BY DEF HundredMeansDone
  <2> DEFINE D == {d \in told.req.rows : d.of = p}
  <2>1. told.req.rows \subseteq Drills /\ OneQueue(told.req.rows)
    BY DEF Base, TypeOK, RowsOK, QueueIsOneWrite, Requests
  <2>2. D \in SUBSET Drills /\ OneQueue(D) /\ \A d, e \in D : d.of = e.of
    <3>1. D = {d \in told.req.rows : d.of \in {p}}
      OBVIOUS
    <3>2. OneQueue(D)
      BY <2>1, <3>1, PartOK
    <3> QED
      BY <2>1, <3>2
  <2>3. told.pct[p] = PctOf(D)
    BY DEF PctTold
  <2> HIDE DEF D
  <2>4. told.pct[p] = 100 <=> D # {} /\ \A d \in D : d.done
    BY <2>2, <2>3, PctHundred
  <2> QED
    BY <2>4 DEF D
<1> QED
  BY <1>1, <1>2, <1>3, Invariant, PTL DEF Spec
=============================================================================
