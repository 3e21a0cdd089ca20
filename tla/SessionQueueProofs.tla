------------------------- MODULE SessionQueueProofs -------------------------
(***************************************************************************)
(* Theorems about SessionQueue, for any messages, tabs, replies, Runs and   *)
(* orders of the requests.                                                 *)
(***************************************************************************)
EXTENDS SessionQueue, FiniteSetTheorems, SequenceTheorems, TLAPS

-----------------------------------------------------------------------------
(* The invariant.                                                          *)

\* Table queued_messages has the form it has.
Rows(it) == it \in [Messages -> ItemRow \cup {None}]

\* The n rows of a session have the positions 0, ..., n-1, each once.
Dense(it, s, n) ==
    /\ \A m \in In(it, s) : it[m].pos \in 0..(n - 1)
    /\ \A m1, m2 \in In(it, s) : it[m1].pos = it[m2].pos => m1 = m2
    /\ \A k \in 0..(n - 1) : \E m \in In(it, s) : it[m].pos = k

AllDense(it) == \A s \in Sessions : \E n \in Nat : Dense(it, s, n)

Lists(it) == Rows(it) /\ AllDense(it)

\* The rows of a queue are the messages that wait in one.
Placed(it, pl) ==
    /\ pl \in [Messages -> {"new", "steer", "applied", "queued", "run", "receipt", "deleted"}]
    /\ \A m \in Messages : pl[m] = "queued" <=> it[m] # None

\* A steer is kept once, for one Run, which works or is fenced in a session.
SteersTrue(pl, rr) ==
    /\ \A r \in Runs : rr[r].steers # <<>> =>
            rr[r].session # None /\ rr[r].status \in {"running", "needs_reconciliation"}
    /\ \A r \in Runs : \A k \in DOMAIN rr[r].steers : pl[rr[r].steers[k]] = "steer"
    /\ \A r1, r2 \in Runs : \A k1 \in DOMAIN rr[r1].steers, k2 \in DOMAIN rr[r2].steers :
            rr[r1].steers[k1] = rr[r2].steers[k2] => r1 = r2 /\ k1 = k2

\* A message is a Run when it has become one, and not before.
StartedOnce(pl, rr) == \A m \in Messages : rr[m].status # "absent" <=> pl[m] = "run"

\* OneRootPerScope, of any Runs.
ScopesTrue(rr) ==
    \A r1, r2 \in Runs :
        /\ {rr[r1].status, rr[r2].status} \subseteq Live
        /\ rr[r1].plan = rr[r2].plan
        /\ rr[r1].plan = None => rr[r1].session = rr[r2].session
        => r1 = r2

\* A Run that answers works in the session and the plan of what it answers, which
\* stays open for it, or has been answered by a receipt, or was answered before the
\* message was edited.
ReplyTrue(rr, ivs) ==
    \A r \in Runs : rr[r].reply # None =>
        /\ rr[r].session = SessionOf[rr[r].reply]
        /\ rr[r].plan = PlanOf[rr[r].session]
        /\ rr[r].status \in Live => ivs[rr[r].reply] \in {"replied", "receipt"} \/ rr[r].edit

\* AnswersAgree, of any Runs and interventions.
AnswersTrue(rr, ivs) ==
    /\ \A r \in Runs : rr[r].status \in Ended /\ rr[r].reply # None
                            => ivs[rr[r].reply] = rr[r].status
    /\ \A i \in Interventions : ivs[i] \in Ended =>
            \E r \in Runs : rr[r].reply = i /\ rr[r].status = ivs[i]

Replied(rr, ivs) ==
    /\ rr \in [Runs -> RunRow]
    /\ ivs \in [Interventions -> Open \cup Ended \cup {"receipt"}]
    /\ ScopesTrue(rr) /\ ReplyTrue(rr, ivs) /\ AnswersTrue(rr, ivs)

\* What the transactions keep true of the tables, one after the other.
World(it, pl, rr, ivs) ==
    /\ Lists(it) /\ Placed(it, pl) /\ SteersTrue(pl, rr) /\ StartedOnce(pl, rr)
    /\ Replied(rr, ivs)

\* A row that is still in the version a tab has seen is where the tab saw it.
ViewTrue(it, pl, vw) ==
    \A t \in Tabs : vw[t] # None =>
        /\ pl[vw[t].id] \in {"queued", "run", "deleted"}
        /\ it[vw[t].id] # None =>
             \/ it[vw[t].id].version > vw[t].row.version
             \/ /\ it[vw[t].id].version = vw[t].row.version
                /\ it[vw[t].id].pos = vw[t].row.pos
                /\ it[vw[t].id].text = vw[t].row.text

Inv ==
    /\ World(item, place, run, iv)
    /\ view \in [Tabs -> Seen \cup {None}] /\ ViewTrue(item, place, view)
    /\ archived \subseteq Sessions \cup Plans /\ archiving \subseteq Sessions \cup Plans
    /\ raised \in {"none", "intervention", "foreign_key"}

\* A message that has been queued is never queued again, and its row, as long as it
\* stays, is the same or has a later version.
Later(it, pl, it2, pl2) ==
    \A m \in Messages : pl[m] \in {"queued", "run", "deleted"} =>
        /\ pl2[m] \in {"queued", "run", "deleted"}
        /\ it2[m] # None =>
             it[m] # None /\ (it2[m] = it[m] \/ it2[m].version > it[m].version)

-----------------------------------------------------------------------------
(* Rows.                                                                   *)

\* The fields of a row.
LEMMA RowFields ==
    ASSUME NEW x \in ItemRow
    PROVE  /\ x # None
           /\ x.session \in Sessions /\ x.reply \in Interventions \cup {None}
           /\ x.mode \in {"normal", "read_only"} /\ x.mail \in BOOLEAN
           /\ x.pos \in Nat /\ x.version \in Nat /\ x.text \in Nat
BY NoneIsNoRow DEF ItemRow

\* A row in a queue.
LEMMA RowIn ==
    ASSUME NEW it, Rows(it), NEW m \in Messages, it[m] # None
    PROVE  /\ it[m] \in ItemRow
           /\ it[m].session \in Sessions /\ it[m].reply \in Interventions \cup {None}
           /\ it[m].mode \in {"normal", "read_only"} /\ it[m].mail \in BOOLEAN
           /\ it[m].pos \in Nat /\ it[m].version \in Nat /\ it[m].text \in Nat
<1>1. it[m] \in ItemRow  BY DEF Rows
<1> QED  BY <1>1, RowFields

\* A new row.
LEMMA RowMade ==
    ASSUME NEW s \in Sessions, NEW i \in Interventions \cup {None},
           NEW mode \in {"normal", "read_only"}, NEW mail \in BOOLEAN, NEW pos \in Nat
    PROVE  /\ Row(s, i, mode, mail, pos) \in ItemRow
           /\ Row(s, i, mode, mail, pos) # None
           /\ Row(s, i, mode, mail, pos).session = s
           /\ Row(s, i, mode, mail, pos).pos = pos
<1>1. Row(s, i, mode, mail, pos) \in ItemRow  BY DEF Row, ItemRow
<1> QED  BY <1>1, RowFields DEF Row

\* A row that gets another position and version.
LEMMA RowMoved ==
    ASSUME NEW x \in ItemRow, NEW pos \in Nat
    PROVE  /\ [x EXCEPT !.pos = pos] \in ItemRow
           /\ [x EXCEPT !.pos = pos] # None
           /\ [x EXCEPT !.pos = pos].session = x.session
           /\ [x EXCEPT !.pos = pos].pos = pos
           /\ [x EXCEPT !.pos = pos].version = x.version
           /\ [x EXCEPT !.version = @ + 1] \in ItemRow
           /\ [x EXCEPT !.version = @ + 1] # None
           /\ [x EXCEPT !.version = @ + 1].session = x.session
           /\ [x EXCEPT !.version = @ + 1].pos = x.pos
           /\ [x EXCEPT !.version = @ + 1].version = x.version + 1
<1>1. [x EXCEPT !.pos = pos] \in ItemRow  BY DEF ItemRow
<1>2. [x EXCEPT !.version = @ + 1] \in ItemRow  BY DEF ItemRow
<1>3. /\ [x EXCEPT !.pos = pos].session = x.session
      /\ [x EXCEPT !.pos = pos].pos = pos
      /\ [x EXCEPT !.pos = pos].version = x.version
      /\ [x EXCEPT !.version = @ + 1].session = x.session
      /\ [x EXCEPT !.version = @ + 1].pos = x.pos
      /\ [x EXCEPT !.version = @ + 1].version = x.version + 1
  BY DEF ItemRow
<1> QED  BY <1>1, <1>2, <1>3, RowFields

\* The rows of a session are messages with a row that names it.
LEMMA InRows ==
    ASSUME NEW it, Rows(it), NEW s, NEW m \in In(it, s)
    PROVE  m \in Messages /\ it[m] # None /\ it[m].session = s /\ it[m] \in ItemRow
           /\ it[m].pos \in Nat
<1>1. m \in Messages /\ it[m] # None /\ it[m].session = s  BY DEF In
<1> QED  BY <1>1, RowIn

\* The rows of a session are finitely many.
LEMMA InFinite ==
    ASSUME NEW it, NEW s
    PROVE  IsFiniteSet(In(it, s)) /\ Cardinality(In(it, s)) \in Nat
<1>1. In(it, s) \in SUBSET Messages  BY DEF In
<1>2. IsFiniteSet(In(it, s))  BY <1>1, FS_Subset, MessagesAssumption
<1> QED  BY <1>2, FS_CardinalityType

-----------------------------------------------------------------------------
(* Positions.                                                              *)

\* n dense rows are n rows at 0, ..., n-1.
LEMMA DenseCount ==
    ASSUME NEW it, Rows(it), NEW s, NEW n \in Nat, Dense(it, s, n)
    PROVE  /\ Cardinality(In(it, s)) = n
           /\ Positions(it, s) = 0..(n - 1)
<1> DEFINE f == [m \in In(it, s) |-> it[m].pos]
<1>1. f \in Bijection(In(it, s), 0..(n - 1))
  <2>1. f \in [In(it, s) -> 0..(n - 1)]  BY DEF Dense
  <2>2. \A a, b \in In(it, s) : f[a] = f[b] => a = b  BY DEF Dense
  <2>3. \A k \in 0..(n - 1) : \E a \in In(it, s) : f[a] = k  BY DEF Dense
  <2> HIDE DEF f
  <2>4. f \in Injection(In(it, s), 0..(n - 1))  BY <2>1, <2>2 DEF Injection, IsInjective
  <2>5. f \in Surjection(In(it, s), 0..(n - 1))  BY <2>1, <2>3 DEF Surjection
  <2> QED  BY <2>4, <2>5 DEF Bijection
<1>2. ExistsBijection(In(it, s), 0..(n - 1))  BY <1>1 DEF ExistsBijection
<1>3. Cardinality(0..(n - 1)) = Cardinality(In(it, s))
  BY <1>2, InFinite, FS_Bijection
<1>4. Cardinality(0..(n - 1)) = n
  <2>1. 0 \in Int /\ n - 1 \in Int  OBVIOUS
  <2>2. Cardinality(0..(n - 1)) = IF 0 > n - 1 THEN 0 ELSE (n - 1) - 0 + 1
    BY <2>1, FS_Interval
  <2> QED  BY <2>2
<1>5. Positions(it, s) = 0..(n - 1)  BY DEF Positions, Dense
<1> QED  BY <1>3, <1>4, <1>5

\* The largest of 0, ..., n-1.
LEMMA MaxTo ==
    ASSUME NEW n \in Nat, n # 0
    PROVE  Max(0..(n - 1)) = n - 1
<1>1. n - 1 \in 0..(n - 1) /\ \A y \in 0..(n - 1) : n - 1 >= y  OBVIOUS
<1>2. \A x \in 0..(n - 1) : (\A y \in 0..(n - 1) : x >= y) => x = n - 1  BY <1>1
<1> QED  BY <1>1, <1>2 DEF Max

\* max + 1 is the number of rows.
LEMMA NextIsCount ==
    ASSUME NEW it, Rows(it), NEW s, NEW n \in Nat, Dense(it, s, n)
    PROVE  /\ NextPosition(it, s) = n
           /\ In(it, s) = {} <=> n = 0
<1>1. In(it, s) = {} <=> n = 0
  <2>1. CASE n = 0
    <3>1. 0..(n - 1) = {}  BY <2>1
    <3> QED  BY <2>1, <3>1 DEF Dense
  <2>2. CASE n # 0
    <3>1. 0 \in 0..(n - 1)  BY <2>2
    <3> QED  BY <2>2, <3>1 DEF Dense
  <2> QED  BY <2>1, <2>2
<1>2. CASE n = 0  BY <1>1, <1>2 DEF NextPosition
<1>3. CASE n # 0
  <2>1. Max(Positions(it, s)) = n - 1  BY <1>3, DenseCount, MaxTo
  <2> QED  BY <1>1, <1>3, <2>1 DEF NextPosition
<1> QED  BY <1>1, <1>2, <1>3

\* The first row stands at 0.
LEMMA FirstIn ==
    ASSUME NEW it, Rows(it), NEW s, NEW n \in Nat, Dense(it, s, n), In(it, s) # {}
    PROVE  First(it, s) \in In(it, s) /\ it[First(it, s)].pos = 0
<1>1. n # 0  BY NextIsCount
<1>2. PICK h \in In(it, s) : it[h].pos = 0  BY <1>1 DEF Dense
<1>3. \A m \in In(it, s) : it[m].pos \in Nat  BY InRows
<1>4. \A m \in In(it, s) : it[h].pos <= it[m].pos  BY <1>2, <1>3
<1>5. /\ First(it, s) \in In(it, s)
      /\ \A m \in In(it, s) : it[First(it, s)].pos <= it[m].pos
  BY <1>4 DEF First
<1> QED  BY <1>2, <1>3, <1>5

\* A list, seen from one of its sessions.
LEMMA DenseOf ==
    ASSUME NEW it, Lists(it), NEW s \in Sessions
    PROVE  \E n \in Nat : Dense(it, s, n)
BY DEF Lists, AllDense
-----------------------------------------------------------------------------
(* New rows.                                                               *)

\* A session whose rows keep their places stays dense.
LEMMA SameDense ==
    ASSUME NEW it, NEW it2, NEW s, NEW n, Dense(it, s, n), In(it2, s) = In(it, s),
           \A m \in In(it, s) : it2[m].pos = it[m].pos
    PROVE  Dense(it2, s, n)
BY DEF Dense

\* Rows that join behind the last one keep a session dense.
LEMMA JoinDense ==
    ASSUME NEW it, Rows(it), NEW it2, NEW s, NEW n \in Nat, Dense(it, s, n),
           NEW q \in Seq(Messages),
           \A j, k \in DOMAIN q : q[j] = q[k] => j = k,
           \A k \in DOMAIN q : q[k] \notin In(it, s) /\ it2[q[k]].pos = n + k - 1,
           In(it2, s) = In(it, s) \cup ToSet(q),
           \A m \in In(it, s) : it2[m].pos = it[m].pos
    PROVE  Dense(it2, s, n + Len(q))
<1> DEFINE l == Len(q)
<1>0. l \in Nat /\ DOMAIN q = 1..l  OBVIOUS
<1>1. \A m \in In(it2, s) :
        \/ m \in In(it, s) /\ it2[m].pos = it[m].pos /\ it[m].pos \in 0..(n - 1)
        \/ \E k \in 1..l : m = q[k] /\ it2[m].pos = n + k - 1
  BY <1>0 DEF Dense, ToSet
<1>2. \A m \in In(it2, s) : it2[m].pos \in 0..(n + l - 1)  BY <1>0, <1>1
<1>3. ASSUME NEW a \in In(it2, s), NEW b \in In(it2, s), it2[a].pos = it2[b].pos
      PROVE  a = b
  <2>1. CASE a \in In(it, s) /\ b \in In(it, s)  BY <1>3, <2>1 DEF Dense
  <2>2. CASE a \notin In(it, s)
    <3>1. PICK j \in 1..l : a = q[j] /\ it2[a].pos = n + j - 1  BY <1>1, <2>2
    <3>2. ~(it2[b].pos \in 0..(n - 1))  BY <1>0, <1>3, <3>1
    <3>3. PICK k \in 1..l : b = q[k] /\ it2[b].pos = n + k - 1  BY <1>1, <3>2
    <3>4. j = k  BY <1>0, <1>3, <3>1, <3>3
    <3> QED  BY <3>1, <3>3, <3>4
  <2>3. CASE b \notin In(it, s)
    <3>1. PICK j \in 1..l : b = q[j] /\ it2[b].pos = n + j - 1  BY <1>1, <2>3
    <3>2. ~(it2[a].pos \in 0..(n - 1))  BY <1>0, <1>3, <3>1
    <3>3. PICK k \in 1..l : a = q[k] /\ it2[a].pos = n + k - 1  BY <1>1, <3>2
    <3>4. j = k  BY <1>0, <1>3, <3>1, <3>3
    <3> QED  BY <3>1, <3>3, <3>4
  <2> QED  BY <2>1, <2>2, <2>3
<1>4. ASSUME NEW k \in 0..(n + l - 1)
      PROVE  \E m \in In(it2, s) : it2[m].pos = k
  <2>1. CASE k < n
    <3>1. k \in 0..(n - 1)  BY <2>1
    <3>2. PICK m \in In(it, s) : it[m].pos = k  BY <3>1 DEF Dense
    <3> QED  BY <3>2
  <2>2. CASE ~(k < n)
    <3>1. k - n + 1 \in 1..l  BY <1>0, <2>2
    <3>2. q[k - n + 1] \in ToSet(q)  BY <1>0, <3>1 DEF ToSet
    <3>3. it2[q[k - n + 1]].pos = n + (k - n + 1) - 1  BY <1>0, <3>1
    <3>4. n + (k - n + 1) - 1 = k  OBVIOUS
    <3> QED  BY <3>2, <3>3, <3>4
  <2> QED  BY <2>1, <2>2
<1>5. \A a, b \in In(it2, s) : it2[a].pos = it2[b].pos => a = b  BY <1>3
<1>6. \A k \in 0..(n + l - 1) : \E m \in In(it2, s) : it2[m].pos = k  BY <1>4
<1> QED  BY <1>2, <1>5, <1>6 DEF Dense

\* A message that joins its queue at max + 1 keeps the queues lists.
LEMMA AppendKeeps ==
    ASSUME NEW it, Lists(it), NEW m \in Messages, it[m] = None, NEW x \in ItemRow,
           x.pos = NextPosition(it, x.session)
    PROVE  Lists([it EXCEPT ![m] = x])
<1> DEFINE it2 == [it EXCEPT ![m] = x]
<1>1. Rows(it) /\ x # None /\ x.session \in Sessions  BY RowFields DEF Lists
<1>2. Rows(it2) /\ it2[m] = x /\ \A k \in Messages \ {m} : it2[k] = it[k]
  BY <1>1 DEF Rows
<1> HIDE DEF it2
<1>3. ASSUME NEW s \in Sessions
      PROVE  \E n \in Nat : Dense(it2, s, n)
  <2>1. PICK n \in Nat : Dense(it, s, n)  BY DenseOf
  <2>2. CASE s # x.session
    <3>1. In(it2, s) = In(it, s)  BY <1>1, <1>2, <2>2 DEF In
    <3>2. \A k \in In(it, s) : it2[k].pos = it[k].pos  BY <1>2 DEF In
    <3> QED  BY <2>1, <3>1, <3>2, SameDense
  <2>3. CASE s = x.session
    <3> DEFINE q == <<m>>
    <3>1. q \in Seq(Messages) /\ Len(q) = 1 /\ DOMAIN q = 1..1 /\ q[1] = m  OBVIOUS
    <3>2. ToSet(q) = {m}  BY <3>1 DEF ToSet
    <3>3. x.pos = n  BY <1>1, <2>1, <2>3, NextIsCount
    <3>4. In(it2, s) = In(it, s) \cup {m}  BY <1>1, <1>2, <2>3 DEF In
    <3>5. \A k \in In(it, s) : it2[k].pos = it[k].pos  BY <1>2 DEF In
    <3>6. m \notin In(it, s)  BY DEF In
    <3> HIDE DEF q
    <3>7. \A k \in DOMAIN q : k = 1 /\ q[k] = m  BY <3>1
    <3>7a. n + 1 - 1 = n  OBVIOUS
    <3>8. \A k \in DOMAIN q : q[k] \notin In(it, s) /\ it2[q[k]].pos = n + k - 1
      BY <1>2, <3>3, <3>6, <3>7, <3>7a
    <3>9. \A j, k \in DOMAIN q : q[j] = q[k] => j = k  BY <3>7
    <3>10. In(it2, s) = In(it, s) \cup ToSet(q)  BY <3>2, <3>4
    <3>11. Dense(it2, s, n + Len(q))
      BY <1>1, <2>1, <3>1, <3>5, <3>8, <3>9, <3>10, JoinDense
    <3> QED  BY <3>1, <3>11
  <2> QED  BY <2>2, <2>3
<1> QED  BY <1>2, <1>3 DEF Lists, AllDense, it2

\* The steers of a Run that ends join the end of its queue, in their order.
LEMMA SteersJoin ==
    ASSUME NEW it, Lists(it), NEW r \in Runs, run[r] \in RunRow,
           run[r].steers # <<>> => run[r].session # None,
           \A j, k \in DOMAIN run[r].steers : run[r].steers[j] = run[r].steers[k] => j = k,
           \A k \in DOMAIN run[r].steers : it[run[r].steers[k]] = None
    PROVE  LET it2 == WithSteers(it, r) IN
           /\ Lists(it2)
           /\ \A m \in Messages \ ToSet(run[r].steers) : it2[m] = it[m]
           /\ \A k \in DOMAIN run[r].steers :
                LET m == run[r].steers[k] IN
                m \in Messages /\ it2[m] # None /\ it2[m] \in ItemRow
                /\ it2[m].session = run[r].session
                /\ it2[m].pos = NextPosition(it, run[r].session) + k - 1
<1> DEFINE q == run[r].steers
           s == run[r].session
           it2 == WithSteers(it, r)
           index(m) == (CHOOSE k \in DOMAIN q : q[k] = m) - 1
<1>1. /\ q \in Seq(Messages) /\ s \in Sessions \cup {None}
      /\ run[r].reply \in Interventions \cup {None} /\ run[r].mode \in {"normal", "read_only"}
  BY DEF RunRow
<1>2. Rows(it) /\ AllDense(it)  BY DEF Lists
<1>3. it2 = [m \in Messages |->
               IF m \in ToSet(q)
                 THEN Row(s, run[r].reply, run[r].mode, FALSE, NextPosition(it, s) + index(m))
                 ELSE it[m]]
  BY DEF WithSteers
<1>4. ASSUME NEW k \in DOMAIN q
      PROVE  /\ q[k] \in Messages /\ q[k] \in ToSet(q) /\ index(q[k]) = k - 1
             /\ s \in Sessions /\ NextPosition(it, s) \in Nat /\ k \in Nat /\ k >= 1
  <2>1. k \in 1..Len(q) /\ q[k] \in Messages /\ q # <<>>  BY <1>1, <1>4
  <2>2. q[k] \in ToSet(q)  BY DEF ToSet
  <2>3. (CHOOSE j \in DOMAIN q : q[j] = q[k]) = k  OBVIOUS
  <2>4. s \in Sessions  BY <1>1, <2>1
  <2>5. PICK n \in Nat : Dense(it, s, n)  BY <2>4, DenseOf
  <2>6. NextPosition(it, s) = n  BY <1>2, <2>5, NextIsCount
  <2>7. index(q[k]) = k - 1  BY <2>3
  <2> QED  BY <2>1, <2>2, <2>4, <2>5, <2>6, <2>7
<1> HIDE DEF index
<1>5. ASSUME NEW k \in DOMAIN q
      PROVE  /\ it2[q[k]] # None /\ it2[q[k]] \in ItemRow
             /\ it2[q[k]].session = s
             /\ it2[q[k]].pos = NextPosition(it, s) + k - 1
  <2>1. it2[q[k]] = Row(s, run[r].reply, run[r].mode, FALSE, NextPosition(it, s) + (k - 1))
    BY <1>3, <1>4
  <2>2. NextPosition(it, s) + (k - 1) \in Nat /\ FALSE \in BOOLEAN  BY <1>4
  <2> DEFINE row(p) == Row(s, run[r].reply, run[r].mode, FALSE, p)
  <2>2c. \A p \in Nat : row(p) \in ItemRow  BY <1>1, <1>4 DEF Row, ItemRow
  <2>2d. \A p \in Nat : row(p).session = s /\ row(p).pos = p  BY DEF Row
  <2>2a. \A p \in Nat : row(p) \in ItemRow /\ row(p) # None /\ row(p).session = s
                        /\ row(p).pos = p
    BY <2>2c, <2>2d, RowFields
  <2> HIDE DEF row
  <2>2b. it2[q[k]] = row(NextPosition(it, s) + (k - 1))  BY <2>1 DEF row
  <2>3. /\ it2[q[k]] \in ItemRow /\ it2[q[k]] # None /\ it2[q[k]].session = s
        /\ it2[q[k]].pos = NextPosition(it, s) + (k - 1)
    BY <2>2, <2>2a, <2>2b
  <2>4. NextPosition(it, s) + (k - 1) = NextPosition(it, s) + k - 1  BY <1>4
  <2> QED  BY <2>3, <2>4
<1>6. \A m \in Messages \ ToSet(q) : it2[m] = it[m]  BY <1>3
<1>7. \A m \in ToSet(q) : \E k \in DOMAIN q : m = q[k]  BY DEF ToSet
<1>8. Rows(it2)
  <2>1. \A m \in Messages : it2[m] \in ItemRow \cup {None}
    BY <1>2, <1>5, <1>6, <1>7 DEF Rows
  <2>2. it2 = [m \in Messages |-> it2[m]]  BY <1>3
  <2> QED  BY <2>1, <2>2 DEF Rows
<1>9. \A m \in ToSet(q) : m \in Messages /\ it[m] = None
  BY <1>4, <1>7
<1> HIDE DEF it2
<1>10. ASSUME NEW z \in Sessions
       PROVE  \E n \in Nat : Dense(it2, z, n)
  <2>1. PICK n \in Nat : Dense(it, z, n)  BY DenseOf
  <2>2. \A m \in In(it, z) : m \in Messages \ ToSet(q)  BY <1>9 DEF In
  <2>3. \A m \in In(it, z) : it2[m].pos = it[m].pos  BY <1>6, <2>2
  <2>4. CASE z # s
    <3>1. \A m \in ToSet(q) : it2[m].session # z  BY <1>5, <1>7, <2>4
    <3>2. In(it2, z) = In(it, z)  BY <1>6, <1>9, <3>1 DEF In
    <3> QED  BY <2>1, <2>3, <3>2, SameDense
  <2>5. CASE z = s
    <3>1. \A m \in ToSet(q) : it2[m] # None /\ it2[m].session = z /\ m \in Messages
      BY <1>5, <1>7, <1>9, <2>5
    <3>2. In(it2, z) = In(it, z) \cup ToSet(q)  BY <1>6, <1>9, <3>1 DEF In
    <3>3. NextPosition(it, z) = n  BY <1>2, <2>1, NextIsCount
    <3>4. \A k \in DOMAIN q : q[k] \notin In(it, z) /\ it2[q[k]].pos = n + k - 1
      <4>1. \A k \in DOMAIN q : q[k] \in ToSet(q)  BY <1>4
      <4> QED  BY <1>5, <2>2, <2>5, <3>3, <4>1
    <3>5. Dense(it2, z, n + Len(q))
      BY <1>1, <1>2, <2>1, <2>3, <3>2, <3>4, JoinDense
    <3>6. n + Len(q) \in Nat  BY <1>1
    <3> QED  BY <3>5, <3>6
  <2> QED  BY <2>4, <2>5
<1>11. Lists(it2)  BY <1>8, <1>10 DEF Lists, AllDense
<1> QED  BY <1>4, <1>5, <1>6, <1>11 DEF it2
-----------------------------------------------------------------------------
(* Rows that leave.                                                        *)

\* Row x at position p, in version v.
Moved(x, p, v) == [x EXCEPT !.pos = p, !.version = v]

\* What a moved row is.
LEMMA MovedRow ==
    ASSUME NEW x \in ItemRow, NEW p \in Nat, NEW v \in Nat
    PROVE  /\ Moved(x, p, v) \in ItemRow /\ Moved(x, p, v) # None
           /\ Moved(x, p, v).session = x.session /\ Moved(x, p, v).text = x.text
           /\ Moved(x, p, v).pos = p /\ Moved(x, p, v).version = v
<1>1. Moved(x, p, v) \in ItemRow  BY DEF ItemRow, Moved
<1>2. /\ Moved(x, p, v).session = x.session /\ Moved(x, p, v).text = x.text
      /\ Moved(x, p, v).pos = p /\ Moved(x, p, v).version = v
  BY DEF ItemRow, Moved
<1> QED  BY <1>1, <1>2, RowFields

\* A position and a version, given one after the other.
LEMMA MovedTwice ==
    ASSUME NEW x \in ItemRow, NEW p
    PROVE  [[x EXCEPT !.pos = p] EXCEPT !.version = @ + 1] = Moved(x, p, x.version + 1)
BY DEF ItemRow, Moved

\* The last position counts.
LEMMA MovedAgain ==
    ASSUME NEW x \in ItemRow, NEW p, NEW v, NEW w
    PROVE  [Moved(x, p, v) EXCEPT !.pos = w] = Moved(x, w, v)
BY DEF ItemRow, Moved

\* The rows without m: those behind it come one place forward, and tell so.
Compacted(it, m) ==
    [q \in Messages |->
        IF q = m THEN None
        ELSE IF q \in In(it, it[m].session) /\ it[q].pos > it[m].pos
          THEN Moved(it[q], it[q].pos - 1, it[q].version + 1)
          ELSE it[q]]

\* A row of Compacted.
LEMMA CompactedRow ==
    ASSUME NEW it, Rows(it), NEW m \in Messages, it[m] # None, NEW q \in Messages,
           it[q] # None, q # m
    PROVE  LET x == Compacted(it, m)[q] IN
           /\ x \in ItemRow /\ x # None /\ x.session = it[q].session
           /\ x.pos = IF q \in In(it, it[m].session) /\ it[q].pos > it[m].pos
                        THEN it[q].pos - 1 ELSE it[q].pos
           /\ x = it[q] \/ x.version = it[q].version + 1
<1> DEFINE x == Compacted(it, m)[q]
<1>1. it[q] \in ItemRow /\ it[q].pos \in Nat /\ it[q].version \in Nat /\ it[m].pos \in Nat
  BY RowIn
<1>2. CASE q \in In(it, it[m].session) /\ it[q].pos > it[m].pos
  <2>1. x = Moved(it[q], it[q].pos - 1, it[q].version + 1)  BY <1>2 DEF Compacted
  <2> DEFINE y == it[q]
             n == y.pos - 1
             v == y.version + 1
  <2>2. y \in ItemRow /\ n \in Nat /\ v \in Nat  BY <1>1, <1>2
  <2>3. x = Moved(y, n, v)  BY <2>1
  <2> HIDE DEF x, y, n, v
  <2>4. x \in ItemRow /\ x.session = y.session /\ x.pos = n /\ x.version = v
    BY <2>2, <2>3, MovedRow
  <2> USE DEF y, n, v
  <2>5. x # None  BY <2>4, RowFields
  <2> QED  BY <1>2, <2>4, <2>5 DEF x
<1>3. CASE ~(q \in In(it, it[m].session) /\ it[q].pos > it[m].pos)
  <2>1. x = it[q]  BY <1>3 DEF Compacted
  <2> QED  BY <1>1, <1>3, <2>1
<1> QED  BY <1>2, <1>3

\* Without one of its rows, the positions of a session stay dense.
LEMMA CompactedKeeps ==
    ASSUME NEW it, Lists(it), NEW m \in Messages, it[m] # None
    PROVE  /\ Lists(Compacted(it, m))
           /\ \A q \in Messages : Compacted(it, m)[q] # None <=> it[q] # None /\ q # m
<1> DEFINE it2 == Compacted(it, m)
           s == it[m].session
<1>1. Rows(it) /\ AllDense(it) /\ s \in Sessions /\ it[m].pos \in Nat
  BY RowIn DEF Lists
<1>2. it2[m] = None  BY DEF Compacted
<1>3. \A q \in Messages : it[q] = None => it2[q] = None  BY DEF Compacted, In
<1>4. ASSUME NEW q \in Messages, it[q] # None, q # m
      PROVE  /\ it2[q] \in ItemRow /\ it2[q] # None /\ it2[q].session = it[q].session
             /\ it2[q].pos = IF q \in In(it, s) /\ it[q].pos > it[m].pos
                               THEN it[q].pos - 1 ELSE it[q].pos
  BY <1>1, <1>4, CompactedRow
<1>5. \A q \in Messages : it2[q] # None <=> it[q] # None /\ q # m
  BY <1>2, <1>3, <1>4
<1>6. Rows(it2)
  <2>1. \A q \in Messages : it2[q] \in ItemRow \cup {None}  BY <1>4, <1>5
  <2>2. it2 = [q \in Messages |-> it2[q]]  BY DEF Compacted
  <2> QED  BY <2>1, <2>2 DEF Rows
<1> HIDE DEF it2
<1>7. \A z : In(it2, z) = In(it, z) \ {m}  BY <1>4, <1>5 DEF In
<1>8. ASSUME NEW z \in Sessions
      PROVE  \E n \in Nat : Dense(it2, z, n)
  <2>1. PICK n \in Nat : Dense(it, z, n)  BY DenseOf
  <2>2. \A q \in In(it, z) : q \in Messages /\ it[q] # None /\ it[q].session = z
                             /\ it[q].pos \in Nat
    BY <1>1, InRows
  <2>3. CASE z # s
    <3>1. m \notin In(it, z)  BY <2>3 DEF In
    <3>2. In(it2, z) = In(it, z)  BY <1>7, <3>1
    <3>3. \A q \in In(it, z) : q \notin In(it, s)  BY <2>2, <2>3 DEF In
    <3>4. \A q \in In(it, z) : it2[q].pos = it[q].pos  BY <1>4, <2>2, <3>1, <3>3
    <3> QED  BY <2>1, <3>2, <3>4, SameDense
  <2>4. CASE z = s
    <3> DEFINE g == it[m].pos
    <3>1. m \in In(it, z)  BY <2>4 DEF In
    <3>2. g \in 0..(n - 1) /\ n - 1 \in Nat  BY <2>1, <3>1 DEF Dense
    <3>3. \A q \in In(it2, z) : /\ q \in In(it, z) /\ q # m
                                /\ it2[q].pos = IF it[q].pos > g THEN it[q].pos - 1
                                                ELSE it[q].pos
      BY <1>4, <1>7, <2>2, <2>4
    <3>4. \A q \in In(it, z) : it[q].pos \in 0..(n - 1) /\ (it[q].pos = g => q = m)
      BY <2>1, <3>1 DEF Dense
    <3>5. \A q \in In(it2, z) : it2[q].pos \in 0..((n - 1) - 1)
      BY <3>2, <3>3, <3>4
    <3>6. ASSUME NEW a \in In(it2, z), NEW b \in In(it2, z), it2[a].pos = it2[b].pos
          PROVE  a = b
      <4>1. it[a].pos # g /\ it[b].pos # g  BY <3>3, <3>4
      <4>2. it[a].pos = it[b].pos  BY <3>2, <3>3, <3>4, <3>6, <4>1
      <4> QED  BY <2>1, <3>3, <4>2 DEF Dense
    <3>7. ASSUME NEW k \in 0..((n - 1) - 1)
          PROVE  \E q \in In(it2, z) : it2[q].pos = k
      <4>1. k \in 0..(n - 1) /\ k + 1 \in 0..(n - 1) /\ k \in Nat  BY <3>2
      <4>2. CASE k < g
        <5>1. PICK q \in In(it, z) : it[q].pos = k  BY <2>1, <4>1 DEF Dense
        <5>2. q \in In(it2, z)  BY <1>7, <3>2, <4>2, <5>1
        <5>3. it2[q].pos = k  BY <3>2, <3>3, <4>1, <4>2, <5>1, <5>2
        <5> QED  BY <5>2, <5>3
      <4>3. CASE ~(k < g)
        <5>1. PICK q \in In(it, z) : it[q].pos = k + 1  BY <2>1, <4>1 DEF Dense
        <5>2. q \in In(it2, z)  BY <1>7, <3>2, <4>1, <4>3, <5>1
        <5>3. it2[q].pos = k  BY <3>2, <3>3, <4>1, <4>3, <5>1, <5>2
        <5> QED  BY <5>2, <5>3
      <4> QED  BY <4>2, <4>3
    <3>8. \A a, b \in In(it2, z) : it2[a].pos = it2[b].pos => a = b  BY <3>6
    <3>9. \A k \in 0..((n - 1) - 1) : \E q \in In(it2, z) : it2[q].pos = k  BY <3>7
    <3>10. Dense(it2, z, n - 1)  BY <3>5, <3>8, <3>9 DEF Dense
    <3> QED  BY <3>2, <3>10
  <2> QED  BY <2>3, <2>4
<1> QED  BY <1>5, <1>6, <1>8 DEF Lists, AllDense, it2

\* The two UPDATEs of compact_queue_after_removal close the gap that m leaves, and
\* meet no position that is taken.
LEMMA CompactQueueWorks ==
    ASSUME NEW it, Lists(it), NEW m \in Messages, it[m] # None
    PROVE  CompactQueue([it EXCEPT ![m] = None], it[m].session, it[m].pos)
             = [items |-> Compacted(it, m), clash |-> FALSE]
<1> DEFINE s == it[m].session
           gap == it[m].pos
           left == [it EXCEPT ![m] = None]
           offset == NextPosition(left, s)
           tail == {q \in In(left, s) : left[q].pos > gap}
           up == [q \in tail |-> left[q].pos + offset]
           lifted == Bump(SetPositions(left, up), tail)
           back == {q \in In(left, s) : lifted[q].pos > gap + offset}
           down == [q \in back |-> lifted[q].pos - offset - 1]
<1>1. Rows(it) /\ s \in Sessions /\ gap \in Nat /\ m \in In(it, s)
  BY RowIn DEF Lists, In
<1>2. PICK n \in Nat : Dense(it, s, n)  BY <1>1, DenseOf
<1>3. /\ left \in [Messages -> ItemRow \cup {None}] /\ left[m] = None
      /\ \A q \in Messages \ {m} : left[q] = it[q]
  BY <1>1 DEF Rows
<1>4. CompactQueue(left, s, gap) =
        IF tail = {} THEN [items |-> left, clash |-> FALSE]
        ELSE [items |-> SetPositions(lifted, down),
              clash |-> Clash(left, s, up) \/ Clash(lifted, s, down)]
  BY DEF CompactQueue
<1> HIDE DEF left
<1>5. In(left, s) = In(it, s) \ {m}  BY <1>3 DEF In
<1>6. ASSUME NEW q \in In(left, s)
      PROVE  /\ q \in Messages /\ q # m /\ q \in In(it, s) /\ left[q] = it[q] /\ it[q] # None
             /\ it[q] \in ItemRow /\ it[q].pos \in 0..(n - 1) /\ it[q].pos \in Nat
             /\ it[q].pos # gap /\ it[q].version \in Nat
  <2>1. q \in In(it, s) /\ q # m /\ q \in Messages /\ left[q] = it[q] /\ it[q] # None
    BY <1>3, <1>5 DEF In
  <2>2. it[q] \in ItemRow /\ it[q].pos \in Nat /\ it[q].version \in Nat
    BY <1>1, <2>1, RowIn
  <2>3. it[q].pos \in 0..(n - 1) /\ it[q].pos # gap  BY <1>1, <1>2, <2>1 DEF Dense
  <2> QED  BY <2>1, <2>2, <2>3
<1>7. \A q \in Messages : q \in tail <=> q # m /\ q \in In(it, s) /\ it[q].pos > gap
  <2>1. \A q \in Messages : q \in tail <=> q \in In(left, s) /\ left[q].pos > gap
    BY DEF In
  <2> QED  BY <1>5, <1>6, <2>1
<1>8. CASE tail = {}
  <2>1. \A q \in Messages : Compacted(it, m)[q] = left[q]
    BY <1>3, <1>7, <1>8 DEF Compacted
  <2>2. Compacted(it, m) = [q \in Messages |-> Compacted(it, m)[q]]  BY DEF Compacted
  <2>3. left = [q \in Messages |-> left[q]]  BY <1>3
  <2>4. Compacted(it, m) = left  BY <2>1, <2>2, <2>3
  <2> QED  BY <1>4, <1>8, <2>4 DEF left
<1>9. CASE tail # {}
  <2>1. PICK l \in In(left, s) : it[l].pos = n - 1 /\ n # 0
    <3>1. PICK t \in tail : t \in In(left, s) /\ left[t].pos > gap  BY <1>9
    <3>2. it[t].pos \in 0..(n - 1) /\ it[t].pos > gap  BY <1>6, <3>1
    <3>3. n - 1 \in 0..(n - 1) /\ n # 0 /\ n - 1 # gap  BY <1>1, <3>2
    <3>4. PICK l \in In(it, s) : it[l].pos = n - 1  BY <1>2, <3>3 DEF Dense
    <3>5. l # m  BY <3>3, <3>4
    <3> QED  BY <1>5, <3>3, <3>4, <3>5
  <2>2. offset = n
    <3>1. \A p \in Positions(left, s) : p \in Nat /\ n - 1 >= p
      BY <1>6 DEF Positions
    <3>2. n - 1 \in Positions(left, s)
      <4>1. left[l].pos = n - 1  BY <1>6, <2>1
      <4> QED  BY <2>1, <4>1 DEF Positions
    <3>3. \A p \in Positions(left, s) :
            (\A y \in Positions(left, s) : p >= y) => p = n - 1
      BY <3>1, <3>2
    <3>4. Max(Positions(left, s)) = n - 1  BY <3>1, <3>2, <3>3 DEF Max
    <3>5. In(left, s) # {}  BY <2>1
    <3>6. offset = (n - 1) + 1  BY <3>4, <3>5 DEF NextPosition
    <3> QED  BY <3>6
  <2> HIDE DEF offset
  <2>3. ASSUME NEW q \in Messages
        PROVE  lifted[q] = IF q \in tail
                             THEN [[left[q] EXCEPT !.pos = it[q].pos + n] EXCEPT !.version = @ + 1]
                             ELSE left[q]
    <3>1. DOMAIN up = tail  OBVIOUS
    <3>2. CASE q \in tail
      <4>1. up[q] = it[q].pos + n  BY <1>6, <2>2, <3>2
      <4>2. SetPositions(left, up)[q] = [left[q] EXCEPT !.pos = it[q].pos + n]
        BY <3>1, <3>2, <4>1 DEF SetPositions
      <4> QED  BY <3>2, <4>2 DEF Bump
    <3>3. CASE q \notin tail
      <4>1. SetPositions(left, up)[q] = left[q]  BY <3>1, <3>3 DEF SetPositions
      <4> QED  BY <3>3, <4>1 DEF Bump
    <3> QED  BY <3>2, <3>3
  <2> HIDE DEF lifted
  <2>4. ASSUME NEW q \in tail
        PROVE  /\ q \in In(left, s) /\ lifted[q].pos = it[q].pos + n
               /\ lifted[q] = Moved(it[q], it[q].pos + n, it[q].version + 1)
               /\ lifted[q] \in ItemRow /\ lifted[q].session = it[q].session
    <3>1. q \in In(left, s) /\ q \in Messages /\ left[q] = it[q] /\ it[q] \in ItemRow
          /\ it[q].pos + n \in Nat /\ it[q].version + 1 \in Nat
      BY <1>6
    <3>2. lifted[q] = [[it[q] EXCEPT !.pos = it[q].pos + n] EXCEPT !.version = @ + 1]
      BY <2>3, <3>1
    <3>3. lifted[q] = Moved(it[q], it[q].pos + n, it[q].version + 1)
      BY <3>1, <3>2, MovedTwice
    <3>4. PICK p \in Nat, v \in Nat : p = it[q].pos + n /\ v = it[q].version + 1  BY <3>1
    <3>5. lifted[q] = Moved(it[q], p, v)  BY <3>3, <3>4
    <3>6. lifted[q].pos = p /\ lifted[q] \in ItemRow /\ lifted[q].session = it[q].session
      <4>1. it[q] \in ItemRow  BY <3>1
      <4>2. /\ Moved(it[q], p, v) \in ItemRow
            /\ Moved(it[q], p, v).session = it[q].session
            /\ Moved(it[q], p, v).pos = p
        BY <4>1, MovedRow
      <4> QED  BY <3>5, <4>2
    <3> QED  BY <3>1, <3>3, <3>4, <3>6
  <2>5. \A q \in In(left, s) \ tail : lifted[q] = it[q] /\ it[q].pos < gap
    <3>1. \A q \in In(left, s) \ tail : q \in Messages /\ ~(it[q].pos > gap)
      BY <1>6, <1>7
    <3>2. \A q \in In(left, s) \ tail : lifted[q] = left[q]  BY <2>3, <3>1
    <3>3. \A q \in In(left, s) \ tail : it[q].pos < gap  BY <1>1, <1>6, <3>1
    <3> QED  BY <1>6, <3>2, <3>3
  <2>6. back = tail
    <3>1. \A q \in tail : q \in In(left, s) /\ lifted[q].pos > gap + offset
      <4>1. ASSUME NEW q \in tail
            PROVE  lifted[q].pos > gap + offset
        <5>1. it[q].pos > gap /\ it[q].pos \in Nat  BY <1>6
        <5>2. lifted[q].pos = it[q].pos + n  BY <2>4
        <5> QED  BY <1>1, <2>2, <5>1, <5>2
      <4> QED  BY <4>1
    <3>2. \A q \in In(left, s) \ tail : ~(lifted[q].pos > gap + offset)
      BY <1>1, <1>6, <2>2, <2>5
    <3> QED  BY <3>1, <3>2
  <2> HIDE DEF back
  <2>7. ~Clash(left, s, up)
    <3>1. DOMAIN up = tail /\ \A q \in tail : up[q] = it[q].pos + n /\ q \in In(left, s)
      BY <1>6, <2>2
    <3>2. \A q, z \in In(left, s) : it[q].pos + n # it[z].pos
      BY <1>6
    <3>3. \A q, z \in In(left, s) : q # z => it[q].pos + n # it[z].pos + n
      <4>1. \A q, z \in In(left, s) : q # z => it[q].pos # it[z].pos
        BY <1>2, <1>6 DEF Dense
      <4> QED  BY <1>6, <4>1
    <3> HIDE DEF up, tail
    <3>4. \A z \in In(left, s) : left[z].pos = it[z].pos  BY <1>6
    <3> QED  BY <3>1, <3>2, <3>3, <3>4 DEF Clash
  <2>8. DOMAIN down = tail /\ \A q \in tail : down[q] = it[q].pos - 1
    <3>1. DOMAIN down = tail  BY <2>6
    <3>2. \A q \in tail : down[q] = lifted[q].pos - offset - 1  BY <2>6
    <3>3. ASSUME NEW q \in tail
          PROVE  down[q] = it[q].pos - 1
      <4>1. down[q] = (it[q].pos + n) - n - 1  BY <2>2, <2>4, <3>2
      <4>2. it[q].pos \in Nat  BY <1>6
      <4> QED  BY <4>1, <4>2
    <3> QED  BY <3>1, <3>3
  <2> HIDE DEF down
  <2>9. ~Clash(lifted, s, down)
    <3>1. In(lifted, s) = In(left, s)
      <4>1. ASSUME NEW q \in Messages
            PROVE  q \in In(lifted, s) <=> q \in In(left, s)
        <5>1. CASE q \in tail
          <6>1. q \in In(left, s) /\ it[q] \in ItemRow /\ it[q].session = s /\ left[q] = it[q]
            BY <1>6, <5>1 DEF In
          <6>4. lifted[q] \in ItemRow /\ lifted[q].session = s
            BY <2>4, <5>1, <6>1
          <6>5. lifted[q] # None  BY <6>4, RowFields
          <6> QED  BY <6>1, <6>4, <6>5 DEF In
        <5>2. CASE q \notin tail
          <6>1. lifted[q] = left[q]  BY <2>3, <5>2 DEF lifted
          <6> QED  BY <6>1 DEF In
        <5> QED  BY <5>1, <5>2
      <4> QED  BY <4>1 DEF In
    <3>2. \A q \in tail, z \in In(left, s) : it[q].pos - 1 # lifted[z].pos
      <4>1. ASSUME NEW q \in tail, NEW z \in In(left, s)
            PROVE  it[q].pos - 1 # lifted[z].pos
        <5>1. q \in In(left, s) /\ it[q].pos > gap  BY <1>6
        <5>2. it[q].pos \in 0..(n - 1) /\ it[z].pos \in 0..(n - 1)  BY <1>6, <5>1
        <5>3. CASE z \in tail
          <6>1. lifted[z].pos = it[z].pos + n  BY <2>4, <5>3
          <6> QED  BY <5>2, <6>1
        <5>4. CASE z \notin tail
          <6>1. lifted[z].pos < gap /\ lifted[z].pos \in Nat  BY <1>6, <2>5, <5>4
          <6> QED  BY <1>1, <5>1, <5>2, <6>1
        <5> QED  BY <5>3, <5>4
      <4> QED  BY <4>1
    <3>3. \A q, z \in tail : q # z => it[q].pos - 1 # it[z].pos - 1
      <4>1. \A q \in tail : q \in In(left, s)  OBVIOUS
      <4>2. \A q, z \in In(left, s) : q # z => it[q].pos # it[z].pos
        BY <1>2, <1>6 DEF Dense
      <4> QED  BY <1>6, <4>1, <4>2
    <3>4. \A q \in tail : q \in In(left, s)  OBVIOUS
    <3> HIDE DEF tail
    <3> QED  BY <2>8, <3>1, <3>2, <3>3 DEF Clash
  <2>10. SetPositions(lifted, down) = Compacted(it, m)
    <3>1. ASSUME NEW q \in Messages
          PROVE  SetPositions(lifted, down)[q] = Compacted(it, m)[q]
      <4>1. CASE q \in tail
        <5>1. it[q] \in ItemRow /\ it[q].pos \in Nat /\ it[q].version \in Nat
              /\ q \in In(it, s) /\ q # m /\ it[q].pos > gap
          BY <1>6, <1>7, <4>1
        <5>2. SetPositions(lifted, down)[q] = [lifted[q] EXCEPT !.pos = it[q].pos - 1]
          BY <2>8, <4>1 DEF SetPositions
        <5>4. it[q].pos - 1 \in Nat  BY <1>1, <5>1
        <5>5. SetPositions(lifted, down)[q] = Moved(it[q], it[q].pos - 1, it[q].version + 1)
          BY <2>4, <4>1, <5>1, <5>2, <5>4, MovedAgain
        <5>6. Compacted(it, m)[q] = Moved(it[q], it[q].pos - 1, it[q].version + 1)
          BY <5>1 DEF Compacted
        <5> QED  BY <5>5, <5>6
      <4>2. CASE q \notin tail
        <5>1. SetPositions(lifted, down)[q] = lifted[q]
          BY <2>8, <4>2 DEF SetPositions
        <5>2. lifted[q] = left[q]  BY <2>3, <4>2 DEF lifted
        <5>3. Compacted(it, m)[q] = left[q]  BY <1>3, <1>7, <4>2 DEF Compacted
        <5> QED  BY <5>1, <5>2, <5>3
      <4> QED  BY <4>1, <4>2
    <3>2. SetPositions(lifted, down) = [q \in Messages |-> SetPositions(lifted, down)[q]]
      BY DEF SetPositions
    <3>3. Compacted(it, m) = [q \in Messages |-> Compacted(it, m)[q]]  BY DEF Compacted
    <3> QED  BY <3>1, <3>2, <3>3
  <2> QED  BY <1>4, <1>9, <2>7, <2>9, <2>10 DEF left, lifted, down, back, offset
<1> QED  BY <1>8, <1>9

\* Taking a row out of its queue fails for a mail reply only.
LEMMA RemovalWorks ==
    ASSUME NEW it, Lists(it), NEW m \in Messages, it[m] # None
    PROVE  /\ Removal(it, m).items = Compacted(it, m)
           /\ Removal(it, m).error = IF it[m].mail THEN "foreign_key" ELSE "none"
<1> DEFINE c == CompactQueue([it EXCEPT ![m] = None], it[m].session, it[m].pos)
<1>1. c = [items |-> Compacted(it, m), clash |-> FALSE]  BY CompactQueueWorks
<1>2. Removal(it, m) = [items |-> c.items,
                        error |-> IF it[m].mail THEN "foreign_key"
                                  ELSE IF c.clash THEN "position" ELSE "none"]
  BY DEF Removal
<1> HIDE DEF c
<1>3. c.items = Compacted(it, m) /\ ~c.clash  BY <1>1
<1> QED  BY <1>2, <1>3
-----------------------------------------------------------------------------
(* The order of a session.                                                 *)

\* q names the rows of a session, each once, as their positions order them.
IsOrder(it, s, q) ==
    /\ q \in Seq(Messages)
    /\ \A j, k \in DOMAIN q : q[j] = q[k] => j = k
    /\ ToSet(q) = In(it, s)
    /\ \A k \in DOMAIN q : it[q[k]].pos = k - 1

\* As many rows are in front of a row as its position says.
LEMMA BeforeCount ==
    ASSUME NEW it, Rows(it), NEW s, NEW n \in Nat, Dense(it, s, n), NEW m \in In(it, s)
    PROVE  Cardinality({a \in In(it, s) : it[a].pos < it[m].pos}) = it[m].pos
<1> DEFINE B == {a \in In(it, s) : it[a].pos < it[m].pos}
           p == it[m].pos
           f == [a \in B |-> it[a].pos]
<1>1. p \in 0..(n - 1) /\ \A a \in In(it, s) : it[a].pos \in 0..(n - 1)  BY DEF Dense
<1>2. f \in [B -> 0..(p - 1)]  BY <1>1
<1>3. \A a, b \in B : f[a] = f[b] => a = b  BY DEF Dense
<1>4. ASSUME NEW k \in 0..(p - 1)
      PROVE  \E a \in B : f[a] = k
  <2>1. k \in 0..(n - 1) /\ k < p  BY <1>1
  <2>2. PICK a \in In(it, s) : it[a].pos = k  BY <2>1 DEF Dense
  <2> QED  BY <2>1, <2>2
<1>5. DOMAIN f = B  OBVIOUS
<1>6. IsFiniteSet(B)  BY InFinite, FS_Subset
<1> HIDE DEF f, B
<1>7. f \in Injection(B, 0..(p - 1))  BY <1>2, <1>3, <1>5 DEF Injection, IsInjective
<1>8. f \in Surjection(B, 0..(p - 1))  BY <1>2, <1>4 DEF Surjection
<1>9. ExistsBijection(B, 0..(p - 1))  BY <1>7, <1>8 DEF ExistsBijection, Bijection
<1>10. Cardinality(0..(p - 1)) = Cardinality(B)  BY <1>6, <1>9, FS_Bijection
<1>11. 0 \in Int /\ p - 1 \in Int  BY <1>1
<1>12. Cardinality(0..(p - 1)) = IF 0 > p - 1 THEN 0 ELSE (p - 1) - 0 + 1
  BY <1>11, FS_Interval
<1>13. Cardinality(0..(p - 1)) = p  BY <1>1, <1>12
<1> QED  BY <1>10, <1>13 DEF B

\* The list of a session has its n rows at their positions.
LEMMA OrderedLists ==
    ASSUME NEW it, Rows(it), NEW s, NEW n \in Nat, Dense(it, s, n)
    PROVE  IsOrder(it, s, Ordered(it, s)) /\ Len(Ordered(it, s)) = n
<1> DEFINE q == Ordered(it, s)
           at(m) == Cardinality({a \in In(it, s) : it[a].pos < it[m].pos})
<1>1. \A m \in In(it, s) : at(m) = it[m].pos  BY BeforeCount
<1>2. q = [k \in 1..n |-> CHOOSE m \in In(it, s) : at(m) = k - 1]
  BY DenseCount DEF Ordered
<1> HIDE DEF q, at
<1>3. ASSUME NEW k \in 1..n
      PROVE  q[k] \in In(it, s) /\ q[k] \in Messages /\ it[q[k]].pos = k - 1
  <2>1. k - 1 \in 0..(n - 1)  OBVIOUS
  <2>2. \E m \in In(it, s) : at(m) = k - 1  BY <1>1, <2>1 DEF Dense
  <2>3. q[k] \in In(it, s) /\ at(q[k]) = k - 1  BY <1>2, <2>2
  <2> QED  BY <1>1, <2>3 DEF In
<1>4. q \in Seq(Messages) /\ Len(q) = n /\ DOMAIN q = 1..n
  <2>1. q \in [1..n -> Messages]  BY <1>2, <1>3
  <2> QED  BY <2>1
<1>5. \A j, k \in DOMAIN q : q[j] = q[k] => j = k
  <2>1. \A j, k \in 1..n : j - 1 = k - 1 => j = k  OBVIOUS
  <2> QED  BY <1>3, <1>4, <2>1
<1>6. ASSUME NEW m \in In(it, s)
      PROVE  \E k \in DOMAIN q : m = q[k]
  <2>1. it[m].pos \in 0..(n - 1)  BY DEF Dense
  <2>2. it[m].pos + 1 \in 1..n /\ (it[m].pos + 1) - 1 = it[m].pos  BY <2>1
  <2>3. it[q[it[m].pos + 1]].pos = it[m].pos /\ q[it[m].pos + 1] \in In(it, s)
    BY <1>3, <2>2
  <2>4. q[it[m].pos + 1] = m  BY <2>3 DEF Dense
  <2> QED  BY <1>4, <2>2, <2>4
<1>7. ToSet(q) = In(it, s)
  <2>1. \A m \in ToSet(q) : m \in In(it, s)  BY <1>3, <1>4 DEF ToSet
  <2>2. \A m \in In(it, s) : m \in ToSet(q)  BY <1>6 DEF ToSet
  <2> QED  BY <2>1, <2>2
<1> QED  BY <1>3, <1>4, <1>5, <1>7 DEF q, IsOrder

\* There is one such list.
LEMMA ListsOnce ==
    ASSUME NEW it, Rows(it), NEW s, NEW n \in Nat, Dense(it, s, n),
           NEW q, IsOrder(it, s, q)
    PROVE  q = Ordered(it, s)
<1> DEFINE o == Ordered(it, s)
<1>1. IsOrder(it, s, o) /\ Len(o) = n  BY OrderedLists
<1> HIDE DEF o
<1>2. q \in Seq(Messages) /\ DOMAIN q = 1..Len(q) /\ Len(q) \in Nat
      /\ o \in Seq(Messages) /\ DOMAIN o = 1..n
  BY <1>1 DEF IsOrder
<1>3. \A k \in 1..Len(q) : q[k] \in In(it, s) /\ it[q[k]].pos = k - 1
  BY <1>2 DEF IsOrder, ToSet
<1>4. \A k \in 1..n : o[k] \in In(it, s) /\ it[o[k]].pos = k - 1
  BY <1>1, <1>2 DEF IsOrder, ToSet
<1>5. \A k \in 1..Len(q) : k \in 1..n
  <2>1. \A k \in 1..Len(q) : k - 1 \in 0..(n - 1)  BY <1>3 DEF Dense
  <2> QED  BY <2>1
<1>6. \A k \in 1..n : k \in 1..Len(q)
  <2>1. ASSUME NEW k \in 1..n
        PROVE  k \in 1..Len(q)
    <3>1. PICK m \in In(it, s) : it[m].pos = k - 1  BY <1>4
    <3>2. PICK j \in 1..Len(q) : m = q[j]  BY <1>2 DEF IsOrder, ToSet
    <3>3. j - 1 = k - 1  BY <1>3, <3>1, <3>2
    <3> QED  BY <3>3
  <2> QED  BY <2>1
<1>7. Len(q) = n
  <2>1. Len(q) <= n
    <3>1. CASE Len(q) = 0  BY <3>1
    <3>2. CASE Len(q) # 0
      <4>1. Len(q) \in 1..Len(q)  BY <1>2, <3>2
      <4> QED  BY <1>5, <4>1
    <3> QED  BY <3>1, <3>2
  <2>2. n <= Len(q)
    <3>1. CASE n = 0  BY <1>2, <3>1
    <3>2. CASE n # 0
      <4>1. n \in 1..n  BY <3>2
      <4> QED  BY <1>6, <4>1
    <3> QED  BY <3>1, <3>2
  <2>3. Len(q) \in Nat  BY <1>2
  <2> QED  BY <2>1, <2>2, <2>3
<1>8. ASSUME NEW k \in 1..n
      PROVE  q[k] = o[k]
  <2>1. q[k] \in In(it, s) /\ o[k] \in In(it, s) /\ it[q[k]].pos = it[o[k]].pos
    BY <1>3, <1>4, <1>7
  <2> QED  BY <2>1 DEF Dense
<1>9. q = [k \in 1..n |-> q[k]] /\ o = [k \in 1..n |-> o[k]]  BY <1>2, <1>7
<1> QED  BY <1>8, <1>9 DEF o

-----------------------------------------------------------------------------
(* Moves.                                                                  *)

\* A list without one of its elements.
LEMMA WithoutIs ==
    ASSUME NEW q \in Seq(Messages), \A j, k \in DOMAIN q : q[j] = q[k] => j = k,
           NEW p \in DOMAIN q
    PROVE  /\ Without(q, q[p]) \in Seq(Messages)
           /\ Len(Without(q, q[p])) = Len(q) - 1
           /\ \A k \in 1..(Len(q) - 1) :
                Without(q, q[p])[k] = IF k < p THEN q[k] ELSE q[k + 1]
<1>1. (CHOOSE k \in DOMAIN q : q[k] = q[p]) = p  OBVIOUS
<1>2. Without(q, q[p]) = SubSeq(q, 1, p - 1) \o SubSeq(q, p + 1, Len(q))
  BY <1>1 DEF Without, RemoveAt
<1>3. p \in 1..Len(q) /\ Len(q) \in Nat  OBVIOUS
<1> DEFINE a == SubSeq(q, 1, p - 1)
           b == SubSeq(q, p + 1, Len(q))
<1>4. /\ a \in Seq(Messages) /\ Len(a) = p - 1
      /\ \A k \in 1..(p - 1) : a[k] = q[k]
  BY <1>3
<1>5. /\ b \in Seq(Messages) /\ Len(b) = Len(q) - p
      /\ \A k \in 1..(Len(q) - p) : b[k] = q[k + p]
  BY <1>3
<1> HIDE DEF a, b
<1>6. /\ a \o b \in Seq(Messages) /\ Len(a \o b) = Len(a) + Len(b)
      /\ \A k \in 1..(Len(a) + Len(b)) : (a \o b)[k] = IF k <= Len(a) THEN a[k] ELSE b[k - Len(a)]
  BY <1>4, <1>5, ConcatProperties
<1>7. ASSUME NEW k \in 1..(Len(q) - 1)
      PROVE  (a \o b)[k] = IF k < p THEN q[k] ELSE q[k + 1]
  <2>0. Len(a) + Len(b) = Len(q) - 1  BY <1>3, <1>4, <1>5
  <2>1. (a \o b)[k] = IF k <= p - 1 THEN a[k] ELSE b[k - (p - 1)]  BY <1>4, <1>6, <2>0
  <2>2. CASE k < p  BY <1>3, <1>4, <2>1, <2>2
  <2>3. CASE ~(k < p)
    <3>1. k - (p - 1) \in 1..(Len(q) - p) /\ (k - (p - 1)) + p = k + 1  BY <1>3, <2>3
    <3>2. b[k - (p - 1)] = q[k + 1]  BY <1>5, <3>1
    <3> QED  BY <1>3, <2>1, <2>3, <3>2
  <2> QED  BY <2>2, <2>3
<1>8. Len(a \o b) = Len(q) - 1  BY <1>3, <1>4, <1>5, <1>6
<1> QED  BY <1>2, <1>6, <1>7, <1>8 DEF a, b

\* A list with one more element.
LEMMA InsertIs ==
    ASSUME NEW q \in Seq(Messages), NEW i \in 1..(Len(q) + 1), NEW m \in Messages
    PROVE  /\ InsertAt(q, i, m) \in Seq(Messages)
           /\ Len(InsertAt(q, i, m)) = Len(q) + 1
           /\ \A k \in 1..(Len(q) + 1) :
                InsertAt(q, i, m)[k] = IF k < i THEN q[k] ELSE IF k = i THEN m ELSE q[k - 1]
<1> DEFINE a == SubSeq(q, 1, i - 1)
           b == SubSeq(q, i, Len(q))
           c == a \o <<m>>
<1>1. Len(q) \in Nat  OBVIOUS
<1>2. /\ a \in Seq(Messages) /\ Len(a) = i - 1
      /\ \A k \in 1..(i - 1) : a[k] = q[k]
  BY <1>1
<1>3. /\ b \in Seq(Messages) /\ Len(b) = Len(q) - i + 1
      /\ \A k \in 1..(Len(q) - i + 1) : b[k] = q[k + i - 1]
  BY <1>1
<1>4. InsertAt(q, i, m) = c \o b  BY DEF InsertAt
<1> HIDE DEF a, b
<1>5. /\ c \in Seq(Messages) /\ Len(c) = i
      /\ \A k \in 1..i : c[k] = IF k < i THEN a[k] ELSE m
  BY <1>1, <1>2
<1> HIDE DEF c
<1>6. /\ c \o b \in Seq(Messages) /\ Len(c \o b) = i + Len(b)
      /\ \A k \in 1..(i + Len(b)) : (c \o b)[k] = IF k <= i THEN c[k] ELSE b[k - i]
  BY <1>3, <1>5, ConcatProperties
<1>7. i + Len(b) = Len(q) + 1  BY <1>1, <1>3
<1>8. ASSUME NEW k \in 1..(Len(q) + 1)
      PROVE  (c \o b)[k] = IF k < i THEN q[k] ELSE IF k = i THEN m ELSE q[k - 1]
  <2>1. (c \o b)[k] = IF k <= i THEN c[k] ELSE b[k - i]  BY <1>6, <1>7
  <2>2. CASE k <= i
    <3>1. k \in 1..i  BY <2>2
    <3>2. (c \o b)[k] = IF k < i THEN a[k] ELSE m  BY <1>5, <2>1, <2>2, <3>1
    <3>3. k < i => a[k] = q[k]  BY <1>2, <2>2
    <3> QED  BY <2>2, <3>2, <3>3
  <2>3. CASE ~(k <= i)
    <3>1. k - i \in 1..(Len(q) - i + 1) /\ (k - i) + i - 1 = k - 1  BY <1>1, <2>3
    <3>2. b[k - i] = q[k - 1]  BY <1>3, <3>1
    <3> QED  BY <2>1, <2>3, <3>2
  <2> QED  BY <2>2, <2>3
<1> QED  BY <1>4, <1>6, <1>7, <1>8
\* Moving an element of a list keeps its elements, each once.
LEMMA MoveKeeps ==
    ASSUME NEW q \in Seq(Messages), \A j, k \in DOMAIN q : q[j] = q[k] => j = k,
           NEW m \in ToSet(q), NEW i \in 1..Len(q)
    PROVE  LET o == InsertAt(Without(q, m), i, m) IN
           /\ o \in Seq(Messages) /\ Len(o) = Len(q)
           /\ \A j, k \in DOMAIN o : o[j] = o[k] => j = k
           /\ ToSet(o) = ToSet(q)
<1>0. PICK p \in DOMAIN q : m = q[p]  BY DEF ToSet
<1> DEFINE w == Without(q, m)
           o == InsertAt(w, i, m)
           \* where the element at place k of the new list comes from
           from(k) == IF k = i THEN p
                      ELSE IF k < i THEN (IF k < p THEN k ELSE k + 1)
                      ELSE (IF k - 1 < p THEN k - 1 ELSE k)
           l == Len(q)
<1>1. l \in Nat /\ p \in 1..l /\ DOMAIN q = 1..l /\ m \in Messages /\ i \in 1..l
  BY <1>0
<1>2. /\ w \in Seq(Messages) /\ Len(w) = l - 1
      /\ \A k \in 1..(l - 1) : w[k] = IF k < p THEN q[k] ELSE q[k + 1]
  BY <1>0, WithoutIs
<1> HIDE DEF w
<1>3. i \in 1..(Len(w) + 1) /\ Len(w) + 1 = l  BY <1>1, <1>2
<1>4. /\ o \in Seq(Messages) /\ Len(o) = l
      /\ \A k \in 1..l : o[k] = IF k < i THEN w[k] ELSE IF k = i THEN m ELSE w[k - 1]
  BY <1>1, <1>2, <1>3, InsertIs
<1> HIDE DEF o, l
<1>5. ASSUME NEW k \in 1..l
      PROVE  o[k] = q[from(k)] /\ from(k) \in 1..l
  <2>1. CASE k = i  BY <1>0, <1>1, <1>4, <2>1
  <2>2. CASE k < i
    <3>1. k \in 1..(l - 1)  BY <1>1, <2>2
    <3>2. o[k] = IF k < p THEN q[k] ELSE q[k + 1]  BY <1>2, <1>4, <2>2, <3>1
    <3> QED  BY <1>1, <2>2, <3>1, <3>2
  <2>3. CASE k > i
    <3>1. k - 1 \in 1..(l - 1) /\ (k - 1) + 1 = k  BY <1>1, <2>3
    <3>2. o[k] = w[k - 1]  BY <1>1, <1>4, <2>3
    <3>3. o[k] = IF k - 1 < p THEN q[k - 1] ELSE q[k]  BY <1>2, <3>1, <3>2
    <3> QED  BY <1>1, <2>3, <3>1, <3>3
  <2> QED  BY <1>1, <2>1, <2>2, <2>3
<1>6. \A j, k \in 1..l : from(j) = from(k) => j = k  BY <1>1
<1>7. ASSUME NEW k \in 1..l
      PROVE  \E j \in 1..l : from(j) = k
  <2>1. CASE k = p  BY <1>1, <2>1
  <2>2. CASE k < p
    <3>1. CASE k < i  BY <1>1, <2>2, <3>1
    <3>2. CASE ~(k < i)
      <4>1. k + 1 \in 1..l /\ from(k + 1) = k  BY <1>1, <2>2, <3>2
      <4> QED  BY <4>1
    <3> QED  BY <3>1, <3>2
  <2>3. CASE k > p
    <3>1. CASE k - 1 < i
      <4>1. k - 1 \in 1..l /\ from(k - 1) = k  BY <1>1, <2>3, <3>1
      <4> QED  BY <4>1
    <3>2. CASE ~(k - 1 < i)  BY <1>1, <2>3, <3>2
    <3> QED  BY <3>1, <3>2
  <2> QED  BY <1>1, <2>1, <2>2, <2>3
<1> HIDE DEF from
<1>8. DOMAIN o = 1..l  BY <1>4
<1>9. \A j, k \in DOMAIN o : o[j] = o[k] => j = k
  <2>1. \A a, b \in 1..l : q[a] = q[b] => a = b  BY <1>1
  <2> QED  BY <1>5, <1>6, <1>8, <2>1
<1>10. ToSet(o) = ToSet(q)
  <2>1. \A x \in ToSet(o) : x \in ToSet(q)  BY <1>1, <1>5, <1>8 DEF ToSet
  <2>2. ASSUME NEW k \in 1..l
        PROVE  \E j \in 1..l : o[j] = q[k]
    <3>1. PICK j \in 1..l : from(j) = k  BY <1>7
    <3>2. o[j] = q[from(j)]  BY <1>5
    <3> QED  BY <3>1, <3>2
  <2>3. ASSUME NEW x \in ToSet(q)
        PROVE  x \in ToSet(o)
    <3>1. PICK k \in 1..l : x = q[k]  BY <1>1 DEF ToSet
    <3>2. PICK j \in 1..l : o[j] = x  BY <2>2, <3>1
    <3> QED  BY <1>8, <3>2 DEF ToSet
  <2> QED  BY <2>1, <2>3
<1> QED  BY <1>4, <1>9, <1>10 DEF o, w, l

\* The rows as reorder_queue leaves them.
Reordered(it, o) ==
    [q \in Messages |->
        IF q \in ToSet(o)
          THEN Moved(it[q], (CHOOSE k \in DOMAIN o : o[k] = q) - 1, it[q].version + 1)
          ELSE it[q]]

\* The UPDATEs of reorder_queue put the rows of a session in any order of them, and
\* meet no position that is taken.
LEMMA ReorderQueueWorks ==
    ASSUME NEW it, Lists(it), NEW s \in Sessions, NEW o \in Seq(Messages), o # <<>>,
           \A j, k \in DOMAIN o : o[j] = o[k] => j = k, ToSet(o) = In(it, s)
    PROVE  ReorderQueue(it, s, o) = [items |-> Reordered(it, o), clash |-> FALSE]
<1> DEFINE rows == ToSet(o)
           offset == Max({it[m].pos : m \in rows}) + Len(o) + 1
           up == [m \in rows |-> it[m].pos + offset]
           lifted == Bump(SetPositions(it, up), rows)
           place0(m) == (CHOOSE k \in DOMAIN o : o[k] = m) - 1
           down == [m \in rows |-> (CHOOSE k \in DOMAIN o : o[k] = m) - 1]
<1>1. ReorderQueue(it, s, o) =
        [items |-> SetPositions(lifted, down),
         clash |-> \/ Clash(it, s, up)
                   \/ \E j, k \in DOMAIN o : j < k /\ j - 1 = lifted[o[k]].pos]
  BY DEF ReorderQueue
<1>2. Rows(it)  BY DEF Lists
<1>3. PICK n \in Nat : Dense(it, s, n)  BY DenseOf
<1>4. Len(o) \in Nat /\ DOMAIN o = 1..Len(o)  OBVIOUS
<1>5. In(it, s) # {}
  <2>1. Len(o) # 0  BY <1>4
  <2>2. 1 \in DOMAIN o  BY <1>4, <2>1
  <2>3. o[1] \in ToSet(o)  BY <2>2 DEF ToSet
  <2> QED  BY <2>3
<1>6. n # 0 /\ Max({it[m].pos : m \in rows}) = n - 1
  <2>1. n # 0  BY <1>2, <1>3, <1>5, NextIsCount
  <2>2. {it[m].pos : m \in rows} = 0..(n - 1)  BY <1>2, <1>3, DenseCount DEF Positions
  <2> QED  BY <2>1, <2>2, MaxTo
<1>7. offset = n + Len(o)  BY <1>4, <1>6
<1> HIDE DEF offset
<1>8. ASSUME NEW m \in rows
      PROVE  /\ m \in In(it, s) /\ m \in Messages /\ it[m] \in ItemRow
             /\ it[m].pos \in 0..(n - 1) /\ it[m].version \in Nat
             /\ it[m].pos + offset \in Nat /\ up[m] = it[m].pos + offset
  <2>1. m \in In(it, s) /\ m \in Messages /\ it[m] \in ItemRow  BY <1>2, InRows
  <2>2. it[m].version \in Nat  BY <2>1, RowFields
  <2>3. it[m].pos \in 0..(n - 1)  BY <1>3, <2>1 DEF Dense
  <2> QED  BY <1>4, <1>7, <2>1, <2>2, <2>3
<1>9. DOMAIN up = rows /\ DOMAIN down = rows
  OBVIOUS
<1>10. ~Clash(it, s, up)
  <2>1. \A m, x \in rows : it[m].pos + offset # it[x].pos  BY <1>4, <1>7, <1>8
  <2>2. \A m, x \in rows : m # x => it[m].pos # it[x].pos
    BY <1>3 DEF Dense
  <2>3. \A m, x \in rows : m # x => up[m] # up[x]  BY <1>4, <1>7, <1>8, <2>2
  <2>4. \A m, x \in rows : up[m] # it[x].pos  BY <1>8, <2>1
  <2> HIDE DEF up
  <2> QED  BY <1>9, <2>3, <2>4 DEF Clash
<1>11. ASSUME NEW m \in Messages
       PROVE  lifted[m] = IF m \in rows THEN Moved(it[m], it[m].pos + offset, it[m].version + 1)
                          ELSE it[m]
  <2>1. CASE m \in rows
    <3>1. SetPositions(it, up)[m] = [it[m] EXCEPT !.pos = it[m].pos + offset]
      BY <1>8, <1>9, <2>1 DEF SetPositions
    <3>2. lifted[m] = [[it[m] EXCEPT !.pos = it[m].pos + offset] EXCEPT !.version = @ + 1]
      BY <2>1, <3>1 DEF Bump
    <3>3. it[m] \in ItemRow  BY <1>8, <2>1
    <3> QED  BY <2>1, <3>2, <3>3, MovedTwice
  <2>2. CASE m \notin rows
    <3>1. SetPositions(it, up)[m] = it[m]  BY <1>9, <2>2 DEF SetPositions
    <3> QED  BY <2>2, <3>1 DEF Bump
  <2> QED  BY <2>1, <2>2
<1> HIDE DEF lifted, up
<1>12. ASSUME NEW j \in DOMAIN o, NEW k \in DOMAIN o
       PROVE  j - 1 # lifted[o[k]].pos
  <2>1. o[k] \in rows  BY DEF ToSet
  <2>2. lifted[o[k]] = Moved(it[o[k]], it[o[k]].pos + offset, it[o[k]].version + 1)
    BY <1>8, <1>11, <2>1
  <2>3. it[o[k]] \in ItemRow /\ it[o[k]].pos + offset \in Nat /\ it[o[k]].version + 1 \in Nat
    BY <1>8, <2>1
  <2>4. PICK a \in Nat, v \in Nat : a = it[o[k]].pos + offset /\ v = it[o[k]].version + 1
    BY <2>3
  <2>5. Moved(it[o[k]], a, v).pos = a  BY <2>3, MovedRow
  <2>6. lifted[o[k]].pos = it[o[k]].pos + offset  BY <2>2, <2>4, <2>5
  <2>7. it[o[k]].pos \in 0..(n - 1)  BY <1>8, <2>1
  <2>8. j \in 1..Len(o)  BY <1>4
  <2> QED  BY <1>4, <1>7, <2>6, <2>7, <2>8
<1>13. SetPositions(lifted, down) = Reordered(it, o)
  <2>1. ASSUME NEW m \in Messages
        PROVE  SetPositions(lifted, down)[m] = Reordered(it, o)[m]
    <3>1. CASE m \in rows
      <4>1. SetPositions(lifted, down)[m] = [lifted[m] EXCEPT !.pos = place0(m)]
        BY <3>1 DEF SetPositions
      <4>2. it[m] \in ItemRow  BY <1>8, <3>1
      <4>3. lifted[m] = Moved(it[m], it[m].pos + offset, it[m].version + 1)
        BY <1>11, <3>1
      <4> HIDE DEF place0
      <4>4. SetPositions(lifted, down)[m] = Moved(it[m], place0(m), it[m].version + 1)
        BY <4>1, <4>2, <4>3, MovedAgain
      <4>5. Reordered(it, o)[m] = Moved(it[m], place0(m), it[m].version + 1)
        BY <3>1 DEF Reordered, place0
      <4> QED  BY <4>4, <4>5
    <3>2. CASE m \notin rows
      <4>1. SetPositions(lifted, down)[m] = lifted[m]  BY <1>9, <3>2 DEF SetPositions
      <4>2. Reordered(it, o)[m] = it[m]  BY <3>2 DEF Reordered
      <4> QED  BY <1>11, <3>2, <4>1, <4>2
    <3> QED  BY <3>1, <3>2
  <2>2. /\ SetPositions(lifted, down) = [m \in Messages |-> SetPositions(lifted, down)[m]]
        /\ Reordered(it, o) = [m \in Messages |-> Reordered(it, o)[m]]
    BY DEF SetPositions, Reordered
  <2> QED  BY <2>1, <2>2
<1> QED  BY <1>1, <1>10, <1>12, <1>13 DEF lifted, up, offset

\* What is in an order stays in it, where the order says.
LEMMA ReorderedKeeps ==
    ASSUME NEW it, Lists(it), NEW s \in Sessions, NEW o \in Seq(Messages),
           \A j, k \in DOMAIN o : o[j] = o[k] => j = k, ToSet(o) = In(it, s)
    PROVE  /\ Lists(Reordered(it, o))
           /\ \A m \in Messages : Reordered(it, o)[m] # None <=> it[m] # None
           /\ \A m \in Messages : it[m] # None =>
                \/ Reordered(it, o)[m] = it[m]
                \/ Reordered(it, o)[m].version = it[m].version + 1
           /\ IsOrder(Reordered(it, o), s, o)
           /\ \A z \in Sessions \ {s} : /\ In(Reordered(it, o), z) = In(it, z)
                                        /\ \A m \in In(it, z) : Reordered(it, o)[m].pos = it[m].pos
<1> DEFINE it2 == Reordered(it, o)
           at(m) == (CHOOSE k \in DOMAIN o : o[k] = m) - 1
<1>1. Rows(it)  BY DEF Lists
<1>2. Len(o) \in Nat /\ DOMAIN o = 1..Len(o)  OBVIOUS
<1>3. \A m \in Messages \ ToSet(o) : it2[m] = it[m]  BY DEF Reordered
<1>4. ASSUME NEW k \in DOMAIN o
      PROVE  /\ o[k] \in In(it, s) /\ o[k] \in ToSet(o)
             /\ it2[o[k]] \in ItemRow /\ it2[o[k]] # None
             /\ it2[o[k]].session = s /\ it2[o[k]].pos = k - 1
             /\ it2[o[k]].version = it[o[k]].version + 1
  <2>1. o[k] \in ToSet(o) /\ o[k] \in In(it, s)  BY DEF ToSet
  <2>2. /\ o[k] \in Messages /\ it[o[k]] # None /\ it[o[k]].session = s
        /\ it[o[k]] \in ItemRow
    BY <1>1, <2>1, InRows
  <2>3. it[o[k]].version \in Nat  BY <2>2, RowFields
  <2>4. (CHOOSE j \in DOMAIN o : o[j] = o[k]) = k  OBVIOUS
  <2>5. it2[o[k]] = Moved(it[o[k]], k - 1, it[o[k]].version + 1)
    BY <2>1, <2>2, <2>4 DEF Reordered
  <2>6. PICK a \in Nat, v \in Nat : a = k - 1 /\ v = it[o[k]].version + 1
    BY <1>2, <2>3
  <2> HIDE DEF it2
  <2>7. it2[o[k]] = Moved(it[o[k]], a, v)  BY <2>5, <2>6
  <2>8. /\ Moved(it[o[k]], a, v) \in ItemRow /\ Moved(it[o[k]], a, v) # None
        /\ Moved(it[o[k]], a, v).session = it[o[k]].session
        /\ Moved(it[o[k]], a, v).pos = a /\ Moved(it[o[k]], a, v).version = v
    <3>1. it[o[k]] \in ItemRow  BY <2>2
    <3>2. Moved(it[o[k]], a, v) \in ItemRow  BY <3>1, MovedRow
    <3> DEFINE x == it[o[k]]
    <3> HIDE DEF x
    <3>3b. x \in ItemRow  BY <3>1 DEF x
    <3>3a. Moved(x, a, v).session = x.session  BY <3>3b, MovedRow
    <3>3. Moved(it[o[k]], a, v).session = it[o[k]].session  BY <3>3a DEF x
    <3>4. Moved(it[o[k]], a, v).pos = a  BY <3>1, MovedRow
    <3>5. Moved(it[o[k]], a, v).version = v  BY <3>1, MovedRow
    <3> QED  BY <3>2, <3>3, <3>4, <3>5, RowFields
  <2> QED  BY <2>1, <2>2, <2>6, <2>7, <2>8
<1>5. \A m \in ToSet(o) : \E k \in DOMAIN o : m = o[k]  BY DEF ToSet
<1>6. ToSet(o) \subseteq Messages  BY DEF In
<1>7. Rows(it2)
  <2>1. \A m \in Messages : it2[m] \in ItemRow \cup {None}
    BY <1>1, <1>3, <1>4, <1>5 DEF Rows
  <2>2. it2 = [m \in Messages |-> it2[m]]  BY DEF Reordered
  <2> QED  BY <2>1, <2>2 DEF Rows
<1> HIDE DEF it2
<1>8. \A m \in Messages : it2[m] # None <=> it[m] # None
  <2>1. \A m \in ToSet(o) : it2[m] # None  BY <1>4, <1>5
  <2>2. \A m \in ToSet(o) : it[m] # None  BY DEF In
  <2> QED  BY <1>3, <2>1, <2>2
<1>9. \A m \in Messages : it[m] # None =>
        it2[m] = it[m] \/ it2[m].version = it[m].version + 1
  BY <1>3, <1>4, <1>5
<1>10. In(it2, s) = In(it, s)
  <2>1. \A m \in ToSet(o) : it2[m] # None /\ it2[m].session = s  BY <1>4, <1>5
  <2> QED  BY <1>3, <1>6, <2>1 DEF In
<1>11. IsOrder(it2, s, o)  BY <1>4, <1>10 DEF IsOrder
<1>12. ASSUME NEW z \in Sessions \ {s}
       PROVE  In(it2, z) = In(it, z) /\ \A m \in In(it, z) : it2[m].pos = it[m].pos
  <2>1. \A m \in ToSet(o) : it2[m].session = s  BY <1>4, <1>5
  <2>2. \A m \in ToSet(o) : it[m].session = s  BY DEF In
  <2>3. In(it2, z) = In(it, z)
    <3>1. \A m \in ToSet(o) : m \notin In(it2, z) /\ m \notin In(it, z)
      BY <2>1, <2>2 DEF In
    <3>2. \A m \in Messages \ ToSet(o) : m \in In(it2, z) <=> m \in In(it, z)
      BY <1>3 DEF In
    <3>3. In(it2, z) \subseteq Messages /\ In(it, z) \subseteq Messages  BY DEF In
    <3> QED  BY <3>1, <3>2, <3>3
  <2>4. \A m \in In(it, z) : m \in Messages \ ToSet(o)  BY <2>2 DEF In
  <2>5. \A m \in In(it, z) : it2[m].pos = it[m].pos  BY <1>3, <2>4
  <2> QED  BY <2>3, <2>5
<1>13. Dense(it2, s, Len(o))
  <2>1. \A m \in In(it2, s) : \E k \in 1..Len(o) : m = o[k] /\ it2[m].pos = k - 1
    BY <1>2, <1>4, <1>5, <1>10
  <2>2. \A m \in In(it2, s) : it2[m].pos \in 0..(Len(o) - 1)  BY <1>2, <2>1
  <2>3. ASSUME NEW a \in In(it2, s), NEW b \in In(it2, s), it2[a].pos = it2[b].pos
        PROVE  a = b
    <3>1. PICK j \in 1..Len(o) : a = o[j] /\ it2[a].pos = j - 1  BY <2>1
    <3>2. PICK k \in 1..Len(o) : b = o[k] /\ it2[b].pos = k - 1  BY <2>1
    <3>3. j = k  BY <2>3, <3>1, <3>2
    <3> QED  BY <3>1, <3>2, <3>3
  <2>4. ASSUME NEW k \in 0..(Len(o) - 1)
        PROVE  \E m \in In(it2, s) : it2[m].pos = k
    <3>1. k + 1 \in DOMAIN o /\ (k + 1) - 1 = k  BY <1>2
    <3>2. o[k + 1] \in In(it2, s) /\ it2[o[k + 1]].pos = (k + 1) - 1
      BY <1>4, <1>10, <3>1
    <3> QED  BY <3>1, <3>2
  <2>5. \A a, b \in In(it2, s) : it2[a].pos = it2[b].pos => a = b  BY <2>3
  <2>6. \A k \in 0..(Len(o) - 1) : \E m \in In(it2, s) : it2[m].pos = k  BY <2>4
  <2> QED  BY <2>2, <2>5, <2>6 DEF Dense
<1>14. ASSUME NEW z \in Sessions
       PROVE  \E n \in Nat : Dense(it2, z, n)
  <2>1. CASE z = s  BY <1>2, <1>13, <2>1
  <2>2. CASE z # s
    <3>1. PICK n \in Nat : Dense(it, z, n)  BY DenseOf
    <3>2. Dense(it2, z, n)  BY <1>12, <2>2, <3>1, SameDense
    <3> QED  BY <3>2
  <2> QED  BY <2>1, <2>2
<1>15. Lists(it2)  BY <1>7, <1>14 DEF Lists, AllDense
<1> QED  BY <1>8, <1>9, <1>11, <1>12, <1>15 DEF it2

\* Moving a row: the place a client asks for names an order of the session.
LEMMA MoveToOrder ==
    ASSUME NEW it, Lists(it), NEW m \in Messages, it[m] # None, NEW position \in Nat
    PROVE  LET q == Ordered(it, it[m].session)
               others == Without(q, m)
               i == Min({position, Len(others)}) + 1
               o == InsertAt(others, i, m)
           IN  /\ q \in Seq(Messages) /\ m \in ToSet(q) /\ i \in 1..Len(q)
               /\ o \in Seq(Messages) /\ o # <<>>
               /\ \A j, k \in DOMAIN o : o[j] = o[k] => j = k
               /\ ToSet(o) = In(it, it[m].session)
<1> DEFINE s == it[m].session
           q == Ordered(it, s)
           others == Without(q, m)
           i == Min({position, Len(others)}) + 1
           o == InsertAt(others, i, m)
<1>1. Rows(it) /\ s \in Sessions /\ m \in In(it, s)  BY RowIn DEF Lists, In
<1>2. PICK n \in Nat : Dense(it, s, n)  BY <1>1, DenseOf
<1>3. IsOrder(it, s, q)  BY <1>1, <1>2, OrderedLists
<1> HIDE DEF q
<1>4. PICK p \in DOMAIN q : m = q[p]  BY <1>1, <1>3 DEF IsOrder, ToSet
<1>5. /\ q \in Seq(Messages) /\ \A j, k \in DOMAIN q : q[j] = q[k] => j = k
      /\ ToSet(q) = In(it, s)
  BY <1>3 DEF IsOrder
<1>6. Len(others) = Len(q) - 1  BY <1>4, <1>5, WithoutIs
<1>7. Len(q) \in Nat /\ Len(q) # 0  BY <1>4, <1>5
<1>8. Min({position, Len(others)}) \in 0..(Len(q) - 1)
  <2>1. \E x \in {position, Len(others)} : \A y \in {position, Len(others)} : x <= y
    BY <1>6, <1>7
  <2>2. /\ Min({position, Len(others)}) \in {position, Len(others)}
        /\ \A y \in {position, Len(others)} : Min({position, Len(others)}) <= y
    BY <2>1 DEF Min
  <2> QED  BY <1>6, <1>7, <2>2
<1>9. i \in 1..Len(q)  BY <1>7, <1>8
<1> HIDE DEF i
<1>12. m \in ToSet(q)  BY <1>1, <1>5
<1>10. /\ o \in Seq(Messages) /\ Len(o) = Len(q) /\ ToSet(o) = ToSet(q)
       /\ \A j, k \in DOMAIN o : o[j] = o[k] => j = k
  BY <1>5, <1>9, <1>12, MoveKeeps
<1>11. o # <<>>  BY <1>7, <1>10
<1> QED  BY <1>5, <1>9, <1>10, <1>11, <1>12 DEF q, i
-----------------------------------------------------------------------------
(* Runs and their replies.                                                 *)

\* A new Run.
LEMMA NewRunRow ==
    ASSUME NEW s \in Sessions \cup {None}, NEW p \in Plans \cup {None},
           NEW i \in Interventions \cup {None}, NEW mode \in {"normal", "read_only"}
    PROVE  LET x == NewRun(s, p, i, mode) IN
           /\ x \in RunRow /\ x.status = "running" /\ x.session = s /\ x.plan = p
           /\ x.reply = i /\ x.steers = <<>>
<1>1. <<>> \in Seq(Messages)  OBVIOUS
<1>2. NewRun(s, p, i, mode) \in RunRow  BY <1>1 DEF NewRun, RunRow, Live
<1> QED  BY <1>2 DEF NewRun

\* An intervention that is accepted stays what it is if it is not active.
LEMMA AcceptKeeps ==
    ASSUME NEW rr, NEW ivs, Replied(rr, ivs), NEW i \in Interventions \cup {None}
    PROVE  /\ Replied(rr, Accept(ivs, i))
           /\ \A j \in Interventions : Accept(ivs, i)[j] =
                IF j = i /\ ivs[j] = "active" THEN "replied" ELSE ivs[j]
<1> DEFINE ivs2 == Accept(ivs, i)
<1>0. None \notin Interventions  BY QueueAssumption
<1>1. ivs \in [Interventions -> Open \cup Ended \cup {"receipt"}]  BY DEF Replied
<1>2. /\ ivs2 \in [Interventions -> Open \cup Ended \cup {"receipt"}]
      /\ \A j \in Interventions : ivs2[j] =
                IF j = i /\ ivs[j] = "active" THEN "replied" ELSE ivs[j]
  BY <1>0, <1>1 DEF Accept, Open
<1> HIDE DEF ivs2
<1>3. rr \in [Runs -> RunRow] /\ ScopesTrue(rr)  BY DEF Replied
<1>3a. \A r \in Runs : rr[r].reply \in Interventions \cup {None}  BY <1>3 DEF RunRow
<1>4. ReplyTrue(rr, ivs2)
  <2>1. ReplyTrue(rr, ivs)  BY DEF Replied
  <2> QED  BY <1>2, <1>3a, <2>1 DEF ReplyTrue
<1>5. AnswersTrue(rr, ivs2)
  <2>1. AnswersTrue(rr, ivs)  BY DEF Replied
  <2>2. \A j \in Interventions : (ivs[j] \in Ended \/ ivs2[j] \in Ended) => ivs2[j] = ivs[j]
    BY <1>2 DEF Ended
  <2>3. ASSUME NEW r \in Runs, rr[r].status \in Ended, rr[r].reply # None
        PROVE  ivs2[rr[r].reply] = rr[r].status
    <3>1. ivs[rr[r].reply] = rr[r].status /\ rr[r].reply \in Interventions
      BY <1>3a, <2>1, <2>3 DEF AnswersTrue
    <3> QED  BY <2>2, <2>3, <3>1
  <2>4. ASSUME NEW j \in Interventions, ivs2[j] \in Ended
        PROVE  \E r \in Runs : rr[r].reply = j /\ rr[r].status = ivs2[j]
    BY <2>1, <2>2, <2>4 DEF AnswersTrue
  <2> QED  BY <2>3, <2>4 DEF AnswersTrue
<1> QED  BY <1>2, <1>3, <1>4, <1>5 DEF Replied, ivs2

\* A new Run in a free scope, whose reply target is open for it or which is an edit.
LEMMA AddReplied ==
    ASSUME NEW rr, NEW ivs, Replied(rr, ivs), NEW m \in Runs, rr[m].status = "absent",
           NEW x \in RunRow, x.status = "running", ScopeFree(rr, x.session, x.plan),
           x.reply # None =>
             /\ x.session = SessionOf[x.reply] /\ x.plan = PlanOf[x.session]
             /\ ivs[x.reply] \in {"replied", "receipt"} \/ x.edit
    PROVE  Replied([rr EXCEPT ![m] = x], ivs)
<1> DEFINE rr2 == [rr EXCEPT ![m] = x]
           s == x.session
           p == x.plan
<1>1. x \in RunRow /\ x.status = "running" /\ x.session = s /\ x.plan = p  OBVIOUS
<1> HIDE DEF s, p
<1>2. rr \in [Runs -> RunRow]  BY DEF Replied
<1>3. /\ rr2 \in [Runs -> RunRow] /\ rr2[m] = x
      /\ \A r \in Runs \ {m} : rr2[r] = rr[r]
  BY <1>1, <1>2
<1> HIDE DEF rr2
<1>5. ScopesTrue(rr2)
  <2>1. \A r \in Runs : rr[r].status \in Live /\ rr[r].plan = p
                         => p = None /\ rr[r].session # s
    BY DEF ScopeFree, s, p
  <2>2. ScopesTrue(rr)  BY DEF Replied
  <2>3. ASSUME NEW a \in Runs, NEW b \in Runs, rr2[a].status \in Live, rr2[b].status \in Live,
               rr2[a].plan = rr2[b].plan,
               rr2[a].plan = None => rr2[a].session = rr2[b].session
        PROVE  a = b
    <3>1. CASE a # m /\ b # m
      <4>1. rr2[a] = rr[a] /\ rr2[b] = rr[b]  BY <1>3, <3>1
      <4>2. {rr[a].status, rr[b].status} \subseteq Live  BY <2>3, <4>1
      <4> QED  BY <2>2, <2>3, <4>1, <4>2 DEF ScopesTrue
    <3>2. CASE a = m /\ b # m
      <4>1. rr2[a] = x /\ rr2[b] = rr[b]  BY <1>3, <3>2
      <4> QED  BY <1>1, <2>1, <2>3, <4>1
    <3>3. CASE a # m /\ b = m
      <4>1. rr2[b] = x /\ rr2[a] = rr[a]  BY <1>3, <3>3
      <4> QED  BY <1>1, <2>1, <2>3, <4>1
    <3> QED  BY <3>1, <3>2, <3>3
  <2> QED  BY <2>3 DEF ScopesTrue
<1>6. ReplyTrue(rr2, ivs)
  <2>1. ReplyTrue(rr, ivs)  BY DEF Replied
  <2>2. ASSUME NEW r \in Runs, rr2[r].reply # None
        PROVE  /\ rr2[r].session = SessionOf[rr2[r].reply]
               /\ rr2[r].plan = PlanOf[rr2[r].session]
               /\ rr2[r].status \in Live =>
                    ivs[rr2[r].reply] \in {"replied", "receipt"} \/ rr2[r].edit
    <3>1. CASE r = m  BY <1>3, <2>2, <3>1
    <3>2. CASE r # m
      <4>1. rr2[r] = rr[r]  BY <1>3, <3>2
      <4> QED  BY <2>1, <2>2, <4>1 DEF ReplyTrue
    <3> QED  BY <3>1, <3>2
  <2> QED  BY <2>2 DEF ReplyTrue
<1>7. AnswersTrue(rr2, ivs)
  <2>1. AnswersTrue(rr, ivs)  BY DEF Replied
  <2>2. x.status \notin Ended  BY <1>1 DEF Ended
  <2>3. ASSUME NEW r \in Runs, rr2[r].status \in Ended, rr2[r].reply # None
        PROVE  ivs[rr2[r].reply] = rr2[r].status
    <3>1. r # m  BY <1>3, <2>2, <2>3
    <3>2. rr2[r] = rr[r]  BY <1>3, <3>1
    <3> QED  BY <2>1, <2>3, <3>2 DEF AnswersTrue
  <2>4. ASSUME NEW j \in Interventions, ivs[j] \in Ended
        PROVE  \E r \in Runs : rr2[r].reply = j /\ rr2[r].status = ivs[j]
    <3>1. PICK r \in Runs : rr[r].reply = j /\ rr[r].status = ivs[j]
      BY <2>1, <2>4 DEF AnswersTrue
    <3>2. r # m  BY <2>4, <3>1 DEF Ended
    <3> QED  BY <1>3, <3>1, <3>2
  <2> QED  BY <2>3, <2>4 DEF AnswersTrue
<1> QED  BY <1>3, <1>5, <1>6, <1>7 DEF Replied, rr2

\* A new Run in a free scope, whose reply target is open and is accepted.
LEMMA StartReplied ==
    ASSUME NEW rr, NEW ivs, Replied(rr, ivs), NEW m \in Runs, rr[m].status = "absent",
           NEW s \in Sessions \cup {None}, NEW p \in Plans \cup {None},
           NEW i \in Interventions \cup {None}, NEW mode \in {"normal", "read_only"},
           ScopeFree(rr, s, p),
           i # None => s = SessionOf[i] /\ p = PlanOf[s] /\ ivs[i] \in Open
    PROVE  Replied([rr EXCEPT ![m] = NewRun(s, p, i, mode)], Accept(ivs, i))
<1> DEFINE x == NewRun(s, p, i, mode)
           ivs2 == Accept(ivs, i)
<1>1. /\ x \in RunRow /\ x.status = "running" /\ x.session = s /\ x.plan = p /\ x.reply = i
  <2>1. <<>> \in Seq(Messages)  OBVIOUS
  <2>2. x \in RunRow  BY <2>1 DEF NewRun, RunRow, Live
  <2> QED  BY <2>2 DEF NewRun
<1> HIDE DEF x
<1>2. Replied(rr, ivs2)  BY AcceptKeeps
<1>3. \A j \in Interventions : ivs2[j] =
                IF j = i /\ ivs[j] = "active" THEN "replied" ELSE ivs[j]
  BY AcceptKeeps
<1> HIDE DEF ivs2
<1>4. x.reply # None =>
          /\ x.session = SessionOf[x.reply] /\ x.plan = PlanOf[x.session]
          /\ ivs2[x.reply] \in {"replied", "receipt"}
  BY <1>1, <1>3 DEF Open
<1>5. Replied([rr EXCEPT ![m] = x], ivs2)
  BY <1>1, <1>2, <1>4, AddReplied
<1> QED  BY <1>5 DEF x, ivs2

\* Runs that keep their scopes and replies, and stay live or what they are.
LEMMA GoOnReplied ==
    ASSUME NEW rr, NEW ivs, Replied(rr, ivs), NEW rr2 \in [Runs -> RunRow],
           \A r \in Runs :
             /\ rr2[r].session = rr[r].session /\ rr2[r].plan = rr[r].plan
             /\ rr2[r].reply = rr[r].reply /\ rr2[r].edit = rr[r].edit
             /\ rr2[r].status = rr[r].status \/ {rr2[r].status, rr[r].status} \subseteq Live
    PROVE  Replied(rr2, ivs)
<1>1. ScopesTrue(rr) /\ ReplyTrue(rr, ivs) /\ AnswersTrue(rr, ivs)  BY DEF Replied
<1>2. Live \cap Ended = {}  BY DEF Live, Ended
<1>3. \A r \in Runs : rr2[r].status \in Live <=> rr[r].status \in Live  OBVIOUS
<1>4. \A r \in Runs : (rr2[r].status \in Ended \/ rr[r].status \in Ended) =>
                         rr2[r].status = rr[r].status
  BY <1>2
<1>5. ScopesTrue(rr2)
  <2>1. ASSUME NEW a \in Runs, NEW b \in Runs, {rr2[a].status, rr2[b].status} \subseteq Live,
               rr2[a].plan = rr2[b].plan,
               rr2[a].plan = None => rr2[a].session = rr2[b].session
        PROVE  a = b
    <3>1. {rr[a].status, rr[b].status} \subseteq Live  BY <1>3, <2>1
    <3> QED  BY <1>1, <2>1, <3>1 DEF ScopesTrue
  <2> QED  BY <2>1 DEF ScopesTrue
<1>6. ReplyTrue(rr2, ivs)  BY <1>1, <1>3 DEF ReplyTrue
<1>7. AnswersTrue(rr2, ivs)
  <2>1. ASSUME NEW r \in Runs, rr2[r].status \in Ended, rr2[r].reply # None
        PROVE  ivs[rr2[r].reply] = rr2[r].status
    BY <1>1, <1>4, <2>1 DEF AnswersTrue
  <2>2. ASSUME NEW j \in Interventions, ivs[j] \in Ended
        PROVE  \E r \in Runs : rr2[r].reply = j /\ rr2[r].status = ivs[j]
    <3>1. PICK r \in Runs : rr[r].reply = j /\ rr[r].status = ivs[j]
      BY <1>1, <2>2 DEF AnswersTrue
    <3> QED  BY <1>4, <2>2, <3>1
  <2> QED  BY <2>1, <2>2 DEF AnswersTrue
<1> QED  BY <1>5, <1>6, <1>7 DEF Replied

\* The Runs once r has ended.
LEMMA EndedRuns ==
    ASSUME NEW rr \in [Runs -> RunRow], NEW r \in Runs, NEW st \in Ended
    PROVE  LET rr2 == [rr EXCEPT ![r].status = st, ![r].steers = <<>>] IN
           /\ rr2 \in [Runs -> RunRow]
           /\ rr2[r].status = st /\ rr2[r].steers = <<>>
           /\ rr2[r].session = rr[r].session /\ rr2[r].plan = rr[r].plan
           /\ rr2[r].reply = rr[r].reply
           /\ \A a \in Runs \ {r} : rr2[a] = rr[a]
<1> DEFINE rr2 == [rr EXCEPT ![r].status = st, ![r].steers = <<>>]
           x == [rr[r] EXCEPT !.status = st, !.steers = <<>>]
<1>1. rr[r] \in RunRow /\ <<>> \in Seq(Messages)  OBVIOUS
<1>2. x \in RunRow  BY <1>1 DEF RunRow
<1>3. /\ x.status = st /\ x.steers = <<>> /\ x.session = rr[r].session
      /\ x.plan = rr[r].plan /\ x.reply = rr[r].reply
  BY <1>1 DEF RunRow
<1>4. rr2[r] = x /\ \A a \in Runs \ {r} : rr2[a] = rr[a]  OBVIOUS
<1>5. rr2 = [a \in Runs |-> rr2[a]]  OBVIOUS
<1> HIDE DEF rr2, x
<1>6. \A a \in Runs : rr2[a] \in RunRow  BY <1>2, <1>4
<1>7. rr2 \in [Runs -> RunRow]  BY <1>5, <1>6
<1> QED  BY <1>3, <1>4, <1>7 DEF rr2

\* A Run that ends closes its reply target, on which nobody else works.
LEMMA EndReplied ==
    ASSUME Replied(run, iv), NEW r \in Runs, run[r].status \in Live, NEW st \in Ended,
           ~CloseConflict(r, st)
    PROVE  /\ Replied([run EXCEPT ![r].status = st, ![r].steers = <<>>], Closed(r, st))
           /\ \A i \in Interventions : iv[i] = "receipt" => Closed(r, st)[i] = "receipt"
<1> DEFINE rr2 == [run EXCEPT ![r].status = st, ![r].steers = <<>>]
           ivs2 == Closed(r, st)
           i == run[r].reply
<1>1. /\ run \in [Runs -> RunRow] /\ iv \in [Interventions -> Open \cup Ended \cup {"receipt"}]
      /\ ScopesTrue(run) /\ ReplyTrue(run, iv) /\ AnswersTrue(run, iv)
  BY DEF Replied
<1>2. /\ rr2 \in [Runs -> RunRow]
      /\ rr2[r].status = st
      /\ rr2[r].session = run[r].session /\ rr2[r].plan = run[r].plan
      /\ rr2[r].reply = run[r].reply
      /\ \A a \in Runs \ {r} : rr2[a] = run[a]
  <2>1. LET z == [run EXCEPT ![r].status = st, ![r].steers = <<>>] IN
           /\ z \in [Runs -> RunRow]
           /\ z[r].status = st /\ z[r].steers = <<>>
           /\ z[r].session = run[r].session /\ z[r].plan = run[r].plan
           /\ z[r].reply = run[r].reply
           /\ \A a \in Runs \ {r} : z[a] = run[a]
    BY <1>1, EndedRuns
  <2> QED  BY <2>1
<1> HIDE DEF rr2
<1>3. \A a \in Runs : run[a].reply \in Interventions \cup {None}  BY <1>1 DEF RunRow
<1>4. i # None => iv[i] \in Open \/ iv[i] = st  BY DEF CloseConflict
<1>5. /\ ivs2 \in [Interventions -> Open \cup Ended \cup {"receipt"}]
      /\ \A j \in Interventions : ivs2[j] = IF j = i THEN st ELSE iv[j]
  <2>1. CASE i = None
    <3>1. None \notin Interventions  BY QueueAssumption
    <3>2. ivs2 = iv  BY <2>1 DEF Closed
    <3> QED  BY <1>1, <2>1, <3>1, <3>2
  <2>2. CASE i # None
    <3>1. ivs2 = [iv EXCEPT ![i] = st]  BY <2>2 DEF Closed
    <3> QED  BY <1>1, <3>1
  <2> QED  BY <2>1, <2>2
<1> HIDE DEF ivs2
<1>6. st \notin Live /\ st \notin {"replied", "receipt", "absent"}  BY DEF Ended, Live
<1>7. ScopesTrue(rr2)
  <2>1. ASSUME NEW a \in Runs, NEW b \in Runs, {rr2[a].status, rr2[b].status} \subseteq Live,
               rr2[a].plan = rr2[b].plan,
               rr2[a].plan = None => rr2[a].session = rr2[b].session
        PROVE  a = b
    <3>1. a # r /\ b # r  BY <1>2, <1>6, <2>1
    <3>2. rr2[a] = run[a] /\ rr2[b] = run[b]  BY <1>2, <3>1
    <3> QED  BY <1>1, <2>1, <3>2 DEF ScopesTrue
  <2> QED  BY <2>1 DEF ScopesTrue
<1>8. ReplyTrue(rr2, ivs2)
  <2>1. ASSUME NEW a \in Runs, rr2[a].reply # None
        PROVE  /\ rr2[a].session = SessionOf[rr2[a].reply]
               /\ rr2[a].plan = PlanOf[rr2[a].session]
               /\ rr2[a].status \in Live =>
                    ivs2[rr2[a].reply] \in {"replied", "receipt"} \/ rr2[a].edit
    <3>1. CASE a = r
      <4>1. rr2[a].reply = run[r].reply /\ rr2[a].session = run[r].session
            /\ rr2[a].plan = run[r].plan /\ rr2[a].status \notin Live
        BY <1>2, <1>6, <3>1
      <4> QED  BY <1>1, <2>1, <4>1 DEF ReplyTrue
    <3>2. CASE a # r
      <4>1. rr2[a] = run[a]  BY <1>2, <3>2
      <4>2. /\ run[a].session = SessionOf[run[a].reply] /\ run[a].plan = PlanOf[run[a].session]
            /\ run[a].status \in Live =>
                 iv[run[a].reply] \in {"replied", "receipt"} \/ run[a].edit
        BY <1>1, <2>1, <4>1 DEF ReplyTrue
      <4>3. run[a].status \in Live => run[a].reply # i
        <5>1. SUFFICES ASSUME run[a].status \in Live, run[a].reply = i
                       PROVE  FALSE
          OBVIOUS
        <5>2. run[r].session = run[a].session /\ run[r].plan = run[a].plan
          BY <1>1, <2>1, <4>1, <4>2, <5>1 DEF ReplyTrue
        <5>3. {run[a].status, run[r].status} \subseteq Live  BY <5>1
        <5>4. a = r  BY <1>1, <5>2, <5>3 DEF ScopesTrue
        <5> QED  BY <3>2, <5>4
      <4>4. run[a].reply \in Interventions  BY <1>3, <2>1, <4>1
      <4> QED  BY <1>5, <4>1, <4>2, <4>3, <4>4
    <3> QED  BY <3>1, <3>2
  <2> QED  BY <2>1 DEF ReplyTrue
<1>9. AnswersTrue(rr2, ivs2)
  <2>1. ASSUME NEW a \in Runs, rr2[a].status \in Ended, rr2[a].reply # None
        PROVE  ivs2[rr2[a].reply] = rr2[a].status
    <3>1. CASE a = r
      <4>1. rr2[a].reply = i /\ rr2[a].status = st  BY <1>2, <3>1
      <4>2. i \in Interventions  BY <1>3, <2>1, <4>1
      <4> QED  BY <1>5, <4>1, <4>2
    <3>2. CASE a # r
      <4>1. rr2[a] = run[a]  BY <1>2, <3>2
      <4>2. iv[run[a].reply] = run[a].status /\ run[a].reply \in Interventions
        BY <1>1, <1>3, <2>1, <4>1 DEF AnswersTrue
      <4>3. iv[run[a].reply] \notin Open  BY <2>1, <4>1, <4>2 DEF Ended, Open
      <4>4. run[a].reply = i => iv[i] = st  BY <1>4, <2>1, <4>1, <4>3
      <4> QED  BY <1>5, <4>1, <4>2, <4>4
    <3> QED  BY <3>1, <3>2
  <2>2. ASSUME NEW j \in Interventions, ivs2[j] \in Ended
        PROVE  \E a \in Runs : rr2[a].reply = j /\ rr2[a].status = ivs2[j]
    <3>1. CASE j = i
      <4>1. rr2[r].reply = j /\ rr2[r].status = ivs2[j]  BY <1>2, <1>5, <3>1
      <4> QED  BY <4>1
    <3>2. CASE j # i
      <4>1. ivs2[j] = iv[j]  BY <1>5, <3>2
      <4>2. PICK a \in Runs : run[a].reply = j /\ run[a].status = iv[j]
        BY <1>1, <2>2, <4>1 DEF AnswersTrue
      <4>3. a # r  BY <3>2, <4>2
      <4> QED  BY <1>2, <4>1, <4>2, <4>3
    <3> QED  BY <3>1, <3>2
  <2> QED  BY <2>1, <2>2 DEF AnswersTrue
<1>10. \A j \in Interventions : iv[j] = "receipt" => ivs2[j] = "receipt"
  <2>1. i \in Interventions => iv[i] # "receipt"
    BY <1>4, QueueAssumption DEF Open, Ended
  <2> QED  BY <1>5, <2>1
<1> QED  BY <1>2, <1>5, <1>7, <1>8, <1>9, <1>10 DEF Replied, rr2, ivs2

\* A mail to an archived plan answers with a receipt what was open.
LEMMA ReceiptReplied ==
    ASSUME NEW rr, NEW ivs, Replied(rr, ivs), NEW i \in Interventions, ivs[i] \in Open
    PROVE  Replied(rr, [ivs EXCEPT ![i] = "receipt"])
<1> DEFINE ivs2 == [ivs EXCEPT ![i] = "receipt"]
<1>1. /\ rr \in [Runs -> RunRow] /\ ivs \in [Interventions -> Open \cup Ended \cup {"receipt"}]
      /\ ScopesTrue(rr) /\ ReplyTrue(rr, ivs) /\ AnswersTrue(rr, ivs)
  BY DEF Replied
<1>2. /\ ivs2 \in [Interventions -> Open \cup Ended \cup {"receipt"}]
      /\ \A j \in Interventions : ivs2[j] = IF j = i THEN "receipt" ELSE ivs[j]
  BY <1>1
<1> HIDE DEF ivs2
<1>3. \A r \in Runs : rr[r].reply \in Interventions \cup {None}  BY <1>1 DEF RunRow
<1>4. ReplyTrue(rr, ivs2)  BY <1>1, <1>2, <1>3 DEF ReplyTrue
<1>5. \A j \in Interventions : (ivs[j] \in Ended \/ ivs2[j] \in Ended) => ivs2[j] = ivs[j]
  BY <1>2 DEF Ended, Open
<1>6. ASSUME NEW r \in Runs, rr[r].status \in Ended, rr[r].reply # None
      PROVE  ivs2[rr[r].reply] = rr[r].status
  <2>1. ivs[rr[r].reply] = rr[r].status /\ rr[r].reply \in Interventions
    BY <1>1, <1>3, <1>6 DEF AnswersTrue
  <2> QED  BY <1>5, <1>6, <2>1
<1>7. ASSUME NEW j \in Interventions, ivs2[j] \in Ended
      PROVE  \E r \in Runs : rr[r].reply = j /\ rr[r].status = ivs2[j]
  BY <1>1, <1>5, <1>7 DEF AnswersTrue
<1>8. AnswersTrue(rr, ivs2)  BY <1>6, <1>7 DEF AnswersTrue
<1> QED  BY <1>1, <1>2, <1>4, <1>8 DEF Replied, ivs2
-----------------------------------------------------------------------------
(* The tables, one transaction after the other.                            *)

\* What the parts of World say of the types.
LEMMA WorldTypes ==
    ASSUME NEW it, NEW pl, NEW rr, NEW ivs, World(it, pl, rr, ivs)
    PROVE  /\ Rows(it) /\ Lists(it)
           /\ rr \in [Runs -> RunRow]
           /\ ivs \in [Interventions -> Open \cup Ended \cup {"receipt"}]
           /\ pl \in [Messages -> {"new", "steer", "applied", "queued", "run", "receipt", "deleted"}]
           /\ \A m \in Messages : pl[m] = "queued" <=> it[m] # None
           /\ \A r \in Runs : rr[r].steers \in Seq(Messages)
BY DEF World, Lists, Placed, Replied, RunRow

\* Steers that are still there are kept as they were.
LEMMA SteersStay ==
    ASSUME NEW pl, NEW rr, SteersTrue(pl, rr), NEW pl2, NEW rr2,
           \A r \in Runs : rr2[r].steers # <<>> =>
             /\ rr2[r].steers = rr[r].steers /\ rr2[r].session = rr[r].session
             /\ rr2[r].status \in {"running", "needs_reconciliation"}
             /\ \A k \in DOMAIN rr[r].steers :
                  pl[rr[r].steers[k]] = "steer" => pl2[rr[r].steers[k]] = "steer"
    PROVE  SteersTrue(pl2, rr2)
<1>1. \A r \in Runs : \A k \in DOMAIN rr2[r].steers :
        /\ rr2[r].steers # <<>> /\ k \in DOMAIN rr[r].steers
        /\ rr2[r].steers[k] = rr[r].steers[k]
  <2>1. DOMAIN <<>> = {}  OBVIOUS
  <2> QED  BY <2>1
<1>2. \A r \in Runs : rr2[r].steers # <<>> =>
        rr2[r].session # None /\ rr2[r].status \in {"running", "needs_reconciliation"}
  BY DEF SteersTrue
<1>3. \A r \in Runs : \A k \in DOMAIN rr2[r].steers : pl2[rr2[r].steers[k]] = "steer"
  BY <1>1 DEF SteersTrue
<1>4. \A r1, r2 \in Runs : \A k1 \in DOMAIN rr2[r1].steers, k2 \in DOMAIN rr2[r2].steers :
            rr2[r1].steers[k1] = rr2[r2].steers[k2] => r1 = r2 /\ k1 = k2
  BY <1>1 DEF SteersTrue
<1> QED  BY <1>2, <1>3, <1>4 DEF SteersTrue

\* A message that was new or queued has become a Run.
LEMMA AddWorld ==
    ASSUME NEW it, NEW pl, NEW rr, NEW ivs, World(it, pl, rr, ivs),
           NEW m \in Messages, pl[m] \in {"new", "queued"},
           NEW it2, Lists(it2), \A q \in Messages : it2[q] # None <=> it[q] # None /\ q # m,
           NEW x, x.status = "running", x.steers = <<>>,
           NEW ivs2, Replied([rr EXCEPT ![m] = x], ivs2)
    PROVE  World(it2, [pl EXCEPT ![m] = "run"], [rr EXCEPT ![m] = x], ivs2)
<1> DEFINE pl2 == [pl EXCEPT ![m] = "run"]
           rr2 == [rr EXCEPT ![m] = x]
<1>1. m \in Runs  BY DEF Runs
<1>2. x.status = "running" /\ x.steers = <<>>  OBVIOUS
<1>4. /\ rr \in [Runs -> RunRow]
      /\ pl \in [Messages -> {"new", "steer", "applied", "queued", "run", "receipt", "deleted"}]
      /\ \A q \in Messages : pl[q] = "queued" <=> it[q] # None
  BY WorldTypes
<1>7. Replied(rr2, ivs2)  OBVIOUS
<1>8. rr2[m] = x /\ \A r \in Runs \ {m} : rr2[r] = rr[r]  BY <1>1, <1>4
<1>9. /\ pl2 \in [Messages -> {"new", "steer", "applied", "queued", "run", "receipt", "deleted"}]
      /\ pl2[m] = "run" /\ \A q \in Messages \ {m} : pl2[q] = pl[q]
  BY <1>4
<1> HIDE DEF rr2, pl2
<1>10. Placed(it2, pl2)  BY <1>4, <1>9 DEF Placed
<1>11. SteersTrue(pl2, rr2)
  <2>1. SteersTrue(pl, rr)  BY DEF World
  <2>2. \A r \in Runs : rr2[r].steers # <<>> => rr2[r] = rr[r] /\ r # m  BY <1>2, <1>8
  <2>3. \A r \in Runs : \A k \in DOMAIN rr[r].steers : rr[r].steers[k] \in Messages
    BY WorldTypes
  <2>4. \A q \in Messages : pl[q] = "steer" => pl2[q] = "steer"  BY <1>9
  <2>5. ASSUME NEW r \in Runs, rr2[r].steers # <<>>
        PROVE  /\ rr2[r].steers = rr[r].steers /\ rr2[r].session = rr[r].session
               /\ rr2[r].status \in {"running", "needs_reconciliation"}
               /\ \A k \in DOMAIN rr[r].steers :
                    pl[rr[r].steers[k]] = "steer" => pl2[rr[r].steers[k]] = "steer"
    <3>1. rr2[r] = rr[r]  BY <2>2, <2>5
    <3>2. rr[r].status \in {"running", "needs_reconciliation"}
      BY <2>1, <2>5, <3>1 DEF SteersTrue
    <3> QED  BY <2>3, <2>4, <3>1, <3>2
  <2> QED  BY <2>1, <2>5, SteersStay
<1>12. StartedOnce(pl2, rr2)
  <2>1. \A q \in Messages : q \in Runs  BY DEF Runs
  <2>2. \A q \in Messages : rr[q].status # "absent" <=> pl[q] = "run"
    BY DEF World, StartedOnce
  <2> QED  BY <1>2, <1>8, <1>9, <2>1, <2>2 DEF StartedOnce
<1> QED  BY <1>7, <1>10, <1>11, <1>12 DEF World, rr2, pl2

\* A message that was new or queued becomes a Run, and what it answers is accepted.
LEMMA RunWorld ==
    ASSUME NEW it, NEW pl, NEW rr, NEW ivs, World(it, pl, rr, ivs),
           NEW m \in Messages, pl[m] \in {"new", "queued"},
           NEW it2, Lists(it2), \A q \in Messages : it2[q] # None <=> it[q] # None /\ q # m,
           NEW s \in Sessions, NEW i \in Interventions \cup {None},
           NEW mode \in {"normal", "read_only"},
           ScopeFree(rr, s, PlanOf[s]), ReplyAllowed(ivs, i, s)
    PROVE  World(it2, [pl EXCEPT ![m] = "run"],
                 [rr EXCEPT ![m] = NewRun(s, PlanOf[s], i, mode)], Accept(ivs, i))
<1> DEFINE x == NewRun(s, PlanOf[s], i, mode)
<1>1. m \in Runs /\ PlanOf[s] \in Plans \cup {None}  BY QueueAssumption DEF Runs
<1>2. x.status = "running" /\ x.steers = <<>>  BY DEF NewRun
<1>3. Replied(rr, ivs)  BY DEF World
<1>4. rr[m].status = "absent"
  <2>1. pl[m] # "run"  OBVIOUS
  <2> QED  BY <2>1 DEF World, StartedOnce
<1>5. i # None => s = SessionOf[i] /\ PlanOf[s] = PlanOf[s] /\ ivs[i] \in Open
  BY DEF ReplyAllowed
<1>6. Replied([rr EXCEPT ![m] = x], Accept(ivs, i))
  BY <1>1, <1>3, <1>4, <1>5, StartReplied
<1> HIDE DEF x
<1>7. World(it2, [pl EXCEPT ![m] = "run"], [rr EXCEPT ![m] = x], Accept(ivs, i))
  BY <1>2, <1>6, AddWorld
<1> QED  BY <1>7 DEF x

\* Rows change places or texts, or leave; what became of the messages is told.
LEMMA RowsWorld ==
    ASSUME NEW it, NEW pl, NEW rr, NEW ivs, World(it, pl, rr, ivs),
           NEW it2, Lists(it2), NEW pl2, Placed(it2, pl2),
           \A m \in Messages : pl2[m] = "run" <=> pl[m] = "run",
           \A m \in Messages : pl[m] = "steer" => pl2[m] = "steer"
    PROVE  World(it2, pl2, rr, ivs)
<1>1. SteersTrue(pl, rr) /\ StartedOnce(pl, rr) /\ Replied(rr, ivs)  BY DEF World
<1>2. \A r \in Runs : \A k \in DOMAIN rr[r].steers : rr[r].steers[k] \in Messages
  BY WorldTypes
<1>3. SteersTrue(pl2, rr)
  <2>1. \A r \in Runs : rr[r].steers # <<>> =>
          rr[r].status \in {"running", "needs_reconciliation"}
    BY <1>1 DEF SteersTrue
  <2> QED  BY <1>1, <1>2, <2>1, SteersStay
<1>4. StartedOnce(pl2, rr)  BY <1>1 DEF StartedOnce
<1> QED  BY <1>1, <1>3, <1>4 DEF World

\* A new message joins a queue.
LEMMA JoinWorld ==
    ASSUME NEW it, NEW pl, NEW rr, NEW ivs, World(it, pl, rr, ivs),
           NEW m \in Messages, pl[m] = "new",
           NEW x \in ItemRow, x.pos = NextPosition(it, x.session)
    PROVE  /\ World([it EXCEPT ![m] = x], [pl EXCEPT ![m] = "queued"], rr, ivs)
           /\ Later(it, pl, [it EXCEPT ![m] = x], [pl EXCEPT ![m] = "queued"])
<1> DEFINE it2 == [it EXCEPT ![m] = x]
           pl2 == [pl EXCEPT ![m] = "queued"]
<1>1. /\ Rows(it) /\ Lists(it) /\ x # None
      /\ pl \in [Messages -> {"new", "steer", "applied", "queued", "run", "receipt", "deleted"}]
      /\ \A q \in Messages : pl[q] = "queued" <=> it[q] # None
  BY WorldTypes, RowFields
<1>2. it[m] = None  BY <1>1
<1>3. Lists(it2)  BY <1>1, <1>2, AppendKeeps
<1>4. it2[m] = x /\ \A q \in Messages \ {m} : it2[q] = it[q]  BY <1>1 DEF Rows
<1>5. /\ pl2 \in [Messages -> {"new", "steer", "applied", "queued", "run", "receipt", "deleted"}]
      /\ pl2[m] = "queued" /\ \A q \in Messages \ {m} : pl2[q] = pl[q]
  BY <1>1
<1> HIDE DEF it2, pl2
<1>6. Placed(it2, pl2)  BY <1>1, <1>4, <1>5 DEF Placed
<1>7. World(it2, pl2, rr, ivs)
  <2>1. \A q \in Messages : pl2[q] = "run" <=> pl[q] = "run"  BY <1>5
  <2>2. \A q \in Messages : pl[q] = "steer" => pl2[q] = "steer"  BY <1>5
  <2> QED  BY <1>3, <1>6, <2>1, <2>2, RowsWorld
<1>8. Later(it, pl, it2, pl2)  BY <1>1, <1>4, <1>5 DEF Later
<1> QED  BY <1>7, <1>8 DEF it2, pl2

\* A row leaves its queue.
LEMMA LeaveLater ==
    ASSUME NEW it, NEW pl, NEW rr, NEW ivs, World(it, pl, rr, ivs),
           NEW m \in Messages, it[m] # None, NEW to \in {"run", "deleted"}
    PROVE  Later(it, pl, Compacted(it, m), [pl EXCEPT ![m] = to])
<1> DEFINE it2 == Compacted(it, m)
           pl2 == [pl EXCEPT ![m] = to]
<1>1. /\ Rows(it) /\ Lists(it)
      /\ pl \in [Messages -> {"new", "steer", "applied", "queued", "run", "receipt", "deleted"}]
      /\ \A q \in Messages : pl[q] = "queued" <=> it[q] # None
  BY WorldTypes
<1>2. \A q \in Messages : it2[q] # None <=> it[q] # None /\ q # m
  BY <1>1, CompactedKeeps
<1>3. ASSUME NEW q \in Messages, it2[q] # None
      PROVE  it[q] # None /\ (it2[q] = it[q] \/ it2[q].version > it[q].version)
  <2>1. it[q] # None /\ q # m  BY <1>2, <1>3
  <2>2. it2[q] = it[q] \/ it2[q].version = it[q].version + 1
    BY <1>1, <2>1, CompactedRow
  <2>3. it[q].version \in Nat  BY <1>1, <2>1, RowIn
  <2> QED  BY <2>1, <2>2, <2>3
<1>4. pl2[m] = to /\ \A q \in Messages \ {m} : pl2[q] = pl[q]  BY <1>1
<1> HIDE DEF it2, pl2
<1>5. \A q \in Messages : pl[q] \in {"queued", "run", "deleted"} =>
                             pl2[q] \in {"queued", "run", "deleted"}
  BY <1>4
<1>6. Later(it, pl, it2, pl2)  BY <1>3, <1>5 DEF Later
<1> QED  BY <1>6 DEF it2, pl2

\* dispatch_queued_message
LEMMA DispatchWorld ==
    ASSUME NEW it, NEW pl, NEW rr, NEW ivs, World(it, pl, rr, ivs),
           NEW m \in Messages, it[m] # None, ~Refused(rr, ivs, it[m])
    PROVE  /\ World(Compacted(it, m), [pl EXCEPT ![m] = "run"],
                    [rr EXCEPT ![m] = NewRun(it[m].session, PlanOf[it[m].session],
                                             it[m].reply, it[m].mode)],
                    Accept(ivs, it[m].reply))
           /\ Later(it, pl, Compacted(it, m), [pl EXCEPT ![m] = "run"])
<1>1. /\ Rows(it) /\ Lists(it)
      /\ \A q \in Messages : pl[q] = "queued" <=> it[q] # None
  BY WorldTypes
<1>2. /\ it[m].session \in Sessions /\ it[m].reply \in Interventions \cup {None}
      /\ it[m].mode \in {"normal", "read_only"}
  BY <1>1, RowIn
<1>3. /\ ScopeFree(rr, it[m].session, PlanOf[it[m].session])
      /\ ReplyAllowed(ivs, it[m].reply, it[m].session)
  BY DEF Refused
<1>4. /\ Lists(Compacted(it, m))
      /\ \A q \in Messages : Compacted(it, m)[q] # None <=> it[q] # None /\ q # m
  BY <1>1, CompactedKeeps
<1>5. pl[m] \in {"new", "queued"}  BY <1>1
<1>6. World(Compacted(it, m), [pl EXCEPT ![m] = "run"],
            [rr EXCEPT ![m] = NewRun(it[m].session, PlanOf[it[m].session],
                                     it[m].reply, it[m].mode)],
            Accept(ivs, it[m].reply))
  BY <1>2, <1>3, <1>4, <1>5, RunWorld
<1>7. Later(it, pl, Compacted(it, m), [pl EXCEPT ![m] = "run"])  BY LeaveLater
<1> QED  BY <1>6, <1>7

\* Tables that are later than later ones.
LEMMA LaterStill ==
    ASSUME NEW it, NEW pl, NEW it1, NEW pl1, NEW it2, NEW pl2, Rows(it), Rows(it1), Rows(it2),
           Later(it, pl, it1, pl1), Later(it1, pl1, it2, pl2)
    PROVE  Later(it, pl, it2, pl2)
<1>1. ASSUME NEW m \in Messages, pl[m] \in {"queued", "run", "deleted"}
      PROVE  /\ pl2[m] \in {"queued", "run", "deleted"}
             /\ it2[m] # None =>
                  it[m] # None /\ (it2[m] = it[m] \/ it2[m].version > it[m].version)
  <2>1. pl1[m] \in {"queued", "run", "deleted"}  BY <1>1 DEF Later
  <2>2. pl2[m] \in {"queued", "run", "deleted"}  BY <2>1 DEF Later
  <2>3. ASSUME it2[m] # None
        PROVE  it[m] # None /\ (it2[m] = it[m] \/ it2[m].version > it[m].version)
    <3>1. it1[m] # None /\ (it2[m] = it1[m] \/ it2[m].version > it1[m].version)
      BY <2>1, <2>3 DEF Later
    <3>2. it[m] # None /\ (it1[m] = it[m] \/ it1[m].version > it[m].version)
      BY <1>1, <3>1 DEF Later
    <3>3. it[m].version \in Nat /\ it1[m].version \in Nat /\ it2[m].version \in Nat
      BY <2>3, <3>1, <3>2, RowIn
    <3> QED  BY <3>1, <3>2, <3>3
  <2> QED  BY <2>2, <2>3
<1> QED  BY <1>1 DEF Later

\* What a tab has seen stays true of later tables.
LEMMA ViewStays ==
    ASSUME NEW it, NEW pl, NEW it2, NEW pl2, Rows(it), Rows(it2), Later(it, pl, it2, pl2),
           NEW vw \in [Tabs -> Seen \cup {None}], ViewTrue(it, pl, vw),
           NEW vw2, \A t \in Tabs : vw2[t] = vw[t] \/ vw2[t] = None
    PROVE  ViewTrue(it2, pl2, vw2)
<1>1. ASSUME NEW t \in Tabs, vw2[t] # None
      PROVE  /\ pl2[vw2[t].id] \in {"queued", "run", "deleted"}
             /\ it2[vw2[t].id] # None =>
                  \/ it2[vw2[t].id].version > vw2[t].row.version
                  \/ /\ it2[vw2[t].id].version = vw2[t].row.version
                     /\ it2[vw2[t].id].pos = vw2[t].row.pos
                     /\ it2[vw2[t].id].text = vw2[t].row.text
  <2> DEFINE m == vw[t].id
             old == vw[t].row
  <2>1. vw2[t] = vw[t] /\ vw[t] # None  BY <1>1
  <2>2. vw[t] \in Seen  BY <2>1
  <2>3. m \in Messages /\ old \in ItemRow  BY <2>2 DEF Seen
  <2>4. /\ pl[m] \in {"queued", "run", "deleted"}
        /\ it[m] # None =>
             \/ it[m].version > old.version
             \/ it[m].version = old.version /\ it[m].pos = old.pos /\ it[m].text = old.text
    BY <2>1 DEF ViewTrue
  <2> HIDE DEF m, old
  <2>5. /\ pl2[m] \in {"queued", "run", "deleted"}
        /\ it2[m] # None =>
             it[m] # None /\ (it2[m] = it[m] \/ it2[m].version > it[m].version)
    BY <2>3, <2>4 DEF Later
  <2>6. ASSUME it2[m] # None
        PROVE  \/ it2[m].version > old.version
               \/ it2[m].version = old.version /\ it2[m].pos = old.pos /\ it2[m].text = old.text
    <3>1. it[m] # None /\ (it2[m] = it[m] \/ it2[m].version > it[m].version)
      BY <2>5, <2>6
    <3>2. it[m].version \in Nat /\ it2[m].version \in Nat /\ old.version \in Nat
      BY <2>3, <2>6, <3>1, RowIn, RowFields
    <3> QED  BY <2>4, <3>1, <3>2
  <2>7. vw2[t].id = m /\ vw2[t].row = old  BY <2>1 DEF m, old
  <2> QED  BY <2>5, <2>6, <2>7
<1> QED  BY <1>1 DEF ViewTrue
-----------------------------------------------------------------------------
(* Steps.                                                                  *)

\* A step that leaves the tables as World and Later say keeps the invariant.
LEMMA StepKeeps ==
    ASSUME Inv, World(item', place', run', iv'), Later(item, place, item', place'),
           view' \in [Tabs -> Seen \cup {None}],
           \A t \in Tabs : view'[t] = view[t] \/ view'[t] = None,
           archived' \subseteq Sessions \cup Plans, archiving' \subseteq Sessions \cup Plans,
           raised' = raised \/ raised' \in {"intervention", "foreign_key"}
    PROVE  Inv'
<1>1. ViewTrue(item', place', view')
  <2>1. /\ Rows(item) /\ Rows(item') /\ ViewTrue(item, place, view)
        /\ view \in [Tabs -> Seen \cup {None}]
    BY WorldTypes DEF Inv
  <2> QED  BY <2>1, ViewStays
<1>2. raised' \in {"none", "intervention", "foreign_key"}  BY DEF Inv
<1> QED  BY <1>1, <1>2 DEF Inv

\* Steps that leave the rows and what became of the messages.
LEMMA LaterSame ==
    ASSUME NEW it, NEW pl
    PROVE  Later(it, pl, it, pl)
BY DEF Later

\* Init
LEMMA Starts ==
    ASSUME Init
    PROVE  Inv
<1>1. \A s \in Sessions : In(item, s) = {}  BY DEF Init, In
<1>2. \A s \in Sessions : Dense(item, s, 0)
  <2>1. 0..(0 - 1) = {}  OBVIOUS
  <2> QED  BY <1>1, <2>1 DEF Dense
<1>3. Lists(item)
  <2>1. Rows(item)  BY DEF Init, Rows
  <2>2. 0 \in Nat  OBVIOUS
  <2> QED  BY <1>2, <2>1, <2>2 DEF Lists, AllDense
<1>4. Placed(item, place)  BY DEF Init, Placed
<1>5. <<>> \in Seq(Messages) /\ DOMAIN <<>> = {}  OBVIOUS
<1>6. NoRun \in RunRow /\ NoRun.status = "absent" /\ NoRun.reply = None /\ NoRun.steers = <<>>
  BY <1>5 DEF NoRun, RunRow
<1>7. \A r \in Runs : run[r] = NoRun  BY DEF Init
<1>8. SteersTrue(place, run)  BY <1>5, <1>6, <1>7 DEF SteersTrue
<1>9. StartedOnce(place, run)
  <2>1. \A m \in Messages : m \in Runs  BY DEF Runs
  <2> QED  BY <1>6, <1>7, <2>1 DEF StartedOnce, Init
<1>10. Replied(run, iv)
  <2>1. run \in [Runs -> RunRow]  BY <1>6 DEF Init
  <2>2. iv \in [Interventions -> Open \cup Ended \cup {"receipt"}]  BY DEF Init, Open
  <2>3. ScopesTrue(run)  BY <1>6, <1>7 DEF ScopesTrue, Live
  <2>4. ReplyTrue(run, iv)  BY <1>6, <1>7 DEF ReplyTrue
  <2>5. AnswersTrue(run, iv)  BY <1>6, <1>7 DEF AnswersTrue, Init, Ended
  <2> QED  BY <2>1, <2>2, <2>3, <2>4, <2>5 DEF Replied
<1>11. view \in [Tabs -> Seen \cup {None}] /\ ViewTrue(item, place, view)
  BY DEF Init, ViewTrue
<1> QED  BY <1>3, <1>4, <1>8, <1>9, <1>10, <1>11 DEF Inv, World, Init

\* POST /runs
LEMMA CreateRunStep ==
    ASSUME Inv, NEW m \in Messages, NEW s \in Sessions, NEW mode \in Modes,
           NEW i \in Targets(s), CreateRun(m, s, i, mode)
    PROVE  Inv'
<1>1. i \in Interventions \cup {None} /\ mode \in {"normal", "read_only"}
  BY QueueAssumption DEF Targets
<1>2. World(item, place, run, iv)  BY DEF Inv
<1>3. \A q \in Messages : item[q] # None <=> item[q] # None /\ q # m
  BY <1>2, WorldTypes DEF CreateRun
<1>4. World(item, [place EXCEPT ![m] = "run"],
            [run EXCEPT ![m] = NewRun(s, PlanOf[s], i, mode)], Accept(iv, i))
  <2>1. place[m] \in {"new", "queued"} /\ Lists(item)  BY <1>2, WorldTypes DEF CreateRun
  <2>2. ScopeFree(run, s, PlanOf[s]) /\ ReplyAllowed(iv, i, s)  BY DEF CreateRun
  <2> QED  BY <1>1, <1>2, <1>3, <2>1, <2>2, RunWorld
<1>5. Later(item, place, item, [place EXCEPT ![m] = "run"])
  <2>1. \A q \in Messages : place[q] \in {"queued", "run", "deleted"} =>
                             [place EXCEPT ![m] = "run"][q] \in {"queued", "run", "deleted"}
    BY <1>2, WorldTypes
  <2> QED  BY <2>1 DEF Later
<1>6. \A j \in Interventions : iv[j] = "receipt" => iv'[j] = "receipt"
  BY <1>1, <1>2, AcceptKeeps DEF World, CreateRun
<1>7. World(item', place', run', iv') /\ Later(item, place, item', place')
  BY <1>4, <1>5 DEF CreateRun
<1> QED  BY <1>6, <1>7, StepKeeps DEF CreateRun, Inv

\* A row for a new message in a session, with its target accepted.
LEMMA NewRowStep ==
    ASSUME Inv, NEW m \in Messages, place[m] = "new", NEW s \in Sessions,
           NEW i \in Interventions \cup {None}, NEW mode \in {"normal", "read_only"},
           NEW mail \in BOOLEAN,
           item' = [item EXCEPT ![m] = Row(s, i, mode, mail, NextPosition(item, s))],
           place' = [place EXCEPT ![m] = "queued"], run' = run,
           iv' = Accept(iv, i) \/ iv' = iv,
           UNCHANGED <<archived, archiving, view, raised>>
    PROVE  Inv'
<1>1. World(item, place, run, iv) /\ Rows(item) /\ Lists(item)  BY WorldTypes DEF Inv
<1>2. NextPosition(item, s) \in Nat
  <2>1. PICK n \in Nat : Dense(item, s, n)  BY <1>1, DenseOf
  <2> QED  BY <1>1, <2>1, NextIsCount
<1> DEFINE x == Row(s, i, mode, mail, NextPosition(item, s))
<1>3. x \in ItemRow /\ x.session = s /\ x.pos = NextPosition(item, s)
  <2>1. x \in ItemRow  BY <1>2 DEF Row, ItemRow
  <2> QED  BY <2>1 DEF Row
<1> HIDE DEF x
<1>4. World(item, place, run, iv')
  /\ \A j \in Interventions : iv[j] = "receipt" => iv'[j] = "receipt"
  <2>1. Replied(run, iv)  BY <1>1 DEF World
  <2>2. Replied(run, Accept(iv, i))
        /\ \A j \in Interventions : iv[j] = "receipt" => Accept(iv, i)[j] = "receipt"
    BY <2>1, AcceptKeeps
  <2>3. Replied(run, iv')  BY <2>1, <2>2
  <2> QED  BY <1>1, <2>2, <2>3 DEF World
<1>5. /\ World([item EXCEPT ![m] = x], [place EXCEPT ![m] = "queued"], run, iv')
      /\ Later(item, place, [item EXCEPT ![m] = x], [place EXCEPT ![m] = "queued"])
  <2>1. x.pos = NextPosition(item, x.session)  BY <1>3
  <2> QED  BY <1>3, <1>4, <2>1, JoinWorld
<1>6. World(item', place', run', iv') /\ Later(item, place, item', place')
  BY <1>5 DEF x
<1> QED  BY <1>4, <1>6, StepKeeps DEF Inv

\* edit_user_message
LEMMA EditMessageStep ==
    ASSUME Inv, NEW e \in Messages, NEW m \in Messages, EditMessage(e, m)
    PROVE  Inv'
<1> DEFINE s == run[m].session
           i == run[m].reply
           x == [NewRun(s, PlanOf[s], i, "normal") EXCEPT !.edit = TRUE]
<1>1. World(item, place, run, iv) /\ run \in [Runs -> RunRow] /\ Replied(run, iv)
      /\ m \in Runs /\ e \in Runs
  BY WorldTypes DEF Inv, World, Runs
<1>2. s \in Sessions /\ PlanOf[s] \in Plans \cup {None} /\ i \in Interventions \cup {None}
  BY <1>1, QueueAssumption DEF EditMessage, RunRow
<1>3. /\ x \in RunRow /\ x.status = "running" /\ x.session = s /\ x.plan = PlanOf[s]
      /\ x.reply = i /\ x.steers = <<>> /\ x.edit = TRUE
  <2> DEFINE y == NewRun(s, PlanOf[s], i, "normal")
  <2>1. s \in Sessions \cup {None} /\ "normal" \in {"normal", "read_only"}  BY <1>2
  <2>2. /\ y \in RunRow /\ y.status = "running" /\ y.session = s /\ y.plan = PlanOf[s]
        /\ y.reply = i /\ y.steers = <<>>
    <3>1. <<>> \in Seq(Messages)  OBVIOUS
    <3> HIDE DEF s, i
    <3>2. y \in RunRow  BY <1>2, <2>1, <3>1 DEF NewRun, RunRow, Live
    <3> QED  BY <3>2 DEF NewRun
  <2> HIDE DEF y, s, i
  <2>3. [y EXCEPT !.edit = TRUE] \in RunRow  BY <2>2 DEF RunRow
  <2>4. x = [y EXCEPT !.edit = TRUE]  BY DEF y
  <2> HIDE DEF x
  <2> QED  BY <2>2, <2>3, <2>4 DEF RunRow
<1>4. ScopeFree(run, s, PlanOf[s]) /\ place[e] = "new" /\ run' = [run EXCEPT ![e] = x]
      /\ place' = [place EXCEPT ![e] = "run"] /\ iv' = iv
      /\ UNCHANGED <<item, archived, archiving, view, raised>>
  BY DEF EditMessage
<1>5. x.reply # None => x.session = SessionOf[x.reply] /\ x.plan = PlanOf[x.session]
  <2>1. ReplyTrue(run, iv)  BY <1>1 DEF Replied
  <2>2. i # None => s = SessionOf[i]  BY <1>1, <2>1 DEF ReplyTrue
  <2> HIDE DEF x, s, i
  <2> QED  BY <1>3, <2>2
<1> HIDE DEF x, s, i
<1>6. run[e].status = "absent"
  <2>1. StartedOnce(place, run) /\ place[e] # "run"  BY <1>1, <1>4 DEF World
  <2> QED  BY <2>1 DEF StartedOnce
<1>7. Replied([run EXCEPT ![e] = x], iv)
  <2>1. ScopeFree(run, x.session, x.plan)  BY <1>3, <1>4
  <2> QED  BY <1>1, <1>3, <1>5, <1>6, <2>1, AddReplied
<1>8. Lists(item) /\ \A q \in Messages : item[q] # None <=> item[q] # None /\ q # e
  BY <1>1, <1>4, WorldTypes
<1>9. World(item, [place EXCEPT ![e] = "run"], [run EXCEPT ![e] = x], iv)
  BY <1>1, <1>3, <1>4, <1>7, <1>8, AddWorld
<1>10. Later(item, place, item, [place EXCEPT ![e] = "run"])
  <2>1. \A q \in Messages : place[q] \in {"queued", "run", "deleted"} =>
                             [place EXCEPT ![e] = "run"][q] \in {"queued", "run", "deleted"}
    BY <1>1, WorldTypes
  <2> QED  BY <2>1 DEF Later
<1>11. World(item', place', run', iv') /\ Later(item, place, item', place')
  BY <1>4, <1>9, <1>10
<1> QED  BY <1>4, <1>11, StepKeeps DEF Inv

\* POST /queue
LEMMA EnqueueStep ==
    ASSUME Inv, NEW m \in Messages, NEW s \in Sessions, NEW mode \in Modes,
           NEW i \in Targets(s), Enqueue(m, s, i, mode)
    PROVE  Inv'
<1>1. i \in Interventions \cup {None} /\ mode \in {"normal", "read_only"}
  BY QueueAssumption DEF Targets
<1> QED  BY <1>1, NewRowStep DEF Enqueue

\* EmailReplyPoller.poll
LEMMA MailReplyStep ==
    ASSUME Inv, NEW m \in Messages, NEW i \in Interventions, MailReply(m, i)
    PROVE  Inv'
<1> DEFINE s == SessionOf[i]
           p == PlanOf[s]
<1>1. s \in Sessions /\ i \in Interventions \cup {None} /\ iv[i] \in Open /\ place[m] = "new"
  BY QueueAssumption DEF MailReply
<1>2. World(item, place, run, iv) /\ Rows(item) /\ Lists(item)  BY WorldTypes DEF Inv
<1>3. UNCHANGED <<archived, archiving, view, raised>>  BY DEF MailReply
<1>4. CASE /\ iv' = [iv EXCEPT ![i] = "receipt"]
           /\ place' = [place EXCEPT ![m] = "receipt"]
           /\ UNCHANGED <<item, run>>
  <2>1. Replied(run, iv')
    <3>1. Replied(run, iv)  BY <1>2 DEF World
    <3> QED  BY <1>1, <1>4, <3>1, ReceiptReplied
  <2>2. World(item, place, run, iv')  BY <1>2, <2>1 DEF World
  <2>3. /\ place' \in [Messages -> {"new", "steer", "applied", "queued", "run", "receipt", "deleted"}]
        /\ place'[m] = "receipt" /\ \A q \in Messages \ {m} : place'[q] = place[q]
    BY <1>2, <1>4, WorldTypes
  <2>4. Placed(item, place')  BY <1>1, <1>2, <2>3 DEF World, Placed
  <2>5. World(item, place', run, iv')
    <3>1. \A q \in Messages : place'[q] = "run" <=> place[q] = "run"  BY <1>1, <2>3
    <3>2. \A q \in Messages : place[q] = "steer" => place'[q] = "steer"  BY <1>1, <2>3
    <3> QED  BY <1>2, <2>2, <2>4, <3>1, <3>2, RowsWorld
  <2>6. Later(item, place, item, place')  BY <1>1, <2>3 DEF Later
  <2>7. \A j \in Interventions : iv[j] = "receipt" => iv'[j] = "receipt"
    BY <1>2, <1>4, WorldTypes
  <2> QED  BY <1>3, <1>4, <2>5, <2>6, <2>7, StepKeeps DEF Inv
<1>5. CASE /\ iv' = Accept(iv, i)
           /\ item' = [item EXCEPT ![m] = Row(s, i, "normal", TRUE, NextPosition(item, s))]
           /\ place' = [place EXCEPT ![m] = "queued"]
           /\ UNCHANGED run
  <2>1. TRUE \in BOOLEAN /\ "normal" \in {"normal", "read_only"}  OBVIOUS
  <2>2. \A mail \in BOOLEAN : item' = [item EXCEPT ![m] = Row(s, i, "normal", mail, NextPosition(item, s))]
                               => Inv'
    BY <1>1, <1>3, <1>5, <2>1, NewRowStep
  <2> QED  BY <1>5, <2>2
<1>6. CASE /\ ScopeFree(run, s, p)
           /\ iv' = Accept(iv, i)
           /\ run' = [run EXCEPT ![m] = NewRun(s, p, i, "normal")]
           /\ place' = [place EXCEPT ![m] = "run"]
           /\ UNCHANGED item
  <2>1. \A q \in Messages : item[q] # None <=> item[q] # None /\ q # m
    BY <1>1, <1>2, WorldTypes
  <2>2. ReplyAllowed(iv, i, s)  BY <1>1 DEF ReplyAllowed
  <2>3. World(item, [place EXCEPT ![m] = "run"],
              [run EXCEPT ![m] = NewRun(s, PlanOf[s], i, "normal")], Accept(iv, i))
    <3>1. place[m] \in {"new", "queued"} /\ "normal" \in {"normal", "read_only"}  BY <1>1
    <3> QED  BY <1>1, <1>2, <1>6, <2>1, <2>2, <3>1, RunWorld
  <2>4. Later(item, place, item, [place EXCEPT ![m] = "run"])
    <3>1. \A q \in Messages : place[q] \in {"queued", "run", "deleted"} =>
                             [place EXCEPT ![m] = "run"][q] \in {"queued", "run", "deleted"}
      BY <1>2, WorldTypes
    <3> QED  BY <3>1 DEF Later
  <2>5. \A j \in Interventions : iv[j] = "receipt" => iv'[j] = "receipt"
    BY <1>1, <1>2, <1>6, AcceptKeeps DEF World
  <2>6. World(item', place', run', iv') /\ Later(item, place, item', place')
    BY <1>6, <2>3, <2>4
  <2> QED  BY <1>3, <2>5, <2>6, StepKeeps DEF Inv
<1> QED  BY <1>4, <1>5, <1>6 DEF MailReply
\* record_steer: kept by a Run that works.
LEMMA SteerKeptStep ==
    ASSUME Inv, NEW m \in Messages, NEW r \in Runs, place[m] = "new",
           run[r].session # None, run[r].status = "running",
           run' = [run EXCEPT ![r].steers = Append(@, m)],
           place' = [place EXCEPT ![m] = "steer"],
           UNCHANGED <<item, iv, archived, archiving, view, raised>>
    PROVE  Inv'
<1> DEFINE q == run[r].steers
           x == [run[r] EXCEPT !.steers = Append(q, m)]
<1>1. World(item, place, run, iv) /\ run \in [Runs -> RunRow] /\ q \in Seq(Messages)
      /\ run[r] \in RunRow
  BY WorldTypes DEF Inv
<1>2. Append(q, m) \in Seq(Messages)  BY <1>1
<1>3. x \in RunRow  BY <1>1, <1>2 DEF RunRow
<1>4. /\ x.steers = Append(q, m) /\ x.session = run[r].session /\ x.plan = run[r].plan
      /\ x.reply = run[r].reply /\ x.status = run[r].status /\ x.edit = run[r].edit
  BY <1>1 DEF RunRow
<1>5. run'[r] = x /\ \A a \in Runs \ {r} : run'[a] = run[a]  BY <1>1
<1> HIDE DEF x
<1>6. run' \in [Runs -> RunRow]
  <2>1. \A a \in Runs : run'[a] \in RunRow  BY <1>1, <1>3, <1>5
  <2>2. run' = [a \in Runs |-> run'[a]]  BY <1>1
  <2> QED  BY <2>1, <2>2
<1>7. /\ place' \in [Messages -> {"new", "steer", "applied", "queued", "run", "receipt", "deleted"}]
      /\ place'[m] = "steer" /\ \A a \in Messages \ {m} : place'[a] = place[a]
  BY <1>1, WorldTypes
<1>8. Replied(run', iv)
  <2>1. Replied(run, iv)  BY <1>1 DEF World
  <2>2. ASSUME NEW a \in Runs
        PROVE  /\ run'[a].session = run[a].session /\ run'[a].plan = run[a].plan
               /\ run'[a].reply = run[a].reply /\ run'[a].status = run[a].status
               /\ run'[a].edit = run[a].edit
    <3>1. CASE a = r  BY <1>4, <1>5, <3>1
    <3>2. CASE a # r  BY <1>5, <3>2
    <3> QED  BY <3>1, <3>2
  <2> QED  BY <1>6, <2>1, <2>2, GoOnReplied
<1>9. SteersTrue(place', run')
  <2> DEFINE n == Len(q)
  <2>1. SteersTrue(place, run)  BY <1>1 DEF World
  <2>2. /\ n \in Nat /\ DOMAIN q = 1..n
        /\ DOMAIN run'[r].steers = 1..(n + 1)
        /\ run'[r].steers[n + 1] = m
        /\ \A k \in 1..n : run'[r].steers[k] = q[k]
    BY <1>1, <1>4, <1>5
  <2> HIDE DEF n
  <2>3. \A a \in Runs, k \in Nat : k \in DOMAIN run'[a].steers =>
          \/ a = r /\ k = n + 1 /\ run'[a].steers[k] = m
          \/ k \in DOMAIN run[a].steers /\ run'[a].steers[k] = run[a].steers[k]
    <3>1. ASSUME NEW a \in Runs, NEW k \in Nat, k \in DOMAIN run'[a].steers
          PROVE  \/ a = r /\ k = n + 1 /\ run'[a].steers[k] = m
                 \/ k \in DOMAIN run[a].steers /\ run'[a].steers[k] = run[a].steers[k]
      <4>1. CASE a = r
        <5>1. k = n + 1 \/ k \in 1..n  BY <2>2, <3>1, <4>1
        <5> QED  BY <2>2, <4>1, <5>1
      <4>2. CASE a # r  BY <1>5, <3>1, <4>2
      <4> QED  BY <4>1, <4>2
    <3> QED  BY <3>1
  <2>4. \A a \in Runs : DOMAIN run'[a].steers \subseteq Nat
    <3>1. \A a \in Runs : run'[a].steers \in Seq(Messages)  BY <1>6 DEF RunRow
    <3> QED  BY <3>1
  <2>5. \A a \in Runs : \A k \in DOMAIN run[a].steers :
          place[run[a].steers[k]] = "steer" /\ run[a].steers[k] # m
          /\ run[a].steers[k] \in Messages
    BY <1>1, <2>1, WorldTypes DEF SteersTrue
  <2>6. ASSUME NEW a \in Runs, run'[a].steers # <<>>
        PROVE  run'[a].session # None /\ run'[a].status \in {"running", "needs_reconciliation"}
    <3>1. CASE a = r  BY <1>4, <1>5, <3>1
    <3>2. CASE a # r
      <4>1. run'[a] = run[a]  BY <1>5, <3>2
      <4> QED  BY <2>1, <2>6, <4>1 DEF SteersTrue
    <3> QED  BY <3>1, <3>2
  <2>7. ASSUME NEW a \in Runs, NEW k \in DOMAIN run'[a].steers
        PROVE  place'[run'[a].steers[k]] = "steer"
    <3>1. k \in Nat  BY <2>4
    <3>2. \/ run'[a].steers[k] = m
          \/ k \in DOMAIN run[a].steers /\ run'[a].steers[k] = run[a].steers[k]
      BY <2>3, <3>1
    <3> QED  BY <1>7, <2>5, <3>2
  <2>8. ASSUME NEW a \in Runs, NEW b \in Runs,
               NEW j \in DOMAIN run'[a].steers, NEW k \in DOMAIN run'[b].steers,
               run'[a].steers[j] = run'[b].steers[k]
        PROVE  a = b /\ j = k
    <3>1. j \in Nat /\ k \in Nat  BY <2>4
    <3>2. \/ a = r /\ j = n + 1 /\ run'[a].steers[j] = m
          \/ j \in DOMAIN run[a].steers /\ run'[a].steers[j] = run[a].steers[j]
      BY <2>3, <3>1
    <3>3. \/ b = r /\ k = n + 1 /\ run'[b].steers[k] = m
          \/ k \in DOMAIN run[b].steers /\ run'[b].steers[k] = run[b].steers[k]
      BY <2>3, <3>1
    <3>4. CASE run'[a].steers[j] = m
      <4>1. a = r /\ j = n + 1  BY <2>5, <3>2, <3>4
      <4>2. b = r /\ k = n + 1  BY <2>5, <2>8, <3>3, <3>4
      <4> QED  BY <4>1, <4>2
    <3>5. CASE run'[a].steers[j] # m
      <4>1. j \in DOMAIN run[a].steers /\ k \in DOMAIN run[b].steers
            /\ run[a].steers[j] = run[b].steers[k]
        BY <2>8, <3>2, <3>3, <3>5
      <4> QED  BY <2>1, <4>1 DEF SteersTrue
    <3> QED  BY <3>4, <3>5
  <2> QED  BY <2>6, <2>7, <2>8 DEF SteersTrue
<1>10. Placed(item, place')  BY <1>1, <1>7, WorldTypes DEF Placed
<1>11. StartedOnce(place', run')
  <2>1. StartedOnce(place, run)  BY <1>1 DEF World
  <2>2. \A a \in Messages : a \in Runs  BY DEF Runs
  <2>3. \A a \in Runs : run'[a].status = run[a].status  BY <1>4, <1>5
  <2> QED  BY <1>7, <2>1, <2>2, <2>3 DEF StartedOnce
<1>12. World(item', place', run', iv')
  BY <1>1, <1>8, <1>9, <1>10, <1>11 DEF World
<1>13. Later(item, place, item', place')  BY <1>7 DEF Later
<1> QED  BY <1>12, <1>13, StepKeeps DEF Inv

\* record_steer
LEMMA SteerStep ==
    ASSUME Inv, NEW m \in Messages, NEW r \in Runs, Steer(m, r)
    PROVE  Inv'
<1> DEFINE s == run[r].session
<1>1. run[r] \in RunRow  BY WorldTypes DEF Inv
<1>2. /\ s \in Sessions /\ run[r].reply \in Interventions \cup {None}
      /\ run[r].mode \in {"normal", "read_only"}
  BY <1>1 DEF Steer, RunRow
<1>3. CASE run[r].status = "running"
  BY <1>3, SteerKeptStep DEF Steer
<1>4. CASE run[r].status # "running"
  <2>1. item' = [item EXCEPT ![m] =
                   Row(s, run[r].reply, run[r].mode, FALSE, NextPosition(item, s))]
        /\ place' = [place EXCEPT ![m] = "queued"] /\ run' = run /\ iv' = iv
        /\ UNCHANGED <<archived, archiving, view, raised>> /\ place[m] = "new"
    BY <1>4 DEF Steer
  <2>2. \A mail \in BOOLEAN :
          item' = [item EXCEPT ![m] =
                     Row(s, run[r].reply, run[r].mode, mail, NextPosition(item, s))] => Inv'
    BY <1>2, <2>1, NewRowStep
  <2> QED  BY <2>1, <2>2
<1> QED  BY <1>3, <1>4

\* ProactiveScheduler.trigger_now
LEMMA HeartbeatStep ==
    ASSUME Inv, NEW b \in Beats, NEW p \in Plans, Heartbeat(b, p)
    PROVE  Inv'
<1> DEFINE x == NewRun(None, p, None, "normal")
<1>1. World(item, place, run, iv) /\ run \in [Runs -> RunRow]  BY WorldTypes DEF Inv
<1>2. b \in Runs /\ b \notin Messages  BY MessagesAssumption DEF Runs
<1>3. None \in Sessions \cup {None} /\ None \in Interventions \cup {None}
      /\ p \in Plans \cup {None} /\ "normal" \in {"normal", "read_only"}
  OBVIOUS
<1>4. Replied([run EXCEPT ![b] = x], Accept(iv, None))
  <2>1. Replied(run, iv)  BY <1>1 DEF World
  <2>2. run[b].status = "absent" /\ ScopeFree(run, None, p)  BY DEF Heartbeat
  <2>3. None # None => None = SessionOf[None] /\ p = PlanOf[None] /\ iv[None] \in Open
    OBVIOUS
  <2> QED  BY <1>2, <1>3, <2>1, <2>2, <2>3, StartReplied
<1>5. Accept(iv, None) = iv  BY DEF Accept
<1>6. x.status = "running" /\ x.steers = <<>>  BY DEF NewRun
<1> HIDE DEF x
<1>7. run' = [run EXCEPT ![b] = x]  BY DEF Heartbeat, x
<1>8. run'[b] = x /\ \A r \in Runs \ {b} : run'[r] = run[r]  BY <1>1, <1>2, <1>7
<1>9. SteersTrue(place, run')
  <2>1. SteersTrue(place, run)  BY <1>1 DEF World
  <2>2. \A r \in Runs : run'[r].steers # <<>> => run'[r] = run[r]  BY <1>6, <1>8
  <2>3. \A r \in Runs : run[r].steers # <<>> =>
            run[r].status \in {"running", "needs_reconciliation"}
    BY <2>1 DEF SteersTrue
  <2> QED  BY <2>1, <2>2, <2>3, SteersStay
<1>10. StartedOnce(place, run')
  <2>1. \A m \in Messages : m \in Runs /\ m # b  BY <1>2 DEF Runs
  <2> QED  BY <1>1, <1>8, <2>1 DEF World, StartedOnce
<1>11. World(item', place', run', iv') /\ Later(item, place, item', place')
  BY <1>1, <1>4, <1>5, <1>7, <1>9, <1>10, LaterSame DEF World, Heartbeat
<1> QED  BY <1>11, StepKeeps DEF Heartbeat, Inv

\* A Run whose status changes while it works, or whose steers are read.
LEMMA WorkStep ==
    ASSUME Inv, NEW r \in Runs, run[r].status = "running",
           NEW x \in RunRow, x.session = run[r].session, x.plan = run[r].plan,
           x.reply = run[r].reply, x.edit = run[r].edit, x.status \in Live,
           x.steers = <<>> \/ (x.steers = run[r].steers /\ x.status = "needs_reconciliation"),
           run' = [run EXCEPT ![r] = x],
           place' \in [Messages -> {"new", "steer", "applied", "queued", "run", "receipt", "deleted"}],
           \A m \in Messages :
             \/ place'[m] = place[m]
             \/ /\ m \in ToSet(run[r].steers) /\ place'[m] = "applied"
                /\ x.steers = <<>>,
           UNCHANGED <<item, iv, archived, archiving, view, raised>>
    PROVE  Inv'
<1>1. World(item, place, run, iv) /\ run \in [Runs -> RunRow]  BY WorldTypes DEF Inv
<1>2. run'[r] = x /\ \A a \in Runs \ {r} : run'[a] = run[a]  BY <1>1
<1>3. run' \in [Runs -> RunRow]  BY <1>1
<1>4. SteersTrue(place, run) /\ StartedOnce(place, run) /\ Placed(item, place)
      /\ Replied(run, iv)
  BY <1>1 DEF World
<1>5. ASSUME NEW m \in Messages, m \in ToSet(run[r].steers)
      PROVE  place[m] = "steer" /\ \E k \in DOMAIN run[r].steers : m = run[r].steers[k]
  <2>1. PICK k \in DOMAIN run[r].steers : m = run[r].steers[k]  BY <1>5 DEF ToSet
  <2>2. place[run[r].steers[k]] = "steer"  BY <1>4 DEF SteersTrue
  <2> QED  BY <2>1, <2>2
<1>6. Placed(item, place')
  <2>1. \A m \in Messages : place'[m] = "queued" <=> place[m] = "queued"  BY <1>5
  <2> QED  BY <1>4, <2>1 DEF Placed
<1>7. StartedOnce(place', run')
  <2>1. \A m \in Messages : place'[m] = "run" <=> place[m] = "run"  BY <1>5
  <2>2. \A a \in Runs : run'[a].status = "absent" <=> run[a].status = "absent"
    BY <1>2 DEF Live
  <2>3. \A m \in Messages : m \in Runs  BY DEF Runs
  <2> QED  BY <1>4, <2>1, <2>2, <2>3 DEF StartedOnce
<1>8. Replied(run', iv)
  <2>1. ASSUME NEW a \in Runs
        PROVE  /\ run'[a].session = run[a].session /\ run'[a].plan = run[a].plan
               /\ run'[a].reply = run[a].reply /\ run'[a].edit = run[a].edit
               /\ run'[a].status = run[a].status \/ {run'[a].status, run[a].status} \subseteq Live
    <3>1. CASE a = r  BY <1>2, <3>1 DEF Live
    <3>2. CASE a # r  BY <1>2, <3>2
    <3> QED  BY <3>1, <3>2
  <2> QED  BY <1>3, <1>4, <2>1, GoOnReplied
<1>9. SteersTrue(place', run')
  <2>1. \A a \in Runs : \A k \in DOMAIN run[a].steers : run[a].steers[k] \in Messages
    BY <1>1, WorldTypes
  <2>2. ASSUME NEW a \in Runs, run'[a].steers # <<>>
        PROVE  /\ run'[a].steers = run[a].steers /\ run'[a].session = run[a].session
               /\ run'[a].status \in {"running", "needs_reconciliation"}
               /\ \A k \in DOMAIN run[a].steers :
                    place[run[a].steers[k]] = "steer" => place'[run[a].steers[k]] = "steer"
    <3>1. CASE a = r
      <4>1. x.steers # <<>>  BY <1>2, <2>2, <3>1
      <4>2. \A m \in Messages : place'[m] = place[m]  BY <4>1
      <4> QED  BY <1>2, <2>1, <3>1, <4>1, <4>2
    <3>2. CASE a # r
      <4>1. run'[a] = run[a]  BY <1>2, <3>2
      <4>2. run[a].status \in {"running", "needs_reconciliation"}
        BY <1>4, <2>2, <4>1 DEF SteersTrue
      <4>3. ASSUME NEW k \in DOMAIN run[a].steers
            PROVE  run[a].steers[k] \notin ToSet(run[r].steers)
        <5>1. \A j \in DOMAIN run[r].steers : run[r].steers[j] # run[a].steers[k]
          BY <1>4, <3>2 DEF SteersTrue
        <5> QED  BY <5>1 DEF ToSet
      <4>4. \A k \in DOMAIN run[a].steers : place'[run[a].steers[k]] = place[run[a].steers[k]]
        BY <2>1, <4>3
      <4> QED  BY <4>1, <4>2, <4>4
    <3> QED  BY <3>1, <3>2
  <2>3. \A a \in Runs : run'[a].steers # <<>> =>
          /\ run'[a].steers = run[a].steers /\ run'[a].session = run[a].session
          /\ run'[a].status \in {"running", "needs_reconciliation"}
          /\ \A k \in DOMAIN run[a].steers :
               place[run[a].steers[k]] = "steer" => place'[run[a].steers[k]] = "steer"
    BY <2>2
  <2>4. SteersTrue(place, run)  BY <1>4
  <2>5. \A a \in Runs : \A k \in DOMAIN run'[a].steers :
          /\ run'[a].steers # <<>> /\ k \in DOMAIN run[a].steers
          /\ run'[a].steers[k] = run[a].steers[k]
    <3>1. DOMAIN <<>> = {}  OBVIOUS
    <3> QED  BY <2>3, <3>1
  <2>6. \A a \in Runs : run'[a].steers # <<>> =>
          run'[a].session # None /\ run'[a].status \in {"running", "needs_reconciliation"}
    BY <2>3, <2>4 DEF SteersTrue
  <2>7. \A a \in Runs : \A k \in DOMAIN run'[a].steers : place'[run'[a].steers[k]] = "steer"
    BY <2>3, <2>4, <2>5 DEF SteersTrue
  <2>8. \A r1, r2 \in Runs : \A k1 \in DOMAIN run'[r1].steers, k2 \in DOMAIN run'[r2].steers :
            run'[r1].steers[k1] = run'[r2].steers[k2] => r1 = r2 /\ k1 = k2
    BY <2>4, <2>5 DEF SteersTrue
  <2> QED  BY <2>6, <2>7, <2>8 DEF SteersTrue
<1>10. World(item', place', run', iv')  BY <1>1, <1>6, <1>7, <1>8, <1>9 DEF World
<1>11. Later(item, place, item', place')
  <2>1. \A m \in Messages : place[m] \in {"queued", "run", "deleted"} => place'[m] = place[m]
    BY <1>5
  <2> QED  BY <2>1 DEF Later
<1> QED  BY <1>10, <1>11, StepKeeps DEF Inv

\* prepare_finalization, consume_pending_steers and the fence after a restart
LEMMA WorkSteps ==
    ASSUME Inv, NEW r \in Runs, ConsumeSteers(r) \/ PrepareFinalization(r) \/ Fence(r)
    PROVE  Inv'
<1>1. /\ run \in [Runs -> RunRow] /\ run[r] \in RunRow
      /\ place \in [Messages -> {"new", "steer", "applied", "queued", "run", "receipt", "deleted"}]
  BY WorldTypes DEF Inv
<1>2. <<>> \in Seq(Messages)  OBVIOUS
<1>3. CASE ConsumeSteers(r)
  <2> DEFINE x == [run[r] EXCEPT !.steers = <<>>]
  <2>1. /\ x \in RunRow /\ x.session = run[r].session /\ x.plan = run[r].plan
        /\ x.reply = run[r].reply /\ x.status = run[r].status /\ x.steers = <<>>
        /\ x.edit = run[r].edit
    BY <1>1, <1>2 DEF RunRow
  <2>2. run' = [run EXCEPT ![r] = x]  BY <1>3 DEF ConsumeSteers
  <2> HIDE DEF x
  <2>3. place' = [m \in Messages |->
                    IF m \in ToSet(run[r].steers) THEN "applied" ELSE place[m]]
    BY <1>3 DEF ConsumeSteers
  <2>4. place' \in [Messages -> {"new", "steer", "applied", "queued", "run", "receipt", "deleted"}]
    BY <1>1, <2>3
  <2>5. \A m \in Messages : \/ place'[m] = place[m]
                            \/ /\ m \in ToSet(run[r].steers) /\ place'[m] = "applied"
                               /\ x.steers = <<>>
    BY <2>1, <2>3
  <2>6. run[r].status = "running" /\ x.status \in Live  BY <1>3, <2>1 DEF ConsumeSteers, Live
  <2>7. UNCHANGED <<item, iv, archived, archiving, view, raised>>  BY <1>3 DEF ConsumeSteers
  <2> QED  BY <2>1, <2>2, <2>4, <2>5, <2>6, <2>7, WorkStep
<1>4. CASE PrepareFinalization(r)
  <2> DEFINE x == [run[r] EXCEPT !.status = "finalizing"]
  <2>1. /\ x \in RunRow /\ x.session = run[r].session /\ x.plan = run[r].plan
        /\ x.reply = run[r].reply /\ x.status = "finalizing" /\ x.steers = run[r].steers
        /\ x.edit = run[r].edit
    BY <1>1 DEF RunRow, Live
  <2>2. run' = [run EXCEPT ![r] = x]  BY <1>4 DEF PrepareFinalization
  <2> HIDE DEF x
  <2>3. run[r].status = "running" /\ x.status \in Live /\ x.steers = <<>> /\ place' = place
    BY <1>4, <2>1 DEF PrepareFinalization, Live
  <2>4. UNCHANGED <<item, iv, archived, archiving, view, raised>>
    BY <1>4 DEF PrepareFinalization
  <2> QED  BY <1>1, <2>1, <2>2, <2>3, <2>4, WorkStep
<1>5. CASE Fence(r)
  <2> DEFINE x == [run[r] EXCEPT !.status = "needs_reconciliation"]
  <2>1. /\ x \in RunRow /\ x.session = run[r].session /\ x.plan = run[r].plan
        /\ x.reply = run[r].reply /\ x.status = "needs_reconciliation"
        /\ x.steers = run[r].steers /\ x.edit = run[r].edit
    BY <1>1 DEF RunRow, Live
  <2>2. run' = [run EXCEPT ![r] = x]  BY <1>5 DEF Fence
  <2> HIDE DEF x
  <2>3. run[r].status = "running" /\ x.status \in Live /\ place' = place
    BY <1>5, <2>1 DEF Fence, Live
  <2>4. UNCHANGED <<item, iv, archived, archiving, view, raised>>  BY <1>5 DEF Fence
  <2> QED  BY <1>1, <2>1, <2>2, <2>3, <2>4, WorkStep
<1> QED  BY <1>3, <1>4, <1>5
\* finalize_run and terminate_run before they start the next Run: the Run ends, its
\* steers are queued and its reply target closes.
LEMMA EndWorld ==
    ASSUME World(item, place, run, iv), NEW r \in Runs, run[r].status \in Live,
           NEW st \in Ended, ~CloseConflict(r, st)
    PROVE  LET it == WithSteers(item, r)
               pl == [m \in Messages |->
                        IF m \in ToSet(run[r].steers) THEN "queued" ELSE place[m]]
               rr == [run EXCEPT ![r].status = st, ![r].steers = <<>>]
           IN  /\ World(it, pl, rr, Closed(r, st))
               /\ Later(item, place, it, pl)
<1> DEFINE q == run[r].steers
           it == WithSteers(item, r)
           pl == [m \in Messages |-> IF m \in ToSet(q) THEN "queued" ELSE place[m]]
           rr == [run EXCEPT ![r].status = st, ![r].steers = <<>>]
           ivs == Closed(r, st)
<1>1. /\ Rows(item) /\ Lists(item) /\ run \in [Runs -> RunRow] /\ run[r] \in RunRow
      /\ place \in [Messages -> {"new", "steer", "applied", "queued", "run", "receipt", "deleted"}]
      /\ \A m \in Messages : place[m] = "queued" <=> item[m] # None
  BY WorldTypes
<1>2. SteersTrue(place, run) /\ StartedOnce(place, run) /\ Replied(run, iv)  BY DEF World
<1>3. \A a \in Runs : \A k \in DOMAIN run[a].steers :
        run[a].steers[k] \in Messages /\ place[run[a].steers[k]] = "steer"
  <2>1. \A a \in Runs : run[a].steers \in Seq(Messages)  BY WorldTypes
  <2>2. \A a \in Runs : \A k \in DOMAIN run[a].steers : run[a].steers[k] \in Messages
    BY <2>1
  <2> QED  BY <1>2, <2>2 DEF SteersTrue
<1>4. \A m \in ToSet(q) : m \in Messages /\ place[m] = "steer" /\ item[m] = None
  <2>1. \A m \in ToSet(q) : \E k \in DOMAIN q : m = q[k]  BY DEF ToSet
  <2>2. \A m \in ToSet(q) : m \in Messages /\ place[m] = "steer"  BY <1>3, <2>1
  <2> QED  BY <1>1, <2>2
<1>5. /\ Lists(it)
      /\ \A m \in Messages \ ToSet(q) : it[m] = item[m]
      /\ \A m \in ToSet(q) : it[m] # None
  <2>1. q # <<>> => run[r].session # None  BY <1>2 DEF SteersTrue
  <2>2. \A j, k \in DOMAIN q : q[j] = q[k] => j = k  BY <1>2 DEF SteersTrue
  <2>3. \A k \in DOMAIN q : item[q[k]] = None
    <3>1. \A k \in DOMAIN q : q[k] \in ToSet(q)  BY DEF ToSet
    <3> QED  BY <1>4, <3>1
  <2>4. LET it2 == WithSteers(item, r) IN
           /\ Lists(it2)
           /\ \A m \in Messages \ ToSet(run[r].steers) : it2[m] = item[m]
           /\ \A k \in DOMAIN run[r].steers :
                LET m == run[r].steers[k] IN
                m \in Messages /\ it2[m] # None /\ it2[m] \in ItemRow
                /\ it2[m].session = run[r].session
                /\ it2[m].pos = NextPosition(item, run[r].session) + k - 1
    BY <1>1, <2>1, <2>2, <2>3, SteersJoin
  <2>5. \A k \in DOMAIN q : it[q[k]] # None  BY <2>4
  <2>6. \A m \in ToSet(q) : \E k \in DOMAIN q : m = q[k]  BY DEF ToSet
  <2>7. \A m \in ToSet(q) : it[m] # None  BY <2>5, <2>6
  <2> QED  BY <2>4, <2>7
<1>6. /\ pl \in [Messages -> {"new", "steer", "applied", "queued", "run", "receipt", "deleted"}]
      /\ \A m \in Messages : pl[m] = IF m \in ToSet(q) THEN "queued" ELSE place[m]
  BY <1>1
<1>7. /\ rr \in [Runs -> RunRow]
      /\ rr[r].status = st /\ rr[r].steers = <<>>
      /\ \A a \in Runs \ {r} : rr[a] = run[a]
  <2>1. LET z == [run EXCEPT ![r].status = st, ![r].steers = <<>>] IN
           /\ z \in [Runs -> RunRow]
           /\ z[r].status = st /\ z[r].steers = <<>>
           /\ z[r].session = run[r].session /\ z[r].plan = run[r].plan
           /\ z[r].reply = run[r].reply
           /\ \A a \in Runs \ {r} : z[a] = run[a]
    BY <1>1, EndedRuns
  <2> QED  BY <2>1
<1>8. Replied(rr, ivs)  BY <1>2, EndReplied
<1> HIDE DEF it, pl, rr, ivs
<1>9. Placed(it, pl)
  <2>1. ASSUME NEW m \in Messages
        PROVE  pl[m] = "queued" <=> it[m] # None
    <3>1. CASE m \in ToSet(q)  BY <1>5, <1>6, <3>1
    <3>2. CASE m \notin ToSet(q)
      <4>1. it[m] = item[m] /\ pl[m] = place[m]  BY <1>5, <1>6, <3>2
      <4> QED  BY <1>1, <4>1
    <3> QED  BY <3>1, <3>2
  <2> QED  BY <1>6, <2>1 DEF Placed
<1>10. StartedOnce(pl, rr)
  <2>1. \A m \in Messages : m \in Runs  BY DEF Runs
  <2>2. \A m \in Messages : run[m].status # "absent" <=> place[m] = "run"
    BY <1>2 DEF StartedOnce
  <2>3. \A m \in Messages : pl[m] = "run" <=> place[m] = "run"  BY <1>4, <1>6
  <2>4. \A a \in Runs : rr[a].status # "absent" <=> run[a].status # "absent"
    BY <1>7 DEF Live, Ended
  <2> QED  BY <2>1, <2>2, <2>3, <2>4 DEF StartedOnce
<1>11. SteersTrue(pl, rr)
  <2>1. ASSUME NEW a \in Runs, rr[a].steers # <<>>
        PROVE  /\ rr[a].steers = run[a].steers /\ rr[a].session = run[a].session
               /\ rr[a].status \in {"running", "needs_reconciliation"}
               /\ \A k \in DOMAIN run[a].steers :
                    place[run[a].steers[k]] = "steer" => pl[run[a].steers[k]] = "steer"
    <3>1. a # r /\ rr[a] = run[a]  BY <1>7, <2>1
    <3>2. run[a].status \in {"running", "needs_reconciliation"}
      BY <1>2, <2>1, <3>1 DEF SteersTrue
    <3>3. ASSUME NEW k \in DOMAIN run[a].steers
          PROVE  run[a].steers[k] \notin ToSet(q)
      <4>1. \A j \in DOMAIN q : q[j] # run[a].steers[k]
        BY <1>2, <3>1 DEF SteersTrue
      <4> QED  BY <4>1 DEF ToSet
    <3>4. \A k \in DOMAIN run[a].steers : pl[run[a].steers[k]] = place[run[a].steers[k]]
      BY <1>3, <1>6, <3>3
    <3> QED  BY <3>1, <3>2, <3>4
  <2> QED  BY <1>2, <2>1, SteersStay
<1>12. World(it, pl, rr, ivs)  BY <1>5, <1>8, <1>9, <1>10, <1>11 DEF World
<1>13. Later(item, place, it, pl)
  <2>1. ASSUME NEW m \in Messages, place[m] \in {"queued", "run", "deleted"}
        PROVE  pl[m] = place[m] /\ it[m] = item[m]
    <3>1. m \notin ToSet(q)  BY <1>4, <2>1
    <3> QED  BY <1>5, <1>6, <3>1
  <2> QED  BY <2>1 DEF Later
<1> QED  BY <1>12, <1>13 DEF it, pl, rr, ivs

\* The head of a queue, when it is dispatched.
LEMMA SuccessorIs ==
    ASSUME NEW rr, NEW ivs, NEW it, Lists(it), NEW s \in Sessions \cup {None}
    PROVE  LET next == Successor(rr, ivs, it, s) IN
           \/ next = None /\ (s = None \/ In(it, s) = {} \/ Refused(rr, ivs, it[First(it, s)]))
           \/ /\ next = First(it, s) /\ next \in Messages /\ s \in Sessions
              /\ it[next] # None /\ it[next].session = s /\ it[next].pos = 0
              /\ ~Refused(rr, ivs, it[next])
<1>1. CASE s = None \/ In(it, s) = {} \/ Refused(rr, ivs, it[First(it, s)])
  BY <1>1 DEF Successor
<1>2. CASE ~(s = None \/ In(it, s) = {} \/ Refused(rr, ivs, it[First(it, s)]))
  <2>1. s \in Sessions /\ Successor(rr, ivs, it, s) = First(it, s)  BY <1>2 DEF Successor
  <2>2. PICK n \in Nat : Dense(it, s, n)  BY <2>1, DenseOf
  <2>3. Rows(it)  BY DEF Lists
  <2>4. First(it, s) \in In(it, s) /\ it[First(it, s)].pos = 0  BY <1>2, <2>2, <2>3, FirstIn
  <2>5. First(it, s) \in Messages /\ it[First(it, s)] # None /\ it[First(it, s)].session = s
    BY <2>4 DEF In
  <2> QED  BY <1>2, <2>1, <2>4, <2>5
<1> QED  BY <1>1, <1>2
\* What the last transaction of a Run does: it is rolled back by a mail reply at the
\* head or by the reply target, or the Run ends and the head, if any, becomes a Run.
LEMMA FinishIs ==
    ASSUME Inv, NEW r \in Runs, run[r].status \in Live, NEW st \in Ended, Finish(r, st)
    PROVE  LET it == WithSteers(item, r)
               pl == [m \in Messages |->
                        IF m \in ToSet(run[r].steers) THEN "queued" ELSE place[m]]
               rr == [run EXCEPT ![r].status = st, ![r].steers = <<>>]
               ivs == Closed(r, st)
               next == Successor(rr, ivs, it, run[r].session)
           IN  \/ Abort("foreign_key")
               \/ Abort("intervention") /\ CloseConflict(r, st)
               \/ /\ ~CloseConflict(r, st)
                  /\ UNCHANGED <<archived, archiving, view, raised>>
                  /\ \/ /\ next = None
                        /\ item' = it /\ place' = pl /\ run' = rr /\ iv' = ivs
                     \/ /\ next \in Messages /\ it[next] # None
                        /\ next = First(it, run[r].session)
                        /\ it[next].session = run[r].session
                        /\ ~Refused(rr, ivs, it[next])
                        /\ item' = Compacted(it, next)
                        /\ place' = [pl EXCEPT ![next] = "run"]
                        /\ run' = [rr EXCEPT ![next] =
                                     NewRun(it[next].session, PlanOf[it[next].session],
                                            it[next].reply, it[next].mode)]
                        /\ iv' = Accept(ivs, it[next].reply)
<1> DEFINE q == run[r].steers
           s == run[r].session
           it == WithSteers(item, r)
           pl == [m \in Messages |-> IF m \in ToSet(q) THEN "queued" ELSE place[m]]
           rr == [run EXCEPT ![r].status = st, ![r].steers = <<>>]
           ivs == Closed(r, st)
           next == Successor(rr, ivs, it, s)
           error == IF CloseConflict(r, st) THEN "intervention"
                    ELSE IF next = None THEN "none" ELSE Removal(it, next).error
<1>1. \/ error # "none" /\ Abort(error)
      \/ /\ error = "none"
         /\ place' = [m \in Messages |->
               IF m = next THEN "run" ELSE IF m \in ToSet(q) THEN "queued" ELSE place[m]]
         /\ IF next = None
              THEN item' = it /\ run' = rr /\ iv' = ivs
              ELSE Dispatch(rr, ivs, it, next)
         /\ UNCHANGED <<archived, archiving, view, raised>>
  BY DEF Finish
<1>2. World(item, place, run, iv) /\ run[r].session \in Sessions \cup {None}
  <2>1. run \in [Runs -> RunRow]  BY WorldTypes DEF Inv
  <2> QED  BY <2>1 DEF Inv, RunRow
<1>3. CASE CloseConflict(r, st)
  <2>1. error = "intervention"  BY <1>3
  <2> HIDE DEF error
  <2>2. Abort("intervention")  BY <1>1, <2>1
  <2> QED  BY <1>3, <2>2
<1>4. CASE ~CloseConflict(r, st)
  <2>1. Lists(it)
    <3>1. LET it2 == WithSteers(item, r)
              pl2 == [m \in Messages |->
                        IF m \in ToSet(run[r].steers) THEN "queued" ELSE place[m]]
              rr2 == [run EXCEPT ![r].status = st, ![r].steers = <<>>]
          IN  /\ World(it2, pl2, rr2, Closed(r, st))
              /\ Later(item, place, it2, pl2)
      BY <1>2, <1>4, EndWorld
    <3>2. World(it, pl, rr, ivs)  BY <3>1
    <3> HIDE DEF it, pl, rr, ivs
    <3> QED  BY <3>2, WorldTypes
  <2>2. \/ next = None
        \/ /\ next = First(it, s) /\ next \in Messages
           /\ it[next] # None /\ it[next].session = s
           /\ ~Refused(rr, ivs, it[next])
    <3> HIDE DEF it, pl, rr, ivs
    <3>1. LET n == Successor(rr, ivs, it, s) IN
           \/ n = None /\ (s = None \/ In(it, s) = {} \/ Refused(rr, ivs, it[First(it, s)]))
           \/ /\ n = First(it, s) /\ n \in Messages /\ s \in Sessions
              /\ it[n] # None /\ it[n].session = s /\ it[n].pos = 0
              /\ ~Refused(rr, ivs, it[n])
      BY <1>2, <2>1, SuccessorIs
    <3> QED  BY <3>1
  <2> HIDE DEF next, it, pl, rr, ivs
  <2>3. CASE next = None
    <3>1. error = "none"  BY <1>4, <2>3
    <3> HIDE DEF error
    <3>2. \A m \in Messages : m # next  BY <2>3, QueueAssumption
    <3>3. place' = pl  BY <1>1, <3>1, <3>2 DEF pl
    <3> QED  BY <1>1, <1>4, <2>3, <3>1, <3>3 DEF next, it, pl, rr, ivs
  <2>4. CASE next # None
    <3>1. next \in Messages /\ it[next] # None /\ next = First(it, s)
          /\ it[next].session = s /\ ~Refused(rr, ivs, it[next])
      BY <2>2, <2>4
    <3>2. /\ Removal(it, next).items = Compacted(it, next)
          /\ Removal(it, next).error \in {"foreign_key", "none"}
      BY <2>1, <3>1, RemovalWorks
    <3>3. error = Removal(it, next).error  BY <1>4, <2>4
    <3> HIDE DEF error
    <3>4. CASE error = "foreign_key"
      <4>1. Abort("foreign_key")  BY <1>1, <3>4
      <4> QED  BY <4>1
    <3>5. CASE error = "none"
      <4>1. Dispatch(rr, ivs, it, next) /\ UNCHANGED <<archived, archiving, view, raised>>
        BY <1>1, <2>4, <3>5
      <4>2. place' = [m \in Messages |->
               IF m = next THEN "run" ELSE IF m \in ToSet(q) THEN "queued" ELSE place[m]]
        BY <1>1, <3>5
      <4>3. place' = [pl EXCEPT ![next] = "run"]  BY <4>2 DEF pl
      <4>4. /\ item' = Compacted(it, next)
            /\ iv' = Accept(ivs, it[next].reply)
            /\ run' = [rr EXCEPT ![next] =
                         NewRun(it[next].session, PlanOf[it[next].session],
                                it[next].reply, it[next].mode)]
        BY <3>2, <4>1 DEF Dispatch
      <4> QED  BY <1>4, <3>1, <4>1, <4>3, <4>4 DEF next, it, pl, rr, ivs
    <3> QED  BY <3>2, <3>3, <3>4, <3>5
  <2> QED  BY <2>3, <2>4
<1> QED  BY <1>3, <1>4

\* A Run ends, or its end is rolled back.
LEMMA FinishStep ==
    ASSUME Inv, NEW r \in Runs, run[r].status \in Live, NEW st \in Ended, Finish(r, st)
    PROVE  Inv'
<1> DEFINE it == WithSteers(item, r)
           pl == [m \in Messages |->
                    IF m \in ToSet(run[r].steers) THEN "queued" ELSE place[m]]
           rr == [run EXCEPT ![r].status = st, ![r].steers = <<>>]
           ivs == Closed(r, st)
           next == Successor(rr, ivs, it, run[r].session)
<1>1. \/ Abort("foreign_key")
      \/ Abort("intervention") /\ CloseConflict(r, st)
      \/ /\ ~CloseConflict(r, st)
         /\ UNCHANGED <<archived, archiving, view, raised>>
         /\ \/ item' = it /\ place' = pl /\ run' = rr /\ iv' = ivs
            \/ /\ next \in Messages /\ it[next] # None
               /\ ~Refused(rr, ivs, it[next])
               /\ item' = Compacted(it, next)
               /\ place' = [pl EXCEPT ![next] = "run"]
               /\ run' = [rr EXCEPT ![next] =
                            NewRun(it[next].session, PlanOf[it[next].session],
                                   it[next].reply, it[next].mode)]
               /\ iv' = Accept(ivs, it[next].reply)
  BY FinishIs
<1> HIDE DEF next
<1>2. CASE Abort("foreign_key")
  <2>1. World(item', place', run', iv')  BY <1>2 DEF Inv, Abort
  <2>2. Later(item, place, item', place')  BY <1>2, LaterSame DEF Abort
  <2> QED  BY <1>2, <2>1, <2>2, StepKeeps DEF Inv, Abort
<1>3. CASE Abort("intervention") /\ CloseConflict(r, st)
  <2>1. World(item', place', run', iv')  BY <1>3 DEF Inv, Abort
  <2>2. Later(item, place, item', place')  BY <1>3, LaterSame DEF Abort
  <2> QED  BY <1>3, <2>1, <2>2, StepKeeps DEF Inv, Abort
<1>4. CASE /\ ~CloseConflict(r, st)
           /\ UNCHANGED <<archived, archiving, view, raised>>
           /\ \/ item' = it /\ place' = pl /\ run' = rr /\ iv' = ivs
              \/ /\ next \in Messages /\ it[next] # None
                 /\ ~Refused(rr, ivs, it[next])
                 /\ item' = Compacted(it, next)
                 /\ place' = [pl EXCEPT ![next] = "run"]
                 /\ run' = [rr EXCEPT ![next] =
                              NewRun(it[next].session, PlanOf[it[next].session],
                                     it[next].reply, it[next].mode)]
                 /\ iv' = Accept(ivs, it[next].reply)
  <2>1. World(item, place, run, iv) /\ Rows(item) /\ ~CloseConflict(r, st)
    BY <1>4, WorldTypes DEF Inv
  <2>2. World(it, pl, rr, ivs) /\ Later(item, place, it, pl)
    <3>1. LET it2 == WithSteers(item, r)
              pl2 == [m \in Messages |->
                        IF m \in ToSet(run[r].steers) THEN "queued" ELSE place[m]]
              rr2 == [run EXCEPT ![r].status = st, ![r].steers = <<>>]
          IN  /\ World(it2, pl2, rr2, Closed(r, st))
              /\ Later(item, place, it2, pl2)
      BY <2>1, EndWorld
    <3> QED  BY <3>1
  <2>3. \A i \in Interventions : iv[i] = "receipt" => ivs[i] = "receipt"
    BY <2>1, EndReplied DEF World
  <2> HIDE DEF it, pl, rr, ivs
  <2>4. CASE item' = it /\ place' = pl /\ run' = rr /\ iv' = ivs
    <3>1. World(item', place', run', iv') /\ Later(item, place, item', place')
      BY <2>2, <2>4
    <3>2. \A i \in Interventions : iv[i] = "receipt" => iv'[i] = "receipt"  BY <2>3, <2>4
    <3> QED  BY <1>4, <3>1, <3>2, StepKeeps DEF Inv
  <2>5. CASE /\ next \in Messages /\ it[next] # None
             /\ ~Refused(rr, ivs, it[next])
             /\ item' = Compacted(it, next)
             /\ place' = [pl EXCEPT ![next] = "run"]
             /\ run' = [rr EXCEPT ![next] =
                          NewRun(it[next].session, PlanOf[it[next].session],
                                 it[next].reply, it[next].mode)]
             /\ iv' = Accept(ivs, it[next].reply)
    <3>1. /\ World(Compacted(it, next), [pl EXCEPT ![next] = "run"],
                      [rr EXCEPT ![next] = NewRun(it[next].session, PlanOf[it[next].session],
                                               it[next].reply, it[next].mode)],
                      Accept(ivs, it[next].reply))
          /\ Later(it, pl, Compacted(it, next), [pl EXCEPT ![next] = "run"])
      BY <2>2, <2>5, DispatchWorld
    <3>2. World(item', place', run', iv') /\ Later(it, pl, item', place')  BY <2>5, <3>1
    <3>3. Rows(it) /\ Rows(item')  BY <2>2, <3>2, WorldTypes
    <3>4. Later(item, place, item', place')  BY <2>1, <2>2, <3>2, <3>3, LaterStill
    <3>5. it[next].reply \in Interventions \cup {None} /\ Replied(rr, ivs)
      BY <2>2, <2>5, <3>3, RowIn DEF World
    <3>6. \A i \in Interventions : ivs[i] = "receipt" => iv'[i] = "receipt"
      BY <2>5, <3>5, AcceptKeeps
    <3>7. \A i \in Interventions : iv[i] = "receipt" => iv'[i] = "receipt"  BY <2>3, <3>6
    <3> QED  BY <1>4, <3>2, <3>4, <3>7, StepKeeps DEF Inv
  <2> QED  BY <1>4, <2>4, <2>5
<1> QED  BY <1>1, <1>2, <1>3, <1>4

\* Complete, Fail and Cancel
LEMMA EndSteps ==
    ASSUME Inv, NEW r \in Runs, Complete(r) \/ Fail(r) \/ Cancel(r)
    PROVE  Inv'
<1>1. \E st \in Ended : run[r].status \in Live /\ Finish(r, st)
  BY DEF Complete, Fail, Cancel, Live, Ended
<1> QED  BY <1>1, FinishStep
\* GET /queue by a tab
LEMMA LoadStep ==
    ASSUME Inv, NEW t \in Tabs, NEW m \in Messages, Load(t, m)
    PROVE  Inv'
<1> DEFINE x == [id |-> m, row |-> item[m]]
<1>1. World(item, place, run, iv) /\ Rows(item) /\ item[m] # None
      /\ \A q \in Messages : place[q] = "queued" <=> item[q] # None
  BY WorldTypes DEF Inv, Load
<1>2. item[m] \in ItemRow  BY <1>1, RowIn
<1>3. x \in Seen /\ x.id = m /\ x.row = item[m]  BY <1>2 DEF Seen
<1> HIDE DEF x
<1>4. view' = [view EXCEPT ![t] = x]  BY DEF Load, x
<1>5. view' \in [Tabs -> Seen \cup {None}] /\ view'[t] = x
      /\ \A u \in Tabs \ {t} : view'[u] = view[u]
  BY <1>3, <1>4 DEF Inv
<1>6. ViewTrue(item, place, view')
  <2>1. place[m] = "queued"  BY <1>1
  <2>2. ViewTrue(item, place, view)  BY DEF Inv
  <2>3. ASSUME NEW u \in Tabs, view'[u] # None
        PROVE  /\ place[view'[u].id] \in {"queued", "run", "deleted"}
               /\ item[view'[u].id] # None =>
                    \/ item[view'[u].id].version > view'[u].row.version
                    \/ /\ item[view'[u].id].version = view'[u].row.version
                       /\ item[view'[u].id].pos = view'[u].row.pos
                       /\ item[view'[u].id].text = view'[u].row.text
    <3>1. CASE u = t  BY <1>3, <1>5, <2>1, <3>1
    <3>2. CASE u # t
      <4>1. view'[u] = view[u]  BY <1>5, <3>2
      <4> QED  BY <2>2, <2>3, <4>1 DEF ViewTrue
    <3> QED  BY <3>1, <3>2
  <2> QED  BY <2>3 DEF ViewTrue
<1> QED  BY <1>5, <1>6 DEF Inv, Load

\* What a tab asks for: the row is there, as the tab saw it.
LEMMA CurrentRow ==
    ASSUME Inv, NEW t \in Tabs, Current(t)
    PROVE  /\ view[t] \in Seen /\ view[t].id \in Messages /\ item[view[t].id] # None
           /\ item[view[t].id] \in ItemRow /\ place[view[t].id] = "queued"
           /\ item[view[t].id].pos = view[t].row.pos
           /\ item[view[t].id].text = view[t].row.text
<1>1. view[t] \in Seen /\ item[view[t].id] # None
      /\ item[view[t].id].version = view[t].row.version
  BY DEF Inv, Current
<1>2. view[t].id \in Messages /\ view[t].row \in ItemRow  BY <1>1 DEF Seen
<1>3. Rows(item) /\ \A q \in Messages : place[q] = "queued" <=> item[q] # None
  BY WorldTypes DEF Inv
<1>4. item[view[t].id].version \in Nat /\ item[view[t].id] \in ItemRow
  BY <1>1, <1>2, <1>3, RowIn
<1>5. ~(item[view[t].id].version > view[t].row.version)  BY <1>1, <1>4
<1>6. view[t] # None  BY DEF Current
<1>7. item[view[t].id].pos = view[t].row.pos /\ item[view[t].id].text = view[t].row.text
  BY <1>1, <1>5, <1>6 DEF Inv, ViewTrue
<1> QED  BY <1>1, <1>2, <1>3, <1>4, <1>7

\* The tab that has its answer shows no row until it loads one again.
LEMMA AnsweredView ==
    ASSUME Inv, NEW t \in Tabs, Answered(t)
    PROVE  /\ view' \in [Tabs -> Seen \cup {None}]
           /\ \A u \in Tabs : view'[u] = IF u = t THEN None ELSE view[u]
BY DEF Inv, Answered

\* Requests that change rows of a queue or take one out, and no Run.
LEMMA RowsStep ==
    ASSUME Inv, NEW t \in Tabs, Answered(t), Lists(item'), Placed(item', place'),
           \A m \in Messages : place'[m] = place[m] \/ (place[m] = "queued" /\ place'[m] = "deleted"),
           Later(item, place, item', place'),
           raised' = raised \/ raised' = "foreign_key",
           UNCHANGED <<run, iv, archived, archiving>>
    PROVE  Inv'
<1>1. World(item, place, run, iv)  BY DEF Inv
<1>2. World(item', place', run, iv)
  <2>1. \A m \in Messages : place'[m] = "run" <=> place[m] = "run"  OBVIOUS
  <2>2. \A m \in Messages : place[m] = "steer" => place'[m] = "steer"  OBVIOUS
  <2> QED  BY <1>1, <2>1, <2>2, RowsWorld
<1>3. World(item', place', run', iv')  BY <1>2
<1>4. /\ view' \in [Tabs -> Seen \cup {None}]
      /\ \A u \in Tabs : view'[u] = view[u] \/ view'[u] = None
  BY AnsweredView
<1>5. archived' \subseteq Sessions \cup Plans /\ archiving' \subseteq Sessions \cup Plans
      /\ \A i \in Interventions : iv[i] = "receipt" => iv'[i] = "receipt"
  BY DEF Inv
<1> QED  BY <1>3, <1>4, <1>5, StepKeeps

\* PATCH of a text
LEMMA EditTextStep ==
    ASSUME Inv, NEW t \in Tabs, EditText(t)
    PROVE  Inv'
<1> DEFINE m == view[t].id
           x == [item[m] EXCEPT !.text = @ + 1, !.version = @ + 1]
<1>1. /\ m \in Messages /\ item[m] # None /\ item[m] \in ItemRow
  BY CurrentRow DEF EditText
<1>2. /\ Rows(item) /\ Lists(item) /\ Placed(item, place)
      /\ \A q \in Messages : place[q] = "queued" <=> item[q] # None
  BY WorldTypes DEF Inv, World
<1>3. /\ x \in ItemRow /\ x.session = item[m].session /\ x.pos = item[m].pos
      /\ x.version = item[m].version + 1
  <2> DEFINE y == item[m]
  <2>1. y \in ItemRow  BY <1>1
  <2>2. x = [y EXCEPT !.text = y.text + 1, !.version = y.version + 1]  OBVIOUS
  <2> HIDE DEF y
  <2>3. y.text + 1 \in Nat /\ y.version + 1 \in Nat  BY <2>1, RowFields
  <2>4. \A a, b \in Nat : [y EXCEPT !.text = a, !.version = b] \in ItemRow
    BY <2>1 DEF ItemRow
  <2>5. DOMAIN y = {"session", "reply", "mode", "mail", "pos", "version", "text"}
    BY <2>1 DEF ItemRow
  <2>6. x \in ItemRow  BY <2>2, <2>3, <2>4
  <2>7. x.session = y.session /\ x.pos = y.pos /\ x.version = y.version + 1
    BY <2>2, <2>5
  <2> QED  BY <2>6, <2>7 DEF y
<1>4. x # None  BY <1>3, RowFields
<1>5. item' = [item EXCEPT ![m] = x]
      /\ Answered(t) /\ UNCHANGED <<place, run, iv, archived, archiving, raised>>
  BY DEF EditText
<1> HIDE DEF x, m
<1>6. item'[m] = x /\ \A q \in Messages \ {m} : item'[q] = item[q]
  BY <1>1, <1>2, <1>5 DEF Rows
<1>7. Rows(item')  BY <1>2, <1>3, <1>5 DEF Rows
<1>8. Lists(item')
  <2>1. ASSUME NEW z \in Sessions
        PROVE  \E n \in Nat : Dense(item', z, n)
    <3>1. PICK n \in Nat : Dense(item, z, n)  BY <1>2, DenseOf
    <3>2. In(item', z) = In(item, z)  BY <1>1, <1>3, <1>4, <1>6 DEF In
    <3>3. \A q \in In(item, z) : item'[q].pos = item[q].pos
      <4>1. \A q \in Messages : item'[q].pos = item[q].pos  BY <1>3, <1>6
      <4> QED  BY <4>1 DEF In
    <3> QED  BY <3>1, <3>2, <3>3, SameDense
  <2> QED  BY <1>7, <2>1 DEF Lists, AllDense
<1>9. \A q \in Messages : item'[q] # None <=> item[q] # None  BY <1>1, <1>4, <1>6
<1>10. Placed(item', place')  BY <1>2, <1>5, <1>9 DEF Placed
<1>11. Later(item, place, item', place')
  <2>1. item[m].version \in Nat  BY <1>1, RowFields
  <2>2. \A q \in Messages : item'[q] = item[q] \/ item'[q].version > item[q].version
    BY <1>3, <1>6, <2>1
  <2> QED  BY <1>5, <1>9, <2>2 DEF Later
<1> QED  BY <1>5, <1>8, <1>10, <1>11, RowsStep

\* What PATCH of a position does: a move in the list of the session.
LEMMA MoveToIs ==
    ASSUME Inv, NEW t \in Tabs, NEW k \in Nat, MoveTo(t, k)
    PROVE  /\ raised' = raised
           /\ \E m \in Messages, i \in Nat :
                LET s == item[m].session
                    q == Ordered(item, s)
                    o == InsertAt(Without(q, m), i, m)
                IN  /\ item[m] # None /\ s \in Sessions
                    /\ q \in Seq(Messages) /\ m \in ToSet(q) /\ i \in 1..Len(q)
                    /\ o \in Seq(Messages)
                    /\ \A a, b \in DOMAIN o : o[a] = o[b] => a = b
                    /\ ToSet(o) = In(item, s)
                    /\ item' = Reordered(item, o)
<1> DEFINE m == view[t].id
           s == item[m].session
           q == Ordered(item, s)
           others == Without(q, m)
           i == Min({k, Len(others)}) + 1
           o == InsertAt(others, i, m)
           moved == ReorderQueue(item, s, o)
<1>1. m \in Messages /\ item[m] # None /\ item[m] \in ItemRow
  BY CurrentRow DEF MoveTo
<1>2. Lists(item) /\ s \in Sessions  BY <1>1, WorldTypes, RowFields DEF Inv
<1>3. /\ q \in Seq(Messages) /\ m \in ToSet(q) /\ i \in 1..Len(q)
      /\ o \in Seq(Messages) /\ o # <<>>
      /\ \A a, b \in DOMAIN o : o[a] = o[b] => a = b
      /\ ToSet(o) = In(item, s)
  <2>1. LET q2 == Ordered(item, item[m].session)
            others2 == Without(q2, m)
            i2 == Min({k, Len(others2)}) + 1
            o2 == InsertAt(others2, i2, m)
        IN  /\ q2 \in Seq(Messages) /\ m \in ToSet(q2) /\ i2 \in 1..Len(q2)
            /\ o2 \in Seq(Messages) /\ o2 # <<>>
            /\ \A a, b \in DOMAIN o2 : o2[a] = o2[b] => a = b
            /\ ToSet(o2) = In(item, item[m].session)
    BY <1>1, <1>2, MoveToOrder
  <2> QED  BY <2>1
<1>4. item' = (IF moved.clash THEN item ELSE moved.items)
      /\ raised' = (IF moved.clash THEN "position" ELSE raised)
  BY DEF MoveTo
<1> HIDE DEF o
<1>5. moved = [items |-> Reordered(item, o), clash |-> FALSE]
  BY <1>2, <1>3, ReorderQueueWorks
<1> HIDE DEF moved
<1>6. item' = Reordered(item, o) /\ raised' = raised  BY <1>4, <1>5
<1>7. i \in Nat
  <2>1. Len(q) \in Nat  BY <1>3
  <2> HIDE DEF i, q
  <2> QED  BY <1>3, <2>1
<1> HIDE DEF i, others, q, s
<1>8. LET s2 == item[m].session
          q2 == Ordered(item, s2)
          o2 == InsertAt(Without(q2, m), i, m)
      IN  /\ item[m] # None /\ s2 \in Sessions
          /\ q2 \in Seq(Messages) /\ m \in ToSet(q2) /\ i \in 1..Len(q2)
          /\ o2 \in Seq(Messages)
          /\ \A a, b \in DOMAIN o2 : o2[a] = o2[b] => a = b
          /\ ToSet(o2) = In(item, s2)
          /\ item' = Reordered(item, o2)
  BY <1>1, <1>2, <1>3, <1>6 DEF o, q, others, s
<1> HIDE DEF m
<1> QED  BY <1>1, <1>6, <1>7, <1>8

\* PATCH of a position
LEMMA MoveToStep ==
    ASSUME Inv, NEW t \in Tabs, NEW k \in Nat, MoveTo(t, k)
    PROVE  Inv'
<1>1. PICK s \in Sessions, o \in Seq(Messages) :
        /\ \A a, b \in DOMAIN o : o[a] = o[b] => a = b
        /\ ToSet(o) = In(item, s)
        /\ item' = Reordered(item, o)
  BY MoveToIs
<1>2. /\ Rows(item) /\ Lists(item) /\ Placed(item, place)
      /\ \A q \in Messages : place[q] = "queued" <=> item[q] # None
  BY WorldTypes DEF Inv, World
<1>3. /\ Lists(item')
      /\ \A m \in Messages : item'[m] # None <=> item[m] # None
      /\ \A m \in Messages : item[m] # None =>
           item'[m] = item[m] \/ item'[m].version = item[m].version + 1
  BY <1>1, <1>2, ReorderedKeeps
<1>4. raised' = raised /\ Answered(t) /\ UNCHANGED <<place, run, iv, archived, archiving>>
  BY MoveToIs DEF MoveTo
<1>5. Placed(item', place')  BY <1>2, <1>3, <1>4 DEF Placed
<1>6. Later(item, place, item', place')
  <2>1. ASSUME NEW m \in Messages, item'[m] # None
        PROVE  item[m] # None /\ (item'[m] = item[m] \/ item'[m].version > item[m].version)
    <3>1. item[m] # None /\ item[m].version \in Nat  BY <1>2, <1>3, <2>1, RowIn
    <3> QED  BY <1>3, <3>1
  <2> QED  BY <1>4, <2>1 DEF Later
<1> QED  BY <1>3, <1>4, <1>5, <1>6, RowsStep

\* DELETE
LEMMA DeleteStep ==
    ASSUME Inv, NEW t \in Tabs, Delete(t)
    PROVE  Inv'
<1> DEFINE m == view[t].id
<1>1. m \in Messages /\ item[m] # None /\ place[m] = "queued"
  BY CurrentRow DEF Delete
<1>2. /\ World(item, place, run, iv)
      /\ Rows(item) /\ Lists(item) /\ Placed(item, place)
      /\ place \in [Messages -> {"new", "steer", "applied", "queued", "run", "receipt", "deleted"}]
  BY WorldTypes DEF Inv, World
<1>3. /\ Removal(item, m).items = Compacted(item, m)
      /\ Removal(item, m).error \in {"foreign_key", "none"}
  BY <1>1, <1>2, RemovalWorks
<1>4. /\ \/ raised' = "foreign_key" /\ UNCHANGED <<item, place>>
         \/ /\ item' = Compacted(item, m) /\ place' = [place EXCEPT ![m] = "deleted"]
            /\ raised' = raised
      /\ Answered(t) /\ UNCHANGED <<run, iv, archived, archiving>>
  BY <1>3 DEF Delete
<1> HIDE DEF m
<1>5. CASE raised' = "foreign_key" /\ UNCHANGED <<item, place>>
  <2>1. Lists(item') /\ Placed(item', place')  BY <1>2, <1>5
  <2>2. Later(item, place, item', place')  BY <1>5, LaterSame
  <2> QED  BY <1>4, <1>5, <2>1, <2>2, RowsStep
<1>6. CASE /\ item' = Compacted(item, m) /\ place' = [place EXCEPT ![m] = "deleted"]
           /\ raised' = raised
  <2>1. /\ Lists(item')
        /\ \A q \in Messages : item'[q] # None <=> item[q] # None /\ q # m
    BY <1>1, <1>2, <1>6, CompactedKeeps
  <2>2. /\ place' \in [Messages -> {"new", "steer", "applied", "queued", "run", "receipt", "deleted"}]
        /\ place'[m] = "deleted" /\ \A q \in Messages \ {m} : place'[q] = place[q]
    BY <1>1, <1>2, <1>6
  <2>3. Placed(item', place')  BY <1>2, <2>1, <2>2 DEF Placed
  <2>4. Later(item, place, item', place')
    <3>1. "deleted" \in {"run", "deleted"}  OBVIOUS
    <3>2. Later(item, place, Compacted(item, m), [place EXCEPT ![m] = "deleted"])
      BY <1>1, <1>2, <3>1, LeaveLater
    <3> QED  BY <1>6, <3>2
  <2>5. \A q \in Messages : place'[q] = place[q] \/ (place[q] = "queued" /\ place'[q] = "deleted")
    BY <1>1, <2>2
  <2> QED  BY <1>4, <1>6, <2>1, <2>3, <2>4, <2>5, RowsStep
<1> QED  BY <1>4, <1>5, <1>6

\* POST /queue/{id}/send
LEMMA SendStep ==
    ASSUME Inv, NEW t \in Tabs, Send(t)
    PROVE  Inv'
<1> DEFINE m == view[t].id
<1>1. m \in Messages /\ item[m] # None /\ item[m] \in ItemRow
  BY CurrentRow DEF Send
<1>2. World(item, place, run, iv) /\ Lists(item)  BY WorldTypes DEF Inv
<1>3. /\ Removal(item, m).items = Compacted(item, m)
      /\ Removal(item, m).error \in {"foreign_key", "none"}
  BY <1>1, <1>2, RemovalWorks
<1>4. /\ ~Refused(run, iv, item[m])
      /\ \/ raised' = "foreign_key" /\ UNCHANGED <<item, place, run, iv>>
         \/ /\ Dispatch(run, iv, item, m) /\ place' = [place EXCEPT ![m] = "run"]
            /\ raised' = raised
      /\ Answered(t) /\ UNCHANGED <<archived, archiving>>
  BY <1>3 DEF Send
<1> HIDE DEF m
<1>5. /\ view' \in [Tabs -> Seen \cup {None}]
      /\ \A u \in Tabs : view'[u] = view[u] \/ view'[u] = None
  BY <1>4, AnsweredView
<1>6. archived' \subseteq Sessions \cup Plans /\ archiving' \subseteq Sessions \cup Plans
  BY <1>4 DEF Inv
<1>7. CASE raised' = "foreign_key" /\ UNCHANGED <<item, place, run, iv>>
  <2>1. World(item', place', run', iv')  BY <1>2, <1>7
  <2>2. Later(item, place, item', place')  BY <1>7, LaterSame
  <2> QED  BY <1>5, <1>6, <1>7, <2>1, <2>2, StepKeeps
<1>8. CASE /\ Dispatch(run, iv, item, m) /\ place' = [place EXCEPT ![m] = "run"]
           /\ raised' = raised
  <2>1. /\ item' = Compacted(item, m) /\ iv' = Accept(iv, item[m].reply)
        /\ run' = [run EXCEPT ![m] = NewRun(item[m].session, PlanOf[item[m].session],
                                            item[m].reply, item[m].mode)]
    BY <1>3, <1>8 DEF Dispatch
  <2>2. /\ World(Compacted(item, m), [place EXCEPT ![m] = "run"],
                    [run EXCEPT ![m] = NewRun(item[m].session, PlanOf[item[m].session],
                                             item[m].reply, item[m].mode)],
                    Accept(iv, item[m].reply))
        /\ Later(item, place, Compacted(item, m), [place EXCEPT ![m] = "run"])
    BY <1>1, <1>2, <1>4, DispatchWorld
  <2>3. World(item', place', run', iv') /\ Later(item, place, item', place')
    BY <1>8, <2>1, <2>2
  <2>4. \A i \in Interventions : iv[i] = "receipt" => iv'[i] = "receipt"
    <3>1. item[m].reply \in Interventions \cup {None} /\ Replied(run, iv)
      BY <1>1, <1>2, RowFields DEF World
    <3> QED  BY <2>1, <3>1, AcceptKeeps
  <2> QED  BY <1>5, <1>6, <1>8, <2>3, <2>4, StepKeeps
<1> QED  BY <1>4, <1>7, <1>8

\* Archiving and restoring
LEMMA ArchiveSteps ==
    ASSUME Inv, NEW x \in Sessions \cup Plans, CheckArchive(x) \/ WriteArchive(x) \/ Restore(x)
    PROVE  Inv'
<1>1. UNCHANGED <<item, place, run, iv, view, raised>>
  BY DEF CheckArchive, WriteArchive, Restore
<1>2. archived' \subseteq Sessions \cup Plans /\ archiving' \subseteq Sessions \cup Plans
  BY DEF Inv, CheckArchive, WriteArchive, Restore
<1>3. World(item', place', run', iv')  BY <1>1 DEF Inv
<1>4. Later(item, place, item', place')  BY <1>1, LaterSame
<1> QED  BY <1>1, <1>2, <1>3, <1>4, StepKeeps DEF Inv
\* The requests of a tab
LEMMA TabStep ==
    ASSUME Inv, NEW t \in Tabs,
           \/ \E m \in Messages : Load(t, m)
           \/ EditText(t) \/ Delete(t) \/ Send(t)
           \/ \E k \in 0..Cardinality(Messages) : MoveTo(t, k)
    PROVE  Inv'
<1>1. CASE \E m \in Messages : Load(t, m)  BY <1>1, LoadStep
<1>2. CASE EditText(t)  BY <1>2, EditTextStep
<1>3. CASE Delete(t)  BY <1>3, DeleteStep
<1>4. CASE Send(t)  BY <1>4, SendStep
<1>5. CASE \E k \in 0..Cardinality(Messages) : MoveTo(t, k)
  <2>1. PICK k \in 0..Cardinality(Messages) : MoveTo(t, k)  BY <1>5
  <2>2. Cardinality(Messages) \in Nat  BY MessagesAssumption, FS_CardinalityType
  <2>3. k \in Nat  BY <2>2
  <2> QED  BY <2>1, <2>3, MoveToStep
<1> QED  BY <1>1, <1>2, <1>3, <1>4, <1>5

\* Every step keeps the invariant.
LEMMA NextKeeps ==
    ASSUME Inv, Next
    PROVE  Inv'
<1>1. CASE \E m \in Messages, s \in Sessions, mode \in Modes : \E i \in Targets(s) :
              CreateRun(m, s, i, mode) \/ Enqueue(m, s, i, mode)
  BY <1>1, CreateRunStep, EnqueueStep
<1>2. CASE \E m \in Messages : \/ \E i \in Interventions : MailReply(m, i)
                               \/ \E n \in Messages : EditMessage(m, n)
                               \/ \E r \in Runs : Steer(m, r)
  BY <1>2, MailReplyStep, EditMessageStep, SteerStep
<1>3. CASE \E b \in Beats, p \in Plans : Heartbeat(b, p)  BY <1>3, HeartbeatStep
<1>4. CASE \E r \in Runs : \/ ConsumeSteers(r) \/ PrepareFinalization(r) \/ Fence(r)
                           \/ Complete(r) \/ Fail(r) \/ Cancel(r)
  BY <1>4, WorkSteps, EndSteps
<1>5. CASE \E t \in Tabs : \/ \E m \in Messages : Load(t, m)
                           \/ EditText(t) \/ Delete(t) \/ Send(t)
                           \/ \E k \in 0..Cardinality(Messages) : MoveTo(t, k)
  BY <1>5, TabStep
<1>6. CASE \E x \in Sessions \cup Plans : CheckArchive(x) \/ WriteArchive(x) \/ Restore(x)
  BY <1>6, ArchiveSteps
<1> QED  BY <1>1, <1>2, <1>3, <1>4, <1>5, <1>6 DEF Next

\* A step that changes nothing keeps it, too.
LEMMA QuietKeeps ==
    ASSUME Inv, UNCHANGED vars
    PROVE  Inv'
<1>1. UNCHANGED <<item, place, run, iv, archived, archiving, view, raised>>  BY DEF vars
<1>2. World(item', place', run', iv') /\ Later(item, place, item', place')
  BY <1>1, LaterSame DEF Inv
<1> QED  BY <1>1, <1>2, StepKeeps DEF Inv

\* The invariant holds at all times.
THEOREM Invariance == Spec => []Inv
<1>1. Init => Inv  BY Starts
<1>2. Inv /\ [Next]_vars => Inv'  BY NextKeeps, QuietKeeps
<1> QED  BY <1>1, <1>2, PTL DEF Spec

-----------------------------------------------------------------------------
(* What it says.                                                           *)

\* RowsKept: whatever sends, deletions, moves, steers and ends of Runs come in
\* which order, a session's n rows stand at 0, ..., n-1, and no UPDATE of a
\* compaction or a move met a position that was taken.
THEOREM QueuesStayLists == Spec => []RowsKept
<1>1. Inv => RowsKept
  <2> SUFFICES ASSUME Inv PROVE RowsKept  OBVIOUS
  <2>1. World(item, place, run, iv) /\ Rows(item) /\ Lists(item) /\ Placed(item, place)
        /\ Replied(run, iv)
    BY WorldTypes DEF Inv, World
  <2>2. TypeOK
    <3>1. item \in [Messages -> ItemRow \cup {None}]  BY <2>1 DEF Rows
    <3>2. /\ place \in [Messages -> {"new", "steer", "applied", "queued", "run", "receipt", "deleted"}]
          /\ \A m \in Messages : (place[m] = "queued") <=> (item[m] # None)
      BY <2>1 DEF Placed
    <3>3. run \in [Runs -> RunRow] /\ iv \in [Interventions -> Open \cup Ended \cup {"receipt"}]
      BY <2>1 DEF Replied
    <3>4. /\ archived \subseteq Sessions \cup Plans /\ archiving \subseteq Sessions \cup Plans
          /\ view \in [Tabs -> Seen \cup {None}]
          /\ raised \in {"none", "intervention", "foreign_key", "position"}
      BY DEF Inv
    <3> QED  BY <3>1, <3>2, <3>3, <3>4 DEF TypeOK
  <2>3. PositionsDense
    <3>1. ASSUME NEW s \in Sessions
          PROVE  Positions(item, s) = 0 .. Cardinality(In(item, s)) - 1
      <4>1. PICK n \in Nat : Dense(item, s, n)  BY <2>1, DenseOf
      <4>2. Cardinality(In(item, s)) = n /\ Positions(item, s) = 0..(n - 1)
        BY <2>1, <4>1, DenseCount
      <4> QED  BY <4>2
    <3> QED  BY <3>1 DEF PositionsDense
  <2>4. NoPositionClash  BY DEF Inv, NoPositionClash
  <2> QED  BY <2>2, <2>3, <2>4 DEF RowsKept
<1> QED  BY <1>1, Invariance, PTL

\* OneRootPerScope: a session without a plan and a plan have one live root Run, a
\* fenced one included, wherever their Runs come from.
THEOREM OneRoot == Spec => []OneRootPerScope
<1>1. Inv => OneRootPerScope
  BY DEF Inv, World, Replied, ScopesTrue, OneRootPerScope
<1> QED  BY <1>1, Invariance, PTL

\* RepliesAgree: an intervention is closed as the Run that answered it ended, two
\* Runs that answered it never disagree, and the end of a live Run can be rolled back
\* by what it answers only after a receipt for a mail to an archived plan or when the
\* Run repeats an edited message.
THEOREM AnswersStayAgreed == Spec => []RepliesAgree
<1>1. Inv => RepliesAgree
  <2> SUFFICES ASSUME Inv PROVE RepliesAgree  OBVIOUS
  <2>1. Replied(run, iv)  BY DEF Inv, World
  <2>2. AnswersAgree  BY <2>1 DEF Replied, AnswersTrue, AnswersAgree
  <2>3. NoReplyConflict
    <3>1. ReplyTrue(run, iv)  BY <2>1 DEF Replied
    <3> QED  BY <3>1 DEF NoReplyConflict, CloseConflict, ReplyTrue, Open
  <2> QED  BY <2>2, <2>3 DEF RepliesAgree
<1> QED  BY <1>1, Invariance, PTL

\* The view of a tab goes only with a request that names the version it saw.
LEMMA ViewGoes ==
    ASSUME Inv, Next, NEW t \in Tabs, view[t] # None, view'[t] = None
    PROVE  Current(t)
<1>1. CASE view' = view  BY <1>1
<1>2. ASSUME NEW u \in Tabs, NEW m \in Messages, Load(u, m)
      PROVE  Current(t)
  <2> DEFINE x == [id |-> m, row |-> item[m]]
  <2>1. Rows(item) /\ item[m] # None  BY <1>2, WorldTypes DEF Inv, Load
  <2>2. item[m] \in ItemRow  BY <2>1, RowIn
  <2>3. x \in Seen  BY <2>2 DEF Seen
  <2>4. view' = [view EXCEPT ![u] = x]  BY <1>2 DEF Load
  <2> HIDE DEF x
  <2>5. x # None  BY <2>3, NoneIsNoRow
  <2>6. view'[t] = view[t] \/ view'[t] = x  BY <2>4 DEF Inv
  <2> QED  BY <2>5, <2>6
<1>3. ASSUME NEW u \in Tabs, Current(u), Answered(u)
      PROVE  Current(t)
  <2>1. view'[t] = IF t = u THEN None ELSE view[t]  BY <1>3, AnsweredView
  <2> QED  BY <1>3, <2>1
<1>4. CASE \E m \in Messages, s \in Sessions, mode \in Modes : \E i \in Targets(s) :
              CreateRun(m, s, i, mode) \/ Enqueue(m, s, i, mode)
  <2>1. PICK m \in Messages, s \in Sessions, mode \in Modes :
          \E i \in Targets(s) : CreateRun(m, s, i, mode) \/ Enqueue(m, s, i, mode)
    BY <1>4
  <2>2. PICK i \in Targets(s) : CreateRun(m, s, i, mode) \/ Enqueue(m, s, i, mode)
    BY <2>1
  <2>3. CASE CreateRun(m, s, i, mode)
    <3>1. view' = view  BY <2>3 DEF CreateRun
    <3> QED  BY <1>1, <3>1
  <2>4. CASE Enqueue(m, s, i, mode)
    <3>1. view' = view  BY <2>4 DEF Enqueue
    <3> QED  BY <1>1, <3>1
  <2> QED  BY <2>2, <2>3, <2>4
<1>5. CASE \E m \in Messages : \/ \E i \in Interventions : MailReply(m, i)
                               \/ \E n \in Messages : EditMessage(m, n)
                               \/ \E r \in Runs : Steer(m, r)
  <2>1. view' = view  BY <1>5 DEF MailReply, EditMessage, Steer
  <2> QED  BY <1>1, <2>1
<1>6. CASE \E b \in Beats, p \in Plans : Heartbeat(b, p)  BY <1>1, <1>6 DEF Heartbeat
<1>7. CASE \E r \in Runs : \/ ConsumeSteers(r) \/ PrepareFinalization(r) \/ Fence(r)
                           \/ Complete(r) \/ Fail(r) \/ Cancel(r)
  <2>1. \A r \in Runs, st \in Ended : Finish(r, st) => view' = view
    BY DEF Finish, Abort
  <2>2. \A r \in Runs : Complete(r) \/ Fail(r) \/ Cancel(r) => view' = view
    BY <2>1 DEF Complete, Fail, Cancel, Ended
  <2>3. \A r \in Runs : ConsumeSteers(r) \/ PrepareFinalization(r) \/ Fence(r) => view' = view
    BY DEF ConsumeSteers, PrepareFinalization, Fence
  <2>4. view' = view  BY <1>7, <2>2, <2>3
  <2> QED  BY <1>1, <2>4
<1>8. CASE \E u \in Tabs : \/ \E m \in Messages : Load(u, m)
                           \/ EditText(u) \/ Delete(u) \/ Send(u)
                           \/ \E k \in 0..Cardinality(Messages) : MoveTo(u, k)
  <2>1. PICK u \in Tabs : \/ \E m \in Messages : Load(u, m)
                          \/ EditText(u) \/ Delete(u) \/ Send(u)
                          \/ \E k \in 0..Cardinality(Messages) : MoveTo(u, k)
    BY <1>8
  <2>2. CASE \E m \in Messages : Load(u, m)  BY <1>2, <2>2
  <2>3. CASE EditText(u) \/ Delete(u) \/ Send(u)
    <3>1. Current(u) /\ Answered(u)  BY <2>3 DEF EditText, Delete, Send
    <3> QED  BY <1>3, <3>1
  <2>4. CASE \E k \in 0..Cardinality(Messages) : MoveTo(u, k)
    <3>1. Current(u) /\ Answered(u)  BY <2>4 DEF MoveTo
    <3> QED  BY <1>3, <3>1
  <2> QED  BY <2>1, <2>2, <2>3, <2>4
<1>9. CASE \E x \in Sessions \cup Plans : CheckArchive(x) \/ WriteArchive(x) \/ Restore(x)
  <2>1. view' = view  BY <1>9 DEF CheckArchive, WriteArchive, Restore
  <2> QED  BY <1>1, <2>1
<1> QED  BY <1>4, <1>5, <1>6, <1>7, <1>8, <1>9 DEF Next

\* NoBlindChange: a tab changes, removes or sends a row only where and as it showed
\* it, because every change and move of the row has given it a later version.
THEOREM NobodyChangesBlindly == Spec => NoBlindChange
<1>1. ASSUME Inv, [Next]_vars
      PROVE  [\A t \in Tabs, m \in Messages :
                 /\ view[t] # None /\ view[t].id = m
                 /\ view'[t] = None
                 /\ item'[m] # item[m]
                 => item[m].pos = view[t].row.pos /\ item[m].text = view[t].row.text]_vars
  <2>1. CASE UNCHANGED vars  BY <2>1
  <2>2. CASE Next
    <3>1. ASSUME NEW t \in Tabs, NEW m \in Messages, view[t] # None, view[t].id = m,
                 view'[t] = None
          PROVE  item[m].pos = view[t].row.pos /\ item[m].text = view[t].row.text
      <4>1. Current(t)  BY <1>1, <2>2, <3>1, ViewGoes
      <4> QED  BY <1>1, <3>1, <4>1, CurrentRow
    <3> QED  BY <3>1
  <2> QED  BY <1>1, <2>1, <2>2
<1> QED  BY <1>1, Invariance, PTL DEF Spec, NoBlindChange
\* No step but the last transaction of a Run ends it.
LEMMA OnlyFinishEnds ==
    ASSUME Inv, Next, NEW r \in Runs, run[r].status \in Live, run'[r].status \in Ended
    PROVE  \E st \in Ended : Finish(r, st)
<1>1. run \in [Runs -> RunRow] /\ World(item, place, run, iv)  BY WorldTypes DEF Inv
<1>2. run'[r].status # run[r].status /\ run'[r].status # "running"
      /\ run'[r].status # "finalizing" /\ run'[r].status # "needs_reconciliation"
  BY DEF Live, Ended
<1>3. CASE run' = run  BY <1>2, <1>3
<1>4. ASSUME NEW m, NEW x, run' = [run EXCEPT ![m] = x],
             x.status \in Live \/ x.status = run[m].status
      PROVE  FALSE
  <2>1. run'[r] = run[r] \/ (m = r /\ run'[r] = x)  BY <1>1, <1>4
  <2> QED  BY <1>2, <1>4, <2>1 DEF Live
<1>5. \A s, p, i, mode : NewRun(s, p, i, mode).status \in Live  BY DEF NewRun, Live
<1>6. CASE \E m \in Messages, s \in Sessions, mode \in Modes : \E i \in Targets(s) :
              CreateRun(m, s, i, mode) \/ Enqueue(m, s, i, mode)
  <2>1. PICK m \in Messages, s \in Sessions, mode \in Modes :
          \E i \in Targets(s) : CreateRun(m, s, i, mode) \/ Enqueue(m, s, i, mode)
    BY <1>6
  <2>2. PICK i \in Targets(s) : CreateRun(m, s, i, mode) \/ Enqueue(m, s, i, mode)
    BY <2>1
  <2>3. run' = run \/ run' = [run EXCEPT ![m] = NewRun(s, PlanOf[s], i, mode)]
    BY <2>2 DEF CreateRun, Enqueue
  <2> QED  BY <1>3, <1>4, <1>5, <2>3
<1>7. CASE \E m \in Messages : \E i \in Interventions : MailReply(m, i)
  <2>1. PICK m \in Messages, i \in Interventions : MailReply(m, i)  BY <1>7
  <2>2. run' = run \/ run' = [run EXCEPT ![m] = NewRun(SessionOf[i], PlanOf[SessionOf[i]], i, "normal")]
    BY <2>1 DEF MailReply
  <2> QED  BY <1>3, <1>4, <1>5, <2>2
<1>8. CASE \E m \in Messages : \E a \in Runs : Steer(m, a)
  <2>1. PICK m \in Messages, a \in Runs : Steer(m, a)  BY <1>8
  <2> DEFINE x == [run[a] EXCEPT !.steers = Append(@, m)]
  <2>2. x.status = run[a].status  BY <1>1, <2>1 DEF RunRow
  <2>3. run' = run \/ run' = [run EXCEPT ![a] = x]  BY <2>1 DEF Steer
  <2> HIDE DEF x
  <2> QED  BY <1>3, <1>4, <2>2, <2>3
<1>9. CASE \E b \in Beats, p \in Plans : Heartbeat(b, p)
  <2>1. PICK b \in Beats, p \in Plans : Heartbeat(b, p)  BY <1>9
  <2>2. run' = [run EXCEPT ![b] = NewRun(None, p, None, "normal")]  BY <2>1 DEF Heartbeat
  <2> QED  BY <1>4, <1>5, <2>2
<1>10. CASE \E a \in Runs : ConsumeSteers(a) \/ PrepareFinalization(a) \/ Fence(a)
  <2>1. PICK a \in Runs : ConsumeSteers(a) \/ PrepareFinalization(a) \/ Fence(a)  BY <1>10
  <2>2. run[a] \in RunRow  BY <1>1
  <2>3. CASE ConsumeSteers(a)
    <3> DEFINE x == [run[a] EXCEPT !.steers = <<>>]
    <3>1. x.status = run[a].status  BY <2>2 DEF RunRow
    <3>2. run' = [run EXCEPT ![a] = x]  BY <2>3 DEF ConsumeSteers
    <3> HIDE DEF x
    <3> QED  BY <1>4, <3>1, <3>2
  <2>4. CASE PrepareFinalization(a)
    <3> DEFINE x == [run[a] EXCEPT !.status = "finalizing"]
    <3>1. x.status \in Live  BY <2>2 DEF RunRow, Live
    <3>2. run' = [run EXCEPT ![a] = x]  BY <2>4 DEF PrepareFinalization
    <3> HIDE DEF x
    <3> QED  BY <1>4, <3>1, <3>2
  <2>5. CASE Fence(a)
    <3> DEFINE x == [run[a] EXCEPT !.status = "needs_reconciliation"]
    <3>1. x.status \in Live  BY <2>2 DEF RunRow, Live
    <3>2. run' = [run EXCEPT ![a] = x]  BY <2>5 DEF Fence
    <3> HIDE DEF x
    <3> QED  BY <1>4, <3>1, <3>2
  <2> QED  BY <2>1, <2>3, <2>4, <2>5
<1>11. CASE \E a \in Runs : Complete(a) \/ Fail(a) \/ Cancel(a)
  <2>1. PICK a \in Runs : Complete(a) \/ Fail(a) \/ Cancel(a)  BY <1>11
  <2>2. PICK st \in Ended : run[a].status \in Live /\ Finish(a, st)
    BY <2>1 DEF Complete, Fail, Cancel, Live, Ended
  <2>3. CASE a = r  BY <2>2, <2>3
  <2>4. CASE a # r
    <3> DEFINE rr == [run EXCEPT ![a].status = st, ![a].steers = <<>>]
               it == WithSteers(item, a)
               next == Successor(rr, Closed(a, st), it, run[a].session)
               x == NewRun(it[next].session, PlanOf[it[next].session],
                           it[next].reply, it[next].mode)
    <3>0. \/ Abort("foreign_key")
          \/ Abort("intervention")
          \/ run' = rr
          \/ run' = [rr EXCEPT ![next] = x]
      BY <2>2, FinishIs
    <3>0a. x.status \in Live  BY <1>5
    <3> HIDE DEF x, next, it
    <3>1. \/ run' = run
          \/ run' = rr
          \/ \E n, y : run' = [rr EXCEPT ![n] = y] /\ y.status \in Live
      BY <3>0, <3>0a DEF Abort
    <3>2. rr[r] = run[r] /\ r \in DOMAIN rr  BY <1>1, <2>4
    <3> HIDE DEF rr
    <3>3. \A n, y : run' = [rr EXCEPT ![n] = y] => run'[r] = run[r] \/ run'[r] = y
      BY <3>2
    <3> QED  BY <1>2, <1>3, <3>1, <3>2, <3>3 DEF Live
  <2> QED  BY <2>3, <2>4
<1>12. CASE \E t \in Tabs : \/ \E m \in Messages : Load(t, m)
                            \/ EditText(t) \/ Delete(t)
                            \/ \E k \in 0..Cardinality(Messages) : MoveTo(t, k)
  <2>1. run' = run  BY <1>12 DEF Load, EditText, Delete, MoveTo
  <2> QED  BY <1>3, <2>1
<1>13. CASE \E t \in Tabs : Send(t)
  <2>1. \/ run' = run
        \/ \E n, x : run' = [run EXCEPT ![n] = x] /\ x.status \in Live
    BY <1>5, <1>13 DEF Send, Dispatch
  <2> QED  BY <1>3, <1>4, <2>1
<1>14. CASE \E x \in Sessions \cup Plans : CheckArchive(x) \/ WriteArchive(x) \/ Restore(x)
  <2>1. run' = run  BY <1>14 DEF CheckArchive, WriteArchive, Restore
  <2> QED  BY <1>3, <2>1
<1>15. CASE \E m \in Messages, n \in Messages : EditMessage(m, n)
  <2>1. PICK m \in Messages, n \in Messages : EditMessage(m, n)  BY <1>15
  <2> DEFINE y == NewRun(run[n].session, PlanOf[run[n].session], run[n].reply, "normal")
             x == [y EXCEPT !.edit = TRUE]
  <2>2. x.status \in Live  BY DEF NewRun, Live
  <2>3. run' = [run EXCEPT ![m] = x]  BY <2>1 DEF EditMessage
  <2> HIDE DEF x
  <2> QED  BY <1>4, <2>2, <2>3
<1> QED
  BY <1>6, <1>7, <1>8, <1>9, <1>10, <1>11, <1>12, <1>13, <1>14, <1>15 DEF Next

\* The last transaction of a Run starts the next one, or there is none to start.
LEMMA FinishStartsNext ==
    ASSUME Inv, NEW r \in Runs, run[r].status \in Live, NEW st \in Ended, Finish(r, st),
           run'[r].status \in Ended, run[r].session # None
    PROVE  \/ In(item', run[r].session) = {}
           \/ ~SessionIdle(run', run[r].session)
           \/ Refused(run', iv', item'[First(item', run[r].session)])
<1> DEFINE s == run[r].session
           it == WithSteers(item, r)
           pl == [m \in Messages |->
                    IF m \in ToSet(run[r].steers) THEN "queued" ELSE place[m]]
           rr == [run EXCEPT ![r].status = st, ![r].steers = <<>>]
           ivs == Closed(r, st)
           next == Successor(rr, ivs, it, s)
<1>1. \/ Abort("foreign_key")
      \/ Abort("intervention") /\ CloseConflict(r, st)
      \/ /\ ~CloseConflict(r, st)
         /\ next = None
         /\ item' = it /\ place' = pl /\ run' = rr /\ iv' = ivs
      \/ /\ next \in Messages /\ it[next] # None
         /\ it[next].session = s
         /\ run' = [rr EXCEPT ![next] =
                      NewRun(it[next].session, PlanOf[it[next].session],
                             it[next].reply, it[next].mode)]
  BY FinishIs
<1>2. World(item, place, run, iv) /\ run \in [Runs -> RunRow] /\ s \in Sessions \cup {None}
  <2>1. run \in [Runs -> RunRow]  BY WorldTypes DEF Inv
  <2> QED  BY <2>1 DEF Inv, RunRow
<1>3. run' # run  BY DEF Live, Ended
<1>4. ~Abort("foreign_key") /\ ~Abort("intervention")  BY <1>3 DEF Abort
<1>5. CASE /\ ~CloseConflict(r, st)
           /\ next = None
           /\ item' = it /\ place' = pl /\ run' = rr /\ iv' = ivs
  <2>1. Lists(it)
    <3>1. LET it2 == WithSteers(item, r)
              pl2 == [m \in Messages |->
                        IF m \in ToSet(run[r].steers) THEN "queued" ELSE place[m]]
              rr2 == [run EXCEPT ![r].status = st, ![r].steers = <<>>]
          IN  /\ World(it2, pl2, rr2, Closed(r, st))
              /\ Later(item, place, it2, pl2)
      BY <1>2, <1>5, EndWorld
    <3>2. World(it, pl, rr, ivs)  BY <3>1
    <3> HIDE DEF it, pl, rr, ivs
    <3> QED  BY <3>2, WorldTypes
  <2> HIDE DEF it, pl, rr, ivs
  <2>2. \/ s = None \/ In(it, s) = {} \/ Refused(rr, ivs, it[First(it, s)])
        \/ next \in Messages
    <3>1. LET n == Successor(rr, ivs, it, s) IN
           \/ n = None /\ (s = None \/ In(it, s) = {} \/ Refused(rr, ivs, it[First(it, s)]))
           \/ /\ n = First(it, s) /\ n \in Messages /\ s \in Sessions
              /\ it[n] # None /\ it[n].session = s /\ it[n].pos = 0
              /\ ~Refused(rr, ivs, it[n])
      BY <1>2, <2>1, SuccessorIs
    <3> QED  BY <3>1
  <2>3. next \notin Messages  BY <1>5, QueueAssumption
  <2>4. s # None  OBVIOUS
  <2>5. In(it, s) = {} \/ Refused(rr, ivs, it[First(it, s)])  BY <2>2, <2>3, <2>4
  <2> QED  BY <1>5, <2>5
<1>6. CASE /\ next \in Messages
           /\ it[next].session = s
           /\ run' = [rr EXCEPT ![next] =
                        NewRun(it[next].session, PlanOf[it[next].session],
                               it[next].reply, it[next].mode)]
  <2>1. next \in Runs /\ next \in DOMAIN rr  BY <1>2, <1>6 DEF Runs
  <2> HIDE DEF rr, next, it
  <2>2. run'[next] = NewRun(s, PlanOf[s], it[next].reply, it[next].mode)
    BY <1>6, <2>1
  <2>3. run'[next].status \in Live /\ run'[next].session = s  BY <2>2 DEF NewRun, Live
  <2>4. ~SessionIdle(run', s)  BY <2>1, <2>3 DEF SessionIdle
  <2> QED  BY <2>4
<1> QED  BY <1>1, <1>4, <1>5, <1>6

\* EndStartsNext: a Run that ends leaves no message behind that could have been the
\* next turn, whatever steers and replies the same transaction brought.
THEOREM EndsStartTheNext == Spec => EndStartsNext
<1>1. ASSUME Inv, [Next]_vars
      PROVE  [\A r \in Runs :
                LET s == run[r].session IN
                /\ run[r].status \in Live /\ run'[r].status \in Ended
                /\ s # None
                => \/ In(item', s) = {}
                   \/ ~SessionIdle(run', s)
                   \/ Refused(run', iv', item'[First(item', s)])]_vars
  <2>1. CASE UNCHANGED vars  BY <2>1
  <2>2. CASE Next
    <3>1. ASSUME NEW r \in Runs, run[r].status \in Live, run'[r].status \in Ended,
                 run[r].session # None
          PROVE  \/ In(item', run[r].session) = {}
                 \/ ~SessionIdle(run', run[r].session)
                 \/ Refused(run', iv', item'[First(item', run[r].session)])
      <4>1. PICK st \in Ended : Finish(r, st)  BY <1>1, <2>2, <3>1, OnlyFinishEnds
      <4> QED  BY <1>1, <3>1, <4>1, FinishStartsNext
    <3> QED  BY <3>1
  <2> QED  BY <1>1, <2>1, <2>2
<1> QED  BY <1>1, Invariance, PTL DEF Spec, EndStartsNext
-----------------------------------------------------------------------------
(* The queues as lists.                                                    *)

\* The list of a session of any queues.
LEMMA OrderOf ==
    ASSUME NEW it, Lists(it), NEW s \in Sessions
    PROVE  /\ IsOrder(it, s, Ordered(it, s))
           /\ Ordered(it, s) \in Seq(Messages) /\ ToSet(Ordered(it, s)) = In(it, s)
           /\ Len(Ordered(it, s)) = NextPosition(it, s) /\ NextPosition(it, s) \in Nat
<1>1. Rows(it)  BY DEF Lists
<1>2. PICK n \in Nat : Dense(it, s, n)  BY DenseOf
<1>3. IsOrder(it, s, Ordered(it, s)) /\ Len(Ordered(it, s)) = n  BY <1>1, <1>2, OrderedLists
<1>4. NextPosition(it, s) = n  BY <1>1, <1>2, NextIsCount
<1> QED  BY <1>3, <1>4 DEF IsOrder

\* A list that names the rows of a session in their order is the list of the session.
LEMMA OrderIs ==
    ASSUME NEW it, Lists(it), NEW s \in Sessions, NEW q, IsOrder(it, s, q)
    PROVE  Ordered(it, s) = q
<1>1. Rows(it)  BY DEF Lists
<1>2. PICK n \in Nat : Dense(it, s, n)  BY DenseOf
<1> QED  BY <1>1, <1>2, ListsOnce

\* A session whose rows keep their places keeps its list.
LEMMA SameOrder ==
    ASSUME NEW it, Lists(it), NEW it2, Lists(it2), NEW s \in Sessions,
           In(it2, s) = In(it, s), \A m \in In(it, s) : it2[m].pos = it[m].pos
    PROVE  Ordered(it2, s) = Ordered(it, s)
<1> DEFINE q == Ordered(it, s)
<1>1. IsOrder(it, s, q)  BY OrderOf
<1> HIDE DEF q
<1>2. \A k \in DOMAIN q : q[k] \in In(it, s)  BY <1>1 DEF IsOrder, ToSet
<1>3. IsOrder(it2, s, q)  BY <1>1, <1>2 DEF IsOrder
<1>4. Ordered(it2, s) = q  BY <1>3, OrderIs
<1> QED  BY <1>4 DEF q

\* Two lists, one behind the other.
LEMMA JoinedList ==
    ASSUME NEW q \in Seq(Messages), NEW d \in Seq(Messages)
    PROVE  /\ q \o d \in Seq(Messages) /\ Len(q \o d) = Len(q) + Len(d)
           /\ DOMAIN (q \o d) = 1..(Len(q) + Len(d))
           /\ \A k \in 1..(Len(q) + Len(d)) :
                (q \o d)[k] = IF k <= Len(q) THEN q[k] ELSE d[k - Len(q)]
<1> DEFINE o == q \o d
<1>1. /\ o \in Seq(Messages) /\ Len(o) = Len(q) + Len(d)
      /\ \A k \in 1..(Len(q) + Len(d)) : o[k] = IF k <= Len(q) THEN q[k] ELSE d[k - Len(q)]
  BY ConcatProperties
<1> HIDE DEF o
<1>2. DOMAIN o = 1..(Len(q) + Len(d))  BY <1>1
<1> QED  BY <1>1, <1>2 DEF o

\* Rows that join behind the last one join the end of the list.
LEMMA JoinedOrder ==
    ASSUME NEW it, Lists(it), NEW it2, Lists(it2), NEW s \in Sessions,
           NEW d \in Seq(Messages),
           \A j, k \in DOMAIN d : d[j] = d[k] => j = k,
           \A k \in DOMAIN d : d[k] \notin In(it, s)
                               /\ it2[d[k]].pos = NextPosition(it, s) + k - 1,
           In(it2, s) = In(it, s) \cup ToSet(d),
           \A m \in In(it, s) : it2[m].pos = it[m].pos
    PROVE  Ordered(it2, s) = Ordered(it, s) \o d
<1> DEFINE q == Ordered(it, s)
           o == q \o d
<1>1. /\ IsOrder(it, s, q) /\ q \in Seq(Messages) /\ ToSet(q) = In(it, s)
      /\ Len(q) = NextPosition(it, s)
  BY OrderOf
<1> HIDE DEF q
<1>2. /\ Len(q) \in Nat /\ DOMAIN q = 1..Len(q) /\ Len(d) \in Nat /\ DOMAIN d = 1..Len(d)
  BY <1>1
<1>3. /\ o \in Seq(Messages) /\ DOMAIN o = 1..(Len(q) + Len(d))
      /\ \A k \in 1..(Len(q) + Len(d)) : o[k] = IF k <= Len(q) THEN q[k] ELSE d[k - Len(q)]
  BY <1>1, JoinedList
<1> HIDE DEF o
<1>4. \A k \in 1..Len(q) : q[k] \in In(it, s) /\ it[q[k]].pos = k - 1
  BY <1>1, <1>2 DEF IsOrder, ToSet
<1>5. \A k \in 1..Len(d) : d[k] \in ToSet(d)  BY <1>2 DEF ToSet
<1>6. ASSUME NEW k \in 1..(Len(q) + Len(d))
      PROVE  o[k] \in In(it2, s) /\ it2[o[k]].pos = k - 1
  <2>1. CASE k <= Len(q)
    <3>1. k \in 1..Len(q) /\ o[k] = q[k]  BY <1>2, <1>3, <2>1
    <3> QED  BY <1>4, <3>1
  <2>2. CASE ~(k <= Len(q))
    <3>1. k - Len(q) \in 1..Len(d) /\ o[k] = d[k - Len(q)]  BY <1>2, <1>3, <2>2
    <3>2. it2[o[k]].pos = Len(q) + (k - Len(q)) - 1  BY <1>1, <1>2, <3>1
    <3>3. Len(q) + (k - Len(q)) - 1 = k - 1  BY <1>2
    <3> QED  BY <1>5, <3>1, <3>2, <3>3
  <2> QED  BY <2>1, <2>2
<1>7. \A j, k \in DOMAIN o : o[j] = o[k] => j = k
  <2>1. \A j, k \in 1..(Len(q) + Len(d)) : j - 1 = k - 1 => j = k  BY <1>2
  <2> QED  BY <1>3, <1>6, <2>1
<1>8. ToSet(o) = In(it2, s)
  <2>1. \A m \in ToSet(o) : m \in In(it2, s)  BY <1>3, <1>6 DEF ToSet
  <2>2. ASSUME NEW m \in In(it, s)
        PROVE  m \in ToSet(o)
    <3>1. PICK k \in 1..Len(q) : m = q[k]  BY <1>1, <1>2 DEF ToSet
    <3>2. k \in DOMAIN o /\ o[k] = m  BY <1>2, <1>3, <3>1
    <3> QED  BY <3>2 DEF ToSet
  <2>3. ASSUME NEW m \in ToSet(d)
        PROVE  m \in ToSet(o)
    <3>1. PICK k \in 1..Len(d) : m = d[k]  BY <1>2 DEF ToSet
    <3>2. Len(q) + k \in 1..(Len(q) + Len(d)) /\ (Len(q) + k) - Len(q) = k
          /\ ~(Len(q) + k <= Len(q))
      BY <1>2
    <3>3. Len(q) + k \in DOMAIN o /\ o[Len(q) + k] = m  BY <1>3, <3>1, <3>2
    <3> QED  BY <3>3 DEF ToSet
  <2>4. \A m \in In(it2, s) : m \in ToSet(o)  BY <2>2, <2>3
  <2> QED  BY <2>1, <2>4
<1>9. IsOrder(it2, s, o)  BY <1>3, <1>6, <1>7, <1>8 DEF IsOrder
<1>10. Ordered(it2, s) = o  BY <1>9, OrderIs
<1> QED  BY <1>10 DEF o, q

\* A row that leaves its queue leaves the list.
LEMMA LeftOrder ==
    ASSUME NEW it, Lists(it), NEW m \in Messages, it[m] # None
    PROVE  /\ it[m].session \in Sessions
           /\ m \in ToSet(Ordered(it, it[m].session))
           /\ Ordered(Compacted(it, m), it[m].session)
                = Without(Ordered(it, it[m].session), m)
           /\ \A z \in Sessions \ {it[m].session} :
                Ordered(Compacted(it, m), z) = Ordered(it, z)
<1> DEFINE s == it[m].session
           it2 == Compacted(it, m)
           q == Ordered(it, s)
           o == Without(q, m)
<1>1. Rows(it) /\ s \in Sessions /\ m \in In(it, s) /\ it[m].pos \in Nat
  BY RowIn DEF Lists, In
<1>2. Lists(it2) /\ \A a \in Messages : it2[a] # None <=> it[a] # None /\ a # m
  BY CompactedKeeps
<1>3. ASSUME NEW a \in Messages, it[a] # None, a # m
      PROVE  /\ it2[a].session = it[a].session
             /\ it2[a].pos = IF a \in In(it, s) /\ it[a].pos > it[m].pos
                               THEN it[a].pos - 1 ELSE it[a].pos
  BY <1>1, <1>3, CompactedRow
<1> HIDE DEF it2
<1>4. \A z : In(it2, z) = In(it, z) \ {m}  BY <1>2, <1>3 DEF In
<1>5. ASSUME NEW z \in Sessions \ {s}
      PROVE  Ordered(it2, z) = Ordered(it, z)
  <2>1. \A a \in In(it, z) : a \in Messages /\ it[a] # None /\ a # m /\ a \notin In(it, s)
    BY DEF In
  <2>2. In(it2, z) = In(it, z)  BY <1>4, <2>1
  <2>3. \A a \in In(it, z) : it2[a].pos = it[a].pos  BY <1>3, <2>1
  <2> QED  BY <1>2, <2>2, <2>3, SameOrder
<1>6. /\ IsOrder(it, s, q) /\ q \in Seq(Messages) /\ ToSet(q) = In(it, s)
  BY <1>1, OrderOf
<1> HIDE DEF q
<1>7. PICK p \in DOMAIN q : m = q[p]  BY <1>1, <1>6 DEF ToSet
<1>8. /\ Len(q) \in Nat /\ DOMAIN q = 1..Len(q) /\ p \in 1..Len(q)
      /\ \A j, k \in DOMAIN q : q[j] = q[k] => j = k
      /\ \A k \in 1..Len(q) : q[k] \in In(it, s) /\ it[q[k]].pos = k - 1
  <2>1. \A k \in DOMAIN q : q[k] \in ToSet(q)  BY DEF ToSet
  <2> QED  BY <1>6, <2>1 DEF IsOrder
<1>9. /\ o \in Seq(Messages) /\ Len(o) = Len(q) - 1
      /\ \A k \in 1..(Len(q) - 1) : o[k] = IF k < p THEN q[k] ELSE q[k + 1]
  BY <1>6, <1>7, <1>8, WithoutIs
<1> HIDE DEF o
<1>10. DOMAIN o = 1..(Len(q) - 1)  BY <1>9
<1>11. it[m].pos = p - 1  BY <1>7, <1>8
<1>12. ASSUME NEW k \in 1..(Len(q) - 1)
       PROVE  o[k] \in In(it2, s) /\ it2[o[k]].pos = k - 1
  <2>1. CASE k < p
    <3>1. k \in 1..Len(q) /\ o[k] = q[k] /\ k # p  BY <1>8, <1>9, <2>1
    <3>2. q[k] \in In(it, s) /\ it[q[k]].pos = k - 1 /\ q[k] # m  BY <1>7, <1>8, <3>1
    <3>3. q[k] \in Messages /\ it[q[k]] # None  BY <3>2 DEF In
    <3>4. ~(it[q[k]].pos > it[m].pos)  BY <1>8, <1>11, <2>1, <3>2
    <3>5. it2[q[k]].pos = k - 1  BY <1>3, <3>2, <3>3, <3>4
    <3> QED  BY <1>4, <3>1, <3>2, <3>5
  <2>2. CASE ~(k < p)
    <3>1. k + 1 \in 1..Len(q) /\ o[k] = q[k + 1] /\ k + 1 # p /\ k + 1 > p
      BY <1>8, <1>9, <2>2
    <3>2. q[k + 1] \in In(it, s) /\ it[q[k + 1]].pos = (k + 1) - 1 /\ q[k + 1] # m
      BY <1>7, <1>8, <3>1
    <3>3. q[k + 1] \in Messages /\ it[q[k + 1]] # None  BY <3>2 DEF In
    <3>4. it[q[k + 1]].pos = k /\ it[q[k + 1]].pos > it[m].pos
      BY <1>8, <1>11, <3>1, <3>2
    <3>5. it2[q[k + 1]].pos = k - 1  BY <1>3, <3>2, <3>3, <3>4
    <3> QED  BY <1>4, <3>1, <3>2, <3>5
  <2> QED  BY <2>1, <2>2
<1>13. \A j, k \in DOMAIN o : o[j] = o[k] => j = k
  <2>1. \A j, k \in 1..(Len(q) - 1) : j - 1 = k - 1 => j = k  OBVIOUS
  <2> QED  BY <1>10, <1>12, <2>1
<1>14. ASSUME NEW a \in In(it2, s)
       PROVE  a \in ToSet(o)
  <2>1. a \in In(it, s) /\ a # m  BY <1>4
  <2>2. PICK k \in 1..Len(q) : a = q[k]  BY <1>6, <1>8, <2>1 DEF ToSet
  <2>3. k # p  BY <1>7, <2>1, <2>2
  <2>4. CASE k < p
    <3>1. k \in 1..(Len(q) - 1) /\ o[k] = q[k]  BY <1>8, <1>9, <2>4
    <3> QED  BY <1>10, <2>2, <3>1 DEF ToSet
  <2>5. CASE ~(k < p)
    <3>1. k - 1 \in 1..(Len(q) - 1) /\ (k - 1) + 1 = k /\ ~(k - 1 < p)
      BY <1>8, <2>3, <2>5
    <3>2. o[k - 1] = q[k]  BY <1>9, <3>1
    <3> QED  BY <1>10, <2>2, <3>1, <3>2 DEF ToSet
  <2> QED  BY <2>4, <2>5
<1>15. ToSet(o) = In(it2, s)
  <2>1. \A a \in ToSet(o) : a \in In(it2, s)  BY <1>10, <1>12 DEF ToSet
  <2> QED  BY <1>14, <2>1
<1>16. IsOrder(it2, s, o)  BY <1>9, <1>10, <1>12, <1>13, <1>15 DEF IsOrder
<1>17. Ordered(it2, s) = o  BY <1>1, <1>2, <1>16, OrderIs
<1> QED  BY <1>1, <1>5, <1>6, <1>17 DEF o, q, it2
\* What is grown at its end starts with what it was.
LEMMA PrefixOfJoin ==
    ASSUME NEW q \in Seq(Messages), NEW d \in Seq(Messages)
    PROVE  Len(q) <= Len(q \o d) /\ SubSeq(q, 1, Len(q)) = SubSeq(q \o d, 1, Len(q))
<1> DEFINE o == q \o d
<1>1. /\ o \in Seq(Messages) /\ Len(o) = Len(q) + Len(d)
      /\ Len(q) \in Nat /\ Len(d) \in Nat
  <2>1. o \in Seq(Messages) /\ Len(o) = Len(q) + Len(d)  BY ConcatProperties
  <2> HIDE DEF o
  <2> QED  BY <2>1
<1>2. CASE Len(q) = 0
  <2>1. 0 < 1 /\ 1 \in Int /\ 0 \in Int  OBVIOUS
  <2>2. SubSeq(q, 1, 0) = <<>> /\ SubSeq(o, 1, 0) = <<>>  BY <2>1, SubSeqEmpty
  <2> HIDE DEF o
  <2>3. Len(q) <= Len(o)  BY <1>1
  <2> QED  BY <1>2, <2>2, <2>3 DEF o
<1>3. CASE Len(q) # 0
  <2>1. 1 \in 1..Len(q) /\ Len(q) \in 1..Len(q)  BY <1>1, <1>3
  <2>2. SubSeq(o, 1, Len(q)) = SubSeq(q, 1, Len(q))  BY <2>1, SubSeqOfConcat1
  <2> HIDE DEF o
  <2>3. Len(q) <= Len(o)  BY <1>1
  <2> QED  BY <2>2, <2>3 DEF o
<1> QED  BY <1>2, <1>3

\* The list of a session is one of messages, each once.
LEMMA OrderOnce ==
    ASSUME NEW it, Lists(it), NEW s \in Sessions
    PROVE  /\ Queues!IsInjective(Ordered(it, s))
           /\ Queues!ToSet(Ordered(it, s)) \subseteq Messages
<1> DEFINE q == Ordered(it, s)
<1>1. IsOrder(it, s, q) /\ q \in Seq(Messages)  BY OrderOf
<1> HIDE DEF q
<1>2. \A a, b \in DOMAIN q : q[a] = q[b] => a = b  BY <1>1 DEF IsOrder
<1>3. \A k \in DOMAIN q : q[k] \in Messages  BY <1>1
<1>4. Queues!IsInjective(q)  BY <1>2 DEF Queues!IsInjective
<1>5. Queues!ToSet(q) \subseteq Messages  BY <1>3 DEF Queues!ToSet
<1> QED  BY <1>4, <1>5 DEF q

\* One session's list changes in a way of EditableQueue, the others stay.
LEMMA ListStep ==
    ASSUME NEW s \in Sessions, Lists(item), Lists(item'),
           \A z \in Sessions \ {s} : Ordered(item', z) = Ordered(item, z),
           \/ Queues!Join(s) \/ Queues!Leave(s) \/ Queues!Move(s) \/ Queues!JoinThenLeave(s)
    PROVE  Queues!Next
<1> DEFINE Q == [z \in Sessions |-> Ordered(item, z)]
           R == [z \in Sessions |-> Ordered(item', z)]
<1>1. R = [Q EXCEPT ![s] = R[s]]
  <2>1. \A z \in Sessions : R[z] = (IF z = s THEN R[s] ELSE Q[z])  OBVIOUS
  <2> QED  BY <2>1
<1> QED  BY <1>1 DEF Queues!Next
\* Messages join the end of one list.
LEMMA JoinStep ==
    ASSUME Lists(item), Lists(item'), NEW s \in Sessions, NEW d \in Seq(Messages),
           Ordered(item', s) = Ordered(item, s) \o d,
           \A z \in Sessions \ {s} : Ordered(item', z) = Ordered(item, z)
    PROVE  Queues!Next
<1> DEFINE q == Ordered(item, s)
           o == Ordered(item', s)
<1>1. q \in Seq(Messages) /\ o = q \o d  BY OrderOf
<1>2. Queues!IsInjective(o) /\ Queues!ToSet(o) \subseteq Messages  BY OrderOnce
<1> HIDE DEF q, o
<1>3. Len(q) <= Len(o) /\ SubSeq(q, 1, Len(q)) = SubSeq(o, 1, Len(q))
  BY <1>1, PrefixOfJoin
<1>4. Queues!Grown(q, o)  BY <1>2, <1>3 DEF Queues!Grown, Queues!IsPrefix
<1>5. Queues!Join(s)  BY <1>4 DEF Queues!Join, q, o
<1> QED  BY <1>5, ListStep

\* A message leaves its list.
LEMMA LeaveStep ==
    ASSUME Lists(item), Lists(item'), NEW m \in Messages, item[m] # None,
           item' = Compacted(item, m)
    PROVE  Queues!Next
<1> DEFINE s == item[m].session
           q == Ordered(item, s)
           o == Ordered(item', s)
<1>1. /\ s \in Sessions /\ m \in ToSet(q) /\ o = Without(q, m)
      /\ \A z \in Sessions \ {s} : Ordered(item', z) = Ordered(item, z)
  BY LeftOrder
<1>2. m \in Queues!ToSet(q) /\ o = Queues!Without(q, m)
  BY <1>1 DEF ToSet, Without, RemoveAt, Queues!ToSet, Queues!Without, Queues!RemoveAt
<1> HIDE DEF s
<1>3. Queues!Leave(s)  BY <1>1, <1>2 DEF Queues!Leave
<1> QED  BY <1>1, <1>3, ListStep

\* The learner moves a message in its list.
LEMMA MoveStep ==
    ASSUME Inv, Inv', NEW t \in Tabs, NEW k \in Nat, MoveTo(t, k)
    PROVE  Queues!Next
<1>1. Lists(item) /\ Lists(item')
  <2>1. Lists(item)  BY WorldTypes DEF Inv
  <2>2. World(item', place', run', iv')  BY DEF Inv
  <2> QED  BY <2>1, <2>2, WorldTypes
<1>2. PICK m \in Messages, i \in Nat :
        LET s == item[m].session
            q == Ordered(item, s)
            o == InsertAt(Without(q, m), i, m)
        IN  /\ item[m] # None /\ s \in Sessions
            /\ q \in Seq(Messages) /\ m \in ToSet(q) /\ i \in 1..Len(q)
            /\ o \in Seq(Messages)
            /\ \A a, b \in DOMAIN o : o[a] = o[b] => a = b
            /\ ToSet(o) = In(item, s)
            /\ item' = Reordered(item, o)
  BY MoveToIs
<1> DEFINE s == item[m].session
           q == Ordered(item, s)
           o == InsertAt(Without(q, m), i, m)
<1>3. /\ s \in Sessions /\ m \in ToSet(q) /\ i \in 1..Len(q)
      /\ o \in Seq(Messages)
      /\ \A a, b \in DOMAIN o : o[a] = o[b] => a = b
      /\ ToSet(o) = In(item, s)
      /\ item' = Reordered(item, o)
  BY <1>2
<1> HIDE DEF s, o
<1>4. /\ IsOrder(item', s, o)
      /\ \A z \in Sessions \ {s} : /\ In(item', z) = In(item, z)
                                   /\ \A a \in In(item, z) : item'[a].pos = item[a].pos
  BY <1>1, <1>3, ReorderedKeeps
<1>5. Ordered(item', s) = o
  <2>1. \A it : Lists(it) /\ IsOrder(it, s, o) => Ordered(it, s) = o  BY <1>3, OrderIs
  <2> QED  BY <1>1, <1>4, <2>1
<1>6. ASSUME NEW z \in Sessions \ {s}
      PROVE  Ordered(item', z) = Ordered(item, z)
  <2>1. In(item', z) = In(item, z) /\ \A a \in In(item, z) : item'[a].pos = item[a].pos
    BY <1>4
  <2> QED  BY <1>1, <2>1, SameOrder
<1>7. /\ m \in Queues!ToSet(q)
      /\ o = Queues!InsertAt(Queues!Without(q, m), i, m)
  BY <1>3 DEF o, ToSet, Without, RemoveAt, InsertAt, Queues!ToSet, Queues!Without,
              Queues!RemoveAt, Queues!InsertAt
<1>8. Queues!Move(s)  BY <1>3, <1>5, <1>7 DEF Queues!Move
<1> QED  BY <1>1, <1>3, <1>6, <1>8, ListStep

\* The head leaves a list, behind which messages have joined.
LEMMA HeadLeaves ==
    ASSUME NEW q \in Seq(Messages), NEW d \in Seq(Messages), NEW m,
           \A a, b \in DOMAIN (q \o d) : (q \o d)[a] = (q \o d)[b] => a = b,
           q \o d # <<>>, m = (q \o d)[1]
    PROVE  /\ q = <<>> => Without(q \o d, m) = Tail(d) /\ d # <<>>
           /\ q # <<>> => Without(q \o d, m) = Tail(q) \o d
<1> DEFINE o == q \o d
           w == Without(o, m)
<1>1. /\ o \in Seq(Messages) /\ Len(o) = Len(q) + Len(d)
      /\ DOMAIN o = 1..(Len(q) + Len(d))
      /\ \A k \in 1..(Len(q) + Len(d)) : o[k] = IF k <= Len(q) THEN q[k] ELSE d[k - Len(q)]
  BY JoinedList
<1>2. q = <<>> => o = d  BY ConcatEmptySeq
<1>3. \A a, b \in DOMAIN o : o[a] = o[b] => a = b  OBVIOUS
<1>4. o # <<>> /\ m = o[1]  OBVIOUS
<1> HIDE DEF o
<1>5. Len(o) # 0 /\ 1 \in DOMAIN o /\ Len(q) \in Nat /\ Len(d) \in Nat  BY <1>1, <1>4
<1>6. /\ w \in Seq(Messages) /\ Len(w) = Len(o) - 1
      /\ \A k \in 1..(Len(o) - 1) : w[k] = IF k < 1 THEN o[k] ELSE o[k + 1]
  <2>1. /\ Without(o, o[1]) \in Seq(Messages)
        /\ Len(Without(o, o[1])) = Len(o) - 1
        /\ \A k \in 1..(Len(o) - 1) :
             Without(o, o[1])[k] = IF k < 1 THEN o[k] ELSE o[k + 1]
    <3>1. o \in Seq(Messages) /\ 1 \in DOMAIN o  BY <1>1, <1>5
    <3> QED  BY <1>3, <3>1, WithoutIs
  <2> QED  BY <1>4, <2>1
<1> HIDE DEF w
<1>7. w = Tail(o)
  <2>1. /\ Tail(o) \in Seq(Messages) /\ Len(Tail(o)) = Len(o) - 1
        /\ \A k \in 1..Len(Tail(o)) : Tail(o)[k] = o[k + 1]
    BY <1>1, <1>4, HeadTailProperties
  <2>2. \A k \in 1..Len(w) : w[k] = Tail(o)[k]  BY <1>6, <2>1
  <2> QED  BY <1>6, <2>1, <2>2, SeqEqual
<1>8. ASSUME q # <<>>
      PROVE  w = Tail(q) \o d
  <2> DEFINE x == Tail(q)
             y == x \o d
  <2>1. /\ x \in Seq(Messages) /\ Len(x) = Len(q) - 1
        /\ \A k \in 1..Len(x) : x[k] = q[k + 1]
    BY <1>8, HeadTailProperties
  <2>2. Len(q) # 0  BY <1>8
  <2> HIDE DEF x
  <2>3. /\ y \in Seq(Messages) /\ Len(y) = Len(x) + Len(d)
        /\ \A k \in 1..(Len(x) + Len(d)) : y[k] = IF k <= Len(x) THEN x[k] ELSE d[k - Len(x)]
    BY <2>1, JoinedList
  <2> HIDE DEF y
  <2>4. Len(w) = Len(y)  BY <1>1, <1>5, <1>6, <2>1, <2>3
  <2>5. ASSUME NEW k \in 1..Len(w)
        PROVE  w[k] = y[k]
    <3>1. k \in 1..(Len(q) + Len(d) - 1) /\ Len(x) + Len(d) = Len(q) + Len(d) - 1
      BY <1>1, <1>5, <1>6, <2>1
    <3>2. w[k] = o[k + 1]  BY <1>1, <1>6, <3>1
    <3>3. k + 1 \in 1..(Len(q) + Len(d))  BY <1>5, <3>1
    <3>4. o[k + 1] = IF k + 1 <= Len(q) THEN q[k + 1] ELSE d[(k + 1) - Len(q)]
      BY <1>1, <3>3
    <3>5. y[k] = IF k <= Len(x) THEN x[k] ELSE d[k - Len(x)]  BY <2>3, <3>1
    <3>6. CASE k <= Len(x)
      <4>1. k + 1 <= Len(q) /\ k \in 1..Len(x)  BY <1>5, <2>1, <3>1, <3>6
      <4> QED  BY <2>1, <3>2, <3>4, <3>5, <3>6, <4>1
    <3>7. CASE ~(k <= Len(x))
      <4>1. ~(k + 1 <= Len(q)) /\ (k + 1) - Len(q) = k - Len(x)
        BY <1>5, <2>1, <3>1, <3>7
      <4> QED  BY <3>2, <3>4, <3>5, <3>7, <4>1
    <3> QED  BY <3>6, <3>7
  <2>6. w = y  BY <1>6, <2>3, <2>4, <2>5, SeqEqual
  <2> QED  BY <2>6 DEF y, x
<1> QED  BY <1>2, <1>4, <1>7, <1>8 DEF w, o
\* The last transaction of a Run takes the head of the list behind which it has put
\* the steers of the Run, or leaves them there.
LEMMA FinishListStep ==
    ASSUME Inv, Inv', NEW r \in Runs, run[r].status \in Live, NEW st \in Ended, Finish(r, st)
    PROVE  item' = item \/ Queues!Next
<1> DEFINE d == run[r].steers
           s == run[r].session
           it == WithSteers(item, r)
           pl == [m \in Messages |-> IF m \in ToSet(d) THEN "queued" ELSE place[m]]
           rr == [run EXCEPT ![r].status = st, ![r].steers = <<>>]
           ivs == Closed(r, st)
           next == Successor(rr, ivs, it, s)
<1>1. \/ item' = item
      \/ /\ ~CloseConflict(r, st)
         /\ \/ item' = it
            \/ /\ next \in Messages /\ it[next] # None /\ next = First(it, s)
               /\ it[next].session = s
               /\ item' = Compacted(it, next)
  <2>1. \/ Abort("foreign_key")
        \/ Abort("intervention") /\ CloseConflict(r, st)
        \/ /\ ~CloseConflict(r, st)
           /\ \/ item' = it
              \/ /\ next \in Messages /\ it[next] # None /\ next = First(it, s)
                 /\ it[next].session = s
                 /\ item' = Compacted(it, next)
    BY FinishIs
  <2> QED  BY <2>1 DEF Abort
<1>2. CASE item' = item  BY <1>2
<1>3. SUFFICES ASSUME ~CloseConflict(r, st),
                      \/ item' = it
                      \/ /\ next \in Messages /\ it[next] # None /\ next = First(it, s)
                         /\ it[next].session = s
                         /\ item' = Compacted(it, next)
               PROVE  item' = item \/ Queues!Next
  BY <1>1, <1>2
<1>4. World(item, place, run, iv) /\ World(item', place', run', iv')  BY DEF Inv
<1>5. /\ Lists(item) /\ Rows(item) /\ run[r] \in RunRow /\ d \in Seq(Messages)
      /\ s \in Sessions \cup {None}
      /\ \A m \in Messages : place[m] = "queued" <=> item[m] # None
  <2>1. run \in [Runs -> RunRow] /\ run[r] \in RunRow  BY <1>4, WorldTypes
  <2> QED  BY <1>4, <2>1, WorldTypes DEF RunRow
<1>6. Lists(item')  BY <1>4, WorldTypes
<1>7. SteersTrue(place, run)  BY <1>4 DEF World
<1>8. /\ d # <<>> => s # None
      /\ \A j, k \in DOMAIN d : d[j] = d[k] => j = k
      /\ \A k \in DOMAIN d : d[k] \in Messages /\ item[d[k]] = None
  <2>1. d # <<>> => s # None  BY <1>7 DEF SteersTrue
  <2>2. \A j, k \in DOMAIN d : d[j] = d[k] => j = k  BY <1>7 DEF SteersTrue
  <2>3. \A k \in DOMAIN d : d[k] \in Messages  BY <1>5
  <2>4. \A k \in DOMAIN d : place[d[k]] = "steer"  BY <1>7 DEF SteersTrue
  <2> QED  BY <1>5, <2>1, <2>2, <2>3, <2>4
<1>9. /\ Lists(it)
      /\ \A m \in Messages \ ToSet(d) : it[m] = item[m]
      /\ \A k \in DOMAIN d : /\ it[d[k]] # None /\ it[d[k]].session = s
                             /\ it[d[k]].pos = NextPosition(item, s) + k - 1
  <2>1. LET it2 == WithSteers(item, r) IN
           /\ Lists(it2)
           /\ \A m \in Messages \ ToSet(run[r].steers) : it2[m] = item[m]
           /\ \A k \in DOMAIN run[r].steers :
                LET m == run[r].steers[k] IN
                m \in Messages /\ it2[m] # None /\ it2[m] \in ItemRow
                /\ it2[m].session = run[r].session
                /\ it2[m].pos = NextPosition(item, run[r].session) + k - 1
    BY <1>5, <1>8, SteersJoin
  <2> QED  BY <2>1
<1>10. CASE s = None
  <2>1. d = <<>>  BY <1>8, <1>10
  <2>2. it = item
    <3>1. ToSet(d) = {}  BY <2>1 DEF ToSet
    <3>2. it = [m \in Messages |-> item[m]]  BY <3>1 DEF WithSteers
    <3> QED  BY <1>5, <3>2 DEF Rows
  <2>3. it[next] # None /\ next \in Messages => it[next].session # None
    <3>1. Rows(it)  BY <1>9 DEF Lists
    <3> HIDE DEF it, next
    <3>2. it[next] # None /\ next \in Messages => it[next].session \in Sessions  BY <3>1, RowIn
    <3> QED  BY <3>2, QueueAssumption
  <2> HIDE DEF it, next
  <2> QED  BY <1>3, <1>10, <2>2, <2>3
<1>11. CASE s # None
  <2> DEFINE q == Ordered(item, s)
             o == q \o d
  <2>1. s \in Sessions  BY <1>5, <1>11
  <2>2. IsOrder(item, s, q) /\ q \in Seq(Messages)  BY <1>5, <2>1, OrderOf
  <2> HIDE DEF it, next, rr, ivs, pl
  <2>3. \A m \in ToSet(d) : \E k \in DOMAIN d : m = d[k]  BY DEF ToSet
  <2>3a. \A k \in DOMAIN d : d[k] \in ToSet(d)  BY DEF ToSet
  <2>4. \A m \in ToSet(d) : m \in Messages /\ item[m] = None /\ it[m] # None /\ it[m].session = s
    BY <1>8, <1>9, <2>3
  <2>5. Ordered(it, s) = o
    <3>1. In(it, s) = In(item, s) \cup ToSet(d)  BY <1>9, <2>4 DEF In
    <3>2. \A m \in In(item, s) : m \in Messages \ ToSet(d)  BY <2>4 DEF In
    <3>3. \A m \in In(item, s) : it[m].pos = item[m].pos  BY <1>9, <3>2
    <3>4. \A k \in DOMAIN d : /\ d[k] \notin In(item, s)
                              /\ it[d[k]].pos = NextPosition(item, s) + k - 1
      BY <1>9, <2>3a, <3>2
    <3>5. Lists(item) /\ Lists(it) /\ d \in Seq(Messages)
          /\ \A j, k \in DOMAIN d : d[j] = d[k] => j = k
      BY <1>5, <1>8, <1>9
    <3> HIDE DEF d, s
    <3> QED  BY <2>1, <3>1, <3>3, <3>4, <3>5, JoinedOrder
  <2>6. ASSUME NEW z \in Sessions \ {s}
        PROVE  Ordered(it, z) = Ordered(item, z)
    <3>1. In(it, z) = In(item, z)  BY <1>9, <2>4 DEF In
    <3>2. \A m \in In(item, z) : m \in Messages \ ToSet(d)  BY <2>4 DEF In
    <3>3. \A m \in In(item, z) : it[m].pos = item[m].pos  BY <1>9, <3>2
    <3> QED  BY <1>5, <1>9, <3>1, <3>3, SameOrder
  <2>7. CASE item' = it
    <3>1. Ordered(item', s) = Ordered(item, s) \o d  BY <2>5, <2>7
    <3>2. \A z \in Sessions \ {s} : Ordered(item', z) = Ordered(item, z)  BY <2>6, <2>7
    <3> HIDE DEF s, d
    <3>3. Queues!Next  BY <1>5, <1>6, <2>1, <3>1, <3>2, JoinStep
    <3> QED  BY <3>3
  <2>8. CASE /\ next \in Messages /\ it[next] # None /\ next = First(it, s)
             /\ it[next].session = s
             /\ item' = Compacted(it, next)
    <3>1. /\ next \in ToSet(o) /\ Ordered(item', s) = Without(o, next)
          /\ \A z \in Sessions \ {s} : Ordered(item', z) = Ordered(item, z)
      <4>1. /\ next \in ToSet(Ordered(it, s))
            /\ Ordered(item', s) = Without(Ordered(it, s), next)
            /\ \A z \in Sessions \ {s} : Ordered(item', z) = Ordered(it, z)
        BY <1>9, <2>8, LeftOrder
      <4> QED  BY <2>5, <2>6, <4>1
    <3>2. IsOrder(it, s, o)  BY <1>9, <2>1, <2>5, OrderOf
    <3>3. it[next].pos = 0
      <4>1. Rows(it)  BY <1>9 DEF Lists
      <4>2. PICK n \in Nat : Dense(it, s, n)  BY <1>9, <2>1, DenseOf
      <4>3. In(it, s) # {}  BY <2>8 DEF In
      <4>4. First(it, s) \in In(it, s) /\ it[First(it, s)].pos = 0
        BY <4>1, <4>2, <4>3, FirstIn
      <4> QED  BY <2>8, <4>4
    <3>4. /\ o # <<>> /\ next = o[1]
          /\ \A a, b \in DOMAIN o : o[a] = o[b] => a = b
      <4> HIDE DEF o
      <4>1. o \in Seq(Messages) /\ \A k \in DOMAIN o : it[o[k]].pos = k - 1
            /\ \A a, b \in DOMAIN o : o[a] = o[b] => a = b
        BY <3>2 DEF IsOrder
      <4>2. PICK k \in DOMAIN o : next = o[k]  BY <3>1 DEF ToSet
      <4>3. k \in Nat /\ k - 1 = 0  BY <3>3, <4>1, <4>2
      <4>4. k = 1  BY <4>3
      <4>5. o # <<>>  BY <4>1, <4>2
      <4> QED  BY <4>1, <4>2, <4>4, <4>5
    <3> HIDE DEF q, d, s
    <3>5. /\ q = <<>> => Ordered(item', s) = Tail(d) /\ d # <<>>
          /\ q # <<>> => Ordered(item', s) = Tail(q) \o d
      BY <1>5, <2>2, <3>1, <3>4, HeadLeaves
    <3>6. CASE q = <<>>
      <4>1. Tail(d) \in Seq(Messages)  BY <1>5, <3>5, <3>6, HeadTailProperties
      <4>2. Tail(d) = q \o Tail(d)  BY <3>6, <4>1, ConcatEmptySeq
      <4>3. Ordered(item', s) = Ordered(item, s) \o Tail(d)  BY <3>5, <3>6, <4>2 DEF q
      <4>4. Queues!Next  BY <1>5, <1>6, <2>1, <3>1, <4>1, <4>3, JoinStep
      <4> QED  BY <4>4
    <3>7. CASE q # <<>>
      <4> DEFINE x == Tail(q)
                 y == x \o d
      <4>1. x \in Seq(Messages) /\ Ordered(item', s) = y
        BY <2>2, <3>5, <3>7, HeadTailProperties
      <4> HIDE DEF x
      <4>2. Len(x) <= Len(y) /\ SubSeq(x, 1, Len(x)) = SubSeq(y, 1, Len(x))
        BY <1>5, <4>1, PrefixOfJoin
      <4>3. Queues!IsInjective(y) /\ Queues!ToSet(y) \subseteq Messages
        <5>1. Queues!IsInjective(Ordered(item', s))
              /\ Queues!ToSet(Ordered(item', s)) \subseteq Messages
          BY <1>6, <2>1, OrderOnce
        <5> QED  BY <4>1, <5>1
      <4> HIDE DEF y
      <4>4. Queues!Grown(Tail(q), Ordered(item', s))
        BY <4>1, <4>2, <4>3 DEF Queues!Grown, Queues!IsPrefix, x
      <4>5. Queues!JoinThenLeave(s)
        BY <2>1, <3>7, <4>4 DEF Queues!JoinThenLeave, q
      <4>6. Queues!Next  BY <1>5, <1>6, <2>1, <3>1, <4>5, ListStep
      <4> QED  BY <4>6
    <3> QED  BY <3>6, <3>7
  <2> QED  BY <1>3, <2>7, <2>8
<1> QED  BY <1>10, <1>11
\* A row behind the last one of a list joins the end of it.
LEMMA JoinedOne ==
    ASSUME NEW it, Lists(it), NEW it2, Lists(it2), NEW s \in Sessions, NEW m \in Messages,
           m \notin In(it, s), it2[m].pos = NextPosition(it, s),
           In(it2, s) = In(it, s) \cup {m},
           \A k \in In(it, s) : it2[k].pos = it[k].pos
    PROVE  Ordered(it2, s) = Ordered(it, s) \o <<m>>
<1> DEFINE d == <<m>>
<1>1. NextPosition(it, s) \in Nat  BY OrderOf
<1>2. /\ d \in Seq(Messages) /\ DOMAIN d = 1..1 /\ d[1] = m /\ ToSet(d) = {m}
  <2>1. d \in Seq(Messages) /\ DOMAIN d = 1..1 /\ d[1] = m  OBVIOUS
  <2> QED  BY <2>1 DEF ToSet
<1> HIDE DEF d
<1>3. \A k \in DOMAIN d : k = 1 /\ d[k] = m  BY <1>2
<1>4. \A k \in DOMAIN d : d[k] \notin In(it, s)
                          /\ it2[d[k]].pos = NextPosition(it, s) + k - 1
  <2>1. NextPosition(it, s) + 1 - 1 = NextPosition(it, s)  BY <1>1
  <2> QED  BY <1>3, <2>1
<1>5. \A j, k \in DOMAIN d : d[j] = d[k] => j = k  BY <1>3
<1>6. In(it2, s) = In(it, s) \cup ToSet(d)  BY <1>2
<1>7. d \in Seq(Messages)  BY <1>2
<1>8. Ordered(it2, s) = Ordered(it, s) \o d
  BY <1>4, <1>5, <1>6, <1>7, JoinedOrder
<1> QED  BY <1>8 DEF d

\* A row put into a table behind the last one of its session joins the end of that
\* list, and no other list changes.
LEMMA RowAppends ==
    ASSUME NEW it, Lists(it), NEW it2, Lists(it2), NEW m \in Messages, it[m] = None,
           NEW s \in Sessions, it2[m] # None, it2[m].session = s,
           it2[m].pos = NextPosition(it, s), \A k \in Messages \ {m} : it2[k] = it[k]
    PROVE  /\ Ordered(it2, s) = Ordered(it, s) \o <<m>>
           /\ \A z \in Sessions \ {s} : Ordered(it2, z) = Ordered(it, z)
<1>1. In(it2, s) = In(it, s) \cup {m}  BY DEF In
<1>2. \A k \in In(it, s) : k # m /\ it2[k].pos = it[k].pos  BY DEF In
<1>3. m \notin In(it, s)  BY <1>2
<1>4. Ordered(it2, s) = Ordered(it, s) \o <<m>>  BY <1>1, <1>2, <1>3, JoinedOne
<1>5. ASSUME NEW z \in Sessions \ {s}
      PROVE  Ordered(it2, z) = Ordered(it, z)
  <2>1. In(it2, z) = In(it, z)  BY DEF In
  <2>2. \A k \in In(it, z) : it2[k].pos = it[k].pos  BY DEF In
  <2> QED  BY <2>1, <2>2, SameOrder
<1> QED  BY <1>4, <1>5

\* A row that appears behind the last one of its session is a step of EditableQueue.
LEMMA AppendedJoins ==
    ASSUME Lists(item), Lists(item'), NEW m \in Messages, item[m] = None,
           NEW s \in Sessions, item'[m] # None, item'[m].session = s,
           item'[m].pos = NextPosition(item, s),
           \A k \in Messages \ {m} : item'[k] = item[k]
    PROVE  Queues!Next
<1> DEFINE d == <<m>>
           it2 == item'
<1>1. /\ Lists(it2) /\ it2[m] # None /\ it2[m].session = s
      /\ it2[m].pos = NextPosition(item, s)
      /\ \A k \in Messages \ {m} : it2[k] = item[k]
  OBVIOUS
<1> HIDE DEF it2
<1>2. /\ Ordered(it2, s) = Ordered(item, s) \o <<m>>
      /\ \A z \in Sessions \ {s} : Ordered(it2, z) = Ordered(item, z)
  BY <1>1, RowAppends
<1>3. d \in Seq(Messages)  OBVIOUS
<1>4. Ordered(it2, s) = Ordered(item, s) \o d  BY <1>2
<1> HIDE DEF d
<1>5. /\ Ordered(item', s) = Ordered(item, s) \o d
      /\ \A z \in Sessions \ {s} : Ordered(item', z) = Ordered(item, z)
  BY <1>2, <1>4 DEF it2
<1> QED  BY <1>3, <1>5, JoinStep

\* A new row joins the list of its session.
LEMMA RowJoins ==
    ASSUME Lists(item), Lists(item'), NEW m \in Messages, item[m] = None,
           NEW s \in Sessions, NEW i \in Interventions \cup {None},
           NEW mode \in {"normal", "read_only"}, NEW mail \in BOOLEAN,
           item' = [item EXCEPT ![m] = Row(s, i, mode, mail, NextPosition(item, s))]
    PROVE  Queues!Next
<1> DEFINE x == Row(s, i, mode, mail, NextPosition(item, s))
<1>1. NextPosition(item, s) \in Nat  BY OrderOf
<1>2. x \in ItemRow /\ x # None /\ x.session = s /\ x.pos = NextPosition(item, s)
  BY <1>1, RowMade
<1> HIDE DEF x
<1>3. item' = [item EXCEPT ![m] = x]  BY DEF x
<1>4. item'[m] = x /\ \A k \in Messages \ {m} : item'[k] = item[k]
  <2>1. Rows(item)  BY DEF Lists
  <2> QED  BY <1>3, <2>1 DEF Rows
<1>5. /\ item'[m] # None /\ item'[m].session = s
      /\ item'[m].pos = NextPosition(item, s)
  BY <1>2, <1>4
<1> QED  BY <1>4, <1>5, AppendedJoins

\* A row that is changed where it stands leaves the lists.
LEMMA TextKeepsLists ==
    ASSUME Inv, Inv', NEW t \in Tabs, EditText(t), NEW z \in Sessions
    PROVE  Ordered(item', z) = Ordered(item, z)
<1> DEFINE m == view[t].id
<1>1. m \in Messages /\ item[m] # None /\ item[m] \in ItemRow
  BY CurrentRow DEF EditText
<1>2. Lists(item) /\ Rows(item) /\ Lists(item')
  <2>1. World(item, place, run, iv) /\ World(item', place', run', iv')  BY DEF Inv
  <2> QED  BY <2>1, WorldTypes
<1>3. item' = [item EXCEPT ![m] = [item[m] EXCEPT !.text = @ + 1, !.version = @ + 1]]
  BY DEF EditText
<1> DEFINE y == item[m]
           x == [y EXCEPT !.text = y.text + 1, !.version = y.version + 1]
<1>4. x.session = y.session /\ x.pos = y.pos /\ x # None
  <2>1. y \in ItemRow  BY <1>1
  <2> HIDE DEF y
  <2>2. x.session = y.session /\ x.pos = y.pos  BY <2>1 DEF ItemRow
  <2>3. y.text + 1 \in Nat /\ y.version + 1 \in Nat  BY <2>1, RowFields
  <2>4. \A a, b \in Nat : [y EXCEPT !.text = a, !.version = b] \in ItemRow
    BY <2>1 DEF ItemRow
  <2>5. x \in ItemRow  BY <2>3, <2>4
  <2> HIDE DEF x
  <2>6. x # None  BY <2>5, RowFields
  <2> QED  BY <2>2, <2>6
<1>5. item' = [item EXCEPT ![m] = x]  BY <1>3
<1> HIDE DEF x, m
<1>6. item'[m] = x /\ \A k \in Messages \ {m} : item'[k] = item[k]
  BY <1>1, <1>2, <1>5 DEF Rows
<1>7. In(item', z) = In(item, z)  BY <1>1, <1>4, <1>6 DEF In
<1>8. \A k \in In(item, z) : item'[k].pos = item[k].pos
  <2>1. \A k \in Messages : item'[k].pos = item[k].pos  BY <1>4, <1>6
  <2> QED  BY <2>1 DEF In
<1> QED  BY <1>2, <1>7, <1>8, SameOrder

\* The queues as EditableQueue sees them.
QueueView == [s \in Sessions |-> Ordered(item, s)]

\* Each step of the queue is one of EditableQueue, or none.
LEMMA QueueStep ==
    ASSUME Inv, Inv', [Next]_vars
    PROVE  Queues!Next \/ UNCHANGED QueueView
<1>1. Lists(item) /\ Lists(item') /\ run \in [Runs -> RunRow]
      /\ \A m \in Messages : place[m] = "queued" <=> item[m] # None
  <2>1. World(item, place, run, iv) /\ World(item', place', run', iv')  BY DEF Inv
  <2> QED  BY <2>1, WorldTypes
<1>2. CASE item' = item  BY <1>2 DEF QueueView
<1>3. CASE UNCHANGED vars
  <2>1. item' = item  BY <1>3 DEF vars
  <2> QED  BY <1>2, <2>1
<1>4. CASE \E m \in Messages, s \in Sessions, mode \in Modes : \E i \in Targets(s) :
              CreateRun(m, s, i, mode) \/ Enqueue(m, s, i, mode)
  <2>1. PICK m \in Messages, s \in Sessions, mode \in Modes :
          \E i \in Targets(s) : CreateRun(m, s, i, mode) \/ Enqueue(m, s, i, mode)
    BY <1>4
  <2>2. PICK i \in Targets(s) : CreateRun(m, s, i, mode) \/ Enqueue(m, s, i, mode)
    BY <2>1
  <2>3. CASE CreateRun(m, s, i, mode)
    <3>1. item' = item  BY <2>3 DEF CreateRun
    <3> QED  BY <1>2, <3>1
  <2>4. CASE Enqueue(m, s, i, mode)
    <3>1. /\ i \in Interventions \cup {None} /\ mode \in {"normal", "read_only"}
          /\ FALSE \in BOOLEAN
      BY QueueAssumption DEF Targets
    <3>2. item' = [item EXCEPT ![m] = Row(s, i, mode, FALSE, NextPosition(item, s))]
          /\ item[m] = None
      BY <1>1, <2>4 DEF Enqueue
    <3>3. \A mail \in BOOLEAN :
            item' = [item EXCEPT ![m] = Row(s, i, mode, mail, NextPosition(item, s))]
              => Queues!Next
      BY <1>1, <3>1, <3>2, RowJoins
    <3> QED  BY <3>2, <3>3
  <2> QED  BY <2>2, <2>3, <2>4
<1>5. CASE \E m \in Messages : \E i \in Interventions : MailReply(m, i)
  <2>1. PICK m \in Messages, i \in Interventions : MailReply(m, i)  BY <1>5
  <2> DEFINE s == SessionOf[i]
  <2>2. \/ item' = item
        \/ /\ item' = [item EXCEPT ![m] = Row(s, i, "normal", TRUE, NextPosition(item, s))]
           /\ item[m] = None
    BY <1>1, <2>1 DEF MailReply
  <2>3. s \in Sessions /\ i \in Interventions \cup {None}
        /\ "normal" \in {"normal", "read_only"} /\ TRUE \in BOOLEAN
    BY QueueAssumption
  <2> HIDE DEF s
  <2>4. CASE /\ item' = [item EXCEPT ![m] = Row(s, i, "normal", TRUE, NextPosition(item, s))]
             /\ item[m] = None
    <3>1. \A mail \in BOOLEAN, mode \in {"normal", "read_only"} :
            item' = [item EXCEPT ![m] = Row(s, i, mode, mail, NextPosition(item, s))]
              => Queues!Next
      BY <1>1, <2>3, <2>4, RowJoins
    <3> QED  BY <2>3, <2>4, <3>1
  <2> QED  BY <1>2, <2>2, <2>4
<1>6. CASE \E m \in Messages : \E r \in Runs : Steer(m, r)
  <2>1. PICK m \in Messages, r \in Runs : Steer(m, r)  BY <1>6
  <2> DEFINE s == run[r].session
  <2>2. \/ item' = item
        \/ /\ item' = [item EXCEPT ![m] = Row(s, run[r].reply, run[r].mode, FALSE,
                                             NextPosition(item, s))]
           /\ item[m] = None
    BY <1>1, <2>1 DEF Steer
  <2>3. run[r] \in RunRow /\ run[r].session # None  BY <1>1, <2>1 DEF Steer
  <2>4. s \in Sessions /\ run[r].reply \in Interventions \cup {None}
        /\ run[r].mode \in {"normal", "read_only"}
    BY <2>3 DEF RunRow
  <2> DEFINE i == run[r].reply
             mode == run[r].mode
  <2>6. \/ item' = item
        \/ /\ item' = [item EXCEPT ![m] = Row(s, i, mode, FALSE, NextPosition(item, s))]
           /\ item[m] = None
    BY <2>2
  <2>7. i \in Interventions \cup {None} /\ mode \in {"normal", "read_only"}
        /\ FALSE \in BOOLEAN
    BY <2>4
  <2> HIDE DEF s, i, mode
  <2>5. CASE /\ item' = [item EXCEPT ![m] = Row(s, i, mode, FALSE, NextPosition(item, s))]
             /\ item[m] = None
    <3>1. \A mail \in BOOLEAN :
            item' = [item EXCEPT ![m] = Row(s, i, mode, mail, NextPosition(item, s))]
              => Queues!Next
      BY <1>1, <2>4, <2>5, <2>7, RowJoins
    <3> QED  BY <2>5, <2>7, <3>1
  <2> QED  BY <1>2, <2>5, <2>6
<1>7. CASE \E b \in Beats, p \in Plans : Heartbeat(b, p)
  <2>1. item' = item  BY <1>7 DEF Heartbeat
  <2> QED  BY <1>2, <2>1
<1>8. CASE \E r \in Runs : ConsumeSteers(r) \/ PrepareFinalization(r) \/ Fence(r)
  <2>1. item' = item  BY <1>8 DEF ConsumeSteers, PrepareFinalization, Fence
  <2> QED  BY <1>2, <2>1
<1>9. CASE \E r \in Runs : Complete(r) \/ Fail(r) \/ Cancel(r)
  <2>1. PICK r \in Runs : Complete(r) \/ Fail(r) \/ Cancel(r)  BY <1>9
  <2>2. PICK st \in Ended : run[r].status \in Live /\ Finish(r, st)
    BY <2>1 DEF Complete, Fail, Cancel, Live, Ended
  <2>3. item' = item \/ Queues!Next  BY <2>2, FinishListStep
  <2> QED  BY <1>2, <2>3
<1>10. CASE \E t \in Tabs : \E m \in Messages : Load(t, m)
  <2>1. item' = item  BY <1>10 DEF Load
  <2> QED  BY <1>2, <2>1
<1>11. CASE \E t \in Tabs : EditText(t)
  <2>1. \A z \in Sessions : Ordered(item', z) = Ordered(item, z)  BY <1>11, TextKeepsLists
  <2>2. QueueView' = QueueView  BY <2>1 DEF QueueView
  <2> QED  BY <2>2
<1>12. CASE \E t \in Tabs : Delete(t) \/ Send(t)
  <2>1. PICK t \in Tabs : Delete(t) \/ Send(t)  BY <1>12
  <2> DEFINE m == view[t].id
  <2>2. m \in Messages /\ item[m] # None  BY <2>1, CurrentRow DEF Delete, Send
  <2>3. Removal(item, m).items = Compacted(item, m)  BY <1>1, <2>2, RemovalWorks
  <2>4. item' = item \/ item' = Removal(item, m).items
    BY <2>1 DEF Delete, Send, Dispatch
  <2> HIDE DEF m
  <2>5. item' = item \/ item' = Compacted(item, m)  BY <2>3, <2>4
  <2>6. item' = Compacted(item, m) => Queues!Next  BY <1>1, <2>2, LeaveStep
  <2> QED  BY <1>2, <2>5, <2>6
<1>13. CASE \E t \in Tabs : \E k \in 0..Cardinality(Messages) : MoveTo(t, k)
  <2>1. PICK t \in Tabs, k \in 0..Cardinality(Messages) : MoveTo(t, k)  BY <1>13
  <2>2. Cardinality(Messages) \in Nat  BY MessagesAssumption, FS_CardinalityType
  <2>3. k \in Nat  BY <2>2
  <2> QED  BY <2>1, <2>3, MoveStep
<1>14. CASE \E x \in Sessions \cup Plans : CheckArchive(x) \/ WriteArchive(x) \/ Restore(x)
  <2>1. item' = item  BY <1>14 DEF CheckArchive, WriteArchive, Restore
  <2> QED  BY <1>2, <2>1
<1>15. CASE \E m \in Messages, n \in Messages : EditMessage(m, n)
  <2>1. item' = item  BY <1>15 DEF EditMessage
  <2> QED  BY <1>2, <2>1
<1> QED
  BY <1>3, <1>4, <1>5, <1>6, <1>7, <1>8, <1>9, <1>10, <1>11, <1>12, <1>13, <1>14, <1>15
  DEF Next

\* QueueOrder: the rows with their positions implement EditableQueue. Every request
\* and every end of a Run appends to a session's ordered list, moves or removes what
\* it names there, or takes its head, and changes nothing else in it.
THEOREM QueuesKeepTheirOrder == Spec => QueueOrder
<1>1. Init => Queues!Init
  <2> SUFFICES ASSUME Init PROVE Queues!Init  OBVIOUS
  <2>1. Lists(item)  BY Starts, WorldTypes DEF Inv
  <2>2. \A s \in Sessions : In(item, s) = {}  BY DEF Init, In
  <2>3. ASSUME NEW s \in Sessions
        PROVE  Ordered(item, s) = <<>>
    <3>1. NextPosition(item, s) = 0  BY <2>2 DEF NextPosition
    <3>2. Ordered(item, s) \in Seq(Messages) /\ Len(Ordered(item, s)) = 0
      BY <2>1, <3>1, OrderOf
    <3> QED  BY <3>2, EmptySeq
  <2> QED  BY <2>3 DEF Queues!Init
<1>2. Inv /\ Inv' /\ [Next]_vars => [Queues!Next]_QueueView
  BY QueueStep
<1>3. QueueView = [s \in Sessions |-> Ordered(item, s)]  BY DEF QueueView
<1> QED  BY <1>1, <1>2, Invariance, PTL DEF Spec, QueueOrder, Queues!Spec, QueueView
=============================================================================
