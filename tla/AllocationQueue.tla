---------------------------- MODULE AllocationQueue ----------------------------
(***************************************************************************)
(* The work items of Allocation, for any members, demands and workers and  *)
(* any number of changes and failures: the queue is consistent, nobody who *)
(* waits is forgotten, what a user cancelled is not taken again, and the   *)
(* protocol keeps its types.                                               *)
(***************************************************************************)
EXTENDS AllocationProofs

-----------------------------------------------------------------------------
(* Tables of items.                                                        *)

ItemRows == [qual : Nat, task : Nat, status : ItemStatus, seen : Nat]

Table(its) == its \in [Members -> Seq(ItemRows)]

\* The items of one member: what is open has the qualification q, and what
\* is active is the last.
Lined(q, its) ==
    \A n \in 1..Len(its) :
        /\ Open(its[n]) => \A k \in n..Len(its) : its[k].qual = q
        /\ Active(its[n]) => n = Len(its)

\* Each member's items are in line.
InLine(its) == Table(its) /\ \A m \in Members : Lined(member[m].qual, its[m])

\* Rows that are neither opened nor activated, nor start to wait or to be leased.
Eased(old, new) ==
    /\ new \in ItemRows /\ new.qual = old.qual
    /\ Open(new) => Open(old)
    /\ Active(new) => Active(old)
    /\ new.status = "waiting" => new = old
    /\ new.status = "leased" => new = old

Eases(its, new) ==
    \A m \in Members : /\ Len(new[m]) = Len(its[m])
                       /\ \A n \in 1..Len(its[m]) : Eased(its[m][n], new[m][n])

LEMMA RowAt ==
    ASSUME NEW its, Table(its), NEW m \in Members
    PROVE  /\ Len(its[m]) \in Nat /\ DOMAIN its[m] = 1..Len(its[m])
           /\ \A n \in 1..Len(its[m]) : its[m][n] \in ItemRows
  <1>1. its[m] \in Seq(ItemRows)
    BY DEF Table
  <1> QED BY <1>1, LenProperties, ElementOfSeq

\* UPDATE of the rows: a table again.
LEMMA RowsChange ==
    ASSUME NEW its, Table(its),
           NEW new, new = [m \in Members |-> [n \in DOMAIN its[m] |-> new[m][n]]],
           \A m \in Members : \A n \in 1..Len(its[m]) : new[m][n] \in ItemRows
    PROVE  Table(new) /\ \A m \in Members : Len(new[m]) = Len(its[m])
  <1>1. ASSUME NEW m \in Members
        PROVE  new[m] \in Seq(ItemRows) /\ Len(new[m]) = Len(its[m])
    <2>1. Len(its[m]) \in Nat /\ DOMAIN its[m] = 1..Len(its[m])
      BY RowAt
    <2>2. new[m] \in [1..Len(its[m]) -> ItemRows]
      BY <2>1
    <2> QED BY <2>1, <2>2
  <1> QED BY <1>1 DEF Table

LEMMA EasedStaysInLine ==
    ASSUME NEW its, InLine(its), NEW new, Table(new), Eases(its, new)
    PROVE  InLine(new)
  <1> SUFFICES ASSUME NEW m \in Members PROVE Lined(member[m].qual, new[m])
    BY DEF InLine
  <1>1. Lined(member[m].qual, its[m]) /\ Len(its[m]) \in Nat /\ Len(new[m]) = Len(its[m])
    BY RowAt DEF InLine, Eases
  <1>2. \A n \in 1..Len(its[m]) : Eased(its[m][n], new[m][n])
    BY DEF Eases
  <1> QED BY <1>1, <1>2 DEF Lined, Eased

LEMMA MarkedRow ==
    ASSUME NEW i \in ItemRows, NEW to \in ItemStatus
    PROVE  /\ [i EXCEPT !.status = to] \in ItemRows
           /\ [i EXCEPT !.status = to].qual = i.qual
           /\ [i EXCEPT !.status = to].task = i.task
           /\ [i EXCEPT !.status = to].status = to
  BY DEF ItemRows

LEMMA FreedRow ==
    ASSUME NEW i \in ItemRows
    PROVE  /\ [i EXCEPT !.status = "pending", !.task = 0] \in ItemRows
           /\ [i EXCEPT !.status = "pending", !.task = 0].qual = i.qual
           /\ [i EXCEPT !.status = "pending", !.task = 0].status = "pending"
  BY DEF ItemRows, ItemStatus

\* UPDATE of the status of some rows.
LEMMA Marked ==
    ASSUME NEW its, Table(its), NEW rows, NEW to \in ItemStatus
    PROVE  /\ Table(Mark(its, rows, to))
           /\ \A m \in Members :
                /\ Len(Mark(its, rows, to)[m]) = Len(its[m])
                /\ \A n \in 1..Len(its[m]) :
                      Mark(its, rows, to)[m][n] =
                         IF <<m, n>> \in rows THEN [its[m][n] EXCEPT !.status = to]
                                              ELSE its[m][n]
  <1> DEFINE new == Mark(its, rows, to)
  <1>1. /\ new = [m \in Members |-> [n \in DOMAIN its[m] |-> new[m][n]]]
        /\ \A m \in Members : \A n \in 1..Len(its[m]) :
              new[m][n] = IF <<m, n>> \in rows THEN [its[m][n] EXCEPT !.status = to]
                                               ELSE its[m][n]
    BY RowAt DEF Mark
  <1> HIDE DEF new
  <1>2. ASSUME NEW m \in Members, NEW n \in 1..Len(its[m])
        PROVE  new[m][n] \in ItemRows
    <2>1. its[m][n] \in ItemRows
      BY RowAt
    <2>2. [its[m][n] EXCEPT !.status = to] \in ItemRows
      BY <2>1, MarkedRow
    <2> QED BY <1>1, <2>1, <2>2
  <1>3. Table(new) /\ \A m \in Members : Len(new[m]) = Len(its[m])
    BY <1>1, <1>2, RowsChange
  <1> QED BY <1>1, <1>3 DEF new

LEMMA MarkEases ==
    ASSUME NEW its, Table(its), NEW rows, NEW to \in {"pending", "assigned", "failed", "cancelled"},
           \A m \in Members : \A n \in 1..Len(its[m]) : <<m, n>> \in rows =>
              Open(its[m][n]) /\ (to = "pending" => Active(its[m][n]))
    PROVE  Table(Mark(its, rows, to)) /\ Eases(its, Mark(its, rows, to))
  <1> DEFINE new == Mark(its, rows, to)
  <1>1. to \in ItemStatus
    BY DEF ItemStatus
  <1>2. /\ Table(new)
        /\ \A m \in Members : Len(new[m]) = Len(its[m])
        /\ \A m \in Members : \A n \in 1..Len(its[m]) :
              new[m][n] = IF <<m, n>> \in rows THEN [its[m][n] EXCEPT !.status = to]
                                               ELSE its[m][n]
    BY <1>1, Marked
  <1> HIDE DEF new
  <1>3. ASSUME NEW m \in Members, NEW n \in 1..Len(its[m])
        PROVE  Eased(its[m][n], new[m][n])
    <2>1. its[m][n] \in ItemRows
      BY RowAt
    <2>2. CASE <<m, n>> \in rows
      <3> DEFINE k == [its[m][n] EXCEPT !.status = to]
      <3>1. new[m][n] = k
        BY <1>2, <2>2
      <3>2. k \in ItemRows /\ k.qual = its[m][n].qual /\ k.status = to
        BY <1>1, <2>1, MarkedRow
      <3> HIDE DEF k
      <3> QED BY <2>2, <3>1, <3>2 DEF Eased, Open, Active
    <2>3. CASE <<m, n>> \notin rows
      BY <1>2, <2>1, <2>3 DEF Eased
    <2> QED BY <2>2, <2>3
  <1> QED BY <1>2, <1>3 DEF Eases, new

LEMMA FreedEases ==
    ASSUME NEW its, Table(its), NEW rows,
           \A m \in Members : \A n \in 1..Len(its[m]) : <<m, n>> \in rows => Active(its[m][n])
    PROVE  /\ Table(Freed(its, rows)) /\ Eases(its, Freed(its, rows))
           /\ \A m \in Members : \A n \in 1..Len(its[m]) :
                 <<m, n>> \in rows => Freed(its, rows)[m][n].status = "pending"
  <1> DEFINE new == Freed(its, rows)
  <1>1. /\ new = [m \in Members |-> [n \in DOMAIN its[m] |-> new[m][n]]]
        /\ \A m \in Members : \A n \in 1..Len(its[m]) :
              new[m][n] = IF <<m, n>> \in rows
                          THEN [its[m][n] EXCEPT !.status = "pending", !.task = 0]
                          ELSE its[m][n]
    BY RowAt DEF Freed
  <1> HIDE DEF new
  <1>2. ASSUME NEW m \in Members, NEW n \in 1..Len(its[m])
        PROVE  /\ Eased(its[m][n], new[m][n])
               /\ <<m, n>> \in rows => new[m][n].status = "pending"
    <2>1. its[m][n] \in ItemRows
      BY RowAt
    <2>2. CASE <<m, n>> \in rows
      <3> DEFINE k == [its[m][n] EXCEPT !.status = "pending", !.task = 0]
      <3>1. new[m][n] = k
        BY <1>1, <2>2
      <3>2. k \in ItemRows /\ k.qual = its[m][n].qual /\ k.status = "pending"
        BY <2>1, FreedRow
      <3> HIDE DEF k
      <3> QED BY <2>2, <3>1, <3>2 DEF Eased, Open, Active
    <2>3. CASE <<m, n>> \notin rows
      BY <1>1, <2>1, <2>3 DEF Eased
    <2> QED BY <2>2, <2>3
  <1>3. Table(new) /\ \A m \in Members : Len(new[m]) = Len(its[m])
    BY <1>1, <1>2, RowsChange DEF Eased
  <1> QED BY <1>2, <1>3 DEF Eases, new

LEMMA NothingEases ==
    ASSUME NEW its, Table(its)
    PROVE  Eases(its, its)
  BY RowAt DEF Eases, Eased

LEMMA EasesTwice ==
    ASSUME NEW its, NEW mid, Eases(its, mid), NEW new, Eases(mid, new)
    PROVE  Eases(its, new)
  <1> SUFFICES ASSUME NEW m \in Members
               PROVE  /\ Len(new[m]) = Len(its[m])
                      /\ \A n \in 1..Len(its[m]) : Eased(its[m][n], new[m][n])
    BY DEF Eases
  <1>1. Len(mid[m]) = Len(its[m]) /\ Len(new[m]) = Len(its[m])
    BY DEF Eases
  <1>2. \A n \in 1..Len(its[m]) : Eased(its[m][n], mid[m][n]) /\ Eased(mid[m][n], new[m][n])
    BY <1>1 DEF Eases
  <1> QED BY <1>1, <1>2 DEF Eased

-----------------------------------------------------------------------------
(* claimAllocation on the items.                                           *)

Owned(m, i, tks) ==
    i.status = "leased" =>
        /\ i.task \in 1..Len(tks)
        /\ tks[i.task].status = "running" /\ tks[i.task].mode = "execute"
        /\ m \in tks[i.task].members

\* Every leased item belongs to a task that runs and covers its member.
AllOwned(its, tks) == \A m \in Members : \A n \in 1..Len(its[m]) : Owned(m, its[m][n], tks)

NoneLeased(its) == \A m \in Members : \A n \in 1..Len(its[m]) : its[m][n].status # "leased"

\* No row gets the status st, and those that have it are the ones that did.
Before(its, new, st) ==
    \A m \in Members : \A n \in 1..Len(new[m]) :
       new[m][n].status = st => n \in 1..Len(its[m]) /\ new[m][n] = its[m][n]

LEMMA ReopenedItems ==
    ASSUME GoodTasks(tasks), InLine(items), AllOwned(items, tasks)
    PROVE  /\ Table(Reopened(items, Reclaimed)) /\ Eases(items, Reopened(items, Reclaimed))
           /\ NoneLeased(Reopened(items, Reclaimed))
  <1> DEFINE Back(st) == {t \in DOMAIN Reclaimed : Reclaimed[t].status = st}
             mid == Mark(items, LeasedTo(items, Back("pending")), "pending")
             new == Mark(mid, LeasedTo(items, Back("failed")), "failed")
  <1>1. Reopened(items, Reclaimed) = new
    BY DEF Reopened
  <1>2. Table(items)
    BY DEF InLine
  <1>3. \A m \in Members : \A n \in 1..Len(items[m]) : \A ts :
           <<m, n>> \in LeasedTo(items, ts) <=>
              items[m][n].status = "leased" /\ items[m][n].task \in ts
    BY <1>2, RowAt DEF LeasedTo, Rows
  <1>4. \A t \in 1..Len(tasks) : tasks[t].status = "running" =>
           t \in Back("pending") \/ t \in Back("failed")
    <2> SUFFICES ASSUME NEW t \in 1..Len(tasks), tasks[t].status = "running"
                 PROVE  t \in Back("pending") \/ t \in Back("failed")
      OBVIOUS
    <2>1. t \in DOMAIN Reclaimed /\ tasks[t] \in TaskRows
      BY TaskAt DEF Reclaimed
    <2>2. Reclaimed[t].status = IF tasks[t].gen >= 3 THEN "failed" ELSE "pending"
      BY <2>1, TaskAt DEF Reclaimed, TaskRows
    <2> QED BY <2>1, <2>2
  <1> HIDE DEF Back
  <1>5. /\ Table(mid) /\ Eases(items, mid)
        /\ \A m \in Members : Len(mid[m]) = Len(items[m])
        /\ \A m \in Members : \A n \in 1..Len(items[m]) :
              mid[m][n] = IF <<m, n>> \in LeasedTo(items, Back("pending"))
                          THEN [items[m][n] EXCEPT !.status = "pending"] ELSE items[m][n]
    BY <1>2, <1>3, MarkEases, Marked DEF Open, Active, ItemStatus
  <1> HIDE DEF mid
  <1>6. \A m \in Members : \A n \in 1..Len(items[m]) :
           <<m, n>> \in LeasedTo(items, Back("failed")) => Open(mid[m][n])
    <2> SUFFICES ASSUME NEW m \in Members, NEW n \in 1..Len(items[m]),
                        <<m, n>> \in LeasedTo(items, Back("failed"))
                 PROVE  Open(mid[m][n])
      OBVIOUS
    <2>1. items[m][n].status = "leased" /\ items[m][n] \in ItemRows
      BY <1>2, <1>3, RowAt
    <2>2. mid[m][n].status \in {"leased", "pending"}
      BY <1>5, <2>1 DEF ItemRows
    <2> QED BY <2>2 DEF Open
  <1>7. /\ Table(new) /\ Eases(mid, new)
        /\ \A m \in Members : Len(new[m]) = Len(items[m])
        /\ \A m \in Members : \A n \in 1..Len(items[m]) :
              new[m][n] = IF <<m, n>> \in LeasedTo(items, Back("failed"))
                          THEN [mid[m][n] EXCEPT !.status = "failed"] ELSE mid[m][n]
    BY <1>5, <1>6, MarkEases, Marked DEF ItemStatus
  <1> HIDE DEF new
  <1>8. ASSUME NEW m \in Members, NEW n \in 1..Len(items[m]), new[m][n].status = "leased"
        PROVE  FALSE
    <2>1. items[m][n] \in ItemRows /\ mid[m][n] \in ItemRows /\ Eased(items[m][n], mid[m][n])
      BY <1>2, <1>5, RowAt DEF Eases
    <2>2. Eased(mid[m][n], new[m][n])
      BY <1>5, <1>7 DEF Eases
    <2>3. items[m][n].status = "leased" /\ mid[m][n].status = "leased"
      BY <1>8, <2>1, <2>2 DEF Eased
    <2>4. /\ items[m][n].task \in 1..Len(tasks)
          /\ tasks[items[m][n].task].status = "running"
      BY <2>3 DEF AllOwned, Owned
    <2>5. items[m][n].task \in Back("pending") \/ items[m][n].task \in Back("failed")
      BY <1>4, <2>4
    <2>6. CASE items[m][n].task \in Back("pending")
      <3>1. mid[m][n].status = "pending"
        BY <1>3, <1>5, <2>1, <2>3, <2>6, MarkedRow DEF ItemStatus
      <3> QED BY <2>3, <3>1
    <2>7. CASE items[m][n].task \in Back("failed")
      <3>1. <<m, n>> \in LeasedTo(items, Back("failed"))
        BY <1>3, <2>3, <2>7
      <3>2. new[m][n] = [mid[m][n] EXCEPT !.status = "failed"]
        BY <1>7, <3>1
      <3> QED BY <1>8, <2>1, <3>2 DEF ItemRows
    <2> QED BY <2>5, <2>6, <2>7
  <1>9. Eases(items, new)
    BY <1>5, <1>7, EasesTwice
  <1> QED BY <1>1, <1>7, <1>8, <1>9 DEF NoneLeased

\* A waiting item that is woken is the last of its member.
LEMMA WokenItems ==
    ASSUME NEW its, InLine(its), NoneLeased(its)
    PROVE  /\ InLine(Woken(its)) /\ NoneLeased(Woken(its)) /\ Before(its, Woken(its), "waiting")
           /\ \A m \in Members : Len(Woken(its)[m]) = Len(its[m])
           /\ \A m \in Members : \A n \in 1..Len(its[m]) :
                 Woken(its)[m][n].status = "pending" =>
                    n = Len(its[m]) /\ its[m][n].status \in {"pending", "waiting"}
  <1> DEFINE new == Woken(its)
  <1>1. Table(its)
    BY DEF InLine
  <1>2. /\ new = [m \in Members |-> [n \in DOMAIN its[m] |-> new[m][n]]]
        /\ \A m \in Members : \A n \in 1..Len(its[m]) :
              new[m][n] = IF MayWake(its, m, n)
                          THEN [its[m][n] EXCEPT !.status = "pending", !.task = 0]
                          ELSE its[m][n]
    BY <1>1, RowAt DEF Woken
  <1> HIDE DEF new
  <1>3. ASSUME NEW m \in Members, NEW n \in 1..Len(its[m])
        PROVE  /\ new[m][n] \in ItemRows /\ new[m][n].qual = its[m][n].qual
               /\ new[m][n].status # "leased"
               /\ new[m][n].status = "waiting" => new[m][n] = its[m][n]
               /\ Open(new[m][n]) => Open(its[m][n])
               /\ Active(new[m][n]) => n = Len(its[m])
               /\ new[m][n].status = "pending" => its[m][n].status \in {"pending", "waiting"}
    <2>1. its[m][n] \in ItemRows /\ its[m][n].status # "leased" /\ Len(its[m]) \in Nat
      BY <1>1, RowAt DEF NoneLeased
    <2>2. CASE MayWake(its, m, n)
      <3> DEFINE k == [its[m][n] EXCEPT !.status = "pending", !.task = 0]
      <3>1. new[m][n] = k
        BY <1>2, <2>2
      <3>2. k \in ItemRows /\ k.qual = its[m][n].qual /\ k.status = "pending"
        BY <2>1, FreedRow
      <3> HIDE DEF k
      <3>3. its[m][n].status = "waiting" /\ LatestOfQual(its, m, n)
        BY <2>2 DEF MayWake
      <3>4. its[m][Len(its[m])].qual = its[m][n].qual
        BY <2>1, <3>3 DEF InLine, Lined, Open
      <3>5. n = Len(its[m])
        BY <1>1, <2>1, <3>3, <3>4, RowAt DEF LatestOfQual
      <3> QED BY <3>1, <3>2, <3>3, <3>5 DEF Open, Active
    <2>3. CASE ~MayWake(its, m, n)
      <3>1. new[m][n] = its[m][n]
        BY <1>2, <2>3
      <3>2. Active(its[m][n]) => n = Len(its[m])
        BY DEF InLine, Lined
      <3> QED BY <2>1, <3>1, <3>2 DEF Active
    <2> QED BY <2>2, <2>3
  <1>4. Table(new) /\ \A m \in Members : Len(new[m]) = Len(its[m])
    <2>1. \A m \in Members : \A n \in 1..Len(its[m]) : new[m][n] \in ItemRows
      BY <1>3
    <2> QED BY <1>1, <1>2, <2>1, RowsChange
  <1>5. ASSUME NEW m \in Members
        PROVE  Lined(member[m].qual, new[m])
    <2>1. Lined(member[m].qual, its[m])
      BY DEF InLine
    <2> QED BY <1>3, <1>4, <2>1 DEF Lined
  <1>6. InLine(new) /\ NoneLeased(new) /\ Before(its, new, "waiting")
    BY <1>3, <1>4, <1>5 DEF InLine, NoneLeased, Before
  <1> QED BY <1>3, <1>4, <1>6 DEF new, Active

\* The items of a new task: one more where none is active.
LEMMA EnqueuedItems ==
    ASSUME NEW its, InLine(its), member \in [Members -> MemberRows], NEW ms, NEW t \in Nat
    PROVE  /\ InLine(Enqueue(its, ms, t)) /\ Before(its, Enqueue(its, ms, t), "waiting")
           /\ \A m \in Members \ ms : Enqueue(its, ms, t)[m] = its[m]
           /\ Before(its, Enqueue(its, ms, t), "leased")
  <1> DEFINE new == Enqueue(its, ms, t)
  <1>1. Table(its)
    BY DEF InLine
  <1>2. ASSUME NEW m \in Members \ ms
        PROVE  new[m] = its[m]
    BY DEF Enqueue
  <1>3. ASSUME NEW m \in Members \cap ms
        PROVE  /\ new[m] \in Seq(ItemRows) /\ Lined(member[m].qual, new[m])
               /\ \A n \in 1..Len(new[m]) : new[m][n].status \in {"leased", "waiting"} =>
                     n \in 1..Len(its[m]) /\ new[m][n] = its[m][n]
    <2> DEFINE i == NewItem(m, t)
               all == IF HasActive(its, m) THEN its[m] ELSE Append(its[m], i)
               q == member[m].qual
    <2>1. new[m] = [n \in DOMAIN all |-> IF all[n].status = "pending" /\ all[n].task = 0
                                         THEN [all[n] EXCEPT !.task = t] ELSE all[n]]
      BY <1>3 DEF Enqueue
    <2>2. i \in ItemRows /\ i.qual = q /\ i.status = "pending"
      BY DEF NewItem, ItemRows, ItemStatus, MemberRows
    <2>3. /\ its[m] \in Seq(ItemRows) /\ Len(its[m]) \in Nat /\ Lined(q, its[m])
          /\ \A n \in 1..Len(its[m]) : its[m][n] \in ItemRows
          /\ DOMAIN its[m] = 1..Len(its[m])
      BY <1>1, RowAt DEF InLine, Table
    <2> HIDE DEF i
    <2>4. /\ all \in Seq(ItemRows) /\ Lined(q, all) /\ Len(all) \in Nat
          /\ \A n \in 1..Len(all) : all[n].status \in {"leased", "waiting"} =>
                n \in 1..Len(its[m]) /\ all[n] = its[m][n]
      <3>1. CASE HasActive(its, m)
        BY <2>3, <3>1
      <3>2. CASE ~HasActive(its, m)
        <4>1. all = Append(its[m], i)
          BY <3>2
        <4>2. /\ all \in Seq(ItemRows) /\ Len(all) = Len(its[m]) + 1
              /\ \A n \in 1..Len(its[m]) : all[n] = its[m][n]
              /\ all[Len(its[m]) + 1] = i
          BY <2>2, <2>3, <4>1, AppendProperties
        <4>3. \A n \in 1..Len(its[m]) : ~Active(its[m][n])
          BY <2>3, <3>2 DEF HasActive, Lined, Active, Open
        <4> HIDE DEF all
        <4>4. Lined(q, all)
          <5>1. ASSUME NEW n \in 1..Len(its[m])
                PROVE  /\ ~Active(all[n])
                       /\ Open(all[n]) => \A k \in n..Len(its[m]) : all[k].qual = q
            <6>1. all[n] = its[m][n] /\ \A k \in n..Len(its[m]) : all[k] = its[m][k]
              BY <2>3, <4>2
            <6> QED BY <2>3, <4>3, <6>1 DEF Lined
          <5> QED BY <2>2, <2>3, <4>2, <5>1 DEF Lined
        <4> QED BY <2>2, <2>3, <4>2, <4>4
      <3> QED BY <3>1, <3>2
    <2> HIDE DEF all
    <2>5. ASSUME NEW n \in 1..Len(all)
          PROVE  /\ new[m][n] \in ItemRows /\ new[m][n].qual = all[n].qual
                 /\ new[m][n].status = all[n].status
                 /\ new[m][n].status # "pending" => new[m][n] = all[n]
      <3>1. all[n] \in ItemRows /\ n \in DOMAIN all
        BY <2>4
      <3> QED BY <2>1, <3>1 DEF ItemRows
    <2>6. new[m] \in Seq(ItemRows) /\ Len(new[m]) = Len(all)
      <3>1. DOMAIN all = 1..Len(all)
        BY <2>4
      <3>2. new[m] \in [1..Len(all) -> ItemRows]
        BY <2>1, <2>5, <3>1
      <3> QED BY <2>4, <3>2
    <2>7. Lined(q, new[m])
      BY <2>4, <2>5, <2>6 DEF Lined, Open, Active
    <2> QED BY <2>4, <2>5, <2>6, <2>7
  <1> HIDE DEF new
  <1>4. new = [m \in Members |-> new[m]]
    BY DEF new, Enqueue
  <1>5. Table(new) /\ \A m \in Members : Lined(member[m].qual, new[m])
    BY <1>1, <1>2, <1>3, <1>4 DEF Table, InLine
  <1>6. \A m \in Members : \A n \in 1..Len(new[m]) :
           new[m][n].status \in {"leased", "waiting"} =>
              n \in 1..Len(its[m]) /\ new[m][n] = its[m][n]
    BY <1>2, <1>3
  <1> QED BY <1>2, <1>5, <1>6 DEF InLine, Before, new

\* The claimed task leases what is pending of its members.
LEMMA LeasedItems ==
    ASSUME NEW its, InLine(its), NoneLeased(its), NEW ms, NEW t \in Nat
    PROVE  /\ InLine(Leased(its, ms, t)) /\ Before(its, Leased(its, ms, t), "waiting")
           /\ \A m \in Members : Len(Leased(its, ms, t)[m]) = Len(its[m])
           /\ \A m \in Members : \A n \in 1..Len(its[m]) :
                 Leased(its, ms, t)[m][n].status = "leased" =>
                    m \in ms /\ Leased(its, ms, t)[m][n].task = t
  <1> DEFINE new == Leased(its, ms, t)
  <1>1. Table(its)
    BY DEF InLine
  <1>2. /\ new = [m \in Members |-> [n \in DOMAIN its[m] |-> new[m][n]]]
        /\ \A m \in Members : \A n \in 1..Len(its[m]) :
              new[m][n] = IF m \in ms /\ its[m][n].status = "pending"
                          THEN [its[m][n] EXCEPT !.status = "leased", !.task = t]
                          ELSE its[m][n]
    BY <1>1, RowAt DEF Leased
  <1> HIDE DEF new
  <1>3. ASSUME NEW m \in Members, NEW n \in 1..Len(its[m])
        PROVE  /\ new[m][n] \in ItemRows /\ new[m][n].qual = its[m][n].qual
               /\ Open(new[m][n]) => Open(its[m][n])
               /\ Active(new[m][n]) => Active(its[m][n])
               /\ new[m][n].status = "waiting" => new[m][n] = its[m][n]
               /\ new[m][n].status = "leased" => m \in ms /\ new[m][n].task = t
    <2>1. its[m][n] \in ItemRows /\ its[m][n].status # "leased"
      BY <1>1, RowAt DEF NoneLeased
    <2>2. CASE m \in ms /\ its[m][n].status = "pending"
      <3>1. new[m][n] = [its[m][n] EXCEPT !.status = "leased", !.task = t]
        BY <1>2, <2>2
      <3>2. /\ new[m][n] \in ItemRows /\ new[m][n].qual = its[m][n].qual
            /\ new[m][n].status = "leased" /\ new[m][n].task = t
        BY <2>1, <3>1 DEF ItemRows, ItemStatus
      <3> QED BY <2>2, <3>2 DEF Open, Active
    <2>3. CASE ~(m \in ms /\ its[m][n].status = "pending")
      BY <1>2, <2>1, <2>3
    <2> QED BY <2>2, <2>3
  <1>4. Table(new) /\ \A m \in Members : Len(new[m]) = Len(its[m])
    BY <1>1, <1>2, <1>3, RowsChange
  <1>5. ASSUME NEW m \in Members
        PROVE  Lined(member[m].qual, new[m])
    <2>1. Lined(member[m].qual, its[m]) /\ Len(new[m]) = Len(its[m])
      BY <1>4 DEF InLine
    <2> QED BY <1>3, <2>1 DEF Lined
  <1> QED BY <1>3, <1>4, <1>5 DEF InLine, Before, new

-----------------------------------------------------------------------------
(* The invariant of the queue.                                             *)

\* Members without a qualification are in no task and have no items.
Known(mem, its, tks) ==
    /\ mem \in [Members -> MemberRows]
    /\ \A m \in Members : IF mem[m].status = "absent" THEN Len(its[m]) = 0
                                                      ELSE mem[m].qual # 0
    /\ \A t \in 1..Len(tks) : \A m \in tks[t].members : mem[m].status # "absent"

\* A waiting item has been decided on, with what is receiving now unless the
\* revision has advanced.
Aware(m, i) ==
    i.status = "waiting" =>
        /\ i.task \in 1..Len(tasks) /\ tasks[i.task].status = "completed"
        /\ i.seen \in Nat /\ i.seen <= scope.revision
        /\ Qualified(m) /\ i.seen = scope.revision => receiving \cap Wants[m] = {}

AllAware == \A m \in Members : \A n \in 1..Len(items[m]) : Aware(m, items[m][n])

\* A task that may be claimed is in a later generation than any worker on it.
Current(x, tks) ==
    x.pc # "idle" => /\ x.gen <= tks[x.task].gen
                     /\ tks[x.task].status = "pending" => x.gen < tks[x.task].gen

\* A snapshot that may still be committed includes whose items are leased,
\* and its plan places everybody who can be placed.
Covers(x, its, tks) ==
    x.pc \in {"computing", "proposed"} =>
        /\ AssignedBy(x.plan) = Placeable(x.view)
        /\ tks[x.task].status = "running" /\ tks[x.task].gen = x.gen =>
              \A m \in Members : \A n \in 1..Len(its[m]) :
                 its[m][n].status = "leased" /\ its[m][n].task = x.task
                    => m \in Included(x.view)

Queue ==
    /\ scope.revision \in Nat
    /\ InLine(items) /\ AllOwned(items, tasks) /\ AllAware
    /\ Known(member, items, tasks)
    /\ \A w \in Workers : Current(sess[w], tasks) /\ Covers(sess[w], items, tasks)

\* What a step may do to a task other than starting it.
Advances(k, l) ==
    /\ l.mode = k.mode /\ l.members = k.members
    /\ k.gen <= l.gen
    /\ l.status = "pending" => k.gen < l.gen \/ k.status = "pending"
    /\ l.status = "running" => k.status = "running" /\ k.gen = l.gen
    /\ k.status = "completed" => l.status = "completed"

\* What was known of waiting items stays true.
Onward ==
    /\ scope'.revision \in Nat
    /\ \/ scope.revision < scope'.revision
       \/ /\ scope'.revision = scope.revision /\ receiving' = receiving
          /\ \A m \in Members : Qualified(m)' => Qualified(m)

\* Items that are leased to a task that stops are settled in the same step.
Settled(its) ==
    \A u \in 1..Len(tasks) : tasks[u].status = "running" /\ tasks'[u].status # "running" =>
       \A m \in Members : \A n \in 1..Len(its[m]) :
          ~(its[m][n].status = "leased" /\ its[m][n].task = u)

\* The session of one worker changes.
Goes(w, x) ==
    /\ sess' = [sess EXCEPT ![w] = x]
    /\ x.pc # "idle" => sess[w].pc # "idle" /\ x.task = sess[w].task /\ x.gen = sess[w].gen
    /\ Covers(x, items', tasks')

LEMMA AwareRow ==
    ASSUME Queue, Onward, NEW m \in Members, NEW i, Aware(m, i),
           \A u \in 1..Len(tasks) : tasks[u].status = "completed" =>
              u \in 1..Len(tasks') /\ tasks'[u].status = "completed"
    PROVE  i.status = "waiting" =>
               /\ i.task \in 1..Len(tasks') /\ tasks'[i.task].status = "completed"
               /\ i.seen \in Nat /\ i.seen <= scope'.revision
               /\ Qualified(m)' /\ i.seen = scope'.revision => receiving' \cap Wants[m] = {}
  BY DEF Aware, Onward, Queue

LEMMA AwareStays ==
    ASSUME Queue, Onward, Before(items, items', "waiting"),
           \A u \in 1..Len(tasks) : tasks[u].status = "completed" =>
              u \in 1..Len(tasks') /\ tasks'[u].status = "completed"
    PROVE  AllAware'
  <1> SUFFICES ASSUME NEW m \in Members, NEW n \in 1..Len(items'[m])
               PROVE  (Aware(m, items[m][n]))'
    BY DEF AllAware
  <1>1. items'[m][n].status = "waiting" => Aware(m, items'[m][n])
    BY DEF Before, Queue, AllAware
  <1> QED BY <1>1, AwareRow DEF Aware

\* A step that starts no task keeps the queue in order.
LEMMA QueueCore ==
    ASSUME Fenced, Fenced', Queue, AllAware', scope'.revision \in Nat,
           InLine(items)', Known(member, items, tasks)',
           Before(items, items', "leased"), Len(tasks) <= Len(tasks'), Settled(items'),
           \A u \in 1..Len(tasks) : Advances(tasks[u], tasks'[u]),
           sess' = sess \/ \E w \in Workers : \E x : Goes(w, x)
    PROVE  Queue'
  <1>1. /\ Len(tasks) \in Nat /\ Len(tasks') \in Nat
        /\ \A t \in 1..Len(tasks) : tasks[t] \in TaskRows
        /\ \A t \in 1..Len(tasks') : tasks'[t] \in TaskRows
    BY TaskAt DEF Fenced
  <1>3. AllOwned(items', tasks')
    <2> SUFFICES ASSUME NEW m \in Members, NEW n \in 1..Len(items'[m]),
                        items'[m][n].status = "leased"
                 PROVE  Owned(m, items'[m][n], tasks')
      BY DEF AllOwned, Owned
    <2> DEFINE u == items[m][n].task
    <2>1. n \in 1..Len(items[m]) /\ items'[m][n] = items[m][n]
      BY DEF Before
    <2>2. /\ u \in 1..Len(tasks)
          /\ tasks[u].status = "running" /\ tasks[u].mode = "execute" /\ m \in tasks[u].members
      BY <2>1 DEF Queue, AllOwned, Owned
    <2>3. tasks'[u].status = "running"
      BY <2>1, <2>2 DEF Settled
    <2> QED BY <1>1, <2>1, <2>2, <2>3 DEF Owned, Advances
  <1>4. \A x : OnTask(x, tasks) /\ Current(x, tasks) => Current(x, tasks')
    <2> SUFFICES ASSUME NEW x, OnTask(x, tasks), Current(x, tasks), x.pc # "idle"
                 PROVE  Current(x, tasks')
      BY DEF Current
    <2>1. /\ x.task \in 1..Len(tasks) /\ x.gen \in Nat
          /\ tasks[x.task].gen \in Nat /\ tasks'[x.task].gen \in Nat
      BY <1>1 DEF OnTask, Session, TaskRows
    <2> QED BY <2>1 DEF Current, Advances
  <1>5. ASSUME NEW x, OnTask(x, tasks), Covers(x, items, tasks)
        PROVE  Covers(x, items', tasks')
    <2> SUFFICES ASSUME x.pc \in {"computing", "proposed"}
                 PROVE  Covers(x, items', tasks')
      BY DEF Covers
    <2>1. x.task \in 1..Len(tasks)
      BY <1>5 DEF OnTask
    <2>2. tasks'[x.task].status = "running" /\ tasks'[x.task].gen = x.gen =>
             tasks[x.task].status = "running" /\ tasks[x.task].gen = x.gen
      BY <2>1 DEF Advances
    <2> QED BY <1>5, <2>2 DEF Covers, Before
  <1>6. \A w \in Workers : Current(sess[w], tasks') /\ Covers(sess[w], items', tasks')
    BY <1>4, <1>5 DEF Queue, Fenced
  <1>7. \A w \in Workers : Current(sess'[w], tasks') /\ Covers(sess'[w], items', tasks')
    <2>1. CASE sess' = sess
      BY <1>6, <2>1
    <2>2. ASSUME NEW w \in Workers, NEW x, Goes(w, x), NEW v \in Workers
          PROVE  Current(sess'[v], tasks') /\ Covers(sess'[v], items', tasks')
      <3>1. sess'[v] = IF v = w THEN x ELSE sess[v]
        BY <2>2 DEF Goes, Fenced
      <3>2. Current(x, tasks')
        BY <1>6, <2>2 DEF Goes, Current
      <3> QED BY <1>6, <2>2, <3>1, <3>2 DEF Goes
    <2> QED BY <2>1, <2>2
  <1> QED BY <1>3, <1>7 DEF Queue

\* The same for a step after which no item waits that did not.
LEMMA QueueFrom ==
    ASSUME Fenced, Fenced', Queue, Onward, InLine(items)', Known(member, items, tasks)',
           Before(items, items', "waiting"), Before(items, items', "leased"),
           Len(tasks) <= Len(tasks'), Settled(items'),
           \A u \in 1..Len(tasks) : Advances(tasks[u], tasks'[u]),
           sess' = sess \/ \E w \in Workers : \E x : Goes(w, x)
    PROVE  Queue'
  <1>1. Len(tasks) \in Nat /\ Len(tasks') \in Nat
    BY TaskAt DEF Fenced
  <1>2. AllAware'
    BY <1>1, AwareStays DEF Advances
  <1> QED BY <1>2, QueueCore DEF Onward

\* The items stay, or are eased.
LEMMA EasedItems ==
    ASSUME Queue, NEW its, Table(its), Eases(items, its)
    PROVE  /\ InLine(its)
           /\ \A st \in {"waiting", "leased"} : Before(items, its, st)
           /\ \A m \in Members : Len(its[m]) = Len(items[m])
  <1>1. InLine(its)
    BY EasedStaysInLine DEF Queue
  <1>2. \A st \in {"waiting", "leased"} : Before(items, its, st)
    BY DEF Eases, Eased, Before
  <1> QED BY <1>1, <1>2 DEF Eases

LEMMA SameItems ==
    ASSUME Queue
    PROVE  /\ InLine(items) /\ Table(items) /\ Eases(items, items)
           /\ Before(items, items, "waiting") /\ Before(items, items, "leased")
  BY NothingEases DEF Queue, InLine, Before

\* The qualifications stay.
LEMMA InLineStays ==
    ASSUME Queue, NEW its, InLine(its), items' = its,
           \A m \in Members : member'[m].qual = member[m].qual
    PROVE  InLine(items)'
  BY DEF InLine, Table

\* The tasks stay.
LEMMA SameTasks ==
    ASSUME Fenced, tasks' = tasks
    PROVE  /\ Len(tasks) <= Len(tasks') /\ \A its : Settled(its)
           /\ \A u \in 1..Len(tasks) : Advances(tasks[u], tasks'[u])
  <1>1. Len(tasks) \in Nat /\ \A u \in 1..Len(tasks) : tasks[u] \in TaskRows
    BY TaskAt DEF Fenced
  <1> QED BY <1>1 DEF Settled, Advances, TaskRows

LEMMA SameInputsOnward ==
    ASSUME Queue, UNCHANGED <<member, receiving>>, scope'.revision = scope.revision
    PROVE  Onward
  BY DEF Onward, Queue, Qualified

LEMMA ChangedOnward ==
    ASSUME Fenced, Queue, Changed
    PROVE  Onward
  <1>1. scope'.revision = scope.revision + 1
    BY DEF Changed, Fenced, ScopeRow
  <1> QED BY <1>1 DEF Onward, Queue

\* A session moves on with the generation it has.
LEMMA GoesFrom ==
    ASSUME Fenced, Queue, NEW w \in Workers, NEW x, sess' = [sess EXCEPT ![w] = x],
           UNCHANGED items, \A u \in 1..Len(tasks) : Advances(tasks[u], tasks'[u]),
           x = Idle \/ /\ sess[w].pc # "idle" /\ x.task = sess[w].task /\ x.gen = sess[w].gen
                       /\ x.pc \in {"computing", "proposed"} =>
                             /\ sess[w].pc \in {"computing", "proposed"}
                             /\ x.plan = sess[w].plan /\ x.view = sess[w].view
    PROVE  Goes(w, x)
  <1>0. Idle.pc = "idle"
    BY DEF Idle
  <1>1. x.pc # "idle" => sess[w].pc # "idle" /\ x.task = sess[w].task /\ x.gen = sess[w].gen
    BY <1>0
  <1>2. ASSUME x.pc \in {"computing", "proposed"}
        PROVE  Covers(x, items', tasks')
    <2>1. /\ sess[w].pc \in {"computing", "proposed"} /\ sess[w].task \in 1..Len(tasks)
          /\ Covers(sess[w], items, tasks)
          /\ x.task = sess[w].task /\ x.gen = sess[w].gen
          /\ x.plan = sess[w].plan /\ x.view = sess[w].view
      BY <1>0, <1>2 DEF Queue, Fenced, OnTask
    <2>2. Advances(tasks[x.task], tasks'[x.task])
      BY <2>1
    <2> QED BY <1>2, <2>1, <2>2 DEF Covers, Advances
  <1> QED BY <1>1, <1>2 DEF Goes, Covers

LEMMA SessionFields ==
    ASSUME Fenced, NEW w \in Workers, NEW x,
           \/ \E pc : x = [sess[w] EXCEPT !.pc = pc]
           \/ \E pc, code : x = [sess[w] EXCEPT !.pc = pc, !.code = code]
    PROVE  /\ x.task = sess[w].task /\ x.gen = sess[w].gen
           /\ x.plan = sess[w].plan /\ x.view = sess[w].view
  BY DEF Fenced, OnTask, Session

\* Steps of a worker, or of the clock, that leave the queue alone.
LEMMA WalkKeepsQueue ==
    ASSUME Fenced, Fenced', Queue, UNCHANGED <<items, member, receiving>>,
           scope'.revision = scope.revision, Len(tasks) <= Len(tasks'),
           \A u \in 1..Len(tasks) : Advances(tasks[u], tasks'[u])
                                      /\ tasks'[u].status = tasks[u].status,
           Known(member, items, tasks'),
           sess' = sess \/ \E w \in Workers : \E x : Goes(w, x)
    PROVE  Queue'
  <1>1. Onward
    BY SameInputsOnward
  <1>2. InLine(items)' /\ Before(items, items', "waiting") /\ Before(items, items', "leased")
    BY SameItems DEF InLine, Table
  <1>3. Known(member, items, tasks)' /\ Settled(items')
    BY DEF Settled
  <1> QED BY <1>1, <1>2, <1>3, QueueFrom

LEMMA RecordedAdvances ==
    ASSUME Fenced, NEW w \in Workers, sess[w].pc # "idle",
           NEW to \in {"proposed", "invalid"}, tasks' = Recorded(w, to)
    PROVE  /\ Len(tasks') = Len(tasks) /\ Len(tasks) \in Nat
           /\ \A u \in 1..Len(tasks) : /\ Advances(tasks[u], tasks'[u])
                                       /\ tasks'[u].status = tasks[u].status
                                       /\ tasks'[u].members = tasks[u].members
  <1> DEFINE t == sess[w].task
             g == sess[w].gen
             p == IF tasks[t].plan[g] = "none" THEN to ELSE tasks[t].plan[g]
  <1>1. Len(tasks') = Len(tasks) /\ Len(tasks) \in Nat /\ DOMAIN tasks = 1..Len(tasks)
          /\ t \in 1..Len(tasks)
    BY RecordedTasks, TaskAt DEF Fenced, OnTask
  <1>2. ASSUME NEW u \in 1..Len(tasks)
        PROVE  tasks'[u] = IF u = t THEN [tasks[u] EXCEPT !.plan[g] = p] ELSE tasks[u]
    BY <1>1 DEF Recorded
  <1> HIDE DEF t, g, p
  <1>3. ASSUME NEW u \in 1..Len(tasks)
        PROVE  /\ tasks'[u].status = tasks[u].status /\ tasks'[u].mode = tasks[u].mode
               /\ tasks'[u].members = tasks[u].members /\ tasks'[u].gen = tasks[u].gen
               /\ tasks[u].gen \in Nat
    <2>1. tasks[u] \in TaskRows
      BY TaskAt DEF Fenced
    <2> QED BY <1>2, <2>1 DEF TaskRows
  <1> QED BY <1>1, <1>3 DEF Advances

LEMMA KnownStays ==
    ASSUME Fenced, Queue, Len(tasks) = Len(tasks'),
           \A u \in 1..Len(tasks) : tasks'[u].members = tasks[u].members
    PROVE  Known(member, items, tasks')
  BY DEF Queue, Known

\* Steps that only move a session, and steps that note a plan.
LEMMA WalksKeepQueue ==
    ASSUME Fenced, Fenced', Queue, NEW w \in Workers,
           \/ Propose(w) \/ LeaseLost(w) \/ SnapshotStale(w) \/ KernelFails(w) \/ Crash(w)
           \/ \E code : TransactionFails(w, code)
    PROVE  Queue'
  <1>1. /\ UNCHANGED <<scope, items, member, receiving>> /\ sess[w].pc # "idle"
        /\ tasks' = tasks \/ \E to \in {"proposed", "invalid"} : tasks' = Recorded(w, to)
        /\ \/ sess' = [sess EXCEPT ![w] = Idle]
           \/ /\ sess' = [sess EXCEPT ![w].pc = "proposed"]
              /\ sess[w].pc = "computing"
           \/ \E code : sess' = [sess EXCEPT ![w].pc = "failing", ![w].code = code]
    <2>1. CASE Propose(w)
      BY <2>1 DEF Propose, Goto
    <2>2. CASE LeaseLost(w) \/ Crash(w)
      BY <2>2 DEF LeaseLost, Crash
    <2>3. CASE SnapshotStale(w)
      BY <2>3 DEF SnapshotStale
    <2>4. CASE KernelFails(w)
      BY <2>4 DEF KernelFails
    <2>5. CASE \E code : TransactionFails(w, code)
      BY <2>5 DEF TransactionFails
    <2> QED BY <2>1, <2>2, <2>3, <2>4, <2>5
  <1>2. /\ Len(tasks') = Len(tasks) /\ Len(tasks) \in Nat
        /\ \A u \in 1..Len(tasks) : /\ Advances(tasks[u], tasks'[u])
                                    /\ tasks'[u].status = tasks[u].status
                                    /\ tasks'[u].members = tasks[u].members
    <2>1. CASE tasks' = tasks
      BY <2>1, SameTasks, TaskAt DEF Fenced
    <2>2. CASE \E to \in {"proposed", "invalid"} : tasks' = Recorded(w, to)
      BY <1>1, <2>2, RecordedAdvances
    <2> QED BY <1>1, <2>1, <2>2
  <1>3. \E x : Goes(w, x)
    <2>1. CASE sess' = [sess EXCEPT ![w] = Idle]
      BY <1>1, <1>2, <2>1, GoesFrom
    <2>2. CASE sess' = [sess EXCEPT ![w].pc = "proposed"] /\ sess[w].pc = "computing"
      <3> DEFINE x == [sess[w] EXCEPT !.pc = "proposed"]
      <3>1. sess' = [sess EXCEPT ![w] = x]
        BY <2>2 DEF Fenced
      <3>2. /\ x.task = sess[w].task /\ x.gen = sess[w].gen
            /\ x.plan = sess[w].plan /\ x.view = sess[w].view
        BY SessionFields
      <3> HIDE DEF x
      <3> QED BY <1>1, <1>2, <2>2, <3>1, <3>2, GoesFrom
    <2>3. ASSUME NEW code, sess' = [sess EXCEPT ![w].pc = "failing", ![w].code = code]
          PROVE  \E x : Goes(w, x)
      <3> DEFINE x == [sess[w] EXCEPT !.pc = "failing", !.code = code]
      <3>1. sess' = [sess EXCEPT ![w] = x]
        BY <2>3 DEF Fenced
      <3>2. /\ x.task = sess[w].task /\ x.gen = sess[w].gen /\ x.pc = "failing"
            /\ x.plan = sess[w].plan /\ x.view = sess[w].view
        BY DEF Fenced, OnTask, Session
      <3> HIDE DEF x
      <3> QED BY <1>1, <1>2, <3>1, <3>2, GoesFrom
    <2> QED BY <1>1, <2>1, <2>2, <2>3
  <1>4. Known(member, items, tasks')
    BY <1>2, KnownStays
  <1> QED BY <1>1, <1>2, <1>3, <1>4, WalkKeepsQueue

\* The lease lapses.
LEMMA LapseKeepsQueue ==
    ASSUME Fenced, Fenced', Queue, LeaseLapses
    PROVE  Queue'
  <1>1. UNCHANGED <<tasks, items, member, receiving, sess>>
    BY DEF LeaseLapses
  <1>2. scope'.revision = scope.revision
    BY DEF LeaseLapses, Fenced, ScopeRow
  <1>3. Len(tasks) \in Nat
    BY TaskAt DEF Fenced
  <1>4. Known(member, items, tasks')
    BY <1>1 DEF Queue
  <1> QED BY <1>1, <1>2, <1>3, <1>4, SameTasks, WalkKeepsQueue

-----------------------------------------------------------------------------
(* What users and other components change.                                 *)

\* One membership changes and the items are eased, or the reception changes.
LEMMA EditKeepsQueue ==
    ASSUME Fenced, Fenced', Queue, Changed, UNCHANGED <<tasks, sess>>,
           Table(items'), Eases(items, items'),
           \/ member' = member
           \/ \E m \in Members : \E k \in MemberRows :
                 /\ member' = [member EXCEPT ![m] = k]
                 /\ member[m].status # "absent"
                 /\ k.status # "absent" /\ k.qual = member[m].qual
    PROVE  Queue'
  <1>1. Known(member, items, tasks)
    BY DEF Queue
  <1>2. /\ InLine(items') /\ Before(items, items', "waiting") /\ Before(items, items', "leased")
        /\ \A m \in Members : Len(items'[m]) = Len(items[m])
    BY EasedItems
  <1>3. /\ member' \in [Members -> MemberRows]
        /\ \A m \in Members : /\ member'[m].qual = member[m].qual
                              /\ member'[m].status = "absent" <=> member[m].status = "absent"
    BY <1>1 DEF Known
  <1>4. \A t \in 1..Len(tasks) : tasks[t] \in TaskRows
    BY TaskAt DEF Fenced
  <1>5. Known(member, items, tasks)'
    BY <1>1, <1>2, <1>3, <1>4 DEF Known, TaskRows
  <1>6. InLine(items)'
    BY <1>2, <1>3, InLineStays
  <1>7. Onward
    BY ChangedOnward
  <1> QED BY <1>2, <1>5, <1>6, <1>7, SameTasks, QueueFrom

\* Open items of the members ms are cancelled.
LEMMA CancelOpen ==
    ASSUME Queue, NEW ms
    PROVE  /\ Table(Mark(items, OpenOf(items, ms), "cancelled"))
           /\ Eases(items, Mark(items, OpenOf(items, ms), "cancelled"))
           /\ \A m \in Members \cap ms : \A n \in 1..Len(items[m]) :
                 ~Open(Mark(items, OpenOf(items, ms), "cancelled")[m][n])
  <1> DEFINE rows == OpenOf(items, ms)
             new == Mark(items, rows, "cancelled")
  <1>1. Table(items)
    BY DEF Queue, InLine
  <1>2. \A m \in Members : \A n \in 1..Len(items[m]) :
           <<m, n>> \in rows <=> m \in ms /\ Open(items[m][n])
    BY <1>1, RowAt DEF OpenOf, Rows
  <1> HIDE DEF rows
  <1>3. Table(new) /\ Eases(items, new)
    BY <1>1, <1>2, MarkEases
  <1>4. /\ Table(new) /\ \A m \in Members : Len(new[m]) = Len(items[m])
        /\ \A m \in Members : \A n \in 1..Len(items[m]) :
              new[m][n] = IF <<m, n>> \in rows
                          THEN [items[m][n] EXCEPT !.status = "cancelled"] ELSE items[m][n]
    BY <1>1, Marked DEF ItemStatus
  <1> HIDE DEF new
  <1>5. ASSUME NEW m \in Members \cap ms, NEW n \in 1..Len(items[m])
        PROVE  ~Open(new[m][n])
    <2>1. items[m][n] \in ItemRows
      BY <1>1, RowAt
    <2>2. CASE <<m, n>> \in rows
      <3>1. new[m][n] = [items[m][n] EXCEPT !.status = "cancelled"]
        BY <1>4, <2>2
      <3> QED BY <2>1, <3>1 DEF ItemRows, Open
    <2>3. CASE <<m, n>> \notin rows
      BY <1>2, <1>4, <2>3
    <2> QED BY <2>2, <2>3
  <1> QED BY <1>3, <1>5 DEF new, rows

LEMMA EditsKeepQueue ==
    ASSUME Fenced, Fenced', Queue,
           \/ \E m \in Members : EditCandidate(m) \/ SourceBreaks(m) \/ CloseMember(m)
           \/ \E d \in Demands : SetReception(d)
    PROVE  Queue'
  <1>1. Table(items) /\ Eases(items, items) /\ member \in [Members -> MemberRows]
    BY SameItems DEF Queue, Known
  <1>2. ASSUME NEW m \in Members, EditCandidate(m)
        PROVE  Queue'
    <2> DEFINE k == [member[m] EXCEPT !.status = "needs_reanalysis"]
    <2>1. member' = [member EXCEPT ![m] = k] /\ k \in MemberRows
            /\ k.status # "absent" /\ k.qual = member[m].qual
      BY <1>1, <1>2 DEF EditCandidate, MemberRows, MemberStatus
    <2> HIDE DEF k
    <2>2. Table(items') /\ Eases(items, items')
      BY <1>2, CancelOpen DEF EditCandidate
    <2> QED BY <1>2, <2>1, <2>2, EditKeepsQueue DEF EditCandidate
  <1>3. ASSUME NEW m \in Members, SourceBreaks(m)
        PROVE  Queue'
    <2> DEFINE k == [member[m] EXCEPT !.valid = FALSE]
    <2>1. member' = [member EXCEPT ![m] = k] /\ k \in MemberRows
            /\ k.status = member[m].status /\ k.qual = member[m].qual
      BY <1>1, <1>3 DEF SourceBreaks, MemberRows
    <2> HIDE DEF k
    <2> QED BY <1>1, <1>3, <2>1, EditKeepsQueue DEF SourceBreaks
  <1>4. ASSUME NEW m \in Members, CloseMember(m)
        PROVE  Queue'
    <2> DEFINE k == [member[m] EXCEPT !.status = "closed"]
    <2>1. member' = [member EXCEPT ![m] = k] /\ k \in MemberRows
            /\ k.status # "absent" /\ k.qual = member[m].qual
      BY <1>1, <1>4 DEF CloseMember, MemberRows, MemberStatus
    <2> HIDE DEF k
    <2> QED BY <1>1, <1>4, <2>1, EditKeepsQueue DEF CloseMember
  <1>5. ASSUME NEW d \in Demands, SetReception(d)
        PROVE  Queue'
    BY <1>1, <1>5, EditKeepsQueue DEF SetReception
  <1> QED BY <1>2, <1>3, <1>4, <1>5

\* A new item for the new qualification of a member without open items.
LEMMA NewQualification ==
    ASSUME Fenced, Fenced', Queue, Changed, UNCHANGED <<tasks, sess>>,
           NEW m \in Members, NEW k \in MemberRows, member' = [member EXCEPT ![m] = k],
           k.status # "absent", k.qual # 0,
           NEW its, Table(its), Eases(items, its),
           \A n \in 1..Len(items[m]) : ~Open(its[m][n]),
           NEW i \in ItemRows, i.qual = k.qual, i.status = "pending",
           items' = [its EXCEPT ![m] = Append(@, i)],
           member[m].status # "absent" \/ \A t \in 1..Len(tasks) : m \notin tasks[t].members
    PROVE  Queue'
  <1>1. Known(member, items, tasks)
    BY DEF Queue
  <1>2. /\ InLine(its) /\ Before(items, its, "waiting") /\ Before(items, its, "leased")
        /\ \A j \in Members : Len(its[j]) = Len(items[j])
    BY EasedItems
  <1>3. /\ items'[m] \in Seq(ItemRows) /\ Len(items'[m]) = Len(its[m]) + 1
        /\ \A n \in 1..Len(its[m]) : items'[m][n] = its[m][n]
        /\ items'[m][Len(its[m]) + 1] = i /\ Len(its[m]) \in Nat
        /\ \A j \in Members \ {m} : items'[j] = its[j]
    <2>1. its[m] \in Seq(ItemRows) /\ Len(its[m]) \in Nat
      BY RowAt DEF Table
    <2>2. items'[m] = Append(its[m], i) /\ \A j \in Members \ {m} : items'[j] = its[j]
      BY DEF Table
    <2> QED BY <2>1, <2>2, AppendProperties
  <1>4. Table(items')
    BY <1>3 DEF Table
  <1>5. Lined(k.qual, items'[m])
    <2>1. \A n \in 1..Len(its[m]) : ~Open(items'[m][n]) /\ ~Active(items'[m][n])
      BY <1>2, <1>3 DEF Open, Active
    <2> QED BY <1>3, <2>1 DEF Lined
  <1>6. /\ member' \in [Members -> MemberRows] /\ member'[m] = k
        /\ \A j \in Members \ {m} : member'[j] = member[j]
    BY <1>1 DEF Known
  <1>7. InLine(items)'
    <2> SUFFICES ASSUME NEW j \in Members PROVE Lined(member'[j].qual, items'[j])
      BY <1>4 DEF InLine, Table
    <2>1. CASE j = m
      BY <1>5, <1>6, <2>1
    <2>2. CASE j # m
      BY <1>2, <1>3, <1>6, <2>2 DEF InLine
    <2> QED BY <2>1, <2>2
  <1>8. Before(items, items', "waiting") /\ Before(items, items', "leased")
    <2> SUFFICES ASSUME NEW st \in {"waiting", "leased"}, NEW j \in Members,
                        NEW n \in 1..Len(items'[j]), items'[j][n].status = st
                 PROVE  n \in 1..Len(items[j]) /\ items'[j][n] = items[j][n]
      BY DEF Before
    <2>1. n \in 1..Len(its[j]) /\ items'[j][n] = its[j][n]
      BY <1>3
    <2> QED BY <1>2, <2>1 DEF Before
  <1>9. Known(member, items, tasks)'
    <2>1. \A t \in 1..Len(tasks) : \A j \in tasks[t].members :
             member'[j].status # "absent"
      <3>1. \A t \in 1..Len(tasks) : tasks[t].members \subseteq Members
        BY TaskAt DEF Fenced, TaskRows
      <3> QED BY <1>1, <1>6, <3>1 DEF Known
    <2> QED BY <1>1, <1>2, <1>3, <1>6, <2>1 DEF Known
  <1>10. Onward
    BY ChangedOnward
  <1> QED BY <1>7, <1>8, <1>9, <1>10, SameTasks, QueueFrom

LEMMA AdmitKeepsQueue ==
    ASSUME Fenced, Fenced', Queue, NEW m \in Members, Admit(m)
    PROVE  Queue'
  <1> DEFINE k == [status |-> "pending_allocation", qual |-> 1, valid |-> TRUE]
             i == [NewItem(m, 0) EXCEPT !.qual = 1]
  <1>1. k \in MemberRows /\ k.status # "absent" /\ k.qual = 1
    BY DEF MemberRows, MemberStatus
  <1>2. i \in ItemRows /\ i.qual = 1 /\ i.status = "pending"
    BY DEF NewItem, ItemRows, ItemStatus, Queue, Known, MemberRows
  <1>3. /\ member' = [member EXCEPT ![m] = k] /\ items' = [items EXCEPT ![m] = Append(@, i)]
        /\ Changed /\ UNCHANGED <<tasks, sess>> /\ member[m].status = "absent"
    BY DEF Admit
  <1> HIDE DEF k, i
  <1>4. Len(items[m]) = 0 /\ \A t \in 1..Len(tasks) : m \notin tasks[t].members
    BY <1>3 DEF Queue, Known
  <1>5. Table(items) /\ Eases(items, items) /\ \A n \in 1..Len(items[m]) : ~Open(items[m][n])
    BY <1>4, SameItems
  <1>6. k.qual # 0 /\ i.qual = k.qual
    BY <1>1, <1>2
  <1> QED BY <1>1, <1>2, <1>3, <1>4, <1>5, <1>6, NewQualification

LEMMA ReviseKeepsQueue ==
    ASSUME Fenced, Fenced', Queue, NEW m \in Members, ReviseTags(m)
    PROVE  Queue'
  <1> DEFINE k == [member[m] EXCEPT !.qual = member[m].qual + 1]
             i == [NewItem(m, 0) EXCEPT !.qual = member[m].qual + 1]
             its == Mark(items, OpenOf(items, {m}), "cancelled")
  <1>1. member[m] \in MemberRows /\ member[m].status = "pending_allocation"
    BY DEF Queue, Known, ReviseTags, Qualified
  <1>2. k \in MemberRows /\ k.status # "absent" /\ k.qual = member[m].qual + 1 /\ k.qual # 0
    BY <1>1 DEF MemberRows
  <1>3. i \in ItemRows /\ i.qual = member[m].qual + 1 /\ i.status = "pending"
    BY <1>1 DEF NewItem, ItemRows, ItemStatus, MemberRows
  <1>4. /\ items' = [its EXCEPT ![m] = Append(@, i)]
        /\ member' = [member EXCEPT ![m] = k]
        /\ Changed /\ UNCHANGED <<tasks, sess>>
    BY DEF ReviseTags, Queue, Known
  <1>5. Table(its) /\ Eases(items, its) /\ \A n \in 1..Len(items[m]) : ~Open(its[m][n])
    BY CancelOpen
  <1> HIDE DEF k, i, its
  <1> QED BY <1>1, <1>2, <1>3, <1>4, <1>5, NewQualification

\* A task more, for members who are in the pool.
LEMMA CreatedKeepsQueue ==
    ASSUME Fenced, Fenced', Queue, NEW mode \in Modes, NEW ms \in SUBSET Members,
           \A m \in ms : member[m].status # "absent", Created(mode, ms),
           UNCHANGED <<member, receiving, sess>>, UNCHANGED scope \/ Changed
    PROVE  Queue'
  <1> DEFINE k == NewTask(mode, ms)
  <1>1. Len(tasks) \in Nat /\ tasks \in Seq(TaskRows) /\ \A u \in 1..Len(tasks) : tasks[u] \in TaskRows
    BY TaskAt DEF Fenced, GoodTasks
  <1>2. k.members = ms /\ k \in TaskRows
    BY DEF NewTask, TaskRows, TaskStatus, PlanStatus, Generations
  <1>3. /\ Len(tasks') = Len(tasks) + 1 /\ \A u \in 1..Len(tasks) : tasks'[u] = tasks[u]
        /\ tasks'[Len(tasks) + 1] = k
    BY <1>1, <1>2, AppendProperties DEF Created
  <1> HIDE DEF k
  <1>4. /\ InLine(items') /\ Before(items, items', "waiting") /\ Before(items, items', "leased")
        /\ \A m \in Members \ ms : items'[m] = items[m]
    <2>1. CASE items' = items
      BY <2>1, SameItems
    <2>2. CASE items' = Enqueue(items, ms, Len(tasks) + 1)
      <3>1. Len(tasks) + 1 \in Nat
        BY <1>1
      <3> QED BY <2>2, <3>1, EnqueuedItems DEF Queue, Known
    <2> QED BY <2>1, <2>2 DEF Created
  <1>5. InLine(items)' /\ Onward
    BY <1>4, ChangedOnward, SameInputsOnward, InLineStays
  <1>6. Known(member, items, tasks)'
    <2>1. \A t \in 1..Len(tasks') : \A m \in tasks'[t].members : member'[m].status # "absent"
      BY <1>1, <1>2, <1>3 DEF Queue, Known
    <2> QED BY <1>4, <2>1 DEF Queue, Known
  <1>7. Len(tasks) <= Len(tasks') /\ Settled(items')
          /\ \A u \in 1..Len(tasks) : Advances(tasks[u], tasks'[u])
    BY <1>1, <1>3 DEF Settled, Advances, TaskRows
  <1> QED BY <1>4, <1>5, <1>6, <1>7, QueueFrom

LEMMA CreationsKeepQueue ==
    ASSUME Fenced, Fenced', Queue,
           \/ \E mode \in Modes, ms \in SUBSET Members : CreateTask(mode, ms)
           \/ \E m \in Members : AllocateOne(m)
           \/ \E t \in DOMAIN tasks : RetryTask(t)
    PROVE  Queue'
  <1>1. ASSUME NEW mode \in Modes, NEW ms \in SUBSET Members, CreateTask(mode, ms)
        PROVE  Queue'
    BY <1>1, CreatedKeepsQueue DEF CreateTask
  <1>2. ASSUME NEW m \in Members, AllocateOne(m)
        PROVE  Queue'
    <2>1. "execute" \in Modes /\ {m} \in SUBSET Members
      BY DEF Modes
    <2> QED BY <1>2, <2>1, CreatedKeepsQueue DEF AllocateOne
  <1>3. ASSUME NEW t \in DOMAIN tasks, RetryTask(t)
        PROVE  Queue'
    <2>1. t \in 1..Len(tasks) /\ tasks[t] \in TaskRows
      BY TaskAt DEF Fenced
    <2>2. /\ tasks[t].mode \in Modes /\ tasks[t].members \in SUBSET Members
          /\ \A m \in tasks[t].members : member[m].status # "absent"
      BY <2>1 DEF TaskRows, Queue, Known
    <2>3. Created(tasks[t].mode, tasks[t].members) /\ UNCHANGED <<scope, member, receiving, sess>>
      BY <1>3 DEF RetryTask
    <2> QED BY <2>2, <2>3, CreatedKeepsQueue
  <1> QED BY <1>1, <1>2, <1>3

\* The tasks of a step that ends some of them.
LEMMA EndedTasks ==
    ASSUME Fenced, Len(tasks') = Len(tasks),
           \A u \in 1..Len(tasks) :
              \/ tasks'[u] = tasks[u]
              \/ /\ tasks'[u].mode = tasks[u].mode /\ tasks'[u].members = tasks[u].members
                 /\ tasks[u].status # "completed" /\ tasks[u].gen <= tasks'[u].gen
                 /\ \/ tasks'[u].status \in {"completed", "failed", "cancelled"}
                    \/ tasks'[u].status = "pending" /\ tasks[u].gen < tasks'[u].gen
    PROVE  /\ Len(tasks) <= Len(tasks')
           /\ \A u \in 1..Len(tasks) : Advances(tasks[u], tasks'[u])
           /\ \A u \in 1..Len(tasks) : tasks'[u].members = tasks[u].members
  <1>1. Len(tasks) \in Nat /\ \A u \in 1..Len(tasks) : tasks[u] \in TaskRows
    BY TaskAt DEF Fenced
  <1>2. ASSUME NEW u \in 1..Len(tasks)
        PROVE  Advances(tasks[u], tasks'[u]) /\ tasks'[u].members = tasks[u].members
    <2>1. tasks[u].gen \in Nat
      BY <1>1 DEF TaskRows
    <2> QED BY <2>1 DEF Advances
  <1> QED BY <1>1, <1>2

\* The members are the same, or some who were known have another status.
LEMMA KnownFrom ==
    ASSUME Fenced, Queue, Len(tasks') = Len(tasks),
           \A u \in 1..Len(tasks) : tasks'[u].members = tasks[u].members,
           \A m \in Members : Len(items'[m]) = Len(items[m]),
           member' \in [Members -> MemberRows],
           \A m \in Members : /\ member'[m].qual = member[m].qual
                              /\ member'[m].status = "absent" <=> member[m].status = "absent"
    PROVE  Known(member, items, tasks)'
  <1>1. \A t \in 1..Len(tasks) : tasks[t].members \subseteq Members
    BY TaskAt DEF Fenced, TaskRows
  <1> QED BY <1>1 DEF Queue, Known

LEMMA CancelKeepsQueue ==
    ASSUME Fenced, Fenced', Queue, NEW t \in DOMAIN tasks, CancelTask(t)
    PROVE  Queue'
  <1> DEFINE own == {r \in Rows(items) : LET i == items[r[1]][r[2]] IN i.task = t /\ Active(i)}
             p == Withdrawn(tasks[t].plan)
             k == [tasks[t] EXCEPT !.status = "cancelled", !.plan = p]
  <1>1. t \in 1..Len(tasks) /\ tasks[t] \in TaskRows /\ DOMAIN tasks = 1..Len(tasks) /\ Table(items)
    BY TaskAt DEF Fenced, Queue, InLine
  <1>2. /\ items' = Mark(items, own, "cancelled") /\ tasks[t].status # "completed"
        /\ UNCHANGED <<member, receiving, sess>>
        /\ tasks' = [tasks EXCEPT ![t] = k]
    BY DEF CancelTask
  <1>3. \A m \in Members : \A n \in 1..Len(items[m]) :
           <<m, n>> \in own <=> items[m][n].task = t /\ Active(items[m][n])
    BY <1>1, RowAt DEF Rows
  <1> HIDE DEF own, p
  <1>4. Table(items') /\ Eases(items, items')
    BY <1>1, <1>2, <1>3, MarkEases DEF Open, Active
  <1>5. /\ InLine(items') /\ Before(items, items', "waiting") /\ Before(items, items', "leased")
        /\ \A m \in Members : Len(items'[m]) = Len(items[m])
    BY <1>4, EasedItems
  <1>6. ASSUME NEW m \in Members, NEW n \in 1..Len(items'[m]), items'[m][n].status = "leased"
        PROVE  items'[m][n].task # t
    <2>1. n \in 1..Len(items[m]) /\ items'[m][n] = items[m][n] /\ items[m][n] \in ItemRows
      BY <1>1, <1>5, <1>6, RowAt DEF Before
    <2>2. CASE <<m, n>> \in own
      <3>1. items'[m][n].status = "cancelled"
        <4> DEFINE new == Mark(items, own, "cancelled")
        <4>1. /\ Table(new) /\ \A j \in Members : Len(new[j]) = Len(items[j])
              /\ \A j \in Members : \A l \in 1..Len(items[j]) :
                    new[j][l] = IF <<j, l>> \in own
                                THEN [items[j][l] EXCEPT !.status = "cancelled"] ELSE items[j][l]
          BY <1>1, Marked DEF ItemStatus
        <4> QED BY <1>2, <2>1, <2>2, <4>1 DEF ItemRows
      <3> QED BY <1>6, <3>1
    <2>3. CASE <<m, n>> \notin own
      BY <1>3, <1>6, <2>1, <2>3 DEF Active
    <2> QED BY <2>2, <2>3
  <1>7. /\ k.mode = tasks[t].mode /\ k.members = tasks[t].members
        /\ k.status = "cancelled" /\ k.gen = tasks[t].gen
    BY <1>1 DEF TaskRows
  <1> HIDE DEF k
  <1>8. /\ Len(tasks') = Len(tasks) /\ tasks'[t] = k
        /\ \A u \in 1..Len(tasks) \ {t} : tasks'[u] = tasks[u]
    BY <1>1, <1>2, ExceptSeq, LenProperties DEF Fenced, GoodTasks
  <1>9. /\ Len(tasks) <= Len(tasks') /\ \A u \in 1..Len(tasks) : Advances(tasks[u], tasks'[u])
        /\ \A u \in 1..Len(tasks) : tasks'[u].members = tasks[u].members
    <2>1. tasks[t].gen \in Nat
      BY <1>1 DEF TaskRows
    <2> QED BY <1>2, <1>7, <1>8, <2>1, EndedTasks
  <1>10. Settled(items')
    BY <1>6, <1>8 DEF Settled
  <1>11. scope'.revision = scope.revision
    BY DEF CancelTask, Released, Fenced, ScopeRow
  <1>12. InLine(items)' /\ Onward
    BY <1>2, <1>5, <1>11, InLineStays, SameInputsOnward
  <1>13. Known(member, items, tasks)'
    BY <1>2, <1>5, <1>8, <1>9, KnownFrom DEF Queue, Known
  <1> QED BY <1>2, <1>5, <1>9, <1>10, <1>12, <1>13, QueueFrom

LEMMA PauseKeepsQueue ==
    ASSUME Fenced, Fenced', Queue, NEW b \in BOOLEAN, SetPaused(b)
    PROVE  Queue'
  <1> DEFINE ended == [t \in DOMAIN tasks |->
                         IF tasks[t].status \in {"pending", "running"}
                         THEN [tasks[t] EXCEPT !.status = "cancelled"] ELSE tasks[t]]
             freed == {r \in Rows(items) :
                         LET i == items[r[1]][r[2]]
                         IN Active(i) /\ i.task # 0 /\ ended[i.task].status = "cancelled"}
  <1>1. /\ items' = Freed(items, freed) /\ UNCHANGED <<member, receiving, sess>>
        /\ tasks' = [t \in DOMAIN tasks |-> IF ended[t].status = "cancelled"
                                            THEN [ended[t] EXCEPT !.plan = Withdrawn(@)]
                                            ELSE ended[t]]
    BY DEF SetPaused
  <1>2. Table(items) /\ DOMAIN tasks = 1..Len(tasks) /\ Len(tasks) \in Nat
    BY TaskAt DEF Fenced, Queue, InLine
  <1>3. \A m \in Members : \A n \in 1..Len(items[m]) :
           <<m, n>> \in freed <=> /\ Active(items[m][n]) /\ items[m][n].task # 0
                                  /\ ended[items[m][n].task].status = "cancelled"
    BY <1>2, RowAt DEF Rows
  <1>4. ASSUME NEW u \in 1..Len(tasks)
        PROVE  /\ tasks'[u].mode = tasks[u].mode /\ tasks'[u].members = tasks[u].members
               /\ tasks'[u].gen = tasks[u].gen
               /\ tasks'[u].status = IF tasks[u].status \in {"pending", "running"}
                                     THEN "cancelled" ELSE tasks[u].status
               /\ ended[u].status = tasks'[u].status
    <2>1. tasks[u] \in TaskRows /\ u \in DOMAIN tasks
      BY <1>2, TaskAt DEF Fenced
    <2>2. /\ ended[u].mode = tasks[u].mode /\ ended[u].members = tasks[u].members
          /\ ended[u].gen = tasks[u].gen /\ ended[u] \in TaskRows
          /\ ended[u].status = IF tasks[u].status \in {"pending", "running"}
                               THEN "cancelled" ELSE tasks[u].status
      BY <2>1 DEF TaskRows, TaskStatus
    <2> HIDE DEF ended
    <2>3. tasks'[u] = IF ended[u].status = "cancelled"
                      THEN [ended[u] EXCEPT !.plan = Withdrawn(@)] ELSE ended[u]
      BY <1>1, <2>1
    <2> QED BY <2>2, <2>3 DEF TaskRows
  <1> HIDE DEF ended, freed
  <1>5. /\ Table(items') /\ Eases(items, items')
        /\ \A m \in Members : \A n \in 1..Len(items[m]) :
              <<m, n>> \in freed => items'[m][n].status = "pending"
    BY <1>1, <1>2, <1>3, FreedEases
  <1>6. /\ InLine(items') /\ Before(items, items', "waiting") /\ Before(items, items', "leased")
        /\ \A m \in Members : Len(items'[m]) = Len(items[m])
    BY <1>5, EasedItems
  <1>7. ASSUME NEW m \in Members, NEW n \in 1..Len(items'[m]), items'[m][n].status = "leased"
        PROVE  FALSE
    <2>1. n \in 1..Len(items[m]) /\ items[m][n].status = "leased"
      BY <1>6, <1>7 DEF Before
    <2>2. items[m][n].task \in 1..Len(tasks) /\ tasks[items[m][n].task].status = "running"
      BY <2>1 DEF Queue, AllOwned, Owned
    <2>3. ended[items[m][n].task].status = "cancelled"
      BY <1>4, <2>2
    <2>4. <<m, n>> \in freed
      BY <1>2, <1>3, <2>1, <2>2, <2>3 DEF Active
    <2> QED BY <1>5, <1>7, <2>1, <2>4
  <1>8. Len(tasks') = Len(tasks)
    <2>1. DOMAIN tasks' = 1..Len(tasks)
      BY <1>1, <1>2
    <2>2. tasks' \in Seq(TaskRows)
      BY DEF Fenced, GoodTasks
    <2> QED BY <1>2, <2>1, <2>2, LenProperties
  <1>9. /\ Len(tasks) <= Len(tasks') /\ \A u \in 1..Len(tasks) : Advances(tasks[u], tasks'[u])
        /\ \A u \in 1..Len(tasks) : tasks'[u].members = tasks[u].members
    <2>1. ASSUME NEW u \in 1..Len(tasks)
          PROVE  Advances(tasks[u], tasks'[u])
      <3>1. tasks[u].gen \in Nat
        BY <1>2, TaskAt DEF Fenced, TaskRows
      <3> QED BY <1>4, <3>1 DEF Advances
    <2> QED BY <1>2, <1>4, <1>8, <2>1
  <1>10. Settled(items')
    BY <1>7 DEF Settled
  <1>11. scope'.revision = scope.revision + 1
    BY DEF SetPaused, Fenced, ScopeRow
  <1>12. InLine(items)' /\ Onward
    BY <1>1, <1>6, <1>11, InLineStays DEF Onward, Queue
  <1>13. Known(member, items, tasks)'
    BY <1>1, <1>6, <1>8, <1>9, KnownFrom DEF Queue, Known
  <1> QED BY <1>1, <1>6, <1>9, <1>10, <1>12, <1>13, QueueFrom

-----------------------------------------------------------------------------
(* Claims.                                                                 *)

\* What the claim finds after its clean-up.
LEMMA Reopening ==
    ASSUME Fenced, Queue
    PROVE  /\ InLine(Reopened(items, Reclaimed)) /\ NoneLeased(Reopened(items, Reclaimed))
           /\ Before(items, Reopened(items, Reclaimed), "waiting")
           /\ \A m \in Members : Len(Reopened(items, Reclaimed)[m]) = Len(items[m])
           /\ GoodTasks(Reclaimed) /\ Len(Reclaimed) = Len(tasks)
           /\ \A u \in 1..Len(tasks) : /\ Advances(tasks[u], Reclaimed[u])
                                       /\ Reclaimed[u].status # "running"
                                       /\ Reclaimed[u].members = tasks[u].members
  <1>1. /\ Table(Reopened(items, Reclaimed)) /\ Eases(items, Reopened(items, Reclaimed))
        /\ NoneLeased(Reopened(items, Reclaimed))
    BY ReopenedItems DEF Fenced, Queue
  <1>2. /\ InLine(Reopened(items, Reclaimed))
        /\ Before(items, Reopened(items, Reclaimed), "waiting")
        /\ \A m \in Members : Len(Reopened(items, Reclaimed)[m]) = Len(items[m])
    BY <1>1, EasedItems
  <1>3. /\ GoodTasks(Reclaimed) /\ Len(Reclaimed) = Len(tasks)
        /\ \A u \in 1..Len(tasks) : Reclaimed[u].status # "running"
    BY ReclaimedTasks DEF Fenced
  <1>4. ASSUME NEW u \in 1..Len(tasks)
        PROVE  Advances(tasks[u], Reclaimed[u]) /\ Reclaimed[u].members = tasks[u].members
    <2>1. tasks[u] \in TaskRows /\ u \in DOMAIN tasks
      BY TaskAt DEF Fenced
    <2>2. CASE tasks[u].status = "running"
      <3>1. Reclaimed[u] =
              [tasks[u] EXCEPT !.status = IF tasks[u].gen >= 3 THEN "failed" ELSE "pending",
                               !.gen = tasks[u].gen + 1]
        BY <2>1, <2>2 DEF Reclaimed
      <3>2. /\ Reclaimed[u].mode = tasks[u].mode /\ Reclaimed[u].members = tasks[u].members
            /\ Reclaimed[u].gen = tasks[u].gen + 1
            /\ Reclaimed[u].status \in {"failed", "pending"} /\ tasks[u].gen \in Nat
        BY <2>1, <3>1 DEF TaskRows
      <3> QED BY <2>2, <3>2 DEF Advances
    <2>3. CASE tasks[u].status # "running"
      <3>1. Reclaimed[u] = tasks[u] /\ tasks[u].gen \in Nat
        BY <2>1, <2>3 DEF Reclaimed, TaskRows
      <3> QED BY <2>3, <3>1 DEF Advances
    <2> QED BY <2>2, <2>3
  <1> QED BY <1>1, <1>2, <1>3, <1>4

\* The claimed task starts: it is the only one that runs.
LEMMA StartKeepsQueue ==
    ASSUME Fenced, Fenced', Queue, NEW w \in Workers, NEW tks, GoodTasks(tks),
           Len(tasks) <= Len(tks), NEW t \in 1..Len(tks), tks[t].status = "pending",
           \A u \in 1..Len(tks) : tks[u].status # "running",
           \A u \in 1..Len(tasks) : Advances(tasks[u], tks[u]),
           NEW its, InLine(its), NoneLeased(its), Before(items, its, "waiting"),
           Known(member, its, tks), UNCHANGED <<member, receiving>>, Start(w, tks, its, t)
    PROVE  Queue'
  <1> DEFINE k == [tks[t] EXCEPT !.status = "running"]
             x == [Idle EXCEPT !.pc = "claimed", !.task = t, !.gen = tks[t].gen]
  <1>1. /\ Len(tasks) \in Nat /\ Len(tks) \in Nat /\ tks \in Seq(TaskRows)
        /\ \A u \in 1..Len(tks) : tks[u] \in TaskRows
        /\ \A u \in 1..Len(tasks) : tasks[u] \in TaskRows
    BY TaskAt DEF Fenced, GoodTasks
  <1>2. /\ k \in TaskRows /\ k.status = "running" /\ k.gen = tks[t].gen /\ k.mode = tks[t].mode
        /\ k.members = tks[t].members /\ tks[t].gen \in Nat /\ tks[t].mode \in Modes
    BY <1>1 DEF TaskRows, TaskStatus
  <1>3. x.pc = "claimed" /\ x.task = t /\ x.gen = tks[t].gen
    BY DEF Idle
  <1>4. /\ tasks' = [tks EXCEPT ![t] = k] /\ sess' = [sess EXCEPT ![w] = x]
        /\ items' = IF tks[t].mode = "simulate" THEN its ELSE Leased(its, tks[t].members, t)
    BY DEF Start
  <1> HIDE DEF k, x
  <1>5. /\ Len(tasks') = Len(tks) /\ tasks'[t] = k
        /\ \A u \in 1..Len(tks) \ {t} : tasks'[u] = tks[u]
    BY <1>1, <1>2, <1>4, ExceptSeq
  <1>6. /\ InLine(items') /\ Before(its, items', "waiting")
        /\ \A m \in Members : Len(items'[m]) = Len(its[m])
        /\ \A m \in Members : \A n \in 1..Len(items'[m]) : items'[m][n].status = "leased" =>
              /\ items'[m][n].task = t /\ m \in tks[t].members
              /\ tks[t].mode # "simulate"
    <2>1. CASE tks[t].mode = "simulate"
      BY <1>4, <2>1 DEF NoneLeased, Before
    <2>2. CASE tks[t].mode # "simulate"
      <3>1. t \in Nat /\ items' = Leased(its, tks[t].members, t)
        BY <1>1, <1>4, <2>2
      <3> QED BY <2>2, <3>1, LeasedItems
    <2> QED BY <2>1, <2>2
  <1>7. Before(items, items', "waiting")
    BY <1>6 DEF Before
  <1>8. scope'.revision = scope.revision
    BY DEF Start, Fenced, ScopeRow
  <1>9. AllAware'
    <2>1. \A u \in 1..Len(tasks) : tasks[u].status = "completed" =>
             u \in 1..Len(tasks') /\ tasks'[u].status = "completed"
      BY <1>1, <1>5 DEF Advances
    <2> QED BY <1>7, <1>8, <2>1, SameInputsOnward, AwareStays
  <1>10. AllOwned(items', tasks')
    <2>1. tks[t].mode # "simulate" => tks[t].mode = "execute"
      BY <1>2 DEF Modes
    <2> QED BY <1>2, <1>5, <1>6, <2>1 DEF AllOwned, Owned
  <1>11. Known(member, items, tasks)'
    BY <1>2, <1>5, <1>6 DEF Known
  <1>12. ASSUME NEW v \in Workers \ {w}
         PROVE  Current(sess[v], tasks') /\ Covers(sess[v], items', tasks')
    <2> DEFINE y == sess[v]
    <2>1. OnTask(y, tasks) /\ Current(y, tasks) /\ Covers(y, items, tasks)
      BY DEF Fenced, Queue
    <2> HIDE DEF y
    <2> SUFFICES ASSUME y.pc # "idle"
                 PROVE  Current(y, tasks') /\ Covers(y, items', tasks')
      BY DEF y, Current, Covers
    <2>2. /\ y.task \in 1..Len(tasks) /\ y.gen \in Nat /\ y.task \in 1..Len(tks)
          /\ tasks[y.task].gen \in Nat /\ tks[y.task].gen \in Nat
      BY <1>1, <2>1 DEF OnTask, Session, TaskRows
    <2>3. y.gen <= tks[y.task].gen /\ (tks[y.task].status = "pending" => y.gen < tks[y.task].gen)
      BY <2>1, <2>2 DEF Current, Advances
    <2>4. CASE y.task = t
      BY <1>2, <1>5, <2>1, <2>2, <2>3, <2>4 DEF Current, Covers
    <2>5. CASE y.task # t
      BY <1>5, <2>1, <2>2, <2>3, <2>5 DEF Current, Covers
    <2> QED BY <2>4, <2>5
  <1>13. Current(x, tasks') /\ Covers(x, items', tasks')
    BY <1>2, <1>3, <1>5 DEF Current, Covers
  <1>14. \A v \in Workers : Current(sess'[v], tasks') /\ Covers(sess'[v], items', tasks')
    BY <1>4, <1>12, <1>13 DEF Fenced
  <1>15. InLine(items)'
    BY <1>6, InLineStays
  <1> QED BY <1>8, <1>9, <1>10, <1>11, <1>14, <1>15 DEF Queue

LEMMA ClaimTaskKeepsQueue ==
    ASSUME Fenced, Fenced', Queue, NEW w \in Workers, ClaimTask(w)
    PROVE  Queue'
  <1> DEFINE its == Reopened(items, Reclaimed)
  <1>1. PICK t \in Claimable(Reclaimed) : Start(w, Reclaimed, its, t)
    BY DEF ClaimTask
  <1>2. Len(tasks) \in Nat /\ Len(tasks) <= Len(Reclaimed)
    BY Reopening, TaskAt DEF Fenced
  <1>3. t \in 1..Len(Reclaimed) /\ Reclaimed[t].status = "pending"
    BY Reopening, TaskAt DEF Claimable
  <1>4. Known(member, its, Reclaimed)
    BY Reopening DEF Queue, Known
  <1>5. UNCHANGED <<member, receiving>>
    BY DEF ClaimTask
  <1> QED BY <1>1, <1>2, <1>3, <1>4, <1>5, Reopening, StartKeepsQueue

LEMMA ClaimNewKeepsQueue ==
    ASSUME Fenced, Fenced', Queue, NEW w \in Workers, ClaimNew(w)
    PROVE  Queue'
  <1> DEFINE old == Reopened(items, Reclaimed)
             woken == Woken(old)
             ms == Awaiting(woken)
             k == NewTask("execute", ms)
             tks == Append(Reclaimed, k)
             its == Enqueue(woken, ms, Len(Reclaimed) + 1)
  <1>1. Start(w, tks, its, Len(Reclaimed) + 1) /\ UNCHANGED <<member, receiving>>
    BY DEF ClaimNew
  <1>2. /\ Len(tasks) \in Nat /\ Len(Reclaimed) = Len(tasks) /\ GoodTasks(Reclaimed)
        /\ InLine(old) /\ NoneLeased(old) /\ Before(items, old, "waiting")
        /\ \A m \in Members : Len(old[m]) = Len(items[m])
    BY Reopening, TaskAt DEF Fenced
  <1>3. /\ InLine(woken) /\ NoneLeased(woken) /\ Before(old, woken, "waiting")
        /\ \A m \in Members : Len(woken[m]) = Len(old[m])
    BY <1>2, WokenItems
  <1>4. ms \in SUBSET Members /\ \A m \in ms : member[m].status = "pending_allocation"
    BY DEF Awaiting
  <1> HIDE DEF old, woken, ms
  <1>5. /\ InLine(its) /\ Before(woken, its, "waiting") /\ Before(woken, its, "leased")
        /\ \A m \in Members \ ms : its[m] = woken[m]
    <2>1. Len(Reclaimed) + 1 \in Nat
      BY <1>2
    <2> QED BY <1>3, <2>1, EnqueuedItems DEF Queue, Known
  <1>6. "execute" \in Modes /\ k.members = ms /\ k.status = "pending"
    BY DEF Modes, NewTask
  <1>7. /\ GoodTasks(tks) /\ Len(tks) = Len(tasks) + 1
        /\ \A u \in 1..Len(tasks) : tks[u] = Reclaimed[u]
        /\ tks[Len(tasks) + 1].status = "pending"
    BY <1>2, <1>4, <1>6, OneTaskMore
  <1>8. tks[Len(tasks) + 1] = k
    BY <1>2, AppendProperties DEF GoodTasks, NewTask
  <1> HIDE DEF its, tks, k
  <1>9. NoneLeased(its) /\ Before(items, its, "waiting")
    <2>1. NoneLeased(its)
      BY <1>3, <1>5 DEF NoneLeased, Before
    <2>2. Before(items, woken, "waiting")
      BY <1>2, <1>3 DEF Before
    <2>3. Before(items, its, "waiting")
      BY <1>5, <2>2 DEF Before
    <2> QED BY <2>1, <2>3
  <1>10. Known(member, its, tks)
    <2>1. \A m \in Members : member[m].status = "absent" => Len(its[m]) = Len(items[m])
      BY <1>2, <1>3, <1>4, <1>5
    <2>2. \A u \in 1..Len(tks) : \A m \in tks[u].members : member[m].status # "absent"
      BY <1>2, <1>4, <1>6, <1>7, <1>8, Reopening DEF Queue, Known
    <2> QED BY <2>1, <2>2 DEF Queue, Known
  <1>11. /\ Len(tasks) <= Len(tks) /\ Len(tasks) + 1 \in 1..Len(tks)
         /\ \A u \in 1..Len(tks) : tks[u].status # "running"
         /\ \A u \in 1..Len(tasks) : Advances(tasks[u], tks[u])
    BY <1>2, <1>7, Reopening
  <1>12. Start(w, tks, its, Len(tasks) + 1)
    BY <1>1, <1>2
  <1> QED BY <1>1, <1>5, <1>7, <1>9, <1>10, <1>11, <1>12, StartKeepsQueue

LEMMA ClaimNothingKeepsQueue ==
    ASSUME Fenced, Fenced', Queue, NEW w \in Workers, ClaimNothing(w)
    PROVE  Queue'
  <1> DEFINE old == Reopened(items, Reclaimed)
  <1>1. /\ UNCHANGED <<scope, member, receiving, sess>> /\ tasks' = Reclaimed
        /\ items' = old \/ items' = Woken(old)
    BY DEF ClaimNothing
  <1>2. /\ Len(tasks) \in Nat /\ Len(Reclaimed) = Len(tasks)
        /\ InLine(old) /\ NoneLeased(old) /\ Before(items, old, "waiting")
        /\ \A m \in Members : Len(old[m]) = Len(items[m])
    BY Reopening, TaskAt DEF Fenced
  <1> HIDE DEF old
  <1>3. /\ InLine(items') /\ NoneLeased(items') /\ Before(old, items', "waiting")
        /\ \A m \in Members : Len(items'[m]) = Len(old[m])
    BY <1>1, <1>2, WokenItems DEF Before
  <1>4. Before(items, items', "waiting") /\ Before(items, items', "leased") /\ Settled(items')
    BY <1>2, <1>3 DEF Before, NoneLeased, Settled
  <1>5. InLine(items)' /\ Onward
    BY <1>1, <1>3, InLineStays, SameInputsOnward
  <1>6. Known(member, items, tasks)'
    BY <1>1, <1>2, <1>3, Reopening DEF Queue, Known
  <1> QED BY <1>1, <1>2, <1>4, <1>5, <1>6, Reopening, QueueFrom

-----------------------------------------------------------------------------
(* The transactions that end a generation.                                 *)

\* The holder's task.
LEMMA HolderTask ==
    ASSUME Fenced, NEW w \in Workers, HoldsLease(w), sess[w].pc # "idle", NEW k \in TaskRows,
           tasks' = [tasks EXCEPT ![sess[w].task] = k],
           k.mode = tasks[sess[w].task].mode, k.members = tasks[sess[w].task].members,
           \/ k.status \in {"completed", "failed"} /\ k.gen = tasks[sess[w].task].gen
           \/ k.status = "pending" /\ k.gen = tasks[sess[w].task].gen + 1
    PROVE  /\ sess[w].task \in 1..Len(tasks) /\ Len(tasks) \in Nat
           /\ Len(tasks') = Len(tasks) /\ tasks'[sess[w].task] = k
           /\ \A u \in 1..Len(tasks) \ {sess[w].task} : tasks'[u] = tasks[u]
           /\ \A u \in 1..Len(tasks) : Advances(tasks[u], tasks'[u])
           /\ \A u \in 1..Len(tasks) : tasks'[u].members = tasks[u].members
  <1> DEFINE t == sess[w].task
  <1>1. /\ t \in 1..Len(tasks) /\ tasks[t].status = "running" /\ tasks[t] \in TaskRows
        /\ Len(tasks) \in Nat /\ tasks \in Seq(TaskRows)
    BY HolderRuns, TaskAt DEF Fenced, GoodTasks
  <1>2. /\ Len(tasks') = Len(tasks) /\ tasks'[t] = k
        /\ \A u \in 1..Len(tasks) \ {t} : tasks'[u] = tasks[u]
    BY <1>1, ExceptSeq
  <1>3. tasks[t].gen \in Nat
    BY <1>1 DEF TaskRows
  <1> HIDE DEF t
  <1>4. \A u \in 1..Len(tasks) : /\ Advances(tasks[u], tasks'[u])
                                 /\ tasks'[u].members = tasks[u].members
    BY <1>1, <1>2, <1>3, EndedTasks DEF t
  <1> QED BY <1>1, <1>2, <1>4 DEF t

\* The holder ends its generation and leaves no item leased to it.
LEMMA EndKeepsQueue ==
    ASSUME Fenced, Fenced', Queue, NEW w \in Workers, HoldsLease(w), sess[w].pc # "idle",
           NEW k \in TaskRows, tasks' = [tasks EXCEPT ![sess[w].task] = k],
           k.mode = tasks[sess[w].task].mode, k.members = tasks[sess[w].task].members,
           \/ k.status \in {"completed", "failed"} /\ k.gen = tasks[sess[w].task].gen
           \/ k.status = "pending" /\ k.gen = tasks[sess[w].task].gen + 1,
           sess' = [sess EXCEPT ![w] = Idle], scope'.revision \in Nat, AllAware',
           InLine(items'), Before(items, items', "leased"),
           \A m \in Members : Len(items'[m]) = Len(items[m]),
           \A m \in Members : \A n \in 1..Len(items'[m]) :
              ~(items'[m][n].status = "leased" /\ items'[m][n].task = sess[w].task),
           member' \in [Members -> MemberRows],
           \A m \in Members : /\ member'[m].qual = member[m].qual
                              /\ member'[m].status = "absent" <=> member[m].status = "absent"
    PROVE  Queue'
  <1>1. /\ Len(tasks) \in Nat /\ Len(tasks') = Len(tasks)
        /\ \A u \in 1..Len(tasks) \ {sess[w].task} : tasks'[u] = tasks[u]
        /\ \A u \in 1..Len(tasks) : Advances(tasks[u], tasks'[u])
        /\ \A u \in 1..Len(tasks) : tasks'[u].members = tasks[u].members
    BY HolderTask
  <1>2. Settled(items')
    BY <1>1 DEF Settled
  <1>3. InLine(items)' /\ Known(member, items, tasks)'
    BY <1>1, InLineStays, KnownFrom
  <1>4. Goes(w, Idle)
    BY DEF Goes, Idle, Covers
  <1>5. Len(tasks) <= Len(tasks')
    BY <1>1
  <1> QED BY <1>1, <1>2, <1>3, <1>4, <1>5, QueueCore

\* What is leased to task t is settled.
LEMMA LeasedRows ==
    ASSUME Queue, NEW t
    PROVE  \A m \in Members : \A n \in 1..Len(items[m]) :
              <<m, n>> \in LeasedTo(items, {t}) <=>
                 items[m][n].status = "leased" /\ items[m][n].task = t
  <1>1. Table(items)
    BY DEF Queue, InLine
  <1> QED BY <1>1, RowAt DEF LeasedTo, Rows

LEMMA FinishKeepsQueue ==
    ASSUME Fenced, Fenced', Queue, NEW w \in Workers, Finish(w)
    PROVE  Queue'
  <1> DEFINE t == sess[w].task
             g == sess[w].gen
             stale == sess[w].code = "stale"
             again == stale /\ g < 3
             p == IF tasks[t].plan[g] # "proposed" THEN tasks[t].plan[g]
                  ELSE IF stale THEN "stale" ELSE "invalid"
             st == IF again THEN "pending" ELSE "failed"
             gen == IF again THEN tasks[t].gen + 1 ELSE tasks[t].gen
             k == [tasks[t] EXCEPT !.status = st, !.gen = gen, !.plan[g] = p]
             to == IF again THEN "pending" ELSE "failed"
             rows == LeasedTo(items, {t})
  <1>1. HoldsLease(w) /\ sess[w].pc # "idle" /\ UNCHANGED <<member, receiving>>
          /\ sess' = [sess EXCEPT ![w] = Idle] /\ items' = Mark(items, rows, to)
    BY DEF Finish
  <1>2. t \in 1..Len(tasks) /\ g \in Generations /\ tasks[t] \in TaskRows /\ Table(items)
    BY <1>1, HolderRuns DEF Queue, InLine
  <1>3. tasks' = [tasks EXCEPT ![t] = k]
    <2>1. t \in DOMAIN tasks
      BY <1>2, TaskAt DEF Fenced
    <2> QED BY <2>1 DEF Finish
  <1>4. st \in {"pending", "failed"} /\ to = st /\ gen \in Nat
          /\ (st = "failed" => gen = tasks[t].gen) /\ (st = "pending" => gen = tasks[t].gen + 1)
    BY <1>2 DEF TaskRows
  <1>5. p \in PlanStatus
    BY <1>2 DEF TaskRows, PlanStatus
  <1> HIDE DEF st, to, gen, p
  <1>6. k \in TaskRows /\ k.mode = tasks[t].mode /\ k.members = tasks[t].members
          /\ k.status = st /\ k.gen = gen
    BY <1>2, <1>4, <1>5 DEF TaskRows, TaskStatus
  <1> HIDE DEF k
  <1>7. \A m \in Members : \A n \in 1..Len(items[m]) :
           <<m, n>> \in rows <=> items[m][n].status = "leased" /\ items[m][n].task = t
    BY LeasedRows
  <1> HIDE DEF rows
  <1>8. Table(items') /\ Eases(items, items')
    BY <1>1, <1>2, <1>4, <1>7, MarkEases DEF Open, Active
  <1>9. /\ InLine(items') /\ Before(items, items', "waiting") /\ Before(items, items', "leased")
        /\ \A m \in Members : Len(items'[m]) = Len(items[m])
    BY <1>8, EasedItems
  <1>10. ASSUME NEW m \in Members, NEW n \in 1..Len(items'[m]),
                items'[m][n].status = "leased", items'[m][n].task = t
         PROVE  FALSE
    <2>1. n \in 1..Len(items[m]) /\ items'[m][n] = items[m][n] /\ items[m][n] \in ItemRows
      BY <1>2, <1>9, <1>10, RowAt DEF Before
    <2>2. <<m, n>> \in rows
      BY <1>7, <1>10, <2>1
    <2>3. items'[m][n] = [items[m][n] EXCEPT !.status = to]
      <3>1. to \in ItemStatus
        BY <1>4 DEF ItemStatus
      <3> DEFINE new == Mark(items, rows, to)
      <3>2. /\ Table(new) /\ \A j \in Members : Len(new[j]) = Len(items[j])
            /\ \A j \in Members : \A l \in 1..Len(items[j]) :
                  new[j][l] = IF <<j, l>> \in rows
                              THEN [items[j][l] EXCEPT !.status = to] ELSE items[j][l]
        BY <1>2, <3>1, Marked
      <3> QED BY <1>1, <2>1, <2>2, <3>2
    <2> QED BY <1>4, <1>10, <2>1, <2>3 DEF ItemRows
  <1>11. scope'.revision = scope.revision
    BY DEF Finish, Released, Fenced, ScopeRow
  <1>12. /\ \A u \in 1..Len(tasks) : tasks[u].status = "completed" =>
                u \in 1..Len(tasks') /\ tasks'[u].status = "completed"
    BY <1>1, <1>3, <1>4, <1>6, HolderTask DEF Advances
  <1>13. AllAware'
    BY <1>1, <1>9, <1>11, <1>12, SameInputsOnward, AwareStays
  <1>14. member' \in [Members -> MemberRows] /\ scope'.revision \in Nat
    BY <1>1, <1>11 DEF Queue, Known
  <1>15. \/ k.status \in {"completed", "failed"} /\ k.gen = tasks[t].gen
         \/ k.status = "pending" /\ k.gen = tasks[t].gen + 1
    BY <1>4, <1>6
  <1> QED BY <1>1, <1>3, <1>6, <1>9, <1>10, <1>13, <1>14, <1>15, EndKeepsQueue

LEMMA SimulationKeepsQueue ==
    ASSUME Fenced, Fenced', Queue, NEW w \in Workers, CommitSimulation(w)
    PROVE  Queue'
  <1> DEFINE t == sess[w].task
             p == [tasks[t].plan EXCEPT ![sess[w].gen] = "simulated"]
             k == [tasks[t] EXCEPT !.status = "completed", !.plan = p]
             rows == LeasedTo(items, {t})
  <1>1. HoldsLease(w) /\ sess[w].pc # "idle" /\ UNCHANGED <<member, receiving>>
          /\ sess' = [sess EXCEPT ![w] = Idle] /\ items' = Freed(items, rows)
    BY DEF CommitSimulation
  <1>2. t \in 1..Len(tasks) /\ tasks[t] \in TaskRows /\ Table(items)
    BY <1>1, HolderRuns DEF Queue, InLine
  <1>3. tasks' = [tasks EXCEPT ![t] = k]
    BY DEF CommitSimulation
  <1>4. p \in [Generations -> PlanStatus]
    BY <1>2 DEF TaskRows, PlanStatus
  <1> HIDE DEF p
  <1>5. k \in TaskRows /\ k.mode = tasks[t].mode /\ k.members = tasks[t].members
          /\ k.status = "completed" /\ k.gen = tasks[t].gen
    BY <1>2, <1>4 DEF TaskRows, TaskStatus
  <1> HIDE DEF k
  <1>6. \A m \in Members : \A n \in 1..Len(items[m]) :
           <<m, n>> \in rows <=> items[m][n].status = "leased" /\ items[m][n].task = t
    BY LeasedRows
  <1> HIDE DEF rows
  <1>7. /\ Table(items') /\ Eases(items, items')
        /\ \A m \in Members : \A n \in 1..Len(items[m]) :
              <<m, n>> \in rows => items'[m][n].status = "pending"
    BY <1>1, <1>2, <1>6, FreedEases DEF Active
  <1>8. /\ InLine(items') /\ Before(items, items', "waiting") /\ Before(items, items', "leased")
        /\ \A m \in Members : Len(items'[m]) = Len(items[m])
    BY <1>7, EasedItems
  <1>9. \A m \in Members : \A n \in 1..Len(items'[m]) :
           ~(items'[m][n].status = "leased" /\ items'[m][n].task = t)
    <2> SUFFICES ASSUME NEW m \in Members, NEW n \in 1..Len(items'[m]),
                        items'[m][n].status = "leased", items'[m][n].task = t
                 PROVE  FALSE
      OBVIOUS
    <2>1. n \in 1..Len(items[m]) /\ items'[m][n] = items[m][n]
      BY <1>8 DEF Before
    <2>2. <<m, n>> \in rows
      BY <1>6, <2>1
    <2> QED BY <1>7, <2>1, <2>2
  <1>10. scope'.revision = scope.revision
    BY DEF CommitSimulation, Released, Fenced, ScopeRow
  <1>11. \A u \in 1..Len(tasks) : tasks[u].status = "completed" =>
            u \in 1..Len(tasks') /\ tasks'[u].status = "completed"
    BY <1>1, <1>3, <1>5, HolderTask DEF Advances
  <1>12. AllAware'
    BY <1>1, <1>8, <1>10, <1>11, SameInputsOnward, AwareStays
  <1>13. member' \in [Members -> MemberRows] /\ scope'.revision \in Nat
    BY <1>1, <1>10 DEF Queue, Known
  <1> QED BY <1>1, <1>3, <1>5, <1>8, <1>9, <1>12, <1>13, EndKeepsQueue

LEMMA ProcessKeepsQueue ==
    ASSUME Fenced, Fenced', Queue, NEW w \in Workers, Process(w)
    PROVE  Queue'
  <1> DEFINE t == sess[w].task
             clean == tasks[t].mode # "simulate"
             view == Snapshot(t)
             k == [tasks[t] EXCEPT !.status = "completed"]
             rev == IF clean /\ Cleaned(t) # member THEN scope.revision + 1 ELSE scope.revision
  <1>1. /\ HoldsLease(w) /\ sess[w].pc = "claimed" /\ receiving' = receiving
        /\ member' = IF clean THEN Cleaned(t) ELSE member
        /\ items' = IF clean THEN CleanedItems(t) ELSE items
    BY DEF Process
  <1>2. /\ t \in 1..Len(tasks) /\ tasks[t] \in TaskRows /\ tasks[t].status = "running"
        /\ tasks[t].gen = sess[w].gen /\ Len(tasks) \in Nat
    BY <1>1, HolderRuns, TaskAt DEF Fenced
  <1>3. Table(items) /\ member \in [Members -> MemberRows]
    BY DEF Queue, InLine, Known
  <1>4. /\ member' \in [Members -> MemberRows]
        /\ \A m \in Members : /\ member'[m].qual = member[m].qual
                              /\ member'[m].status = "absent" <=> member[m].status = "absent"
                              /\ Qualified(m)' => Qualified(m)
    <2>1. ASSUME NEW m \in Members
          PROVE  /\ member'[m] \in MemberRows /\ member'[m].qual = member[m].qual
                 /\ member'[m].status = "absent" <=> member[m].status = "absent"
                 /\ Qualified(m)' => Qualified(m)
      <3>1. member[m] \in MemberRows
        BY <1>3
      <3>2. CASE clean /\ m \in Stale(t) /\ member[m].status = "pending_allocation"
        <4>1. member'[m] = [member[m] EXCEPT !.status = "needs_reanalysis"]
          BY <1>1, <3>2 DEF Cleaned
        <4> QED BY <3>1, <3>2, <4>1 DEF MemberRows, MemberStatus, Qualified
      <3>3. CASE ~(clean /\ m \in Stale(t) /\ member[m].status = "pending_allocation")
        <4>1. member'[m] = member[m]
          BY <1>1, <3>3 DEF Cleaned
        <4> QED BY <3>1, <4>1 DEF Qualified
      <3> QED BY <3>2, <3>3
    <2>2. member' = [m \in Members |-> member'[m]]
      BY <1>1, <1>3 DEF Cleaned
    <2> QED BY <2>1, <2>2
  <1>5. /\ Table(items') /\ Eases(items, items')
        /\ clean => \A m \in Members \cap Stale(t) : \A n \in 1..Len(items[m]) :
                       ~Open(items'[m][n])
    BY <1>1, SameItems, CancelOpen DEF CleanedItems
  <1>6. /\ InLine(items') /\ Before(items, items', "waiting") /\ Before(items, items', "leased")
        /\ \A m \in Members : Len(items'[m]) = Len(items[m])
    BY <1>5, EasedItems
  <1>7. ASSUME NEW m \in Members, NEW n \in 1..Len(items'[m]),
               items'[m][n].status = "leased", items'[m][n].task = t
        PROVE  m \in Included(view)
    <2>1. n \in 1..Len(items[m]) /\ items[m][n].status = "leased" /\ items[m][n].task = t
      BY <1>6, <1>7 DEF Before
    <2>2. m \in tasks[t].members /\ clean
      BY <2>1 DEF Queue, AllOwned, Owned
    <2>3. m \notin Stale(t)
      BY <1>5, <1>7, <2>1, <2>2 DEF Open
    <2>4. Qualified(m) /\ member[m].qual # 0
      BY <2>2, <2>3 DEF Stale, Qualified, Queue, Known
    <2> QED BY <2>2, <2>4 DEF Included, Snapshot
  <1>8. scope'.revision = rev
    BY DEF Process, Released, Fenced, ScopeRow
  <1>9. Onward
    <2>1. CASE clean /\ Cleaned(t) # member
      BY <1>8, <2>1 DEF Onward, Queue
    <2>2. CASE ~(clean /\ Cleaned(t) # member)
      BY <1>1, <1>4, <1>8, <2>2 DEF Onward, Queue
    <2> QED BY <2>1, <2>2
  <1> HIDE DEF clean, rev
  <1>10. CASE Included(view) = {}
    <2>1. tasks' = [tasks EXCEPT ![t] = k] /\ sess' = [sess EXCEPT ![w] = Idle]
      BY <1>10 DEF Process
    <2>2. k \in TaskRows /\ k.mode = tasks[t].mode /\ k.members = tasks[t].members
            /\ k.status = "completed" /\ k.gen = tasks[t].gen
      BY <1>2 DEF TaskRows, TaskStatus
    <2> HIDE DEF k
    <2>3. \A u \in 1..Len(tasks) : tasks[u].status = "completed" =>
             u \in 1..Len(tasks') /\ tasks'[u].status = "completed"
      BY <1>1, <2>1, <2>2, HolderTask DEF Advances
    <2>4. AllAware' /\ scope'.revision \in Nat
      BY <1>6, <1>9, <2>3, AwareStays DEF Onward
    <2>5. \A m \in Members : \A n \in 1..Len(items'[m]) :
             ~(items'[m][n].status = "leased" /\ items'[m][n].task = t)
      BY <1>7, <1>10
    <2> HIDE DEF t
    <2> QED BY <1>1, <1>4, <1>6, <2>1, <2>2, <2>4, <2>5, EndKeepsQueue DEF t
  <1>11. CASE Included(view) # {}
    <2>1. tasks' = tasks
      BY <1>11 DEF Process
    <2>2. PICK plan, r :
             /\ plan \in PlansFor(view)
             /\ sess' = [sess EXCEPT ![w] = [@ EXCEPT !.pc = "computing", !.plan = plan,
                                                      !.view = [view EXCEPT !.revision = r]]]
      BY <1>11 DEF Process
    <2> DEFINE v == [view EXCEPT !.revision = r]
               x == [sess[w] EXCEPT !.pc = "computing", !.plan = plan, !.view = v]
    <2>3. Included(v) = Included(view) /\ Placeable(v) = Placeable(view)
      BY DEF Snapshot, Included, Placeable
    <2>4. AssignedBy(plan) = Placeable(view)
      <3>1. PICK choice, order :
               plan = {[member |-> m, demand |-> choice[m], seq |-> order[m]] :
                          m \in Placeable(view)}
        BY <2>2 DEF PlansFor
      <3> DEFINE placed == Placeable(view)
                 a(m) == [member |-> m, demand |-> choice[m], seq |-> order[m]]
      <3> HIDE DEF placed
      <3>2. plan = {a(m) : m \in placed} /\ \A m : a(m).member = m
        BY <3>1 DEF placed
      <3> HIDE DEF a
      <3>3. \A m : m \in AssignedBy(plan) <=> m \in placed
        BY <3>2 DEF AssignedBy
      <3> QED BY <3>3 DEF placed
    <2> HIDE DEF v
    <2>5. sess' = [sess EXCEPT ![w] = x]
      BY <2>2 DEF Fenced, v
    <2>6. x.pc = "computing" /\ x.task = t /\ x.gen = sess[w].gen /\ x.plan = plan /\ x.view = v
      BY DEF Fenced, OnTask, Session
    <2> HIDE DEF x
    <2>7. Covers(x, items', tasks')
      BY <1>7, <2>3, <2>4, <2>6 DEF Covers
    <2>8. Goes(w, x)
      BY <1>1, <2>5, <2>6, <2>7 DEF Goes
    <2>9. InLine(items)'
      BY <1>4, <1>6, InLineStays
    <2>10. Known(member, items, tasks)'
      BY <1>4, <1>6, <2>1, KnownFrom
    <2> QED BY <1>6, <1>9, <2>1, <2>8, <2>9, <2>10, SameTasks, QueueFrom
  <1> QED BY <1>10, <1>11

LEMMA AwareNew ==
    ASSUME NEW m \in Members, NEW i, NEW t \in 1..Len(tasks'), i.task = t,
           tasks'[t].status = "completed", i.seen = scope'.revision, scope'.revision \in Nat,
           receiving' \cap Wants[m] = {}
    PROVE  /\ i.task \in 1..Len(tasks') /\ tasks'[i.task].status = "completed"
           /\ i.seen \in Nat /\ i.seen <= scope'.revision
           /\ Qualified(m)' /\ i.seen = scope'.revision => receiving' \cap Wants[m] = {}
  OBVIOUS

\* What the commit makes of the items: those of its task are assigned or wait.
LEMMA DecidedItems ==
    ASSUME Queue, NEW t, NEW plan, NEW waiters, NEW rev \in Nat,
           \A m \in Members : \A n \in 1..Len(items[m]) :
              /\ items[m][n].status = "leased" /\ items[m][n].task = t =>
                    m \in AssignedBy(plan) \/ m \in waiters
              /\ items[m][n].status = "waiting" => items[m][n].task # t
    PROVE  LET new == Decided(t, plan, waiters, rev)
           IN /\ InLine(new) /\ \A m \in Members : Len(new[m]) = Len(items[m])
              /\ \A m \in Members : \A n \in 1..Len(items[m]) :
                    /\ new[m][n].status = "leased" =>
                          new[m][n] = items[m][n] /\ new[m][n].task # t
                    /\ new[m][n].status = "waiting" =>
                          \/ new[m][n] = items[m][n]
                          \/ m \in waiters /\ new[m][n].task = t /\ new[m][n].seen = rev
  <1> DEFINE unmet == {r \in LeasedTo(items, {t}) : r[1] \in waiters}
             taken == OpenOf(items, AssignedBy(plan))
             mid == Mark(items, unmet, "waiting")
             its == Mark(mid, taken, "assigned")
             new == Decided(t, plan, waiters, rev)
  <1>1. Table(items)
    BY DEF Queue, InLine
  <1>2. \A m \in Members : \A n \in 1..Len(items[m]) :
           /\ <<m, n>> \in unmet <=> /\ m \in waiters
                                     /\ items[m][n].status = "leased" /\ items[m][n].task = t
           /\ <<m, n>> \in taken <=> m \in AssignedBy(plan) /\ Open(items[m][n])
    <2> SUFFICES ASSUME NEW m \in Members, NEW n \in 1..Len(items[m])
                 PROVE  /\ <<m, n>> \in unmet <=>
                              /\ m \in waiters
                              /\ items[m][n].status = "leased" /\ items[m][n].task = t
                        /\ <<m, n>> \in taken <=> m \in AssignedBy(plan) /\ Open(items[m][n])
      OBVIOUS
    <2>1. <<m, n>> \in LeasedTo(items, {t}) <=>
             items[m][n].status = "leased" /\ items[m][n].task = t
      BY LeasedRows
    <2>2. <<m, n>> \in Rows(items)
      BY <1>1, RowAt DEF Rows
    <2> QED BY <2>1, <2>2 DEF OpenOf
  <1> HIDE DEF unmet, taken
  <1>3. /\ Table(mid) /\ \A m \in Members : Len(mid[m]) = Len(items[m])
        /\ \A m \in Members : \A n \in 1..Len(items[m]) :
              mid[m][n] = IF <<m, n>> \in unmet
                          THEN [items[m][n] EXCEPT !.status = "waiting"] ELSE items[m][n]
    BY <1>1, Marked DEF ItemStatus
  <1> HIDE DEF mid
  <1>4. /\ Table(its) /\ \A m \in Members : Len(its[m]) = Len(mid[m])
        /\ \A m \in Members : \A n \in 1..Len(mid[m]) :
              its[m][n] = IF <<m, n>> \in taken
                          THEN [mid[m][n] EXCEPT !.status = "assigned"] ELSE mid[m][n]
    BY <1>3, Marked DEF ItemStatus
  <1>5. new = [m \in Members |-> [n \in DOMAIN its[m] |->
                  IF its[m][n].task = t /\ its[m][n].status = "waiting"
                  THEN [its[m][n] EXCEPT !.seen = rev] ELSE its[m][n]]]
    BY DEF Decided, its, mid, unmet, taken
  <1> HIDE DEF its, new
  <1>6. ASSUME NEW m \in Members, NEW n \in 1..Len(items[m])
        PROVE  /\ new[m][n] \in ItemRows /\ new[m][n].qual = items[m][n].qual
               /\ Open(new[m][n]) => Open(items[m][n])
               /\ Active(new[m][n]) => Active(items[m][n])
               /\ new[m][n].status = "leased" => new[m][n] = items[m][n] /\ new[m][n].task # t
               /\ new[m][n].status = "waiting" =>
                     \/ new[m][n] = items[m][n]
                     \/ m \in waiters /\ new[m][n].task = t /\ new[m][n].seen = rev
    <2> DEFINE i == items[m][n]
               j == its[m][n]
    <2>1. i \in ItemRows /\ Len(mid[m]) = Len(items[m]) /\ Len(its[m]) = Len(items[m])
            /\ n \in DOMAIN its[m]
      BY <1>1, <1>3, <1>4, RowAt
    <2>2. new[m][n] = IF j.task = t /\ j.status = "waiting" THEN [j EXCEPT !.seen = rev] ELSE j
      BY <1>5, <2>1
    <2>3. CASE <<m, n>> \in taken
      <3>1. j \in ItemRows /\ j.qual = i.qual /\ j.status = "assigned"
        <4>1. mid[m][n] \in ItemRows /\ mid[m][n].qual = i.qual
          <5>1. CASE <<m, n>> \in unmet
            BY <1>3, <2>1, <5>1 DEF ItemRows, ItemStatus
          <5>2. CASE <<m, n>> \notin unmet
            BY <1>3, <2>1, <5>2
          <5> QED BY <5>1, <5>2
        <4>2. j = [mid[m][n] EXCEPT !.status = "assigned"]
          BY <1>4, <2>1, <2>3
        <4> QED BY <4>1, <4>2 DEF ItemRows, ItemStatus
      <3> QED BY <1>2, <2>2, <2>3, <3>1 DEF Open, Active
    <2>4. CASE <<m, n>> \notin taken /\ <<m, n>> \in unmet
      <3>1. j = [i EXCEPT !.status = "waiting"]
        BY <1>3, <1>4, <2>1, <2>4
      <3>2. j \in ItemRows /\ j.qual = i.qual /\ j.status = "waiting" /\ j.task = i.task
        BY <2>1, <3>1 DEF ItemRows, ItemStatus
      <3>3. i.status = "leased" /\ i.task = t /\ m \in waiters
        BY <1>2, <2>4
      <3>4. new[m][n] = [j EXCEPT !.seen = rev]
        BY <2>2, <3>2, <3>3
      <3>5. /\ new[m][n] \in ItemRows /\ new[m][n].qual = i.qual
            /\ new[m][n].status = "waiting" /\ new[m][n].task = t /\ new[m][n].seen = rev
        BY <3>2, <3>3, <3>4 DEF ItemRows
      <3> QED BY <3>3, <3>5 DEF Open, Active
    <2>5. CASE <<m, n>> \notin taken /\ <<m, n>> \notin unmet
      <3>1. j = i
        BY <1>3, <1>4, <2>1, <2>5
      <3>2. i.status = "waiting" => i.task # t
        OBVIOUS
      <3>3. new[m][n] = i
        BY <2>2, <3>1, <3>2
      <3>4. i.status = "leased" => i.task # t
        BY <1>2, <2>5 DEF Open
      <3> QED BY <2>1, <3>3, <3>4
    <2> QED BY <2>3, <2>4, <2>5
  <1>7. Table(new) /\ \A m \in Members : Len(new[m]) = Len(items[m])
    <2>1. \A m \in Members : Len(its[m]) = Len(items[m]) /\ DOMAIN its[m] = 1..Len(items[m])
                               /\ DOMAIN items[m] = 1..Len(items[m])
      BY <1>1, <1>3, <1>4, RowAt
    <2>2. new = [m \in Members |-> [n \in DOMAIN items[m] |-> new[m][n]]]
      BY <1>5, <2>1
    <2>3. \A m \in Members : \A n \in 1..Len(items[m]) : new[m][n] \in ItemRows
      BY <1>6
    <2> QED BY <1>1, <2>2, <2>3, RowsChange
  <1>8. ASSUME NEW m \in Members
        PROVE  Lined(member[m].qual, new[m])
    <2>1. Lined(member[m].qual, items[m])
      BY DEF Queue, InLine
    <2> QED BY <1>6, <1>7, <2>1 DEF Lined
  <1> QED BY <1>6, <1>7, <1>8 DEF InLine, new

LEMMA CommitKeepsQueue ==
    ASSUME Fenced, Fenced', Queue, NEW w \in Workers, Commit(w)
    PROVE  Queue'
  <1> DEFINE t == sess[w].task
             plan == sess[w].plan
             view == sess[w].view
             waiters == Included(view) \ AssignedBy(plan)
             rev == IF plan # {} THEN scope.revision + 1 ELSE scope.revision
             p == [tasks[t].plan EXCEPT ![sess[w].gen] = "committed"]
             k == [tasks[t] EXCEPT !.status = "completed", !.plan = p]
  <1>1. /\ HoldsLease(w) /\ sess[w].pc = "proposed" /\ receiving' = receiving
        /\ sess' = [sess EXCEPT ![w] = Idle] /\ SameInputs(w)
        /\ items' = Decided(t, plan, waiters, rev)
        /\ member' = [m \in Members |-> IF m \in AssignedBy(plan)
                                        THEN [member[m] EXCEPT !.status = "allocated"]
                                        ELSE member[m]]
    BY DEF Commit
  <1>2. /\ t \in 1..Len(tasks) /\ tasks[t] \in TaskRows /\ tasks[t].status = "running"
        /\ tasks[t].gen = sess[w].gen
    BY <1>1, HolderRuns
  <1>3. tasks' = [tasks EXCEPT ![t] = k]
    BY DEF Commit
  <1>4. p \in [Generations -> PlanStatus]
    BY <1>2 DEF TaskRows, PlanStatus
  <1>5. scope'.revision = rev /\ rev \in Nat /\ scope.revision \in Nat
    BY DEF Commit, Released, Fenced, ScopeRow, Queue
  <1> HIDE DEF p
  <1>6. k \in TaskRows /\ k.mode = tasks[t].mode /\ k.members = tasks[t].members
          /\ k.status = "completed" /\ k.gen = tasks[t].gen
    BY <1>2, <1>4 DEF TaskRows, TaskStatus
  <1> HIDE DEF k
  <1>7. /\ AssignedBy(plan) = Placeable(view) /\ view = Snapshot(t)
        /\ \A m \in Members : \A n \in 1..Len(items[m]) :
              items[m][n].status = "leased" /\ items[m][n].task = t => m \in Included(view)
    BY <1>1, <1>2 DEF Queue, Covers, SameInputs
  <1>8. \A m \in Members : m \in AssignedBy(plan) => member[m].status = "pending_allocation"
    BY <1>7 DEF Placeable, Included, Snapshot, Qualified
  <1>9. \A m \in waiters : receiving \cap Wants[m] = {}
    <2>1. view.open = receiving
      BY <1>7 DEF Snapshot
    <2> QED BY <1>7, <2>1 DEF Placeable
  <1> DEFINE new == Decided(t, plan, waiters, rev)
  <1>10. /\ InLine(new) /\ \A m \in Members : Len(new[m]) = Len(items[m])
         /\ \A m \in Members : \A n \in 1..Len(items[m]) :
               /\ new[m][n].status = "leased" => new[m][n] = items[m][n] /\ new[m][n].task # t
               /\ new[m][n].status = "waiting" =>
                     \/ new[m][n] = items[m][n]
                     \/ m \in waiters /\ new[m][n].task = t /\ new[m][n].seen = rev
    <2>1. \A m \in Members : \A n \in 1..Len(items[m]) :
             /\ items[m][n].status = "leased" /\ items[m][n].task = t =>
                   m \in AssignedBy(plan) \/ m \in waiters
             /\ items[m][n].status = "waiting" => items[m][n].task # t
      BY <1>2, <1>7 DEF Queue, AllAware, Aware
    <2> HIDE DEF t, plan, waiters, rev
    <2> QED BY <1>5, <2>1, DecidedItems
  <1>11. items' = new
    BY <1>1
  <1>12. member \in [Members -> MemberRows]
    BY DEF Queue, Known
  <1> HIDE DEF new, waiters, rev
  <1>13. /\ member' \in [Members -> MemberRows]
         /\ \A m \in Members : /\ member'[m].qual = member[m].qual
                               /\ member'[m].status = "absent" <=> member[m].status = "absent"
                               /\ Qualified(m)' => Qualified(m)
    <2>1. ASSUME NEW m \in Members
          PROVE  /\ member'[m] \in MemberRows /\ member'[m].qual = member[m].qual
                 /\ member'[m].status = "absent" <=> member[m].status = "absent"
                 /\ Qualified(m)' => Qualified(m)
      <3>1. member[m] \in MemberRows
        BY <1>12
      <3>2. CASE m \in AssignedBy(plan)
        <4>1. member'[m] = [member[m] EXCEPT !.status = "allocated"]
          BY <1>1, <3>2
        <4> QED BY <1>8, <3>1, <3>2, <4>1 DEF MemberRows, MemberStatus, Qualified
      <3>3. CASE m \notin AssignedBy(plan)
        <4>1. member'[m] = member[m]
          BY <1>1, <3>3
        <4> QED BY <3>1, <4>1 DEF Qualified
      <3> QED BY <3>2, <3>3
    <2>2. member' = [m \in Members |-> member'[m]]
      BY <1>1
    <2> QED BY <2>1, <2>2
  <1>14. Onward
    <2>1. rev = scope.revision \/ scope.revision < rev
      BY <1>5 DEF rev
    <2> QED BY <1>1, <1>5, <1>13, <2>1 DEF Onward
  <1>15. /\ \A u \in 1..Len(tasks) : tasks[u].status = "completed" =>
                u \in 1..Len(tasks') /\ tasks'[u].status = "completed"
         /\ t \in 1..Len(tasks') /\ tasks'[t].status = "completed"
    BY <1>1, <1>3, <1>6, HolderTask DEF Advances
  <1>16. AllAware'
    <2> SUFFICES ASSUME NEW m \in Members, NEW n \in 1..Len(items'[m]),
                        items'[m][n].status = "waiting"
                 PROVE  (Aware(m, items[m][n]))'
      BY DEF AllAware, Aware
    <2>1. n \in 1..Len(items[m])
      BY <1>10, <1>11
    <2>2. CASE items'[m][n] = items[m][n]
      <3>1. Aware(m, items'[m][n])
        BY <2>1, <2>2 DEF Queue, AllAware
      <3> QED BY <1>14, <1>15, <3>1, AwareRow DEF Aware
    <2>3. CASE m \in waiters /\ items'[m][n].task = t /\ items'[m][n].seen = rev
      <3>1. receiving' \cap Wants[m] = {}
        BY <1>1, <1>9, <2>3
      <3> QED BY <1>5, <1>15, <2>3, <3>1, AwareNew DEF Aware
    <2> QED BY <1>10, <1>11, <2>1, <2>2, <2>3
  <1>17. /\ Before(items, items', "leased")
         /\ \A m \in Members : \A n \in 1..Len(items'[m]) :
               ~(items'[m][n].status = "leased" /\ items'[m][n].task = t)
    BY <1>10, <1>11 DEF Before
  <1>18. scope'.revision \in Nat /\ sess[w].pc # "idle"
    BY <1>1, <1>5
  <1>19. InLine(items') /\ \A m \in Members : Len(items'[m]) = Len(items[m])
    BY <1>10, <1>11
  <1> HIDE DEF t
  <1> QED BY <1>1, <1>3, <1>6, <1>13, <1>16, <1>17, <1>18, <1>19, EndKeepsQueue DEF t

-----------------------------------------------------------------------------
(* The queue is always in order.                                           *)

LEMMA QueueInit == Init => Queue
  <1> SUFFICES ASSUME Init PROVE Queue
    OBVIOUS
  <1>1. scope.revision = 1 /\ tasks = <<>> /\ Len(tasks) = 0
    BY DEF Init
  <1>2. \A m \in Members : items[m] = <<>> /\ Len(items[m]) = 0
    BY DEF Init
  <1>3. Table(items)
    BY DEF Init, Table
  <1>4. InLine(items) /\ AllOwned(items, tasks) /\ AllAware
    BY <1>2, <1>3 DEF InLine, Lined, AllOwned, AllAware
  <1>5. member \in [Members -> MemberRows] /\ \A m \in Members : member[m].status = "absent"
    BY DEF Init, MemberRows, MemberStatus
  <1>6. Known(member, items, tasks)
    BY <1>1, <1>2, <1>5 DEF Known
  <1>7. \A w \in Workers : sess[w].pc = "idle"
    BY DEF Init, Idle
  <1>8. \A w \in Workers : Current(sess[w], tasks) /\ Covers(sess[w], items, tasks)
    BY <1>7 DEF Current, Covers
  <1> QED BY <1>1, <1>4, <1>6, <1>8 DEF Queue

LEMMA NextKeepsQueue ==
    ASSUME Fenced, Fenced', Queue, [Next]_vars
    PROVE  Queue'
  <1>1. ASSUME NEW w \in Workers, Work(w)
        PROVE  Queue'
    BY <1>1, ClaimTaskKeepsQueue, ClaimNewKeepsQueue, ClaimNothingKeepsQueue,
       ProcessKeepsQueue, WalksKeepQueue, CommitKeepsQueue, SimulationKeepsQueue,
       FinishKeepsQueue
       DEF Work
  <1>2. CASE Failures
    BY <1>2, WalksKeepQueue, LapseKeepsQueue DEF Failures
  <1>3. CASE Users
    BY <1>3, AdmitKeepsQueue, ReviseKeepsQueue, EditsKeepQueue, CreationsKeepQueue,
       CancelKeepsQueue, PauseKeepsQueue
       DEF Users
  <1>4. CASE UNCHANGED vars
    <2>1. UNCHANGED <<scope, items, member, receiving, tasks, sess>>
      BY <1>4 DEF vars
    <2>2. Len(tasks) \in Nat
      BY TaskAt DEF Fenced
    <2> QED BY <2>1, <2>2, SameTasks, WalkKeepsQueue DEF Queue
  <1> QED BY <1>1, <1>2, <1>3, <1>4 DEF Next

LEMMA AlwaysQueued == Spec => [](Fenced /\ Queue)
  <1>1. Init => Fenced /\ Queue
    BY FencedInit, QueueInit
  <1>2. Fenced /\ Queue /\ [Next]_vars => (Fenced /\ Queue)'
    BY NextKeepsFenced, NextKeepsQueue
  <1> QED BY <1>1, <1>2, PTL DEF Spec

LEMMA ConsistentWhenQueued == Fenced /\ Queue => QueueIsConsistent
  <1> SUFFICES ASSUME Fenced, Queue, NEW m \in Members
               PROVE  /\ OneActiveItem(m)
                      /\ \A n \in DOMAIN items[m] : items[m][n].status = "leased" =>
                            /\ items[m][n].task \in DOMAIN tasks
                            /\ tasks[items[m][n].task].status = "running"
    BY DEF QueueIsConsistent
  <1>1. Lined(member[m].qual, items[m]) /\ DOMAIN items[m] = 1..Len(items[m])
          /\ DOMAIN tasks = 1..Len(tasks)
    BY RowAt, TaskAt DEF Fenced, Queue, InLine
  <1>2. OneActiveItem(m)
    BY <1>1 DEF Lined, OneActiveItem
  <1> QED BY <1>1, <1>2 DEF Queue, AllOwned, Owned

LEMMA WokenWhenQueued == Fenced /\ Queue => NoLostWakeUp
  <1> SUFFICES ASSUME Fenced, Queue, NEW m \in Members, NEW n \in DOMAIN items[m],
                      Qualified(m), items[m][n].status = "waiting",
                      items[m][n].seen >= scope.revision
               PROVE  receiving \cap Wants[m] = {}
    BY DEF NoLostWakeUp
  <1>1. n \in 1..Len(items[m])
    BY RowAt DEF Queue, InLine
  <1>2. Aware(m, items[m][n]) /\ scope.revision \in Nat
    BY <1>1 DEF Queue, AllAware
  <1> QED BY <1>2 DEF Aware

\* The newest item of a member whom the automatic queue takes was not cancelled.
LEMMA TakenWasOpen ==
    ASSUME Fenced, Queue, NEW w \in Workers, ClaimNew(w),
           NEW m \in tasks'[Len(tasks')].members
    PROVE  items[m][Len(items[m])].status # "cancelled"
  <1> DEFINE old == Reopened(items, Reclaimed)
             woken == Woken(old)
             ms == Awaiting(woken)
             k == NewTask("execute", ms)
             tks == Append(Reclaimed, k)
             t == Len(Reclaimed) + 1
             l == [tks[t] EXCEPT !.status = "running"]
  <1>1. tasks' = [tks EXCEPT ![t] = l]
    BY DEF ClaimNew, Start
  <1>2. ms \in SUBSET Members /\ "execute" \in Modes
    BY DEF Awaiting, Modes
  <1>3. GoodTasks(Reclaimed) /\ Len(Reclaimed) \in Nat
    BY Reopening, TaskAt
  <1> HIDE DEF ms
  <1>4. GoodTasks(tks) /\ Len(tks) = t /\ k \in TaskRows
    BY <1>2, <1>3, OneTaskMore DEF NewTask, TaskRows, TaskStatus, PlanStatus, Generations
  <1>5. tks[t] = k /\ t \in 1..Len(tks) /\ k.members = ms
    BY <1>3, <1>4, AppendProperties DEF GoodTasks, NewTask
  <1> HIDE DEF tks, t, k
  <1>6. l \in TaskRows /\ l.members = ms
    BY <1>4, <1>5 DEF TaskRows, TaskStatus
  <1> HIDE DEF l
  <1>7. Len(tasks') = t /\ tasks'[t] = l
    BY <1>1, <1>4, <1>5, <1>6, ExceptSeq DEF GoodTasks
  <1>8. m \in Awaiting(woken)
    BY <1>6, <1>7 DEF ms
  <1>9. PICK n \in DOMAIN woken[m] : woken[m][n].status = "pending"
    BY <1>8 DEF Awaiting
  <1>10. /\ m \in Members /\ InLine(old) /\ NoneLeased(old) /\ Before(items, old, "waiting")
         /\ Len(old[m]) = Len(items[m]) /\ Eases(items, old) /\ Len(items[m]) \in Nat
    BY <1>8, Reopening, ReopenedItems, RowAt DEF Awaiting, Fenced, Queue, InLine
  <1>11. InLine(woken) /\ Len(woken[m]) = Len(old[m])
    BY <1>10, WokenItems
  <1>12. n \in 1..Len(old[m])
    BY <1>9, <1>10, <1>11, RowAt DEF InLine
  <1>13. n = Len(items[m]) /\ old[m][n].status \in {"pending", "waiting"}
    BY <1>9, <1>10, <1>12, WokenItems
  <1>14. Open(items[m][n])
    BY <1>10, <1>12, <1>13 DEF Eases, Eased, Open
  <1> QED BY <1>13, <1>14 DEF Open

-----------------------------------------------------------------------------
(* The types.                                                              *)

Entries == [member : Members, demand : Demands, seq : Nat]

\* What a worker remembers of its snapshot and its plan.
Brought(x) == x.view \in Views /\ x.plan \subseteq Entries /\ x.code \in {"", "error", "stale"}

Typed ==
    /\ receiving \subseteq Demands /\ targets \subseteq Entries
    /\ \A w \in Workers : Brought(sess[w])
    /\ ops \in Nat /\ faults \in Nat

LEMMA TypedFrom ==
    ASSUME Fenced, Typed, receiving' \subseteq Demands, targets' \subseteq Entries,
           ops' \in {ops, ops + 1}, faults' \in {faults, faults + 1},
           \/ sess' = sess
           \/ \E w \in Workers : \E x : sess' = [sess EXCEPT ![w] = x] /\ Brought(x)
    PROVE  Typed'
  <1>1. \A w \in Workers : Brought(sess'[w])
    BY DEF Fenced, Typed
  <1>2. ops' \in Nat /\ faults' \in Nat
    BY DEF Typed
  <1> QED BY <1>1, <1>2 DEF Typed

LEMMA IdleBrought == Brought(Idle)
  BY DEF Brought, Idle, NoView, Views

\* A worker starts, stops, gives up or goes on with what it has.
LEMMA WorkerTyped ==
    ASSUME Fenced, Typed, NEW w \in Workers, UNCHANGED <<receiving, ops>>,
           targets' \subseteq Entries, faults' \in {faults, faults + 1},
           \/ sess' = [sess EXCEPT ![w] = Idle]
           \/ \E t, g : sess' = [sess EXCEPT ![w] = [Idle EXCEPT !.pc = "claimed", !.task = t,
                                                                !.gen = g]]
           \/ sess' = [sess EXCEPT ![w].pc = "proposed"]
           \/ \E code \in {"error", "stale"} :
                 sess' = [sess EXCEPT ![w].pc = "failing", ![w].code = code]
    PROVE  Typed'
  <1>1. \E x : sess' = [sess EXCEPT ![w] = x] /\ Brought(x)
    <2>1. CASE sess' = [sess EXCEPT ![w] = Idle]
      BY <2>1, IdleBrought
    <2>2. ASSUME NEW t, NEW g,
                 sess' = [sess EXCEPT ![w] = [Idle EXCEPT !.pc = "claimed", !.task = t, !.gen = g]]
          PROVE  \E x : sess' = [sess EXCEPT ![w] = x] /\ Brought(x)
      <3> DEFINE x == [Idle EXCEPT !.pc = "claimed", !.task = t, !.gen = g]
      <3>1. x.view = Idle.view /\ x.plan = Idle.plan /\ x.code = Idle.code
        BY DEF Idle
      <3> HIDE DEF x
      <3>2. Brought(x)
        BY <3>1, IdleBrought DEF Brought
      <3> QED BY <2>2, <3>2 DEF x
    <2>3. CASE sess' = [sess EXCEPT ![w].pc = "proposed"]
      <3> DEFINE x == [sess[w] EXCEPT !.pc = "proposed"]
      <3>1. /\ sess' = [sess EXCEPT ![w] = x] /\ x.view = sess[w].view
            /\ x.plan = sess[w].plan /\ x.code = sess[w].code
        BY <2>3 DEF Fenced, OnTask, Session
      <3> HIDE DEF x
      <3> QED BY <3>1 DEF Typed, Brought
    <2>4. ASSUME NEW code \in {"error", "stale"},
                 sess' = [sess EXCEPT ![w].pc = "failing", ![w].code = code]
          PROVE  \E x : sess' = [sess EXCEPT ![w] = x] /\ Brought(x)
      <3> DEFINE x == [sess[w] EXCEPT !.pc = "failing", !.code = code]
      <3>1. /\ sess' = [sess EXCEPT ![w] = x] /\ x.view = sess[w].view
            /\ x.plan = sess[w].plan /\ x.code = code
        BY <2>4 DEF Fenced, OnTask, Session
      <3> HIDE DEF x
      <3> QED BY <3>1 DEF Typed, Brought
    <2> QED BY <2>1, <2>2, <2>3, <2>4
  <1>2. receiving' \subseteq Demands /\ ops' \in {ops, ops + 1}
    BY DEF Typed
  <1> QED BY <1>1, <1>2, TypedFrom

LEMMA ProcessTyped ==
    ASSUME Fenced, Queue, Typed, scope.next \in Nat, NEW w \in Workers, Process(w)
    PROVE  Typed'
  <1> DEFINE t == sess[w].task
             view == Snapshot(t)
  <1>1. UNCHANGED <<receiving, targets, ops, faults>>
    BY DEF Process
  <1>2. targets' \subseteq Entries
    BY <1>1 DEF Typed
  <1>3. CASE Included(view) = {}
    <2>1. sess' = [sess EXCEPT ![w] = Idle]
      BY <1>3 DEF Process
    <2> QED BY <1>1, <1>2, <2>1, WorkerTyped
  <1>4. CASE Included(view) # {}
    <2>1. PICK plan, r :
             /\ plan \in PlansFor(view) /\ r \in {scope.revision, scope.revision + 1}
             /\ sess' = [sess EXCEPT ![w] = [@ EXCEPT !.pc = "computing", !.plan = plan,
                                                      !.view = [view EXCEPT !.revision = r]]]
      BY <1>4 DEF Process
    <2> DEFINE v == [view EXCEPT !.revision = r]
               x == [sess[w] EXCEPT !.pc = "computing", !.plan = plan, !.view = v]
    <2>2. view \in Views /\ r \in Nat /\ view.next \in Nat
      <3>1. \A m \in Members : member[m].qual \in Nat
        BY DEF Queue, Known, MemberRows
      <3> QED BY <2>1, <3>1 DEF Snapshot, Views, Queue, Typed
    <2>3. v \in Views
      BY <2>2 DEF Views
    <2>4. plan \subseteq Entries
      <3> HIDE DEF view
      <3>1. IsPlan(plan, view)
        BY <2>1, <2>2, PlansForArePlans
      <3> QED BY <3>1 DEF IsPlan, Entries
    <2> HIDE DEF v
    <2>5. sess' = [sess EXCEPT ![w] = x]
      BY <2>1 DEF Fenced, v
    <2>6. x.plan = plan /\ x.view = v /\ x.code = sess[w].code
      BY DEF Fenced, OnTask, Session
    <2> HIDE DEF x
    <2>7. Brought(x)
      BY <2>3, <2>4, <2>6 DEF Typed, Brought
    <2>8. receiving' \subseteq Demands /\ ops' \in {ops, ops + 1} /\ faults' \in {faults, faults + 1}
      BY <1>1 DEF Typed
    <2> QED BY <1>2, <2>5, <2>7, <2>8, TypedFrom
  <1> QED BY <1>3, <1>4

LEMMA WorkTyped ==
    ASSUME Fenced, Queue, Typed, scope.next \in Nat, NEW w \in Workers, Work(w)
    PROVE  Typed'
  <1>1. CASE ClaimTask(w) \/ ClaimNew(w)
    <2>1. /\ UNCHANGED <<receiving, targets, ops, faults>>
          /\ \E t, g : sess' = [sess EXCEPT ![w] = [Idle EXCEPT !.pc = "claimed", !.task = t,
                                                               !.gen = g]]
      BY <1>1 DEF ClaimTask, ClaimNew, Start
    <2> QED BY <2>1, WorkerTyped DEF Typed
  <1>2. CASE ClaimNothing(w)
    BY <1>2, TypedFrom DEF ClaimNothing, Typed
  <1>3. CASE Process(w)
    BY <1>3, ProcessTyped
  <1>4. CASE Propose(w) \/ LeaseLost(w) \/ SnapshotStale(w)
    <2>1. /\ UNCHANGED <<receiving, targets, ops, faults>>
          /\ \/ sess' = [sess EXCEPT ![w] = Idle]
             \/ sess' = [sess EXCEPT ![w].pc = "proposed"]
             \/ \E code \in {"error", "stale"} :
                   sess' = [sess EXCEPT ![w].pc = "failing", ![w].code = code]
      BY <1>4 DEF Propose, Goto, LeaseLost, SnapshotStale
    <2> QED BY <2>1, WorkerTyped DEF Typed
  <1>5. CASE CommitSimulation(w) \/ Finish(w)
    <2>1. UNCHANGED <<receiving, targets, ops, faults>> /\ sess' = [sess EXCEPT ![w] = Idle]
      BY <1>5 DEF CommitSimulation, Finish
    <2> QED BY <2>1, WorkerTyped DEF Typed
  <1>6. CASE Commit(w)
    <2>1. /\ UNCHANGED <<receiving, ops, faults>> /\ sess' = [sess EXCEPT ![w] = Idle]
          /\ targets' = targets \cup sess[w].plan
      BY <1>6 DEF Commit
    <2>2. targets' \subseteq Entries
      BY <2>1 DEF Typed, Brought
    <2> QED BY <2>1, <2>2, WorkerTyped
  <1> QED BY <1>1, <1>2, <1>3, <1>4, <1>5, <1>6 DEF Work

LEMMA NextTyped ==
    ASSUME Fenced, Queue, Typed, scope.next \in Nat, [Next]_vars
    PROVE  Typed'
  <1>1. ASSUME NEW w \in Workers, Work(w)
        PROVE  Typed'
    BY <1>1, WorkTyped
  <1>2. CASE Failures
    <2>1. ASSUME NEW w \in Workers,
                 KernelFails(w) \/ Crash(w) \/ \E code \in {"error", "stale"} :
                                                  TransactionFails(w, code)
          PROVE  Typed'
      <3>1. /\ UNCHANGED <<receiving, targets, ops>> /\ faults' = faults + 1
            /\ \/ sess' = [sess EXCEPT ![w] = Idle]
               \/ \E code \in {"error", "stale"} :
                     sess' = [sess EXCEPT ![w].pc = "failing", ![w].code = code]
        BY <2>1 DEF KernelFails, Crash, TransactionFails, Fault
      <3> QED BY <3>1, WorkerTyped DEF Typed
    <2>2. CASE LeaseLapses
      BY <2>2, TypedFrom DEF LeaseLapses, Fault, Typed
    <2> QED BY <1>2, <2>1, <2>2 DEF Failures
  <1>3. CASE Users
    <2>1. /\ UNCHANGED <<targets, sess, faults>> /\ ops' \in {ops, ops + 1}
          /\ receiving' \subseteq Demands
      <3>1. ASSUME NEW m \in Members,
                   \/ Admit(m) \/ ReviseTags(m) \/ EditCandidate(m)
                   \/ SourceBreaks(m) \/ CloseMember(m) \/ AllocateOne(m)
            PROVE  UNCHANGED <<targets, sess, faults, receiving>> /\ ops' \in {ops, ops + 1}
        BY <3>1 DEF Admit, ReviseTags, EditCandidate, SourceBreaks, CloseMember, AllocateOne, Op
      <3>2. ASSUME NEW d \in Demands, SetReception(d)
            PROVE  /\ UNCHANGED <<targets, sess, faults>> /\ ops' \in {ops, ops + 1}
                   /\ receiving' \subseteq Demands
        BY <3>2 DEF SetReception, Op, Typed
      <3>3. ASSUME \/ \E mode \in Modes, ms \in SUBSET Members : CreateTask(mode, ms)
                   \/ \E t \in DOMAIN tasks : RetryTask(t) \/ CancelTask(t)
                   \/ \E b \in BOOLEAN : SetPaused(b)
            PROVE  UNCHANGED <<targets, sess, faults, receiving>> /\ ops' \in {ops, ops + 1}
        BY <3>3 DEF CreateTask, RetryTask, CancelTask, SetPaused, Op
      <3> QED BY <1>3, <3>1, <3>2, <3>3 DEF Users, Typed
    <2> QED BY <2>1, TypedFrom DEF Typed
  <1>4. CASE UNCHANGED vars
    BY <1>4, TypedFrom DEF vars, Typed
  <1> QED BY <1>1, <1>2, <1>3, <1>4 DEF Next

LEMMA TypedInit == Init => Typed
  <1> SUFFICES ASSUME Init PROVE Typed
    OBVIOUS
  <1>1. \A w \in Workers : Brought(sess[w])
    BY IdleBrought DEF Init
  <1> QED BY <1>1 DEF Init, Typed

LEMMA AlwaysTyped == Spec => []Typed
  <1>1. Fenced /\ Queue /\ Typed /\ LedgerInv /\ [Next]_vars => Typed'
    BY NextTyped DEF LedgerInv
  <1> QED BY <1>1, TypedInit, AlwaysQueued, AlwaysSound, PTL DEF Spec

LEMMA TypeOKWhenTyped == Fenced /\ Queue /\ LedgerInv /\ Typed => TypeOK
  <1> SUFFICES ASSUME Fenced, Queue, LedgerInv, Typed PROVE TypeOK
    OBVIOUS
  <1>1. scope \in [lease : Nat \X Nat, live : BOOLEAN, paused : BOOLEAN,
                   revision : Nat, next : Nat]
    BY DEF Fenced, ScopeRow, Queue, LedgerInv
  <1>2. tasks \in Seq([mode : Modes, members : SUBSET Members, status : TaskStatus,
                       gen : Nat, plan : [Generations -> PlanStatus]])
    BY DEF Fenced, GoodTasks, TaskRows
  <1>3. items \in [Members -> Seq([qual : Nat, task : Nat, status : ItemStatus, seen : Nat])]
    BY DEF Queue, InLine, Table, ItemRows
  <1>4. member \in [Members -> [status : MemberStatus, qual : Nat, valid : BOOLEAN]]
    BY DEF Queue, Known, MemberRows
  <1>5. sess \in [Workers -> [pc : {"idle", "claimed", "computing", "proposed", "failing"},
                              task : Nat, gen : Nat, view : Views,
                              plan : SUBSET [member : Members, demand : Demands, seq : Nat],
                              code : {"", "error", "stale"}]]
    BY DEF Fenced, OnTask, Session, Pcs, Typed, Brought, Entries
  <1> QED BY <1>1, <1>2, <1>3, <1>4, <1>5 DEF Typed, Entries, TypeOK

-----------------------------------------------------------------------------

(* Every row and every worker's memory is of its type, the plans and the      *)
(* snapshots included (allocation_tasks.go, allocation_execute.go).           *)
THEOREM AllocationTypes == Spec => []TypeOK
  BY AlwaysQueued, AlwaysSound, AlwaysTyped, TypeOKWhenTyped, PTL

(* No update of the queue makes two active items of one qualification, and    *)
(* none is left leased by a task that no longer runs (claimAllocation,        *)
(* commitAllocation, finishAllocationFailure, cancelling and pausing).        *)
THEOREM QueueStaysConsistent == Spec => []QueueIsConsistent
  BY AlwaysQueued, ConsistentWhenQueued, PTL

(* Who waits and will not be looked at before the next change has nothing to  *)
(* wait for: the revision a commit notes is one the snapshot was compared     *)
(* with (commitAllocation, the wake-up of claimAllocation).                   *)
THEOREM NobodyWaitsUnseen == Spec => []NoLostWakeUp
  BY AlwaysQueued, WokenWhenQueued, PTL

(* The automatic queue takes nobody whose newest item a user cancelled, for   *)
(* older items are never active again (claimAllocation).                      *)
THEOREM CancelledStayOut == Spec => CancelIsNotUndone
  <1>1. Fenced /\ Queue /\ [Next]_vars =>
           [\A w \in Workers : ClaimNew(w) =>
              \A m \in tasks'[Len(tasks')].members :
                 items[m][Len(items[m])].status # "cancelled"]_vars
    BY TakenWasOpen
  <1> QED BY <1>1, AlwaysQueued, PTL DEF Spec, CancelIsNotUndone

=============================================================================
