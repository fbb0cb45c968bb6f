----------------------- MODULE ContentReplacementProofs -----------------------
(***************************************************************************)
(* The safety of content replacement, for every number of edits, retries   *)
(* and faults.  The inductive invariant says which rows can exist: a closed *)
(* entry has lost one of its two rows, two entries for the same old row    *)
(* never both have a new row, and unless a row was edited too early all    *)
(* rows that exist belong to the single open entry.                        *)
(***************************************************************************)
EXTENDS ContentReplacement, TLAPS

Used(k)   == op[k].status # "none"
Closed(k) == Used(k) /\ ~Open(k)

\* Entry k creates row k + 1 out of an earlier row.
Shape ==
  /\ row[1].prev = 0
  /\ \A k \in Ops :
       /\ Used(k) => op[k].old \in 1..k /\ op[k].new \in {0, k + 1}
       /\ ~Used(k) => ~Exists(k + 1)
       /\ Exists(k + 1) => row[k + 1].prev = op[k].old
       /\ \A j \in Ops : j < k /\ Used(k) => Used(j)

\* Of two entries for one old row, only the open one can have its new row.
SameOld == \A j, k \in Ops :
  Open(k) /\ Used(j) /\ j # k /\ op[j].old = op[k].old => ~Open(j) /\ ~Exists(j + 1)

\* A closed entry has lost its old or its new row.
ClosedLost == \A k \in Ops : Closed(k) => ~Exists(op[k].old) \/ ~Exists(k + 1)

\* Unless a row was edited too early there is one open entry and its rows are the only
\* ones; none of them is dead.
Solo == chained = "no" =>
  /\ \A j, k \in Ops : Open(j) /\ Open(k) => j = k
  /\ \A k \in Ops, i \in Ids : Open(k) /\ Exists(i) => i = op[k].old \/ i = k + 1
  /\ (\A k \in Ops : ~Open(k)) => \A i, j \in Ids : Exists(i) /\ Exists(j) => i = j
  /\ \A k \in Ops : Open(k) => op[k].shown # "dead"
  /\ \A i \in Ids : row[i].state # "dead"

Ledger == Shape /\ SameOld /\ ClosedLost /\ HiddenIsLedgered /\ Solo /\ NeverLost
          /\ OneRecallable

\* The running edit or repair works on the rows of its open entry.
TaskOK ==
  /\ phase = "down" => task = Idle
  /\ todo # {} => phase = "repair"
  /\ \A k \in todo : Open(k)
  /\ task # Idle =>
       /\ task.op \in Ops /\ Open(task.op) /\ task.old = op[task.op].old
       /\ phase = "up" => task.step \in EditSteps /\ task.new = task.op + 1
       /\ phase = "repair" =>
            /\ task.step \in RepairSteps /\ task.op \in todo
            /\ task.new = task.op + 1 \/ (task.new = 0 /\ ~Exists(task.op + 1))

\* What the steps that are already done have established.
OldGivenUp == ~Live(task.old) /\ row[task.old].state # "dead" /\ ~Hidden(task.op + 1)
NewGivenUp == ~Live(task.op + 1) /\ row[task.op + 1].state # "dead" /\ ~Hidden(task.old)
StepOK ==
  /\ task.step = "stage" => ~Exists(task.op + 1) /\ \A j \in Ops : Used(j) => j <= task.op
  /\ task.step \in {"delete_old", "purge_old"} => OldGivenUp
  /\ task.step = "restore_old" => ~Live(task.old)
  /\ task.step \in {"delete_new", "purge_new", "purge_gone"} => NewGivenUp
  /\ task.step \in {"revert", "purge_gone"} => ~Exists(task.op + 1)
  /\ task.step \in {"commit", "purge_old"} => task.new = task.op + 1
  /\ task.step \in {"rollback", "purge_new"} => task.new = task.op + 1

\* Without a fault an entry the start has selected is open only until its visit, and the
\* ones it has not selected are newer.
Unvisited == \A k \in picked : Open(k) => k \in todo
InOrder   == \A k \in Ops : Selectable(k) /\ k \notin todo => \A j \in picked : j < k
Selected ==
  /\ since <= faults
  /\ phase = "repair" /\ faults = since => Unvisited /\ InOrder

IInv == TypeOK /\ Ledger /\ TaskOK /\ StepOK /\ Selected

-----------------------------------------------------------------------------
(***************************************************************************)
(* What a step does to the ledger and to the rows.                         *)
(***************************************************************************)

SameEntry(j) ==
  /\ Used(j)' <=> Used(j)
  /\ op'[j].old = op[j].old /\ op'[j].shown = op[j].shown
  /\ op'[j].new \in {op[j].new, j + 1}
OpsKept == \A j \in Ops : SameEntry(j) /\ (Open(j)' <=> Open(j))
OpsClosed(k) == \A j \in Ops : SameEntry(j) /\ (Open(j)' <=> Open(j) /\ j # k)

\* A row that is not deleted may become an orphan.
RowsKept == \A i \in Ids :
  /\ row'[i].prev = row[i].prev
  /\ row'[i].state = row[i].state \/ (Live(i) /\ Live(i)')
RowGone(x) == \A i \in Ids :
  /\ row'[i].prev = row[i].prev
  /\ row'[i].state = IF i = x THEN "absent" ELSE row[i].state
\* The rows of entry k after a switch to w.
RowsSwitched(k, w) == \A i \in Ids :
  /\ row'[i].prev = row[i].prev
  /\ (i # op[k].old /\ i # k + 1) \/ ~Exists(i) => row'[i].state = row[i].state
  /\ (i = op[k].old \/ i = k + 1) /\ Exists(i) /\ i # w => row'[i].state = "hidden"
  /\ i = w => row'[i].state = IF Hidden(i) THEN op[k].shown ELSE row[i].state

\* The arithmetic of entries and rows.
LEMMA Ids1 == /\ 1 \in Ids /\ Ids \subseteq Nat /\ Ops \subseteq Nat
              /\ \A k \in Ops : k + 1 \in Ids /\ k \in Ids /\ k + 1 # 1 /\ k >= 1
              /\ \A k \in Ops : \A i \in 1..k : i \in Ids /\ i # k + 1
              /\ \A i \in Ids : i = 1 \/ \E k \in Ops : i = k + 1
              /\ \A j, k \in Ops : j + 1 = k + 1 => j = k
<1>1. MaxEdits \in Nat
  BY ReplacementAssumption
<1>2. \A i \in Ids : i = 1 \/ (i - 1 \in Ops /\ i = (i - 1) + 1)
  BY <1>1 DEF Ids, Ops
<1> QED
  BY <1>1, <1>2 DEF Ids, Ops

\* Advancing an open entry changes its status and may record its new row.
LEMMA AdvancedKeeps ==
  ASSUME op \in [Ops -> Op], NEW k \in Ops, Open(k), NEW n \in {0, k + 1},
         NEW e \in {0, 1}, NEW s \in {"pending", "needs_repair"},
         op' = Advanced(k, s, n, e)
  PROVE  OpsKept /\ op' \in [Ops -> Op]
<1>1. k + 1 \in Ids
  BY Ids1
<1>2. op' \in [Ops -> Op]
  <2> DEFINE entry == [op[k] EXCEPT !.status = s, !.new = IF n = 0 THEN @ ELSE n,
                                    !.retry = @ + e]
  <2>1. op[k] \in Op
    OBVIOUS
  <2>2. op[k].retry + e \in Nat /\ n \in {0} \cup Ids
    BY <1>1, <2>1 DEF Op
  <2>3. entry \in Op
    BY <2>1, <2>2 DEF Op
  <2>4. op' = [op EXCEPT ![k] = entry]
    BY DEF Advanced
  <2> QED
    BY <2>3, <2>4
<1>3. ASSUME NEW j \in Ops PROVE SameEntry(j) /\ (Open(j)' <=> Open(j))
  BY <1>3 DEF Advanced, Op, SameEntry, Used, Open
<1> QED
  BY <1>2, <1>3 DEF OpsKept

\* Advancing an open operation closes it and keeps the journal typed.
LEMMA AdvancedCloses ==
  ASSUME op \in [Ops -> Op], NEW k \in Ops, Open(k), NEW n \in {0, k + 1},
         NEW e \in {0, 1}, NEW s \in {"completed", "failed"},
         op' = Advanced(k, s, n, e)
  PROVE  OpsClosed(k) /\ op' \in [Ops -> Op]
<1>1. k + 1 \in Ids
  BY Ids1
<1>2. op' \in [Ops -> Op]
  <2> DEFINE entry == [op[k] EXCEPT !.status = s, !.new = IF n = 0 THEN @ ELSE n,
                                    !.retry = @ + e]
  <2>1. op[k] \in Op
    OBVIOUS
  <2>2. op[k].retry + e \in Nat /\ n \in {0} \cup Ids
    BY <1>1, <2>1 DEF Op
  <2>3. entry \in Op
    BY <2>1, <2>2 DEF Op
  <2>4. op' = [op EXCEPT ![k] = entry]
    BY DEF Advanced
  <2> QED
    BY <2>3, <2>4
<1>3. ASSUME NEW j \in Ops PROVE SameEntry(j) /\ (Open(j)' <=> Open(j) /\ j # k)
  BY <1>3 DEF Advanced, Op, SameEntry, Used, Open
<1> QED
  BY <1>2, <1>3 DEF OpsClosed

\* An untouched journal keeps every operation.
LEMMA OpsUnchanged ==
  ASSUME op' = op PROVE OpsKept
BY DEF OpsKept, SameEntry, Used, Open

\* An advance whose write may be lost.
LEMMA AdvanceKeeps ==
  ASSUME op \in [Ops -> Op], NEW k \in Ops, Open(k), NEW n \in {0, k + 1},
         NEW e \in {0, 1}, NEW s \in {"pending", "needs_repair"},
         Advance(k, s, n, e) \/ AdvanceAfterFault(k, s, n, e)
  PROVE  OpsKept /\ op' \in [Ops -> Op]
<1>1. CASE op' = Advanced(k, s, n, e)
  BY <1>1, AdvancedKeeps
<1>2. CASE op' = op
  BY <1>2, OpsUnchanged
<1> QED
  BY <1>1, <1>2 DEF Advance, AdvanceAfterFault

\* A call that advances an operation closes it or, when it fails, leaves the journal.
LEMMA AdvanceCloses ==
  ASSUME op \in [Ops -> Op], NEW k \in Ops, Open(k), NEW n \in {0, k + 1},
         NEW e \in {0, 1}, NEW s \in {"completed", "failed"},
         Advance(k, s, n, e)
  PROVE  (OpsKept \/ OpsClosed(k)) /\ op' \in [Ops -> Op]
<1>1. CASE op' = Advanced(k, s, n, e)
  BY <1>1, AdvancedCloses
<1>2. CASE op' = op
  BY <1>2, OpsUnchanged
<1> QED
  BY <1>1, <1>2 DEF Advance

-----------------------------------------------------------------------------
(***************************************************************************)
(* The invariant of the rows and the ledger under each of these effects.   *)
(***************************************************************************)

\* Neither rows nor entries change in a way the invariant sees.
LEMMA QuietKeepsLedger ==
  ASSUME TypeOK, Ledger, RowsKept, OpsKept, chained' = chained, forgotten' = forgotten
  PROVE  Ledger'
<1>a. \A i \in Ids : /\ (Hidden(i)' <=> Hidden(i)) /\ (Exists(i)' <=> Exists(i))
                     /\ Live(i)' <=> Live(i)
                     /\ (row[i].state)' = "dead" => row[i].state = "dead"
  BY DEF RowsKept, Hidden, Exists, Live, Recallable, Orphan
<1> USE Ids1
<1>1. Shape'
  BY <1>a DEF Ledger, Shape, RowsKept, OpsKept, SameEntry, Used
<1>2. SameOld' /\ ClosedLost'
  <2>1. \A k \in Ops : Used(k) => op[k].old \in Ids
    BY DEF Ledger, Shape
  <2>2. \A i \in Ids : Exists(i)' => Exists(i)
    BY <1>a
  <2>3. SameOld'
    <3>1. \A j \in Ops : Exists(j + 1)' => Exists(j + 1)
      BY <2>2
    <3>2. \A j \in Ops : /\ (Open(j)' <=> Open(j)) /\ (Used(j)' <=> Used(j))
                        /\ op'[j].old = op[j].old
      BY DEF OpsKept, SameEntry
    <3> HIDE Ids1
    <3> QED
      BY <3>1, <3>2 DEF Ledger, SameOld
  <2>4. ClosedLost'
    BY <2>1, <2>2 DEF Ledger, ClosedLost, Closed, OpsKept, SameEntry
  <2> QED
    BY <2>3, <2>4
<1> HIDE Ids1
<1>b. \A j \in Ops : (Open(j)' <=> Open(j)) /\ op'[j].old = op[j].old
                     /\ op'[j].shown = op[j].shown
  BY DEF OpsKept, SameEntry
<1>3. HiddenIsLedgered'
  BY <1>a, <1>b DEF Ledger, HiddenIsLedgered
<1>4. Solo'
  BY <1>a, <1>b DEF Ledger, Solo
<1>5. NeverLost' /\ OneRecallable'
  BY <1>a DEF Ledger, NeverLost, OneRecallable, Live
<1> QED
  BY <1>1, <1>2, <1>3, <1>4, <1>5 DEF Ledger

\* A row disappears and no entry closes.
LEMMA GoneKeepsLedger ==
  ASSUME TypeOK, Ledger, NEW x, RowGone(x), OpsKept, chained' = chained,
         Live(x) => forgotten' = "yes", forgotten' = "no" => forgotten = "no"
  PROVE  Ledger'
<1> USE Ids1
<1>1. Shape'
  <2>1. \A i \in Ids : row'[i].prev = row[i].prev /\ (Exists(i)' => Exists(i))
    BY DEF RowGone, Exists
  <2>2. \A j \in Ops : /\ (Used(j)' <=> Used(j)) /\ op'[j].old = op[j].old
                      /\ op'[j].new \in {op[j].new, j + 1}
    BY DEF OpsKept, SameEntry
  <2> QED
    BY <2>1, <2>2 DEF Ledger, Shape
<1>2. SameOld' /\ ClosedLost'
  <2>1. \A k \in Ops : Used(k) => op[k].old \in Ids
    BY DEF Ledger, Shape
  <2>2. \A i \in Ids : Exists(i)' => Exists(i)
    BY DEF RowGone, Exists
  <2>3. SameOld'
    <3>1. \A j \in Ops : Exists(j + 1)' => Exists(j + 1)
      BY <2>2
    <3>2. \A j \in Ops : /\ (Open(j)' <=> Open(j)) /\ (Used(j)' <=> Used(j))
                        /\ op'[j].old = op[j].old
      BY DEF OpsKept, SameEntry
    <3> HIDE Ids1
    <3> QED
      BY <3>1, <3>2 DEF Ledger, SameOld
  <2>4. ClosedLost'
    BY <2>1, <2>2 DEF Ledger, ClosedLost, Closed, OpsKept, SameEntry
  <2> QED
    BY <2>3, <2>4
<1> HIDE Ids1
<1>a. \A i \in Ids : /\ (Hidden(i)' => Hidden(i)) /\ (Exists(i)' => Exists(i))
                     /\ (Live(i)' => Live(i)) /\ (Live(i) /\ i # x => Live(i)')
                     /\ ((row[i].state)' = "dead" => row[i].state = "dead")
  BY DEF RowGone, Hidden, Exists, Live, Recallable, Orphan
<1>b. \A j \in Ops : (Open(j)' <=> Open(j)) /\ op'[j].old = op[j].old
                     /\ op'[j].shown = op[j].shown
  BY DEF OpsKept, SameEntry
<1>3. HiddenIsLedgered'
  <2> SUFFICES ASSUME NEW i \in Ids, Hidden(i)'
               PROVE  \E k \in Ops : Open(k)' /\ (op'[k].old = i \/ i = k + 1)
    BY DEF HiddenIsLedgered
  <2>1. PICK k \in Ops : Open(k) /\ (op[k].old = i \/ i = k + 1)
    BY <1>a DEF Ledger, HiddenIsLedgered
  <2> QED
    BY <1>b, <2>1
<1>4. Solo'
  <2> SUFFICES ASSUME chained = "no" PROVE Solo'
    BY DEF Solo
  <2>1. Solo
    BY DEF Ledger
  <2>2. \A j, k \in Ops : Open(j)' /\ Open(k)' => j = k
    BY <1>b, <2>1 DEF Solo
  <2>3. \A k \in Ops, i \in Ids : Open(k)' /\ Exists(i)' => i = op'[k].old \/ i = k + 1
    BY <1>a, <1>b, <2>1 DEF Solo
  <2>4. (\A k \in Ops : ~Open(k)') => \A i, j \in Ids : Exists(i)' /\ Exists(j)' => i = j
    BY <1>a, <1>b, <2>1 DEF Solo
  <2>5. /\ \A k \in Ops : Open(k)' => op'[k].shown # "dead"
        /\ \A i \in Ids : (row[i].state)' # "dead"
    BY <1>a, <1>b, <2>1 DEF Solo
  <2> QED
    BY <2>2, <2>3, <2>4, <2>5 DEF Solo
<1>5. NeverLost' /\ OneRecallable'
  <2>1. OneRecallable'
    BY <1>a DEF Ledger, OneRecallable
  <2>2. NeverLost'
    <3> SUFFICES ASSUME forgotten' = "no", chained' = "no" PROVE \E i \in Ids : Live(i)'
      BY DEF NeverLost, Live
    <3>1. PICK i \in Ids : Live(i)
      BY DEF Ledger, NeverLost, Live
    <3> QED
      BY <1>a, <3>1
  <2> QED
    BY <2>1, <2>2
<1> QED
  BY <1>1, <1>2, <1>3, <1>4, <1>5 DEF Ledger

\* The rows of an open entry are switched to one that exists.
LEMMA SwitchKeepsLedger ==
  ASSUME TypeOK, Ledger, NEW k \in Ops, Open(k), NEW w \in {op[k].old, k + 1},
         Exists(w), RowsSwitched(k, w), OpsKept, chained' = chained,
         forgotten' = forgotten
  PROVE  Ledger'
<1> USE Ids1
<1>0. Used(k) /\ op[k].old \in Ids /\ op[k].shown \in {"live", "orphan", "dead"} /\ w \in Ids
  BY DEF TypeOK, Op, Ledger, Shape, Used, Open
<1>a. \A i \in Ids : Exists(i)' <=> Exists(i)
  BY <1>0 DEF RowsSwitched, Exists, Hidden
<1>1. Shape'
  BY <1>a DEF Ledger, Shape, RowsSwitched, OpsKept, SameEntry, Used
<1>2. SameOld' /\ ClosedLost'
  <2>1. \A j \in Ops : Used(j) => op[j].old \in Ids
    BY DEF Ledger, Shape
  <2> QED
    BY <1>a, <2>1 DEF Ledger, SameOld, ClosedLost, Closed, OpsKept, SameEntry, Used, Open
<1>3. HiddenIsLedgered'
  <2> SUFFICES ASSUME NEW i \in Ids, Hidden(i)'
               PROVE  \E j \in Ops : Open(j)' /\ ((op[j].old)' = i \/ i = j + 1)
    BY DEF HiddenIsLedgered
  <2>1. Open(k)' /\ (op[k].old)' = op[k].old
    BY DEF OpsKept, SameEntry
  <2>2. CASE i = op[k].old \/ i = k + 1
    BY <2>1, <2>2
  <2>3. CASE i # op[k].old /\ i # k + 1
    BY <2>3 DEF RowsSwitched, Hidden, Ledger, HiddenIsLedgered, OpsKept, SameEntry
  <2> QED
    BY <2>2, <2>3
<1>4. chained = "no" => /\ \A i \in Ids : row'[i].state # "dead"
                       /\ Live(w)' /\ \A i \in Ids : Live(i)' => i = w
  <2> SUFFICES ASSUME chained = "no" PROVE
        /\ \A i \in Ids : row'[i].state # "dead"
        /\ Live(w)' /\ \A i \in Ids : Live(i)' => i = w
    OBVIOUS
  <2>1. op[k].shown # "dead" /\ \A i \in Ids : row[i].state # "dead"
    BY DEF Ledger, Solo
  <2>2. \A i \in Ids : Exists(i) => i = op[k].old \/ i = k + 1
    BY DEF Ledger, Solo
  <2>3. row[w].state \in {"live", "orphan", "hidden"}
    BY <1>0, <2>1 DEF TypeOK, Row, Exists
  <2>4. Live(w)'
    BY <1>0, <2>1, <2>3 DEF RowsSwitched, Live, Recallable, Orphan, Hidden
  <2>5. ASSUME NEW i \in Ids, i # w PROVE row'[i].state \in {"absent", "hidden"}
    BY <1>0, <2>2, <2>5 DEF RowsSwitched, Exists
  <2> QED
    BY <1>0, <2>4, <2>5 DEF Live, Recallable, Orphan
<1>5. Solo'
  BY <1>a, <1>4 DEF Ledger, Solo, OpsKept, SameEntry
<1>6. NeverLost' /\ OneRecallable'
  BY <1>0, <1>4 DEF NeverLost, Live, OneRecallable
<1> QED
  BY <1>1, <1>2, <1>3, <1>5, <1>6 DEF Ledger

\* An entry closes: one of its rows is gone, the other one is not hidden.
LEMMA CloseKeepsLedger ==
  ASSUME TypeOK, Ledger, NEW k \in Ops, Open(k), OpsClosed(k),
         ~Hidden(op[k].old)', ~Hidden(k + 1)',
         ~Exists(op[k].old)' \/ ~Exists(k + 1)',
         RowsKept \/ \E x \in Ids : RowGone(x) /\ ~Live(x),
         chained' = chained, forgotten' = forgotten
  PROVE  Ledger'
<1> USE Ids1
<1>0. Used(k) /\ op[k].old \in Ids /\ (op[k].old)' = op[k].old
  BY DEF Ledger, Shape, Used, Open, OpsClosed, SameEntry
<1>a. /\ \A i \in Ids : Exists(i)' => Exists(i)
      /\ \A i \in Ids : Hidden(i)' => Hidden(i)
      /\ \A i \in Ids : Live(i)' <=> Live(i)
      /\ \A i \in Ids : row'[i].prev = row[i].prev
      /\ \A i \in Ids : row[i].state # "dead" => row'[i].state # "dead"
  BY DEF RowsKept, RowGone, Exists, Hidden, Live, Recallable, Orphan
<1>1. Shape'
  BY <1>a DEF Ledger, Shape, OpsClosed, SameEntry, Used
<1>2. SameOld' /\ ClosedLost'
  <2>1. \A j \in Ops : Used(j) => op[j].old \in Ids
    BY DEF Ledger, Shape
  <2>2. SameOld'
    BY <1>a DEF Ledger, SameOld, OpsClosed, SameEntry
  <2>3. ASSUME NEW j \in Ops, Closed(j)' PROVE ~Exists(op[j].old)' \/ ~Exists(j + 1)'
    <3>1. CASE j = k
      BY <3>1
    <3>2. CASE j # k
      <4>1. Closed(j) /\ (op[j].old)' = op[j].old
        BY <2>3, <3>2 DEF Closed, OpsClosed, SameEntry
      <4>2. ~Exists(op[j].old) \/ ~Exists(j + 1)
        BY <4>1 DEF Ledger, ClosedLost
      <4> QED
        BY <1>a, <2>1, <4>1, <4>2 DEF Closed, Exists
    <3> QED
      BY <3>1, <3>2
  <2> QED
    BY <2>2, <2>3 DEF ClosedLost
<1>3. HiddenIsLedgered'
  <2> SUFFICES ASSUME NEW i \in Ids, Hidden(i)'
               PROVE  \E j \in Ops : Open(j)' /\ ((op[j].old)' = i \/ i = j + 1)
    BY DEF HiddenIsLedgered
  <2>1. PICK j \in Ops : Open(j) /\ (op[j].old = i \/ i = j + 1)
    BY <1>a DEF Ledger, HiddenIsLedgered
  <2>2. j # k
    BY <1>0, <2>1 DEF Hidden
  <2> QED
    BY <2>1, <2>2 DEF OpsClosed, SameEntry
<1>4. Solo'
  <2> SUFFICES ASSUME chained = "no" PROVE Solo'
    BY DEF Solo
  <2>1. \A j \in Ops : ~Open(j)'
    BY DEF Ledger, Solo, OpsClosed
  <2>2. \A i, j \in Ids : Exists(i)' /\ Exists(j)' => i = j
    BY <1>0, <1>a DEF Ledger, Solo, Exists
  <2> QED
    BY <1>a, <2>1, <2>2 DEF Solo, Ledger
<1>5. NeverLost' /\ OneRecallable'
  BY <1>a DEF Ledger, NeverLost, Live, OneRecallable
<1> QED
  BY <1>1, <1>2, <1>3, <1>4, <1>5 DEF Ledger

\* A new entry for a row that no open entry replaces.
LEMMA StartKeepsLedger ==
  ASSUME TypeOK, Ledger, NEW text \in Texts, NEW k \in Ops, StartEdit(text, k)
  PROVE  Ledger'
<1> USE Ids1
<1> DEFINE m == waiting
<1>1. m \in Ids /\ Exists(m) /\ ~Used(k) /\ MayReplace(m)
  BY DEF StartEdit, TypeOK, MayReplace, NextOp, Used
<1>2. /\ op'[k].status = "pending" /\ op'[k].old = m /\ op'[k].new = 0
      /\ op'[k].shown = IF Live(m) THEN row[m].state ELSE "dead"
      /\ \A j \in Ops : j # k => op'[j] = op[j]
  BY DEF StartEdit, TypeOK
<1>3. row' = row /\ forgotten' = forgotten
  BY DEF StartEdit
<1>4. \A j \in Ops : j # k => (Used(j)' <=> Used(j)) /\ (Open(j)' <=> Open(j))
  BY <1>2 DEF Used, Open
<1>5. Used(k)' /\ Open(k)' /\ ~Open(k)
  BY <1>1, <1>2 DEF Used, Open
<1>6. m \in 1..k
  <2>1. CASE m = 1
    BY <2>1 DEF Ops
  <2>2. CASE m # 1
    <3>1. PICK j \in Ops : m = j + 1
      BY <1>1, <2>2
    <3>2. Used(j)
      BY <1>1, <3>1 DEF Ledger, Shape
    <3>3. ~(k < j) /\ j # k
      BY <1>1, <3>2 DEF Ledger, Shape
    <3>4. j < k
      BY <3>3 DEF Ops
    <3> QED
      BY <3>1, <3>4
  <2> QED
    BY <2>1, <2>2
<1>7. Shape'
  <2>1. \A j \in Ops : j < k => Used(j)
    BY DEF StartEdit, NextOp, Used, Ops
  <2> SUFFICES ASSUME NEW j \in Ops PROVE
        /\ Used(j)' => op'[j].old \in 1..j /\ op'[j].new \in {0, j + 1}
        /\ ~Used(j)' => ~Exists(j + 1)
        /\ Exists(j + 1) => row[j + 1].prev = op'[j].old
        /\ \A i \in Ops : i < j /\ Used(j)' => Used(i)'
    BY <1>3 DEF Shape, Exists, Ledger
  <2>2. CASE j = k
    BY <1>1, <1>2, <1>4, <1>5, <1>6, <2>1, <2>2 DEF Ledger, Shape
  <2>3. CASE j # k
    BY <1>2, <1>4, <1>5, <2>3 DEF Ledger, Shape
  <2> QED
    BY <2>2, <2>3
<1>8. SameOld'
  <2> SUFFICES ASSUME NEW i \in Ops, NEW j \in Ops, Open(j)', Used(i)', i # j,
                      op'[i].old = op'[j].old
               PROVE  ~Open(i)' /\ ~Exists(i + 1)
    BY <1>3 DEF SameOld, Exists
  <2>1. CASE j = k
    <3>1. Used(i) /\ op[i].old = m /\ ~Open(i)
      BY <1>1, <1>2, <1>4, <2>1 DEF MayReplace
    <3>2. ~Exists(i + 1)
      BY <1>1, <3>1 DEF Ledger, ClosedLost, Closed
    <3> QED
      BY <1>4, <2>1, <3>1, <3>2
  <2>2. CASE i = k
    BY <1>1, <1>2, <1>4, <2>2 DEF MayReplace
  <2>3. CASE i # k /\ j # k
    BY <1>2, <1>4, <2>3 DEF Ledger, SameOld
  <2> QED
    BY <2>1, <2>2, <2>3
<1>9. ClosedLost'
  BY <1>2, <1>3, <1>4, <1>5 DEF Ledger, ClosedLost, Closed, Exists
<1>10. HiddenIsLedgered'
  <2>1. \A i \in Ids : Hidden(i)' => Hidden(i)
    BY <1>3 DEF Hidden
  <2>2. \A j \in Ops : Open(j) => Open(j)' /\ op'[j] = op[j]
    BY <1>2, <1>4, <1>5
  <2> QED
    BY <2>1, <2>2 DEF Ledger, HiddenIsLedgered
<1>11. chained' = "no" => chained = "no" /\ \A j \in Ops : ~Open(j)
  <2> SUFFICES ASSUME chained' = "no", NEW j \in Ops PROVE chained = "no" /\ ~Open(j)
    BY DEF StartEdit
  <2>1. chained = "no" /\ ~(Open(j) /\ m = j + 1)
    BY DEF StartEdit, TypeOK
  <2>2. ~(Open(j) /\ op[j].old = m)
    BY <1>1 DEF MayReplace
  <2> QED
    BY <1>1, <2>1, <2>2 DEF Ledger, Solo
<1>12. Solo'
  <2> SUFFICES ASSUME chained' = "no" PROVE Solo'
    BY DEF Solo
  <2>1. chained = "no" /\ \A j \in Ops : ~Open(j)
    BY <1>11
  <2>2. \A i \in Ids : Exists(i)' => i = m
    BY <1>1, <1>3, <2>1 DEF Ledger, Solo, Exists
  <2>3. ~Hidden(m) /\ row[m].state # "dead"
    BY <1>1, <2>1 DEF Ledger, HiddenIsLedgered, Solo
  <2>4. Live(m)
    BY <1>1, <2>3 DEF TypeOK, Row, Live, Recallable, Orphan, Exists, Hidden
  <2>5. \A j \in Ops : Open(j)' => j = k
    BY <1>4, <2>1
  <2>6. \A i \in Ids : (row[i].state)' # "dead"
    BY <1>3, <2>1 DEF Ledger, Solo
  <2>7. op'[k].old = m /\ op'[k].shown # "dead"
    BY <1>2, <2>3, <2>4
  <2>8. \A j \in Ops : Open(j)' => op'[j].old = m /\ op'[j].shown # "dead"
    BY <2>5, <2>7
  <2> HIDE Ids1
  <2> HIDE DEF m
  <2> QED
    BY <1>5, <2>2, <2>5, <2>6, <2>8 DEF Solo
<1>13. NeverLost' /\ OneRecallable'
  <2>1. \A i \in Ids : Live(i)' <=> Live(i)
    BY <1>3 DEF Live, Recallable, Orphan
  <2> QED
    BY <1>3, <1>11, <2>1 DEF Ledger, NeverLost, Live, OneRecallable
<1> QED
  BY <1>7, <1>8, <1>9, <1>10, <1>12, <1>13 DEF Ledger

\* The new row of the running edit is staged.
LEMMA StageKeepsLedger ==
  ASSUME TypeOK, Ledger, NEW k \in Ops, Open(k), ~Exists(k + 1), task.op = k,
         \A j \in Ops : Used(j) => j <= k, task.old = op[k].old, row' = [row EXCEPT ![k + 1] = StagedRow], op' = op,
         chained' = chained, forgotten' = forgotten
  PROVE  Ledger'
<1> USE Ids1
<1>0. Used(k) /\ op[k].old \in Ids /\ op[k].old # k + 1
  BY DEF Ledger, Shape, Used, Open
<1>1. /\ row'[k + 1].state = "hidden" /\ row'[k + 1].prev = op[k].old
      /\ \A i \in Ids : i # k + 1 => row'[i] = row[i]
  BY DEF TypeOK, StagedRow
<1>2. ASSUME NEW i \in Ids, i # k + 1
      PROVE  /\ Exists(i)' <=> Exists(i)
             /\ Hidden(i)' <=> Hidden(i)
             /\ Live(i)' <=> Live(i)
             /\ row'[i].prev = row[i].prev
             /\ row'[i].state = row[i].state
  BY <1>1, <1>2 DEF Exists, Hidden, Live, Recallable, Orphan
<1>3. \A j \in Ops : (Used(j)' <=> Used(j)) /\ (Open(j)' <=> Open(j))
  BY DEF Used, Open
<1>4. ~Live(k + 1)' /\ Hidden(k + 1)' /\ Exists(k + 1)'
  BY <1>1 DEF Live, Recallable, Orphan, Hidden, Exists
<1>5. Shape'
  <2>1. Shape
    BY DEF Ledger
  <2>2. \A j \in Ops : /\ Used(j)' => op'[j].old \in 1..j /\ op'[j].new \in {0, j + 1}
                       /\ \A l \in Ops : l < j /\ Used(j)' => Used(l)'
    BY <1>3, <2>1 DEF Shape
  <2> HIDE Ids1
  <2>a. \A j \in Ops : j + 1 \in Ids /\ (j + 1 = k + 1 => j = k)
    BY Ids1
  <2>3. \A j \in Ops : /\ ~(Used(j)') => ~(Exists(j + 1)')
                       /\ Exists(j + 1)' => row'[j + 1].prev = op'[j].old
    BY <1>0, <1>1, <1>2, <1>3, <2>a, <2>1 DEF Shape
  <2>4. row'[1].prev = 0
    BY Ids1, <1>2, <2>1 DEF Shape
  <2>5. \A j \in Ops :
          /\ Used(j)' => op'[j].old \in 1..j /\ op'[j].new \in {0, j + 1}
          /\ ~(Used(j)') => ~(Exists(j + 1)')
          /\ Exists(j + 1)' => row'[j + 1].prev = op'[j].old
          /\ \A l \in Ops : l < j /\ Used(j)' => Used(l)'
    BY <2>2, <2>3, Zenon
  <2> QED
    BY <2>4, <2>5, Zenon DEF Shape
<1>6. SameOld'
  <2> SUFFICES ASSUME NEW j \in Ops, NEW l \in Ops, Open(l), Used(j), j # l,
                      op[j].old = op[l].old
               PROVE  ~Open(j) /\ ~Exists(j + 1)'
    BY <1>3 DEF SameOld
  <2>1. ~Open(j) /\ ~Exists(j + 1)
    BY DEF Ledger, SameOld
  <2>2. j + 1 \in Ids /\ j + 1 # k + 1
    BY <2>1
  <2> QED
    BY <1>2, <2>1, <2>2
<1>7. ClosedLost'
  <2> SUFFICES ASSUME NEW j \in Ops, Closed(j)
               PROVE  ~Exists(op[j].old)' \/ ~Exists(j + 1)'
    BY <1>3 DEF ClosedLost, Closed
  <2>1. j # k /\ op[j].old \in Ids
    BY DEF Closed, Ledger, Shape
  <2>2. op[j].old # k + 1
    BY DEF Closed, Ledger, Shape
  <2> QED
    BY <1>2, <2>1, <2>2 DEF Ledger, ClosedLost, Exists
<1>8. HiddenIsLedgered'
  BY <1>2, <1>3 DEF Ledger, HiddenIsLedgered
<1>9. Solo'
  <2> SUFFICES ASSUME chained = "no" PROVE Solo'
    BY DEF Solo
  <2>1. \A j \in Ops, i \in Ids : Open(j)' /\ Exists(i)' => i = op[j].old \/ i = j + 1
    BY <1>2, <1>3 DEF Ledger, Solo
  <2>2. \A i \in Ids : (row[i].state)' # "dead"
    BY <1>1, <1>2 DEF Ledger, Solo
  <2> QED
    BY <1>3, <2>1, <2>2 DEF Ledger, Solo
<1> HIDE Ids1
<1>a. \A i \in Ids : Live(i)' <=> Live(i)
  BY <1>2, <1>4 DEF Exists, Live, Recallable, Orphan
<1>10. NeverLost' /\ OneRecallable'
  BY <1>a DEF Ledger, NeverLost, Live, OneRecallable
<1> QED
  BY <1>5, <1>6, <1>7, <1>8, <1>9, <1>10 DEF Ledger

-----------------------------------------------------------------------------
(***************************************************************************)
(* What the actions do, in these terms.                                    *)
(***************************************************************************)

\* Deleting a row.
LEMMA GoneRow ==
  ASSUME TypeOK, NEW x \in Ids, row' = Gone(x)
  PROVE  RowGone(x) /\ row' \in [Ids -> Row]
<1>1. \A i \in Ids : row[i] \in Row
  BY DEF TypeOK
<1>2. \A i \in Ids : row'[i] \in Row /\ row'[i].prev = row[i].prev
                    /\ row'[i].state = IF i = x THEN "absent" ELSE row[i].state
  BY <1>1 DEF Gone, TypeOK, Row
<1> QED
  BY <1>2 DEF Gone, RowGone, TypeOK

\* Untouched rows are kept.
LEMMA RowsUnchanged ==
  ASSUME row' = row PROVE RowsKept
BY DEF RowsKept

\* The switch of an entry's rows, to a row that exists.
LEMMA SwitchRows ==
  ASSUME TypeOK, Ledger, NEW k \in Ops, Open(k), NEW w \in {op[k].old, k + 1},
         NEW n \in {0, k + 1}, n = 0 => ~Exists(k + 1), Exists(w),
         row' = Switched(op[k].old, n, w, op[k].shown)
  PROVE  RowsSwitched(k, w) /\ row' \in [Ids -> Row]
<1> USE Ids1
<1>1. \A i \in Ids : row[i] \in Row
  BY DEF TypeOK
<1>2. op[k].shown \in {"live", "orphan", "dead"} /\ Used(k) /\ op[k].old \in Ids
  BY DEF TypeOK, Op, Ledger, Shape, Used, Open
<1>3. ASSUME NEW i \in Ids
      PROVE  /\ row'[i] \in Row /\ row'[i].prev = row[i].prev
             /\ (i # op[k].old /\ i # k + 1) \/ ~Exists(i) => row'[i].state = row[i].state
             /\ (i = op[k].old \/ i = k + 1) /\ Exists(i) /\ i # w => row'[i].state = "hidden"
             /\ i = w => row'[i].state = IF Hidden(i) THEN op[k].shown ELSE row[i].state
  <2>1. CASE i \notin {op[k].old, n} \/ ~Exists(i) \/ (i = w /\ ~Hidden(i))
    <3>1. row'[i] = row[i]
      BY <2>1 DEF Switched
    <3> QED
      BY <1>1, <2>1, <3>1
  <2>2. CASE ~(i \notin {op[k].old, n} \/ ~Exists(i) \/ (i = w /\ ~Hidden(i)))
    <3>1. row'[i] = [row[i] EXCEPT !.state = IF i = w THEN op[k].shown ELSE "hidden"]
      BY <2>2 DEF Switched
    <3> QED
      BY <1>1, <1>2, <2>2, <3>1 DEF Row, Hidden
  <2> QED
    BY <2>1, <2>2
<1>4. row' = [i \in Ids |-> row'[i]]
  BY DEF Switched
<1> QED
  BY <1>3, <1>4 DEF RowsSwitched

\* The running task has an open entry and knows its rows.
LEMMA TaskFacts ==
  ASSUME TypeOK, Ledger, TaskOK, task # Idle
  PROVE  /\ task.op \in Ops /\ Open(task.op) /\ Used(task.op)
         /\ task.old = op[task.op].old /\ task.old \in Ids /\ task.op + 1 \in Ids
         /\ task.old # task.op + 1 /\ task.new \in {0, task.op + 1}
         /\ phase = "up" \/ phase = "repair"
BY Ids1 DEF TypeOK, Ledger, Shape, TaskOK, Used, Open

\* A task at a step is not the idle task.
LEMMA NotIdle ==
  ASSUME task.step # "idle" PROVE task # Idle
BY DEF Idle

\* A fault is counted within its bound.
LEMMA FaultType ==
  ASSUME TypeOK PROVE Fault => faults' \in 0..MaxFaults /\ faults' = faults + 1
BY ReplacementAssumption DEF TypeOK, Fault

\* So is one met while advancing.
LEMMA AdvanceType ==
  ASSUME TypeOK, NEW k, NEW s, NEW n, NEW e,
         Advance(k, s, n, e) \/ AdvanceAfterFault(k, s, n, e)
  PROVE  faults' \in 0..MaxFaults /\ faults' >= faults
BY FaultType DEF Advance, AdvanceAfterFault, TypeOK

\* No task runs after the step.
LEMMA IdleKeeps ==
  ASSUME task' = Idle, todo' # {} => phase' = "repair", \A k \in todo' : Open(k)'
  PROVE  TaskOK' /\ StepOK' /\ task' \in Task
BY DEF TaskOK, StepOK, Idle, Task

\* Operations a repair still has to look at stay open while the journal is kept.
LEMMA TodoKept ==
  ASSUME TypeOK, TaskOK, OpsKept, todo' = todo PROVE \A k \in todo' : Open(k)'
BY DEF TypeOK, TaskOK, OpsKept

\* The task goes on with its step while other writers work.
LEMMA TaskKept ==
  ASSUME TypeOK, Ledger, TaskOK, StepOK, task' = task, phase' = phase, todo' = todo,
         OpsKept, RowsKept \/ \E x \in Ids : RowGone(x)
  PROVE  TaskOK' /\ StepOK'
<1> USE Ids1
<1>1. CASE task = Idle
  BY <1>1, TodoKept, IdleKeeps DEF TaskOK
<1>2. CASE task # Idle
  <2>1. /\ task.op \in Ops /\ Open(task.op) /\ task.old \in Ids /\ task.op + 1 \in Ids
        /\ task.old = op[task.op].old /\ Used(task.op)
    BY <1>2, TaskFacts
  <2>2. /\ Open(task.op)' /\ (op[task.op].old)' = op[task.op].old
        /\ \A j \in Ops : Used(j)' <=> Used(j)
    BY <2>1 DEF OpsKept, SameEntry
  <2>3. \A i \in Ids : /\ Exists(i)' => Exists(i)
                       /\ Hidden(i)' => Hidden(i)
                       /\ Live(i)' => Live(i)
                       /\ row'[i].state = "dead" => row[i].state = "dead"
    BY DEF RowsKept, RowGone, Exists, Hidden, Live, Recallable, Orphan
  <2>4. TaskOK'
    BY <1>2, <2>1, <2>2, <2>3, TodoKept DEF TaskOK
  <2>5. StepOK'
    BY <2>1, <2>2, <2>3 DEF StepOK, OldGivenUp, NewGivenUp
  <2> QED
    BY <2>4, <2>5
<1> QED
  BY <1>1, <1>2

\* The edit goes to its next step.
LEMMA TaskMoves ==
  ASSUME TypeOK, Ledger, TaskOK, task # Idle, NEW s, Goto(s), phase' = phase, todo' = todo,
         phase = "up" => s \in EditSteps, phase = "repair" => s \in RepairSteps,
         OpsKept,
         phase = "repair" => \A i \in Ids : Exists(i)' => Exists(i)
  PROVE  /\ TaskOK' /\ task' \in Task
         /\ task'.step = s /\ task'.op = task.op /\ task'.old = task.old
         /\ task'.new = task.new
<1> USE Ids1
<1>1. /\ task'.step = s /\ task'.op = task.op /\ task'.old = task.old
      /\ task'.new = task.new /\ task' \in Task
  BY TaskFacts DEF Goto, TypeOK, Task
<1>2. /\ task.op \in Ops /\ Open(task.op) /\ task.old \in Ids /\ task.op + 1 \in Ids
      /\ task.old = op[task.op].old /\ Used(task.op) /\ (phase = "up" \/ phase = "repair")
  BY TaskFacts
<1>3. \A k \in Ops : k = task.op => Open(k)' /\ op'[k].old = op[k].old
  BY <1>2 DEF OpsKept, SameEntry
<1>4. task' # Idle
  BY <1>1, <1>2 DEF Idle
<1>5. TaskOK'
  BY <1>1, <1>2, <1>3, <1>4, TodoKept DEF TaskOK
<1> QED
  BY <1>1, <1>5

\* Outside the repair only the count of faults matters.
LEMMA SelectedOutside ==
  ASSUME TypeOK, Selected, since' = since, phase' # "repair", faults' \in 0..MaxFaults,
         faults' >= faults
  PROVE  Selected'
BY ReplacementAssumption DEF Selected, TypeOK

\* A step that leaves the entries and the batch alone.
LEMMA SelectedQuiet ==
  ASSUME Selected, op' = op, todo' = todo, picked' = picked, since' = since,
         phase' = phase, faults' = faults
  PROVE  Selected'
BY DEF Selected, Unvisited, InOrder, Selectable, Open

\* The ghost variables move together.
LEMMA HistoryKept ==
  ASSUME UNCHANGED history
  PROVE  forgotten' = forgotten /\ chained' = chained /\ since' = since /\ picked' = picked
BY DEF history

-----------------------------------------------------------------------------
(***************************************************************************)
(* One lemma per action.                                                   *)
(***************************************************************************)

\* An edit that only queues for the lock touches no store.
LEMMA AskEditStep ==
  ASSUME IInv, NEW m \in Ids, AskEdit(m) PROVE IInv'
<1> USE DEF IInv
<1>1. /\ row' = row /\ op' = op /\ task' = task /\ phase' = phase /\ todo' = todo
      /\ faults' = faults /\ waiting' = m /\ reading' = reading /\ UNCHANGED history
      /\ phase = "up"
  BY DEF AskEdit
<1>2. RowsKept /\ OpsKept
  BY <1>1, RowsUnchanged, OpsUnchanged
<1>3. Ledger'
  BY <1>1, <1>2, QuietKeepsLedger, HistoryKept
<1>4. TaskOK' /\ StepOK'
  BY <1>1, <1>2, TaskKept
<1>5. Selected'
  BY <1>1, HistoryKept, SelectedOutside DEF TypeOK
<1>6. TypeOK'
  BY <1>1, HistoryKept DEF TypeOK
<1> QED
  BY <1>3, <1>4, <1>5, <1>6

\* A refused edit touches no store.
LEMMA RefuseEditStep ==
  ASSUME IInv, RefuseEdit PROVE IInv'
<1> USE DEF IInv
<1>1. /\ row' = row /\ op' = op /\ task' = task /\ phase' = phase /\ todo' = todo
      /\ waiting' = 0 /\ reading' = reading /\ UNCHANGED history /\ phase = "up"
      /\ faults' \in 0..MaxFaults /\ faults' >= faults
  BY FaultType DEF RefuseEdit, LockFree, Editing, TypeOK
<1>2. RowsKept /\ OpsKept
  BY <1>1, RowsUnchanged, OpsUnchanged
<1>3. Ledger'
  BY <1>1, <1>2, QuietKeepsLedger, HistoryKept
<1>4. TaskOK' /\ StepOK'
  BY <1>1, <1>2, TaskKept
<1>5. Selected'
  BY <1>1, HistoryKept, SelectedOutside DEF TypeOK
<1>6. TypeOK'
  BY <1>1, HistoryKept DEF TypeOK
<1> QED
  BY <1>3, <1>4, <1>5, <1>6

\* Opening the replacement adds one open operation whose source is the live row.
LEMMA StartEditStep ==
  ASSUME IInv, NEW text \in Texts, NEW k \in Ops, StartEdit(text, k) PROVE IInv'
<1> USE Ids1 DEF IInv
<1>1. /\ row' = row /\ phase' = phase /\ todo' = todo /\ faults' = faults /\ waiting' = 0
      /\ forgotten' = forgotten /\ since' = since /\ picked' = picked /\ phase = "up"
      /\ ~Used(k) /\ waiting \in Ids /\ task.step = "idle" /\ reading' = reading
  BY DEF StartEdit, LockFree, Editing, TypeOK, NextOp, Used
<1>2. Ledger'
  BY StartKeepsLedger
<1>3. /\ op' \in [Ops -> Op] /\ op'[k].status = "pending" /\ op'[k].old = waiting
      /\ \A j \in Ops : j # k => op'[j] = op[j]
  BY <1>1 DEF StartEdit, TypeOK, Op, Row, Live, Recallable, Orphan
<1>4. /\ task' \in Task /\ task'.step = "stage" /\ task'.op = k /\ task'.old = waiting
      /\ task'.new = k + 1 /\ task' # Idle
  BY <1>1 DEF StartEdit, Task, EditSteps, Idle
<1>5. TypeOK'
  BY <1>1, <1>3, <1>4 DEF TypeOK, StartEdit
<1>6. TaskOK'
  BY <1>1, <1>3, <1>4 DEF TaskOK, Open, EditSteps
<1>7. ~Exists(k + 1)'
  BY <1>1 DEF Ledger, Shape, Exists
<1>8. \A j \in Ops : Used(j)' => j <= k
  BY <1>1, <1>3 DEF Ledger, Shape, Used
<1>9. StepOK'
  BY <1>4, <1>7, <1>8 DEF StepOK
<1>10. Selected'
  BY <1>1, SelectedOutside DEF TypeOK
<1> QED
  BY <1>2, <1>5, <1>6, <1>9, <1>10

\* Deleting a memory removes rows and leaves the operations.
LEMMA ForgetStep ==
  ASSUME IInv, NEW m \in Ids, Forget(m) PROVE IInv'
<1> USE DEF IInv
<1>1. /\ row' = Gone(m) /\ op' = op /\ task' = task /\ phase' = phase /\ todo' = todo
      /\ faults' = faults /\ waiting' = waiting /\ reading' = reading
      /\ chained' = chained /\ since' = since /\ picked' = picked
      /\ forgotten' = (IF Live(m) THEN "yes" ELSE forgotten) /\ phase = "up"
  BY DEF Forget, lock
<1>2. RowGone(m) /\ row' \in [Ids -> Row] /\ OpsKept
  BY <1>1, GoneRow, OpsUnchanged
<1>3. Ledger'
  BY <1>1, <1>2, GoneKeepsLedger
<1>4. TaskOK' /\ StepOK'
  BY <1>1, <1>2, TaskKept
<1>5. Selected'
  BY <1>1, SelectedOutside DEF TypeOK
<1>6. TypeOK'
  BY <1>1, <1>2 DEF TypeOK
<1> QED
  BY <1>3, <1>4, <1>5, <1>6

\* An in-place update changes a text only.
LEMMA CasUpdateStep ==
  ASSUME IInv, NEW m \in Ids, NEW text \in Texts, CasUpdate(m, text) PROVE IInv'
<1> USE DEF IInv
<1>1. /\ row' = [row EXCEPT ![m].text = text] /\ op' = op /\ task' = task
      /\ phase' = phase /\ todo' = todo /\ faults' = faults /\ waiting' = waiting
      /\ reading' = reading /\ UNCHANGED history /\ phase = "up"
  BY DEF CasUpdate, lock
<1>2. RowsKept /\ row' \in [Ids -> Row] /\ OpsKept
  BY <1>1, OpsUnchanged DEF RowsKept, TypeOK, Row
<1>3. Ledger'
  BY <1>1, <1>2, QuietKeepsLedger, HistoryKept
<1>4. TaskOK' /\ StepOK'
  BY <1>1, <1>2, TaskKept
<1>5. Selected'
  BY <1>1, HistoryKept, SelectedOutside DEF TypeOK
<1>6. TypeOK'
  BY <1>1, <1>2, HistoryKept DEF TypeOK
<1> QED
  BY <1>3, <1>4, <1>5, <1>6

\* A cancelled edit leaves its operation open for a later repair.
LEMMA CancelEditStep ==
  ASSUME IInv, CancelEdit PROVE IInv'
<1> USE DEF IInv
<1>1. /\ row' = row /\ op' = op /\ task' = Idle /\ phase' = phase /\ todo' = todo
      /\ Fault /\ waiting' = waiting /\ reading' = 0 /\ UNCHANGED history /\ phase = "up"
  BY DEF CancelEdit
<1>2. RowsKept /\ OpsKept /\ faults' \in 0..MaxFaults /\ faults' >= faults
  BY <1>1, RowsUnchanged, OpsUnchanged, FaultType DEF TypeOK
<1>3. Ledger'
  BY <1>1, <1>2, QuietKeepsLedger, HistoryKept
<1>4. TaskOK' /\ StepOK' /\ task' \in Task
  BY <1>1, IdleKeeps DEF TaskOK
<1>5. Selected'
  BY <1>1, <1>2, HistoryKept, SelectedOutside
<1>6. TypeOK'
  BY <1>1, <1>2, <1>4, HistoryKept DEF TypeOK
<1> QED
  BY <1>3, <1>4, <1>5, <1>6

\* A crash forgets the task and the pass, and no row or operation.
LEMMA CrashStep ==
  ASSUME IInv, Crash PROVE IInv'
<1> USE DEF IInv
<1>1. /\ row' = row /\ op' = op /\ task' = Idle /\ phase' = "down" /\ todo' = {}
      /\ Fault /\ waiting' = 0 /\ reading' = 0 /\ UNCHANGED history
  BY DEF Crash
<1>2. RowsKept /\ OpsKept /\ faults' \in 0..MaxFaults /\ faults' >= faults
  BY <1>1, RowsUnchanged, OpsUnchanged, FaultType DEF TypeOK
<1>3. Ledger'
  BY <1>1, <1>2, QuietKeepsLedger, HistoryKept
<1>4. TaskOK' /\ StepOK' /\ task' \in Task
  BY <1>1, IdleKeeps
<1>5. Selected'
  BY <1>1, <1>2, HistoryKept, SelectedOutside
<1>6. TypeOK'
  BY <1>1, <1>2, <1>4, HistoryKept DEF TypeOK
<1> QED
  BY <1>3, <1>4, <1>5, <1>6

\* Stopping keeps both stores.
LEMMA StopStep ==
  ASSUME IInv, Stop PROVE IInv'
<1> USE DEF IInv
<1>1. /\ row' = row /\ op' = op /\ task' = Idle /\ phase' = "down" /\ todo' = todo
      /\ faults' = faults /\ waiting' = 0 /\ reading' = reading /\ UNCHANGED history
      /\ todo = {}
  BY DEF Stop, TaskOK
<1>2. RowsKept /\ OpsKept
  BY <1>1, RowsUnchanged, OpsUnchanged
<1>3. Ledger'
  BY <1>1, <1>2, QuietKeepsLedger, HistoryKept
<1>4. TaskOK' /\ StepOK' /\ task' \in Task
  BY <1>1, IdleKeeps
<1>5. Selected'
  BY <1>1, HistoryKept, SelectedOutside DEF TypeOK
<1>6. TypeOK'
  BY <1>1, <1>4, HistoryKept DEF TypeOK
<1> QED
  BY <1>3, <1>4, <1>5, <1>6

\* A start collects the operations it may repair.
LEMMA StartStep ==
  ASSUME IInv, Start PROVE IInv'
<1> USE DEF IInv
<1>1. /\ row' = row /\ op' = op /\ task' = Idle /\ phase' = "repair"
      /\ picked' = todo' /\ todo' \subseteq Ops
      /\ \A k \in todo' : Selectable(k)
      /\ faults' = faults =>
           \A k \in todo', j \in Ops : j < k /\ Selectable(j) => j \in todo'
      /\ faults' \in 0..MaxFaults /\ since' = faults /\ faults <= faults'
      /\ waiting' = waiting /\ reading' = reading
      /\ forgotten' = forgotten /\ chained' = chained
  BY FaultType DEF Start, Batch, TaskOK, TypeOK, lock
<1>2. RowsKept /\ OpsKept
  BY <1>1, RowsUnchanged, OpsUnchanged
<1>3. Ledger'
  BY <1>1, <1>2, QuietKeepsLedger
<1>4. TaskOK' /\ StepOK' /\ task' \in Task
  <2>1. \A k \in todo' : Open(k)'
    BY <1>1 DEF Selectable, Open
  <2> QED
    BY <1>1, <2>1, IdleKeeps
<1>5. Selected'
  <2>1. \A k \in Ops : Selectable(k)' <=> Selectable(k)
    BY <1>1 DEF Selectable, Open
  <2>2. Unvisited'
    BY <1>1 DEF Unvisited
  <2>3. faults' = faults => InOrder'
    <3> SUFFICES ASSUME faults' = faults, NEW k \in Ops, Selectable(k), k \notin todo',
                        NEW j \in todo'
                 PROVE  j < k
      BY <1>1, <2>1 DEF InOrder
    <3>1. j \in Ops /\ j \in Nat /\ k \in Nat /\ j # k
      BY <1>1, Ids1
    <3>2. ~(k < j)
      BY <1>1
    <3> QED
      BY <3>1, <3>2
  <2>4. since' <= faults' /\ (faults' = since' => faults' = faults)
    BY <1>1
  <2> QED
    BY <2>2, <2>3, <2>4 DEF Selected
<1>6. TypeOK'
  BY <1>1, <1>4 DEF TypeOK
<1> QED
  BY <1>3, <1>4, <1>5, <1>6

\* The running edit or repair ends: its entry stays open, or it closes with one of its
\* rows gone and the other one not hidden.
LEMMA TaskEnds ==
  ASSUME IInv, NEW k \in Ops, Open(k), phase' = phase, phase # "down", task' = Idle,
         phase = "up" => todo' = todo, phase = "repair" => todo' = todo \ {k},
         waiting' = waiting, reading' \in {0} \cup Ids, UNCHANGED history,
         op' \in [Ops -> Op], faults' \in 0..MaxFaults,
         row' = row \/ \E x \in Ids : row' = Gone(x) /\ ~Live(x),
         \/ OpsKept
         \/ /\ OpsClosed(k) /\ ~Hidden(op[k].old)' /\ ~Hidden(k + 1)'
            /\ ~Exists(op[k].old)' \/ ~Exists(k + 1)'
  PROVE  TypeOK' /\ Ledger' /\ TaskOK' /\ StepOK'
<1> USE DEF IInv
<1>1. /\ chained' = chained /\ forgotten' = forgotten /\ since' = since
      /\ picked' = picked
  BY HistoryKept
<1>2. /\ RowsKept \/ \E x \in Ids : RowGone(x) /\ ~Live(x)
      /\ row' \in [Ids -> Row]
  BY GoneRow, RowsUnchanged DEF TypeOK
<1>3. Ledger'
  <2>1. CASE OpsKept
    BY <1>1, <1>2, <2>1, QuietKeepsLedger, GoneKeepsLedger
  <2>2. CASE ~OpsKept
    BY <1>1, <1>2, <2>2, CloseKeepsLedger
  <2> QED
    BY <2>1, <2>2
<1>4. TaskOK' /\ StepOK' /\ task' \in Task
  <2>1. todo' # {} => phase' = "repair"
    BY DEF TaskOK, TypeOK
  <2>2. \A j \in todo' : Open(j)'
    <3>1. \A j \in todo' : j \in todo /\ j \in Ops /\ Open(j) /\ phase = "repair" /\ j # k
      BY DEF TaskOK, TypeOK
    <3> QED
      BY <3>1 DEF OpsKept, OpsClosed
  <2> QED
    BY <2>1, <2>2, IdleKeeps
<1>5. TypeOK'
  BY <1>1, <1>2, <1>4 DEF TypeOK
<1> QED
  BY <1>3, <1>4, <1>5

\* Giving an edit up, with or without its staged row, closes or leaves its operation.
LEMMA AbortEditEnds ==
  ASSUME IInv, phase = "up", task # Idle, AbortEdit,
         row' = row \/ \E x \in Ids : row' = Gone(x) /\ ~Live(x),
         UNCHANGED <<waiting, phase, todo, history>>, reading' \in {0} \cup Ids
  PROVE  IInv'
<1> USE DEF IInv
<1>1. PICK k \in Ops : k = task.op /\ Open(k)
  BY TaskFacts
<1>2. AdvanceAfterFault(k, "needs_repair", 0, 1) /\ task' = Idle
  BY <1>1 DEF AbortEdit
<1>3. OpsKept /\ op' \in [Ops -> Op]
  BY <1>1, <1>2, AdvanceKeeps DEF TypeOK
<1>4. faults' \in 0..MaxFaults /\ faults' >= faults
  BY <1>2, AdvanceType
<1>5. TypeOK' /\ Ledger' /\ TaskOK' /\ StepOK'
  BY <1>1, <1>2, <1>3, <1>4, TaskEnds
<1>6. Selected'
  BY <1>4, HistoryKept, SelectedOutside
<1> QED
  BY <1>5, <1>6

\* Staging writes a hidden row only.
LEMMA StageNewStep ==
  ASSUME IInv, StageNew PROVE IInv'
<1> USE Ids1 DEF IInv
<1>1. /\ phase = "up" /\ task.step = "stage" /\ task # Idle
      /\ phase' = phase /\ todo' = todo /\ waiting' = waiting
      /\ reading' = reading /\ reading' \in {0} \cup Ids /\ UNCHANGED history
  BY NotIdle DEF StageNew, Editing, lock, TypeOK
<1>2. PICK k \in Ops : /\ k = task.op /\ Open(k) /\ task.old = op[k].old
                      /\ task.new = k + 1 /\ ~Exists(k + 1) /\ Used(k)
                      /\ \A j \in Ops : Used(j) => j <= k
  BY <1>1, TaskFacts DEF TaskOK, StepOK
<1>3. CASE row' = [row EXCEPT ![task.new] = StagedRow] /\ Goto("record")
           /\ UNCHANGED <<op, faults>>
  <2>1. op' = op /\ faults' = faults /\ OpsKept
    BY <1>3, OpsUnchanged
  <2>2. Ledger'
    BY <1>1, <1>2, <1>3, <2>1, HistoryKept, StageKeepsLedger
  <2>3. TaskOK' /\ task' \in Task /\ task'.step = "record"
    BY <1>1, <1>3, <2>1, TaskMoves DEF EditSteps
  <2>4. StepOK'
    BY <2>3 DEF StepOK
  <2>5. row' \in [Ids -> Row]
    <3>1. StagedRow \in Row
      BY <1>2, TaskFacts, <1>1 DEF StagedRow, Row, TypeOK, Op
    <3> QED
      BY <1>3, <3>1 DEF TypeOK
  <2>6. TypeOK'
    BY <1>1, <2>1, <2>3, <2>5, HistoryKept DEF TypeOK
  <2>7. Selected'
    BY <1>1, <2>1, HistoryKept, SelectedOutside DEF TypeOK
  <2> QED
    BY <2>2, <2>3, <2>4, <2>6, <2>7
<1>4. CASE AbortEdit /\ UNCHANGED row
  BY <1>1, <1>4, AbortEditEnds
<1> QED
  BY <1>3, <1>4 DEF StageNew

\* Recording names the staged row in its operation.
LEMMA RecordNewStep ==
  ASSUME IInv, RecordNew PROVE IInv'
<1> USE Ids1 DEF IInv
<1>1. /\ phase = "up" /\ task.step = "record" /\ task # Idle /\ row' = row
      /\ phase' = phase /\ todo' = todo /\ waiting' = waiting
      /\ reading' = reading /\ UNCHANGED history
      /\ Goto("publish") /\ Advance(task.op, "pending", task.new, 0)
  BY NotIdle DEF RecordNew, Editing, lock
<1>2. PICK k \in Ops : k = task.op /\ Open(k) /\ task.new = k + 1
  BY <1>1, TaskFacts DEF TaskOK
<1>3. OpsKept /\ op' \in [Ops -> Op]
  <2>1. Advance(k, "pending", k + 1, 0)
    BY <1>1, <1>2
  <2> QED
    BY <1>2, <2>1, AdvanceKeeps DEF TypeOK
<1>4. faults' \in 0..MaxFaults /\ faults' >= faults
  BY <1>1, AdvanceType
<1>5. Ledger'
  BY <1>1, <1>3, HistoryKept, RowsUnchanged, QuietKeepsLedger
<1>6. TaskOK' /\ task' \in Task /\ task'.step = "publish"
  BY <1>1, <1>3, TaskMoves DEF EditSteps
<1>7. StepOK'
  BY <1>6 DEF StepOK
<1>8. TypeOK'
  BY <1>1, <1>3, <1>4, <1>6, HistoryKept DEF TypeOK
<1>9. Selected'
  BY <1>1, <1>4, HistoryKept, SelectedOutside
<1> QED
  BY <1>5, <1>6, <1>7, <1>8, <1>9

\* A switch to row w after which the task goes to step s.
LEMMA SwitchStep ==
  ASSUME IInv, task # Idle, NEW k \in Ops, k = task.op, NEW w \in {task.old, k + 1},
         Exists(w), row' = Switched(task.old, task.new, w, op[k].shown),
         NEW s, Goto(s), phase = "up" => s \in EditSteps,
         phase = "repair" => s \in RepairSteps, op' = op, faults' = faults,
         phase' = phase, todo' = todo, waiting' = waiting, reading' = reading,
         UNCHANGED history
  PROVE  /\ TypeOK' /\ Ledger' /\ TaskOK' /\ Selected'
         /\ task'.step = s /\ task'.op = k /\ task'.old = task.old /\ task'.new = task.new
         /\ \A i \in Ids : Exists(i)' <=> Exists(i)
         /\ w = k + 1 => ~Live(task.old)' /\ (row[task.old].state)' # "dead" /\ ~Hidden(k + 1)'
         /\ w = task.old => ~Live(k + 1)' /\ (row[k + 1].state)' # "dead" /\ ~Hidden(task.old)'
<1> USE Ids1 DEF IInv
<1>1. /\ Open(k) /\ task.old = op[k].old /\ task.old \in Ids /\ k + 1 \in Ids
      /\ task.old # k + 1 /\ task.new \in {0, k + 1}
      /\ task.new = 0 => ~Exists(k + 1)
  BY TaskFacts DEF TaskOK
<1>2. RowsSwitched(k, w) /\ row' \in [Ids -> Row] /\ OpsKept
  BY <1>1, SwitchRows, OpsUnchanged
<1>3. Ledger'
  BY <1>1, <1>2, HistoryKept, SwitchKeepsLedger
<1>4. op[k].shown \in {"live", "orphan", "dead"} /\ \A i \in Ids : row[i].state \in {"absent", "live", "orphan", "hidden", "dead"}
  BY DEF TypeOK, Op, Row
<1>5. \A i \in Ids : Exists(i)' <=> Exists(i)
  BY <1>1, <1>2, <1>4 DEF RowsSwitched, Exists, Hidden
<1>6. /\ TaskOK' /\ task' \in Task /\ task'.step = s /\ task'.op = k
      /\ task'.old = task.old /\ task'.new = task.new
  BY <1>2, <1>5, TaskMoves
<1>7. /\ ~Hidden(w)'
      /\ \A i \in Ids : i # w /\ (i = task.old \/ i = k + 1) => row'[i].state \in {"hidden", "absent"}
  <2>0. w \in Ids /\ row'[w].state = IF Hidden(w) THEN op[k].shown ELSE row[w].state
    BY <1>1, <1>2 DEF RowsSwitched
  <2>1. ~Hidden(w)'
    BY <2>0, <1>4 DEF Hidden
  <2>2. ASSUME NEW i \in Ids, i # w, i = op[k].old \/ i = k + 1
        PROVE  row'[i].state \in {"hidden", "absent"}
    BY <1>2, <2>2 DEF RowsSwitched, Exists
  <2> QED
    BY <1>1, <2>1, <2>2
<1>8. TypeOK'
  BY <1>2, <1>6, HistoryKept DEF TypeOK
<1>9. Selected'
  BY HistoryKept, SelectedQuiet
<1> QED
  BY <1>1, <1>3, <1>5, <1>6, <1>7, <1>8, <1>9 DEF Live, Recallable, Orphan, Hidden

\* Publishing switches from the old row to the new one.
LEMMA PublishNewStep ==
  ASSUME IInv, PublishNew PROVE IInv'
<1> USE Ids1 DEF IInv
<1>1. /\ phase = "up" /\ task.step = "publish" /\ task # Idle
      /\ phase' = phase /\ todo' = todo /\ waiting' = waiting
      /\ reading' = reading /\ reading' \in {0} \cup Ids /\ UNCHANGED history
  BY NotIdle DEF PublishNew, Editing, lock, TypeOK
<1>2. PICK k \in Ops : k = task.op /\ Open(k) /\ task.new = k + 1
  BY <1>1, TaskFacts DEF TaskOK
<1>3. CASE /\ CanSwitch(task.old, task.new, task.new, op[task.op].text)
           /\ row' = Switched(task.old, task.new, task.new, op[task.op].shown)
           /\ Goto("delete_old") /\ UNCHANGED <<op, faults>>
  <2>1. /\ Exists(k + 1) /\ row' = Switched(task.old, task.new, k + 1, op[k].shown)
        /\ op' = op /\ faults' = faults
    BY <1>2, <1>3 DEF CanSwitch
  <2>2. /\ TypeOK' /\ Ledger' /\ TaskOK' /\ Selected'
        /\ task'.step = "delete_old" /\ task'.op = k /\ task'.old = task.old
        /\ ~Live(task.old)' /\ (row[task.old].state)' # "dead" /\ ~Hidden(k + 1)'
    BY <1>1, <1>2, <1>3, <2>1, SwitchStep DEF EditSteps
  <2>3. StepOK'
    BY <2>2 DEF StepOK, OldGivenUp
  <2> QED
    BY <2>2, <2>3
<1>4. CASE task' = Idle /\ Advance(task.op, "needs_repair", 0, 1) /\ UNCHANGED row
  <2>1. Advance(k, "needs_repair", 0, 1)
    BY <1>2, <1>4
  <2>2. OpsKept /\ op' \in [Ops -> Op] /\ faults' \in 0..MaxFaults /\ faults' >= faults
    BY <1>2, <2>1, AdvanceKeeps, AdvanceType DEF TypeOK
  <2>3. TypeOK' /\ Ledger' /\ TaskOK' /\ StepOK'
    BY <1>1, <1>2, <1>4, <2>2, TaskEnds
  <2> QED
    BY <1>1, <2>2, <2>3, HistoryKept, SelectedOutside
<1>5. CASE AbortEdit /\ UNCHANGED row
  BY <1>1, <1>5, AbortEditEnds
<1> QED
  BY <1>3, <1>4, <1>5 DEF PublishNew

\* Restoring switches back to the old row.
LEMMA RestoreOldStep ==
  ASSUME IInv, RestoreOld PROVE IInv'
<1> USE Ids1 DEF IInv
<1>1. /\ phase = "up" /\ task.step = "restore_old" /\ task # Idle
      /\ phase' = phase /\ todo' = todo /\ waiting' = waiting
      /\ reading' = reading /\ reading' \in {0} \cup Ids /\ UNCHANGED history
  BY NotIdle DEF RestoreOld, Editing, lock, TypeOK
<1>2. PICK k \in Ops : k = task.op /\ Open(k) /\ task.new = k + 1
  BY <1>1, TaskFacts DEF TaskOK
<1>3. CASE /\ CanSwitch(task.old, task.new, task.old, op[task.op].text)
           /\ row' = Switched(task.old, task.new, task.old, op[task.op].shown)
           /\ Goto("delete_new") /\ UNCHANGED <<op, faults>>
  <2>1. /\ Exists(task.old) /\ row' = Switched(task.old, task.new, task.old, op[k].shown)
        /\ op' = op /\ faults' = faults
    BY <1>2, <1>3 DEF CanSwitch
  <2>2. /\ TypeOK' /\ Ledger' /\ TaskOK' /\ Selected'
        /\ task'.step = "delete_new" /\ task'.op = k /\ task'.old = task.old
        /\ ~Live(k + 1)' /\ (row[k + 1].state)' # "dead" /\ ~Hidden(task.old)'
    BY <1>1, <1>2, <1>3, <2>1, SwitchStep DEF EditSteps
  <2>3. StepOK'
    BY <2>2 DEF StepOK, NewGivenUp
  <2> QED
    BY <2>2, <2>3
<1>4. CASE task' = Idle /\ Advance(task.op, "needs_repair", 0, 1) /\ UNCHANGED row
  <2>1. Advance(k, "needs_repair", 0, 1)
    BY <1>2, <1>4
  <2>2. OpsKept /\ op' \in [Ops -> Op] /\ faults' \in 0..MaxFaults /\ faults' >= faults
    BY <1>2, <2>1, AdvanceKeeps, AdvanceType DEF TypeOK
  <2>3. TypeOK' /\ Ledger' /\ TaskOK' /\ StepOK'
    BY <1>1, <1>2, <1>4, <2>2, TaskEnds
  <2> QED
    BY <1>1, <2>2, <2>3, HistoryKept, SelectedOutside
<1>5. CASE AbortEdit /\ UNCHANGED row
  BY <1>1, <1>5, AbortEditEnds
<1> QED
  BY <1>3, <1>4, <1>5 DEF RestoreOld

\* Closing entry k after x, one of its rows, is deleted: the other one is not hidden.
LEMMA CloseByDeleting ==
  ASSUME IInv, NEW k \in Ops, Open(k), NEW x \in {op[k].old, k + 1}, row' = Gone(x),
         x = op[k].old => ~Hidden(k + 1), x = k + 1 => ~Hidden(op[k].old),
         OpsKept \/ OpsClosed(k)
  PROVE  /\ ~Hidden(op[k].old)' /\ ~Hidden(k + 1)'
         /\ ~Exists(op[k].old)' \/ ~Exists(k + 1)'
<1> USE Ids1 DEF IInv
<1>1. Used(k) /\ op[k].old \in Ids /\ x \in Ids
  BY DEF Ledger, Shape, Used, Open
<1>2. RowGone(x)
  BY <1>1, GoneRow
<1>3. op'[k].old = op[k].old
  BY DEF OpsKept, OpsClosed, SameEntry
<1> QED
  BY <1>1, <1>2, <1>3 DEF RowGone, Hidden, Exists

\* Deleting the old row ends a published replacement.
LEMMA DeleteOldStep ==
  ASSUME IInv, DeleteOld PROVE IInv'
<1> USE Ids1 DEF IInv
<1>1. /\ phase = "up" /\ task.step = "delete_old" /\ task # Idle
      /\ phase' = phase /\ todo' = todo /\ waiting' = waiting
      /\ UNCHANGED history
  BY NotIdle DEF DeleteOld, Editing
<1>2. PICK k \in Ops : /\ k = task.op /\ Open(k) /\ task.new = k + 1
                      /\ task.old = op[k].old /\ task.old \in Ids
                      /\ task.new \in Ids
  BY <1>1, TaskFacts DEF TaskOK
<1>3. ~Live(task.old) /\ ~Hidden(k + 1)
  BY <1>1, <1>2 DEF StepOK, OldGivenUp
<1>4. CASE /\ row' = Gone(task.old) /\ task' = Idle /\ reading' = task.new
           /\ Advance(task.op, "completed", 0, 0)
  <2>1. Advance(k, "completed", 0, 0) /\ row' = Gone(op[k].old)
    BY <1>2, <1>4
  <2>2. /\ (OpsKept \/ OpsClosed(k)) /\ op' \in [Ops -> Op]
        /\ faults' \in 0..MaxFaults /\ faults' >= faults
    BY <1>2, <2>1, AdvanceCloses, AdvanceType DEF TypeOK
  <2>3. /\ ~Hidden(op[k].old)' /\ ~Hidden(k + 1)'
        /\ ~Exists(op[k].old)' \/ ~Exists(k + 1)'
    BY <1>2, <1>3, <2>1, <2>2, CloseByDeleting
  <2>4. TypeOK' /\ Ledger' /\ TaskOK' /\ StepOK'
    BY <1>1, <1>2, <1>3, <1>4, <2>2, <2>3, TaskEnds
  <2> QED
    BY <1>1, <2>2, <2>4, HistoryKept, SelectedOutside
<1>5. CASE /\ task' = Idle /\ Advance(task.op, "needs_repair", 0, 1) /\ UNCHANGED row
           /\ reading' = task.new
  <2>1. Advance(k, "needs_repair", 0, 1)
    BY <1>2, <1>5
  <2>2. OpsKept /\ op' \in [Ops -> Op] /\ faults' \in 0..MaxFaults /\ faults' >= faults
    BY <1>2, <2>1, AdvanceKeeps, AdvanceType DEF TypeOK
  <2>3. TypeOK' /\ Ledger' /\ TaskOK' /\ StepOK'
    BY <1>1, <1>2, <1>5, <2>2, TaskEnds
  <2> QED
    BY <1>1, <2>2, <2>3, HistoryKept, SelectedOutside
<1>6. CASE Fault /\ Goto("restore_old") /\ UNCHANGED <<row, op, reading>>
  <2>1. RowsKept /\ OpsKept /\ faults' \in 0..MaxFaults /\ faults' >= faults
    BY <1>6, RowsUnchanged, OpsUnchanged, FaultType DEF TypeOK
  <2>2. Ledger'
    BY <1>1, <2>1, HistoryKept, QuietKeepsLedger
  <2>3. TaskOK' /\ task' \in Task /\ task'.step = "restore_old" /\ task'.old = task.old
    BY <1>1, <1>6, <2>1, TaskMoves DEF EditSteps
  <2>4. StepOK'
    BY <1>3, <1>6, <2>3 DEF StepOK, Live, Recallable, Orphan
  <2>5. TypeOK'
    BY <1>1, <1>6, <2>1, <2>3, HistoryKept DEF TypeOK
  <2> QED
    BY <1>1, <2>1, <2>2, <2>3, <2>4, <2>5, HistoryKept, SelectedOutside
<1>7. CASE /\ AbortEdit /\ row' \in {row, Gone(task.old)}
           /\ reading' \in {reading, 0, task.new}
  <2>1. reading' \in {0} \cup Ids
    BY <1>2, <1>7 DEF TypeOK
  <2> QED
    BY <1>1, <1>2, <1>3, <1>7, <2>1, AbortEditEnds
<1> QED
  BY <1>4, <1>5, <1>6, <1>7 DEF DeleteOld

\* A failed read-back turns a row that is not deleted into an orphan and does no more.
LEMMA ReadBackStep ==
  ASSUME IInv, ReadBack PROVE IInv'
<1> USE DEF IInv
<1>1. /\ op' = op /\ task' = task /\ phase' = phase /\ todo' = todo /\ reading' = 0
      /\ waiting' = waiting /\ UNCHANGED history /\ phase = "up" /\ reading \in Ids
      /\ faults' \in 0..MaxFaults /\ faults' >= faults
      /\ row' = row \/ row' = Orphaned(reading)
  BY FaultType DEF ReadBack, TypeOK
<1>2. RowsKept /\ row' \in [Ids -> Row]
  <2>1. CASE row' = row
    BY <2>1, RowsUnchanged DEF TypeOK
  <2>2. CASE Live(reading) /\ row' = [row EXCEPT ![reading].state = "orphan"]
    <3>1. row \in [Ids -> Row] /\ row[reading] \in Row
      BY <1>1 DEF TypeOK
    <3>2. PICK r : r = [row[reading] EXCEPT !.state = "orphan"]
      OBVIOUS
    <3>3. r \in Row /\ r.state = "orphan" /\ r.prev = row[reading].prev
      BY <3>1, <3>2 DEF Row
    <3>4. row' = [row EXCEPT ![reading] = r]
      BY <2>2, <3>2
    <3> QED
      BY <1>1, <2>2, <3>1, <3>3, <3>4 DEF RowsKept, Live, Recallable, Orphan
  <2> QED
    BY <1>1, <2>1, <2>2 DEF Orphaned
<1>3. OpsKept
  BY <1>1, OpsUnchanged
<1>4. Ledger'
  BY <1>1, <1>2, <1>3, QuietKeepsLedger, HistoryKept
<1>5. TaskOK' /\ StepOK'
  BY <1>1, <1>2, <1>3, TaskKept
<1>6. Selected'
  BY <1>1, HistoryKept, SelectedOutside
<1>7. TypeOK'
  BY <1>1, <1>2, HistoryKept DEF TypeOK
<1> QED
  BY <1>4, <1>5, <1>6, <1>7

\* The compensation deletes the new row.
LEMMA DeleteNewStep ==
  ASSUME IInv, DeleteNew PROVE IInv'
<1> USE Ids1 DEF IInv
<1>1. /\ phase = "up" /\ task.step = "delete_new" /\ task # Idle /\ task' = Idle
      /\ phase' = phase /\ todo' = todo /\ waiting' = waiting
      /\ reading' = reading /\ reading' \in {0} \cup Ids /\ UNCHANGED history
  BY NotIdle DEF DeleteNew, Editing, lock, TypeOK
<1>2. PICK k \in Ops : k = task.op /\ Open(k) /\ task.new = k + 1 /\ task.old = op[k].old
  BY <1>1, TaskFacts DEF TaskOK
<1>3. ~Live(k + 1) /\ ~Hidden(op[k].old)
  BY <1>1, <1>2 DEF StepOK, NewGivenUp
<1>4. CASE row' = Gone(task.new) /\ Advance(task.op, "failed", 0, 1)
  <2>1. Advance(k, "failed", 0, 1) /\ row' = Gone(k + 1)
    BY <1>2, <1>4
  <2>2. /\ (OpsKept \/ OpsClosed(k)) /\ op' \in [Ops -> Op]
        /\ faults' \in 0..MaxFaults /\ faults' >= faults
    BY <1>2, <2>1, AdvanceCloses, AdvanceType DEF TypeOK
  <2>3. /\ ~Hidden(op[k].old)' /\ ~Hidden(k + 1)'
        /\ ~Exists(op[k].old)' \/ ~Exists(k + 1)'
    BY <1>2, <1>3, <2>1, <2>2, CloseByDeleting
  <2>4. TypeOK' /\ Ledger' /\ TaskOK' /\ StepOK'
    BY <1>1, <1>2, <1>3, <2>1, <2>2, <2>3, TaskEnds
  <2> QED
    BY <1>1, <2>2, <2>4, HistoryKept, SelectedOutside
<1>5. CASE Advance(task.op, "needs_repair", 0, 1) /\ UNCHANGED row
  <2>1. Advance(k, "needs_repair", 0, 1)
    BY <1>2, <1>5
  <2>2. OpsKept /\ op' \in [Ops -> Op] /\ faults' \in 0..MaxFaults /\ faults' >= faults
    BY <1>2, <2>1, AdvanceKeeps, AdvanceType DEF TypeOK
  <2>3. TypeOK' /\ Ledger' /\ TaskOK' /\ StepOK'
    BY <1>1, <1>2, <1>5, <2>2, TaskEnds
  <2> QED
    BY <1>1, <2>2, <2>3, HistoryKept, SelectedOutside
<1>6. CASE AbortEdit /\ row' \in {row, Gone(task.new)}
  BY <1>1, <1>2, <1>3, <1>6, AbortEditEnds
<1> QED
  BY <1>1, <1>4, <1>5, <1>6 DEF DeleteNew

\* A visit without a fault closes its entry and leaves the others as they were.
LEMMA SelectedAfterVisit ==
  ASSUME IInv, NEW k \in Ops, phase' = phase, phase = "repair", since' = since,
         picked' = picked, faults' \in 0..MaxFaults, faults' >= faults,
         todo' = todo \ {k},
         faults' = faults => \A j \in Ops : Open(j)' => j # k /\ op'[j] = op[j]
  PROVE  Selected'
<1>1. Selected /\ picked \subseteq Ops /\ since <= faults /\ faults \in Nat /\ since \in Nat
  BY ReplacementAssumption DEF IInv, Selected, TypeOK
<1>2. since' <= faults' /\ (faults' = since' => faults' = faults /\ faults = since)
  BY <1>1, ReplacementAssumption
<1>3. ASSUME faults' = faults, faults = since PROVE Unvisited' /\ InOrder'
  <2>1. Unvisited /\ InOrder
    BY <1>1, <1>3 DEF Selected
  <2>2. \A j \in Ops : Open(j)' => j # k /\ Open(j) /\ op'[j] = op[j]
    BY <1>3 DEF Open
  <2>3. Unvisited'
    BY <1>1, <2>1, <2>2 DEF Unvisited
  <2>4. InOrder'
    BY <2>1, <2>2 DEF InOrder, Selectable
  <2> QED
    BY <2>3, <2>4
<1> QED
  BY <1>2, <1>3 DEF Selected

\* An entry that is closed without a fault is the only one that changes.
LEMMA AdvanceClosesOne ==
  ASSUME TypeOK, NEW k \in Ops, NEW n, NEW e,
         NEW s \in {"completed", "failed"}, Advance(k, s, n, e), faults' = faults
  PROVE  \A j \in Ops : Open(j)' => j # k /\ op'[j] = op[j]
<1>1. op' = Advanced(k, s, n, e)
  BY FaultType DEF Advance, TypeOK
<1>2. \A j \in Ops : j # k => op'[j] = op[j]
  BY <1>1 DEF Advanced, TypeOK
<1>3. op'[k].status = s
  BY <1>1 DEF Advanced, TypeOK, Op
<1> QED
  BY <1>2, <1>3 DEF Open

\* The new row the repair works with is the one the entry created.
LEMMA FoundRow ==
  ASSUME TypeOK, Ledger, NEW k \in Ops, Open(k)
  PROVE  /\ Candidates(op[k].old) = {} => ~Exists(k + 1)
         /\ \A i \in Candidates(op[k].old) : i = k + 1
<1> USE Ids1
<1>1. Used(k) /\ op[k].old \in Ids /\ op[k].old # 0
  BY DEF Ledger, Shape, Used, Open
<1>2. Exists(k + 1) => k + 1 \in Candidates(op[k].old)
  BY DEF Candidates, Ledger, Shape
<1>3. ASSUME NEW i \in Candidates(op[k].old) PROVE i = k + 1
  <2>1. i \in Ids /\ Exists(i) /\ row[i].prev = op[k].old
    BY <1>3 DEF Candidates
  <2>2. i # 1
    BY <1>1, <2>1 DEF Ledger, Shape
  <2>3. PICK j \in Ops : i = j + 1
    BY <2>1, <2>2
  <2>4. Used(j) /\ op[j].old = op[k].old
    BY <2>1, <2>3 DEF Ledger, Shape
  <2>5. j = k
    BY <2>1, <2>3, <2>4 DEF Ledger, SameOld
  <2> QED
    BY <2>3, <2>5
<1> QED
  BY <1>2, <1>3

\* A repair of a replacement decides from the rows it reads.
LEMMA RepairReplaceStep ==
  ASSUME IInv, NEW k \in Ops, RepairReplace(k) PROVE IInv'
<1> USE Ids1 DEF IInv
<1> DEFINE o == op[k].old
           found == Candidates(o)
           n == IF op[k].new # 0 THEN op[k].new
                ELSE IF found = {} THEN 0 ELSE CHOOSE i \in found : TRUE
           verdict == Verdict(o, n, op[k].text)
<1>1. /\ phase = "repair" /\ task.step = "idle" /\ k \in todo
      /\ row' = row /\ waiting' = waiting /\ reading' = reading /\ phase' = phase
      /\ reading' \in {0} \cup Ids /\ UNCHANGED history
  BY DEF RepairReplace, Repairing, lock, TypeOK
<1>2. /\ Open(k) /\ Used(k) /\ o \in Ids /\ o # k + 1 /\ k + 1 \in Ids
  BY <1>1 DEF TaskOK, Ledger, Shape, Used, Open
<1>3. n = k + 1 \/ (n = 0 /\ ~Exists(k + 1))
  <2>1. CASE op[k].new # 0
    BY <1>2, <2>1 DEF Ledger, Shape
  <2>2. CASE op[k].new = 0 /\ found = {}
    BY <1>2, <2>2, FoundRow
  <2>3. CASE op[k].new = 0 /\ found # {}
    <3>1. (CHOOSE i \in found : TRUE) \in found
      BY <2>3
    <3> QED
      BY <1>2, <2>3, <3>1, FoundRow
  <2> QED
    BY <2>1, <2>2, <2>3
<1>4. /\ verdict \in {"commit", "rollback", "revert", "close"}
      /\ verdict \in {"commit", "rollback"} => n = k + 1 /\ Exists(k + 1)
      /\ verdict \in {"revert", "close"} => ~Exists(k + 1)
      /\ verdict \in {"rollback", "revert"} => Exists(o)
      /\ verdict = "close" => ~Exists(o)
  <2> HIDE DEF n, found, o
  <2>1. CASE n # 0 /\ Exists(n)
    BY <1>2, <1>3, <2>1 DEF Verdict
  <2>2. CASE ~(n # 0 /\ Exists(n)) /\ Exists(o)
    <3>1. verdict = "revert"
      BY <2>2 DEF Verdict
    <3> QED
      BY <1>3, <2>2, <3>1
  <2>3. CASE ~(n # 0 /\ Exists(n)) /\ ~Exists(o)
    <3>1. verdict = "close"
      BY <2>3 DEF Verdict
    <3> QED
      BY <1>3, <2>3, <3>1
  <2> QED
    BY <2>1, <2>2, <2>3
<1> HIDE DEF verdict, n, found, o
<1>5. CASE verdict = "close" /\ Advance(k, "failed", 0, 1) /\ todo' = todo \ {k} /\ UNCHANGED task
  <2>1. task' = Idle
    BY <1>1, <1>5, TaskFacts DEF TaskOK, Idle, RepairSteps
  <2>2. /\ (OpsKept \/ OpsClosed(k)) /\ op' \in [Ops -> Op]
        /\ faults' \in 0..MaxFaults /\ faults' >= faults
    BY <1>2, <1>5, AdvanceCloses, AdvanceType DEF TypeOK
  <2>3. /\ ~Hidden(op[k].old)' /\ ~Hidden(k + 1)'
        /\ ~Exists(op[k].old)' \/ ~Exists(k + 1)'
    <3>1. op'[k].old = op[k].old
      BY <2>2 DEF OpsKept, OpsClosed, SameEntry
    <3>2. ~Exists(op[k].old) /\ ~Exists(k + 1)
      BY <1>4, <1>5 DEF o
    <3> QED
      BY <1>1, <3>1, <3>2 DEF Hidden, Exists
  <2>4. TypeOK' /\ Ledger' /\ TaskOK' /\ StepOK'
    BY <1>1, <1>2, <1>5, <2>1, <2>2, <2>3, TaskEnds
  <2>5. Selected'
    BY <1>1, <1>2, <1>5, <2>2, HistoryKept, SelectedAfterVisit, AdvanceClosesOne
  <2> QED
    BY <2>4, <2>5
<1>6. CASE verdict # "close" /\ task' = [step |-> verdict, op |-> k, old |-> o, new |-> n]
           /\ UNCHANGED <<op, todo, faults>>
  <2>1. op' = op /\ todo' = todo /\ faults' = faults /\ RowsKept /\ OpsKept
    BY <1>1, <1>6, RowsUnchanged, OpsUnchanged
  <2>2. Ledger'
    BY <1>1, <2>1, HistoryKept, QuietKeepsLedger
  <2>3. /\ task'.step = verdict /\ task'.op = k /\ task'.old = o /\ task'.new = n
        /\ task' \in Task /\ task' # Idle
    BY <1>2, <1>3, <1>4, <1>6 DEF Task, RepairSteps, Idle
  <2>4. TaskOK'
    <3>1. \A j \in todo' : Open(j)'
      BY <2>1, TodoKept
    <3>2. Open(k)' /\ op'[k].old = o /\ (Exists(k + 1)' <=> Exists(k + 1))
      BY <1>1, <1>2, <2>1 DEF o, Open, Exists
    <3>3. verdict \in RepairSteps
      BY <1>4, <1>6 DEF RepairSteps
    <3> QED
      BY <1>1, <1>3, <2>1, <2>3, <3>1, <3>2, <3>3 DEF TaskOK
  <2>5. StepOK'
    BY <1>1, <1>4, <1>6, <2>3 DEF StepOK, Exists
  <2>6. TypeOK'
    BY <1>1, <2>1, <2>3, HistoryKept DEF TypeOK
  <2>7. Selected'
    BY <1>1, <2>1, HistoryKept, SelectedQuiet
  <2> QED
    BY <2>2, <2>4, <2>5, <2>6, <2>7
<1>7. CASE AdvanceAfterFault(k, "needs_repair", 0, 1) /\ todo' = todo \ {k} /\ UNCHANGED task
  <2>1. task' = Idle
    BY <1>1, <1>7, TaskFacts DEF TaskOK, Idle, RepairSteps
  <2>2. OpsKept /\ op' \in [Ops -> Op] /\ faults' \in 0..MaxFaults /\ faults' = faults + 1
    BY <1>2, <1>7, AdvanceKeeps, FaultType DEF TypeOK, AdvanceAfterFault
  <2>3. TypeOK' /\ Ledger' /\ TaskOK' /\ StepOK'
    BY <1>1, <1>2, <1>7, <2>1, <2>2, TaskEnds DEF TypeOK
  <2>4. Selected'
    BY <1>1, <1>2, <1>7, <2>2, HistoryKept, SelectedAfterVisit DEF TypeOK
  <2> QED
    BY <2>3, <2>4
<1> QED
  BY <1>5, <1>6, <1>7 DEF RepairReplace, verdict, n, found, o

\* A fault ends the visit of an entry, which stays open.
LEMMA VisitFails ==
  ASSUME IInv, phase = "repair", task # Idle, NEW n \in {0, task.new},
         Visited, AdvanceAfterFault(task.op, "needs_repair", n, 1),
         row' = row \/ \E x \in Ids : row' = Gone(x) /\ ~Live(x),
         waiting' = waiting, reading' = reading, phase' = phase, UNCHANGED history
  PROVE  IInv'
<1> USE DEF IInv
<1>1. PICK k \in Ops : k = task.op /\ Open(k) /\ task.new \in {0, k + 1}
  BY TaskFacts
<1>2. /\ AdvanceAfterFault(k, "needs_repair", n, 1) /\ task' = Idle /\ todo' = todo \ {k}
      /\ n \in {0, k + 1}
  BY <1>1 DEF Visited
<1>3. OpsKept /\ op' \in [Ops -> Op]
  BY <1>1, <1>2, AdvanceKeeps DEF TypeOK
<1>4. faults' \in 0..MaxFaults /\ faults' >= faults /\ faults' # faults
  BY <1>2, AdvanceType, FaultType DEF AdvanceAfterFault, TypeOK
<1>a. reading' \in {0} \cup Ids
  BY DEF TypeOK
<1>5. TypeOK' /\ Ledger' /\ TaskOK' /\ StepOK'
  BY <1>1, <1>2, <1>3, <1>4, <1>a, TaskEnds
<1>6. Selected'
  BY <1>2, <1>4, HistoryKept, SelectedAfterVisit
<1> QED
  BY <1>5, <1>6

\* Taking the switch up again publishes what the operation names.
LEMMA RepairSwitchStep ==
  ASSUME IInv, RepairSwitch PROVE IInv'
<1> USE Ids1 DEF IInv
<1>1. /\ phase = "repair" /\ task.step \in {"commit", "rollback", "revert"} /\ task # Idle
      /\ waiting' = waiting /\ reading' = reading /\ phase' = phase /\ UNCHANGED history
  BY NotIdle DEF RepairSwitch, lock
<1> DEFINE w == IF task.step = "commit" THEN task.new ELSE task.old
           next == [commit |-> "purge_old", rollback |-> "purge_new", revert |-> "purge_gone"]
<1>2. PICK k \in Ops : k = task.op /\ Open(k) /\ task.new \in {0, k + 1} /\ task.old # k + 1
  BY <1>1, TaskFacts
<1> HIDE Ids1 DEF IInv
<1>3. CASE /\ CanSwitch(task.old, task.new, w, op[task.op].text)
           /\ row' = Switched(task.old, task.new, w, op[task.op].shown)
           /\ Goto(next[task.step]) /\ UNCHANGED <<op, todo, faults>>
  <2>1. op' = op /\ todo' = todo /\ faults' = faults /\ Exists(w)
    BY <1>3 DEF CanSwitch
  <2>a. IInv /\ StepOK /\ {"purge_old", "purge_new", "purge_gone"} \subseteq RepairSteps
    BY DEF IInv, RepairSteps
  <2>b. /\ row' = Switched(task.old, task.new, w, op[k].shown) /\ Goto(next[task.step])
        /\ phase # "up" /\ k + 1 \in Ids
    BY <1>1, <1>2, <1>3, Ids1
  <2>2. CASE task.step = "commit"
    <3>1. w = k + 1 /\ next[task.step] = "purge_old" /\ task.new = k + 1
      BY <1>2, <2>a, <2>2 DEF StepOK
    <3>a. w \in {task.old, k + 1} /\ next[task.step] \in RepairSteps
      BY <2>a, <3>1
    <3> HIDE DEF w, next
    <3>2. /\ TypeOK' /\ Ledger' /\ TaskOK' /\ Selected'
          /\ task'.step = "purge_old" /\ task'.op = k /\ task'.old = task.old
          /\ task'.new = k + 1
          /\ ~Live(task.old)' /\ (row[task.old].state)' # "dead" /\ ~Hidden(k + 1)'
      BY <1>1, <1>2, <2>a, <2>b, <2>1, <3>a, <3>1, SwitchStep
    <3>3. StepOK'
      BY <3>2 DEF StepOK, OldGivenUp
    <3> QED
      BY <3>2, <3>3 DEF IInv
  <2>3. CASE task.step = "rollback"
    <3>1. w = task.old /\ next[task.step] = "purge_new" /\ task.new = k + 1
      BY <1>2, <2>a, <2>3 DEF StepOK
    <3>a. w \in {task.old, k + 1} /\ next[task.step] \in RepairSteps
      BY <2>a, <3>1
    <3> HIDE DEF w, next
    <3>2. /\ TypeOK' /\ Ledger' /\ TaskOK' /\ Selected'
          /\ task'.step = "purge_new" /\ task'.op = k /\ task'.old = task.old
          /\ task'.new = task.new /\ \A i \in Ids : Exists(i)' <=> Exists(i)
          /\ ~Live(k + 1)' /\ (row[k + 1].state)' # "dead" /\ ~Hidden(task.old)'
      BY <1>1, <1>2, <2>a, <2>b, <2>1, <3>a, <3>1, SwitchStep
    <3>3. StepOK'
      BY <3>1, <3>2 DEF StepOK, NewGivenUp
    <3> QED
      BY <3>2, <3>3 DEF IInv
  <2>4. CASE task.step = "revert"
    <3>1. w = task.old /\ next[task.step] = "purge_gone" /\ ~Exists(k + 1)
      BY <1>2, <2>a, <2>4 DEF StepOK
    <3>a. w \in {task.old, k + 1} /\ next[task.step] \in RepairSteps
      BY <2>a, <3>1
    <3> HIDE DEF w, next
    <3>2. /\ TypeOK' /\ Ledger' /\ TaskOK' /\ Selected'
          /\ task'.step = "purge_gone" /\ task'.op = k /\ task'.old = task.old
          /\ task'.new = task.new /\ \A i \in Ids : Exists(i)' <=> Exists(i)
          /\ ~Live(k + 1)' /\ (row[k + 1].state)' # "dead" /\ ~Hidden(task.old)'
      BY <1>1, <1>2, <2>a, <2>b, <2>1, <3>a, <3>1, SwitchStep
    <3>3. StepOK'
      BY <2>b, <3>1, <3>2 DEF StepOK, NewGivenUp
    <3> QED
      BY <3>2, <3>3 DEF IInv
  <2> QED
    BY <1>1, <2>2, <2>3, <2>4
<1>4. CASE RepairRaises /\ UNCHANGED row
  BY <1>1, <1>4, Ids1, VisitFails DEF RepairRaises, IInv
<1> QED
  BY <1>3, <1>4 DEF RepairSwitch

\* A purge by a repair removes the row the operation gave up.
LEMMA RepairPurgeStep ==
  ASSUME IInv, RepairPurge PROVE IInv'
<1> USE Ids1 DEF IInv
<1>1. /\ phase = "repair" /\ task.step \in {"purge_old", "purge_new", "purge_gone"}
      /\ task # Idle /\ waiting' = waiting /\ reading' = reading /\ phase' = phase
      /\ reading' \in {0} \cup Ids /\ UNCHANGED history
  BY NotIdle DEF RepairPurge, lock, TypeOK
<1> DEFINE side == IF task.step = "purge_old" THEN task.old ELSE task.new
           purged == IF side = 0 THEN row ELSE Gone(side)
           known == IF task.step = "purge_gone" THEN 0 ELSE task.new
<1>2. PICK k \in Ops : /\ k = task.op /\ Open(k) /\ task.new \in {0, k + 1}
                      /\ task.old # k + 1 /\ task.old = op[k].old /\ task.old \in Ids
                      /\ task.old # 0 /\ k + 1 \in Ids
  <2>1. task.op \in Ops /\ 0 \notin Ids
    BY <1>1, TaskFacts
  <2> QED
    BY <1>1, <2>1, TaskFacts
<1>3. /\ task.step = "purge_old" =>
           side = op[k].old /\ task.new = k + 1 /\ ~Hidden(k + 1) /\ ~Live(op[k].old)
      /\ task.step # "purge_old" =>
           /\ side \in {0, k + 1} /\ ~Hidden(op[k].old) /\ ~Live(k + 1)
           /\ side = 0 => ~Exists(k + 1)
  BY <1>1, <1>2 DEF StepOK, OldGivenUp, NewGivenUp
<1>4. (side = 0 /\ purged = row) \/ (side \in Ids /\ side \in {op[k].old, k + 1} /\ purged = Gone(side) /\ ~Live(side))
  BY <1>2, <1>3
<1>5. CASE /\ row' = purged /\ Visited
           /\ IF task.step = "purge_old" THEN Advance(task.op, "completed", known, 0)
              ELSE Advance(task.op, "failed", known, 1)
  <2>1. known \in {0, k + 1}
    BY <1>2
  <2>2. PICK s \in {"completed", "failed"}, e \in {0, 1}, n \in {0, k + 1} :
          Advance(k, s, n, e)
    <3> HIDE DEF known
    <3> QED
      BY <1>2, <1>5, <2>1
  <2>3. /\ (OpsKept \/ OpsClosed(k)) /\ op' \in [Ops -> Op]
        /\ faults' \in 0..MaxFaults /\ faults' >= faults
    BY <1>2, <2>2, AdvanceCloses, AdvanceType DEF TypeOK
  <2>4. /\ ~Hidden(op[k].old)' /\ ~Hidden(k + 1)'
        /\ ~Exists(op[k].old)' \/ ~Exists(k + 1)'
    <3>1. CASE side = 0
      <4>1. op'[k].old = op[k].old
        BY <2>3 DEF OpsKept, OpsClosed, SameEntry
      <4>2. row' = row /\ ~Hidden(op[k].old) /\ ~Exists(k + 1)
        BY <1>2, <1>3, <1>5, <3>1
      <4> QED
        BY <4>1, <4>2 DEF Hidden, Exists
    <3>2. CASE side # 0
      BY <1>2, <1>3, <1>4, <1>5, <2>3, <3>2, CloseByDeleting
    <3> QED
      BY <3>1, <3>2
  <2>5. task' = Idle /\ todo' = todo \ {k} /\ (row' = row \/ \E x \in Ids : row' = Gone(x) /\ ~Live(x))
    BY <1>2, <1>4, <1>5 DEF Visited
  <2>6. TypeOK' /\ Ledger' /\ TaskOK' /\ StepOK'
    BY <1>1, <1>2, <2>3, <2>4, <2>5, TaskEnds
  <2>7. faults' = faults => \A j \in Ops : Open(j)' => j # k /\ op'[j] = op[j]
    BY <2>2, AdvanceClosesOne
  <2>8. Selected'
    BY <1>1, <2>3, <2>5, <2>7, HistoryKept, SelectedAfterVisit
  <2> QED
    BY <2>6, <2>8
<1>6. CASE RepairRaises /\ row' \in {row, purged}
  BY <1>1, <1>4, <1>6, VisitFails DEF RepairRaises
<1>7. CASE Visited /\ AdvanceAfterFault(task.op, "needs_repair", known, 1) /\ UNCHANGED row
  BY <1>1, <1>7, VisitFails
<1> QED
  BY <1>5, <1>6, <1>7 DEF RepairPurge

\* The end of a pass: every operation it collected was visited.
LEMMA FinishRepairStep ==
  ASSUME IInv, FinishRepair PROVE IInv'
<1> USE DEF IInv
<1>1. /\ row' = row /\ op' = op /\ task' = task /\ phase' = "up" /\ todo' = todo /\ todo = {}
      /\ faults' = faults /\ waiting' = waiting /\ reading' = reading /\ UNCHANGED history
      /\ phase = "repair" /\ task.step = "idle"
  BY DEF FinishRepair, Repairing, lock
<1>2. RowsKept /\ OpsKept
  BY <1>1, RowsUnchanged, OpsUnchanged
<1>3. Ledger'
  BY <1>1, <1>2, QuietKeepsLedger, HistoryKept
<1>4. task = Idle
  BY <1>1 DEF TaskOK, RepairSteps
<1>5. TaskOK' /\ StepOK'
  BY <1>1, <1>4, IdleKeeps
<1>6. Selected'
  BY <1>1, HistoryKept, SelectedOutside DEF TypeOK
<1>7. TypeOK'
  BY <1>1, HistoryKept DEF TypeOK
<1> QED
  BY <1>3, <1>5, <1>6, <1>7

-----------------------------------------------------------------------------
(***************************************************************************)
(* The theorems.                                                           *)
(***************************************************************************)

\* The invariant holds at first.
LEMMA InitIInv ==
  ASSUME Init PROVE IInv
<1> USE Ids1, ReplacementAssumption
<1>1. PICK t \in Texts :
        /\ row = [i \in Ids |-> [state |-> IF i = 1 THEN "live" ELSE "absent",
                                 text |-> t, prev |-> 0]]
        /\ op = [k \in Ops |-> [status |-> "none", old |-> 0, new |-> 0, text |-> t,
                                shown |-> "live", retry |-> 0]]
  BY DEF Init
<1>2. /\ task = Idle /\ waiting = 0 /\ reading = 0 /\ phase = "up" /\ todo = {}
      /\ faults = 0 /\ forgotten = "no" /\ chained = "no" /\ since = 0 /\ picked = {}
  BY DEF Init
<1>3. TypeOK
  BY <1>1, <1>2 DEF TypeOK, Row, Op, Task, Idle
<1>4. \A k \in Ops : ~Used(k) /\ ~Open(k)
  BY <1>1 DEF Used, Open
<1>5. \A i \in Ids : /\ Exists(i) => i = 1
                     /\ ~Hidden(i) /\ row[i].state # "dead" /\ row[i].prev = 0
  BY <1>1 DEF Exists, Hidden
<1>6. Live(1) /\ \A i \in Ids : Live(i) => i = 1
  BY <1>1 DEF Live, Recallable, Orphan
<1>7. Ledger
  <2>1. Shape /\ SameOld /\ ClosedLost
    BY <1>4, <1>5 DEF Shape, SameOld, ClosedLost, Closed
  <2>2. HiddenIsLedgered /\ Solo /\ NeverLost /\ OneRecallable
    BY <1>4, <1>5, <1>6 DEF HiddenIsLedgered, Solo, NeverLost, Live, OneRecallable
  <2> QED
    BY <2>1, <2>2 DEF Ledger
<1>8. TaskOK /\ StepOK
  BY <1>2 DEF TaskOK, StepOK, Idle
<1>9. Selected
  BY <1>2 DEF Selected
<1> QED
  BY <1>3, <1>7, <1>8, <1>9 DEF IInv

\* A stutter preserves it.
LEMMA StutterStep ==
  ASSUME IInv, UNCHANGED vars PROVE IInv'
<1> USE DEF IInv
<1>1. /\ row' = row /\ op' = op /\ task' = task /\ phase' = phase /\ todo' = todo
      /\ faults' = faults /\ waiting' = waiting /\ reading' = reading /\ forgotten' = forgotten
      /\ chained' = chained /\ since' = since /\ picked' = picked
  BY DEF vars
<1>2. RowsKept /\ OpsKept
  BY <1>1, RowsUnchanged, OpsUnchanged
<1>3. Ledger'
  BY <1>1, <1>2, QuietKeepsLedger
<1>4. TaskOK' /\ StepOK'
  BY <1>1, <1>2, TaskKept
<1>5. Selected'
  BY <1>1, SelectedQuiet
<1>6. TypeOK'
  BY <1>1 DEF TypeOK
<1> QED
  BY <1>3, <1>4, <1>5, <1>6

\* Every step preserves it.
LEMMA NextIInv ==
  ASSUME IInv, [Next]_vars PROVE IInv'
<1>1. CASE \E m \in Ids : AskEdit(m)
  BY <1>1, AskEditStep
<1>2. CASE \E text \in Texts, k \in Ops : StartEdit(text, k)
  BY <1>2, StartEditStep
<1>3. CASE RefuseEdit
  BY <1>3, RefuseEditStep
<1>4. CASE \E m \in Ids, text \in Texts : CasUpdate(m, text)
  BY <1>4, CasUpdateStep
<1>5. CASE \E m \in Ids : Forget(m)
  BY <1>5, ForgetStep
<1>6. CASE Edit
  BY <1>6, StageNewStep, RecordNewStep, PublishNewStep, DeleteOldStep, ReadBackStep,
     RestoreOldStep, DeleteNewStep DEF Edit
<1>7. CASE Repair
  BY <1>7, RepairReplaceStep, RepairSwitchStep, RepairPurgeStep, FinishRepairStep DEF Repair
<1>8. CASE CancelEdit \/ Crash \/ Stop \/ Start
  BY <1>8, CancelEditStep, CrashStep, StopStep, StartStep
<1>9. CASE UNCHANGED vars
  BY <1>9, StutterStep
<1> QED
  BY <1>1, <1>2, <1>3, <1>4, <1>5, <1>6, <1>7, <1>8, <1>9 DEF Next

\* The inductive invariant of edits, other writers and the repair.
THEOREM Invariance == Spec => []IInv
<1>1. Init => IInv
  BY InitIInv
<1>2. IInv /\ [Next]_vars => IInv'
  BY NextIInv
<1> QED
  BY <1>1, <1>2, PTL DEF Spec

\* Rows, entries and the running task keep their types, for every number of edits,
\* retries and faults.
THEOREM ReplacementTypes == Spec => []TypeOK
<1>1. IInv => TypeOK
  BY DEF IInv
<1> QED
  BY <1>1, Invariance, PTL

\* The memory keeps a row that is recallable, or that only the failed read-back after its
\* commit has made an orphan, through every edit, fault, restart and repair.
THEOREM ReplacementNeverLoses == Spec => []NeverLost
<1>1. IInv => NeverLost
  BY DEF IInv, Ledger
<1> QED
  BY <1>1, Invariance, PTL

\* A hidden row always has an open entry that will restore or remove it.
THEOREM HiddenRowsAreLedgered == Spec => []HiddenIsLedgered
<1>1. IInv => HiddenIsLedgered
  BY DEF IInv, Ledger
<1> QED
  BY <1>1, Invariance, PTL

\* At most one row of a memory is recallable unless a row was edited too early.
THEOREM ReplacementIsExclusive == Spec => []OneRecallable
<1>1. IInv => OneRecallable
  BY DEF IInv, Ledger
<1> QED
  BY <1>1, Invariance, PTL

\* The repair identifies the new row of an entry by previous_id without ambiguity.
THEOREM RepairIdentifiesRow == Spec => []CandidateIsUnique
<1>1. IInv => CandidateIsUnique
  <2> SUFFICES ASSUME IInv, NEW k \in Ops, Open(k) PROVE
        \A i, j \in Candidates(op[k].old) : i = j
    BY DEF CandidateIsUnique
  <2> QED
    BY FoundRow DEF IInv
<1> QED
  BY <1>1, Invariance, PTL

\* A start without faults closes every entry of its batch, for any size of the batch, and
\* leaves only newer entries and those whose retries are used up.
THEOREM RepairConverges == Spec => []RepairSettles
<1>1. IInv => RepairSettles
  <2> SUFFICES ASSUME IInv, phase = "repair", todo = {}, faults = since
               PROVE  /\ \A k \in picked : ~Open(k)
                      /\ \A k \in Ops : Open(k) /\ op[k].retry < MaxRetries =>
                           \A j \in picked : j < k
    BY DEF RepairSettles
  <2>1. Unvisited /\ InOrder
    BY DEF IInv, Selected
  <2> QED
    BY <2>1 DEF Unvisited, InOrder, Selectable
<1> QED
  BY <1>1, Invariance, PTL
===============================================================================
