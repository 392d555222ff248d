--------------------------- MODULE MpmcQueueProofs ---------------------------
(***************************************************************************)
(* The inductive invariant of MpmcQueue holds for every set of threads,    *)
(* every capacity of at least two, every bound and every value set.        *)
(***************************************************************************)
EXTENDS MpmcQueue, FiniteSetTheorems, TLAPS

------------------------------------------------------------------------------
(* Arithmetic of cells and laps                                            *)

\* The cell of a ticket is a cell: buffer_[pos & buffer_mask_].
LEMMA CellRange == ASSUME NEW p \in Nat PROVE Cell(p) \in 0..Capacity-1
BY CapacityAssumption DEF Cell

\* A positive number of laps is at least Capacity tickets.
LEMMA LapsAtLeastOne ==
  ASSUME NEW d \in Int, d >= 1
  PROVE  Capacity * d >= Capacity
<1>1. Capacity * (d - 1) \in Nat BY CapacityAssumption
<1>2. Capacity * (d - 1) = Capacity * d - Capacity BY CapacityAssumption
<1>3. Capacity * d \in Int BY CapacityAssumption
<1> QED BY <1>1, <1>2, <1>3, CapacityAssumption

\* A ticket is a number of laps and the index of its cell.
LEMMA CellLaps ==
  ASSUME NEW p \in Nat
  PROVE  \E a \in Int : p = Capacity * a + Cell(p)
<1>1. /\ p \div Capacity \in Int
      /\ p = Capacity * (p \div Capacity) + Cell(p)
  BY CapacityAssumption DEF Cell
<1> QED BY <1>1

\* The distance of two tickets in laps and cells.
LEMMA CellDistance ==
  ASSUME NEW p \in Nat, NEW q \in Nat
  PROVE  \E d \in Int : /\ Capacity * d \in Int
                        /\ q - p = Capacity * d + Cell(q) - Cell(p)
<1>1. PICK a \in Int : p = Capacity * a + Cell(p) BY CellLaps
<1>2. PICK b \in Int : q = Capacity * b + Cell(q) BY CellLaps
<1>3. /\ Cell(p) \in Int /\ Cell(q) \in Int 
      /\ Capacity * a \in Int /\ Capacity * b \in Int 
      /\ b - a \in Int /\ Capacity * (b - a) \in Int
  BY CellRange, CapacityAssumption
<1>4. Capacity * (b - a) = Capacity * b - Capacity * a BY CapacityAssumption
<1>5. q - p = Capacity * (b - a) + Cell(q) - Cell(p)
  BY <1>1, <1>2, <1>3, <1>4, CapacityAssumption
<1> QED BY <1>3, <1>5

\* Two tickets of one cell are at least a lap apart.
LEMMA CellSpread ==
  ASSUME NEW p \in Nat, NEW q \in Nat, Cell(p) = Cell(q), p < q
  PROVE p+Capacity <= q
<1>1. PICK d \in Int : Capacity * d \in Int /\ q - p = Capacity * d + Cell(q) - Cell(p)
  BY CellDistance
<1>2. Capacity * d = q - p BY <1>1, CellRange, CapacityAssumption
<1>3. d >= 1
  <2> SUFFICES ASSUME d <= 0 PROVE FALSE OBVIOUS
  <2>1. Capacity * (0 - d) \in Nat BY CapacityAssumption
  <2>2. Capacity * (0 - d) = 0 - Capacity * d BY CapacityAssumption
  <2> QED BY <2>1, <2>2, <1>2
<1> QED BY <1>2, <1>3, LapsAtLeastOne, CapacityAssumption

\* The ticket a lap later has the same cell: what DeqRelease relies on when it
\* stores pos + buffer_mask_ + 1.
LEMMA CellLap == ASSUME NEW p \in Nat PROVE Cell(p+Capacity) = Cell(p)
<1>1. p + Capacity \in Nat BY CapacityAssumption
<1>2. PICK d \in Int : /\ Capacity * d \in Int
                       /\ (p + Capacity) - p = Capacity * d + Cell(p + Capacity) - Cell(p)
  BY <1>1, CellDistance
<1>3. Cell(p) \in 0 .. Capacity - 1 /\ Cell(p + Capacity) \in 0 .. Capacity - 1
  BY <1>1, CellRange
<1>4. Cell(p) - Cell(p + Capacity) = Capacity * (d - 1)
  <2>1. Capacity * (d - 1) = Capacity * d - Capacity BY CapacityAssumption
  <2> QED BY <2>1, <1>2, <1>3, CapacityAssumption
<1>5. d = 1
  <2>1. CASE d - 1 >= 1 BY <2>1, <1>3, <1>4, LapsAtLeastOne, CapacityAssumption
  <2>2. CASE 0 - (d - 1) >= 1 
    <3>1. Capacity * (0 - (d - 1)) = 0 - Capacity * (d - 1) BY CapacityAssumption
    <3>2. Capacity * (0 - (d - 1)) >= Capacity BY <2>2, LapsAtLeastOne
    <3> QED BY <3>1, <3>2, <1>3, <1>4, CapacityAssumption
  <2> QED BY <2>1, <2>2
<1> QED BY <1>3, <1>4, <1>5, CapacityAssumption

------------------------------------------------------------------------------
(* Initial states                                                          *)

\* The constructor establishes the invariant: every cell is vacant for its own
\* index.
LEMMA InitIInv == Init => IInv
<1> SUFFICES ASSUME Init PROVE IInv
  OBVIOUS
<1>1. TypeOK
  BY CapacityAssumption DEF Init, TypeOK, Cells, Labels
<1>2. PositionInv
  BY CapacityAssumption DEF Init, PositionInv
<1>3. WriterInv /\ ReaderInv /\ TicketExclusive /\ LookInv
  BY DEF Init, WriterInv, ReaderInv, TicketExclusive, LookInv, LookOK, Holding, Writing, Reading
<1>4. WindowInv
  <2> SUFFICES ASSUME NEW p \in 0 .. Capacity - 1
               PROVE  Vacant(p)
    BY CapacityAssumption DEF WindowInv, Init
  <2>1. Cell(p) = p
    BY CapacityAssumption DEF Cell
  <2> QED
    BY <2>1, CapacityAssumption DEF Init, Vacant, Cells
<1> QED
  BY <1>1, <1>2, <1>3, <1>4 DEF IInv

------------------------------------------------------------------------------
(* Steps                                                                   *)

\* A step that only moves the locals of a thread that owns no ticket before or
\* after it preserves the invariant if LookInv holds of that thread after it.
LEMMA LocalStep ==
  ASSUME IInv, TypeOK', NEW t \in Threads, UNCHANGED shared,
         \A u \in Threads \ {t} : pc'[u] = pc[u] /\ pos'[u] = pos[u] /\ arg'[u] = arg[u],
         ~ Holding(t), ~ Holding(t)',
         LookOK(t)'
  PROVE  IInv'
<1>1. PositionInv'
  BY DEF IInv, PositionInv, shared
<1>2. WriterInv'
  BY DEF IInv, WriterInv, shared, Writing, Holding, Cell
<1>3. ReaderInv'
  BY DEF IInv, ReaderInv, shared, Reading, Holding, Cell
<1>4. TicketExclusive'
  BY DEF IInv, TicketExclusive, Holding, Writing, Reading
<1>5. WindowInv'
  <2> SUFFICES ASSUME NEW p \in dequeue_pos .. dequeue_pos + Capacity - 1
               PROVE  (Filled(p) \/ BeingFilled(p) \/ Vacant(p) \/ BeingVacated(p))'
    BY DEF WindowInv, shared
  <2>1. CASE Filled(p)
    BY <2>1 DEF Filled, shared, Cell
  <2>2. CASE BeingFilled(p)
    BY <2>2 DEF BeingFilled, shared, Cell, Holding, Writing
  <2>3. CASE Vacant(p)
    BY <2>3 DEF Vacant, shared, Cell
  <2>4. CASE BeingVacated(p)
    BY <2>4 DEF BeingVacated, shared, Cell, Holding, Reading
  <2> QED
    BY <2>1, <2>2, <2>3, <2>4 DEF IInv, WindowInv
<1>6. LookInv'
  BY DEF IInv, LookInv, LookOK, shared, Cell
<1> QED
  BY <1>1, <1>2, <1>3, <1>4, <1>5, <1>6 DEF IInv

\* The first load of enqueue_pos_ preserves the invariant.
LEMMA EnqCallStep ==
  ASSUME IInv, NEW t \in Threads, NEW v \in Values, EnqCall(t, v)
  PROVE  IInv'
<1> USE DEF IInv, EnqCall, Goto, Return, shared
<1>1. TypeOK'
  BY DEF TypeOK, Labels
<1>2. /\ UNCHANGED shared
      /\ ~ Holding(t) /\ ~ Holding(t)'
      /\ \A u \in Threads \ {t} : pc'[u] = pc[u] /\ pos'[u] = pos[u] /\ arg'[u] = arg[u]
  BY DEF TypeOK, Holding, Writing, Reading
<1>3. LookOK(t)'
  BY DEF TypeOK, LookInv, LookOK, Cell
<1> QED
  BY <1>1, <1>2, <1>3, LocalStep

\* The test on dif preserves it: what a thread saw of its cell is kept in LookInv.
LEMMA EnqLookStep ==
  ASSUME IInv, NEW t \in Threads, EnqLook(t)
  PROVE  IInv'
<1> USE DEF IInv, EnqLook, Goto, Return, shared
<1>1. TypeOK'
  <2>1. pc' \in [Threads -> Labels]
    BY DEF TypeOK, Labels
  <2>2. \/ pos' = pos /\ arg' = arg
        \/ pos' = [pos EXCEPT ![t] = 0] /\ arg' = [arg EXCEPT ![t] = NoValue]
    OBVIOUS
  <2>3. pos' \in [Threads -> Nat]
    <3>1. pos \in [Threads -> Nat]
      BY DEF TypeOK
    <3> QED
      BY ONLY <2>2, <3>1
  <2>4. arg' \in [Threads -> Values \union {NoValue}]
    BY <2>2 DEF TypeOK
  <2> QED
    BY <2>1, <2>3, <2>4 DEF TypeOK
<1>2. /\ UNCHANGED shared
      /\ ~ Holding(t) /\ ~ Holding(t)'
      /\ \A u \in Threads \ {t} : pc'[u] = pc[u] /\ pos'[u] = pos[u] /\ arg'[u] = arg[u]
  BY DEF TypeOK, Holding, Writing, Reading
<1>3. LookOK(t)'
  BY DEF TypeOK, LookInv, LookOK, Cell
<1> QED
  BY <1>1, <1>2, <1>3, LocalStep

\* The second load of enqueue_pos_, or the one of a failed exchange.
LEMMA EnqReloadStep ==
  ASSUME IInv, NEW t \in Threads, EnqReload(t) \/ EnqMiss(t)
  PROVE  IInv'
<1> USE DEF IInv, EnqReload, EnqMiss, Goto, Return, shared
<1>1. TypeOK'
  BY DEF TypeOK, Labels
<1>2. /\ UNCHANGED shared
      /\ ~ Holding(t) /\ ~ Holding(t)'
      /\ \A u \in Threads \ {t} : pc'[u] = pc[u] /\ pos'[u] = pos[u] /\ arg'[u] = arg[u]
  BY DEF TypeOK, Holding, Writing, Reading
<1>3. LookOK(t)'
  BY DEF TypeOK, LookInv, LookOK, Cell
<1> QED
  BY <1>1, <1>2, <1>3, LocalStep

\* The first load of dequeue_pos_ preserves the invariant.
LEMMA DeqCallStep ==
  ASSUME IInv, NEW t \in Threads, DeqCall(t) \/ DeqReload(t) \/ DeqMiss(t)
  PROVE  IInv'
<1> USE DEF IInv, DeqCall, DeqReload, DeqMiss, Goto, Return, shared
<1>1. TypeOK'
  BY DEF TypeOK, Labels
<1>2. /\ UNCHANGED shared
      /\ ~ Holding(t) /\ ~ Holding(t)'
      /\ \A u \in Threads \ {t} : pc'[u] = pc[u] /\ pos'[u] = pos[u] /\ arg'[u] = arg[u]
  BY DEF TypeOK, Holding, Writing, Reading
<1>3. LookOK(t)'
  BY DEF TypeOK, LookInv, LookOK, Cell
<1> QED
  BY <1>1, <1>2, <1>3, LocalStep

\* The test on dif in dequeue() preserves it.
LEMMA DeqLookStep ==
  ASSUME IInv, NEW t \in Threads, DeqLook(t)
  PROVE  IInv'
<1> USE DEF IInv, DeqLook, Goto, Return, shared
<1>1. TypeOK'
  <2>1. pc' \in [Threads -> Labels]
    BY DEF TypeOK, Labels
  <2>2. \/ pos' = pos /\ arg' = arg
        \/ pos' = [pos EXCEPT ![t] = 0] /\ arg' = [arg EXCEPT ![t] = NoValue]
    OBVIOUS
  <2>3. pos' \in [Threads -> Nat]
    <3>1. pos \in [Threads -> Nat]
      BY DEF TypeOK
    <3> QED
      BY ONLY <2>2, <3>1
  <2>4. arg' \in [Threads -> Values \union {NoValue}]
    BY <2>2 DEF TypeOK
  <2> QED
    BY <2>1, <2>3, <2>4 DEF TypeOK
<1>2. /\ UNCHANGED shared
      /\ ~ Holding(t) /\ ~ Holding(t)'
      /\ \A u \in Threads \ {t} : pc'[u] = pc[u] /\ pos'[u] = pos[u] /\ arg'[u] = arg[u]
  BY DEF TypeOK, Holding, Writing, Reading
<1>3. LookOK(t)'
  BY DEF TypeOK, LookInv, LookOK, Cell
<1> QED
  BY <1>1, <1>2, <1>3, LocalStep

\* The exchange on enqueue_pos_: the ticket was vacant, so the new owner is its
\* only owner.
LEMMA EnqClaimStep ==
  ASSUME IInv, NEW t \in Threads, EnqClaim(t)
  PROVE  IInv'
<1> USE DEF IInv, EnqClaim, Goto
<1>0. /\ enqueue_pos \in Nat /\ dequeue_pos \in Nat /\ pos[t] \in Nat
      /\ enqueue_pos = pos[t] /\ arg[t] \in Values
      /\ \A u \in Threads : pos[u] \in Nat
  BY DEF TypeOK, LookInv, LookOK
<1>1. TypeOK'
  <2>1. enqueue_pos' \in Nat /\ dequeue_pos' \in Nat
    BY <1>0
  <2>2. claimed' \in Seq(Values)
    BY <1>0 DEF TypeOK
  <2>3. pc' \in [Threads -> Labels]
    BY DEF TypeOK, Labels
  <2> QED
    BY <2>1, <2>2, <2>3 DEF TypeOK
<1>2. /\ \A k \in 1 .. enqueue_pos : claimed'[k] = claimed[k]
      /\ claimed'[enqueue_pos + 1] = arg[t]
      /\ Len(claimed') = enqueue_pos + 1
  BY <1>1 DEF TypeOK, PositionInv
<1>3. sequence[Cell(enqueue_pos)] = enqueue_pos
  BY DEF LookInv, LookOK
<1>4. enqueue_pos < dequeue_pos + Capacity
  <2>1. enqueue_pos <= dequeue_pos + Capacity
    BY DEF PositionInv
  <2>2. ASSUME enqueue_pos = dequeue_pos + Capacity
        PROVE  FALSE
    <3>1. sequence[Cell(dequeue_pos)] = dequeue_pos + Capacity
      BY <2>2, <1>3, CellLap DEF TypeOK
    <3>2. dequeue_pos \in dequeue_pos .. dequeue_pos + Capacity - 1
      BY <1>0, CapacityAssumption
    <3>3. ~ Vacant(dequeue_pos) /\ ~ BeingVacated(dequeue_pos)
      BY <2>2, <1>0, CapacityAssumption DEF Vacant, BeingVacated
    <3>4. Filled(dequeue_pos) \/ BeingFilled(dequeue_pos)
      BY <3>2, <3>3 DEF WindowInv
    <3> QED
      BY <3>1, <3>4, <1>0, CapacityAssumption DEF Filled, BeingFilled
  <2> QED
    BY ONLY <1>0, <2>1, <2>2, CapacityAssumption
<1>5. ~ Holding(t) /\ Writing(t)'
  BY DEF TypeOK, Holding, Writing, Reading
<1>6. \A u \in Threads : u # t => pc'[u] = pc[u] /\ pos'[u] = pos[u] /\ arg'[u] = arg[u]
  BY DEF TypeOK
<1>7. PositionInv'
  BY <1>2, <1>4, CapacityAssumption DEF PositionInv, TypeOK
<1>8. WriterInv'
  <2> SUFFICES ASSUME NEW u \in Threads, Writing(u)'
               PROVE  /\ dequeue_pos' <= pos'[u] /\ pos'[u] < enqueue_pos'
                      /\ sequence'[Cell(pos'[u])] = pos'[u]
                      /\ arg'[u] = claimed'[pos'[u] + 1]
                      /\ pc'[u] \in {"e_count", "e_pub"} => data'[Cell(pos'[u])] = arg'[u]
    BY DEF WriterInv, Cell
  <2>1. CASE u = t
    BY <2>1, <1>2, <1>3 DEF TypeOK, PositionInv
  <2>2. CASE u # t
    <3>1. Writing(u)
      BY <2>2, <1>6 DEF Writing
    <3> QED
      BY <2>2, <3>1, <1>2, <1>6 DEF WriterInv, TypeOK
  <2> QED
    BY <2>1, <2>2
<1>9. ReaderInv'
  <2> SUFFICES ASSUME NEW u \in Threads, Reading(u)'
               PROVE  /\ pos'[u] < dequeue_pos' /\ enqueue_pos' <= pos'[u] + Capacity
                      /\ sequence'[Cell(pos'[u])] = pos'[u] + 1
                      /\ pc'[u] = "d_data" => data'[Cell(pos'[u])] = claimed'[pos'[u] + 1]
    BY DEF ReaderInv, Cell
  <2>1. u # t /\ Reading(u)
    BY <1>6, <1>5 DEF Reading, Writing
  <2>2. /\ pos[u] < dequeue_pos /\ enqueue_pos <= pos[u] + Capacity
        /\ sequence[Cell(pos[u])] = pos[u] + 1
        /\ pc[u] = "d_data" => data[Cell(pos[u])] = claimed[pos[u] + 1]
    BY <2>1 DEF ReaderInv
  <2>3. enqueue_pos # pos[u] + Capacity
    <3> SUFFICES ASSUME enqueue_pos = pos[u] + Capacity
                 PROVE  FALSE
      OBVIOUS
    <3>1. Cell(enqueue_pos) = Cell(pos[u])
      BY <1>0, CellLap
    <3>2. sequence[Cell(pos[u])] = pos[u] + 1 /\ sequence[Cell(pos[u])] = pos[u] + Capacity
      BY <1>3, <2>2, <3>1
    <3> QED
      BY ONLY <3>2, <1>0, CapacityAssumption
  <2>4. claimed'[pos[u] + 1] = claimed[pos[u] + 1]
    BY <1>2, <2>2 DEF TypeOK, PositionInv
  <2>5. enqueue_pos + 1 <= pos[u] + Capacity
    BY ONLY <2>2, <2>3, <1>0, CapacityAssumption
  <2> QED
    BY <2>1, <2>2, <2>4, <2>5, <1>0, <1>6
<1>10. TicketExclusive'
  <2>1. \A u \in Threads : u # t /\ Holding(u)' =>
           Holding(u) /\ pos'[u] = pos[u] /\ pos[u] < enqueue_pos
    BY <1>6 DEF Holding, Writing, Reading, WriterInv, ReaderInv, PositionInv, TypeOK
  <2>2. pos'[t] = enqueue_pos
    BY DEF TypeOK
  <2> QED
    BY <2>1, <2>2 DEF TicketExclusive, TypeOK
<1>11. WindowInv'
  <2> SUFFICES ASSUME NEW p \in dequeue_pos .. dequeue_pos + Capacity - 1
               PROVE  (Filled(p) \/ BeingFilled(p) \/ Vacant(p) \/ BeingVacated(p))'
    BY DEF WindowInv
  <2>1. CASE Filled(p)
    <3>1. claimed'[p + 1] = claimed[p + 1]
      BY <2>1, <1>2 DEF Filled, TypeOK
    <3> QED
      BY <2>1, <3>1 DEF Filled, Cell, TypeOK
  <2>2. CASE BeingFilled(p)
    BY <2>2, <1>5, <1>6 DEF BeingFilled, Cell, TypeOK, Holding, Writing
  <2>3. CASE p = enqueue_pos
    BY <2>3, <1>3, <1>5 DEF BeingFilled, Cell, TypeOK
  <2>4. CASE Vacant(p) /\ p # enqueue_pos
    BY <2>4 DEF Vacant, Cell, TypeOK
  <2>5. CASE BeingVacated(p) /\ p # enqueue_pos
    <3>1. \A u \in Threads : Reading(u) => Reading(u)' /\ pos'[u] = pos[u]
      BY <1>5, <1>6 DEF Holding, Reading
    <3> QED
      BY <2>5, <3>1 DEF BeingVacated, Cell, TypeOK
  <2> QED
    BY <2>1, <2>2, <2>3, <2>4, <2>5 DEF WindowInv
<1>12. LookInv'
  BY <1>3, <1>6 DEF LookInv, LookOK, TypeOK, Cell
<1> QED
  BY <1>1, <1>7, <1>8, <1>9, <1>10, <1>11, <1>12

\* The two counter steps and the copy out of the cell change nothing the
\* invariant speaks of but the thread's place in its operation.
LEMMA HolderStep ==
  ASSUME IInv, TypeOK', NEW t \in Threads,
         UNCHANGED <<enqueue_pos, dequeue_pos, sequence, data, claimed, pos, arg>>,
         \A u \in Threads : u # t => pc'[u] = pc[u],
         \/ pc[t] = "e_count" /\ pc'[t] = "e_pub"
         \/ pc[t] = "d_data" /\ pc'[t] = "d_count"
         \/ pc[t] = "d_count" /\ pc'[t] = "d_rel"
  PROVE  IInv'
<1> USE DEF IInv
<1>1. \A u \in Threads : /\ Writing(u)' <=> Writing(u)
                         /\ Reading(u)' <=> Reading(u)
                         /\ Holding(u)' <=> Holding(u)
  BY DEF Writing, Reading, Holding
<1>2. PositionInv'
  BY DEF PositionInv
<1>3. WriterInv'
  BY <1>1 DEF WriterInv, Cell
<1>4. ReaderInv'
  BY <1>1 DEF ReaderInv, Cell
<1>5. TicketExclusive'
  BY <1>1 DEF TicketExclusive
<1>6. WindowInv'
  <2> SUFFICES ASSUME NEW p \in dequeue_pos .. dequeue_pos + Capacity - 1
               PROVE  (Filled(p) \/ BeingFilled(p) \/ Vacant(p) \/ BeingVacated(p))'
    BY DEF WindowInv
  <2>1. CASE Filled(p)
    BY <2>1 DEF Filled, Cell
  <2>2. CASE BeingFilled(p)
    BY <2>2, <1>1 DEF BeingFilled, Cell
  <2>3. CASE Vacant(p)
    BY <2>3 DEF Vacant, Cell
  <2>4. CASE BeingVacated(p)
    BY <2>4, <1>1 DEF BeingVacated, Cell
  <2> QED
    BY <2>1, <2>2, <2>3, <2>4 DEF WindowInv
<1>7. LookInv'
  BY DEF LookInv, LookOK, Cell
<1> QED
  BY <1>2, <1>3, <1>4, <1>5, <1>6, <1>7

\* The two updates of nstored_, and the copy out of the cell.
LEMMA CountStep ==
  ASSUME IInv, NEW t \in Threads, EnqCount(t) \/ DeqRead(t) \/ DeqCount(t)
  PROVE  IInv'
<1> USE DEF IInv, EnqCount, DeqRead, DeqCount, Goto, shared
<1>1. TypeOK'
  <2>1. CASE EnqCount(t)
    BY <2>1 DEF TypeOK, Labels
  <2>3. CASE DeqCount(t)
    BY <2>3 DEF TypeOK, Labels
  <2>2. CASE DeqRead(t)
    <3>1. data[Cell(pos[t])] \in Values \union {NoValue}
      BY CellRange, CapacityAssumption DEF TypeOK, Cells
    <3> QED
      BY <2>2, <3>1 DEF TypeOK, Labels
  <2> QED
    BY <2>1, <2>2, <2>3
<1>2. /\ UNCHANGED <<enqueue_pos, dequeue_pos, sequence, data, claimed, pos, arg>>
      /\ \A u \in Threads : u # t => pc'[u] = pc[u]
      /\ \/ pc[t] = "e_count" /\ pc'[t] = "e_pub"
         \/ pc[t] = "d_data" /\ pc'[t] = "d_count"
         \/ pc[t] = "d_count" /\ pc'[t] = "d_rel"
  BY DEF TypeOK
<1> QED
  BY <1>1, <1>2, HolderStep

\* The copy into the cell: only the owner of the ticket has that cell.
LEMMA EnqWriteStep ==
  ASSUME IInv, NEW t \in Threads, EnqWrite(t)
  PROVE  IInv'
<1> USE DEF IInv, EnqWrite, Goto
<1>1. /\ Writing(t) /\ Writing(t)' /\ ~ Reading(t)
      /\ dequeue_pos <= pos[t] /\ pos[t] < enqueue_pos
      /\ sequence[Cell(pos[t])] = pos[t]
      /\ arg[t] = claimed[pos[t] + 1]
      /\ \A u \in Threads : pos[u] \in Nat
  BY DEF TypeOK, Writing, Reading, WriterInv
<1>2. \A u \in Threads : u # t => pc'[u] = pc[u]
  BY DEF TypeOK
<1>3. \A u \in Threads : /\ Writing(u)' <=> Writing(u)
                         /\ Reading(u)' <=> Reading(u)
                         /\ Holding(u)' <=> Holding(u)
  BY <1>1, <1>2 DEF Writing, Reading, Holding
<1>4. TypeOK'
  BY DEF TypeOK, Labels
<1>5. data'[Cell(pos[t])] = arg[t]
  BY <1>1, CellRange, CapacityAssumption DEF TypeOK, Cells
<1>6. \A c \in Cells : c # Cell(pos[t]) => data'[c] = data[c]
  BY DEF TypeOK
<1>7. \A p \in Nat : Cell(p) \in Cells
  BY CellRange DEF Cells
<1>8. PositionInv'
  BY DEF PositionInv
<1>9. WriterInv'
  <2> SUFFICES ASSUME NEW u \in Threads, Writing(u)
               PROVE  /\ dequeue_pos <= pos[u] /\ pos[u] < enqueue_pos
                      /\ sequence[Cell(pos[u])] = pos[u]
                      /\ arg[u] = claimed[pos[u] + 1]
                      /\ pc'[u] \in {"e_count", "e_pub"} => data'[Cell(pos[u])] = arg[u]
    BY <1>3 DEF WriterInv, Cell
  <2>1. CASE u = t
    BY <2>1, <1>1, <1>5
  <2>2. CASE u # t
    <3>1. pos[u] # pos[t]
      BY <2>2, <1>1 DEF TicketExclusive, Holding
    <3>2. Cell(pos[u]) # Cell(pos[t])
      BY <3>1, <1>1 DEF WriterInv
    <3> QED
      BY <2>2, <3>2, <1>1, <1>2, <1>6, <1>7 DEF WriterInv
  <2> QED
    BY <2>1, <2>2
<1>10. ReaderInv'
  <2> SUFFICES ASSUME NEW u \in Threads, Reading(u)
               PROVE  /\ pos[u] < dequeue_pos /\ enqueue_pos <= pos[u] + Capacity
                      /\ sequence[Cell(pos[u])] = pos[u] + 1
                      /\ pc'[u] = "d_data" => data'[Cell(pos[u])] = claimed[pos[u] + 1]
    BY <1>3 DEF ReaderInv, Cell
  <2>1. u # t
    BY <1>1
  <2>2. /\ pos[u] < dequeue_pos /\ enqueue_pos <= pos[u] + Capacity
        /\ sequence[Cell(pos[u])] = pos[u] + 1
        /\ pc[u] = "d_data" => data[Cell(pos[u])] = claimed[pos[u] + 1]
    BY DEF ReaderInv
  <2>3. Cell(pos[u]) # Cell(pos[t])
    <3> SUFFICES ASSUME Cell(pos[u]) = Cell(pos[t])
                 PROVE  FALSE
      OBVIOUS
    <3>1. dequeue_pos \in Nat /\ enqueue_pos \in Nat
      BY DEF TypeOK
    <3>2. pos[u] < pos[t]
      BY <2>2, <1>1, <3>1
    <3>3. pos[u] + Capacity <= pos[t]
      BY <1>1, <3>2, CellSpread
    <3> QED
      BY ONLY <1>1, <2>2, <3>1, <3>3, CapacityAssumption
  <2> QED
    BY <2>1, <2>2, <2>3, <1>1, <1>2, <1>6, <1>7
<1>11. TicketExclusive'
  BY <1>3 DEF TicketExclusive
<1>12. WindowInv'
  <2> SUFFICES ASSUME NEW p \in dequeue_pos .. dequeue_pos + Capacity - 1
               PROVE  (Filled(p) \/ BeingFilled(p) \/ Vacant(p) \/ BeingVacated(p))'
    BY DEF WindowInv
  <2>1. p \in Nat
    BY DEF TypeOK
  <2>2. CASE Filled(p)
    <3>1. Cell(p) # Cell(pos[t])
      BY <2>1, <2>2, <1>1, CellSpread, CapacityAssumption DEF Filled, TypeOK
    <3> QED
      BY <2>1, <2>2, <3>1, <1>6, <1>7 DEF Filled, Cell
  <2>3. CASE BeingFilled(p)
    BY <2>3, <1>3 DEF BeingFilled, Cell
  <2>4. CASE Vacant(p)
    BY <2>4 DEF Vacant, Cell
  <2>5. CASE BeingVacated(p)
    BY <2>5, <1>3 DEF BeingVacated, Cell
  <2> QED
    BY <2>2, <2>3, <2>4, <2>5 DEF WindowInv
<1>13. LookInv'
  BY <1>2 DEF LookInv, LookOK, Cell, TypeOK
<1> QED
  BY <1>4, <1>8, <1>9, <1>10, <1>11, <1>12, <1>13

\* The store of sequence_ in enqueue(): the cell goes from being filled to filled.
LEMMA EnqPublishStep ==
  ASSUME IInv, NEW t \in Threads, EnqPublish(t)
  PROVE  IInv'
<1> USE DEF IInv, EnqPublish, Return
<1>1. /\ Writing(t) /\ ~ Reading(t) /\ ~ Holding(t)' /\ ~ Writing(t)' /\ ~ Reading(t)'
      /\ dequeue_pos <= pos[t] /\ pos[t] < enqueue_pos
      /\ sequence[Cell(pos[t])] = pos[t]
      /\ arg[t] = claimed[pos[t] + 1]
      /\ data[Cell(pos[t])] = arg[t]
  BY DEF TypeOK, Writing, Reading, Holding, WriterInv
<1>0. /\ enqueue_pos \in Nat /\ dequeue_pos \in Nat
      /\ \A u \in Threads : pos[u] \in Nat
  BY DEF TypeOK
<1>2. \A u \in Threads : u # t => pc'[u] = pc[u] /\ pos'[u] = pos[u] /\ arg'[u] = arg[u]
  BY DEF TypeOK
<1>3. \A u \in Threads : /\ Writing(u)' <=> (u # t /\ Writing(u))
                         /\ Reading(u)' <=> Reading(u)
                         /\ Holding(u)' <=> (u # t /\ Holding(u))
  BY <1>1, <1>2 DEF Writing, Reading, Holding
<1>4. TypeOK'
  <2>1. sequence' \in [Cells -> Nat]
    <3>1. pos[t] + 1 \in Nat /\ sequence \in [Cells -> Nat]
      BY <1>0 DEF TypeOK
    <3>2. sequence' = [sequence EXCEPT ![Cell(pos[t])] = pos[t] + 1]
      OBVIOUS
    <3> QED
      BY ONLY <3>1, <3>2
  <2>2. pos' \in [Threads -> Nat]
    BY DEF TypeOK
  <2>3. pc' \in [Threads -> Labels] /\ arg' \in [Threads -> Values \union {NoValue}]
    BY DEF TypeOK, Labels
  <2> QED
    BY <2>1, <2>2, <2>3 DEF TypeOK
<1>5. \A p \in Nat : Cell(p) \in Cells
  BY CellRange DEF Cells
<1>6. /\ sequence'[Cell(pos[t])] = pos[t] + 1
      /\ \A c \in Cells : c # Cell(pos[t]) => sequence'[c] = sequence[c]
  BY <1>0, <1>5 DEF TypeOK
<1>7. PositionInv'
  BY DEF PositionInv
<1>8. WriterInv'
  <2> SUFFICES ASSUME NEW u \in Threads, u # t, Writing(u)
               PROVE  /\ dequeue_pos <= pos[u] /\ pos[u] < enqueue_pos
                      /\ sequence'[Cell(pos[u])] = pos[u]
                      /\ arg[u] = claimed[pos[u] + 1]
                      /\ pc[u] \in {"e_count", "e_pub"} => data[Cell(pos[u])] = arg[u]
    BY <1>2, <1>3 DEF WriterInv, Cell
  <2>1. pos[u] # pos[t]
    BY <1>1 DEF TicketExclusive, Holding
  <2>2. Cell(pos[u]) # Cell(pos[t])
    BY <2>1, <1>1 DEF WriterInv
  <2> QED
    BY <2>2, <1>0, <1>5, <1>6 DEF WriterInv
<1>9. ReaderInv'
  <2> SUFFICES ASSUME NEW u \in Threads, u # t, Reading(u)
               PROVE  /\ pos[u] < dequeue_pos /\ enqueue_pos <= pos[u] + Capacity
                      /\ sequence'[Cell(pos[u])] = pos[u] + 1
                      /\ pc[u] = "d_data" => data[Cell(pos[u])] = claimed[pos[u] + 1]
    BY <1>1, <1>2, <1>3 DEF ReaderInv, Cell
  <2>1. /\ pos[u] < dequeue_pos /\ enqueue_pos <= pos[u] + Capacity
        /\ sequence[Cell(pos[u])] = pos[u] + 1
        /\ pc[u] = "d_data" => data[Cell(pos[u])] = claimed[pos[u] + 1]
    BY DEF ReaderInv
  <2>2. Cell(pos[u]) # Cell(pos[t])
    <3>1. pos[u] < pos[t]
      BY <2>1, <1>0, <1>1
    <3>2. ASSUME Cell(pos[u]) = Cell(pos[t]) PROVE pos[u] + Capacity <= pos[t]
      BY <1>0, <3>1, <3>2, CellSpread
    <3> QED
      BY ONLY <1>0, <1>1, <2>1, <3>2, CapacityAssumption
  <2> QED
    BY <2>1, <2>2, <1>0, <1>5, <1>6
<1>10. TicketExclusive'
  BY <1>2, <1>3 DEF TicketExclusive
<1>11. WindowInv'
  <2> SUFFICES ASSUME NEW p \in dequeue_pos .. dequeue_pos + Capacity - 1
               PROVE  (Filled(p) \/ BeingFilled(p) \/ Vacant(p) \/ BeingVacated(p))'
    BY DEF WindowInv
  <2>1. p \in Nat /\ Cell(p) \in Cells
    BY <1>0, <1>5
  <2>2. CASE p = pos[t]
    BY <2>2, <1>0, <1>1, <1>6 DEF Filled, Cell
  <2>3. CASE p # pos[t]
    <3>1. Cell(p) # Cell(pos[t])
      <4>1. ASSUME p < pos[t], Cell(p) = Cell(pos[t]) PROVE FALSE
        <5>1. p + Capacity <= pos[t]
          BY <4>1, <2>1, <1>0, CellSpread
        <5>2. enqueue_pos <= dequeue_pos + Capacity
          BY DEF PositionInv
        <5> QED
          BY ONLY <5>1, <5>2, <1>0, <1>1, CapacityAssumption, p \in dequeue_pos .. dequeue_pos + Capacity - 1
      <4>2. ASSUME pos[t] < p, Cell(p) = Cell(pos[t]) PROVE FALSE
        <5>1. pos[t] + Capacity <= p
          BY <4>2, <2>1, <1>0, CellSpread
        <5> QED
          BY ONLY <5>1, <1>0, <1>1, CapacityAssumption, p \in dequeue_pos .. dequeue_pos + Capacity - 1
      <4> QED
        BY <4>1, <4>2, <2>1, <2>3, <1>0
    <3>2. sequence'[Cell(p)] = sequence[Cell(p)]
      BY <2>1, <3>1, <1>6
    <3>3. CASE Filled(p)
      BY <3>2, <3>3 DEF Filled, Cell
    <3>4. CASE BeingFilled(p)
      BY <3>2, <3>4, <2>3, <1>2, <1>3 DEF BeingFilled, Cell
    <3>5. CASE Vacant(p)
      BY <3>2, <3>5 DEF Vacant, Cell
    <3>6. CASE BeingVacated(p)
      <4>1. \A u \in Threads : Reading(u) => Reading(u)' /\ pos'[u] = pos[u]
        BY <1>1, <1>2, <1>3
      <4> QED
        BY <3>2, <3>6, <4>1 DEF BeingVacated, Cell
    <3> QED
      BY <3>3, <3>4, <3>5, <3>6 DEF WindowInv
  <2> QED
    BY <2>2, <2>3
<1>12. LookInv'
  <2>1. LookOK(t)'
    BY DEF LookOK, TypeOK
  <2>2. ASSUME NEW u \in Threads, u # t
        PROVE  LookOK(u)'
    <3>1. LookOK(u)
      BY DEF LookInv
    <3>2. Cell(pos[u]) \in Cells /\ pos[u] \in Nat /\ sequence[Cell(pos[u])] \in Nat
      BY <1>0, <1>5 DEF TypeOK
    <3>3. CASE Cell(pos[u]) # Cell(pos[t])
      BY <2>2, <3>1, <3>2, <3>3, <1>2, <1>6 DEF LookOK, Cell
    <3>4. CASE Cell(pos[u]) = Cell(pos[t])
      <4>1. sequence'[Cell(pos[u])] = sequence[Cell(pos[u])] + 1
        BY <3>4, <1>1, <1>6
      <4>2. ~ (pc[u] = "e_cas" /\ pos[u] = enqueue_pos)
        BY <3>1, <3>4, <1>0, <1>1 DEF LookOK
      <4>3. ~ (pc[u] = "d_cas" /\ pos[u] = dequeue_pos)
        <5> SUFFICES ASSUME pc[u] = "d_cas", pos[u] = dequeue_pos
                     PROVE  FALSE
          OBVIOUS
        <5>1. pos[t] = pos[u] + 1
          BY <3>1, <3>4, <1>1 DEF LookOK
        <5>2. pos[u] + Capacity <= pos[t]
          BY <5>1, <3>4, <1>0, CellSpread
        <5> QED
          BY ONLY <5>1, <5>2, <3>2, CapacityAssumption
      <4> QED
        BY <2>2, <3>1, <3>2, <4>1, <4>2, <4>3, <1>0, <1>2 DEF LookOK, Cell
    <3> QED
      BY <3>3, <3>4
  <2> QED
    BY <2>1, <2>2 DEF LookInv
<1> QED
  BY <1>4, <1>7, <1>8, <1>9, <1>10, <1>11, <1>12

\* The exchange on dequeue_pos_: the window of tickets moves on by one.
LEMMA DeqClaimStep ==
  ASSUME IInv, NEW t \in Threads, DeqClaim(t)
  PROVE  IInv'
<1> USE DEF IInv, DeqClaim, Goto
<1>1. /\ enqueue_pos \in Nat /\ dequeue_pos \in Nat
      /\ \A u \in Threads : pos[u] \in Nat
      /\ pos[t] = dequeue_pos
      /\ enqueue_pos <= dequeue_pos + Capacity
      /\ sequence[Cell(dequeue_pos)] = dequeue_pos + 1
  BY DEF TypeOK, PositionInv, LookInv, LookOK
<1>2. /\ dequeue_pos < enqueue_pos
      /\ data[Cell(dequeue_pos)] = claimed[dequeue_pos + 1]
  <2>1. dequeue_pos \in dequeue_pos .. dequeue_pos + Capacity - 1
    BY <1>1, CapacityAssumption
  <2>2. ~ BeingFilled(dequeue_pos) /\ ~ Vacant(dequeue_pos) /\ ~ BeingVacated(dequeue_pos)
    BY <1>1, CapacityAssumption DEF BeingFilled, Vacant, BeingVacated
  <2>3. Filled(dequeue_pos)
    BY <2>1, <2>2 DEF WindowInv
  <2> QED
    BY <2>3 DEF Filled
<1>3. /\ ~ Holding(t) /\ ~ Writing(t)' /\ Reading(t)' /\ ~ Reading(t) /\ ~ Writing(t)
      /\ \A u \in Threads : u # t => pc'[u] = pc[u]
  BY DEF TypeOK, Holding, Writing, Reading
<1>4. \A u \in Threads : /\ Writing(u)' <=> Writing(u)
                         /\ Reading(u)' <=> (u = t \/ Reading(u))
  BY <1>3 DEF Writing, Reading
<1>5. TypeOK'
  <2>1. dequeue_pos' \in Nat
    BY <1>1
  <2>2. pc' \in [Threads -> Labels]
    BY DEF TypeOK, Labels
  <2> QED
    BY <2>1, <2>2 DEF TypeOK
<1>6. PositionInv'
  BY <1>1, <1>2, CapacityAssumption DEF PositionInv
<1>7. WriterInv'
  <2> SUFFICES ASSUME NEW u \in Threads, Writing(u)
               PROVE  /\ dequeue_pos + 1 <= pos[u] /\ pos[u] < enqueue_pos
                      /\ sequence[Cell(pos[u])] = pos[u]
                      /\ arg[u] = claimed[pos[u] + 1]
                      /\ pc'[u] \in {"e_count", "e_pub"} => data[Cell(pos[u])] = arg[u]
    BY <1>1, <1>4 DEF WriterInv, Cell
  <2>1. /\ dequeue_pos <= pos[u] /\ pos[u] < enqueue_pos
        /\ sequence[Cell(pos[u])] = pos[u]
        /\ arg[u] = claimed[pos[u] + 1]
        /\ pc[u] \in {"e_count", "e_pub"} => data[Cell(pos[u])] = arg[u]
        /\ u # t
    BY <1>3 DEF WriterInv
  <2>2. pos[u] # dequeue_pos
    BY <2>1, <1>1
  <2> QED
    BY <2>1, <2>2, <1>1, <1>3
<1>8. ReaderInv'
  <2> SUFFICES ASSUME NEW u \in Threads, Reading(u)'
               PROVE  /\ pos[u] < dequeue_pos + 1 /\ enqueue_pos <= pos[u] + Capacity
                      /\ sequence[Cell(pos[u])] = pos[u] + 1
                      /\ pc'[u] = "d_data" => data[Cell(pos[u])] = claimed[pos[u] + 1]
    BY <1>1 DEF ReaderInv, Cell
  <2>1. CASE u = t
    BY <2>1, <1>1, <1>2
  <2>2. CASE u # t
    BY <2>2, <1>1, <1>3, <1>4 DEF ReaderInv
  <2> QED
    BY <2>1, <2>2
<1>9. TicketExclusive'
  <2>1. \A u \in Threads : u # t /\ Holding(u)' => Holding(u) /\ pos[u] # dequeue_pos
    BY <1>1, <1>4 DEF Holding, WriterInv, ReaderInv
  <2> QED
    BY <2>1, <1>1 DEF TicketExclusive
<1>10. WindowInv'
  <2> SUFFICES ASSUME NEW p \in dequeue_pos + 1 .. dequeue_pos + Capacity
               PROVE  (Filled(p) \/ BeingFilled(p) \/ Vacant(p) \/ BeingVacated(p))'
    BY <1>1, CapacityAssumption DEF WindowInv
  <2>1. CASE p = dequeue_pos + Capacity
    <3>1. sequence[Cell(p)] = dequeue_pos + 1
      BY <2>1, <1>1, CellLap
    <3>2. BeingVacated(p)'
      BY <2>1, <3>1, <1>1, <1>3, CapacityAssumption DEF BeingVacated, Cell
    <3> QED
      BY <3>2
  <2>2. CASE p # dequeue_pos + Capacity
    <3>1. p \in dequeue_pos .. dequeue_pos + Capacity - 1
      BY <2>2, <1>1, CapacityAssumption
    <3>2. CASE Filled(p)
      BY <3>2 DEF Filled, Cell
    <3>3. CASE BeingFilled(p)
      BY <3>3, <1>4 DEF BeingFilled, Cell
    <3>4. CASE Vacant(p)
      BY <3>4 DEF Vacant, Cell
    <3>5. CASE BeingVacated(p)
      BY <3>5, <1>4 DEF BeingVacated, Cell
    <3> QED
      BY <3>1, <3>2, <3>3, <3>4, <3>5 DEF WindowInv
  <2> QED
    BY <2>1, <2>2
<1>11. LookInv'
  <2> SUFFICES ASSUME NEW u \in Threads, u # t
               PROVE  LookOK(u)'
    BY <1>3 DEF LookInv, LookOK, Reading
  <2>1. LookOK(u) /\ pc'[u] = pc[u]
    BY <1>3 DEF LookInv
  <2> QED
    BY <2>1, <1>1 DEF LookOK, Cell
<1> QED
  BY <1>5, <1>6, <1>7, <1>8, <1>9, <1>10, <1>11

\* The store of sequence_ in dequeue(): the cell is vacant for the next lap.
LEMMA DeqReleaseStep ==
  ASSUME IInv, NEW t \in Threads, DeqRelease(t)
  PROVE  IInv'
<1> USE DEF IInv, DeqRelease, Return
<1>1. /\ enqueue_pos \in Nat /\ dequeue_pos \in Nat
      /\ \A u \in Threads : pos[u] \in Nat
      /\ dequeue_pos <= enqueue_pos
      /\ pos[t] < dequeue_pos /\ enqueue_pos <= pos[t] + Capacity
      /\ sequence[Cell(pos[t])] = pos[t] + 1
  BY DEF TypeOK, PositionInv, ReaderInv, Reading
<1>2. /\ Reading(t) /\ ~ Writing(t) /\ ~ Holding(t)' /\ ~ Writing(t)' /\ ~ Reading(t)'
      /\ pc'[t] = "idle"
      /\ \A u \in Threads : u # t => pc'[u] = pc[u] /\ pos'[u] = pos[u] /\ arg'[u] = arg[u]
  BY DEF TypeOK, Holding, Writing, Reading
<1>3. \A u \in Threads : /\ Writing(u)' <=> Writing(u)
                         /\ Reading(u)' <=> (u # t /\ Reading(u))
                         /\ Holding(u)' <=> (u # t /\ Holding(u))
  BY <1>2 DEF Writing, Reading, Holding
<1>4. TypeOK'
  <2>1. sequence' \in [Cells -> Nat]
    <3>1. pos[t] + Capacity \in Nat /\ sequence \in [Cells -> Nat]
      BY <1>1, CapacityAssumption DEF TypeOK
    <3>2. sequence' = [sequence EXCEPT ![Cell(pos[t])] = pos[t] + Capacity]
      OBVIOUS
    <3> QED
      BY ONLY <3>1, <3>2
  <2>2. pos' \in [Threads -> Nat]
    BY DEF TypeOK
  <2>3. pc' \in [Threads -> Labels] /\ arg' \in [Threads -> Values \union {NoValue}]
    BY DEF TypeOK, Labels
  <2> QED
    BY <2>1, <2>2, <2>3 DEF TypeOK
<1>5. \A p \in Nat : Cell(p) \in Cells
  BY CellRange DEF Cells
<1>6. /\ sequence'[Cell(pos[t])] = pos[t] + Capacity
      /\ \A c \in Cells : c # Cell(pos[t]) => sequence'[c] = sequence[c]
  BY <1>1, <1>5 DEF TypeOK
<1>7. PositionInv'
  BY DEF PositionInv
<1>8. WriterInv'
  <2> SUFFICES ASSUME NEW u \in Threads, u # t, Writing(u)
               PROVE  /\ dequeue_pos <= pos[u] /\ pos[u] < enqueue_pos
                      /\ sequence'[Cell(pos[u])] = pos[u]
                      /\ arg[u] = claimed[pos[u] + 1]
                      /\ pc[u] \in {"e_count", "e_pub"} => data[Cell(pos[u])] = arg[u]
    BY <1>2, <1>3 DEF WriterInv, Cell
  <2>1. /\ dequeue_pos <= pos[u] /\ pos[u] < enqueue_pos
        /\ sequence[Cell(pos[u])] = pos[u]
    BY DEF WriterInv
  <2>2. Cell(pos[u]) # Cell(pos[t])
    <3>1. pos[t] < pos[u]
      BY ONLY <1>1, <2>1, u \in Threads, t \in Threads
    <3>2. ASSUME Cell(pos[u]) = Cell(pos[t]) PROVE pos[t] + Capacity <= pos[u]
      BY <1>1, <3>1, <3>2, CellSpread
    <3> QED
      BY ONLY <1>1, <2>1, <3>2, CapacityAssumption, u \in Threads, t \in Threads
  <2> QED
    BY <2>2, <1>1, <1>5, <1>6 DEF WriterInv
<1>9. ReaderInv'
  <2> SUFFICES ASSUME NEW u \in Threads, u # t, Reading(u)
               PROVE  /\ pos[u] < dequeue_pos /\ enqueue_pos <= pos[u] + Capacity
                      /\ sequence'[Cell(pos[u])] = pos[u] + 1
                      /\ pc[u] = "d_data" => data[Cell(pos[u])] = claimed[pos[u] + 1]
    BY <1>2, <1>3 DEF ReaderInv, Cell
  <2>1. /\ pos[u] < dequeue_pos /\ enqueue_pos <= pos[u] + Capacity
        /\ sequence[Cell(pos[u])] = pos[u] + 1
        /\ pc[u] = "d_data" => data[Cell(pos[u])] = claimed[pos[u] + 1]
    BY DEF ReaderInv
  <2>2. Cell(pos[u]) # Cell(pos[t])
    <3>1. pos[u] # pos[t]
      BY <1>2 DEF TicketExclusive, Holding
    <3> QED
      BY <2>1, <3>1, <1>1
  <2> QED
    BY <2>1, <2>2, <1>1, <1>5, <1>6
<1>10. TicketExclusive'
  BY <1>2, <1>3 DEF TicketExclusive
<1>11. WindowInv'
  <2> SUFFICES ASSUME NEW p \in dequeue_pos .. dequeue_pos + Capacity - 1
               PROVE  (Filled(p) \/ BeingFilled(p) \/ Vacant(p) \/ BeingVacated(p))'
    BY DEF WindowInv
  <2>1. p \in Nat /\ Cell(p) \in Cells /\ pos[t] + Capacity \in Nat
    BY <1>1, <1>5, CapacityAssumption
  <2>2. CASE p = pos[t] + Capacity
    <3>1. sequence'[Cell(p)] = p
      BY <2>2, <1>1, <1>6, CellLap
    <3>2. Vacant(p)'
      BY <2>2, <3>1, <1>1 DEF Vacant, Cell
    <3> QED
      BY <3>2
  <2>3. CASE p # pos[t] + Capacity
    <3>1. Cell(p) # Cell(pos[t])
      <4> SUFFICES ASSUME Cell(p) = Cell(pos[t])
                   PROVE  FALSE
        OBVIOUS
      <4>1. pos[t] + Capacity <= p
        BY <2>1, <1>1, CellSpread
      <4>2. Cell(pos[t] + Capacity) = Cell(p) /\ pos[t] + Capacity < p
        BY <4>1, <2>1, <2>3, <1>1, CellLap
      <4>3. (pos[t] + Capacity) + Capacity <= p
        BY <4>2, <2>1, CellSpread
      <4> QED
        BY ONLY <4>3, <1>1, CapacityAssumption, t \in Threads,
                p \in dequeue_pos .. dequeue_pos + Capacity - 1
    <3>2. sequence'[Cell(p)] = sequence[Cell(p)]
      BY <2>1, <3>1, <1>6
    <3>3. CASE Filled(p)
      BY <3>2, <3>3 DEF Filled, Cell
    <3>4. CASE BeingFilled(p)
      BY <3>2, <3>4, <1>2, <1>3 DEF BeingFilled, Cell
    <3>5. CASE Vacant(p)
      BY <3>2, <3>5 DEF Vacant, Cell
    <3>6. CASE BeingVacated(p)
      BY <3>2, <3>6, <2>3, <1>2, <1>3 DEF BeingVacated, Cell
    <3> QED
      BY <3>3, <3>4, <3>5, <3>6 DEF WindowInv
  <2> QED
    BY <2>2, <2>3
<1>12. LookInv'
  <2>1. LookOK(t)'
    BY <1>2 DEF LookOK
  <2>2. ASSUME NEW u \in Threads, u # t
        PROVE  LookOK(u)'
    <3>1. LookOK(u)
      BY DEF LookInv
    <3>2. Cell(pos[u]) \in Cells /\ pos[u] \in Nat /\ sequence[Cell(pos[u])] \in Nat
      BY <1>1, <1>5 DEF TypeOK
    <3>3. CASE Cell(pos[u]) # Cell(pos[t])
      BY <2>2, <3>1, <3>2, <3>3, <1>2, <1>6 DEF LookOK, Cell
    <3>4. CASE Cell(pos[u]) = Cell(pos[t])
      <4>1. sequence'[Cell(pos[u])] >= sequence[Cell(pos[u])] + 1
        BY <3>4, <1>1, <1>6, CapacityAssumption
      <4>2. ~ (pc[u] = "e_cas" /\ pos[u] = enqueue_pos)
        <5> SUFFICES ASSUME pc[u] = "e_cas", pos[u] = enqueue_pos
                     PROVE  FALSE
          OBVIOUS
        <5>1. pos[u] = pos[t] + 1
          BY <3>1, <3>4, <1>1 DEF LookOK
        <5>2. pos[t] + Capacity <= pos[u]
          BY <5>1, <3>4, <1>1, CellSpread
        <5> QED
          BY ONLY <5>1, <5>2, <1>1, CapacityAssumption, t \in Threads
      <4>3. ~ (pc[u] = "d_cas" /\ pos[u] = dequeue_pos)
        BY <3>1, <3>4, <1>1 DEF LookOK
      <4>4. sequence'[Cell(pos[u])] \in Nat
        BY <1>4, <3>2 DEF TypeOK
      <4> QED
        BY <2>2, <3>1, <3>2, <4>1, <4>2, <4>3, <4>4, <1>1, <1>2 DEF LookOK, Cell
    <3> QED
      BY <3>3, <3>4
  <2> QED
    BY <2>1, <2>2 DEF LookInv
<1> QED
  BY <1>4, <1>7, <1>8, <1>9, <1>10, <1>11, <1>12
------------------------------------------------------------------------------
(* Theorems                                                                *)

\* Every access of every operation preserves the invariant.
LEMMA NextIInv == IInv /\ [Next]_vars => IInv'
<1> SUFFICES ASSUME IInv, [Next]_vars
             PROVE  IInv'
  OBVIOUS
<1>1. CASE UNCHANGED vars
  <2> USE <1>1 DEF IInv, vars
  <2>1. TypeOK' /\ PositionInv' /\ TicketExclusive'
    BY DEF TypeOK, PositionInv, TicketExclusive, Holding, Writing, Reading
  <2>2. WriterInv' /\ ReaderInv'
    BY DEF WriterInv, ReaderInv, Writing, Reading, Cell
  <2>3. WindowInv'
    BY DEF WindowInv, Filled, BeingFilled, Vacant, BeingVacated, Writing, Reading, Cell
  <2>4. LookInv'
    BY DEF LookInv, LookOK, Cell
  <2> QED
    BY <2>1, <2>2, <2>3, <2>4
<1>2. ASSUME NEW t \in Threads, Enqueue(t)
      PROVE  IInv'
  BY <1>2, EnqCallStep, EnqLookStep, EnqReloadStep, EnqClaimStep, EnqWriteStep,
     CountStep, EnqPublishStep DEF Enqueue
<1>3. ASSUME NEW t \in Threads, Dequeue(t)
      PROVE  IInv'
  BY <1>3, DeqCallStep, DeqLookStep, DeqClaimStep, CountStep, DeqReleaseStep DEF Dequeue
<1> QED
  BY <1>1, <1>2, <1>3 DEF Next

\* In every execution of the queue, by any number of threads, every cell and
\* every ticket has at most one owner and every published cell holds the
\* element accepted with its ticket.
THEOREM QueueInvariant == Spec => []IInv
<1>1. Init => IInv
  BY InitIInv
<1>2. IInv /\ [Next]_vars => IInv'
  BY NextIInv
<1> QED
  BY <1>1, <1>2, PTL DEF Spec

\* Type correctness.
THEOREM QueueTypeOK == Spec => []TypeOK
<1>1. IInv => TypeOK
  BY DEF IInv
<1> QED
  BY <1>1, QueueInvariant, PTL

\* No two threads access the data of one cell at the same time, whatever the
\* capacity, the number of threads and how long each is stalled.
THEOREM QueueCellExclusive == Spec => []CellExclusive
<1>1. IInv => CellExclusive
  <2> SUFFICES ASSUME IInv, NEW t \in Threads, NEW u \in Threads,
                      t # u, Holding(t), Holding(u), Cell(pos[t]) = Cell(pos[u])
               PROVE  FALSE
    BY DEF CellExclusive
  <2> USE DEF IInv
  <2>1. /\ pos[t] \in Nat /\ pos[u] \in Nat /\ pos[t] # pos[u]
        /\ enqueue_pos \in Nat /\ dequeue_pos \in Nat
    BY DEF TypeOK, TicketExclusive
  <2>2. /\ pos[t] < enqueue_pos /\ enqueue_pos <= pos[t] + Capacity
        /\ pos[u] < enqueue_pos /\ enqueue_pos <= pos[u] + Capacity
    BY <2>1, CapacityAssumption DEF Holding, WriterInv, ReaderInv, PositionInv
  <2>3. pos[t] + Capacity <= pos[u] \/ pos[u] + Capacity <= pos[t]
    BY <2>1, CellSpread
  <2> QED
    BY ONLY <2>1, <2>2, <2>3, CapacityAssumption
<1> QED
  BY <1>1, QueueInvariant, PTL

\* A refused enqueue() or dequeue() is justified at the moment it decides.
THEOREM QueueRefusalHonest == Spec => RefusalHonest
<1> DEFINE Honest ==
      \A t \in Threads :
        pc'[t] = "idle" =>
          /\ pc[t] = "e_seq" =>
               \/ enqueue_pos = dequeue_pos + Capacity
               \/ \E u \in Threads : Reading(u) /\ pos[u] + Capacity = enqueue_pos
          /\ pc[t] = "d_seq" =>
               \/ enqueue_pos = dequeue_pos
               \/ \E u \in Threads : Writing(u) /\ pos[u] = dequeue_pos
<1>1. IInv /\ [Next]_vars => [Honest]_vars
  <2> SUFFICES ASSUME IInv, Next, NEW t \in Threads, pc'[t] = "idle"
               PROVE  /\ pc[t] = "e_seq" =>
                           \/ enqueue_pos = dequeue_pos + Capacity
                           \/ \E u \in Threads : Reading(u) /\ pos[u] + Capacity = enqueue_pos
                      /\ pc[t] = "d_seq" =>
                           \/ enqueue_pos = dequeue_pos
                           \/ \E u \in Threads : Writing(u) /\ pos[u] = dequeue_pos
    BY DEF Honest
  <2> USE DEF IInv
  <2>0. /\ pos[t] \in Nat /\ enqueue_pos \in Nat /\ dequeue_pos \in Nat
        /\ dequeue_pos <= enqueue_pos /\ enqueue_pos <= dequeue_pos + Capacity
        /\ LookOK(t)
    BY DEF TypeOK, PositionInv, LookInv
  <2>3. sequence[Cell(pos[t])] \in Nat
    BY <2>0, CellRange DEF TypeOK, Cells
  <2>1. CASE pc[t] = "e_seq"
    <3>1. sequence[Cell(pos[t])] < pos[t]
      BY <2>1 DEF Next, Enqueue, Dequeue, EnqCall, EnqLook, EnqReload, EnqClaim, EnqMiss,
                  EnqWrite, EnqCount, EnqPublish, DeqCall, DeqLook, DeqReload, DeqClaim,
                  DeqMiss, DeqRead, DeqCount, DeqRelease, Goto, Return, TypeOK
    <3>2. pos[t] = enqueue_pos
      BY <2>0, <2>1, <2>3, <3>1 DEF LookOK
    <3>3. CASE enqueue_pos # dequeue_pos + Capacity
      <4>1. enqueue_pos \in dequeue_pos .. dequeue_pos + Capacity - 1
        BY <2>0, <3>3, CapacityAssumption
      <4>2. BeingVacated(enqueue_pos)
        BY <4>1, <3>1, <3>2, <2>0 DEF WindowInv, Filled, BeingFilled, Vacant
      <4> QED
        BY <2>1, <4>2 DEF BeingVacated
    <3> QED
      BY <2>1, <3>3
  <2>2. CASE pc[t] = "d_seq"
    <3>1. sequence[Cell(pos[t])] < pos[t] + 1
      BY <2>2 DEF Next, Enqueue, Dequeue, EnqCall, EnqLook, EnqReload, EnqClaim, EnqMiss,
                  EnqWrite, EnqCount, EnqPublish, DeqCall, DeqLook, DeqReload, DeqClaim,
                  DeqMiss, DeqRead, DeqCount, DeqRelease, Goto, Return, TypeOK
    <3>2. pos[t] = dequeue_pos /\ sequence[Cell(pos[t])] \in Nat
      BY <2>0, <2>2, <2>3, <3>1 DEF LookOK
    <3>3. CASE enqueue_pos # dequeue_pos
      <4>1. dequeue_pos \in dequeue_pos .. dequeue_pos + Capacity - 1 /\ dequeue_pos < enqueue_pos
        BY <2>0, <3>3, CapacityAssumption
      <4>2. BeingFilled(dequeue_pos)
        BY <4>1, <3>1, <3>2, <2>0 DEF WindowInv, Filled, Vacant, BeingVacated
      <4> QED
        BY <2>2, <4>2 DEF BeingFilled
    <3> QED
      BY <2>2, <3>3
  <2> QED
    BY <2>1, <2>2
<1> QED
  BY <1>1, QueueInvariant, PTL DEF Spec, RefusalHonest

------------------------------------------------------------------------------
(* size()                                                                  *)

\* The owners of a ticket that have not counted it yet.
Storing == {t \in Threads : pc[t] \in {"e_data", "e_count"}}
Fetching == {t \in Threads : pc[t] \in {"d_data", "d_count"}}

\* The tickets of two threads are different, so a set of holders is no larger
\* than the range of its tickets.
LEMMA HoldersFit ==
  ASSUME TypeOK, TicketExclusive, NEW S, S \subseteq {t \in Threads : Holding(t)},
         NEW a \in Int, NEW b \in Int, a <= b, \A t \in S : pos[t] \in a .. b - 1
  PROVE  IsFiniteSet(S) /\ Cardinality(S) \in Nat /\ Cardinality(S) <= b - a
<1> DEFINE f == [t \in S |-> pos[t]]
<1>1. f \in Injection(S, a .. b - 1)
  <2>1. f \in [S -> a .. b - 1]
    OBVIOUS
  <2>2. ASSUME NEW t \in S, NEW u \in S, f[t] = f[u] PROVE t = u
    BY <2>2 DEF TicketExclusive
  <2> QED
    BY <2>1, <2>2 DEF Injection, IsInjective
<1>2. IsFiniteSet(a .. b - 1) /\ Cardinality(a .. b - 1) = b - a
  <2>1. b - 1 \in Int
    OBVIOUS
  <2> QED
    BY <2>1, FS_Interval
<1>3. IsFiniteSet(S) /\ Cardinality(S) <= Cardinality(a .. b - 1)
  <2> HIDE DEF f
  <2> QED
    BY <1>1, <1>2, FS_Injection
<1> QED
  BY <1>2, <1>3, FS_CardinalityType

\* The threads that are inside their window of the counter are few.
LEMMA InsideFit ==
  ASSUME IInv
  PROVE  /\ IsFiniteSet(Storing) /\ Cardinality(Storing) \in Nat
         /\ Cardinality(Storing) <= enqueue_pos - dequeue_pos
         /\ IsFiniteSet(Fetching) /\ Cardinality(Fetching) \in Nat
         /\ Cardinality(Fetching) <= dequeue_pos + Capacity - enqueue_pos
<1>1. /\ TypeOK /\ TicketExclusive /\ PositionInv
      /\ enqueue_pos \in Int /\ dequeue_pos \in Int /\ Capacity \in Int
      /\ dequeue_pos <= enqueue_pos /\ enqueue_pos <= dequeue_pos + Capacity
  BY CapacityAssumption DEF IInv, TypeOK, PositionInv
<1>2. /\ Storing \subseteq {t \in Threads : Holding(t)}
      /\ \A t \in Storing : pos[t] \in dequeue_pos .. enqueue_pos - 1
  BY DEF IInv, TypeOK, WriterInv, Storing, Holding, Writing
<1>3. /\ Fetching \subseteq {t \in Threads : Holding(t)}
      /\ \A t \in Fetching : pos[t] \in enqueue_pos - Capacity .. dequeue_pos - 1
  BY CapacityAssumption DEF IInv, TypeOK, ReaderInv, Fetching, Holding, Reading
<1>4. /\ IsFiniteSet(Storing) /\ Cardinality(Storing) \in Nat
      /\ Cardinality(Storing) <= enqueue_pos - dequeue_pos
  BY <1>1, <1>2, HoldersFit
<1>5. /\ IsFiniteSet(Fetching) /\ Cardinality(Fetching) \in Nat
      /\ Cardinality(Fetching) <= dequeue_pos - (enqueue_pos - Capacity)
  <2>1. enqueue_pos - Capacity \in Int /\ enqueue_pos - Capacity <= dequeue_pos
    BY <1>1
  <2> QED
    BY <1>1, <1>3, <2>1, HoldersFit
<1> QED
  BY <1>1, <1>4, <1>5

\* nstored_ counts the tickets given out and not handed out, but for those
\* whose owners are in their windows.
SizeInv ==
  nstored + dequeue_pos + Cardinality(Storing) = enqueue_pos + Cardinality(Fetching)

\* The exchange opens the window of its thread, the update of nstored_ closes it.
LEMMA SizeStep ==
  ASSUME IInv, SizeInv, NEW t \in Threads, Enqueue(t) \/ Dequeue(t)
  PROVE  SizeInv'
<1>1. /\ pc \in [Threads -> Labels] /\ nstored \in Int
      /\ enqueue_pos \in Nat /\ dequeue_pos \in Nat /\ pos \in [Threads -> Nat]
  BY DEF IInv, TypeOK
<1>2. /\ IsFiniteSet(Storing) /\ Cardinality(Storing) \in Nat
      /\ IsFiniteSet(Fetching) /\ Cardinality(Fetching) \in Nat
  BY InsideFit
<1>3. ASSUME NEW label, pc' = [pc EXCEPT ![t] = label]
      PROVE  /\ label \in {"e_data", "e_count"} => Storing' = Storing \union {t}
             /\ label \notin {"e_data", "e_count"} => Storing' = Storing \ {t}
             /\ label \in {"d_data", "d_count"} => Fetching' = Fetching \union {t}
             /\ label \notin {"d_data", "d_count"} => Fetching' = Fetching \ {t}
  BY <1>1, <1>3 DEF Storing, Fetching
<1>4. /\ t \in Storing <=> pc[t] \in {"e_data", "e_count"}
      /\ t \in Fetching <=> pc[t] \in {"d_data", "d_count"}
  BY DEF Storing, Fetching
<1>5. CASE EnqClaim(t)
  <2>1. /\ pc[t] = "e_cas" /\ pc' = [pc EXCEPT ![t] = "e_data"] /\ enqueue_pos' = enqueue_pos + 1
        /\ UNCHANGED <<nstored, dequeue_pos>>
    BY <1>5 DEF EnqClaim, Goto
  <2>2. Storing' = Storing \union {t} /\ t \notin Storing /\ Fetching' = Fetching
    BY <1>3, <1>4, <2>1
  <2>3. Cardinality(Storing') = Cardinality(Storing) + 1
    BY <1>2, <2>2, FS_AddElement
  <2> QED
    BY <1>1, <1>2, <2>1, <2>2, <2>3 DEF SizeInv
<1>6. CASE EnqCount(t)
  <2>1. /\ pc[t] = "e_count" /\ pc' = [pc EXCEPT ![t] = "e_pub"] /\ nstored' = nstored + 1
        /\ UNCHANGED <<enqueue_pos, dequeue_pos>>
    BY <1>6 DEF EnqCount, Goto
  <2>2. Storing' = Storing \ {t} /\ t \in Storing /\ Fetching' = Fetching
    <3>0. "e_pub" \notin {"e_data", "e_count"} /\ "e_pub" \notin {"d_data", "d_count"}
      OBVIOUS
    <3>1. Storing' = Storing \ {t} /\ Fetching' = Fetching \ {t}
      BY <1>3, <2>1, <3>0, Zenon
    <3>2. t \in Storing
      BY <1>4, <2>1
    <3>3. t \notin Fetching
      BY <1>4, <2>1
    <3> QED
      BY <3>1, <3>2, <3>3
  <2>3. Cardinality(Storing') = Cardinality(Storing) - 1
    BY <1>2, <2>2, FS_RemoveElement
  <2> QED
    BY <1>1, <1>2, <2>1, <2>2, <2>3 DEF SizeInv
<1>7. CASE DeqClaim(t)
  <2>1. /\ pc[t] = "d_cas" /\ pc' = [pc EXCEPT ![t] = "d_data"] /\ dequeue_pos' = dequeue_pos + 1
        /\ UNCHANGED <<nstored, enqueue_pos>>
    BY <1>7 DEF DeqClaim, Goto
  <2>2. Fetching' = Fetching \union {t} /\ t \notin Fetching /\ Storing' = Storing
    BY <1>3, <1>4, <2>1
  <2>3. Cardinality(Fetching') = Cardinality(Fetching) + 1
    BY <1>2, <2>2, FS_AddElement
  <2> QED
    BY <1>1, <1>2, <2>1, <2>2, <2>3 DEF SizeInv
<1>8. CASE DeqCount(t)
  <2>1. /\ pc[t] = "d_count" /\ pc' = [pc EXCEPT ![t] = "d_rel"] /\ nstored' = nstored - 1
        /\ UNCHANGED <<enqueue_pos, dequeue_pos>>
    BY <1>8 DEF DeqCount, Goto
  <2>2. Fetching' = Fetching \ {t} /\ t \in Fetching /\ Storing' = Storing
    <3>0. "d_rel" \notin {"e_data", "e_count"} /\ "d_rel" \notin {"d_data", "d_count"}
      OBVIOUS
    <3>1. Fetching' = Fetching \ {t} /\ Storing' = Storing \ {t}
      BY <1>3, <2>1, <3>0, Zenon
    <3>2. t \in Fetching
      BY <1>4, <2>1
    <3>3. t \notin Storing
      BY <1>4, <2>1
    <3> QED
      BY <3>1, <3>2, <3>3
  <2>3. Cardinality(Fetching') = Cardinality(Fetching) - 1
    BY <1>2, <2>2, FS_RemoveElement
  <2> QED
    BY <1>1, <1>2, <2>1, <2>2, <2>3 DEF SizeInv
\* The other accesses stay in a window or outside.
<1>9. ASSUME UNCHANGED <<nstored, enqueue_pos, dequeue_pos>>,
             NEW label, pc' = [pc EXCEPT ![t] = label],
             label \in {"e_data", "e_count"} <=> pc[t] \in {"e_data", "e_count"},
             label \in {"d_data", "d_count"} <=> pc[t] \in {"d_data", "d_count"}
      PROVE  SizeInv'
  <2>1. Storing' = Storing /\ Fetching' = Fetching
    BY <1>3, <1>4, <1>9
  <2> QED
    BY <1>9, <2>1 DEF SizeInv
<1>10. CASE \/ \E v \in Values : EnqCall(t, v)
            \/ EnqLook(t) \/ EnqReload(t) \/ EnqMiss(t) \/ EnqWrite(t) \/ EnqPublish(t)
  BY <1>9, <1>10 DEF EnqCall, EnqLook, EnqReload, EnqMiss, EnqWrite, EnqPublish, Goto, Return, shared
<1>11. CASE DeqCall(t) \/ DeqLook(t) \/ DeqReload(t) \/ DeqMiss(t) \/ DeqRead(t) \/ DeqRelease(t)
  BY <1>9, <1>11 DEF DeqCall, DeqLook, DeqReload, DeqMiss, DeqRead, DeqRelease, Goto, Return, shared
<1> QED
  BY <1>5, <1>6, <1>7, <1>8, <1>10, <1>11 DEF Enqueue, Dequeue

\* size() is between zero and the capacity, and exact up to the threads between
\* their exchange and their update of the counter: for any number of threads.
THEOREM QueueSizeExact == Spec => []SizeExact
<1>1. Init => SizeInv
  <2> SUFFICES ASSUME Init PROVE SizeInv
    OBVIOUS
  <2>1. Storing = {} /\ Fetching = {}
    BY DEF Init, Storing, Fetching
  <2> QED
    BY <2>1, FS_EmptySet DEF Init, SizeInv
<1>2. IInv /\ SizeInv /\ [Next]_vars => SizeInv'
  <2>1. UNCHANGED vars /\ SizeInv => SizeInv'
    BY DEF vars, SizeInv, Storing, Fetching
  <2> QED
    BY <2>1, SizeStep DEF Next
<1>3. IInv /\ SizeInv => SizeExact
  <2> SUFFICES ASSUME IInv, SizeInv PROVE SizeExact
    OBVIOUS
  <2>1. /\ nstored \in Int /\ enqueue_pos \in Nat /\ dequeue_pos \in Nat
        /\ Capacity \in Nat /\ dequeue_pos <= enqueue_pos
    BY CapacityAssumption DEF IInv, TypeOK, PositionInv
  <2>2. nstored \in 0 .. Capacity
    BY <2>1, InsideFit DEF SizeInv
  <2> QED
    BY <2>2 DEF SizeInv, SizeExact, Storing, Fetching
<1> QED
  BY <1>1, <1>2, <1>3, QueueInvariant, PTL DEF Spec

------------------------------------------------------------------------------
(* The queue implements FifoQueue, for any number of threads, any capacity  *)
(* and any history: see ImplementsFifo for the refinement mapping.  The     *)
(* exchange on enqueue_pos_ is Accept, the store of sequence_ in enqueue()  *)
(* is MakeReady, the exchange on dequeue_pos_ is HandOut, and every other   *)
(* access is a stutter.                                                     *)

\* The tickets and received elements of the refinement mapping.
Ready == {k \in 0 .. enqueue_pos - 1 : Published(k)}
Got == [t \in Threads |-> IF pc[t] = "d_data" THEN data[Cell(pos[t])] ELSE got[t]]

\* A cell that is written is not the cell of a ticket that is read: the copy out
\* of the cell in dequeue() may come late, the element is still the one handed out.
LEMMA WriterSparesReader ==
  ASSUME IInv, NEW t \in Threads, Writing(t), NEW u \in Threads, Reading(u)
  PROVE  Cell(pos[t]) # Cell(pos[u])
<1> USE DEF IInv
<1>1. /\ sequence[Cell(pos[t])] = pos[t] /\ dequeue_pos <= pos[t]
      /\ sequence[Cell(pos[u])] = pos[u] + 1 /\ pos[u] < dequeue_pos
      /\ enqueue_pos <= pos[u] + Capacity /\ pos[t] < enqueue_pos
  BY DEF WriterInv, ReaderInv
<1>2. pos[t] \in Nat /\ pos[u] \in Nat /\ dequeue_pos \in Nat /\ enqueue_pos \in Nat
  BY DEF TypeOK
<1>3. CASE Cell(pos[t]) = Cell(pos[u])
  <2>1. pos[u] + Capacity <= pos[t]
    BY <1>1, <1>2, <1>3, CellSpread
  <2> QED
    BY <2>1, <1>1, <1>2, CapacityAssumption
<1> QED
  BY <1>3

\* A step of one thread that gives out no ticket, publishes none and is no
\* exchange on dequeue_pos_ is a stutter of the FIFO.
LEMMA StutterStep ==
  ASSUME IInv, NEW t \in Threads, UNCHANGED <<enqueue_pos, dequeue_pos, claimed>>,
         pc \in [Threads -> Labels], pc' \in [Threads -> Labels],
         \A u \in Threads \ {t} : pc'[u] = pc[u] /\ pos'[u] = pos[u] /\ got'[u] = got[u],
         Writing(t) <=> Writing(t)', Writing(t) => pos'[t] = pos[t],
         pc'[t] # "d_data",
         IF pc[t] = "d_data" THEN got'[t] = data[Cell(pos[t])] ELSE got'[t] = got[t],
         \A u \in Threads \ {t} : pc[u] = "d_data" => data'[Cell(pos[u])] = data[Cell(pos[u])]
  PROVE  UNCHANGED <<claimed, Ready, dequeue_pos, Got>>
<1>1. \A k : Published(k)' <=> Published(k)
  BY DEF Published, Writing
<1>2. Ready' = Ready
  BY <1>1 DEF Ready
<1>3. Got' = Got
  <2>1. ASSUME NEW u \in Threads
        PROVE  (IF pc'[u] = "d_data" THEN data'[Cell(pos'[u])] ELSE got'[u])
                 = (IF pc[u] = "d_data" THEN data[Cell(pos[u])] ELSE got[u])
    <3>1. CASE u = t
      BY <3>1
    <3>2. CASE u # t
      BY <3>2 
    <3> QED
      BY <3>1, <3>2
  <2> QED
    BY <2>1 DEF Got, Cell
<1> QED
  BY <1>2, <1>3

\* The initial state of the queue is that of the FIFO.
LEMMA InitFifo == Init => Abstract!Init
<1> SUFFICES ASSUME Init PROVE Abstract!Init
  OBVIOUS
<1>1. 0 .. enqueue_pos - 1 = {}
  BY DEF Init
<1> QED
  BY <1>1 DEF Init, Abstract!Init

\* The exchange on enqueue_pos_ accepts the element: there is room for it.
LEMMA EnqClaimAccepts ==
  ASSUME IInv, IInv', NEW t \in Threads, EnqClaim(t)
  PROVE  Abstract!Accept(arg[t]) /\ arg[t] \in Values
<1> USE DEF IInv, EnqClaim, Goto
<1>1. /\ enqueue_pos \in Nat /\ dequeue_pos \in Nat
      /\ Len(claimed) = enqueue_pos /\ enqueue_pos' = enqueue_pos + 1
      /\ enqueue_pos' <= dequeue_pos + Capacity
      /\ arg[t] \in Values
  BY DEF TypeOK, PositionInv, LookInv, LookOK
<1>2. Len(claimed) - dequeue_pos < Capacity
  BY <1>1, CapacityAssumption
<1>3. \A k \in Nat : k = enqueue_pos => ~ Published(k)'
  BY DEF Published, Writing, TypeOK
<1>4. \A k \in 0 .. enqueue_pos - 1 : Published(k)' <=> Published(k)
  <2> SUFFICES ASSUME NEW k \in 0 .. enqueue_pos - 1
               PROVE  Published(k)' <=> Published(k)
    OBVIOUS
  <2>1. pos[t] # k /\ ~ Writing(t)
    BY <1>1 DEF Writing
  <2>2. \A u \in Threads \ {t} : Writing(u)' <=> Writing(u)
    BY DEF Writing, TypeOK
  <2> QED
    BY <2>1, <2>2 DEF Published
<1>5. Ready' = Ready
  <2>1. Ready' = {k \in 0 .. enqueue_pos : Published(k)'}
    BY <1>1 DEF Ready
  <2>2. enqueue_pos \in Nat => 0 .. enqueue_pos = (0 .. enqueue_pos - 1) \union {enqueue_pos}
    OBVIOUS
  <2> QED
    BY <1>1, <1>3, <1>4, <2>1, <2>2 DEF Ready
<1>6. Got' = Got
  BY DEF Got, TypeOK
<1> QED
  BY <1>1, <1>2, <1>5, <1>6 DEF Abstract!Accept, Ready, Got

\* The store of sequence_ in enqueue() makes the thread's ticket available.
LEMMA EnqPublishMakesReady ==
  ASSUME IInv, NEW t \in Threads, EnqPublish(t)
  PROVE  pos[t] \in 0 .. Len(claimed) - 1 /\ Abstract!MakeReady(pos[t])
<1> USE DEF IInv, EnqPublish, Return
<1>1. /\ enqueue_pos \in Nat /\ pos[t] \in Nat /\ Len(claimed) = enqueue_pos
      /\ pos[t] < enqueue_pos /\ Writing(t)
  BY DEF TypeOK, PositionInv, WriterInv, Writing
<1>2. pos[t] \in 0 .. enqueue_pos - 1 /\ pos[t] \notin Ready
  BY <1>1 DEF Ready, Published
<1>3. ~ Writing(t)' /\ \A u \in Threads \ {t} : /\ Writing(u)' <=> Writing(u)
                                               /\ pos'[u] = pos[u]
  BY DEF Writing, TypeOK
<1>4. \A k : Published(k)' <=> Published(k) \/ k = pos[t]
  BY <1>1, <1>3 DEF Published, TicketExclusive, Holding
<1>5. Ready' = Ready \union {pos[t]}
  BY <1>2, <1>4 DEF Ready
<1>6. Got' = Got
  BY DEF Got, TypeOK, Cell
<1> QED
  BY <1>1, <1>2, <1>5, <1>6 DEF Abstract!MakeReady, Ready, Got

\* The exchange on dequeue_pos_ hands the oldest element to the thread.
LEMMA DeqClaimHandsOut ==
  ASSUME IInv, NEW t \in Threads, DeqClaim(t)
  PROVE  Abstract!HandOut(t)
<1> USE DEF IInv, DeqClaim, Goto
<1>1. /\ enqueue_pos \in Nat /\ dequeue_pos \in Nat /\ pos[t] = dequeue_pos
      /\ Len(claimed) = enqueue_pos
      /\ sequence[Cell(dequeue_pos)] = dequeue_pos + 1
  BY DEF TypeOK, PositionInv, LookInv, LookOK
<1>2. Filled(dequeue_pos)
  <2>1. dequeue_pos \in dequeue_pos .. dequeue_pos + Capacity - 1
    BY <1>1, CapacityAssumption
  <2> QED
    BY <1>1, <2>1, CapacityAssumption DEF WindowInv, BeingFilled, Vacant, BeingVacated
<1>3. dequeue_pos \in Ready
  <2>1. ASSUME NEW u \in Threads, Writing(u), pos[u] = dequeue_pos PROVE FALSE
    BY <1>1, <2>1 DEF WriterInv
  <2> QED
    BY <1>1, <1>2, <2>1 DEF Ready, Published, Filled
<1>4. Ready' = Ready
  <2>1. \A u \in Threads : Writing(u)' <=> Writing(u)
    BY DEF Writing, TypeOK
  <2> QED
    BY <2>1 DEF Ready, Published
<1>5. Got' = [Got EXCEPT ![t] = claimed[dequeue_pos + 1]]
  <2>1. data[Cell(pos[t])] = claimed[dequeue_pos + 1]
    BY <1>1, <1>2 DEF Filled
  <2> QED
    BY <2>1 DEF Got, TypeOK, Cell
<1> QED
  BY <1>1, <1>2, <1>3, <1>4, <1>5 DEF Abstract!HandOut, Ready, Got, Filled

\* Every step of the queue is a step of the FIFO or a stutter.
LEMMA NextFifo ==
  ASSUME IInv, IInv', [Next]_vars
  PROVE  [Abstract!Next]_(Abstract!qvars)
<1>1. CASE UNCHANGED vars
  BY <1>1 DEF vars, Abstract!qvars, Published, Writing, Cell
<1>2. ASSUME NEW t \in Threads, Enqueue(t) \/ Dequeue(t)
      PROVE  [Abstract!Next]_(Abstract!qvars)
  <2> USE DEF IInv
  <2>0. /\ pc \in [Threads -> Labels] /\ pos \in [Threads -> Nat]
        /\ got \in [Threads -> Values \union {NoValue}]
        /\ data \in [Cells -> Values \union {NoValue}]
        /\ pc' \in [Threads -> Labels]
        /\ Len(claimed) = enqueue_pos
    BY DEF TypeOK, PositionInv
  <2>s. ASSUME UNCHANGED <<claimed, Ready, dequeue_pos, Got>>
        PROVE  [Abstract!Next]_(Abstract!qvars)
    BY <2>s DEF Abstract!qvars, Ready, Got
  <2>1. CASE EnqClaim(t)
    BY <2>1, EnqClaimAccepts DEF Abstract!Next
  <2>2. CASE EnqPublish(t)
    BY <2>2, EnqPublishMakesReady DEF Abstract!Next
  <2>3. CASE DeqClaim(t)
    BY <2>3, DeqClaimHandsOut DEF Abstract!Next
  <2>4. CASE EnqWrite(t)
    <3>1. Writing(t) /\ Writing(t)'
      BY <2>0, <2>4 DEF EnqWrite, Goto, Writing
    <3>2. \A u \in Threads \ {t} : pc[u] = "d_data" => data'[Cell(pos[u])] = data[Cell(pos[u])]
      <4> SUFFICES ASSUME NEW u \in Threads \ {t}, pc[u] = "d_data"
                   PROVE  data'[Cell(pos[u])] = data[Cell(pos[u])]
        OBVIOUS
      <4>1. Cell(pos[t]) # Cell(pos[u])
        BY <3>1, WriterSparesReader DEF Reading
      <4>2. Cell(pos[u]) \in Cells
        BY <2>0, CellRange DEF Cells
      <4> QED
        BY <2>0, <2>4, <4>1, <4>2 DEF EnqWrite
    <3>3. UNCHANGED <<claimed, Ready, dequeue_pos, Got>>
      BY <2>0, <2>4, <3>1, <3>2, StutterStep DEF EnqWrite, Goto
    <3> QED
      BY <2>s, <3>3
  <2>5. CASE \/ \E v \in Values : EnqCall(t, v)
             \/ EnqLook(t) \/ EnqReload(t) \/ EnqMiss(t) \/ EnqCount(t)
    <3>1. UNCHANGED <<enqueue_pos, dequeue_pos, claimed, data, got>>
      BY <2>5 DEF EnqCall, EnqLook, EnqReload, EnqMiss, EnqCount, Goto, Return, shared
    <3>2. /\ \A u \in Threads \ {t} : pc'[u] = pc[u] /\ pos'[u] = pos[u]
          /\ Writing(t) <=> Writing(t)' 
          /\ Writing(t) => pos'[t] = pos[t]
          /\ pc'[t] # "d_data" /\ pc[t] # "d_data"
      BY <2>0, <2>5 DEF EnqCall, EnqLook, EnqReload, EnqMiss, EnqCount, Goto, Return, Writing, shared
    <3>3. UNCHANGED <<claimed, Ready, dequeue_pos, Got>>
      BY <2>0, <3>1, <3>2, StutterStep
    <3> QED
      BY <2>s, <3>3
  <2>6. CASE DeqCall(t) \/ DeqLook(t) \/ DeqReload(t) \/ DeqMiss(t) \/ DeqCount(t) \/ DeqRelease(t)
    <3>1. UNCHANGED <<enqueue_pos, dequeue_pos, claimed, data, got>>
      BY <2>6 DEF DeqCall, DeqLook, DeqReload, DeqMiss, DeqCount, DeqRelease, Goto, Return, shared
    <3>2. /\ \A u \in Threads \ {t} : pc'[u] = pc[u] /\ pos'[u] = pos[u]
          /\ ~ Writing(t) /\ ~ Writing(t)'
          /\ pc'[t] # "d_data" /\ pc[t] # "d_data"
      BY <2>0, <2>6 DEF DeqCall, DeqLook, DeqReload, DeqMiss, DeqCount, DeqRelease, Goto, Return, Writing, shared
    <3>3. UNCHANGED <<claimed, Ready, dequeue_pos, Got>>
      BY <2>0, <3>1, <3>2, StutterStep
    <3> QED
      BY <2>s, <3>3
  <2>7. CASE DeqRead(t)
    <3>1. /\ UNCHANGED <<enqueue_pos, dequeue_pos, claimed, data, pos>>
          /\ pc[t] = "d_data" /\ pc'[t] = "d_count" /\ got'[t] = data[Cell(pos[t])]
          /\ \A u \in Threads \ {t} : pc'[u] = pc[u] /\ got'[u] = got[u]
      BY <2>0, <2>7 DEF DeqRead, Goto, shared
    <3>2. ~ Writing(t) /\ ~ Writing(t)'
      BY <3>1 DEF Writing
    <3>3. UNCHANGED <<claimed, Ready, dequeue_pos, Got>>
      BY <2>0, <3>1, <3>2, StutterStep
    <3> QED
      BY <2>s, <3>3
  <2> QED
    BY <1>2, <2>1, <2>2, <2>3, <2>4, <2>5, <2>6, <2>7 DEF Enqueue, Dequeue
<1> QED
  BY <1>1, <1>2 DEF Next

\* mpmc_bounded_queue implements FifoQueue: whatever the threads do and however
\* slow one of them is, accepted elements are handed out once, in ticket order.
THEOREM QueueImplementsFifo == Spec => ImplementsFifo
<1>1. Init => Abstract!Init
  BY InitFifo
<1>2. IInv /\ IInv' /\ [Next]_vars => [Abstract!Next]_(Abstract!qvars)
  BY NextFifo
<1> QED
  BY <1>1, <1>2, QueueInvariant, PTL DEF Spec, ImplementsFifo, Abstract!Spec

=============================================================================
