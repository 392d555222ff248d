-------------------------- MODULE TrackBlocksProofs --------------------------
(***************************************************************************)
(* No block of tracks is lost, free twice or given to two tasks, and no    *)
(* track to two users, for any number of tasks and blocks of any size,     *)
(* unless one of the three races of TrackBlocks has happened to the block. *)
(* The invariant is about one block at a time: what races do to a block    *)
(* leaves the other ones alone.                                            *)
(***************************************************************************)
EXTENDS TrackBlocks, QueueLemmas

------------------------------------------------------------------------------
(* The inductive invariant                                                 *)

Free(b) == b \in Range(fBlocks)
Once(b) == \A i, j \in DOMAIN fBlocks : fBlocks[i] = b /\ fBlocks[j] = b => i = j
Taking(t, b) == pc[t] \in {"clear", "clear2", "attach"} /\ blk[t] = b
Recycling(t, b) == pc[t] = "recycle" /\ blk[t] = b
Returning(t, b) == Recycling(t, b) \/ (Checking(t, b) /\ IsDistributed(b))
Holds(t, b) == fBlock[t] = b /\ t \notin stale

TypeInv ==
  /\ fBlocks \in Seq(Blocks) /\ fNblocks \in 0 .. MaxBlocks
  /\ fCurrent \in [Blocks -> Nat] /\ fUsed \in [Blocks -> Int]
  /\ fBlock \in [Tasks -> BlockOrNone] /\ blk \in [Tasks -> BlockOrNone]
  /\ index \in [Tasks -> Indices] /\ pc \in [Tasks -> Labels]
  /\ users \in [Blocks \X Indices -> Nat]
  /\ stale \subseteq Tasks /\ raced \subseteq Blocks

\* The blocks a task needs at each access are there.
RefersInv ==
  \A t \in Tasks :
    /\ pc[t] \in {"idle", "assert", "object", "used", "null", "check", "recycle"} =>
         fBlock[t] \in Blocks
    /\ pc[t] \in {"clear", "clear2", "attach", "check", "recycle"} => blk[t] \in Blocks

\* A block is in the queue, with the task that takes it, in use, or with the
\* task that released its last track, and in one of these places only.
PlaceInv(b) ==
  /\ Once(b)
  /\ Free(b) => \A t \in Tasks : ~ Taking(t, b) /\ ~ Recycling(t, b) /\ ~ Checking(t, b)
  /\ \A t, u \in Tasks : Taking(t, b) =>
       (Taking(u, b) => t = u) /\ ~ Recycling(u, b) /\ ~ Checking(u, b)
  /\ \A t, u \in Tasks : Returning(t, b) /\ Returning(u, b) => t = u
  /\ InUse(b) => ~ Free(b) /\ \A t \in Tasks : ~ Taking(t, b) /\ ~ Returning(t, b)
  /\ b > fNblocks =>
       /\ ~ Free(b) /\ ~ InUse(b) /\ fCurrent[b] = 0 /\ fUsed[b] = 0
       /\ \A t \in Tasks : fBlock[t] # b /\ ~ Taking(t, b) /\ ~ Recycling(t, b) /\ ~ Checking(t, b)

\* One task allocates from the block.  When the block is free it has distributed
\* it, and so it has when it looks for another one.
OwnerInv(b) ==
  /\ \A t, u \in Tasks : Holds(t, b) /\ (Holds(u, b) \/ Taking(u, b)) => t = u
  /\ \A t \in Tasks : Holds(t, b) /\ (Free(b) \/ pc[t] = "block") => IsDistributed(b)
  /\ \A t \in Tasks : Holds(t, b) /\ pc[t] \in {"clear", "clear2", "attach"} =>
       IsDistributed(b) \/ blk[t] = b

\* What a task knows of the block at each access.
AccessInv(b) ==
  \A t \in Tasks :
    /\ pc[t] \in {"assert", "object", "used"} /\ fBlock[t] = b => t \notin stale
    /\ pc[t] = "assert" /\ fBlock[t] = b => fCurrent[b] = 0 /\ ~ InUse(b)
    /\ pc[t] = "object" /\ fBlock[t] = b => ~ IsDistributed(b)
    /\ pc[t] = "used" /\ fBlock[t] = b => users[<<b, index[t]>>] > 0
    /\ pc[t] = "null" => fBlock[t] # b
    /\ pc[t] \in {"clear2", "attach"} /\ blk[t] = b => fCurrent[b] = 0
    /\ Recycling(t, b) => IsDistributed(b)

\* A block that was made is never lost.
FoundInv(b) ==
  b <= fNblocks /\ ~ Free(b) /\ (\A t \in Tasks : ~ Taking(t, b)) =>
    /\ ~ IsDistributed(b) => \E t \in Tasks : Holds(t, b)
    /\ IsDistributed(b) => InUse(b) \/ \E t \in Tasks : Returning(t, b)

TracksOf(b) == {i \in Indices : users[<<b, i>>] > 0}
AllocatorsIn(b) == {t \in Tasks : Allocating(t, b)}

\* fUsed counts the tracks in use, but for the one being allocated.
UsedInv(b) ==
  /\ \A i \in Indices : users[<<b, i>>] <= 1 /\ (users[<<b, i>>] > 0 => i < fCurrent[b])
  /\ fCurrent[b] <= fSize
  /\ fUsed[b] + Cardinality(AllocatorsIn(b)) = Cardinality(TracksOf(b))

BlockInv(b) == PlaceInv(b) /\ OwnerInv(b) /\ AccessInv(b) /\ FoundInv(b) /\ UsedInv(b)

IInv == TypeInv /\ RefersInv /\ \A b \in Blocks \ raced : BlockInv(b)

------------------------------------------------------------------------------
(* What the steps keep                                                     *)

LEMMA BlockFacts ==
  /\ Blocks = 1 .. MaxBlocks /\ Indices = 0 .. fSize - 1
  /\ fSize \in Nat \ {0} /\ NFree \in Nat /\ MaxBlocks \in Nat /\ NFree <= MaxBlocks
  /\ NoBlock \notin Blocks /\ IsFiniteSet(Tasks) /\ Blocks \subseteq Nat
BY SizesAssumption, TasksAssumption, NoBlockAssumption DEF Blocks, Indices

\* The tracks of a block and the tasks that allocate from it are finitely many.
LEMMA Finite ==
  ASSUME NEW b
  PROVE  /\ IsFiniteSet(TracksOf(b)) /\ Cardinality(TracksOf(b)) \in Nat
         /\ IsFiniteSet(AllocatorsIn(b)) /\ Cardinality(AllocatorsIn(b)) \in Nat
<1>1. IsFiniteSet(Indices) /\ TracksOf(b) \subseteq Indices
  BY BlockFacts, FS_Interval DEF TracksOf
<1>2. AllocatorsIn(b) \subseteq Tasks
  BY DEF AllocatorsIn
<1> QED
  BY <1>1, <1>2, BlockFacts, FS_Subset, FS_CardinalityType

\* The inductive invariant holds at the start: the first blocks are in the queue.
LEMMA InvInit == Init => IInv
<1> SUFFICES ASSUME Init PROVE IInv
  OBVIOUS
<1> USE BlockFacts
<1>1. TypeInv
  BY DEF Init, TypeInv, BlockOrNone, Labels
<1>2. /\ \A t \in Tasks : pc[t] = "block" /\ blk[t] = NoBlock /\ fBlock[t] = NoBlock
      /\ \A b \in Blocks : fCurrent[b] = 0 /\ fUsed[b] = 0
      /\ \A b \in Blocks, i \in Indices : users[<<b, i>>] = 0
      /\ fNblocks = NFree
  BY DEF Init
<1>3. RefersInv
  BY <1>2 DEF RefersInv
<1>4. ASSUME NEW b \in Blocks PROVE BlockInv(b)
  <2>1. /\ \A t \in Tasks : /\ ~ Taking(t, b) /\ ~ Checking(t, b) /\ ~ Recycling(t, b)
                            /\ ~ Returning(t, b) /\ ~ Allocating(t, b) /\ ~ Holds(t, b)
        /\ fCurrent[b] = 0 /\ fUsed[b] = 0 /\ ~ IsDistributed(b)
    <3>1. fCurrent[b] = 0 /\ fUsed[b] = 0 /\ ~ IsDistributed(b)
      BY <1>2 DEF IsDistributed
    <3>2. ASSUME NEW t \in Tasks
          PROVE  /\ ~ Taking(t, b) /\ ~ Checking(t, b) /\ ~ Recycling(t, b)
                 /\ ~ Allocating(t, b) /\ ~ Holds(t, b)
      BY <1>2 DEF Taking, Checking, Recycling, Allocating, Holds
    <3> QED
      BY <3>1, <3>2 DEF Returning
  <2>2. \A i \in Indices : users[<<b, i>>] = 0 /\ ~ (users[<<b, i>>] > 0)
    BY <1>2
  <2>3. Once(b) /\ (Free(b) <=> b <= NFree)
    <3>1. fBlocks = [i \in 1 .. NFree |-> i]
      BY DEF Init
    <3> QED
      BY <3>1 DEF Once, Free, Range
  <2>4. PlaceInv(b) /\ OwnerInv(b) /\ FoundInv(b)
    <3>1. ~ InUse(b)
      BY <2>2 DEF InUse
    <3>2. fNblocks \in Nat /\ b \in Nat /\ (Free(b) <=> b <= fNblocks)
      BY <1>2, <2>3
    <3>3. PlaceInv(b)
      BY <1>2, <2>1, <2>3, <3>1, <3>2 DEF PlaceInv
    <3> QED
      BY <1>2, <2>1, <3>1, <3>2, <3>3 DEF OwnerInv, FoundInv
  <2>5. AccessInv(b)
    BY <1>2, <2>1 DEF AccessInv
  <2>6. UsedInv(b)
    <3>1. AllocatorsIn(b) = {} /\ TracksOf(b) = {}
      BY <2>1, <2>2 DEF AllocatorsIn, TracksOf
    <3> QED
      BY <2>1, <2>2, <3>1, FS_EmptySet DEF UsedInv
  <2> QED
    BY <2>4, <2>5, <2>6 DEF BlockInv
<1> QED
  BY <1>1, <1>3, <1>4 DEF IInv

\* Types are kept.
LEMMA TypeStep == ASSUME TypeInv, RefersInv, [Next]_vars PROVE TypeInv'
<1>b. /\ pc \in [Tasks -> Labels] /\ blk \in [Tasks -> BlockOrNone] /\ fBlock \in [Tasks -> BlockOrNone]
      /\ fCurrent \in [Blocks -> Nat] /\ fUsed \in [Blocks -> Int] /\ index \in [Tasks -> Indices]
      /\ users \in [Blocks \X Indices -> Nat] /\ stale \subseteq Tasks /\ raced \subseteq Blocks
      /\ fBlocks \in Seq(Blocks) /\ fNblocks \in 0 .. MaxBlocks
      /\ NoBlock \in BlockOrNone /\ Blocks \subseteq BlockOrNone /\ 0 \in Indices
  BY BlockFacts DEF TypeInv, BlockOrNone
<1>1. ASSUME NEW t \in Tasks, GetNewTrack(t) PROVE TypeInv'
  <2>1. fBlock[t] \in Blocks
    BY <1>1 DEF GetNewTrack, RefersInv
  <2> QED
    BY <1>b, <1>1, <2>1 DEF GetNewTrack, Goto, Record, TypeInv, Labels, manager, counters
<1>2. ASSUME NEW t \in Tasks, TakeBlock(t) PROVE TypeInv'
  <2>1. Head(fBlocks) \in Blocks /\ Tail(fBlocks) \in Seq(Blocks)
    BY <1>b, <1>2 DEF TakeBlock
  <2> QED
    BY <1>b, <1>2, <2>1 DEF TakeBlock, Goto, TypeInv, Labels, counters
<1>3. ASSUME NEW t \in Tasks, ClearCurrent(t) PROVE TypeInv'
  BY <1>b, <1>3 DEF ClearCurrent, Goto, TypeInv, Labels, manager, history
<1>4. ASSUME NEW t \in Tasks, ClearUsed(t) PROVE TypeInv'
  <2>1. blk[t] \in Blocks /\ fUsed' = [fUsed EXCEPT ![blk[t]] = 0]
    BY <1>4 DEF ClearUsed, RefersInv
  <2>2. pc' \in [Tasks -> Labels]
    BY <1>b, <1>4 DEF ClearUsed, Goto, Labels
  <2> QED
    BY <1>b, <1>4, <2>1, <2>2 DEF ClearUsed, TypeInv, manager, history
<1>5. ASSUME NEW t \in Tasks, AddBlock(t) PROVE TypeInv'
  <2>1. fNblocks + 1 \in Blocks /\ fNblocks + 1 \in 0 .. MaxBlocks
    BY <1>b, <1>5, BlockFacts DEF AddBlock
  <2> QED
    BY <1>b, <1>5, <2>1 DEF AddBlock, Goto, TypeInv, Labels, counters, history
<1>6. ASSUME NEW t \in Tasks, SetBlock(t) PROVE TypeInv'
  BY <1>b, <1>6 DEF SetBlock, Goto, TypeInv, Labels, manager, counters
<1>7. ASSUME NEW t \in Tasks, AssertFresh(t) PROVE TypeInv'
  BY <1>b, <1>7 DEF AssertFresh, Goto, TypeInv, Labels, manager, counters, history
<1>8. ASSUME NEW t \in Tasks, TakeIndex(t) PROVE TypeInv'
  <2> DEFINE b == fBlock[t]
             i == fCurrent[b]
  <2>1. b \in Blocks /\ i \in Nat
    BY <1>b, <1>8 DEF RefersInv, TakeIndex
  <2>2. /\ fCurrent' = [fCurrent EXCEPT ![b] = @ + 1]
        /\ raced' = raced \/ raced' = raced \union {b}
        /\ UNCHANGED <<fBlocks, fNblocks, fUsed, fBlock, blk, stale>>
    BY <1>8 DEF TakeIndex, Record, manager
  <2>3. CASE i < fSize
    <3>1. i \in Indices
      BY <2>1, <2>3, BlockFacts
    <3>2. /\ index' = [index EXCEPT ![t] = i]
          /\ users' = [users EXCEPT ![<<b, i>>] = @ + 1]
          /\ pc' = [pc EXCEPT ![t] = "used"]
      BY <1>8, <2>3 DEF TakeIndex, Goto
    <3> QED
      BY <1>b, <2>1, <2>2, <3>1, <3>2 DEF TypeInv, Labels
  <2>4. CASE ~ (i < fSize)
    <3>1. pc' = [pc EXCEPT ![t] = "null"] /\ UNCHANGED <<index, users>>
      BY <1>8, <2>4 DEF TakeIndex, Goto
    <3> QED
      BY <1>b, <2>1, <2>2, <3>1 DEF TypeInv, Labels
  <2> QED
    BY <2>3, <2>4
<1>9. ASSUME NEW t \in Tasks, CountUsed(t) PROVE TypeInv'
  <2>1. fBlock[t] \in Blocks
    BY <1>9 DEF CountUsed, RefersInv
  <2> QED
    BY <1>b, <1>9, <2>1 DEF CountUsed, Goto, TypeInv, Labels, manager, history
<1>10. ASSUME NEW t \in Tasks, NEW x \in Blocks \X Indices, ReleaseTrack(t, x) PROVE TypeInv'
  <2>1. x[1] \in Blocks /\ x[2] \in Indices
    OBVIOUS
  <2>2. users[x] - 1 \in Nat
    <3>1. Cardinality(Allocators(x)) \in Nat
      <4>1. Allocators(x) \subseteq Tasks
        BY DEF Allocators
      <4> QED
        BY <4>1, BlockFacts, FS_Subset, FS_CardinalityType
    <3>2. users[x] > Cardinality(Allocators(x)) /\ users[x] \in Nat
      BY <1>b, <1>10 DEF ReleaseTrack, Handed
    <3> QED
      BY <3>1, <3>2
  <2>3. /\ users' = [users EXCEPT ![x] = @ - 1]
        /\ fUsed' = [fUsed EXCEPT ![x[1]] = @ - 1]
        /\ raced' = raced \/ raced' = raced \union {x[1]}
        /\ UNCHANGED <<fBlocks, fNblocks, fCurrent, fBlock, index, stale>>
        /\ \/ pc' = [pc EXCEPT ![t] = "check"] /\ blk' = [blk EXCEPT ![t] = x[1]]
           \/ UNCHANGED <<pc, blk>>
    BY <1>10 DEF ReleaseTrack, Goto, Record, manager
  <2>4. pc' \in [Tasks -> Labels] /\ blk' \in [Tasks -> BlockOrNone]
    BY <1>b, <2>1, <2>3 DEF Labels
  <2> QED
    BY <1>b, <2>1, <2>2, <2>3, <2>4 DEF TypeInv
<1>11. ASSUME NEW t \in Tasks, CheckDistributed(t) PROVE TypeInv'
  BY <1>b, <1>11 DEF CheckDistributed, Return, Goto, Labels, TypeInv, manager, counters, history
<1>12. ASSUME NEW t \in Tasks, RecycleBlock(t) PROVE TypeInv'
  <2>1. blk[t] \in Blocks
    BY <1>12 DEF RefersInv, RecycleBlock
  <2>2. Append(fBlocks, blk[t]) \in Seq(Blocks)
    BY <1>b, <2>1
  <2> QED
    BY <1>b, <1>12, <2>2 DEF RecycleBlock, Return, Goto, TypeInv, Labels, counters, history
<1>13. CASE UNCHANGED vars
  BY <1>b, <1>13 DEF TypeInv, vars, manager, counters, history
<1> QED
  BY <1>1, <1>2, <1>3, <1>4, <1>5, <1>6, <1>7, <1>8, <1>9, <1>10, <1>11, <1>12, <1>13 DEF Next

\* A task refers to a block wherever it needs one.
LEMMA RefersStep == ASSUME TypeInv, RefersInv, [Next]_vars PROVE RefersInv'
<1>a. /\ pc \in [Tasks -> Labels] /\ blk \in [Tasks -> BlockOrNone] /\ fBlock \in [Tasks -> BlockOrNone]
      /\ fNblocks \in 0 .. MaxBlocks /\ fBlocks \in Seq(Blocks)
  BY DEF TypeInv
<1>1. ASSUME NEW t \in Tasks, GetNewTrack(t) PROVE RefersInv'
  BY <1>a, <1>1 DEF GetNewTrack, Goto, RefersInv
<1>2. ASSUME NEW t \in Tasks, TakeBlock(t) PROVE RefersInv'
  <2>1. Head(fBlocks) \in Blocks
    BY <1>a, <1>2 DEF TakeBlock
  <2> QED
    BY <1>a, <1>2, <2>1 DEF TakeBlock, Goto, RefersInv
<1>3. ASSUME NEW t \in Tasks, ClearCurrent(t) PROVE RefersInv'
  BY <1>a, <1>3 DEF ClearCurrent, Goto, RefersInv
<1>4. ASSUME NEW t \in Tasks, ClearUsed(t) PROVE RefersInv'
  BY <1>a, <1>4 DEF ClearUsed, Goto, RefersInv
<1>5. ASSUME NEW t \in Tasks, AddBlock(t) PROVE RefersInv'
  <2>1. fNblocks + 1 \in Blocks
    BY <1>a, <1>5, BlockFacts DEF AddBlock
  <2> QED
    BY <1>a, <1>5, <2>1 DEF AddBlock, Goto, RefersInv
<1>6. ASSUME NEW t \in Tasks, SetBlock(t) PROVE RefersInv'
  BY <1>a, <1>6 DEF SetBlock, Goto, RefersInv
<1>7. ASSUME NEW t \in Tasks, AssertFresh(t) PROVE RefersInv'
  BY <1>a, <1>7 DEF AssertFresh, Goto, RefersInv
<1>8. ASSUME NEW t \in Tasks, TakeIndex(t) PROVE RefersInv'
  <2>1. pc[t] = "object" /\ pc' \in {[pc EXCEPT ![t] = "used"], [pc EXCEPT ![t] = "null"]}
        /\ UNCHANGED <<fBlock, blk>>
    BY <1>8 DEF TakeIndex, Goto
  <2> QED
    BY <1>a, <2>1 DEF RefersInv
<1>9. ASSUME NEW t \in Tasks, CountUsed(t) PROVE RefersInv'
  BY <1>a, <1>9 DEF CountUsed, Goto, RefersInv
<1>10. ASSUME NEW t \in Tasks, NEW x \in Blocks \X Indices, ReleaseTrack(t, x) PROVE RefersInv'
  <2>1. /\ pc[t] = "idle" /\ x[1] \in Blocks /\ UNCHANGED fBlock
        /\ \/ pc' = [pc EXCEPT ![t] = "check"] /\ blk' = [blk EXCEPT ![t] = x[1]]
           \/ UNCHANGED <<pc, blk>>
    BY <1>10 DEF ReleaseTrack, Goto
  <2> QED
    BY <1>a, <2>1 DEF RefersInv
<1>11. ASSUME NEW t \in Tasks, CheckDistributed(t) PROVE RefersInv'
  BY <1>a, <1>11 DEF CheckDistributed, Return, Goto, RefersInv
<1>12. ASSUME NEW t \in Tasks, RecycleBlock(t) PROVE RefersInv'
  BY <1>a, <1>12 DEF RecycleBlock, Return, Goto, RefersInv
<1>13. CASE UNCHANGED vars
  BY <1>13 DEF RefersInv, vars
<1> QED
  BY <1>1, <1>2, <1>3, <1>4, <1>5, <1>6, <1>7, <1>8, <1>9, <1>10, <1>11, <1>12, <1>13 DEF Next

\* The rest of a queue: what was there once is gone with the head.
LEMMA TailOf ==
  ASSUME NEW S, NEW q \in Seq(S), q # <<>>, NEW x \in S,
         \A i, j \in DOMAIN q : q[i] = x /\ q[j] = x => i = j
  PROVE  /\ \A i, j \in DOMAIN Tail(q) : Tail(q)[i] = x /\ Tail(q)[j] = x => i = j
         /\ x \in Range(Tail(q)) <=> x \in Range(q) /\ x # Head(q)
         /\ x = Head(q) => x \in Range(q)
<1> DEFINE r == Tail(q)
<1>1. /\ Len(q) \in Nat \ {0} /\ DOMAIN q = 1 .. Len(q) /\ DOMAIN r = 1 .. Len(q) - 1
      /\ \A i \in 1 .. Len(q) - 1 : r[i] = q[i + 1] /\ i + 1 \in 1 .. Len(q)
      /\ Head(q) = q[1]
  OBVIOUS
<1>2. \A i, j \in DOMAIN r : r[i] = x /\ r[j] = x => i = j
  BY <1>1
<1>3. x = Head(q) => x \in Range(q)
  BY <1>1 DEF Range
<1>4. ASSUME x \in Range(r) PROVE x \in Range(q) /\ x # Head(q)
  <2>1. PICK i \in 1 .. Len(q) - 1 : x = q[i + 1]
    BY <1>1, <1>4 DEF Range
  <2>2. i + 1 \in DOMAIN q /\ 1 \in DOMAIN q /\ i + 1 # 1
    BY <1>1, <2>1
  <2> QED
    BY <1>1, <2>1, <2>2 DEF Range
<1>5. ASSUME x \in Range(q), x # Head(q) PROVE x \in Range(r)
  <2>1. PICK i \in 1 .. Len(q) : x = q[i]
    BY <1>1, <1>5 DEF Range
  <2>2. i - 1 \in 1 .. Len(q) - 1 /\ r[i - 1] = x
    BY <1>1, <1>5, <2>1
  <2> QED
    BY <1>1, <2>2 DEF Range
<1> QED
  BY <1>2, <1>3, <1>4, <1>5

\* A queue with one element more.
LEMMA AppendOf ==
  ASSUME NEW S, NEW q \in Seq(S), NEW x \in S, NEW y \in S,
         \A i, j \in DOMAIN q : q[i] = x /\ q[j] = x => i = j,
         x = y => x \notin Range(q)
  PROVE  /\ \A i, j \in DOMAIN Append(q, y) : Append(q, y)[i] = x /\ Append(q, y)[j] = x => i = j
         /\ x \in Range(Append(q, y)) <=> x \in Range(q) \/ x = y
<1> DEFINE r == Append(q, y)
<1>1. /\ Len(q) \in Nat /\ DOMAIN q = 1 .. Len(q) /\ DOMAIN r = 1 .. Len(q) + 1
      /\ \A i \in 1 .. Len(q) : r[i] = q[i]
      /\ r[Len(q) + 1] = y /\ Len(q) + 1 \in DOMAIN r
  OBVIOUS
<1>2. \A i, j \in DOMAIN r : r[i] = x /\ r[j] = x => i = j
  BY <1>1 DEF Range
<1>3. ASSUME x \in Range(r) PROVE x \in Range(q) \/ x = y
  BY <1>1, <1>3 DEF Range
<1>4. ASSUME x \in Range(q) PROVE x \in Range(r)
  BY <1>1, <1>4 DEF Range
<1>5. y \in Range(r)
  BY <1>1 DEF Range
<1> QED
  BY <1>2, <1>3, <1>4, <1>5

\* A step that leaves the counters and the tracks of a block alone.
LEMMA SameUse ==
  ASSUME NEW b \in Blocks, UsedInv(b), fCurrent'[b] = fCurrent[b], fUsed'[b] = fUsed[b],
         \A i \in Indices : users'[<<b, i>>] = users[<<b, i>>],
         \A u \in Tasks : Allocating(u, b)' <=> Allocating(u, b)
  PROVE  /\ UsedInv(b)'
         /\ InUse(b)' <=> InUse(b)
         /\ IsDistributed(b)' <=> IsDistributed(b)
<1>1. AllocatorsIn(b)' = AllocatorsIn(b) /\ TracksOf(b)' = TracksOf(b)
  BY DEF AllocatorsIn, TracksOf
<1>2. UsedInv(b)'
  BY <1>1 DEF UsedInv
<1> QED
  BY <1>2 DEF InUse, IsDistributed


\* GetNewTrack looks at the block of the task.
LEMMA StepGetNewTrack ==
  ASSUME IInv, NEW t \in Tasks, GetNewTrack(t), NEW b \in Blocks \ raced'
  PROVE  BlockInv(b)'
<1>1. /\ pc[t] = "idle" /\ pc'[t] = IF IsDistributed(fBlock[t]) THEN "block" ELSE "object"
      /\ \A u \in Tasks : u # t => pc'[u] = pc[u]
      /\ UNCHANGED <<fBlocks, fNblocks, fCurrent, fUsed, fBlock, index, users, blk, stale>>
      /\ raced \subseteq raced' /\ (StaleUse(t) => fBlock[t] \in raced')
  BY DEF GetNewTrack, Goto, Record, IInv, TypeInv, manager, counters
<1>2. PlaceInv(b) /\ OwnerInv(b) /\ AccessInv(b) /\ FoundInv(b) /\ UsedInv(b)
  BY <1>1 DEF IInv, BlockInv
<1>3. \A u \in Tasks : /\ Taking(u, b)' <=> Taking(u, b)
                       /\ Checking(u, b)' <=> Checking(u, b)
                       /\ Recycling(u, b)' <=> Recycling(u, b)
                       /\ Allocating(u, b)' <=> Allocating(u, b)
                       /\ Holds(u, b)' <=> Holds(u, b)
  BY <1>1 DEF Taking, Checking, Recycling, Allocating, Holds
<1>4. UsedInv(b)' /\ (InUse(b)' <=> InUse(b)) /\ (IsDistributed(b)' <=> IsDistributed(b))
  BY <1>1, <1>2, <1>3, SameUse
<1>5. /\ Once(b)' <=> Once(b)
      /\ Free(b)' <=> Free(b)
      /\ \A u \in Tasks : Returning(u, b)' <=> Returning(u, b)
  BY <1>1, <1>3, <1>4 DEF Once, Free, Returning
<1>6. PlaceInv(b)'
  BY <1>1, <1>2, <1>3, <1>4, <1>5 DEF PlaceInv
<1>7. OwnerInv(b)'
  BY <1>1, <1>2, <1>3, <1>4, <1>5 DEF OwnerInv, Holds
<1>8. AccessInv(b)'
  BY <1>1, <1>2, <1>3, <1>4, <1>5 DEF AccessInv, StaleUse
<1>9. FoundInv(b)'
  BY <1>1, <1>2, <1>3, <1>4, <1>5 DEF FoundInv
<1> QED
  BY <1>4, <1>6, <1>7, <1>8, <1>9 DEF BlockInv

\* The assertion of GetNewTrack holds, the task goes on to take a track.
LEMMA StepAssertFresh ==
  ASSUME IInv, NEW t \in Tasks, AssertFresh(t), NEW b \in Blocks \ raced'
  PROVE  BlockInv(b)'
<1>1. /\ pc[t] = "assert" /\ pc'[t] = "object"
      /\ \A u \in Tasks : u # t => pc'[u] = pc[u]
      /\ UNCHANGED <<fBlocks, fNblocks, fCurrent, fUsed, fBlock, index, users, blk, stale, raced>>
  BY DEF AssertFresh, Goto, IInv, TypeInv, manager, counters, history
<1>2. PlaceInv(b) /\ OwnerInv(b) /\ AccessInv(b) /\ FoundInv(b) /\ UsedInv(b)
  BY <1>1 DEF IInv, BlockInv
<1>3. \A u \in Tasks : /\ Taking(u, b)' <=> Taking(u, b)
                       /\ Checking(u, b)' <=> Checking(u, b)
                       /\ Recycling(u, b)' <=> Recycling(u, b)
                       /\ Allocating(u, b)' <=> Allocating(u, b)
                       /\ Holds(u, b)' <=> Holds(u, b)
  BY <1>1 DEF Taking, Checking, Recycling, Allocating, Holds
<1>4. UsedInv(b)' /\ (InUse(b)' <=> InUse(b)) /\ (IsDistributed(b)' <=> IsDistributed(b))
  BY <1>1, <1>2, <1>3, SameUse
<1>5. /\ Once(b)' <=> Once(b)
      /\ Free(b)' <=> Free(b)
      /\ \A u \in Tasks : Returning(u, b)' <=> Returning(u, b)
  BY <1>1, <1>3, <1>4 DEF Once, Free, Returning
<1>6. PlaceInv(b)'
  BY <1>1, <1>2, <1>3, <1>4, <1>5 DEF PlaceInv
<1>7. OwnerInv(b)'
  BY <1>1, <1>2, <1>3, <1>4, <1>5 DEF OwnerInv
<1>8. AccessInv(b)'
  BY <1>1, <1>2, <1>3, <1>4, <1>5, BlockFacts DEF AccessInv, IsDistributed
<1>9. FoundInv(b)'
  BY <1>1, <1>2, <1>3, <1>4, <1>5 DEF FoundInv
<1> QED
  BY <1>4, <1>6, <1>7, <1>8, <1>9 DEF BlockInv

\* A block from the queue has no track in use: Clear resets its first counter.
LEMMA StepClearCurrent ==
  ASSUME IInv, NEW t \in Tasks, ClearCurrent(t), NEW b \in Blocks \ raced'
  PROVE  BlockInv(b)'
<1>1. /\ pc[t] = "clear" /\ pc'[t] = "clear2"
      /\ \A u \in Tasks : u # t => pc'[u] = pc[u]
      /\ fCurrent'[b] = IF blk[t] = b THEN 0 ELSE fCurrent[b]
      /\ UNCHANGED <<fBlocks, fNblocks, fUsed, fBlock, index, users, blk, stale, raced>>
  BY DEF ClearCurrent, Goto, IInv, TypeInv, manager, history
<1>2. PlaceInv(b) /\ OwnerInv(b) /\ AccessInv(b) /\ FoundInv(b) /\ UsedInv(b)
  BY <1>1 DEF IInv, BlockInv
<1>3. \A u \in Tasks : /\ Taking(u, b)' <=> Taking(u, b)
                       /\ Checking(u, b)' <=> Checking(u, b)
                       /\ Recycling(u, b)' <=> Recycling(u, b)
                       /\ Allocating(u, b)' <=> Allocating(u, b)
                       /\ Holds(u, b)' <=> Holds(u, b)
  BY <1>1 DEF Taking, Checking, Recycling, Allocating, Holds
<1>4. /\ InUse(b)' <=> InUse(b)
      /\ Once(b)' <=> Once(b)
      /\ Free(b)' <=> Free(b)
  BY <1>1 DEF InUse, Once, Free
<1>5. CASE blk[t] # b
  <2>1. UsedInv(b)' /\ (IsDistributed(b)' <=> IsDistributed(b))
    BY <1>1, <1>2, <1>3, <1>5, SameUse
  <2>2. \A u \in Tasks : Returning(u, b)' <=> Returning(u, b)
    BY <1>3, <2>1 DEF Returning
  <2>3. PlaceInv(b)'
    BY <1>1, <1>2, <1>3, <1>4, <1>5, <2>2 DEF PlaceInv
  <2>4. OwnerInv(b)'
    BY <1>1, <1>2, <1>3, <1>4, <2>1 DEF OwnerInv
  <2>5. AccessInv(b)'
    BY <1>1, <1>2, <1>3, <1>4, <1>5, <2>1 DEF AccessInv
  <2>6. FoundInv(b)'
    BY <1>1, <1>2, <1>3, <1>4, <2>1, <2>2 DEF FoundInv
  <2> QED
    BY <2>1, <2>3, <2>4, <2>5, <2>6 DEF BlockInv
<1>6. CASE blk[t] = b
  <2>1. /\ Taking(t, b) /\ ~ Free(b) /\ ~ InUse(b)
        /\ \A u \in Tasks : /\ ~ Recycling(u, b) /\ ~ Checking(u, b)
                            /\ Taking(u, b) => u = t
                            /\ Holds(u, b) => u = t
    <3>1. Taking(t, b)
      BY <1>1, <1>6 DEF Taking
    <3> QED
      BY <1>2, <3>1 DEF PlaceInv, OwnerInv
  <2>2. \A u \in Tasks : ~ Returning(u, b)'
    BY <1>3, <2>1 DEF Returning
  <2>3. \A i \in Indices : users[<<b, i>>] \in Nat /\ ~ (users[<<b, i>>] > 0)
    BY <2>1 DEF InUse, IInv, TypeInv
  <2>4. \A u \in Tasks : fBlock[u] = b /\ pc'[u] \in {"assert", "object", "used"} => FALSE
    BY <1>1, <1>2, <2>1 DEF AccessInv, Holds
  <2>5. UsedInv(b)'
    <3>1. AllocatorsIn(b)' = AllocatorsIn(b) /\ TracksOf(b)' = TracksOf(b)
      BY <1>1, <1>3 DEF AllocatorsIn, TracksOf
    <3>2. fCurrent'[b] <= fSize
      BY <1>1, <1>6, BlockFacts
    <3> QED
      BY <1>1, <1>2, <2>3, <3>1, <3>2 DEF UsedInv
  <2>6. PlaceInv(b)'
    BY <1>1, <1>2, <1>3, <1>4, <1>6, <2>1, <2>2 DEF PlaceInv
  <2>7. OwnerInv(b)'
    BY <1>1, <1>2, <1>3, <1>4, <1>6, <2>1 DEF OwnerInv
  <2>8. AccessInv(b)'
    BY <1>1, <1>2, <1>3, <1>4, <1>6, <2>1, <2>4 DEF AccessInv
  <2>9. FoundInv(b)'
    BY <1>3, <2>1 DEF FoundInv
  <2> QED
    BY <2>5, <2>6, <2>7, <2>8, <2>9 DEF BlockInv
<1> QED
  BY <1>5, <1>6

\* No track of the block is in use: its second counter is zero before, too.
LEMMA StepClearUsed ==
  ASSUME IInv, NEW t \in Tasks, ClearUsed(t), NEW b \in Blocks \ raced'
  PROVE  BlockInv(b)'
<1>1. /\ pc[t] = "clear2" /\ pc'[t] = "attach"
      /\ \A u \in Tasks : u # t => pc'[u] = pc[u]
      /\ fUsed'[b] = IF blk[t] = b THEN 0 ELSE fUsed[b]
      /\ UNCHANGED <<fBlocks, fNblocks, fCurrent, fBlock, index, users, blk, stale, raced>>
  BY DEF ClearUsed, Goto, IInv, TypeInv, manager, history
<1>2. PlaceInv(b) /\ OwnerInv(b) /\ AccessInv(b) /\ FoundInv(b) /\ UsedInv(b)
  BY <1>1 DEF IInv, BlockInv
<1>3. \A u \in Tasks : /\ Taking(u, b)' <=> Taking(u, b)
                       /\ Checking(u, b)' <=> Checking(u, b)
                       /\ Recycling(u, b)' <=> Recycling(u, b)
                       /\ Allocating(u, b)' <=> Allocating(u, b)
                       /\ Holds(u, b)' <=> Holds(u, b)
  BY <1>1 DEF Taking, Checking, Recycling, Allocating, Holds
<1>4. fUsed'[b] = fUsed[b]
  <2>1. CASE blk[t] = b
    <3>1. ~ InUse(b)
      BY <1>1, <1>2, <2>1 DEF PlaceInv, Taking
    <3>2. \A i \in Indices : ~ (users[<<b, i>>] > 0)
      BY <3>1 DEF InUse
    <3>3. TracksOf(b) = {}
      BY <3>2 DEF TracksOf
    <3>4. AllocatorsIn(b) = {}
      <4>1. \A u \in Tasks : index[u] \in Indices
        BY DEF IInv, TypeInv
      <4> QED
        BY <1>2, <3>2, <4>1 DEF AccessInv, AllocatorsIn, Allocating
    <3>5. fUsed[b] + 0 = 0 /\ fUsed[b] \in Int
      BY <1>2, <3>3, <3>4, FS_EmptySet DEF UsedInv, IInv, TypeInv
    <3> QED
      BY <1>1, <2>1, <3>5
  <2> QED
    BY <1>1, <2>1
<1>5. UsedInv(b)' /\ (InUse(b)' <=> InUse(b)) /\ (IsDistributed(b)' <=> IsDistributed(b))
  BY <1>1, <1>2, <1>3, <1>4, SameUse
<1>6. /\ Once(b)' <=> Once(b)
      /\ Free(b)' <=> Free(b)
      /\ \A u \in Tasks : Returning(u, b)' <=> Returning(u, b)
  BY <1>1, <1>3, <1>5 DEF Once, Free, Returning
<1>7. PlaceInv(b)'
  BY <1>1, <1>2, <1>3, <1>4, <1>5, <1>6 DEF PlaceInv
<1>8. OwnerInv(b)'
  BY <1>1, <1>2, <1>3, <1>5, <1>6 DEF OwnerInv
<1>9. AccessInv(b)'
  BY <1>1, <1>2, <1>3, <1>5, <1>6 DEF AccessInv
<1>10. FoundInv(b)'
  BY <1>1, <1>2, <1>3, <1>5, <1>6 DEF FoundInv
<1> QED
  BY <1>5, <1>7, <1>8, <1>9, <1>10 DEF BlockInv

\* The block at the head of the queue is the task's; whoever else refers to it
\* has distributed it and is stale now.
LEMMA StepTakeBlock ==
  ASSUME IInv, NEW t \in Tasks, TakeBlock(t), NEW b \in Blocks \ raced'
  PROVE  BlockInv(b)'
<1> DEFINE h == Head(fBlocks)
<1>0. fBlocks \in Seq(Blocks) /\ fBlocks # <<>> /\ h \in Blocks
  BY DEF TakeBlock, IInv, TypeInv
<1>1. /\ pc[t] = "block" /\ pc'[t] = "clear" /\ blk'[t] = h
      /\ \A u \in Tasks : u # t => pc'[u] = pc[u] /\ blk'[u] = blk[u]
      /\ fBlocks' = Tail(fBlocks)
      /\ stale' = stale \union {u \in Tasks \ {t} : fBlock[u] = h}
      /\ UNCHANGED <<fNblocks, fCurrent, fUsed, fBlock, index, users, raced>>
  BY DEF TakeBlock, Goto, IInv, TypeInv, counters
<1>2. PlaceInv(b) /\ OwnerInv(b) /\ AccessInv(b) /\ FoundInv(b) /\ UsedInv(b)
  BY <1>1 DEF IInv, BlockInv
<1>3. \A u \in Tasks : /\ Taking(u, b)' <=> Taking(u, b) \/ (u = t /\ b = h)
                       /\ Checking(u, b)' <=> Checking(u, b)
                       /\ Recycling(u, b)' <=> Recycling(u, b)
                       /\ Allocating(u, b)' <=> Allocating(u, b)
                       /\ Holds(u, b)' <=> Holds(u, b) /\ (u = t \/ b # h)
  BY <1>1 DEF Taking, Checking, Recycling, Allocating, Holds
<1>4. UsedInv(b)' /\ (InUse(b)' <=> InUse(b)) /\ (IsDistributed(b)' <=> IsDistributed(b))
  BY <1>1, <1>2, <1>3, SameUse
<1>5. \A u \in Tasks : Returning(u, b)' <=> Returning(u, b)
  BY <1>3, <1>4 DEF Returning
<1>6. Once(b)' /\ (Free(b)' <=> Free(b) /\ b # h) /\ (b = h => Free(b))
  BY <1>0, <1>1, <1>2, TailOf DEF PlaceInv, Once, Free
<1>7. PlaceInv(b)'
  BY <1>1, <1>2, <1>3, <1>4, <1>5, <1>6 DEF PlaceInv
<1>8. OwnerInv(b)'
  BY <1>1, <1>2, <1>3, <1>4, <1>6 DEF OwnerInv
<1>9. AccessInv(b)'
  <2>1. ASSUME NEW u \in Tasks, pc'[u] \in {"assert", "object", "used"}, fBlock'[u] = b
        PROVE  u \notin stale'
    <3>1. pc[u] = pc'[u] /\ u \notin stale /\ Holds(u, b) /\ index[u] \in Indices
      BY <1>1, <1>2, <2>1 DEF AccessInv, Holds, IInv, TypeInv
    <3>2. ~ Free(b)
      <4>1. CASE pc[u] = "used"
        BY <1>1, <1>2, <2>1, <3>1, <4>1 DEF AccessInv, PlaceInv, InUse
      <4>2. CASE pc[u] \in {"assert", "object"}
        <5>1. fCurrent[b] = 0 \/ ~ IsDistributed(b)
          BY <1>1, <1>2, <2>1, <3>1, <4>2 DEF AccessInv
        <5>2. ~ IsDistributed(b)
          BY <5>1, BlockFacts DEF IsDistributed
        <5> QED
          BY <1>2, <3>1, <5>2 DEF OwnerInv
      <4> QED
        BY <1>1, <2>1, <4>1, <4>2
    <3> QED
      BY <1>1, <1>6, <2>1, <3>1, <3>2
  <2> QED
    BY <1>1, <1>2, <1>3, <1>4, <2>1 DEF AccessInv
<1>10. FoundInv(b)'
  BY <1>1, <1>2, <1>3, <1>4, <1>5, <1>6 DEF FoundInv
<1> QED
  BY <1>4, <1>7, <1>8, <1>9, <1>10 DEF BlockInv

\* Nobody refers to the block that is made.
LEMMA StepAddBlock ==
  ASSUME IInv, NEW t \in Tasks, AddBlock(t), NEW b \in Blocks \ raced'
  PROVE  BlockInv(b)'
<1> DEFINE h == fNblocks + 1
<1>1. /\ pc[t] = "block" /\ pc'[t] = "attach" /\ blk'[t] = h
      /\ \A u \in Tasks : u # t => pc'[u] = pc[u] /\ blk'[u] = blk[u]
      /\ fNblocks' = fNblocks + 1 /\ fNblocks \in Nat /\ b \in Nat
      /\ UNCHANGED <<fBlocks, fCurrent, fUsed, fBlock, index, users, stale, raced>>
  BY BlockFacts DEF AddBlock, Goto, IInv, TypeInv, counters, history
<1>2. PlaceInv(b) /\ OwnerInv(b) /\ AccessInv(b) /\ FoundInv(b) /\ UsedInv(b)
  BY <1>1 DEF IInv, BlockInv
<1>3. \A u \in Tasks : /\ Taking(u, b)' <=> Taking(u, b) \/ (u = t /\ b = h)
                       /\ Checking(u, b)' <=> Checking(u, b)
                       /\ Recycling(u, b)' <=> Recycling(u, b)
                       /\ Allocating(u, b)' <=> Allocating(u, b)
                       /\ Holds(u, b)' <=> Holds(u, b)
  BY <1>1 DEF Taking, Checking, Recycling, Allocating, Holds
<1>4. UsedInv(b)' /\ (InUse(b)' <=> InUse(b)) /\ (IsDistributed(b)' <=> IsDistributed(b))
  BY <1>1, <1>2, <1>3, SameUse
<1>5. /\ Once(b)' <=> Once(b)
      /\ Free(b)' <=> Free(b)
      /\ \A u \in Tasks : Returning(u, b)' <=> Returning(u, b)
  BY <1>1, <1>3, <1>4 DEF Once, Free, Returning
<1>6. b = h => /\ ~ Free(b) /\ ~ InUse(b) /\ fCurrent[b] = 0
               /\ \A u \in Tasks : /\ fBlock[u] # b /\ ~ Holds(u, b) /\ ~ Taking(u, b)
                                   /\ ~ Recycling(u, b) /\ ~ Checking(u, b) /\ ~ Returning(u, b)
  BY <1>1, <1>2 DEF PlaceInv, Returning, Holds
<1>7. PlaceInv(b)'
  BY <1>1, <1>2, <1>3, <1>4, <1>5, <1>6 DEF PlaceInv
<1>8. OwnerInv(b)'
  BY <1>1, <1>2, <1>3, <1>4, <1>5, <1>6 DEF OwnerInv
<1>9. AccessInv(b)'
  BY <1>1, <1>2, <1>3, <1>4, <1>6 DEF AccessInv
<1>10. FoundInv(b)'
  <2>1. b = h \/ (b <= fNblocks' <=> b <= fNblocks)
    BY <1>1
  <2> QED
    BY <1>2, <1>3, <1>4, <1>5, <2>1 DEF FoundInv
<1> QED
  BY <1>4, <1>7, <1>8, <1>9, <1>10 DEF BlockInv

\* The task refers to its new block; its old one is distributed.
LEMMA StepSetBlock ==
  ASSUME IInv, NEW t \in Tasks, SetBlock(t), NEW b \in Blocks \ raced'
  PROVE  BlockInv(b)'
<1> DEFINE h == blk[t]
<1>1. /\ pc[t] = "attach" /\ pc'[t] \in {"idle", "assert"} /\ blk'[t] = NoBlock
      /\ \A u \in Tasks : u # t => pc'[u] = pc[u] /\ blk'[u] = blk[u] /\ fBlock'[u] = fBlock[u]
      /\ fBlock'[t] = h /\ stale' = stale \ {t}
      /\ b # NoBlock
      /\ UNCHANGED <<fBlocks, fNblocks, fCurrent, fUsed, index, users, raced>>
  BY BlockFacts DEF SetBlock, Goto, IInv, TypeInv, manager, counters
<1>2. PlaceInv(b) /\ OwnerInv(b) /\ AccessInv(b) /\ FoundInv(b) /\ UsedInv(b)
  BY <1>1 DEF IInv, BlockInv
<1>3. \A u \in Tasks : /\ Taking(u, b)' <=> Taking(u, b) /\ u # t
                       /\ Checking(u, b)' <=> Checking(u, b)
                       /\ Recycling(u, b)' <=> Recycling(u, b)
                       /\ Allocating(u, b)' <=> Allocating(u, b)
                       /\ Holds(u, b)' <=> IF u = t THEN b = h ELSE Holds(u, b)
  BY <1>1 DEF Taking, Checking, Recycling, Allocating, Holds
<1>4. UsedInv(b)' /\ (InUse(b)' <=> InUse(b)) /\ (IsDistributed(b)' <=> IsDistributed(b))
  BY <1>1, <1>2, <1>3, SameUse
<1>5. /\ Once(b)' <=> Once(b)
      /\ Free(b)' <=> Free(b)
      /\ \A u \in Tasks : Returning(u, b)' <=> Returning(u, b)
  BY <1>1, <1>3, <1>4 DEF Once, Free, Returning
<1>6. b = h => /\ Taking(t, b) /\ ~ Free(b) /\ ~ InUse(b) /\ fCurrent[b] = 0 /\ ~ IsDistributed(b)
               /\ ~ (b > fNblocks)
               /\ \A u \in Tasks : /\ Taking(u, b) => u = t
                                   /\ Holds(u, b) => u = t
                                   /\ ~ Recycling(u, b) /\ ~ Checking(u, b)
  <2> SUFFICES ASSUME b = h
               PROVE  /\ Taking(t, b) /\ ~ Free(b) /\ ~ InUse(b) /\ fCurrent[b] = 0 /\ ~ IsDistributed(b)
                      /\ ~ (b > fNblocks)
                      /\ \A u \in Tasks : /\ Taking(u, b) => u = t
                                          /\ Holds(u, b) => u = t
                                          /\ ~ Recycling(u, b) /\ ~ Checking(u, b)
    OBVIOUS
  <2>1. Taking(t, b) /\ fCurrent[b] = 0
    BY <1>1, <1>2 DEF Taking, AccessInv
  <2>2. ~ IsDistributed(b)
    BY <2>1, BlockFacts DEF IsDistributed
  <2> QED
    BY <1>2, <2>1, <2>2 DEF PlaceInv, OwnerInv
<1>7. PlaceInv(b)'
  BY <1>1, <1>2, <1>3, <1>4, <1>5, <1>6 DEF PlaceInv
<1>8. OwnerInv(b)'
  BY <1>1, <1>2, <1>3, <1>4, <1>5, <1>6 DEF OwnerInv
<1>9. AccessInv(b)'
  BY <1>1, <1>2, <1>3, <1>4, <1>6 DEF AccessInv
<1>10. FoundInv(b)'
  <2>1. CASE b = h
    BY <1>3, <1>4, <1>6, <2>1 DEF FoundInv
  <2>2. CASE b # h
    <3>1. \A u \in Tasks : Taking(u, b)' <=> Taking(u, b)
      BY <1>3, <2>2 DEF Taking
    <3>2. Holds(t, b) => IsDistributed(b)
      BY <1>1, <1>2, <2>2 DEF OwnerInv
    <3> QED
      BY <1>1, <1>2, <1>3, <1>4, <1>5, <2>2, <3>1, <3>2 DEF FoundInv
  <2> QED
    BY <2>1, <2>2
<1> QED
  BY <1>4, <1>7, <1>8, <1>9, <1>10 DEF BlockInv

\* A block without a user goes back to the queue if it is distributed; if not,
\* it is still the block of a task.
LEMMA StepCheckDistributed ==
  ASSUME IInv, NEW t \in Tasks, CheckDistributed(t), NEW b \in Blocks \ raced'
  PROVE  BlockInv(b)'
<1> DEFINE h == blk[t]
<1>1. /\ pc[t] = "check" /\ b # NoBlock
      /\ \A u \in Tasks : u # t => pc'[u] = pc[u] /\ blk'[u] = blk[u]
      /\ \/ IsDistributed(h) /\ pc'[t] = "recycle" /\ blk'[t] = h
         \/ ~ IsDistributed(h) /\ pc'[t] = "idle" /\ blk'[t] = NoBlock
      /\ UNCHANGED <<fBlocks, fNblocks, fCurrent, fUsed, fBlock, index, users, stale, raced>>
  BY BlockFacts DEF CheckDistributed, Return, Goto, IInv, TypeInv, counters, manager, history
<1>2. PlaceInv(b) /\ OwnerInv(b) /\ AccessInv(b) /\ FoundInv(b) /\ UsedInv(b)
  BY <1>1 DEF IInv, BlockInv
<1>3. \A u \in Tasks : /\ Taking(u, b)' <=> Taking(u, b)
                       /\ Checking(u, b)' <=> Checking(u, b) /\ u # t
                       /\ Recycling(u, b)' <=> Recycling(u, b) \/ (u = t /\ b = h /\ IsDistributed(b))
                       /\ Allocating(u, b)' <=> Allocating(u, b)
                       /\ Holds(u, b)' <=> Holds(u, b)
  BY <1>1 DEF Taking, Checking, Recycling, Allocating, Holds
<1>4. UsedInv(b)' /\ (InUse(b)' <=> InUse(b)) /\ (IsDistributed(b)' <=> IsDistributed(b))
  BY <1>1, <1>2, <1>3, SameUse
<1>5. b = h => Checking(t, b)
  BY <1>1 DEF Checking
<1>6. /\ Once(b)' <=> Once(b)
      /\ Free(b)' <=> Free(b)
      /\ \A u \in Tasks : Returning(u, b)' <=> Returning(u, b)
  <2>1. \A u \in Tasks : Returning(u, b)' <=> Returning(u, b)
    <3>1. Checking(t, b) <=> b = h
      BY <1>1 DEF Checking
    <3>2. ~ Recycling(t, b)
      BY <1>1 DEF Recycling
    <3> QED
      BY <1>3, <1>4, <3>1, <3>2 DEF Returning
  <2> QED
    BY <1>1, <2>1 DEF Once, Free
<1>7. PlaceInv(b)'
  BY <1>1, <1>2, <1>3, <1>4, <1>5, <1>6 DEF PlaceInv
<1>8. OwnerInv(b)'
  BY <1>1, <1>2, <1>3, <1>4, <1>6 DEF OwnerInv
<1>9. AccessInv(b)'
  BY <1>1, <1>2, <1>3, <1>4 DEF AccessInv
<1>10. FoundInv(b)'
  BY <1>1, <1>2, <1>3, <1>4, <1>6 DEF FoundInv
<1> QED
  BY <1>4, <1>7, <1>8, <1>9, <1>10 DEF BlockInv

\* A block in nobody's hands is appended to the queue.
LEMMA StepRecycleBlock ==
  ASSUME IInv, NEW t \in Tasks, RecycleBlock(t), NEW b \in Blocks \ raced'
  PROVE  BlockInv(b)'
<1> DEFINE h == blk[t]
<1>0. h \in Blocks
  BY DEF RecycleBlock, IInv, RefersInv
<1>1. /\ pc[t] = "recycle" /\ pc'[t] = "idle" /\ blk'[t] = NoBlock /\ b # NoBlock
      /\ \A u \in Tasks : u # t => pc'[u] = pc[u] /\ blk'[u] = blk[u]
      /\ fBlocks' = Append(fBlocks, h) /\ fBlocks \in Seq(Blocks)
      /\ UNCHANGED <<fNblocks, fCurrent, fUsed, fBlock, index, users, stale, raced>>
  BY BlockFacts DEF RecycleBlock, Return, Goto, IInv, TypeInv, counters, history
<1>2. PlaceInv(b) /\ OwnerInv(b) /\ AccessInv(b) /\ FoundInv(b) /\ UsedInv(b)
  BY <1>1 DEF IInv, BlockInv
<1>3. \A u \in Tasks : /\ Taking(u, b)' <=> Taking(u, b)
                       /\ Checking(u, b)' <=> Checking(u, b)
                       /\ Recycling(u, b)' <=> Recycling(u, b) /\ u # t
                       /\ Allocating(u, b)' <=> Allocating(u, b)
                       /\ Holds(u, b)' <=> Holds(u, b)
  BY <1>1 DEF Taking, Checking, Recycling, Allocating, Holds
<1>4. UsedInv(b)' /\ (InUse(b)' <=> InUse(b)) /\ (IsDistributed(b)' <=> IsDistributed(b))
  BY <1>1, <1>2, <1>3, SameUse
<1>5. b = h => /\ Recycling(t, b) /\ Returning(t, b) /\ IsDistributed(b)
               /\ ~ Free(b) /\ ~ InUse(b) /\ ~ (b > fNblocks)
               /\ \A u \in Tasks : /\ ~ Taking(u, b)
                                   /\ Recycling(u, b) \/ Checking(u, b) => u = t
  <2> SUFFICES ASSUME b = h
               PROVE  /\ Recycling(t, b) /\ Returning(t, b) /\ IsDistributed(b)
                      /\ ~ Free(b) /\ ~ InUse(b) /\ ~ (b > fNblocks)
                      /\ \A u \in Tasks : /\ ~ Taking(u, b)
                                          /\ Recycling(u, b) \/ Checking(u, b) => u = t
    OBVIOUS
  <2>1. Recycling(t, b)
    BY <1>1 DEF Recycling
  <2>2. IsDistributed(b) /\ Returning(t, b)
    BY <1>2, <2>1 DEF AccessInv, Returning
  <2>3. \A u \in Tasks : Recycling(u, b) \/ Checking(u, b) => Returning(u, b)
    BY <2>2 DEF Returning
  <2> QED
    BY <1>2, <2>1, <2>2, <2>3 DEF PlaceInv
<1>6. /\ Once(b)' /\ (Free(b)' <=> Free(b) \/ b = h)
      /\ ~ Checking(t, b)
      /\ \A u \in Tasks : Returning(u, b)' <=> Returning(u, b) /\ u # t
  <2>1. Once(b)' /\ (Free(b)' <=> Free(b) \/ b = h)
    BY <1>0, <1>1, <1>2, <1>5, AppendOf DEF PlaceInv, Once, Free
  <2>2. ~ Checking(t, b)
    BY <1>1 DEF Checking
  <2> QED
    BY <1>3, <1>4, <2>1, <2>2 DEF Returning
<1>7. PlaceInv(b)'
  BY <1>1, <1>2, <1>3, <1>4, <1>5, <1>6 DEF PlaceInv
<1>8. OwnerInv(b)'
  BY <1>1, <1>2, <1>3, <1>4, <1>5, <1>6 DEF OwnerInv
<1>9. AccessInv(b)'
  BY <1>1, <1>2, <1>3, <1>4 DEF AccessInv
<1>10. FoundInv(b)'
  <2>1. b = h \/ ~ Returning(t, b)
    BY <1>1 DEF Returning, Recycling, Checking
  <2> QED
    BY <1>1, <1>2, <1>3, <1>4, <1>6, <2>1 DEF FoundInv
<1> QED
  BY <1>4, <1>7, <1>8, <1>9, <1>10 DEF BlockInv

\* A step of another block and of tracks, with a task that holds no place in it.
LEMMA OtherBlock ==
  ASSUME IInv, NEW b \in Blocks \ raced, NEW t \in Tasks,
         pc[t] \in {"idle", "object", "used"},
         pc'[t] \in {"idle", "used", "null", "check"},
         pc'[t] = "check" => blk'[t] # b,
         pc'[t] \in {"used", "null"} \/ pc[t] = "used" => fBlock[t] # b,
         \A u \in Tasks : u # t => pc'[u] = pc[u] /\ blk'[u] = blk[u] /\ index'[u] = index[u],
         fCurrent'[b] = fCurrent[b], fUsed'[b] = fUsed[b],
         \A i \in Indices : users'[<<b, i>>] = users[<<b, i>>],
         UNCHANGED <<fBlocks, fNblocks, fBlock, stale>>
  PROVE  BlockInv(b)'
<1>2. PlaceInv(b) /\ OwnerInv(b) /\ AccessInv(b) /\ FoundInv(b) /\ UsedInv(b) /\ b \in Blocks
  BY DEF IInv, BlockInv
<1>3. \A u \in Tasks : /\ Taking(u, b)' <=> Taking(u, b)
                       /\ Checking(u, b)' <=> Checking(u, b)
                       /\ Recycling(u, b)' <=> Recycling(u, b)
                       /\ Allocating(u, b)' <=> Allocating(u, b)
                       /\ Holds(u, b)' <=> Holds(u, b)
  BY DEF Taking, Checking, Recycling, Allocating, Holds
<1>4. UsedInv(b)' /\ (InUse(b)' <=> InUse(b)) /\ (IsDistributed(b)' <=> IsDistributed(b))
  BY <1>2, <1>3, SameUse
<1>5. /\ Once(b)' <=> Once(b)
      /\ Free(b)' <=> Free(b)
      /\ \A u \in Tasks : Returning(u, b)' <=> Returning(u, b)
  BY <1>3, <1>4 DEF Once, Free, Returning
<1>6. PlaceInv(b)'
  BY <1>2, <1>3, <1>4, <1>5 DEF PlaceInv
<1>7. OwnerInv(b)'
  BY <1>2, <1>3, <1>4, <1>5 DEF OwnerInv
<1>8. AccessInv(b)'
  <2>1. \A u \in Tasks : index[u] \in Indices
    BY DEF IInv, TypeInv
  <2> QED
    BY <1>2, <1>3, <1>4, <2>1 DEF AccessInv
<1>9. FoundInv(b)'
  BY <1>2, <1>3, <1>4, <1>5 DEF FoundInv
<1> QED
  BY <1>4, <1>6, <1>7, <1>8, <1>9 DEF BlockInv

\* A task takes a track from its block: nobody has that one.  When it is the last
\* one, no release has looked at the block as its last user.
LEMMA StepTakeIndex ==
  ASSUME IInv, NEW t \in Tasks, TakeIndex(t), NEW b \in Blocks \ raced'
  PROVE  BlockInv(b)'
<1> DEFINE h == fBlock[t]
           k == fCurrent[h]
<1>0. /\ h \in Blocks /\ k \in Nat /\ pc[t] = "object" /\ raced \subseteq raced'
      /\ h # NoBlock /\ fSize \in Nat \ {0} /\ Indices = 0 .. fSize - 1
  BY BlockFacts DEF TakeIndex, Record, IInv, TypeInv, RefersInv
<1>1. /\ \A u \in Tasks : u # t => pc'[u] = pc[u] /\ index'[u] = index[u]
      /\ fCurrent' = [fCurrent EXCEPT ![h] = @ + 1]
      /\ pc'[t] \in {"used", "null"}
      /\ k < fSize => /\ pc'[t] = "used" /\ index'[t] = k
                      /\ users' = [users EXCEPT ![<<h, k>>] = @ + 1]
      /\ ~ (k < fSize) => users' = users
      /\ UNCHANGED <<fBlocks, fNblocks, fUsed, fBlock, blk, stale>>
      /\ CheckedTooLate(h) => h \in raced'
  BY <1>0 DEF TakeIndex, Goto, Record, IInv, TypeInv, manager
<1>a. b \in Blocks /\ b \notin raced /\ users \in [Blocks \X Indices -> Nat] /\ fCurrent \in [Blocks -> Nat]
  BY <1>0 DEF IInv, TypeInv
<1>2. CASE b # h
  <2>1. \A i \in Indices : users'[<<b, i>>] = users[<<b, i>>]
    BY <1>1, <1>2, <1>a
  <2>2. fCurrent'[b] = fCurrent[b]
    BY <1>1, <1>2, <1>a
  <2> QED
    BY <1>0, <1>1, <1>2, <1>a, <2>1, <2>2, OtherBlock
<1>3. CASE b = h
  <2>0. PlaceInv(b) /\ OwnerInv(b) /\ AccessInv(b) /\ FoundInv(b) /\ UsedInv(b)
    BY <1>a DEF IInv, BlockInv
  <2>1. /\ ~ IsDistributed(b) /\ k < fSize /\ k \in Indices /\ Holds(t, b)
        /\ \A u \in Tasks : Holds(u, b) => u = t
    <3>1. ~ IsDistributed(b) /\ Holds(t, b)
      BY <1>0, <1>3, <2>0 DEF AccessInv, Holds
    <3>2. k < fSize /\ k \in Indices
      BY <1>0, <1>3, <3>1 DEF IsDistributed
    <3> QED
      BY <2>0, <3>1, <3>2 DEF OwnerInv
  <2>2. /\ fCurrent'[b] = k + 1
        /\ pc'[t] = "used" /\ index'[t] = k
        /\ \A i \in Indices : users'[<<b, i>>] = IF i = k THEN users[<<b, k>>] + 1 ELSE users[<<b, i>>]
    BY <1>1, <1>3, <1>a, <2>1
  <2>3. users[<<b, k>>] = 0
    <3>1. users[<<b, k>>] \in Nat /\ ~ (users[<<b, k>>] > 0)
      BY <1>0, <1>3, <1>a, <2>0, <2>1 DEF UsedInv
    <3> QED
      BY <3>1
  <2>4. InUse(b)'
    <3>1. users'[<<b, k>>] > 0
      BY <2>1, <2>2, <2>3
    <3> QED
      BY <2>1, <3>1 DEF InUse
  <2>5. \A u \in Tasks : /\ ~ Taking(u, b)
                         /\ ~ Recycling(u, b)
                         /\ IsDistributed(b)' => ~ Checking(u, b)
    <3>1. ASSUME NEW u \in Tasks, Taking(u, b) PROVE FALSE
      <4>1. u = t
        BY <2>0, <2>1, <3>1 DEF OwnerInv
      <4> QED
        BY <1>0, <3>1, <4>1 DEF Taking
    <3>2. ASSUME NEW u \in Tasks, Recycling(u, b) PROVE FALSE
      BY <2>0, <2>1, <3>2 DEF AccessInv
    <3>3. ASSUME NEW u \in Tasks, IsDistributed(b)', Checking(u, b) PROVE FALSE
      <4>1. k + 1 >= fSize
        BY <2>2, <3>3 DEF IsDistributed
      <4>2. CheckedTooLate(h)
        BY <1>0, <1>3, <2>1, <3>3, <4>1 DEF CheckedTooLate
      <4> QED
        BY <1>1, <1>3, <4>2
    <3> QED
      BY <3>1, <3>2, <3>3
  <2>6. ~ Free(b) /\ ~ (b > fNblocks)
    BY <1>3, <2>0, <2>1 DEF OwnerInv, PlaceInv
  <2>7. \A u \in Tasks : /\ Taking(u, b)' <=> Taking(u, b)
                         /\ Checking(u, b)' <=> Checking(u, b)
                         /\ Recycling(u, b)' <=> Recycling(u, b)
                         /\ Allocating(u, b)' <=> u = t
                         /\ ~ Allocating(u, b)
                         /\ Holds(u, b)' <=> Holds(u, b)
                         /\ ~ Returning(u, b)'
    <3>1. \A u \in Tasks : /\ Taking(u, b)' <=> Taking(u, b)
                           /\ Checking(u, b)' <=> Checking(u, b)
                           /\ Recycling(u, b)' <=> Recycling(u, b)
                           /\ Holds(u, b)' <=> Holds(u, b)
      BY <1>0, <1>1 DEF Taking, Checking, Recycling, Holds
    <3>2. \A u \in Tasks : ~ Allocating(u, b)
      BY <1>0, <2>0, <2>1 DEF Allocating, AccessInv, Holds
    <3>3. \A u \in Tasks : Allocating(u, b)' <=> u = t
      BY <1>1, <1>3, <2>2, <3>2 DEF Allocating
    <3> QED
      BY <2>5, <3>1, <3>2, <3>3 DEF Returning
  <2>8. PlaceInv(b)'
    <3>1. Once(b)' /\ ~ Free(b)' /\ ~ (b > fNblocks')
      BY <1>1, <2>0, <2>6 DEF PlaceInv, Once, Free
    <3> QED
      BY <2>5, <2>7, <3>1 DEF PlaceInv
  <2>9. OwnerInv(b)'
    <3>1. ~ Free(b)' /\ \A u \in Tasks : Holds(u, b)' => pc'[u] = "used"
      BY <1>1, <2>1, <2>2, <2>6, <2>7 DEF Free
    <3> QED
      BY <2>1, <2>5, <2>7, <3>1 DEF OwnerInv
  <2>10. AccessInv(b)'
    <3>1. \A u \in Tasks : u # t /\ fBlock[u] = b => pc[u] \notin {"assert", "object", "used", "null"}
      BY <2>0, <2>1 DEF AccessInv, Holds
    <3>2. users'[<<b, index'[t]>>] > 0
      BY <2>1, <2>2, <2>3
    <3>3. t \notin stale /\ pc'[t] = "used"
      BY <2>1, <2>2 DEF Holds
    <3>4. \A u \in Tasks : pc'[u] \in {"clear2", "attach"} => blk'[u] # b
      BY <1>1, <2>2, <2>5 DEF Taking
    <3> QED
      BY <1>1, <2>5, <2>7, <3>1, <3>2, <3>3, <3>4 DEF AccessInv
  <2>11. FoundInv(b)'
    BY <2>1, <2>4, <2>7 DEF FoundInv
  <2>12. UsedInv(b)'
    <3>1. AllocatorsIn(b) = {} /\ AllocatorsIn(b)' = {t}
      BY <2>7 DEF AllocatorsIn
    <3>2. TracksOf(b)' = TracksOf(b) \union {k} /\ k \notin TracksOf(b)
      BY <1>a, <2>1, <2>2, <2>3 DEF TracksOf
    <3>3. /\ Cardinality(TracksOf(b)) \in Nat
          /\ Cardinality(TracksOf(b)') = Cardinality(TracksOf(b)) + 1
      BY <3>2, Finite, FS_AddElement
    <3>4. fUsed[b] + 0 = Cardinality(TracksOf(b)) /\ fUsed[b] \in Int
      BY <1>a, <2>0, <3>1, FS_EmptySet DEF UsedInv, IInv, TypeInv
    <3>5. fUsed'[b] + Cardinality(AllocatorsIn(b)') = Cardinality(TracksOf(b)')
      <4>1. Cardinality(AllocatorsIn(b)') = 1
        BY <3>1, FS_Singleton
      <4>2. fUsed'[b] = fUsed[b]
        BY <1>1
      <4> QED
        BY <3>3, <3>4, <4>1, <4>2
    <3>6. ASSUME NEW i \in Indices
          PROVE  users'[<<b, i>>] <= 1 /\ (users'[<<b, i>>] > 0 => i < fCurrent'[b])
      <4>1. users[<<b, i>>] <= 1 /\ (users[<<b, i>>] > 0 => i < k) /\ i \in Nat
        BY <1>0, <1>3, <2>0 DEF UsedInv
      <4> QED
        BY <1>0, <2>2, <2>3, <4>1
    <3>7. fCurrent'[b] <= fSize
      BY <1>0, <2>1, <2>2
    <3> QED
      BY <3>5, <3>6, <3>7 DEF UsedInv
  <2> QED
    BY <2>8, <2>9, <2>10, <2>11, <2>12 DEF BlockInv
<1> QED
  BY <1>2, <1>3

\* The track that was taken is counted.
LEMMA StepCountUsed ==
  ASSUME IInv, NEW t \in Tasks, CountUsed(t), NEW b \in Blocks \ raced'
  PROVE  BlockInv(b)'
<1> DEFINE h == fBlock[t]
<1>0. h \in Blocks
  BY DEF CountUsed, IInv, RefersInv
<1>1. /\ pc[t] = "used" /\ pc'[t] = "idle"
      /\ \A u \in Tasks : u # t => pc'[u] = pc[u] /\ index'[u] = index[u]
      /\ fUsed' = [fUsed EXCEPT ![h] = @ + 1] /\ fUsed \in [Blocks -> Int]
      /\ UNCHANGED <<fBlocks, fNblocks, fCurrent, fBlock, blk, users, stale, raced>>
  BY DEF CountUsed, Goto, IInv, TypeInv, manager, history
<1>2. PlaceInv(b) /\ OwnerInv(b) /\ AccessInv(b) /\ FoundInv(b) /\ UsedInv(b) /\ b \notin raced
  BY <1>1 DEF IInv, BlockInv
<1>3. CASE b # h
  <2>1. fUsed'[b] = fUsed[b]
    BY <1>1, <1>3
  <2> QED
    BY <1>1, <1>2, <1>3, <2>1, OtherBlock
<1>4. CASE b = h
  <2>1. /\ Allocating(t, b) /\ Holds(t, b)
        /\ \A u \in Tasks : Allocating(u, b) => u = t
    <3>1. \A u \in Tasks : Allocating(u, b) => Holds(u, b)
      BY <1>2 DEF Allocating, AccessInv, Holds
    <3>2. Allocating(t, b)
      BY <1>1, <1>4 DEF Allocating
    <3> QED
      BY <1>2, <3>1, <3>2 DEF OwnerInv
  <2>2. \A u \in Tasks : /\ Taking(u, b)' <=> Taking(u, b)
                         /\ Checking(u, b)' <=> Checking(u, b)
                         /\ Recycling(u, b)' <=> Recycling(u, b)
                         /\ ~ Allocating(u, b)'
                         /\ Holds(u, b)' <=> Holds(u, b)
    <3>1. \A u \in Tasks : /\ Taking(u, b)' <=> Taking(u, b)
                           /\ Checking(u, b)' <=> Checking(u, b)
                           /\ Recycling(u, b)' <=> Recycling(u, b)
                           /\ Holds(u, b)' <=> Holds(u, b)
      BY <1>1 DEF Taking, Checking, Recycling, Holds
    <3>2. \A u \in Tasks : ~ Allocating(u, b)'
      BY <1>1, <2>1 DEF Allocating
    <3> QED
      BY <3>1, <3>2
  <2>3. /\ InUse(b)' <=> InUse(b)
        /\ IsDistributed(b)' <=> IsDistributed(b)
        /\ Once(b)' <=> Once(b)
        /\ Free(b)' <=> Free(b)
    BY <1>1 DEF InUse, IsDistributed, Once, Free
  <2>4. \A u \in Tasks : Returning(u, b)' <=> Returning(u, b)
    BY <2>2, <2>3 DEF Returning
  <2>5. InUse(b) /\ ~ (b > fNblocks)
    <3>1. InUse(b)
      <4>1. index[t] \in Indices /\ users[<<b, index[t]>>] > 0
        BY <1>1, <1>2, <1>4 DEF AccessInv, IInv, TypeInv
      <4> QED
        BY <4>1 DEF InUse
    <3> QED
      BY <1>2, <3>1 DEF PlaceInv
  <2>6. PlaceInv(b)'
    BY <1>1, <1>2, <2>2, <2>3, <2>4, <2>5 DEF PlaceInv
  <2>7. OwnerInv(b)'
    BY <1>1, <1>2, <2>2, <2>3 DEF OwnerInv
  <2>8. AccessInv(b)'
    BY <1>1, <1>2, <2>2, <2>3 DEF AccessInv
  <2>9. FoundInv(b)'
    BY <1>1, <1>2, <2>2, <2>3, <2>4 DEF FoundInv
  <2>10. UsedInv(b)'
    <3>1. AllocatorsIn(b) = {t} /\ AllocatorsIn(b)' = {} /\ TracksOf(b)' = TracksOf(b)
      BY <1>1, <2>1, <2>2 DEF AllocatorsIn, TracksOf
    <3>2. Cardinality(AllocatorsIn(b)) = 1 /\ Cardinality(AllocatorsIn(b)') = 0
      BY <3>1, FS_Singleton, FS_EmptySet
    <3>3. fUsed'[b] = fUsed[b] + 1 /\ fUsed[b] \in Int
      BY <1>1, <1>4
    <3>4. fUsed'[b] + Cardinality(AllocatorsIn(b)') = Cardinality(TracksOf(b)')
      BY <1>2, <3>1, <3>2, <3>3 DEF UsedInv
    <3> QED
      BY <1>1, <1>2, <3>4 DEF UsedInv
  <2> QED
    BY <2>6, <2>7, <2>8, <2>9, <2>10 DEF BlockInv
<1> QED
  BY <1>3, <1>4

\* One task at a time allocates from a block without a race.
LEMMA OneAllocator ==
  ASSUME NEW b \in Blocks, OwnerInv(b), AccessInv(b)
  PROVE  /\ \A t, u \in Tasks : Allocating(t, b) /\ Allocating(u, b) => t = u
         /\ Cardinality(AllocatorsIn(b)) = IF AllocatorsIn(b) = {} THEN 0 ELSE 1
<1>1. \A u \in Tasks : Allocating(u, b) => Holds(u, b)
  BY DEF Allocating, AccessInv, Holds
<1>2. \A t, u \in Tasks : Allocating(t, b) /\ Allocating(u, b) => t = u
  BY <1>1 DEF OwnerInv
<1>3. \A t, u \in AllocatorsIn(b) : t = u
  BY <1>2 DEF AllocatorsIn
<1> QED
  BY <1>2, <1>3, Finite, OneAtMost

\* A track is released.  Whoever finds no other track in use in a distributed
\* block is alone with it, unless the last track was being handed out.
LEMMA StepReleaseTrack ==
  ASSUME IInv, NEW t \in Tasks, NEW x \in Blocks \X Indices, ReleaseTrack(t, x),
         NEW b \in Blocks \ raced'
  PROVE  BlockInv(b)'
<1>0. PICK h \in Blocks, k \in Indices : x = <<h, k>>
  OBVIOUS
<1>1. /\ pc[t] = "idle" /\ users[x] > Cardinality(Allocators(x))
      /\ \A u \in Tasks : u # t => pc'[u] = pc[u] /\ blk'[u] = blk[u]
      /\ users' = [users EXCEPT ![<<h, k>>] = @ - 1] /\ users \in [Blocks \X Indices -> Nat]
      /\ fUsed' = [fUsed EXCEPT ![h] = @ - 1] /\ fUsed \in [Blocks -> Int]
      /\ \/ LastUsed(h) /\ pc'[t] = "check" /\ blk'[t] = h
         \/ ~ LastUsed(h) /\ pc'[t] = "idle" /\ blk'[t] = blk[t]
      /\ UNCHANGED <<fBlocks, fNblocks, fCurrent, fBlock, index, stale>>
      /\ raced \subseteq raced' /\ (LastUsed(h) /\ CountedTooLate(h) => h \in raced')
  BY <1>0 DEF ReleaseTrack, Handed, Goto, Record, IInv, TypeInv, manager
<1>2. PlaceInv(b) /\ OwnerInv(b) /\ AccessInv(b) /\ FoundInv(b) /\ UsedInv(b) /\ b \notin raced
  BY <1>1 DEF IInv, BlockInv
<1>3. CASE b # h
  <2>1. fUsed'[b] = fUsed[b] /\ \A i \in Indices : users'[<<b, i>>] = users[<<b, i>>]
    BY <1>1, <1>3
  <2> QED
    BY <1>1, <1>2, <1>3, <2>1, OtherBlock
<1>4. CASE b = h
  <2>1. /\ users[<<b, k>>] = 1 /\ Allocators(x) = {}
        /\ users'[<<b, k>>] = 0
        /\ \A i \in Indices : i # k => users'[<<b, i>>] = users[<<b, i>>]
        /\ fUsed'[b] = fUsed[b] - 1 /\ fUsed[b] \in Int
    <3>1. IsFiniteSet(Allocators(x)) /\ Cardinality(Allocators(x)) \in Nat
      <4>1. Allocators(x) \subseteq Tasks
        BY DEF Allocators
      <4> QED
        BY <4>1, BlockFacts, FS_Subset, FS_CardinalityType
    <3>2. users[<<b, k>>] \in Nat /\ users[<<b, k>>] <= 1
      BY <1>1, <1>2 DEF UsedInv
    <3>3. users[<<b, k>>] = 1 /\ Cardinality(Allocators(x)) = 0
      BY <1>0, <1>1, <1>4, <3>1, <3>2
    <3>4. Allocators(x) = {}
      BY <3>1, <3>3, FS_EmptySet
    <3>5. users'[<<b, k>>] = 0 /\ \A i \in Indices : i # k => users'[<<b, i>>] = users[<<b, i>>]
      BY <1>1, <1>4, <3>3
    <3> QED
      BY <1>1, <1>4, <3>3, <3>4, <3>5
  <2>2. /\ InUse(b) /\ ~ Free(b) /\ ~ (b > fNblocks)
        /\ \A u \in Tasks : ~ Taking(u, b) /\ ~ Returning(u, b)
    <3>1. InUse(b)
      BY <2>1 DEF InUse
    <3> QED
      BY <1>2, <3>1 DEF PlaceInv
  <2>3. \A u \in Tasks : /\ Taking(u, b)' <=> Taking(u, b)
                         /\ Checking(u, b)' <=> Checking(u, b) \/ (u = t /\ LastUsed(b))
                         /\ Recycling(u, b)' <=> Recycling(u, b)
                         /\ Allocating(u, b)' <=> Allocating(u, b)
                         /\ Holds(u, b)' <=> Holds(u, b)
    BY <1>1, <1>4 DEF Taking, Checking, Recycling, Allocating, Holds
  <2>4. /\ IsDistributed(b)' <=> IsDistributed(b)
        /\ Once(b)' <=> Once(b)
        /\ Free(b)' <=> Free(b)
    BY <1>1 DEF IsDistributed, Once, Free
  <2>5. \A u \in Tasks : Returning(u, b)' <=> u = t /\ LastUsed(b) /\ IsDistributed(b)
    <3>1. \A u \in Tasks : Returning(u, b)' <=> Returning(u, b) \/ (u = t /\ LastUsed(b) /\ IsDistributed(b))
      BY <2>3, <2>4 DEF Returning
    <3> QED
      BY <2>2, <3>1
  <2>6. TracksOf(b)' = TracksOf(b) \ {k} /\ k \in TracksOf(b)
    <3>1. \A i \in Indices : users'[<<b, i>>] > 0 <=> i # k /\ users[<<b, i>>] > 0
      BY <2>1
    <3> QED
      BY <2>1, <3>1 DEF TracksOf
  <2>7. /\ Cardinality(TracksOf(b)) \in Nat
        /\ Cardinality(TracksOf(b)') = Cardinality(TracksOf(b)) - 1
        /\ Cardinality(TracksOf(b)') = 0 <=> TracksOf(b)' = {}
    <3>1. IsFiniteSet(TracksOf(b)) /\ Cardinality(TracksOf(b)) \in Nat
      BY Finite
    <3>2. Cardinality(TracksOf(b) \ {k}) = Cardinality(TracksOf(b)) - 1
      BY <2>6, <3>1, FS_RemoveElement
    <3>3. IsFiniteSet(TracksOf(b) \ {k})
      BY <3>1, FS_Subset
    <3>4. Cardinality(TracksOf(b) \ {k}) = 0 <=> TracksOf(b) \ {k} = {}
      BY <3>3, FS_EmptySet
    <3> QED
      BY <2>6, <3>1, <3>2, <3>4
  <2>8. IsDistributed(b) => (InUse(b)' <=> ~ LastUsed(b))
    <3> SUFFICES ASSUME IsDistributed(b) PROVE InUse(b)' <=> ~ LastUsed(b)
      OBVIOUS
    <3>1. InUse(b)' <=> TracksOf(b)' # {}
      BY DEF InUse, TracksOf
    <3>2. fUsed[b] + Cardinality(AllocatorsIn(b)) = Cardinality(TracksOf(b))
      BY <1>2 DEF UsedInv
    <3>3. CASE LastUsed(b)
      <4>1. AllocatorsIn(b) = {}
        BY <1>1, <1>4, <3>3 DEF AllocatorsIn, CountedTooLate
      <4>2. fUsed[b] + 0 = Cardinality(TracksOf(b)) /\ fUsed[b] <= 1
        BY <3>2, <3>3, <4>1, FS_EmptySet DEF LastUsed
      <4>3. Cardinality(TracksOf(b)') = 0
        <5>1. Cardinality(TracksOf(b)') \in Nat
          BY Finite, <2>6, FS_Subset, FS_CardinalityType
        <5> QED
          BY <2>1, <2>7, <4>2, <5>1
      <4> QED
        BY <2>7, <3>1, <3>3, <4>3
    <3>4. CASE ~ LastUsed(b)
      <4>1. Cardinality(AllocatorsIn(b)) \in Nat /\ fUsed[b] >= 2
        BY <2>1, <3>4, Finite DEF LastUsed
      <4>2. Cardinality(TracksOf(b)') # 0
        BY <2>1, <2>7, <3>2, <4>1
      <4> QED
        BY <2>7, <3>1, <3>4, <4>2
    <3> QED
      BY <3>3, <3>4
  <2>9. PlaceInv(b)'
    <3>1. InUse(b)' => \A u \in Tasks : ~ Returning(u, b)'
      BY <2>5, <2>8
    <3> QED
      BY <1>1, <1>2, <2>2, <2>3, <2>4, <2>5, <3>1 DEF PlaceInv
  <2>10. OwnerInv(b)'
    BY <1>1, <1>2, <2>2, <2>3, <2>4 DEF OwnerInv
  <2>11. AccessInv(b)'
    <3>1. ASSUME NEW u \in Tasks, pc'[u] = "used", fBlock'[u] = b PROVE users'[<<b, index'[u]>>] > 0
      <4>1. pc[u] = "used" /\ fBlock[u] = b /\ index[u] \in Indices /\ index'[u] = index[u]
        BY <1>1, <3>1 DEF IInv, TypeInv
      <4>2. index[u] # k
        BY <1>0, <1>4, <2>1, <4>1 DEF Allocators, Allocating
      <4> QED
        BY <1>2, <2>1, <4>1, <4>2 DEF AccessInv
    <3>2. ASSUME NEW u \in Tasks, pc'[u] = "assert", fBlock'[u] = b PROVE FALSE
      BY <1>1, <1>2, <2>2, <3>2 DEF AccessInv
    <3> QED
      BY <1>1, <1>2, <2>3, <2>4, <3>1, <3>2 DEF AccessInv
  <2>12. FoundInv(b)'
    BY <1>1, <1>2, <2>2, <2>3, <2>4, <2>5, <2>8 DEF FoundInv
  <2>13. UsedInv(b)'
    <3>1. AllocatorsIn(b)' = AllocatorsIn(b) /\ Cardinality(AllocatorsIn(b)) \in Nat
      BY <2>3, Finite DEF AllocatorsIn
    <3>2. fUsed'[b] + Cardinality(AllocatorsIn(b)') = Cardinality(TracksOf(b)')
      BY <1>2, <2>1, <2>7, <3>1 DEF UsedInv
    <3>3. \A i \in Indices : users'[<<b, i>>] <= 1 /\ (users'[<<b, i>>] > 0 => i < fCurrent[b])
      BY <1>2, <2>1 DEF UsedInv
    <3> QED
      BY <1>1, <1>2, <3>2, <3>3 DEF UsedInv
  <2> QED
    BY <2>9, <2>10, <2>11, <2>12, <2>13 DEF BlockInv
<1> QED
  BY <1>3, <1>4

\* Every step keeps the invariant.
LEMMA InvStep == ASSUME IInv, [Next]_vars PROVE IInv'
<1>1. TypeInv' /\ RefersInv'
  BY TypeStep, RefersStep DEF IInv
<1>2. ASSUME NEW b \in Blocks \ raced' PROVE BlockInv(b)'
  <2>1. CASE UNCHANGED vars
    <3>1. b \in Blocks \ raced /\ BlockInv(b)
      BY <2>1 DEF vars, history, IInv
    <3> USE <2>1 DEF vars, manager, counters, history
    <3>2. IsDistributed(b)' = IsDistributed(b) /\ InUse(b)' = InUse(b) /\ Once(b)' = Once(b) /\ Free(b)' = Free(b)
      BY DEF IsDistributed, InUse, Once, Free
    <3>3. \A u \in Tasks : /\ Taking(u, b)' <=> Taking(u, b)
                           /\ Checking(u, b)' <=> Checking(u, b)
                           /\ Recycling(u, b)' <=> Recycling(u, b)
                           /\ Allocating(u, b)' <=> Allocating(u, b)
                           /\ Holds(u, b)' <=> Holds(u, b)
      BY DEF Taking, Checking, Recycling, Allocating, Holds
    <3>4. \A u \in Tasks : Returning(u, b)' <=> Returning(u, b)
      BY <3>2, <3>3 DEF Returning
    <3>5. PlaceInv(b)' /\ OwnerInv(b)' /\ AccessInv(b)' /\ FoundInv(b)'
      BY <3>1, <3>2, <3>3, <3>4 DEF BlockInv, PlaceInv, OwnerInv, AccessInv, FoundInv
    <3>6. UsedInv(b)'
      BY <3>1, <3>3, SameUse DEF BlockInv
    <3> QED
      BY <3>5, <3>6 DEF BlockInv
  <2>2. CASE Next
    <3>1. PICK t \in Tasks :
            \/ GetNewTrack(t) \/ TakeBlock(t) \/ ClearCurrent(t) \/ ClearUsed(t) \/ AddBlock(t)
            \/ SetBlock(t) \/ AssertFresh(t) \/ TakeIndex(t) \/ CountUsed(t)
            \/ \E x \in Blocks \X Indices : ReleaseTrack(t, x)
            \/ CheckDistributed(t) \/ RecycleBlock(t)
      BY <2>2, Zenon DEF Next
    <3>2. CASE \E x \in Blocks \X Indices : ReleaseTrack(t, x)
      BY <3>2, StepReleaseTrack
    <3> QED
      BY <3>1, <3>2, StepGetNewTrack, StepTakeBlock, StepClearCurrent, StepClearUsed, StepAddBlock,
         StepSetBlock, StepAssertFresh, StepTakeIndex, StepCountUsed, StepCheckDistributed,
         StepRecycleBlock
  <2> QED
    BY <2>1, <2>2
<1> QED
  BY <1>1, <1>2 DEF IInv

\* For every block without a race the ownership invariant holds: it is in one
\* place, one task allocates from it, and fUsed counts its tracks.
THEOREM BlocksInvariant == Spec => []IInv
<1>1. IInv /\ [Next]_vars => IInv'
  BY InvStep
<1> QED
  BY InvInit, <1>1, PTL DEF Spec

\* fUsed is the number of tracks in use, one less while a task counts its track.
LEMMA UsedCounts ==
  ASSUME IInv, NEW b \in Blocks \ raced
  PROVE  /\ fUsed[b] \in 0 .. fSize
         /\ ~ InUse(b) => fUsed[b] = 0
<1>0. /\ TypeInv /\ OwnerInv(b) /\ AccessInv(b) /\ UsedInv(b)
      /\ b \in Blocks /\ fUsed[b] \in Int
  BY DEF IInv, BlockInv, TypeInv
<1>1. Cardinality(AllocatorsIn(b)) = IF AllocatorsIn(b) = {} THEN 0 ELSE 1
  BY <1>0, OneAllocator
<1>2. AllocatorsIn(b) # {} => InUse(b)
  <2>1. \A u \in Tasks : index[u] \in Indices
    BY <1>0 DEF TypeInv
  <2> QED
    BY <1>0, <2>1 DEF AllocatorsIn, Allocating, AccessInv, InUse
<1>3. /\ Cardinality(TracksOf(b)) \in 0 .. fSize
      /\ Cardinality(TracksOf(b)) = 0 <=> ~ InUse(b)
  <2>1. IsFiniteSet(Indices) /\ Cardinality(Indices) = fSize
    BY BlockFacts, FS_Interval
  <2>2. TracksOf(b) \subseteq Indices
    BY DEF TracksOf
  <2>3. IsFiniteSet(TracksOf(b)) /\ Cardinality(TracksOf(b)) \in Nat
    BY Finite
  <2>4. Cardinality(TracksOf(b)) <= Cardinality(Indices)
    BY <2>1, <2>2, FS_Subset
  <2>5. TracksOf(b) = {} <=> ~ InUse(b)
    BY DEF TracksOf, InUse
  <2>6. Cardinality(TracksOf(b)) = 0 <=> TracksOf(b) = {}
    BY <2>3, FS_EmptySet
  <2> QED
    BY <2>1, <2>3, <2>4, <2>5, <2>6, BlockFacts
<1>4. fUsed[b] + Cardinality(AllocatorsIn(b)) = Cardinality(TracksOf(b))
  BY <1>0 DEF UsedInv
<1> QED
  BY <1>0, <1>1, <1>2, <1>3, <1>4, BlockFacts

\* No counter of a block without a race goes below zero or above its size, and no
\* task gets the null pointer of an exhausted one (TaskData::GetNewTrack).
THEOREM BlocksTypeOK == Spec => []TypeOK
<1>1. IInv => TypeOK
  <2> SUFFICES ASSUME IInv PROVE TypeOK
    OBVIOUS
  <2>1. ASSUME NEW b \in Blocks \ raced PROVE fCurrent[b] <= fSize /\ fUsed[b] \in 0 .. fSize
    BY UsedCounts DEF IInv, BlockInv, UsedInv
  <2>2. ASSUME NEW t \in Tasks, pc[t] = "null" PROVE fBlock[t] \in raced
    BY <2>2 DEF IInv, RefersInv, BlockInv, AccessInv
  <2> QED
    BY <2>1, <2>2 DEF IInv, TypeInv, TypeOK
<1> QED
  BY <1>1, BlocksInvariant, PTL

\* A track of a block without a race has one user at a time, whoever allocates
\* and releases the other tracks of its block.
THEOREM TrackExclusive == Spec => []ExclusiveUnlessRaced
<1>1. IInv => ExclusiveUnlessRaced
  <2> SUFFICES ASSUME IInv, NEW x \in (Blocks \ raced) \X Indices PROVE users[x] <= 1
    BY DEF ExclusiveUnlessRaced
  <2>1. PICK b \in Blocks \ raced, i \in Indices : x = <<b, i>>
    OBVIOUS
  <2> QED
    BY <2>1 DEF IInv, BlockInv, UsedInv
<1> QED
  BY <1>1, BlocksInvariant, PTL

\* The assertion of TaskData::GetNewTrack on the counters of a new block holds,
\* unless a race has happened to the block.
THEOREM BlockFresh == Spec => []FreshUnlessRaced
<1>1. IInv => FreshUnlessRaced
  <2> SUFFICES ASSUME IInv, NEW t \in Tasks, pc[t] = "assert", fBlock[t] \notin raced
               PROVE  fCurrent[fBlock[t]] = 0 /\ fUsed[fBlock[t]] = 0
    BY DEF FreshUnlessRaced
  <2>1. fBlock[t] \in Blocks \ raced
    BY DEF IInv, RefersInv
  <2>2. fCurrent[fBlock[t]] = 0 /\ ~ InUse(fBlock[t])
    BY <2>1 DEF IInv, BlockInv, AccessInv
  <2> QED
    BY <2>1, <2>2, UsedCounts
<1> QED
  BY <1>1, BlocksInvariant, PTL

\* No block without a race is lost by the queue, the tasks and the users of its
\* tracks, and none of them has a block that another one has.
THEOREM BlocksConserved == Spec => []ConservedUnlessRaced
<1>1. ASSUME IInv, NEW b \in (1 .. fNblocks) \ raced
      PROVE  LET taking    == {t \in Tasks : pc[t] \in {"clear", "clear2", "attach"} /\ blk[t] = b}
                 recycling == {t \in Tasks : pc[t] \in {"check", "recycle"} /\ blk[t] = b /\ IsDistributed(b)}
                 owned     == ~ IsDistributed(b) /\ \E t \in Tasks \ stale : fBlock[t] = b
                 free      == Occurrences(fBlocks, b)
                 count(P)  == IF P THEN 1 ELSE 0
             IN  IF taking # {} THEN Cardinality(taking) = 1 /\ free = 0 /\ ~ InUse(b)
                 ELSE free + Cardinality(recycling) + count(owned \/ InUse(b)) >= 1
                      /\ free + Cardinality(recycling) + count(InUse(b)) <= 1
  <2> DEFINE taking    == {t \in Tasks : pc[t] \in {"clear", "clear2", "attach"} /\ blk[t] = b}
             recycling == {t \in Tasks : pc[t] \in {"check", "recycle"} /\ blk[t] = b /\ IsDistributed(b)}
             owned     == ~ IsDistributed(b) /\ \E t \in Tasks \ stale : fBlock[t] = b
             free      == Occurrences(fBlocks, b)
             count(P)  == IF P THEN 1 ELSE 0
             taken     == \E t \in Tasks : Taking(t, b)
             returned  == \E t \in Tasks : Returning(t, b)
  <2>0. /\ TypeInv /\ PlaceInv(b) /\ FoundInv(b) /\ AccessInv(b)
        /\ b \in Blocks /\ b <= fNblocks
    BY <1>1, BlockFacts DEF IInv, TypeInv, BlockInv
  <2>1. free = IF Free(b) THEN 1 ELSE 0
    <3>1. \A i, j \in {n \in DOMAIN fBlocks : fBlocks[n] = b} : i = j
      BY <2>0 DEF PlaceInv, Once
    <3>2. IsFiniteSet({n \in DOMAIN fBlocks : fBlocks[n] = b})
      <4>1. DOMAIN fBlocks = 1 .. Len(fBlocks) /\ Len(fBlocks) \in Nat
        BY <2>0 DEF TypeInv
      <4>2. IsFiniteSet(DOMAIN fBlocks)
        BY <4>1, FS_Interval
      <4> QED
        BY <4>2, FS_Subset
    <3>3. {n \in DOMAIN fBlocks : fBlocks[n] = b} = {} <=> ~ Free(b)
      BY DEF Free, Range
    <3> QED
      BY <3>1, <3>2, <3>3, OneAtMost DEF Occurrences
  <2>2. taking # {} <=> taken
    BY DEF Taking
  <2>3. taking # {} => Cardinality(taking) = 1
    <3>1. IsFiniteSet(taking)
      BY BlockFacts, FS_Subset
    <3>2. \A t, u \in taking : t = u
      BY <2>0 DEF PlaceInv, Taking
    <3> QED
      BY <3>1, <3>2, OneAtMost
  <2>4. Cardinality(recycling) = IF returned THEN 1 ELSE 0
    <3>1. IsFiniteSet(recycling)
      BY BlockFacts, FS_Subset
    <3>2. \A t \in Tasks : t \in recycling <=> Returning(t, b)
      BY <2>0 DEF Returning, Recycling, Checking, AccessInv
    <3>3. \A t, u \in recycling : t = u
      BY <2>0, <3>2 DEF PlaceInv
    <3>4. recycling # {} <=> returned
      BY <3>2
    <3> QED
      BY <3>1, <3>3, <3>4, OneAtMost
  <2>5. CASE taken
    BY <2>0, <2>1, <2>2, <2>3, <2>5 DEF PlaceInv
  <2>6. CASE ~ taken
    <3>1. Free(b) => ~ returned /\ ~ InUse(b)
      BY <2>0 DEF PlaceInv, Returning
    <3>2. returned => ~ InUse(b)
      BY <2>0 DEF PlaceInv
    <3>3. Free(b) \/ owned \/ InUse(b) \/ returned
      BY <2>0, <2>6 DEF FoundInv, Holds
    <3>4. free + Cardinality(recycling) + count(owned \/ InUse(b)) >= 1
      BY <2>1, <2>4, <3>3
    <3>5. free + Cardinality(recycling) + count(InUse(b)) <= 1
      BY <2>1, <2>4, <3>1, <3>2
    <3> QED
      BY <2>2, <2>6, <3>4, <3>5
  <2> QED
    BY <2>5, <2>6
<1>2. IInv => ConservedUnlessRaced
  BY <1>1 DEF ConservedUnlessRaced
<1> QED
  BY <1>2, BlocksInvariant, PTL

=============================================================================
