----------------------------- MODULE TrackBlocks -----------------------------
(***************************************************************************)
(* The memory of the tracks.  A task takes its tracks from a block of its  *)
(* own (TaskData::GetNewTrack); any thread releases a track to the block   *)
(* it came from (NumaBlock.h), and a block that was wholly distributed and *)
(* wholly released goes back to the queue of free blocks (NumaBlockMgr.h). *)
(*                                                                         *)
(* An action is one access to shared memory.  NumaBlockMgr::GetObject, the *)
(* distribution from one block to all threads, serves only a test and is   *)
(* left out.  The queue is atomic: see MpmcQueue.                          *)
(*                                                                         *)
(* Nothing keeps the accesses of two threads to one block apart.  Three of *)
(* the interleavings ruin the block; a history variable holds the blocks   *)
(* they happened to, and the properties say that nothing else can.         *)
(***************************************************************************)
EXTENDS Integers, Sequences, FiniteSets

CONSTANTS Tasks,      \* the task data, each used by one thread
          fSize,      \* tracks per block
          NFree,      \* blocks in the queue at the start
          queue_buff_size,  \* blocks the queue takes
          MaxBlocks,  \* bound: blocks there may be in the end
          NoBlock

Blocks == 1 .. MaxBlocks
Indices == 0 .. fSize - 1

ASSUME SizesAssumption ==
  /\ fSize \in Nat \ {0} /\ NFree \in Nat /\ MaxBlocks \in Nat /\ NFree <= MaxBlocks
  /\ queue_buff_size \in Nat
ASSUME TasksAssumption == IsFiniteSet(Tasks)
ASSUME NoBlockAssumption == NoBlock \notin Blocks

VARIABLES fBlocks, fNblocks,  \* the manager: the queue, and how many blocks it made
          fCurrent, fUsed,    \* of each block: the next index, the tracks in use
          fBlock,             \* of each task: the block it takes tracks from
          index,              \* of each task: the index it took in GetObject
          pc, blk,            \* of each task: its next access, the block it is about
          users,              \* history: of each track, how many were given it
          stale,              \* history: tasks whose fBlock another task took since
          raced               \* history: blocks that a race has ruined

manager == <<fBlocks, fNblocks>>
counters == <<fCurrent, fUsed>>
history == <<users, stale, raced>>
vars == <<manager, counters, fBlock, index, pc, blk, history>>

Goto(t, label) == pc' = [pc EXCEPT ![t] = label]
Return(t) == Goto(t, "idle") /\ blk' = [blk EXCEPT ![t] = NoBlock]

Init ==
  /\ fBlocks = [i \in 1 .. NFree |-> i]
  /\ fNblocks = NFree
  /\ fCurrent = [b \in Blocks |-> 0] /\ fUsed = [b \in Blocks |-> 0]
  /\ fBlock = [t \in Tasks |-> NoBlock]
  /\ users = [x \in Blocks \X Indices |-> 0]
  /\ index = [t \in Tasks |-> 0]
  /\ pc = [t \in Tasks |-> "block"]  \* AttachPropagator
  /\ blk = [t \in Tasks |-> NoBlock]
  /\ stale = {} /\ raced = {}

------------------------------------------------------------------------------
(* TaskData::GetNewTrack                                                   *)

\* Mutant of IsDistributed: off by one.
IsOverDistributed(b) == fCurrent[b] > fSize

IsDistributed(b) == fCurrent[b] >= fSize

Allocating(u, b) == pc[u] = "used" /\ fBlock[u] = b
Checking(u, b) == pc[u] = "check" /\ blk[u] = b

\* The three races.  A task finds a track left in its block, which another
\* task took meanwhile.
StaleUse(t) == t \in stale /\ ~ IsDistributed(fBlock[t])
\* The last track of a block is given out after a release has found no track in
\* use, and before it looks whether the block is distributed.
CheckedTooLate(b) == fCurrent[b] = fSize - 1 /\ \E u \in Tasks : Checking(u, b)
\* A release finds no track in use while the last one is being given out.
CountedTooLate(b) == IsDistributed(b) /\ \E u \in Tasks : Allocating(u, b)

Record(b, race) == raced' = IF race THEN raced \union {b} ELSE raced

\* Bound: a block is asked for only if one is left for everybody who waits.
BlocksLeft == Len(fBlocks) + MaxBlocks - fNblocks > Cardinality({u \in Tasks : pc[u] = "block"})

GetNewTrack(t) ==
  /\ pc[t] = "idle"
  /\ IsDistributed(fBlock[t]) => BlocksLeft
  /\ Goto(t, IF IsDistributed(fBlock[t]) THEN "block" ELSE "object")
  /\ Record(fBlock[t], StaleUse(t))
  /\ UNCHANGED <<manager, counters, fBlock, index, blk, users, stale>>

\* NumaBlockMgr::GetBlock: a block from the queue is cleared, by two writes.
TakeBlock(t) ==
  /\ pc[t] = "block"
  /\ fBlocks # <<>>
  /\ blk' = [blk EXCEPT ![t] = Head(fBlocks)]
  /\ fBlocks' = Tail(fBlocks)
  /\ Goto(t, "clear")
  /\ stale' = stale \union {u \in Tasks \ {t} : fBlock[u] = Head(fBlocks)}
  /\ UNCHANGED <<fNblocks, counters, fBlock, index, users, raced>>

\* Mutant of ClearCurrent: the first counter is not reset.
KeepCurrent(t) ==
  /\ pc[t] = "clear"
  /\ Goto(t, "clear2")
  /\ UNCHANGED <<manager, counters, fBlock, index, blk, history>>

ClearCurrent(t) ==
  /\ pc[t] = "clear"
  /\ fCurrent' = [fCurrent EXCEPT ![blk[t]] = 0]
  /\ Goto(t, "clear2")
  /\ UNCHANGED <<manager, fUsed, fBlock, index, blk, history>>

ClearUsed(t) ==
  /\ pc[t] = "clear2"
  /\ fUsed' = [fUsed EXCEPT ![blk[t]] = 0]
  /\ Goto(t, "attach")
  /\ UNCHANGED <<manager, fCurrent, fBlock, index, blk, history>>

AddBlock(t) ==
  /\ pc[t] = "block"
  /\ fBlocks = <<>>
  /\ fNblocks < MaxBlocks
  /\ fNblocks' = fNblocks + 1
  /\ blk' = [blk EXCEPT ![t] = fNblocks + 1]
  /\ Goto(t, "attach")
  /\ UNCHANGED <<fBlocks, counters, fBlock, index, history>>

\* The block is the task's.  GetNewTrack goes on with the assertion on its
\* counters, AttachPropagator takes no track yet.
SetBlock(t) ==
  /\ pc[t] = "attach"
  /\ fBlock' = [fBlock EXCEPT ![t] = blk[t]]
  /\ Goto(t, IF fBlock[t] = NoBlock THEN "idle" ELSE "assert")
  /\ blk' = [blk EXCEPT ![t] = NoBlock]
  /\ stale' = stale \ {t}
  /\ UNCHANGED <<manager, counters, index, users, raced>>

AssertFresh(t) ==
  /\ pc[t] = "assert"
  /\ Goto(t, "object")
  /\ UNCHANGED <<manager, counters, fBlock, index, blk, history>>

\* NumaBlock::GetObject takes an index, then counts the track.  Past the end of
\* the block it returns a null pointer, which GetNewTrack dereferences.
TakeIndex(t) ==
  LET b == fBlock[t]
      i == fCurrent[b] IN
  /\ pc[t] = "object"
  /\ fCurrent' = [fCurrent EXCEPT ![b] = @ + 1]
  /\ IF i < fSize
       THEN /\ index' = [index EXCEPT ![t] = i]
            /\ users' = [users EXCEPT ![<<b, i>>] = @ + 1]
            /\ Goto(t, "used")
       ELSE /\ UNCHANGED <<index, users>>
            /\ Goto(t, "null")
  /\ Record(b, CheckedTooLate(b))
  /\ UNCHANGED <<manager, fUsed, fBlock, blk, stale>>

CountUsed(t) ==
  /\ pc[t] = "used"
  /\ fUsed' = [fUsed EXCEPT ![fBlock[t]] = @ + 1]
  /\ index' = [index EXCEPT ![t] = 0]
  /\ Goto(t, "idle")
  /\ UNCHANGED <<manager, fCurrent, fBlock, blk, history>>

------------------------------------------------------------------------------
(* TrackManager::ReleaseTrack, by any thread, for a track it was handed.   *)

\* A track that is just being allocated is not released yet.
Allocators(x) == {u \in Tasks : Allocating(u, x[1]) /\ index[u] = x[2]}
Handed(x) == users[x] > Cardinality(Allocators(x))

\* Mutant of LastUsed: a block with one track in use is released.
AlmostLastUsed(b) == fUsed[b] <= 2

\* The decremented fUsed is not positive.
LastUsed(b) == fUsed[b] <= 1

ReleaseTrack(t, x) ==
  LET b == x[1] IN
  /\ pc[t] = "idle"
  /\ Handed(x)
  /\ users' = [users EXCEPT ![x] = @ - 1]
  /\ fUsed' = [fUsed EXCEPT ![b] = @ - 1]
  /\ IF LastUsed(b)
       THEN Goto(t, "check") /\ blk' = [blk EXCEPT ![t] = b]
       ELSE UNCHANGED <<pc, blk>>
  /\ Record(b, LastUsed(b) /\ CountedTooLate(b))
  /\ UNCHANGED <<manager, fCurrent, fBlock, index, stale>>

\* Mutant of CheckDistributed: the block goes back when no track is in use.
RecycleUnused(t) ==
  /\ pc[t] = "check"
  /\ Goto(t, "recycle")
  /\ UNCHANGED <<manager, counters, fBlock, index, blk, history>>

CheckDistributed(t) ==
  /\ pc[t] = "check"
  /\ IF IsDistributed(blk[t]) THEN Goto(t, "recycle") /\ UNCHANGED blk ELSE Return(t)
  /\ UNCHANGED <<manager, counters, fBlock, index, history>>

\* It spins while the queue is full.
RecycleBlock(t) ==
  /\ pc[t] = "recycle"
  /\ Len(fBlocks) < queue_buff_size
  /\ fBlocks' = Append(fBlocks, blk[t])
  /\ Return(t)
  /\ UNCHANGED <<fNblocks, counters, fBlock, index, history>>

------------------------------------------------------------------------------

\* Whoever uses a null pointer takes the whole program down.
Crashed == \E t \in Tasks : pc[t] = "null"

Next ==
  /\ ~ Crashed
  /\ \E t \in Tasks :
       \/ GetNewTrack(t) \/ TakeBlock(t) \/ ClearCurrent(t) \/ ClearUsed(t) \/ AddBlock(t)
       \/ SetBlock(t) \/ AssertFresh(t) \/ TakeIndex(t) \/ CountUsed(t)
       \/ \E x \in Blocks \X Indices : ReleaseTrack(t, x)
       \/ CheckDistributed(t) \/ RecycleBlock(t)

Spec == Init /\ [][Next]_vars

------------------------------------------------------------------------------
(* Type correctness: in a block without a race no counter leaves its range, *)
(* and no task takes an index from a block that has none left.              *)

Labels == {"idle", "block", "clear", "clear2", "attach", "assert", "object", "used", "null",
           "check", "recycle"}
BlockOrNone == Blocks \union {NoBlock}

TypeOK ==
  /\ fBlocks \in Seq(Blocks) /\ fNblocks \in 0 .. MaxBlocks
  /\ fCurrent \in [Blocks -> Nat] /\ fUsed \in [Blocks -> Int]
  /\ fBlock \in [Tasks -> BlockOrNone] /\ blk \in [Tasks -> BlockOrNone]
  /\ index \in [Tasks -> Indices] /\ pc \in [Tasks -> Labels]
  /\ users \in [Blocks \X Indices -> Nat]
  /\ stale \subseteq Tasks /\ raced \subseteq Blocks
  /\ \A b \in Blocks \ raced : fCurrent[b] <= fSize /\ fUsed[b] \in 0 .. fSize
  /\ \A t \in Tasks : pc[t] = "null" => fBlock[t] \in raced

------------------------------------------------------------------------------
(* Properties                                                              *)

\* A track is in the hands of one user at a time, whoever allocates and
\* releases the other tracks of its block (GetObject, ReleaseObject, Clear),
\* unless one of the three races has happened to the block.
ExclusiveUnlessRaced == \A x \in (Blocks \ raced) \X Indices : users[x] <= 1

\* The assertion of GetNewTrack: the block that GetBlock returned is empty.
BlockIsFresh ==
  \A t \in Tasks : pc[t] = "assert" => fCurrent[fBlock[t]] = 0 /\ fUsed[fBlock[t]] = 0

\* The same, unless one of the three races has happened to the block.
FreshUnlessRaced ==
  \A t \in Tasks : pc[t] = "assert" /\ fBlock[t] \notin raced =>
    fCurrent[fBlock[t]] = 0 /\ fUsed[fBlock[t]] = 0

Occurrences(seq, x) == Cardinality({i \in DOMAIN seq : seq[i] = x})
InUse(b) == \E i \in Indices : users[<<b, i>>] > 0

\* No block leaks and none is free twice: a block that was made and had no race is
\* in one place, with the task that takes it, with the task that allocates from it,
\* in the hands of the users of its tracks, with the one that recycles it, or in
\* the queue.
ConservedUnlessRaced ==
  \A b \in (1 .. fNblocks) \ raced :
    LET taking    == {t \in Tasks : pc[t] \in {"clear", "clear2", "attach"} /\ blk[t] = b}
        recycling == {t \in Tasks : pc[t] \in {"check", "recycle"} /\ blk[t] = b /\ IsDistributed(b)}
        owned     == ~ IsDistributed(b) /\ \E t \in Tasks \ stale : fBlock[t] = b
        free      == Occurrences(fBlocks, b)
        count(P)  == IF P THEN 1 ELSE 0
    IN  IF taking # {} THEN Cardinality(taking) = 1 /\ free = 0 /\ ~ InUse(b)
        ELSE free + Cardinality(recycling) + count(owned \/ InUse(b)) >= 1
             /\ free + Cardinality(recycling) + count(InUse(b)) <= 1
=============================================================================
