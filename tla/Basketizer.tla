----------------------------- MODULE Basketizer -----------------------------
(***************************************************************************)
(* The concurrent basketizer (src/run/scheduler/inc/Geant/Basketizer.h): a *)
(* circular buffer of baskets.  A thread that adds an element books a slot *)
(* in the current basket, copies the element there, and hands the basket   *)
(* out if it is the one that fills it.  A flush takes the current basket   *)
(* when it is not full: it moves the booking index past it.                *)
(*                                                                         *)
(* An action is one access to shared memory.  An element is named by the   *)
(* index it is booked with.  Differences of unsigned counters are modelled *)
(* by their use: one that would be negative is larger than any basket.     *)
(***************************************************************************)
EXTENDS Integers, FiniteSets

CONSTANTS Threads,
          fBsize,     \* the size of a basket
          NBaskets,   \* the number of baskets in the circular buffer
          MaxBook,    \* bound: no element is booked from this index on
          FlushAnyTime, \* FALSE: no flush while a booking has overrun the buffer
          Null        \* an empty slot of the buffer

ASSUME SizesAssumption == fBsize \in Nat \ {0, 1} /\ NBaskets \in Nat \ {0} /\ MaxBook \in Nat
ASSUME NullAssumption == Null \notin Nat

VARIABLES
  fIbook, fBuffer, fNstored, fNbaskets, fLock,
  fHandlerLock,                       \* Handler::fLock of the handler that has it
  Ibook, Nbook0, Nbooktot, Nfilled,   \* the counters of each basket
  pc, loc,                            \* of each thread: its next access, its locals
  pool, nout                          \* history: see ElementPool

buffer == <<fIbook, fBuffer>>
locks == <<fLock, fHandlerLock>>
totals == <<fNstored, fNbaskets>>
counters == <<Ibook, Nbook0, Nbooktot, Nfilled>>
history == <<pool, nout>>
vars == <<buffer, totals, locks, counters, pc, loc, history>>

BufferSize == NBaskets * fBsize
Baskets == 0 .. NBaskets - 1
Cells == 0 .. BufferSize - 1

\* ibook & fBufferMask; the basket, the place in it and the first index of it.
Cell(ibook) == ibook % BufferSize
Basket(ibook) == (ibook \div fBsize) % NBaskets
Place(ibook) == ibook % fBsize
First(ibook) == ibook - Place(ibook)

\* ibook: the index booked or looked at; tot: nbooktot; n: nbooked, then the
\* number of elements to hand out; flush: the call is Flush.
NoLocals == [ibook |-> 0, tot |-> 0, n |-> 0, flush |-> FALSE]

Goto(t, label) == pc' = [pc EXCEPT ![t] = label]
Keep(t, field, value) == loc' = [loc EXCEPT ![t][field] = value]
Return(t) == Goto(t, "idle") /\ loc' = [loc EXCEPT ![t] = NoLocals]

My(t) == Basket(loc[t].ibook)

Init ==
  /\ fIbook = 0
  /\ fBuffer = [c \in Cells |-> Null]
  /\ fNstored = 0 /\ fNbaskets = 0
  /\ fLock = FALSE /\ fHandlerLock = FALSE
  /\ Ibook = [b \in Baskets |-> b * fBsize]
  /\ Nbook0 = [b \in Baskets |-> 0]
  /\ Nbooktot = [b \in Baskets |-> 0]
  /\ Nfilled = [b \in Baskets |-> 0]
  /\ pc = [t \in Threads |-> "idle"]
  /\ loc = [t \in Threads |-> NoLocals]
  /\ pool = {} /\ nout = 0

------------------------------------------------------------------------------
(* AddElement                                                              *)

\* Mutant of Open: BookSlot and Flush do not look at the lap of the basket.
OpenAnyLap(b, ibook) == TRUE

\* The basket is the thread's for indices Ibook .. Ibook + fBsize - 1.
Open(b, ibook) == ibook - Ibook[b] \in 0 .. fBsize - 1

\* A booking has come around to a basket that is not yet released.
Overrun == \E t \in Threads : pc[t] = "a_wait" /\ ~ Open(My(t), loc[t].ibook)

BookIndex(t) ==
  /\ pc[t] = "idle"
  /\ fIbook < MaxBook
  /\ FlushAnyTime \/ ~ fHandlerLock \/ Open(Basket(fIbook), fIbook)
  /\ fIbook' = fIbook + 1
  /\ Keep(t, "ibook", fIbook)
  /\ Goto(t, "a_wait")
  /\ UNCHANGED <<fBuffer, totals, locks, counters, history>>

\* BookSlot spins until the basket was released by the previous lap.
AwaitOpen(t) ==
  /\ pc[t] = "a_wait"
  /\ Open(My(t), loc[t].ibook)
  /\ Goto(t, "a_slot")
  /\ UNCHANGED <<buffer, totals, locks, counters, loc, history>>

\* Mutant of StartsBasket: off by one.
SecondOfBasket(t) == Place(loc[t].ibook) = 1

StartsBasket(t) == Place(loc[t].ibook) = 0

BookSlot(t) ==
  /\ pc[t] = "a_slot"
  /\ Nbooktot' = [Nbooktot EXCEPT ![My(t)] = @ + 1]
  /\ Keep(t, "tot", Nbooktot[My(t)] + 1)
  /\ Goto(t, IF StartsBasket(t) THEN "a_first" ELSE "a_range")
  /\ UNCHANGED <<buffer, totals, locks, Ibook, Nbook0, Nfilled, history>>

CountBasket(t) ==
  /\ pc[t] = "a_first"
  /\ fNbaskets' = fNbaskets + 1
  /\ Goto(t, "a_range")
  /\ UNCHANGED <<buffer, fNstored, locks, counters, loc, history>>

\* FillSlot spins until the booking range matches the basket.
AwaitRange(t) ==
  /\ pc[t] = "a_range"
  /\ loc[t].tot - Nbook0[My(t)] \in 0 .. fBsize
  /\ Goto(t, "a_copy")
  /\ UNCHANGED <<buffer, totals, locks, counters, loc, history>>

StoreElement(t) ==
  /\ pc[t] = "a_copy"
  /\ fBuffer' = [fBuffer EXCEPT ![Cell(loc[t].ibook)] = loc[t].ibook]
  /\ pool' = pool \union {loc[t].ibook}
  /\ Goto(t, "a_fill")
  /\ UNCHANGED <<fIbook, totals, locks, counters, loc, nout>>

\* The thread that counts the last element hands the basket out.
FillSlot(t) ==
  /\ pc[t] = "a_fill"
  /\ Nfilled' = [Nfilled EXCEPT ![My(t)] = @ + 1]
  /\ Keep(t, "n", Nfilled[My(t)] + 1)
  /\ Goto(t, "a_stored")
  /\ UNCHANGED <<buffer, totals, locks, Ibook, Nbook0, Nbooktot, history>>

CountStored(t) ==
  /\ pc[t] = "a_stored"
  /\ fNstored' = fNstored + 1
  /\ IF loc[t].n = fBsize THEN Goto(t, "h_copy") /\ UNCHANGED loc ELSE Return(t)
  /\ UNCHANGED <<buffer, fNbaskets, locks, counters, history>>

------------------------------------------------------------------------------
(* Flush                                                                   *)

\* Handler::Flush returns at once if another flush is going on, else it tries
\* to flush as long as the basketizer has elements.
FlushCall(t) ==
  /\ pc[t] = "idle"
  /\ ~ fHandlerLock
  /\ FlushAnyTime \/ ~ Overrun
  /\ fHandlerLock' = TRUE
  /\ Keep(t, "flush", TRUE)
  /\ Goto(t, "l_stored")
  /\ UNCHANGED <<buffer, totals, fLock, counters, history>>

CheckStored(t) ==
  /\ pc[t] = "l_stored"
  /\ Goto(t, IF fNstored # 0 THEN "f_baskets" ELSE "l_unlock")
  /\ UNCHANGED <<buffer, totals, locks, counters, loc, history>>

\* More than the current basket: no flush.
CheckNbaskets(t) ==
  /\ pc[t] = "f_baskets"
  /\ Goto(t, IF fNbaskets > 1 THEN "l_stored" ELSE "f_lock")
  /\ UNCHANGED <<buffer, totals, locks, counters, loc, history>>

Lock(t) ==
  /\ pc[t] = "f_lock"
  /\ ~ fLock
  /\ fLock' = TRUE
  /\ Goto(t, "f_ibook")
  /\ UNCHANGED <<buffer, totals, fHandlerLock, counters, loc, history>>

LoadIbook(t) ==
  /\ pc[t] = "f_ibook"
  /\ Keep(t, "ibook", fIbook)
  /\ Goto(t, "f_tot")
  /\ UNCHANGED <<buffer, totals, locks, counters, history>>

\* Nbooked() reads two counters one after the other.
LoadNbooktot(t) ==
  /\ pc[t] = "f_tot"
  /\ Keep(t, "tot", Nbooktot[My(t)])
  /\ Goto(t, "f_booked")
  /\ UNCHANGED <<buffer, totals, locks, counters, history>>

Nelem(t) == Place(loc[t].ibook)

FlushFails(t) == Goto(t, "f_unlock") /\ UNCHANGED loc

CheckNbooked(t) ==
  /\ pc[t] = "f_booked"
  /\ IF Nelem(t) # 0 /\ loc[t].tot - Nbook0[My(t)] = Nelem(t)
       THEN Goto(t, "f_filled") /\ UNCHANGED loc
       ELSE FlushFails(t)
  /\ UNCHANGED <<buffer, totals, locks, counters, history>>

\* Mutant of CheckNfilled: a booked slot is taken to be filled.
BookedIsFilled(t) ==
  /\ pc[t] = "f_filled"
  /\ Goto(t, "f_open")
  /\ UNCHANGED <<buffer, totals, locks, counters, loc, history>>

CheckNfilled(t) ==
  /\ pc[t] = "f_filled"
  /\ IF Nfilled[My(t)] = Nelem(t) THEN Goto(t, "f_open") /\ UNCHANGED loc ELSE FlushFails(t)
  /\ UNCHANGED <<buffer, totals, locks, counters, history>>

CheckOpen(t) ==
  /\ pc[t] = "f_open"
  /\ IF Open(My(t), loc[t].ibook) THEN Goto(t, "f_cas") /\ UNCHANGED loc ELSE FlushFails(t)
  /\ UNCHANGED <<buffer, totals, locks, counters, history>>

\* The exchange of fIbook keeps new bookers out of the basket.
PushIbook(t) ==
  /\ pc[t] = "f_cas"
  /\ IF fIbook = loc[t].ibook
       THEN /\ fIbook' = First(fIbook + fBsize)
            /\ Goto(t, "f_slots")
       ELSE /\ Goto(t, "f_unlock")
            /\ UNCHANGED fIbook
  /\ UNCHANGED <<fBuffer, totals, locks, counters, loc, history>>

\* BookSlots takes the free slots of the basket.
BookSlots(t) ==
  /\ pc[t] = "f_slots"
  /\ Open(My(t), loc[t].ibook)
  /\ Nbooktot' = [Nbooktot EXCEPT ![My(t)] = @ + fBsize - Nelem(t)]
  /\ Keep(t, "n", Nelem(t))
  /\ Goto(t, "h_copy")
  /\ UNCHANGED <<buffer, totals, locks, Ibook, Nbook0, Nfilled, history>>

\* A flush that handed a basket out is the last one.
Unlock(t) ==
  /\ pc[t] = "f_unlock"
  /\ fLock' = FALSE
  /\ Goto(t, IF loc[t].n > 0 THEN "l_unlock" ELSE "l_stored")
  /\ UNCHANGED <<buffer, totals, fHandlerLock, counters, loc, history>>

FlushReturn(t) ==
  /\ pc[t] = "l_unlock"
  /\ fHandlerLock' = FALSE
  /\ Return(t)
  /\ UNCHANGED <<buffer, totals, fLock, counters, history>>

------------------------------------------------------------------------------
(* Handing a basket out: the end of AddElement and of Flush.               *)

HandedOut(t) ==
  {fBuffer[Cell(First(loc[t].ibook) + i)] : i \in 0 .. loc[t].n - 1}

CopyBasket(t) ==
  /\ pc[t] = "h_copy"
  /\ pool' = pool \ HandedOut(t)
  /\ nout' = nout + loc[t].n
  /\ Goto(t, "h_stored")
  /\ UNCHANGED <<buffer, totals, locks, counters, loc>>

\* Mutant of DropStored: a flush counts a full basket.
DropFullBasket(t) ==
  /\ pc[t] = "h_stored"
  /\ fNstored' = fNstored - fBsize
  /\ Goto(t, "h_baskets")
  /\ UNCHANGED <<buffer, fNbaskets, locks, counters, loc, history>>

DropStored(t) ==
  /\ pc[t] = "h_stored"
  /\ fNstored' = fNstored - loc[t].n
  /\ Goto(t, "h_baskets")
  /\ UNCHANGED <<buffer, fNbaskets, locks, counters, loc, history>>

DropBasket(t) ==
  /\ pc[t] = "h_baskets"
  /\ fNbaskets' = fNbaskets - 1
  /\ Goto(t, "r_filled")
  /\ UNCHANGED <<buffer, fNstored, locks, counters, loc, history>>

\* ReleaseBasket, three writes.
ReleaseFilled(t) ==
  /\ pc[t] = "r_filled"
  /\ Nfilled' = [Nfilled EXCEPT ![My(t)] = 0]
  /\ Goto(t, "r_book0")
  /\ UNCHANGED <<buffer, totals, locks, Ibook, Nbook0, Nbooktot, loc, history>>

ReleaseRange(t) ==
  /\ pc[t] = "r_book0"
  /\ Nbook0' = [Nbook0 EXCEPT ![My(t)] = @ + fBsize]
  /\ Goto(t, "r_ibook")
  /\ UNCHANGED <<buffer, totals, locks, Ibook, Nbooktot, Nfilled, loc, history>>

\* Mutant of NextLap: the basket is released for the next basket's indices.
NextBasket(ibook) == fBsize + First(ibook)

NextLap(ibook) == BufferSize + First(ibook)

ReleaseIbook(t) ==
  /\ pc[t] = "r_ibook"
  /\ Ibook' = [Ibook EXCEPT ![My(t)] = NextLap(loc[t].ibook)]
  /\ IF loc[t].flush THEN Goto(t, "f_unlock") /\ UNCHANGED loc ELSE Return(t)
  /\ UNCHANGED <<buffer, totals, locks, Nbook0, Nbooktot, Nfilled, history>>

------------------------------------------------------------------------------

Adding(t) ==
  \/ AwaitOpen(t) \/ BookSlot(t) \/ CountBasket(t) \/ AwaitRange(t)
  \/ StoreElement(t) \/ FillSlot(t) \/ CountStored(t)

Flushing(t) ==
  \/ CheckStored(t) \/ CheckNbaskets(t)
  \/ Lock(t) \/ LoadIbook(t) \/ LoadNbooktot(t) \/ CheckNbooked(t) \/ CheckNfilled(t)
  \/ CheckOpen(t) \/ PushIbook(t) \/ BookSlots(t)
  \/ Unlock(t) \/ FlushReturn(t)

HandingOut(t) ==
  \/ CopyBasket(t) \/ DropStored(t) \/ DropBasket(t)
  \/ ReleaseFilled(t) \/ ReleaseRange(t) \/ ReleaseIbook(t)

\* What a thread does inside a call.
Inside(t) == Adding(t) \/ Flushing(t) \/ HandingOut(t)
Call(t) == BookIndex(t) \/ FlushCall(t)

Next == \E t \in Threads : Call(t) \/ Inside(t)

Spec == Init /\ [][Next]_vars

\* A thread that is inside a call keeps running.
FairSpec == Spec /\ \A t \in Threads : WF_vars(Inside(t))

------------------------------------------------------------------------------
(* Type correctness; at most NBaskets baskets are counted at any time, and  *)
(* fNbaskets never wraps below zero (fNstored may, for a moment).           *)

Labels == {"idle", "a_wait", "a_slot", "a_first", "a_range", "a_copy", "a_fill", "a_stored",
           "l_stored", "l_unlock", "f_baskets", "f_lock", "f_ibook", "f_tot", "f_booked",
           "f_filled", "f_open", "f_cas", "f_slots", "f_unlock",
           "h_copy", "h_stored", "h_baskets", "r_filled", "r_book0", "r_ibook"}
Counts == [Baskets -> Nat]

TypeOK ==
  /\ fIbook \in Nat /\ fBuffer \in [Cells -> Nat \union {Null}]
  /\ fNstored \in Int /\ fNbaskets \in 0 .. NBaskets
  /\ fLock \in BOOLEAN /\ fHandlerLock \in BOOLEAN
  /\ Ibook \in Counts /\ Nbook0 \in Counts /\ Nbooktot \in Counts
  /\ Nfilled \in [Baskets -> 0 .. fBsize]
  /\ pc \in [Threads -> Labels]
  /\ loc \in [Threads -> [ibook : Nat, tot : Nat, n : 0 .. fBsize, flush : BOOLEAN]]
  /\ pool \subseteq Nat /\ nout \in Nat

------------------------------------------------------------------------------
(* Properties                                                              *)

HandsOut(t) == pc[t] \in {"h_copy", "h_stored", "h_baskets", "r_filled", "r_book0", "r_ibook"}
Fills(t) == pc[t] \in {"a_slot", "a_first", "a_range", "a_copy", "a_fill"}

\* The copy of a basket is not atomic and takes no lock: until the basket is
\* released nobody books, fills or hands out in it, on this lap or the next
\* (AddElement and Flush against each other).
ExclusiveBasket ==
  \A t, u \in Threads :
    t # u /\ HandsOut(t) /\ (HandsOut(u) \/ Fills(u)) => My(t) # My(u)

\* With no call going on the counters are exact, although each call updates them
\* late; what was added and not handed out is in the current basket, so that the
\* next flush takes all of it (GetNstored, which HasTracks and Flush rely on).
AtRest ==
  (\A t \in Threads : pc[t] = "idle") =>
    /\ pool = First(fIbook) .. fIbook - 1
    /\ fNstored = Cardinality(pool)
    /\ fNbaskets = IF pool = {} THEN 0 ELSE 1

\* Every element added is handed out in one basket at most, once, and nothing
\* else is: no stale pointer of an earlier lap, no slot not yet filled.
Abstract == INSTANCE ElementPool WITH Elements <- 0 .. MaxBook - 1, BasketSize <- fBsize
ImplementsPool == Abstract!Spec

\* No spin lasts: every AddElement and every Handler::Flush returns, with any
\* number of them going on.
CallsReturn == \A t \in Threads : pc[t] # "idle" ~> pc[t] = "idle"
=============================================================================
