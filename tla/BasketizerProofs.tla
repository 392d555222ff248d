-------------------------- MODULE BasketizerProofs --------------------------
(***************************************************************************)
(* The basketizer is an ElementPool, its baskets are exclusive and its     *)
(* counters exact at rest, for any number of threads, any basket size of   *)
(* at least two and any number of baskets: as long as no flush meets a     *)
(* booking that has overrun the buffer (FlushAnyTime = FALSE).             *)
(***************************************************************************)
EXTENDS Basketizer, FiniteSetTheorems, TLAPS

------------------------------------------------------------------------------
(* The inductive invariant                                                  *)

\* Where a thread is: its element is booked and not yet stored; it is stored
\* and not yet counted in fNstored; the call is a flush; the flush looks at the
\* basket of loc.ibook.
Books(t) == pc[t] \in {"a_wait", "a_slot", "a_first", "a_range", "a_copy"}
Adds(t) == pc[t] \in {"a_wait", "a_slot", "a_first", "a_range", "a_copy", "a_fill", "a_stored"}
Unfilled(t) == Books(t) \/ pc[t] = "a_fill"
Late(t) == pc[t] \in {"a_fill", "a_stored"}
FlushLabels == {"l_stored", "l_unlock", "f_baskets", "f_lock", "f_ibook", "f_tot", "f_booked",
                "f_filled", "f_open", "f_cas", "f_slots", "f_unlock"}
Looks(t) == pc[t] \in {"f_tot", "f_booked", "f_filled", "f_open", "f_cas"}

\* The basket of t is its own: it counted the last element, or moved fIbook past it.
Owner(t) == HandsOut(t) \/ pc[t] = "f_slots" \/ (pc[t] = "a_stored" /\ loc[t].n = fBsize)

\* The elements of the basket of an owner: First .. First + Nout - 1.
Nout(t) == IF loc[t].flush THEN Nelem(t) ELSE fBsize
Taken(t) == First(loc[t].ibook) .. First(loc[t].ibook) + Nout(t) - 1
Before(t) == pc[t] \in {"a_stored", "f_slots", "h_copy"}

\* The indices of the lap that the basket b is open for.
Lap(b) == Ibook[b] .. Ibook[b] + fBsize - 1

\* Baskets change hands a whole lap at a time, and none is a lap ahead.
AlignInv ==
  \A b \in Baskets : /\ Place(Ibook[b]) = 0 /\ Basket(Ibook[b]) = b
                     /\ Ibook[b] + fBsize <= fIbook + BufferSize

\* The indices of the threads that add are different, given out, not passed.
AdderInv ==
  /\ \A t \in Threads : Adds(t) => loc[t].ibook < fIbook /\ ~ loc[t].flush
  /\ \A t \in Threads : pc[t] = "a_wait" => First(loc[t].ibook) >= Ibook[My(t)]
  /\ \A t \in Threads : Unfilled(t) /\ pc[t] # "a_wait" => First(loc[t].ibook) = Ibook[My(t)]
  /\ \A t \in Threads : pc[t] = "a_first" => Place(loc[t].ibook) = 0
  /\ \A t, u \in Threads : Adds(t) /\ Adds(u) /\ loc[t].ibook = loc[u].ibook => t = u

\* What is in the pool is in the buffer, in a basket open for it.
PoolInv ==
  /\ \A i \in pool : /\ i \in Nat /\ i < fIbook
                     /\ First(i) = Ibook[Basket(i)]
                     /\ fBuffer[Cell(i)] = i
  /\ \A t \in Threads : Books(t) => loc[t].ibook \notin pool
  /\ \A t \in Threads : pc[t] = "a_fill" => loc[t].ibook \in pool

\* An index that was given out is waiting for its lap, or it is held, or stored,
\* or its basket has an owner.
HeldInv ==
  \A i \in 0 .. fIbook - 1 :
    /\ First(i) > Ibook[Basket(i)] => \E t \in Threads : pc[t] = "a_wait" /\ loc[t].ibook = i
    /\ First(i) = Ibook[Basket(i)] =>
         \/ i \in pool
         \/ \E t \in Threads : Books(t) /\ loc[t].ibook = i
         \/ \E t \in Threads : Owner(t) /\ My(t) = Basket(i)

\* Nfilled counts the elements stored and counted, until they are handed out.
FilledSet(b) ==
  {i \in Lap(b) : i \in pool /\ \A t \in Threads : pc[t] = "a_fill" => loc[t].ibook # i}
Leaves(t) == pc[t] \in {"h_stored", "h_baskets", "r_filled"}

FilledInv ==
  \A b \in Baskets :
    /\ (\A t \in Threads : Leaves(t) => My(t) # b) => Nfilled[b] = Cardinality(FilledSet(b))
    /\ Nfilled[b] = fBsize => \E t \in Threads : Owner(t) /\ My(t) = b

OwnerInv ==
  /\ \A t \in Threads : Owner(t) =>
       /\ First(loc[t].ibook) = Ibook[My(t)]
       /\ First(loc[t].ibook) + fBsize <= fIbook
       /\ Nout(t) \in 1 .. fBsize
       /\ HandsOut(t) => loc[t].n = Nout(t)
       /\ \A u \in Threads : Unfilled(u) => First(loc[u].ibook) # First(loc[t].ibook)
       /\ \A u \in Threads : Owner(u) /\ u # t => My(u) # My(t)
       /\ Before(t) => \A i \in Lap(My(t)) : i \in pool <=> i \in Taken(t)
       /\ ~ Before(t) => \A i \in Lap(My(t)) : i \notin pool

FlushInv ==
  /\ \A t \in Threads : pc[t] \in FlushLabels => loc[t].flush
  /\ \A t \in Threads : loc[t].flush => /\ fHandlerLock
                                        /\ pc[t] \in FlushLabels \/ HandsOut(t)
  /\ \A t, u \in Threads : loc[t].flush /\ loc[u].flush => t = u
  /\ fHandlerLock => ~ Overrun
  /\ \A t \in Threads : Looks(t) => loc[t].ibook <= fIbook
  /\ \A t \in Threads : pc[t] \in {"f_filled", "f_open", "f_cas"} => Nelem(t) # 0
  /\ \A t \in Threads : pc[t] \in {"f_open", "f_cas"} /\ fIbook = loc[t].ibook =>
       Nfilled[My(t)] >= Nelem(t)

\* fNstored is behind by the elements stored and not counted, and ahead by the
\* elements handed out and not subtracted.
Lates == {t \in Threads : Late(t)}
Drops(t) == pc[t] = "h_stored"
Dropping == {i \in 0 .. fIbook - 1 : \E t \in Threads : Drops(t) /\ i \in Taken(t)}

StoredInv == fNstored + Cardinality(Lates) = Cardinality(pool) + Cardinality(Dropping)

\* fNbaskets counts the baskets that were begun and are not handed out.
Begins(t) == pc[t] \in {"a_wait", "a_slot", "a_first"}
Releases(t) == pc[t] \in {"r_filled", "r_book0", "r_ibook"}
Counted(b) ==
  /\ Ibook[b] < fIbook
  /\ \A t \in Threads : Begins(t) => loc[t].ibook # Ibook[b]
  /\ \A t \in Threads : Releases(t) => My(t) # b

BasketsInv == fNbaskets = Cardinality({b \in Baskets : Counted(b)})

\* TypeOK but for the range of fNbaskets, which BasketsInv gives.
TypeInv ==
  /\ fIbook \in Nat /\ fBuffer \in [Cells -> Nat \union {Null}]
  /\ fNstored \in Int /\ fNbaskets \in Int
  /\ fLock \in BOOLEAN /\ fHandlerLock \in BOOLEAN
  /\ Ibook \in Counts /\ Nbook0 \in Counts /\ Nbooktot \in Counts
  /\ Nfilled \in [Baskets -> 0 .. fBsize]
  /\ pc \in [Threads -> Labels]
  /\ loc \in [Threads -> [ibook : Nat, tot : Nat, n : 0 .. fBsize, flush : BOOLEAN]]
  /\ pool \subseteq Nat /\ nout \in Nat

IInv ==
  /\ TypeInv
  /\ AlignInv /\ AdderInv /\ PoolInv /\ HeldInv /\ FilledInv /\ OwnerInv /\ FlushInv
  /\ StoredInv /\ BasketsInv

------------------------------------------------------------------------------
(* Arithmetic of baskets and laps                                           *)

\* A product grows with its factor.
LEMMA MonoMult ==
  ASSUME NEW n \in Nat, NEW a \in Int, NEW c \in Int, a <= c
  PROVE  n * a <= n * c
OBVIOUS

\* Quotient and remainder, and that they are the only ones.
LEMMA DivMod ==
  ASSUME NEW n \in Nat \ {0}, NEW i \in Nat
  PROVE  i \div n \in Nat /\ i % n \in 0 .. n - 1 /\ i = n * (i \div n) + (i % n)
<1>1. i % n \in 0 .. n - 1 /\ i \div n \in Int
  OBVIOUS
<1>2. i = n * (i \div n) + (i % n)
  OBVIOUS
<1>3. i \div n >= 0
  <2>1. ASSUME i \div n <= -1 PROVE FALSE
    <3>1. n * (i \div n) <= n * (-1)
      BY <1>1, <2>1, MonoMult
    <3> QED
      BY <1>1, <1>2, <3>1
  <2> QED
    BY <1>1, <2>1
<1> QED
  BY <1>1, <1>2, <1>3

LEMMA Unique ==
  ASSUME NEW n \in Nat \ {0}, NEW a \in Int, NEW c \in Int,
         NEW r \in 0 .. n - 1, NEW s \in 0 .. n - 1,
         NEW i, i = n * a + r, i = n * c + s
  PROVE  a = c /\ r = s
<1>1. ASSUME NEW x \in Int, NEW y \in Int, x < y, NEW u \in 0 .. n - 1, NEW v \in 0 .. n - 1
      PROVE  n * x + u < n * y + v
  <2>1. n * (x + 1) = n * x + n /\ n * x \in Int /\ n * y \in Int
    OBVIOUS
  <2>2. n * (x + 1) <= n * y
    BY <1>1, MonoMult
  <2> QED
    BY <2>1, <2>2
<1>2. ~ (a < c) /\ ~ (c < a)
  BY <1>1
<1> QED
  BY <1>2

LEMMA Sizes ==
  /\ fBsize \in Nat /\ fBsize >= 2 /\ NBaskets \in Nat /\ NBaskets >= 1
  /\ BufferSize \in Nat /\ BufferSize >= fBsize /\ BufferSize = fBsize * NBaskets
<1>1. /\ fBsize \in Nat /\ fBsize >= 2 /\ NBaskets \in Nat /\ NBaskets >= 1
      /\ fBsize * 1 = fBsize /\ BufferSize = fBsize * NBaskets /\ fBsize * NBaskets \in Nat
  BY SizesAssumption DEF BufferSize
<1>2. fBsize * 1 <= fBsize * NBaskets
  BY <1>1, MonoMult
<1> QED
  BY <1>1, <1>2

\* i \div fBsize, the number of the basket that the index i is in: the basket
\* of the buffer and the lap.
Number(i) == i \div fBsize

LEMMA Numbers ==
  ASSUME NEW i \in Nat
  PROVE  /\ Number(i) \in Nat /\ Place(i) \in 0 .. fBsize - 1
         /\ i = fBsize * Number(i) + Place(i)
         /\ First(i) = fBsize * Number(i) /\ First(i) \in Nat
         /\ First(i) <= i /\ i < First(i) + fBsize
<1>1. /\ Number(i) \in Nat /\ Place(i) \in 0 .. fBsize - 1
      /\ i = fBsize * Number(i) + Place(i)
  BY SizesAssumption, DivMod DEF Number, Place
<1>2. fBsize * Number(i) \in Nat
  BY <1>1, SizesAssumption
<1> QED
  BY <1>1, <1>2, Sizes DEF First

LEMMA NumberIs ==
  ASSUME NEW i \in Nat, NEW a \in Nat, NEW r \in 0 .. fBsize - 1, i = fBsize * a + r
  PROVE  Number(i) = a /\ Place(i) = r /\ First(i) = fBsize * a
<1>1. Number(i) = a /\ Place(i) = r
  <2> DEFINE x == Number(i)  y == Place(i)
  <2>1. /\ x \in Int /\ y \in 0 .. fBsize - 1 /\ i = fBsize * x + y
        /\ fBsize \in Nat \ {0}
    BY Numbers, SizesAssumption
  <2> HIDE DEF x, y
  <2>2. x = a /\ y = r
    BY <2>1, Unique
  <2> QED
    BY <2>2 DEF x, y
<1> QED
  BY <1>1, Numbers

\* The indices of a basket, and the first of them.
LEMMA SameBasket ==
  ASSUME NEW i \in Nat, NEW j \in First(i) .. First(i) + fBsize - 1
  PROVE  j \in Nat /\ First(j) = First(i) /\ Basket(j) = Basket(i) /\ Place(j) = j - First(i)
<1>1. j = fBsize * Number(i) + (j - First(i)) /\ j - First(i) \in 0 .. fBsize - 1 /\ j \in Nat
  <2>1. First(i) \in Nat /\ First(i) = fBsize * Number(i)
    BY Numbers
  <2>2. j = First(i) + (j - First(i)) /\ j - First(i) \in 0 .. fBsize - 1 /\ j \in Nat
    BY <2>1, Sizes
  <2> QED
    BY <2>1, <2>2
<1>2. Number(j) = Number(i) /\ Place(j) = j - First(i) /\ First(j) = First(i)
  BY <1>1, Numbers, NumberIs
<1> QED
  BY <1>1, <1>2 DEF Basket, Number

LEMMA FirstOf ==
  ASSUME NEW i \in Nat, NEW m \in Nat, Place(m) = 0, i \in m .. m + fBsize - 1
  PROVE  First(i) = m /\ Basket(i) = Basket(m)
<1>1. First(m) = m
  BY DEF First
<1> QED
  BY <1>1, SameBasket

LEMMA FirstFirst ==
  ASSUME NEW i \in Nat
  PROVE  /\ First(First(i)) = First(i) /\ Place(First(i)) = 0
         /\ Basket(First(i)) = Basket(i) /\ Basket(i) \in Baskets
<1>1. First(i) \in First(i) .. First(i) + fBsize - 1
  BY Numbers, Sizes
<1>2. Basket(i) \in Baskets
  BY Numbers, Sizes, DivMod DEF Basket, Baskets, Number
<1> QED
  BY <1>1, <1>2, SameBasket, Numbers

LEMMA BasketRange == ASSUME NEW i \in Nat PROVE Basket(i) \in Baskets
BY FirstFirst

\* One basket or one lap further.
LEMMA NextFirst ==
  ASSUME NEW i \in Nat
  PROVE  /\ First(i + fBsize) = First(i) + fBsize /\ Place(i + fBsize) = Place(i)
         /\ Place(First(i) + fBsize) = 0
         /\ First(First(i) + fBsize) = First(i) + fBsize
<1>1. /\ Number(i) + 1 \in Nat /\ First(i) \in Nat /\ i = First(i) + Place(i)
      /\ Place(i) \in 0 .. fBsize - 1 /\ 0 \in 0 .. fBsize - 1
      /\ First(i) + fBsize \in Nat /\ i + fBsize \in Nat
  <2>1. First(i) = i - Place(i)
    BY DEF First
  <2>2. Number(i) \in Nat /\ First(i) \in Nat /\ Place(i) \in 0 .. fBsize - 1
    BY Numbers
  <2> QED
    BY <2>1, <2>2, Sizes
<1>2. fBsize * (Number(i) + 1) = First(i) + fBsize
  <2>1. fBsize * (Number(i) + 1) = fBsize * Number(i) + fBsize
    BY Numbers, Sizes
  <2> QED
    BY <2>1, Numbers
<1>3. i + fBsize = (First(i) + fBsize) + Place(i) /\ First(i) + fBsize = (First(i) + fBsize) + 0
  BY <1>1, Sizes
<1>4. i + fBsize = fBsize * (Number(i) + 1) + Place(i)
  BY <1>2, <1>3
<1>5. First(i) + fBsize = fBsize * (Number(i) + 1) + 0
  BY <1>2, <1>3
<1>6. First(i + fBsize) = fBsize * (Number(i) + 1) /\ Place(i + fBsize) = Place(i)
  BY <1>1, <1>4, NumberIs
<1>7. First(First(i) + fBsize) = fBsize * (Number(i) + 1) /\ Place(First(i) + fBsize) = 0
  BY <1>1, <1>5, NumberIs
<1> QED
  BY <1>2, <1>6, <1>7

\* Baskets are apart: the first indices differ by fBsize at least.
LEMMA Apart ==
  ASSUME NEW i \in Nat, NEW j \in Nat, First(i) < First(j)
  PROVE  First(i) + fBsize <= First(j) /\ Number(i) < Number(j)
<1>1. Number(i) < Number(j)
  <2>1. ASSUME Number(j) <= Number(i) PROVE FALSE
    <3>1. fBsize * Number(j) <= fBsize * Number(i)
      BY <2>1, MonoMult, Numbers, Sizes
    <3> QED
      BY <3>1, Numbers
  <2> QED
    BY <2>1, Numbers
<1>2. fBsize * (Number(i) + 1) <= fBsize * Number(j)
  <2>1. Number(i) + 1 \in Int /\ Number(j) \in Int /\ Number(i) + 1 <= Number(j)
    BY <1>1, Numbers
  <2> QED
    BY <2>1, MonoMult, Sizes
<1>3. fBsize * (Number(i) + 1) = fBsize * Number(i) + fBsize
  BY Numbers, Sizes
<1> QED
  BY <1>1, <1>2, <1>3, Numbers

\* The indices of a basket of the buffer are a number of laps apart.
LEMMA LapApart ==
  ASSUME NEW i \in Nat, NEW j \in Nat, Basket(i) = Basket(j), First(i) < First(j)
  PROVE  First(i) + BufferSize <= First(j)
<1> DEFINE x == Number(i)  y == Number(j)  a == x \div NBaskets  c == y \div NBaskets
<1>1. /\ x \in Nat /\ y \in Nat /\ a \in Nat /\ c \in Nat /\ Basket(i) \in Nat
      /\ x = NBaskets * a + Basket(i) /\ y = NBaskets * c + Basket(i)
  <2>1. x \in Nat /\ y \in Nat /\ NBaskets \in Nat \ {0}
    BY Numbers, SizesAssumption
  <2>2. Basket(i) = x % NBaskets /\ Basket(i) = y % NBaskets
    BY DEF Basket, Number
  <2>3. x = NBaskets * a + (x % NBaskets) /\ a \in Nat /\ x % NBaskets \in Nat
    <3> HIDE DEF x
    <3> QED
      BY <2>1, DivMod
  <2>4. y = NBaskets * c + (y % NBaskets) /\ c \in Nat
    <3> HIDE DEF y
    <3> QED
      BY <2>1, DivMod
  <2> HIDE DEF x, y, a, c
  <2> QED
    BY <2>1, <2>2, <2>3, <2>4
<1>2. x < y
  BY Apart
<1> HIDE DEF x, y, a, c
<1>3. a < c
  <2>1. ASSUME c <= a PROVE FALSE
    <3>1. NBaskets * c <= NBaskets * a
      BY <1>1, <2>1, MonoMult, Sizes
    <3>2. NBaskets * c \in Nat /\ NBaskets * a \in Nat
      BY <1>1, Sizes
    <3> QED
      BY <1>1, <1>2, <3>1, <3>2
  <2> QED
    BY <1>1, <2>1
<1>4. x + NBaskets <= y
  <2>1. NBaskets * (a + 1) <= NBaskets * c
    BY <1>1, <1>3, MonoMult, Sizes
  <2>2. NBaskets * (a + 1) = NBaskets * a + NBaskets /\ NBaskets * a \in Nat /\ NBaskets * c \in Nat
    BY <1>1, Sizes
  <2> QED
    BY <1>1, <2>1, <2>2, Sizes
<1>5. fBsize * (x + NBaskets) <= fBsize * y
  BY <1>1, <1>4, MonoMult, Sizes
<1>6. fBsize * (x + NBaskets) = fBsize * x + fBsize * NBaskets
  BY <1>1, Sizes
<1> QED
  BY <1>5, <1>6, Numbers, Sizes DEF x, y

\* Adding a multiple of n does not change the remainder.
LEMMA ModLap ==
  ASSUME NEW n \in Nat \ {0}, NEW x \in Nat, NEW d \in Nat
  PROVE  (x + n * d) % n = x % n
<1>1. PICK y : y = x + n * d
  OBVIOUS
<1>2. PICK a \in Int, r \in 0 .. n - 1 : x = n * a + r /\ r = x % n
  <2>1. /\ x \div n \in Int /\ x % n \in 0 .. n - 1
        /\ x = n * (x \div n) + (x % n)
    BY DivMod
  <2> QED
    BY <2>1
<1>3. y \in Nat /\ n * d \in Nat /\ n * a \in Int
  BY <1>1, <1>2
<1>4. PICK c \in Int, s \in 0 .. n - 1 : y = n * c + s /\ s = y % n
  <2>1. /\ y \div n \in Int /\ y % n \in 0 .. n - 1
        /\ y = n * (y \div n) + (y % n)
    BY <1>3, DivMod
  <2> QED
    BY <2>1
<1>5. PICK m \in Int : m = a + d
  OBVIOUS
<1>6. y = n * m + r
  <2>1. n * (a + d) = n * a + n * d
    OBVIOUS
  <2> QED
    BY <1>1, <1>2, <1>3, <1>5, <2>1
<1>7. m = c /\ r = s
  BY <1>4, <1>6, Unique
<1> QED
  BY <1>1, <1>2, <1>4, <1>7

LEMMA BasketOf == ASSUME NEW i \in Nat PROVE Basket(i) = Number(i) % NBaskets
BY DEF Basket, Number

\* Whole laps further it is the same place of the same basket.
LEMMA LapsLater ==
  ASSUME NEW i \in Nat, NEW d \in Nat
  PROVE  /\ i + BufferSize * d \in Nat
         /\ Place(i + BufferSize * d) = Place(i) /\ Basket(i + BufferSize * d) = Basket(i)
         /\ First(i + BufferSize * d) = First(i) + BufferSize * d
<1> DEFINE x == Number(i)  j == i + BufferSize * d
<1>1. /\ x \in Nat /\ Place(i) \in 0 .. fBsize - 1 /\ i = fBsize * x + Place(i)
      /\ First(i) = fBsize * x /\ First(i) \in Nat
  BY Numbers
<1>3. BufferSize * d = fBsize * (NBaskets * d) /\ NBaskets * d \in Nat /\ BufferSize * d \in Nat
  BY Sizes
<1> HIDE DEF x
<1>4. fBsize * (x + NBaskets * d) = fBsize * x + fBsize * (NBaskets * d)
  BY <1>1, <1>3, Sizes
<1>5. j = fBsize * (x + NBaskets * d) + Place(i) /\ j \in Nat /\ x + NBaskets * d \in Nat
  <2>1. j = (fBsize * x + Place(i)) + fBsize * (NBaskets * d)
    BY <1>1, <1>3
  <2>2. fBsize * x \in Nat /\ Place(i) \in Nat /\ fBsize * (NBaskets * d) \in Nat
    BY <1>1, <1>3, Sizes
  <2>3. j = (fBsize * x + fBsize * (NBaskets * d)) + Place(i) /\ j \in Nat
    BY <2>1, <2>2
  <2> QED
    BY <1>1, <1>3, <1>4, <2>3
<1>6. Number(j) = x + NBaskets * d /\ Place(j) = Place(i) /\ First(j) = fBsize * (x + NBaskets * d)
  <2> HIDE DEF j
  <2> QED
    BY <1>1, <1>5, NumberIs
<1>8. (x + NBaskets * d) % NBaskets = x % NBaskets
  BY <1>1, SizesAssumption, ModLap
<1>9. Basket(j) = Basket(i)
  <2>1. Basket(j) = Number(j) % NBaskets
    BY <1>5, BasketOf
  <2>2. Basket(i) = x % NBaskets
    BY BasketOf DEF x
  <2> QED
    BY <1>6, <1>8, <2>1, <2>2
<1> QED
  BY <1>1, <1>3, <1>4, <1>5, <1>6, <1>9

LEMMA NextLapOf ==
  ASSUME NEW i \in Nat
  PROVE  /\ NextLap(i) = First(i) + BufferSize /\ NextLap(i) \in Nat
         /\ Place(NextLap(i)) = 0 /\ Basket(NextLap(i)) = Basket(i)
<1>1. First(i) \in Nat /\ BufferSize * 1 = BufferSize /\ NextLap(i) = First(i) + BufferSize
  BY Numbers, Sizes DEF NextLap
<1>2. /\ First(i) + BufferSize * 1 \in Nat
      /\ Place(First(i) + BufferSize * 1) = Place(First(i))
      /\ Basket(First(i) + BufferSize * 1) = Basket(First(i))
  BY <1>1, LapsLater
<1> QED
  BY <1>1, <1>2, FirstFirst

\* Two indices in one cell of the buffer are in one basket of the buffer, in
\* different laps.
LEMMA CellLap ==
  ASSUME NEW i \in Nat, NEW j \in Nat, Cell(i) = Cell(j), i < j
  PROVE  Basket(i) = Basket(j) /\ First(i) < First(j)
<1> DEFINE a == i \div BufferSize  c == j \div BufferSize
<1>1. /\ BufferSize \in Nat \ {0} /\ a \in Nat /\ c \in Nat /\ Cell(i) \in Nat
      /\ i = BufferSize * a + Cell(i) /\ j = BufferSize * c + Cell(i)
  <2>1. BufferSize \in Nat \ {0}
    BY Sizes
  <2>2. i = BufferSize * a + (i % BufferSize) /\ a \in Nat /\ i % BufferSize \in 0 .. BufferSize - 1
    BY <2>1, DivMod
  <2>3. j = BufferSize * c + (j % BufferSize) /\ c \in Nat
    BY <2>1, DivMod
  <2>4. Cell(i) = i % BufferSize /\ Cell(j) = j % BufferSize
    BY DEF Cell
  <2> QED
    <3> HIDE DEF a, c
    <3>1. Cell(i) \in Nat
      BY <2>1, <2>2, <2>4
    <3> QED
      BY <2>1, <2>2, <2>3, <2>4, <3>1
<1> HIDE DEF a, c
<1>2. a < c
  <2>1. ASSUME c <= a PROVE FALSE
    <3>1. BufferSize * c <= BufferSize * a
      BY <1>1, <2>1, MonoMult
    <3>2. BufferSize * c \in Nat /\ BufferSize * a \in Nat
      BY <1>1
    <3> QED
      BY <1>1, <3>1, <3>2
  <2> QED
    BY <1>1, <2>1
<1>3. c - a \in Nat /\ BufferSize * (c - a) = BufferSize * c - BufferSize * a
      /\ BufferSize * c \in Nat /\ BufferSize * a \in Nat
  BY <1>1, <1>2
<1>4. j = i + BufferSize * (c - a) /\ BufferSize * (c - a) >= BufferSize
  <2>1. BufferSize * 1 <= BufferSize * (c - a)
    BY <1>1, <1>2, <1>3, MonoMult
  <2> QED
    BY <1>1, <1>3, <2>1
<1>5. Basket(j) = Basket(i) /\ First(j) = First(i) + BufferSize * (c - a)
  <2>1. /\ Basket(i + BufferSize * (c - a)) = Basket(i)
        /\ First(i + BufferSize * (c - a)) = First(i) + BufferSize * (c - a)
    BY <1>3, LapsLater
  <2> QED
    BY <1>4, <2>1
<1> QED
  BY <1>1, <1>4, <1>5, Numbers

LEMMA CellRange == ASSUME NEW i \in Nat PROVE Cell(i) \in Cells
BY Sizes, DivMod DEF Cell, Cells

\* The first lap: SetIbook(i) in Init.
LEMMA FirstLap ==
  ASSUME NEW b \in Baskets
  PROVE  /\ b * fBsize \in Nat /\ Place(b * fBsize) = 0 /\ Basket(b * fBsize) = b
         /\ b * fBsize + fBsize <= BufferSize
<1>1. b \in Nat /\ b + 1 <= NBaskets /\ 0 \in 0 .. fBsize - 1
  BY Sizes DEF Baskets
<1>2. b * fBsize = fBsize * b + 0 /\ b * fBsize \in Nat
  BY <1>1, Sizes
<1>3. Number(b * fBsize) = b /\ Place(b * fBsize) = 0
  BY <1>1, <1>2, NumberIs
<1>4. b % NBaskets = b
  <2> DEFINE q == b \div NBaskets  r == b % NBaskets
  <2>1. NBaskets \in Nat \ {0} /\ b \in 0 .. NBaskets - 1
    BY <1>1, Sizes
  <2>2. /\ q \in Int /\ r \in 0 .. NBaskets - 1
        /\ b = NBaskets * q + r /\ b = NBaskets * 0 + b
    BY <1>1, <2>1, DivMod
  <2> HIDE DEF q, r
  <2>3. r = b
    BY <2>1, <2>2, Unique
  <2> QED
    BY <2>3 DEF r
<1>5. Basket(b * fBsize) = b
  BY <1>2, <1>3, <1>4, BasketOf
<1>6. b * fBsize + fBsize <= BufferSize
  <2>1. fBsize * (b + 1) <= fBsize * NBaskets
    BY <1>1, MonoMult, Sizes
  <2>2. fBsize * (b + 1) = b * fBsize + fBsize
    BY <1>1, Sizes
  <2> QED
    BY <2>1, <2>2, Sizes
<1> QED
  BY <1>2, <1>3, <1>5, <1>6

------------------------------------------------------------------------------
(* Steps of one thread                                                      *)

\* All threads but t stay where they are.
Others(t) == \A u \in Threads \ {t} : pc'[u] = pc[u] /\ loc'[u] = loc[u]

LEMMA LocTypes ==
  ASSUME TypeInv, NEW t \in Threads
  PROVE  /\ pc[t] \in Labels /\ loc[t].ibook \in Nat /\ loc[t].n \in 0 .. fBsize
         /\ loc[t].tot \in Nat /\ loc[t].flush \in BOOLEAN
         /\ My(t) \in Baskets /\ Nelem(t) \in 0 .. fBsize - 1
         /\ First(loc[t].ibook) \in Nat /\ First(loc[t].ibook) <= loc[t].ibook
         /\ loc[t].ibook = First(loc[t].ibook) + Nelem(t)
<1>1. /\ pc[t] \in Labels /\ loc[t].ibook \in Nat /\ loc[t].n \in 0 .. fBsize
      /\ loc[t].tot \in Nat /\ loc[t].flush \in BOOLEAN
  BY DEF TypeInv
<1>2. My(t) \in Baskets
  BY <1>1, BasketRange DEF My
<1>3. /\ Nelem(t) \in 0 .. fBsize - 1 /\ First(loc[t].ibook) \in Nat
      /\ First(loc[t].ibook) <= loc[t].ibook
  BY <1>1, Numbers DEF Nelem
<1>4. loc[t].ibook = First(loc[t].ibook) + Nelem(t)
  BY <1>1, <1>3, Sizes DEF First, Nelem
<1> QED
  BY <1>1, <1>2, <1>3, <1>4

LEMMA GotoMoves ==
  ASSUME TypeInv, NEW t \in Threads, NEW label, Goto(t, label)
  PROVE  pc'[t] = label /\ \A u \in Threads \ {t} : pc'[u] = pc[u]
BY DEF TypeInv, Goto

LEMMA KeepMoves ==
  ASSUME TypeInv, NEW t \in Threads, NEW value
  PROVE  /\ Keep(t, "ibook", value) =>
              /\ loc'[t].ibook = value /\ loc'[t].n = loc[t].n /\ loc'[t].flush = loc[t].flush
              /\ \A u \in Threads \ {t} : loc'[u] = loc[u]
         /\ Keep(t, "tot", value) =>
              /\ loc'[t].ibook = loc[t].ibook /\ loc'[t].n = loc[t].n /\ loc'[t].flush = loc[t].flush
              /\ \A u \in Threads \ {t} : loc'[u] = loc[u]
         /\ Keep(t, "n", value) =>
              /\ loc'[t].n = value /\ loc'[t].ibook = loc[t].ibook /\ loc'[t].flush = loc[t].flush
              /\ \A u \in Threads \ {t} : loc'[u] = loc[u]
         /\ Keep(t, "flush", value) =>
              /\ loc'[t].flush = value /\ loc'[t].ibook = loc[t].ibook /\ loc'[t].n = loc[t].n
              /\ \A u \in Threads \ {t} : loc'[u] = loc[u]
BY DEF TypeInv, Keep

LEMMA ReturnMoves ==
  ASSUME TypeInv, NEW t \in Threads, Return(t)
  PROVE  pc'[t] = "idle" /\ loc'[t] = NoLocals /\ loc'[t].flush = FALSE /\ Others(t)
BY DEF TypeInv, Return, Goto, NoLocals, Others

\* What the others are does not change.
LEMMA OthersKeep ==
  ASSUME NEW t \in Threads, NEW u \in Threads, u # t, Others(t)
  PROVE  /\ pc'[u] = pc[u] /\ loc'[u] = loc[u]
         /\ (Books(u)' <=> Books(u)) /\ (Adds(u)' <=> Adds(u)) /\ (Unfilled(u)' <=> Unfilled(u))
         /\ (Late(u)' <=> Late(u)) /\ (Looks(u)' <=> Looks(u)) /\ (Owner(u)' <=> Owner(u))
         /\ (HandsOut(u)' <=> HandsOut(u)) /\ (Before(u)' <=> Before(u)) /\ (Leaves(u)' <=> Leaves(u))
         /\ (Drops(u)' <=> Drops(u)) /\ (Begins(u)' <=> Begins(u)) /\ (Releases(u)' <=> Releases(u))
         /\ My(u)' = My(u) /\ Nelem(u)' = Nelem(u) /\ Nout(u)' = Nout(u) /\ Taken(u)' = Taken(u)
<1>1. pc'[u] = pc[u] /\ loc'[u] = loc[u]
  BY DEF Others
<1>2. /\ (Books(u)' <=> Books(u)) /\ (Adds(u)' <=> Adds(u)) /\ (Unfilled(u)' <=> Unfilled(u))
      /\ (Late(u)' <=> Late(u)) /\ (Looks(u)' <=> Looks(u))
      /\ (HandsOut(u)' <=> HandsOut(u)) /\ (Before(u)' <=> Before(u)) /\ (Leaves(u)' <=> Leaves(u))
      /\ (Drops(u)' <=> Drops(u)) /\ (Begins(u)' <=> Begins(u)) /\ (Releases(u)' <=> Releases(u))
  BY <1>1 DEF Books, Adds, Unfilled, Late, Looks, HandsOut, Before, Leaves, Drops, Begins, Releases
<1>3. (Owner(u)' <=> Owner(u))
  BY <1>1, <1>2 DEF Owner
<1>4. My(u)' = My(u) /\ Nelem(u)' = Nelem(u)
  BY <1>1 DEF My, Nelem
<1>5. Nout(u)' = Nout(u)
  BY <1>1, <1>4 DEF Nout
<1>6. Taken(u)' = Taken(u)
  BY <1>1, <1>5 DEF Taken
<1> QED
  BY <1>1, <1>2, <1>3, <1>4, <1>5, <1>6

\* The part of the invariant that is about the elements in the baskets.
CoreInv == AlignInv /\ AdderInv /\ PoolInv /\ HeldInv /\ FilledInv /\ OwnerInv

\* A step that touches no basket: its thread keeps its element and its basket,
\* or lets go of an element that is counted.
LocalStep(t) ==
  /\ Others(t)
  /\ UNCHANGED <<fIbook, fBuffer, pool, Ibook, Nfilled>>
  /\ Books(t)' <=> Books(t)
  /\ pc'[t] = "a_fill" <=> pc[t] = "a_fill"
  /\ Adds(t)' => Adds(t)
  /\ pc'[t] = "a_wait" => pc[t] = "a_wait"
  /\ pc[t] = "a_wait" /\ pc'[t] # "a_wait" => First(loc[t].ibook) = Ibook[My(t)]
  /\ pc'[t] = "a_first" => Place(loc[t].ibook) = 0
  /\ Owner(t)' <=> Owner(t)
  /\ Leaves(t)' <=> Leaves(t)
  /\ Owner(t) => (Before(t)' <=> Before(t))
  /\ Adds(t)' \/ Owner(t) => loc'[t].ibook = loc[t].ibook /\ loc'[t].flush = loc[t].flush
  /\ HandsOut(t)' => loc'[t].n = Nout(t)

LEMMA LocalThreads ==
  ASSUME NEW t \in Threads, LocalStep(t)
  PROVE  /\ \A u \in Threads : Books(u)' <=> Books(u)
         /\ \A u \in Threads : pc'[u] = "a_fill" <=> pc[u] = "a_fill"
         /\ \A u \in Threads : Unfilled(u)' <=> Unfilled(u)
         /\ \A u \in Threads : Adds(u)' => Adds(u)
         /\ \A u \in Threads : pc'[u] = "a_wait" => pc[u] = "a_wait"
         /\ \A u \in Threads : pc[u] = "a_wait" /\ pc'[u] # "a_wait" => First(loc[u].ibook) = Ibook[My(u)]
         /\ \A u \in Threads : Owner(u)' <=> Owner(u)
         /\ \A u \in Threads : Leaves(u)' <=> Leaves(u)
         /\ \A u \in Threads : Owner(u) => (Before(u)' <=> Before(u))
         /\ \A u \in Threads : Adds(u)' \/ Owner(u) =>
              /\ loc'[u].ibook = loc[u].ibook /\ loc'[u].flush = loc[u].flush
              /\ My(u)' = My(u) /\ Nout(u)' = Nout(u) /\ Taken(u)' = Taken(u)
<1>0. Others(t)
  BY DEF LocalStep
<1>1. (Unfilled(t)' <=> Unfilled(t))
  BY DEF LocalStep, Unfilled
<1>2. Adds(t)' \/ Owner(t) =>
        /\ loc'[t].ibook = loc[t].ibook /\ loc'[t].flush = loc[t].flush
        /\ My(t)' = My(t) /\ Nout(t)' = Nout(t) /\ Taken(t)' = Taken(t)
  BY DEF LocalStep, My, Nout, Taken, Nelem
<1>3. ASSUME NEW u \in Threads, u # t
      PROVE  /\ (Books(u)' <=> Books(u)) /\ pc'[u] = pc[u] /\ loc'[u] = loc[u]
             /\ (Unfilled(u)' <=> Unfilled(u)) /\ (Adds(u)' => Adds(u))
             /\ (Owner(u)' <=> Owner(u)) /\ (Leaves(u)' <=> Leaves(u)) /\ (Before(u)' <=> Before(u))
             /\ My(u)' = My(u) /\ Nout(u)' = Nout(u) /\ Taken(u)' = Taken(u)
  BY <1>0, <1>3, OthersKeep
<1>4. /\ (Books(t)' <=> Books(t)) /\ (pc'[t] = "a_fill" <=> pc[t] = "a_fill")
      /\ (Adds(t)' => Adds(t)) /\ (pc'[t] = "a_wait" => pc[t] = "a_wait")
      /\ (pc[t] = "a_wait" /\ pc'[t] # "a_wait" => First(loc[t].ibook) = Ibook[My(t)])
      /\ (Owner(t)' <=> Owner(t)) /\ (Leaves(t)' <=> Leaves(t))
      /\ (Owner(t) => (Before(t)' <=> Before(t)))
  BY DEF LocalStep
<1> QED
  BY <1>1, <1>2, <1>3, <1>4

LEMMA UnfilledAdds ==
  ASSUME NEW t \in Threads
  PROVE  /\ Books(t) => Unfilled(t)
         /\ Unfilled(t) => Adds(t)
         /\ pc[t] = "a_wait" => Books(t)
         /\ pc[t] = "a_fill" => Unfilled(t) /\ ~ Books(t)
         /\ pc[t] = "a_first" => Books(t)
         /\ HandsOut(t) => Owner(t) /\ ~ Unfilled(t) /\ ~ Adds(t)
         /\ Leaves(t) => HandsOut(t) /\ ~ Before(t)
         /\ Owner(t) => ~ Unfilled(t)
BY DEF Books, Unfilled, Adds, HandsOut, Owner, Leaves, Before

LEMMA LocalCore ==
  ASSUME IInv, NEW t \in Threads, LocalStep(t)
  PROVE  CoreInv'
<1> USE DEF IInv
<1>0. /\ UNCHANGED <<fIbook, fBuffer, pool, Ibook, Nfilled>>
      /\ \A u \in Threads : Books(u)' <=> Books(u)
      /\ \A u \in Threads : pc'[u] = "a_fill" <=> pc[u] = "a_fill"
      /\ \A u \in Threads : Unfilled(u)' <=> Unfilled(u)
      /\ \A u \in Threads : Adds(u)' => Adds(u)
      /\ \A u \in Threads : Owner(u)' <=> Owner(u)
      /\ \A u \in Threads : Leaves(u)' <=> Leaves(u)
      /\ \A u \in Threads : Owner(u) => (Before(u)' <=> Before(u))
      /\ \A u \in Threads : Unfilled(u) => Adds(u)'
      /\ \A u \in Threads : Adds(u)' \/ Owner(u) =>
           /\ loc'[u].ibook = loc[u].ibook /\ loc'[u].flush = loc[u].flush
           /\ My(u)' = My(u) /\ Nout(u)' = Nout(u) /\ Taken(u)' = Taken(u)
  BY LocalThreads, UnfilledAdds DEF LocalStep, Unfilled, Adds, Books
<1>1. AlignInv'
  BY <1>0 DEF AlignInv
<1>2. AdderInv'
  <2>1. ASSUME NEW u \in Threads, pc'[u] = "a_wait"
        PROVE  First(loc'[u].ibook) >= Ibook[My(u)']
    <3>1. pc[u] = "a_wait" /\ Books(u) /\ Adds(u)'
      BY <1>0, <2>1, LocalThreads, UnfilledAdds DEF Adds
    <3> QED
      BY <1>0, <3>1 DEF AdderInv
  <2>2. ASSUME NEW u \in Threads, Unfilled(u)', pc'[u] # "a_wait"
        PROVE  First(loc'[u].ibook) = Ibook[My(u)']
    <3>1. Unfilled(u) /\ Adds(u)'
      BY <1>0, <2>2
    <3>2. First(loc[u].ibook) = Ibook[My(u)]
      BY <2>2, <3>1, LocalThreads DEF AdderInv
    <3> QED
      BY <1>0, <3>1, <3>2
  <2>3. ASSUME NEW u \in Threads, pc'[u] = "a_first"
        PROVE  Place(loc'[u].ibook) = 0
    <3>1. Adds(u)'
      BY <2>3 DEF Adds
    <3>2. CASE u = t
      BY <1>0, <2>3, <3>1, <3>2 DEF LocalStep
    <3>3. CASE u # t
      BY <2>3, <3>3 DEF LocalStep, Others, AdderInv
    <3> QED
      BY <3>2, <3>3
  <2>4. \A u \in Threads : Adds(u)' => loc'[u].ibook < fIbook' /\ ~ loc'[u].flush
    BY <1>0 DEF AdderInv
  <2>5. ASSUME NEW u \in Threads, NEW v \in Threads, Adds(u)', Adds(v)', loc'[u].ibook = loc'[v].ibook
        PROVE  u = v
    BY <1>0, <2>5 DEF AdderInv
  <2> QED
    BY <1>0, <2>1, <2>2, <2>3, <2>4, <2>5 DEF AdderInv
<1>3. PoolInv'
  <2>1. \A u \in Threads : Books(u)' => loc'[u].ibook \notin pool'
    BY <1>0, UnfilledAdds DEF PoolInv
  <2>2. \A u \in Threads : pc'[u] = "a_fill" => loc'[u].ibook \in pool'
    BY <1>0, UnfilledAdds DEF PoolInv
  <2> QED
    BY <1>0, <2>1, <2>2 DEF PoolInv
<1>4. HeldInv'
  <2> SUFFICES ASSUME NEW i \in 0 .. fIbook - 1
               PROVE  /\ First(i) > Ibook[Basket(i)] =>
                           \E u \in Threads : pc'[u] = "a_wait" /\ loc'[u].ibook = i
                      /\ First(i) = Ibook[Basket(i)] =>
                           \/ i \in pool
                           \/ \E u \in Threads : Books(u)' /\ loc'[u].ibook = i
                           \/ \E u \in Threads : Owner(u)' /\ My(u)' = Basket(i)
    BY <1>0 DEF HeldInv
  <2>0. Ibook[Basket(i)] \in Nat
    <3>1. i \in Nat /\ Basket(i) \in Baskets
      BY BasketRange DEF TypeInv
    <3> QED
      BY <3>1 DEF TypeInv, Counts
  <2>1. ASSUME First(i) > Ibook[Basket(i)]
        PROVE  \E u \in Threads : pc'[u] = "a_wait" /\ loc'[u].ibook = i
    <3>1. PICK u \in Threads : pc[u] = "a_wait" /\ loc[u].ibook = i
      BY <2>1 DEF HeldInv
    <3>2. pc'[u] = "a_wait"
      <4>1. First(loc[u].ibook) # Ibook[My(u)]
        BY <2>0, <2>1, <3>1 DEF My
      <4> QED
        BY <3>1, <4>1, LocalThreads
    <3>3. Adds(u)'
      BY <3>2 DEF Adds
    <3> QED
      BY <1>0, <3>1, <3>2, <3>3
  <2>2. ASSUME NEW u \in Threads, Books(u), loc[u].ibook = i
        PROVE  Books(u)' /\ loc'[u].ibook = i
    BY <1>0, <2>2, UnfilledAdds
  <2>3. ASSUME NEW u \in Threads, Owner(u), My(u) = Basket(i)
        PROVE  Owner(u)' /\ My(u)' = Basket(i)
    BY <1>0, <2>3
  <2> QED
    BY <2>1, <2>2, <2>3 DEF HeldInv
<1>5. FilledInv'
  <2>0. \A b \in Baskets : Lap(b)' = Lap(b)
    BY <1>0 DEF Lap
  <2>1. ASSUME NEW b \in Baskets PROVE FilledSet(b)' = FilledSet(b)
    <3>1. \A u \in Threads : pc[u] = "a_fill" => loc'[u].ibook = loc[u].ibook
      BY <1>0, UnfilledAdds
    <3>2. Lap(b)' = Lap(b) /\ pool' = pool
      BY <1>0, <2>0
    <3> QED
      BY <1>0, <3>1, <3>2 DEF FilledSet
  <2>2. ASSUME NEW u \in Threads, Leaves(u) PROVE My(u)' = My(u)
    BY <1>0, <2>2, UnfilledAdds
  <2>3. ASSUME NEW b \in Baskets, \A u \in Threads : Leaves(u)' => My(u)' # b
        PROVE  Nfilled[b] = Cardinality(FilledSet(b))
    <3>1. \A u \in Threads : Leaves(u) => My(u) # b
      BY <1>0, <2>2, <2>3
    <3> QED
      BY <3>1 DEF FilledInv
  <2>4. ASSUME NEW b \in Baskets, Nfilled[b] = fBsize
        PROVE  \E u \in Threads : Owner(u)' /\ My(u)' = b
    <3>1. PICK u \in Threads : Owner(u) /\ My(u) = b
      BY <2>4 DEF FilledInv
    <3> QED
      BY <1>0, <3>1
  <2> QED
    BY <1>0, <2>1, <2>3, <2>4 DEF FilledInv
<1>6. OwnerInv'
  <2> SUFFICES ASSUME NEW u \in Threads, Owner(u)'
               PROVE  /\ First(loc'[u].ibook) = Ibook[My(u)']
                      /\ First(loc'[u].ibook) + fBsize <= fIbook
                      /\ Nout(u)' \in 1 .. fBsize
                      /\ HandsOut(u)' => loc'[u].n = Nout(u)'
                      /\ \A v \in Threads : Unfilled(v)' => First(loc'[v].ibook) # First(loc'[u].ibook)
                      /\ \A v \in Threads : Owner(v)' /\ v # u => My(v)' # My(u)'
                      /\ Before(u)' => \A i \in Lap(My(u))' : i \in pool <=> i \in Taken(u)'
                      /\ ~ Before(u)' => \A i \in Lap(My(u))' : i \notin pool
    BY <1>0 DEF OwnerInv
  <2>1. /\ Owner(u) /\ loc'[u].ibook = loc[u].ibook /\ My(u)' = My(u) /\ Nout(u)' = Nout(u)
        /\ Taken(u)' = Taken(u) /\ (Before(u)' <=> Before(u))
    BY <1>0
  <2>2. Lap(My(u))' = Lap(My(u))
    BY <1>0, <2>1 DEF Lap
  <2>3. HandsOut(u)' => loc'[u].n = Nout(u)'
    <3>1. CASE u = t
      BY <2>1, <3>1 DEF LocalStep
    <3>2. CASE u # t
      <4>1. Others(t)
        BY DEF LocalStep
      <4>2. loc'[u] = loc[u] /\ (HandsOut(u)' <=> HandsOut(u))
        BY <3>2, <4>1, OthersKeep
      <4> QED
        BY <2>1, <4>2 DEF OwnerInv
    <3> QED
      BY <3>1, <3>2
  <2>4. \A v \in Threads : Unfilled(v)' => First(loc'[v].ibook) # First(loc'[u].ibook)
    BY <1>0, <2>1 DEF OwnerInv
  <2>5. \A v \in Threads : Owner(v)' /\ v # u => My(v)' # My(u)'
    BY <1>0, <2>1 DEF OwnerInv
  <2>6. /\ First(loc[u].ibook) = Ibook[My(u)] /\ First(loc[u].ibook) + fBsize <= fIbook
        /\ Nout(u) \in 1 .. fBsize
        /\ Before(u) => \A i \in Lap(My(u)) : i \in pool <=> i \in Taken(u)
        /\ ~ Before(u) => \A i \in Lap(My(u)) : i \notin pool
    BY <2>1 DEF OwnerInv
  <2> QED
    BY <2>1, <2>2, <2>3, <2>4, <2>5, <2>6
<1> QED
  BY <1>1, <1>2, <1>3, <1>4, <1>5, <1>6 DEF CoreInv

\* The totals, by a step that neither stores nor hands out.
LEMMA LocalStored ==
  ASSUME IInv, NEW t \in Threads, LocalStep(t), UNCHANGED fNstored,
         Late(t)' <=> Late(t), Drops(t)' <=> Drops(t)
  PROVE  StoredInv'
<1>0. Others(t) /\ fIbook' = fIbook /\ pool' = pool
  BY DEF LocalStep
<1>1. \A u \in Threads : (Late(u)' <=> Late(u)) /\ (Drops(u)' <=> Drops(u))
  BY <1>0, OthersKeep
<1>2. Lates' = Lates
  BY <1>1 DEF Lates
<1>3. \A u \in Threads : Drops(u) => Taken(u)' = Taken(u)
  BY LocalThreads, UnfilledAdds DEF Drops, Owner, HandsOut
<1>4. Dropping' = Dropping
  BY <1>0, <1>1, <1>3 DEF Dropping
<1> QED
  BY <1>0, <1>2, <1>4 DEF IInv, StoredInv

LEMMA LocalBaskets ==
  ASSUME IInv, NEW t \in Threads, LocalStep(t), UNCHANGED fNbaskets,
         Begins(t)' => Begins(t), Begins(t) /\ ~ Begins(t)' => Nelem(t) # 0,
         Releases(t)' <=> Releases(t)
  PROVE  BasketsInv'
<1>0. Others(t) /\ fIbook' = fIbook /\ Ibook' = Ibook
  BY DEF LocalStep
<1>1. ASSUME NEW b \in Baskets PROVE Counted(b)' <=> Counted(b)
  <2>1. ASSUME NEW u \in Threads, Begins(u)' PROVE Begins(u) /\ loc'[u].ibook = loc[u].ibook
    <3>1. Adds(u)'
      BY <2>1 DEF Begins, Adds
    <3>2. Begins(u)
      BY <1>0, <2>1, OthersKeep
    <3> QED
      BY <3>1, <3>2, LocalThreads
  <2>2. ASSUME NEW u \in Threads, Begins(u), ~ Begins(u)' PROVE loc[u].ibook # Ibook[b]
    <3>1. u = t
      BY <1>0, <2>2, OthersKeep
    <3>2. Place(loc[u].ibook) # 0
      BY <2>2, <3>1 DEF Nelem
    <3> QED
      BY <3>2 DEF IInv, AlignInv
  <2>3. \A u \in Threads : Releases(u)' <=> Releases(u)
    BY <1>0, OthersKeep
  <2>4. \A u \in Threads : Releases(u) => My(u)' = My(u)
    BY LocalThreads DEF Releases, Owner, HandsOut
  <2> QED
    BY <1>0, <2>1, <2>2, <2>3, <2>4 DEF Counted
<1>2. {b \in Baskets : Counted(b)}' = {b \in Baskets : Counted(b)}
  BY <1>1
<1> QED
  BY <1>2 DEF IInv, BasketsInv

\* A step that does not begin or end a flush, move fIbook or release a basket.
FlushStep(t) ==
  /\ Others(t)
  /\ UNCHANGED <<fIbook, fHandlerLock, Ibook>>
  /\ \A b \in Baskets : Nfilled'[b] >= Nfilled[b]
  /\ loc'[t].flush = loc[t].flush
  /\ pc'[t] \in FlushLabels => loc[t].flush
  /\ loc[t].flush => pc'[t] \in FlushLabels \/ HandsOut(t)'
  /\ pc'[t] = "a_wait" => pc[t] = "a_wait" /\ loc'[t].ibook = loc[t].ibook
  /\ Looks(t)' => loc'[t].ibook <= fIbook
  /\ pc'[t] \in {"f_filled", "f_open", "f_cas"} => Nelem(t)' # 0
  /\ pc'[t] \in {"f_open", "f_cas"} /\ fIbook = loc'[t].ibook => Nfilled'[My(t)'] >= Nelem(t)'

LEMMA LocalFlush ==
  ASSUME IInv, NEW t \in Threads, FlushStep(t), TypeInv'
  PROVE  FlushInv'
<1> USE DEF IInv
<1>0. /\ Others(t) /\ fIbook' = fIbook /\ fHandlerLock' = fHandlerLock /\ Ibook' = Ibook
      /\ \A b \in Baskets : Nfilled'[b] >= Nfilled[b]
      /\ loc'[t].flush = loc[t].flush
  BY DEF FlushStep
<1>1. ASSUME NEW u \in Threads, u # t
      PROVE  /\ pc'[u] = pc[u] /\ loc'[u] = loc[u] /\ (HandsOut(u)' <=> HandsOut(u))
             /\ (Looks(u)' <=> Looks(u)) /\ My(u)' = My(u) /\ Nelem(u)' = Nelem(u)
  BY <1>0, <1>1, OthersKeep
<1>2. \A u \in Threads : loc'[u].flush = loc[u].flush
  BY <1>0, <1>1
<1>3. \A u \in Threads : pc'[u] \in FlushLabels => loc'[u].flush
  BY <1>1, <1>2 DEF FlushStep, FlushInv
<1>4. \A u \in Threads : loc'[u].flush => /\ fHandlerLock'
                                          /\ pc'[u] \in FlushLabels \/ HandsOut(u)'
  BY <1>0, <1>1, <1>2 DEF FlushStep, FlushInv
<1>5. \A u, v \in Threads : loc'[u].flush /\ loc'[v].flush => u = v
  BY <1>2 DEF FlushInv
<1>6. fHandlerLock' => ~ Overrun'
  <2>1. ASSUME NEW u \in Threads, pc'[u] = "a_wait" PROVE pc[u] = "a_wait" /\ loc'[u].ibook = loc[u].ibook
    BY <1>1, <2>1 DEF FlushStep
  <2>2. ASSUME NEW u \in Threads, pc'[u] = "a_wait", ~ Open(My(u), loc[u].ibook)'
        PROVE  Overrun
    <3>1. My(u)' = My(u) /\ loc'[u].ibook = loc[u].ibook /\ pc[u] = "a_wait"
      BY <2>1, <2>2 DEF My
    <3>2. ~ Open(My(u), loc[u].ibook)
      BY <1>0, <2>2, <3>1 DEF Open
    <3> QED
      BY <3>1, <3>2 DEF Overrun
  <2>3. Overrun' => Overrun
    BY <2>2 DEF Overrun
  <2> QED
    BY <1>0, <2>3 DEF FlushInv
<1>7. \A u \in Threads : Looks(u)' => loc'[u].ibook <= fIbook'
  BY <1>0, <1>1 DEF FlushStep, FlushInv
<1>8. \A u \in Threads : pc'[u] \in {"f_filled", "f_open", "f_cas"} => Nelem(u)' # 0
  BY <1>1 DEF FlushStep, FlushInv
<1>9. ASSUME NEW u \in Threads, pc'[u] \in {"f_open", "f_cas"}, fIbook' = loc'[u].ibook
      PROVE  Nfilled'[My(u)'] >= Nelem(u)'
  <2>1. CASE u = t
    BY <1>0, <1>9, <2>1 DEF FlushStep
  <2>2. CASE u # t
    <3>1. Nfilled[My(u)] >= Nelem(u) /\ My(u)' = My(u) /\ Nelem(u)' = Nelem(u)
      BY <1>0, <1>1, <1>9, <2>2 DEF FlushInv
    <3>2. My(u) \in Baskets /\ Nelem(u) \in Int
      BY LocTypes, Sizes
    <3>3. Nfilled[My(u)] \in Int /\ Nfilled'[My(u)] \in Int
      BY <3>2, Sizes DEF TypeInv
    <3> QED
      BY <1>0, <3>1, <3>2, <3>3
  <2> QED
    BY <2>1, <2>2
<1> QED
  BY <1>3, <1>4, <1>5, <1>6, <1>7, <1>8, <1>9 DEF FlushInv

------------------------------------------------------------------------------
(* Types                                                                    *)

LEMMA SubsetSize ==
  ASSUME NEW S, NEW T, IsFiniteSet(S), T \subseteq S
  PROVE  /\ IsFiniteSet(T) /\ Cardinality(S) \in Nat /\ Cardinality(T) \in Nat
         /\ Cardinality(T) <= Cardinality(S)
         /\ T # S => Cardinality(T) < Cardinality(S)
<1>1. T \in SUBSET S
  OBVIOUS
<1>2. /\ IsFiniteSet(T) /\ Cardinality(T) <= Cardinality(S)
      /\ Cardinality(S) = Cardinality(T) => S = T
  BY <1>1, FS_Subset
<1>3. Cardinality(S) \in Nat /\ Cardinality(T) \in Nat
  BY <1>2, FS_CardinalityType
<1> QED
  BY <1>2, <1>3

\* The elements of a lap are as many as the basket has slots.
LEMMA LapFinite ==
  ASSUME IInv, NEW b \in Baskets
  PROVE  /\ IsFiniteSet(Lap(b)) /\ Cardinality(Lap(b)) = fBsize
         /\ Ibook[b] \in Nat /\ Lap(b) \subseteq Nat
         /\ IsFiniteSet(FilledSet(b)) /\ Cardinality(FilledSet(b)) \in 0 .. fBsize
         /\ FilledSet(b) \subseteq Lap(b)
<1>1. Ibook[b] \in Nat /\ Ibook[b] + fBsize - 1 \in Int /\ fBsize \in Nat
  BY Sizes DEF IInv, TypeInv, Counts
<1>2. IsFiniteSet(Lap(b)) /\ Cardinality(Lap(b)) = fBsize /\ Lap(b) \subseteq Nat
  <2>1. PICK a \in Int, c \in Int : a = Ibook[b] /\ c = Ibook[b] + fBsize - 1
    BY <1>1
  <2>2. Lap(b) = a .. c
    BY <2>1 DEF Lap
  <2>3. IsFiniteSet(a .. c) /\ Cardinality(a .. c) = IF a > c THEN 0 ELSE c - a + 1
    BY FS_Interval
  <2>4. Cardinality(a .. c) = fBsize
    <3>1. fBsize \in Nat /\ fBsize >= 2
      BY Sizes
    <3>2. a <= c /\ c - a + 1 = fBsize
      BY <2>1, <3>1, <1>1
    <3> QED
      BY <2>3, <3>2
  <2>5. Lap(b) \subseteq Nat
    BY <1>1 DEF Lap
  <2> QED
    BY <2>2, <2>3, <2>4, <2>5
<1>3. FilledSet(b) \subseteq Lap(b)
  BY DEF FilledSet
<1>4. IsFiniteSet(FilledSet(b)) /\ Cardinality(FilledSet(b)) <= Cardinality(Lap(b))
  BY <1>2, <1>3, SubsetSize
<1>5. Cardinality(FilledSet(b)) \in Nat
  BY <1>2, <1>3, SubsetSize
<1> QED
  BY <1>1, <1>2, <1>3, <1>4, <1>5

\* The basket of an index is the basket of the lap that it is in.
LEMMA InLap ==
  ASSUME IInv, NEW i \in Nat, NEW b \in Baskets
  PROVE  i \in Lap(b) <=> Basket(i) = b /\ First(i) = Ibook[b]
<1>1. Ibook[b] \in Nat /\ Place(Ibook[b]) = 0 /\ Basket(Ibook[b]) = b
  BY DEF IInv, TypeInv, Counts, AlignInv
<1>2. ASSUME i \in Lap(b) PROVE Basket(i) = b /\ First(i) = Ibook[b]
  BY <1>1, <1>2, FirstOf DEF Lap
<1>3. ASSUME First(i) = Ibook[b] PROVE i \in Lap(b)
  <2>1. First(i) <= i /\ i < First(i) + fBsize /\ fBsize \in Nat
    BY Numbers, Sizes
  <2> QED
    BY <1>1, <1>3, <2>1 DEF Lap
<1> QED
  BY <1>2, <1>3

\* A thread that stored its element and did not count it leaves room to count it,
\* and its basket has no owner.
LEMMA FillRoom ==
  ASSUME IInv, NEW t \in Threads, pc[t] = "a_fill"
  PROVE  /\ loc[t].ibook \in Lap(My(t)) /\ loc[t].ibook \notin FilledSet(My(t))
         /\ \A u \in Threads : Owner(u) => My(u) # My(t)
         /\ Nfilled[My(t)] = Cardinality(FilledSet(My(t)))
         /\ Nfilled[My(t)] + 1 \in 1 .. fBsize
<1>1. /\ loc[t].ibook \in Nat /\ My(t) \in Baskets /\ Unfilled(t) /\ loc[t].ibook \in pool
      /\ First(loc[t].ibook) = Ibook[My(t)]
  BY LocTypes, UnfilledAdds DEF IInv, AdderInv, PoolInv
<1>2. loc[t].ibook \in Lap(My(t))
  BY <1>1, InLap DEF My
<1>3. loc[t].ibook \notin FilledSet(My(t))
  BY DEF FilledSet
<1>4. ASSUME NEW u \in Threads, Owner(u) PROVE My(u) # My(t)
  BY <1>1, <1>4 DEF IInv, OwnerInv
<1>5. Nfilled[My(t)] = Cardinality(FilledSet(My(t)))
  <2>1. \A u \in Threads : Leaves(u) => My(u) # My(t)
    BY <1>4, UnfilledAdds
  <2> QED
    BY <1>1, <2>1 DEF IInv, FilledInv
<1>6. Cardinality(FilledSet(My(t))) < fBsize
  <2>1. /\ FilledSet(My(t)) \subseteq Lap(My(t)) /\ FilledSet(My(t)) # Lap(My(t))
        /\ IsFiniteSet(Lap(My(t))) /\ Cardinality(Lap(My(t))) = fBsize
    BY <1>1, <1>2, <1>3, LapFinite
  <2> QED
    BY <2>1, SubsetSize
<1>7. Cardinality(FilledSet(My(t))) \in 0 .. fBsize
  BY <1>1, LapFinite
<1> QED
  BY <1>2, <1>3, <1>4, <1>5, <1>6, <1>7, Sizes

LEMMA TypeStep ==
  ASSUME IInv, NEW t \in Threads, Call(t) \/ Inside(t)
  PROVE  TypeInv'
<1>0. TypeInv
  BY DEF IInv
<1>1. /\ loc[t].ibook \in Nat /\ loc[t].n \in 0 .. fBsize /\ loc[t].tot \in Nat
      /\ loc[t].flush \in BOOLEAN /\ My(t) \in Baskets /\ Nelem(t) \in 0 .. fBsize - 1
      /\ fBsize \in Nat /\ fBsize >= 2 /\ fIbook \in Nat
      /\ Nbooktot[My(t)] \in Nat
  BY <1>0, LocTypes, Sizes DEF TypeInv, Counts
<1>2. NoLocals \in [ibook : Nat, tot : Nat, n : 0 .. fBsize, flush : BOOLEAN]
  BY <1>1 DEF NoLocals
<1>3. CASE BookIndex(t)
  BY <1>0, <1>1, <1>3 DEF BookIndex, TypeInv, Goto, Keep, Labels, totals, locks, counters, history
<1>4. CASE AwaitOpen(t)
  BY <1>0, <1>1, <1>4 DEF AwaitOpen, TypeInv, Goto, Labels, buffer, totals, locks, counters, history
<1>5. CASE BookSlot(t)
  <2>1. Nbooktot[My(t)] + 1 \in Nat
    BY <1>1
  <2> QED
    BY <1>0, <1>1, <1>5, <2>1 DEF BookSlot, TypeInv, Goto, Keep, Labels, Counts, buffer, totals, locks, history
<1>6. CASE CountBasket(t)
  BY <1>0, <1>1, <1>6 DEF CountBasket, TypeInv, Goto, Labels, buffer, locks, counters, history
<1>7. CASE AwaitRange(t)
  BY <1>0, <1>1, <1>7 DEF AwaitRange, TypeInv, Goto, Labels, buffer, totals, locks, counters, history
<1>8. CASE StoreElement(t)
  <2>1. Cell(loc[t].ibook) \in Cells
    BY <1>1, CellRange
  <2> QED
    BY <1>0, <1>1, <1>8, <2>1 DEF StoreElement, TypeInv, Goto, Labels, totals, locks, counters
<1>9. CASE FillSlot(t)
  <2>1. Nfilled[My(t)] + 1 \in 0 .. fBsize
    BY <1>9, FillRoom, <1>1 DEF FillSlot
  <2> QED
    BY <1>0, <1>1, <1>9, <2>1 DEF FillSlot, TypeInv, Goto, Keep, Labels, buffer, totals, locks, history
<1>10. CASE CountStored(t)
  <2>1. fNstored + 1 \in Int
    BY <1>0 DEF TypeInv
  <2>2. /\ fNstored' = fNstored + 1 /\ UNCHANGED <<buffer, fNbaskets, locks, counters, history>>
        /\ (Goto(t, "h_copy") /\ UNCHANGED loc) \/ Return(t)
    BY <1>10 DEF CountStored
  <2> QED
    BY <1>0, <1>1, <1>2, <2>1, <2>2 DEF TypeInv, Goto, Return, Labels, buffer, locks, counters, history
<1>11. CASE FlushCall(t)
  BY <1>0, <1>1, <1>11 DEF FlushCall, TypeInv, Goto, Keep, Labels, buffer, totals, counters, history
<1>12. CASE CheckStored(t)
  BY <1>0, <1>1, <1>12 DEF CheckStored, TypeInv, Goto, Labels, buffer, totals, locks, counters, history
<1>13. CASE CheckNbaskets(t)
  BY <1>0, <1>1, <1>13 DEF CheckNbaskets, TypeInv, Goto, Labels, buffer, totals, locks, counters, history
<1>14. CASE Lock(t)
  BY <1>0, <1>1, <1>14 DEF Lock, TypeInv, Goto, Labels, buffer, totals, counters, history
<1>15. CASE LoadIbook(t)
  BY <1>0, <1>1, <1>15 DEF LoadIbook, TypeInv, Goto, Keep, Labels, buffer, totals, locks, counters, history
<1>16. CASE LoadNbooktot(t)
  BY <1>0, <1>1, <1>16 DEF LoadNbooktot, TypeInv, Goto, Keep, Labels, buffer, totals, locks, counters, history
<1>17. CASE CheckNbooked(t)
  BY <1>0, <1>1, <1>17 DEF CheckNbooked, FlushFails, TypeInv, Goto, Labels, buffer, totals, locks, counters, history
<1>18. CASE CheckNfilled(t)
  BY <1>0, <1>1, <1>18 DEF CheckNfilled, FlushFails, TypeInv, Goto, Labels, buffer, totals, locks, counters, history
<1>19. CASE CheckOpen(t)
  BY <1>0, <1>1, <1>19 DEF CheckOpen, FlushFails, TypeInv, Goto, Labels, buffer, totals, locks, counters, history
<1>20. CASE PushIbook(t)
  <2>1. First(fIbook + fBsize) \in Nat
    <3>1. fIbook + fBsize \in Nat
      BY <1>1
    <3> QED
      BY <3>1, Numbers
  <2> QED
    BY <1>0, <1>1, <1>20, <2>1 DEF PushIbook, TypeInv, Goto, Labels, totals, locks, counters, history
<1>21. CASE BookSlots(t)
  <2>1. Nbooktot[My(t)] + fBsize - Nelem(t) \in Nat /\ Nelem(t) \in 0 .. fBsize
    BY <1>1
  <2> QED
    BY <1>0, <1>1, <1>21, <2>1 DEF BookSlots, TypeInv, Goto, Keep, Labels, Counts, buffer, totals, locks, history
<1>22. CASE Unlock(t)
  BY <1>0, <1>1, <1>22 DEF Unlock, TypeInv, Goto, Labels, buffer, totals, counters, history
<1>23. CASE FlushReturn(t)
  BY <1>0, <1>1, <1>2, <1>23 DEF FlushReturn, Return, TypeInv, Goto, Labels, buffer, totals, counters, history
<1>24. CASE CopyBasket(t)
  <2>1. nout + loc[t].n \in Nat
    BY <1>0, <1>1 DEF TypeInv
  <2>2. pool' \subseteq pool
    BY <1>24 DEF CopyBasket
  <2> QED
    BY <1>0, <1>1, <1>24, <2>1, <2>2 DEF CopyBasket, TypeInv, Goto, Labels, buffer, totals, locks, counters
<1>25. CASE DropStored(t)
  <2>1. fNstored - loc[t].n \in Int
    BY <1>0, <1>1 DEF TypeInv
  <2> QED
    BY <1>0, <1>1, <1>25, <2>1 DEF DropStored, TypeInv, Goto, Labels, buffer, locks, counters, history
<1>26. CASE DropBasket(t)
  BY <1>0, <1>1, <1>26 DEF DropBasket, TypeInv, Goto, Labels, buffer, locks, counters, history
<1>27. CASE ReleaseFilled(t)
  BY <1>0, <1>1, <1>27 DEF ReleaseFilled, TypeInv, Goto, Labels, buffer, totals, locks, history
<1>28. CASE ReleaseRange(t)
  <2>1. Nbook0[My(t)] + fBsize \in Nat
    BY <1>0, <1>1 DEF TypeInv, Counts
  <2> QED
    BY <1>0, <1>1, <1>28, <2>1 DEF ReleaseRange, TypeInv, Goto, Labels, Counts, buffer, totals, locks, history
<1>29. CASE ReleaseIbook(t)
  <2>1. NextLap(loc[t].ibook) \in Nat
    BY <1>1, NextLapOf
  <2>2. /\ Ibook' = [Ibook EXCEPT ![My(t)] = NextLap(loc[t].ibook)]
        /\ (Goto(t, "f_unlock") /\ UNCHANGED loc) \/ Return(t)
        /\ UNCHANGED <<buffer, totals, locks, Nbook0, Nbooktot, Nfilled, history>>
    BY <1>29 DEF ReleaseIbook
  <2> QED
    BY <1>0, <1>1, <1>2, <2>1, <2>2 DEF TypeInv, Goto, Return, Labels, Counts, buffer, totals, locks, history
<1> QED
  BY <1>3, <1>4, <1>5, <1>6, <1>7, <1>8, <1>9, <1>10, <1>11, <1>12, <1>13, <1>14, <1>15, <1>16,
     <1>17, <1>18, <1>19, <1>20, <1>21, <1>22, <1>23, <1>24, <1>25, <1>26, <1>27, <1>28, <1>29
     DEF Call, Inside, Adding, Flushing, HandingOut

\* What an owner hands out was given out, and is in the lap of its basket.
LEMMA TakenGiven ==
  ASSUME IInv, NEW t \in Threads, Owner(t)
  PROVE  /\ Taken(t) \subseteq 0 .. fIbook - 1 /\ Taken(t) \subseteq Lap(My(t))
         /\ IsFiniteSet(Taken(t)) /\ Cardinality(Taken(t)) = Nout(t) /\ Nout(t) \in 1 .. fBsize
<1>1. PICK a \in Nat, n \in 1 .. fBsize : a = First(loc[t].ibook) /\ n = Nout(t)
  BY LocTypes DEF IInv, OwnerInv
<1>2. a = Ibook[My(t)] /\ a + fBsize <= fIbook /\ fIbook \in Nat /\ fBsize \in Nat
  BY <1>1, Sizes DEF IInv, OwnerInv, TypeInv
<1>3. PICK c \in Int : c = a + n - 1
  BY <1>1, <1>2
<1>4. Taken(t) = a .. c
  BY <1>1, <1>3 DEF Taken
<1>5. IsFiniteSet(a .. c) /\ Cardinality(a .. c) = IF a > c THEN 0 ELSE c - a + 1
  <2>1. a \in Int /\ c \in Int
    OBVIOUS
  <2> QED
    BY <2>1, FS_Interval
<1>6. Cardinality(a .. c) = n
  <2>1. ~ (a > c) /\ c - a + 1 = n
    BY <1>2, <1>3
  <2> QED
    BY <1>5, <2>1
<1>7. a .. c \subseteq 0 .. fIbook - 1
  BY <1>1, <1>2, <1>3
<1>8. a .. c \subseteq Lap(My(t))
  BY <1>1, <1>2, <1>3 DEF Lap
<1> QED
  BY <1>1, <1>4, <1>5, <1>6, <1>7, <1>8

------------------------------------------------------------------------------
(* BookIndex                                                                *)

LEMMA BookIndexStep ==
  ASSUME IInv, NEW t \in Threads, BookIndex(t), TypeInv', FlushAnyTime = FALSE
  PROVE  CoreInv' /\ FlushInv' /\ StoredInv' /\ BasketsInv'
<1> USE DEF IInv
<1>1. /\ pc[t] = "idle" /\ pc'[t] = "a_wait" /\ loc'[t].ibook = fIbook
      /\ loc'[t].flush = loc[t].flush /\ Others(t)
      /\ fIbook' = fIbook + 1
      /\ UNCHANGED <<fBuffer, fNstored, fNbaskets, fHandlerLock, Ibook, Nfilled, pool>>
      /\ FlushAnyTime \/ ~ fHandlerLock \/ Open(Basket(fIbook), fIbook)
  BY GotoMoves, KeepMoves DEF BookIndex, Others, totals, locks, counters, history
<1>2. /\ fIbook \in Nat /\ fIbook' \in Nat /\ fBsize \in Nat /\ Basket(fIbook) \in Baskets
      /\ Ibook[Basket(fIbook)] \in Nat /\ First(fIbook) \in Nat /\ First(fIbook) <= fIbook
  <2>1. fIbook \in Nat /\ fIbook' \in Nat
    BY <1>1 DEF TypeInv
  <2> QED
    BY <2>1, BasketRange, Numbers, Sizes DEF TypeInv, Counts
<1>3. /\ ~ loc[t].flush /\ My(t)' = Basket(fIbook)
      /\ ~ Owner(t) /\ ~ Owner(t)' /\ ~ Leaves(t) /\ ~ Leaves(t)' /\ ~ Late(t) /\ ~ Late(t)'
      /\ ~ Drops(t) /\ ~ Drops(t)' /\ ~ Releases(t) /\ ~ Releases(t)' /\ ~ Looks(t)'
      /\ Books(t)' /\ Adds(t)' /\ ~ Adds(t) /\ ~ Books(t) /\ ~ HandsOut(t)' /\ ~ Unfilled(t)
  BY <1>1 DEF My, Owner, HandsOut, Leaves, Late, Drops, Releases, Books, Adds, Looks, Unfilled,
              FlushInv, FlushLabels
<1>4. ASSUME NEW u \in Threads, u # t
      PROVE  /\ pc'[u] = pc[u] /\ loc'[u] = loc[u]
             /\ (Books(u)' <=> Books(u)) /\ (Adds(u)' <=> Adds(u)) /\ (Unfilled(u)' <=> Unfilled(u))
             /\ (Late(u)' <=> Late(u)) /\ (Looks(u)' <=> Looks(u)) /\ (Owner(u)' <=> Owner(u))
             /\ (HandsOut(u)' <=> HandsOut(u)) /\ (Before(u)' <=> Before(u))
             /\ (Leaves(u)' <=> Leaves(u)) /\ (Drops(u)' <=> Drops(u))
             /\ (Begins(u)' <=> Begins(u)) /\ (Releases(u)' <=> Releases(u))
             /\ My(u)' = My(u) /\ Nelem(u)' = Nelem(u) /\ Nout(u)' = Nout(u) /\ Taken(u)' = Taken(u)
  BY <1>1, <1>4, OthersKeep
\* The basket of the next index is not a lap ahead of it.
<1>5. First(fIbook) >= Ibook[Basket(fIbook)]
  <2>1. ASSUME First(fIbook) < Ibook[Basket(fIbook)] PROVE FALSE
    <3> DEFINE m == Ibook[Basket(fIbook)]
    <3>1. m \in Nat /\ Place(m) = 0 /\ Basket(m) = Basket(fIbook) /\ m + fBsize <= fIbook + BufferSize
      BY <1>2 DEF AlignInv
    <3>2. First(m) = m
      BY <3>1 DEF First
    <3>3. First(fIbook) + BufferSize <= m
      BY <1>2, <2>1, <3>1, <3>2, LapApart
    <3>4. First(fIbook) + fBsize <= fIbook
      BY <1>2, <3>1, <3>3, Sizes
    <3> QED
      BY <1>2, <3>4, Numbers
  <2> QED
    BY <1>2, <2>1
<1>6. AlignInv'
  <2>1. \A b \in Baskets : Ibook[b] \in Nat
    BY DEF TypeInv, Counts
  <2>2. BufferSize \in Nat /\ fBsize \in Nat
    BY Sizes
  <2> QED
    BY <1>1, <1>2, <2>1, <2>2 DEF AlignInv
<1>7. AdderInv'
  <2>1. ASSUME NEW u \in Threads, u # t, Adds(u) PROVE loc[u].ibook < fIbook
    BY <2>1 DEF AdderInv
  <2>2. \A u \in Threads : Adds(u)' => loc'[u].ibook < fIbook' /\ ~ loc'[u].flush
    <3>1. \A u \in Threads : loc[u].ibook \in Nat
      BY LocTypes
    <3> QED
      BY <1>1, <1>2, <1>3, <1>4, <3>1 DEF AdderInv
  <2>3. \A u \in Threads : pc'[u] = "a_wait" => First(loc'[u].ibook) >= Ibook'[My(u)']
    BY <1>1, <1>3, <1>4, <1>5 DEF AdderInv
  <2>4. \A u \in Threads : Unfilled(u)' /\ pc'[u] # "a_wait" => First(loc'[u].ibook) = Ibook'[My(u)']
    BY <1>1, <1>4 DEF AdderInv
  <2>5. \A u \in Threads : pc'[u] = "a_first" => Place(loc'[u].ibook) = 0
    BY <1>1, <1>4 DEF AdderInv
  <2>6. ASSUME NEW u \in Threads, NEW v \in Threads, Adds(u)', Adds(v)', loc'[u].ibook = loc'[v].ibook
        PROVE  u = v
    <3>1. CASE u # t /\ v # t
      BY <1>4, <2>6, <3>1 DEF AdderInv
    <3>2. ASSUME NEW w \in Threads, w # t, Adds(w)' PROVE loc'[w].ibook # fIbook
      <4>1. loc[w].ibook < fIbook /\ loc'[w] = loc[w] /\ loc[w].ibook \in Nat
        BY <1>4, <3>2, LocTypes DEF AdderInv
      <4> QED
        BY <1>2, <4>1
    <3> QED
      BY <1>1, <2>6, <3>1, <3>2
  <2> QED
    BY <2>2, <2>3, <2>4, <2>5, <2>6 DEF AdderInv
<1>8. PoolInv'
  <2>1. \A i \in pool : i \in Nat /\ i < fIbook' /\ i # fIbook
    BY <1>1, <1>2 DEF PoolInv
  <2>2. \A u \in Threads : Books(u)' => loc'[u].ibook \notin pool'
    BY <1>1, <1>4, <2>1 DEF PoolInv
  <2>3. \A u \in Threads : pc'[u] = "a_fill" => loc'[u].ibook \in pool'
    BY <1>1, <1>4 DEF PoolInv
  <2> QED
    BY <1>1, <2>1, <2>2, <2>3 DEF PoolInv
<1>9. HeldInv'
  <2> SUFFICES ASSUME NEW i \in 0 .. fIbook
               PROVE  /\ First(i) > Ibook[Basket(i)] =>
                           \E u \in Threads : pc'[u] = "a_wait" /\ loc'[u].ibook = i
                      /\ First(i) = Ibook[Basket(i)] =>
                           \/ i \in pool
                           \/ \E u \in Threads : Books(u)' /\ loc'[u].ibook = i
                           \/ \E u \in Threads : Owner(u)' /\ My(u)' = Basket(i)
    <3>1. fIbook' - 1 = fIbook
      BY <1>1, <1>2
    <3> QED
      BY <1>1, <3>1 DEF HeldInv
  <2>1. CASE i = fIbook
    BY <1>1, <1>3, <2>1
  <2>2. CASE i # fIbook
    <3>1. i \in 0 .. fIbook - 1
      BY <1>2, <2>2
    <3>2. ASSUME NEW u \in Threads, pc[u] = "a_wait" \/ Books(u) \/ Owner(u) PROVE u # t
      BY <1>1, <1>3, <3>2
    <3>3. ASSUME First(i) > Ibook[Basket(i)]
          PROVE  \E u \in Threads : pc'[u] = "a_wait" /\ loc'[u].ibook = i
      <4>1. PICK u \in Threads : pc[u] = "a_wait" /\ loc[u].ibook = i
        BY <3>1, <3>3 DEF HeldInv
      <4> QED
        BY <1>4, <3>2, <4>1
    <3>4. ASSUME NEW u \in Threads, Books(u), loc[u].ibook = i
          PROVE  Books(u)' /\ loc'[u].ibook = i
      BY <1>4, <3>2, <3>4
    <3>5. ASSUME NEW u \in Threads, Owner(u), My(u) = Basket(i)
          PROVE  Owner(u)' /\ My(u)' = Basket(i)
      BY <1>4, <3>2, <3>5
    <3> QED
      BY <3>1, <3>3, <3>4, <3>5 DEF HeldInv
  <2> QED
    BY <2>1, <2>2
<1>10. FilledInv'
  <2>1. \A b \in Baskets : Lap(b)' = Lap(b)
    BY <1>1 DEF Lap
  <2>2. ASSUME NEW b \in Baskets PROVE FilledSet(b)' = FilledSet(b)
    BY <1>1, <1>4, <2>1 DEF FilledSet
  <2>3. ASSUME NEW b \in Baskets, \A u \in Threads : Leaves(u)' => My(u)' # b
        PROVE  Nfilled[b] = Cardinality(FilledSet(b))
    <3>1. \A u \in Threads : Leaves(u) => My(u) # b
      BY <1>3, <1>4, <2>3
    <3> QED
      BY <3>1 DEF FilledInv
  <2>4. ASSUME NEW b \in Baskets, Nfilled[b] = fBsize
        PROVE  \E u \in Threads : Owner(u)' /\ My(u)' = b
    <3>1. PICK u \in Threads : Owner(u) /\ My(u) = b
      BY <2>4 DEF FilledInv
    <3> QED
      BY <1>3, <1>4, <3>1
  <2> QED
    BY <1>1, <2>2, <2>3, <2>4 DEF FilledInv
<1>11. OwnerInv'
  <2> SUFFICES ASSUME NEW u \in Threads, Owner(u)'
               PROVE  /\ First(loc'[u].ibook) = Ibook'[My(u)']
                      /\ First(loc'[u].ibook) + fBsize <= fIbook'
                      /\ Nout(u)' \in 1 .. fBsize
                      /\ HandsOut(u)' => loc'[u].n = Nout(u)'
                      /\ \A v \in Threads : Unfilled(v)' => First(loc'[v].ibook) # First(loc'[u].ibook)
                      /\ \A v \in Threads : Owner(v)' /\ v # u => My(v)' # My(u)'
                      /\ Before(u)' => \A i \in Lap(My(u))' : i \in pool' <=> i \in Taken(u)'
                      /\ ~ Before(u)' => \A i \in Lap(My(u))' : i \notin pool'
    BY DEF OwnerInv
  <2>1. /\ u # t /\ Owner(u) /\ loc'[u] = loc[u] /\ My(u)' = My(u) /\ Nout(u)' = Nout(u)
        /\ Taken(u)' = Taken(u) /\ (Before(u)' <=> Before(u)) /\ (HandsOut(u)' <=> HandsOut(u))
    BY <1>3, <1>4
  <2>2. Lap(My(u))' = Lap(My(u))
    BY <1>1, <2>1 DEF Lap
  <2>3. /\ First(loc[u].ibook) = Ibook[My(u)] /\ First(loc[u].ibook) + fBsize <= fIbook
        /\ Nout(u) \in 1 .. fBsize /\ (HandsOut(u) => loc[u].n = Nout(u))
        /\ (Before(u) => \A i \in Lap(My(u)) : i \in pool <=> i \in Taken(u))
        /\ (~ Before(u) => \A i \in Lap(My(u)) : i \notin pool)
        /\ First(loc[u].ibook) \in Nat
    BY <2>1, LocTypes DEF OwnerInv
  <2>4. \A v \in Threads : Unfilled(v)' => First(loc'[v].ibook) # First(loc'[u].ibook)
    <3>1. ASSUME NEW v \in Threads, Unfilled(v)', v # t PROVE First(loc'[v].ibook) # First(loc'[u].ibook)
      BY <1>4, <2>1, <3>1 DEF OwnerInv
    <3>2. First(fIbook) # First(loc[u].ibook)
      <4>1. fIbook < First(fIbook) + fBsize
        BY <1>2, Numbers
      <4> QED
        BY <1>2, <2>3, <4>1
    <3> QED
      BY <1>1, <2>1, <3>1, <3>2
  <2>5. \A v \in Threads : Owner(v)' /\ v # u => My(v)' # My(u)'
    BY <1>3, <1>4, <2>1 DEF OwnerInv
  <2>6. First(loc[u].ibook) + fBsize <= fIbook'
    BY <1>1, <1>2, <2>3
  <2> QED
    BY <1>1, <2>1, <2>2, <2>3, <2>4, <2>5, <2>6
<1>12. FlushInv'
  <2>1. fHandlerLock' => ~ Overrun'
    <3> SUFFICES ASSUME fHandlerLock, NEW u \in Threads, pc'[u] = "a_wait"
                 PROVE  Open(My(u), loc[u].ibook)'
      BY <1>1 DEF Overrun
    <3>1. CASE u = t
      BY <1>1, <1>3, <3>1 DEF Open
    <3>2. CASE u # t
      <4>1. Open(My(u), loc[u].ibook)
        BY <1>4, <3>2 DEF FlushInv, Overrun
      <4> QED
        BY <1>1, <1>4, <3>2, <4>1 DEF Open
    <3> QED
      BY <3>1, <3>2
  <2>2. \A u \in Threads : loc'[u].flush = loc[u].flush
    BY <1>1, <1>4
  <2>3. \A u \in Threads : pc'[u] \in FlushLabels => loc'[u].flush
    BY <1>1, <1>4 DEF FlushInv, FlushLabels
  <2>4. \A u \in Threads : loc'[u].flush => fHandlerLock' /\ (pc'[u] \in FlushLabels \/ HandsOut(u)')
    BY <1>1, <1>3, <1>4 DEF FlushInv
  <2>5. \A u, v \in Threads : loc'[u].flush /\ loc'[v].flush => u = v
    BY <2>2 DEF FlushInv
  <2>6. \A u \in Threads : Looks(u)' => loc'[u].ibook <= fIbook'
    <3>1. ASSUME NEW u \in Threads, Looks(u)' PROVE loc'[u].ibook <= fIbook'
      <4>1. u # t
        BY <1>3, <3>1
      <4>2. Looks(u) /\ loc'[u] = loc[u]
        BY <1>4, <3>1, <4>1
      <4>3. loc[u].ibook <= fIbook /\ loc[u].ibook \in Nat
        BY <4>2, LocTypes DEF FlushInv
      <4> QED
        BY <1>1, <1>2, <4>2, <4>3
    <3> QED
      BY <3>1
  <2>7. \A u \in Threads : pc'[u] \in {"f_filled", "f_open", "f_cas"} => Nelem(u)' # 0
    BY <1>1, <1>4 DEF FlushInv
  \* fIbook has moved past what the flush has seen.
  <2>8. ASSUME NEW u \in Threads, pc'[u] \in {"f_open", "f_cas"} PROVE fIbook' # loc'[u].ibook
    <3>1. u # t /\ Looks(u)
      BY <1>1, <1>4, <2>8 DEF Looks
    <3>2. loc'[u] = loc[u] /\ loc[u].ibook <= fIbook /\ loc[u].ibook \in Nat
      BY <1>4, <3>1, LocTypes DEF FlushInv
    <3> QED
      BY <1>1, <1>2, <3>2
  <2> QED
    BY <2>1, <2>3, <2>4, <2>5, <2>6, <2>7, <2>8 DEF FlushInv
<1>13. StoredInv'
  <2>1. Lates' = Lates
    BY <1>3, <1>4 DEF Lates
  <2>2. \A u \in Threads : Drops(u)' <=> Drops(u)
    BY <1>3, <1>4
  <2>3. ASSUME NEW u \in Threads, Drops(u) PROVE Taken(u)' = Taken(u) /\ Taken(u) \subseteq 0 .. fIbook - 1
    <3>1. u # t /\ Owner(u)
      BY <1>3, <2>3 DEF Drops, Owner, HandsOut
    <3> QED
      BY <1>4, <3>1, TakenGiven
  <2>4. Dropping' = Dropping
    <3>1. 0 .. fIbook - 1 \subseteq 0 .. fIbook' - 1
      BY <1>1, <1>2
    <3> QED
      BY <2>2, <2>3, <3>1 DEF Dropping
  <2> QED
    BY <1>1, <2>1, <2>4 DEF StoredInv
<1>14. BasketsInv'
  <2>1. ASSUME NEW b \in Baskets PROVE Counted(b)' <=> Counted(b)
    <3>1. Ibook[b] \in Nat /\ Ibook'[b] = Ibook[b]
      BY <1>1 DEF TypeInv, Counts
    <3>2. (\A u \in Threads : Releases(u)' => My(u)' # b) <=> (\A u \in Threads : Releases(u) => My(u) # b)
      BY <1>3, <1>4
    <3>3. CASE Ibook[b] = fIbook
      <4>1. ~ Counted(b)
        BY <1>2, <3>3 DEF Counted
      <4>2. ~ Counted(b)'
        BY <1>1, <3>1, <3>3 DEF Counted, Begins
      <4> QED
        BY <4>1, <4>2
    <3>4. CASE Ibook[b] # fIbook
      <4>1. Ibook'[b] < fIbook' <=> Ibook[b] < fIbook
        BY <1>1, <1>2, <3>1, <3>4
      <4>2. ~ Begins(t)
        BY <1>1 DEF Begins
      <4>3. (\A u \in Threads : Begins(u)' => loc'[u].ibook # Ibook'[b])
            <=> (\A u \in Threads : Begins(u) => loc[u].ibook # Ibook[b])
        BY <1>1, <1>4, <3>1, <3>4, <4>2
      <4> QED
        BY <3>2, <4>1, <4>3 DEF Counted
    <3> QED
      BY <3>3, <3>4
  <2>2. {b \in Baskets : Counted(b)}' = {b \in Baskets : Counted(b)}
    BY <2>1
  <2> QED
    BY <1>1, <2>2 DEF BasketsInv
<1> QED
  BY <1>6, <1>7, <1>8, <1>9, <1>10, <1>11, <1>12, <1>13, <1>14 DEF CoreInv

------------------------------------------------------------------------------
(* StoreElement                                                             *)

LEMMA PoolFinite ==
  ASSUME IInv
  PROVE  IsFiniteSet(pool) /\ Cardinality(pool) \in Nat
<1>1. PICK c \in Int : c = fIbook - 1
  BY DEF IInv, TypeInv
<1>2. IsFiniteSet(0 .. c)
  <2>1. 0 \in Int /\ c \in Int
    OBVIOUS
  <2> QED
    BY <2>1, FS_Interval
<1>3. pool \subseteq 0 .. c
  BY <1>1 DEF IInv, TypeInv, PoolInv
<1> QED
  BY <1>2, <1>3, SubsetSize

LEMMA DroppingFinite ==
  ASSUME IInv
  PROVE  IsFiniteSet(Dropping) /\ Cardinality(Dropping) \in Nat
<1>1. PICK c \in Int : c = fIbook - 1
  BY DEF IInv, TypeInv
<1>2. IsFiniteSet(0 .. c)
  <2>1. 0 \in Int /\ c \in Int
    OBVIOUS
  <2> QED
    BY <2>1, FS_Interval
<1>3. Dropping \subseteq 0 .. c
  BY <1>1 DEF Dropping
<1> QED
  BY <1>2, <1>3, SubsetSize

LEMMA LatesFinite ==
  ASSUME IInv
  PROVE  IsFiniteSet(Lates) /\ Cardinality(Lates) \in Nat
<1> DEFINE f == [t \in Lates |-> loc[t].ibook]
<1>1. PICK c \in Int : c = fIbook - 1
  BY DEF IInv, TypeInv
<1>2. IsFiniteSet(0 .. c)
  <2>1. 0 \in Int /\ c \in Int
    OBVIOUS
  <2> QED
    BY <2>1, FS_Interval
<1>3. ASSUME NEW t \in Lates
      PROVE  t \in Threads /\ Adds(t) /\ loc[t].ibook \in Nat /\ loc[t].ibook < fIbook
  <2>1. t \in Threads /\ Adds(t)
    BY DEF Lates, Late, Adds
  <2> QED
    BY <2>1, LocTypes DEF IInv, AdderInv
<1>4. f \in Injection(Lates, 0 .. c)
  <2>1. f \in [Lates -> 0 .. c]
    <3>1. \A t \in Lates : loc[t].ibook \in 0 .. c
      BY <1>1, <1>3 DEF IInv, TypeInv
    <3> QED
      BY <3>1
  <2>2. ASSUME NEW t \in Lates, NEW u \in Lates, f[t] = f[u] PROVE t = u
    BY <1>3, <2>2 DEF IInv, AdderInv
  <2> QED
    BY <2>1, <2>2 DEF Injection, IsInjective
<1>5. IsFiniteSet(Lates)
  <2> HIDE DEF f
  <2> QED
    BY <1>2, <1>4, FS_Injection
<1> QED
  BY <1>5, FS_CardinalityType

LEMMA StoreElementStep ==
  ASSUME IInv, NEW t \in Threads, StoreElement(t), TypeInv'
  PROVE  CoreInv' /\ FlushInv' /\ StoredInv' /\ BasketsInv'
<1> USE DEF IInv
<1> DEFINE x == loc[t].ibook
<1>1. /\ pc[t] = "a_copy" /\ pc'[t] = "a_fill" /\ Others(t) /\ loc' = loc
      /\ fBuffer' = [fBuffer EXCEPT ![Cell(x)] = x] /\ pool' = pool \union {x}
      /\ UNCHANGED <<fIbook, fNstored, fNbaskets, fHandlerLock, Ibook, Nfilled>>
  BY GotoMoves DEF StoreElement, Others, totals, locks, counters
<1>2. /\ x \in Nat /\ x < fIbook /\ fIbook \in Nat /\ My(t) \in Baskets /\ My(t) = Basket(x)
      /\ First(x) = Ibook[Basket(x)] /\ x \notin pool /\ ~ loc[t].flush
      /\ Books(t) /\ Adds(t) /\ Unfilled(t) /\ ~ Owner(t) /\ ~ Leaves(t) /\ ~ Late(t)
      /\ ~ Drops(t) /\ ~ Releases(t) /\ ~ Begins(t) /\ ~ Looks(t)
  <2>1. /\ Books(t) /\ Adds(t) /\ Unfilled(t) /\ ~ Owner(t) /\ ~ Leaves(t) /\ ~ Late(t)
        /\ ~ Drops(t) /\ ~ Releases(t) /\ ~ Begins(t) /\ ~ Looks(t)
    BY <1>1 DEF Books, Adds, Unfilled, Owner, HandsOut, Leaves, Late, Drops, Releases, Begins, Looks
  <2>2. First(x) = Ibook[My(t)]
    BY <1>1, <2>1 DEF AdderInv
  <2> QED
    BY <1>1, <2>1, <2>2, LocTypes DEF AdderInv, PoolInv, TypeInv, My
<1>3. /\ ~ Books(t)' /\ Adds(t)' /\ Unfilled(t)' /\ ~ Owner(t)' /\ ~ Leaves(t)' /\ Late(t)'
      /\ ~ Drops(t)' /\ ~ Releases(t)' /\ ~ Begins(t)' /\ ~ Looks(t)' /\ ~ HandsOut(t)'
      /\ My(t)' = My(t)
  BY <1>1 DEF Books, Adds, Unfilled, Owner, HandsOut, Leaves, Late, Drops, Releases, Begins, Looks, My
<1>4. ASSUME NEW u \in Threads, u # t
      PROVE  /\ pc'[u] = pc[u] /\ loc'[u] = loc[u]
             /\ (Books(u)' <=> Books(u)) /\ (Adds(u)' <=> Adds(u)) /\ (Unfilled(u)' <=> Unfilled(u))
             /\ (Late(u)' <=> Late(u)) /\ (Looks(u)' <=> Looks(u)) /\ (Owner(u)' <=> Owner(u))
             /\ (HandsOut(u)' <=> HandsOut(u)) /\ (Before(u)' <=> Before(u))
             /\ (Leaves(u)' <=> Leaves(u)) /\ (Drops(u)' <=> Drops(u))
             /\ (Begins(u)' <=> Begins(u)) /\ (Releases(u)' <=> Releases(u))
             /\ My(u)' = My(u) /\ Nelem(u)' = Nelem(u) /\ Nout(u)' = Nout(u) /\ Taken(u)' = Taken(u)
  BY <1>1, <1>4, OthersKeep
<1>5. \A u \in Threads : /\ My(u)' = My(u) /\ (Owner(u)' <=> Owner(u)) /\ (Leaves(u)' <=> Leaves(u))
                         /\ (Unfilled(u)' <=> Unfilled(u)) /\ (Adds(u)' <=> Adds(u))
  BY <1>2, <1>3, <1>4
<1> HIDE DEF x
<1>6. AlignInv'
  BY <1>1 DEF AlignInv
<1>7. AdderInv'
  <2>1. \A u \in Threads : Adds(u)' => loc'[u].ibook < fIbook' /\ ~ loc'[u].flush
    BY <1>1, <1>5 DEF AdderInv
  <2>2. \A u \in Threads : pc'[u] = "a_wait" => First(loc'[u].ibook) >= Ibook'[My(u)']
    BY <1>1, <1>4, <1>5 DEF AdderInv
  <2>3. \A u \in Threads : Unfilled(u)' /\ pc'[u] # "a_wait" => First(loc'[u].ibook) = Ibook'[My(u)']
    BY <1>1, <1>4, <1>5 DEF AdderInv
  <2>4. \A u \in Threads : pc'[u] = "a_first" => Place(loc'[u].ibook) = 0
    BY <1>1, <1>4 DEF AdderInv
  <2>5. \A u, v \in Threads : Adds(u)' /\ Adds(v)' /\ loc'[u].ibook = loc'[v].ibook => u = v
    BY <1>1, <1>5 DEF AdderInv
  <2> QED
    BY <2>1, <2>2, <2>3, <2>4, <2>5 DEF AdderInv
<1>8. PoolInv'
  \* Nothing that is in the pool is in the same cell of the buffer.
  <2>1. ASSUME NEW i \in pool PROVE fBuffer'[Cell(i)] = i
    <3>1. /\ i \in Nat /\ i # x /\ First(i) = Ibook[Basket(i)] /\ fBuffer[Cell(i)] = i
          /\ First(i) \in Nat /\ First(x) \in Nat
      BY <1>2, Numbers DEF PoolInv
    <3>2. Cell(i) # Cell(x)
      <4>1. CASE i < x
        BY <1>2, <3>1, <4>1, CellLap
      <4>2. CASE x < i
        BY <1>2, <3>1, <4>2, CellLap
      <4> QED
        BY <1>2, <3>1, <4>1, <4>2
    <3>3. Cell(i) \in Cells /\ Cell(x) \in Cells
      BY <1>2, <3>1, CellRange
    <3> QED
      BY <1>1, <3>1, <3>2, <3>3 DEF TypeInv
  <2>2. fBuffer'[Cell(x)] = x
    BY <1>1, <1>2, CellRange DEF TypeInv
  <2>3. \A u \in Threads : Books(u)' => loc'[u].ibook \notin pool'
    <3>1. ASSUME NEW u \in Threads, Books(u)' PROVE loc[u].ibook # x /\ loc[u].ibook \notin pool
      <4>1. u # t /\ Books(u) /\ Adds(u)
        BY <1>3, <1>4, <3>1, UnfilledAdds
      <4> QED
        BY <1>2, <4>1 DEF AdderInv, PoolInv, x
    <3> QED
      BY <1>1, <3>1
  <2>4. \A u \in Threads : pc'[u] = "a_fill" => loc'[u].ibook \in pool'
    BY <1>1, <1>4 DEF PoolInv, x
  <2> QED
    BY <1>1, <1>2, <2>1, <2>2, <2>3, <2>4 DEF PoolInv
<1>9. HeldInv'
  <2> SUFFICES ASSUME NEW i \in 0 .. fIbook - 1
               PROVE  /\ First(i) > Ibook[Basket(i)] =>
                           \E u \in Threads : pc'[u] = "a_wait" /\ loc'[u].ibook = i
                      /\ First(i) = Ibook[Basket(i)] =>
                           \/ i \in pool'
                           \/ \E u \in Threads : Books(u)' /\ loc'[u].ibook = i
                           \/ \E u \in Threads : Owner(u)' /\ My(u)' = Basket(i)
    BY <1>1 DEF HeldInv
  <2>1. ASSUME NEW u \in Threads, pc[u] = "a_wait" PROVE pc'[u] = "a_wait"
    BY <1>1, <1>4, <2>1
  <2>2. ASSUME NEW u \in Threads, Books(u), loc[u].ibook = i
        PROVE  i \in pool' \/ (Books(u)' /\ loc'[u].ibook = i)
    BY <1>1, <1>4, <2>2 DEF x
  <2>3. ASSUME NEW u \in Threads, Owner(u), My(u) = Basket(i)
        PROVE  Owner(u)' /\ My(u)' = Basket(i)
    BY <1>5, <2>3
  <2> QED
    BY <1>1, <2>1, <2>2, <2>3 DEF HeldInv
<1>10. FilledInv'
  <2>1. \A b \in Baskets : Lap(b)' = Lap(b)
    BY <1>1 DEF Lap
  <2>2. ASSUME NEW b \in Baskets PROVE FilledSet(b)' = FilledSet(b)
    <3>1. ASSUME NEW i \in Lap(b)
          PROVE  (i \in pool' /\ \A u \in Threads : pc'[u] = "a_fill" => loc'[u].ibook # i)
                 <=> (i \in pool /\ \A u \in Threads : pc[u] = "a_fill" => loc[u].ibook # i)
      <4>1. CASE i = x
        BY <1>1, <1>2, <4>1 DEF x
      <4>2. CASE i # x
        BY <1>1, <1>4, <4>2 DEF x
      <4> QED
        BY <4>1, <4>2
    <3> QED
      BY <2>1, <3>1 DEF FilledSet
  <2>3. ASSUME NEW b \in Baskets, \A u \in Threads : Leaves(u)' => My(u)' # b
        PROVE  Nfilled[b] = Cardinality(FilledSet(b))
    <3>1. \A u \in Threads : Leaves(u) => My(u) # b
      BY <1>5, <2>3
    <3> QED
      BY <3>1 DEF FilledInv
  <2>4. ASSUME NEW b \in Baskets, Nfilled[b] = fBsize
        PROVE  \E u \in Threads : Owner(u)' /\ My(u)' = b
    <3>1. PICK u \in Threads : Owner(u) /\ My(u) = b
      BY <2>4 DEF FilledInv
    <3> QED
      BY <1>5, <3>1
  <2> QED
    BY <1>1, <2>2, <2>3, <2>4 DEF FilledInv
<1>11. OwnerInv'
  <2> SUFFICES ASSUME NEW u \in Threads, Owner(u)'
               PROVE  /\ First(loc'[u].ibook) = Ibook'[My(u)']
                      /\ First(loc'[u].ibook) + fBsize <= fIbook'
                      /\ Nout(u)' \in 1 .. fBsize
                      /\ HandsOut(u)' => loc'[u].n = Nout(u)'
                      /\ \A v \in Threads : Unfilled(v)' => First(loc'[v].ibook) # First(loc'[u].ibook)
                      /\ \A v \in Threads : Owner(v)' /\ v # u => My(v)' # My(u)'
                      /\ Before(u)' => \A i \in Lap(My(u))' : i \in pool' <=> i \in Taken(u)'
                      /\ ~ Before(u)' => \A i \in Lap(My(u))' : i \notin pool'
    BY DEF OwnerInv
  <2>1. /\ u # t /\ Owner(u) /\ loc'[u] = loc[u] /\ My(u)' = My(u) /\ Nout(u)' = Nout(u)
        /\ Taken(u)' = Taken(u) /\ (Before(u)' <=> Before(u)) /\ (HandsOut(u)' <=> HandsOut(u))
    BY <1>3, <1>4
  <2>2. Lap(My(u))' = Lap(My(u))
    BY <1>1, <2>1 DEF Lap
  <2>3. /\ First(loc[u].ibook) = Ibook[My(u)] /\ First(loc[u].ibook) + fBsize <= fIbook
        /\ Nout(u) \in 1 .. fBsize /\ (HandsOut(u) => loc[u].n = Nout(u))
        /\ (Before(u) => \A i \in Lap(My(u)) : i \in pool <=> i \in Taken(u))
        /\ (~ Before(u) => \A i \in Lap(My(u)) : i \notin pool)
        /\ My(u) \in Baskets
    BY <2>1, LocTypes DEF OwnerInv
  <2>4. \A v \in Threads : Unfilled(v)' => First(loc'[v].ibook) # First(loc'[u].ibook)
    BY <1>1, <1>5, <2>1 DEF OwnerInv
  <2>5. \A v \in Threads : Owner(v)' /\ v # u => My(v)' # My(u)'
    BY <1>5, <2>1 DEF OwnerInv
  <2>6. x \notin Lap(My(u))
    <3>1. First(x) # First(loc[u].ibook)
      BY <1>2, <2>1 DEF OwnerInv, x
    <3> QED
      BY <1>2, <2>3, <3>1, InLap
  <2>7. \A i \in Lap(My(u)) : i \in pool' <=> i \in pool
    BY <1>1, <2>6
  <2> QED
    BY <1>1, <2>1, <2>2, <2>3, <2>4, <2>5, <2>7
<1>12. FlushInv'
  <2>1. FlushStep(t)
    <3>1. \A b \in Baskets : Nfilled'[b] >= Nfilled[b]
      BY <1>1 DEF TypeInv
    <3> QED
      BY <1>1, <1>2, <1>3, <3>1 DEF FlushStep, FlushLabels
  <2> QED
    BY <2>1, LocalFlush
<1>13. StoredInv'
  <2>1. Lates' = Lates \union {t} /\ t \notin Lates
    BY <1>2, <1>3, <1>4 DEF Lates
  <2>2. Cardinality(Lates') = Cardinality(Lates) + 1 /\ Cardinality(pool') = Cardinality(pool) + 1
    BY <1>1, <1>2, <2>1, LatesFinite, PoolFinite, FS_AddElement
  <2>3. \A u \in Threads : (Drops(u)' <=> Drops(u)) /\ (Drops(u) => Taken(u)' = Taken(u))
    BY <1>2, <1>3, <1>4
  <2>4. Dropping' = Dropping
    BY <1>1, <2>3 DEF Dropping
  <2>5. PICK a \in Nat, c \in Nat, d \in Nat :
          a = Cardinality(Lates) /\ c = Cardinality(pool) /\ d = Cardinality(Dropping)
    BY LatesFinite, PoolFinite, DroppingFinite
  <2>6. fNstored + a = c + d /\ fNstored \in Int
    BY <2>5 DEF StoredInv, TypeInv
  <2>7. fNstored + (a + 1) = (c + 1) + d
    BY <2>6
  <2> QED
    BY <1>1, <2>2, <2>4, <2>5, <2>7 DEF StoredInv
<1>14. BasketsInv'
  <2>1. \A u \in Threads : (Begins(u)' <=> Begins(u)) /\ (Releases(u)' <=> Releases(u))
    BY <1>2, <1>3, <1>4
  <2>2. ASSUME NEW b \in Baskets PROVE Counted(b)' <=> Counted(b)
    BY <1>1, <1>5, <2>1 DEF Counted
  <2>3. {b \in Baskets : Counted(b)}' = {b \in Baskets : Counted(b)}
    BY <2>2
  <2> QED
    BY <1>1, <2>3 DEF BasketsInv
<1> QED
  BY <1>6, <1>7, <1>8, <1>9, <1>10, <1>11, <1>12, <1>13, <1>14 DEF CoreInv

------------------------------------------------------------------------------
(* FillSlot                                                                 *)

LEMMA FillSlotStep ==
  ASSUME IInv, NEW t \in Threads, FillSlot(t), TypeInv'
  PROVE  CoreInv' /\ FlushInv' /\ StoredInv' /\ BasketsInv'
<1> USE DEF IInv
<1>0. PICK x \in Nat, b0 \in Baskets : x = loc[t].ibook /\ b0 = My(t)
  BY LocTypes
<1>1. /\ pc[t] = "a_fill" /\ pc'[t] = "a_stored" /\ Others(t)
      /\ loc'[t].ibook = x /\ loc'[t].flush = loc[t].flush /\ loc'[t].n = Nfilled[b0] + 1
      /\ Nfilled' = [Nfilled EXCEPT ![b0] = @ + 1]
      /\ UNCHANGED <<fIbook, fBuffer, pool, fNstored, fNbaskets, fHandlerLock, Ibook>>
  BY <1>0, GotoMoves, KeepMoves DEF FillSlot, Others, buffer, totals, locks, history
<1>2. /\ x \in Nat /\ x < fIbook /\ fIbook \in Nat /\ b0 \in Baskets /\ b0 = Basket(x)
      /\ First(x) = Ibook[b0] /\ x \in pool /\ ~ loc[t].flush
      /\ ~ Books(t) /\ Adds(t) /\ Unfilled(t) /\ ~ Owner(t) /\ ~ Leaves(t) /\ Late(t)
      /\ ~ Drops(t) /\ ~ Releases(t) /\ ~ Begins(t) /\ ~ Looks(t)
  <2>1. /\ ~ Books(t) /\ Adds(t) /\ Unfilled(t) /\ ~ Owner(t) /\ ~ Leaves(t) /\ Late(t)
        /\ ~ Drops(t) /\ ~ Releases(t) /\ ~ Begins(t) /\ ~ Looks(t)
    BY <1>1 DEF Books, Adds, Unfilled, Owner, HandsOut, Leaves, Late, Drops, Releases, Begins, Looks
  <2>2. First(x) = Ibook[My(t)]
    BY <1>0, <1>1, <2>1 DEF AdderInv
  <2> QED
    BY <1>0, <1>1, <2>1, <2>2, LocTypes DEF AdderInv, PoolInv, TypeInv, My
<1>3. /\ ~ Books(t)' /\ Adds(t)' /\ ~ Unfilled(t)' /\ ~ Leaves(t)' /\ Late(t)'
      /\ ~ Drops(t)' /\ ~ Releases(t)' /\ ~ Begins(t)' /\ ~ Looks(t)' /\ ~ HandsOut(t)'
      /\ My(t)' = My(t) /\ Before(t)' /\ Nout(t)' = fBsize
      /\ (Owner(t)' <=> Nfilled[b0] + 1 = fBsize)
  BY <1>0, <1>1, <1>2 DEF Books, Adds, Unfilled, Owner, HandsOut, Leaves, Late, Drops, Releases, Begins, Looks,
                    My, Before, Nout
<1>4. ASSUME NEW u \in Threads, u # t
      PROVE  /\ pc'[u] = pc[u] /\ loc'[u] = loc[u]
             /\ (Books(u)' <=> Books(u)) /\ (Adds(u)' <=> Adds(u)) /\ (Unfilled(u)' <=> Unfilled(u))
             /\ (Late(u)' <=> Late(u)) /\ (Looks(u)' <=> Looks(u)) /\ (Owner(u)' <=> Owner(u))
             /\ (HandsOut(u)' <=> HandsOut(u)) /\ (Before(u)' <=> Before(u))
             /\ (Leaves(u)' <=> Leaves(u)) /\ (Drops(u)' <=> Drops(u))
             /\ (Begins(u)' <=> Begins(u)) /\ (Releases(u)' <=> Releases(u))
             /\ My(u)' = My(u) /\ Nelem(u)' = Nelem(u) /\ Nout(u)' = Nout(u) /\ Taken(u)' = Taken(u)
  BY <1>1, <1>4, OthersKeep
<1>5. \A u \in Threads : /\ My(u)' = My(u) /\ (Leaves(u)' <=> Leaves(u)) /\ (Books(u)' <=> Books(u))
                         /\ (Adds(u)' <=> Adds(u)) /\ (Unfilled(u)' => Unfilled(u))
                         /\ (Owner(u) => u # t /\ Owner(u)')
                         /\ loc'[u].ibook = loc[u].ibook /\ loc'[u].flush = loc[u].flush
  BY <1>0, <1>1, <1>2, <1>3, <1>4
<1>6. /\ x \in Lap(b0) /\ x \notin FilledSet(b0)
      /\ \A u \in Threads : Owner(u) => My(u) # b0
      /\ Nfilled[b0] = Cardinality(FilledSet(b0)) /\ Nfilled[b0] + 1 \in 1 .. fBsize
  BY <1>0, <1>1, FillRoom
<1>7. \A b \in Baskets : Lap(b)' = Lap(b)
  BY <1>1 DEF Lap
<1>8. Nfilled'[b0] = Nfilled[b0] + 1 /\ \A b \in Baskets \ {b0} : Nfilled'[b] = Nfilled[b]
  BY <1>1, <1>2 DEF TypeInv
<1>9. FilledSet(b0)' = FilledSet(b0) \union {x} /\ \A b \in Baskets \ {b0} : FilledSet(b)' = FilledSet(b)
  <2>1. ASSUME NEW b \in Baskets, NEW i \in Lap(b), i # x
        PROVE  i \in FilledSet(b)' <=> i \in FilledSet(b)
    BY <1>0, <1>1, <1>2, <1>4, <1>7, <2>1 DEF FilledSet
  <2>2. x \in FilledSet(b0)'
    <3>1. ASSUME NEW u \in Threads, pc'[u] = "a_fill" PROVE loc'[u].ibook # x
      <4>1. u # t /\ Adds(u)
        BY <1>1, <1>4, <3>1 DEF Adds
      <4> QED
        BY <1>0, <1>2, <1>5, <4>1 DEF AdderInv
    <3> QED
      BY <1>1, <1>2, <1>6, <1>7, <3>1 DEF FilledSet
  <2>3. \A b \in Baskets : FilledSet(b)' \subseteq Lap(b) /\ FilledSet(b) \subseteq Lap(b)
    BY <1>7 DEF FilledSet
  <2>4. \A b \in Baskets \ {b0} : x \notin Lap(b)
    BY <1>2, InLap
  <2> QED
    BY <1>2, <2>1, <2>2, <2>3, <2>4
<1>10. Cardinality(FilledSet(b0)') = Nfilled'[b0]
  <2>1. IsFiniteSet(FilledSet(b0))
    BY <1>2, LapFinite
  <2>2. Cardinality(FilledSet(b0) \union {x}) = Cardinality(FilledSet(b0)) + 1
    BY <1>6, <2>1, FS_AddElement
  <2> QED
    BY <1>6, <1>8, <1>9, <2>2
\* The last element of the basket: all of the lap is stored.
<1>11. ASSUME Nfilled[b0] + 1 = fBsize
       PROVE  /\ \A i \in Lap(b0) : i \in pool
              /\ \A u \in Threads : Unfilled(u)' => First(loc[u].ibook) # Ibook[b0]
              /\ Ibook[b0] + fBsize <= fIbook
  <2>1. /\ FilledSet(b0)' \subseteq Lap(b0) /\ IsFiniteSet(Lap(b0)) /\ Cardinality(Lap(b0)) = fBsize
        /\ Cardinality(FilledSet(b0)') = fBsize
    BY <1>2, <1>6, <1>7, <1>8, <1>9, <1>10, <1>11, LapFinite
  <2>2. FilledSet(b0)' = Lap(b0)
    BY <2>1, SubsetSize
  <2>3. \A i \in Lap(b0) : i \in pool /\ \A u \in Threads : pc'[u] = "a_fill" => loc'[u].ibook # i
    BY <1>1, <1>7, <2>2 DEF FilledSet
  <2>4. ASSUME NEW u \in Threads, Unfilled(u)', First(loc[u].ibook) = Ibook[b0] PROVE FALSE
    <3>1. u # t /\ Unfilled(u) /\ loc[u].ibook \in Nat
      BY <1>3, <1>5, <2>4, LocTypes
    <3>2. loc[u].ibook \in Lap(b0)
      <4>1. Ibook[b0] \in Nat /\ Place(Ibook[b0]) = 0
        BY <1>2 DEF TypeInv, Counts, AlignInv
      <4>2. First(loc[u].ibook) <= loc[u].ibook /\ loc[u].ibook < First(loc[u].ibook) + fBsize
        BY <3>1, Numbers
      <4> QED
        BY <2>4, <3>1, <4>1, <4>2, Sizes DEF Lap
    <3>3. CASE Books(u)
      BY <2>3, <3>2, <3>3 DEF PoolInv
    <3>4. CASE pc[u] = "a_fill"
      BY <1>4, <1>5, <2>3, <3>1, <3>2, <3>4
    <3> QED
      BY <3>1, <3>3, <3>4 DEF Unfilled
  <2>5. Ibook[b0] + fBsize <= fIbook
    <3>1. PICK a \in Nat : a = Ibook[b0]
      BY <1>2 DEF TypeInv, Counts
    <3>2. a + fBsize - 1 \in Lap(b0) /\ fBsize \in Nat
      BY <3>1, Sizes DEF Lap
    <3>3. a + fBsize - 1 < fIbook
      BY <2>3, <3>2 DEF PoolInv
    <3> QED
      BY <1>2, <3>1, <3>2, <3>3
  <2> QED
    BY <2>3, <2>4, <2>5
<1>12. AlignInv'
  BY <1>1 DEF AlignInv
<1>13. AdderInv'
  <2>1. \A u \in Threads : Adds(u)' => loc'[u].ibook < fIbook' /\ ~ loc'[u].flush
    BY <1>1, <1>5 DEF AdderInv
  <2>2. \A u \in Threads : pc'[u] = "a_wait" => First(loc'[u].ibook) >= Ibook'[My(u)']
    BY <1>1, <1>4, <1>5 DEF AdderInv
  <2>3. \A u \in Threads : Unfilled(u)' /\ pc'[u] # "a_wait" => First(loc'[u].ibook) = Ibook'[My(u)']
    BY <1>1, <1>3, <1>4, <1>5 DEF AdderInv
  <2>4. \A u \in Threads : pc'[u] = "a_first" => Place(loc'[u].ibook) = 0
    BY <1>1, <1>4 DEF AdderInv
  <2>5. \A u, v \in Threads : Adds(u)' /\ Adds(v)' /\ loc'[u].ibook = loc'[v].ibook => u = v
    BY <1>1, <1>5 DEF AdderInv
  <2> QED
    BY <2>1, <2>2, <2>3, <2>4, <2>5 DEF AdderInv
<1>14. PoolInv'
  <2>1. \A u \in Threads : Books(u)' => loc'[u].ibook \notin pool'
    BY <1>1, <1>5 DEF PoolInv
  <2>2. \A u \in Threads : pc'[u] = "a_fill" => loc'[u].ibook \in pool'
    BY <1>1, <1>4 DEF PoolInv
  <2> QED
    BY <1>1, <2>1, <2>2 DEF PoolInv
<1>15. HeldInv'
  <2> SUFFICES ASSUME NEW i \in 0 .. fIbook - 1
               PROVE  /\ First(i) > Ibook[Basket(i)] =>
                           \E u \in Threads : pc'[u] = "a_wait" /\ loc'[u].ibook = i
                      /\ First(i) = Ibook[Basket(i)] =>
                           \/ i \in pool
                           \/ \E u \in Threads : Books(u)' /\ loc'[u].ibook = i
                           \/ \E u \in Threads : Owner(u)' /\ My(u)' = Basket(i)
    BY <1>1 DEF HeldInv
  <2>1. ASSUME NEW u \in Threads, pc[u] = "a_wait" PROVE pc'[u] = "a_wait"
    BY <1>1, <1>4, <2>1
  <2> QED
    BY <1>1, <1>5, <2>1 DEF HeldInv
<1>16. FilledInv'
  <2>1. ASSUME NEW b \in Baskets, \A u \in Threads : Leaves(u)' => My(u)' # b
        PROVE  Nfilled'[b] = Cardinality(FilledSet(b)')
    <3>1. CASE b = b0
      BY <1>10, <3>1
    <3>2. CASE b # b0
      <4>1. \A u \in Threads : Leaves(u) => My(u) # b
        BY <1>5, <2>1
      <4> QED
        BY <1>8, <1>9, <3>2, <4>1 DEF FilledInv
    <3> QED
      BY <3>1, <3>2
  <2>2. ASSUME NEW b \in Baskets, Nfilled'[b] = fBsize
        PROVE  \E u \in Threads : Owner(u)' /\ My(u)' = b
    <3>1. CASE b = b0
      BY <1>0, <1>3, <1>8, <2>2, <3>1
    <3>2. CASE b # b0
      <4>1. PICK u \in Threads : Owner(u) /\ My(u) = b
        BY <1>8, <2>2, <3>2 DEF FilledInv
      <4> QED
        BY <1>5, <4>1
    <3> QED
      BY <3>1, <3>2
  <2> QED
    BY <2>1, <2>2 DEF FilledInv
<1>17. OwnerInv'
  <2> SUFFICES ASSUME NEW u \in Threads, Owner(u)'
               PROVE  /\ First(loc'[u].ibook) = Ibook'[My(u)']
                      /\ First(loc'[u].ibook) + fBsize <= fIbook'
                      /\ Nout(u)' \in 1 .. fBsize
                      /\ HandsOut(u)' => loc'[u].n = Nout(u)'
                      /\ \A v \in Threads : Unfilled(v)' => First(loc'[v].ibook) # First(loc'[u].ibook)
                      /\ \A v \in Threads : Owner(v)' /\ v # u => My(v)' # My(u)'
                      /\ Before(u)' => \A i \in Lap(My(u))' : i \in pool' <=> i \in Taken(u)'
                      /\ ~ Before(u)' => \A i \in Lap(My(u))' : i \notin pool'
    BY DEF OwnerInv
  <2>1. CASE u = t
    <3>1. /\ Nfilled[b0] + 1 = fBsize /\ My(t) = b0 /\ First(x) = Ibook[b0]
          /\ loc'[t].ibook = x /\ My(t)' = b0 /\ Nout(t)' = fBsize /\ Before(t)' /\ ~ HandsOut(t)'
      BY <1>0, <1>1, <1>2, <1>3, <2>1
    <3>2. Lap(My(t))' = Lap(b0)
      BY <1>1, <3>1 DEF Lap
    <3>3. Taken(t)' = Lap(b0)
      BY <3>1 DEF Taken, Lap
    <3>4. fBsize \in 1 .. fBsize
      BY Sizes
    <3>5. \A v \in Threads : Owner(v)' /\ v # t => My(v)' # My(t)'
      BY <1>4, <1>6, <3>1
    <3>6. \A v \in Threads : Unfilled(v)' => First(loc'[v].ibook) # First(loc'[t].ibook)
      BY <1>5, <1>11, <3>1
    <3> QED
      BY <1>1, <1>11, <2>1, <3>1, <3>2, <3>3, <3>4, <3>5, <3>6
  <2>2. CASE u # t
    <3>1. /\ Owner(u) /\ loc'[u] = loc[u] /\ My(u)' = My(u) /\ Nout(u)' = Nout(u)
          /\ Taken(u)' = Taken(u) /\ (Before(u)' <=> Before(u)) /\ (HandsOut(u)' <=> HandsOut(u))
      BY <1>4, <2>2
    <3>2. Lap(My(u))' = Lap(My(u))
      BY <1>1, <3>1 DEF Lap
    <3>3. /\ First(loc[u].ibook) = Ibook[My(u)] /\ First(loc[u].ibook) + fBsize <= fIbook
          /\ Nout(u) \in 1 .. fBsize /\ (HandsOut(u) => loc[u].n = Nout(u))
          /\ (Before(u) => \A i \in Lap(My(u)) : i \in pool <=> i \in Taken(u))
          /\ (~ Before(u) => \A i \in Lap(My(u)) : i \notin pool)
      BY <3>1 DEF OwnerInv
    <3>4. \A v \in Threads : Unfilled(v)' => First(loc'[v].ibook) # First(loc'[u].ibook)
      BY <1>5, <3>1 DEF OwnerInv
    <3>5. ASSUME NEW v \in Threads, Owner(v)', v # u PROVE My(v)' # My(u)'
      <4>1. CASE v = t
        BY <1>0, <1>3, <1>6, <3>1, <4>1
      <4>2. CASE v # t
        BY <1>4, <3>1, <3>5, <4>2 DEF OwnerInv
      <4> QED
        BY <4>1, <4>2
    <3> QED
      BY <1>1, <3>1, <3>2, <3>3, <3>4, <3>5
  <2> QED
    BY <2>1, <2>2
<1>18. FlushInv'
  <2>1. FlushStep(t)
    <3>1. \A b \in Baskets : Nfilled'[b] >= Nfilled[b]
      <4>1. \A b \in Baskets : Nfilled[b] \in Int
        BY Sizes DEF TypeInv
      <4> QED
        BY <1>8, <4>1
    <3> QED
      BY <1>1, <1>2, <1>3, <3>1 DEF FlushStep, FlushLabels
  <2> QED
    BY <2>1, LocalFlush
<1>19. StoredInv'
  <2>1. Lates' = Lates
    BY <1>2, <1>3, <1>4 DEF Lates
  <2>2. \A u \in Threads : (Drops(u)' <=> Drops(u)) /\ (Drops(u) => Taken(u)' = Taken(u))
    BY <1>2, <1>3, <1>4
  <2>3. Dropping' = Dropping
    BY <1>1, <2>2 DEF Dropping
  <2> QED
    BY <1>1, <2>1, <2>3 DEF StoredInv
<1>20. BasketsInv'
  <2>1. \A u \in Threads : (Begins(u)' <=> Begins(u)) /\ (Releases(u)' <=> Releases(u))
    BY <1>2, <1>3, <1>4
  <2>2. ASSUME NEW b \in Baskets PROVE Counted(b)' <=> Counted(b)
    BY <1>1, <1>5, <2>1 DEF Counted
  <2>3. {b \in Baskets : Counted(b)}' = {b \in Baskets : Counted(b)}
    BY <2>2
  <2> QED
    BY <1>1, <2>3 DEF BasketsInv
<1> QED
  BY <1>12, <1>13, <1>14, <1>15, <1>16, <1>17, <1>18, <1>19, <1>20 DEF CoreInv

------------------------------------------------------------------------------
(* The steps that touch no basket                                           *)

\* A local step that counts nothing either.
PlainStep(t) ==
  /\ LocalStep(t) /\ FlushStep(t) /\ UNCHANGED totals
  /\ Late(t)' <=> Late(t)
  /\ Drops(t)' <=> Drops(t)
  /\ Begins(t)' => Begins(t)
  /\ Begins(t) /\ ~ Begins(t)' => Nelem(t) # 0
  /\ Releases(t)' <=> Releases(t)

LEMMA PlainStepDone ==
  ASSUME IInv, NEW t \in Threads, PlainStep(t), TypeInv'
  PROVE  CoreInv' /\ FlushInv' /\ StoredInv' /\ BasketsInv'
<1>1. /\ LocalStep(t) /\ FlushStep(t) /\ UNCHANGED <<fNstored, fNbaskets>>
      /\ (Late(t)' <=> Late(t)) /\ (Drops(t)' <=> Drops(t)) /\ (Begins(t)' => Begins(t))
      /\ (Begins(t) /\ ~ Begins(t)' => Nelem(t) # 0) /\ (Releases(t)' <=> Releases(t))
  BY DEF PlainStep, totals
<1>2. CoreInv'
  BY <1>1, LocalCore
<1>3. FlushInv'
  BY <1>1, LocalFlush
<1>4. StoredInv'
  BY <1>1, LocalStored
<1>5. BasketsInv'
  BY <1>1, LocalBaskets
<1> QED
  BY <1>2, <1>3, <1>4, <1>5

\* A thread that waits for its lap and sees the basket open is in the lap.
LEMMA OpenLap ==
  ASSUME IInv, NEW t \in Threads, Open(My(t), loc[t].ibook)
  PROVE  First(loc[t].ibook) = Ibook[My(t)]
<1>1. /\ loc[t].ibook \in Nat /\ My(t) \in Baskets /\ Ibook[My(t)] \in Nat
      /\ Place(Ibook[My(t)]) = 0
  BY LocTypes DEF IInv, TypeInv, Counts, AlignInv
<1>2. PICK i \in Nat, m \in Nat : i = loc[t].ibook /\ m = Ibook[My(t)]
  BY <1>1
<1>3. i \in m .. m + fBsize - 1
  BY <1>2, Sizes DEF Open
<1> QED
  BY <1>1, <1>2, <1>3, FirstOf

\* What a plain step leaves alone, and where it goes.
LEMMA PlainMoves ==
  ASSUME IInv, NEW t \in Threads,
         \/ AwaitOpen(t) \/ BookSlot(t) \/ AwaitRange(t)
         \/ CheckStored(t) \/ CheckNbaskets(t) \/ Lock(t) \/ LoadIbook(t) \/ LoadNbooktot(t)
         \/ CheckNbooked(t) \/ CheckNfilled(t) \/ CheckOpen(t)
         \/ PushIbook(t) /\ fIbook # loc[t].ibook
         \/ BookSlots(t) \/ Unlock(t) \/ ReleaseRange(t)
  PROVE  /\ Others(t)
         /\ UNCHANGED <<fIbook, fBuffer, pool, Ibook, Nfilled, totals, fHandlerLock>>
         /\ loc'[t].flush = loc[t].flush
         /\ ~ LoadIbook(t) => loc'[t].ibook = loc[t].ibook
         /\ ~ BookSlots(t) => loc'[t].n = loc[t].n
<1> USE GotoMoves, KeepMoves DEF IInv, Others, totals, locks, counters, buffer, history
<1>1. CASE AwaitOpen(t)
  BY <1>1 DEF AwaitOpen
<1>2. CASE BookSlot(t)
  BY <1>2 DEF BookSlot
<1>3. CASE AwaitRange(t)
  BY <1>3 DEF AwaitRange
<1>4. CASE CheckStored(t)
  BY <1>4 DEF CheckStored
<1>5. CASE CheckNbaskets(t)
  BY <1>5 DEF CheckNbaskets
<1>6. CASE Lock(t)
  BY <1>6 DEF Lock
<1>7. CASE LoadIbook(t)
  BY <1>7 DEF LoadIbook, BookSlots
<1>8. CASE LoadNbooktot(t)
  BY <1>8 DEF LoadNbooktot
<1>9. CASE CheckNbooked(t)
  BY <1>9 DEF CheckNbooked, FlushFails
<1>10. CASE CheckNfilled(t)
  BY <1>10 DEF CheckNfilled, FlushFails
<1>11. CASE CheckOpen(t)
  BY <1>11 DEF CheckOpen, FlushFails
<1>12. CASE PushIbook(t) /\ fIbook # loc[t].ibook
  BY <1>12 DEF PushIbook
<1>13. CASE BookSlots(t)
  BY <1>13 DEF BookSlots
<1>14. CASE Unlock(t)
  BY <1>14 DEF Unlock
<1>15. CASE ReleaseRange(t)
  BY <1>15 DEF ReleaseRange
<1> QED
  BY <1>1, <1>2, <1>3, <1>4, <1>5, <1>6, <1>7, <1>8, <1>9, <1>10, <1>11, <1>12, <1>13, <1>14, <1>15

LEMMA PlainActions ==
  ASSUME IInv, NEW t \in Threads, TypeInv',
         \/ AwaitOpen(t) \/ BookSlot(t) \/ AwaitRange(t)
         \/ CheckStored(t) \/ CheckNbaskets(t) \/ Lock(t) \/ LoadIbook(t) \/ LoadNbooktot(t)
         \/ CheckNbooked(t) \/ CheckNfilled(t) \/ CheckOpen(t)
         \/ PushIbook(t) /\ fIbook # loc[t].ibook
         \/ BookSlots(t) \/ Unlock(t) \/ ReleaseRange(t)
  PROVE  PlainStep(t)
<1>0. /\ Others(t)
      /\ UNCHANGED <<fIbook, fBuffer, pool, Ibook, Nfilled, totals, fHandlerLock>>
      /\ loc'[t].flush = loc[t].flush
      /\ ~ LoadIbook(t) => loc'[t].ibook = loc[t].ibook
      /\ ~ BookSlots(t) => loc'[t].n = loc[t].n
  BY PlainMoves
<1>1. /\ \A b \in Baskets : Nfilled'[b] >= Nfilled[b]
      /\ loc[t].ibook \in Nat /\ fIbook \in Nat /\ My(t) \in Baskets /\ Nelem(t) \in Nat
      /\ Nfilled[My(t)] \in Nat
  <2>1. \A b \in Baskets : Nfilled[b] \in Nat
    BY Sizes DEF IInv, TypeInv
  <2> QED
    BY <1>0, <2>1, LocTypes DEF IInv, TypeInv
<1>2. /\ pc[t] \in FlushLabels => loc[t].flush
      /\ loc[t].flush => pc[t] \in FlushLabels \/ HandsOut(t)
      /\ Looks(t) => loc[t].ibook <= fIbook
      /\ pc[t] \in {"f_filled", "f_open", "f_cas"} => Nelem(t) # 0
      /\ pc[t] \in {"f_open", "f_cas"} /\ fIbook = loc[t].ibook => Nfilled[My(t)] >= Nelem(t)
  BY DEF IInv, FlushInv
\* A step that goes on from p to q, its element and its basket the same.
<1>3. ASSUME NEW p, NEW q, pc[t] = p, pc'[t] = q, ~ LoadIbook(t), ~ BookSlots(t),
             \/ p = "a_wait" /\ q = "a_slot" /\ First(loc[t].ibook) = Ibook[My(t)]
             \/ p = "a_slot" /\ q = "a_first" /\ Nelem(t) = 0
             \/ p = "a_slot" /\ q = "a_range" /\ Nelem(t) # 0
             \/ p = "a_range" /\ q = "a_copy"
             \/ p \in FlushLabels \ {"f_slots"} /\ q \in {"l_stored", "l_unlock", "f_baskets", "f_lock", "f_unlock"}
             \/ p = "f_lock" /\ q = "f_ibook"
             \/ p = "f_tot" /\ q = "f_booked"
             \/ p = "f_booked" /\ q = "f_filled" /\ Nelem(t) # 0
             \/ p = "f_filled" /\ q = "f_open" /\ Nfilled[My(t)] >= Nelem(t)
             \/ p = "f_open" /\ q = "f_cas"
             \/ p = "r_book0" /\ q = "r_ibook"
      PROVE  PlainStep(t)
  <2>1. /\ loc'[t].ibook = loc[t].ibook /\ loc'[t].n = loc[t].n /\ My(t)' = My(t) /\ Nelem(t)' = Nelem(t)
    BY <1>0, <1>3 DEF My, Nelem
  <2>2. HandsOut(t) => loc[t].n = Nout(t)
    BY DEF IInv, OwnerInv, Owner
  <2>3. LocalStep(t)
    BY <1>0, <1>3, <2>1, <2>2 DEF LocalStep, Books, Adds, Owner, HandsOut, Leaves, Before, FlushLabels, Nelem
  <2>4. FlushStep(t)
    BY <1>0, <1>1, <1>2, <1>3, <2>1 DEF FlushStep, Looks, HandsOut, FlushLabels
  <2>5. /\ (Late(t)' <=> Late(t)) /\ (Drops(t)' <=> Drops(t)) /\ (Begins(t)' => Begins(t))
        /\ (Begins(t) /\ ~ Begins(t)' => Nelem(t) # 0) /\ (Releases(t)' <=> Releases(t))
    BY <1>3 DEF Late, Drops, Begins, Releases, FlushLabels
  <2> QED
    BY <1>0, <2>3, <2>4, <2>5 DEF PlainStep
<1>4. CASE AwaitOpen(t)
  <2>1. pc[t] = "a_wait" /\ pc'[t] = "a_slot" /\ First(loc[t].ibook) = Ibook[My(t)]
    BY <1>4, GotoMoves, OpenLap DEF AwaitOpen, IInv
  <2> QED
    BY <1>3, <2>1 DEF LoadIbook, BookSlots
<1>5. CASE BookSlot(t)
  <2>1. pc[t] = "a_slot" /\ pc'[t] = IF Nelem(t) = 0 THEN "a_first" ELSE "a_range"
    BY <1>5, GotoMoves DEF BookSlot, StartsBasket, Nelem, IInv
  <2> QED
    BY <1>3, <2>1 DEF LoadIbook, BookSlots
<1>6. CASE AwaitRange(t)
  <2>1. pc[t] = "a_range" /\ pc'[t] = "a_copy"
    BY <1>6, GotoMoves DEF AwaitRange, IInv
  <2> QED
    BY <1>3, <2>1 DEF LoadIbook, BookSlots
<1>7. CASE CheckStored(t) \/ CheckNbaskets(t) \/ Unlock(t)
  <2>1. /\ pc[t] \in {"l_stored", "f_baskets", "f_unlock"}
        /\ pc'[t] \in {"l_stored", "l_unlock", "f_baskets", "f_lock"}
    BY <1>7, GotoMoves DEF CheckStored, CheckNbaskets, Unlock, IInv
  <2> QED
    BY <1>3, <2>1 DEF LoadIbook, BookSlots, FlushLabels
<1>8. CASE Lock(t)
  <2>1. pc[t] = "f_lock" /\ pc'[t] = "f_ibook"
    BY <1>8, GotoMoves DEF Lock, IInv
  <2> QED
    BY <1>3, <2>1 DEF LoadIbook, BookSlots
<1>9. CASE LoadIbook(t)
  <2>1. pc[t] = "f_ibook" /\ pc'[t] = "f_tot" /\ loc'[t].ibook = fIbook /\ ~ BookSlots(t)
    BY <1>9, GotoMoves, KeepMoves DEF LoadIbook, IInv, BookSlots
  <2>2. LocalStep(t)
    BY <1>0, <2>1 DEF LocalStep, Books, Adds, Owner, HandsOut, Leaves, Before
  <2>3. FlushStep(t)
    BY <1>0, <1>1, <1>2, <2>1 DEF FlushStep, Looks, HandsOut, FlushLabels
  <2>4. /\ (Late(t)' <=> Late(t)) /\ (Drops(t)' <=> Drops(t)) /\ (Begins(t)' => Begins(t))
        /\ (Begins(t) /\ ~ Begins(t)' => Nelem(t) # 0) /\ (Releases(t)' <=> Releases(t))
    BY <2>1 DEF Late, Drops, Begins, Releases
  <2> QED
    BY <1>0, <2>2, <2>3, <2>4 DEF PlainStep
<1>10. CASE LoadNbooktot(t)
  <2>1. pc[t] = "f_tot" /\ pc'[t] = "f_booked"
    BY <1>10, GotoMoves DEF LoadNbooktot, IInv
  <2> QED
    BY <1>3, <2>1 DEF LoadIbook, BookSlots
<1>11. CASE CheckNbooked(t)
  <2>1. pc[t] = "f_booked" /\ ((pc'[t] = "f_filled" /\ Nelem(t) # 0) \/ pc'[t] = "f_unlock")
    BY <1>11, GotoMoves DEF CheckNbooked, FlushFails, IInv
  <2> QED
    BY <1>3, <2>1 DEF LoadIbook, BookSlots, FlushLabels
<1>12. CASE CheckNfilled(t)
  <2>1. /\ pc[t] = "f_filled"
        /\ (pc'[t] = "f_open" /\ Nfilled[My(t)] = Nelem(t)) \/ pc'[t] = "f_unlock"
    BY <1>12, GotoMoves DEF CheckNfilled, FlushFails, IInv
  <2>2. Nfilled[My(t)] = Nelem(t) => Nfilled[My(t)] >= Nelem(t)
    BY <1>1
  <2> QED
    BY <1>3, <2>1, <2>2 DEF LoadIbook, BookSlots, FlushLabels
<1>13. CASE CheckOpen(t)
  <2>1. pc[t] = "f_open" /\ pc'[t] \in {"f_cas", "f_unlock"}
    BY <1>13, GotoMoves DEF CheckOpen, FlushFails, IInv
  <2> QED
    BY <1>3, <2>1 DEF LoadIbook, BookSlots, FlushLabels
<1>14. CASE PushIbook(t) /\ fIbook # loc[t].ibook
  <2>1. pc[t] = "f_cas" /\ pc'[t] = "f_unlock"
    BY <1>14, GotoMoves DEF PushIbook, IInv
  <2> QED
    BY <1>3, <2>1 DEF LoadIbook, BookSlots, FlushLabels
<1>15. CASE BookSlots(t)
  <2>1. /\ pc[t] = "f_slots" /\ pc'[t] = "h_copy" /\ loc'[t].n = Nelem(t) /\ ~ LoadIbook(t)
    BY <1>15, GotoMoves, KeepMoves DEF BookSlots, IInv, LoadIbook
  <2>2. loc'[t].n = Nout(t)
    BY <1>2, <2>1 DEF Nout, FlushLabels
  <2>3. LocalStep(t)
    BY <1>0, <2>1, <2>2 DEF LocalStep, Books, Adds, Owner, HandsOut, Leaves, Before
  <2>4. FlushStep(t)
    BY <1>0, <1>1, <1>2, <2>1 DEF FlushStep, Looks, HandsOut, FlushLabels
  <2>5. /\ (Late(t)' <=> Late(t)) /\ (Drops(t)' <=> Drops(t)) /\ (Begins(t)' => Begins(t))
        /\ (Begins(t) /\ ~ Begins(t)' => Nelem(t) # 0) /\ (Releases(t)' <=> Releases(t))
    BY <2>1 DEF Late, Drops, Begins, Releases
  <2> QED
    BY <1>0, <2>3, <2>4, <2>5 DEF PlainStep
<1>16. CASE ReleaseRange(t)
  <2>1. pc[t] = "r_book0" /\ pc'[t] = "r_ibook"
    BY <1>16, GotoMoves DEF ReleaseRange, IInv
  <2> QED
    BY <1>3, <2>1 DEF LoadIbook, BookSlots
<1> QED
  BY <1>4, <1>5, <1>6, <1>7, <1>8, <1>9, <1>10, <1>11, <1>12, <1>13, <1>14, <1>15, <1>16

------------------------------------------------------------------------------
(* The steps that count                                                     *)

LEMMA BasketsFinite ==
  ASSUME NEW S, S \subseteq Baskets
  PROVE  IsFiniteSet(S) /\ Cardinality(S) \in 0 .. NBaskets
<1>1. PICK c \in Int : c = NBaskets - 1 /\ c >= 0
  BY Sizes
<1>2. IsFiniteSet(0 .. c) /\ Cardinality(0 .. c) = NBaskets
  <2>1. 0 \in Int /\ c \in Int
    OBVIOUS
  <2>2. IsFiniteSet(0 .. c) /\ Cardinality(0 .. c) = IF 0 > c THEN 0 ELSE c - 0 + 1
    BY <2>1, FS_Interval
  <2>3. ~ (0 > c) /\ c - 0 + 1 = NBaskets
    BY <1>1, Sizes
  <2> QED
    BY <2>2, <2>3
<1>3. S \subseteq 0 .. c
  BY <1>1 DEF Baskets
<1>4. IsFiniteSet(S) /\ Cardinality(S) \in Nat /\ Cardinality(S) <= NBaskets
  BY <1>2, <1>3, SubsetSize
<1> QED
  BY <1>4, Sizes

LEMMA CountBasketStep ==
  ASSUME IInv, NEW t \in Threads, CountBasket(t), TypeInv'
  PROVE  CoreInv' /\ FlushInv' /\ StoredInv' /\ BasketsInv'
<1> USE DEF IInv
<1>1. /\ pc[t] = "a_first" /\ pc'[t] = "a_range" /\ Others(t) /\ loc' = loc
      /\ fNbaskets' = fNbaskets + 1
      /\ UNCHANGED <<fIbook, fBuffer, pool, Ibook, Nfilled, fNstored, fHandlerLock>>
  BY GotoMoves DEF CountBasket, Others, buffer, locks, counters, history
<1>2. LocalStep(t)
  BY <1>1 DEF LocalStep, Books, Adds, Owner, HandsOut, Leaves, Before
<1>3. /\ (Late(t)' <=> Late(t)) /\ (Drops(t)' <=> Drops(t)) /\ (Releases(t)' <=> Releases(t))
      /\ Begins(t) /\ ~ Begins(t)' /\ ~ Releases(t) /\ Unfilled(t) /\ Adds(t)
  BY <1>1 DEF Late, Drops, Begins, Releases, Unfilled, Books, Adds
<1>4. FlushStep(t)
  <2>1. \A b \in Baskets : Nfilled'[b] >= Nfilled[b]
    BY <1>1, Sizes DEF TypeInv
  <2>2. ~ loc[t].flush
    BY <1>3 DEF AdderInv
  <2> QED
    BY <1>1, <2>1, <2>2 DEF FlushStep, Looks, FlushLabels
<1>5. PICK b0 \in Baskets, x \in Nat : b0 = My(t) /\ x = loc[t].ibook
  BY LocTypes
<1>6. /\ x = Ibook[b0] /\ First(x) = x /\ x < fIbook
  <2>1. Place(x) = 0 /\ First(x) = Ibook[b0] /\ x < fIbook
    BY <1>1, <1>3, <1>5 DEF AdderInv
  <2> QED
    BY <2>1 DEF First
<1>7. ~ Counted(b0)
  BY <1>3, <1>5, <1>6 DEF Counted
<1>8. Counted(b0)'
  <2>1. ASSUME NEW u \in Threads, Begins(u)' PROVE loc'[u].ibook # Ibook[b0]
    <3>1. u # t /\ Begins(u)
      BY <1>1, <1>3, <2>1, OthersKeep
    <3>2. Adds(u)
      BY <3>1 DEF Begins, Adds
    <3> QED
      BY <1>1, <1>3, <1>5, <1>6, <3>1, <3>2 DEF AdderInv
  <2>2. ASSUME NEW u \in Threads, Releases(u)' PROVE My(u)' # b0
    <3>1. u # t /\ Releases(u) /\ My(u)' = My(u)
      BY <1>1, <1>3, <2>2, OthersKeep
    <3>2. Owner(u)
      BY <3>1 DEF Owner, HandsOut, Releases
    <3> QED
      BY <1>3, <1>5, <1>6, <3>1, <3>2 DEF OwnerInv
  <2> QED
    BY <1>1, <1>6, <2>1, <2>2 DEF Counted
<1>9. ASSUME NEW b \in Baskets, b # b0 PROVE Counted(b)' <=> Counted(b)
  <2>1. x # Ibook[b]
    BY <1>5, <1>6, <1>9 DEF AlignInv
  <2>2. ASSUME NEW u \in Threads, u # t
        PROVE  (Begins(u)' <=> Begins(u)) /\ (Releases(u)' <=> Releases(u)) /\ My(u)' = My(u)
    BY <1>1, <2>2, OthersKeep
  <2> QED
    BY <1>1, <1>3, <1>5, <2>1, <2>2 DEF Counted
<1>10. {b \in Baskets : Counted(b)}' = {b \in Baskets : Counted(b)} \union {b0}
  BY <1>8, <1>9
<1>11. BasketsInv'
  <2>1. IsFiniteSet({b \in Baskets : Counted(b)})
    BY BasketsFinite
  <2>2. b0 \notin {b \in Baskets : Counted(b)}
    BY <1>7
  <2>3. Cardinality({b \in Baskets : Counted(b)} \union {b0}) = Cardinality({b \in Baskets : Counted(b)}) + 1
    BY <2>1, <2>2, FS_AddElement
  <2> QED
    BY <1>1, <1>10, <2>3 DEF BasketsInv
<1>12. CoreInv' /\ FlushInv' /\ StoredInv'
  BY <1>1, <1>2, <1>3, <1>4, LocalCore, LocalFlush, LocalStored
<1> QED
  BY <1>11, <1>12

LEMMA CountStoredStep ==
  ASSUME IInv, NEW t \in Threads, CountStored(t), TypeInv'
  PROVE  CoreInv' /\ FlushInv' /\ StoredInv' /\ BasketsInv'
<1> USE DEF IInv
<1>1. /\ pc[t] = "a_stored" /\ Others(t) /\ fNstored' = fNstored + 1
      /\ UNCHANGED <<fIbook, fBuffer, pool, Ibook, Nfilled, fNbaskets, fHandlerLock>>
      /\ \/ loc[t].n = fBsize /\ pc'[t] = "h_copy" /\ loc' = loc
         \/ loc[t].n # fBsize /\ pc'[t] = "idle" /\ loc'[t].flush = FALSE
  <2>1. pc[t] = "a_stored" /\ fNstored' = fNstored + 1
        /\ UNCHANGED <<fIbook, fBuffer, pool, Ibook, Nfilled, fNbaskets, fHandlerLock>>
    BY DEF CountStored, buffer, locks, counters, history
  <2>2. CASE loc[t].n = fBsize
    <3>1. Goto(t, "h_copy") /\ UNCHANGED loc
      BY <2>2 DEF CountStored
    <3>2. pc'[t] = "h_copy" /\ loc' = loc /\ Others(t)
      BY <3>1, GotoMoves DEF Others
    <3> QED
      BY <2>1, <2>2, <3>2
  <2>3. CASE loc[t].n # fBsize
    <3>1. Return(t)
      BY <2>3 DEF CountStored
    <3> QED
      BY <2>1, <2>3, <3>1, ReturnMoves
  <2> QED
    BY <2>2, <2>3
<1>2. ~ loc[t].flush
  BY <1>1 DEF AdderInv, Adds
<1>3. LocalStep(t)
  <2>1. pc'[t] = "h_copy" => loc'[t].n = Nout(t)
    BY <1>1, <1>2 DEF Nout
  <2> QED
    BY <1>1, <1>2, <2>1 DEF LocalStep, Books, Adds, Owner, HandsOut, Leaves, Before
<1>4. /\ Late(t) /\ ~ Late(t)' /\ (Drops(t)' <=> Drops(t)) /\ (Releases(t)' <=> Releases(t))
      /\ ~ Begins(t) /\ ~ Begins(t)'
  BY <1>1 DEF Late, Drops, Begins, Releases
<1>5. FlushStep(t)
  <2>1. \A b \in Baskets : Nfilled'[b] >= Nfilled[b]
    BY <1>1, Sizes DEF TypeInv
  <2>2. loc'[t].flush = loc[t].flush
    <3>1. loc[t].flush = FALSE
      BY <1>2, LocTypes
    <3> QED
      BY <1>1, <3>1
  <2> QED
    BY <1>1, <1>2, <2>1, <2>2 DEF FlushStep, Looks, FlushLabels
<1>6. StoredInv'
  <2>1. \A u \in Threads \ {t} : (Late(u)' <=> Late(u)) /\ (Drops(u)' <=> Drops(u)) /\ Taken(u)' = Taken(u)
    BY <1>1, OthersKeep
  <2>2. Lates' = Lates \ {t} /\ t \in Lates
    BY <1>4, <2>1 DEF Lates
  <2>3. ~ Drops(t) /\ ~ Drops(t)'
    BY <1>1 DEF Drops
  <2>4. Dropping' = Dropping
    BY <1>1, <2>1, <2>3 DEF Dropping
  <2>5. PICK a \in Nat, c \in Nat, d \in Nat :
          a = Cardinality(Lates) /\ c = Cardinality(pool) /\ d = Cardinality(Dropping)
    BY LatesFinite, PoolFinite, DroppingFinite
  <2>6. Cardinality(Lates') = a - 1
    BY <2>2, <2>5, LatesFinite, FS_RemoveElement
  <2>7. fNstored + a = c + d /\ fNstored \in Int
    BY <2>5 DEF StoredInv, TypeInv
  <2>8. (fNstored + 1) + (a - 1) = c + d
    BY <2>7
  <2> QED
    BY <1>1, <2>4, <2>5, <2>6, <2>8 DEF StoredInv
<1>7. CoreInv' /\ FlushInv' /\ BasketsInv'
  BY <1>1, <1>3, <1>4, <1>5, LocalCore, LocalFlush, LocalBaskets
<1> QED
  BY <1>6, <1>7

LEMMA DropStoredStep ==
  ASSUME IInv, NEW t \in Threads, DropStored(t), TypeInv'
  PROVE  CoreInv' /\ FlushInv' /\ StoredInv' /\ BasketsInv'
<1> USE DEF IInv
<1>1. /\ pc[t] = "h_stored" /\ pc'[t] = "h_baskets" /\ Others(t) /\ loc' = loc
      /\ fNstored' = fNstored - loc[t].n
      /\ UNCHANGED <<fIbook, fBuffer, pool, Ibook, Nfilled, fNbaskets, fHandlerLock>>
  BY GotoMoves DEF DropStored, Others, buffer, locks, counters, history
<1>2. HandsOut(t) /\ Owner(t) /\ Drops(t) /\ ~ Drops(t)' /\ loc[t].n = Nout(t)
  BY <1>1 DEF HandsOut, Owner, Drops, OwnerInv
<1>3. LocalStep(t)
  BY <1>1, <1>2 DEF LocalStep, Books, Adds, Owner, HandsOut, Leaves, Before
<1>4. /\ (Late(t)' <=> Late(t)) /\ (Releases(t)' <=> Releases(t)) /\ ~ Begins(t) /\ ~ Begins(t)'
  BY <1>1 DEF Late, Begins, Releases
<1>5. FlushStep(t)
  <2>1. \A b \in Baskets : Nfilled'[b] >= Nfilled[b]
    BY <1>1, Sizes DEF TypeInv
  <2> QED
    BY <1>1, <2>1 DEF FlushStep, Looks, FlushLabels, HandsOut
<1>6. StoredInv'
  <2>1. \A u \in Threads \ {t} : (Late(u)' <=> Late(u)) /\ (Drops(u)' <=> Drops(u)) /\ Taken(u)' = Taken(u)
    BY <1>1, OthersKeep
  <2>2. Lates' = Lates
    BY <1>4, <2>1 DEF Lates
  <2>3. /\ Taken(t) \subseteq Dropping
        /\ IsFiniteSet(Taken(t)) /\ Cardinality(Taken(t)) = loc[t].n
    BY <1>2, TakenGiven DEF Dropping
  \* No other thread hands out of the same lap.
  <2>4. ASSUME NEW u \in Threads, u # t, Drops(u), NEW i \in Taken(u) PROVE i \notin Taken(t)
    <3>1. Owner(u) /\ My(u) # My(t) /\ My(u) \in Baskets /\ My(t) \in Baskets
      BY <1>2, <2>4, LocTypes DEF OwnerInv, Owner, HandsOut, Drops
    <3>2. i \in Lap(My(u)) /\ i \in Nat /\ Taken(t) \subseteq Lap(My(t))
      BY <1>2, <2>4, <3>1, TakenGiven
    <3> QED
      BY <3>1, <3>2, InLap
  <2>5. Dropping' = Dropping \ Taken(t)
    BY <1>1, <1>2, <2>1, <2>4 DEF Dropping
  <2>6. Cardinality(Dropping') = Cardinality(Dropping) - loc[t].n
    <3>1. Dropping \cap Taken(t) = Taken(t)
      BY <2>3
    <3>2. Cardinality(Dropping \ Taken(t)) = Cardinality(Dropping) - Cardinality(Dropping \cap Taken(t))
      <4>1. IsFiniteSet(Dropping)
        BY DroppingFinite
      <4> QED
        BY <4>1, FS_Difference
    <3> QED
      BY <2>3, <2>5, <3>1, <3>2
  <2>7. PICK a \in Nat, c \in Nat, d \in Nat, n \in Int :
          a = Cardinality(Lates) /\ c = Cardinality(pool) /\ d = Cardinality(Dropping) /\ n = loc[t].n
    BY LatesFinite, PoolFinite, DroppingFinite, LocTypes
  <2>8. fNstored + a = c + d /\ fNstored \in Int
    BY <2>7 DEF StoredInv, TypeInv
  <2>9. (fNstored - n) + a = c + (d - n)
    BY <2>8
  <2> QED
    BY <1>1, <2>2, <2>6, <2>7, <2>9 DEF StoredInv
<1>7. CoreInv' /\ FlushInv' /\ BasketsInv'
  BY <1>1, <1>3, <1>4, <1>5, LocalCore, LocalFlush, LocalBaskets
<1> QED
  BY <1>6, <1>7

LEMMA DropBasketStep ==
  ASSUME IInv, NEW t \in Threads, DropBasket(t), TypeInv'
  PROVE  CoreInv' /\ FlushInv' /\ StoredInv' /\ BasketsInv'
<1> USE DEF IInv
<1>1. /\ pc[t] = "h_baskets" /\ pc'[t] = "r_filled" /\ Others(t) /\ loc' = loc
      /\ fNbaskets' = fNbaskets - 1
      /\ UNCHANGED <<fIbook, fBuffer, pool, Ibook, Nfilled, fNstored, fHandlerLock>>
  BY GotoMoves DEF DropBasket, Others, buffer, locks, counters, history
<1>2. /\ HandsOut(t) /\ Owner(t) /\ loc[t].n = Nout(t) /\ ~ Releases(t) /\ Releases(t)'
      /\ (Late(t)' <=> Late(t)) /\ (Drops(t)' <=> Drops(t)) /\ ~ Begins(t) /\ ~ Begins(t)'
  BY <1>1 DEF HandsOut, Owner, Drops, OwnerInv, Late, Begins, Releases
<1>3. LocalStep(t)
  BY <1>1, <1>2 DEF LocalStep, Books, Adds, Owner, HandsOut, Leaves, Before
<1>4. FlushStep(t)
  <2>1. \A b \in Baskets : Nfilled'[b] >= Nfilled[b]
    BY <1>1, Sizes DEF TypeInv
  <2> QED
    BY <1>1, <2>1 DEF FlushStep, Looks, FlushLabels, HandsOut
<1>5. PICK b0 \in Baskets, m \in Nat : b0 = My(t) /\ m = Ibook[b0]
  BY LocTypes DEF TypeInv, Counts
<1>6. /\ m < fIbook /\ First(loc[t].ibook) = m /\ First(m) = m
  <2>1. First(loc[t].ibook) = m /\ m + fBsize <= fIbook /\ Place(m) = 0
    BY <1>2, <1>5 DEF OwnerInv, AlignInv
  <2> QED
    BY <2>1, Sizes DEF First, TypeInv
<1>7. Counted(b0)
  <2>1. ASSUME NEW u \in Threads, Begins(u) PROVE loc[u].ibook # m
    <3>1. Unfilled(u)
      BY <2>1 DEF Begins, Unfilled, Books
    <3> QED
      BY <1>2, <1>6, <3>1 DEF OwnerInv
  <2>2. ASSUME NEW u \in Threads, Releases(u) PROVE My(u) # b0
    <3>1. Owner(u) /\ u # t
      BY <1>2, <2>2 DEF Releases, Owner, HandsOut
    <3> QED
      BY <1>2, <1>5, <3>1 DEF OwnerInv
  <2> QED
    BY <1>5, <1>6, <2>1, <2>2 DEF Counted
<1>8. ~ Counted(b0)'
  BY <1>1, <1>2, <1>5 DEF Counted, My
<1>9. ASSUME NEW b \in Baskets, b # b0 PROVE Counted(b)' <=> Counted(b)
  <2>1. ASSUME NEW u \in Threads, u # t
        PROVE  (Begins(u)' <=> Begins(u)) /\ (Releases(u)' <=> Releases(u)) /\ My(u)' = My(u)
    BY <1>1, <2>1, OthersKeep
  <2>2. My(t)' = b0
    BY <1>1, <1>5 DEF My
  <2> QED
    BY <1>1, <1>2, <1>5, <1>9, <2>1, <2>2 DEF Counted
<1>10. {b \in Baskets : Counted(b)}' = {b \in Baskets : Counted(b)} \ {b0}
  BY <1>8, <1>9
<1>11. BasketsInv'
  <2>1. IsFiniteSet({b \in Baskets : Counted(b)})
    BY BasketsFinite
  <2>2. b0 \in {b \in Baskets : Counted(b)}
    BY <1>7
  <2>3. Cardinality({b \in Baskets : Counted(b)} \ {b0}) = Cardinality({b \in Baskets : Counted(b)}) - 1
    BY <2>1, <2>2, FS_RemoveElement
  <2> QED
    BY <1>1, <1>10, <2>3 DEF BasketsInv
<1>12. CoreInv' /\ FlushInv' /\ StoredInv'
  BY <1>1, <1>2, <1>3, <1>4, LocalCore, LocalFlush, LocalStored
<1> QED
  BY <1>11, <1>12

------------------------------------------------------------------------------
(* The beginning and the end of a flush                                     *)

LEMMA FlushCallStep ==
  ASSUME IInv, NEW t \in Threads, FlushCall(t), TypeInv', FlushAnyTime = FALSE
  PROVE  CoreInv' /\ FlushInv' /\ StoredInv' /\ BasketsInv'
<1> USE DEF IInv
<1>1. /\ pc[t] = "idle" /\ pc'[t] = "l_stored" /\ Others(t)
      /\ loc'[t].flush = TRUE /\ loc'[t].ibook = loc[t].ibook
      /\ ~ fHandlerLock /\ fHandlerLock' = TRUE /\ ~ Overrun
      /\ UNCHANGED <<fIbook, fBuffer, pool, Ibook, Nfilled, fNstored, fNbaskets>>
  BY GotoMoves, KeepMoves DEF FlushCall, Others, buffer, totals, counters, history
<1>2. LocalStep(t)
  BY <1>1 DEF LocalStep, Books, Adds, Owner, HandsOut, Leaves, Before
<1>3. /\ (Late(t)' <=> Late(t)) /\ (Releases(t)' <=> Releases(t)) /\ (Drops(t)' <=> Drops(t))
      /\ ~ Begins(t) /\ ~ Begins(t)'
  BY <1>1 DEF Late, Begins, Releases, Drops
<1>4. CoreInv' /\ StoredInv' /\ BasketsInv'
  BY <1>1, <1>2, <1>3, LocalCore, LocalStored, LocalBaskets
<1>5. FlushInv'
  <2>1. ASSUME NEW u \in Threads, u # t
        PROVE  /\ pc'[u] = pc[u] /\ loc'[u] = loc[u] /\ ~ loc[u].flush /\ pc[u] \notin FlushLabels
               /\ ~ Looks(u)'
    <3>1. ~ loc[u].flush /\ pc[u] \notin FlushLabels
      BY <1>1 DEF FlushInv
    <3>2. pc'[u] = pc[u] /\ loc'[u] = loc[u]
      BY <1>1, <2>1 DEF Others
    <3> QED
      BY <3>1, <3>2 DEF Looks, FlushLabels
  <2>2. ~ Looks(t)' /\ pc'[t] \in FlushLabels /\ pc'[t] \notin {"f_filled", "f_open", "f_cas"}
    BY <1>1 DEF Looks, FlushLabels
  <2>3. ~ Overrun'
    <3>1. ASSUME NEW u \in Threads, pc'[u] = "a_wait" PROVE Open(My(u), loc[u].ibook)'
      <4>1. u # t /\ pc[u] = "a_wait" /\ loc'[u] = loc[u]
        BY <1>1, <2>1, <3>1
      <4>2. Open(My(u), loc[u].ibook)
        BY <1>1, <4>1 DEF Overrun
      <4> QED
        BY <1>1, <4>1, <4>2 DEF Open, My
    <3> QED
      BY <3>1 DEF Overrun
  <2>4. \A u \in Threads : pc'[u] \in FlushLabels => loc'[u].flush
    BY <1>1, <2>1
  <2>5. \A u \in Threads : loc'[u].flush => fHandlerLock' /\ (pc'[u] \in FlushLabels \/ HandsOut(u)')
    BY <1>1, <2>1, <2>2
  <2>6. \A u, v \in Threads : loc'[u].flush /\ loc'[v].flush => u = v
    BY <1>1, <2>1
  <2>7. \A u \in Threads : ~ Looks(u)' /\ pc'[u] \notin {"f_filled", "f_open", "f_cas"}
    BY <2>1, <2>2 DEF FlushLabels
  <2> QED
    BY <2>3, <2>4, <2>5, <2>6, <2>7 DEF FlushInv
<1> QED
  BY <1>4, <1>5

LEMMA FlushReturnStep ==
  ASSUME IInv, NEW t \in Threads, FlushReturn(t), TypeInv'
  PROVE  CoreInv' /\ FlushInv' /\ StoredInv' /\ BasketsInv'
<1> USE DEF IInv
<1>1. /\ pc[t] = "l_unlock" /\ pc'[t] = "idle" /\ Others(t) /\ loc'[t].flush = FALSE
      /\ fHandlerLock' = FALSE
      /\ UNCHANGED <<fIbook, fBuffer, pool, Ibook, Nfilled, fNstored, fNbaskets>>
  BY ReturnMoves DEF FlushReturn, buffer, totals, counters, history
<1>2. LocalStep(t)
  BY <1>1 DEF LocalStep, Books, Adds, Owner, HandsOut, Leaves, Before
<1>3. /\ (Late(t)' <=> Late(t)) /\ (Releases(t)' <=> Releases(t)) /\ (Drops(t)' <=> Drops(t))
      /\ ~ Begins(t) /\ ~ Begins(t)' /\ loc[t].flush
  BY <1>1 DEF Late, Begins, Releases, Drops, FlushInv, FlushLabels
<1>4. CoreInv' /\ StoredInv' /\ BasketsInv'
  BY <1>1, <1>2, <1>3, LocalCore, LocalStored, LocalBaskets
<1>5. FlushInv'
  <2>1. ASSUME NEW u \in Threads
        PROVE  /\ ~ loc'[u].flush /\ pc'[u] \notin FlushLabels /\ ~ Looks(u)'
               /\ pc'[u] \notin {"f_filled", "f_open", "f_cas"}
    <3>1. CASE u = t
      BY <1>1, <3>1 DEF FlushLabels, Looks
    <3>2. CASE u # t
      <4>1. pc'[u] = pc[u] /\ loc'[u] = loc[u]
        BY <1>1, <3>2 DEF Others
      <4>2. ~ loc[u].flush /\ pc[u] \notin FlushLabels
        BY <1>3, <3>2 DEF FlushInv
      <4> QED
        BY <4>1, <4>2 DEF FlushLabels, Looks
    <3> QED
      BY <3>1, <3>2
  <2> QED
    BY <1>1, <2>1 DEF FlushInv
<1> QED
  BY <1>4, <1>5

\* The basket of the next index is not a lap ahead of it.
LEMMA NotAhead ==
  ASSUME IInv
  PROVE  /\ Basket(fIbook) \in Baskets /\ Ibook[Basket(fIbook)] \in Nat
         /\ Ibook[Basket(fIbook)] <= First(fIbook)
<1>1. PICK k \in Nat, b \in Baskets, m \in Nat : k = fIbook /\ b = Basket(fIbook) /\ m = Ibook[b]
  BY BasketRange DEF IInv, TypeInv, Counts
<1>2. Place(m) = 0 /\ Basket(m) = Basket(k) /\ m + fBsize <= k + BufferSize
  BY <1>1 DEF IInv, AlignInv
<1>3. First(m) = m
  BY <1>2 DEF First
<1>4. ASSUME First(k) < m PROVE FALSE
  <2>1. First(k) + BufferSize <= m
    BY <1>2, <1>3, <1>4, LapApart
  <2>2. First(k) \in Nat /\ k < First(k) + fBsize
    BY Numbers
  <2>3. fBsize \in Nat /\ BufferSize \in Nat
    BY Sizes
  <2> QED
    BY <1>2, <2>1, <2>2, <2>3
<1>5. First(k) \in Nat
  BY Numbers
<1> QED
  BY <1>1, <1>4, <1>5

\* While a flush is going on the current basket, if it was begun, is open and
\* nobody's.
LEMMA Current ==
  ASSUME IInv, fHandlerLock, Place(fIbook) # 0
  PROVE  /\ First(fIbook) = Ibook[Basket(fIbook)]
         /\ \A u \in Threads : Owner(u) => My(u) # Basket(fIbook)
<1>1. PICK k \in Nat, b \in Baskets, m \in Nat, f \in Nat :
        k = fIbook /\ b = Basket(fIbook) /\ m = Ibook[b] /\ f = First(k)
  BY NotAhead, Numbers DEF IInv, TypeInv
<1>2. f < k /\ k < f + fBsize /\ fBsize \in Nat /\ m <= f
  <2>1. f <= k /\ k < f + fBsize /\ Place(k) \in Nat /\ Place(k) # 0
    BY <1>1, Numbers
  <2>2. f = k - Place(k)
    BY <1>1 DEF First
  <2> QED
    BY <1>1, <2>1, <2>2, Sizes, NotAhead
<1>3. PICK i \in Nat : i = k - 1
  BY <1>2
<1>4. i \in f .. f + fBsize - 1 /\ i \in 0 .. fIbook - 1
  BY <1>1, <1>2, <1>3
<1>5. First(i) = f /\ Basket(i) = b
  BY <1>1, <1>4, SameBasket
<1>6. ASSUME f > m PROVE FALSE
  <2>1. PICK u \in Threads : pc[u] = "a_wait" /\ loc[u].ibook = i
    BY <1>1, <1>4, <1>5, <1>6 DEF IInv, HeldInv
  <2>2. Open(My(u), loc[u].ibook)
    BY <2>1 DEF IInv, FlushInv, Overrun
  <2>3. First(loc[u].ibook) = Ibook[My(u)] /\ My(u) = b
    BY <1>5, <2>1, <2>2, OpenLap DEF My
  <2> QED
    BY <1>1, <1>5, <1>6, <2>1, <2>3
<1>7. f = m
  BY <1>2, <1>6
<1>8. ASSUME NEW u \in Threads, Owner(u), My(u) = b PROVE FALSE
  <2>1. m + fBsize <= k
    BY <1>1, <1>8 DEF IInv, OwnerInv
  <2> QED
    BY <1>2, <1>7, <2>1
<1> QED
  BY <1>1, <1>7, <1>8

------------------------------------------------------------------------------
(* PushIbook                                                                *)

\* The exchange takes a basket that is filled up to fIbook, with no element on
\* its way.
LEMMA PushedIsFilled ==
  ASSUME IInv, NEW t \in Threads, pc[t] = "f_cas", fIbook = loc[t].ibook
  PROVE  /\ First(fIbook) = Ibook[My(t)]
         /\ \A u \in Threads : Owner(u) => My(u) # My(t)
         /\ \A u \in Threads : Unfilled(u) => First(loc[u].ibook) # First(fIbook)
         /\ \A i \in Lap(My(t)) : i \in pool <=> i < fIbook
<1> USE DEF IInv
<1>1. PICK k \in Nat, b \in Baskets, m \in Nat, p \in Nat :
        k = fIbook /\ b = My(t) /\ m = Ibook[b] /\ p = Nelem(t)
  BY LocTypes DEF TypeInv, Counts
<1>2. fHandlerLock /\ p # 0 /\ Nfilled[b] >= p
  BY <1>1 DEF FlushInv, FlushLabels
<1>3. b = Basket(k) /\ p = Place(k) /\ First(k) = k - p
  BY <1>1 DEF My, Nelem, First
<1>4. First(k) = m /\ \A u \in Threads : Owner(u) => My(u) # b
  BY <1>1, <1>2, <1>3, Current
<1>5. k = m + p /\ p < fBsize /\ fBsize \in Nat
  <2>1. Place(k) \in 0 .. fBsize - 1 /\ fBsize \in Nat
    BY Numbers, Sizes
  <2>2. m = k - p
    BY <1>3, <1>4
  <2> QED
    BY <1>3, <2>1, <2>2
<1>6. FilledSet(b) \subseteq m .. k - 1
  BY <1>1, <1>5 DEF FilledSet, Lap, PoolInv
<1>7. IsFiniteSet(m .. k - 1) /\ Cardinality(m .. k - 1) = p
  <2>1. PICK c \in Int : c = k - 1
    BY <1>1
  <2>2. IsFiniteSet(m .. c) /\ Cardinality(m .. c) = IF m > c THEN 0 ELSE c - m + 1
    <3>1. m \in Int /\ c \in Int
      OBVIOUS
    <3> QED
      BY <3>1, FS_Interval
  <2>3. ~ (m > c) /\ c - m + 1 = p
    BY <1>2, <1>5, <2>1
  <2> QED
    BY <2>1, <2>2, <2>3
<1>8. FilledSet(b) = m .. k - 1
  <2>1. Nfilled[b] = Cardinality(FilledSet(b))
    <3>1. \A u \in Threads : Leaves(u) => My(u) # b
      BY <1>4, UnfilledAdds
    <3> QED
      BY <3>1 DEF FilledInv
  <2>2. /\ Cardinality(FilledSet(b)) \in Nat
        /\ FilledSet(b) # m .. k - 1 => Cardinality(FilledSet(b)) < Cardinality(m .. k - 1)
    BY <1>6, <1>7, SubsetSize
  <2> QED
    BY <1>2, <1>7, <2>1, <2>2
<1>9. \A i \in Lap(b) : i \in pool <=> i < k
  <2>1. \A i \in pool : i < k
    BY <1>1 DEF PoolInv
  <2>2. ASSUME NEW i \in Lap(b), i < k PROVE i \in pool
    <3>1. i \in m .. k - 1
      BY <1>1, <2>2 DEF Lap
    <3> QED
      BY <1>8, <3>1 DEF FilledSet
  <2> QED
    BY <2>1, <2>2
<1>10. ASSUME NEW u \in Threads, Unfilled(u), First(loc[u].ibook) = m PROVE FALSE
  <2>1. PICK i \in Nat : i = loc[u].ibook
    BY LocTypes
  <2>2. i < k /\ First(i) = m /\ First(i) <= i
    BY <1>1, <1>10, <2>1, UnfilledAdds, Numbers DEF AdderInv
  <2>3. i \in FilledSet(b)
    <3>1. i \in m .. k - 1
      BY <2>2
    <3> QED
      BY <1>8, <3>1
  <2>4. i \in pool /\ pc[u] # "a_fill"
    BY <2>1, <2>3 DEF FilledSet
  <2> QED
    BY <1>10, <2>1, <2>4 DEF PoolInv, Unfilled
<1> QED
  BY <1>1, <1>4, <1>9, <1>10

LEMMA PushIbookStep ==
  ASSUME IInv, NEW t \in Threads, PushIbook(t), fIbook = loc[t].ibook, TypeInv'
  PROVE  CoreInv' /\ FlushInv' /\ StoredInv' /\ BasketsInv'
<1> USE DEF IInv
<1>1. /\ pc[t] = "f_cas" /\ pc'[t] = "f_slots" /\ Others(t) /\ loc' = loc
      /\ fIbook' = First(fIbook + fBsize)
      /\ UNCHANGED <<fBuffer, pool, Ibook, Nfilled, fNstored, fNbaskets, fHandlerLock>>
  BY GotoMoves DEF PushIbook, Others, totals, locks, counters, history
<1>2. PICK k \in Nat, b0 \in Baskets, m \in Nat, p \in Nat :
        k = fIbook /\ b0 = My(t) /\ m = Ibook[b0] /\ p = Nelem(t)
  BY LocTypes DEF TypeInv, Counts
<1>3. /\ m = First(k) /\ b0 = Basket(k) /\ p = Place(k) /\ fIbook' = m + fBsize
      /\ k = m + p /\ p \in 1 .. fBsize - 1 /\ fBsize \in Nat /\ First(m) = m
  <2>1. m = First(k) /\ b0 = Basket(k) /\ p = Place(k)
    BY <1>1, <1>2, PushedIsFilled DEF My, Nelem
  <2>2. First(k + fBsize) = First(k) + fBsize /\ First(m) = m
    BY <2>1, NextFirst, FirstFirst
  <2>3. p # 0 /\ p \in 0 .. fBsize - 1 /\ k = m + p /\ fBsize \in Nat
    BY <1>1, <1>2, <2>1, LocTypes, Sizes DEF FlushInv
  <2> QED
    BY <1>1, <1>2, <2>1, <2>2, <2>3
<1>4. /\ \A u \in Threads : Owner(u) => My(u) # b0
      /\ \A u \in Threads : Unfilled(u) => First(loc[u].ibook) # m
      /\ \A i \in Lap(b0) : i \in pool <=> i < k
  BY <1>1, <1>2, <1>3, PushedIsFilled
<1>5. fIbook < fIbook'
  BY <1>2, <1>3
<1>6. /\ ~ Owner(t) /\ Owner(t)' /\ ~ HandsOut(t)' /\ Before(t)' /\ ~ Adds(t) /\ ~ Adds(t)'
      /\ ~ Books(t) /\ ~ Books(t)' /\ ~ Unfilled(t) /\ ~ Unfilled(t)'
      /\ ~ Leaves(t) /\ ~ Leaves(t)' /\ ~ Late(t) /\ ~ Late(t)' /\ ~ Drops(t) /\ ~ Drops(t)'
      /\ ~ Begins(t) /\ ~ Begins(t)' /\ ~ Releases(t) /\ ~ Releases(t)' /\ ~ Looks(t)'
      /\ loc[t].flush /\ fHandlerLock /\ My(t)' = b0 /\ Nout(t)' = p
  BY <1>1, <1>2 DEF Owner, HandsOut, Before, Adds, Books, Unfilled, Leaves, Late, Drops, Begins, Releases,
                    Looks, FlushInv, FlushLabels, My, Nout, Nelem
<1>7. ASSUME NEW u \in Threads, u # t
      PROVE  /\ pc'[u] = pc[u] /\ loc'[u] = loc[u] /\ ~ loc[u].flush
             /\ (Books(u)' <=> Books(u)) /\ (Adds(u)' <=> Adds(u)) /\ (Unfilled(u)' <=> Unfilled(u))
             /\ (Late(u)' <=> Late(u)) /\ (Looks(u)' <=> Looks(u)) /\ (Owner(u)' <=> Owner(u))
             /\ (HandsOut(u)' <=> HandsOut(u)) /\ (Before(u)' <=> Before(u))
             /\ (Leaves(u)' <=> Leaves(u)) /\ (Drops(u)' <=> Drops(u))
             /\ (Begins(u)' <=> Begins(u)) /\ (Releases(u)' <=> Releases(u))
             /\ My(u)' = My(u) /\ Nelem(u)' = Nelem(u) /\ Nout(u)' = Nout(u) /\ Taken(u)' = Taken(u)
  BY <1>1, <1>6, <1>7, OthersKeep DEF FlushInv
<1>8. \A u \in Threads : /\ My(u)' = My(u) /\ (Leaves(u)' <=> Leaves(u)) /\ (Books(u)' <=> Books(u))
                         /\ (Adds(u)' <=> Adds(u)) /\ (Unfilled(u)' <=> Unfilled(u))
                         /\ (Owner(u) => u # t /\ Owner(u)')
                         /\ (pc'[u] = "a_fill" <=> pc[u] = "a_fill")
                         /\ (pc'[u] = "a_wait" <=> pc[u] = "a_wait")
                         /\ (pc'[u] = "a_first" <=> pc[u] = "a_first")
  BY <1>1, <1>2, <1>6, <1>7
<1>9. \A b \in Baskets : Lap(b)' = Lap(b)
  BY <1>1 DEF Lap
<1>10. AlignInv'
  <2>1. BufferSize \in Nat /\ \A b \in Baskets : Ibook[b] \in Nat
    BY Sizes DEF TypeInv, Counts
  <2>2. fIbook' \in Nat
    BY <1>3
  <2> QED
    BY <1>1, <1>2, <1>3, <1>5, <2>1, <2>2 DEF AlignInv
<1>11. AdderInv'
  <2>1. ASSUME NEW u \in Threads, Adds(u)' PROVE loc'[u].ibook < fIbook' /\ ~ loc'[u].flush
    <3>1. loc[u].ibook < fIbook /\ ~ loc[u].flush /\ loc[u].ibook \in Nat
      BY <1>8, <2>1, LocTypes DEF AdderInv
    <3> QED
      BY <1>1, <1>2, <1>3, <1>5, <3>1
  <2>2. \A u \in Threads : pc'[u] = "a_wait" => First(loc'[u].ibook) >= Ibook'[My(u)']
    BY <1>1, <1>8 DEF AdderInv
  <2>3. \A u \in Threads : Unfilled(u)' /\ pc'[u] # "a_wait" => First(loc'[u].ibook) = Ibook'[My(u)']
    BY <1>1, <1>8 DEF AdderInv
  <2>4. \A u \in Threads : pc'[u] = "a_first" => Place(loc'[u].ibook) = 0
    BY <1>1, <1>8 DEF AdderInv
  <2>5. \A u, v \in Threads : Adds(u)' /\ Adds(v)' /\ loc'[u].ibook = loc'[v].ibook => u = v
    BY <1>1, <1>8 DEF AdderInv
  <2> QED
    BY <2>1, <2>2, <2>3, <2>4, <2>5 DEF AdderInv
<1>12. PoolInv'
  <2>1. \A i \in pool : i \in Nat /\ i < fIbook'
    BY <1>2, <1>3, <1>5 DEF PoolInv
  <2> QED
    BY <1>1, <1>8, <2>1 DEF PoolInv
<1>13. HeldInv'
  <2> SUFFICES ASSUME NEW i \in 0 .. fIbook' - 1
               PROVE  /\ First(i) > Ibook[Basket(i)] =>
                           \E u \in Threads : pc'[u] = "a_wait" /\ loc'[u].ibook = i
                      /\ First(i) = Ibook[Basket(i)] =>
                           \/ i \in pool
                           \/ \E u \in Threads : Books(u)' /\ loc'[u].ibook = i
                           \/ \E u \in Threads : Owner(u)' /\ My(u)' = Basket(i)
    BY <1>1 DEF HeldInv
  <2>1. CASE i < k
    <3>1. i \in 0 .. fIbook - 1
      BY <1>2, <1>3, <2>1
    <3> QED
      BY <1>1, <1>8, <3>1 DEF HeldInv
  <2>2. CASE ~ (i < k)
    <3>1. i \in First(k) .. First(k) + fBsize - 1
      BY <1>3, <2>2
    <3>2. First(i) = m /\ Basket(i) = b0
      BY <1>3, <3>1, SameBasket
    <3>3. ~ (First(i) > Ibook[Basket(i)])
      BY <1>2, <3>2
    <3> QED
      BY <1>6, <3>2, <3>3
  <2> QED
    BY <2>1, <2>2
<1>14. FilledInv'
  <2>1. ASSUME NEW b \in Baskets PROVE FilledSet(b)' = FilledSet(b)
    BY <1>1, <1>8, <1>9 DEF FilledSet
  <2>2. ASSUME NEW b \in Baskets, \A u \in Threads : Leaves(u)' => My(u)' # b
        PROVE  Nfilled[b] = Cardinality(FilledSet(b))
    <3>1. \A u \in Threads : Leaves(u) => My(u) # b
      BY <1>8, <2>2
    <3> QED
      BY <3>1 DEF FilledInv
  <2>3. ASSUME NEW b \in Baskets, Nfilled[b] = fBsize
        PROVE  \E u \in Threads : Owner(u)' /\ My(u)' = b
    <3>1. PICK u \in Threads : Owner(u) /\ My(u) = b
      BY <2>3 DEF FilledInv
    <3> QED
      BY <1>8, <3>1
  <2> QED
    BY <1>1, <2>1, <2>2, <2>3 DEF FilledInv
<1>15. OwnerInv'
  <2> SUFFICES ASSUME NEW u \in Threads, Owner(u)'
               PROVE  /\ First(loc'[u].ibook) = Ibook'[My(u)']
                      /\ First(loc'[u].ibook) + fBsize <= fIbook'
                      /\ Nout(u)' \in 1 .. fBsize
                      /\ HandsOut(u)' => loc'[u].n = Nout(u)'
                      /\ \A v \in Threads : Unfilled(v)' => First(loc'[v].ibook) # First(loc'[u].ibook)
                      /\ \A v \in Threads : Owner(v)' /\ v # u => My(v)' # My(u)'
                      /\ Before(u)' => \A i \in Lap(My(u))' : i \in pool' <=> i \in Taken(u)'
                      /\ ~ Before(u)' => \A i \in Lap(My(u))' : i \notin pool'
    BY DEF OwnerInv
  <2>1. CASE u = t
    <3>1. First(loc'[t].ibook) = m /\ loc'[t].ibook = k
      BY <1>1, <1>2, <1>3
    <3>2. \A v \in Threads : Owner(v)' /\ v # t => My(v)' # b0
      BY <1>4, <1>7
    <3>3. \A v \in Threads : Unfilled(v)' => First(loc'[v].ibook) # m
      BY <1>1, <1>4, <1>8
    <3>4. Taken(t)' = m .. m + p - 1
      BY <1>6, <3>1 DEF Taken
    <3>5. \A i \in Lap(b0) : i \in pool' <=> i \in Taken(t)'
      <4>1. \A i \in Lap(b0) : i \in Int /\ i >= m
        BY <1>2 DEF Lap
      <4>2. ASSUME NEW i \in Lap(b0) PROVE i \in m .. m + p - 1 <=> i < k
        BY <1>3, <4>1
      <4> QED
        BY <1>1, <1>4, <3>4, <4>2
    <3>6. Lap(My(t))' = Lap(b0)
      BY <1>1, <1>6 DEF Lap
    <3>7. m + fBsize <= fIbook' /\ p \in 1 .. fBsize
      BY <1>2, <1>3
    <3> QED
      BY <1>1, <1>2, <1>6, <2>1, <3>1, <3>2, <3>3, <3>5, <3>6, <3>7
  <2>2. CASE u # t
    <3>1. /\ Owner(u) /\ loc'[u] = loc[u] /\ My(u)' = My(u) /\ Nout(u)' = Nout(u)
          /\ Taken(u)' = Taken(u) /\ (Before(u)' <=> Before(u)) /\ (HandsOut(u)' <=> HandsOut(u))
      BY <1>7, <2>2
    <3>2. Lap(My(u))' = Lap(My(u))
      BY <1>1, <3>1 DEF Lap
    <3>3. /\ First(loc[u].ibook) = Ibook[My(u)] /\ First(loc[u].ibook) + fBsize <= fIbook
          /\ Nout(u) \in 1 .. fBsize /\ (HandsOut(u) => loc[u].n = Nout(u))
          /\ (Before(u) => \A i \in Lap(My(u)) : i \in pool <=> i \in Taken(u))
          /\ (~ Before(u) => \A i \in Lap(My(u)) : i \notin pool)
          /\ First(loc[u].ibook) \in Nat
      BY <3>1, LocTypes DEF OwnerInv
    <3>4. \A v \in Threads : Unfilled(v)' => First(loc'[v].ibook) # First(loc'[u].ibook)
      BY <1>1, <1>8, <3>1 DEF OwnerInv
    <3>5. ASSUME NEW v \in Threads, Owner(v)', v # u PROVE My(v)' # My(u)'
      <4>1. CASE v = t
        BY <1>4, <1>6, <3>1, <4>1
      <4>2. CASE v # t
        BY <1>7, <3>1, <3>5, <4>2 DEF OwnerInv
      <4> QED
        BY <4>1, <4>2
    <3>6. First(loc'[u].ibook) + fBsize <= fIbook'
      BY <1>2, <1>3, <1>5, <3>1, <3>3
    <3> QED
      BY <1>1, <3>1, <3>2, <3>3, <3>4, <3>5, <3>6
  <2> QED
    BY <2>1, <2>2
<1>16. FlushInv'
  <2>1. ~ Overrun'
    <3>1. ASSUME NEW u \in Threads, pc'[u] = "a_wait" PROVE Open(My(u), loc[u].ibook)'
      <4>1. pc[u] = "a_wait" /\ My(u)' = My(u)
        BY <1>8, <3>1
      <4>2. Open(My(u), loc[u].ibook)
        BY <1>6, <4>1 DEF FlushInv, Overrun
      <4> QED
        BY <1>1, <4>1, <4>2 DEF Open
    <3> QED
      BY <3>1 DEF Overrun
  <2>2. ASSUME NEW u \in Threads, u # t PROVE ~ loc'[u].flush /\ pc'[u] \notin FlushLabels
    BY <1>7, <2>2 DEF FlushInv
  <2>3. pc'[t] \in FlushLabels /\ loc'[t].flush /\ fHandlerLock'
    BY <1>1, <1>6 DEF FlushLabels
  <2>4. \A u \in Threads : ~ Looks(u)' /\ pc'[u] \notin {"f_filled", "f_open", "f_cas"}
    BY <1>1, <1>6, <2>2 DEF Looks, FlushLabels
  <2>5. \A u \in Threads : pc'[u] \in FlushLabels => loc'[u].flush
    BY <2>2, <2>3
  <2>6. \A u \in Threads : loc'[u].flush => fHandlerLock' /\ (pc'[u] \in FlushLabels \/ HandsOut(u)')
    BY <2>2, <2>3
  <2>7. \A u, v \in Threads : loc'[u].flush /\ loc'[v].flush => u = v
    BY <2>2
  <2> QED
    BY <2>1, <2>4, <2>5, <2>6, <2>7 DEF FlushInv
<1>17. StoredInv'
  <2>1. Lates' = Lates
    BY <1>6, <1>7 DEF Lates
  <2>2. \A u \in Threads : (Drops(u)' <=> Drops(u)) /\ (Drops(u) => Taken(u)' = Taken(u))
    BY <1>6, <1>7
  <2>3. ASSUME NEW u \in Threads, Drops(u) PROVE Taken(u) \subseteq 0 .. fIbook - 1
    BY <2>3, TakenGiven DEF Drops, Owner, HandsOut
  <2>4. 0 .. fIbook - 1 \subseteq 0 .. fIbook' - 1
    BY <1>2, <1>3, <1>5
  <2>5. Dropping' = Dropping
    BY <2>2, <2>3, <2>4 DEF Dropping
  <2> QED
    BY <1>1, <2>1, <2>5 DEF StoredInv
<1>18. BasketsInv'
  <2>1. \A u \in Threads : (Begins(u)' <=> Begins(u)) /\ (Releases(u)' <=> Releases(u))
    BY <1>6, <1>7
  \* No basket begins between fIbook and the next basket.
  <2>2. ASSUME NEW b \in Baskets PROVE Ibook[b] < fIbook' <=> Ibook[b] < fIbook
    <3>1. PICK c \in Nat : c = Ibook[b]
      BY DEF TypeInv, Counts
    <3>2. First(c) = c
      BY <3>1 DEF AlignInv, First
    <3>3. ASSUME c \in k .. m + fBsize - 1 PROVE FALSE
      <4>1. c \in First(k) .. First(k) + fBsize - 1
        BY <1>3, <3>3
      <4>2. First(c) = m
        BY <1>3, <4>1, SameBasket
      <4> QED
        BY <1>3, <3>2, <3>3, <4>2
    <3> QED
      BY <1>2, <1>3, <3>1, <3>3
  <2>3. ASSUME NEW b \in Baskets PROVE Counted(b)' <=> Counted(b)
    BY <1>1, <1>8, <2>1, <2>2 DEF Counted
  <2>4. {b \in Baskets : Counted(b)}' = {b \in Baskets : Counted(b)}
    BY <2>3
  <2> QED
    BY <1>1, <2>4 DEF BasketsInv
<1> QED
  BY <1>10, <1>11, <1>12, <1>13, <1>14, <1>15, <1>16, <1>17, <1>18 DEF CoreInv

------------------------------------------------------------------------------
(* Handing out and releasing                                                *)

\* What the owner of a basket reads from the buffer is what was put there.
LEMMA HandedOutIsTaken ==
  ASSUME IInv, NEW t \in Threads, pc[t] = "h_copy"
  PROVE  HandedOut(t) = Taken(t) /\ Taken(t) \subseteq pool
<1> USE DEF IInv
<1>1. PICK b \in Baskets, m \in Nat, n \in 1 .. fBsize :
        b = My(t) /\ m = First(loc[t].ibook) /\ n = loc[t].n
  <2>1. HandsOut(t) /\ Owner(t)
    BY DEF HandsOut, Owner
  <2> QED
    BY <2>1, LocTypes DEF OwnerInv
<1>2. /\ Owner(t) /\ Before(t) /\ n = Nout(t) /\ Taken(t) = m .. m + n - 1
      /\ Taken(t) \subseteq Lap(b)
      /\ \A i \in Lap(b) : i \in pool <=> i \in Taken(t)
  <2>1. HandsOut(t) /\ Owner(t) /\ Before(t)
    BY DEF HandsOut, Owner, Before
  <2>2. n = Nout(t)
    BY <1>1, <2>1 DEF OwnerInv
  <2> QED
    BY <1>1, <2>1, <2>2, TakenGiven DEF OwnerInv, Taken
<1>3. \A i \in m .. m + n - 1 : i \in pool /\ fBuffer[Cell(i)] = i
  BY <1>2 DEF PoolInv
<1>4. HandedOut(t) = {fBuffer[Cell(m + i)] : i \in 0 .. n - 1}
  BY <1>1 DEF HandedOut
<1>5. ASSUME NEW i \in 0 .. n - 1 PROVE m + i \in m .. m + n - 1 /\ fBuffer[Cell(m + i)] = m + i
  <2>1. m + i \in m .. m + n - 1
    BY <1>1
  <2> QED
    BY <1>3, <2>1
<1>6. ASSUME NEW j \in m .. m + n - 1 PROVE j - m \in 0 .. n - 1 /\ m + (j - m) = j
  BY <1>1
<1>7. HandedOut(t) = m .. m + n - 1
  <2>1. ASSUME NEW x \in HandedOut(t) PROVE x \in m .. m + n - 1
    <3>1. PICK i \in 0 .. n - 1 : x = fBuffer[Cell(m + i)]
      BY <1>4, <2>1
    <3> QED
      BY <1>5, <3>1
  <2>2. ASSUME NEW j \in m .. m + n - 1 PROVE j \in HandedOut(t)
    <3>1. PICK i \in 0 .. n - 1 : i = j - m /\ m + i = j
      BY <1>6
    <3>2. fBuffer[Cell(m + i)] = j
      BY <1>5, <3>1
    <3> QED
      BY <1>4, <3>2
  <2> QED
    BY <2>1, <2>2
<1> QED
  BY <1>2, <1>3, <1>7

LEMMA CopyBasketStep ==
  ASSUME IInv, NEW t \in Threads, CopyBasket(t), TypeInv'
  PROVE  CoreInv' /\ FlushInv' /\ StoredInv' /\ BasketsInv'
<1> USE DEF IInv
<1>1. /\ pc[t] = "h_copy" /\ pc'[t] = "h_stored" /\ Others(t) /\ loc' = loc
      /\ pool' = pool \ Taken(t) /\ Taken(t) \subseteq pool
      /\ UNCHANGED <<fIbook, fBuffer, Ibook, Nfilled, fNstored, fNbaskets, fHandlerLock>>
  BY GotoMoves, HandedOutIsTaken DEF CopyBasket, Others, buffer, totals, locks, counters
<1>2. PICK b0 \in Baskets, m \in Nat : b0 = My(t) /\ m = First(loc[t].ibook)
  BY LocTypes
<1>3. /\ Owner(t) /\ Owner(t)' /\ Before(t) /\ ~ Before(t)' /\ HandsOut(t) /\ HandsOut(t)'
      /\ ~ Leaves(t) /\ Leaves(t)' /\ ~ Drops(t) /\ Drops(t)'
      /\ ~ Books(t) /\ ~ Books(t)' /\ ~ Adds(t) /\ ~ Adds(t)' /\ ~ Unfilled(t) /\ ~ Unfilled(t)'
      /\ ~ Late(t) /\ ~ Late(t)' /\ ~ Begins(t) /\ ~ Begins(t)' /\ ~ Releases(t) /\ ~ Releases(t)'
      /\ ~ Looks(t) /\ ~ Looks(t)'
      /\ My(t)' = b0 /\ Nout(t)' = Nout(t) /\ Taken(t)' = Taken(t)
  BY <1>1, <1>2 DEF Owner, HandsOut, Before, Adds, Books, Unfilled, Leaves, Late, Drops, Begins, Releases,
                    Looks, My, Nout, Nelem, Taken
<1>4. /\ Taken(t) \subseteq Lap(b0) /\ Taken(t) \subseteq 0 .. fIbook - 1
      /\ IsFiniteSet(Taken(t)) /\ Cardinality(Taken(t)) = Nout(t) /\ m = Ibook[b0]
      /\ \A i \in Lap(b0) : i \in pool <=> i \in Taken(t)
      /\ \A i \in Taken(t) : i \in Nat /\ First(i) = m /\ Basket(i) = b0
  <2>1. /\ Taken(t) \subseteq Lap(b0) /\ Taken(t) \subseteq 0 .. fIbook - 1
        /\ IsFiniteSet(Taken(t)) /\ Cardinality(Taken(t)) = Nout(t) /\ m = Ibook[b0]
        /\ \A i \in Lap(b0) : i \in pool <=> i \in Taken(t)
    BY <1>2, <1>3, TakenGiven DEF OwnerInv
  <2>2. \A i \in Taken(t) : i \in Nat
    BY <1>1 DEF TypeInv
  <2> QED
    BY <2>1, <2>2, InLap
<1>5. ASSUME NEW u \in Threads, u # t
      PROVE  /\ pc'[u] = pc[u] /\ loc'[u] = loc[u]
             /\ (Books(u)' <=> Books(u)) /\ (Adds(u)' <=> Adds(u)) /\ (Unfilled(u)' <=> Unfilled(u))
             /\ (Late(u)' <=> Late(u)) /\ (Looks(u)' <=> Looks(u)) /\ (Owner(u)' <=> Owner(u))
             /\ (HandsOut(u)' <=> HandsOut(u)) /\ (Before(u)' <=> Before(u))
             /\ (Leaves(u)' <=> Leaves(u)) /\ (Drops(u)' <=> Drops(u))
             /\ (Begins(u)' <=> Begins(u)) /\ (Releases(u)' <=> Releases(u))
             /\ My(u)' = My(u) /\ Nelem(u)' = Nelem(u) /\ Nout(u)' = Nout(u) /\ Taken(u)' = Taken(u)
  BY <1>1, <1>5, OthersKeep
<1>6. \A u \in Threads : /\ My(u)' = My(u) /\ (Books(u)' <=> Books(u))
                         /\ (Adds(u)' <=> Adds(u)) /\ (Unfilled(u)' <=> Unfilled(u))
                         /\ (Owner(u)' <=> Owner(u)) /\ (Leaves(u) => Leaves(u)')
                         /\ (pc'[u] = "a_fill" <=> pc[u] = "a_fill")
                         /\ (pc'[u] = "a_wait" <=> pc[u] = "a_wait")
                         /\ (pc'[u] = "a_first" <=> pc[u] = "a_first")
  BY <1>1, <1>2, <1>3, <1>5
\* The laps of other baskets do not lose anything.
<1>7. ASSUME NEW b \in Baskets, b # b0, NEW i \in Lap(b) PROVE i \in pool' <=> i \in pool
  <2>1. ASSUME i \in Taken(t) PROVE FALSE
    BY <1>4, <1>7, <2>1, InLap
  <2> QED
    BY <1>1, <2>1
<1>8. \A b \in Baskets : Lap(b)' = Lap(b)
  BY <1>1 DEF Lap
<1>9. AlignInv'
  BY <1>1 DEF AlignInv
<1>10. AdderInv'
  <2>1. \A u \in Threads : Adds(u)' => loc'[u].ibook < fIbook' /\ ~ loc'[u].flush
    BY <1>1, <1>6 DEF AdderInv
  <2>2. \A u \in Threads : pc'[u] = "a_wait" => First(loc'[u].ibook) >= Ibook'[My(u)']
    BY <1>1, <1>6 DEF AdderInv
  <2>3. \A u \in Threads : Unfilled(u)' /\ pc'[u] # "a_wait" => First(loc'[u].ibook) = Ibook'[My(u)']
    BY <1>1, <1>6 DEF AdderInv
  <2>4. \A u \in Threads : pc'[u] = "a_first" => Place(loc'[u].ibook) = 0
    BY <1>1, <1>6 DEF AdderInv
  <2>5. \A u, v \in Threads : Adds(u)' /\ Adds(v)' /\ loc'[u].ibook = loc'[v].ibook => u = v
    BY <1>1, <1>6 DEF AdderInv
  <2> QED
    BY <2>1, <2>2, <2>3, <2>4, <2>5 DEF AdderInv
<1>11. PoolInv'
  <2>1. ASSUME NEW u \in Threads, pc'[u] = "a_fill" PROVE loc'[u].ibook \in pool'
    <3>1. Unfilled(u) /\ loc[u].ibook \in pool
      BY <1>6, <2>1, UnfilledAdds DEF PoolInv
    <3>2. First(loc[u].ibook) # m
      BY <1>2, <1>3, <3>1 DEF OwnerInv
    <3> QED
      BY <1>1, <1>4, <3>1, <3>2
  <2> QED
    BY <1>1, <1>6, <2>1 DEF PoolInv
<1>12. HeldInv'
  <2> SUFFICES ASSUME NEW i \in 0 .. fIbook - 1
               PROVE  /\ First(i) > Ibook[Basket(i)] =>
                           \E u \in Threads : pc'[u] = "a_wait" /\ loc'[u].ibook = i
                      /\ First(i) = Ibook[Basket(i)] =>
                           \/ i \in pool'
                           \/ \E u \in Threads : Books(u)' /\ loc'[u].ibook = i
                           \/ \E u \in Threads : Owner(u)' /\ My(u)' = Basket(i)
    BY <1>1 DEF HeldInv
  <2>1. i \in pool => i \in pool' \/ (Owner(t)' /\ My(t)' = Basket(i))
    BY <1>1, <1>3, <1>4
  <2> QED
    BY <1>1, <1>6, <2>1 DEF HeldInv
<1>13. FilledInv'
  <2>1. ASSUME NEW b \in Baskets, b # b0 PROVE FilledSet(b)' = FilledSet(b)
    BY <1>1, <1>6, <1>7, <1>8, <2>1 DEF FilledSet
  <2>2. ASSUME NEW b \in Baskets, \A u \in Threads : Leaves(u)' => My(u)' # b
        PROVE  Nfilled[b] = Cardinality(FilledSet(b)')
    <3>1. b # b0
      BY <1>3, <2>2
    <3>2. \A u \in Threads : Leaves(u) => My(u) # b
      BY <1>6, <2>2
    <3> QED
      BY <2>1, <3>1, <3>2 DEF FilledInv
  <2>3. ASSUME NEW b \in Baskets, Nfilled[b] = fBsize
        PROVE  \E u \in Threads : Owner(u)' /\ My(u)' = b
    <3>1. PICK u \in Threads : Owner(u) /\ My(u) = b
      BY <2>3 DEF FilledInv
    <3> QED
      BY <1>6, <3>1
  <2> QED
    BY <1>1, <2>2, <2>3 DEF FilledInv
<1>14. OwnerInv'
  <2> SUFFICES ASSUME NEW u \in Threads, Owner(u)'
               PROVE  /\ First(loc'[u].ibook) = Ibook'[My(u)']
                      /\ First(loc'[u].ibook) + fBsize <= fIbook'
                      /\ Nout(u)' \in 1 .. fBsize
                      /\ HandsOut(u)' => loc'[u].n = Nout(u)'
                      /\ \A v \in Threads : Unfilled(v)' => First(loc'[v].ibook) # First(loc'[u].ibook)
                      /\ \A v \in Threads : Owner(v)' /\ v # u => My(v)' # My(u)'
                      /\ Before(u)' => \A i \in Lap(My(u))' : i \in pool' <=> i \in Taken(u)'
                      /\ ~ Before(u)' => \A i \in Lap(My(u))' : i \notin pool'
    BY DEF OwnerInv
  <2>1. Owner(u) /\ loc'[u] = loc[u] /\ My(u)' = My(u) /\ My(u) \in Baskets
    BY <1>1, <1>6, LocTypes
  <2>2. Lap(My(u))' = Lap(My(u))
    BY <1>1, <2>1 DEF Lap
  <2>3. /\ First(loc[u].ibook) = Ibook[My(u)] /\ First(loc[u].ibook) + fBsize <= fIbook
        /\ Nout(u) \in 1 .. fBsize /\ (HandsOut(u) => loc[u].n = Nout(u))
        /\ (Before(u) => \A i \in Lap(My(u)) : i \in pool <=> i \in Taken(u))
        /\ (~ Before(u) => \A i \in Lap(My(u)) : i \notin pool)
    BY <2>1 DEF OwnerInv
  <2>4. \A v \in Threads : Unfilled(v)' => First(loc'[v].ibook) # First(loc'[u].ibook)
    BY <1>1, <1>6, <2>1 DEF OwnerInv
  <2>5. \A v \in Threads : Owner(v)' /\ v # u => My(v)' # My(u)'
    BY <1>6, <2>1 DEF OwnerInv
  <2>6. CASE u = t
    <3>1. \A i \in Lap(b0) : i \notin pool'
      BY <1>1, <1>4
    <3> QED
      BY <1>1, <1>2, <1>3, <2>1, <2>2, <2>3, <2>4, <2>5, <2>6, <3>1
  <2>7. CASE u # t
    <3>1. /\ Nout(u)' = Nout(u) /\ Taken(u)' = Taken(u) /\ (Before(u)' <=> Before(u))
          /\ (HandsOut(u)' <=> HandsOut(u))
      BY <1>5, <2>7
    <3>2. My(u) # b0
      BY <1>2, <1>3, <2>1, <2>7 DEF OwnerInv
    <3>3. \A i \in Lap(My(u)) : i \in pool' <=> i \in pool
      BY <1>7, <2>1, <3>2
    <3> QED
      BY <1>1, <2>1, <2>2, <2>3, <2>4, <2>5, <3>1, <3>3
  <2> QED
    BY <2>6, <2>7
<1>15. FlushInv'
  <2>1. FlushStep(t)
    <3>1. \A b \in Baskets : Nfilled'[b] >= Nfilled[b]
      BY <1>1, Sizes DEF TypeInv
    <3> QED
      BY <1>1, <1>3, <3>1 DEF FlushStep, FlushLabels
  <2> QED
    BY <2>1, LocalFlush
<1>16. StoredInv'
  <2>1. Lates' = Lates
    BY <1>3, <1>5 DEF Lates
  <2>2. ASSUME NEW u \in Threads, Drops(u), NEW i \in Taken(u) PROVE i \notin Taken(t)
    <3>1. Owner(u) /\ u # t /\ My(u) \in Baskets
      BY <1>3, <2>2, LocTypes DEF Owner, HandsOut, Drops
    <3>2. My(u) # b0
      BY <1>2, <1>3, <3>1 DEF OwnerInv
    <3>3. i \in Lap(My(u))
      BY <2>2, <3>1, TakenGiven
    <3> QED
      BY <1>4, <3>1, <3>2, <3>3, InLap
  <2>3. Dropping' = Dropping \union Taken(t)
    BY <1>1, <1>3, <1>4, <1>5 DEF Dropping
  <2>4. Dropping \cap Taken(t) = {}
    BY <2>2 DEF Dropping
  <2>5. PICK n \in Int, a \in Nat, c \in Nat, d \in Nat :
          /\ n = Nout(t) /\ a = Cardinality(Lates) /\ c = Cardinality(pool) /\ d = Cardinality(Dropping)
          /\ IsFiniteSet(pool) /\ IsFiniteSet(Dropping)
    BY <1>3, TakenGiven, LatesFinite, PoolFinite, DroppingFinite
  <2>6. Cardinality(Dropping') = d + n
    <3>1. Cardinality(Dropping \union Taken(t)) =
            Cardinality(Dropping) + Cardinality(Taken(t)) - Cardinality(Dropping \cap Taken(t))
      BY <1>4, <2>5, FS_Union
    <3>2. Cardinality(Dropping \cap Taken(t)) = 0
      BY <2>4, FS_EmptySet
    <3> QED
      BY <1>4, <2>3, <2>5, <3>1, <3>2
  <2>7. Cardinality(pool') = c - n
    <3>1. Cardinality(pool \ Taken(t)) = Cardinality(pool) - Cardinality(pool \cap Taken(t))
      BY <2>5, FS_Difference
    <3>2. pool \cap Taken(t) = Taken(t)
      BY <1>1
    <3> QED
      BY <1>1, <1>4, <2>5, <3>1, <3>2
  <2>8. fNstored + a = c + d /\ fNstored \in Int
    BY <2>5 DEF StoredInv, TypeInv
  <2>9. fNstored + a = (c - n) + (d + n)
    BY <2>8
  <2> QED
    BY <1>1, <2>1, <2>5, <2>6, <2>7, <2>9 DEF StoredInv
<1>17. BasketsInv'
  <2>1. \A u \in Threads : (Begins(u)' <=> Begins(u)) /\ (Releases(u)' <=> Releases(u))
    BY <1>3, <1>5
  <2>2. ASSUME NEW b \in Baskets PROVE Counted(b)' <=> Counted(b)
    BY <1>1, <1>6, <2>1 DEF Counted
  <2>3. {b \in Baskets : Counted(b)}' = {b \in Baskets : Counted(b)}
    BY <2>2
  <2> QED
    BY <1>1, <2>3 DEF BasketsInv
<1> QED
  BY <1>9, <1>10, <1>11, <1>12, <1>13, <1>14, <1>15, <1>16, <1>17 DEF CoreInv

LEMMA ReleaseFilledStep ==
  ASSUME IInv, NEW t \in Threads, ReleaseFilled(t), TypeInv'
  PROVE  CoreInv' /\ FlushInv' /\ StoredInv' /\ BasketsInv'
<1> USE DEF IInv
<1>1. /\ pc[t] = "r_filled" /\ pc'[t] = "r_book0" /\ Others(t) /\ loc' = loc
      /\ Nfilled' = [Nfilled EXCEPT ![My(t)] = 0]
      /\ UNCHANGED <<fIbook, fBuffer, pool, Ibook, fNstored, fNbaskets, fHandlerLock>>
  BY GotoMoves DEF ReleaseFilled, Others, buffer, totals, locks, history
<1>2. PICK b0 \in Baskets : b0 = My(t)
  BY LocTypes
<1>3. Nfilled'[b0] = 0 /\ \A b \in Baskets \ {b0} : Nfilled'[b] = Nfilled[b]
  BY <1>1, <1>2 DEF TypeInv
<1>4. /\ Owner(t) /\ Owner(t)' /\ ~ Before(t) /\ ~ Before(t)' /\ HandsOut(t) /\ HandsOut(t)'
      /\ Leaves(t) /\ ~ Leaves(t)' /\ ~ Drops(t) /\ ~ Drops(t)'
      /\ ~ Books(t) /\ ~ Books(t)' /\ ~ Adds(t) /\ ~ Adds(t)' /\ ~ Unfilled(t) /\ ~ Unfilled(t)'
      /\ ~ Late(t) /\ ~ Late(t)' /\ ~ Begins(t) /\ ~ Begins(t)' /\ Releases(t) /\ Releases(t)'
      /\ ~ Looks(t) /\ ~ Looks(t)'
  BY <1>1, <1>2 DEF Owner, HandsOut, Before, Adds, Books, Unfilled, Leaves, Late, Drops, Begins, Releases, Looks
<1>5. ASSUME NEW u \in Threads
      PROVE  /\ loc'[u] = loc[u] /\ (u # t => pc'[u] = pc[u] /\ (Leaves(u)' <=> Leaves(u)))
             /\ (Books(u)' <=> Books(u)) /\ (Adds(u)' <=> Adds(u)) /\ (Unfilled(u)' <=> Unfilled(u))
             /\ (Late(u)' <=> Late(u)) /\ (Looks(u)' <=> Looks(u)) /\ (Owner(u)' <=> Owner(u))
             /\ (HandsOut(u)' <=> HandsOut(u)) /\ (Before(u)' <=> Before(u))
             /\ (Drops(u)' <=> Drops(u)) /\ (Begins(u)' <=> Begins(u)) /\ (Releases(u)' <=> Releases(u))
             /\ My(u)' = My(u) /\ Nelem(u)' = Nelem(u) /\ Nout(u)' = Nout(u) /\ Taken(u)' = Taken(u)
             /\ (pc'[u] = "a_fill" <=> pc[u] = "a_fill")
             /\ (pc'[u] = "a_wait" <=> pc[u] = "a_wait")
             /\ (pc'[u] = "a_first" <=> pc[u] = "a_first")
  <2>1. CASE u = t
    <3>1. My(t)' = My(t) /\ Nelem(t)' = Nelem(t) /\ Nout(t)' = Nout(t) /\ Taken(t)' = Taken(t)
      BY <1>1 DEF My, Nelem, Nout, Taken
    <3> QED
      BY <1>1, <1>4, <2>1, <3>1
  <2>2. CASE u # t
    BY <1>1, <2>2, OthersKeep
  <2> QED
    BY <2>1, <2>2
<1>6. \A b \in Baskets : Lap(b)' = Lap(b)
  BY <1>1 DEF Lap
<1>7. AlignInv'
  BY <1>1 DEF AlignInv
<1>8. AdderInv'
  BY <1>1, <1>5 DEF AdderInv
<1>9. PoolInv'
  BY <1>1, <1>5 DEF PoolInv
<1>10. HeldInv'
  BY <1>1, <1>5 DEF HeldInv
<1>11. FilledInv'
  <2>1. ASSUME NEW b \in Baskets PROVE FilledSet(b)' = FilledSet(b)
    BY <1>1, <1>5, <1>6 DEF FilledSet
  <2>2. FilledSet(b0) = {}
    BY <1>2, <1>4 DEF FilledSet, OwnerInv
  <2>3. ASSUME NEW b \in Baskets, \A u \in Threads : Leaves(u)' => My(u)' # b
        PROVE  Nfilled'[b] = Cardinality(FilledSet(b)')
    <3>1. CASE b = b0
      BY <1>3, <2>1, <2>2, <3>1, FS_EmptySet
    <3>2. CASE b # b0
      <4>1. \A u \in Threads : Leaves(u) => My(u) # b
        BY <1>2, <1>5, <2>3, <3>2
      <4> QED
        BY <1>3, <2>1, <3>2, <4>1 DEF FilledInv
    <3> QED
      BY <3>1, <3>2
  <2>4. ASSUME NEW b \in Baskets, Nfilled'[b] = fBsize
        PROVE  \E u \in Threads : Owner(u)' /\ My(u)' = b
    <3>1. b # b0
      BY <1>3, <2>4, Sizes
    <3>2. PICK u \in Threads : Owner(u) /\ My(u) = b
      BY <1>3, <2>4, <3>1 DEF FilledInv
    <3> QED
      BY <1>5, <3>2
  <2> QED
    BY <2>3, <2>4 DEF FilledInv
<1>12. OwnerInv'
  <2> SUFFICES ASSUME NEW u \in Threads, Owner(u)'
               PROVE  /\ First(loc'[u].ibook) = Ibook'[My(u)']
                      /\ First(loc'[u].ibook) + fBsize <= fIbook'
                      /\ Nout(u)' \in 1 .. fBsize
                      /\ HandsOut(u)' => loc'[u].n = Nout(u)'
                      /\ \A v \in Threads : Unfilled(v)' => First(loc'[v].ibook) # First(loc'[u].ibook)
                      /\ \A v \in Threads : Owner(v)' /\ v # u => My(v)' # My(u)'
                      /\ Before(u)' => \A i \in Lap(My(u))' : i \in pool' <=> i \in Taken(u)'
                      /\ ~ Before(u)' => \A i \in Lap(My(u))' : i \notin pool'
    BY DEF OwnerInv
  <2>1. Owner(u)
    BY <1>5
  <2>2. Lap(My(u))' = Lap(My(u))
    BY <1>1, <1>5 DEF Lap
  <2>3. \A v \in Threads : Unfilled(v)' => First(loc'[v].ibook) # First(loc'[u].ibook)
    BY <1>5, <2>1 DEF OwnerInv
  <2>4. \A v \in Threads : Owner(v)' /\ v # u => My(v)' # My(u)'
    BY <1>5, <2>1 DEF OwnerInv
  <2> QED
    BY <1>1, <1>5, <2>1, <2>2, <2>3, <2>4 DEF OwnerInv
\* A flush that goes on has its own basket.
<1>13. FlushInv'
  <2>1. fHandlerLock' => ~ Overrun'
    BY <1>1, <1>5 DEF FlushInv, Overrun, Open
  <2>2. /\ \A u \in Threads : pc'[u] \in FlushLabels => loc'[u].flush
        /\ \A u \in Threads : pc'[u] \in {"f_filled", "f_open", "f_cas"} => Nelem(u)' # 0
    <3>1. \A u \in Threads : pc'[u] \in FlushLabels => u # t
      BY <1>1 DEF FlushLabels
    <3>2. \A u \in Threads : pc'[u] \in {"f_filled", "f_open", "f_cas"} => u # t
      BY <1>1
    <3> QED
      BY <1>5, <3>1, <3>2 DEF FlushInv
  <2>3. \A u \in Threads : loc'[u].flush => fHandlerLock' /\ (pc'[u] \in FlushLabels \/ HandsOut(u)')
    BY <1>1, <1>4, <1>5 DEF FlushInv
  <2>4. \A u, v \in Threads : loc'[u].flush /\ loc'[v].flush => u = v
    BY <1>5 DEF FlushInv
  <2>5. \A u \in Threads : Looks(u)' => loc'[u].ibook <= fIbook'
    BY <1>1, <1>5 DEF FlushInv
  <2>6. ASSUME NEW u \in Threads, pc'[u] \in {"f_open", "f_cas"}, fIbook' = loc'[u].ibook
        PROVE  Nfilled'[My(u)'] >= Nelem(u)'
    <3>1. /\ u # t /\ pc[u] \in {"f_open", "f_cas"} /\ fIbook = loc[u].ibook /\ loc[u].flush
          /\ Nfilled[My(u)] >= Nelem(u) /\ Nelem(u) # 0 /\ My(u) \in Baskets
      BY <1>1, <1>5, <2>6, LocTypes DEF FlushInv, FlushLabels
    <3>2. fHandlerLock /\ Place(fIbook) # 0 /\ My(u) = Basket(fIbook)
      BY <3>1 DEF FlushInv, Nelem, My
    <3>3. My(u) # b0
      BY <1>2, <1>4, <3>2, Current
    <3> QED
      BY <1>3, <1>5, <3>1, <3>3
  <2> QED
    BY <2>1, <2>2, <2>3, <2>4, <2>5, <2>6 DEF FlushInv
<1>14. StoredInv'
  <2>1. Lates' = Lates
    BY <1>5 DEF Lates
  <2>2. Dropping' = Dropping
    BY <1>1, <1>5 DEF Dropping
  <2> QED
    BY <1>1, <2>1, <2>2 DEF StoredInv
<1>15. BasketsInv'
  <2>1. ASSUME NEW b \in Baskets PROVE Counted(b)' <=> Counted(b)
    BY <1>1, <1>5 DEF Counted
  <2>2. {b \in Baskets : Counted(b)}' = {b \in Baskets : Counted(b)}
    BY <2>1
  <2> QED
    BY <1>1, <2>2 DEF BasketsInv
<1> QED
  BY <1>7, <1>8, <1>9, <1>10, <1>11, <1>12, <1>13, <1>14, <1>15 DEF CoreInv

LEMMA ReleaseIbookStep ==
  ASSUME IInv, NEW t \in Threads, ReleaseIbook(t), TypeInv'
  PROVE  CoreInv' /\ FlushInv' /\ StoredInv' /\ BasketsInv'
<1> USE DEF IInv
<1>1. /\ pc[t] = "r_ibook" /\ Others(t)
      /\ \/ pc'[t] = "f_unlock" /\ loc' = loc /\ loc[t].flush
         \/ pc'[t] = "idle" /\ loc'[t].flush = FALSE /\ ~ loc[t].flush
      /\ Ibook' = [Ibook EXCEPT ![My(t)] = NextLap(loc[t].ibook)]
      /\ UNCHANGED <<fIbook, fBuffer, pool, Nfilled, fNstored, fNbaskets, fHandlerLock>>
  <2>1. /\ pc[t] = "r_ibook" /\ Ibook' = [Ibook EXCEPT ![My(t)] = NextLap(loc[t].ibook)]
        /\ UNCHANGED <<fIbook, fBuffer, pool, Nfilled, fNstored, fNbaskets, fHandlerLock>>
    BY DEF ReleaseIbook, buffer, totals, locks, history
  <2>2. CASE loc[t].flush
    <3>1. Goto(t, "f_unlock") /\ UNCHANGED loc
      BY <2>2 DEF ReleaseIbook
    <3>2. pc'[t] = "f_unlock" /\ loc' = loc /\ Others(t)
      BY <3>1, GotoMoves DEF Others
    <3> QED
      BY <2>1, <2>2, <3>2
  <2>3. CASE ~ loc[t].flush
    <3>1. Return(t)
      BY <2>3 DEF ReleaseIbook
    <3> QED
      BY <2>1, <2>3, <3>1, ReturnMoves
  <2> QED
    BY <2>2, <2>3
<1>2. PICK b0 \in Baskets, m \in Nat : b0 = My(t) /\ m = Ibook[b0]
  BY LocTypes DEF TypeInv, Counts
<1>3. /\ Owner(t) /\ ~ Owner(t)' /\ ~ Before(t) /\ HandsOut(t)
      /\ ~ Leaves(t) /\ ~ Leaves(t)' /\ ~ Drops(t) /\ ~ Drops(t)'
      /\ ~ Books(t) /\ ~ Books(t)' /\ ~ Adds(t) /\ ~ Adds(t)' /\ ~ Unfilled(t) /\ ~ Unfilled(t)'
      /\ ~ Late(t) /\ ~ Late(t)' /\ ~ Begins(t) /\ ~ Begins(t)' /\ Releases(t) /\ ~ Releases(t)'
      /\ ~ Looks(t) /\ ~ Looks(t)'
  BY <1>1, <1>2 DEF Owner, HandsOut, Before, Adds, Books, Unfilled, Leaves, Late, Drops, Begins, Releases, Looks
\* The basket of t, before and after.
<1>4. /\ First(loc[t].ibook) = m /\ First(m) = m /\ Basket(m) = b0 /\ m + fBsize <= fIbook
      /\ fIbook \in Nat /\ fBsize \in Nat /\ fBsize >= 2 /\ BufferSize \in Nat /\ BufferSize >= 1
      /\ \A u \in Threads : Unfilled(u) => First(loc[u].ibook) # m
      /\ \A u \in Threads : Owner(u) /\ u # t => My(u) # b0
      /\ \A i \in Lap(b0) : i \notin pool
  <2>1. /\ First(loc[t].ibook) = m /\ m + fBsize <= fIbook
        /\ \A u \in Threads : Unfilled(u) => First(loc[u].ibook) # m
        /\ \A u \in Threads : Owner(u) /\ u # t => My(u) # b0
        /\ \A i \in Lap(b0) : i \notin pool
    BY <1>2, <1>3 DEF OwnerInv
  <2>2. Place(m) = 0 /\ Basket(m) = b0
    BY <1>2 DEF AlignInv
  <2>3. fBsize \in Nat /\ fBsize >= 2 /\ BufferSize \in Nat /\ BufferSize >= 1
    BY Sizes
  <2> QED
    BY <2>1, <2>2, <2>3 DEF First, TypeInv
<1>5. PICK w \in Nat : /\ w = m + BufferSize /\ Ibook'[b0] = w /\ Place(w) = 0 /\ Basket(w) = b0
                       /\ First(w) = w /\ w > m
  <2>1. /\ NextLap(loc[t].ibook) = First(loc[t].ibook) + BufferSize /\ NextLap(loc[t].ibook) \in Nat
        /\ Place(NextLap(loc[t].ibook)) = 0 /\ Basket(NextLap(loc[t].ibook)) = Basket(loc[t].ibook)
    BY NextLapOf, LocTypes
  <2>2. First(NextLap(loc[t].ibook)) = NextLap(loc[t].ibook)
    BY <2>1 DEF First
  <2>3. Ibook'[b0] = NextLap(loc[t].ibook)
    BY <1>1, <1>2 DEF TypeInv, Counts
  <2> QED
    BY <1>2, <1>4, <2>1, <2>2, <2>3 DEF My
<1>6. \A b \in Baskets \ {b0} : Ibook'[b] = Ibook[b] /\ Lap(b)' = Lap(b)
  BY <1>1, <1>2 DEF TypeInv, Counts, Lap
<1>7. ASSUME NEW u \in Threads, u # t
      PROVE  /\ pc'[u] = pc[u] /\ loc'[u] = loc[u]
             /\ (Books(u)' <=> Books(u)) /\ (Adds(u)' <=> Adds(u)) /\ (Unfilled(u)' <=> Unfilled(u))
             /\ (Late(u)' <=> Late(u)) /\ (Looks(u)' <=> Looks(u)) /\ (Owner(u)' <=> Owner(u))
             /\ (HandsOut(u)' <=> HandsOut(u)) /\ (Before(u)' <=> Before(u))
             /\ (Leaves(u)' <=> Leaves(u)) /\ (Drops(u)' <=> Drops(u))
             /\ (Begins(u)' <=> Begins(u)) /\ (Releases(u)' <=> Releases(u))
             /\ My(u)' = My(u) /\ Nelem(u)' = Nelem(u) /\ Nout(u)' = Nout(u) /\ Taken(u)' = Taken(u)
  BY <1>1, <1>7, OthersKeep
<1>8. \A u \in Threads : /\ (Books(u)' <=> Books(u)) /\ (Adds(u)' <=> Adds(u)) /\ (Unfilled(u)' <=> Unfilled(u))
                         /\ (Adds(u) => u # t /\ My(u)' = My(u) /\ loc'[u] = loc[u] /\ pc'[u] = pc[u])
                         /\ (Owner(u)' => u # t /\ Owner(u) /\ My(u) # b0)
                         /\ (pc'[u] = "a_fill" <=> pc[u] = "a_fill")
                         /\ (pc'[u] = "a_wait" <=> pc[u] = "a_wait")
                         /\ (pc'[u] = "a_first" <=> pc[u] = "a_first")
                         /\ loc'[u].flush = loc[u].flush
  <2>1. \A u \in Threads : Adds(u) => u # t
    BY <1>3
  <2>2. loc'[t].flush = loc[t].flush
    BY <1>1, LocTypes
  <2> QED
    BY <1>1, <1>3, <1>4, <1>7, <2>1, <2>2
\* An index of the basket that is out, and not of this lap, is of the next.
<1>9. ASSUME NEW i \in Nat, Basket(i) = b0, First(i) > m PROVE First(i) >= w
  <2>1. m + BufferSize <= First(i)
    <3>1. First(m) < First(i) /\ First(i) \in Nat
      BY <1>4, <1>9, Numbers
    <3> QED
      BY <1>4, <1>9, <3>1, LapApart
  <2> QED
    BY <1>5, <2>1
<1>10. AlignInv'
  <2>1. w + fBsize <= fIbook + BufferSize
    BY <1>4, <1>5
  <2> QED
    BY <1>1, <1>5, <1>6, <2>1 DEF AlignInv
<1>11. AdderInv'
  <2>1. \A u \in Threads : Adds(u)' => loc'[u].ibook < fIbook' /\ ~ loc'[u].flush
    BY <1>1, <1>8 DEF AdderInv
  <2>2. ASSUME NEW u \in Threads, pc'[u] = "a_wait" PROVE First(loc'[u].ibook) >= Ibook'[My(u)']
    <3>1. pc[u] = "a_wait" /\ Unfilled(u) /\ Adds(u) /\ loc'[u] = loc[u] /\ My(u)' = My(u)
      BY <1>8, <2>2, UnfilledAdds
    <3>2. /\ First(loc[u].ibook) >= Ibook[My(u)] /\ loc[u].ibook \in Nat /\ My(u) \in Baskets
          /\ First(loc[u].ibook) \in Nat
      BY <3>1, LocTypes DEF AdderInv
    <3>3. CASE My(u) = b0
      <4>1. First(loc[u].ibook) > m /\ Basket(loc[u].ibook) = b0
        BY <1>2, <1>4, <3>1, <3>2, <3>3 DEF My
      <4> QED
        BY <1>5, <1>9, <3>1, <3>2, <3>3, <4>1
    <3>4. CASE My(u) # b0
      BY <1>6, <3>1, <3>2, <3>4
    <3> QED
      BY <3>3, <3>4
  <2>3. ASSUME NEW u \in Threads, Unfilled(u)', pc'[u] # "a_wait"
        PROVE  First(loc'[u].ibook) = Ibook'[My(u)']
    <3>1. Unfilled(u) /\ Adds(u) /\ pc[u] # "a_wait" /\ loc'[u] = loc[u] /\ My(u)' = My(u)
      BY <1>8, <2>3, UnfilledAdds
    <3>2. First(loc[u].ibook) = Ibook[My(u)] /\ My(u) \in Baskets /\ My(u) # b0
      BY <1>2, <1>4, <3>1, LocTypes DEF AdderInv
    <3> QED
      BY <1>6, <3>1, <3>2
  <2>4. ASSUME NEW u \in Threads, pc'[u] = "a_first" PROVE Place(loc'[u].ibook) = 0
    <3>1. pc[u] = "a_first" /\ Adds(u)
      BY <1>8, <2>4, UnfilledAdds
    <3> QED
      BY <1>8, <3>1 DEF AdderInv
  <2>5. \A u, v \in Threads : Adds(u)' /\ Adds(v)' /\ loc'[u].ibook = loc'[v].ibook => u = v
    BY <1>8 DEF AdderInv
  <2> QED
    BY <2>1, <2>2, <2>3, <2>4, <2>5 DEF AdderInv
<1>12. ASSUME NEW i \in pool PROVE i \in Nat /\ Basket(i) \in Baskets /\ Basket(i) # b0 /\ First(i) = Ibook[Basket(i)]
  <2>1. i \in Nat /\ Basket(i) \in Baskets /\ First(i) = Ibook[Basket(i)]
    BY BasketRange DEF PoolInv
  <2>2. i \notin Lap(b0)
    BY <1>4
  <2> QED
    BY <1>2, <2>1, <2>2, InLap
<1>13. PoolInv'
  <2>1. \A i \in pool : First(i) = Ibook'[Basket(i)]
    BY <1>6, <1>12
  <2>2. \A u \in Threads : Books(u)' => loc'[u].ibook \notin pool'
    BY <1>1, <1>8, UnfilledAdds DEF PoolInv
  <2>3. \A u \in Threads : pc'[u] = "a_fill" => loc'[u].ibook \in pool'
    BY <1>1, <1>8, UnfilledAdds DEF PoolInv
  <2> QED
    BY <1>1, <2>1, <2>2, <2>3 DEF PoolInv
<1>14. HeldInv'
  <2> SUFFICES ASSUME NEW i \in 0 .. fIbook - 1
               PROVE  /\ First(i) > Ibook'[Basket(i)] =>
                           \E u \in Threads : pc'[u] = "a_wait" /\ loc'[u].ibook = i
                      /\ First(i) = Ibook'[Basket(i)] =>
                           \/ i \in pool
                           \/ \E u \in Threads : Books(u)' /\ loc'[u].ibook = i
                           \/ \E u \in Threads : Owner(u)' /\ My(u)' = Basket(i)
    BY <1>1 DEF HeldInv
  <2>0. i \in Nat /\ Basket(i) \in Baskets /\ First(i) \in Nat
    <3>1. i \in Nat
      BY <1>4
    <3> QED
      BY <3>1, BasketRange, Numbers
  <2>1. ASSUME NEW u \in Threads, pc[u] = "a_wait", loc[u].ibook = i
        PROVE  pc'[u] = "a_wait" /\ Books(u)' /\ loc'[u].ibook = i
    BY <1>8, <2>1, UnfilledAdds
  <2>2. CASE Basket(i) = b0
    <3>1. ASSUME First(i) >= w PROVE \E u \in Threads : pc'[u] = "a_wait" /\ Books(u)' /\ loc'[u].ibook = i
      <4>1. First(i) > Ibook[Basket(i)]
        BY <1>2, <1>5, <2>0, <2>2, <3>1
      <4>2. PICK u \in Threads : pc[u] = "a_wait" /\ loc[u].ibook = i
        BY <4>1 DEF HeldInv
      <4> QED
        BY <2>1, <4>2
    <3>2. First(i) >= Ibook'[Basket(i)] => First(i) >= w
      BY <1>5, <2>2
    <3>3. First(i) > Ibook'[Basket(i)] \/ First(i) = Ibook'[Basket(i)] => First(i) >= Ibook'[Basket(i)]
      BY <1>5, <2>0, <2>2
    <3> QED
      BY <3>1, <3>2, <3>3
  <2>3. CASE Basket(i) # b0
    <3>1. Ibook'[Basket(i)] = Ibook[Basket(i)]
      BY <1>6, <2>0, <2>3
    <3>2. First(i) > Ibook[Basket(i)] => \E u \in Threads : pc[u] = "a_wait" /\ loc[u].ibook = i
      BY DEF HeldInv
    <3>3. ASSUME NEW u \in Threads, Books(u), loc[u].ibook = i PROVE Books(u)' /\ loc'[u].ibook = i
      BY <1>8, <3>3, UnfilledAdds
    <3>4. ASSUME NEW u \in Threads, Owner(u), My(u) = Basket(i) PROVE Owner(u)' /\ My(u)' = Basket(i)
      BY <1>2, <1>7, <2>3, <3>4
    <3> QED
      BY <2>1, <3>1, <3>2, <3>3, <3>4 DEF HeldInv
  <2> QED
    BY <2>2, <2>3
<1>15. FilledInv'
  <2>1. FilledSet(b0) = {} /\ FilledSet(b0)' = {}
    <3>1. FilledSet(b0) = {}
      BY <1>4 DEF FilledSet
    <3>2. ASSUME NEW i \in FilledSet(b0)' PROVE FALSE
      <4>1. i \in pool /\ i \in w .. w + fBsize - 1
        BY <1>1, <1>5 DEF FilledSet, Lap
      <4>2. Basket(i) = b0
        BY <1>5, <1>12, <4>1, FirstOf
      <4> QED
        BY <1>12, <4>1, <4>2
    <3> QED
      BY <3>1, <3>2
  <2>2. Nfilled[b0] = 0
    <3>1. \A u \in Threads : Leaves(u) => My(u) # b0
      BY <1>3, <1>4, UnfilledAdds
    <3> QED
      BY <2>1, <3>1, FS_EmptySet DEF FilledInv
  <2>3. ASSUME NEW b \in Baskets, b # b0 PROVE FilledSet(b)' = FilledSet(b)
    <3>1. \A u \in Threads : pc[u] = "a_fill" => loc'[u] = loc[u]
      BY <1>8, UnfilledAdds
    <3> QED
      BY <1>1, <1>6, <1>8, <2>3, <3>1 DEF FilledSet
  <2>4. ASSUME NEW b \in Baskets, \A u \in Threads : Leaves(u)' => My(u)' # b
        PROVE  Nfilled[b] = Cardinality(FilledSet(b)')
    <3>1. CASE b = b0
      BY <2>1, <2>2, <3>1, FS_EmptySet
    <3>2. CASE b # b0
      <4>1. \A u \in Threads : Leaves(u) => My(u) # b
        BY <1>3, <1>7, <2>4
      <4> QED
        BY <2>3, <3>2, <4>1 DEF FilledInv
    <3> QED
      BY <3>1, <3>2
  <2>5. ASSUME NEW b \in Baskets, Nfilled[b] = fBsize
        PROVE  \E u \in Threads : Owner(u)' /\ My(u)' = b
    <3>1. b # b0
      BY <1>4, <2>2, <2>5
    <3>2. PICK u \in Threads : Owner(u) /\ My(u) = b
      BY <2>5 DEF FilledInv
    <3> QED
      BY <1>2, <1>7, <3>1, <3>2
  <2> QED
    BY <1>1, <2>4, <2>5 DEF FilledInv
<1>16. OwnerInv'
  <2> SUFFICES ASSUME NEW u \in Threads, Owner(u)'
               PROVE  /\ First(loc'[u].ibook) = Ibook'[My(u)']
                      /\ First(loc'[u].ibook) + fBsize <= fIbook'
                      /\ Nout(u)' \in 1 .. fBsize
                      /\ HandsOut(u)' => loc'[u].n = Nout(u)'
                      /\ \A v \in Threads : Unfilled(v)' => First(loc'[v].ibook) # First(loc'[u].ibook)
                      /\ \A v \in Threads : Owner(v)' /\ v # u => My(v)' # My(u)'
                      /\ Before(u)' => \A i \in Lap(My(u))' : i \in pool' <=> i \in Taken(u)'
                      /\ ~ Before(u)' => \A i \in Lap(My(u))' : i \notin pool'
    BY DEF OwnerInv
  <2>1. u # t /\ Owner(u) /\ My(u) # b0 /\ My(u) \in Baskets
    BY <1>8, LocTypes
  <2>2. /\ loc'[u] = loc[u] /\ My(u)' = My(u) /\ Nout(u)' = Nout(u)
        /\ Taken(u)' = Taken(u) /\ (Before(u)' <=> Before(u)) /\ (HandsOut(u)' <=> HandsOut(u))
    BY <1>7, <2>1
  <2>3. Lap(My(u))' = Lap(My(u)) /\ Ibook'[My(u)] = Ibook[My(u)]
    <3>1. Ibook'[My(u)] = Ibook[My(u)]
      BY <1>6, <2>1
    <3> QED
      BY <2>2, <3>1 DEF Lap
  <2>4. \A v \in Threads : Unfilled(v)' => First(loc'[v].ibook) # First(loc'[u].ibook)
    BY <1>8, <2>1, <2>2, UnfilledAdds DEF OwnerInv
  <2>5. \A v \in Threads : Owner(v)' /\ v # u => My(v)' # My(u)'
    BY <1>7, <1>8, <2>1, <2>2 DEF OwnerInv
  <2>6. /\ First(loc[u].ibook) = Ibook[My(u)] /\ First(loc[u].ibook) + fBsize <= fIbook
        /\ Nout(u) \in 1 .. fBsize /\ (HandsOut(u) => loc[u].n = Nout(u))
        /\ (Before(u) => \A i \in Lap(My(u)) : i \in pool <=> i \in Taken(u))
        /\ (~ Before(u) => \A i \in Lap(My(u)) : i \notin pool)
    BY <2>1 DEF OwnerInv
  <2> QED
    BY <1>1, <2>1, <2>2, <2>3, <2>4, <2>5, <2>6
<1>17. FlushInv'
  \* A thread that waits during a flush waits in a lap that is open: not b0's.
  <2>1. fHandlerLock' => ~ Overrun'
    <3>1. ASSUME fHandlerLock, NEW u \in Threads, pc'[u] = "a_wait" PROVE Open(My(u), loc[u].ibook)'
      <4>1. pc[u] = "a_wait" /\ Unfilled(u) /\ loc'[u] = loc[u] /\ My(u)' = My(u) /\ My(u) \in Baskets
        BY <1>8, <3>1, UnfilledAdds, LocTypes
      <4>2. Open(My(u), loc[u].ibook)
        BY <3>1, <4>1 DEF FlushInv, Overrun
      <4>3. My(u) # b0
        BY <1>2, <1>4, <4>1, <4>2, OpenLap
      <4> QED
        BY <1>6, <4>1, <4>2, <4>3 DEF Open
    <3> QED
      BY <1>1, <3>1 DEF Overrun
  <2>2. \A u \in Threads : pc'[u] \in FlushLabels => loc'[u].flush
    BY <1>1, <1>7, <1>8 DEF FlushInv, FlushLabels
  <2>3. ASSUME NEW u \in Threads, loc'[u].flush
        PROVE  fHandlerLock' /\ (pc'[u] \in FlushLabels \/ HandsOut(u)')
    <3>1. loc[u].flush
      BY <1>8, <2>3
    <3>2. CASE u = t
      BY <1>1, <3>1, <3>2 DEF FlushInv, FlushLabels
    <3>3. CASE u # t
      BY <1>1, <1>7, <3>1, <3>3 DEF FlushInv
    <3> QED
      BY <3>2, <3>3
  <2>4. \A u, v \in Threads : loc'[u].flush /\ loc'[v].flush => u = v
    BY <1>8 DEF FlushInv
  <2>5. \A u \in Threads : Looks(u)' => loc'[u].ibook <= fIbook'
    BY <1>1, <1>3, <1>7 DEF FlushInv
  <2>6. pc'[t] \notin {"f_filled", "f_open", "f_cas"}
    BY <1>1
  <2>7. \A u \in Threads : pc'[u] \in {"f_filled", "f_open", "f_cas"} => Nelem(u)' # 0
    BY <1>7, <2>6 DEF FlushInv
  <2>8. \A u \in Threads : pc'[u] \in {"f_open", "f_cas"} /\ fIbook' = loc'[u].ibook =>
          Nfilled'[My(u)'] >= Nelem(u)'
    BY <1>1, <1>7, <2>6 DEF FlushInv
  <2> QED
    BY <2>1, <2>2, <2>3, <2>4, <2>5, <2>7, <2>8 DEF FlushInv
<1>18. StoredInv'
  <2>1. Lates' = Lates
    BY <1>3, <1>7 DEF Lates
  <2>2. \A u \in Threads : (Drops(u)' <=> Drops(u)) /\ (Drops(u) => Taken(u)' = Taken(u))
    BY <1>3, <1>7
  <2>3. Dropping' = Dropping
    BY <1>1, <2>2 DEF Dropping
  <2> QED
    BY <1>1, <2>1, <2>3 DEF StoredInv
\* The next lap of the basket is not begun, or waits to begin.
<1>19. BasketsInv'
  <2>1. ~ Counted(b0)
    BY <1>2, <1>3 DEF Counted
  <2>2. ~ Counted(b0)'
    <3>1. ASSUME w < fIbook PROVE \E u \in Threads : Begins(u)' /\ loc'[u].ibook = w
      <4>1. w \in 0 .. fIbook - 1 /\ First(w) > Ibook[Basket(w)]
        BY <1>2, <1>4, <1>5, <3>1
      <4>2. PICK u \in Threads : pc[u] = "a_wait" /\ loc[u].ibook = w
        BY <4>1 DEF HeldInv
      <4> QED
        BY <1>8, <4>2, UnfilledAdds DEF Begins
    <3> QED
      BY <1>1, <1>5, <3>1 DEF Counted
  <2>3. ASSUME NEW b \in Baskets, b # b0 PROVE Counted(b)' <=> Counted(b)
    <3>1. Ibook'[b] = Ibook[b]
      BY <1>6, <2>3
    <3> QED
      BY <1>1, <1>2, <1>3, <1>7, <2>3, <3>1 DEF Counted
  <2>4. {b \in Baskets : Counted(b)}' = {b \in Baskets : Counted(b)}
    BY <2>1, <2>2, <2>3
  <2> QED
    BY <1>1, <2>4 DEF BasketsInv
<1> QED
  BY <1>10, <1>11, <1>13, <1>14, <1>15, <1>16, <1>17, <1>18, <1>19 DEF CoreInv

------------------------------------------------------------------------------
(* The invariant                                                            *)

LEMMA InitInv == ASSUME Init PROVE IInv
<1>1. /\ fIbook = 0 /\ fNstored = 0 /\ fNbaskets = 0 /\ fLock = FALSE /\ fHandlerLock = FALSE
      /\ fBuffer = [c \in Cells |-> Null] /\ pool = {} /\ nout = 0
      /\ \A t \in Threads : pc[t] = "idle" /\ loc[t] = NoLocals
      /\ \A b \in Baskets : Ibook[b] = b * fBsize /\ Nfilled[b] = 0
  BY DEF Init
<1>2. fBsize \in Nat /\ fBsize >= 2 /\ BufferSize \in Nat
  BY Sizes
<1>3. \A b \in Baskets : /\ Ibook[b] \in Nat /\ Place(Ibook[b]) = 0 /\ Basket(Ibook[b]) = b
                         /\ Ibook[b] + fBsize <= BufferSize
  BY <1>1, FirstLap
<1>4. \A t \in Threads : /\ ~ Books(t) /\ ~ Adds(t) /\ ~ Unfilled(t) /\ ~ Late(t) /\ ~ Looks(t) /\ ~ Owner(t)
                         /\ ~ Drops(t) /\ ~ Begins(t) /\ ~ Releases(t) /\ ~ Leaves(t)
                         /\ pc[t] \notin FlushLabels /\ ~ loc[t].flush
                         /\ pc[t] \notin {"f_filled", "f_open", "f_cas"}
  BY <1>1 DEF Books, Adds, Unfilled, Late, Looks, Owner, HandsOut, Drops, Begins, Releases, Leaves,
              FlushLabels, NoLocals
<1>5. TypeInv
  <2>1. Ibook \in Counts
    BY <1>3 DEF Init, Counts
  <2>2. NoLocals \in [ibook : Nat, tot : Nat, n : 0 .. fBsize, flush : BOOLEAN]
    BY <1>2 DEF NoLocals
  <2>3. pc \in [Threads -> Labels] /\ loc \in [Threads -> [ibook : Nat, tot : Nat, n : 0 .. fBsize, flush : BOOLEAN]]
    BY <2>2 DEF Init, Labels
  <2>4. Nbook0 \in Counts /\ Nbooktot \in Counts /\ Nfilled \in [Baskets -> 0 .. fBsize]
    BY <1>2 DEF Init, Counts
  <2> QED
    <3>1. fBuffer \in [Cells -> Nat \union {Null}]
      BY <1>1
    <3>2. fIbook \in Nat /\ fNstored \in Int /\ fNbaskets \in Int /\ nout \in Nat /\ pool \subseteq Nat
      BY <1>1
    <3> QED
      BY <1>1, <2>1, <2>3, <2>4, <3>1, <3>2 DEF TypeInv
<1>6. AlignInv
  BY <1>1, <1>2, <1>3 DEF AlignInv
<1>7. AdderInv
  BY <1>1, <1>4 DEF AdderInv
<1>8. PoolInv
  BY <1>1, <1>4 DEF PoolInv
<1>9. HeldInv
  <2>1. 0 .. fIbook - 1 = {}
    BY <1>1
  <2> QED
    BY <2>1 DEF HeldInv
<1>10. FilledInv
  <2>1. \A b \in Baskets : FilledSet(b) = {}
    BY <1>1 DEF FilledSet
  <2>2. \A b \in Baskets : Nfilled[b] # fBsize
    BY <1>1, <1>2
  <2> QED
    BY <1>1, <2>1, <2>2, FS_EmptySet DEF FilledInv
<1>11. OwnerInv
  BY <1>4 DEF OwnerInv
<1>12. FlushInv
  BY <1>1, <1>4 DEF FlushInv
<1>13. StoredInv
  <2>1. Lates = {} /\ Dropping = {}
    BY <1>4 DEF Lates, Dropping
  <2> QED
    BY <1>1, <2>1, FS_EmptySet DEF StoredInv
<1>14. BasketsInv
  <2>1. {b \in Baskets : Counted(b)} = {}
    BY <1>1, <1>3 DEF Counted
  <2> QED
    BY <1>1, <2>1, FS_EmptySet DEF BasketsInv
<1> QED
  BY <1>5, <1>6, <1>7, <1>8, <1>9, <1>10, <1>11, <1>12, <1>13, <1>14 DEF IInv

LEMMA ThreadStep ==
  ASSUME IInv, NEW t \in Threads, Call(t) \/ Inside(t), FlushAnyTime = FALSE
  PROVE  IInv'
<1>1. TypeInv'
  BY TypeStep
<1>2. CASE BookIndex(t)
  BY <1>1, <1>2, BookIndexStep DEF IInv, CoreInv
<1>3. CASE CountBasket(t)
  BY <1>1, <1>3, CountBasketStep DEF IInv, CoreInv
<1>4. CASE StoreElement(t)
  BY <1>1, <1>4, StoreElementStep DEF IInv, CoreInv
<1>5. CASE FillSlot(t)
  BY <1>1, <1>5, FillSlotStep DEF IInv, CoreInv
<1>6. CASE CountStored(t)
  BY <1>1, <1>6, CountStoredStep DEF IInv, CoreInv
<1>7. CASE FlushCall(t)
  BY <1>1, <1>7, FlushCallStep DEF IInv, CoreInv
<1>8. CASE FlushReturn(t)
  BY <1>1, <1>8, FlushReturnStep DEF IInv, CoreInv
<1>9. CASE PushIbook(t) /\ fIbook = loc[t].ibook
  BY <1>1, <1>9, PushIbookStep DEF IInv, CoreInv
<1>10. CASE CopyBasket(t)
  BY <1>1, <1>10, CopyBasketStep DEF IInv, CoreInv
<1>11. CASE DropStored(t)
  BY <1>1, <1>11, DropStoredStep DEF IInv, CoreInv
<1>12. CASE DropBasket(t)
  BY <1>1, <1>12, DropBasketStep DEF IInv, CoreInv
<1>13. CASE ReleaseFilled(t)
  BY <1>1, <1>13, ReleaseFilledStep DEF IInv, CoreInv
<1>14. CASE ReleaseIbook(t)
  BY <1>1, <1>14, ReleaseIbookStep DEF IInv, CoreInv
<1>15. CASE \/ AwaitOpen(t) \/ BookSlot(t) \/ AwaitRange(t)
            \/ CheckStored(t) \/ CheckNbaskets(t) \/ Lock(t) \/ LoadIbook(t) \/ LoadNbooktot(t)
            \/ CheckNbooked(t) \/ CheckNfilled(t) \/ CheckOpen(t)
            \/ PushIbook(t) /\ fIbook # loc[t].ibook
            \/ BookSlots(t) \/ Unlock(t) \/ ReleaseRange(t)
  <2>1. PlainStep(t)
    BY <1>1, <1>15, PlainActions
  <2> QED
    BY <1>1, <2>1, PlainStepDone DEF IInv, CoreInv
<1> QED
  BY <1>2, <1>3, <1>4, <1>5, <1>6, <1>7, <1>8, <1>9, <1>10, <1>11, <1>12, <1>13, <1>14, <1>15
     DEF Call, Inside, Adding, Flushing, HandingOut

LEMMA StutterInv ==
  ASSUME IInv, UNCHANGED vars
  PROVE  IInv'
<1>1. /\ UNCHANGED <<fIbook, fBuffer, fNstored, fNbaskets, fLock, fHandlerLock>>
      /\ UNCHANGED <<Ibook, Nbook0, Nbooktot, Nfilled, pc, loc, pool, nout>>
  BY DEF vars, buffer, totals, locks, counters, history
<1>2. ASSUME NEW t \in Threads
      PROVE  /\ (Books(t)' <=> Books(t)) /\ (Adds(t)' <=> Adds(t)) /\ (Unfilled(t)' <=> Unfilled(t))
             /\ (Late(t)' <=> Late(t)) /\ (Looks(t)' <=> Looks(t)) /\ (Owner(t)' <=> Owner(t))
             /\ (HandsOut(t)' <=> HandsOut(t)) /\ (Before(t)' <=> Before(t)) /\ (Leaves(t)' <=> Leaves(t))
             /\ (Drops(t)' <=> Drops(t)) /\ (Begins(t)' <=> Begins(t)) /\ (Releases(t)' <=> Releases(t))
             /\ My(t)' = My(t) /\ Nelem(t)' = Nelem(t) /\ Nout(t)' = Nout(t) /\ Taken(t)' = Taken(t)
  <2>1. My(t)' = My(t) /\ Nelem(t)' = Nelem(t) /\ Nout(t)' = Nout(t) /\ Taken(t)' = Taken(t)
    BY <1>1 DEF My, Nelem, Nout, Taken
  <2>2. /\ (Books(t)' <=> Books(t)) /\ (Adds(t)' <=> Adds(t)) /\ (Unfilled(t)' <=> Unfilled(t))
        /\ (Late(t)' <=> Late(t)) /\ (Looks(t)' <=> Looks(t)) /\ (Owner(t)' <=> Owner(t))
        /\ (HandsOut(t)' <=> HandsOut(t)) /\ (Before(t)' <=> Before(t)) /\ (Leaves(t)' <=> Leaves(t))
        /\ (Drops(t)' <=> Drops(t)) /\ (Begins(t)' <=> Begins(t)) /\ (Releases(t)' <=> Releases(t))
    BY <1>1 DEF Books, Adds, Unfilled, Late, Looks, Owner, HandsOut, Before, Leaves, Drops, Begins, Releases
  <2> QED
    BY <2>1, <2>2
<1>3. TypeInv' /\ AlignInv'
  BY <1>1 DEF IInv, TypeInv, AlignInv
<1>4. AdderInv' /\ PoolInv' /\ HeldInv'
  BY <1>1, <1>2 DEF IInv, AdderInv, PoolInv, HeldInv
<1>5. FilledInv'
  <2>1. \A b \in Baskets : FilledSet(b)' = FilledSet(b)
    BY <1>1 DEF FilledSet, Lap
  <2> QED
    BY <1>1, <1>2, <2>1 DEF IInv, FilledInv
<1>6. OwnerInv'
  <2>1. \A t \in Threads : Lap(My(t))' = Lap(My(t))
    BY <1>1, <1>2 DEF Lap
  <2> QED
    BY <1>1, <1>2, <2>1 DEF IInv, OwnerInv
<1>7. FlushInv'
  <2>1. Overrun' <=> Overrun
    BY <1>1, <1>2 DEF Overrun, Open
  <2> QED
    BY <1>1, <1>2, <2>1 DEF IInv, FlushInv
<1>8. StoredInv'
  <2>1. Lates' = Lates /\ Dropping' = Dropping
    BY <1>1, <1>2 DEF Lates, Dropping
  <2> QED
    BY <1>1, <2>1 DEF IInv, StoredInv
<1>9. BasketsInv'
  <2>1. \A b \in Baskets : Counted(b)' <=> Counted(b)
    BY <1>1, <1>2 DEF Counted
  <2>2. {b \in Baskets : Counted(b)}' = {b \in Baskets : Counted(b)}
    BY <2>1
  <2> QED
    BY <1>1, <2>2 DEF IInv, BasketsInv
<1> QED
  BY <1>3, <1>4, <1>5, <1>6, <1>7, <1>8, <1>9 DEF IInv

\* The invariant holds as long as no flush meets a booking that overruns the buffer.
THEOREM BasketizerInvariant == ASSUME FlushAnyTime = FALSE PROVE Spec => []IInv
<1>1. Init => IInv
  BY InitInv
<1>2. IInv /\ [Next]_vars => IInv'
  BY ThreadStep, StutterInv DEF Next
<1> QED
  BY <1>1, <1>2, PTL DEF Spec

------------------------------------------------------------------------------
(* What it implies                                                          *)

\* fNbaskets is never negative and never more than the baskets there are; no
\* counter of a basket leaves its range.
THEOREM BasketizerTypeOK == ASSUME FlushAnyTime = FALSE PROVE Spec => []TypeOK
<1>1. IInv => TypeOK
  <2> SUFFICES ASSUME IInv PROVE TypeOK
    OBVIOUS
  <2>1. TypeInv /\ fNbaskets = Cardinality({b \in Baskets : Counted(b)})
    BY DEF IInv, BasketsInv
  <2>2. fNbaskets \in 0 .. NBaskets
    BY <2>1, BasketsFinite
  <2> QED
    BY <2>1, <2>2 DEF TypeInv, TypeOK
<1> QED
  BY <1>1, BasketizerInvariant, PTL

\* A basket that is handed out has nobody else that hands it out or fills it.
THEOREM BasketsAreExclusive == ASSUME FlushAnyTime = FALSE PROVE Spec => []ExclusiveBasket
<1>1. IInv => ExclusiveBasket
  <2> SUFFICES ASSUME IInv, NEW t \in Threads, NEW u \in Threads, t # u, HandsOut(t),
                      HandsOut(u) \/ Fills(u)
               PROVE  My(t) # My(u)
    BY DEF ExclusiveBasket
  <2>1. Owner(t) /\ First(loc[t].ibook) = Ibook[My(t)]
    BY DEF Owner, IInv, OwnerInv
  <2>2. CASE HandsOut(u)
    BY <2>1, <2>2 DEF Owner, IInv, OwnerInv
  <2>3. CASE Fills(u)
    <3>1. Unfilled(u) /\ pc[u] # "a_wait"
      BY <2>3 DEF Fills, Unfilled, Books
    <3>2. First(loc[u].ibook) = Ibook[My(u)] /\ First(loc[u].ibook) # First(loc[t].ibook)
      BY <2>1, <3>1 DEF IInv, AdderInv, OwnerInv
    <3> QED
      BY <2>1, <3>2
  <2> QED
    BY <2>2, <2>3
<1> QED
  BY <1>1, BasketizerInvariant, PTL

\* With nobody inside, what is stored is the current basket and nothing else.
LEMMA RestPool ==
  ASSUME IInv, \A t \in Threads : pc[t] = "idle"
  PROVE  /\ pool = First(fIbook) .. fIbook - 1
         /\ \A i \in 0 .. fIbook - 1 : First(i) = Ibook[Basket(i)] => i \in pool
<1> USE DEF IInv
<1>1. PICK k \in Nat, f \in Nat : k = fIbook /\ f = First(k)
  BY Numbers DEF TypeInv
<1>2. f <= k /\ k < f + fBsize /\ fBsize \in Nat
  BY <1>1, Numbers, Sizes
<1>3. \A t \in Threads : ~ Owner(t) /\ ~ Books(t) /\ ~ Leaves(t) /\ pc[t] # "a_wait" /\ pc[t] # "a_fill"
  BY DEF Owner, HandsOut, Books, Leaves
<1>4. \A i \in 0 .. k - 1 : /\ ~ (First(i) > Ibook[Basket(i)])
                            /\ First(i) = Ibook[Basket(i)] => i \in pool
  BY <1>1, <1>3 DEF HeldInv
<1>5. ASSUME NEW i \in pool PROVE i \in f .. k - 1
  <2>1. PICK b \in Baskets, m \in Nat : b = Basket(i) /\ m = Ibook[b]
    BY BasketRange DEF PoolInv, TypeInv, Counts
  <2>2. i \in Nat /\ i < k /\ First(i) = m
    BY <1>1, <2>1 DEF PoolInv
  <2>3. First(i) <= i /\ i < First(i) + fBsize
    BY <2>2, Numbers
  \* A basket before the current one would be full, and have an owner.
  <2>4. ASSUME m < f PROVE FALSE
    <3>1. m + fBsize <= f
      BY <1>1, <2>2, <2>4, Apart
    <3>2. ASSUME NEW j \in Lap(b) PROVE j \in pool
      <4>1. j \in 0 .. k - 1
        BY <1>2, <2>1, <3>1, <3>2 DEF Lap
      <4>2. First(j) = m /\ Basket(j) = b
        BY <2>1, <4>1, <3>2, InLap
      <4> QED
        BY <1>4, <2>1, <4>1, <4>2
    <3>3. FilledSet(b) = Lap(b)
      BY <1>3, <3>2 DEF FilledSet
    <3>4. Nfilled[b] = fBsize
      BY <1>3, <3>3, LapFinite DEF FilledInv
    <3> QED
      BY <1>3, <3>4 DEF FilledInv
  <2>5. ASSUME f < m PROVE FALSE
    <3>1. f + fBsize <= m
      BY <1>1, <2>2, <2>5, Apart
    <3> QED
      BY <1>2, <2>2, <2>3, <3>1
  <2> QED
    BY <2>2, <2>3, <2>4, <2>5
<1>6. ASSUME NEW i \in f .. k - 1 PROVE i \in pool
  <2>1. i \in First(k) .. First(k) + fBsize - 1 /\ i \in 0 .. k - 1
    BY <1>1, <1>2
  <2>2. First(i) = f /\ Basket(i) = Basket(k)
    BY <1>1, <2>1, SameBasket
  <2>3. PICK m \in Nat : m = Ibook[Basket(k)] /\ m <= f
    BY <1>1, NotAhead
  <2>4. f = m
    BY <1>4, <2>1, <2>2, <2>3
  <2> QED
    BY <1>4, <2>1, <2>2, <2>3, <2>4
<1> QED
  BY <1>1, <1>4, <1>5, <1>6

\* With no call going on the counters are exact and the pool is the current basket.
THEOREM BasketizerAtRest == ASSUME FlushAnyTime = FALSE PROVE Spec => []AtRest
<1>1. IInv => AtRest
  <2> SUFFICES ASSUME IInv, \A t \in Threads : pc[t] = "idle"
               PROVE  /\ pool = First(fIbook) .. fIbook - 1
                      /\ fNstored = Cardinality(pool)
                      /\ fNbaskets = IF pool = {} THEN 0 ELSE 1
    BY DEF AtRest
  <2>1. PICK k \in Nat, f \in Nat : k = fIbook /\ f = First(k) /\ f <= k
    BY Numbers DEF IInv, TypeInv
  <2>2. pool = f .. k - 1 /\ \A i \in 0 .. k - 1 : First(i) = Ibook[Basket(i)] => i \in pool
    BY <2>1, RestPool
  <2>3. fNstored = Cardinality(pool)
    <3>1. Lates = {} /\ Dropping = {}
      BY DEF Lates, Late, Dropping, Drops
    <3>2. Cardinality(Lates) = 0 /\ Cardinality(Dropping) = 0
      BY <3>1, FS_EmptySet
    <3>3. fNstored + 0 = Cardinality(pool) + 0 /\ fNstored \in Int
      BY <3>2 DEF IInv, StoredInv, TypeInv
    <3> QED
      BY <3>3, PoolFinite
  <2>4. \A b \in Baskets : Counted(b) <=> Ibook[b] < k
    BY <2>1 DEF Counted, Begins, Releases
  <2>5. ASSUME NEW b \in Baskets, Counted(b) PROVE f \in pool /\ b = Basket(k)
    <3>1. PICK m \in Nat : m = Ibook[b] /\ m < k /\ Basket(m) = b /\ First(m) = m
      BY <2>4, <2>5 DEF IInv, AlignInv, TypeInv, Counts, First
    <3>2. m \in 0 .. k - 1
      BY <3>1
    <3>3. m \in pool
      BY <2>2, <3>1, <3>2
    <3>4. m \in f .. f + fBsize - 1
      <4>1. k < f + fBsize /\ fBsize \in Nat
        BY <2>1, Numbers, Sizes
      <4> QED
        BY <2>2, <3>1, <3>3, <4>1
    <3>5. First(m) = f /\ Basket(m) = Basket(k)
      BY <2>1, <3>4, SameBasket
    <3> QED
      BY <3>1, <3>3, <3>5
  <2>6. CASE pool = {}
    <3>1. {b \in Baskets : Counted(b)} = {}
      BY <2>5, <2>6
    <3> QED
      BY <2>1, <2>2, <2>3, <2>6, <3>1, FS_EmptySet DEF IInv, BasketsInv
  <2>7. CASE pool # {}
    <3>1. f < k /\ f \in pool
      BY <2>1, <2>2, <2>7
    <3>2. Basket(k) \in Baskets /\ Counted(Basket(k))
      <4>1. First(f) = f /\ Basket(f) = Basket(k) /\ Basket(k) \in Baskets
        BY <2>1, FirstFirst
      <4>2. First(f) = Ibook[Basket(f)]
        BY <3>1 DEF IInv, PoolInv
      <4> QED
        BY <2>4, <3>1, <4>1, <4>2
    <3>3. {b \in Baskets : Counted(b)} = {Basket(k)}
      BY <2>5, <3>2
    <3> QED
      BY <2>1, <2>2, <2>3, <2>7, <3>3, FS_Singleton DEF IInv, BasketsInv
  <2> QED
    BY <2>6, <2>7
<1> QED
  BY <1>1, BasketizerInvariant, PTL

------------------------------------------------------------------------------
(* The basketizer is a pool                                                 *)

\* The bound of the model: no element is booked from MaxBook on.
BoundInv == \A t \in Threads : Adds(t) => loc[t].ibook < MaxBook

LEMMA BoundStep ==
  ASSUME IInv, BoundInv, [Next]_vars, FlushAnyTime = FALSE
  PROVE  BoundInv'
<1> SUFFICES ASSUME NEW t \in Threads, Call(t) \/ Inside(t) PROVE BoundInv'
  <2>1. CASE UNCHANGED vars
    BY <2>1 DEF BoundInv, Adds, vars
  <2> QED
    BY <2>1 DEF Next
<1>1. \A u \in Threads \ {t} : Adds(u)' => Adds(u) /\ loc'[u].ibook = loc[u].ibook
  <2>1. ASSUME NEW u \in Threads \ {t} PROVE pc'[u] = pc[u] /\ loc'[u] = loc[u]
    BY DEF IInv, TypeInv, Call, Inside, Adding, Flushing, HandingOut, BookIndex, AwaitOpen, BookSlot, CountBasket,
           AwaitRange, StoreElement, FillSlot, CountStored, FlushCall, CheckStored, CheckNbaskets, Lock, LoadIbook,
           LoadNbooktot, CheckNbooked, CheckNfilled, CheckOpen, FlushFails, PushIbook, BookSlots, Unlock,
           FlushReturn, CopyBasket, DropStored, DropBasket, ReleaseFilled, ReleaseRange, ReleaseIbook,
           Goto, Keep, Return
  <2> QED
    BY <2>1 DEF Adds
<1>2. ASSUME Adds(t)' PROVE loc'[t].ibook < MaxBook
  <2>1. CASE BookIndex(t)
    BY <2>1, KeepMoves DEF BookIndex, IInv
  <2>2. CASE \/ AwaitOpen(t) \/ BookSlot(t) \/ AwaitRange(t)
             \/ CheckStored(t) \/ CheckNbaskets(t) \/ Lock(t) \/ LoadIbook(t) \/ LoadNbooktot(t)
             \/ CheckNbooked(t) \/ CheckNfilled(t) \/ CheckOpen(t)
             \/ PushIbook(t) /\ fIbook # loc[t].ibook
             \/ BookSlots(t) \/ Unlock(t) \/ ReleaseRange(t)
    <3>1. PlainStep(t)
      BY <2>2, TypeStep, PlainActions
    <3> QED
      BY <1>2, <3>1 DEF PlainStep, LocalStep, BoundInv
  <2>3. CASE CountBasket(t) \/ StoreElement(t) \/ FillSlot(t)
    <3>1. Adds(t) /\ loc'[t].ibook = loc[t].ibook
      BY <2>3, KeepMoves DEF CountBasket, StoreElement, FillSlot, Adds, IInv
    <3> QED
      BY <3>1 DEF BoundInv
  <2>4. CASE \/ CountStored(t) \/ FlushCall(t) \/ FlushReturn(t)
             \/ PushIbook(t) /\ fIbook = loc[t].ibook
             \/ CopyBasket(t) \/ DropStored(t) \/ DropBasket(t) \/ ReleaseFilled(t) \/ ReleaseIbook(t)
    <3>1. pc'[t] \in {"h_copy", "idle", "l_stored", "f_slots", "h_stored", "h_baskets", "r_filled", "r_book0",
                      "f_unlock"}
      BY <2>4, GotoMoves, ReturnMoves DEF CountStored, FlushCall, FlushReturn, PushIbook, CopyBasket, DropStored,
                      DropBasket, ReleaseFilled, ReleaseIbook, IInv
    <3> QED
      BY <1>2, <3>1 DEF Adds
  <2> QED
    <3>1. \/ BookIndex(t)
          \/ CountBasket(t) \/ StoreElement(t) \/ FillSlot(t)
          \/ CountStored(t) \/ FlushCall(t) \/ FlushReturn(t) \/ PushIbook(t)
          \/ CopyBasket(t) \/ DropStored(t) \/ DropBasket(t) \/ ReleaseFilled(t) \/ ReleaseIbook(t)
          \/ AwaitOpen(t) \/ BookSlot(t) \/ AwaitRange(t)
          \/ CheckStored(t) \/ CheckNbaskets(t) \/ Lock(t) \/ LoadIbook(t) \/ LoadNbooktot(t)
          \/ CheckNbooked(t) \/ CheckNfilled(t) \/ CheckOpen(t)
          \/ BookSlots(t) \/ Unlock(t) \/ ReleaseRange(t)
      BY DEF Call, Inside, Adding, Flushing, HandingOut
    <3>2. PushIbook(t) => loc'[t].ibook < MaxBook
      BY <2>2, <2>4
    <3> QED
      BY <2>1, <2>2, <2>3, <2>4, <3>1, <3>2
<1> QED
  BY <1>1, <1>2 DEF BoundInv

LEMMA AddIsAdd ==
  ASSUME IInv, BoundInv, NEW t \in Threads, StoreElement(t)
  PROVE  Abstract!Add
<1>1. PICK x \in Nat : x = loc[t].ibook
  BY LocTypes DEF IInv
<1>2. Books(t) /\ Adds(t)
  BY DEF StoreElement, Books, Adds
<1>3. x \in 0 .. MaxBook - 1 /\ x \notin pool
  BY <1>1, <1>2, SizesAssumption DEF BoundInv, IInv, PoolInv
<1>4. pool' = pool \union {x} /\ nout' = nout
  BY <1>1 DEF StoreElement
<1> QED
  BY <1>3, <1>4 DEF Abstract!Add

\* The pool counts as the basketizer does.
LEMMA PoolCardinality ==
  ASSUME NEW S
  PROVE  Abstract!Cardinality(S) = Cardinality(S)
BY DEF Abstract!Cardinality, Cardinality

LEMMA CopyIsHandOut ==
  ASSUME IInv, NEW t \in Threads, CopyBasket(t)
  PROVE  Abstract!HandOut
<1>1. pc[t] = "h_copy" /\ Owner(t) /\ HandsOut(t)
  BY DEF CopyBasket, Owner, HandsOut
<1>2. /\ HandedOut(t) = Taken(t) /\ Taken(t) \subseteq pool
      /\ Cardinality(Taken(t)) = Nout(t) /\ Nout(t) \in 1 .. fBsize /\ loc[t].n = Nout(t)
      /\ Taken(t) # {}
  <2>1. /\ HandedOut(t) = Taken(t) /\ Taken(t) \subseteq pool
        /\ Cardinality(Taken(t)) = Nout(t) /\ Nout(t) \in 1 .. fBsize /\ loc[t].n = Nout(t)
    BY <1>1, HandedOutIsTaken, TakenGiven DEF IInv, OwnerInv
  <2> QED
    BY <2>1, FS_EmptySet
<1>3. pool' = pool \ Taken(t) /\ nout' = nout + Cardinality(Taken(t))
  BY <1>2 DEF CopyBasket
<1>4. Taken(t) \in (SUBSET pool) \ {{}}
  BY <1>2
<1>5. Cardinality(Taken(t)) <= fBsize
  BY <1>2
<1>6. PICK basket \in (SUBSET pool) \ {{}} : basket = Taken(t)
  BY <1>4
<1>7. /\ Cardinality(basket) <= fBsize
      /\ pool' = pool \ basket
      /\ nout' = nout + Cardinality(basket)
  BY <1>3, <1>5, <1>6
<1> QED
  BY <1>7, PoolCardinality DEF Abstract!HandOut

LEMMA StepIsPool ==
  ASSUME IInv, BoundInv, [Next]_vars
  PROVE  [Abstract!Next]_(<<pool, nout>>)
<1>1. CASE UNCHANGED vars
  BY <1>1 DEF vars, history
<1>2. ASSUME NEW t \in Threads, Call(t) \/ Inside(t), ~ StoreElement(t), ~ CopyBasket(t)
      PROVE  UNCHANGED <<pool, nout>>
  BY <1>2 DEF Call, Inside, Adding, Flushing, HandingOut, BookIndex, AwaitOpen, BookSlot, CountBasket,
     AwaitRange, FillSlot, CountStored, FlushCall, CheckStored, CheckNbaskets, Lock, LoadIbook,
     LoadNbooktot, CheckNbooked, CheckNfilled, CheckOpen, PushIbook, BookSlots, Unlock,
     FlushReturn, DropStored, DropBasket, ReleaseFilled, ReleaseRange, ReleaseIbook, history
<1> QED
  BY <1>1, <1>2, AddIsAdd, CopyIsHandOut DEF Next, Abstract!Next

\* Every element is handed out once, in one basket, for any number of threads,
\* baskets and elements to a basket.
THEOREM BasketizerImplementsPool == ASSUME FlushAnyTime = FALSE PROVE Spec => ImplementsPool
<1>1. Init => Abstract!Init /\ BoundInv
  BY DEF Init, Abstract!Init, BoundInv, Adds
<1>2. IInv /\ BoundInv /\ [Next]_vars => BoundInv'
  BY BoundStep
<1>3. IInv /\ BoundInv /\ [Next]_vars => [Abstract!Next]_(<<pool, nout>>)
  BY StepIsPool
<1> QED
  BY <1>1, <1>2, <1>3, BasketizerInvariant, PTL DEF Spec, ImplementsPool, Abstract!Spec

=============================================================================
