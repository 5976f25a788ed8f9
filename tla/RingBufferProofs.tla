-------------------------- MODULE RingBufferProofs --------------------------
(* What holds of the ring buffer for any capacity, any batches and any number of *)
(* restarts between operations: it counts its free bytes exactly, keeps its      *)
(* entries whole, and is the queue the send loop relies on.                      *)
EXTENDS RingBuffer, TLAPS

\* The stages at which an operation has not moved an offset yet.  The theorems are
\* about processes that die at these only.
Untorn == {"idle", "push_len", "pop_len"}

-----------------------------------------------------------------------------
(* Places of the ring, by their distance from the first entry.                 *)

\* The remainder of what is less than three times the capacity.
LEMMA Remainder ==
  /\ \A x \in 0 .. Capacity - 1 : x % Capacity = x
  /\ \A x \in Capacity .. 2 * Capacity - 1 : x % Capacity = x - Capacity
  /\ \A x \in Nat : x % Capacity \in Slots
  /\ \A x \in 0 .. 2 * Capacity - 1, y \in 0 .. Capacity - 1 :
       ((x % Capacity) + y) % Capacity = (x + y) % Capacity
<1> DEFINE C == Capacity
<1>1. C \in Nat \ {0}
  BY SizesAssumption
<1> HIDE DEF C
<1>2. \A x \in 0 .. C - 1 : x % C = x
  BY <1>1
<1>3. \A x \in C .. 2 * C - 1 : x % C = x - C
  BY <1>1
<1>4. \A x \in Nat : x % C \in 0 .. C - 1
  BY <1>1
<1>5. \A x \in C .. 3 * C - 1 : x % C = (x - C) % C
  BY <1>1
<1>6. ASSUME NEW x \in 0 .. 2 * C - 1, NEW y \in 0 .. C - 1
      PROVE  ((x % C) + y) % C = (x + y) % C
  <2>1. CASE x < C
    <3>1. x % C = x
      BY <1>1, <1>2, <2>1
    <3> QED
      BY <3>1
  <2>2. CASE x >= C
    <3>1. x % C = x - C
      BY <1>1, <1>3, <2>2
    <3>2. (x + y) % C = (x + y - C) % C
      BY <1>1, <1>5, <2>2
    <3>3. (x - C) + y = x + y - C
      BY <1>1
    <3> QED
      BY <3>1, <3>2, <3>3
  <2> QED
    BY <1>1, <2>1, <2>2
<1> QED
  BY <1>2, <1>3, <1>4, <1>6 DEF Slots, C

\* What the data region dat has at distance d from st.
View(dat, st, d) == dat[(st + d) % Capacity]

\* What is stored at a distance changes the view there and nowhere else.
LEMMA StoredView ==
  ASSUME NEW st \in Slots, NEW u \in Nat, NEW n \in Nat \ {0}, u + n <= Capacity,
         NEW cells, NEW new, new = Stored((st + u) % Capacity, n, cells)
  PROVE  /\ \A d \in u .. u + n - 1 : View(new, st, d) = cells[d - u]
         /\ \A d \in 0 .. Capacity - 1 :
              d \notin u .. u + n - 1 => View(new, st, d) = View(data, st, d)
<1> DEFINE C == Capacity
           off == (st + u) % C
<1>1. C \in Nat \ {0} /\ st \in 0 .. C - 1 /\ u \in 0 .. C - 1
  BY SizesAssumption DEF Slots
<1>2. \A i \in 0 .. C - 1 :
        new[i] = IF (i + C - off) % C < n THEN cells[(i + C - off) % C] ELSE data[i]
  BY DEF Stored, Slots
<1> HIDE DEF C, off
<1>3. \A x \in 0 .. C - 1 : x % C = x
  BY Remainder DEF C
<1>4. \A x \in C .. 2 * C - 1 : x % C = x - C
  BY Remainder DEF C
<1>5. off = IF st + u < C THEN st + u ELSE st + u - C
  BY <1>1, <1>3, <1>4 DEF off
<1>6. ASSUME NEW d \in 0 .. C - 1
      PROVE  LET i == (st + d) % C IN
             /\ i \in 0 .. C - 1
             /\ (i + C - off) % C = IF d >= u THEN d - u ELSE d - u + C
  <2> DEFINE i == (st + d) % C
  <2>1. i = IF st + d < C THEN st + d ELSE st + d - C
    BY <1>1, <1>3, <1>4
  <2> HIDE DEF i
  <2>2. i \in 0 .. C - 1 /\ off \in 0 .. C - 1
    BY <1>1, <1>5, <2>1
  <2>3. i + C - off = IF d >= u THEN IF st + u < C /\ st + d >= C THEN d - u ELSE d - u + C
                                ELSE IF st + u >= C /\ st + d < C THEN d - u + 2 * C
                                                                  ELSE d - u + C
    BY <1>1, <1>5, <2>1
  <2>4. i + C - off \in 0 .. 2 * C - 1
    BY <1>1, <2>2
  <2>5. (i + C - off) % C = IF i + C - off < C THEN i + C - off ELSE i - off
    <3>1. CASE i + C - off < C
      BY <1>1, <1>3, <2>2, <2>4, <3>1
    <3>2. CASE i + C - off >= C
      <4>1. i + C - off \in C .. 2 * C - 1
        BY <1>1, <2>2, <2>4, <3>2
      <4>2. (i + C - off) % C = (i + C - off) - C
        BY <1>4, <4>1
      <4> QED
        BY <1>1, <2>2, <3>2, <4>2
    <3> QED
      BY <1>1, <2>2, <3>1, <3>2
  <2>6. (i + C - off) % C = IF d >= u THEN d - u ELSE d - u + C
    BY <1>1, <1>5, <2>1, <2>2, <2>5
  <2> QED
    BY <2>2, <2>6 DEF i
<1>7. ASSUME NEW d \in u .. u + n - 1 PROVE View(new, st, d) = cells[d - u]
  <2>1. d \in 0 .. C - 1 /\ d >= u /\ d - u < n
    BY <1>1 DEF C
  <2> QED
    BY <1>2, <1>6, <2>1 DEF View, C
<1>8. ASSUME NEW d \in 0 .. C - 1, d \notin u .. u + n - 1
      PROVE  View(new, st, d) = View(data, st, d)
  <2>1. ~ ((IF d >= u THEN d - u ELSE d - u + C) < n)
    BY <1>1, <1>8 DEF C
  <2> QED
    BY <1>2, <1>6, <2>1 DEF View, C
<1> QED
  BY <1>7, <1>8 DEF C

\* The view from further on.
LEMMA ViewFurther ==
  ASSUME NEW st \in Slots, NEW u \in 0 .. Capacity, NEW d \in 0 .. Capacity - 1, NEW dat
  PROVE  View(dat, (st + u) % Capacity, d) = View(dat, st, u + d)
<1>1. Capacity \in Nat \ {0} /\ st \in 0 .. Capacity - 1
  BY SizesAssumption DEF Slots
<1>2. st + u \in 0 .. 2 * Capacity - 1
  BY <1>1
<1>3. (((st + u) % Capacity) + d) % Capacity = ((st + u) + d) % Capacity
  BY <1>2, Remainder
<1>4. (st + u) + d = st + (u + d)
  BY <1>1
<1> QED
  BY <1>3, <1>4 DEF View

\* A place further on, and the offset that was moved there.
Place(d) == (start + d) % Capacity

\* Offsets move by what is added to the distance.
LEMMA PlaceFurther ==
  ASSUME start \in Slots, NEW u \in 0 .. Capacity, NEW n \in 0 .. Capacity - 1
  PROVE  (Place(u) + n) % Capacity = Place(u + n) /\ Place(u) \in Slots
<1>1. Capacity \in Nat \ {0} /\ start \in 0 .. Capacity - 1
  BY SizesAssumption DEF Slots
<1>2. start + u \in 0 .. 2 * Capacity - 1 /\ start + u \in Nat
  BY <1>1
<1>3. (((start + u) % Capacity) + n) % Capacity = ((start + u) + n) % Capacity
  BY <1>2, Remainder
<1>4. (start + u) + n = start + (u + n)
  BY <1>1
<1>5. (start + u) % Capacity \in Slots
  BY <1>2, Remainder
<1> QED
  BY <1>3, <1>4, <1>5 DEF Place

-----------------------------------------------------------------------------
(* The invariant: entries lie one after the other from start on, whole, and the *)
(* header is where the operation in progress has moved it.                     *)

Entry == [batch : Batches, dist : Nat]
EndOf(e) == e.dist + EntrySize[e.batch]

Layout(es, u) ==
  /\ es \in Seq(Entry) /\ u \in 0 .. Capacity
  /\ es = <<>> => u = 0
  /\ es # <<>> => es[1].dist = 0 /\ EndOf(es[Len(es)]) = u
  /\ \A k \in 1 .. Len(es) - 1 : es[k + 1].dist = EndOf(es[k])
  /\ \A j, k \in 1 .. Len(es) : j < k => EndOf(es[j]) <= es[k].dist
  /\ \A k \in 1 .. Len(es) : EndOf(es[k]) <= u

HoldsLen(dat, st, d, b) ==
  \A j \in 0 .. LenSize - 1 : View(dat, st, d + j) = <<"len", Size[b], j>>
HoldsBatch(dat, st, d, b) ==
  \A j \in 0 .. Size[b] - 1 : View(dat, st, d + LenSize + j) = <<"batch", b, j>>
Whole(dat, st, e) == HoldsLen(dat, st, e.dist, e.batch) /\ HoldsBatch(dat, st, e.dist, e.batch)

Pushing(b) ==
  /\ b \in Batches /\ EntrySize[b] <= Capacity \div 4 /\ used + EntrySize[b] <= Capacity
  /\ read_offset = start
  /\ \/ op = [at |-> "push_len", batch |-> b] /\ write_offset = Place(used)
     \/ /\ op = [at |-> "push_data", batch |-> b] /\ write_offset = Place(used + LenSize)
        /\ HoldsLen(data, start, used, b)
     \/ /\ op = [at |-> "push_count", batch |-> b] /\ write_offset = Place(used + EntrySize[b])
        /\ HoldsLen(data, start, used, b) /\ HoldsBatch(data, start, used, b)

Popping(b) ==
  /\ entries # <<>> /\ b = entries[1].batch /\ write_offset = Place(used)
  /\ \/ op = [at |-> "pop_len"] /\ read_offset = start
     \/ op = [at |-> "pop_data", len |-> Size[b]] /\ read_offset = Place(LenSize)
     \/ op = [at |-> "pop_count", batch |-> b] /\ read_offset = Place(EntrySize[b])

Operation ==
  \/ op = Idle /\ read_offset = start /\ write_offset = Place(used)
  \/ \E b : Pushing(b)
  \/ \E b : Popping(b)

RingInv ==
  /\ Layout(entries, used) /\ count = Len(entries) /\ start \in Slots
  /\ \A k \in 1 .. Len(entries) : Whole(data, start, entries[k])
  /\ Operation
  /\ data \in [Slots -> Cells] /\ crashes \in 0 .. MaxCrashes

\* Sizes are positive.
LEMMA Sizes ==
  /\ Capacity \in Nat \ {0} /\ LenSize \in Nat \ {0}
  /\ \A b \in Batches : /\ Size[b] \in Nat \ {0}
                        /\ EntrySize[b] = LenSize + Size[b] /\ EntrySize[b] \in Nat \ {0}
<1>1. \A b \in Batches : Size[b] \in Nat \ {0}
  BY SizesAssumption
<1>2. \A b \in Batches : EntrySize[b] = LenSize + Size[b]
  BY DEF EntrySize
<1> QED
  BY <1>1, <1>2, SizesAssumption

\* What an entry of the layout takes.
LEMMA EntryFits ==
  ASSUME NEW es, NEW u, Layout(es, u), NEW k \in 1 .. Len(es)
  PROVE  /\ es[k] \in Entry /\ es[k].batch \in Batches /\ es[k].dist \in Nat
         /\ EndOf(es[k]) = es[k].dist + LenSize + Size[es[k].batch]
         /\ EndOf(es[k]) \in Nat /\ EndOf(es[k]) <= u /\ u <= Capacity
<1>1. es[k] \in Entry
  BY DEF Layout
<1>2. es[k].batch \in Batches /\ es[k].dist \in Nat
  BY <1>1 DEF Entry
<1>3. EndOf(es[k]) = es[k].dist + (LenSize + Size[es[k].batch])
  BY <1>2, Sizes DEF EndOf
<1>4. EndOf(es[k]) <= u /\ u \in 0 .. Capacity
  BY DEF Layout
<1> QED
  BY <1>1, <1>2, <1>3, <1>4, Sizes

\* The length that was stored is the one that is read.
LEMMA LengthRead ==
  ASSUME start \in Slots, NEW b \in Batches, HoldsLen(data, start, 0, b)
  PROVE  LengthsIn(Fetched(start, LenSize)) = {Size[b]}
<1> DEFINE cells == Fetched(start, LenSize)
<1>1. cells = LenCells(Size[b])
  <2>1. \A j \in 0 .. LenSize - 1 : 0 + j = j
    BY Sizes
  <2>2. \A j \in 0 .. LenSize - 1 : data[(start + j) % Capacity] = <<"len", Size[b], j>>
    BY <2>1 DEF HoldsLen, View
  <2> QED
    BY <2>2 DEF Fetched, LenCells
<1>2. ASSUME NEW n, NEW m, LenCells(n) = LenCells(m) PROVE n = m
  <2>1. 0 \in 0 .. LenSize - 1
    BY Sizes
  <2>2. LenCells(n)[0] = <<"len", n, 0>> /\ LenCells(m)[0] = <<"len", m, 0>>
    BY <2>1 DEF LenCells
  <2>3. <<"len", n, 0>> = <<"len", m, 0>>
    BY <1>2, <2>2
  <2> QED
    BY <2>3
<1> HIDE DEF cells
<1> DEFINE stored == {Size[a] : a \in {c \in Batches : cells = LenCells(Size[c])}}
<1>3. stored = {Size[b]}
  BY <1>1, <1>2
<1>4. LengthsIn(cells) = stored
  BY <1>3 DEF LengthsIn
<1> QED
  BY <1>3, <1>4 DEF cells

\* The batch that was stored is the one that is read.
LEMMA BatchRead ==
  ASSUME start \in Slots, NEW b \in Batches, EntrySize[b] <= Capacity,
         HoldsBatch(data, start, 0, b)
  PROVE  BatchIn(Fetched(Place(LenSize), Size[b])) = b
<1> DEFINE cells == Fetched(Place(LenSize), Size[b])
<1>1. cells = BatchCells(b)
  <2>1. ASSUME NEW j \in 0 .. Size[b] - 1
        PROVE  data[(Place(LenSize) + j) % Capacity] = <<"batch", b, j>>
    <3>1. LenSize \in 0 .. Capacity /\ j \in 0 .. Capacity - 1
      BY Sizes
    <3>2. (Place(LenSize) + j) % Capacity = Place(LenSize + j)
      BY <3>1, PlaceFurther
    <3>3. 0 + LenSize + j = LenSize + j
      BY Sizes
    <3> QED
      BY <3>2, <3>3 DEF HoldsBatch, View, Place
  <2> QED
    BY <2>1 DEF Fetched, BatchCells
<1>2. ASSUME NEW c \in Batches, BatchCells(c) = BatchCells(b) PROVE c = b
  <2>1. 0 \in 0 .. Size[c] - 1 /\ 0 \in 0 .. Size[b] - 1
    BY Sizes
  <2>2. BatchCells(c)[0] = <<"batch", c, 0>> /\ BatchCells(b)[0] = <<"batch", b, 0>>
    BY <2>1 DEF BatchCells
  <2>3. <<"batch", c, 0>> = <<"batch", b, 0>>
    BY <1>2, <2>2
  <2> QED
    BY <2>3
<1> HIDE DEF cells
<1>3. \E c \in Batches : cells = BatchCells(c)
  BY <1>1
<1>4. \A c \in Batches : cells = BatchCells(c) => c = b
  BY <1>1, <1>2
<1>5. BatchIn(cells) = CHOOSE c \in Batches : cells = BatchCells(c)
  BY <1>3 DEF BatchIn
<1> QED
  BY <1>3, <1>4, <1>5 DEF cells

-----------------------------------------------------------------------------
(* The steps of push.                                                          *)

\* What is stored behind the entries leaves them whole.
LEMMA StoreBehind ==
  ASSUME RingInv, NEW u \in Nat, used <= u, NEW n \in Nat \ {0}, u + n <= Capacity,
         NEW cells, \A j \in 0 .. n - 1 : cells[j] \in Cells,
         NEW new, new = Stored(Place(u), n, cells)
  PROVE  /\ \A k \in 1 .. Len(entries) : Whole(new, start, entries[k])
         /\ \A d \in 0 .. u - 1 : View(new, start, d) = View(data, start, d)
         /\ \A j \in 0 .. n - 1 : View(new, start, u + j) = cells[j]
         /\ new \in [Slots -> Cells]
<1>1. start \in Slots /\ Layout(entries, used) /\ data \in [Slots -> Cells]
  BY DEF RingInv
<1>2. new = Stored((start + u) % Capacity, n, cells)
  BY DEF Place
<1>3. /\ \A d \in u .. u + n - 1 : View(new, start, d) = cells[d - u]
      /\ \A d \in 0 .. Capacity - 1 :
           d \notin u .. u + n - 1 => View(new, start, d) = View(data, start, d)
  BY <1>1, <1>2, StoredView
<1>4. \A d \in 0 .. u - 1 : View(new, start, d) = View(data, start, d)
  BY <1>3, Sizes
<1>5. ASSUME NEW j \in 0 .. n - 1 PROVE View(new, start, u + j) = cells[j]
  <2>1. u + j \in u .. u + n - 1 /\ (u + j) - u = j
    OBVIOUS
  <2> QED
    BY <1>3, <2>1
<1>6. ASSUME NEW k \in 1 .. Len(entries) PROVE Whole(new, start, entries[k])
  <2> DEFINE e == entries[k]
  <2>1. /\ e.batch \in Batches /\ e.dist \in Nat
        /\ e.dist + LenSize + Size[e.batch] <= u
    <3>1. /\ e.batch \in Batches /\ e.dist \in Nat /\ EndOf(e) \in Nat /\ EndOf(e) <= used
          /\ EndOf(e) = e.dist + LenSize + Size[e.batch]
      BY <1>1, EntryFits
    <3>2. used \in Nat
      BY <1>1, Sizes DEF Layout
    <3> HIDE DEF e
    <3>3. EndOf(e) <= u
      BY <3>1, <3>2
    <3> QED
      BY <3>1, <3>3
  <2>2. Whole(data, start, e)
    BY DEF RingInv
  <2> HIDE DEF e
  <2>3. \A j \in 0 .. LenSize - 1 : e.dist + j \in 0 .. u - 1
    BY <2>1, Sizes
  <2>4. \A j \in 0 .. Size[e.batch] - 1 : e.dist + LenSize + j \in 0 .. u - 1
    BY <2>1, Sizes
  <2> QED
    BY <1>4, <2>2, <2>3, <2>4 DEF Whole, HoldsLen, HoldsBatch, e
<1>7. new \in [Slots -> Cells]
  <2>1. Place(u) \in Slots
    <3>1. start + u \in Nat
      BY <1>1, Sizes DEF Slots
    <3> QED
      BY <3>1, Remainder DEF Place
  <2>2. ASSUME NEW i \in Slots
        PROVE  (IF (i + Capacity - Place(u)) % Capacity < n
                  THEN cells[(i + Capacity - Place(u)) % Capacity] ELSE data[i]) \in Cells
    <3> DEFINE j == (i + Capacity - Place(u)) % Capacity
    <3>1. i + Capacity - Place(u) \in Nat
      BY <2>1, Sizes DEF Slots
    <3>2. j \in Slots
      BY <3>1, Remainder
    <3> HIDE DEF j
    <3>3. j < n => j \in 0 .. n - 1
      BY <3>2, Sizes DEF Slots
    <3> QED
      BY <1>1, <3>3 DEF j
  <2> QED
    BY <2>2 DEF Stored
<1> QED
  BY <1>4, <1>5, <1>6, <1>7

\* The cells of a length and of a batch are cells of the data region.
LEMMA CellsOf ==
  ASSUME NEW b \in Batches
  PROVE  /\ \A j \in 0 .. LenSize - 1 :
              LenCells(Size[b])[j] = <<"len", Size[b], j>> /\ LenCells(Size[b])[j] \in Cells
         /\ \A j \in 0 .. Size[b] - 1 :
              BatchCells(b)[j] = <<"batch", b, j>> /\ BatchCells(b)[j] \in Cells
<1>1. \A j \in 0 .. LenSize - 1 : LenCells(Size[b])[j] = <<"len", Size[b], j>>
  BY DEF LenCells
<1>2. \A j \in 0 .. Size[b] - 1 : BatchCells(b)[j] = <<"batch", b, j>>
  BY DEF BatchCells
<1>3. \A j \in 0 .. LenSize - 1 : <<"len", Size[b], j>> \in Cells
  BY DEF Cells
<1>4. \A j \in 0 .. Size[b] - 1 : <<"batch", b, j>> \in Cells
  BY DEF Cells
<1> QED
  BY <1>1, <1>2, <1>3, <1>4

\* An operation that has begun is told by its stage.
LEMMA Stage ==
  ASSUME RingInv
  PROVE  /\ op.at \in {"push_len", "push_data", "push_count"} =>
              \E b : Pushing(b) /\ op = [at |-> op.at, batch |-> b]
         /\ op.at \in {"pop_len", "pop_data", "pop_count"} => \E b : Popping(b)
         /\ op.at = "idle" => op = Idle
         /\ op = Idle => read_offset = start /\ write_offset = Place(used)
<1>1. Operation
  BY DEF RingInv
<1>2. CASE op = Idle /\ read_offset = start /\ write_offset = Place(used)
  BY <1>2 DEF Idle
<1>3. ASSUME NEW b, Pushing(b)
      PROVE  op.at \in {"push_len", "push_data", "push_count"}
                /\ op = [at |-> op.at, batch |-> b]
  BY <1>3 DEF Pushing
<1>4. ASSUME NEW b, Popping(b)
      PROVE  op.at \in {"pop_len", "pop_data", "pop_count"}
  BY <1>4 DEF Popping
<1>5. Idle.at = "idle"
  BY DEF Idle
<1> QED
  BY <1>1, <1>2, <1>3, <1>4, <1>5 DEF Operation

\* Between operations the free bytes are counted from the offsets, exactly.
LEMMA FreeBytes ==
  ASSUME RingInv, op = Idle
  PROVE  write_available = Capacity - used
<1>1. read_offset = start /\ write_offset = (start + used) % Capacity
  BY Stage DEF Place
<1>2. /\ start \in 0 .. Capacity - 1 /\ used \in 0 .. Capacity /\ Capacity \in Nat \ {0}
  BY Sizes DEF RingInv, Layout, Slots
<1>3. write_offset = IF start + used < Capacity THEN start + used ELSE start + used - Capacity
  BY <1>1, <1>2, Remainder
<1>4. count = 0 <=> used = 0
  <2>1. count = Len(entries) /\ entries \in Seq(Entry)
    BY DEF RingInv, Layout
  <2>2. CASE entries = <<>>
    BY <2>1, <2>2 DEF RingInv, Layout
  <2>3. CASE entries # <<>>
    <3>1. Len(entries) \in 1 .. Len(entries) /\ count # 0
      BY <2>1, <2>3
    <3>2. EndOf(entries[Len(entries)]) = used /\ Layout(entries, used)
      BY <2>3 DEF RingInv, Layout
    <3>3. used # 0
      BY <3>1, <3>2, EntryFits, Sizes
    <3> QED
      BY <3>1, <3>3
  <2> QED
    BY <2>2, <2>3
<1>5. CASE used = 0
  BY <1>2, <1>4, <1>5 DEF write_available
<1>6. CASE used # 0
  <2>1. count # 0
    BY <1>4, <1>6
  <2>2. CASE start + used < Capacity
    BY <1>1, <1>2, <1>3, <1>6, <2>1, <2>2 DEF write_available
  <2>3. CASE start + used >= Capacity
    BY <1>1, <1>2, <1>3, <1>6, <2>1, <2>3 DEF write_available
  <2> QED
    BY <1>2, <2>2, <2>3
<1> QED
  BY <1>5, <1>6

\* The steps of push up to the one that counts the entry.
LEMMA PushSteps ==
  ASSUME RingInv,
         \/ \E b \in Batches : PushRefused(b) \/ PushBegin(b)
         \/ PushLen \/ PushData
  PROVE  RingInv'
<1>1. CASE \E b \in Batches : PushRefused(b)
  <2>1. UNCHANGED <<header, data, op, history, crashes>>
    BY <1>1 DEF PushRefused
  <2> QED
    BY <2>1 DEF RingInv, Operation, Pushing, Popping, Place, header, history
<1>2. ASSUME NEW b \in Batches, PushBegin(b) PROVE RingInv'
  <2>1. /\ UNCHANGED <<header, data, history, crashes>>
        /\ op' = [at |-> "push_len", batch |-> b]
    BY <1>2 DEF PushBegin
  <2>2. read_offset = start /\ write_offset = Place(used)
    BY <1>2, Stage DEF PushBegin
  <2>3. EntrySize[b] <= Capacity \div 4 /\ used + EntrySize[b] <= Capacity
    <3>1. write_available = Capacity - used
      BY <1>2, FreeBytes DEF PushBegin
    <3>2. used \in Nat /\ Capacity \in Nat /\ EntrySize[b] \in Nat
      BY Sizes DEF RingInv, Layout
    <3>3. ~(EntrySize[b] > Capacity - used) /\ ~(EntrySize[b] > Capacity \div 4)
      BY <1>2, <3>1 DEF PushBegin, Full, TooLarge
    <3>4. Capacity \div 4 \in Int
      BY <3>2
    <3> QED
      BY <3>2, <3>3, <3>4
  <2>4. Pushing(b)'
    BY <2>1, <2>2, <2>3 DEF Pushing, Place, header, history
  <2> QED
    BY <2>1, <2>4 DEF RingInv, Operation, header, history
<1>3. CASE PushLen
  <2>1. PICK b : Pushing(b) /\ op = [at |-> op.at, batch |-> b] /\ op.at = "push_len"
    BY <1>3, Stage DEF PushLen
  <2>2. /\ b \in Batches /\ op.batch = b /\ op = [at |-> "push_len", batch |-> b]
        /\ EntrySize[b] <= Capacity \div 4 /\ used + EntrySize[b] <= Capacity
        /\ read_offset = start /\ write_offset = Place(used)
    BY <2>1 DEF Pushing
  <2>3. /\ used \in Nat /\ used \in 0 .. Capacity /\ used + LenSize <= Capacity
        /\ LenSize \in 0 .. Capacity - 1
    BY <2>2, Sizes DEF RingInv, Layout
  <2>4. /\ data' = Stored(Place(used), LenSize, LenCells(Size[b]))
        /\ write_offset' = (Place(used) + LenSize) % Capacity
        /\ op' = [op EXCEPT !.at = "push_data"]
        /\ UNCHANGED <<read_offset, count, history, crashes>>
    BY <1>3, <2>2 DEF PushLen
  <2>5. op' = [at |-> "push_data", batch |-> b]
    BY <2>2, <2>4
  <2>6. write_offset' = Place(used + LenSize)
    BY <2>3, <2>4, PlaceFurther DEF RingInv
  <2>7. \A j \in 0 .. LenSize - 1 :
          LenCells(Size[b])[j] = <<"len", Size[b], j>> /\ LenCells(Size[b])[j] \in Cells
    BY <2>2, CellsOf
  <2>8. used <= used
    BY <2>3
  <2>9. /\ \A k \in 1 .. Len(entries) : Whole(data', start, entries[k])
        /\ \A j \in 0 .. LenSize - 1 : View(data', start, used + j) = LenCells(Size[b])[j]
        /\ data' \in [Slots -> Cells]
    BY <2>3, <2>4, <2>7, <2>8, Sizes, StoreBehind
  <2>10. HoldsLen(data', start, used, b)
    BY <2>7, <2>9 DEF HoldsLen
  <2>11. Pushing(b)'
    BY <2>2, <2>4, <2>5, <2>6, <2>10 DEF Pushing, Place, history
  <2>12. Layout(entries', used') /\ count' = Len(entries') /\ start' \in Slots
         /\ crashes' \in 0 .. MaxCrashes
    BY <2>4 DEF RingInv, history
  <2> QED
    BY <2>4, <2>9, <2>11, <2>12 DEF RingInv, Operation, history
<1>4. CASE PushData
  <2>1. PICK b : Pushing(b) /\ op = [at |-> op.at, batch |-> b] /\ op.at = "push_data"
    BY <1>4, Stage DEF PushData
  <2>2. /\ b \in Batches /\ op.batch = b /\ op = [at |-> "push_data", batch |-> b]
        /\ EntrySize[b] <= Capacity \div 4 /\ used + EntrySize[b] <= Capacity
        /\ read_offset = start /\ write_offset = Place(used + LenSize)
        /\ HoldsLen(data, start, used, b)
    BY <2>1 DEF Pushing
  <2> DEFINE u == used + LenSize
  <2>3. /\ used \in Nat /\ u \in Nat /\ u \in 0 .. Capacity /\ u + Size[b] <= Capacity
        /\ Size[b] \in 0 .. Capacity - 1 /\ used <= u /\ u + Size[b] = used + EntrySize[b]
        /\ Size[b] \in Nat \ {0}
    <3>1. used \in 0 .. Capacity
      BY DEF RingInv, Layout
    <3>2. EntrySize[b] = LenSize + Size[b] /\ Size[b] \in Nat \ {0}
      BY <2>2, Sizes
    <3> QED
      BY <2>2, <3>1, <3>2, Sizes
  <2>4. /\ data' = Stored(Place(u), Size[b], BatchCells(b))
        /\ write_offset' = (Place(u) + Size[b]) % Capacity
        /\ op' = [op EXCEPT !.at = "push_count"]
        /\ UNCHANGED <<read_offset, count, history, crashes>>
    BY <1>4, <2>2 DEF PushData
  <2>5. op' = [at |-> "push_count", batch |-> b]
    BY <2>2, <2>4
  <2>6. write_offset' = Place(used + EntrySize[b])
    <3>1. (Place(u) + Size[b]) % Capacity = Place(u + Size[b])
      BY <2>3, PlaceFurther DEF RingInv
    <3> QED
      BY <2>3, <2>4, <3>1
  <2>7. \A j \in 0 .. Size[b] - 1 :
          BatchCells(b)[j] = <<"batch", b, j>> /\ BatchCells(b)[j] \in Cells
    BY <2>2, CellsOf
  <2>9. /\ \A k \in 1 .. Len(entries) : Whole(data', start, entries[k])
        /\ \A d \in 0 .. u - 1 : View(data', start, d) = View(data, start, d)
        /\ \A j \in 0 .. Size[b] - 1 : View(data', start, u + j) = BatchCells(b)[j]
        /\ data' \in [Slots -> Cells]
    <3> HIDE DEF u
    <3> QED
      BY <2>3, <2>4, <2>7, StoreBehind
  <2>10. HoldsBatch(data', start, used, b)
    BY <2>7, <2>9 DEF HoldsBatch
  <2>11. HoldsLen(data', start, used, b)
    <3>1. \A j \in 0 .. LenSize - 1 : used + j \in 0 .. u - 1
      BY <2>3, Sizes
    <3> QED
      BY <2>2, <2>9, <3>1 DEF HoldsLen
  <2>12. Pushing(b)'
    BY <2>2, <2>4, <2>5, <2>6, <2>10, <2>11 DEF Pushing, Place, history
  <2>13. Layout(entries', used') /\ count' = Len(entries') /\ start' \in Slots
         /\ crashes' \in 0 .. MaxCrashes
    BY <2>4 DEF RingInv, history
  <2> QED
    BY <2>4, <2>9, <2>12, <2>13 DEF RingInv, Operation, history
<1> QED
  BY <1>1, <1>2, <1>3, <1>4

NewEntry(b, d) == [batch |-> b, dist |-> d]

\* An entry is put behind the last one.
LEMMA LayoutGrows ==
  ASSUME NEW es, NEW u, Layout(es, u), NEW b \in Batches, u + EntrySize[b] <= Capacity,
         NEW new, new = Append(es, NewEntry(b, u))
  PROVE  /\ Layout(new, u + EntrySize[b]) /\ Len(new) = Len(es) + 1
         /\ \A k \in 1 .. Len(es) : new[k] = es[k]
         /\ new[Len(es) + 1] = NewEntry(b, u)
<1> DEFINE e == NewEntry(b, u)
           n == Len(es)
           v == u + EntrySize[b]
<1>1. es \in Seq(Entry) /\ n \in Nat /\ u \in Nat /\ EntrySize[b] \in Nat \ {0}
  BY Sizes DEF Layout
<1>2. e \in Entry /\ EndOf(e) = v /\ e.dist = u
  BY <1>1 DEF Entry, EndOf, NewEntry
<1>3. /\ new \in Seq(Entry) /\ Len(new) = n + 1 /\ new # <<>> /\ new[n + 1] = e
      /\ \A k \in 1 .. n : new[k] = es[k]
  BY <1>1, <1>2
<1> HIDE DEF e
<1>4. \A k \in 1 .. n : /\ es[k].dist \in Nat /\ EndOf(es[k]) \in Nat /\ EndOf(es[k]) <= u
  BY EntryFits
<1>5. v \in 0 .. Capacity /\ u <= v
  BY <1>1, Sizes
<1>6. new[1].dist = 0
  <2>1. CASE es = <<>>
    <3>1. n = 0 /\ u = 0
      BY <2>1 DEF Layout
    <3> QED
      BY <1>2, <1>3, <3>1
  <2>2. CASE es # <<>>
    <3>1. 1 \in 1 .. n /\ es[1].dist = 0
      BY <1>1, <2>2 DEF Layout
    <3> QED
      BY <1>3, <3>1
  <2> QED
    BY <2>1, <2>2
<1>7. ASSUME NEW k \in 1 .. Len(new) - 1 PROVE new[k + 1].dist = EndOf(new[k])
  <2>1. CASE k = n
    <3>1. es # <<>> /\ EndOf(es[n]) = u
      BY <1>1, <1>3, <2>1 DEF Layout
    <3> QED
      BY <1>2, <1>3, <2>1, <3>1
  <2>2. CASE k # n
    <3>1. k \in 1 .. n - 1 /\ k \in 1 .. n /\ k + 1 \in 1 .. n
      BY <1>1, <1>3, <2>2
    <3>2. es[k + 1].dist = EndOf(es[k])
      BY <3>1 DEF Layout
    <3> QED
      BY <1>3, <3>1, <3>2
  <2> QED
    BY <2>1, <2>2
<1>8. ASSUME NEW j \in 1 .. Len(new), NEW k \in 1 .. Len(new), j < k
      PROVE  EndOf(new[j]) <= new[k].dist
  <2>1. j \in 1 .. n
    BY <1>1, <1>3, <1>8
  <2>2. CASE k = n + 1
    BY <1>2, <1>3, <1>4, <2>1, <2>2
  <2>3. CASE k # n + 1
    <3>1. k \in 1 .. n
      BY <1>1, <1>3, <2>3
    <3>2. EndOf(es[j]) <= es[k].dist
      BY <1>8, <2>1, <3>1 DEF Layout
    <3> QED
      BY <1>3, <2>1, <3>1, <3>2
  <2> QED
    BY <2>2, <2>3
<1>9. ASSUME NEW k \in 1 .. Len(new) PROVE EndOf(new[k]) <= v
  <2>1. CASE k = n + 1
    BY <1>2, <1>3, <1>5, <2>1
  <2>2. CASE k # n + 1
    <3>1. k \in 1 .. n
      BY <1>1, <1>3, <2>2
    <3> QED
      BY <1>1, <1>3, <1>4, <1>5, <3>1
  <2> QED
    BY <2>1, <2>2
<1>10. new # <<>> /\ EndOf(new[Len(new)]) = v
  BY <1>2, <1>3
<1> HIDE DEF v
<1>11. Layout(new, v)
  BY <1>3, <1>5, <1>6, <1>7, <1>8, <1>9, <1>10 DEF Layout
<1> QED
  BY <1>3, <1>11 DEF e, v

Shrunk(new, es, gone) ==
  new = [k \in 1 .. Len(es) - 1 |-> [es[k + 1] EXCEPT !.dist = @ - gone]]

\* The first entry leaves, and the others are measured from the next.
LEMMA LayoutShrinks ==
  ASSUME NEW es, NEW u, Layout(es, u), es # <<>>, NEW gone, gone = EntrySize[es[1].batch],
         NEW new, Shrunk(new, es, gone)
  PROVE  /\ Layout(new, u - gone) /\ Len(new) = Len(es) - 1 /\ gone \in Nat /\ gone <= u
         /\ \A k \in 1 .. Len(new) : /\ k + 1 \in 1 .. Len(es)
                                     /\ new[k].batch = es[k + 1].batch
                                     /\ es[k + 1].dist = gone + new[k].dist
<1> DEFINE n == Len(es)
<1>1. es \in Seq(Entry) /\ n \in Nat \ {0} /\ 1 \in 1 .. n
  BY DEF Layout
<1>2. /\ es[1].batch \in Batches /\ es[1].dist = 0 /\ gone \in Nat /\ EndOf(es[1]) = gone
      /\ gone <= u /\ u \in 0 .. Capacity
  <2>1. es[1].batch \in Batches /\ es[1].dist = 0 /\ EndOf(es[1]) <= u /\ u \in 0 .. Capacity
    BY <1>1, EntryFits DEF Layout
  <2>2. EndOf(es[1]) = gone /\ gone \in Nat
    BY <2>1, Sizes DEF EndOf
  <2> QED
    BY <2>1, <2>2
<1>3. ASSUME NEW k \in 1 .. n - 1
      PROVE  /\ k + 1 \in 1 .. n /\ es[k + 1] \in Entry /\ es[k + 1].dist - gone \in Nat
             /\ es[k + 1].dist \in Nat
  <2>1. k + 1 \in 1 .. n /\ 1 < k + 1
    BY <1>1
  <2>2. es[k + 1] \in Entry /\ es[k + 1].dist \in Nat
    BY <2>1, EntryFits
  <2>3. EndOf(es[1]) <= es[k + 1].dist
    BY <1>1, <2>1 DEF Layout
  <2> QED
    BY <1>2, <2>1, <2>2, <2>3
<1>4. ASSUME NEW k \in 1 .. n - 1
      PROVE  /\ new[k] \in Entry /\ new[k].batch = es[k + 1].batch
             /\ new[k].dist = es[k + 1].dist - gone
  <2>1. new[k] = [es[k + 1] EXCEPT !.dist = @ - gone]
    BY DEF Shrunk
  <2>2. new[k].batch = es[k + 1].batch /\ new[k].dist = es[k + 1].dist - gone
    BY <1>3, <2>1 DEF Entry
  <2> QED
    BY <1>3, <2>1, <2>2 DEF Entry
<1>5. new \in Seq(Entry) /\ Len(new) = n - 1
  <2>1. n - 1 \in Nat
    BY <1>1
  <2>2. new = [k \in 1 .. n - 1 |-> new[k]]
    BY DEF Shrunk
  <2>3. new \in [1 .. n - 1 -> Entry]
    BY <1>4, <2>2
  <2> QED
    BY <2>1, <2>3
<1>6. ASSUME NEW k \in 1 .. n - 1
      PROVE  EndOf(new[k]) = EndOf(es[k + 1]) - gone /\ EndOf(es[k + 1]) \in Nat
  <2>1. es[k + 1].batch \in Batches /\ es[k + 1].dist \in Nat
    BY <1>3, EntryFits
  <2>2. EntrySize[es[k + 1].batch] \in Nat
    BY <2>1, Sizes
  <2>3. /\ EndOf(new[k]) = new[k].dist + EntrySize[new[k].batch]
        /\ EndOf(es[k + 1]) = es[k + 1].dist + EntrySize[es[k + 1].batch]
    BY DEF EndOf
  <2>4. new[k].batch = es[k + 1].batch /\ new[k].dist = es[k + 1].dist - gone
    BY <1>4
  <2> QED
    BY <1>2, <2>1, <2>2, <2>3, <2>4
<1> HIDE DEF n
<1>7. ASSUME new = <<>> PROVE u - gone = 0
  <2>1. n = 1
    BY <1>1, <1>5, <1>7
  <2>2. EndOf(es[n]) = u
    BY DEF Layout, n
  <2> QED
    BY <1>2, <2>1, <2>2
<1>8. ASSUME new # <<>> PROVE new[1].dist = 0 /\ EndOf(new[Len(new)]) = u - gone
  <2>1. 1 \in 1 .. n - 1 /\ n - 1 \in 1 .. n - 1 /\ (n - 1) + 1 = n
    BY <1>1, <1>5, <1>8
  <2>2. es[1 + 1].dist = EndOf(es[1]) /\ EndOf(es[n]) = u
    BY <2>1 DEF Layout, n
  <2>3. new[1].dist = 0
    BY <1>2, <1>3, <1>4, <2>1, <2>2
  <2>4. EndOf(new[n - 1]) = EndOf(es[(n - 1) + 1]) - gone
    BY <1>6, <2>1
  <2> QED
    BY <1>5, <2>1, <2>2, <2>3, <2>4
<1>9. ASSUME NEW k \in 1 .. Len(new) - 1 PROVE new[k + 1].dist = EndOf(new[k])
  <2>1. k \in 1 .. n - 1 /\ k + 1 \in 1 .. n - 1
    BY <1>1, <1>5
  <2>2. es[(k + 1) + 1].dist = EndOf(es[k + 1])
    BY <2>1 DEF Layout, n
  <2> QED
    BY <1>4, <1>6, <2>1, <2>2
<1>10. ASSUME NEW j \in 1 .. Len(new), NEW k \in 1 .. Len(new), j < k
       PROVE  EndOf(new[j]) <= new[k].dist
  <2>1. j \in 1 .. n - 1 /\ k \in 1 .. n - 1 /\ j + 1 < k + 1
    BY <1>1, <1>5, <1>10
  <2>2. EndOf(es[j + 1]) <= es[k + 1].dist
    BY <1>3, <2>1 DEF Layout, n
  <2>3. EndOf(new[j]) = EndOf(es[j + 1]) - gone /\ EndOf(es[j + 1]) \in Nat
    BY <1>6, <2>1
  <2>4. new[k].dist = es[k + 1].dist - gone /\ es[k + 1].dist \in Nat
    BY <1>3, <1>4, <2>1
  <2> QED
    BY <1>2, <2>2, <2>3, <2>4
<1>11. ASSUME NEW k \in 1 .. Len(new) PROVE EndOf(new[k]) <= u - gone
  <2>1. k \in 1 .. n - 1
    BY <1>5
  <2>2. EndOf(es[k + 1]) <= u
    BY <1>3, <2>1 DEF Layout, n
  <2> QED
    BY <1>2, <1>6, <2>1, <2>2
<1>12. u - gone \in 0 .. Capacity
  BY <1>2, Sizes
<1>13. Layout(new, u - gone)
  BY <1>5, <1>7, <1>8, <1>9, <1>10, <1>11, <1>12 DEF Layout
<1>14. ASSUME NEW k \in 1 .. Len(new)
       PROVE  /\ k + 1 \in 1 .. n /\ new[k].batch = es[k + 1].batch
              /\ es[k + 1].dist = gone + new[k].dist
  <2>1. k \in 1 .. n - 1
    BY <1>5
  <2> QED
    BY <1>2, <1>3, <1>4, <2>1
<1> QED
  BY <1>2, <1>5, <1>13, <1>14 DEF n

\* The step of push that counts the entry.
LEMMA CountedStep ==
  ASSUME RingInv, PushCount
  PROVE  RingInv'
<1>1. PICK b : Pushing(b) /\ op = [at |-> op.at, batch |-> b] /\ op.at = "push_count"
  BY Stage DEF PushCount
<1>2. /\ b \in Batches /\ op.batch = b /\ used + EntrySize[b] <= Capacity
      /\ read_offset = start /\ write_offset = Place(used + EntrySize[b])
      /\ HoldsLen(data, start, used, b) /\ HoldsBatch(data, start, used, b)
  BY <1>1 DEF Pushing
<1>3. /\ entries' = Append(entries, NewEntry(b, used))
      /\ used' = used + EntrySize[b] /\ count' = count + 1 /\ op' = Idle
      /\ UNCHANGED <<write_offset, read_offset, data, start, crashes>>
  BY <1>2 DEF PushCount, NewEntry
<1>4. Layout(entries, used) /\ count = Len(entries)
  BY DEF RingInv
<1>5. /\ Layout(entries', used') /\ Len(entries') = Len(entries) + 1
      /\ \A k \in 1 .. Len(entries) : entries'[k] = entries[k]
      /\ entries'[Len(entries) + 1] = NewEntry(b, used)
  <2> DEFINE es == entries
             u == used
             new == entries'
  <2>1. /\ Layout(es, u) /\ b \in Batches /\ u + EntrySize[b] <= Capacity
        /\ new = Append(es, NewEntry(b, u))
    BY <1>2, <1>3, <1>4
  <2> HIDE DEF es, u, new
  <2>2. Layout(new, u + EntrySize[b])
    BY <2>1, LayoutGrows
  <2>3. /\ Len(new) = Len(es) + 1 /\ \A k \in 1 .. Len(es) : new[k] = es[k]
        /\ new[Len(es) + 1] = NewEntry(b, u)
    BY <2>1, LayoutGrows
  <2> QED
    BY <1>3, <2>2, <2>3 DEF es, u, new
<1>6. Len(entries) \in Nat
  BY <1>4 DEF Layout
<1>7. ASSUME NEW k \in 1 .. Len(entries') PROVE Whole(data, start, entries'[k])
  <2>1. CASE k = Len(entries) + 1
    BY <1>2, <1>5, <2>1 DEF Whole, NewEntry
  <2>2. CASE k # Len(entries) + 1
    <3>1. k \in 1 .. Len(entries)
      BY <1>5, <1>6, <2>2
    <3> QED
      BY <1>5, <3>1 DEF RingInv
  <2> QED
    BY <2>1, <2>2
<1>8. Operation'
  BY <1>2, <1>3 DEF Operation, Place
<1>9. count' = Len(entries')
  BY <1>3, <1>4, <1>5
<1> QED
  BY <1>3, <1>5, <1>7, <1>8, <1>9 DEF RingInv

-----------------------------------------------------------------------------
(* The steps of pop.                                                           *)

\* The entry that pop is at is the first one, and whole.
LEMMA FirstEntry ==
  ASSUME RingInv, entries # <<>>
  PROVE  LET b == entries[1].batch IN
         /\ b \in Batches /\ EntrySize[b] <= used /\ used \in 0 .. Capacity
         /\ HoldsLen(data, start, 0, b) /\ HoldsBatch(data, start, 0, b)
<1>1. Layout(entries, used)
  BY DEF RingInv
<1>2. 1 \in 1 .. Len(entries) /\ entries[1].dist = 0 /\ used \in 0 .. Capacity
  BY <1>1 DEF Layout
<1>3. entries[1].batch \in Batches /\ EndOf(entries[1]) <= used
  BY <1>1, <1>2, EntryFits
<1>4. EndOf(entries[1]) = EntrySize[entries[1].batch]
  BY <1>2, <1>3, Sizes DEF EndOf
<1>5. Whole(data, start, entries[1])
  BY <1>2 DEF RingInv
<1> QED
  BY <1>2, <1>3, <1>4, <1>5 DEF Whole

\* The steps of pop up to the one that counts.
LEMMA PopSteps ==
  ASSUME RingInv, PopEmpty \/ PopBegin \/ PopLen \/ PopData
  PROVE  RingInv'
<1>1. CASE PopEmpty
  <2>1. UNCHANGED <<header, data, op, history, crashes>>
    BY <1>1 DEF PopEmpty
  <2> QED
    BY <2>1 DEF RingInv, Operation, Pushing, Popping, Place, header, history
<1> DEFINE b == entries[1].batch
<1>2. ASSUME UNCHANGED <<write_offset, count, data, history, crashes>>, Popping(b)'
      PROVE  RingInv'
  <2>1. Operation'
    BY <1>2 DEF Operation
  <2> QED
    BY <1>2, <2>1 DEF RingInv, history
<1>3. CASE PopBegin
  <2>1. /\ UNCHANGED <<header, data, history, crashes>> /\ op' = [at |-> "pop_len"]
        /\ count # 0 /\ read_offset = start /\ write_offset = Place(used)
    BY <1>3, Stage DEF PopBegin
  <2>2. entries # <<>>
    BY <2>1 DEF RingInv
  <2>3. Popping(b)'
    BY <2>1, <2>2 DEF Popping, Place, header, history
  <2> QED
    BY <1>2, <2>1, <2>3 DEF header
<1>4. CASE PopLen
  <2>1. op.at = "pop_len"
    BY <1>4 DEF PopLen
  <2>2. Popping(b) /\ entries # <<>> /\ read_offset = start /\ write_offset = Place(used)
    <3>1. PICK c : Popping(c)
      BY <2>1, Stage
    <3> QED
      BY <2>1, <3>1 DEF Popping
  <2>3. /\ b \in Batches /\ EntrySize[b] <= used /\ used \in 0 .. Capacity
        /\ HoldsLen(data, start, 0, b)
    BY <2>2, FirstEntry
  <2>4. LengthsIn(Fetched(read_offset, LenSize)) = {Size[b]}
    BY <2>2, <2>3, LengthRead DEF RingInv
  <2>5. /\ op' = [at |-> "pop_data", len |-> Size[b]]
        /\ read_offset' = (start + LenSize) % Capacity
        /\ UNCHANGED <<write_offset, count, data, history, crashes>>
    BY <1>4, <2>2, <2>4 DEF PopLen
  <2>6. Popping(b)'
    BY <2>2, <2>5 DEF Popping, Place, history
  <2> QED
    BY <1>2, <2>5, <2>6
<1>5. CASE PopData
  <2>1. op.at = "pop_data"
    BY <1>5 DEF PopData
  <2>2. /\ Popping(b) /\ entries # <<>> /\ read_offset = Place(LenSize)
        /\ write_offset = Place(used) /\ op.len = Size[b]
    <3>1. PICK c : Popping(c)
      BY <2>1, Stage
    <3> QED
      BY <2>1, <3>1 DEF Popping
  <2>3. /\ b \in Batches /\ EntrySize[b] <= used /\ used \in 0 .. Capacity
        /\ HoldsBatch(data, start, 0, b)
    BY <2>2, FirstEntry
  <2>4. /\ EntrySize[b] <= Capacity /\ LenSize \in 0 .. Capacity
        /\ Size[b] \in 0 .. Capacity - 1 /\ EntrySize[b] = LenSize + Size[b]
    BY <2>3, Sizes
  <2>5. BatchIn(Fetched(read_offset, op.len)) = b
    BY <2>2, <2>3, <2>4, BatchRead DEF RingInv
  <2>6. (Place(LenSize) + Size[b]) % Capacity = Place(EntrySize[b])
    BY <2>4, PlaceFurther DEF RingInv
  <2>7. /\ op' = [at |-> "pop_count", batch |-> b]
        /\ read_offset' = Place(EntrySize[b])
        /\ UNCHANGED <<write_offset, count, data, history, crashes>>
    BY <1>5, <2>2, <2>5, <2>6 DEF PopData
  <2>8. Popping(b)'
    BY <2>2, <2>7 DEF Popping, Place, history
  <2> QED
    BY <1>2, <2>7, <2>8
<1> QED
  BY <1>1, <1>3, <1>4, <1>5

\* The step of pop that counts.
LEMMA UncountedStep ==
  ASSUME RingInv, PopCount
  PROVE  RingInv'
<1> DEFINE b == entries[1].batch
           gone == EntrySize[b]
<1>1. op.at = "pop_count"
  BY DEF PopCount
<1>2. entries # <<>> /\ read_offset = Place(gone) /\ write_offset = Place(used)
  <2>1. PICK c : Popping(c)
    BY <1>1, Stage
  <2> QED
    BY <1>1, <2>1 DEF Popping
<1>3. b \in Batches /\ gone <= used /\ used \in 0 .. Capacity /\ gone \in Nat \ {0}
  BY <1>2, FirstEntry, Sizes
<1>4. /\ Shrunk(entries', entries, gone) /\ start' = Place(gone) /\ used' = used - gone
      /\ count' = count - 1 /\ op' = Idle
      /\ UNCHANGED <<write_offset, read_offset, data, crashes>>
  BY <1>2 DEF PopCount, Shrunk, Place
<1>5. Layout(entries, used) /\ count = Len(entries) /\ start \in Slots
  BY DEF RingInv
<1>6. /\ Layout(entries', used - gone) /\ Len(entries') = Len(entries) - 1
      /\ \A k \in 1 .. Len(entries') : /\ k + 1 \in 1 .. Len(entries)
                                       /\ entries'[k].batch = entries[k + 1].batch
                                       /\ entries[k + 1].dist = gone + entries'[k].dist
  BY <1>2, <1>4, <1>5, LayoutShrinks
<1> HIDE DEF gone
<1>7. gone \in 0 .. Capacity /\ used - gone \in 0 .. Capacity - 1 /\ gone + (used - gone) = used
  BY <1>3, Sizes
<1>8. /\ (Place(gone) + (used - gone)) % Capacity = Place(used) /\ Place(gone) \in Slots
  BY <1>5, <1>7, PlaceFurther
<1>9. ASSUME NEW k \in 1 .. Len(entries') PROVE Whole(data, start', entries'[k])
  <2> DEFINE e == entries'[k]
             f == entries[k + 1]
  <2>1. /\ k + 1 \in 1 .. Len(entries) /\ e.batch = f.batch /\ f.dist = gone + e.dist
        /\ Whole(data, start, f)
    BY <1>6 DEF RingInv
  <2>2. /\ e.dist \in Nat /\ e.batch \in Batches /\ EndOf(e) <= used - gone
        /\ EndOf(e) = e.dist + LenSize + Size[e.batch]
    BY <1>6, EntryFits
  <2> HIDE DEF e, f
  <2>3. /\ \A j \in 0 .. LenSize - 1 : e.dist + j \in 0 .. Capacity - 1
        /\ \A j \in 0 .. Size[e.batch] - 1 : e.dist + LenSize + j \in 0 .. Capacity - 1
    <3>1. Size[e.batch] \in Nat \ {0} /\ LenSize \in Nat \ {0} /\ Capacity \in Nat
      BY <2>2, Sizes
    <3> DEFINE s == Size[e.batch]
               d == e.dist
               r == used - gone
    <3>2. d \in Nat /\ r \in 0 .. Capacity - 1 /\ d + LenSize + s <= r
      BY <1>7, <2>2
    <3> HIDE DEF s, d, r
    <3>3. s \in Nat \ {0}
      BY <3>1 DEF s
    <3>4. /\ \A j \in 0 .. LenSize - 1 : d + j \in 0 .. Capacity - 1
          /\ \A j \in 0 .. s - 1 : d + LenSize + j \in 0 .. Capacity - 1
      BY <3>1, <3>2, <3>3
    <3> QED
      BY <3>4 DEF s, d
  <2>4. \A d \in 0 .. Capacity - 1 : View(data, start', d) = View(data, start, gone + d)
    BY <1>4, <1>5, <1>7, ViewFurther DEF Place
  <2>5. /\ \A j \in 0 .. LenSize - 1 : gone + (e.dist + j) = f.dist + j
        /\ \A j \in 0 .. Size[e.batch] - 1 : gone + (e.dist + LenSize + j) = f.dist + LenSize + j
    <3> DEFINE d == e.dist
               h == f.dist
               s == Size[e.batch]
    <3>1. d \in Nat /\ gone \in Nat /\ h = gone + d /\ LenSize \in Nat /\ s \in Nat
      BY <1>3, <2>1, <2>2, Sizes
    <3> HIDE DEF d, h, s
    <3>2. /\ \A j \in 0 .. LenSize - 1 : gone + (d + j) = h + j
          /\ \A j \in 0 .. s - 1 : gone + (d + LenSize + j) = h + LenSize + j
      BY <3>1
    <3> QED
      BY <3>2 DEF d, h, s
  <2>6. HoldsLen(data, start', e.dist, e.batch)
    BY <2>1, <2>3, <2>4, <2>5 DEF Whole, HoldsLen
  <2>7. HoldsBatch(data, start', e.dist, e.batch)
    BY <2>1, <2>3, <2>4, <2>5 DEF Whole, HoldsBatch
  <2> QED
    BY <2>6, <2>7 DEF Whole, e
<1>10. Operation'
  <2>1. read_offset' = start' /\ write_offset' = (start' + used') % Capacity
    BY <1>2, <1>4, <1>8
  <2> QED
    BY <1>4, <2>1 DEF Operation, Place
<1>11. count' = Len(entries')
  BY <1>4, <1>5, <1>6
<1>12. start' \in Slots /\ Layout(entries', used')
  BY <1>4, <1>6, <1>8
<1> QED
  BY <1>4, <1>9, <1>10, <1>11, <1>12 DEF RingInv

-----------------------------------------------------------------------------
(* clear, restarts, and the invariant.                                         *)

\* An empty ring.
LEMMA EmptyRing ==
  /\ Layout(<<>>, 0) /\ Len(<<>>) = 0 /\ 0 \in Slots
  /\ (0 + 0) % Capacity = 0
  /\ [i \in Slots |-> Zero] \in [Slots -> Cells]
<1>1. 0 \in Slots /\ 0 \in 0 .. Capacity - 1
  BY Sizes DEF Slots
<1>2. (0 + 0) % Capacity = 0
  BY <1>1, Remainder
<1>3. Layout(<<>>, 0)
  <2>1. <<>> \in Seq(Entry) /\ Len(<<>>) = 0 /\ 0 \in 0 .. Capacity
    BY Sizes
  <2> QED
    BY <2>1 DEF Layout
<1>4. Zero \in Cells
  BY DEF Cells
<1> QED
  BY <1>1, <1>2, <1>3, <1>4

\* The buffer starts empty.
LEMMA InitRing == Init => RingInv
<1> SUFFICES ASSUME Init PROVE RingInv
  OBVIOUS
<1>1. entries = <<>> /\ used = 0 /\ start = 0 /\ count = 0 /\ data = [i \in Slots |-> Zero]
  BY DEF Init
<1>2. Operation
  BY EmptyRing DEF Init, Operation, Place
<1>3. crashes \in 0 .. MaxCrashes
  BY CrashesAssumption DEF Init
<1> QED
  BY <1>1, <1>2, <1>3, EmptyRing DEF RingInv

\* clear, and a restart that finds the file new, leave it empty.
LEMMA EmptiedRing ==
  ASSUME Emptied, op' = Idle, data' \in [Slots -> Cells], crashes' \in 0 .. MaxCrashes
  PROVE  RingInv'
<1>1. /\ entries' = <<>> /\ used' = 0 /\ start' = 0 /\ count' = 0
      /\ read_offset' = 0 /\ write_offset' = 0
  BY DEF Emptied
<1>2. Operation'
  BY <1>1, EmptyRing DEF Operation, Place
<1> QED
  BY <1>1, <1>2, EmptyRing DEF RingInv

\* A process that dies before its operation moves an offset leaves the ring as it was.
LEMMA RestartedRing ==
  ASSUME RingInv, CrashPoints \subseteq Untorn, Restart
  PROVE  RingInv'
<1>1. op.at \in Untorn /\ crashes' \in 0 .. MaxCrashes /\ op' = Idle
  BY CrashesAssumption DEF Restart, RingInv
<1>2. CASE Emptied /\ data' = [i \in Slots |-> Zero]
  BY <1>1, <1>2, EmptyRing, EmptiedRing
<1>3. CASE UNCHANGED <<header, data, history>>
  <2>1. read_offset = start /\ write_offset = Place(used)
    <3>1. CASE op.at = "idle"
      BY <3>1, Stage
    <3>2. CASE op.at = "push_len"
      <4>1. PICK b : Pushing(b)
        BY <3>2, Stage
      <4> QED
        BY <3>2, <4>1 DEF Pushing
    <3>3. CASE op.at = "pop_len"
      <4>1. PICK b : Popping(b)
        BY <3>3, Stage
      <4> QED
        BY <3>3, <4>1 DEF Popping
    <3> QED
      BY <1>1, <3>1, <3>2, <3>3 DEF Untorn
  <2>2. Operation'
    BY <1>1, <1>3, <2>1 DEF Operation, Place, header, history
  <2> QED
    BY <1>1, <1>3, <2>2 DEF RingInv, header, history
<1> QED
  BY <1>2, <1>3 DEF Restart

\* Every step keeps the ring.
LEMMA StepRing ==
  ASSUME RingInv, CrashPoints \subseteq Untorn, [Next]_vars
  PROVE  RingInv'
<1>1. CASE UNCHANGED vars
  <2>1. UNCHANGED <<header, data, op, history, crashes>>
    BY <1>1 DEF vars
  <2> QED
    BY <2>1 DEF RingInv, Operation, Pushing, Popping, Place, header, history
<1>2. CASE clear
  <2>1. Emptied /\ op' = Idle /\ data' = data /\ crashes' = crashes
    BY <1>2 DEF clear
  <2> QED
    BY <2>1, EmptiedRing DEF RingInv
<1>3. CASE Restart
  BY <1>3, RestartedRing
<1>4. CASE (\E b \in Batches : PushRefused(b) \/ PushBegin(b)) \/ PushLen \/ PushData
  BY <1>4, PushSteps
<1>5. CASE PushCount
  BY <1>5, CountedStep
<1>6. CASE PopEmpty \/ PopBegin \/ PopLen \/ PopData
  BY <1>6, PopSteps
<1>7. CASE PopCount
  BY <1>7, UncountedStep
<1> QED
  BY <1>1, <1>2, <1>3, <1>4, <1>5, <1>6, <1>7 DEF Next

\* The ring stays as it should be while no process dies between two stores.
LEMMA RingHolds == ASSUME CrashPoints \subseteq Untorn PROVE Spec => []RingInv
<1>1. Init => RingInv
  BY InitRing
<1>2. RingInv /\ [Next]_vars => RingInv'
  BY StepRing
<1> QED
  BY <1>1, <1>2, PTL DEF Spec

-----------------------------------------------------------------------------
(* The theorems.                                                               *)

\* The variables have their types: no offset leaves the data region, whatever wraps.
THEOREM TypesHold == ASSUME CrashPoints \subseteq Untorn PROVE Spec => []TypeOK
<1>1. ASSUME RingInv PROVE TypeOK
  <2>1. start \in Slots /\ Layout(entries, used) /\ used \in 0 .. Capacity
    BY <1>1 DEF RingInv, Layout
  <2>2. count \in Nat
    BY <1>1, <2>1 DEF RingInv, Layout
  <2>3. entries \in Seq([batch : Batches, dist : 0 .. Capacity])
    <3>1. entries \in Seq(Entry)
      BY <2>1 DEF Layout
    <3>2. ASSUME NEW k \in 1 .. Len(entries)
          PROVE  entries[k] \in [batch : Batches, dist : 0 .. Capacity]
      <4>1. /\ entries[k] \in Entry /\ entries[k].dist \in Nat
            /\ entries[k].batch \in Batches /\ EndOf(entries[k]) <= used
            /\ EndOf(entries[k]) = entries[k].dist + LenSize + Size[entries[k].batch]
        BY <2>1, EntryFits
      <4>2. entries[k].dist \in 0 .. Capacity
        BY <2>1, <4>1, Sizes
      <4> QED
        BY <4>1, <4>2 DEF Entry
    <3>3. Len(entries) \in Nat /\ entries = [k \in 1 .. Len(entries) |-> entries[k]]
      BY <3>1
    <3>4. entries \in [1 .. Len(entries) -> [batch : Batches, dist : 0 .. Capacity]]
      BY <3>2, <3>3
    <3> DEFINE T == [batch : Batches, dist : 0 .. Capacity]
    <3> HIDE DEF T
    <3>5. entries \in [1 .. Len(entries) -> T]
      BY <3>4 DEF T
    <3>6. entries \in Seq(T)
      BY <3>3, <3>5
    <3> QED
      BY <3>6 DEF T
  <2>4. \A d \in 0 .. Capacity : Place(d) \in Slots
    BY <2>1, PlaceFurther, Sizes
  <2>5. ASSUME NEW b, Pushing(b)
        PROVE  op \in Ops /\ read_offset \in Slots /\ write_offset \in Slots
    <3>1. b \in Batches /\ used + EntrySize[b] <= Capacity /\ read_offset = start
      BY <2>5 DEF Pushing
    <3>2. {used, used + LenSize, used + EntrySize[b]} \subseteq 0 .. Capacity
      BY <2>1, <3>1, Sizes
    <3>3. write_offset \in Slots
      BY <2>4, <2>5, <3>2 DEF Pushing
    <3>4. op \in [at : {"push_len", "push_data", "push_count"}, batch : Batches]
      BY <2>5, <3>1 DEF Pushing
    <3> QED
      BY <2>1, <3>1, <3>3, <3>4 DEF Ops
  <2>6. ASSUME NEW b, Popping(b)
        PROVE  op \in Ops /\ read_offset \in Slots /\ write_offset \in Slots
    <3>1. /\ b \in Batches /\ EntrySize[b] <= used /\ write_offset = Place(used)
      BY <1>1, <2>6, FirstEntry DEF Popping
    <3>2. {LenSize, EntrySize[b], Size[b]} \subseteq 0 .. Capacity
      BY <2>1, <3>1, Sizes
    <3>3. read_offset \in Slots
      BY <2>1, <2>4, <2>6, <3>2 DEF Popping
    <3>4. op \in Ops
      <4>1. CASE op = [at |-> "pop_len"]
        BY <4>1 DEF Ops
      <4>2. CASE op = [at |-> "pop_data", len |-> Size[b]]
        BY <3>2, <4>2 DEF Ops
      <4>3. CASE op = [at |-> "pop_count", batch |-> b]
        BY <3>1, <4>3 DEF Ops
      <4> QED
        BY <2>6, <4>1, <4>2, <4>3 DEF Popping
    <3> QED
      BY <2>1, <2>4, <3>1, <3>3, <3>4
  <2>7. op \in Ops /\ read_offset \in Slots /\ write_offset \in Slots
    <3>1. CASE op = Idle /\ read_offset = start /\ write_offset = Place(used)
      BY <2>1, <2>4, <3>1 DEF Ops
    <3> QED
      BY <1>1, <2>5, <2>6, <3>1 DEF RingInv, Operation
  <2> QED
    BY <1>1, <2>1, <2>2, <2>3, <2>7 DEF RingInv, TypeOK
<1> QED
  BY <1>1, RingHolds, PTL

\* The buffer never takes a full ring for an empty one, and never offers bytes of an
\* entry: what it counts as free is exactly what no entry occupies.
THEOREM FreeIsFree == ASSUME CrashPoints \subseteq Untorn PROVE Spec => []AvailableIsFree
<1>1. RingInv => AvailableIsFree
  BY FreeBytes DEF AvailableIsFree
<1> QED
  BY <1>1, RingHolds, PTL

\* No push ever writes over an entry that is still to be popped, wherever the ring
\* wraps and whatever the sizes are.
THEOREM EntriesStay == ASSUME CrashPoints \subseteq Untorn PROVE Spec => []EntriesIntact
<1>1. ASSUME RingInv, NEW k \in 1 .. Len(entries)
      PROVE  LET e == entries[k]
                 from == start + e.dist
             IN  /\ Fetched(from, LenSize) = LenCells(Size[e.batch])
                 /\ Fetched(from + LenSize, Size[e.batch]) = BatchCells(e.batch)
  <2> DEFINE e == entries[k]
             from == start + e.dist
  <2>1. e.batch \in Batches /\ e.dist \in Nat
    BY <1>1, EntryFits DEF RingInv
  <2>2. Whole(data, start, e)
    BY <1>1 DEF RingInv
  <2>3. start \in Nat
    BY <1>1, Sizes DEF RingInv, Slots
  <2> HIDE DEF e
  <2>4. \A j \in 0 .. LenSize - 1 : start + (e.dist + j) = from + j
    BY <2>1, <2>3, Sizes
  <2>5. \A j \in 0 .. Size[e.batch] - 1 :
          start + (e.dist + LenSize + j) = (from + LenSize) + j
    BY <2>1, <2>3, Sizes
  <2>6. Fetched(from, LenSize) = LenCells(Size[e.batch])
    <3>1. \A j \in 0 .. LenSize - 1 : data[(from + j) % Capacity] = <<"len", Size[e.batch], j>>
      BY <2>2, <2>4 DEF Whole, HoldsLen, View
    <3> QED
      BY <3>1 DEF Fetched, LenCells
  <2>7. Fetched(from + LenSize, Size[e.batch]) = BatchCells(e.batch)
    <3>1. \A j \in 0 .. Size[e.batch] - 1 :
            data[((from + LenSize) + j) % Capacity] = <<"batch", e.batch, j>>
      BY <2>2, <2>5 DEF Whole, HoldsBatch, View
    <3> QED
      BY <3>1 DEF Fetched, BatchCells
  <2> QED
    BY <2>6, <2>7 DEF e
<1>2. RingInv => EntriesIntact
  BY <1>1 DEF EntriesIntact
<1> QED
  BY <1>2, RingHolds, PTL

-----------------------------------------------------------------------------
(* The ring buffer implements the queue.                                       *)

QueueOf(es) == [k \in 1 .. Len(es) |-> es[k].batch]

\* The batches of the layout, and how they change with it.
LEMMA QueueGrows ==
  ASSUME NEW es, NEW u, Layout(es, u), NEW b \in Batches, u + EntrySize[b] <= Capacity,
         NEW new, new = Append(es, NewEntry(b, u))
  PROVE  QueueOf(new) = Append(QueueOf(es), b)
<1> DEFINE q == QueueOf(es)
           n == Len(es)
<1>1. n \in Nat
  BY DEF Layout
<1>2. q \in Seq(Batches) /\ Len(q) = n /\ \A k \in 1 .. n : q[k] = es[k].batch
  <2>1. \A k \in 1 .. n : es[k].batch \in Batches
    BY EntryFits
  <2>2. q \in [1 .. n -> Batches] /\ \A k \in 1 .. n : q[k] = es[k].batch
    BY <2>1 DEF QueueOf
  <2> QED
    BY <1>1, <2>2
<1>3. /\ Len(new) = n + 1 /\ \A k \in 1 .. n : new[k] = es[k]
      /\ new[n + 1] = NewEntry(b, u)
  BY LayoutGrows
<1> HIDE DEF q, n
<1>4. /\ Append(q, b) \in Seq(Batches) /\ Len(Append(q, b)) = n + 1
      /\ \A k \in 1 .. n : Append(q, b)[k] = q[k] /\ Append(q, b)[n + 1] = b
  BY <1>1, <1>2
<1>5. Append(q, b)[n + 1] = b
  BY <1>1, <1>2
<1>6. \A k \in 1 .. n + 1 : Append(q, b)[k] = new[k].batch
  <2>1. new[n + 1].batch = b
    BY <1>3 DEF NewEntry
  <2>2. ASSUME NEW k \in 1 .. n + 1, k # n + 1 PROVE k \in 1 .. n
    BY <1>1, <2>2
  <2> QED
    BY <1>2, <1>3, <1>4, <1>5, <2>1, <2>2
<1>7. Append(q, b) = [k \in 1 .. n + 1 |-> new[k].batch]
  <2>1. Append(q, b) = [k \in 1 .. n + 1 |-> Append(q, b)[k]]
    <3> DEFINE t == Append(q, b)
    <3>1. t \in Seq(Batches) /\ Len(t) = n + 1
      BY <1>4
    <3> HIDE DEF t
    <3>2. t = [k \in 1 .. n + 1 |-> t[k]]
      BY <3>1
    <3> QED
      BY <3>2 DEF t
  <2> QED
    BY <1>6, <2>1
<1> QED
  BY <1>3, <1>7 DEF QueueOf, q

\* The queue loses its head with the first entry.
LEMMA QueueShrinks ==
  ASSUME NEW es, NEW u, Layout(es, u), es # <<>>,
         NEW new, Shrunk(new, es, EntrySize[es[1].batch])
  PROVE  /\ QueueOf(es) # <<>> /\ Head(QueueOf(es)) = es[1].batch
         /\ QueueOf(new) = Tail(QueueOf(es))
<1> DEFINE q == QueueOf(es)
           n == Len(es)
<1>1. n \in Nat \ {0} /\ 1 \in 1 .. n
  BY DEF Layout
<1>2. q \in Seq(Batches) /\ Len(q) = n /\ \A k \in 1 .. n : q[k] = es[k].batch
  <2>1. \A k \in 1 .. n : es[k].batch \in Batches
    BY EntryFits
  <2>2. q \in [1 .. n -> Batches] /\ \A k \in 1 .. n : q[k] = es[k].batch
    BY <2>1 DEF QueueOf
  <2> QED
    BY <1>1, <2>2
<1>3. /\ Len(new) = n - 1
      /\ \A k \in 1 .. n - 1 : k + 1 \in 1 .. n /\ new[k].batch = es[k + 1].batch
  <2>1. \A gone : gone = EntrySize[es[1].batch] /\ Shrunk(new, es, gone) =>
          /\ Len(new) = Len(es) - 1
          /\ \A k \in 1 .. Len(new) : /\ k + 1 \in 1 .. Len(es)
                                      /\ new[k].batch = es[k + 1].batch
    BY LayoutShrinks
  <2> QED
    BY <2>1
<1> HIDE DEF q, n
<1>4. /\ Tail(q) \in Seq(Batches) /\ Len(Tail(q)) = n - 1 /\ Head(q) = q[1] /\ q # <<>>
      /\ \A k \in 1 .. n - 1 : Tail(q)[k] = q[k + 1]
  BY <1>1, <1>2
<1>5. \A k \in 1 .. n - 1 : Tail(q)[k] = new[k].batch
  BY <1>2, <1>3, <1>4
<1>6. Tail(q) = [k \in 1 .. n - 1 |-> new[k].batch]
  <2>1. Tail(q) = [k \in 1 .. n - 1 |-> Tail(q)[k]]
    <3> DEFINE t == Tail(q)
    <3>1. t \in Seq(Batches) /\ Len(t) = n - 1
      BY <1>4
    <3> HIDE DEF t
    <3>2. t = [k \in 1 .. n - 1 |-> t[k]]
      BY <3>1
    <3> QED
      BY <3>2 DEF t
  <2> QED
    BY <1>5, <2>1
<1> QED
  BY <1>1, <1>2, <1>3, <1>4, <1>6 DEF QueueOf, q

\* The bytes that are free tell whether a batch fits.
LEMMA FitsIfNotFull ==
  ASSUME RingInv, op = Idle, NEW b \in Batches
  PROVE  ~ TooLarge(b) /\ ~ Full(b) <=> Queue!Fits(b)
<1>1. write_available = Capacity - used
  BY FreeBytes
<1>2. used \in Nat /\ Capacity \in Nat /\ EntrySize[b] \in Nat /\ Capacity \div 4 \in Int
  BY Sizes DEF RingInv, Layout
<1> QED
  BY <1>1, <1>2 DEF TooLarge, Full, Queue!Fits

\* Every step of the buffer is one of the queue, or none.
LEMMA StepOfQueue ==
  ASSUME RingInv, RingInv', [Next]_vars
  PROVE  [Queue!Next]_(Queue!vars)
<1>1. ASSUME UNCHANGED <<entries, used, answer>> PROVE [Queue!Next]_(Queue!vars)
  BY <1>1 DEF Queue!vars
<1>2. CASE UNCHANGED vars \/ PushLen \/ PushData \/ PopBegin \/ PopLen \/ PopData
  <2>1. UNCHANGED <<entries, used, answer>>
    BY <1>2 DEF vars, PushLen, PushData, PopBegin, PopLen, PopData, history
  <2> QED
    BY <1>1, <2>1
<1>3. ASSUME NEW b \in Batches, PushBegin(b) PROVE [Queue!Next]_(Queue!vars)
  BY <1>1, <1>3 DEF PushBegin, history
<1>4. ASSUME NEW b \in Batches, PushRefused(b) PROVE [Queue!Next]_(Queue!vars)
  <2>1. ~ Queue!Fits(b)
    BY <1>4, FitsIfNotFull DEF PushRefused
  <2>2. answer' = <<"refused", b>> /\ entries' = entries /\ used' = used
    BY <1>4 DEF PushRefused, history
  <2>3. Queue!Refuse(b)
    BY <2>1, <2>2 DEF Queue!Refuse
  <2> QED
    BY <2>3 DEF Queue!Next
<1>5. CASE PushCount
  <2>1. PICK b : Pushing(b) /\ op = [at |-> op.at, batch |-> b] /\ op.at = "push_count"
    BY <1>5, Stage DEF PushCount
  <2>2. /\ b \in Batches /\ EntrySize[b] <= Capacity \div 4 /\ used + EntrySize[b] <= Capacity
        /\ op.batch = b
    BY <2>1 DEF Pushing
  <2>3. /\ entries' = Append(entries, NewEntry(b, used)) /\ used' = used + EntrySize[b]
        /\ answer' = <<"accepted", b>>
    BY <1>5, <2>2 DEF PushCount, NewEntry
  <2>4. QueueOf(entries') = Append(QueueOf(entries), b)
    <3> DEFINE es == entries
               u == used
               new == entries'
    <3>1. Layout(es, u) /\ u + EntrySize[b] <= Capacity /\ new = Append(es, NewEntry(b, u))
      BY <2>2, <2>3 DEF RingInv
    <3> HIDE DEF es, u, new
    <3>2. QueueOf(new) = Append(QueueOf(es), b)
      BY <2>2, <3>1, QueueGrows
    <3> QED
      BY <3>2 DEF es, new
  <2>5. Queue!Push(b)
    BY <2>2, <2>3, <2>4 DEF Queue!Push, Queue!Fits, QueueOf
  <2> QED
    BY <2>2, <2>5 DEF Queue!Next
<1>6. CASE PopEmpty
  <2>1. entries = <<>> /\ answer' = <<"empty">> /\ entries' = entries /\ used' = used
    <3>1. count = 0 /\ answer' = <<"empty">> /\ entries' = entries /\ used' = used
      BY <1>6 DEF PopEmpty, history
    <3>2. entries \in Seq(Entry) /\ Len(entries) = 0
      BY <3>1 DEF RingInv, Layout
    <3> QED
      BY <3>1, <3>2
  <2>2. QueueOf(entries) = <<>>
    BY <2>1 DEF QueueOf
  <2>3. Queue!PopEmpty
    BY <2>1, <2>2 DEF Queue!PopEmpty, QueueOf
  <2> QED
    BY <2>3 DEF Queue!Next
<1>7. CASE PopCount
  <2> DEFINE b == entries[1].batch
  <2>1. op.at = "pop_count"
    BY <1>7 DEF PopCount
  <2>2. entries # <<>> /\ op.batch = b
    <3>1. PICK c : Popping(c)
      BY <2>1, Stage
    <3> QED
      BY <2>1, <3>1 DEF Popping
  <2>3. /\ Shrunk(entries', entries, EntrySize[b]) /\ used' = used - EntrySize[b]
        /\ answer' = <<"popped", b>>
    BY <1>7, <2>2 DEF PopCount, Shrunk
  <2>4. /\ QueueOf(entries) # <<>> /\ Head(QueueOf(entries)) = b
        /\ QueueOf(entries') = Tail(QueueOf(entries))
    BY <2>2, <2>3, QueueShrinks DEF RingInv
  <2>5. Queue!Pop
    <3> HIDE DEF b
    <3> QED
      BY <2>3, <2>4 DEF Queue!Pop, QueueOf
  <2> QED
    BY <2>5 DEF Queue!Next
<1>8. CASE clear \/ Restart
  <2>1. answer' = answer
    BY <1>8 DEF clear, Restart
  <2>2. CASE Emptied
    <3>1. QueueOf(entries') = <<>> /\ used' = 0
      BY <2>2 DEF Emptied, QueueOf
    <3>2. Queue!Forget
      BY <2>1, <3>1 DEF Queue!Forget, QueueOf
    <3> QED
      BY <3>2 DEF Queue!Next
  <2>3. CASE ~Emptied
    BY <1>1, <1>8, <2>1, <2>3 DEF clear, Restart, history
  <2> QED
    BY <2>2, <2>3
<1> QED
  BY <1>2, <1>3, <1>4, <1>5, <1>6, <1>7, <1>8 DEF Next

\* The mapped file with its two offsets is the bounded queue that the send loop is
\* written for, for every capacity, with restarts between operations.
THEOREM ImplementsQueue == ASSUME CrashPoints \subseteq Untorn PROVE Spec => QueueSpec
<1>1. Init => Queue!Init
  <2>1. Init => QueueOf(entries) = <<>>
    BY DEF Init, QueueOf
  <2> QED
    BY <2>1 DEF Init, Queue!Init, QueueOf
<1>2. RingInv /\ RingInv' /\ [Next]_vars => [Queue!Next]_(Queue!vars)
  BY StepOfQueue
<1> QED
  BY <1>1, <1>2, RingHolds, PTL DEF Spec, QueueSpec, Queue!Spec
=============================================================================
