----------------------------- MODULE RingBuffer -----------------------------
(* The file-backed ring buffer of the C++ agent (cxx-agent, ring_buffer.cpp) *)
(* down to the stores its operations make: a header with the two offsets and *)
(* the count, and Capacity bytes of data that hold length-prefixed entries.  *)
(* The mutex keeps operations apart, but the file is a shared mapping, so a  *)
(* process that dies between two stores leaves what it has written so far to *)
(* the constructor of the next one.                                          *)
(*                                                                           *)
(* A byte is the j-th cell of what was stored there: of a length or of a     *)
(* serialized batch.  oldest_ts is left out: no operation reads it.          *)
EXTENDS Integers, Sequences

CONSTANTS Batches,      \* the batches the agent may build
          Size,           \* bytes of a batch when serialized
          Capacity,       \* bytes of the data region
          LenSize,        \* sizeof(len), the prefix of an entry
          CrashPoints,    \* the stages at which the process may die
          MaxCrashes      \* bound on restarts

Stages == {"idle", "push_len", "push_data", "push_count",
           "pop_len", "pop_data", "pop_count"}

ASSUME SizesAssumption ==
  /\ Capacity \in Nat \ {0} /\ LenSize \in Nat \ {0}
  /\ Size \in [Batches -> Nat \ {0}]
ASSUME CrashesAssumption == CrashPoints \subseteq Stages /\ MaxCrashes \in Nat

VARIABLES
  write_offset, read_offset, count,   \* the header
  data,                               \* the data region
  op,        \* the operation in progress: its stage and what it has read
  answer,    \* the last answer given to the send loop
  entries,   \* history: accepted and not popped, each at a distance from start
  start,     \* history: the offset at which the first entry begins
  used,      \* history: the bytes of the entries
  crashes

header == <<write_offset, read_offset, count>>
history == <<entries, start, used>>
vars == <<header, data, op, answer, history, crashes>>

-----------------------------------------------------------------------------
(* Bytes *)

Slots == 0 .. Capacity - 1
Zero == <<"zero">>
LenCells(n) == [j \in 0 .. LenSize - 1 |-> <<"len", n, j>>]
BatchCells(b) == [j \in 0 .. Size[b] - 1 |-> <<"batch", b, j>>]
Garbage == "garbage"

EntrySize == [b \in Batches |-> LenSize + Size[b]]

\* Faulty variant: the second part of the copy is forgotten.
StoredUnwrapped(off, n, cells) ==
  [i \in Slots |-> IF i \in off .. off + n - 1 THEN cells[i - off] ELSE data[i]]

\* memcpy of n cells to offset off, in two parts where it passes the end.
Stored(off, n, cells) ==
  [i \in Slots |->
     LET j == (i + Capacity - off) % Capacity
     IN  IF j < n THEN cells[j] ELSE data[i]]

\* memcpy of n cells from offset off.
Fetched(off, n) == [j \in 0 .. n - 1 |-> data[(off + j) % Capacity]]

\* The lengths a prefix may be read as: the one that was stored, 0 where
\* nothing ever was, and anything where the prefix is a piece of other bytes.
LengthsIn(cells) ==
  LET stored == {Size[b] : b \in {c \in Batches : cells = LenCells(Size[c])}}
  IN  IF stored # {} THEN stored
      ELSE IF \A j \in DOMAIN cells : cells[j] = Zero THEN {0}
      ELSE 0 .. Capacity

\* What deserialize_batch makes of some cells: a batch if they are exactly its
\* own, otherwise a failure or a batch nobody pushed.
BatchIn(cells) ==
  IF \E b \in Batches : cells = BatchCells(b)
  THEN CHOOSE b \in Batches : cells = BatchCells(b)
  ELSE Garbage

Idle == [at |-> "idle"]

Init ==
  /\ write_offset = 0 /\ read_offset = 0 /\ count = 0
  /\ data = [i \in Slots |-> Zero]
  /\ op = Idle /\ answer = <<"none">>
  /\ entries = <<>> /\ start = 0 /\ used = 0
  /\ crashes = 0

\* Faulty variant: equal offsets always mean an empty buffer.
write_availableByOffsets ==
  IF write_offset >= read_offset THEN Capacity - (write_offset - read_offset)
  ELSE read_offset - write_offset

write_available ==
  IF count = 0 THEN Capacity
  ELSE IF write_offset > read_offset THEN Capacity - (write_offset - read_offset)
  ELSE IF write_offset < read_offset THEN read_offset - write_offset
  ELSE 0

-----------------------------------------------------------------------------
(* push *)

TooLarge(b) == EntrySize[b] > Capacity \div 4
Full(b) == EntrySize[b] > write_available

PushRefused(b) ==
  /\ op = Idle /\ (TooLarge(b) \/ Full(b))
  /\ answer' = <<"refused", b>>
  /\ UNCHANGED <<header, data, op, history, crashes>>

PushBegin(b) ==
  /\ op = Idle /\ ~ TooLarge(b) /\ ~ Full(b)
  /\ op' = [at |-> "push_len", batch |-> b]
  /\ UNCHANGED <<header, data, answer, history, crashes>>

\* Faulty variant: the offset is not wrapped.
PushLenUnwrapped ==
  /\ op.at = "push_len"
  /\ data' = Stored(write_offset, LenSize, LenCells(Size[op.batch]))
  /\ write_offset' = write_offset + LenSize
  /\ op' = [op EXCEPT !.at = "push_data"]
  /\ UNCHANGED <<read_offset, count, answer, history, crashes>>

\* The length is stored and write_offset moves past it.
PushLen ==
  /\ op.at = "push_len"
  /\ data' = Stored(write_offset, LenSize, LenCells(Size[op.batch]))
  /\ write_offset' = (write_offset + LenSize) % Capacity
  /\ op' = [op EXCEPT !.at = "push_data"]
  /\ UNCHANGED <<read_offset, count, answer, history, crashes>>

\* The serialized batch is stored and write_offset moves past it.
PushData ==
  /\ op.at = "push_data"
  /\ data' = Stored(write_offset, Size[op.batch], BatchCells(op.batch))
  /\ write_offset' = (write_offset + Size[op.batch]) % Capacity
  /\ op' = [op EXCEPT !.at = "push_count"]
  /\ UNCHANGED <<read_offset, count, answer, history, crashes>>

PushCount ==
  /\ op.at = "push_count"
  /\ count' = count + 1
  /\ op' = Idle
  /\ answer' = <<"accepted", op.batch>>
  /\ entries' = Append(entries, [batch |-> op.batch, dist |-> used])
  /\ used' = used + EntrySize[op.batch]
  /\ UNCHANGED <<write_offset, read_offset, data, start, crashes>>

-----------------------------------------------------------------------------
(* pop *)

PopEmpty ==
  /\ op = Idle /\ count = 0
  /\ answer' = <<"empty">>
  /\ UNCHANGED <<header, data, op, history, crashes>>

PopBegin ==
  /\ op = Idle /\ count # 0
  /\ op' = [at |-> "pop_len"]
  /\ UNCHANGED <<header, data, answer, history, crashes>>

\* Faulty variant: the offset moves past the batch only, as it would for an entry
\* without a prefix.
PopLenStays ==
  /\ op.at = "pop_len"
  /\ \E n \in LengthsIn(Fetched(read_offset, LenSize)) :
       op' = [at |-> "pop_data", len |-> n]
  /\ UNCHANGED <<header, data, answer, history, crashes>>

\* The length is read and read_offset moves past it.
PopLen ==
  /\ op.at = "pop_len"
  /\ \E n \in LengthsIn(Fetched(read_offset, LenSize)) :
       op' = [at |-> "pop_data", len |-> n]
  /\ read_offset' = (read_offset + LenSize) % Capacity
  /\ UNCHANGED <<write_offset, count, data, answer, history, crashes>>

\* The batch is read and read_offset moves past it.
PopData ==
  /\ op.at = "pop_data"
  /\ op' = [at |-> "pop_count", batch |-> BatchIn(Fetched(read_offset, op.len))]
  /\ read_offset' = (read_offset + op.len) % Capacity
  /\ UNCHANGED <<write_offset, count, data, answer, history, crashes>>

\* The history forgets the first entry and measures the others from the next.
PopCount ==
  /\ op.at = "pop_count"
  /\ count' = count - 1
  /\ op' = Idle
  /\ answer' = <<"popped", op.batch>>
  /\ IF entries = <<>> THEN UNCHANGED history
     ELSE LET gone == EntrySize[Head(entries).batch]
          IN  /\ entries' = [k \in 1 .. Len(entries) - 1 |->
                               [entries[k + 1] EXCEPT !.dist = @ - gone]]
              /\ start' = (start + gone) % Capacity
              /\ used' = used - gone
  /\ UNCHANGED <<write_offset, read_offset, data, crashes>>

-----------------------------------------------------------------------------

Emptied ==
  /\ write_offset' = 0 /\ read_offset' = 0 /\ count' = 0
  /\ entries' = <<>> /\ start' = 0 /\ used' = 0

clear ==
  /\ op = Idle
  /\ Emptied
  /\ UNCHANGED <<data, op, answer, crashes>>

\* The constructor's test for a file it has to initialize.  is_new and offsets
\* beyond the capacity need another file or another capacity.
LooksNew == write_offset = 0 /\ read_offset = 0

\* The process dies, at a stage of CrashPoints, and the next one maps the file.
Restart ==
  /\ op.at \in CrashPoints /\ crashes < MaxCrashes
  /\ crashes' = crashes + 1
  /\ op' = Idle
  /\ \/ /\ LooksNew
        /\ Emptied /\ data' = [i \in Slots |-> Zero]
     \/ /\ ~ LooksNew
        /\ UNCHANGED <<header, data, history>>
  /\ UNCHANGED answer

Next ==
  \/ \E b \in Batches : PushRefused(b) \/ PushBegin(b)
  \/ PushLen \/ PushData \/ PushCount
  \/ PopEmpty \/ PopBegin \/ PopLen \/ PopData \/ PopCount
  \/ clear
  \/ Restart

Spec == Init /\ [][Next]_vars

-----------------------------------------------------------------------------
(* Properties *)

Ops ==
  {Idle} \cup [at : {"pop_len"}]
  \cup [at : {"push_len", "push_data", "push_count"}, batch : Batches]
  \cup [at : {"pop_data"}, len : 0 .. Capacity]
  \cup [at : {"pop_count"}, batch : Batches \cup {Garbage}]

Cells ==
  {Zero} \cup {<<"len", Size[b], j>> : b \in Batches, j \in 0 .. LenSize - 1}
  \cup UNION {{<<"batch", b, j>> : j \in 0 .. Size[b] - 1} : b \in Batches}

\* The types of the variables; the offsets always lie within the data region.
TypeOK ==
  /\ write_offset \in Slots /\ read_offset \in Slots /\ count \in Nat
  /\ data \in [Slots -> Cells]
  /\ op \in Ops
  /\ entries \in Seq([batch : Batches, dist : 0 .. Capacity])
  /\ start \in Slots /\ used \in 0 .. Capacity
  /\ crashes \in 0 .. MaxCrashes

\* Between operations write_available, which only looks at the offsets and at
\* whether count is 0, is exactly the number of bytes no entry occupies: a full
\* and an empty buffer, whose offsets are equal in both cases, are told apart.
AvailableIsFree == op = Idle => write_available = Capacity - used

\* Every accepted batch is still in the data region, whole, at the place where
\* pop will look for it, also while another is being stored around the end.
EntriesIntact ==
  \A k \in 1 .. Len(entries) :
    LET e == entries[k]
        from == start + e.dist
    IN  /\ Fetched(from, LenSize) = LenCells(Size[e.batch])
        /\ Fetched(from + LenSize, Size[e.batch]) = BatchCells(e.batch)

\* The buffer implements the queue: a push takes effect when it is counted, a
\* pop too, and a restart keeps the queue or empties it.
Queue == INSTANCE BatchQueue WITH
  queue <- [k \in 1 .. Len(entries) |-> entries[k].batch]
QueueSpec == Queue!Spec
=============================================================================
