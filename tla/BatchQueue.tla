----------------------------- MODULE BatchQueue -----------------------------
(* What the agent's ring buffer promises to its send loop: a bounded queue   *)
(* of metric batches.  A batch is accepted when it is no larger than a       *)
(* quarter of the buffer and fits into the bytes that are free, batches come *)
(* out whole and in the order in which they went in, and a restart of the    *)
(* agent keeps all of them or, where the file is taken for a new one, none.  *)
EXTENDS Naturals, Sequences

CONSTANTS Batches,   \* the batches the agent may build
          Capacity,  \* bytes of the data region (capacity_)
          EntrySize  \* bytes a batch takes, its length prefix included

VARIABLES queue, used, answer

vars == <<queue, used, answer>>

Init == queue = <<>> /\ used = 0 /\ answer = <<"none">>

Fits(b) ==
  /\ EntrySize[b] <= Capacity \div 4
  /\ used + EntrySize[b] <= Capacity

Push(b) ==
  /\ Fits(b)
  /\ queue' = Append(queue, b)
  /\ used' = used + EntrySize[b]
  /\ answer' = <<"accepted", b>>

Refuse(b) ==
  /\ ~ Fits(b)
  /\ answer' = <<"refused", b>>
  /\ UNCHANGED <<queue, used>>

Pop ==
  /\ queue # <<>>
  /\ answer' = <<"popped", Head(queue)>>
  /\ queue' = Tail(queue)
  /\ used' = used - EntrySize[Head(queue)]

PopEmpty ==
  /\ queue = <<>>
  /\ answer' = <<"empty">>
  /\ UNCHANGED <<queue, used>>

\* A restart, or clear(), that finds nothing it would keep.
Forget == queue' = <<>> /\ used' = 0 /\ UNCHANGED answer

Next ==
  \/ \E b \in Batches : Push(b) \/ Refuse(b)
  \/ Pop
  \/ PopEmpty
  \/ Forget

Spec == Init /\ [][Next]_vars
=============================================================================
