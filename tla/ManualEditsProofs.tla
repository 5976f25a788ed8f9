-------------------------- MODULE ManualEditsProofs --------------------------
(* What holds of the copy edits for any number of elements, commits, agents and *)
(* restarts: a transaction always is somebody's, an edit leaves the buffer only *)
(* when its text is in the source, or the user has discarded or outrun it, and  *)
(* what an Apply leaves in the files is all that it has cleared or nothing.     *)
EXTENDS ManualEdits, FiniteSetTheorems, TLAPS

-----------------------------------------------------------------------------
(* Lists, and what Dispatch does to one.                                       *)

IsList(s) == \E n \in Nat : s = [i \in 1 .. n |-> s[i]]

\* A place of a list that is written to, and a list that grows by one.
LEMMA ListExcept ==
  ASSUME NEW s, IsList(s), NEW m \in DOMAIN s, NEW x, NEW t, t = [s EXCEPT ![m] = x]
  PROVE  /\ IsList(t) /\ DOMAIN t = DOMAIN s /\ t[m] = x
         /\ \A i \in DOMAIN s : i # m => t[i] = s[i]
<1>1. PICK n \in Nat : s = [i \in 1 .. n |-> s[i]]
  BY DEF IsList
<1>2. DOMAIN s = 1 .. n
  BY <1>1
<1>3. t = [i \in 1 .. n |-> IF i = m THEN x ELSE s[i]]
  BY <1>1, <1>2
<1>4. t = [i \in 1 .. n |-> t[i]] /\ DOMAIN t = 1 .. n
  BY <1>3
<1>5. IsList(t)
  BY <1>4 DEF IsList
<1>6. t[m] = x /\ \A i \in DOMAIN s : i # m => t[i] = s[i]
  BY <1>2, <1>3
<1> QED
  BY <1>2, <1>4, <1>5, <1>6

\* The place at which a list grows.
LEMMA ListAppend ==
  ASSUME NEW s, IsList(s), NEW x
  PROVE  LET t == Append(s, x) IN
         /\ IsList(t) /\ Len(s) \in Nat /\ Len(s) + 1 \notin DOMAIN s
         /\ DOMAIN t = DOMAIN s \cup {Len(s) + 1} /\ t[Len(s) + 1] = x
         /\ \A i \in DOMAIN s : t[i] = s[i]
<1>1. PICK n \in Nat : s = [i \in 1 .. n |-> s[i]]
  BY DEF IsList
<1> DEFINE S == {s[i] : i \in 1 .. n} \cup {x}
           t == Append(s, x)
<1>2. \A i \in 1 .. n : s[i] \in S
  OBVIOUS
<1> HIDE DEF S
<1>3. s \in [1 .. n -> S]
  BY <1>1, <1>2
<1>4. s \in Seq(S) /\ Len(s) = n /\ x \in S
  <2>1. s \in Seq(S)
    BY <1>3
  <2>2. DOMAIN s = 1 .. n
    BY <1>3
  <2>3. x \in S
    BY DEF S
  <2> QED
    BY <2>1, <2>2, <2>3
<1>5. /\ t \in Seq(S) /\ Len(t) = n + 1 /\ t[n + 1] = x
      /\ \A i \in 1 .. n : t[i] = s[i]
  BY <1>4
<1>6. t = [i \in 1 .. n + 1 |-> t[i]] /\ DOMAIN t = 1 .. n + 1
  <2> HIDE DEF t
  <2>1. t \in [1 .. n + 1 -> S]
    BY <1>5
  <2> QED
    BY <2>1
<1>7. IsList(t)
  <2> HIDE DEF t
  <2>1. n + 1 \in Nat
    OBVIOUS
  <2> QED
    BY <1>6, <2>1 DEF IsList
<1>8. 1 .. n + 1 = 1 .. n \cup {n + 1} /\ n + 1 \notin 1 .. n
  OBVIOUS
<1>9. DOMAIN s = 1 .. n
  BY <1>3
<1> QED
  BY <1>4, <1>5, <1>6, <1>7, <1>8, <1>9

Event(c, batch, src) ==
  [state |-> "open", commit |-> c, batch |-> batch, snap |-> Snapshot(src, DOMAIN batch)]

Placed(new, evs, n, ev) ==
  /\ n \notin DOMAIN evs \/ evs[n] = Gone
  /\ DOMAIN new = DOMAIN evs \cup {n} /\ new[n] = ev
  /\ \A i \in DOMAIN evs : i # n => new[i] = evs[i]

\* A new event takes a place that is new or whose event is over, and no other.
LEMMA DispatchPlaces ==
  ASSUME NEW evs, IsList(evs), NEW c, NEW batch, NEW src,
         NEW new, new = Dispatch(evs, c, batch, src)
  PROVE  IsList(new) /\ \E n : Placed(new, evs, n, Event(c, batch, src))
<1> DEFINE free == {e \in DOMAIN evs : evs[e] = Gone}
           ev == Event(c, batch, src)
<1>1. new = IF free = {} THEN Append(evs, ev)
                         ELSE [evs EXCEPT ![CHOOSE e \in free : TRUE] = ev]
  BY DEF Dispatch, Event
<1> HIDE DEF ev
<1>2. CASE free = {}
  <2>1. new = Append(evs, ev)
    BY <1>1, <1>2
  <2>2. /\ IsList(new) /\ Len(evs) + 1 \notin DOMAIN evs
        /\ DOMAIN new = DOMAIN evs \cup {Len(evs) + 1} /\ new[Len(evs) + 1] = ev
        /\ \A i \in DOMAIN evs : new[i] = evs[i]
    BY <2>1, ListAppend
  <2> QED
    BY <2>2 DEF Placed, ev
<1>3. CASE free # {}
  <2> DEFINE m == CHOOSE e \in free : TRUE
  <2>1. m \in free
    BY <1>3
  <2>2. new = [evs EXCEPT ![m] = ev]
    BY <1>1, <1>3
  <2> HIDE DEF m
  <2>3. m \in DOMAIN evs /\ evs[m] = Gone
    BY <2>1
  <2>4. /\ IsList(new) /\ DOMAIN new = DOMAIN evs /\ new[m] = ev
        /\ \A i \in DOMAIN evs : i # m => new[i] = evs[i]
    <3>1. \A x, t : t = [evs EXCEPT ![m] = x] =>
            /\ IsList(t) /\ DOMAIN t = DOMAIN evs /\ t[m] = x
            /\ \A i \in DOMAIN evs : i # m => t[i] = evs[i]
      BY <2>3, ListExcept
    <3> HIDE DEF free
    <3> QED
      BY <2>2, <3>1
  <2> QED
    BY <2>3, <2>4 DEF Placed, ev
<1> QED
  BY <1>2, <1>3

-----------------------------------------------------------------------------
(* Commits and events.  A commit that runs waits for one event at a time, which *)
(* is open or was just rejected.                                               *)

Fields ==
  {"page", "batch", "base", "txn", "several", "chunks", "ops", "files", "repair", "ids"}
CommitOk(k) ==
  /\ Fields \cup {"at"} \subseteq DOMAIN k /\ k.at = "apply" /\ k.repair \in Nat
  /\ k.several \in BOOLEAN /\ k.ids \subseteq Entries(k.batch)

Active(v) == v.state \in {"open", "rejected"}
Free(evs, c) == \A e \in DOMAIN evs : Active(evs[e]) => evs[e].commit # c

Within(part, batch) == \A r \in DOMAIN part : r \in DOMAIN batch /\ part[r] = batch[r]

\* Only the first events of a commit that goes on in chunks have less than its batch.
EventOk(ks, v) ==
  /\ {"state", "commit", "batch"} \subseteq DOMAIN v
  /\ v.commit \in DOMAIN ks /\ ks[v.commit] # Ended
  /\ Within(v.batch, ks[v.commit].batch)
  /\ ks[v.commit].repair > 0 \/ ~ks[v.commit].several => v.batch = ks[v.commit].batch

Consistent(ks, evs) ==
  /\ IsList(ks) /\ \A c \in DOMAIN ks : ks[c] # Ended => CommitOk(ks[c])
  /\ IsList(evs) /\ \A e \in DOMAIN evs : "state" \in DOMAIN evs[e]
  /\ \A e \in DOMAIN evs : Active(evs[e]) => EventOk(ks, evs[e])
  /\ \A d, e \in DOMAIN evs :
       Active(evs[d]) /\ Active(evs[e]) /\ d # e => evs[d].commit # evs[e].commit

\* A commit that runs is told from one that has ended.
LEMMA RunningIsNotEnded == \A k : CommitOk(k) => k # Ended
BY DEF CommitOk, Ended

\* An event that is over is not active.
LEMMA GoneIsInactive == ~Active(Gone) /\ "state" \in DOMAIN Gone
BY DEF Active, Gone

\* A commit may end, or go on changed, when no event of it is active.
LEMMA CommitChanges ==
  ASSUME NEW ks, NEW evs, Consistent(ks, evs), NEW c \in DOMAIN ks, Free(evs, c),
         NEW k, k = Ended \/ CommitOk(k)
  PROVE  Consistent([ks EXCEPT ![c] = k], evs)
<1> DEFINE new == [ks EXCEPT ![c] = k]
<1>1. /\ IsList(new) /\ DOMAIN new = DOMAIN ks /\ new[c] = k
      /\ \A d \in DOMAIN ks : d # c => new[d] = ks[d]
  BY ListExcept DEF Consistent
<1> HIDE DEF new
<1>2. \A d \in DOMAIN new : new[d] # Ended => CommitOk(new[d])
  BY <1>1 DEF Consistent
<1>3. ASSUME NEW e \in DOMAIN evs, Active(evs[e]) PROVE EventOk(new, evs[e])
  <2>1. evs[e].commit # c /\ EventOk(ks, evs[e])
    BY <1>3 DEF Free, Consistent
  <2>2. new[evs[e].commit] = ks[evs[e].commit]
    BY <1>1, <2>1 DEF EventOk
  <2> QED
    BY <1>1, <2>1, <2>2 DEF EventOk
<1> QED
  BY <1>1, <1>2, <1>3 DEF Consistent, new

\* A new commit comes last, and no event is its.
LEMMA CommitJoins ==
  ASSUME NEW ks, NEW evs, Consistent(ks, evs), NEW k, k = Ended \/ CommitOk(k)
  PROVE  /\ Consistent(Append(ks, k), evs) /\ Free(evs, Len(ks) + 1)
         /\ Len(ks) + 1 \in DOMAIN Append(ks, k) /\ Append(ks, k)[Len(ks) + 1] = k
<1> DEFINE new == Append(ks, k)
           c == Len(ks) + 1
<1>1. /\ IsList(new) /\ c \notin DOMAIN ks /\ DOMAIN new = DOMAIN ks \cup {c}
      /\ new[c] = k /\ \A d \in DOMAIN ks : new[d] = ks[d]
  BY ListAppend DEF Consistent
<1> HIDE DEF new, c
<1>2. \A d \in DOMAIN new : new[d] # Ended => CommitOk(new[d])
  BY <1>1 DEF Consistent
<1>3. ASSUME NEW e \in DOMAIN evs, Active(evs[e])
      PROVE  EventOk(new, evs[e]) /\ evs[e].commit # c
  <2>1. EventOk(ks, evs[e])
    BY <1>3 DEF Consistent
  <2>2. evs[e].commit \in DOMAIN ks /\ new[evs[e].commit] = ks[evs[e].commit]
    BY <1>1, <2>1 DEF EventOk
  <2> QED
    BY <1>1, <2>1, <2>2 DEF EventOk
<1>4. Consistent(new, evs)
  BY <1>1, <1>2, <1>3 DEF Consistent
<1> QED
  BY <1>1, <1>3, <1>4 DEF Free, new, c

\* An event may be closed, or rejected.
LEMMA EventChanges ==
  ASSUME NEW ks, NEW evs, Consistent(ks, evs), NEW e \in DOMAIN evs,
         NEW v, "state" \in DOMAIN v,
         Active(v) => /\ Active(evs[e])
                      /\ {"state", "commit", "batch"} \subseteq DOMAIN v
                      /\ v.commit = evs[e].commit /\ v.batch = evs[e].batch
  PROVE  /\ Consistent(ks, [evs EXCEPT ![e] = v])
         /\ ~Active(v) => \A c : Free(evs, c) => Free([evs EXCEPT ![e] = v], c)
         /\ ~Active(v) /\ Active(evs[e]) => Free([evs EXCEPT ![e] = v], evs[e].commit)
<1> DEFINE new == [evs EXCEPT ![e] = v]
<1>1. /\ IsList(new) /\ DOMAIN new = DOMAIN evs /\ new[e] = v
      /\ \A d \in DOMAIN evs : d # e => new[d] = evs[d]
  BY ListExcept DEF Consistent
<1> HIDE DEF new
<1>2. ASSUME NEW d \in DOMAIN new, Active(new[d])
      PROVE  Active(evs[d]) /\ new[d].commit = evs[d].commit /\ EventOk(ks, new[d])
  BY <1>1, <1>2 DEF Consistent, EventOk
<1>3. \A c, d \in DOMAIN new :
        Active(new[c]) /\ Active(new[d]) /\ c # d => new[c].commit # new[d].commit
  BY <1>1, <1>2 DEF Consistent
<1>4. Consistent(ks, new)
  BY <1>1, <1>2, <1>3 DEF Consistent
<1>5. ~Active(v) => \A c : Free(evs, c) => Free(new, c)
  BY <1>1 DEF Free
<1>6. ~Active(v) /\ Active(evs[e]) => Free(new, evs[e].commit)
  BY <1>1 DEF Consistent, Free
<1> QED
  BY <1>4, <1>5, <1>6 DEF new

\* A commit without an active event may send one.
LEMMA EventJoins ==
  ASSUME NEW ks, NEW evs, Consistent(ks, evs), NEW c \in DOMAIN ks, ks[c] # Ended,
         Free(evs, c), NEW batch, NEW src, Within(batch, ks[c].batch),
         ks[c].repair > 0 \/ ~ks[c].several => batch = ks[c].batch
  PROVE  Consistent(ks, Dispatch(evs, c, batch, src))
<1> DEFINE new == Dispatch(evs, c, batch, src)
           ev == Event(c, batch, src)
<1>0. IsList(evs)
  BY DEF Consistent
<1>1. PICK n : Placed(new, evs, n, ev)
  BY <1>0, DispatchPlaces
<1> HIDE DEF new
<1>2. EventOk(ks, ev) /\ ev.commit = c
  BY DEF EventOk, Event
<1> HIDE DEF ev
<1>3. \A i \in DOMAIN new : i # n => i \in DOMAIN evs /\ new[i] = evs[i]
  BY <1>1 DEF Placed
<1>4. \A e \in DOMAIN new : Active(new[e]) => EventOk(ks, new[e])
  BY <1>1, <1>2, <1>3 DEF Consistent, Placed
<1>5. \A d, e \in DOMAIN new :
        Active(new[d]) /\ Active(new[e]) /\ d # e => new[d].commit # new[e].commit
  BY <1>1, <1>2, <1>3, GoneIsInactive DEF Consistent, Free, Placed
<1>6. IsList(new)
  BY <1>0, DispatchPlaces DEF new
<1>7. \A e \in DOMAIN new : "state" \in DOMAIN new[e]
  <2>1. "state" \in DOMAIN ev
    BY DEF ev, Event
  <2> QED
    BY <1>1, <1>3, <2>1 DEF Consistent, Placed
<1> QED
  <2>1. Consistent(ks, new)
    <3>1. IsList(ks) /\ \A d \in DOMAIN ks : ks[d] # Ended => CommitOk(ks[d])
      BY DEF Consistent
    <3> QED
      BY <1>4, <1>5, <1>6, <1>7, <3>1 DEF Consistent
  <2> QED
    BY <2>1 DEF new

-----------------------------------------------------------------------------
(* What may come of an answer, or of its absence.                              *)

Repairing(c, ids) == [commits EXCEPT ![c].repair = @ + 1, ![c].ids = ids]
Chunking(c, ops, files) ==
  [commits EXCEPT ![c].ops = ops, ![c].files = files, ![c].chunks = Tail(@)]

Retried(c, ids, evs) ==
  /\ commits[c].repair < MaxRepairs
  /\ commits' = Repairing(c, ids)
  /\ events' = Dispatch(evs, c, commits[c].batch, source)
  /\ UNCHANGED <<source, buffer, txn, asked, expected>>

Continued(c, ops, files, next, evs) ==
  /\ commits[c].repair = 0 /\ commits[c].several
  /\ \E R : next = ChunkOf(commits[c].batch, R)
  /\ commits' = Chunking(c, ops, files)
  /\ events' = Dispatch(evs, c, next, source)
  /\ UNCHANGED <<source, buffer, txn, asked, expected>>

\* An edit that is not claimed shows in the source, and did not before.
Leaked(c, ids) ==
  LET batch == commits[c].batch
  IN  \E r \in DOMAIN batch \ OpsOf(batch, ids) :
        source[r] = batch[r].text /\ commits[c].base[r] # batch[r].text

Outcome(c, evs) ==
  \/ commits[c].repair = 0 /\ RollBack(c, evs)
  \/ NeedDecision(c, evs)
  \/ \E ids \in SUBSET Entries(commits[c].batch) :
       \/ /\ Verified(commits[c].batch, ids) /\ Clear(c, ids, evs)
          /\ commits[c].repair = 0 => ~Leaked(c, ids)
       \/ Retried(c, ids, evs)
  \/ \E ops, files, next : Continued(c, ops, files, next, evs)

\* One more attempt, or the user is asked.
LEMMA RepairOutcome ==
  ASSUME NEW c, NEW ids, NEW evs, ids \subseteq Entries(commits[c].batch),
         Repair(c, ids, evs)
  PROVE  Outcome(c, evs)
BY DEF Repair, Retried, Repairing, Outcome

\* What a repair has verified is cleared.
LEMMA ClearOutcome ==
  ASSUME NEW c, NEW ids, NEW evs, ids \subseteq Entries(commits[c].batch),
         Verified(commits[c].batch, ids), Clear(c, ids, evs), commits[c].repair # 0
  PROVE  Outcome(c, evs)
<1>1. ids \in SUBSET Entries(commits[c].batch)
  OBVIOUS
<1> QED
  BY <1>1, Zenon DEF Outcome

\* Only what the source shows is cleared.
LEMMA JudgeOutcome ==
  ASSUME NEW c, NEW result, NEW evs, result.ids \subseteq Entries(commits[c].batch),
         commits[c].repair = 0, Judge(c, result, evs)
  PROVE  Outcome(c, evs)
<1> DEFINE batch == commits[c].batch
           ids == result.ids
<1>1. \/ RollBack(c, evs) \/ Repair(c, ids, evs)
      \/ Verified(batch, ids) /\ ~Leaked(c, ids) /\ Clear(c, ids, evs)
      \/ Repair(c, Entries(batch), evs)
  BY DEF Judge, Leaked
<1>2. CASE RollBack(c, evs)
  BY <1>2 DEF Outcome
<1>3. CASE Repair(c, ids, evs) \/ Repair(c, Entries(batch), evs)
  BY <1>3, RepairOutcome
<1>4. CASE Verified(batch, ids) /\ ~Leaked(c, ids) /\ Clear(c, ids, evs)
  BY <1>4 DEF Outcome
<1> QED
  BY <1>1, <1>2, <1>3, <1>4

\* A chunk is of its batch.
LEMMA ChunkWithin == \A batch, R : Within(ChunkOf(batch, R), batch)
BY DEF Within, ChunkOf, Part

\* What the chunks have applied, the batch has.
LEMMA MergedIds ==
  ASSUME NEW c, NEW ops, NEW files
  PROVE  Merged(c, ops, files).ids \subseteq Entries(commits[c].batch)
BY DEF Merged

\* An event that is fetched, open and answered leads to one of the outcomes.
LEMMA ReplyOutcome ==
  ASSUME Consistent(commits, events), NEW e \in DOMAIN events, Reply(e)
  PROVE  Outcome(events[e].commit, [events EXCEPT ![e] = Gone])
<1> DEFINE c == events[e].commit
           evs == [events EXCEPT ![e] = Gone]
           k == commits[c]
<1>1. Open(e) /\ EventOk(commits, events[e]) /\ CommitOk(k)
  <2>1. Open(e) /\ Active(events[e])
    BY DEF Reply, Open, Active
  <2>2. EventOk(commits, events[e])
    BY <2>1 DEF Consistent
  <2>3. CommitOk(k)
    BY <2>2 DEF EventOk, Consistent
  <2> QED
    BY <2>1, <2>2, <2>3
<1>2. PICK result \in Results(e) :
        \/ k.repair > 0 /\ RepairDone(c, result, evs)
        \/ k.repair = 0 /\ k.several /\ ChunkDone(c, e, result, evs)
        \/ ~k.several /\ k.repair = 0 /\ Judge(c, result, evs)
  <2>1. k.repair \in Nat /\ k.several \in BOOLEAN
    BY <1>1 DEF CommitOk
  <2> QED
    BY <2>1 DEF Reply
<1>3. result.ids \subseteq Entries(events[e].batch)
  BY DEF Results
<1>4. k.repair > 0 \/ ~k.several => result.ids \subseteq Entries(k.batch)
  BY <1>1, <1>3 DEF EventOk
<1>5. CASE k.repair > 0 /\ RepairDone(c, result, evs)
  <2> DEFINE ids == k.ids \cup result.ids
  <2>1. ids \subseteq Entries(k.batch)
    BY <1>1, <1>4, <1>5 DEF CommitOk
  <2>2. (Verified(k.batch, ids) /\ Clear(c, ids, evs)) \/ Repair(c, ids, evs)
    BY <1>5 DEF RepairDone
  <2>3. CASE Verified(k.batch, ids) /\ Clear(c, ids, evs)
    <3>1. k.repair # 0
      BY <1>1, <1>5 DEF CommitOk
    <3> QED
      BY <2>1, <2>3, <3>1, ClearOutcome
  <2> QED
    BY <2>1, <2>2, <2>3, RepairOutcome
<1>6. CASE k.repair = 0 /\ k.several /\ ChunkDone(c, e, result, evs)
  <2>1. \/ \E ops, files, next : Continued(c, ops, files, next, evs)
        \/ \E ops, files : Judge(c, Merged(c, ops, files), evs)
    <3> DEFINE ops == k.ops \cup OpsOf(events[e].batch, result.ids \ result.failed)
               files == k.files \cup result.files
               next == ChunkOf(k.batch, Head(k.chunks))
    <3>1. \/ /\ commits' = Chunking(c, ops, files)
             /\ events' = Dispatch(evs, c, next, source)
             /\ UNCHANGED <<source, buffer, txn, asked, expected>>
          \/ Judge(c, Merged(c, ops, files), evs)
      BY <1>6 DEF ChunkDone, Chunking
    <3>2. \E R : next = ChunkOf(k.batch, R)
      OBVIOUS
    <3> HIDE DEF ops, files, next, evs, c
    <3>3. k.repair = 0 /\ k.several
      BY <1>6
    <3> QED
      BY <3>1, <3>2, <3>3 DEF Continued
  <2>2. CASE \E ops, files, next : Continued(c, ops, files, next, evs)
    BY <2>2 DEF Outcome
  <2> QED
    BY <1>6, <2>1, <2>2, MergedIds, JudgeOutcome
<1>7. CASE ~k.several /\ k.repair = 0 /\ Judge(c, result, evs)
  BY <1>4, <1>7, JudgeOutcome
<1> QED
  BY <1>2, <1>5, <1>6, <1>7

\* What is left of an event that was rejected.
Tombstone(e) == IF e \in work THEN [events[e] EXCEPT !.state = "late"] ELSE Gone

\* An event that was rejected leads to one of the outcomes, too.
LEMMA RejectedOutcome ==
  ASSUME Consistent(commits, events), NEW e \in DOMAIN events, Rejected(e)
  PROVE  /\ ~Active(Tombstone(e)) /\ "state" \in DOMAIN Tombstone(e)
         /\ Outcome(events[e].commit, [events EXCEPT ![e] = Tombstone(e)])
<1> DEFINE c == events[e].commit
           v == Tombstone(e)
           evs == [events EXCEPT ![e] = v]
           k == commits[c]
<1>1. EventOk(commits, events[e]) /\ CommitOk(k)
  <2>1. Active(events[e])
    BY DEF Rejected, Active
  <2>2. EventOk(commits, events[e])
    BY <2>1 DEF Consistent
  <2> QED
    BY <2>2 DEF EventOk, Consistent
<1>2. ~Active(v) /\ "state" \in DOMAIN v
  <2>1. "state" \in DOMAIN events[e]
    BY <1>1 DEF EventOk
  <2> QED
    BY <2>1, GoneIsInactive DEF Tombstone, Active, Gone
<1>3. \/ Repair(c, k.ids, evs)
      \/ k.repair = 0 /\ Judge(c, Merged(c, k.ops, k.files), evs)
      \/ k.repair = 0 /\ RollBack(c, evs)
  <2>1. k.repair \in Nat /\ k.several \in BOOLEAN
    BY <1>1 DEF CommitOk
  <2> QED
    BY <2>1 DEF Rejected, Tombstone
<1>4. k.ids \subseteq Entries(k.batch)
  BY <1>1 DEF CommitOk
<1> HIDE DEF v
<1>5. Outcome(c, evs)
  <2>1. CASE Repair(c, k.ids, evs)
    BY <1>4, <2>1, RepairOutcome
  <2>2. CASE k.repair = 0 /\ Judge(c, Merged(c, k.ops, k.files), evs)
    BY <2>2, MergedIds, JudgeOutcome
  <2>3. CASE k.repair = 0 /\ RollBack(c, evs)
    BY <2>3 DEF Outcome
  <2> QED
    BY <1>3, <2>1, <2>2, <2>3
<1> QED
  BY <1>2, <1>5 DEF v

-----------------------------------------------------------------------------
(* Consistent is inductive.                                                    *)

\* A commit that goes on is still one that runs.
LEMMA GoesOn ==
  ASSUME Consistent(commits, events), NEW c \in DOMAIN commits, CommitOk(commits[c]),
         NEW ids, NEW ops, NEW files, NEW new,
         \/ ids \subseteq Entries(commits[c].batch) /\ new = Repairing(c, ids)
         \/ new = Chunking(c, ops, files)
  PROVE  /\ new = [commits EXCEPT ![c] = new[c]] /\ DOMAIN new = DOMAIN commits
         /\ CommitOk(new[c])
         /\ \A f \in {"page", "batch", "base", "txn", "several"} : new[c][f] = commits[c][f]
<1> DEFINE k == commits[c]
<1>1. IsList(commits)
  BY DEF Consistent
<1>2. PICK n \in Nat : commits = [i \in 1 .. n |-> commits[i]]
  BY <1>1 DEF IsList
<1>3. DOMAIN commits = 1 .. n
  BY <1>2
<1>4. CASE ids \subseteq Entries(k.batch) /\ new = Repairing(c, ids)
  <2> DEFINE k2 == [k EXCEPT !.repair = @ + 1, !.ids = ids]
  <2>1. new = [commits EXCEPT ![c] = k2] /\ DOMAIN new = DOMAIN commits /\ new[c] = k2
    BY <1>2, <1>3, <1>4 DEF Repairing
  <2>2. DOMAIN k2 = DOMAIN k /\ k2.repair = k.repair + 1 /\ k2.ids = ids
    BY DEF CommitOk, Fields
  <2>3. /\ \A f \in {"page", "batch", "base", "txn", "several"} : k2[f] = k[f]
        /\ k2.at = k.at
    BY DEF CommitOk, Fields
  <2> HIDE DEF k2
  <2>4. CommitOk(k2)
    <3>1. k2.repair \in Nat
      BY <2>2 DEF CommitOk
    <3>2. k2.ids \subseteq Entries(k2.batch)
      BY <1>4, <2>2, <2>3
    <3> QED
      BY <2>2, <2>3, <3>1, <3>2 DEF CommitOk
  <2> QED
    BY <2>1, <2>3, <2>4
<1>5. CASE new = Chunking(c, ops, files)
  <2> DEFINE k2 == [k EXCEPT !.ops = ops, !.files = files, !.chunks = Tail(@)]
  <2>1. new = [commits EXCEPT ![c] = k2] /\ DOMAIN new = DOMAIN commits /\ new[c] = k2
    BY <1>2, <1>3, <1>5 DEF Chunking
  <2>2. /\ DOMAIN k2 = DOMAIN k
        /\ \A f \in {"page", "batch", "base", "txn", "several"} : k2[f] = k[f]
    BY DEF CommitOk, Fields
  <2>3. k2.at = k.at /\ k2.repair = k.repair /\ k2.ids = k.ids
    BY DEF CommitOk, Fields
  <2> HIDE DEF k2
  <2>4. CommitOk(k2)
    BY <2>2, <2>3 DEF CommitOk
  <2> QED
    BY <2>1, <2>2, <2>4
<1> QED
  BY <1>4, <1>5

\* The commit of an active event runs.
LEMMA ActiveRuns ==
  ASSUME Consistent(commits, events), NEW e \in DOMAIN events, Active(events[e])
  PROVE  /\ events[e].commit \in Live /\ CommitOk(commits[events[e].commit])
         /\ EventOk(commits, events[e])
BY DEF Consistent, EventOk, Live

\* What comes of an answer leaves commits and events consistent.
LEMMA OutcomeConsistent ==
  ASSUME Consistent(commits, events), NEW e \in DOMAIN events, Active(events[e]),
         NEW v, ~Active(v), "state" \in DOMAIN v,
         Outcome(events[e].commit, [events EXCEPT ![e] = v])
  PROVE  Consistent(commits', events')
<1> DEFINE c == events[e].commit
           evs == [events EXCEPT ![e] = v]
<1>1. c \in DOMAIN commits /\ CommitOk(commits[c]) /\ Consistent(commits, evs) /\ Free(evs, c)
  BY ActiveRuns, EventChanges DEF Live
<1> HIDE DEF c, evs
<1>2. Outcome(c, evs)
  BY DEF c, evs
<1>3. CASE commits' = [commits EXCEPT ![c] = Ended] /\ events' = evs
  BY <1>1, <1>3, CommitChanges
<1>4. ASSUME NEW ids \in SUBSET Entries(commits[c].batch), Retried(c, ids, evs)
      PROVE  Consistent(commits', events')
  <2> DEFINE new == Repairing(c, ids)
  <2>1. commits' = new /\ events' = Dispatch(evs, c, commits[c].batch, source)
    BY <1>4 DEF Retried
  <2> HIDE DEF new
  <2>2. /\ new = [commits EXCEPT ![c] = new[c]] /\ DOMAIN new = DOMAIN commits
        /\ CommitOk(new[c]) /\ new[c].batch = commits[c].batch
    <3>1. /\ new = [commits EXCEPT ![c] = new[c]] /\ DOMAIN new = DOMAIN commits
          /\ CommitOk(new[c])
          /\ \A f \in {"page", "batch", "base", "txn", "several"} : new[c][f] = commits[c][f]
      <4>1. new = Repairing(c, ids) /\ ids \subseteq Entries(commits[c].batch)
        BY DEF new
      <4> QED
        BY <1>1, <4>1, GoesOn
    <3> QED
      BY <3>1
  <2>3. Consistent(new, evs)
    BY <1>1, <2>2, CommitChanges
  <2>4. new[c] # Ended
    BY <2>2, RunningIsNotEnded
  <2>5. Within(commits[c].batch, new[c].batch)
    BY <2>2 DEF Within
  <2>6. Consistent(new, Dispatch(evs, c, commits[c].batch, source))
    BY <1>1, <2>2, <2>3, <2>4, <2>5, EventJoins
  <2> QED
    BY <2>1, <2>6
<1>5. ASSUME NEW ops, NEW files, NEW next, Continued(c, ops, files, next, evs)
      PROVE  Consistent(commits', events')
  <2> DEFINE new == Chunking(c, ops, files)
  <2>1. commits' = new /\ events' = Dispatch(evs, c, next, source)
    BY <1>5 DEF Continued
  <2>2. new[c].repair = 0 /\ new[c].several
    BY <1>1, <1>5 DEF Continued, Chunking, CommitOk, Fields, Consistent, IsList
  <2> HIDE DEF new
  <2>3. /\ new = [commits EXCEPT ![c] = new[c]] /\ DOMAIN new = DOMAIN commits
        /\ CommitOk(new[c]) /\ new[c].batch = commits[c].batch
    <3>1. new = Chunking(c, ops, files)
      BY DEF new
    <3> QED
      BY <1>1, <3>1, GoesOn
  <2>4. Consistent(new, evs)
    BY <1>1, <2>3, CommitChanges
  <2>5. new[c] # Ended
    BY <2>3, RunningIsNotEnded
  <2>6. ~(new[c].repair > 0 \/ ~new[c].several)
    BY <2>2
  <2>7. Within(next, new[c].batch)
    BY <1>5, <2>3, ChunkWithin DEF Continued
  <2>8. Consistent(new, Dispatch(evs, c, next, source))
    BY <1>1, <2>3, <2>4, <2>5, <2>6, <2>7, EventJoins
  <2> QED
    BY <2>1, <2>8
<1> QED
  BY <1>2, <1>3, <1>4, <1>5 DEF Outcome, RollBack, NeedDecision, Clear, Finish

\* A batch that is not cut goes to the agent as it is.
LEMMA WholeBatch ==
  ASSUME NEW R, R \subseteq Refs
  PROVE  LET batch == Part(buffer, R) IN
         /\ DOMAIN batch = R
         /\ Cardinality(R) <= ChunkSize => ChunkOf(batch, Head(Chunks(batch))) = batch
         /\ Cardinality(R) > ChunkSize \/ Cardinality(R) <= ChunkSize
<1> DEFINE batch == Part(buffer, R)
<1>1. DOMAIN batch = R /\ ChunkOf(batch, R) = batch
  BY DEF Part, ChunkOf
<1>2. Cardinality(R) \in Nat /\ ChunkSize \in Nat
  <2>1. IsFiniteSet(R)
    BY ManualEditsAssumption, FS_Subset
  <2> QED
    BY <2>1, FS_CardinalityType, ManualEditsAssumption
<1>3. ASSUME Cardinality(R) <= ChunkSize PROVE Head(Chunks(batch)) = R
  <2>1. Chunks(batch) = <<R>>
    BY <1>1, <1>3 DEF Chunks
  <2> QED
    BY <2>1
<1> HIDE DEF batch
<1>4. Cardinality(R) > ChunkSize \/ Cardinality(R) <= ChunkSize
  BY <1>2
<1> QED
  BY <1>1, <1>3, <1>4 DEF batch

\* What a commit starts with.
LEMMA NewCommitOk ==
  ASSUME NEW p, NEW batch, NEW src, NEW id, NEW k, k = NewCommit(p, batch, src, id)
  PROVE  /\ CommitOk(k) /\ k.batch = batch /\ k.txn = id /\ k.page = p /\ k.repair = 0
         /\ k.several \/ ~(Cardinality(DOMAIN batch) > ChunkSize)
         /\ k.base = Snapshot(src, DOMAIN batch)
<1>0. k.base = Snapshot(src, DOMAIN batch)
  BY DEF NewCommit
<1>1. /\ k.batch = batch /\ k.txn = id /\ k.page = p /\ k.repair = 0
      /\ k.at = "apply" /\ k.ids = {}
  BY DEF NewCommit
<1>2. k.several = (Cardinality(DOMAIN batch) > ChunkSize)
  BY Zenon DEF NewCommit
<1>3. Fields \cup {"at"} \subseteq DOMAIN k
  BY DEF NewCommit, Fields
<1>4. k.several \in BOOLEAN
  BY SMT DEF NewCommit
<1>5. CommitOk(k)
  BY <1>1, <1>3, <1>4 DEF CommitOk
<1>6. k.several \/ ~(Cardinality(DOMAIN batch) > ChunkSize)
  BY <1>2, Zenon
<1> QED
  BY <1>0, <1>1, <1>5, <1>6

\* A commit that is new sends its first event.
LEMMA CommitConsistent ==
  ASSUME Consistent(commits, events), NEW p, Commit(p)
  PROVE  Consistent(commits', events')
<1> DEFINE R == Pending(buffer, p)
           batch == Part(buffer, R)
           src == IF Own(p) THEN Recovered(buffer, source) ELSE source
           c == Len(commits) + 1
           k == NewCommit(p, batch, src, c)
           ks == Append(commits, k)
           first == ChunkOf(batch, Head(Chunks(batch)))
<1>1. commits' = ks /\ events' = Dispatch(events, c, first, src)
  BY DEF Commit
<1>2. R \subseteq Refs
  BY DEF Pending
<1>3. DOMAIN batch = R
  BY <1>2, WholeBatch
<1>4. ~(Cardinality(R) > ChunkSize) => first = batch
  BY <1>2, WholeBatch
<1>0. Within(first, batch)
  BY ChunkWithin
<1> HIDE DEF R, batch, src, c, first
<1>5. /\ CommitOk(k) /\ k.batch = batch /\ k.repair = 0
      /\ k.several \/ ~(Cardinality(DOMAIN batch) > ChunkSize)
  BY NewCommitOk
<1> HIDE DEF k
<1>6. k.repair > 0 \/ ~k.several => first = batch
  <2>1. DOMAIN batch = R /\ k.repair = 0
    BY <1>3, <1>5
  <2>2. k.several \/ ~(Cardinality(R) > ChunkSize)
    BY <1>5, <2>1
  <2> QED
    BY <1>4, <2>1, <2>2
<1>7. Consistent(ks, events) /\ Free(events, c) /\ c \in DOMAIN ks /\ ks[c] = k
  BY <1>5, CommitJoins DEF c
<1> HIDE DEF ks
<1>8. ks[c] # Ended
  BY <1>5, <1>7, RunningIsNotEnded
<1>9. ks[c].repair > 0 \/ ~ks[c].several => first = ks[c].batch
  BY <1>5, <1>6, <1>7
<1>10. Within(first, ks[c].batch)
  BY <1>0, <1>5, <1>7
<1>11. Consistent(ks, Dispatch(events, c, first, src))
  BY <1>7, <1>8, <1>9, <1>10, EventJoins
<1> QED
  BY <1>1, <1>11

\* So does one that goes on with a repair.
LEMMA KeepFixingConsistent ==
  ASSUME Consistent(commits, events), NEW p, KeepFixing(p)
  PROVE  Consistent(commits', events')
<1> DEFINE R == Pending(buffer, p)
           batch == Part(buffer, R)
           all == Entries(batch)
           c == Len(commits) + 1
           k0 == NewCommit(p, batch, source, txn.id)
           k == [k0 EXCEPT !.repair = 1, !.ids = all]
           ks == Append(commits, k)
<1>1. \/ commits' = Append(commits, Ended) /\ events' = events
      \/ commits' = ks /\ events' = Dispatch(events, c, batch, source)
  BY DEF KeepFixing
<1> HIDE DEF R, batch, c
<1>2. CommitOk(k) /\ k.batch = batch
  <2>1. CommitOk(k0) /\ k0.batch = batch
    BY NewCommitOk
  <2> HIDE DEF k0, all
  <2>2. DOMAIN k = DOMAIN k0 /\ k.repair = 1 /\ k.ids = all
    BY <2>1 DEF CommitOk, Fields
  <2>3. k.batch = k0.batch /\ k.at = k0.at /\ k.several = k0.several
    BY <2>1 DEF CommitOk, Fields
  <2> HIDE DEF k
  <2>4. k.ids \subseteq Entries(k.batch)
    BY <2>1, <2>2, <2>3 DEF all
  <2> QED
    BY <2>1, <2>2, <2>3, <2>4 DEF CommitOk
<1> HIDE DEF k
<1>3. CASE commits' = Append(commits, Ended) /\ events' = events
  BY <1>3, CommitJoins
<1>4. CASE commits' = ks /\ events' = Dispatch(events, c, batch, source)
  <2>1. Consistent(ks, events) /\ Free(events, c) /\ c \in DOMAIN ks /\ ks[c] = k
    BY <1>2, CommitJoins DEF c
  <2> HIDE DEF ks
  <2>2. ks[c] # Ended /\ batch = ks[c].batch
    BY <1>2, <2>1, RunningIsNotEnded
  <2>3. Consistent(ks, Dispatch(events, c, batch, source))
    BY <2>1, <2>2, EventJoins DEF Within
  <2> QED
    BY <1>4, <2>3
<1> QED
  BY <1>1, <1>3, <1>4

\* Events that are rejected stay with their commits.
LEMMA DiscardConsistent ==
  ASSUME Consistent(commits, events), NEW p, Discard(p)
  PROVE  Consistent(commits', events')
<1> DEFINE mine == {e \in DOMAIN events : Open(e) /\ commits[events[e].commit].page = p}
           new == [e \in DOMAIN events |->
                     IF e \in mine THEN [events[e] EXCEPT !.state = "rejected"] ELSE events[e]]
<1>1. commits' = commits /\ events' = new
  BY DEF Discard
<1>2. DOMAIN new = DOMAIN events
  OBVIOUS
<1>3. ASSUME NEW e \in DOMAIN new
      PROVE  /\ "state" \in DOMAIN new[e]
             /\ Active(new[e]) => /\ Active(events[e])
                                  /\ new[e].commit = events[e].commit
                                  /\ EventOk(commits, new[e])
  <2>1. CASE e \in mine
    <3>1. Active(events[e])
      BY <2>1 DEF Open, Active
    <3>2. EventOk(commits, events[e])
      BY <3>1 DEF Consistent
    <3>3. new[e] = [events[e] EXCEPT !.state = "rejected"]
      BY <2>1
    <3>4. /\ DOMAIN new[e] = DOMAIN events[e]
          /\ new[e].commit = events[e].commit /\ new[e].batch = events[e].batch
      BY <3>2, <3>3 DEF EventOk
    <3> QED
      BY <3>1, <3>2, <3>4 DEF EventOk
  <2>2. CASE e \notin mine
    BY <2>2 DEF Consistent
  <2> QED
    BY <2>1, <2>2
<1>4. IsList(new)
  <2>1. IsList(events)
    BY DEF Consistent
  <2>2. PICK n \in Nat : events = [i \in 1 .. n |-> events[i]]
    BY <2>1 DEF IsList
  <2>3. new = [i \in 1 .. n |-> new[i]]
    BY <2>2
  <2> QED
    BY <2>3 DEF IsList
<1> HIDE DEF new
<1>5. \A d, e \in DOMAIN new :
        Active(new[d]) /\ Active(new[e]) /\ d # e => new[d].commit # new[e].commit
  BY <1>2, <1>3 DEF Consistent
<1>6. Consistent(commits, new)
  <2>1. IsList(commits) /\ \A c \in DOMAIN commits : commits[c] # Ended => CommitOk(commits[c])
    BY DEF Consistent
  <2> QED
    BY <1>3, <1>4, <1>5, <2>1 DEF Consistent
<1> QED
  BY <1>1, <1>6

\* After a restart nothing runs.
LEMMA RestartConsistent ==
  ASSUME Consistent(commits, events), Restart
  PROVE  Consistent(commits', events')
<1>1. commits' = [c \in DOMAIN commits |-> Ended]
  BY DEF Restart
<1>2. events' = [e \in DOMAIN events |->
                   IF e \in work THEN [events[e] EXCEPT !.state = "lost"] ELSE Gone]
  BY DEF Restart
<1>3. \A e \in DOMAIN events' : ~Active(events'[e]) /\ "state" \in DOMAIN events'[e]
  BY <1>2, GoneIsInactive DEF Consistent, Active
<1>4. IsList(events')
  <2>1. PICK n \in Nat : events = [i \in 1 .. n |-> events[i]]
    BY DEF IsList, Consistent
  <2>2. events' = [i \in 1 .. n |-> events'[i]]
    BY <1>2, <2>1
  <2> QED
    BY <2>2 DEF IsList
<1>5. IsList(commits')
  <2>1. PICK n \in Nat : commits = [i \in 1 .. n |-> commits[i]]
    BY DEF IsList, Consistent
  <2>2. commits' = [i \in 1 .. n |-> commits'[i]]
    BY <1>1, <2>1
  <2> QED
    BY <2>2 DEF IsList
<1> QED
  BY <1>1, <1>3, <1>4, <1>5 DEF Consistent

\* An event that times out, or whose late answer comes in, changes and nothing else.
LEMMA EventStepConsistent ==
  ASSUME Consistent(commits, events), NEW e \in DOMAIN events,
         Timeout(e) \/ LateReply(e) \/ Abandon(e)
  PROVE  Consistent(commits', events')
<1>1. CASE Timeout(e)
  <2> DEFINE v == [events[e] EXCEPT !.state = "rejected"]
  <2>1. Active(events[e]) /\ EventOk(commits, events[e])
    BY <1>1 DEF Timeout, Open, Active, Consistent
  <2>2. /\ {"state", "commit", "batch"} \subseteq DOMAIN v
        /\ v.commit = events[e].commit /\ v.batch = events[e].batch
    BY <2>1 DEF EventOk
  <2>3. commits' = commits /\ events' = [events EXCEPT ![e] = v]
    BY <1>1 DEF Timeout
  <2> HIDE DEF v
  <2>4. "state" \in DOMAIN v
    BY <2>2
  <2>5. Consistent(commits, [events EXCEPT ![e] = v])
    BY <2>1, <2>2, <2>4, EventChanges
  <2> QED
    BY <2>3, <2>5
<1>2. CASE LateReply(e) \/ Abandon(e)
  <2>1. commits' = commits /\ events' = [events EXCEPT ![e] = Gone]
    BY <1>2 DEF LateReply, Abandon
  <2>2. Consistent(commits, [events EXCEPT ![e] = Gone])
    BY GoneIsInactive, EventChanges
  <2> QED
    BY <2>1, <2>2
<1> QED
  BY <1>1, <1>2

\* Every step leaves commits and events consistent.
LEMMA StepConsistent ==
  ASSUME Consistent(commits, events), [Next]_vars
  PROVE  Consistent(commits', events')
<1>1. CASE SavePage \/ AskRollback \/ UNCHANGED vars
  <2>1. UNCHANGED <<commits, events>>
    BY <1>1 DEF SavePage, Save, AskRollback, RollbackDecision, vars
  <2> QED
    BY <2>1
<1>2. CASE AskCommit \/ AskRepair \/ AskDiscard \/ Restart
  BY <1>2, CommitConsistent, KeepFixingConsistent, DiscardConsistent, RestartConsistent
     DEF AskCommit, AskRepair, AskDiscard
<1>3. ASSUME NEW e \in DOMAIN events, Timeout(e) \/ LateReply(e) \/ Abandon(e)
      PROVE  Consistent(commits', events')
  BY <1>3, EventStepConsistent
<1>4. ASSUME NEW e \in DOMAIN events, Rejected(e)
      PROVE  Consistent(commits', events')
  <2>1. PICK v : /\ ~Active(v) /\ "state" \in DOMAIN v
                 /\ Outcome(events[e].commit, [events EXCEPT ![e] = v])
    BY <1>4, RejectedOutcome
  <2>2. Active(events[e])
    BY <1>4 DEF Rejected, Active
  <2> QED
    BY <2>1, <2>2, OutcomeConsistent
<1>5. ASSUME NEW e \in DOMAIN events, Reply(e)
      PROVE  Consistent(commits', events')
  <2>1. Active(events[e])
    BY <1>5 DEF Reply, Open, Active
  <2>2. Outcome(events[e].commit, [events EXCEPT ![e] = Gone])
    BY <1>5, ReplyOutcome
  <2> QED
    BY <2>1, <2>2, GoneIsInactive, OutcomeConsistent
<1>6. ASSUME NEW e, Fetch(e) \/ \E r \in Refs : AgentWrite(e, r)
      PROVE  Consistent(commits', events')
  <2>1. UNCHANGED <<commits, events>>
    BY <1>6 DEF Fetch, AgentWrite
  <2> QED
    BY <2>1
<1>7. CASE Server
  BY <1>3, <1>4, <1>7 DEF Server
<1>8. CASE Agent
  BY <1>3, <1>5, <1>6, <1>8 DEF Agent
<1> QED
  BY <1>1, <1>2, <1>7, <1>8 DEF Next

\* Neither commits nor events there are at first.
LEMMA InitConsistent ==
  ASSUME Init
  PROVE  Consistent(commits, events)
<1>1. commits = <<>> /\ events = <<>>
  BY DEF Init
<1>2. IsList(<<>>)
  <2>1. <<>> = [i \in 1 .. 0 |-> <<>>[i]]
    OBVIOUS
  <2> QED
    BY <2>1 DEF IsList
<1>3. DOMAIN <<>> = {}
  OBVIOUS
<1> QED
  BY <1>1, <1>2, <1>3 DEF Consistent

-----------------------------------------------------------------------------
(* A transaction is of a commit that runs, or of a page that is asked about.   *)

Owned ==
  txn # NoTransaction =>
    \/ \E c \in Live : commits[c].txn = txn.id /\ commits[c].page = txn.page
    \/ txn.page \in asked

\* What comes of an answer leaves nobody's transaction behind.
LEMMA OutcomeOwned ==
  ASSUME Consistent(commits, events), Owned, NEW c \in Live, NEW evs, Outcome(c, evs)
  PROVE  Owned'
<1>1. c \in DOMAIN commits /\ CommitOk(commits[c]) /\ IsList(commits)
  BY DEF Live, Consistent
<1>2. ASSUME commits' = [commits EXCEPT ![c] = Ended]
      PROVE  \A d \in Live \ {c} : d \in Live' /\ commits'[d] = commits[d]
  <2>1. /\ DOMAIN commits' = DOMAIN commits
        /\ \A d \in DOMAIN commits : d # c => commits'[d] = commits[d]
    BY <1>1, <1>2, ListExcept
  <2> QED
    BY <2>1 DEF Live
<1>3. CASE Finish(c) /\ asked' = asked
  <2>1. CASE txn' = NoTransaction
    BY <2>1 DEF Owned
  <2>2. CASE txn' = txn /\ txn.id # commits[c].txn
    BY <1>2, <1>3, <2>2 DEF Owned, Finish
  <2> QED
    BY <1>3, <2>1, <2>2 DEF Finish
<1>4. CASE NeedDecision(c, evs)
  BY <1>2, <1>4 DEF Owned, NeedDecision
<1>5. ASSUME NEW new, commits' = new, asked' = asked, txn' = txn,
             new = [commits EXCEPT ![c] = new[c]], CommitOk(new[c]),
             DOMAIN new = DOMAIN commits,
             \A f \in {"page", "batch", "base", "txn", "several"} : new[c][f] = commits[c][f]
      PROVE  Owned'
  <2>1. \A d \in DOMAIN commits : d # c => new[d] = commits[d]
    BY <1>1, <1>5, ListExcept
  <2>2. \A d \in Live : /\ d \in DOMAIN new /\ new[d] # Ended
                        /\ new[d].txn = commits[d].txn /\ new[d].page = commits[d].page
    BY <1>5, <2>1, RunningIsNotEnded DEF Live
  <2> QED
    BY <1>5, <2>2 DEF Owned, Live
<1>6. ASSUME NEW ids \in SUBSET Entries(commits[c].batch), Retried(c, ids, evs)
      PROVE  Owned'
  <2>1. commits' = Repairing(c, ids) /\ asked' = asked /\ txn' = txn
    BY <1>6 DEF Retried
  <2>2. \A new : new = Repairing(c, ids) =>
          /\ new = [commits EXCEPT ![c] = new[c]] /\ DOMAIN new = DOMAIN commits
          /\ CommitOk(new[c])
          /\ \A f \in {"page", "batch", "base", "txn", "several"} : new[c][f] = commits[c][f]
    BY <1>1, <1>6, GoesOn
  <2> QED
    BY <1>5, <2>1, <2>2
<1>7. ASSUME NEW ops, NEW files, NEW next, Continued(c, ops, files, next, evs)
      PROVE  Owned'
  <2>1. commits' = Chunking(c, ops, files) /\ asked' = asked /\ txn' = txn
    BY <1>7 DEF Continued
  <2>2. \A new : new = Chunking(c, ops, files) =>
          /\ new = [commits EXCEPT ![c] = new[c]] /\ DOMAIN new = DOMAIN commits
          /\ CommitOk(new[c])
          /\ \A f \in {"page", "batch", "base", "txn", "several"} : new[c][f] = commits[c][f]
    BY <1>1, GoesOn
  <2> QED
    BY <1>5, <2>1, <2>2
<1>8. ASSUME NEW ids, Clear(c, ids, evs)
      PROVE  Finish(c) /\ asked' = asked
  BY <1>8 DEF Clear
<1>9. ASSUME RollBack(c, evs)
      PROVE  Finish(c) /\ asked' = asked
  BY <1>9 DEF RollBack
<1> QED
  BY <1>3, <1>4, <1>6, <1>7, <1>8, <1>9 DEF Outcome

\* A user's request leaves none either.
LEMMA RequestOwned ==
  ASSUME Consistent(commits, events), Owned, NEW p,
         Commit(p) \/ KeepFixing(p) \/ RollbackDecision(p) \/ Discard(p)
  PROVE  Owned'
<1>1. ASSUME NEW k, commits' = Append(commits, k)
      PROVE  /\ \A d \in Live : d \in Live' /\ commits'[d] = commits[d]
             /\ Len(commits) + 1 \in DOMAIN commits' /\ commits'[Len(commits) + 1] = k
  <2>1. /\ DOMAIN commits' = DOMAIN commits \cup {Len(commits) + 1}
        /\ commits'[Len(commits) + 1] = k
        /\ \A d \in DOMAIN commits : commits'[d] = commits[d]
    BY <1>1, ListAppend DEF Consistent
  <2> QED
    BY <2>1 DEF Live
<1>2. CASE Commit(p)
  <2> DEFINE batch == Part(buffer, Pending(buffer, p))
             src == IF Own(p) THEN Recovered(buffer, source) ELSE source
             c == Len(commits) + 1
             k == NewCommit(p, batch, src, c)
  <2>1. commits' = Append(commits, k) /\ txn'.id = c /\ txn'.page = p
    BY <1>2 DEF Commit
  <2> HIDE DEF batch, src
  <2>2. CommitOk(k) /\ k.txn = c /\ k.page = p
    BY NewCommitOk
  <2> HIDE DEF k
  <2>3. c \in DOMAIN commits' /\ commits'[c] = k
    BY <1>1, <2>1
  <2>4. c \in Live' /\ commits'[c].txn = txn'.id /\ commits'[c].page = txn'.page
    BY <2>1, <2>2, <2>3, RunningIsNotEnded DEF Live
  <2> QED
    BY <2>4 DEF Owned
<1>3. CASE KeepFixing(p)
  <2> DEFINE batch == Part(buffer, Pending(buffer, p))
             k0 == NewCommit(p, batch, source, txn.id)
             k == [k0 EXCEPT !.repair = 1, !.ids = Entries(batch)]
  <2>1. /\ asked' = asked \ {p}
        /\ \/ txn' = NoTransaction
           \/ commits' = Append(commits, k) /\ txn' = txn
    BY <1>3 DEF KeepFixing
  <2>2. k.txn = txn.id /\ k.page = p /\ k # Ended
    <3>1. CommitOk(k0) /\ k0.txn = txn.id /\ k0.page = p
      BY NewCommitOk
    <3> HIDE DEF k0
    <3>2. DOMAIN k = DOMAIN k0 /\ k.txn = k0.txn /\ k.page = k0.page /\ k.at = k0.at
      BY <3>1 DEF CommitOk, Fields
    <3> HIDE DEF k
    <3>3. k # Ended
      BY <3>1, <3>2 DEF CommitOk, Ended
    <3> QED
      BY <3>1, <3>2, <3>3
  <2> HIDE DEF k
  <2>3. CASE txn' = NoTransaction
    BY <2>3 DEF Owned
  <2>4. CASE commits' = Append(commits, k) /\ txn' = txn
    <3> DEFINE c == Len(commits) + 1
    <3>1. /\ \A d \in Live : d \in Live' /\ commits'[d] = commits[d]
          /\ c \in DOMAIN commits' /\ commits'[c] = k
      BY <1>1, <2>4
    <3> HIDE DEF c
    <3>2. CASE txn.page = p
      <4>1. c \in Live' /\ commits'[c].txn = txn.id /\ commits'[c].page = txn.page
        BY <2>2, <3>1, <3>2 DEF Live
      <4> QED
        BY <2>4, <4>1 DEF Owned
    <3>3. CASE txn.page # p
      BY <2>1, <2>4, <3>1, <3>3 DEF Owned
    <3> QED
      BY <3>2, <3>3
  <2> QED
    BY <2>1, <2>3, <2>4
<1>4. CASE RollbackDecision(p)
  BY <1>4 DEF RollbackDecision, Owned
<1>5. CASE Discard(p)
  BY <1>5 DEF Discard, Owned, Live
<1> QED
  BY <1>2, <1>3, <1>4, <1>5

\* A transaction is always somebody's, however Apply, chunks, repairs, decisions
\* and restarts come together.
THEOREM TransactionIsOwned == Spec => []TransactionOwned
<1>1. Init => Consistent(commits, events) /\ Owned
  BY InitConsistent DEF Init, Owned
<1>2. ASSUME Consistent(commits, events), Owned, [Next]_vars
      PROVE  Owned'
  <2>1. CASE SavePage \/ UNCHANGED vars
    <3>1. UNCHANGED <<commits, txn, asked>>
      BY <2>1 DEF SavePage, Save, vars
    <3> QED
      BY <1>2, <3>1 DEF Owned, Live
  <2>2. CASE AskCommit \/ AskRepair \/ AskRollback \/ AskDiscard
    BY <1>2, <2>2, RequestOwned DEF AskCommit, AskRepair, AskRollback, AskDiscard
  <2>3. CASE Restart
    BY <2>3 DEF Restart, Owned
  <2>4. ASSUME NEW e, Timeout(e) \/ LateReply(e) \/ Abandon(e) \/ Fetch(e)
                        \/ \E r \in Refs : AgentWrite(e, r)
        PROVE  Owned'
    <3>1. UNCHANGED <<commits, txn, asked>>
      BY <2>4 DEF Timeout, LateReply, Abandon, Fetch, AgentWrite
    <3> QED
      BY <1>2, <3>1 DEF Owned, Live
  <2>5. ASSUME NEW e \in DOMAIN events, Reply(e) \/ Rejected(e)
        PROVE  Owned'
    <3>1. Active(events[e])
      BY <2>5 DEF Reply, Rejected, Open, Active
    <3>2. events[e].commit \in Live
      BY <1>2, <3>1, ActiveRuns
    <3>3. \E v : Outcome(events[e].commit, [events EXCEPT ![e] = v])
      BY <1>2, <2>5, ReplyOutcome, RejectedOutcome
    <3> QED
      BY <1>2, <3>2, <3>3, OutcomeOwned
  <2>6. CASE Server
    BY <2>4, <2>5, <2>6 DEF Server
  <2>7. CASE Agent
    BY <2>4, <2>5, <2>7 DEF Agent
  <2> QED
    BY <1>2, <2>1, <2>2, <2>3, <2>6, <2>7 DEF Next
<1> DEFINE I == Consistent(commits, events) /\ Owned
<1>3. I /\ [Next]_vars => I'
  BY <1>2, StepConsistent
<1>4. I => TransactionOwned
  BY DEF Owned, TransactionOwned
<1> QED
  BY <1>1, <1>3, <1>4, PTL DEF Spec

-----------------------------------------------------------------------------
(* The buffer, and what the batches of running commits have of it.             *)

\* An entry is of one page; it and its texts were made by saves there have been.
Staged(buf, n) ==
  /\ n \in Nat
  /\ \A r \in Refs : buf[r] # None => buf[r].entry \in 1 .. n /\ buf[r].text \in 1 .. n
  /\ \A q, r \in Refs :
       buf[q] # None /\ buf[r] # None /\ buf[q].entry = buf[r].entry => PageOf[q] = PageOf[r]

\* What is staged under an entry of the batch is in the batch, maybe as an older text.
Covers(batch, buf, n) ==
  /\ Entries(batch) \subseteq 1 .. n
  /\ \A r \in Refs : buf[r] # None /\ buf[r].entry \in Entries(batch) =>
       /\ r \in DOMAIN batch /\ batch[r].entry = buf[r].entry
       /\ batch[r].text \in Nat /\ batch[r].text <= buf[r].text

Kept ==
  /\ Staged(buffer, count)
  /\ \A c \in Live : Covers(commits[c].batch, buffer, count)

\* A commit takes what is pending of its page, whole entries.
LEMMA NewBatchCovers ==
  ASSUME Staged(buffer, count), NEW p
  PROVE  Covers(Part(buffer, Pending(buffer, p)), buffer, count)
<1> DEFINE R == Pending(buffer, p)
           batch == Part(buffer, R)
<1>1. R \subseteq Refs /\ DOMAIN batch = R /\ \A r \in R : batch[r] = buffer[r]
  BY DEF Pending, Part
<1>2. \A r \in R : buffer[r] # None /\ PageOf[r] = p
  BY DEF Pending
<1>3. \A r \in Refs : buffer[r] # None /\ PageOf[r] = p => r \in R
  BY DEF Pending
<1> HIDE DEF R, batch
<1>4. \A i \in Entries(batch) : \E r \in R : i = buffer[r].entry
  BY <1>1 DEF Entries
<1>5. Entries(batch) \subseteq 1 .. count
  BY <1>1, <1>2, <1>4 DEF Staged
<1>6. ASSUME NEW r \in Refs, buffer[r] # None, buffer[r].entry \in Entries(batch)
      PROVE  /\ r \in DOMAIN batch /\ batch[r].entry = buffer[r].entry
             /\ batch[r].text \in Nat /\ batch[r].text <= buffer[r].text
  <2>1. PICK q \in R : buffer[r].entry = buffer[q].entry
    BY <1>4, <1>6
  <2>2. PageOf[r] = p
    BY <1>1, <1>2, <1>6, <2>1 DEF Staged
  <2>3. r \in DOMAIN batch /\ batch[r] = buffer[r]
    BY <1>1, <1>3, <1>6, <2>2
  <2>4. buffer[r].text \in 1 .. count /\ count \in Nat
    BY <1>6 DEF Staged
  <2>5. buffer[r].text \in Nat /\ buffer[r].text <= buffer[r].text
    BY <2>4
  <2> QED
    BY <2>3, <2>5
<1> QED
  BY <1>5, <1>6 DEF Covers, R, batch

\* Edits may leave the buffer.
LEMMA DropCovers ==
  ASSUME NEW buf, NEW n, Staged(buf, n), NEW buf2,
         \A r \in Refs : buf2[r] = None \/ buf2[r] = buf[r]
  PROVE  /\ Staged(buf2, n)
         /\ \A batch : Covers(batch, buf, n) => Covers(batch, buf2, n)
<1>1. \A r \in Refs : buf2[r] # None => buf[r] # None /\ buf2[r] = buf[r]
  OBVIOUS
<1>2. Staged(buf2, n)
  BY <1>1 DEF Staged
<1>3. ASSUME NEW batch, Covers(batch, buf, n)
      PROVE  Covers(batch, buf2, n)
  BY <1>1, <1>3 DEF Covers
<1> QED
  BY <1>2, <1>3

\* The count may grow.
LEMMA CountCovers ==
  ASSUME NEW buf, NEW n, Staged(buf, n)
  PROVE  /\ Staged(buf, n + 1)
         /\ \A batch : Covers(batch, buf, n) => Covers(batch, buf, n + 1)
<1>1. n \in Nat /\ n + 1 \in Nat /\ 1 .. n \subseteq 1 .. n + 1
  BY DEF Staged
<1>2. Staged(buf, n + 1)
  BY <1>1 DEF Staged
<1>3. ASSUME NEW batch, Covers(batch, buf, n)
      PROVE  Covers(batch, buf, n + 1)
  BY <1>1, <1>3 DEF Covers
<1> QED
  BY <1>2, <1>3

\* A save makes entries nobody has a batch of, or newer texts of those there are.
LEMMA SaveKept ==
  ASSUME Kept, NEW p, NEW R, \A r \in R : PageOf[r] = p, Save(R)
  PROVE  /\ Kept'
         /\ \A r \in Refs : buffer'[r] = None => buffer[r] = None
<1> DEFINE n == count + 1
<1>1. count \in Nat /\ n \in Nat /\ n # 0 /\ n \in 1 .. n /\ n \notin 1 .. count
  BY DEF Kept, Staged
<1>2. 1 .. count \subseteq 1 .. n /\ \A t \in 1 .. count : t \in Nat /\ t <= n
  BY <1>1
<1>3. count' = n /\ commits' = commits
  BY DEF Save
<1>4. /\ \A r \in Refs : r \notin R => buffer'[r] = buffer[r]
      /\ \A r \in Refs : r \in R => /\ buffer'[r].text = n
                                    /\ buffer[r] = None => buffer'[r].entry = n
                                    /\ buffer[r] # None => buffer'[r].entry = buffer[r].entry
  BY <1>3 DEF Save
<1> HIDE DEF n
<1>5. \A r \in Refs : r \in R => buffer'[r] # None
  BY <1>1, <1>4 DEF None
<1>6. ASSUME NEW r \in Refs, buffer'[r] # None
      PROVE  /\ buffer'[r].entry \in 1 .. n /\ buffer'[r].text \in 1 .. n
             /\ buffer'[r].entry # n =>
                  buffer[r] # None /\ buffer'[r].entry = buffer[r].entry
             /\ buffer'[r].entry = n => r \in R
  <2>1. CASE r \notin R
    BY <1>1, <1>2, <1>4, <1>6, <2>1 DEF Kept, Staged
  <2>2. CASE r \in R /\ buffer[r] = None
    BY <1>1, <1>4, <2>2
  <2>3. CASE r \in R /\ buffer[r] # None
    BY <1>1, <1>2, <1>4, <2>3 DEF Kept, Staged
  <2> QED
    BY <2>1, <2>2, <2>3
<1>7. Staged(buffer', n)
  <2>1. \A q, r \in Refs : buffer'[q] # None /\ buffer'[r] # None
          /\ buffer'[q].entry = buffer'[r].entry => PageOf[q] = PageOf[r]
    BY <1>6 DEF Kept, Staged
  <2> QED
    BY <1>1, <1>6, <2>1 DEF Staged
<1>8. ASSUME NEW c \in Live
      PROVE  Covers(commits[c].batch, buffer', n)
  <2> DEFINE batch == commits[c].batch
  <2>1. Covers(batch, buffer, count)
    BY DEF Kept
  <2> HIDE DEF batch
  <2>2. Entries(batch) \subseteq 1 .. n /\ n \notin Entries(batch)
    BY <1>1, <1>2, <2>1 DEF Covers
  <2>3. ASSUME NEW r \in Refs, buffer'[r] # None, buffer'[r].entry \in Entries(batch)
        PROVE  /\ r \in DOMAIN batch /\ batch[r].entry = buffer'[r].entry
               /\ batch[r].text \in Nat /\ batch[r].text <= buffer'[r].text
    <3>1. buffer[r] # None /\ buffer'[r].entry = buffer[r].entry
      BY <1>6, <2>2, <2>3
    <3>2. /\ r \in DOMAIN batch /\ batch[r].entry = buffer[r].entry
          /\ batch[r].text \in Nat /\ batch[r].text <= buffer[r].text
      BY <2>1, <2>3, <3>1 DEF Covers
    <3>3. buffer[r].text \in 1 .. count
      BY <3>1 DEF Kept, Staged
    <3>4. CASE r \in R
      BY <1>1, <1>2, <1>4, <3>1, <3>2, <3>3, <3>4
    <3>5. CASE r \notin R
      BY <1>4, <3>2, <3>5
    <3> QED
      BY <3>4, <3>5
  <2>4. Covers(batch, buffer', n)
    BY <2>2, <2>3 DEF Covers
  <2> QED
    BY <2>4 DEF batch
<1>9. Kept'
  BY <1>3, <1>7, <1>8 DEF Kept, Live
<1> QED
  BY <1>4, <1>5, <1>9

\* What a step that drops edits, and starts or changes commits, has to keep.
LEMMA LaterKept ==
  ASSUME Kept, count' = count,
         \A r \in Refs : buffer'[r] = None \/ buffer'[r] = buffer[r],
         \A c \in Live' : \/ c \in Live /\ commits'[c].batch = commits[c].batch
                          \/ Covers(commits'[c].batch, buffer, count)
  PROVE  Kept'
<1>1. /\ Staged(buffer', count)
      /\ \A batch : Covers(batch, buffer, count) => Covers(batch, buffer', count)
  BY DropCovers DEF Kept
<1>2. ASSUME NEW c \in Live' PROVE Covers(commits'[c].batch, buffer', count)
  <2>1. Covers(commits'[c].batch, buffer, count)
    BY <1>2 DEF Kept
  <2> QED
    BY <1>1, <2>1
<1> QED
  BY <1>1, <1>2 DEF Kept

\* An edit that leaves the buffer in this step is in the source, discarded, or was
\* saved again into an entry of a commit that runs.
ClearedStep ==
  \A r \in Refs :
    buffer[r] # None /\ buffer'[r] = None =>
      \/ source'[r] = buffer[r].text
      \/ AskDiscard
      \/ \E c \in Live : r \in DOMAIN commits[c].batch /\
           commits[c].batch[r].entry = buffer[r].entry /\
           commits[c].batch[r].text < buffer[r].text

\* What is cleared was verified, as of the commit.
LEMMA ClearCleared ==
  ASSUME Kept, NEW c \in Live, NEW evs, NEW ids \in SUBSET Entries(commits[c].batch),
         Verified(commits[c].batch, ids), Clear(c, ids, evs)
  PROVE  ClearedStep
<1> DEFINE batch == commits[c].batch
<1>1. ASSUME NEW r \in Refs, buffer[r] # None, buffer'[r] = None
      PROVE  \/ source'[r] = buffer[r].text
             \/ r \in DOMAIN batch /\ batch[r].entry = buffer[r].entry
                  /\ batch[r].text < buffer[r].text
  <2>1. buffer[r].entry \in ids /\ source' = source
    BY <1>1 DEF Clear, Drop
  <2>2. /\ r \in DOMAIN batch /\ batch[r].entry = buffer[r].entry
        /\ batch[r].text \in Nat /\ batch[r].text <= buffer[r].text
    BY <1>1, <2>1 DEF Kept, Covers
  <2>3. source[r] = batch[r].text
    BY <2>1, <2>2 DEF Verified, OpsOf
  <2>4. buffer[r].text \in Nat
    <3>1. buffer[r].text \in 1 .. count /\ count \in Nat
      BY <1>1 DEF Kept, Staged
    <3> QED
      BY <3>1
  <2>5. batch[r].text = buffer[r].text \/ batch[r].text < buffer[r].text
    BY <2>2, <2>4
  <2> QED
    BY <2>1, <2>2, <2>3, <2>5
<1> QED
  BY <1>1 DEF ClearedStep

\* What comes of an answer keeps the batches, and clears what the source shows.
LEMMA OutcomeKept ==
  ASSUME Consistent(commits, events), Kept, NEW c \in Live, NEW evs, Outcome(c, evs),
         count' = count
  PROVE  Kept' /\ ClearedStep
<1>1. c \in DOMAIN commits /\ CommitOk(commits[c]) /\ IsList(commits)
  BY DEF Live, Consistent
<1>2. ASSUME commits' = [commits EXCEPT ![c] = Ended]
      PROVE  \A d \in Live' : d \in Live /\ commits'[d].batch = commits[d].batch
  <2>1. /\ DOMAIN commits' = DOMAIN commits /\ commits'[c] = Ended
        /\ \A d \in DOMAIN commits : d # c => commits'[d] = commits[d]
    BY <1>1, <1>2, ListExcept
  <2> QED
    BY <2>1 DEF Live
<1>3. ASSUME NEW new, commits' = new,
             new = [commits EXCEPT ![c] = new[c]], DOMAIN new = DOMAIN commits,
             \A f \in {"page", "batch", "base", "txn", "several"} : new[c][f] = commits[c][f]
      PROVE  \A d \in Live' : d \in Live /\ commits'[d].batch = commits[d].batch
  <2>1. \A d \in DOMAIN commits : d # c => new[d] = commits[d]
    BY <1>1, <1>3, ListExcept
  <2>2. new[c].batch = commits[c].batch
    BY <1>3
  <2> QED
    BY <1>3, <2>1, <2>2 DEF Live
<1>4. ASSUME buffer' = buffer,
             \A d \in Live' : d \in Live /\ commits'[d].batch = commits[d].batch
      PROVE  Kept' /\ ClearedStep
  BY <1>4, LaterKept DEF ClearedStep
<1>5. CASE RollBack(c, evs) \/ NeedDecision(c, evs)
  <2>1. commits' = [commits EXCEPT ![c] = Ended] /\ buffer' = buffer
    BY <1>5 DEF RollBack, NeedDecision, Finish
  <2> QED
    BY <1>2, <1>4, <2>1
<1>6. ASSUME NEW ids \in SUBSET Entries(commits[c].batch),
             Verified(commits[c].batch, ids), Clear(c, ids, evs)
      PROVE  Kept' /\ ClearedStep
  <2>1. commits' = [commits EXCEPT ![c] = Ended]
    BY <1>6 DEF Clear, Finish
  <2>2. \A r \in Refs : buffer'[r] = None \/ buffer'[r] = buffer[r]
    BY <1>6 DEF Clear, Drop
  <2>3. Kept'
    BY <1>2, <2>1, <2>2, LaterKept
  <2> QED
    BY <1>6, <2>3, ClearCleared
<1>7. ASSUME NEW ids \in SUBSET Entries(commits[c].batch), Retried(c, ids, evs)
      PROVE  Kept' /\ ClearedStep
  <2>1. commits' = Repairing(c, ids) /\ buffer' = buffer
    BY <1>7 DEF Retried
  <2>2. \A new : new = Repairing(c, ids) =>
          /\ new = [commits EXCEPT ![c] = new[c]] /\ DOMAIN new = DOMAIN commits
          /\ CommitOk(new[c])
          /\ \A f \in {"page", "batch", "base", "txn", "several"} : new[c][f] = commits[c][f]
    <3>1. ids \subseteq Entries(commits[c].batch)
      OBVIOUS
    <3> QED
      BY <1>1, <3>1, GoesOn
  <2>3. \A d \in Live' : d \in Live /\ commits'[d].batch = commits[d].batch
    BY <1>3, <2>1, <2>2
  <2> QED
    BY <1>4, <2>1, <2>3
<1>8. ASSUME NEW ops, NEW files, NEW next, Continued(c, ops, files, next, evs)
      PROVE  Kept' /\ ClearedStep
  <2>1. commits' = Chunking(c, ops, files) /\ buffer' = buffer
    BY <1>8 DEF Continued
  <2>2. \A new : new = Chunking(c, ops, files) =>
          /\ new = [commits EXCEPT ![c] = new[c]] /\ DOMAIN new = DOMAIN commits
          /\ CommitOk(new[c])
          /\ \A f \in {"page", "batch", "base", "txn", "several"} : new[c][f] = commits[c][f]
    BY <1>1, GoesOn
  <2>3. \A d \in Live' : d \in Live /\ commits'[d].batch = commits[d].batch
    BY <1>3, <2>1, <2>2
  <2> QED
    BY <1>4, <2>1, <2>3
<1> QED
  BY <1>5, <1>6, <1>7, <1>8 DEF Outcome

\* A request starts a commit with what is pending; the edits it clears were verified.
LEMMA RequestKept ==
  ASSUME Consistent(commits, events), Kept, NEW p \in Pages,
         Commit(p) \/ KeepFixing(p) \/ RollbackDecision(p) \/ Discard(p)
  PROVE  Kept' /\ ClearedStep
<1> DEFINE R == Pending(buffer, p)
           batch == Part(buffer, R)
<1>1. ASSUME NEW k, commits' = Append(commits, k), k = Ended \/ k.batch = batch,
             count' = count, \A r \in Refs : buffer'[r] = None \/ buffer'[r] = buffer[r]
      PROVE  Kept'
  <2> DEFINE c == Len(commits) + 1
  <2>1. /\ DOMAIN commits' = DOMAIN commits \cup {c} /\ commits'[c] = k
        /\ \A d \in DOMAIN commits : commits'[d] = commits[d]
    BY <1>1, ListAppend DEF Consistent
  <2>2. Covers(batch, buffer, count)
    BY NewBatchCovers DEF Kept
  <2> HIDE DEF c, batch
  <2>3. \A d \in Live' : \/ d \in Live /\ commits'[d].batch = commits[d].batch
                         \/ Covers(commits'[d].batch, buffer, count)
    BY <1>1, <2>1, <2>2 DEF Live
  <2> QED
    BY <1>1, <2>3, LaterKept
<1>2. CASE Commit(p)
  <2> DEFINE src == IF Own(p) THEN Recovered(buffer, source) ELSE source
             c == Len(commits) + 1
             k == NewCommit(p, batch, src, c)
  <2>1. commits' = Append(commits, k) /\ buffer' = buffer /\ count' = count
    BY <1>2 DEF Commit
  <2> HIDE DEF batch, src, c
  <2>2. k.batch = batch
    BY NewCommitOk
  <2> QED
    BY <1>1, <2>1, <2>2 DEF ClearedStep
<1>3. CASE KeepFixing(p)
  <2> DEFINE all == Entries(batch)
             k0 == NewCommit(p, batch, source, txn.id)
             k == [k0 EXCEPT !.repair = 1, !.ids = all]
  <2>1. /\ \/ /\ Verified(batch, all) /\ buffer' = Drop(buffer, R)
              /\ commits' = Append(commits, Ended)
           \/ buffer' = buffer /\ commits' = Append(commits, k)
        /\ count' = count /\ source' = source
    BY <1>3 DEF KeepFixing
  <2>2. k.batch = batch
    <3> HIDE DEF batch, all
    <3>1. CommitOk(k0) /\ k0.batch = batch
      BY NewCommitOk
    <3> HIDE DEF k0
    <3> QED
      BY <3>1 DEF CommitOk, Fields
  <2> HIDE DEF k
  <2>3. CASE Verified(batch, all) /\ buffer' = Drop(buffer, R) /\ commits' = Append(commits, Ended)
    <3>1. \A r \in Refs : IF r \in R THEN buffer'[r] = None ELSE buffer'[r] = buffer[r]
      BY <2>3 DEF Drop
    <3>2. \A r \in R : r \in DOMAIN batch /\ batch[r] = buffer[r] /\ buffer[r] # None
      BY DEF Part, Pending
    <3>3. \A r \in R : source[r] = buffer[r].text
      BY <2>3, <3>2 DEF Verified, OpsOf, Entries
    <3> HIDE DEF R, batch
    <3>4. Kept'
      BY <1>1, <2>1, <2>3, <3>1
    <3> QED
      BY <2>1, <3>1, <3>3, <3>4 DEF ClearedStep
  <2>4. CASE buffer' = buffer /\ commits' = Append(commits, k)
    <3> HIDE DEF R, batch
    <3>1. Kept'
      BY <1>1, <2>1, <2>2, <2>4
    <3> QED
      BY <2>4, <3>1 DEF ClearedStep
  <2> QED
    BY <2>1, <2>3, <2>4
<1>4. CASE RollbackDecision(p)
  <2>1. UNCHANGED <<buffer, commits, count>>
    BY <1>4 DEF RollbackDecision
  <2> QED
    BY <2>1 DEF Kept, Live, ClearedStep
<1>5. CASE Discard(p)
  <2>1. AskDiscard
    BY <1>5 DEF AskDiscard
  <2>2. /\ \A r \in Refs : buffer'[r] = None \/ buffer'[r] = buffer[r]
        /\ UNCHANGED <<commits, count>>
    BY <1>5 DEF Discard, Drop
  <2>3. Kept'
    BY <2>2, LaterKept DEF Live
  <2> QED
    BY <2>1, <2>3 DEF ClearedStep
<1> QED
  BY <1>2, <1>3, <1>4, <1>5

\* No staged edit is lost by an Apply, whatever the agent claims and whenever the
\* user saves again: it is in the source, discarded, or outrun by a newer text.
THEOREM ClearedShowsInSource == Spec => ClearedIsApplied
<1>1. Init => Kept
  <2>1. Init => /\ Live = {} /\ count = 0 /\ \A r \in Refs : buffer[r] = None
    BY DEF Init, Live
  <2> QED
    BY <2>1 DEF Kept, Staged
<1>2. ASSUME Consistent(commits, events), Kept, [Next]_vars
      PROVE  Kept' /\ ClearedStep
  <2>1. CASE UNCHANGED vars
    BY <1>2, <2>1 DEF vars, Kept, Live, ClearedStep
  <2>2. CASE SavePage
    <3>1. PICK p \in Pages : \E R \in SUBSET {r \in Refs : PageOf[r] = p} : Save(R)
      BY <2>2 DEF SavePage
    <3>2. PICK R \in SUBSET {r \in Refs : PageOf[r] = p} : Save(R)
      BY <3>1
    <3>3. \A r \in R : PageOf[r] = p
      BY <3>2
    <3> QED
      BY <1>2, <3>2, <3>3, SaveKept DEF ClearedStep
  <2>3. CASE AskCommit \/ AskRepair \/ AskRollback \/ AskDiscard
    <3>1. PICK p \in Pages : Commit(p) \/ KeepFixing(p) \/ RollbackDecision(p) \/ Discard(p)
      BY <2>3 DEF AskCommit, AskRepair, AskRollback, AskDiscard
    <3> QED
      BY <1>2, <3>1, RequestKept
  <2>4. CASE Restart
    <3>1. /\ count' = count + 1 /\ buffer' = buffer
          /\ commits' = [c \in DOMAIN commits |-> Ended]
      BY <2>4 DEF Restart
    <3>2. Live' = {}
      BY <3>1 DEF Live
    <3>3. Staged(buffer, count + 1)
      BY <1>2, CountCovers DEF Kept
    <3> QED
      BY <3>1, <3>2, <3>3 DEF Kept, ClearedStep
  <2>5. ASSUME NEW e, Timeout(e) \/ LateReply(e) \/ Abandon(e) \/ Fetch(e)
                        \/ \E r \in Refs : AgentWrite(e, r)
        PROVE  Kept' /\ ClearedStep
    <3>1. UNCHANGED <<commits, buffer, count>>
      BY <2>5 DEF Timeout, LateReply, Abandon, Fetch, AgentWrite
    <3> QED
      BY <1>2, <3>1 DEF Kept, Live, ClearedStep
  <2>6. ASSUME NEW e \in DOMAIN events, Reply(e) \/ Rejected(e)
        PROVE  Kept' /\ ClearedStep
    <3>1. Active(events[e]) /\ count' = count
      BY <2>6 DEF Reply, Rejected, Open, Active
    <3>2. events[e].commit \in Live
      BY <1>2, <3>1, ActiveRuns
    <3>3. \E v : Outcome(events[e].commit, [events EXCEPT ![e] = v])
      BY <1>2, <2>6, ReplyOutcome, RejectedOutcome
    <3> QED
      BY <1>2, <3>1, <3>2, <3>3, OutcomeKept
  <2>7. CASE Server
    BY <2>5, <2>6, <2>7 DEF Server
  <2>8. CASE Agent
    BY <2>5, <2>6, <2>8 DEF Agent
  <2> QED
    BY <1>2, <2>1, <2>2, <2>3, <2>4, <2>7, <2>8 DEF Next
<1> DEFINE I == Consistent(commits, events) /\ Kept
<1>3. Init => I
  BY <1>1, InitConsistent
<1>4. I /\ [Next]_vars => I' /\ [ClearedStep]_vars
  BY <1>2, StepConsistent
<1>5. [][ClearedStep]_vars => ClearedIsApplied
  BY PTL DEF ClearedStep, ClearedIsApplied
<1> QED
  BY <1>3, <1>4, <1>5, PTL DEF Spec

-----------------------------------------------------------------------------
(* What a step may do to the commits that run.                                 *)

\* The commit c ends, and no other changes.
Ends(c) ==
  /\ Live' = Live \ {c}
  /\ \A d \in Live' : commits'[d] = commits[d]

\* The commit c goes on, maybe with one repair more, and no other changes.
Goes(c) ==
  /\ Live' = Live
  /\ \A d \in Live : d # c => commits'[d] = commits[d]
  /\ \A f \in {"page", "batch", "base", "txn", "several"} : commits'[c][f] = commits[c][f]
  /\ \/ commits'[c].repair = commits[c].repair
     \/ commits[c].repair < MaxRepairs /\ commits'[c].repair = commits[c].repair + 1

\* The commit k is the new one, c, and no other changes.
Joins(c, k) ==
  /\ c \in Nat /\ c # 0 /\ c = Len(commits) + 1 /\ c \notin Live
  /\ Live' = Live \cup (IF k = Ended THEN {} ELSE {c})
  /\ commits'[c] = k
  /\ \A d \in Live : commits'[d] = commits[d]

\* A commit that is replaced by Ended ends.
LEMMA EndedEnds ==
  ASSUME Consistent(commits, events), NEW c \in Live,
         commits' = [commits EXCEPT ![c] = Ended]
  PROVE  Ends(c)
<1>1. c \in DOMAIN commits /\ IsList(commits)
  BY DEF Live, Consistent
<1>2. /\ DOMAIN commits' = DOMAIN commits /\ commits'[c] = Ended
      /\ \A d \in DOMAIN commits : d # c => commits'[d] = commits[d]
  BY <1>1, ListExcept
<1> QED
  BY <1>2 DEF Ends, Live

\* What is counted while a commit goes on.
LEMMA GoesOnCounts ==
  ASSUME Consistent(commits, events), NEW c \in DOMAIN commits, CommitOk(commits[c]),
         NEW ids, NEW ops, NEW files
  PROVE  /\ Repairing(c, ids)[c].repair = commits[c].repair + 1
         /\ Chunking(c, ops, files)[c].repair = commits[c].repair
<1> DEFINE k == commits[c]
           k1 == [k EXCEPT !.repair = @ + 1, !.ids = ids]
           k2 == [k EXCEPT !.ops = ops, !.files = files, !.chunks = Tail(@)]
<1>1. IsList(commits)
  BY DEF Consistent
<1>2. PICK n \in Nat : commits = [i \in 1 .. n |-> commits[i]]
  BY <1>1 DEF IsList
<1>3. DOMAIN commits = 1 .. n
  BY <1>2
<1>4. Repairing(c, ids)[c] = k1 /\ Chunking(c, ops, files)[c] = k2
  BY <1>2, <1>3 DEF Repairing, Chunking
<1>5. k1.repair = k.repair + 1 /\ k2.repair = k.repair
  BY DEF CommitOk, Fields
<1> QED
  BY <1>4, <1>5

\* A commit that is given a new event goes on.
LEMMA GoingGoes ==
  ASSUME Consistent(commits, events), NEW c \in Live, NEW ids, NEW ops, NEW files,
         \/ /\ ids \subseteq Entries(commits[c].batch) /\ commits[c].repair < MaxRepairs
            /\ commits' = Repairing(c, ids)
         \/ commits' = Chunking(c, ops, files)
  PROVE  Goes(c)
<1>1. c \in DOMAIN commits /\ CommitOk(commits[c]) /\ IsList(commits)
  BY DEF Live, Consistent
<1>2. \A new : \/ ids \subseteq Entries(commits[c].batch) /\ new = Repairing(c, ids)
               \/ new = Chunking(c, ops, files)
        => /\ new = [commits EXCEPT ![c] = new[c]] /\ DOMAIN new = DOMAIN commits
           /\ CommitOk(new[c])
           /\ \A f \in {"page", "batch", "base", "txn", "several"} : new[c][f] = commits[c][f]
  BY <1>1, GoesOn
<1>3. /\ commits' = [commits EXCEPT ![c] = commits'[c]] /\ DOMAIN commits' = DOMAIN commits
      /\ CommitOk(commits'[c])
      /\ \A f \in {"page", "batch", "base", "txn", "several"} : commits'[c][f] = commits[c][f]
  BY <1>2
<1>4. \/ commits'[c].repair = commits[c].repair
      \/ commits[c].repair < MaxRepairs /\ commits'[c].repair = commits[c].repair + 1
  BY <1>1, GoesOnCounts
<1>5. \A d \in DOMAIN commits : d # c => commits'[d] = commits[d]
  BY <1>1, <1>3, ListExcept
<1>6. commits'[c] # Ended
  BY <1>3, RunningIsNotEnded
<1>7. Live' = Live
  BY <1>1, <1>3, <1>5, <1>6 DEF Live
<1> QED
  BY <1>3, <1>4, <1>5, <1>7 DEF Goes, Live

\* A commit that is appended joins.
LEMMA AppendedJoins ==
  ASSUME Consistent(commits, events), NEW k, commits' = Append(commits, k)
  PROVE  Joins(Len(commits) + 1, k)
<1> DEFINE c == Len(commits) + 1
<1>1. /\ Len(commits) \in Nat /\ c \notin DOMAIN commits
      /\ DOMAIN commits' = DOMAIN commits \cup {c} /\ commits'[c] = k
      /\ \A d \in DOMAIN commits : commits'[d] = commits[d]
  BY ListAppend DEF Consistent
<1>2. c \in Nat /\ c # 0
  BY <1>1
<1> HIDE DEF c
<1>3. Live' = Live \cup (IF k = Ended THEN {} ELSE {c})
  BY <1>1 DEF Live
<1> QED
  BY <1>1, <1>2, <1>3 DEF Joins, Live, c

-----------------------------------------------------------------------------
(* The shapes of things: a snapshot holds the files of its batch, all of them. *)

IsSnap(f) == DOMAIN f \subseteq Refs /\ \A r \in DOMAIN f : f[r] \in Texts
IsBatch(b) ==
  /\ DOMAIN b \subseteq Refs
  /\ \A r \in DOMAIN b : b[r] \in [entry : Texts, text : Texts]

CommitShape(k) ==
  /\ k.page \in Pages /\ IsBatch(k.batch) /\ DOMAIN k.batch # {}
  /\ IsSnap(k.base) /\ DOMAIN k.base = Together(DOMAIN k.batch)
  /\ k.txn \in 1 .. MaxCommits /\ k.repair \in 0 .. MaxRepairs

EventShape(v) ==
  v # Gone =>
    /\ {"state", "commit", "batch", "snap"} \subseteq DOMAIN v
    /\ IsBatch(v.batch) /\ IsSnap(v.snap)
    /\ DOMAIN v.snap = Together(DOMAIN v.batch)

TxnShape(t) ==
  t # NoTransaction => t.id \in 1 .. MaxCommits /\ t.page \in Pages /\ IsSnap(t.files)

\* A place the agent works at is not given away.
Busy(w, evs) == \A e \in w : e \in DOMAIN evs /\ evs[e] # Gone

Shapes ==
  /\ source \in [Refs -> Texts] /\ expected \in [Refs -> 0 .. Unknown]
  /\ buffer \in [Refs -> [entry : Texts, text : Texts]]
  /\ TxnShape(txn)
  /\ \A c \in Live : CommitShape(commits[c])
  /\ \A e \in DOMAIN events : EventShape(events[e])
  /\ Busy(work, events) /\ asked \subseteq Pages /\ count \in Texts

\* The numbers of the saves are texts, and what is unknown is none of them.
LEMMA TextsAre ==
  /\ MaxEvents \in Nat /\ Unknown = MaxEvents + 1 /\ Unknown \notin Texts
  /\ 0 \in Texts /\ Texts \subseteq 0 .. Unknown /\ Unknown \in 0 .. Unknown
BY ManualEditsAssumption DEF Unknown, Texts

\* The elements of the files of a set are that set's, and more.
LEMMA TogetherHas ==
  ASSUME NEW R, R \subseteq Refs
  PROVE  /\ R \subseteq Together(R) /\ Together(R) \subseteq Refs
         /\ \A Q : Q \subseteq R => Together(Q) \subseteq Together(R)
BY DEF Together

\* A snapshot holds the texts there are.
LEMMA SnapshotShape ==
  ASSUME NEW src \in [Refs -> Texts], NEW R, R \subseteq Refs
  PROVE  LET f == Snapshot(src, R) IN
         /\ IsSnap(f) /\ DOMAIN f = Together(R)
         /\ \A r \in Together(R) : f[r] = src[r]
<1>1. Together(R) \subseteq Refs
  BY TogetherHas
<1>2. \A r \in Together(R) : src[r] \in Texts
  BY <1>1
<1> QED
  BY <1>1, <1>2 DEF Snapshot, IsSnap

\* Restoring puts back what the snapshot has and leaves the rest.
LEMMA RestoreShape ==
  ASSUME NEW src \in [Refs -> Texts], NEW f
  PROVE  /\ IsSnap(f) => Restore(src, f) \in [Refs -> Texts]
         /\ \A r \in Refs : r \in DOMAIN f => Restore(src, f)[r] = f[r]
         /\ \A r \in Refs : r \notin DOMAIN f => Restore(src, f)[r] = src[r]
BY DEF Restore, IsSnap

\* So does the recovery of a transaction.
LEMMA RecoveredShape ==
  ASSUME Shapes, txn # NoTransaction
  PROVE  Recovered(buffer, source) \in [Refs -> Texts]
BY RestoreShape DEF Shapes, TxnShape, Recovered

\* A part of a batch is a batch.
LEMMA ChunkShape ==
  ASSUME NEW b, NEW R, IsBatch(b)
  PROVE  IsBatch(ChunkOf(b, R))
<1>1. DOMAIN ChunkOf(b, R) = R \cap DOMAIN b
  BY DEF ChunkOf, Part
<1>2. \A r \in R \cap DOMAIN b : ChunkOf(b, R)[r] = b[r]
  BY DEF ChunkOf, Part
<1> QED
  BY <1>1, <1>2 DEF IsBatch

\* What is pending of a page is a batch.
LEMMA PendingShape ==
  ASSUME Shapes, NEW p
  PROVE  LET b == Part(buffer, Pending(buffer, p)) IN
         /\ IsBatch(b) /\ DOMAIN b = Pending(buffer, p) /\ DOMAIN b \subseteq Refs
         /\ \A r \in DOMAIN b : b[r] = buffer[r]
<1> DEFINE R == Pending(buffer, p)
           b == Part(buffer, R)
<1>1. R \subseteq Refs
  BY DEF Pending
<1>2. DOMAIN b = R /\ \A r \in R : b[r] = buffer[r]
  BY DEF Part
<1>3. \A r \in Refs : buffer[r] \in [entry : Texts, text : Texts]
  BY DEF Shapes
<1> HIDE DEF R, b
<1>4. IsBatch(b)
  BY <1>1, <1>2, <1>3 DEF IsBatch
<1> QED
  BY <1>1, <1>2, <1>4 DEF b, R

\* What is learnt or doubted.
LEMMA ExpectedShape ==
  ASSUME NEW exp \in [Refs -> 0 .. Unknown], NEW R
  PROVE  /\ Doubt(exp, R) \in [Refs -> 0 .. Unknown]
         /\ \A r \in Refs : r \in R => Doubt(exp, R)[r] = Unknown
         /\ \A r \in Refs : r \notin R => Doubt(exp, R)[r] = exp[r]
BY TextsAre DEF Doubt

\* Only what a batch has under the entries is learnt.
LEMMA LearnShape ==
  ASSUME Shapes, NEW batch, IsBatch(batch), NEW ids
  PROVE  /\ Learn(batch, ids) \in [Refs -> 0 .. Unknown]
         /\ \A r \in Refs : expected[r] = Unknown => Learn(batch, ids)[r] = Unknown
         /\ \A r \in Refs : expected[r] # Unknown =>
              Learn(batch, ids)[r] =
                IF r \in OpsOf(batch, ids) THEN batch[r].text ELSE expected[r]
<1>1. \A r \in OpsOf(batch, ids) : batch[r].text \in 0 .. Unknown
  BY TextsAre DEF OpsOf, IsBatch
<1>2. \A r \in Refs : expected[r] \in 0 .. Unknown
  BY DEF Shapes
<1> QED
  BY <1>1, <1>2 DEF Learn

\* Edits that are dropped leave nothing.
LEMMA DropShape ==
  ASSUME Shapes, NEW R
  PROVE  /\ Drop(buffer, R) \in [Refs -> [entry : Texts, text : Texts]]
         /\ \A r \in Refs : Drop(buffer, R)[r] = IF r \in R THEN None ELSE buffer[r]
BY TextsAre DEF Shapes, Drop, None

\* A state is written into an event; the rest of it stays.
LEMMA Restated ==
  ASSUME NEW v, EventShape(v), v # Gone, NEW x, x # "gone",
         NEW w, w = [v EXCEPT !.state = x]
  PROVE  /\ EventShape(w) /\ w # Gone /\ w.state = x
         /\ w.commit = v.commit /\ w.batch = v.batch /\ w.snap = v.snap
<1>1. {"state", "commit", "batch", "snap"} \subseteq DOMAIN v
  BY DEF EventShape
<1>2. /\ DOMAIN w = DOMAIN v /\ w.state = x
      /\ w.commit = v.commit /\ w.batch = v.batch /\ w.snap = v.snap
  BY <1>1
<1>3. w # Gone
  BY <1>2 DEF Gone
<1>4. EventShape(w)
  BY <1>1, <1>2 DEF EventShape
<1> QED
  BY <1>2, <1>3, <1>4

\* An event that is sent holds a snapshot of the files of its batch.
LEMMA SentShape ==
  ASSUME NEW c, NEW batch, IsBatch(batch), NEW src \in [Refs -> Texts]
  PROVE  EventShape(Event(c, batch, src)) /\ Event(c, batch, src) # Gone
<1> DEFINE v == Event(c, batch, src)
<1>1. /\ {"state", "commit", "batch", "snap"} \subseteq DOMAIN v
      /\ v.batch = batch /\ v.snap = Snapshot(src, DOMAIN batch) /\ v.state = "open"
  BY DEF Event
<1>2. IsSnap(v.snap) /\ DOMAIN v.snap = Together(DOMAIN v.batch)
  BY <1>1, SnapshotShape DEF IsBatch
<1>3. v # Gone
  BY <1>1 DEF Gone
<1> HIDE DEF v
<1>4. EventShape(v)
  BY <1>1, <1>2 DEF EventShape
<1> QED
  BY <1>3, <1>4 DEF v

\* An event is closed, and maybe another one sent; the agent works at neither place.
Closes(evs, e, v) ==
  /\ IsList(evs) /\ DOMAIN evs = DOMAIN events /\ evs[e] = v
  /\ \A d \in DOMAIN events : d # e => evs[d] = events[d]

Sends(evs, c, batch, src) ==
  /\ DOMAIN evs \subseteq DOMAIN events'
  /\ \E n \in DOMAIN events' :
       /\ n \in DOMAIN evs => evs[n] = Gone
       /\ events'[n] = Event(c, batch, src)
       /\ \A d \in DOMAIN events' : d # n => d \in DOMAIN evs /\ events'[d] = evs[d]

\* Closing an event does what it says.
LEMMA ClosedCloses ==
  ASSUME Consistent(commits, events), NEW e \in DOMAIN events, NEW v
  PROVE  Closes([events EXCEPT ![e] = v], e, v)
BY ListExcept DEF Consistent, Closes

\* Dispatching an event does what it says.
LEMMA DispatchedSends ==
  ASSUME NEW evs, IsList(evs), NEW c, NEW batch, NEW src,
         events' = Dispatch(evs, c, batch, src)
  PROVE  Sends(evs, c, batch, src)
<1>1. PICK n : Placed(events', evs, n, Event(c, batch, src))
  BY DispatchPlaces
<1> QED
  BY <1>1 DEF Placed, Sends

\* What the agent works at, and the shapes, are kept when an event is sent.
LEMMA SendsShapes ==
  ASSUME NEW evs, NEW w, NEW c, NEW batch, NEW src \in [Refs -> Texts], IsBatch(batch),
         \A e \in DOMAIN evs : EventShape(evs[e]), Busy(w, evs),
         events' = evs \/ Sends(evs, c, batch, src)
  PROVE  (\A e \in DOMAIN events' : EventShape(events'[e])) /\ Busy(w, events')
<1>1. CASE events' = evs
  BY <1>1
<1>2. CASE Sends(evs, c, batch, src)
  <2>1. EventShape(Event(c, batch, src))
    BY SentShape
  <2>2. \A e \in DOMAIN events' : EventShape(events'[e])
    BY <1>2, <2>1 DEF Sends
  <2>3. Busy(w, events')
    BY <1>2 DEF Sends, Busy
  <2> QED
    BY <2>2, <2>3
<1> QED
  BY <1>1, <1>2

\* What comes of an answer, in short: the event is closed, and either the commit ends,
\* or it goes on with an event that has its batch or a part of it.
Answered(c, evs) ==
  \/ Ends(c) /\ events' = evs
  \/ /\ Goes(c) /\ UNCHANGED <<source, buffer, txn, asked, expected>>
     /\ \E batch : /\ Sends(evs, c, batch, source)
                   /\ batch = commits[c].batch \/ \E R : batch = ChunkOf(commits[c].batch, R)

\* An outcome is one of these.
LEMMA OutcomeAnswers ==
  ASSUME Consistent(commits, events), NEW c \in Live, NEW evs, IsList(evs), Outcome(c, evs)
  PROVE  Answered(c, evs)
<1>1. CASE RollBack(c, evs) \/ NeedDecision(c, evs) \/ \E ids : Clear(c, ids, evs)
  <2>1. commits' = [commits EXCEPT ![c] = Ended] /\ events' = evs
    BY <1>1 DEF RollBack, NeedDecision, Clear, Finish
  <2> QED
    BY <2>1, EndedEnds DEF Answered
<1>2. ASSUME NEW ids \in SUBSET Entries(commits[c].batch), Retried(c, ids, evs)
      PROVE  Answered(c, evs)
  <2>1. Goes(c)
    <3>1. /\ ids \subseteq Entries(commits[c].batch) /\ commits[c].repair < MaxRepairs
          /\ commits' = Repairing(c, ids)
      BY <1>2 DEF Retried
    <3> QED
      BY <3>1, GoingGoes
  <2>2. Sends(evs, c, commits[c].batch, source)
    BY <1>2, DispatchedSends DEF Retried
  <2> QED
    BY <1>2, <2>1, <2>2 DEF Answered, Retried
<1>3. ASSUME NEW ops, NEW files, NEW next, Continued(c, ops, files, next, evs)
      PROVE  Answered(c, evs)
  <2>1. Goes(c)
    BY <1>3, GoingGoes DEF Continued
  <2>2. Sends(evs, c, next, source)
    BY <1>3, DispatchedSends DEF Continued
  <2> QED
    BY <1>3, <2>1, <2>2 DEF Answered, Continued
<1> QED
  BY <1>1, <1>2, <1>3 DEF Outcome

\* A commit that ends or goes on keeps its shape.
LEMMA AnsweredCommits ==
  ASSUME Shapes, Consistent(commits, events), NEW c \in Live, Ends(c) \/ Goes(c)
  PROVE  \A d \in Live' : CommitShape(commits'[d])
<1>1. CASE Ends(c)
  BY <1>1 DEF Ends, Shapes
<1>2. CASE Goes(c)
  <2> DEFINE k == commits[c]
             k2 == commits'[c]
  <2>1. CommitShape(k)
    BY DEF Shapes
  <2>2. /\ k2.page = k.page /\ k2.batch = k.batch /\ k2.base = k.base /\ k2.txn = k.txn
        /\ \/ k2.repair = k.repair
           \/ k.repair < MaxRepairs /\ k2.repair = k.repair + 1
    BY <1>2 DEF Goes
  <2> HIDE DEF k, k2
  <2>3. k2.repair \in 0 .. MaxRepairs
    BY <2>1, <2>2, ManualEditsAssumption DEF CommitShape
  <2>4. CommitShape(k2)
    BY <2>1, <2>2, <2>3 DEF CommitShape
  <2> QED
    BY <1>2, <2>4 DEF Goes, Shapes, k2
<1> QED
  BY <1>1, <1>2

\* What comes of an answer keeps what is expected, staged and in the source in shape.
LEMMA OutcomeTexts ==
  ASSUME Shapes, Consistent(commits, events), NEW c \in Live, NEW evs, Outcome(c, evs)
  PROVE  /\ source' \in [Refs -> Texts] /\ expected' \in [Refs -> 0 .. Unknown]
         /\ buffer' \in [Refs -> [entry : Texts, text : Texts]]
         /\ TxnShape(txn') /\ asked' \subseteq Pages
<1>1. /\ source \in [Refs -> Texts] /\ expected \in [Refs -> 0 .. Unknown]
      /\ buffer \in [Refs -> [entry : Texts, text : Texts]]
      /\ TxnShape(txn) /\ asked \subseteq Pages /\ CommitShape(commits[c])
  BY DEF Shapes
<1>2. TxnShape(NoTransaction)
  BY DEF TxnShape
<1>3. CASE RollBack(c, evs)
  <2>1. source' = Restore(source, commits[c].base) /\ IsSnap(commits[c].base)
    BY <1>1, <1>3 DEF RollBack, CommitShape
  <2>2. source' \in [Refs -> Texts]
    BY <1>1, <2>1, RestoreShape
  <2>3. UNCHANGED <<buffer, asked, expected>> /\ (txn' = txn \/ txn' = NoTransaction)
    BY <1>3 DEF RollBack, Finish
  <2> QED
    BY <1>1, <1>2, <2>2, <2>3
<1>4. CASE NeedDecision(c, evs)
  <2>1. asked' \subseteq Pages
    BY <1>1, <1>4 DEF NeedDecision, CommitShape
  <2> QED
    BY <1>1, <1>4, <2>1 DEF NeedDecision
<1>5. ASSUME NEW ids, Clear(c, ids, evs)
      PROVE  /\ source' \in [Refs -> Texts] /\ expected' \in [Refs -> 0 .. Unknown]
             /\ buffer' \in [Refs -> [entry : Texts, text : Texts]]
             /\ TxnShape(txn') /\ asked' \subseteq Pages
  <2>1. \E R : expected' = Doubt(Learn(commits[c].batch, ids), R)
    BY <1>5 DEF Clear
  <2>2. Learn(commits[c].batch, ids) \in [Refs -> 0 .. Unknown]
    BY <1>1, LearnShape DEF CommitShape
  <2>3. expected' \in [Refs -> 0 .. Unknown]
    BY <2>1, <2>2, ExpectedShape
  <2>4. \E R : buffer' = Drop(buffer, R)
    BY <1>5 DEF Clear
  <2>5. buffer' \in [Refs -> [entry : Texts, text : Texts]]
    BY <2>4, DropShape
  <2>6. UNCHANGED <<source, asked>> /\ (txn' = txn \/ txn' = NoTransaction)
    BY <1>5 DEF Clear, Finish
  <2> QED
    BY <1>1, <1>2, <2>3, <2>5, <2>6
<1>6. CASE UNCHANGED <<source, buffer, txn, asked, expected>>
  BY <1>1, <1>6
<1> QED
  BY <1>3, <1>4, <1>5, <1>6 DEF Outcome, Retried, Continued

\* What comes of an answer keeps the shapes.
LEMMA OutcomeShapes ==
  ASSUME Shapes, Consistent(commits, events), NEW e \in DOMAIN events, Active(events[e]),
         NEW v, EventShape(v), Outcome(events[e].commit, [events EXCEPT ![e] = v]),
         work' \subseteq work, e \in work' => v # Gone, count' = count
  PROVE  Shapes'
<1> DEFINE c == events[e].commit
           evs == [events EXCEPT ![e] = v]
<1>1. c \in Live /\ Closes(evs, e, v)
  BY ActiveRuns, ClosedCloses
<1>2. Outcome(c, evs)
  OBVIOUS
<1> HIDE DEF c, evs
<1>3. Answered(c, evs)
  BY <1>1, <1>2, OutcomeAnswers DEF Closes
<1>4. CommitShape(commits[c]) /\ source \in [Refs -> Texts]
  BY <1>1 DEF Shapes
<1>5. (\A d \in DOMAIN evs : EventShape(evs[d])) /\ Busy(work', evs)
  BY <1>1 DEF Closes, Shapes, Busy
<1>6. (\A d \in DOMAIN events' : EventShape(events'[d])) /\ Busy(work', events')
  <2>1. CASE events' = evs
    BY <1>5, <2>1
  <2>2. ASSUME NEW batch, Sends(evs, c, batch, source), IsBatch(batch)
        PROVE  (\A d \in DOMAIN events' : EventShape(events'[d])) /\ Busy(work', events')
    BY <1>4, <1>5, <2>2, SendsShapes
  <2>3. IsBatch(commits[c].batch) /\ \A R : IsBatch(ChunkOf(commits[c].batch, R))
    BY <1>4, ChunkShape DEF CommitShape
  <2> QED
    BY <1>3, <2>1, <2>2, <2>3 DEF Answered
<1>7. \A d \in Live' : CommitShape(commits'[d])
  BY <1>1, <1>3, AnsweredCommits DEF Answered
<1>8. /\ source' \in [Refs -> Texts] /\ expected' \in [Refs -> 0 .. Unknown]
      /\ buffer' \in [Refs -> [entry : Texts, text : Texts]]
      /\ TxnShape(txn') /\ asked' \subseteq Pages
  BY <1>1, <1>2, OutcomeTexts
<1> QED
  BY <1>6, <1>7, <1>8 DEF Shapes

\* Of the numbers that some things have, up to a bound, one is the largest.
LEMMA Latest ==
  ASSUME NEW n \in Nat, NEW S, S # {}, NEW f, \A e \in S : f[e] \in 1 .. n
  PROVE  \E e \in S : \A d \in S : f[d] <= f[e]
<1> DEFINE T == {n - f[e] : e \in S}
           R == OpToRel(<, Nat)
<1>1. IsWellFoundedOn(R, Nat)
  BY NatLessThanWellFounded
<1>2. \A x, y \in Nat : x < y => <<x, y>> \in R
  BY DEF OpToRel
<1>3. T \in SUBSET Nat /\ T # {}
  OBVIOUS
<1> HIDE DEF R, T
<1>4. PICK m \in T : \A y \in T : ~(<<y, m>> \in R)
  BY <1>1, <1>3, WFMin
<1>5. \A y \in T : y \in Nat /\ m \in Nat /\ ~(y < m)
  BY <1>2, <1>3, <1>4
<1>6. PICK e \in S : m = n - f[e]
  BY <1>4 DEF T
<1>7. ASSUME NEW d \in S PROVE f[d] <= f[e]
  <2>1. n - f[d] \in T
    BY DEF T
  <2>2. ~(n - f[d] < n - f[e]) /\ f[d] \in 1 .. n /\ f[e] \in 1 .. n
    BY <1>5, <1>6, <2>1
  <2> QED
    BY <2>2
<1> QED
  BY <1>7

\* The open events of a page.
Mine(p) == {e \in DOMAIN events : Open(e) /\ commits[events[e].commit].page = p}

\* What the open events of a discarded page cover becomes what one of them holds, and
\* the rest is recovered if the transaction is of the page.
LEMMA DiscardTexts ==
  ASSUME Shapes, Consistent(commits, events), NEW p, Discard(p)
  PROVE  LET src == IF Own(p) THEN Recovered(buffer, source) ELSE source IN
         /\ src \in [Refs -> Texts] /\ source' \in [Refs -> Texts]
         /\ \A r \in Refs :
              (\A e \in Mine(p) : r \notin DOMAIN events[e].snap) => source'[r] = src[r]
<1> DEFINE mine == Mine(p)
           src == IF Own(p) THEN Recovered(buffer, source) ELSE source
           n == Cardinality(mine)
           covering(r) == {e \in mine : r \in DOMAIN events[e].snap}
<1>1. src \in [Refs -> Texts]
  BY RecoveredShape DEF Own, Shapes
<1>2. n \in Nat
  <2>1. PICK m \in Nat : events = [i \in 1 .. m |-> events[i]]
    BY DEF Consistent, IsList
  <2>2. IsFiniteSet(1 .. m) /\ mine \subseteq 1 .. m
    BY <2>1, FS_Interval DEF Mine
  <2> HIDE DEF mine
  <2>3. IsFiniteSet(mine)
    BY <2>2, FS_Subset
  <2> QED
    BY <2>3, FS_CardinalityType
<1>3. PICK sent \in Bijection(mine, 1 .. n) :
        LET last(r) == CHOOSE e \in covering(r) : \A d \in covering(r) : sent[d] <= sent[e]
        IN  source' = [r \in Refs |-> IF covering(r) = {} THEN src[r]
                                       ELSE events[last(r)].snap[r]]
  BY DEF Discard, Mine
<1>4. \A e \in mine : sent[e] \in 1 .. n
  BY <1>3 DEF Bijection, Injection
<1> DEFINE last(r) == CHOOSE e \in covering(r) : \A d \in covering(r) : sent[d] <= sent[e]
<1>5. ASSUME NEW r \in Refs, covering(r) # {}
      PROVE  events[last(r)].snap[r] \in Texts
  <2> DEFINE S == covering(r)
  <2>1. \A e \in S : sent[e] \in 1 .. n
    BY <1>4
  <2> HIDE DEF S, n
  <2>2. \E e \in S : \A d \in S : sent[d] <= sent[e]
    BY <1>2, <1>5, <2>1, Latest DEF S
  <2>3. last(r) \in covering(r)
    BY <2>2 DEF S
  <2> HIDE DEF last
  <2>4. last(r) \in DOMAIN events /\ Open(last(r)) /\ r \in DOMAIN events[last(r)].snap
    BY <2>3 DEF Mine
  <2>5. EventShape(events[last(r)]) /\ events[last(r)] # Gone
    BY <2>4 DEF Shapes, Open, Gone
  <2> QED
    BY <2>4, <2>5 DEF EventShape, IsSnap
<1> HIDE DEF mine, src, last, covering
<1>6. source' = [r \in Refs |-> IF covering(r) = {} THEN src[r]
                                  ELSE events[last(r)].snap[r]]
  BY <1>3 DEF last
<1>7. source' \in [Refs -> Texts]
  BY <1>1, <1>5, <1>6
<1>8. \A r \in Refs : covering(r) = {} => source'[r] = src[r]
  BY <1>6
<1> QED
  BY <1>1, <1>7, <1>8 DEF src, mine, covering

\* A save stages the texts it makes.
LEMMA SaveShapes ==
  ASSUME Shapes, NEW R, Save(R)
  PROVE  Shapes'
<1>1. count' \in Texts
  BY ManualEditsAssumption DEF Save, Shapes, Texts
<1>2. buffer' = [r \in Refs |->
        IF r \notin R THEN buffer[r]
          ELSE [entry |-> IF buffer[r] = None THEN count' ELSE buffer[r].entry,
                text |-> count']]
  BY DEF Save
<1>3. \A r \in Refs : buffer[r] \in [entry : Texts, text : Texts]
  BY DEF Shapes
<1>4. buffer' \in [Refs -> [entry : Texts, text : Texts]]
  BY <1>1, <1>2, <1>3
<1>5. UNCHANGED <<source, txn, commits, events, work, asked, expected>>
  BY DEF Save
<1> QED
  BY <1>1, <1>4, <1>5 DEF Shapes, Live

AsRepair(k0, all) == [k0 EXCEPT !.repair = 1, !.ids = all]

\* The commit of "Keep fixing" starts as a repair.
LEMMA FixingCommitOk ==
  ASSUME NEW p, NEW batch, NEW id, NEW all, all \subseteq Entries(batch),
         NEW k0, k0 = NewCommit(p, batch, source, id), NEW k, k = AsRepair(k0, all)
  PROVE  /\ CommitOk(k) /\ k.batch = batch /\ k.txn = id /\ k.page = p /\ k.repair = 1
         /\ k.base = Snapshot(source, DOMAIN batch)
<1>1. /\ CommitOk(k0) /\ k0.batch = batch /\ k0.txn = id /\ k0.page = p
      /\ k0.base = Snapshot(source, DOMAIN batch)
  BY NewCommitOk
<1>3. /\ DOMAIN k = DOMAIN k0 /\ k.repair = 1 /\ k.ids = all /\ k.at = k0.at
      /\ k.several = k0.several /\ k.batch = k0.batch /\ k.txn = k0.txn
      /\ k.page = k0.page /\ k.base = k0.base
  BY <1>1 DEF AsRepair, CommitOk, Fields
<1> QED
  BY <1>1, <1>3 DEF CommitOk

\* A new commit has the shape of one.
LEMMA NewCommitShape ==
  ASSUME NEW k, k.page \in Pages, IsBatch(k.batch), DOMAIN k.batch # {},
         NEW src \in [Refs -> Texts], k.base = Snapshot(src, DOMAIN k.batch),
         k.txn \in 1 .. MaxCommits, k.repair \in {0, 1}
  PROVE  CommitShape(k)
<1>1. IsSnap(k.base) /\ DOMAIN k.base = Together(DOMAIN k.batch)
  BY SnapshotShape DEF IsBatch
<1>2. k.repair \in 0 .. MaxRepairs
  BY ManualEditsAssumption
<1> QED
  BY <1>1, <1>2 DEF CommitShape

\* What Commit does, by name: its batch, the source it starts from and the commit.
Batch(p) == Part(buffer, Pending(buffer, p))
Start(p) == IF Own(p) THEN Recovered(buffer, source) ELSE source
New(p) == NewCommit(p, Batch(p), Start(p), Len(commits) + 1)
Fixing(p) == AsRepair(NewCommit(p, Batch(p), source, txn.id), Entries(Batch(p)))

\* A new Apply is sent as a batch of the texts that are staged.
LEMMA CommitFacts ==
  ASSUME Shapes, Consistent(commits, events), NEW p \in Pages, Commit(p)
  PROVE  LET c == Len(commits) + 1 IN
         /\ Joins(c, New(p)) /\ New(p) # Ended /\ CommitShape(New(p))
         /\ New(p).page = p /\ New(p).txn = c /\ New(p).repair = 0
         /\ New(p).batch = Batch(p) /\ New(p).base = Snapshot(Start(p), Pending(buffer, p))
         /\ Start(p) \in [Refs -> Texts] /\ source' = Start(p)
         /\ \E batch : Sends(events, c, batch, Start(p)) /\ IsBatch(batch)
         /\ txn' = [id |-> c, page |-> p, ids |-> Entries(Batch(p)), files |-> New(p).base]
<1> DEFINE c == Len(commits) + 1
           k == New(p)
           first == ChunkOf(Batch(p), Head(Chunks(Batch(p))))
<1>1. /\ Pending(buffer, p) # {} /\ c <= MaxCommits
      /\ source' = Start(p) /\ commits' = Append(commits, k)
      /\ txn' = [id |-> c, page |-> p, ids |-> Entries(Batch(p)), files |-> k.base]
      /\ events' = Dispatch(events, c, first, Start(p))
  BY DEF Commit, Batch, Start, New
<1>2. Joins(c, k)
  BY <1>1, AppendedJoins
<1>3. Start(p) \in [Refs -> Texts]
  BY RecoveredShape DEF Start, Own, Shapes
<1>4. IsBatch(Batch(p)) /\ DOMAIN Batch(p) = Pending(buffer, p)
  BY PendingShape DEF Batch
<1>5. /\ CommitOk(k) /\ k.batch = Batch(p) /\ k.txn = c /\ k.page = p /\ k.repair = 0
      /\ k.base = Snapshot(Start(p), DOMAIN Batch(p))
  BY NewCommitOk DEF New
<1>6. c \in 1 .. MaxCommits
  <2>1. Len(commits) \in Nat
    BY ListAppend DEF Consistent
  <2> QED
    BY <1>1, <2>1, ManualEditsAssumption
<1>7. IsBatch(first)
  BY <1>4, ChunkShape
<1>8. Sends(events, c, first, Start(p))
  BY <1>1, DispatchedSends DEF Consistent
<1> HIDE DEF c, k, first
<1>9. CommitShape(k)
  BY <1>1, <1>3, <1>4, <1>5, <1>6, NewCommitShape
<1>10. k # Ended
  BY <1>5, RunningIsNotEnded
<1> QED
  BY <1>1, <1>2, <1>3, <1>4, <1>5, <1>7, <1>8, <1>9, <1>10 DEF c, k

\* "Keep fixing" clears at once what the source shows, or starts such a commit.
LEMMA KeepFixingFacts ==
  ASSUME Shapes, Consistent(commits, events), NEW p \in Pages, KeepFixing(p)
  PROVE  LET c == Len(commits) + 1 IN
         /\ CommitShape(Fixing(p)) /\ Fixing(p) # Ended
         /\ Fixing(p).page = p /\ Fixing(p).txn = txn.id /\ Fixing(p).repair = 1
         /\ Fixing(p).batch = Batch(p)
         /\ Fixing(p).base = Snapshot(source, Pending(buffer, p))
         /\ \/ /\ Joins(c, Ended) /\ txn' = NoTransaction /\ events' = events
               /\ Verified(Batch(p), Entries(Batch(p)))
               /\ buffer' = Drop(buffer, Pending(buffer, p))
            \/ /\ Joins(c, Fixing(p)) /\ UNCHANGED <<buffer, txn>>
               /\ Sends(events, c, Batch(p), source)
<1> DEFINE c == Len(commits) + 1
           k == Fixing(p)
<1>1. /\ Pending(buffer, p) # {} /\ txn # NoTransaction
      /\ \/ /\ commits' = Append(commits, Ended) /\ txn' = NoTransaction /\ events' = events
            /\ Verified(Batch(p), Entries(Batch(p)))
            /\ buffer' = Drop(buffer, Pending(buffer, p))
         \/ /\ commits' = Append(commits, k) /\ UNCHANGED <<buffer, txn>>
            /\ events' = Dispatch(events, c, Batch(p), source)
  BY DEF KeepFixing, Batch, Fixing, AsRepair
<1>2. source \in [Refs -> Texts] /\ txn.id \in 1 .. MaxCommits
  BY <1>1 DEF Shapes, TxnShape
<1>3. IsBatch(Batch(p)) /\ DOMAIN Batch(p) = Pending(buffer, p)
  BY PendingShape DEF Batch
<1>4. /\ CommitOk(k) /\ k.batch = Batch(p) /\ k.txn = txn.id /\ k.page = p /\ k.repair = 1
      /\ k.base = Snapshot(source, DOMAIN Batch(p))
  <2> DEFINE all == Entries(Batch(p))
             k0 == NewCommit(p, Batch(p), source, txn.id)
  <2>1. k = AsRepair(k0, all)
    BY DEF Fixing
  <2>2. all \subseteq Entries(Batch(p))
    OBVIOUS
  <2> HIDE DEF all, k, k0
  <2>3. k0 = NewCommit(p, Batch(p), source, txn.id)
    BY DEF k0
  <2> QED
    BY <2>1, <2>2, <2>3, FixingCommitOk
<1> HIDE DEF c, k
<1>5. CommitShape(k)
  BY <1>1, <1>2, <1>3, <1>4, NewCommitShape
<1>6. k # Ended
  BY <1>4, RunningIsNotEnded
<1>7. \/ Joins(c, Ended) /\ commits' = Append(commits, Ended)
      \/ Joins(c, k) /\ commits' = Append(commits, k)
  BY <1>1, AppendedJoins DEF c
<1>8. events' = Dispatch(events, c, Batch(p), source) => Sends(events, c, Batch(p), source)
  BY DispatchedSends DEF Consistent
<1>9. \/ /\ Joins(c, Ended) /\ txn' = NoTransaction /\ events' = events
         /\ Verified(Batch(p), Entries(Batch(p)))
         /\ buffer' = Drop(buffer, Pending(buffer, p))
      \/ /\ Joins(c, k) /\ UNCHANGED <<buffer, txn>>
         /\ Sends(events, c, Batch(p), source)
  BY <1>1, <1>8, AppendedJoins DEF c
<1> QED
  BY <1>3, <1>4, <1>5, <1>6, <1>9 DEF c, k

\* A commit that joins leaves the others as they are.
LEMMA JoinedCommits ==
  ASSUME Shapes, NEW c, NEW k, Joins(c, k), k = Ended \/ CommitShape(k)
  PROVE  \A d \in Live' : CommitShape(commits'[d])
BY DEF Shapes, Joins

\* A new Apply keeps the shapes.
LEMMA CommitShapes ==
  ASSUME Shapes, Consistent(commits, events), NEW p \in Pages, Commit(p)
  PROVE  Shapes'
<1> DEFINE c == Len(commits) + 1
<1>1. /\ Joins(c, New(p)) /\ CommitShape(New(p))
      /\ New(p).page = p /\ New(p).txn = c
      /\ Start(p) \in [Refs -> Texts] /\ source' = Start(p)
      /\ \E batch : Sends(events, c, batch, Start(p)) /\ IsBatch(batch)
      /\ txn' = [id |-> c, page |-> p, ids |-> Entries(Batch(p)), files |-> New(p).base]
  BY CommitFacts
<1> HIDE DEF c
<1>2. UNCHANGED <<buffer, work, count>> /\ asked' \subseteq asked
  BY DEF Commit
<1>3. \E R : expected' = Doubt(expected, R)
  BY DEF Commit
<1>4. expected' \in [Refs -> 0 .. Unknown]
  BY <1>3, ExpectedShape DEF Shapes
<1>5. (\A e \in DOMAIN events' : EventShape(events'[e])) /\ Busy(work, events')
  BY <1>1, SendsShapes DEF Shapes
<1>6. \A d \in Live' : CommitShape(commits'[d])
  BY <1>1, JoinedCommits
<1>7. TxnShape(txn')
  BY <1>1 DEF TxnShape, CommitShape
<1> QED
  BY <1>1, <1>2, <1>4, <1>5, <1>6, <1>7 DEF Shapes

\* "Keep fixing" does.
LEMMA KeepFixingShapes ==
  ASSUME Shapes, Consistent(commits, events), NEW p \in Pages, KeepFixing(p)
  PROVE  Shapes'
<1> DEFINE c == Len(commits) + 1
           k == Fixing(p)
<1>1. /\ CommitShape(k)
      /\ \/ /\ Joins(c, Ended) /\ txn' = NoTransaction /\ events' = events
            /\ buffer' = Drop(buffer, Pending(buffer, p))
         \/ /\ Joins(c, k) /\ UNCHANGED <<buffer, txn>>
            /\ Sends(events, c, Batch(p), source)
  BY KeepFixingFacts
<1> HIDE DEF c, k
<1>2. UNCHANGED <<source, work, count>> /\ asked' \subseteq asked
  BY DEF KeepFixing
<1>3. IsBatch(Batch(p)) /\ source \in [Refs -> Texts]
  BY PendingShape DEF Batch, Shapes
<1>4. \E R : expected' = Doubt(expected, R)
               \/ expected' = Doubt(Learn(Batch(p), Entries(Batch(p))), R)
  BY DEF KeepFixing, Batch
<1>5. expected' \in [Refs -> 0 .. Unknown]
  <2>1. expected \in [Refs -> 0 .. Unknown]
    BY DEF Shapes
  <2>2. Learn(Batch(p), Entries(Batch(p))) \in [Refs -> 0 .. Unknown]
    BY <1>3, LearnShape
  <2> QED
    BY <1>4, <2>1, <2>2, ExpectedShape
<1>6. (\A e \in DOMAIN events' : EventShape(events'[e])) /\ Busy(work, events')
  <2>1. events' = events \/ Sends(events, c, Batch(p), source)
    BY <1>1
  <2> QED
    BY <1>3, <2>1, SendsShapes DEF Shapes
<1>7. \A d \in Live' : CommitShape(commits'[d])
  BY <1>1, JoinedCommits
<1>8. buffer' \in [Refs -> [entry : Texts, text : Texts]]
  BY <1>1, DropShape DEF Shapes
<1>9. TxnShape(txn')
  BY <1>1 DEF Shapes, TxnShape
<1> QED
  BY <1>2, <1>3, <1>5, <1>6, <1>7, <1>8, <1>9 DEF Shapes

\* Discarding does.
LEMMA DiscardShapes ==
  ASSUME Shapes, Consistent(commits, events), NEW p \in Pages, Discard(p)
  PROVE  Shapes'
<1>1. source' \in [Refs -> Texts]
  BY DiscardTexts
<1>2. /\ UNCHANGED <<commits, work, asked, count>> /\ (txn' = txn \/ txn' = NoTransaction)
      /\ buffer' = Drop(buffer, Pending(buffer, p)) /\ \E R : expected' = Doubt(expected, R)
  BY DEF Discard
<1>3. events' = [e \in DOMAIN events |->
                   IF e \in Mine(p) THEN [events[e] EXCEPT !.state = "rejected"]
                                    ELSE events[e]]
  BY DEF Discard, Mine
<1>4. ASSUME NEW e \in DOMAIN events
      PROVE  EventShape(events'[e]) /\ (events[e] # Gone => events'[e] # Gone)
  <2>1. EventShape(events[e])
    BY DEF Shapes
  <2>2. CASE e \in Mine(p)
    <3>1. events[e] # Gone
      BY <2>2 DEF Mine, Open, Gone
    <3>2. events'[e] = [events[e] EXCEPT !.state = "rejected"]
      BY <1>3, <2>2
    <3> QED
      BY <2>1, <3>1, <3>2, Restated
  <2>3. CASE e \notin Mine(p)
    BY <1>3, <2>1, <2>3
  <2> QED
    BY <2>2, <2>3
<1>5. (\A e \in DOMAIN events' : EventShape(events'[e])) /\ Busy(work', events')
  <2>1. DOMAIN events' = DOMAIN events /\ Busy(work, events) /\ work' = work
    BY <1>2, <1>3 DEF Shapes
  <2> QED
    BY <1>4, <2>1 DEF Busy
<1>6. expected' \in [Refs -> 0 .. Unknown]
  BY <1>2, ExpectedShape DEF Shapes
<1>7. buffer' \in [Refs -> [entry : Texts, text : Texts]]
  BY <1>2, DropShape
<1>8. TxnShape(txn')
  BY <1>2 DEF Shapes, TxnShape
<1> QED
  BY <1>1, <1>2, <1>5, <1>6, <1>7, <1>8 DEF Shapes, Live

\* So does a restart.
LEMMA RestartShapes ==
  ASSUME Shapes, Restart
  PROVE  Shapes'
<1>1. source' \in [Refs -> Texts]
  BY RecoveredShape DEF Restart, Shapes
<1>2. /\ txn' = NoTransaction /\ asked' = {} /\ UNCHANGED <<buffer, work, expected>>
      /\ count' \in Texts
  BY ManualEditsAssumption DEF Restart, Shapes, Texts
<1>3. Live' = {}
  BY DEF Restart, Live
<1>4. events' = [e \in DOMAIN events |->
                   IF e \in work THEN [events[e] EXCEPT !.state = "lost"] ELSE Gone]
  BY DEF Restart
<1>5. ASSUME NEW e \in DOMAIN events
      PROVE  EventShape(events'[e]) /\ (e \in work => events'[e] # Gone)
  <2>1. CASE e \in work
    <3>1. EventShape(events[e]) /\ events[e] # Gone
      BY <2>1 DEF Shapes, Busy
    <3>2. events'[e] = [events[e] EXCEPT !.state = "lost"]
      BY <1>4, <2>1
    <3> QED
      BY <3>1, <3>2, Restated
  <2>2. CASE e \notin work
    BY <1>4, <2>2 DEF EventShape
  <2> QED
    BY <2>1, <2>2
<1>6. (\A e \in DOMAIN events' : EventShape(events'[e])) /\ Busy(work', events')
  <2>1. DOMAIN events' = DOMAIN events /\ Busy(work, events) /\ work' = work
    BY <1>2, <1>4 DEF Shapes
  <2> QED
    BY <1>5, <2>1 DEF Busy
<1> QED
  BY <1>1, <1>2, <1>3, <1>6 DEF Shapes, TxnShape

\* And what an agent does that no commit waits for, or before it answers.
LEMMA EventStepShapes ==
  ASSUME Shapes, Consistent(commits, events), NEW e \in DOMAIN events,
         \/ Timeout(e) \/ LateReply(e) \/ Abandon(e) \/ Fetch(e)
         \/ \E r \in Refs : AgentWrite(e, r)
  PROVE  Shapes'
<1>1. ASSUME NEW v, EventShape(v), events' = [events EXCEPT ![e] = v],
             work' \subseteq work, e \in work' => v # Gone
      PROVE  (\A d \in DOMAIN events' : EventShape(events'[d])) /\ Busy(work', events')
  <2>1. Closes(events', e, v)
    BY <1>1, ClosedCloses
  <2> QED
    BY <1>1, <2>1 DEF Closes, Shapes, Busy
<1>2. EventShape(events[e]) /\ source \in [Refs -> Texts]
  BY DEF Shapes
<1>3. EventShape(Gone)
  BY DEF EventShape
<1>4. CASE Timeout(e)
  <2> DEFINE v == [events[e] EXCEPT !.state = "rejected"]
  <2>1. events[e] # Gone
    BY <1>4 DEF Timeout, Open, Gone
  <2>2. events' = [events EXCEPT ![e] = v] /\ work' = work
    BY <1>4 DEF Timeout
  <2>3. EventShape(v) /\ v # Gone
    BY <1>2, <2>1, Restated
  <2> HIDE DEF v
  <2>4. (\A d \in DOMAIN events' : EventShape(events'[d])) /\ Busy(work', events')
    BY <1>1, <2>2, <2>3
  <2>5. UNCHANGED <<source, buffer, txn, commits, work, asked, count, expected>>
    BY <1>4 DEF Timeout
  <2> QED
    BY <2>4, <2>5 DEF Shapes, Live
<1>5. CASE LateReply(e) \/ Abandon(e)
  <2>1. events' = [events EXCEPT ![e] = Gone] /\ work' \subseteq work /\ e \notin work'
    BY <1>5 DEF LateReply, Abandon
  <2>2. (\A d \in DOMAIN events' : EventShape(events'[d])) /\ Busy(work', events')
    BY <1>1, <1>3, <2>1
  <2>3. source' \in [Refs -> Texts]
    <3>1. CASE LateReply(e)
      <4>1. events[e] # Gone /\ source' = Restore(source, events[e].snap)
        BY <3>1 DEF LateReply, Gone
      <4> QED
        BY <1>2, <4>1, RestoreShape DEF EventShape
    <3>2. CASE Abandon(e)
      BY <1>2, <3>2 DEF Abandon
    <3> QED
      BY <1>5, <3>1, <3>2
  <2>4. \E R : expected' = Doubt(expected, R)
    BY <1>5 DEF LateReply, Abandon
  <2>5. expected' \in [Refs -> 0 .. Unknown]
    BY <2>4, ExpectedShape DEF Shapes
  <2>6. UNCHANGED <<buffer, txn, commits, asked, count>>
    BY <1>5 DEF LateReply, Abandon
  <2> QED
    BY <2>2, <2>3, <2>5, <2>6 DEF Shapes, Live
<1>6. CASE Fetch(e)
  <2>1. work' = work \cup {e} /\ events[e] # Gone
    BY <1>6 DEF Fetch, Open, Gone
  <2>2. UNCHANGED <<source, buffer, txn, commits, events, asked, count, expected>>
    BY <1>6 DEF Fetch
  <2> QED
    BY <2>1, <2>2 DEF Shapes, Busy, Live
<1>7. ASSUME NEW r \in Refs, AgentWrite(e, r)
      PROVE  Shapes'
  <2>1. /\ r \in DOMAIN events[e].batch /\ events[e] # Gone
        /\ source' = [source EXCEPT ![r] = events[e].batch[r].text]
    BY <1>7 DEF AgentWrite, Shapes, Busy
  <2>2. events[e].batch[r].text \in Texts
    BY <1>2, <2>1 DEF EventShape, IsBatch
  <2>3. source' \in [Refs -> Texts]
    BY <1>2, <2>1, <2>2
  <2>4. UNCHANGED <<buffer, txn, commits, events, work, asked, count, expected>>
    BY <1>7 DEF AgentWrite
  <2> QED
    BY <2>3, <2>4 DEF Shapes, Live
<1> QED
  BY <1>4, <1>5, <1>6, <1>7

\* Every step keeps the shapes.
LEMMA StepShapes ==
  ASSUME Shapes, Consistent(commits, events), [Next]_vars
  PROVE  Shapes'
<1>1. CASE UNCHANGED vars
  BY <1>1 DEF vars, Shapes, Live
<1>2. CASE SavePage
  BY <1>2, SaveShapes DEF SavePage
<1>3. CASE AskCommit \/ AskRepair \/ AskDiscard
  BY <1>3, CommitShapes, KeepFixingShapes, DiscardShapes DEF AskCommit, AskRepair, AskDiscard
<1>4. ASSUME NEW p, RollbackDecision(p)
      PROVE  Shapes'
  <2>1. source' \in [Refs -> Texts]
    BY <1>4, RecoveredShape DEF RollbackDecision, Own
  <2>2. /\ txn' = NoTransaction
        /\ UNCHANGED <<buffer, commits, events, work, asked, count, expected>>
    BY <1>4 DEF RollbackDecision
  <2> QED
    BY <2>1, <2>2 DEF Shapes, TxnShape, Live
<1>5. CASE Restart
  BY <1>5, RestartShapes
<1>6. ASSUME NEW e \in DOMAIN events,
             \/ Timeout(e) \/ LateReply(e) \/ Abandon(e) \/ Fetch(e)
             \/ \E r \in Refs : AgentWrite(e, r)
      PROVE  Shapes'
  BY <1>6, EventStepShapes
<1>7. ASSUME NEW e \in DOMAIN events, Reply(e)
      PROVE  Shapes'
  <2>1. Active(events[e]) /\ work' = work \ {e} /\ count' = count
    BY <1>7 DEF Reply, Open, Active
  <2>2. Outcome(events[e].commit, [events EXCEPT ![e] = Gone])
    BY <1>7, ReplyOutcome
  <2>3. EventShape(Gone)
    BY DEF EventShape
  <2> QED
    BY <2>1, <2>2, <2>3, OutcomeShapes
<1>8. ASSUME NEW e \in DOMAIN events, Rejected(e)
      PROVE  Shapes'
  <2>1. Active(events[e]) /\ work' = work /\ count' = count
    BY <1>8 DEF Rejected, Active
  <2>2. Outcome(events[e].commit, [events EXCEPT ![e] = Tombstone(e)])
    BY <1>8, RejectedOutcome
  <2>3. EventShape(Tombstone(e)) /\ (e \in work => Tombstone(e) # Gone)
    <3>1. EventShape(events[e]) /\ events[e] # Gone
      BY <1>8 DEF Shapes, Rejected, Gone
    <3>2. EventShape(Gone)
      BY DEF EventShape
    <3> QED
      BY <3>1, <3>2, Restated DEF Tombstone
  <2> QED
    BY <2>1, <2>2, <2>3, OutcomeShapes
<1>9. CASE Server
  BY <1>6, <1>8, <1>9 DEF Server
<1>10. CASE Agent
  BY <1>6, <1>7, <1>10 DEF Agent
<1> QED
  BY <1>1, <1>2, <1>3, <1>4, <1>5, <1>9, <1>10 DEF Next, AskRollback

\* Everything is shaped as it should be at first.
LEMMA InitShapes ==
  ASSUME Init
  PROVE  Shapes
<1>1. /\ source \in [Refs -> Texts] /\ expected \in [Refs -> 0 .. Unknown]
      /\ buffer \in [Refs -> [entry : Texts, text : Texts]]
  BY TextsAre DEF Init, None
<1>2. Live = {} /\ DOMAIN events = {} /\ work = {} /\ asked = {}
  BY DEF Init, Live
<1>3. TxnShape(txn)
  BY DEF Init, TxnShape
<1>4. count \in Texts
  BY TextsAre DEF Init
<1> QED
  BY <1>1, <1>2, <1>3, <1>4 DEF Shapes, Busy

\* The texts are those of the saves, a commit repairs no more than it may, and the agent
\* works only at events that were sent.
THEOREM TypesHold == Spec => []TypeOK
<1> DEFINE I == Consistent(commits, events) /\ Shapes
<1>1. Init => I
  BY InitConsistent, InitShapes
<1>2. I /\ [Next]_vars => I'
  BY StepConsistent, StepShapes
<1>3. I => TypeOK
  <2>1. ASSUME Shapes PROVE txn.id \in 0 .. MaxCommits
    <3>1. NoTransaction.id = 0 /\ 0 \in 0 .. MaxCommits
      BY ManualEditsAssumption DEF NoTransaction
    <3>2. CASE txn = NoTransaction
      BY <3>1, <3>2
    <3>3. CASE txn # NoTransaction
      BY <2>1, <3>3, ManualEditsAssumption DEF Shapes, TxnShape
    <3> QED
      BY <3>2, <3>3
  <2>2. ASSUME Shapes PROVE \A c \in Live : commits[c].repair \in 0 .. MaxRepairs
    BY <2>2 DEF Shapes, CommitShape
  <2>3. ASSUME Shapes PROVE work \subseteq DOMAIN events
    BY <2>3 DEF Shapes, Busy
  <2> QED
    BY <2>1, <2>2, <2>3 DEF TypeOK, Shapes
<1> QED
  BY <1>1, <1>2, <1>3, PTL DEF Spec

-----------------------------------------------------------------------------
(* Every commit that runs waits for an event.                                  *)

Waited == \A c \in Live : ~Free(events, c)

\* An event that is sent is one its commit waits for, and takes no other's place.
LEMMA SendsWaits ==
  ASSUME NEW evs, NEW c, NEW batch, NEW src, Sends(evs, c, batch, src)
  PROVE  ~Free(events', c) /\ \A d : ~Free(evs, d) => ~Free(events', d)
<1> DEFINE v == Event(c, batch, src)
<1>1. Active(v) /\ v.commit = c
  BY DEF Event, Active
<1> HIDE DEF v
<1>2. PICK n \in DOMAIN events' :
        /\ n \in DOMAIN evs => evs[n] = Gone
        /\ events'[n] = v
        /\ \A d \in DOMAIN events' : d # n => d \in DOMAIN evs /\ events'[d] = evs[d]
  BY DEF Sends, v
<1>3. DOMAIN evs \subseteq DOMAIN events'
  BY DEF Sends
<1>4. \A e \in DOMAIN evs : Active(evs[e]) => e \in DOMAIN events' /\ events'[e] = evs[e]
  BY <1>2, <1>3, GoneIsInactive
<1> QED
  BY <1>1, <1>2, <1>4 DEF Free

\* After an answer the commit has ended or waits again.
LEMMA AnsweredWaited ==
  ASSUME Waited, NEW e \in DOMAIN events, NEW c \in Live, c = events[e].commit,
         NEW evs, NEW v, Closes(evs, e, v), Answered(c, evs)
  PROVE  Waited'
<1>1. \A d \in Live : d # c => ~Free(evs, d)
  BY DEF Waited, Free, Closes
<1>2. CASE Ends(c) /\ events' = evs
  BY <1>1, <1>2 DEF Ends, Waited
<1>3. ASSUME NEW batch, Goes(c), Sends(evs, c, batch, source)
      PROVE  Waited'
  <2>1. ~Free(events', c) /\ \A d : ~Free(evs, d) => ~Free(events', d)
    BY <1>3, SendsWaits
  <2>2. Live' = Live
    BY <1>3 DEF Goes
  <2> QED
    BY <1>1, <2>1, <2>2 DEF Waited
<1> QED
  BY <1>2, <1>3 DEF Answered

\* Events that change without being closed are waited for as before.
LEMMA StillWaited ==
  ASSUME Waited, Live' \subseteq Live, DOMAIN events' = DOMAIN events,
         \A e \in DOMAIN events : Active(events[e]) =>
            Active(events'[e]) /\ events'[e].commit = events[e].commit
  PROVE  Waited'
BY DEF Waited, Free

\* Every step keeps what commits wait for.
LEMMA StepWaited ==
  ASSUME Waited, Shapes, Consistent(commits, events), [Next]_vars
  PROVE  Waited'
<1>1. CASE UNCHANGED <<commits, events>>
  BY <1>1 DEF Waited, Live
<1>2. ASSUME NEW p \in Pages, Commit(p)
      PROVE  Waited'
  <2> DEFINE c == Len(commits) + 1
  <2>1. Joins(c, New(p)) /\ \E batch : Sends(events, c, batch, Start(p))
    BY <1>2, CommitFacts
  <2>2. ~Free(events', c) /\ \A d : ~Free(events, d) => ~Free(events', d)
    BY <2>1, SendsWaits
  <2> QED
    BY <2>1, <2>2 DEF Joins, Waited
<1>3. ASSUME NEW p \in Pages, KeepFixing(p)
      PROVE  Waited'
  <2> DEFINE c == Len(commits) + 1
  <2>1. \/ Joins(c, Ended) /\ events' = events
        \/ Joins(c, Fixing(p)) /\ Sends(events, c, Batch(p), source)
    BY <1>3, KeepFixingFacts
  <2> HIDE DEF c
  <2>2. CASE Joins(c, Ended) /\ events' = events
    BY <2>2 DEF Joins, Waited
  <2>3. CASE Joins(c, Fixing(p)) /\ Sends(events, c, Batch(p), source)
    <3>1. ~Free(events', c) /\ \A d : ~Free(events, d) => ~Free(events', d)
      BY <2>3, SendsWaits
    <3> QED
      BY <2>3, <3>1 DEF Joins, Waited
  <2> QED
    BY <2>1, <2>2, <2>3
<1>4. ASSUME NEW p \in Pages, Discard(p)
      PROVE  Waited'
  <2>1. /\ events' = [e \in DOMAIN events |->
                        IF e \in Mine(p) THEN [events[e] EXCEPT !.state = "rejected"]
                                         ELSE events[e]]
        /\ commits' = commits
    BY <1>4 DEF Discard, Mine
  <2>2. ASSUME NEW e \in DOMAIN events, Active(events[e])
        PROVE  Active(events'[e]) /\ events'[e].commit = events[e].commit
    <3>1. CASE e \in Mine(p)
      <4>1. EventShape(events[e]) /\ events[e] # Gone
        BY <2>2, GoneIsInactive DEF Shapes
      <4>2. events'[e] = [events[e] EXCEPT !.state = "rejected"]
        BY <2>1, <3>1
      <4>3. events'[e].state = "rejected" /\ events'[e].commit = events[e].commit
        BY <4>1, <4>2, Restated
      <4> QED
        BY <4>3 DEF Active
    <3>2. CASE e \notin Mine(p)
      BY <2>1, <2>2, <3>2
    <3> QED
      BY <3>1, <3>2
  <2>3. DOMAIN events' = DOMAIN events /\ Live' = Live
    BY <2>1 DEF Live
  <2> QED
    BY <2>2, <2>3, StillWaited
<1>5. CASE Restart
  <2>1. Live' = {}
    BY <1>5 DEF Restart, Live
  <2> QED
    BY <2>1 DEF Waited
<1>6. ASSUME NEW e \in DOMAIN events, NEW v, events' = [events EXCEPT ![e] = v],
             commits' = commits,
             Active(events[e]) => Active(v) /\ v.commit = events[e].commit
      PROVE  Waited'
  <2>1. Closes(events', e, v)
    BY <1>6, ClosedCloses
  <2>2. Live' = Live
    BY <1>6 DEF Live
  <2> QED
    BY <1>6, <2>1, <2>2, StillWaited DEF Closes
<1>7. ASSUME NEW e \in DOMAIN events, Timeout(e)
      PROVE  Waited'
  <2> DEFINE v == [events[e] EXCEPT !.state = "rejected"]
  <2>1. EventShape(events[e]) /\ events[e] # Gone
    BY <1>7 DEF Shapes, Timeout, Open, Gone
  <2>2. v.state = "rejected" /\ v.commit = events[e].commit
    BY <2>1, Restated
  <2>3. events' = [events EXCEPT ![e] = v] /\ commits' = commits
    BY <1>7 DEF Timeout
  <2> HIDE DEF v
  <2>4. Active(v)
    BY <2>2 DEF Active
  <2> QED
    BY <1>6, <2>2, <2>3, <2>4
<1>8. ASSUME NEW e \in DOMAIN events, LateReply(e) \/ Abandon(e)
      PROVE  Waited'
  <2>1. ~Active(events[e])
    BY <1>8 DEF LateReply, Abandon, Calm, Open, Active
  <2>2. events' = [events EXCEPT ![e] = Gone] /\ commits' = commits
    BY <1>8 DEF LateReply, Abandon
  <2> QED
    BY <1>6, <2>1, <2>2
<1>9. ASSUME NEW e \in DOMAIN events, Reply(e) \/ Rejected(e)
      PROVE  Waited'
  <2>1. Active(events[e])
    BY <1>9 DEF Reply, Rejected, Open, Active
  <2>2. events[e].commit \in Live
    BY <2>1, ActiveRuns
  <2>3. \E v : Outcome(events[e].commit, [events EXCEPT ![e] = v])
    BY <1>9, ReplyOutcome, RejectedOutcome
  <2>4. PICK v : Outcome(events[e].commit, [events EXCEPT ![e] = v])
    BY <2>3
  <2> DEFINE evs == [events EXCEPT ![e] = v]
  <2>5. Closes(evs, e, v) /\ Outcome(events[e].commit, evs)
    BY <2>4, ClosedCloses
  <2> HIDE DEF evs
  <2>6. Answered(events[e].commit, evs)
    BY <2>2, <2>5, OutcomeAnswers DEF Closes
  <2> QED
    BY <2>2, <2>5, <2>6, AnsweredWaited
<1>10. CASE SavePage \/ AskRollback \/ UNCHANGED vars
  BY <1>1, <1>10 DEF SavePage, Save, AskRollback, RollbackDecision, vars
<1>11. ASSUME NEW e, Fetch(e) \/ \E r \in Refs : AgentWrite(e, r)
       PROVE  Waited'
  BY <1>1, <1>11 DEF Fetch, AgentWrite
<1>12. CASE Server
  BY <1>7, <1>9, <1>12 DEF Server
<1>13. CASE Agent
  BY <1>8, <1>9, <1>11, <1>13 DEF Agent
<1> QED
  BY <1>2, <1>3, <1>4, <1>5, <1>10, <1>12, <1>13 DEF Next, AskCommit, AskRepair, AskDiscard

-----------------------------------------------------------------------------
(* Why an Apply is all or nothing.  An element whose expected text is known is  *)
(* written by nobody but the one commit whose transaction holds that text; what *)
(* the agent wrote is staged, and will be cleared or undone with the rest.      *)

Known(r) == expected[r] # Unknown

\* An agent works on it whose event no commit waits for.
Stray(r) == \E e \in work : ~Active(events[e]) /\ r \in DOMAIN events[e].batch

InTxn(r) == txn # NoTransaction /\ r \in DOMAIN txn.files
Held(r) == buffer[r] # None /\ PageOf[r] = txn.page

\* No commit runs but the transaction's, and something of it is still staged.
Alone ==
  /\ \A c \in Live : /\ commits[c].txn = txn.id /\ commits[c].page = txn.page
                     /\ txn.page \notin asked
  /\ \A c, d \in Live : c = d
  /\ \E q \in Refs : Held(q) /\ buffer[q].entry \in txn.ids

Undoable(r) == InTxn(r) => txn.files[r] = expected[r] /\ Alone

Touched(r) ==
  \A c \in Live : r \in DOMAIN commits[c].base =>
    /\ InTxn(r)
    /\ commits[c].repair = 0 => commits[c].base[r] = expected[r]
    /\ r \in DOMAIN commits[c].batch => Held(r)

Written(r) ==
  /\ InTxn(r) /\ Held(r)
  /\ \A c \in Live : /\ r \in DOMAIN commits[c].batch
                     /\ commits[c].repair = 0 => source[r] = commits[c].batch[r].text

Accounted(r) == source[r] = expected[r] \/ Stray(r) \/ Written(r)

Safe(r) == Known(r) => Undoable(r) /\ Touched(r) /\ Accounted(r)
AllSafe == \A r \in Refs : Safe(r)

\* The events that agents work on without being waited for are kept.
LEMMA StrayKept ==
  ASSUME \A e \in work : ~Active(events[e]) =>
           /\ e \in work' /\ ~Active(events'[e])
           /\ events'[e].batch = events[e].batch
  PROVE  \A r : Stray(r) => Stray(r)'
BY DEF Stray

\* An event that is closed and another that is sent do not take their place.
LEMMA AnsweredStrays ==
  ASSUME Shapes, NEW e \in DOMAIN events, Active(events[e]), NEW v, NEW evs, NEW c,
         Closes(evs, e, v), work' = work \/ work' = work \ {e},
         events' = evs \/ \E batch, src : Sends(evs, c, batch, src)
  PROVE  \A r : Stray(r) => Stray(r)'
<1>1. ASSUME NEW d \in work, ~Active(events[d])
      PROVE  d \in work' /\ events'[d] = events[d]
  <2>1. d # e /\ d \in DOMAIN events /\ events[d] # Gone
    BY <1>1 DEF Shapes, Busy
  <2>2. d \in work' /\ d \in DOMAIN evs /\ evs[d] = events[d]
    BY <1>1, <2>1 DEF Closes
  <2>3. ASSUME NEW batch, NEW src, Sends(evs, c, batch, src)
        PROVE  events'[d] = evs[d]
    BY <2>1, <2>2, <2>3 DEF Sends
  <2> QED
    BY <2>2, <2>3
<1> QED
  BY <1>1, StrayKept

\* An event that is sent takes no place an agent works at.
LEMMA SentStrays ==
  ASSUME Shapes, work' = work, NEW c, NEW batch, NEW src, Sends(events, c, batch, src)
  PROVE  \A r : Stray(r) => Stray(r)'
<1>1. ASSUME NEW d \in work
      PROVE  events'[d] = events[d]
  BY DEF Sends, Shapes, Busy
<1> QED
  BY <1>1, StrayKept

\* A step that changes no commit and no transaction, and writes only what is expected or
\* what is not waited for.
LEMMA QuietSafe ==
  ASSUME AllSafe, UNCHANGED <<commits, txn, asked>>,
         \A q \in Refs : buffer[q] # None =>
           buffer'[q] # None /\ buffer'[q].entry = buffer[q].entry,
         \A r \in Refs : expected'[r] = expected[r] \/ expected'[r] = Unknown,
         \A r \in Refs : expected'[r] # Unknown =>
           source'[r] = expected[r] \/ Stray(r)' \/ (source'[r] = source[r] /\ ~Stray(r))
  PROVE  AllSafe'
<1> SUFFICES ASSUME NEW r \in Refs, Known(r)'
             PROVE  Undoable(r)' /\ Touched(r)' /\ Accounted(r)'
  BY DEF AllSafe, Safe
<1>1. Known(r) /\ expected'[r] = expected[r]
  BY DEF Known
<1>2. Undoable(r) /\ Touched(r) /\ Accounted(r)
  BY <1>1 DEF AllSafe, Safe
<1>3. Live' = Live /\ (InTxn(r)' <=> InTxn(r)) /\ \A q \in Refs : Held(q) => Held(q)'
  BY DEF Live, InTxn, Held
<1>4. Alone => Alone'
  BY <1>3 DEF Alone, Held
<1>5. Undoable(r)'
  BY <1>1, <1>2, <1>3, <1>4 DEF Undoable
<1>6. Touched(r)'
  BY <1>1, <1>2, <1>3 DEF Touched
<1>7. Accounted(r)'
  <2>1. source'[r] = expected'[r] \/ Stray(r)' \/ (source'[r] = source[r] /\ ~Stray(r))
    BY <1>1 DEF Known
  <2>2. CASE source'[r] = source[r] /\ ~Stray(r)
    <3>1. source[r] = expected[r] \/ Written(r)
      BY <1>2, <2>2 DEF Accounted
    <3>2. Written(r) => Written(r)'
      BY <1>3, <2>2 DEF Written
    <3> QED
      BY <1>1, <2>2, <3>1, <3>2 DEF Accounted
  <2> QED
    BY <2>1, <2>2 DEF Accounted
<1> QED
  BY <1>5, <1>6, <1>7

\* A transaction that something is staged of is recovered, and nothing else is.
LEMMA Recovers ==
  ASSUME Shapes, txn # NoTransaction, NEW r \in Refs, Undoable(r)
  PROVE  Recovered(buffer, source)[r] = IF InTxn(r) THEN expected[r] ELSE source[r]
<1>1. source \in [Refs -> Texts] /\ DOMAIN buffer = Refs
  BY DEF Shapes
<1>2. CASE InTxn(r)
  <2>1. PICK q \in Refs : buffer[q] # None /\ buffer[q].entry \in txn.ids
    BY <1>2 DEF Undoable, Alone, Held
  <2>2. buffer[q].entry \in Entries(buffer)
    BY <1>1, <2>1 DEF Entries
  <2>3. Recovered(buffer, source) = Restore(source, txn.files)
    BY <2>1, <2>2 DEF Recovered
  <2>4. r \in DOMAIN txn.files /\ txn.files[r] = expected[r]
    BY <1>2 DEF InTxn, Undoable
  <2> QED
    BY <1>1, <1>2, <2>3, <2>4, RestoreShape
<1>3. CASE ~InTxn(r)
  <2>1. r \notin DOMAIN txn.files
    BY <1>3 DEF InTxn
  <2>2. \/ Recovered(buffer, source) = source
        \/ Recovered(buffer, source) = Restore(source, txn.files)
    BY DEF Recovered
  <2> QED
    BY <1>1, <1>3, <2>1, <2>2, RestoreShape
<1> QED
  BY <1>2, <1>3

\* A save stages more and takes nothing back.
LEMMA SaveSafe ==
  ASSUME Shapes, AllSafe, NEW R, Save(R)
  PROVE  AllSafe'
<1>1. /\ UNCHANGED <<source, txn, commits, events, work, asked, expected>>
      /\ count' \in Nat /\ count' # 0
  BY ManualEditsAssumption DEF Save, Shapes, Texts
<1>2. buffer' = [r \in Refs |->
        IF r \notin R THEN buffer[r]
          ELSE [entry |-> IF buffer[r] = None THEN count' ELSE buffer[r].entry,
                text |-> count']]
  BY DEF Save
<1>3. \A q \in Refs : buffer[q] # None =>
        buffer'[q] # None /\ buffer'[q].entry = buffer[q].entry
  BY <1>1, <1>2 DEF None
<1>4. \A r \in Refs : Stray(r)' <=> Stray(r)
  BY <1>1 DEF Stray
<1> QED
  BY <1>1, <1>3, <1>4, QuietSafe

\* An element of an event that is waited for is one of its commit's, and staged.
LEMMA ActiveTouched ==
  ASSUME Shapes, Consistent(commits, events), AllSafe, NEW e \in DOMAIN events,
         Active(events[e]), NEW r \in DOMAIN events[e].batch, r \in Refs, Known(r)
  PROVE  LET c == events[e].commit IN
         /\ c \in Live /\ r \in DOMAIN commits[c].batch
         /\ events[e].batch[r] = commits[c].batch[r]
         /\ InTxn(r) /\ Alone /\ Held(r)
<1> DEFINE c == events[e].commit
<1>1. c \in Live /\ EventOk(commits, events[e])
  BY ActiveRuns
<1>2. r \in DOMAIN commits[c].batch /\ events[e].batch[r] = commits[c].batch[r]
  BY <1>1 DEF EventOk, Within
<1> HIDE DEF c
<1>3. CommitShape(commits[c])
  BY <1>1 DEF Shapes
<1>4. r \in DOMAIN commits[c].base
  BY <1>2, <1>3, TogetherHas DEF CommitShape, IsBatch
<1>5. InTxn(r) /\ Held(r) /\ Undoable(r)
  BY <1>1, <1>2, <1>4 DEF AllSafe, Safe, Touched
<1> QED
  BY <1>1, <1>2, <1>5 DEF Undoable, c

\* An agent writes its batch; a late reply undoes it; an event times out.
LEMMA EventStepSafe ==
  ASSUME Shapes, Consistent(commits, events), AllSafe, NEW e \in DOMAIN events,
         \/ Timeout(e) \/ LateReply(e) \/ Abandon(e) \/ Fetch(e)
         \/ \E r \in Refs : AgentWrite(e, r)
  PROVE  AllSafe'
<1>1. source \in [Refs -> Texts] /\ EventShape(events[e])
  BY DEF Shapes
<1>2. CASE Timeout(e)
  <2>1. /\ UNCHANGED <<source, buffer, txn, commits, work, asked, count, expected>>
        /\ Active(events[e]) /\ events' = [events EXCEPT ![e].state = "rejected"]
    BY <1>2 DEF Timeout, Open, Active
  <2>2. \A d \in DOMAIN events : d # e => events'[d] = events[d]
    <3>1. Closes(events', e, [events[e] EXCEPT !.state = "rejected"])
      BY <2>1, ClosedCloses
    <3> QED
      BY <3>1 DEF Closes
  <2>3. \A r : Stray(r) => Stray(r)'
    <3>1. \A d \in work : ~Active(events[d]) => d # e /\ d \in DOMAIN events
      BY <2>1 DEF Shapes, Busy
    <3> QED
      BY <2>1, <2>2, <3>1, StrayKept
  <2> QED
    BY <2>1, <2>3, QuietSafe
<1>3. CASE Fetch(e)
  <2>1. /\ UNCHANGED <<source, buffer, txn, commits, events, asked, count, expected>>
        /\ work \subseteq work'
    BY <1>3 DEF Fetch
  <2>2. \A r : Stray(r) => Stray(r)'
    BY <2>1, StrayKept
  <2> QED
    BY <2>1, <2>2, QuietSafe
<1>4. CASE LateReply(e) \/ Abandon(e)
  <2>1. /\ e \in work /\ work' = work \ {e} /\ events' = [events EXCEPT ![e] = Gone]
        /\ UNCHANGED <<buffer, txn, commits, asked, count>>
    BY <1>4 DEF LateReply, Abandon
  <2>2. Closes(events', e, Gone) /\ events[e] # Gone
    BY <2>1, ClosedCloses DEF Shapes, Busy
  <2>3. ASSUME NEW r \in Refs, r \notin DOMAIN events[e].batch, Stray(r)
        PROVE  Stray(r)'
    <3>1. PICK d \in work : ~Active(events[d]) /\ r \in DOMAIN events[d].batch
      BY <2>3 DEF Stray
    <3>2. d # e /\ d \in DOMAIN events /\ d \in work'
      BY <2>1, <2>3, <3>1 DEF Shapes, Busy
    <3>3. events'[d] = events[d]
      BY <2>2, <3>2 DEF Closes
    <3> QED
      BY <3>1, <3>2, <3>3 DEF Stray
  <2>4. CASE LateReply(e)
    <3> DEFINE snap == events[e].snap
    <3>1. /\ source' = Restore(source, snap)
          /\ expected' = Doubt(expected, DOMAIN snap \ Clean(snap))
      BY <2>4 DEF LateReply
    <3>2. DOMAIN events[e].batch \subseteq DOMAIN snap
      BY <1>1, <2>2, TogetherHas DEF EventShape, IsBatch
    <3> HIDE DEF snap
    <3>3. ASSUME NEW r \in Refs
          PROVE  /\ expected'[r] = expected[r] \/ expected'[r] = Unknown
                 /\ expected'[r] # Unknown => r \notin DOMAIN snap \/ snap[r] = expected[r]
      BY <3>1 DEF Doubt, Clean
    <3>4. ASSUME NEW r \in Refs, expected'[r] # Unknown
          PROVE  \/ source'[r] = expected[r] \/ Stray(r)'
                 \/ (source'[r] = source[r] /\ ~Stray(r))
      <4>1. CASE r \in DOMAIN snap
        BY <1>1, <3>1, <3>3, <3>4, <4>1, RestoreShape
      <4>2. CASE r \notin DOMAIN snap
        <5>1. source'[r] = source[r] /\ r \notin DOMAIN events[e].batch
          BY <1>1, <3>1, <3>2, <4>2, RestoreShape
        <5> QED
          BY <2>3, <5>1
      <4> QED
        BY <4>1, <4>2
    <3> QED
      BY <2>1, <3>3, <3>4, QuietSafe
  <2>5. CASE Abandon(e)
    <3>1. /\ source' = source
          /\ expected' = Doubt(expected, DOMAIN events[e].batch \ Clean(source))
      BY <2>5 DEF Abandon
    <3>2. ASSUME NEW r \in Refs
          PROVE  /\ expected'[r] = expected[r] \/ expected'[r] = Unknown
                 /\ expected'[r] # Unknown =>
                      r \notin DOMAIN events[e].batch \/ source[r] = expected[r]
      BY <1>1, <3>1 DEF Doubt, Clean
    <3>3. ASSUME NEW r \in Refs, expected'[r] # Unknown
          PROVE  \/ source'[r] = expected[r] \/ Stray(r)'
                 \/ (source'[r] = source[r] /\ ~Stray(r))
      BY <2>3, <3>1, <3>2, <3>3
    <3> QED
      BY <2>1, <3>2, <3>3, QuietSafe
  <2> QED
    BY <1>4, <2>4, <2>5
<1>5. ASSUME NEW q \in Refs, AgentWrite(e, q)
      PROVE  AllSafe'
  <2>1. /\ UNCHANGED <<buffer, txn, commits, events, work, asked, count, expected>>
        /\ e \in work /\ q \in DOMAIN events[e].batch
        /\ source' = [source EXCEPT ![q] = events[e].batch[q].text]
    BY <1>5 DEF AgentWrite
  <2>2. \A r \in Refs : r # q => source'[r] = source[r]
    BY <1>1, <2>1
  <2>3. source'[q] = events[e].batch[q].text
    BY <1>1, <2>1
  <2>4. \A r : Stray(r)' <=> Stray(r)
    BY <2>1 DEF Stray
  <2>5. CASE ~Active(events[e]) \/ ~Known(q)
    <3>1. Stray(q) \/ expected'[q] = Unknown
      BY <2>1, <2>5 DEF Stray, Known
    <3>2. \A r \in Refs : expected'[r] # Unknown =>
            source'[r] = expected[r] \/ Stray(r)' \/ (source'[r] = source[r] /\ ~Stray(r))
      BY <2>2, <2>4, <3>1
    <3> QED
      BY <2>1, <3>2, QuietSafe
  <2>6. CASE Active(events[e]) /\ Known(q)
    <3> DEFINE c == events[e].commit
    <3>1. /\ c \in Live /\ q \in DOMAIN commits[c].batch
          /\ events[e].batch[q] = commits[c].batch[q]
          /\ InTxn(q) /\ Alone /\ Held(q)
      BY <2>1, <2>6, ActiveTouched
    <3> HIDE DEF c
    <3>2. \A d \in Live : d = c
      BY <3>1 DEF Alone
    <3>3. Live' = Live /\ (Alone => Alone')
      BY <2>1 DEF Live, Alone, Held
    <3>4. \A r \in Refs : /\ Known(r)' <=> Known(r)
                          /\ Undoable(r) => Undoable(r)'
                          /\ Touched(r) => Touched(r)'
      BY <2>1, <3>3 DEF Known, Undoable, Touched, InTxn, Held
    <3>5. Written(q)'
      BY <2>1, <2>3, <3>1, <3>2, <3>3 DEF Written, InTxn, Held
    <3>6. ASSUME NEW r \in Refs, r # q, Accounted(r)
          PROVE  Accounted(r)'
      BY <2>1, <2>2, <2>4, <3>3, <3>6 DEF Accounted, Written, InTxn, Held
    <3> QED
      BY <3>4, <3>5, <3>6 DEF AllSafe, Safe, Accounted
  <2> QED
    BY <2>5, <2>6
<1> QED
  BY <1>2, <1>3, <1>4, <1>5

\* A transaction that is rolled back, or recovered from, leaves what is expected.
LEMMA RecoveredSafe ==
  ASSUME Shapes, AllSafe, NEW r \in Refs, Known(r), NEW src,
         src = IF txn = NoTransaction THEN source ELSE Recovered(buffer, source),
         \A q : Stray(q) => Stray(q)'
  PROVE  src[r] = expected[r] \/ Stray(r)'
<1>1. Undoable(r) /\ Accounted(r)
  BY DEF AllSafe, Safe
<1>2. CASE InTxn(r)
  BY <1>1, <1>2, Recovers DEF InTxn
<1>3. CASE ~InTxn(r)
  <2>1. src[r] = source[r]
    BY <1>1, <1>3, Recovers
  <2> QED
    BY <1>1, <1>3, <2>1 DEF Accounted, Written
<1> QED
  BY <1>2, <1>3

\* The user's rollback: nothing of the transaction runs.
LEMMA RollbackDecisionSafe ==
  ASSUME Shapes, AllSafe, NEW p, RollbackDecision(p)
  PROVE  AllSafe'
<1>1. /\ p \in asked /\ txn # NoTransaction /\ txn.page = p
      /\ source' = Recovered(buffer, source) /\ txn' = NoTransaction
      /\ UNCHANGED <<buffer, commits, events, work, asked, count, expected>>
  BY DEF RollbackDecision, Own
<1>2. \A r : Stray(r) => Stray(r)'
  BY <1>1, StrayKept
<1>3. ASSUME NEW r \in Refs, Known(r)'
      PROVE  Undoable(r)' /\ Touched(r)' /\ Accounted(r)'
  <2>1. Known(r)
    BY <1>1, <1>3 DEF Known
  <2>2. Undoable(r) /\ Touched(r)
    BY <2>1 DEF AllSafe, Safe
  <2>3. source'[r] = expected[r] \/ Stray(r)'
    BY <1>1, <1>2, <2>1, RecoveredSafe
  <2>4. ~InTxn(r)'
    BY <1>1 DEF InTxn
  <2>5. InTxn(r) => Live = {}
    BY <1>1, <2>2 DEF Undoable, Alone
  <2>6. \A c \in Live : r \notin DOMAIN commits[c].base
    BY <2>2, <2>5 DEF Touched
  <2>7. Touched(r)'
    BY <1>1, <2>6 DEF Touched, Live
  <2> QED
    BY <1>1, <2>3, <2>4, <2>7 DEF Undoable, Accounted
<1> QED
  BY <1>3 DEF AllSafe, Safe

\* After a restart nothing runs, and the transaction is recovered.
LEMMA RestartSafe ==
  ASSUME Shapes, AllSafe, Restart
  PROVE  AllSafe'
<1>1. /\ source' = IF txn = NoTransaction THEN source ELSE Recovered(buffer, source)
      /\ txn' = NoTransaction /\ UNCHANGED <<buffer, work, expected>>
      /\ events' = [e \in DOMAIN events |->
                      IF e \in work THEN [events[e] EXCEPT !.state = "lost"] ELSE Gone]
  BY DEF Restart
<1>2. Live' = {}
  BY DEF Restart, Live
<1>3. \A r : Stray(r) => Stray(r)'
  <2>1. ASSUME NEW e \in work
        PROVE  ~Active(events'[e]) /\ events'[e].batch = events[e].batch
    <3>1. e \in DOMAIN events /\ EventShape(events[e]) /\ events[e] # Gone
      BY DEF Shapes, Busy
    <3>2. events'[e] = [events[e] EXCEPT !.state = "lost"]
      BY <1>1, <3>1
    <3>3. events'[e].state = "lost" /\ events'[e].batch = events[e].batch
      BY <3>1, <3>2, Restated
    <3> QED
      BY <3>3 DEF Active
  <2> QED
    BY <1>1, <2>1, StrayKept
<1>4. ASSUME NEW r \in Refs, Known(r)'
      PROVE  Undoable(r)' /\ Touched(r)' /\ Accounted(r)'
  <2>1. Known(r)
    BY <1>1, <1>4 DEF Known
  <2>2. source'[r] = expected[r] \/ Stray(r)'
    BY <1>1, <1>3, <2>1, RecoveredSafe
  <2> QED
    BY <1>1, <1>2, <2>2 DEF Undoable, Touched, Accounted, InTxn
<1> QED
  BY <1>4 DEF AllSafe, Safe

\* A page is discarded: what its open events may have touched is not answered for, and
\* a commit of the transaction would have one.
LEMMA DiscardSafe ==
  ASSUME Shapes, Consistent(commits, events), Waited, AllSafe, NEW p, Discard(p)
  PROVE  AllSafe'
<1> DEFINE src == IF Own(p) THEN Recovered(buffer, source) ELSE source
           mine == Mine(p)
<1>1. /\ Calm /\ buffer' = Drop(buffer, Pending(buffer, p))
      /\ txn' = IF Own(p) THEN NoTransaction ELSE txn
      /\ events' = [e \in DOMAIN events |->
                      IF e \in mine THEN [events[e] EXCEPT !.state = "rejected"]
                                    ELSE events[e]]
      /\ expected' = Doubt(expected, UNION {DOMAIN commits[events[e].commit].base : e \in mine})
      /\ UNCHANGED <<commits, work, asked, count>>
  BY DEF Discard, Mine
<1>2. \A r \in Refs :
        (\A e \in mine : r \notin DOMAIN events[e].snap) => source'[r] = src[r]
  BY DiscardTexts
<1>3. ASSUME NEW e \in mine
      PROVE  DOMAIN events[e].snap \subseteq DOMAIN commits[events[e].commit].base
  <2> DEFINE c == events[e].commit
  <2>1. /\ e \in DOMAIN events /\ Active(events[e]) /\ EventShape(events[e])
        /\ events[e] # Gone
    BY DEF Mine, Open, Active, Shapes, Gone
  <2>2. c \in Live /\ EventOk(commits, events[e])
    BY <2>1, ActiveRuns
  <2>3. DOMAIN events[e].batch \subseteq DOMAIN commits[c].batch
    BY <2>2 DEF EventOk, Within
  <2>4. CommitShape(commits[c])
    BY <2>2 DEF Shapes
  <2> QED
    BY <2>1, <2>3, <2>4, TogetherHas DEF EventShape, CommitShape, IsBatch
<1>4. \A r : Stray(r) => Stray(r)'
  <2>1. ASSUME NEW e \in work, ~Active(events[e])
        PROVE  events'[e] = events[e]
    <3>1. e \in DOMAIN events /\ e \notin mine
      BY <2>1 DEF Shapes, Busy, Mine, Open, Active
    <3> QED
      BY <1>1, <3>1
  <2> QED
    BY <1>1, <2>1, StrayKept
<1>5. Live' = Live
  BY <1>1 DEF Live
<1>6. ASSUME NEW r \in Refs, Known(r)'
      PROVE  Undoable(r)' /\ Touched(r)' /\ Accounted(r)'
  <2>1. /\ Known(r) /\ expected'[r] = expected[r]
        /\ \A e \in mine : r \notin DOMAIN commits[events[e].commit].base
    BY <1>1, <1>6 DEF Known, Doubt
  <2>2. source'[r] = src[r]
    BY <1>2, <1>3, <2>1
  <2>3. Undoable(r) /\ Touched(r) /\ Accounted(r)
    BY <2>1 DEF AllSafe, Safe
  <2>4. CASE Own(p)
    <3>1. txn # NoTransaction /\ txn.page = p /\ txn' = NoTransaction
      BY <1>1, <2>4 DEF Own
    <3>2. source'[r] = expected[r] \/ Stray(r)'
      BY <1>4, <2>1, <2>2, <2>4, <3>1, RecoveredSafe
    <3>3. ASSUME NEW c \in Live, r \in DOMAIN commits[c].base
          PROVE  FALSE
      <4>1. commits[c].page = p
        BY <2>3, <3>1, <3>3 DEF Touched, Undoable, Alone
      <4>2. PICK e \in DOMAIN events : Active(events[e]) /\ events[e].commit = c
        BY DEF Waited, Free
      <4>3. e \in mine
        BY <1>1, <4>1, <4>2 DEF Mine, Open, Active, Calm
      <4> QED
        BY <2>1, <3>3, <4>2, <4>3
    <3>4. Touched(r)'
      BY <1>1, <1>5, <3>3 DEF Touched
    <3> QED
      BY <2>1, <3>1, <3>2, <3>4 DEF Undoable, Accounted, InTxn
  <2>5. CASE ~Own(p)
    <3>1. txn' = txn /\ source'[r] = source[r]
      BY <1>1, <2>2, <2>5
    <3>2. ASSUME txn # NoTransaction, NEW q \in Refs, Held(q)
          PROVE  Held(q)' /\ buffer'[q] = buffer[q]
      <4>1. q \notin Pending(buffer, p)
        BY <2>5, <3>2 DEF Own, Held, Pending
      <4>2. buffer'[q] = buffer[q]
        BY <1>1, <4>1 DEF Drop
      <4> QED
        BY <3>1, <3>2, <4>2 DEF Held
    <3>3. Undoable(r)'
      <4>1. Alone /\ txn # NoTransaction => Alone'
        BY <1>1, <1>5, <3>1, <3>2 DEF Alone
      <4> QED
        BY <2>1, <2>3, <3>1, <4>1 DEF Undoable, InTxn
    <3>4. Touched(r)'
      BY <1>1, <1>5, <2>1, <2>3, <3>1, <3>2 DEF Touched, InTxn
    <3>5. Accounted(r)'
      <4>1. Written(r) => Written(r)'
        BY <1>1, <1>5, <3>1, <3>2 DEF Written, InTxn
      <4> QED
        BY <1>4, <2>1, <2>3, <3>1, <4>1 DEF Accounted
    <3> QED
      BY <3>3, <3>4, <3>5
  <2> QED
    BY <2>4, <2>5
<1> QED
  BY <1>6 DEF AllSafe, Safe

\* What the running commits and a transaction hold.
LEMMA OverlapHas ==
  ASSUME Shapes, NEW t
  PROVE  /\ \A c \in Live : DOMAIN commits[c].base # {}
                            /\ DOMAIN commits[c].base \subseteq Overlap(t)
         /\ t # NoTransaction => DOMAIN t.files \subseteq Overlap(t)
<1>1. ASSUME NEW c \in Live
      PROVE  DOMAIN commits[c].base # {}
  BY TogetherHas DEF Shapes, CommitShape, IsBatch
<1> QED
  BY <1>1 DEF Overlap

\* A new Apply takes over when nothing else runs, and otherwise answers for nothing that
\* it shares.
LEMMA CommitSafe ==
  ASSUME Shapes, Consistent(commits, events), AllSafe, NEW p \in Pages, Commit(p)
  PROVE  AllSafe'
<1> DEFINE R == Pending(buffer, p)
           src == Start(p)
           c == Len(commits) + 1
           k == New(p)
           t == IF Own(p) THEN NoTransaction ELSE txn
           others == Overlap(t)
<1>1. /\ Joins(c, k) /\ k # Ended /\ k.page = p /\ k.txn = c /\ k.repair = 0
      /\ k.batch = Batch(p) /\ k.base = Snapshot(src, R)
      /\ src \in [Refs -> Texts] /\ source' = src
      /\ \E batch : Sends(events, c, batch, src) /\ IsBatch(batch)
      /\ txn' = [id |-> c, page |-> p, ids |-> Entries(Batch(p)), files |-> k.base]
  BY CommitFacts
<1>2. /\ R # {} /\ asked' = asked \ {p} /\ UNCHANGED <<buffer, work, count>>
      /\ expected' = Doubt(expected, (DOMAIN k.base \ Clean(src))
                             \cup IF others = {} THEN {} ELSE others \cup DOMAIN k.base)
  BY DEF Commit, New, Batch, Start
<1>3. R \subseteq Refs /\ \A q \in R : PageOf[q] = p /\ buffer[q] # None
  BY DEF Pending
<1>4. DOMAIN Batch(p) = R /\ \A q \in R : Batch(p)[q] = buffer[q]
  BY PendingShape DEF Batch
<1>5. DOMAIN k.base = Together(R) /\ \A r \in Together(R) : k.base[r] = src[r]
  BY <1>1, <1>3, SnapshotShape
<1>6. c # 0
  BY <1>1 DEF Joins
<1>7. /\ \A d \in Live : DOMAIN commits[d].base # {} /\ DOMAIN commits[d].base \subseteq others
      /\ t # NoTransaction => DOMAIN t.files \subseteq others
  BY OverlapHas
<1>8. txn' # NoTransaction /\ txn'.page = p /\ txn'.id = c /\ txn'.files = k.base
  BY <1>1, <1>6 DEF NoTransaction
<1>9. \A r : Stray(r) => Stray(r)'
  BY <1>1, <1>2, SentStrays
<1>10. \E q \in Refs : Held(q)' /\ buffer'[q].entry \in txn'.ids
  <2>1. PICK q \in R : TRUE
    BY <1>2
  <2>2. buffer[q].entry \in Entries(Batch(p))
    BY <1>3, <1>4 DEF Entries
  <2>3. Held(q)' /\ txn'.ids = Entries(Batch(p))
    BY <1>1, <1>2, <1>3, <1>8 DEF Held
  <2> QED
    BY <1>2, <1>3, <2>2, <2>3
<1>11. /\ c \notin Live /\ Live' = Live \cup {c} /\ commits'[c] = k
       /\ \A d \in Live : commits'[d] = commits[d]
  BY <1>1 DEF Joins
<1> HIDE DEF R, c, k, others
<1>12. ASSUME NEW r \in Refs, Known(r)'
       PROVE  Undoable(r)' /\ Touched(r)' /\ Accounted(r)'
  <2>1. /\ Known(r) /\ expected'[r] = expected[r]
        /\ r \in DOMAIN k.base => src[r] = expected[r] /\ others = {}
        /\ r \notin others
    <3>1. src[r] = expected[r] => r \in Clean(src)
      BY <1>1 DEF Clean
    <3>2. r \in Clean(src) => src[r] = expected[r]
      BY DEF Clean
    <3> QED
      BY <1>2, <1>12, <3>1, <3>2 DEF Known, Doubt
  <2>2. Undoable(r) /\ Touched(r) /\ Accounted(r)
    BY <2>1 DEF AllSafe, Safe
  <2>3. source'[r] = expected[r] \/ Stray(r)'
    <3>1. CASE Own(p)
      BY <1>1, <1>9, <2>1, <3>1, RecoveredSafe DEF Start, Own
    <3>2. CASE ~Own(p)
      <4>1. ~InTxn(r)
        BY <1>7, <2>1, <3>2 DEF InTxn
      <4>2. source'[r] = source[r]
        BY <1>1, <3>2 DEF Start
      <4> QED
        BY <1>9, <2>2, <4>1, <4>2 DEF Accounted, Written
    <3> QED
      BY <3>1, <3>2
  <2>4. CASE r \in DOMAIN k.base
    <3>1. Live' = {c}
      BY <1>7, <1>11, <2>1, <2>4
    <3>2. k.batch = Batch(p)
      BY <1>1
    <3>3. Alone'
      <4>1. \A d \in Live' : /\ commits'[d].txn = txn'.id /\ commits'[d].page = txn'.page
                             /\ txn'.page \notin asked'
        BY <1>1, <1>2, <1>8, <1>11, <3>1
      <4> QED
        BY <1>10, <3>1, <4>1 DEF Alone
    <3>4. InTxn(r)' /\ txn'.files[r] = expected'[r] /\ k.base[r] = expected'[r]
      BY <1>5, <1>8, <2>1, <2>4 DEF InTxn
    <3>5. r \in DOMAIN k.batch => Held(r)'
      BY <1>2, <1>3, <1>4, <1>8, <3>2 DEF Held
    <3>6. Touched(r)'
      BY <1>11, <3>1, <3>4, <3>5 DEF Touched
    <3> QED
      BY <2>1, <2>3, <3>3, <3>4, <3>6 DEF Undoable, Accounted
  <2>5. CASE r \notin DOMAIN k.base
    <3>1. ~InTxn(r)'
      BY <1>8, <2>5 DEF InTxn
    <3>2. \A d \in Live' : r \notin DOMAIN commits'[d].base
      BY <1>7, <1>11, <2>1, <2>5
    <3> QED
      BY <2>1, <2>3, <3>1, <3>2 DEF Undoable, Touched, Accounted
  <2> QED
    BY <2>4, <2>5
<1> QED
  BY <1>12 DEF AllSafe, Safe

\* "Keep fixing" goes on under the page's own transaction, or answers for nothing.
LEMMA KeepFixingSafe ==
  ASSUME Shapes, Consistent(commits, events), AllSafe, NEW p \in Pages, KeepFixing(p)
  PROVE  AllSafe'
<1> DEFINE R == Pending(buffer, p)
           all == Entries(Batch(p))
           c == Len(commits) + 1
           k == Fixing(p)
           shared == Live # {} \/ ~Own(p)
           exp == IF buffer' = buffer THEN expected ELSE Learn(Batch(p), all)
           doubted == (Together(R) \ DOMAIN txn.files)
                        \cup IF shared THEN Overlap(txn) \cup Together(R) ELSE {}
<1>1. /\ k # Ended /\ k.page = p /\ k.txn = txn.id /\ k.repair = 1
      /\ k.batch = Batch(p) /\ k.base = Snapshot(source, R)
      /\ \/ /\ Joins(c, Ended) /\ txn' = NoTransaction /\ events' = events
            /\ Verified(Batch(p), all) /\ buffer' = Drop(buffer, R)
         \/ /\ Joins(c, k) /\ UNCHANGED <<buffer, txn>>
            /\ Sends(events, c, Batch(p), source)
  BY KeepFixingFacts
<1>2. /\ R # {} /\ txn # NoTransaction /\ asked' = asked \ {p}
      /\ UNCHANGED <<source, work, count>> /\ expected' = Doubt(exp, doubted)
  BY DEF KeepFixing, Batch
<1>3. R \subseteq Refs /\ \A q \in R : PageOf[q] = p /\ buffer[q] # None
  BY DEF Pending
<1>4. \A q \in Refs : PageOf[q] = p /\ buffer[q] # None => q \in R
  BY DEF Pending
<1>5. /\ DOMAIN Batch(p) = R /\ \A q \in R : Batch(p)[q] = buffer[q]
      /\ IsBatch(Batch(p))
  BY PendingShape DEF Batch
<1>6. DOMAIN k.base = Together(R) /\ R \subseteq Together(R)
  BY <1>1, <1>3, SnapshotShape, TogetherHas DEF Shapes
<1>7. /\ \A d \in Live : DOMAIN commits[d].base \subseteq Overlap(txn)
      /\ DOMAIN txn.files \subseteq Overlap(txn)
  BY <1>2, OverlapHas
<1>8. \A r : Stray(r) => Stray(r)'
  BY <1>1, <1>2, SentStrays, StrayKept
<1>9. \A r \in Refs : /\ exp[r] # Unknown => expected[r] # Unknown
                      /\ exp[r] # Unknown /\ r \notin R => exp[r] = expected[r]
                      /\ exp[r] # Unknown /\ buffer' # buffer /\ r \in R =>
                           exp[r] = Batch(p)[r].text
  <2>1. OpsOf(Batch(p), all) = R
    BY <1>3, <1>5 DEF OpsOf, Entries, all
  <2> QED
    BY <1>5, <2>1, LearnShape
<1>10. all = Entries(Batch(p)) /\ k = Fixing(p) /\ shared = (Live # {} \/ ~Own(p))
  OBVIOUS
<1> HIDE DEF R, all, c, k, shared, exp, doubted
<1>11. ASSUME NEW r \in Refs, Known(r)'
       PROVE  /\ Known(r) /\ expected'[r] = exp[r] /\ exp[r] # Unknown /\ r \notin doubted
              /\ Undoable(r) /\ Touched(r) /\ Accounted(r)
  <2>1. r \notin doubted /\ expected'[r] = exp[r] /\ exp[r] # Unknown
    BY <1>2, <1>11 DEF Known, Doubt
  <2>2. Known(r)
    BY <1>9, <2>1 DEF Known
  <2> QED
    BY <2>1, <2>2 DEF AllSafe, Safe
<1>12. ASSUME NEW r \in Refs, r \notin doubted
       PROVE  /\ r \in Together(R) => r \in DOMAIN txn.files
              /\ shared => r \notin Overlap(txn) /\ r \notin Together(R)
  BY <1>12 DEF doubted
<1>13. CASE /\ Joins(c, Ended) /\ txn' = NoTransaction /\ events' = events
            /\ Verified(Batch(p), all) /\ buffer' = Drop(buffer, R)
  <2>1. Live' = Live /\ \A d \in Live : commits'[d] = commits[d]
    BY <1>13 DEF Joins
  <2>2. buffer' # buffer
    <3>1. PICK q \in R : TRUE
      BY <1>2
    <3>2. buffer'[q] = None /\ buffer[q] # None
      BY <1>3, <1>13 DEF Drop
    <3> QED
      BY <3>2
  <2>3. ASSUME NEW r \in R PROVE source[r] = Batch(p)[r].text
    <3>1. r \in OpsOf(Batch(p), all)
      BY <1>3, <1>5, <1>10 DEF OpsOf, Entries
    <3> QED
      BY <1>13, <3>1 DEF Verified
  <2>4. ASSUME NEW r \in Refs, Known(r)'
        PROVE  Undoable(r)' /\ Touched(r)' /\ Accounted(r)'
    <3>1. /\ Known(r) /\ expected'[r] = exp[r] /\ exp[r] # Unknown /\ r \notin doubted
          /\ Undoable(r) /\ Touched(r) /\ Accounted(r)
      BY <1>11, <2>4
    <3>2. ~InTxn(r)'
      BY <1>13 DEF InTxn
    <3>3. \A d \in Live : r \notin DOMAIN commits[d].base
      BY <1>7, <1>10, <1>12, <3>1
    <3>4. Touched(r)'
      BY <2>1, <3>3 DEF Touched
    <3>5. Accounted(r)'
      <4>1. CASE r \in R
        BY <1>2, <1>9, <2>2, <2>3, <3>1, <4>1 DEF Accounted
      <4>2. CASE r \notin R
        <5>1. expected'[r] = expected[r]
          BY <1>9, <3>1, <4>2
        <5>2. ~Written(r)
          <6>1. CASE shared
            <7>1. ~InTxn(r)
              BY <1>7, <1>12, <3>1, <6>1 DEF InTxn
            <7> QED
              BY <7>1 DEF Written
          <6>2. CASE ~shared
            <7>1. txn.page = p
              BY <1>10, <6>2 DEF Own
            <7> QED
              BY <1>4, <4>2, <7>1 DEF Written, Held
          <6> QED
            BY <6>1, <6>2
        <5> QED
          BY <1>2, <1>8, <3>1, <5>1, <5>2 DEF Accounted
      <4> QED
        BY <4>1, <4>2
    <3> QED
      BY <3>2, <3>4, <3>5 DEF Undoable
  <2> QED
    BY <2>4 DEF AllSafe, Safe
<1>14. CASE /\ Joins(c, k) /\ UNCHANGED <<buffer, txn>>
            /\ Sends(events, c, Batch(p), source)
  <2>1. /\ c \notin Live /\ Live' = Live \cup {c} /\ commits'[c] = k
        /\ \A d \in Live : commits'[d] = commits[d]
    BY <1>1, <1>14 DEF Joins
  <2>2. exp = expected
    BY <1>14 DEF exp
  <2>3. ASSUME NEW r \in Refs, Known(r)'
        PROVE  Undoable(r)' /\ Touched(r)' /\ Accounted(r)'
    <3>1. /\ Known(r) /\ expected'[r] = expected[r] /\ r \notin doubted
          /\ Undoable(r) /\ Touched(r) /\ Accounted(r)
      BY <1>11, <2>2, <2>3
    <3>2. (InTxn(r)' <=> InTxn(r)) /\ \A q : Held(q)' <=> Held(q)
      BY <1>14 DEF InTxn, Held
    <3>3. CASE shared
      <4>1. ~InTxn(r) /\ \A d \in Live' : r \notin DOMAIN commits'[d].base
        BY <1>6, <1>7, <1>12, <2>1, <3>1, <3>3 DEF InTxn
      <4>2. Accounted(r)'
        BY <1>2, <1>8, <3>1, <4>1 DEF Accounted, Written
      <4> QED
        BY <3>2, <4>1, <4>2 DEF Undoable, Touched
    <3>4. CASE ~shared
      <4>1. Live' = {c} /\ txn.page = p
        BY <1>10, <2>1, <3>4 DEF Own
      <4>2. Alone => Alone'
        <5>1. \A d \in Live' : /\ commits'[d].txn = txn'.id /\ commits'[d].page = txn'.page
                               /\ txn'.page \notin asked'
          BY <1>1, <1>2, <1>14, <2>1, <4>1
        <5> QED
          BY <1>14, <3>2, <4>1, <5>1 DEF Alone
      <4>3. Undoable(r)'
        BY <1>14, <3>1, <3>2, <4>2 DEF Undoable
      <4>4. \A q \in R : Held(q)
        BY <1>3, <4>1 DEF Held
      <4>5. k.repair # 0 /\ DOMAIN k.batch = R
        BY <1>1, <1>5
      <4>6. r \in DOMAIN k.base => InTxn(r)
        BY <1>2, <1>6, <1>12, <3>1 DEF InTxn
      <4>7. Touched(r)'
        BY <2>1, <3>2, <4>1, <4>4, <4>5, <4>6 DEF Touched
      <4>8. Written(r) => Written(r)'
        <5>1. Written(r) => r \in R
          BY <1>4, <4>1 DEF Written, Held
        <5> QED
          BY <2>1, <3>2, <4>1, <4>5, <5>1 DEF Written
      <4>9. Accounted(r)'
        BY <1>2, <1>8, <3>1, <4>8 DEF Accounted
      <4> QED
        BY <4>3, <4>7, <4>9
    <3> QED
      BY <3>3, <3>4
  <2> QED
    BY <2>3 DEF AllSafe, Safe
<1> QED
  BY <1>1, <1>13, <1>14

\* An outcome leaves the source and what is expected of it in accord.
LEMMA OutcomeSafe ==
  ASSUME Shapes, Consistent(commits, events), AllSafe, NEW c \in Live, NEW evs, IsList(evs),
         Outcome(c, evs), \A r : Stray(r) => Stray(r)'
  PROVE  AllSafe'
<1> DEFINE k == commits[c]
<1>1. /\ CommitShape(k) /\ source \in [Refs -> Texts]
      /\ DOMAIN k.batch \subseteq DOMAIN k.base
  <2>1. CommitShape(k) /\ source \in [Refs -> Texts]
    BY DEF Shapes
  <2> QED
    BY <2>1, TogetherHas DEF CommitShape, IsBatch
<1>2. ASSUME NEW r \in Refs, Known(r)
      PROVE  /\ Undoable(r) /\ Touched(r) /\ Accounted(r)
             /\ r \in DOMAIN k.base => InTxn(r)
             /\ InTxn(r) => Alone /\ Live = {c} /\ k.txn = txn.id
  <2>1. Undoable(r) /\ Touched(r) /\ Accounted(r)
    BY <1>2 DEF AllSafe, Safe
  <2> QED
    BY <2>1 DEF Undoable, Touched, Alone
<1>3. ASSUME Ends(c), txn' = IF txn.id = k.txn THEN NoTransaction ELSE txn,
             NEW r \in Refs, Known(r),
             source'[r] = expected'[r] \/ (source'[r] = source[r] /\ Stray(r))
      PROVE  Undoable(r)' /\ Touched(r)' /\ Accounted(r)'
  <2>1. InTxn(r) => txn' = NoTransaction
    BY <1>2, <1>3
  <2>2. ~InTxn(r)'
    BY <1>3, <2>1 DEF InTxn
  <2>3. \A d \in Live' : /\ d \in Live /\ commits'[d] = commits[d]
                         /\ r \notin DOMAIN commits[d].base
    <3>1. ASSUME NEW d \in Live' PROVE d \in Live /\ d # c /\ commits'[d] = commits[d]
      BY <1>3 DEF Ends
    <3>2. ASSUME NEW d \in Live', r \in DOMAIN commits[d].base PROVE FALSE
      <4>1. InTxn(r)
        BY <1>2, <1>3, <3>1, <3>2 DEF Touched
      <4> QED
        BY <1>2, <1>3, <3>1, <4>1
    <3> QED
      BY <3>1, <3>2
  <2>4. Touched(r)'
    BY <2>3 DEF Touched
  <2> QED
    BY <1>3, <2>2, <2>4 DEF Undoable, Accounted
<1>4. CASE k.repair = 0 /\ RollBack(c, evs)
  <2>1. /\ source' = Restore(source, k.base) /\ expected' = expected
        /\ txn' = IF txn.id = k.txn THEN NoTransaction ELSE txn
        /\ commits' = [commits EXCEPT ![c] = Ended]
    BY <1>4 DEF RollBack, Finish
  <2>2. Ends(c)
    BY <2>1, EndedEnds
  <2>3. ASSUME NEW r \in Refs, Known(r)'
        PROVE  Undoable(r)' /\ Touched(r)' /\ Accounted(r)'
    <3>1. Known(r)
      BY <2>1, <2>3 DEF Known
    <3>2. CASE r \in DOMAIN k.base
      <4>1. k.base[r] = expected[r]
        BY <1>2, <1>4, <3>1, <3>2 DEF Touched
      <4>2. source'[r] = k.base[r]
        BY <1>1, <2>1, <3>2, RestoreShape
      <4> QED
        BY <1>3, <2>1, <2>2, <3>1, <4>1, <4>2
    <3>3. CASE r \notin DOMAIN k.base
      <4>1. source'[r] = source[r]
        BY <1>1, <2>1, <3>3, RestoreShape
      <4>2. ~Written(r)
        BY <1>1, <3>3 DEF Written
      <4>3. source[r] = expected[r] \/ Stray(r)
        BY <1>2, <3>1, <4>2 DEF Accounted
      <4> QED
        BY <1>3, <2>1, <2>2, <3>1, <4>1, <4>3
    <3> QED
      BY <3>2, <3>3
  <2> QED
    BY <2>3 DEF AllSafe, Safe
<1>5. CASE NeedDecision(c, evs)
  <2>1. /\ UNCHANGED <<source, buffer, txn, expected>>
        /\ commits' = [commits EXCEPT ![c] = Ended]
    BY <1>5 DEF NeedDecision
  <2>2. Ends(c)
    BY <2>1, EndedEnds
  <2>3. ASSUME NEW r \in Refs, Known(r)'
        PROVE  Undoable(r)' /\ Touched(r)' /\ Accounted(r)'
    <3>1. Known(r) /\ (InTxn(r)' <=> InTxn(r)) /\ \A q : Held(q)' <=> Held(q)
      BY <2>1, <2>3 DEF Known, InTxn, Held
    <3>2. InTxn(r) => Live' = {}
      BY <1>2, <2>2, <3>1 DEF Ends
    <3>3. Undoable(r)'
      <4>1. InTxn(r) => Alone'
        BY <1>2, <2>1, <3>1, <3>2 DEF Alone
      <4> QED
        BY <1>2, <2>1, <3>1, <4>1 DEF Undoable
    <3>4. Touched(r)'
      BY <1>2, <2>1, <2>2, <3>1 DEF Touched, Ends
    <3>5. Accounted(r)'
      BY <1>2, <2>1, <3>1, <3>2 DEF Accounted, Written
    <3> QED
      BY <3>3, <3>4, <3>5
  <2> QED
    BY <2>3 DEF AllSafe, Safe
<1>6. ASSUME NEW ids \in SUBSET Entries(k.batch), Verified(k.batch, ids),
             Clear(c, ids, evs), k.repair = 0 => ~Leaked(c, ids)
      PROVE  AllSafe'
  <2> DEFINE ops == OpsOf(k.batch, ids)
             doubted == IF k.repair = 0 THEN {} ELSE (DOMAIN k.batch \ ops) \ Clean(source)
  <2>1. /\ source' = source /\ expected' = Doubt(Learn(k.batch, ids), doubted)
        /\ txn' = IF txn.id = k.txn THEN NoTransaction ELSE txn
        /\ commits' = [commits EXCEPT ![c] = Ended]
    BY <1>6 DEF Clear, Finish
  <2>2. Ends(c)
    BY <2>1, EndedEnds
  <2>3. \A r \in Refs : expected[r] = Unknown => Learn(k.batch, ids)[r] = Unknown
    BY <1>1, LearnShape DEF CommitShape
  <2>4. \A r \in Refs : expected[r] # Unknown =>
          Learn(k.batch, ids)[r] = IF r \in ops THEN k.batch[r].text ELSE expected[r]
    BY <1>1, LearnShape DEF CommitShape
  <2>5. ops \subseteq DOMAIN k.batch /\ \A r \in ops : source[r] = k.batch[r].text
    BY <1>6 DEF Verified, OpsOf
  <2> HIDE DEF ops
  <2>6. ASSUME NEW r \in Refs, Known(r)'
        PROVE  Undoable(r)' /\ Touched(r)' /\ Accounted(r)'
    <3>1. r \notin doubted /\ expected'[r] = Learn(k.batch, ids)[r]
      BY <2>1, <2>6 DEF Known, Doubt
    <3>2. Known(r)
      BY <2>3, <2>6, <3>1 DEF Known
    <3>3. expected'[r] = IF r \in ops THEN k.batch[r].text ELSE expected[r]
      BY <2>4, <3>1, <3>2 DEF Known
    <3>4. CASE r \in ops
      BY <1>3, <2>1, <2>2, <2>5, <3>2, <3>3, <3>4
    <3>5. CASE r \notin ops
      <4>1. ASSUME source[r] # expected[r], ~Stray(r) PROVE FALSE
        <5>1. Written(r)
          BY <1>2, <3>2, <4>1 DEF Accounted
        <5>2. /\ r \in DOMAIN k.batch
              /\ k.repair = 0 => source[r] = k.batch[r].text
          BY <5>1 DEF Written
        <5>3. CASE k.repair = 0
          <6>1. k.base[r] = expected[r]
            BY <1>1, <1>2, <3>2, <5>2, <5>3 DEF Touched
          <6>2. Leaked(c, ids)
            BY <3>5, <4>1, <5>2, <5>3, <6>1 DEF Leaked, ops
          <6> QED
            BY <1>6, <5>3, <6>2
        <5>4. CASE k.repair # 0
          <6>1. r \in Clean(source)
            BY <3>1, <3>5, <5>2, <5>4
          <6> QED
            BY <4>1, <6>1 DEF Clean
        <5> QED
          BY <5>3, <5>4
      <4> QED
        BY <1>3, <2>1, <2>2, <3>2, <3>3, <3>5, <4>1
    <3> QED
      BY <3>4, <3>5
  <2> QED
    BY <2>6 DEF AllSafe, Safe
<1>7. ASSUME Goes(c), UNCHANGED <<source, buffer, txn, asked, expected>>
      PROVE  AllSafe'
  <2>1. /\ Live' = Live
        /\ \A d \in Live : d # c => commits'[d] = commits[d]
    BY <1>7 DEF Goes
  <2>2. \A f \in {"page", "batch", "base", "txn", "several"} : commits'[c][f] = k[f]
    BY <1>7 DEF Goes
  <2>3. commits'[c].repair = k.repair \/ commits'[c].repair = k.repair + 1
    BY <1>7 DEF Goes
  <2>4. /\ commits'[c].page = k.page /\ commits'[c].batch = k.batch
        /\ commits'[c].base = k.base /\ commits'[c].txn = k.txn
    BY <2>2
  <2>5. commits'[c].repair = 0 => k.repair = 0
    BY <1>1, <2>3, ManualEditsAssumption DEF CommitShape
  <2>6. \A d \in Live : /\ commits'[d].page = commits[d].page
                        /\ commits'[d].batch = commits[d].batch
                        /\ commits'[d].base = commits[d].base
                        /\ commits'[d].txn = commits[d].txn
                        /\ commits'[d].repair = 0 => commits[d].repair = 0
    BY <2>1, <2>4, <2>5
  <2>7. ASSUME NEW r \in Refs
        PROVE  /\ (InTxn(r)' <=> InTxn(r)) /\ (Known(r)' <=> Known(r))
               /\ Held(r)' <=> Held(r)
    BY <1>7 DEF InTxn, Known, Held
  <2>8. Alone => Alone'
    BY <1>7, <2>1, <2>6, <2>7 DEF Alone
  <2>9. ASSUME NEW r \in Refs, Known(r)'
        PROVE  Undoable(r)' /\ Touched(r)' /\ Accounted(r)'
    <3>1. Undoable(r) /\ Touched(r) /\ Accounted(r)
      BY <1>2, <2>7, <2>9
    <3>2. Undoable(r)'
      BY <1>7, <2>7, <2>8, <3>1 DEF Undoable
    <3>3. Touched(r)'
      BY <1>7, <2>1, <2>6, <2>7, <3>1 DEF Touched
    <3>4. Written(r) => Written(r)'
      BY <1>7, <2>1, <2>6, <2>7 DEF Written
    <3>5. Accounted(r)'
      BY <1>7, <3>1, <3>4 DEF Accounted
    <3> QED
      BY <3>2, <3>3, <3>5
  <2> QED
    BY <2>9 DEF AllSafe, Safe
<1>8. \/ k.repair = 0 /\ RollBack(c, evs)
      \/ NeedDecision(c, evs)
      \/ \E ids \in SUBSET Entries(k.batch) :
           /\ Verified(k.batch, ids) /\ Clear(c, ids, evs)
           /\ k.repair = 0 => ~Leaked(c, ids)
      \/ Goes(c) /\ UNCHANGED <<source, buffer, txn, asked, expected>>
  <2>1. ASSUME NEW ids \in SUBSET Entries(k.batch), Retried(c, ids, evs)
        PROVE  Goes(c) /\ UNCHANGED <<source, buffer, txn, asked, expected>>
    <3>1. /\ ids \subseteq Entries(k.batch) /\ k.repair < MaxRepairs
          /\ commits' = Repairing(c, ids)
          /\ UNCHANGED <<source, buffer, txn, asked, expected>>
      BY <2>1 DEF Retried
    <3> QED
      BY <3>1, GoingGoes
  <2>2. ASSUME NEW ops, NEW files, NEW next, Continued(c, ops, files, next, evs)
        PROVE  Goes(c) /\ UNCHANGED <<source, buffer, txn, asked, expected>>
    BY <2>2, GoingGoes DEF Continued
  <2> QED
    BY <2>1, <2>2 DEF Outcome
<1> QED
  BY <1>4, <1>5, <1>6, <1>7, <1>8

\* Every step keeps what is known safe.
LEMMA StepSafe ==
  ASSUME Shapes, Consistent(commits, events), Waited, AllSafe, [Next]_vars
  PROVE  AllSafe'
<1>1. CASE UNCHANGED vars
  <2>1. /\ UNCHANGED <<source, buffer, txn, commits, asked, expected>>
        /\ \A r : Stray(r) => Stray(r)'
    BY <1>1 DEF vars, Stray
  <2> QED
    BY <2>1, QuietSafe
<1>2. CASE SavePage
  BY <1>2, SaveSafe DEF SavePage
<1>3. CASE AskCommit \/ AskRepair \/ AskRollback \/ AskDiscard
  BY <1>3, CommitSafe, KeepFixingSafe, RollbackDecisionSafe, DiscardSafe
     DEF AskCommit, AskRepair, AskRollback, AskDiscard
<1>4. CASE Restart
  BY <1>4, RestartSafe
<1>5. ASSUME NEW e \in DOMAIN events,
             \/ Timeout(e) \/ LateReply(e) \/ Abandon(e) \/ Fetch(e)
             \/ \E r \in Refs : AgentWrite(e, r)
      PROVE  AllSafe'
  BY <1>5, EventStepSafe
<1>6. ASSUME NEW e \in DOMAIN events, Reply(e) \/ Rejected(e)
      PROVE  AllSafe'
  <2>1. Active(events[e]) /\ (work' = work \/ work' = work \ {e})
    BY <1>6 DEF Reply, Rejected, Open, Active
  <2>2. events[e].commit \in Live
    BY <2>1, ActiveRuns
  <2>3. \E v : Outcome(events[e].commit, [events EXCEPT ![e] = v])
    BY <1>6, ReplyOutcome, RejectedOutcome
  <2>4. PICK v : Outcome(events[e].commit, [events EXCEPT ![e] = v])
    BY <2>3
  <2> DEFINE evs == [events EXCEPT ![e] = v]
             c == events[e].commit
  <2>5. Closes(evs, e, v) /\ Outcome(c, evs)
    BY <2>4, ClosedCloses
  <2> HIDE DEF evs, c
  <2>6. c \in Live /\ IsList(evs)
    BY <2>2, <2>5 DEF c, Closes
  <2>7. Answered(c, evs)
    BY <2>5, <2>6, OutcomeAnswers
  <2>8. \A r : Stray(r) => Stray(r)'
    <3>1. events' = evs \/ \E batch, src : Sends(evs, c, batch, src)
      BY <2>7 DEF Answered
    <3> QED
      BY <2>1, <2>5, <3>1, AnsweredStrays
  <2> QED
    BY <2>5, <2>6, <2>8, OutcomeSafe
<1>7. CASE Server
  BY <1>5, <1>6, <1>7 DEF Server
<1>8. CASE Agent
  BY <1>5, <1>6, <1>8 DEF Agent
<1> QED
  BY <1>1, <1>2, <1>3, <1>4, <1>7, <1>8 DEF Next

\* When nobody is about to change an element, the source shows of it the edit that was
\* last cleared as applied, and no other: however many commits, tabs, chunks, repairs,
\* timeouts, late replies and restarts there were.
THEOREM AppliesAreAllOrNothing == Spec => []AllOrNothing
<1> DEFINE I == /\ Consistent(commits, events) /\ Shapes
                /\ Waited /\ AllSafe
<1>1. Init => I
  <2>1. Init => Live = {} /\ txn = NoTransaction /\ \A r \in Refs : source[r] = expected[r]
    BY DEF Init, Live
  <2>2. Init => Waited /\ AllSafe
    BY <2>1 DEF Waited, AllSafe, Safe, Undoable, Touched, Accounted, InTxn
  <2> QED
    BY <2>2, InitConsistent, InitShapes
<1>2. I /\ [Next]_vars => I'
  BY StepConsistent, StepShapes, StepWaited, StepSafe
<1>3. I => AllOrNothing
  <2>1. ASSUME AllSafe, NEW r \in Refs, Settled(r), Known(r)
        PROVE  source[r] = expected[r]
    <3>1. ~InTxn(r) /\ ~Stray(r)
      BY <2>1 DEF Settled, InTxn, Stray
    <3> QED
      BY <2>1, <3>1 DEF AllSafe, Safe, Accounted, Written
  <2> QED
    BY <2>1 DEF AllOrNothing, Known
<1> QED
  BY <1>1, <1>2, <1>3, PTL DEF Spec
=============================================================================
