----------------------------- MODULE ManualEdits -----------------------------
(* Copy edits of the live editing tool in .agents/skills/impeccable: a save    *)
(* in the browser stages an edit in a buffer on disk; Apply sends the staged   *)
(* edits of a page, in chunks, to the coding agent, which writes the source    *)
(* files and replies; the server judges the reply, repairs or rolls the files  *)
(* back, and drops what was applied from the buffer.  The agent may be slow,   *)
(* wrong or gone, the server may restart, and several tabs may ask for things  *)
(* at a time.  A text is the number of the save that made it, 0 the original;  *)
(* a snapshot of files is a function from the elements whose text they hold.   *)
EXTENDS Naturals, Sequences, FiniteSets, SequencesExt

CONSTANTS
  Refs,         \* editable elements
  Pages, PageOf,
  Files, FileOf,
  ChunkSize,    \* edits sent to the agent in one event
  Agents,       \* events the agents can work on at a time
  MaxRepairs,   \* repair attempts after a failed validation
  MaxCommits,   \* bound on the commits
  MaxEvents     \* bound on the saves and the restarts, in all

ASSUME ManualEditsAssumption ==
  /\ IsFiniteSet(Refs) /\ PageOf \in [Refs -> Pages] /\ FileOf \in [Refs -> Files]
  /\ ChunkSize \in Nat \ {0} /\ Agents \in Nat \ {0} /\ MaxRepairs \in Nat \ {0}
  /\ MaxCommits \in Nat /\ MaxEvents \in Nat

VARIABLES
  source,    \* the text of each element in the source files
  buffer,    \* pending-manual-edits.json
  txn,       \* manual-edit-apply-transaction.json
  commits,   \* the commits started so far
  events,    \* the apply events dispatched so far
  work,      \* the events the agent has fetched and not answered
  asked,     \* the pages whose user is shown "Keep fixing" and "Rollback"
  count,     \* the saves and the restarts so far
  expected   \* history: the text that was last cleared as applied, Unknown once
             \* something that no Apply answers for has touched the element

vars == <<source, buffer, txn, commits, events, work, asked, count, expected>>

Unknown == MaxEvents + 1
None == [entry |-> 0, text |-> 0]
NoTransaction == [id |-> 0]
Ended == [at |-> "ended"]
Gone == [state |-> "gone"]

Init ==
  /\ source = [r \in Refs |-> 0] /\ expected = [r \in Refs |-> 0]
  /\ buffer = [r \in Refs |-> None]
  /\ txn = NoTransaction
  /\ commits = <<>> /\ events = <<>> /\ work = {}
  /\ asked = {}
  /\ count = 0

-----------------------------------------------------------------------------
(* Files, entries and chunks.                                                 *)

Together(R) == {r \in Refs : \E q \in R : FileOf[q] = FileOf[r]}
Snapshot(src, R) == [r \in Together(R) |-> src[r]]
Restore(src, snap) == [r \in Refs |-> IF r \in DOMAIN snap THEN snap[r] ELSE src[r]]
FilesOf(R) == {FileOf[r] : r \in R}

Pending(buf, p) == {r \in Refs : PageOf[r] = p /\ buf[r] # None}
Entries(buf) == {buf[r].entry : r \in {q \in DOMAIN buf : buf[q] # None}}
OpsOf(batch, ids) == {r \in DOMAIN batch : batch[r].entry \in ids}
Drop(buf, R) == [r \in Refs |-> IF r \in R THEN None ELSE buf[r]]

\* Entries in the order they were made; an entry is cut only if it is too long.
Fill(batch, chunks, r) ==
  LET ops == OpsOf(batch, {batch[r].entry})
      first == \A i \in 1 .. Len(chunks) : chunks[i] \cap ops = {}
      room == IF first THEN Cardinality(ops) ELSE 1
      cur == Last(chunks)
  IN  IF cur # {} /\ Cardinality(cur) + room > ChunkSize
        THEN Append(chunks, {r})
        ELSE [chunks EXCEPT ![Len(chunks)] = @ \cup {r}]
Chunks(batch) ==
  LET order == CHOOSE s \in SetToSeqs(DOMAIN batch) :
                 \A i, j \in DOMAIN s :
                   i < j => batch[s[i]].entry <= batch[s[j]].entry
  IN  IF Cardinality(DOMAIN batch) <= ChunkSize THEN <<DOMAIN batch>>
        ELSE FoldLeft(LAMBDA chunks, r : Fill(batch, chunks, r), <<{}>>, order)

\* What is expected after the entries ids of a batch were cleared.
Learn(batch, ids) ==
  [r \in Refs |-> IF r \in OpsOf(batch, ids) /\ expected[r] # Unknown
                    THEN batch[r].text ELSE expected[r]]
Doubt(exp, R) == [r \in Refs |-> IF r \in R THEN Unknown ELSE exp[r]]
Clean(src) == {r \in DOMAIN src : src[r] = expected[r]}

Live == {c \in DOMAIN commits : commits[c] # Ended}
Open(e) == events[e].state = "open"
\* A rejected promise continues before any other handler runs.
Calm == \A e \in DOMAIN events : events[e].state # "rejected"

\* The place of an event that is over is used again.
Dispatch(evs, c, batch, src) ==
  LET new == [state |-> "open", commit |-> c, batch |-> batch,
              snap |-> Snapshot(src, DOMAIN batch)]
      free == {e \in DOMAIN evs : evs[e] = Gone}
  IN  IF free = {} THEN Append(evs, new) ELSE [evs EXCEPT ![CHOOSE e \in free : TRUE] = new]
Part(batch, R) == [r \in R |-> batch[r]]
ChunkOf(batch, R) == Part(batch, R \cap DOMAIN batch)

\* rollbackTransaction: nothing is restored when no entry of it is pending.
Recovered(buf, src) ==
  IF txn.ids \cap Entries(buf) # {} THEN Restore(src, txn.files) ELSE src
Own(p) == txn # NoTransaction /\ txn.page = p

-----------------------------------------------------------------------------
(* The end of a commit, and what leads to it.                                  *)

\* Mutant: the transaction file is left behind.
FinishQuietly(c) == commits' = [commits EXCEPT ![c] = Ended] /\ UNCHANGED txn

Finish(c) ==
  /\ commits' = [commits EXCEPT ![c] = Ended]
  /\ txn' = IF txn.id = commits[c].txn THEN NoTransaction ELSE txn

RollBack(c, evs) ==
  /\ source' = Restore(source, commits[c].base)
  /\ events' = evs
  /\ Finish(c)
  /\ UNCHANGED <<buffer, asked, expected>>

\* clearAppliedEntries drops an entry by its id, whatever it holds by now.
Clear(c, ids, evs) ==
  LET batch == commits[c].batch
      left == DOMAIN batch \ OpsOf(batch, ids)
  IN  /\ buffer' = Drop(buffer, {r \in Refs : buffer[r].entry \in ids})
      /\ expected' =
           Doubt(Learn(batch, ids),
                 IF commits[c].repair = 0 THEN {} ELSE left \ Clean(source))
      /\ events' = evs
      /\ Finish(c)
      /\ UNCHANGED <<source, asked>>

NeedDecision(c, evs) ==
  /\ commits' = [commits EXCEPT ![c] = Ended]
  /\ asked' = asked \cup {commits[c].page}
  /\ events' = evs
  /\ UNCHANGED <<source, buffer, txn, expected>>

\* Mutant: the attempts are not counted to the limit but one over it.
RepairOnceMore(c, ids, evs) ==
  IF commits[c].repair <= MaxRepairs
    THEN /\ commits' = [commits EXCEPT ![c].repair = @ + 1, ![c].ids = ids]
         /\ events' = Dispatch(evs, c, commits[c].batch, source)
         /\ UNCHANGED <<source, buffer, txn, asked, expected>>
    ELSE NeedDecision(c, evs)

\* One more attempt of repairPostApplyValidation, or the user's decision.
Repair(c, ids, evs) ==
  IF commits[c].repair < MaxRepairs
    THEN /\ commits' = [commits EXCEPT ![c].repair = @ + 1, ![c].ids = ids]
         /\ events' = Dispatch(evs, c, commits[c].batch, source)
         /\ UNCHANGED <<source, buffer, txn, asked, expected>>
    ELSE NeedDecision(c, evs)

\* Mutant: one edit of an entry is enough.
VerifiedByOne(batch, ids) ==
  \A i \in ids : \E r \in OpsOf(batch, {i}) : source[r] = batch[r].text

Verified(batch, ids) == \A r \in OpsOf(batch, ids) : source[r] = batch[r].text

\* commitManualEdits on the result of the agent.  The post-apply checks of what
\* was verified may fail.
Judge(c, result, evs) ==
  LET batch == commits[c].batch
      base == commits[c].base
      ids == result.ids
      changed == {FileOf[r] : r \in {q \in DOMAIN base : source[q] # base[q]}}
      leaked == \E r \in DOMAIN batch \ OpsOf(batch, ids) :
                  source[r] = batch[r].text /\ base[r] # batch[r].text
      all == Entries(batch)
      refused == \/ result.status = "error"
                 \/ ids \cap result.failed # {}
                 \/ ~ changed \subseteq result.files
                 \/ result.status = "done" /\ ids = {}
  IN  CASE refused -> RollBack(c, evs)
        [] ~refused /\ ids # {} /\ result.files = {} -> Repair(c, ids, evs)
        [] ~refused /\ ~(ids # {} /\ result.files = {}) ->
             CASE leaked -> RollBack(c, evs)
               [] ~leaked /\ ~Verified(batch, ids) -> Repair(c, ids, evs)
               [] OTHER -> \/ Clear(c, ids, evs)
                           \/ Repair(c, IF ids = {} THEN all ELSE ids, evs)

\* What pushBatchInChunksAndWait returns when it has worked in several chunks.
Merged(c, ops, files) ==
  LET batch == commits[c].batch
      ids == {i \in Entries(batch) : OpsOf(batch, {i}) \subseteq ops}
      failed == Entries(batch) \ ids
  IN  [status |-> CASE failed = {} -> "done"
                    [] failed # {} /\ ids # {} -> "partial"
                    [] OTHER -> "error",
       ids |-> ids, failed |-> failed, files |-> files]

-----------------------------------------------------------------------------
(* The agent's answer and its absence.                                         *)

ChunkDone(c, e, result, evs) ==
  LET k == commits[c]
      ops == k.ops \cup OpsOf(events[e].batch, result.ids \ result.failed)
      files == k.files \cup result.files
      next == ChunkOf(k.batch, Head(k.chunks))
  IN  IF result.status # "error" /\ k.chunks # <<>>
        THEN /\ commits' = [commits EXCEPT ![c].ops = ops, ![c].files = files,
                                           ![c].chunks = Tail(@)]
             /\ events' = Dispatch(evs, c, next, source)
             /\ UNCHANGED <<source, buffer, txn, asked, expected>>
        ELSE Judge(c, Merged(c, ops, files), evs)

RepairDone(c, result, evs) ==
  LET ids == commits[c].ids \cup result.ids
  IN  \/ Verified(commits[c].batch, ids) /\ Clear(c, ids, evs)
      \/ Repair(c, ids, evs)

\* validateManualApplyResultMessage; what it refuses is answered 400.
Valid(e, result) ==
  /\ result.ids \cup result.failed \subseteq Entries(events[e].batch)
  /\ result.status = "done" => result.failed = {} /\ result.ids # {}
  /\ result.status = "partial" => result.ids \cup result.failed # {}
  /\ result.status = "error" => result.ids = {}
Results(e) ==
  {result \in [status : {"done", "partial", "error"},
               ids : SUBSET Entries(events[e].batch),
               failed : SUBSET Entries(events[e].batch),
               files : SUBSET FilesOf(DOMAIN events[e].batch)] : Valid(e, result)}

Reply(e) ==
  /\ Calm /\ e \in work /\ Open(e)
  /\ work' = work \ {e}
  /\ LET c == events[e].commit
         evs == [events EXCEPT ![e] = Gone]
     IN  \E result \in Results(e) :
           CASE commits[c].repair > 0 -> RepairDone(c, result, evs)
             [] commits[c].repair = 0 /\ commits[c].several ->
                  ChunkDone(c, e, result, evs)
             [] OTHER -> Judge(c, result, evs)
  /\ UNCHANGED count

\* Mutant: only the tombstone is made, and the waiting promise forgotten.
TimeoutForgets(e) ==
  /\ Calm /\ Open(e)
  /\ events' = [events EXCEPT ![e].state = "late"]
  /\ UNCHANGED <<source, buffer, txn, commits, work, asked, count, expected>>

Timeout(e) ==
  /\ Calm /\ Open(e)
  /\ events' = [events EXCEPT ![e].state = "rejected"]
  /\ UNCHANGED <<source, buffer, txn, commits, work, asked, count, expected>>

\* The commit goes on after its event was rejected; the event leaves a tombstone.
Rejected(e) ==
  /\ events[e].state = "rejected"
  /\ LET c == events[e].commit
         k == commits[c]
         evs == [events EXCEPT ![e] = IF e \in work THEN [@ EXCEPT !.state = "late"]
                                                    ELSE Gone]
     IN  CASE k.repair > 0 -> Repair(c, k.ids, evs)
           [] k.repair = 0 /\ k.several ->
                Judge(c, Merged(c, k.ops, k.files), evs)
           [] OTHER -> RollBack(c, evs)
  /\ UNCHANGED <<work, count>>

\* Mutant: a late reply is acknowledged and nothing is undone.
LateReplyTaken(e) ==
  /\ Calm /\ e \in work /\ events[e].state = "late"
  /\ work' = work \ {e}
  /\ events' = [events EXCEPT ![e] = Gone]
  /\ UNCHANGED <<source, buffer, txn, commits, asked, count, expected>>

\* The tombstone's snapshot undoes what the late agent has written.
LateReply(e) ==
  /\ Calm /\ e \in work /\ events[e].state = "late"
  /\ work' = work \ {e}
  /\ events' = [events EXCEPT ![e] = Gone]
  /\ source' = Restore(source, events[e].snap)
  /\ LET snap == events[e].snap
     IN  expected' = Doubt(expected, DOMAIN snap \ Clean(snap))
  /\ UNCHANGED <<buffer, txn, commits, asked, count>>

\* The agent stops without a reply, or its reply meets a server that never heard
\* of the id: what it has written since the event was closed stays.
Abandon(e) ==
  /\ Calm /\ e \in work /\ ~Open(e)
  /\ work' = work \ {e}
  /\ events' = [events EXCEPT ![e] = Gone]
  /\ expected' = Doubt(expected, DOMAIN events[e].batch \ Clean(source))
  /\ UNCHANGED <<source, buffer, txn, commits, asked, count>>

Fetch(e) ==
  /\ Calm /\ Open(e) /\ e \notin work /\ Cardinality(work) < Agents
  /\ work' = work \cup {e}
  /\ UNCHANGED <<source, buffer, txn, commits, events, asked, count, expected>>

AgentWrite(e, r) ==
  /\ Calm /\ e \in work /\ r \in DOMAIN events[e].batch
  /\ source[r] # events[e].batch[r].text
  /\ source' = [source EXCEPT ![r] = events[e].batch[r].text]
  /\ UNCHANGED <<buffer, txn, commits, events, work, asked, count, expected>>

-----------------------------------------------------------------------------
(* The browser's requests and the server's restart.                            *)

Save(R) ==
  /\ Calm /\ count < MaxEvents
  /\ count' = count + 1
  /\ buffer' = [r \in Refs |->
       IF r \notin R THEN buffer[r]
         ELSE [entry |-> IF buffer[r] = None THEN count' ELSE buffer[r].entry,
               text |-> count']]
  /\ UNCHANGED <<source, txn, commits, events, work, asked, expected>>

NewCommit(p, batch, src, id) ==
  [at |-> "apply", page |-> p, batch |-> batch,
   base |-> Snapshot(src, DOMAIN batch), txn |-> id,
   several |-> Cardinality(DOMAIN batch) > ChunkSize, chunks |-> Tail(Chunks(batch)),
   ops |-> {}, files |-> {}, repair |-> 0, ids |-> {}]

\* Two commits at a time share the one transaction file, and maybe files.
Overlap(t) ==
  (UNION {DOMAIN commits[c].base : c \in Live})
  \cup IF t = NoTransaction THEN {} ELSE DOMAIN t.files

Commit(p) ==
  LET R == Pending(buffer, p)
      batch == Part(buffer, R)
      src == IF Own(p) THEN Recovered(buffer, source) ELSE source
      c == Len(commits) + 1
      new == NewCommit(p, batch, src, c)
      others == Overlap(IF Own(p) THEN NoTransaction ELSE txn)
  IN  /\ Calm /\ R # {} /\ c <= MaxCommits
      /\ source' = src
      /\ txn' = [id |-> c, page |-> p, ids |-> Entries(batch), files |-> new.base]
      /\ commits' = Append(commits, new)
      /\ events' = Dispatch(events, c, ChunkOf(batch, Head(Chunks(batch))), src)
      /\ asked' = asked \ {p}
      /\ expected' =
           Doubt(expected, (DOMAIN new.base \ Clean(src))
                   \cup IF others = {} THEN {} ELSE others \cup DOMAIN new.base)
      /\ UNCHANGED <<buffer, work, count>>

\* "Keep fixing": the page's edits are judged as if the agent claimed them all,
\* under the transaction there is, whichever page it was made for.
KeepFixing(p) ==
  LET R == Pending(buffer, p)
      batch == Part(buffer, R)
      all == Entries(batch)
      c == Len(commits) + 1
      new == [NewCommit(p, batch, source, txn.id) EXCEPT !.repair = 1, !.ids = all]
  IN  /\ Calm /\ p \in asked /\ R # {} /\ c <= MaxCommits
      /\ txn # NoTransaction
      /\ \/ /\ Verified(batch, all)
            /\ buffer' = Drop(buffer, R)
            /\ commits' = Append(commits, Ended)
            /\ txn' = NoTransaction
            /\ UNCHANGED events
         \/ /\ commits' = Append(commits, new)
            /\ events' = Dispatch(events, c, batch, source)
            /\ UNCHANGED <<buffer, txn>>
      /\ asked' = asked \ {p}
      /\ expected' =
           Doubt(IF buffer' = buffer THEN expected ELSE Learn(batch, all),
                 (Together(R) \ DOMAIN txn.files)
                   \cup IF Live # {} \/ ~Own(p) THEN Overlap(txn) \cup Together(R)
                                              ELSE {})
      /\ UNCHANGED <<source, work, count>>

\* "Rollback": the buttons stay, so it may be asked again.
RollbackDecision(p) ==
  /\ Calm /\ p \in asked /\ Own(p)
  /\ source' = Recovered(buffer, source)
  /\ txn' = NoTransaction
  /\ UNCHANGED <<buffer, commits, events, work, asked, count, expected>>

\* The page's pending apply events are restored one after the other in the order in
\* which they were sent, which their places do not tell: the last one stays.
Discard(p) ==
  LET R == Pending(buffer, p)
      mine == {e \in DOMAIN events : Open(e) /\ commits[events[e].commit].page = p}
      src == IF Own(p) THEN Recovered(buffer, source) ELSE source
      covering(r) == {e \in mine : r \in DOMAIN events[e].snap}
  IN  /\ Calm /\ R # {}
      /\ \E sent \in Bijection(mine, 1 .. Cardinality(mine)) :
           LET last(r) == CHOOSE e \in covering(r) :
                            \A d \in covering(r) : sent[d] <= sent[e]
           IN  source' = [r \in Refs |-> IF covering(r) = {} THEN src[r]
                                          ELSE events[last(r)].snap[r]]
      /\ buffer' = Drop(buffer, R)
      /\ txn' = IF Own(p) THEN NoTransaction ELSE txn
      /\ events' = [e \in DOMAIN events |->
                      IF e \in mine THEN [events[e] EXCEPT !.state = "rejected"]
                                    ELSE events[e]]
      /\ expected' = Doubt(expected, UNION {DOMAIN commits[events[e].commit].base :
                                               e \in mine})
      /\ UNCHANGED <<commits, work, asked, count>>

\* The server dies with its commits and tombstones; the next one recovers.
Restart ==
  /\ Calm /\ count < MaxEvents
  /\ count' = count + 1
  /\ source' = IF txn = NoTransaction THEN source ELSE Recovered(buffer, source)
  /\ txn' = NoTransaction
  /\ commits' = [c \in DOMAIN commits |-> Ended]
  /\ events' = [e \in DOMAIN events |->
                  IF e \in work THEN [events[e] EXCEPT !.state = "lost"] ELSE Gone]
  /\ asked' = {}
  /\ UNCHANGED <<buffer, work, expected>>

SavePage == \E p \in Pages : \E R \in SUBSET {r \in Refs : PageOf[r] = p} :
              R # {} /\ Save(R)
AskCommit == \E p \in Pages : Commit(p)
AskRepair == \E p \in Pages : KeepFixing(p)
AskRollback == \E p \in Pages : RollbackDecision(p)
AskDiscard == \E p \in Pages : Discard(p)
Server == \E e \in DOMAIN events : Timeout(e) \/ Rejected(e)
Agent == \E e \in DOMAIN events :
           \/ Fetch(e) \/ Reply(e) \/ LateReply(e) \/ Abandon(e)
           \/ \E r \in Refs : AgentWrite(e, r)
Next == \/ SavePage \/ AskCommit \/ AskRepair \/ AskRollback \/ AskDiscard
        \/ Server \/ Agent \/ Restart

\* The hard timeout of an event fires; nobody has to click, reply or restart.
Spec == Init /\ [][Next]_vars /\ WF_vars(Server)

-----------------------------------------------------------------------------
(* Properties.                                                                 *)

Texts == 0 .. MaxEvents

TypeOK ==
  /\ source \in [Refs -> Texts] /\ expected \in [Refs -> 0 .. Unknown]
  /\ buffer \in [Refs -> [entry : Texts, text : Texts]]
  /\ txn.id \in 0 .. MaxCommits
  /\ \A c \in Live : commits[c].repair \in 0 .. MaxRepairs
  /\ work \subseteq DOMAIN events /\ asked \subseteq Pages
  /\ count \in Texts

\* Nobody is about to change this element: no commit, no transaction, no agent.
Settled(r) ==
  /\ Calm
  /\ \A c \in Live : r \notin DOMAIN commits[c].base
  /\ txn # NoTransaction => r \notin DOMAIN txn.files
  /\ \A e \in work : r \notin DOMAIN events[e].batch

\* Whatever the agent wrote or claimed, and however the Apply ended (error,
\* timeout, late reply, restart, decision), the source shows the edits that were
\* cleared as applied and no others.
AllOrNothing ==
  \A r \in Refs : Settled(r) => source[r] = expected[r] \/ expected[r] = Unknown

\* A transaction is always somebody's: of a commit that runs, or of a page whose
\* user is asked what to do with it.
TransactionOwned ==
  txn # NoTransaction =>
    \/ \E c \in Live : commits[c].txn = txn.id
    \/ txn.page \in asked

\* A staged edit leaves the buffer without its text being in the source only when
\* the user discards it, or saved it into an entry that an Apply was working on.
ClearedIsApplied ==
  [][\A r \in Refs :
       buffer[r] # None /\ buffer'[r] = None =>
         \/ source'[r] = buffer[r].text
         \/ AskDiscard
         \/ \E c \in Live : r \in DOMAIN commits[c].batch /\
              commits[c].batch[r].entry = buffer[r].entry /\
              commits[c].batch[r].text < buffer[r].text]_vars

\* Whatever the agent does, an Apply comes to an end.
EveryCommitEnds == \A c \in 1 .. MaxCommits : c \in Live ~> c \notin Live
=============================================================================
