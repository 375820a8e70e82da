--------------------------- MODULE MemoryReplication ---------------------------
(***************************************************************************)
(* The replication of channel memories (internal/agent/                    *)
(* memory_replicator.go).  A memory an agent writes is copied into the      *)
(* vault of every other member of the channel.  The copy is first made      *)
(* durable as a row of memory_replication_queue, then a goroutine per       *)
(* member tries it at once; what fails is retried by the drain loops, of    *)
(* which main.go starts two over the same table.                           *)
(*                                                                         *)
(* The vaults are a remote service (MuninnDB over MCP): any call may fail,  *)
(* and a call that writes may fail after it has written.  A tool that reports *)
(* an error of its own comes back as an answer with a text in it and no Go  *)
(* error, and replicateTo takes it for success: such a goroutine is misled. *)
(* What a memory says is left out: a vault is the number of copies it has   *)
(* of a concept.                                                           *)
(***************************************************************************)
EXTENDS Integers, Sequences, FiniteSets, FiniteSetsExt

CONSTANTS
  Target,       \* the vaults of the members other than the producer
  Concept,      \* normalised concepts of one space
  Drainer,      \* the drain loops of the process
  MaxAttempts,  \* replicationRetryMaxAttempts
  BatchSize,    \* replicationDrainBatchSize
  Slots,        \* maxConcurrentReplications
  MaxMemories,  \* memories written in a behaviour
  MaxFaults,    \* failed database writes and failed look-ups in a behaviour
  MaxCrashes    \* stops of the process in a behaviour

ASSUME ReplicationAssumption ==
  /\ IsFiniteSet(Target) /\ Target # {}
  /\ MaxAttempts \in Nat \ {0} /\ BatchSize \in Nat \ {0} /\ Slots \in Nat \ {0}
  /\ MaxMemories \in Nat /\ MaxFaults \in Nat /\ MaxCrashes \in Nat

Memory == 1..MaxMemories
Key    == Target \X Concept
Copy   == Memory \X Target          \* one goroutine of fanOut

VARIABLES
  row,      \* [Key -> Row or NoRow]: the table
  vault,    \* [Key -> Nat]: the copies a vault holds of a concept
  about,    \* the concept of every memory written so far
  asking,   \* the targets Intercept has still to enqueue, per memory
  fan,      \* [Copy -> FanPC]
  drain,    \* [Drainer -> Drain]
  up,       \* whether the process runs
  faults, crashes,
  raced     \* keys written by two writers that overlapped, or without a look-up

vars == <<row, vault, about, asking, fan, drain, up, faults, crashes, raced>>

NoRow   == [status |-> "none"]
Row     == [status : {"pending", "dead"}, id : Nat \ {0}, attempts : 0..MaxAttempts,
            due : BOOLEAN, old : BOOLEAN]
FanPC   == {"none", "wait", "write", "dequeue", "misled", "failed", "done"}
Taken   == [key : Key, id : Nat \ {0}, attempts : 0..MaxAttempts]
Idle    == [pc |-> "idle", todo |-> {}]
Drain   == {Idle}
             \cup [pc : {"next"}, todo : SUBSET Taken]
             \cup [pc : {"write", "dequeue", "misled", "failed"}, todo : SUBSET Taken, cur : Taken]

KeyOf(f) == <<f[2], about[f[1]]>>
Queued   == {k \in Key : row[k] # NoRow}

Init ==
  /\ row = [k \in Key |-> NoRow]
  /\ vault = [k \in Key |-> 0]
  /\ about = << >>
  /\ asking = [m \in Memory |-> {}]
  /\ fan = [f \in Copy |-> "none"]
  /\ drain = [d \in Drainer |-> Idle]
  /\ up = TRUE
  /\ faults = 0 /\ crashes = 0
  /\ raced = {}

(***************************************************************************)
(* The table                                                               *)
(***************************************************************************)

\* INTEGER PRIMARY KEY without AUTOINCREMENT: SQLite gives the largest id in
\* the table plus one, so the id of a row just deleted is given out again.
NextId == 1 + Max({0} \cup {row[k].id : k \in Queued})

\* Mutated form: a revived row keeps the attempts it died with.
UpsertedSpent(k) ==
  CASE row[k].status = "none" ->
         [status |-> "pending", id |-> NextId, attempts |-> 0, due |-> FALSE, old |-> FALSE]
    [] row[k].status = "dead" ->
         [row[k] EXCEPT !.status = "pending", !.due = FALSE]
    [] row[k].status = "pending" -> row[k]

\* enqueueRetry's upsert: besides the payload a pending row stays as it is,
\* with its attempts and its wait; a dead row gets a new budget and a new wait.
\* created_at is never renewed.
Upserted(k) ==
  CASE row[k].status = "none" ->
         [status |-> "pending", id |-> NextId, attempts |-> 0, due |-> FALSE, old |-> FALSE]
    [] row[k].status = "dead" ->
         [row[k] EXCEPT !.status = "pending", !.attempts = 0, !.due = FALSE]
    [] row[k].status = "pending" -> row[k]

\* A write of the database may fail; the failure is only logged.
Fault == faults < MaxFaults /\ faults' = faults + 1

EnqueueRetry(k) ==
  \/ /\ row' = [row EXCEPT ![k] = Upserted(k)]
     /\ UNCHANGED faults
  \/ Fault /\ UNCHANGED row

\* dequeue deletes by key, whatever the payload has become.
Dequeue(k) ==
  \/ row' = [row EXCEPT ![k] = NoRow] /\ UNCHANGED faults
  \/ Fault /\ UNCHANGED row

\* Time passes: a backoff runs out, a row gets older than seven days.
FallsDue(k) ==
  /\ row[k].status = "pending" /\ ~row[k].due
  /\ row' = [row EXCEPT ![k].due = TRUE]
  /\ UNCHANGED <<vault, about, asking, fan, drain, up, faults, crashes, raced>>

GrowsOld(k) ==
  /\ row[k].status = "dead" /\ ~row[k].old
  /\ row' = [row EXCEPT ![k].old = TRUE]
  /\ UNCHANGED <<vault, about, asking, fan, drain, up, faults, crashes, raced>>

(***************************************************************************)
(* Intercept and fanOut                                                    *)
(***************************************************************************)

\* A muninn tool call worth replicating succeeded.
Intercept(c) ==
  /\ up /\ Len(about) < MaxMemories
  /\ about' = Append(about, c)
  /\ asking' = [asking EXCEPT ![Len(about) + 1] = Target]
  /\ UNCHANGED <<row, vault, fan, drain, up, faults, crashes, raced>>

\* The loop of Intercept over the members, and after the last of them the
\* goroutines of fanOut.
EnqueueMember(m, t) ==
  /\ t \in asking[m]
  /\ EnqueueRetry(<<t, about[m]>>)
  /\ asking' = [asking EXCEPT ![m] = @ \ {t}]
  /\ fan' = IF asking[m] = {t} THEN [f \in Copy |-> IF f[1] = m THEN "wait" ELSE fan[f]]
                               ELSE fan
  /\ UNCHANGED <<vault, about, drain, up, crashes, raced>>

\* The 30 seconds end before the semaphore has a slot.
FanExpires(f) ==
  /\ fan[f] = "wait"
  /\ EnqueueRetry(KeyOf(f))
  /\ fan' = [fan EXCEPT ![f] = "done"]
  /\ UNCHANGED <<vault, about, asking, drain, up, crashes, raced>>

\* After an error of replicateTo the copy is queued again.
FanRequeues(f) ==
  /\ fan[f] = "failed"
  /\ EnqueueRetry(KeyOf(f))
  /\ fan' = [fan EXCEPT ![f] = "done"]
  /\ UNCHANGED <<vault, about, asking, drain, up, crashes, raced>>

(***************************************************************************)
(* replicateTo: look the concept up, write it if it is not there, dequeue. *)
(* A look-up that fails counts as "not there"; one whose answer holds any   *)
(* text, an error of the tool or "nothing found", counts as "there".        *)
(***************************************************************************)

\* The goroutines that have looked k up and are about to write it.
Writing(k) ==
  {<<"fan", f>> : f \in {g \in Copy : fan[g] = "write" /\ KeyOf(g) = k}}
    \cup {<<"drain", d>> : d \in {e \in Drainer : drain[e].pc = "write" /\ drain[e].cur.key = k}}

\* The goroutines that the vault's answer has misled about k and that have still
\* to dequeue it.
MisledOn(k) ==
  {<<"fan", f>> : f \in {g \in Copy : fan[g] = "misled" /\ KeyOf(g) = k}}
    \cup {<<"drain", d>> : d \in {e \in Drainer : drain[e].pc = "misled" /\ drain[e].cur.key = k}}

Overlap(k) == \E u, v \in Writing(k) : u # v

\* Mutated form: the vault is written without looking.
FindsNothing(k) == "write"

\* Where the look-up leads.
Finds(k) == IF vault[k] > 0 THEN "dequeue" ELSE "write"

FindByEntity(k, next) ==
  \/ next = Finds(k) /\ UNCHANGED <<faults, raced>>
  \/ next = "misled" /\ vault[k] = 0 /\ UNCHANGED <<faults, raced>>
  \/ next = "write" /\ Fault /\ raced' = raced \cup {k}

\* Mutated form: an error of the write is not looked at.
RememberAnyway(k, wrote, next) ==
  /\ vault' = IF wrote THEN [vault EXCEPT ![k] = @ + 1] ELSE vault
  /\ raced' = IF wrote /\ Overlap(k) THEN raced \cup {k} ELSE raced
  /\ next = "dequeue"

\* muninn_remember: done; failed; done and its answer lost; or refused with an
\* answer that is not looked at.
Remember(k, wrote, next) ==
  /\ vault' = IF wrote THEN [vault EXCEPT ![k] = @ + 1] ELSE vault
  /\ raced' = IF wrote /\ Overlap(k) THEN raced \cup {k} ELSE raced
  /\ next \in IF wrote THEN {"dequeue", "failed"} ELSE {"misled", "failed"}

\* The semaphore has a slot.
HasSlot == Cardinality({g \in Copy : fan[g] \in {"write", "dequeue", "misled", "failed"}}) < Slots

FanFinds(f) ==
  /\ fan[f] = "wait" /\ HasSlot
  /\ \E next \in {"write", "dequeue", "misled"} :
       FindByEntity(KeyOf(f), next) /\ fan' = [fan EXCEPT ![f] = next]
  /\ UNCHANGED <<row, vault, about, asking, drain, up, crashes>>

\* No client: the load of the config, the token or the handshake failed.
FanHasNoClient(f) ==
  /\ fan[f] = "wait" /\ HasSlot
  /\ fan' = [fan EXCEPT ![f] = "failed"]
  /\ UNCHANGED <<row, vault, about, asking, drain, up, faults, crashes, raced>>

FanWrites(f) ==
  /\ fan[f] = "write"
  /\ \E wrote \in BOOLEAN, next \in {"dequeue", "misled", "failed"} :
       Remember(KeyOf(f), wrote, next) /\ fan' = [fan EXCEPT ![f] = next]
  /\ UNCHANGED <<row, about, asking, drain, up, faults, crashes>>

FanDequeues(f) ==
  /\ fan[f] \in {"dequeue", "misled"}
  /\ Dequeue(KeyOf(f))
  /\ fan' = [fan EXCEPT ![f] = "done"]
  /\ UNCHANGED <<vault, about, asking, drain, up, crashes, raced>>

(***************************************************************************)
(* The drain loops                                                         *)
(***************************************************************************)

Due == {k \in Queued : row[k].status = "pending" /\ row[k].due}

Snapshot(k) == [key |-> k, id |-> row[k].id, attempts |-> row[k].attempts]

\* drainBatch reads a batch.  Nothing marks the rows as taken: the other loop
\* and the goroutines of fanOut may work on the same ones.
SelectBatch(d) ==
  /\ up /\ drain[d].pc = "idle" /\ Due # {}
  /\ \E batch \in SUBSET Due :
       /\ Cardinality(batch) = Min({BatchSize, Cardinality(Due)})
       /\ drain' = [drain EXCEPT ![d] = [pc |-> "next", todo |-> {Snapshot(k) : k \in batch}]]
  /\ UNCHANGED <<row, vault, about, asking, fan, up, faults, crashes, raced>>

\* The next entry of the batch, and where it goes from here.
Turns(d, e, next) ==
  drain' = [drain EXCEPT ![d] = [pc |-> next, todo |-> @.todo \ {e}, cur |-> e]]

After(d, next) == IF next = "next" THEN [pc |-> "next", todo |-> drain[d].todo]
                                   ELSE [drain[d] EXCEPT !.pc = next]

DrainFinds(d) ==
  /\ drain[d].pc = "next"
  /\ \E e \in drain[d].todo, next \in {"write", "dequeue", "misled"} :
       FindByEntity(e.key, next) /\ Turns(d, e, next)
  /\ UNCHANGED <<row, vault, about, asking, fan, up, crashes>>

DrainHasNoClient(d) ==
  /\ drain[d].pc = "next"
  /\ \E e \in drain[d].todo : Turns(d, e, "failed")
  /\ UNCHANGED <<row, vault, about, asking, fan, up, faults, crashes, raced>>

DrainWrites(d) ==
  /\ drain[d].pc = "write"
  /\ \E wrote \in BOOLEAN, next \in {"dequeue", "misled", "failed"} :
       /\ Remember(drain[d].cur.key, wrote, next)
       /\ drain' = [drain EXCEPT ![d] = After(d, next)]
  /\ UNCHANGED <<row, about, asking, fan, up, faults, crashes>>

DrainDequeues(d) ==
  /\ drain[d].pc \in {"dequeue", "misled"}
  /\ Dequeue(drain[d].cur.key)
  /\ drain' = [drain EXCEPT ![d] = After(d, "next")]
  /\ UNCHANGED <<vault, about, asking, fan, up, crashes, raced>>

\* Mutated form: a failed attempt is not counted.
FailedUncounted(r, e) ==
  IF r = NoRow \/ r.id # e.id THEN r
  ELSE [r EXCEPT !.attempts = e.attempts,
                 !.status = "pending",
                 !.due = FALSE]

\* The attempts of the SNAPSHOT plus one are written to whatever row has the
\* id of the snapshot now.
Failed(r, e) ==
  IF r = NoRow \/ r.id # e.id THEN r
  ELSE [r EXCEPT !.attempts = e.attempts + 1,
                 !.status = IF e.attempts + 1 >= MaxAttempts THEN "dead" ELSE "pending",
                 !.due = FALSE]

RecordFailure(d) ==
  /\ drain[d].pc = "failed"
  /\ \/ row' = [k \in Key |-> Failed(row[k], drain[d].cur)] /\ UNCHANGED faults
     \/ Fault /\ UNCHANGED row
  /\ drain' = [drain EXCEPT ![d] = After(d, "next")]
  /\ UNCHANGED <<vault, about, asking, fan, up, crashes, raced>>

\* After the batch, and on every idle turn of the loop: purgeDeadEntries.
Purge(d) ==
  /\ up
  /\ \/ drain[d].pc = "next" /\ drain[d].todo = {}
     \/ drain[d].pc = "idle" /\ \E k \in Queued : row[k].status = "dead" /\ row[k].old
  /\ \/ /\ row' = [k \in Key |-> IF row[k] # NoRow /\ row[k].status = "dead" /\ row[k].old
                                 THEN NoRow ELSE row[k]]
        /\ UNCHANGED faults
     \/ Fault /\ UNCHANGED row
  /\ drain' = [drain EXCEPT ![d] = Idle]
  /\ UNCHANGED <<vault, about, asking, fan, up, crashes, raced>>

(***************************************************************************)
(* The process stops (a crash, or a Stop whose five seconds ran out) and   *)
(* starts again: goroutines and snapshots are gone, the table is not.      *)
(***************************************************************************)

Crash ==
  /\ up /\ crashes < MaxCrashes
  /\ up' = FALSE /\ crashes' = crashes + 1
  /\ asking' = [m \in Memory |-> {}]
  /\ fan' = [f \in Copy |-> IF fan[f] = "none" THEN "none" ELSE "done"]
  /\ drain' = [d \in Drainer |-> Idle]
  /\ UNCHANGED <<row, vault, about, faults, raced>>

Restart ==
  /\ ~up /\ up' = TRUE
  /\ UNCHANGED <<row, vault, about, asking, fan, drain, faults, crashes, raced>>

FanStep(f) ==
  \/ FanExpires(f) \/ FanHasNoClient(f)
  \/ FanFinds(f) \/ FanWrites(f) \/ FanDequeues(f) \/ FanRequeues(f)

DrainStep(d) ==
  \/ SelectBatch(d) \/ DrainHasNoClient(d) \/ DrainFinds(d)
  \/ DrainWrites(d) \/ DrainDequeues(d) \/ RecordFailure(d) \/ Purge(d)

Next ==
  \/ \E c \in Concept : Intercept(c)
  \/ \E m \in Memory, t \in Target : EnqueueMember(m, t)
  \/ \E f \in Copy : FanStep(f)
  \/ \E d \in Drainer : DrainStep(d)
  \/ \E k \in Key : FallsDue(k) \/ GrowsOld(k)
  \/ Crash \/ Restart

Spec == Init /\ [][Next]_vars

\* Goroutines are scheduled, their calls have time limits, the clock runs and
\* a process that stopped is started again.
Fairness ==
  /\ \A m \in Memory, t \in Target : WF_vars(EnqueueMember(m, t))
  /\ \A f \in Copy : WF_vars(FanStep(f))
  /\ \A d \in Drainer : WF_vars(DrainStep(d))
  /\ \A k \in Key : WF_vars(FallsDue(k))
  /\ WF_vars(Restart)

FairSpec == Spec /\ Fairness

--------------------------------------------------------------------------------

\* A row is dead exactly when its count is at the limit, through upserts,
\* revivals and updates from old snapshots: a pending row always has an
\* attempt left and a dead one is never selected (memory_replicator.go:428).
DeadIsSpent ==
  \A k \in Queued : row[k].status = "dead" <=> row[k].attempts = MaxAttempts

\* Types of the table, the vaults, the goroutines and the loops, and the budget
\* of every row (memory_replicator.go:69 and 428).
TypeOK ==
  /\ row \in [Key -> Row \cup {NoRow}]
  /\ DeadIsSpent
  /\ vault \in [Key -> Nat]
  /\ about \in Seq(Concept) /\ Len(about) <= MaxMemories
  /\ asking \in [Memory -> SUBSET Target]
  /\ fan \in [Copy -> FanPC]
  /\ drain \in [Drainer -> Drain]
  /\ up \in BOOLEAN
  /\ faults \in 0..MaxFaults /\ crashes \in 0..MaxCrashes
  /\ raced \subseteq Key

\* A row leaves the queue in three ways only: the vault has the concept; the row
\* is dead and older than seven days; or the very goroutine that removes it was
\* answered by the vault with a text that replicateTo mistook for success
\* (mcp/client.go:344 returns no error for a result with isError).  A failed
\* call, a lost answer, a stop, or an overlap of the loops and the goroutines
\* never drops a memory that was queued (dequeue, memory_replicator.go:363 and
\* 380; purgeDeadEntries, 563).
LeavesAnsweredOrExpired ==
  [][\A k \in Key :
       (row[k] # NoRow /\ row'[k] = NoRow)
         => \/ vault[k] > 0
            \/ row[k].status = "dead" /\ row[k].old
            \/ \E w \in MisledOn(k) : w \notin MisledOn(k)']_vars

\* The look-up before the write keeps a vault to one copy of a concept through
\* retries, lost answers and restarts; a second copy needs two writers between
\* look-up and write at once, or a look-up that failed ("Idempotency check:
\* skip if already written", memory_replicator.go:356).
OneCopyUnlessRaced ==
  \A k \in Key : vault[k] > 1 => k \in raced

\* No row stays pending for ever: it is delivered or dies, although two loops and
\* the goroutines overwrite each other's counts and bring dead rows back
\* (memory_replicator.go:526-540).
RowsSettle ==
  \A k \in Key : row[k].status = "pending" ~> row[k].status \in {"none", "dead"}

================================================================================
