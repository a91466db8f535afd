--------------------------- MODULE ToolScheduler ---------------------------
(***************************************************************************)
(* One executeBatch() of the tool scheduler: the tool calls of a model's   *)
(* reply, run in batches. Consecutive reads share a parallel batch with a  *)
(* bounded number of workers, everything else runs alone; duplicate reads  *)
(* share one execution; the task may be cancelled at any moment.           *)
(*                                                                         *)
(* The world is the set of mutations that have taken effect; what a read   *)
(* has seen is the world when it ran. Results, reports and summaries are   *)
(* left out.                                                               *)
(***************************************************************************)
EXTENDS Naturals, FiniteSets

CONSTANTS
  N,            \* the calls are 1 to N, in the order of the reply
  Kind,         \* of a call: "read" (read_parallel, readOnly, idempotent),
                \* "write" (anything else that is scheduled), or "immediate"
  Key,          \* the read cache key; 0 for none
  Stops,        \* immediate calls with stopAfter
  MaxParallel   \* params.maxParallel

Calls == 1..N

ASSUME SchedulerAssumption ==
  /\ N \in Nat
  /\ Kind \in [Calls -> {"read", "write", "immediate"}]
  /\ Key \in [Calls -> Nat] /\ \A i \in Calls : Kind[i] # "read" => Key[i] = 0
  /\ Stops \subseteq {i \in Calls : Kind[i] = "immediate"}
  /\ MaxParallel \in Nat

VARIABLES
  cursor,     \* the entry executeBatch() is at
  last,       \* the last call of the batch that runs, 0 between batches
  next,       \* the cursor its workers share
  phase,      \* of a call
  join,       \* the call whose pending result a call awaits, or 0
  cache,      \* readResultCache: the call that owns a key, or 0
  seen,       \* the world a read has seen
  world,
  cancelled,  \* shouldContinue() says no
  rejected    \* executeBatch() has thrown

vars == <<cursor, last, next, phase, join, cache, seen, world, cancelled, rejected>>

Keys == {Key[i] : i \in Calls} \ {0}
NoCache == [k \in Keys |-> 0]
Executed == {"ok", "failed"}
Settled == Executed \cup {"cancelled"}
InFlight == {i \in Calls : phase[i] \in {"dispatched", "running", "joined"}}
Thrown == {i \in Calls : phase[i] = "threw"}

(* prepareCall() of the calls one by one, as far as the first that stops. *)
Entries == {i \in Calls : \A s \in Stops : i <= s}

(* Mutant: a write after reads joins their batch. *)
ShareAll(i, j) == \A k \in i..j : k \in Entries /\ (k = i => Kind[k] = "read") /\ Kind[k] # "immediate"

(* canShareParallelBatch(): reads only. *)
Shares(i, j) == \A k \in i..j : k \in Entries /\ Kind[k] = "read"

Batch == IF last = 0 THEN {} ELSE cursor..last
Workers ==
  LET asked == IF MaxParallel = 0 THEN 1 ELSE MaxParallel
      size == last - cursor + 1
  IN  IF asked <= size THEN asked ELSE size

Init ==
  /\ cursor = 1 /\ last = 0 /\ next = 1
  /\ phase = [i \in Calls |-> "waiting"] /\ join = [i \in Calls |-> 0]
  /\ cache = NoCache /\ seen = [i \in Calls |-> {}] /\ world = {}
  /\ cancelled = FALSE /\ rejected = FALSE

Cancel ==
  /\ ~cancelled
  /\ cancelled' = TRUE
  /\ UNCHANGED <<cursor, last, next, phase, join, cache, seen, world, rejected>>

-----------------------------------------------------------------------------
(* executeBatch()                                                           *)

Immediate ==
  /\ ~rejected
  /\ last = 0 /\ cursor \in Entries /\ Kind[cursor] = "immediate"
  /\ phase' = [phase EXCEPT ![cursor] = "ok"]
  /\ cache' = NoCache
  /\ cursor' = cursor + 1
  /\ UNCHANGED <<last, next, join, seen, world, cancelled, rejected>>

(* The longest run of calls that may share a batch; a batch that is not of  *)
(* reads forgets what was read.                                             *)
BatchBegins(l) ==
  /\ ~rejected
  /\ last = 0 /\ cursor \in Entries /\ Kind[cursor] # "immediate"
  /\ l \in Entries
  /\ IF Kind[cursor] = "read"
       THEN l >= cursor /\ Shares(cursor, l) /\ ~Shares(cursor, l + 1)
       ELSE l = cursor
  /\ last' = l /\ next' = cursor
  /\ cache' = IF Kind[cursor] = "read" THEN cache ELSE NoCache
  /\ UNCHANGED <<cursor, phase, join, seen, world, cancelled, rejected>>

(* Mutant: after a cancellation the rest of the reply is dropped. *)
BatchEndsForAll ==
  /\ ~rejected
  /\ last # 0 /\ \A i \in Batch : phase[i] \in Settled
  /\ cursor' = (IF cancelled THEN N ELSE last) + 1 /\ last' = 0
  /\ UNCHANGED <<next, phase, join, cache, seen, world, cancelled, rejected>>

BatchEnds ==
  /\ ~rejected
  /\ last # 0 /\ \A i \in Batch : phase[i] \in Settled
  /\ cursor' = last + 1 /\ last' = 0
  /\ UNCHANGED <<next, phase, join, cache, seen, world, cancelled, rejected>>

(* prepareCall() throws, before anything is executed; or, with the batch    *)
(* done, postExecutionEffect(), finalize() or summarizeBatch() does.        *)
Rejects ==
  /\ ~rejected
  /\ \/ cursor = 1 /\ last = 0
     \/ last # 0 /\ \A i \in Batch : phase[i] \in Settled
  /\ rejected' = TRUE
  /\ UNCHANGED <<cursor, last, next, phase, join, cache, seen, world, cancelled>>

-----------------------------------------------------------------------------
(* runCall(), by a worker of the batch. The workers of a batch go on when   *)
(* executeBatch() has thrown.                                               *)

(* Mutant: every call of the batch gets a worker. *)
TakesUnbounded ==
  /\ last # 0 /\ next <= last
  /\ next' = next + 1
  /\ phase' = [phase EXCEPT ![next] = IF cancelled THEN "cancelled" ELSE "dispatched"]
  /\ UNCHANGED <<cursor, last, join, cache, seen, world, cancelled, rejected>>

(* Mutant: one more than there is. *)
TakesOneMore ==
  /\ last # 0 /\ next <= last + 1 /\ Cardinality(InFlight) < Workers
  /\ next' = next + 1
  /\ phase' = [phase EXCEPT ![next] = IF cancelled THEN "cancelled" ELSE "dispatched"]
  /\ UNCHANGED <<cursor, last, join, cache, seen, world, cancelled, rejected>>

(* A free worker takes the next call, and passes the gate or does not. A    *)
(* worker whose call threw is gone.                                         *)
Takes ==
  /\ last # 0 /\ next <= last /\ Cardinality(InFlight \cup Thrown) < Workers
  /\ next' = next + 1
  /\ phase' = [phase EXCEPT ![next] = IF cancelled THEN "cancelled" ELSE "dispatched"]
  /\ UNCHANGED <<cursor, last, join, cache, seen, world, cancelled, rejected>>

Runs(i) ==
  /\ phase' = [phase EXCEPT ![i] = "running"]
  /\ seen' = [seen EXCEPT ![i] = world]
  /\ world' = IF Kind[i] = "write" THEN world \cup {i} ELSE world

(* Mutant: a result is there for others when it has arrived only. *)
LooksAlone(i) ==
  /\ phase[i] = "dispatched"
  /\ Runs(i)
  /\ UNCHANGED <<cursor, last, next, join, cache, cancelled, rejected>>

(* onDispatched() has returned: join the execution of a duplicate, or run. *)
Looks(i) ==
  /\ phase[i] = "dispatched"
  /\ IF Key[i] # 0 /\ cache[Key[i]] # 0
       THEN /\ phase' = [phase EXCEPT ![i] = "joined"]
            /\ join' = [join EXCEPT ![i] = cache[Key[i]]]
            /\ UNCHANGED <<cache, seen, world>>
       ELSE /\ Runs(i)
            /\ cache' = IF Key[i] # 0 THEN [cache EXCEPT ![Key[i]] = i] ELSE cache
            /\ UNCHANGED join
  /\ UNCHANGED <<cursor, last, next, cancelled, rejected>>

(* onDispatched() throws, before the call is in the cache, or onCacheHit()  *)
(* does, after the awaited result came: Promise.all() rejects at once.      *)
Throws(i) ==
  /\ \/ phase[i] = "dispatched"
     \/ phase[i] = "joined" /\ ~cancelled /\ phase[join[i]] = "ok"
  /\ phase' = [phase EXCEPT ![i] = "threw"]
  /\ rejected' = TRUE
  /\ UNCHANGED <<cursor, last, next, join, cache, seen, world, cancelled>>

(* A result that failed leaves the cache. *)
Ends(i, s) ==
  /\ phase[i] = "running"
  /\ phase' = [phase EXCEPT ![i] = s]
  /\ cache' = IF s = "failed" /\ Key[i] # 0 /\ join[i] = 0
                THEN [cache EXCEPT ![Key[i]] = 0] ELSE cache
  /\ UNCHANGED <<cursor, last, next, join, seen, world, cancelled, rejected>>

(* Mutant: whoever waited runs its own call when the first has failed,      *)
(* cancelled or not.                                                        *)
WakesUngated(i) ==
  /\ phase[i] = "joined" /\ phase[join[i]] \in Executed
  /\ IF phase[join[i]] = "ok"
       THEN /\ phase' = [phase EXCEPT ![i] = IF cancelled THEN "cancelled" ELSE "ok"]
            /\ seen' = [seen EXCEPT ![i] = IF cancelled THEN @ ELSE seen[join[i]]]
            /\ UNCHANGED world
       ELSE Runs(i)
  /\ UNCHANGED <<cursor, last, next, join, cache, cancelled, rejected>>

(* The awaited result is there: the gate again, then a hit, or a run of its *)
(* own that nobody can join.                                                *)
Wakes(i) ==
  /\ phase[i] = "joined" /\ phase[join[i]] \in Executed
  /\ \/ /\ cancelled
        /\ phase' = [phase EXCEPT ![i] = "cancelled"]
        /\ UNCHANGED <<seen, world>>
     \/ /\ ~cancelled /\ phase[join[i]] = "ok"
        /\ phase' = [phase EXCEPT ![i] = "ok"]
        /\ seen' = [seen EXCEPT ![i] = seen[join[i]]]
        /\ UNCHANGED world
     \/ /\ ~cancelled /\ phase[join[i]] = "failed"
        /\ Runs(i)
  /\ UNCHANGED <<cursor, last, next, join, cache, cancelled, rejected>>

-----------------------------------------------------------------------------
Next ==
  \/ Cancel \/ Immediate \/ BatchEnds \/ Rejects \/ Takes
  \/ \E l \in Calls : BatchBegins(l)
  \/ \E i \in Calls :
       \/ Looks(i) \/ Wakes(i) \/ Throws(i)
       \/ \E s \in Executed : Ends(i, s)

Spec == Init /\ [][Next]_vars

(* Every await settles, with a value or with an exception; the tools have   *)
(* time limits of their own.                                                *)
Fairness ==
  /\ WF_vars(Immediate) /\ WF_vars(BatchEnds \/ Rejects) /\ WF_vars(Takes)
  /\ WF_vars(\E l \in Calls : BatchBegins(l))
  /\ \A i \in Calls :
       /\ WF_vars(Looks(i) \/ Wakes(i) \/ Throws(i))
       /\ WF_vars(\E s \in Executed : Ends(i, s))

FairSpec == Spec /\ Fairness

-----------------------------------------------------------------------------
(* Properties.                                                              *)

TypeOK ==
  /\ cursor \in 1..(N + 1) /\ last \in 0..N /\ next \in 1..(N + 1)
  /\ last # 0 => last \in cursor..N /\ next \in cursor..(last + 1)
  /\ phase \in [Calls -> {"waiting", "dispatched", "running", "joined", "threw"} \cup Settled]
  /\ join \in [Calls -> 0..N]
  /\ cache \in [Keys -> 0..N]
  /\ seen \in [Calls -> SUBSET Calls] /\ world \subseteq Calls
  /\ cancelled \in BOOLEAN /\ rejected \in BOOLEAN

(* The bound holds, and a call that is not a read runs alone. *)
Bounded ==
  /\ Cardinality(InFlight) <= (IF MaxParallel = 0 THEN 1 ELSE MaxParallel)
  /\ \A i, j \in InFlight : i # j => Kind[i] = "read" /\ Kind[j] = "read"

(* A read sees the mutations the model asked for before it, all that were   *)
(* carried out and no other, though it may be answered from the cache.      *)
ReadsInOrder ==
  \A i \in Calls : Kind[i] = "read" /\ phase[i] \in {"running"} \cup Executed =>
    seen[i] = {w \in Calls : w < i /\ Kind[w] = "write" /\ phase[w] \in Executed}

(* Of two duplicates in flight or answered, one waits for the other or has  *)
(* its result, unless an execution has failed: no successful read is made   *)
(* twice.                                                                   *)
Duplicates(i, j) == Key[i] # 0 /\ Key[i] = Key[j] /\ \A k \in i..j : Kind[k] = "read"
SharedOnce ==
  \A i, j \in Calls :
    /\ i < j /\ Duplicates(i, j)
    /\ phase[i] \in {"running", "ok"} /\ phase[j] \in {"running", "ok"}
    => \/ join[i] # 0 \/ join[j] # 0
       \/ \E f \in Calls : phase[f] = "failed" /\ Key[f] = Key[i]

(* After a cancellation nothing is dispatched, and nothing runs that had    *)
(* not been dispatched, or that was waiting for a duplicate.                *)
NothingAfterCancel ==
  [][cancelled => \A i \in Calls :
       /\ phase'[i] = "dispatched" => phase[i] = "dispatched"
       /\ phase'[i] = "running" => phase[i] \in {"dispatched", "running"}]_vars

(* Every call as far as the first stop gets a result, or executeBatch() has *)
(* thrown; either way the workers come to rest: no call is left running,    *)
(* queued behind them, or waiting for the result of a duplicate.            *)
AllAnswered ==
  <>[]( /\ rejected \/ \A i \in Entries : phase[i] \in Settled
        /\ InFlight = {}
        /\ last # 0 /\ Cardinality(Thrown) < Workers => next > last)
=============================================================================
