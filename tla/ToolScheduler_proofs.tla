------------------------- MODULE ToolScheduler_proofs -------------------------
(* Proofs about a batch of tool calls, for every reply of a model, every    *)
(* key, and every number of workers.                                        *)
EXTENDS ToolScheduler, FiniteSetTheorems, TLAPS

-----------------------------------------------------------------------------
(* The two ways of a dispatched call, and the three of one that waited.     *)

Joins(i) ==
  /\ phase[i] = "dispatched" /\ Key[i] # 0 /\ cache[Key[i]] # 0
  /\ phase' = [phase EXCEPT ![i] = "joined"]
  /\ join' = [join EXCEPT ![i] = cache[Key[i]]]
  /\ UNCHANGED <<cursor, last, next, cache, seen, world, cancelled, rejected>>

RunsFirst(i) ==
  /\ phase[i] = "dispatched" /\ (Key[i] = 0 \/ cache[Key[i]] = 0)
  /\ Runs(i)
  /\ cache' = IF Key[i] # 0 THEN [cache EXCEPT ![Key[i]] = i] ELSE cache
  /\ UNCHANGED <<cursor, last, next, join, cancelled, rejected>>

WakesStopped(i) ==
  /\ phase[i] = "joined" /\ cancelled
  /\ phase' = [phase EXCEPT ![i] = "cancelled"]
  /\ UNCHANGED <<cursor, last, next, join, cache, seen, world, cancelled, rejected>>

WakesToHit(i) ==
  /\ phase[i] = "joined" /\ phase[join[i]] = "ok" /\ ~cancelled
  /\ phase' = [phase EXCEPT ![i] = "ok"]
  /\ seen' = [seen EXCEPT ![i] = seen[join[i]]]
  /\ UNCHANGED <<cursor, last, next, join, cache, world, cancelled, rejected>>

RunsAgain(i) ==
  /\ phase[i] = "joined" /\ phase[join[i]] = "failed" /\ ~cancelled
  /\ Runs(i)
  /\ UNCHANGED <<cursor, last, next, join, cache, cancelled, rejected>>

LEMMA LooksCases == \A i \in Calls : Looks(i) => Joins(i) \/ RunsFirst(i)
BY DEF Looks, Joins, RunsFirst

LEMMA WakesCases == \A i \in Calls : Wakes(i) => WakesStopped(i) \/ WakesToHit(i) \/ RunsAgain(i)
BY DEF Wakes, WakesStopped, WakesToHit, RunsAgain

(* A key belongs to reads. *)
LEMMA KeyFacts ==
  /\ \A i \in Calls : Key[i] # 0 => Key[i] \in Keys /\ Kind[i] = "read"
  /\ 0 \notin Keys
  /\ \A k \in Keys : \E i \in Calls : Key[i] = k
BY SchedulerAssumption DEF SchedulerAssumption, Keys

-----------------------------------------------------------------------------
(* The order of the calls, and what the cache and the waiting calls share.  *)

(* What has been settled, what is in a batch, and what has not begun. *)
BatchShape ==
  /\ last # 0 => \/ \A k \in cursor..last : Kind[k] = "read"
                 \/ last = cursor /\ Kind[cursor] = "write"
  /\ \A i \in Calls : i < cursor => phase[i] \in Settled
  /\ \A i \in Calls : i >= cursor /\ (last = 0 \/ i >= next) => phase[i] = "waiting"

Frontier == IF last = 0 THEN cursor ELSE last + 1

(* The owner of a key ran on its own, and only reads have come since. *)
CacheShape ==
  \A k \in Keys : cache[k] # 0 =>
    /\ Key[cache[k]] = k /\ join[cache[k]] = 0
    /\ phase[cache[k]] \in {"running", "ok"}
    /\ \A w \in Calls : cache[k] < w /\ w < Frontier => Kind[w] = "read"

(* A call waits for a read with nothing but reads between the two. *)
JoinShape ==
  \A i \in Calls :
    /\ join[i] # 0 => Key[i] # 0
    /\ phase[i] = "dispatched" \/ phase[i] = "waiting" => join[i] = 0
    /\ phase[i] = "joined" =>
         /\ join[i] \in Calls /\ Key[join[i]] = Key[i]
         /\ phase[join[i]] \in {"running"} \cup Executed
         /\ \A w \in Calls : (i < w /\ w < join[i]) \/ (join[i] < w /\ w < i) => Kind[w] = "read"

IInv == TypeOK /\ BatchShape /\ CacheShape /\ JoinShape

(* A call in flight is in the batch, and so is any read that comes with it. *)
LEMMA InBatch ==
  ASSUME TypeOK, BatchShape, NEW i \in Calls, phase[i] \in {"dispatched", "running", "joined"}
  PROVE  /\ last # 0 /\ last \in Calls /\ cursor <= i /\ i < next /\ i <= last
         /\ Kind[i] = "read" => \A w \in Calls : cursor <= w /\ w <= last => Kind[w] = "read"
         /\ Kind[i] # "read" => i = cursor /\ i = last
<1>1. i \in Nat /\ cursor \in Nat /\ last \in Nat /\ next \in Nat /\ N \in Nat
  BY SchedulerAssumption DEF SchedulerAssumption, Calls, TypeOK
<1>2. ~(i < cursor)
  BY DEF BatchShape, Settled, Executed
<1>3. last # 0 /\ ~(i >= next)
  BY <1>1, <1>2 DEF BatchShape
<1>4. last \in cursor..N /\ next \in cursor..(last + 1) /\ cursor \in 1..(N + 1)
  BY <1>3 DEF TypeOK
<1>5. i <= last
  BY <1>1, <1>3, <1>4
<1>6. (\A k \in cursor..last : Kind[k] = "read") \/ (last = cursor /\ Kind[cursor] = "write")
  BY <1>3 DEF BatchShape
<1>. QED
  BY <1>1, <1>2, <1>3, <1>4, <1>5, <1>6 DEF Calls

(* Every step keeps the types. *)
LEMMA TypeStep == IInv /\ [Next]_vars => TypeOK'
<1>. SUFFICES ASSUME IInv, [Next]_vars PROVE TypeOK'
  OBVIOUS
<1>1. CASE Cancel
  BY <1>1, SchedulerAssumption, KeyFacts DEF SchedulerAssumption, Calls, IInv, JoinShape, TypeOK, Executed, Settled, Entries, NoCache, Shares, Batch, Cancel
<1>2. CASE Immediate
  BY <1>2, SchedulerAssumption, KeyFacts DEF SchedulerAssumption, Calls, IInv, JoinShape, TypeOK, Executed, Settled, Entries, NoCache, Shares, Batch, Immediate
<1>3. CASE BatchEnds
  BY <1>3, SchedulerAssumption, KeyFacts DEF SchedulerAssumption, Calls, IInv, JoinShape, TypeOK, Executed, Settled, Entries, NoCache, Shares, Batch, BatchEnds
<1>4. CASE Takes
  BY <1>4, SchedulerAssumption, KeyFacts DEF SchedulerAssumption, Calls, IInv, JoinShape, TypeOK, Executed, Settled, Entries, NoCache, Shares, Batch, Takes
<1>5. ASSUME NEW l \in Calls, BatchBegins(l) PROVE TypeOK'
  BY <1>5, SchedulerAssumption, KeyFacts DEF SchedulerAssumption, Calls, IInv, JoinShape, TypeOK, Executed, Settled, Entries, NoCache, Shares, Batch, BatchBegins
<1>6. ASSUME NEW i \in Calls, Joins(i) PROVE TypeOK'
  BY <1>6, SchedulerAssumption, KeyFacts DEF SchedulerAssumption, Calls, IInv, JoinShape, TypeOK, Executed, Settled, Entries, NoCache, Shares, Batch, Joins
<1>7. ASSUME NEW i \in Calls, RunsFirst(i) PROVE TypeOK'
  BY <1>7, SchedulerAssumption, KeyFacts DEF SchedulerAssumption, Calls, IInv, JoinShape, TypeOK, Executed, Settled, Entries, NoCache, Shares, Batch, RunsFirst, Runs
<1>8. ASSUME NEW i \in Calls, WakesStopped(i) PROVE TypeOK'
  BY <1>8, SchedulerAssumption, KeyFacts DEF SchedulerAssumption, Calls, IInv, JoinShape, TypeOK, Executed, Settled, Entries, NoCache, Shares, Batch, WakesStopped
<1>9. ASSUME NEW i \in Calls, WakesToHit(i) PROVE TypeOK'
  BY <1>9, SchedulerAssumption, KeyFacts DEF SchedulerAssumption, Calls, IInv, JoinShape, TypeOK, Executed, Settled, Entries, NoCache, Shares, Batch, WakesToHit
<1>10. ASSUME NEW i \in Calls, RunsAgain(i) PROVE TypeOK'
  BY <1>10, SchedulerAssumption, KeyFacts DEF SchedulerAssumption, Calls, IInv, JoinShape, TypeOK, Executed, Settled, Entries, NoCache, Shares, Batch, RunsAgain, Runs
<1>11. ASSUME NEW i \in Calls, NEW s \in Executed, Ends(i, s) PROVE TypeOK'
  BY <1>11, SchedulerAssumption, KeyFacts DEF SchedulerAssumption, Calls, IInv, JoinShape, TypeOK, Executed, Settled, Entries, NoCache, Shares, Batch, Ends
<1>13. CASE Rejects
  BY <1>13, SchedulerAssumption, KeyFacts DEF SchedulerAssumption, Calls, IInv, JoinShape, TypeOK, Executed, Settled, Entries, NoCache, Shares, Batch, Rejects
<1>14. ASSUME NEW i \in Calls, Throws(i) PROVE TypeOK'
  BY <1>14, SchedulerAssumption, KeyFacts DEF SchedulerAssumption, Calls, IInv, JoinShape, TypeOK, Executed, Settled, Entries, NoCache, Shares, Batch, Throws
<1>12. CASE UNCHANGED vars
  BY <1>12 DEF SchedulerAssumption, Calls, IInv, JoinShape, TypeOK, Executed, Settled, Entries, NoCache, Shares, Batch, vars
<1>. QED
  BY <1>1, <1>2, <1>3, <1>4, <1>5, <1>6, <1>7, <1>8, <1>9, <1>10, <1>11, <1>12, <1>13, <1>14, LooksCases, WakesCases
  DEF Next

(* A call that has begun may move on: nothing else in the batch changes. *)
MovesOn(i, v) ==
  /\ phase[i] \in {"dispatched", "joined", "running"}
  /\ phase' = [phase EXCEPT ![i] = v]
  /\ cursor' = cursor /\ last' = last /\ next' = next

LEMMA BatchMoves == IInv => \A i \in Calls, v \in {"threw", "running"} \cup Settled : MovesOn(i, v) => BatchShape'
<1>. SUFFICES ASSUME IInv, NEW i \in Calls, NEW v \in {"threw", "running"} \cup Settled, MovesOn(i, v)
              PROVE  BatchShape'
  OBVIOUS
<1>1. /\ phase[i] # "waiting" /\ phase[i] \notin Settled
      /\ cursor' = cursor /\ last' = last /\ next' = next
  BY DEF MovesOn, Settled, Executed
<1>2. \A k \in Calls : k # i => phase'[k] = phase[k]
  BY DEF MovesOn, IInv, TypeOK
<1>. QED
  BY <1>1, <1>2 DEF IInv, BatchShape

LEMMA CacheMoves ==
  IInv => \A i \in Calls, v \in {"threw", "running"} \cup Settled :
    MovesOn(i, v) /\ phase[i] # "running" /\ cache' = cache /\ join' = join => CacheShape'
<1>. SUFFICES ASSUME IInv, NEW i \in Calls, NEW v \in {"threw", "running"} \cup Settled, MovesOn(i, v),
                     phase[i] # "running", cache' = cache, join' = join
              PROVE  CacheShape'
  OBVIOUS
<1>1. phase[i] \in {"dispatched", "joined"} /\ Frontier' = Frontier
  BY DEF MovesOn, Frontier
<1>2. ASSUME NEW k \in Keys, cache[k] # 0
      PROVE  phase'[cache[k]] = phase[cache[k]]
  <2>1. cache[k] # i
    BY <1>1, <1>2 DEF IInv, CacheShape
  <2>2. cache[k] \in Calls
    BY <1>2, SchedulerAssumption DEF SchedulerAssumption, Calls, IInv, TypeOK
  <2>. QED
    BY <2>1, <2>2 DEF MovesOn, IInv, TypeOK
<1>. QED
  BY <1>1, <1>2 DEF IInv, CacheShape

(* Calls begin in the order of the reply, batch by batch. *)
LEMMA BatchStep == IInv /\ [Next]_vars => BatchShape'
<1>. SUFFICES ASSUME IInv, [Next]_vars PROVE BatchShape'
  OBVIOUS
<1>1. CASE Cancel
  BY <1>1, SchedulerAssumption, KeyFacts DEF SchedulerAssumption, Calls, IInv, BatchShape, JoinShape, TypeOK, Executed, Settled, Entries, Shares, Batch, Cancel
<1>2. CASE Immediate
  BY <1>2, SchedulerAssumption, KeyFacts DEF SchedulerAssumption, Calls, IInv, BatchShape, JoinShape, TypeOK, Executed, Settled, Entries, Shares, Batch, Immediate
<1>3. CASE BatchEnds
  <2>1. last \in cursor..N /\ next <= last + 1 /\ last' = 0 /\ cursor' = last + 1 /\ phase' = phase
    BY <1>3, SchedulerAssumption DEF SchedulerAssumption, BatchEnds, IInv, TypeOK
  <2>2. Batch = cursor..last /\ cursor \in Nat
    BY <1>3, SchedulerAssumption DEF SchedulerAssumption, BatchEnds, Batch, IInv, TypeOK
  <2>3. \A i \in cursor..last : phase[i] \in Settled
    BY <1>3, <2>2 DEF BatchEnds
  <2>. QED
    BY <2>1, <2>2, <2>3, SchedulerAssumption DEF SchedulerAssumption, Calls, IInv, TypeOK, BatchShape
<1>4. CASE Takes
  BY <1>4, SchedulerAssumption, KeyFacts DEF SchedulerAssumption, Calls, IInv, BatchShape, JoinShape, TypeOK, Executed, Settled, Entries, Shares, Batch, Takes
<1>5. ASSUME NEW l \in Calls, BatchBegins(l) PROVE BatchShape'
  BY <1>5, SchedulerAssumption, KeyFacts DEF SchedulerAssumption, Calls, IInv, BatchShape, JoinShape, TypeOK, Executed, Settled, Entries, Shares, Batch, BatchBegins
<1>6. ASSUME NEW i \in Calls, Joins(i) PROVE BatchShape'
  BY <1>6, SchedulerAssumption, KeyFacts DEF SchedulerAssumption, Calls, IInv, BatchShape, JoinShape, TypeOK, Executed, Settled, Entries, Shares, Batch, Joins
<1>7. ASSUME NEW i \in Calls, RunsFirst(i) PROVE BatchShape'
  BY <1>7, SchedulerAssumption, KeyFacts DEF SchedulerAssumption, Calls, IInv, BatchShape, JoinShape, TypeOK, Executed, Settled, Entries, Shares, Batch, RunsFirst, Runs
<1>8. ASSUME NEW i \in Calls, WakesStopped(i) PROVE BatchShape'
  <2>1. MovesOn(i, "cancelled") /\ "cancelled" \in {"threw", "running"} \cup Settled
    BY <1>8 DEF WakesStopped, MovesOn, Settled, Executed
  <2>. QED
    BY <2>1, BatchMoves
<1>9. ASSUME NEW i \in Calls, WakesToHit(i) PROVE BatchShape'
  <2>1. MovesOn(i, "ok") /\ "ok" \in {"threw", "running"} \cup Settled
    BY <1>9 DEF WakesToHit, MovesOn, Settled, Executed
  <2>. QED
    BY <2>1, BatchMoves
<1>10. ASSUME NEW i \in Calls, RunsAgain(i) PROVE BatchShape'
  <2>1. MovesOn(i, "running") /\ "running" \in {"threw", "running"} \cup Settled
    BY <1>10 DEF RunsAgain, Runs, MovesOn, Settled, Executed
  <2>. QED
    BY <2>1, BatchMoves
<1>11. ASSUME NEW i \in Calls, NEW s \in Executed, Ends(i, s) PROVE BatchShape'
  <2>1. MovesOn(i, s) /\ s \in {"threw", "running"} \cup Settled
    BY <1>11 DEF Ends, MovesOn, Settled, Executed
  <2>. QED
    BY <2>1, BatchMoves
<1>13. CASE Rejects
  BY <1>13, SchedulerAssumption, KeyFacts DEF SchedulerAssumption, Calls, IInv, BatchShape, JoinShape, TypeOK, Executed, Settled, Entries, Shares, Batch, Rejects
<1>14. ASSUME NEW i \in Calls, Throws(i) PROVE BatchShape'
  <2>1. MovesOn(i, "threw") /\ "threw" \in {"threw", "running"} \cup Settled
    BY <1>14 DEF Throws, MovesOn, Settled, Executed
  <2>. QED
    BY <2>1, BatchMoves
<1>12. CASE UNCHANGED vars
  BY <1>12 DEF SchedulerAssumption, Calls, IInv, BatchShape, JoinShape, TypeOK, Executed, Settled, Entries, Shares, Batch, vars
<1>. QED
  BY <1>1, <1>2, <1>3, <1>4, <1>5, <1>6, <1>7, <1>8, <1>9, <1>10, <1>11, <1>12, <1>13, <1>14, LooksCases, WakesCases
  DEF Next

(* Whatever forgets, forgets before a mutation begins. *)
LEMMA CacheStep == IInv /\ [Next]_vars => CacheShape'
<1>. SUFFICES ASSUME IInv, [Next]_vars PROVE CacheShape'
  OBVIOUS
<1>1. CASE Cancel
  BY <1>1, SchedulerAssumption, KeyFacts DEF SchedulerAssumption, Calls, IInv, BatchShape, JoinShape, CacheShape, Frontier, TypeOK, Executed, Settled, Entries, Shares, NoCache, Cancel
<1>2. CASE Immediate
  BY <1>2, SchedulerAssumption, KeyFacts DEF SchedulerAssumption, Calls, IInv, BatchShape, JoinShape, CacheShape, Frontier, TypeOK, Executed, Settled, Entries, Shares, NoCache, Immediate
<1>3. CASE BatchEnds
  BY <1>3, SchedulerAssumption, KeyFacts DEF SchedulerAssumption, Calls, IInv, BatchShape, JoinShape, CacheShape, Frontier, TypeOK, Executed, Settled, Entries, Shares, NoCache, BatchEnds
<1>4. CASE Takes
  BY <1>4, SchedulerAssumption, KeyFacts DEF SchedulerAssumption, Calls, IInv, BatchShape, JoinShape, CacheShape, Frontier, TypeOK, Executed, Settled, Entries, Shares, NoCache, Takes
<1>5. ASSUME NEW l \in Calls, BatchBegins(l) PROVE CacheShape'
  BY <1>5, SchedulerAssumption, KeyFacts DEF SchedulerAssumption, Calls, IInv, BatchShape, JoinShape, CacheShape, Frontier, TypeOK, Executed, Settled, Entries, Shares, NoCache, BatchBegins
<1>6. ASSUME NEW i \in Calls, Joins(i) PROVE CacheShape'
  <2>1. /\ cache' = cache /\ join' = [join EXCEPT ![i] = cache[Key[i]]] /\ Frontier' = Frontier
        /\ phase' = [phase EXCEPT ![i] = "joined"] /\ phase[i] = "dispatched"
    BY <1>6 DEF Joins, Frontier
  <2>2. \A k \in Keys : cache[k] # i
    BY <2>1, SchedulerAssumption DEF SchedulerAssumption, Calls, IInv, CacheShape
  <2>. QED
    BY <2>1, <2>2, SchedulerAssumption DEF SchedulerAssumption, Calls, IInv, TypeOK, CacheShape
<1>7. ASSUME NEW i \in Calls, RunsFirst(i) PROVE CacheShape'
  <2>1. CASE Key[i] = 0
    BY <1>7, <2>1, SchedulerAssumption, KeyFacts
    DEF SchedulerAssumption, Calls, IInv, TypeOK, CacheShape, Frontier, RunsFirst, Runs
  <2>2. CASE Key[i] # 0
    <3>0. /\ last # 0 /\ cursor <= i /\ i <= last
          /\ \A w \in Calls : cursor <= w /\ w <= last => Kind[w] = "read"
      BY <1>7, <2>2, InBatch, KeyFacts DEF IInv, RunsFirst
    <3>1. \A w \in Calls : i < w /\ w < Frontier => Kind[w] = "read"
      BY <3>0, SchedulerAssumption
      DEF SchedulerAssumption, Calls, IInv, TypeOK, Frontier, RunsFirst
    <3>2. /\ join' = join /\ join[i] = 0 /\ cache' = [cache EXCEPT ![Key[i]] = i]
          /\ phase' = [phase EXCEPT ![i] = "running"] /\ Frontier' = Frontier
      BY <1>7, <2>2 DEF IInv, JoinShape, Frontier, RunsFirst, Runs
    <3>3. \A k \in Keys : k # Key[i] => cache'[k] = cache[k] /\ (cache[k] # 0 => cache[k] # i)
      BY <3>2 DEF IInv, TypeOK, CacheShape
    <3>4. cache'[Key[i]] = i
      BY <2>2, <3>2, KeyFacts DEF IInv, TypeOK
    <3>. QED
      BY <3>1, <3>2, <3>3, <3>4, SchedulerAssumption DEF SchedulerAssumption, Calls, IInv, TypeOK, CacheShape
  <2>. QED
    BY <2>1, <2>2
<1>8. ASSUME NEW i \in Calls, WakesStopped(i) PROVE CacheShape'
  <2>1. /\ MovesOn(i, "cancelled") /\ "cancelled" \in {"threw", "running"} \cup Settled
        /\ phase[i] # "running" /\ cache' = cache /\ join' = join
    BY <1>8 DEF WakesStopped, MovesOn, Settled, Executed
  <2>. QED
    BY <2>1, CacheMoves
<1>9. ASSUME NEW i \in Calls, WakesToHit(i) PROVE CacheShape'
  <2>1. /\ MovesOn(i, "ok") /\ "ok" \in {"threw", "running"} \cup Settled
        /\ phase[i] # "running" /\ cache' = cache /\ join' = join
    BY <1>9 DEF WakesToHit, MovesOn, Settled, Executed
  <2>. QED
    BY <2>1, CacheMoves
<1>10. ASSUME NEW i \in Calls, RunsAgain(i) PROVE CacheShape'
  <2>1. /\ MovesOn(i, "running") /\ "running" \in {"threw", "running"} \cup Settled
        /\ phase[i] # "running" /\ cache' = cache /\ join' = join
    BY <1>10 DEF RunsAgain, Runs, MovesOn, Settled, Executed
  <2>. QED
    BY <2>1, CacheMoves
<1>11. ASSUME NEW i \in Calls, NEW s \in Executed, Ends(i, s) PROVE CacheShape'
  <2>1. Frontier' = Frontier /\ join' = join /\ phase' = [phase EXCEPT ![i] = s]
    BY <1>11 DEF Ends, Frontier
  <2>2. ASSUME NEW k \in Keys, cache'[k] # 0 PROVE cache'[k] = cache[k] /\ (cache[k] # i \/ s = "ok")
    BY <1>11, <2>2, KeyFacts DEF Ends, IInv, TypeOK, CacheShape, Executed
  <2>. QED
    BY <2>1, <2>2, SchedulerAssumption DEF SchedulerAssumption, Calls, IInv, TypeOK, CacheShape
<1>13. CASE Rejects
  BY <1>13, SchedulerAssumption, KeyFacts DEF SchedulerAssumption, Calls, IInv, BatchShape, JoinShape, CacheShape, Frontier, TypeOK, Executed, Settled, Entries, Shares, NoCache, Rejects
<1>14. ASSUME NEW i \in Calls, Throws(i) PROVE CacheShape'
  <2>1. /\ MovesOn(i, "threw") /\ "threw" \in {"threw", "running"} \cup Settled
        /\ phase[i] # "running" /\ cache' = cache /\ join' = join
    BY <1>14 DEF Throws, MovesOn, Settled, Executed
  <2>. QED
    BY <2>1, CacheMoves
<1>12. CASE UNCHANGED vars
  BY <1>12 DEF SchedulerAssumption, Calls, IInv, BatchShape, JoinShape, CacheShape, Frontier, TypeOK, Executed, Settled, Entries, Shares, NoCache, vars
<1>. QED
  BY <1>1, <1>2, <1>3, <1>4, <1>5, <1>6, <1>7, <1>8, <1>9, <1>10, <1>11, <1>12, <1>13, <1>14, LooksCases, WakesCases
  DEF Next

(* A result that is awaited arrives. *)
LEMMA JoinStep == IInv /\ [Next]_vars => JoinShape'
<1>. SUFFICES ASSUME IInv, [Next]_vars PROVE JoinShape'
  OBVIOUS
<1>1. CASE Cancel
  BY <1>1, SchedulerAssumption, KeyFacts DEF SchedulerAssumption, Calls, IInv, BatchShape, CacheShape, JoinShape, Frontier, TypeOK, Executed, Settled, Entries, Shares, Cancel
<1>2. CASE Immediate
  BY <1>2, SchedulerAssumption, KeyFacts DEF SchedulerAssumption, Calls, IInv, BatchShape, CacheShape, JoinShape, Frontier, TypeOK, Executed, Settled, Entries, Shares, Immediate
<1>3. CASE BatchEnds
  BY <1>3, SchedulerAssumption, KeyFacts DEF SchedulerAssumption, Calls, IInv, BatchShape, CacheShape, JoinShape, Frontier, TypeOK, Executed, Settled, Entries, Shares, BatchEnds
<1>4. CASE Takes
  BY <1>4, SchedulerAssumption, KeyFacts DEF SchedulerAssumption, Calls, IInv, BatchShape, CacheShape, JoinShape, Frontier, TypeOK, Executed, Settled, Entries, Shares, Takes
<1>5. ASSUME NEW l \in Calls, BatchBegins(l) PROVE JoinShape'
  BY <1>5, SchedulerAssumption, KeyFacts DEF SchedulerAssumption, Calls, IInv, BatchShape, CacheShape, JoinShape, Frontier, TypeOK, Executed, Settled, Entries, Shares, BatchBegins
<1>6. ASSUME NEW i \in Calls, Joins(i) PROVE JoinShape'
  <2>. DEFINE c == cache[Key[i]]
  <2>1. c \in Calls /\ c # i /\ Key[c] = Key[i] /\ Key[i] # 0 /\ phase[c] \in {"running", "ok"}
    BY <1>6, KeyFacts, SchedulerAssumption DEF SchedulerAssumption, Calls, Joins, IInv, TypeOK, CacheShape
  <2>2. /\ last # 0 /\ last \in Calls /\ cursor <= i /\ i <= last
        /\ \A w \in Calls : cursor <= w /\ w <= last => Kind[w] = "read"
    BY <1>6, <2>1, InBatch, KeyFacts DEF IInv, Joins
  <2>3. i \in Nat /\ c \in Nat /\ last \in Nat /\ cursor \in Nat /\ next \in cursor..(last + 1)
    BY <2>1, <2>2, SchedulerAssumption DEF SchedulerAssumption, Calls, IInv, TypeOK
  <2>4. \A w \in Calls : c < w /\ w < last + 1 => Kind[w] = "read"
    BY <1>6, <2>1, <2>2, KeyFacts DEF IInv, CacheShape, Frontier, Joins
  <2>5. c <= last
    <3>1. ~(c >= next)
      BY <2>1, <2>2, <2>3 DEF IInv, BatchShape
    <3>. QED
      BY <2>3, <3>1
  <2>6. \A w \in Calls : (i < w /\ w < c) \/ (c < w /\ w < i) => Kind[w] = "read"
    BY <2>2, <2>3, <2>4, <2>5, SchedulerAssumption DEF SchedulerAssumption, Calls
  <2>7. join' = [join EXCEPT ![i] = c] /\ phase' = [phase EXCEPT ![i] = "joined"] /\ phase[i] = "dispatched"
    BY <1>6 DEF Joins
  <2>. HIDE DEF c
  <2>. QED
    BY <2>1, <2>6, <2>7, SchedulerAssumption DEF SchedulerAssumption, Calls, IInv, TypeOK, JoinShape, Executed
<1>7. ASSUME NEW i \in Calls, RunsFirst(i) PROVE JoinShape'
  BY <1>7, SchedulerAssumption, KeyFacts DEF SchedulerAssumption, Calls, IInv, BatchShape, CacheShape, JoinShape, Frontier, TypeOK, Executed, Settled, Entries, Shares, RunsFirst, Runs
<1>8. ASSUME NEW i \in Calls, WakesStopped(i) PROVE JoinShape'
  BY <1>8, SchedulerAssumption, KeyFacts DEF SchedulerAssumption, Calls, IInv, BatchShape, CacheShape, JoinShape, Frontier, TypeOK, Executed, Settled, Entries, Shares, WakesStopped
<1>9. ASSUME NEW i \in Calls, WakesToHit(i) PROVE JoinShape'
  BY <1>9, SchedulerAssumption, KeyFacts DEF SchedulerAssumption, Calls, IInv, BatchShape, CacheShape, JoinShape, Frontier, TypeOK, Executed, Settled, Entries, Shares, WakesToHit
<1>10. ASSUME NEW i \in Calls, RunsAgain(i) PROVE JoinShape'
  <2>1. phase' = [phase EXCEPT ![i] = "running"] /\ join' = join /\ phase[i] = "joined"
    BY <1>10 DEF RunsAgain, Runs
  <2>. QED
    BY <2>1, SchedulerAssumption DEF SchedulerAssumption, Calls, IInv, TypeOK, JoinShape, Executed
<1>11. ASSUME NEW i \in Calls, NEW s \in Executed, Ends(i, s) PROVE JoinShape'
  BY <1>11, SchedulerAssumption, KeyFacts DEF SchedulerAssumption, Calls, IInv, BatchShape, CacheShape, JoinShape, Frontier, TypeOK, Executed, Settled, Entries, Shares, Ends
<1>13. CASE Rejects
  BY <1>13, SchedulerAssumption, KeyFacts DEF SchedulerAssumption, Calls, IInv, BatchShape, CacheShape, JoinShape, Frontier, TypeOK, Executed, Settled, Entries, Shares, Rejects
<1>14. ASSUME NEW i \in Calls, Throws(i) PROVE JoinShape'
  <2>1. /\ phase' = [phase EXCEPT ![i] = "threw"] /\ phase[i] \in {"dispatched", "joined"}
        /\ join' = join
    BY <1>14 DEF Throws
  <2>2. \A j \in Calls : phase[j] = "joined" => join[j] # i
    BY <2>1 DEF IInv, JoinShape, Executed
  <2>. QED
    BY <2>1, <2>2 DEF IInv, JoinShape, TypeOK
<1>12. CASE UNCHANGED vars
  BY <1>12 DEF SchedulerAssumption, Calls, IInv, BatchShape, CacheShape, JoinShape, Frontier, TypeOK, Executed, Settled, Entries, Shares, vars
<1>. QED
  BY <1>1, <1>2, <1>3, <1>4, <1>5, <1>6, <1>7, <1>8, <1>9, <1>10, <1>11, <1>12, <1>13, <1>14, LooksCases, WakesCases
  DEF Next

LEMMA InitInv == Init => IInv
<1>. SUFFICES ASSUME Init PROVE IInv
  OBVIOUS
<1>1. TypeOK
  <2>1. /\ phase \in [Calls -> {"waiting"}] /\ join \in [Calls -> {0}] /\ cache \in [Keys -> {0}]
        /\ seen \in [Calls -> {{}}]
    BY DEF Init, NoCache
  <2>2. cursor \in 1..(N + 1) /\ last \in 0..N /\ next \in 1..(N + 1)
    BY SchedulerAssumption DEF SchedulerAssumption, Init
  <2>3. last = 0 /\ world = {} /\ cancelled = FALSE /\ rejected = FALSE
    BY DEF Init
  <2>. QED
    BY <2>1, <2>2, <2>3, SchedulerAssumption DEF SchedulerAssumption, TypeOK
<1>2. BatchShape
  BY SchedulerAssumption DEF SchedulerAssumption, Calls, Init, BatchShape
<1>3. CacheShape /\ JoinShape
  BY DEF Init, CacheShape, JoinShape, NoCache
<1>. QED
  BY <1>1, <1>2, <1>3 DEF IInv

(* The order of the calls and what they share holds in every state. *)
THEOREM Inductive == Spec => []IInv
<1>1. IInv /\ [Next]_vars => IInv'
  BY TypeStep, BatchStep, CacheStep, JoinStep DEF IInv
<1>. QED
  BY <1>1, InitInv, PTL DEF Spec

-----------------------------------------------------------------------------
(* The types, the gate, and the workers.                                    *)

(* The variables keep their types: no worker takes a call beyond its batch. *)
THEOREM TypeCorrect == Spec => []TypeOK
<1>1. IInv => TypeOK
  BY DEF IInv
<1>. QED
  BY <1>1, Inductive, PTL

(* Once the task is cancelled, a call is dispatched or run only if it had   *)
(* been dispatched before: also not when the result it waited for fails.    *)
THEOREM NothingAfterCancelAlways == Spec => NothingAfterCancel
<1>. DEFINE A == cancelled => \A i \in Calls :
                   /\ phase'[i] = "dispatched" => phase[i] = "dispatched"
                   /\ phase'[i] = "running" => phase[i] \in {"dispatched", "running"}
<1>1. IInv /\ [Next]_vars => A
  <2>. SUFFICES ASSUME IInv, [Next]_vars PROVE A
    OBVIOUS
  <2>1. CASE Cancel
    BY <2>1 DEF Cancel, IInv, TypeOK, Executed
  <2>2. CASE Immediate
    BY <2>2 DEF Immediate, IInv, TypeOK, Executed
  <2>3. CASE BatchEnds
    BY <2>3 DEF BatchEnds, IInv, TypeOK, Executed
  <2>4. CASE Takes
    BY <2>4 DEF Takes, IInv, TypeOK, Executed
  <2>5. ASSUME NEW l \in Calls, BatchBegins(l) PROVE A
    BY <2>5 DEF BatchBegins, IInv, TypeOK, Executed
  <2>6. ASSUME NEW i \in Calls, Joins(i) PROVE A
    BY <2>6 DEF Joins, IInv, TypeOK, Executed
  <2>7. ASSUME NEW i \in Calls, RunsFirst(i) PROVE A
    BY <2>7 DEF RunsFirst, Runs, IInv, TypeOK, Executed
  <2>8. ASSUME NEW i \in Calls, WakesStopped(i) PROVE A
    BY <2>8 DEF WakesStopped, IInv, TypeOK, Executed
  <2>9. ASSUME NEW i \in Calls, WakesToHit(i) PROVE A
    BY <2>9 DEF WakesToHit, IInv, TypeOK, Executed
  <2>10. ASSUME NEW i \in Calls, RunsAgain(i) PROVE A
    BY <2>10 DEF RunsAgain, Runs, IInv, TypeOK, Executed
  <2>11. ASSUME NEW i \in Calls, NEW s \in Executed, Ends(i, s) PROVE A
    BY <2>11 DEF Ends, IInv, TypeOK, Executed
  <2>13. CASE Rejects
    BY <2>13 DEF Rejects, IInv, TypeOK, Executed
  <2>14. ASSUME NEW i \in Calls, Throws(i) PROVE A
    BY <2>14 DEF Throws, IInv, TypeOK, Executed
  <2>12. CASE UNCHANGED vars
    BY <2>12 DEF vars
  <2>. QED
    BY <2>1, <2>2, <2>3, <2>4, <2>5, <2>6, <2>7, <2>8, <2>9, <2>10, <2>11, <2>12, <2>13, <2>14, LooksCases, WakesCases
    DEF Next
<1>. QED
  BY <1>1, Inductive, PTL DEF Spec, NothingAfterCancel

(* The workers of a batch: as many as are allowed, and one call each. *)
Asked == IF MaxParallel = 0 THEN 1 ELSE MaxParallel

LEMMA InFlightFinite == IsFiniteSet(InFlight) /\ Cardinality(InFlight) \in Nat
<1>1. IsFiniteSet(Calls)
  BY SchedulerAssumption, FS_Interval DEF SchedulerAssumption, Calls
<1>2. InFlight \subseteq Calls
  BY DEF InFlight
<1>. QED
  BY <1>1, <1>2, FS_Subset, FS_CardinalityType

LEMMA ThrownFinite == IsFiniteSet(InFlight \cup Thrown)
<1>1. IsFiniteSet(Calls)
  BY SchedulerAssumption, FS_Interval DEF SchedulerAssumption, Calls
<1>2. InFlight \cup Thrown \subseteq Calls
  BY DEF InFlight, Thrown
<1>. QED
  BY <1>1, <1>2, FS_Subset

LEMMA WorkersStep ==
  IInv /\ Cardinality(InFlight) <= Asked /\ [Next]_vars => (Cardinality(InFlight) <= Asked)'
<1>. SUFFICES ASSUME IInv, Cardinality(InFlight) <= Asked, [Next]_vars
              PROVE  Cardinality(InFlight') <= Asked
  BY SchedulerAssumption DEF SchedulerAssumption, Asked
<1>. DEFINE Fewer == InFlight' \subseteq InFlight
<1>. Asked \in Nat
  BY SchedulerAssumption DEF SchedulerAssumption, Asked
<1>0. Fewer => Cardinality(InFlight') <= Asked
  <2>1. Fewer => Cardinality(InFlight') <= Cardinality(InFlight) /\ Cardinality(InFlight') \in Nat
    BY InFlightFinite, FS_Subset, FS_CardinalityType
  <2>. QED
    BY <2>1, InFlightFinite
<1>1. CASE Cancel
  <2>1. Fewer
    BY <1>1 DEF Cancel, InFlight, IInv, TypeOK, Executed
  <2>. QED
    BY <2>1, <1>0
<1>2. CASE Immediate
  <2>1. Fewer
    BY <1>2 DEF Immediate, InFlight, IInv, TypeOK, Executed
  <2>. QED
    BY <2>1, <1>0
<1>3. CASE BatchEnds
  <2>1. Fewer
    BY <1>3 DEF BatchEnds, InFlight, IInv, TypeOK, Executed
  <2>. QED
    BY <2>1, <1>0
<1>4. CASE Takes
  <2>1. InFlight' \subseteq InFlight \cup {next}
    BY <1>4 DEF Takes, InFlight, IInv, TypeOK
  <2>2. Cardinality(InFlight) < Workers
    <3>1. Cardinality(InFlight \cup Thrown) < Workers
      BY <1>4 DEF Takes
    <3>2. /\ Cardinality(InFlight) <= Cardinality(InFlight \cup Thrown)
          /\ Cardinality(InFlight \cup Thrown) \in Nat
      BY ThrownFinite, FS_Subset, FS_CardinalityType
    <3>3. Workers \in Int
      BY <1>4, SchedulerAssumption DEF SchedulerAssumption, Takes, Workers, IInv, TypeOK
    <3>. QED
      BY <3>1, <3>2, <3>3, InFlightFinite
  <2>3. Workers \in Int /\ Workers <= Asked
    BY <1>4, SchedulerAssumption DEF SchedulerAssumption, Takes, Workers, Asked, IInv, TypeOK
  <2>4. /\ IsFiniteSet(InFlight \cup {next})
        /\ Cardinality(InFlight \cup {next}) <= Cardinality(InFlight) + 1
    BY InFlightFinite, FS_AddElement
  <2>5. /\ Cardinality(InFlight') <= Cardinality(InFlight \cup {next})
        /\ Cardinality(InFlight') \in Nat /\ Cardinality(InFlight \cup {next}) \in Nat
    BY <2>1, <2>4, FS_Subset, FS_CardinalityType
  <2>. HIDE DEF Fewer
  <2>. QED
    BY <2>2, <2>3, <2>4, <2>5, InFlightFinite
<1>5. ASSUME NEW l \in Calls, BatchBegins(l) PROVE Fewer
  BY <1>5 DEF BatchBegins, InFlight, IInv, TypeOK, Executed
<1>6. ASSUME NEW i \in Calls, Joins(i) PROVE Fewer
  BY <1>6 DEF Joins, InFlight, IInv, TypeOK, Executed
<1>7. ASSUME NEW i \in Calls, RunsFirst(i) PROVE Fewer
  BY <1>7 DEF RunsFirst, Runs, InFlight, IInv, TypeOK, Executed
<1>8. ASSUME NEW i \in Calls, WakesStopped(i) PROVE Fewer
  BY <1>8 DEF WakesStopped, InFlight, IInv, TypeOK, Executed
<1>9. ASSUME NEW i \in Calls, WakesToHit(i) PROVE Fewer
  BY <1>9 DEF WakesToHit, InFlight, IInv, TypeOK, Executed
<1>10. ASSUME NEW i \in Calls, RunsAgain(i) PROVE Fewer
  BY <1>10 DEF RunsAgain, Runs, InFlight, IInv, TypeOK, Executed
<1>11. ASSUME NEW i \in Calls, NEW s \in Executed, Ends(i, s) PROVE Fewer
  BY <1>11 DEF Ends, InFlight, IInv, TypeOK, Executed
<1>13. CASE Rejects
  <2>1. Fewer
    BY <1>13 DEF Rejects, InFlight, IInv, TypeOK, Executed
  <2>. QED
    BY <2>1, <1>0
<1>14. ASSUME NEW i \in Calls, Throws(i) PROVE Fewer
  BY <1>14 DEF Throws, InFlight, IInv, TypeOK, Executed
<1>12. CASE UNCHANGED vars
  <2>1. Fewer
    BY <1>12 DEF vars, InFlight
  <2>. QED
    BY <2>1, <1>0
<1>. HIDE DEF Fewer
<1>. QED
  BY <1>0, <1>1, <1>2, <1>3, <1>4, <1>5, <1>6, <1>7, <1>8, <1>9, <1>10, <1>11, <1>12, <1>13, <1>14, LooksCases, WakesCases
  DEF Next

(* No more calls in flight than allowed, and nothing beside a call that is  *)
(* not a read.                                                              *)
THEOREM BoundedAlways == Spec => []Bounded
<1>1. Init => Cardinality(InFlight) <= Asked
  <2>1. Init => InFlight = {}
    BY DEF Init, InFlight
  <2>. QED
    BY <2>1, FS_EmptySet, SchedulerAssumption DEF SchedulerAssumption, Asked
<1>2. IInv /\ Cardinality(InFlight) <= Asked => Bounded
  <2>. SUFFICES ASSUME IInv, Cardinality(InFlight) <= Asked PROVE Bounded
    OBVIOUS
  <2>1. ASSUME NEW i \in InFlight, NEW j \in InFlight, i # j PROVE Kind[i] = "read" /\ Kind[j] = "read"
    <3>1. /\ i \in Calls /\ phase[i] \in {"dispatched", "running", "joined"}
          /\ j \in Calls /\ phase[j] \in {"dispatched", "running", "joined"}
      BY DEF InFlight
    <3>2. /\ cursor <= i /\ i <= last
          /\ Kind[i] = "read" => \A w \in Calls : cursor <= w /\ w <= last => Kind[w] = "read"
          /\ Kind[i] # "read" => i = cursor /\ i = last
      BY <3>1, InBatch DEF IInv
    <3>3. cursor <= j /\ j <= last
      BY <3>1, InBatch DEF IInv
    <3>. QED
      BY <2>1, <3>1, <3>2, <3>3, SchedulerAssumption DEF SchedulerAssumption, Calls, IInv, TypeOK
  <2>. QED
    BY <2>1 DEF Bounded, Asked
<1>. QED
  BY <1>1, <1>2, WorkersStep, Inductive, PTL DEF Spec

-----------------------------------------------------------------------------
(* What a read sees.                                                        *)

(* The world is what the writes that have begun have made of it. *)
WriteLog ==
  \A w \in Calls : w \in world <=> Kind[w] = "write" /\ phase[w] \in {"running"} \cup Executed

(* ReadsInOrder, element by element. *)
Sees ==
  \A i \in Calls : Kind[i] = "read" /\ phase[i] \in {"running"} \cup Executed =>
    \A w \in Calls : w \in seen[i] <=> w < i /\ Kind[w] = "write" /\ phase[w] \in Executed

(* A mutation takes effect where it begins to run. *)
LEMMA LogStep == IInv /\ WriteLog /\ [Next]_vars => WriteLog'
<1>. SUFFICES ASSUME IInv, WriteLog, [Next]_vars PROVE WriteLog'
  OBVIOUS
<1>1. CASE Cancel
  BY <1>1, SchedulerAssumption, KeyFacts DEF SchedulerAssumption, Calls, IInv, JoinShape, TypeOK, WriteLog, Executed, Cancel
<1>2. CASE Immediate
  BY <1>2, SchedulerAssumption, KeyFacts DEF SchedulerAssumption, Calls, IInv, JoinShape, TypeOK, WriteLog, Executed, Immediate
<1>3. CASE BatchEnds
  BY <1>3, SchedulerAssumption, KeyFacts DEF SchedulerAssumption, Calls, IInv, JoinShape, TypeOK, WriteLog, Executed, BatchEnds
<1>4. CASE Takes
  <2>1. cursor \in Nat /\ next \in Calls /\ next \in Nat /\ next >= cursor /\ next >= next
    BY <1>4, SchedulerAssumption DEF SchedulerAssumption, Calls, IInv, TypeOK, Takes
  <2>2. phase[next] = "waiting"
    BY <2>1 DEF IInv, BatchShape
  <2>3. \E v \in {"cancelled", "dispatched"} : phase' = [phase EXCEPT ![next] = v]
    BY <1>4 DEF Takes
  <2>4. seen' = seen /\ world' = world
    BY <1>4 DEF Takes
  <2>. QED
    BY <2>1, <2>2, <2>3, <2>4 DEF IInv, TypeOK, WriteLog, Executed
<1>5. ASSUME NEW l \in Calls, BatchBegins(l) PROVE WriteLog'
  BY <1>5, SchedulerAssumption, KeyFacts DEF SchedulerAssumption, Calls, IInv, JoinShape, TypeOK, WriteLog, Executed, BatchBegins
<1>6. ASSUME NEW i \in Calls, Joins(i) PROVE WriteLog'
  BY <1>6, SchedulerAssumption, KeyFacts DEF SchedulerAssumption, Calls, IInv, JoinShape, TypeOK, WriteLog, Executed, Joins
<1>7. ASSUME NEW i \in Calls, RunsFirst(i) PROVE WriteLog'
  BY <1>7, SchedulerAssumption, KeyFacts DEF SchedulerAssumption, Calls, IInv, JoinShape, TypeOK, WriteLog, Executed, RunsFirst, Runs
<1>8. ASSUME NEW i \in Calls, WakesStopped(i) PROVE WriteLog'
  BY <1>8, SchedulerAssumption, KeyFacts DEF SchedulerAssumption, Calls, IInv, JoinShape, TypeOK, WriteLog, Executed, WakesStopped
<1>9. ASSUME NEW i \in Calls, WakesToHit(i) PROVE WriteLog'
  <2>1. phase' = [phase EXCEPT ![i] = "ok"] /\ phase[i] = "joined" /\ world' = world
    BY <1>9 DEF WakesToHit
  <2>2. Kind[i] = "read"
    BY <2>1, KeyFacts, SchedulerAssumption DEF SchedulerAssumption, Calls, IInv, JoinShape
  <2>. QED
    BY <2>1, <2>2 DEF IInv, TypeOK, WriteLog
<1>10. ASSUME NEW i \in Calls, RunsAgain(i) PROVE WriteLog'
  BY <1>10, SchedulerAssumption, KeyFacts DEF SchedulerAssumption, Calls, IInv, JoinShape, TypeOK, WriteLog, Executed, RunsAgain, Runs
<1>11. ASSUME NEW i \in Calls, NEW s \in Executed, Ends(i, s) PROVE WriteLog'
  BY <1>11, SchedulerAssumption, KeyFacts DEF SchedulerAssumption, Calls, IInv, JoinShape, TypeOK, WriteLog, Executed, Ends
<1>13. CASE Rejects
  BY <1>13, SchedulerAssumption, KeyFacts DEF SchedulerAssumption, Calls, IInv, JoinShape, TypeOK, WriteLog, Executed, Rejects
<1>14. ASSUME NEW i \in Calls, Throws(i) PROVE WriteLog'
  BY <1>14, SchedulerAssumption, KeyFacts DEF SchedulerAssumption, Calls, IInv, JoinShape, TypeOK, WriteLog, Executed, Throws
<1>12. CASE UNCHANGED vars
  BY <1>12 DEF SchedulerAssumption, Calls, IInv, JoinShape, TypeOK, WriteLog, Executed, vars
<1>. QED
  BY <1>1, <1>2, <1>3, <1>4, <1>5, <1>6, <1>7, <1>8, <1>9, <1>10, <1>11, <1>12, <1>13, <1>14, LooksCases, WakesCases
  DEF Next

(* A mutation changes nothing for a read that has run. *)
LEMMA SeesStep == IInv /\ WriteLog /\ Sees /\ [Next]_vars => Sees'
<1>. SUFFICES ASSUME IInv, WriteLog, Sees, [Next]_vars PROVE Sees'
  OBVIOUS
<1>1. CASE Cancel
  BY <1>1, SchedulerAssumption, KeyFacts DEF SchedulerAssumption, Calls, IInv, TypeOK, Sees, Executed, Cancel
<1>2. CASE Immediate
  BY <1>2, SchedulerAssumption, KeyFacts DEF SchedulerAssumption, Calls, IInv, TypeOK, Sees, Executed, Immediate
<1>3. CASE BatchEnds
  BY <1>3, SchedulerAssumption, KeyFacts DEF SchedulerAssumption, Calls, IInv, TypeOK, Sees, Executed, BatchEnds
<1>4. CASE Takes
  <2>1. cursor \in Nat /\ next \in Calls /\ next \in Nat /\ next >= cursor /\ next >= next
    BY <1>4, SchedulerAssumption DEF SchedulerAssumption, Calls, IInv, TypeOK, Takes
  <2>2. phase[next] = "waiting"
    BY <2>1 DEF IInv, BatchShape
  <2>3. \E v \in {"cancelled", "dispatched"} : phase' = [phase EXCEPT ![next] = v]
    BY <1>4 DEF Takes
  <2>4. seen' = seen /\ world' = world
    BY <1>4 DEF Takes
  <2>. QED
    BY <2>1, <2>2, <2>3, <2>4 DEF IInv, TypeOK, Sees, Executed
<1>5. ASSUME NEW l \in Calls, BatchBegins(l) PROVE Sees'
  BY <1>5, SchedulerAssumption, KeyFacts DEF SchedulerAssumption, Calls, IInv, TypeOK, Sees, Executed, BatchBegins
<1>6. ASSUME NEW i \in Calls, Joins(i) PROVE Sees'
  BY <1>6, SchedulerAssumption, KeyFacts DEF SchedulerAssumption, Calls, IInv, TypeOK, Sees, Executed, Joins
<1>7. ASSUME NEW i \in Calls, RunsFirst(i) PROVE Sees'
  <2>1. /\ phase' = [phase EXCEPT ![i] = "running"] /\ phase[i] \in {"dispatched", "joined"}
        /\ seen' = [seen EXCEPT ![i] = world]
    BY <1>7 DEF RunsFirst, RunsAgain, Runs
  <2>2. ASSUME Kind[i] = "read", NEW w \in Calls, Kind[w] = "write"
        PROVE  w \in world <=> w < i /\ phase[w] \in Executed
    <3>1. /\ last # 0 /\ last \in Calls /\ cursor <= i /\ i <= last
          /\ \A v \in Calls : cursor <= v /\ v <= last => Kind[v] = "read"
      BY <2>1, <2>2, InBatch DEF IInv
    <3>2. i \in Nat /\ w \in Nat /\ cursor \in Nat /\ last \in Nat /\ next \in Nat /\ next <= last + 1
      BY <3>1, SchedulerAssumption DEF SchedulerAssumption, Calls, IInv, TypeOK
    <3>3. CASE w < cursor
      <4>1. phase[w] # "running"
        BY <3>3 DEF IInv, BatchShape, Settled, Executed
      <4>. QED
        BY <2>2, <3>1, <3>2, <3>3, <4>1 DEF WriteLog
    <3>4. CASE w > last
      <4>1. phase[w] = "waiting"
        BY <3>1, <3>2, <3>4 DEF IInv, BatchShape
      <4>. QED
        BY <4>1 DEF WriteLog, Executed
    <3>. QED
      BY <2>2, <3>1, <3>2, <3>3, <3>4
  <2>3. \A w \in Calls : w \in world => Kind[w] = "write"
    BY DEF WriteLog
  <2>. QED
    BY <2>1, <2>2, <2>3, SchedulerAssumption DEF SchedulerAssumption, Calls, IInv, TypeOK, Sees, Executed
<1>8. ASSUME NEW i \in Calls, WakesStopped(i) PROVE Sees'
  BY <1>8, SchedulerAssumption, KeyFacts DEF SchedulerAssumption, Calls, IInv, TypeOK, Sees, Executed, WakesStopped
<1>9. ASSUME NEW i \in Calls, WakesToHit(i) PROVE Sees'
  <2>1. /\ phase' = [phase EXCEPT ![i] = "ok"] /\ phase[i] = "joined" /\ phase[join[i]] = "ok"
        /\ seen' = [seen EXCEPT ![i] = seen[join[i]]] /\ join[i] \in Calls
    BY <1>9 DEF WakesToHit, IInv, JoinShape
  <2>2. /\ Kind[i] = "read" /\ Kind[join[i]] = "read"
        /\ \A w \in Calls : (i < w /\ w < join[i]) \/ (join[i] < w /\ w < i) => Kind[w] = "read"
    <3>1. Key[i] # 0 /\ Key[join[i]] = Key[i]
      BY <2>1, SchedulerAssumption DEF SchedulerAssumption, Calls, IInv, JoinShape
    <3>. QED
      BY <2>1, <3>1, KeyFacts DEF IInv, JoinShape
  <2>3. \A w \in Calls : Kind[w] = "write" => (w < i <=> w < join[i])
    BY <2>1, <2>2, SchedulerAssumption DEF SchedulerAssumption, Calls
  <2>. QED
    BY <2>1, <2>2, <2>3, SchedulerAssumption DEF SchedulerAssumption, Calls, IInv, TypeOK, Sees, Executed
<1>10. ASSUME NEW i \in Calls, RunsAgain(i) PROVE Sees'
  <2>1. /\ phase' = [phase EXCEPT ![i] = "running"] /\ phase[i] \in {"dispatched", "joined"}
        /\ seen' = [seen EXCEPT ![i] = world]
    BY <1>10 DEF RunsFirst, RunsAgain, Runs
  <2>2. ASSUME Kind[i] = "read", NEW w \in Calls, Kind[w] = "write"
        PROVE  w \in world <=> w < i /\ phase[w] \in Executed
    <3>1. /\ last # 0 /\ last \in Calls /\ cursor <= i /\ i <= last
          /\ \A v \in Calls : cursor <= v /\ v <= last => Kind[v] = "read"
      BY <2>1, <2>2, InBatch DEF IInv
    <3>2. i \in Nat /\ w \in Nat /\ cursor \in Nat /\ last \in Nat /\ next \in Nat /\ next <= last + 1
      BY <3>1, SchedulerAssumption DEF SchedulerAssumption, Calls, IInv, TypeOK
    <3>3. CASE w < cursor
      <4>1. phase[w] # "running"
        BY <3>3 DEF IInv, BatchShape, Settled, Executed
      <4>. QED
        BY <2>2, <3>1, <3>2, <3>3, <4>1 DEF WriteLog
    <3>4. CASE w > last
      <4>1. phase[w] = "waiting"
        BY <3>1, <3>2, <3>4 DEF IInv, BatchShape
      <4>. QED
        BY <4>1 DEF WriteLog, Executed
    <3>. QED
      BY <2>2, <3>1, <3>2, <3>3, <3>4
  <2>3. \A w \in Calls : w \in world => Kind[w] = "write"
    BY DEF WriteLog
  <2>. QED
    BY <2>1, <2>2, <2>3, SchedulerAssumption DEF SchedulerAssumption, Calls, IInv, TypeOK, Sees, Executed
<1>11. ASSUME NEW i \in Calls, NEW s \in Executed, Ends(i, s) PROVE Sees'
  <2>1. phase' = [phase EXCEPT ![i] = s] /\ phase[i] = "running" /\ seen' = seen
    BY <1>11 DEF Ends
  <2>2. ASSUME NEW j \in Calls, Kind[i] = "write", i < j PROVE phase[j] = "waiting"
    <3>1. i = cursor /\ i = last /\ last # 0 /\ next <= last + 1
      BY <2>1, <2>2, InBatch, SchedulerAssumption DEF SchedulerAssumption, Calls, IInv, TypeOK
    <3>. QED
      BY <2>2, <3>1, SchedulerAssumption DEF SchedulerAssumption, Calls, IInv, TypeOK, BatchShape
  <2>. QED
    BY <2>1, <2>2, SchedulerAssumption DEF SchedulerAssumption, Calls, IInv, TypeOK, Sees, Executed
<1>13. CASE Rejects
  BY <1>13, SchedulerAssumption, KeyFacts DEF SchedulerAssumption, Calls, IInv, TypeOK, Sees, Executed, Rejects
<1>14. ASSUME NEW i \in Calls, Throws(i) PROVE Sees'
  BY <1>14, SchedulerAssumption, KeyFacts DEF SchedulerAssumption, Calls, IInv, TypeOK, Sees, Executed, Throws
<1>12. CASE UNCHANGED vars
  BY <1>12 DEF SchedulerAssumption, Calls, IInv, TypeOK, Sees, Executed, vars
<1>. QED
  BY <1>1, <1>2, <1>3, <1>4, <1>5, <1>6, <1>7, <1>8, <1>9, <1>10, <1>11, <1>12, <1>13, <1>14, LooksCases, WakesCases
  DEF Next

(* A read sees the mutations asked for before it, all that were carried out *)
(* and no other, whether it ran, ran again, or was answered from the cache. *)
THEOREM ReadsInOrderAlways == Spec => []ReadsInOrder
<1>1. Init => WriteLog /\ Sees
  BY DEF Init, WriteLog, Sees, Executed
<1>2. IInv /\ WriteLog /\ Sees => ReadsInOrder
  <2>. SUFFICES ASSUME IInv, Sees, NEW i \in Calls, Kind[i] = "read", phase[i] \in {"running"} \cup Executed
                PROVE  seen[i] = {w \in Calls : w < i /\ Kind[w] = "write" /\ phase[w] \in Executed}
    BY DEF ReadsInOrder
  <2>1. seen[i] \subseteq Calls
    BY DEF IInv, TypeOK
  <2>. QED
    BY <2>1 DEF Sees
<1>. QED
  BY <1>1, <1>2, LogStep, SeesStep, Inductive, PTL DEF Spec

-----------------------------------------------------------------------------
(* Sharing.                                                                 *)

Failing(k) == \E f \in Calls : phase[f] = "failed" /\ Key[f] = k
Passed(i) == \E w \in Calls : i < w /\ w < Frontier /\ Kind[w] # "read"

(* A call that ran on its own owns its key, until it failed or a call that  *)
(* is not a read has begun.                                                 *)
Owned ==
  \A i \in Calls :
    phase[i] \in {"running", "ok"} /\ join[i] = 0 /\ Key[i] # 0 =>
      cache[Key[i]] = i \/ Failing(Key[i]) \/ Passed(i)

(* SharedOnce, with its excuse by name. *)
Shared ==
  \A i, j \in Calls :
    /\ i < j /\ Duplicates(i, j)
    /\ phase[i] \in {"running", "ok"} /\ phase[j] \in {"running", "ok"}
    => join[i] # 0 \/ join[j] # 0 \/ Failing(Key[i])

(* A failed call has failed for good. *)
LEMMA FailedStays == IInv /\ [Next]_vars => \A f \in Calls : phase[f] = "failed" => phase'[f] = "failed"
<1>. SUFFICES ASSUME IInv, [Next]_vars PROVE \A f \in Calls : phase[f] = "failed" => phase'[f] = "failed"
  OBVIOUS
<1>1. CASE Cancel
  BY <1>1, SchedulerAssumption, KeyFacts DEF SchedulerAssumption, Calls, IInv, TypeOK, BatchShape, Executed, Entries, Cancel
<1>2. CASE Immediate
  BY <1>2, SchedulerAssumption, KeyFacts DEF SchedulerAssumption, Calls, IInv, TypeOK, BatchShape, Executed, Entries, Immediate
<1>3. CASE BatchEnds
  BY <1>3, SchedulerAssumption, KeyFacts DEF SchedulerAssumption, Calls, IInv, TypeOK, BatchShape, Executed, Entries, BatchEnds
<1>4. CASE Takes
  BY <1>4, SchedulerAssumption, KeyFacts DEF SchedulerAssumption, Calls, IInv, TypeOK, BatchShape, Executed, Entries, Takes
<1>5. ASSUME NEW l \in Calls, BatchBegins(l) PROVE \A f \in Calls : phase[f] = "failed" => phase'[f] = "failed"
  BY <1>5, SchedulerAssumption, KeyFacts DEF SchedulerAssumption, Calls, IInv, TypeOK, BatchShape, Executed, Entries, BatchBegins
<1>6. ASSUME NEW i \in Calls, Joins(i) PROVE \A f \in Calls : phase[f] = "failed" => phase'[f] = "failed"
  BY <1>6, SchedulerAssumption, KeyFacts DEF SchedulerAssumption, Calls, IInv, TypeOK, BatchShape, Executed, Entries, Joins
<1>7. ASSUME NEW i \in Calls, RunsFirst(i) PROVE \A f \in Calls : phase[f] = "failed" => phase'[f] = "failed"
  BY <1>7, SchedulerAssumption, KeyFacts DEF SchedulerAssumption, Calls, IInv, TypeOK, BatchShape, Executed, Entries, RunsFirst, Runs
<1>8. ASSUME NEW i \in Calls, WakesStopped(i) PROVE \A f \in Calls : phase[f] = "failed" => phase'[f] = "failed"
  BY <1>8, SchedulerAssumption, KeyFacts DEF SchedulerAssumption, Calls, IInv, TypeOK, BatchShape, Executed, Entries, WakesStopped
<1>9. ASSUME NEW i \in Calls, WakesToHit(i) PROVE \A f \in Calls : phase[f] = "failed" => phase'[f] = "failed"
  BY <1>9, SchedulerAssumption, KeyFacts DEF SchedulerAssumption, Calls, IInv, TypeOK, BatchShape, Executed, Entries, WakesToHit
<1>10. ASSUME NEW i \in Calls, RunsAgain(i) PROVE \A f \in Calls : phase[f] = "failed" => phase'[f] = "failed"
  BY <1>10, SchedulerAssumption, KeyFacts DEF SchedulerAssumption, Calls, IInv, TypeOK, BatchShape, Executed, Entries, RunsAgain, Runs
<1>11. ASSUME NEW i \in Calls, NEW s \in Executed, Ends(i, s) PROVE \A f \in Calls : phase[f] = "failed" => phase'[f] = "failed"
  BY <1>11, SchedulerAssumption, KeyFacts DEF SchedulerAssumption, Calls, IInv, TypeOK, BatchShape, Executed, Entries, Ends
<1>13. CASE Rejects
  BY <1>13, SchedulerAssumption, KeyFacts DEF SchedulerAssumption, Calls, IInv, TypeOK, BatchShape, Executed, Entries, Rejects
<1>14. ASSUME NEW i \in Calls, Throws(i) PROVE \A f \in Calls : phase[f] = "failed" => phase'[f] = "failed"
  BY <1>14, SchedulerAssumption, KeyFacts DEF SchedulerAssumption, Calls, IInv, TypeOK, BatchShape, Executed, Entries, Throws
<1>12. CASE UNCHANGED vars
  BY <1>12 DEF SchedulerAssumption, Calls, IInv, TypeOK, BatchShape, Executed, Entries, vars
<1>. QED
  BY <1>1, <1>2, <1>3, <1>4, <1>5, <1>6, <1>7, <1>8, <1>9, <1>10, <1>11, <1>12, <1>13, <1>14, LooksCases, WakesCases
  DEF Next

(* The frontier does not move back. *)
LEMMA FrontierGrows == IInv /\ [Next]_vars => Frontier' >= Frontier
<1>. SUFFICES ASSUME IInv, [Next]_vars PROVE Frontier' >= Frontier
  OBVIOUS
<1>1. CASE Cancel
  BY <1>1, SchedulerAssumption, KeyFacts DEF SchedulerAssumption, Calls, IInv, TypeOK, Frontier, Entries, Shares, Cancel
<1>2. CASE Immediate
  BY <1>2, SchedulerAssumption, KeyFacts DEF SchedulerAssumption, Calls, IInv, TypeOK, Frontier, Entries, Shares, Immediate
<1>3. CASE BatchEnds
  BY <1>3, SchedulerAssumption, KeyFacts DEF SchedulerAssumption, Calls, IInv, TypeOK, Frontier, Entries, Shares, BatchEnds
<1>4. CASE Takes
  BY <1>4, SchedulerAssumption, KeyFacts DEF SchedulerAssumption, Calls, IInv, TypeOK, Frontier, Entries, Shares, Takes
<1>5. ASSUME NEW l \in Calls, BatchBegins(l) PROVE Frontier' >= Frontier
  BY <1>5, SchedulerAssumption, KeyFacts DEF SchedulerAssumption, Calls, IInv, TypeOK, Frontier, Entries, Shares, BatchBegins
<1>6. ASSUME NEW i \in Calls, Joins(i) PROVE Frontier' >= Frontier
  BY <1>6, SchedulerAssumption, KeyFacts DEF SchedulerAssumption, Calls, IInv, TypeOK, Frontier, Entries, Shares, Joins
<1>7. ASSUME NEW i \in Calls, RunsFirst(i) PROVE Frontier' >= Frontier
  BY <1>7, SchedulerAssumption, KeyFacts DEF SchedulerAssumption, Calls, IInv, TypeOK, Frontier, Entries, Shares, RunsFirst, Runs
<1>8. ASSUME NEW i \in Calls, WakesStopped(i) PROVE Frontier' >= Frontier
  BY <1>8, SchedulerAssumption, KeyFacts DEF SchedulerAssumption, Calls, IInv, TypeOK, Frontier, Entries, Shares, WakesStopped
<1>9. ASSUME NEW i \in Calls, WakesToHit(i) PROVE Frontier' >= Frontier
  BY <1>9, SchedulerAssumption, KeyFacts DEF SchedulerAssumption, Calls, IInv, TypeOK, Frontier, Entries, Shares, WakesToHit
<1>10. ASSUME NEW i \in Calls, RunsAgain(i) PROVE Frontier' >= Frontier
  BY <1>10, SchedulerAssumption, KeyFacts DEF SchedulerAssumption, Calls, IInv, TypeOK, Frontier, Entries, Shares, RunsAgain, Runs
<1>11. ASSUME NEW i \in Calls, NEW s \in Executed, Ends(i, s) PROVE Frontier' >= Frontier
  BY <1>11, SchedulerAssumption, KeyFacts DEF SchedulerAssumption, Calls, IInv, TypeOK, Frontier, Entries, Shares, Ends
<1>13. CASE Rejects
  BY <1>13, SchedulerAssumption, KeyFacts DEF SchedulerAssumption, Calls, IInv, TypeOK, Frontier, Entries, Shares, Rejects
<1>14. ASSUME NEW i \in Calls, Throws(i) PROVE Frontier' >= Frontier
  BY <1>14, SchedulerAssumption, KeyFacts DEF SchedulerAssumption, Calls, IInv, TypeOK, Frontier, Entries, Shares, Throws
<1>12. CASE UNCHANGED vars
  BY <1>12 DEF SchedulerAssumption, Calls, IInv, TypeOK, Frontier, Entries, Shares, vars
<1>. QED
  BY <1>1, <1>2, <1>3, <1>4, <1>5, <1>6, <1>7, <1>8, <1>9, <1>10, <1>11, <1>12, <1>13, <1>14, LooksCases, WakesCases
  DEF Next

LEMMA ExcusesStay ==
  IInv /\ [Next]_vars => \A i \in Calls : (Failing(Key[i]) => Failing(Key[i])') /\ (Passed(i) => Passed(i)')
<1>. SUFFICES ASSUME IInv, [Next]_vars, NEW i \in Calls
              PROVE  (Failing(Key[i]) => Failing(Key[i])') /\ (Passed(i) => Passed(i)')
  OBVIOUS
<1>1. Failing(Key[i]) => Failing(Key[i])'
  BY FailedStays DEF Failing
<1>2. Frontier \in Nat /\ Frontier' \in Nat
  BY TypeStep, SchedulerAssumption DEF SchedulerAssumption, IInv, TypeOK, Frontier
<1>3. Passed(i) => Passed(i)'
  BY <1>2, FrontierGrows, SchedulerAssumption DEF SchedulerAssumption, Calls, Passed
<1>. QED
  BY <1>1, <1>3

(* Only a failure or a mutation takes a key from its owner. *)
LEMMA OwnedStep == IInv /\ Owned /\ [Next]_vars => Owned'
<1>. SUFFICES ASSUME IInv, Owned, [Next]_vars PROVE Owned'
  OBVIOUS
<1>0. \A i \in Calls : (Failing(Key[i]) => Failing(Key[i])') /\ (Passed(i) => Passed(i)')
  BY ExcusesStay
<1>1. CASE Cancel
  BY <1>1, SchedulerAssumption, KeyFacts, <1>0 DEF SchedulerAssumption, Calls, IInv, TypeOK, JoinShape, Owned, Executed, Cancel
<1>2. CASE Immediate
  <2>1. cursor \in Calls /\ last = 0
    BY <1>2 DEF Immediate, Entries
  <2>2. CASE Kind[cursor] = "read"
    BY <1>2, <2>2, ExcusesStay DEF Immediate, IInv, TypeOK, Owned
  <2>3. CASE Kind[cursor] # "read"
    <3>1. ASSUME NEW i \in Calls, phase[i] # "waiting", Key[i] # 0 PROVE Passed(i)'
      <4>1. i < cursor /\ cursor \in Nat
        BY <2>1, <3>1, SchedulerAssumption DEF SchedulerAssumption, Calls, IInv, BatchShape
      <4>2. cursor < Frontier'
        BY <1>2, <2>1, <2>3, <4>1, SchedulerAssumption DEF SchedulerAssumption, Calls, Frontier, Immediate
      <4>. QED
        BY <2>1, <2>3, <4>1, <4>2 DEF Passed
    <3>2. \A i \in Calls : phase'[i] \in {"running", "ok"} /\ Key[i] # 0 => phase[i] # "waiting"
      BY <1>2, <2>1, <2>3, KeyFacts DEF Immediate, IInv, TypeOK
    <3>. QED
      BY <3>1, <3>2 DEF Owned
  <2>. QED
    BY <2>2, <2>3
<1>3. CASE BatchEnds
  BY <1>3, SchedulerAssumption, KeyFacts, <1>0 DEF SchedulerAssumption, Calls, IInv, TypeOK, JoinShape, Owned, Executed, BatchEnds
<1>4. CASE Takes
  BY <1>4, SchedulerAssumption, KeyFacts, <1>0 DEF SchedulerAssumption, Calls, IInv, TypeOK, JoinShape, Owned, Executed, Takes
<1>5. ASSUME NEW l \in Calls, BatchBegins(l) PROVE Owned'
  <2>1. cursor \in Calls /\ last = 0
    BY <1>5 DEF BatchBegins, Entries
  <2>2. CASE Kind[cursor] = "read"
    BY <1>5, <2>2, ExcusesStay DEF BatchBegins, IInv, TypeOK, Owned
  <2>3. CASE Kind[cursor] # "read"
    <3>1. ASSUME NEW i \in Calls, phase[i] # "waiting", Key[i] # 0 PROVE Passed(i)'
      <4>1. i < cursor /\ cursor \in Nat
        BY <2>1, <3>1, SchedulerAssumption DEF SchedulerAssumption, Calls, IInv, BatchShape
      <4>2. cursor < Frontier'
        BY <1>5, <2>1, <2>3, <4>1, SchedulerAssumption DEF SchedulerAssumption, Calls, Frontier, BatchBegins
      <4>. QED
        BY <2>1, <2>3, <4>1, <4>2 DEF Passed
    <3>2. \A i \in Calls : phase'[i] \in {"running", "ok"} /\ Key[i] # 0 => phase[i] # "waiting"
      BY <1>5, <2>1, <2>3, KeyFacts DEF BatchBegins, IInv, TypeOK
    <3>. QED
      BY <3>1, <3>2 DEF Owned
  <2>. QED
    BY <2>2, <2>3
<1>6. ASSUME NEW i \in Calls, Joins(i) PROVE Owned'
  <2>1. /\ phase' = [phase EXCEPT ![i] = "joined"] /\ cache' = cache
        /\ \A j \in Calls : j # i => join'[j] = join[j]
    BY <1>6, SchedulerAssumption DEF SchedulerAssumption, Calls, Joins, IInv, JoinShape
  <2>. QED
    BY <1>0, <2>1 DEF Owned, IInv, TypeOK
<1>7. ASSUME NEW i \in Calls, RunsFirst(i) PROVE Owned'
  <2>1. /\ phase' = [phase EXCEPT ![i] = "running"] /\ join' = join
        /\ Key[i] = 0 \/ cache[Key[i]] = 0
        /\ cache' = IF Key[i] # 0 THEN [cache EXCEPT ![Key[i]] = i] ELSE cache
    BY <1>7 DEF RunsFirst, Runs
  <2>2. \A j \in Calls : j # 0
    BY SchedulerAssumption DEF SchedulerAssumption, Calls
  <2>3. Key[i] # 0 => cache'[Key[i]] = i
    BY <2>1, KeyFacts DEF IInv, TypeOK
  <2>4. \A j \in Calls : Key[j] # 0 /\ Key[j] # Key[i] => cache'[Key[j]] = cache[Key[j]]
    BY <2>1, KeyFacts DEF IInv, TypeOK
  <2>. QED
    BY <1>0, <2>1, <2>2, <2>3, <2>4 DEF Owned, IInv, TypeOK
<1>8. ASSUME NEW i \in Calls, WakesStopped(i) PROVE Owned'
  <2>1. /\ phase' = [phase EXCEPT ![i] = "cancelled"] /\ cache' = cache
        /\ join' = join
    BY <1>8, SchedulerAssumption DEF SchedulerAssumption, Calls, WakesStopped, IInv, JoinShape
  <2>. QED
    BY <1>0, <2>1 DEF Owned, IInv, TypeOK
<1>9. ASSUME NEW i \in Calls, WakesToHit(i) PROVE Owned'
  <2>1. /\ phase' = [phase EXCEPT ![i] = "ok"] /\ cache' = cache
        /\ join' = join /\ join[i] # 0
    BY <1>9, SchedulerAssumption DEF SchedulerAssumption, Calls, WakesToHit, IInv, JoinShape
  <2>. QED
    BY <1>0, <2>1 DEF Owned, IInv, TypeOK
<1>10. ASSUME NEW i \in Calls, RunsAgain(i) PROVE Owned'
  <2>1. /\ phase' = [phase EXCEPT ![i] = "running"] /\ cache' = cache
        /\ join' = join /\ join[i] # 0
    BY <1>10, SchedulerAssumption DEF SchedulerAssumption, Calls, RunsAgain, Runs, IInv, JoinShape
  <2>. QED
    BY <1>0, <2>1 DEF Owned, IInv, TypeOK
<1>11. ASSUME NEW i \in Calls, NEW s \in Executed, Ends(i, s) PROVE Owned'
  <2>1. phase' = [phase EXCEPT ![i] = s] /\ phase[i] = "running" /\ join' = join
    BY <1>11 DEF Ends
  <2>2. CASE s = "failed" /\ Key[i] # 0 /\ join[i] = 0
    <3>1. cache' = [cache EXCEPT ![Key[i]] = 0] /\ phase'[i] = "failed"
      BY <1>11, <2>1, <2>2 DEF Ends, IInv, TypeOK
    <3>2. Failing(Key[i])'
      BY <3>1 DEF Failing
    <3>3. \A j \in Calls : Key[j] # 0 /\ Key[j] # Key[i] => cache'[Key[j]] = cache[Key[j]]
      BY <3>1, KeyFacts DEF IInv, TypeOK
    <3>. QED
      BY <2>1, <3>2, <3>3, <3>1, <1>0 DEF IInv, TypeOK, Owned
  <2>3. CASE ~(s = "failed" /\ Key[i] # 0 /\ join[i] = 0)
    <3>1. cache' = cache
      BY <1>11, <2>3 DEF Ends
    <3>. QED
      BY <2>1, <2>3, <3>1, <1>0 DEF IInv, TypeOK, Owned, Executed
  <2>. QED
    BY <2>2, <2>3
<1>13. CASE Rejects
  BY <1>13, SchedulerAssumption, KeyFacts, <1>0 DEF SchedulerAssumption, Calls, IInv, TypeOK, JoinShape, Owned, Executed, Rejects
<1>14. ASSUME NEW i \in Calls, Throws(i) PROVE Owned'
  <2>1. /\ phase' = [phase EXCEPT ![i] = "threw"] /\ cache' = cache
        /\ join' = join
    BY <1>14, SchedulerAssumption DEF SchedulerAssumption, Calls, Throws, IInv, JoinShape
  <2>. QED
    BY <1>0, <2>1 DEF Owned, IInv, TypeOK
<1>12. CASE UNCHANGED vars
  BY <1>12, <1>0 DEF SchedulerAssumption, Calls, IInv, TypeOK, JoinShape, Owned, Executed, vars
<1>. QED
  BY <1>1, <1>2, <1>3, <1>4, <1>5, <1>6, <1>7, <1>8, <1>9, <1>10, <1>11, <1>12, <1>13, <1>14, LooksCases, WakesCases
  DEF Next

(* A read that runs on its own finds no result to share. *)
LEMMA SharedStep == IInv /\ Owned /\ Shared /\ [Next]_vars => Shared'
<1>. SUFFICES ASSUME IInv, Owned, Shared, [Next]_vars PROVE Shared'
  OBVIOUS
<1>0. \A i \in Calls : (Failing(Key[i]) => Failing(Key[i])') /\ (Passed(i) => Passed(i)')
  BY ExcusesStay
<1>1. CASE Cancel
  BY <1>1, SchedulerAssumption, KeyFacts, <1>0 DEF SchedulerAssumption, Calls, IInv, JoinShape, TypeOK, Shared, Duplicates, Executed, Cancel
<1>2. CASE Immediate
  <2>1. phase' = [phase EXCEPT ![cursor] = "ok"] /\ join' = join /\ Key[cursor] = 0 /\ cursor \in Calls
    BY <1>2, KeyFacts DEF Immediate, Entries
  <2>2. \A i, j \in Calls : i < j /\ Duplicates(i, j) => i # cursor /\ j # cursor
    BY <2>1 DEF Duplicates
  <2>. QED
    BY <1>0, <2>1, <2>2 DEF Shared, Duplicates, IInv, TypeOK
<1>3. CASE BatchEnds
  BY <1>3, SchedulerAssumption, KeyFacts, <1>0 DEF SchedulerAssumption, Calls, IInv, JoinShape, TypeOK, Shared, Duplicates, Executed, BatchEnds
<1>4. CASE Takes
  <2>1. cursor \in Nat /\ next \in Calls /\ next \in Nat /\ next >= cursor /\ next >= next
    BY <1>4, SchedulerAssumption DEF SchedulerAssumption, Calls, IInv, TypeOK, Takes
  <2>2. phase[next] = "waiting"
    BY <2>1 DEF IInv, BatchShape
  <2>3. \E v \in {"cancelled", "dispatched"} : phase' = [phase EXCEPT ![next] = v]
    BY <1>4 DEF Takes
  <2>4. join' = join
    BY <1>4 DEF Takes
  <2>. QED
    BY <1>0, <2>1, <2>2, <2>3, <2>4 DEF Shared, Duplicates, IInv, TypeOK
<1>5. ASSUME NEW l \in Calls, BatchBegins(l) PROVE Shared'
  BY <1>5, SchedulerAssumption, KeyFacts, <1>0 DEF SchedulerAssumption, Calls, IInv, JoinShape, TypeOK, Shared, Duplicates, Executed, BatchBegins
<1>6. ASSUME NEW i \in Calls, Joins(i) PROVE Shared'
  <2>1. /\ phase' = [phase EXCEPT ![i] = "joined"] /\ cache' = cache
        /\ \A j \in Calls : j # i => join'[j] = join[j]
    BY <1>6, SchedulerAssumption DEF SchedulerAssumption, Calls, Joins, IInv, JoinShape
  <2>. QED
    BY <1>0, <2>1 DEF Shared, Duplicates, IInv, TypeOK
<1>7. ASSUME NEW i \in Calls, RunsFirst(i) PROVE Shared'
  <2>1. /\ phase' = [phase EXCEPT ![i] = "running"] /\ phase[i] = "dispatched" /\ join' = join
        /\ Key[i] = 0 \/ cache[Key[i]] = 0
    BY <1>7 DEF RunsFirst, Runs
  <2>2. ASSUME NEW j \in Calls, j # i, Key[i] # 0, Key[j] = Key[i], phase[j] \in {"running", "ok"}, join[j] = 0,
               \A w \in Calls : (i < w /\ w < j) \/ (j < w /\ w < i) => Kind[w] = "read"
        PROVE  Failing(Key[i])
    <3>1. /\ last # 0 /\ last \in Calls /\ cursor <= i /\ i <= last
          /\ \A v \in Calls : cursor <= v /\ v <= last => Kind[v] = "read"
      BY <2>1, <2>2, KeyFacts, InBatch DEF IInv
    <3>2. i \in Nat /\ j \in Nat /\ cursor \in Nat /\ last \in Nat /\ Frontier = last + 1
      BY <3>1, SchedulerAssumption DEF SchedulerAssumption, Calls, IInv, TypeOK, Frontier
    <3>3. ~Passed(j)
      <4>. SUFFICES ASSUME NEW w \in Calls, j < w, w < Frontier, Kind[w] # "read" PROVE FALSE
        BY DEF Passed
      <4>1. w \in Nat
        BY SchedulerAssumption DEF SchedulerAssumption, Calls
      <4>2. w # i
        BY <2>2, KeyFacts
      <4>. QED
        BY <2>2, <3>1, <3>2, <4>1, <4>2
    <3>4. cache[Key[j]] # j
      BY <2>1, <2>2, SchedulerAssumption DEF SchedulerAssumption, Calls
    <3>. QED
      BY <2>2, <3>3, <3>4 DEF Owned
  <2>3. \A j, k \in Calls : j < k /\ Duplicates(j, k) =>
          /\ Key[j] # 0 /\ Key[j] = Key[k]
          /\ \A w \in Calls : j < w /\ w < k => Kind[w] = "read"
    BY SchedulerAssumption DEF SchedulerAssumption, Calls, Duplicates
  <2>4. ASSUME NEW j \in Calls, NEW k \in Calls, j < k, Duplicates(j, k), join[j] = 0, join[k] = 0,
               phase'[j] \in {"running", "ok"}, phase'[k] \in {"running", "ok"}
        PROVE  Failing(Key[j])
    <3>1. CASE j = i
      <4>1. ~(k < i)
        BY <2>4, <3>1, SchedulerAssumption DEF SchedulerAssumption, Calls
      <4>. QED
        BY <2>1, <2>2, <2>3, <2>4, <3>1, <4>1, SchedulerAssumption DEF SchedulerAssumption, Calls, IInv, TypeOK
    <3>2. CASE k = i
      BY <2>1, <2>2, <2>3, <2>4, <3>2, SchedulerAssumption DEF SchedulerAssumption, Calls, IInv, TypeOK
    <3>3. CASE j # i /\ k # i
      BY <2>1, <2>4, <3>3 DEF Shared, IInv, TypeOK
    <3>. QED
      BY <3>1, <3>2, <3>3
  <2>. QED
    BY <2>1, <2>4, <1>0 DEF Shared, Duplicates
<1>8. ASSUME NEW i \in Calls, WakesStopped(i) PROVE Shared'
  <2>1. /\ phase' = [phase EXCEPT ![i] = "cancelled"] /\ cache' = cache
        /\ join' = join
    BY <1>8, SchedulerAssumption DEF SchedulerAssumption, Calls, WakesStopped, IInv, JoinShape
  <2>. QED
    BY <1>0, <2>1 DEF Shared, Duplicates, IInv, TypeOK
<1>9. ASSUME NEW i \in Calls, WakesToHit(i) PROVE Shared'
  <2>1. /\ phase' = [phase EXCEPT ![i] = "ok"] /\ cache' = cache
        /\ join' = join /\ join[i] # 0
    BY <1>9, SchedulerAssumption DEF SchedulerAssumption, Calls, WakesToHit, IInv, JoinShape
  <2>. QED
    BY <1>0, <2>1 DEF Shared, Duplicates, IInv, TypeOK
<1>10. ASSUME NEW i \in Calls, RunsAgain(i) PROVE Shared'
  <2>1. /\ phase' = [phase EXCEPT ![i] = "running"] /\ cache' = cache
        /\ join' = join /\ join[i] # 0
    BY <1>10, SchedulerAssumption DEF SchedulerAssumption, Calls, RunsAgain, Runs, IInv, JoinShape
  <2>. QED
    BY <1>0, <2>1 DEF Shared, Duplicates, IInv, TypeOK
<1>11. ASSUME NEW i \in Calls, NEW s \in Executed, Ends(i, s) PROVE Shared'
  <2>1. phase' = [phase EXCEPT ![i] = s] /\ phase[i] = "running" /\ join' = join /\ s \in {"ok", "failed"}
    BY <1>11 DEF Ends, Executed
  <2>. QED
    BY <1>0, <2>1 DEF Shared, Duplicates, IInv, TypeOK
<1>13. CASE Rejects
  BY <1>13, SchedulerAssumption, KeyFacts, <1>0 DEF SchedulerAssumption, Calls, IInv, JoinShape, TypeOK, Shared, Duplicates, Executed, Rejects
<1>14. ASSUME NEW i \in Calls, Throws(i) PROVE Shared'
  <2>1. /\ phase' = [phase EXCEPT ![i] = "threw"] /\ cache' = cache
        /\ join' = join
    BY <1>14, SchedulerAssumption DEF SchedulerAssumption, Calls, Throws, IInv, JoinShape
  <2>. QED
    BY <1>0, <2>1 DEF Shared, Duplicates, IInv, TypeOK
<1>12. CASE UNCHANGED vars
  BY <1>12, <1>0 DEF SchedulerAssumption, Calls, IInv, JoinShape, TypeOK, Shared, Duplicates, Executed, vars
<1>. QED
  BY <1>1, <1>2, <1>3, <1>4, <1>5, <1>6, <1>7, <1>8, <1>9, <1>10, <1>11, <1>12, <1>13, <1>14, LooksCases, WakesCases
  DEF Next

(* Duplicate reads with nothing but reads between them run once, unless an  *)
(* execution has failed.                                                    *)
THEOREM SharedOnceAlways == Spec => []SharedOnce
<1>1. Init => Owned /\ Shared
  BY DEF Init, Owned, Shared
<1>2. Shared => SharedOnce
  BY DEF Shared, SharedOnce, Failing
<1>. QED
  BY <1>1, <1>2, OwnedStep, SharedStep, Inductive, PTL DEF Spec
=============================================================================
