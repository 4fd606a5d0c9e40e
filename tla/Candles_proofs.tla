-------------------------- MODULE Candles_proofs ---------------------------
(***************************************************************************)
(* What the warehouse of CandlePipeline promises, for every number of      *)
(* minutes, size of a bucket, a page and the queue, and any faults; and    *)
(* what the processor of CandleTriggers makes of the candles it finds, for *)
(* any market.                                                             *)
(***************************************************************************)
EXTENDS CandleTriggers, FiniteSetTheorems, WellFoundedInduction, TLAPS

-----------------------------------------------------------------------------
(* Minima and maxima.                                                      *)

LEMMA LeastElement ==
  ASSUME NEW S \in SUBSET Nat, S # {}
  PROVE  \E x \in S : \A y \in S : x <= y
<1>1. \E x \in S : \A y \in S : <<y, x>> \notin OpToRel(<, Nat)
  BY NatLessThanWellFounded, WFMin
<1>2. \A x, y \in Nat : <<y, x>> \notin OpToRel(<, Nat) => x <= y
  BY DEF OpToRel
<1> QED
  BY <1>1, <1>2

LEMMA MinIsLeast ==
  ASSUME NEW S \in SUBSET Nat, S # {}
  PROVE  Min(S) \in S /\ \A x \in S : Min(S) <= x
  BY LeastElement DEF Min

LEMMA MaxIsGreatest ==
  ASSUME NEW n \in Nat, NEW S \in SUBSET (0..n), S # {}
  PROVE  Max(S) \in S /\ \A x \in S : x <= Max(S)
<1> DEFINE D == {n - x : x \in S}
<1>1. D \in SUBSET Nat /\ D # {}
  <2>1. \A x \in S : n - x \in Nat
    OBVIOUS
  <2>2. PICK x \in S : TRUE
    OBVIOUS
  <2>3. D \in SUBSET Nat
    BY <2>1, Zenon
  <2>4. n - x \in D
    BY <2>2
  <2> QED
    BY <2>3, <2>4
<1>2. PICK d \in D : \A e \in D : d <= e
  BY <1>1, LeastElement
<1>3. PICK x \in S : d = n - x
  BY <1>2
<1>4. \A y \in S : y <= x
  BY <1>2, <1>3
<1> QED
  BY <1>4 DEF Max

-----------------------------------------------------------------------------
(* The inductive invariant.                                                *)

Closed == (1..(now - 1)) \ halted

StoreRows == [one : SUBSET Minutes, derived : SUBSET Buckets, macd : SUBSET Minutes]

\* Only final candles are on their way to the warehouse.
Sent ==
    /\ \A i \in 1..Len(wire) : wire[i] \in Closed
    /\ \A i \in 1..Len(queue) : queue[i] \in Closed

\* A candle is stored before the worker counts on it.
Drained == worker.pc \in {"clear", "insert", "derive"} => worker.candle \in store.one

\* What the repair looks for closed before it began, and what it reports is
\* stored.
Ranged ==
    /\ repair.final < now
    /\ repair.pc # "idle" => repair.start >= 1
    /\ repair.pc # "idle" => repair.todo \subseteq repair.start..repair.final
    /\ repair.todo # {} => repair.cursor >= 1
    /\ repair.last # 0 => repair.last \in store.one

\* The repair has a success to record, or may yet have one.
Succeeding == repair.pc \in {"clear", "insert"} /\ repair.status = "success"
Hopeful ==
    \/ repair.pc \in {"page", "derive", "indicate"}
    \/ repair.pc \in {"clear", "insert"} /\ repair.status # "failed"

\* Every minute of the span is stored, has no candle, or is yet to be asked for.
Span == (repair.start..repair.final) \ halted
Fetched == \A m \in Span : m \in store.one \/ (m \in repair.todo /\ repair.cursor <= m)

Progress ==
    /\ Hopeful => Fetched
    /\ repair.pc \in {"derive", "indicate"} \/ Succeeding => repair.todo = {}
    /\ repair.pc = "indicate" \/ Succeeding =>
          \A b \in Buckets : b..(b + BucketSize - 1) \subseteq Span => b \in store.derived
    /\ Succeeding => store.one \cap Span \subseteq store.macd

Inv ==
    /\ TypeOK /\ WarehouseIsFinal /\ CheckpointIsStored
    /\ Sent /\ Drained /\ Ranged /\ Progress

-----------------------------------------------------------------------------
(* The store.                                                              *)

\* What any writer may do to the store while others are under way.
Grows ==
    /\ store' \in StoreRows
    /\ store.one \subseteq store'.one /\ store'.one \subseteq Closed'
    /\ store.derived \subseteq store'.derived
    /\ store.macd \subseteq store'.macd
    /\ \A b \in store'.derived : b..(b + BucketSize - 1) \subseteq store'.one

LEMMA Constants ==
  /\ MaxMinute \in Nat /\ BucketSize \in Nat /\ QueueSize \in Nat /\ PageLimit \in Nat
  /\ Lookback \in Nat /\ MaxFaults \in Nat
  /\ MaxMinute >= 1 /\ BucketSize >= 1 /\ QueueSize >= 1 /\ PageLimit >= 1 /\ Lookback >= 1
  BY SizesAssumption

LEMMA UpsertedGrows ==
  ASSUME Inv, NEW rows \in SUBSET Closed, store' = Upserted(rows), UNCHANGED <<now, halted>>
  PROVE  Grows /\ store'.one = store.one \cup rows
<1>1. store \in StoreRows /\ store.one \subseteq Closed /\ rows \subseteq Minutes
  BY Constants DEF Inv, TypeOK, StoreRows, WarehouseIsFinal, Closed, Minutes
<1>2. /\ store'.one = store.one \cup rows
      /\ store'.derived = store.derived /\ store'.macd = store.macd
      /\ store' \in StoreRows
  BY <1>1 DEF Upserted, StoreRows
<1>3. Closed' = Closed
  BY DEF Closed
<1> QED
  BY <1>1, <1>2, <1>3 DEF Grows, Inv, WarehouseIsFinal

LEMMA DerivedGrows ==
  ASSUME Inv, store' = Derived, UNCHANGED <<now, halted>>
  PROVE  Grows /\ \A b \in Buckets : b..(b + BucketSize - 1) \subseteq store.one
                                        => b \in store'.derived
<1>1. store \in StoreRows /\ store.one \subseteq Closed
  BY DEF Inv, TypeOK, StoreRows, WarehouseIsFinal, Closed
<1>2. /\ store'.one = store.one /\ store'.macd = store.macd
      /\ store'.derived = store.derived \cup {b \in Buckets : Complete(b)}
      /\ store' \in StoreRows
  BY <1>1 DEF Derived, StoreRows
<1>3. Closed' = Closed
  BY DEF Closed
<1> QED
  BY <1>1, <1>2, <1>3 DEF Grows, Inv, WarehouseIsFinal, Complete

LEMMA PointedGrows ==
  ASSUME Inv, store' = Pointed(IndicatorSource), UNCHANGED <<now, halted>>
  PROVE  Grows /\ store'.one = store.one /\ store'.one \subseteq store'.macd
<1>1. store \in StoreRows /\ store.one \subseteq Closed
  BY DEF Inv, TypeOK, StoreRows, WarehouseIsFinal, Closed
<1>2. /\ store'.one = store.one /\ store'.derived = store.derived
      /\ store'.macd = store.macd \cup store.one
      /\ store' \in StoreRows
  BY <1>1 DEF Pointed, IndicatorSource, StoreRows
<1>3. Closed' = Closed
  BY DEF Closed
<1> QED
  BY <1>1, <1>2, <1>3 DEF Grows, Inv, WarehouseIsFinal

LEMMA KeptGrows ==
  ASSUME Inv, UNCHANGED <<store, halted>>, now' = now \/ now' = now + 1
  PROVE  Grows
<1>1. store \in StoreRows /\ store.one \subseteq Closed /\ now \in Nat
  BY Constants DEF Inv, TypeOK, StoreRows, WarehouseIsFinal, Closed
<1>2. Closed \subseteq Closed'
  BY <1>1 DEF Closed
<1> QED
  BY <1>1, <1>2 DEF Grows, Inv, WarehouseIsFinal

\* The warehouse stays final, whoever writes.
LEMMA GrownIsFinal == ASSUME Grows PROVE WarehouseIsFinal'
  BY DEF Grows, WarehouseIsFinal, Closed

\* A repair that is under way keeps what it has reached: its span closed
\* before it began, so nothing can be added to what it has drawn.
LEMMA RepairStands ==
  ASSUME Inv, Grows, UNCHANGED <<repair, halted>>, now' \in Nat, now <= now'
  PROVE  Ranged' /\ Progress'
<1>1. now \in Nat /\ repair.final \in Nat
  BY Constants DEF Inv, TypeOK
<1>2. Ranged'
  BY <1>1 DEF Inv, Ranged, Grows
<1>3. Span' = Span /\ Hopeful' = Hopeful /\ Succeeding' = Succeeding
  BY DEF Span, Hopeful, Succeeding
<1>4. Fetched => Fetched'
  BY <1>3 DEF Fetched, Grows
<1>5. Succeeding => store'.one \cap Span \subseteq store'.macd
  BY DEF Inv, Progress, Hopeful, Succeeding, Fetched, Grows
<1> QED
  BY <1>2, <1>3, <1>4, <1>5 DEF Inv, Progress, Grows

-----------------------------------------------------------------------------
(* Everything but the repair: one step per action.                         *)

LEMMA InvInit == Init => Inv
<1> SUFFICES ASSUME Init PROVE Inv
  OBVIOUS
<1>1. TypeOK
  BY Constants DEF Init, TypeOK, Waiting, NoState, NoRepair, Minutes
<1>2. WarehouseIsFinal /\ CheckpointIsStored
  BY DEF Init, WarehouseIsFinal, CheckpointIsStored, NoState
<1>3. Sent /\ Drained /\ Ranged
  BY DEF Init, Sent, Drained, Ranged, Waiting, NoRepair
<1>4. Progress
  BY DEF Init, Progress, Hopeful, Succeeding, NoRepair
<1> QED
  BY <1>1, <1>2, <1>3, <1>4 DEF Inv

LEMMA AppendOne ==
  ASSUME NEW T, NEW S, NEW s \in Seq(T), \A i \in 1..Len(s) : s[i] \in S,
         NEW x \in T, x \in S
  PROVE  /\ Append(s, x) \in Seq(T) /\ Len(Append(s, x)) = Len(s) + 1
         /\ \A i \in 1..Len(Append(s, x)) : Append(s, x)[i] \in S
  OBVIOUS

LEMMA TakeOne ==
  ASSUME NEW T, NEW S, NEW s \in Seq(T), \A i \in 1..Len(s) : s[i] \in S, s # << >>
  PROVE  /\ Head(s) \in T /\ Head(s) \in S
         /\ Tail(s) \in Seq(T) /\ Len(Tail(s)) = Len(s) - 1
         /\ \A i \in 1..Len(Tail(s)) : Tail(s)[i] \in S
  OBVIOUS

\* The clock, the connection and the process leave the tables alone.
LEMMA QuietStep ==
  ASSUME Inv, Tick \/ Connect \/ Disconnect \/ Receive \/ Start \/ Stop
  PROVE  Inv'
<1>1. UNCHANGED <<halted, worker, store, state, repair>>
  BY DEF Tick, Connect, Disconnect, Receive, Start, Stop
<1>2. /\ now' = now \/ now' = now + 1
      /\ now \in 1..(MaxMinute + 1) /\ now' \in 1..(MaxMinute + 1)
      /\ now \in Nat
  BY Constants DEF Tick, Connect, Disconnect, Receive, Start, Stop, Inv, TypeOK
<1>3. Grows /\ Ranged' /\ Progress'
  BY <1>1, <1>2, KeptGrows, RepairStands, Constants
<1>4. WarehouseIsFinal' /\ CheckpointIsStored' /\ Drained'
  BY <1>1, <1>3, GrownIsFinal DEF Inv, CheckpointIsStored, Drained
<1>5. wire \in Seq(Minutes) /\ queue \in Seq(Minutes) /\ Len(queue) <= QueueSize /\ Sent
  BY DEF Inv, TypeOK
<1>6. Closed \subseteq Closed'
  BY <1>1, <1>2 DEF Closed
<1>7. TypeOK' /\ Sent'
  <2>1. CASE Tick
    <3>1. /\ now <= MaxMinute /\ now' = now + 1
          /\ wire' = wire \/ (wire' = Append(wire, now) /\ now \notin halted)
          /\ UNCHANGED <<halted, server, link, queue, worker, store, state, repair, faults>>
      BY <2>1 DEF Tick
    <3>2. wire' \in Seq(Minutes) /\ \A i \in 1..Len(wire') : wire'[i] \in Closed'
      <4>1. \A i \in 1..Len(wire) : wire[i] \in Closed'
        BY <1>5, <1>6 DEF Sent
      <4>2. now \in Minutes
        BY <1>2, <3>1, Constants DEF Minutes
      <4>3. now \notin halted => now \in Closed'
        BY <1>2, <3>1 DEF Closed
      <4>4. QED
        <5>1. CASE wire' = wire
          BY <1>5, <4>1, <5>1
        <5>2. CASE wire' = Append(wire, now) /\ now \notin halted
          BY <1>5, <4>1, <4>2, <4>3, <5>2, AppendOne
        <5> QED
          BY <3>1, <5>1, <5>2
    <3>3. \A i \in 1..Len(queue') : queue'[i] \in Closed'
      BY <1>5, <1>6, <3>1 DEF Sent
    <3> QED
      BY <1>2, <3>1, <3>2, <3>3 DEF Inv, TypeOK, Sent
  <2>2. CASE Connect \/ Start
    BY <1>5, <2>2 DEF Connect, Start, Inv, TypeOK, Sent, Closed
  <2>3. CASE Disconnect
    BY <1>5, <2>3, Constants DEF Disconnect, Fault, Inv, TypeOK, Sent, Closed
  <2>4. CASE Receive
    <3>1. /\ wire # << >> /\ wire' = Tail(wire)
          /\ queue' = queue \/ (Len(queue) < QueueSize /\ queue' = Append(queue, Head(wire)))
          /\ UNCHANGED <<now, halted, server, link, worker, store, state, repair, faults>>
      BY <2>4 DEF Receive, Enqueue
    <3>2. /\ wire' \in Seq(Minutes) /\ \A i \in 1..Len(wire') : wire'[i] \in Closed
          /\ Head(wire) \in Minutes /\ Head(wire) \in Closed
      BY <1>5, <3>1, TakeOne DEF Sent
    <3>3. /\ queue' \in Seq(Minutes) /\ \A i \in 1..Len(queue') : queue'[i] \in Closed
          /\ Len(queue') <= QueueSize
      <4>1. CASE queue' = queue
        BY <1>5, <4>1 DEF Sent
      <4>2. CASE Len(queue) < QueueSize /\ queue' = Append(queue, Head(wire))
        <5>1. /\ queue' \in Seq(Minutes) /\ Len(queue') = Len(queue) + 1
              /\ \A i \in 1..Len(queue') : queue'[i] \in Closed
          BY <1>5, <3>2, <4>2, AppendOne DEF Sent
        <5> QED
          BY <1>5, <4>2, <5>1, Constants
      <4> QED
        BY <3>1, <4>1, <4>2
    <3> QED
      BY <3>1, <3>2, <3>3 DEF Inv, TypeOK, Sent, Closed
  <2>5. CASE Stop
    BY <1>5, <2>5, Constants DEF Stop, Fault, Inv, TypeOK, Sent, Closed
  <2> QED
    BY <2>1, <2>2, <2>3, <2>4, <2>5
<1> QED
  BY <1>3, <1>4, <1>7 DEF Inv

\* The process ends, and what it had not stored is gone.
LEMMA DownStep ==
  ASSUME Inv, Exit \/ Crash
  PROVE  Inv'
<1>1. /\ worker' = Waiting /\ queue' = << >> /\ server' = "down"
      /\ UNCHANGED <<now, halted, store, state>>
      /\ wire' = wire \/ wire' = << >>
      /\ link' = link \/ link' = "down"
      /\ repair' = repair \/ repair' = NoRepair
  BY DEF Exit, Crash
<1>2. faults' \in 0..MaxFaults
  BY Constants DEF Exit, Crash, Fault, Inv, TypeOK
<1>3. NoRepair \in [pc : {"idle", "ranges", "page", "derive", "indicate", "clear", "insert"},
                   start : 0..MaxMinute, final : 0..MaxMinute, todo : SUBSET Minutes,
                   cursor : 0..(MaxMinute + 1), last : 0..MaxMinute,
                   status : {"running", "success", "failed"}]
  BY Constants DEF NoRepair
<1>4. TypeOK'
  <2>1. /\ queue' \in Seq(Minutes) /\ Len(queue') <= QueueSize
        /\ wire' \in Seq(Minutes)
    <3>1. << >> \in Seq(Minutes) /\ Len(<< >>) = 0
      OBVIOUS
    <3>2. wire \in Seq(Minutes)
      BY DEF Inv, TypeOK
    <3>3. 0 <= QueueSize
      BY Constants
    <3> QED
      BY <1>1, <3>1, <3>2, <3>3
  <2>2. repair' \in [pc : {"idle", "ranges", "page", "derive", "indicate", "clear", "insert"},
                     start : 0..MaxMinute, final : 0..MaxMinute, todo : SUBSET Minutes,
                     cursor : 0..(MaxMinute + 1), last : 0..MaxMinute,
                     status : {"running", "success", "failed"}]
    BY <1>1, <1>3 DEF Inv, TypeOK
  <2>3. worker' \in [pc : {"idle", "clear", "insert", "derive", "next", "dead"},
                     candle : Minutes \cup {0}]
    BY <1>1 DEF Waiting
  <2> QED
    BY <1>1, <1>2, <2>1, <2>2, <2>3 DEF Inv, TypeOK
<1>5. Grows /\ now \in Nat /\ now >= 1
  BY <1>1, KeptGrows, Constants DEF Inv, TypeOK
<1>6. Ranged' /\ Progress'
  <2>1. CASE repair' = repair
    BY <1>1, <1>5, <2>1, RepairStands
  <2>2. CASE repair' = NoRepair
    BY <1>1, <1>5, <2>2 DEF NoRepair, Ranged, Progress, Hopeful, Succeeding
  <2> QED
    BY <1>1, <2>1, <2>2
<1>7. Sent' /\ Drained' /\ CheckpointIsStored'
  BY <1>1 DEF Inv, Sent, Drained, CheckpointIsStored, Waiting, Closed
<1> QED
  BY <1>4, <1>5, <1>6, <1>7, GrownIsFinal DEF Inv

\* The checkpoint is written after its candle.
LEMMA WorkerStep ==
  ASSUME Inv, Take \/ Drain \/ WorkerError
  PROVE  Inv'
<1>1. /\ UNCHANGED <<now, halted, server, link, wire, repair>>
      /\ now \in Nat /\ now >= 1
  BY Constants DEF Take, Drain, WorkerError, Inv, TypeOK
<1>2. wire \in Seq(Minutes) /\ queue \in Seq(Minutes) /\ Len(queue) <= QueueSize /\ Sent
  BY DEF Inv, TypeOK
<1>3. Closed' = Closed
  BY <1>1 DEF Closed
<1>4. \/ queue' = queue
      \/ queue # << >> /\ queue' = Tail(queue)
  BY DEF Take, Drain, WorkerError
<1>5. queue' \in Seq(Minutes) /\ Len(queue') <= QueueSize /\ Sent'
  <2>1. /\ queue' \in Seq(Minutes) /\ Len(queue') <= QueueSize
        /\ \A i \in 1..Len(queue') : queue'[i] \in Closed
    <3>1. CASE queue' = queue
      BY <1>2, <3>1 DEF Sent
    <3>2. CASE queue # << >> /\ queue' = Tail(queue)
      BY <1>2, <3>2, TakeOne, Constants DEF Sent
    <3> QED
      BY <1>4, <3>1, <3>2
  <2> QED
    BY <1>1, <1>2, <1>3, <2>1 DEF Sent
<1>6. CASE Take
  <2>1. /\ queue # << >> /\ store' = Upserted({Head(queue)})
        /\ worker' = [pc |-> "clear", candle |-> Head(queue)]
        /\ UNCHANGED <<state, faults>>
    BY <1>6 DEF Take
  <2>2. Head(queue) \in Minutes /\ {Head(queue)} \in SUBSET Closed
    BY <1>2, <2>1, TakeOne DEF Sent
  <2>3. Grows /\ Head(queue) \in store'.one
    BY <1>1, <2>1, <2>2, UpsertedGrows
  <2>4. Drained' /\ CheckpointIsStored'
    BY <2>1, <2>3 DEF Inv, Drained, CheckpointIsStored, Grows
  <2>5. TypeOK'
    BY <1>1, <1>5, <2>1, <2>2, <2>3 DEF Inv, TypeOK, Grows, StoreRows
  <2> QED
    BY <1>1, <1>5, <2>3, <2>4, <2>5, RepairStands, GrownIsFinal DEF Inv
<1>7. CASE Drain
  <2>1. UNCHANGED faults
    BY <1>7 DEF Drain
  <2>2. CASE worker.pc = "clear" /\ ClearState /\ worker' = [worker EXCEPT !.pc = "insert"]
             /\ UNCHANGED store
    <3>1. Grows
      BY <1>1, <2>2, KeptGrows
    <3>2. Drained' /\ CheckpointIsStored'
      BY <2>2 DEF Inv, TypeOK, Drained, CheckpointIsStored, ClearState, NoState
    <3>3. TypeOK'
      BY <1>1, <1>5, <2>1, <2>2, Constants DEF Inv, TypeOK, ClearState, NoState
    <3> QED
      BY <1>1, <1>5, <3>1, <3>2, <3>3, RepairStands, GrownIsFinal DEF Inv
  <2>3. CASE worker.pc = "insert" /\ InsertedState(worker.candle, "ok")
             /\ worker' = [worker EXCEPT !.pc = "derive"] /\ UNCHANGED store
    <3>1. Grows
      BY <1>1, <2>3, KeptGrows
    <3>2. Drained' /\ CheckpointIsStored'
      BY <2>3 DEF Inv, TypeOK, Drained, CheckpointIsStored, InsertedState
    <3>3. TypeOK'
      BY <1>1, <1>5, <2>1, <2>3, Constants DEF Inv, TypeOK, InsertedState
    <3> QED
      BY <1>1, <1>5, <3>1, <3>2, <3>3, RepairStands, GrownIsFinal DEF Inv
  <2>4. CASE worker.pc = "insert" /\ Collision /\ worker' = Dead /\ UNCHANGED store
    <3>1. Grows
      BY <1>1, <2>4, KeptGrows
    <3>2. Drained' /\ CheckpointIsStored'
      BY <2>4 DEF Inv, Drained, CheckpointIsStored, Collision, Dead
    <3>3. TypeOK'
      BY <1>1, <1>5, <2>1, <2>4, Constants DEF Inv, TypeOK, Collision, Dead
    <3> QED
      BY <1>1, <1>5, <3>1, <3>2, <3>3, RepairStands, GrownIsFinal DEF Inv
  <2>5. CASE worker.pc = "derive" /\ store' = Derived /\ UNCHANGED state
             /\ worker' = IF queue = << >> THEN Waiting ELSE [pc |-> "next", candle |-> 0]
    <3>1. Grows
      BY <1>1, <2>5, DerivedGrows
    <3>2. Drained' /\ CheckpointIsStored'
      BY <2>5, <3>1 DEF Inv, Drained, CheckpointIsStored, Waiting, Grows
    <3>3. TypeOK'
      BY <1>1, <1>5, <2>1, <2>5, <3>1, Constants DEF Inv, TypeOK, Waiting, Grows, StoreRows
    <3> QED
      BY <1>1, <1>5, <3>1, <3>2, <3>3, RepairStands, GrownIsFinal DEF Inv
  <2> QED
    BY <1>7, <2>2, <2>3, <2>4, <2>5 DEF Drain
<1>8. CASE WorkerError
  <2>1. /\ worker' = Dead /\ UNCHANGED <<store, state>> /\ faults' \in 0..MaxFaults
    BY <1>8, Constants DEF WorkerError, Fault, Inv, TypeOK
  <2>2. Grows
    BY <1>1, <2>1, KeptGrows
  <2>3. Drained' /\ CheckpointIsStored'
    BY <2>1 DEF Inv, Drained, CheckpointIsStored, Dead
  <2>4. TypeOK'
    BY <1>1, <1>5, <2>1 DEF Inv, TypeOK, Dead
  <2> QED
    BY <1>1, <1>5, <2>2, <2>3, <2>4, RepairStands, GrownIsFinal DEF Inv
<1> QED
  BY <1>6, <1>7, <1>8

LEMMA DrawStep ==
  ASSUME Inv, DrawIndicator
  PROVE  Inv'
<1>1. /\ store' = Pointed(IndicatorSource) /\ now \in Nat
      /\ UNCHANGED <<now, halted, server, link, wire, queue, worker, state, repair, faults>>
  BY Constants DEF DrawIndicator, Inv, TypeOK
<1>2. Grows
  BY <1>1, PointedGrows
<1>3. TypeOK'
  BY <1>1, <1>2 DEF Inv, TypeOK, Grows, StoreRows
<1>4. Sent' /\ Drained' /\ CheckpointIsStored'
  BY <1>1, <1>2 DEF Inv, Sent, Drained, CheckpointIsStored, Grows, Closed
<1> QED
  BY <1>1, <1>2, <1>3, <1>4, RepairStands, GrownIsFinal DEF Inv

-----------------------------------------------------------------------------
(* The repair.                                                             *)

RepairRows == [pc : {"idle", "ranges", "page", "derive", "indicate", "clear", "insert"},
               start : 0..MaxMinute, final : 0..MaxMinute, todo : SUBSET Minutes,
               cursor : 0..(MaxMinute + 1), last : 0..MaxMinute,
               status : {"running", "success", "failed"}]

\* What a step of the repair must show for itself; the rest stands.
LEMMA RepairKeepsRest ==
  ASSUME Inv, Grows, UNCHANGED <<now, halted, server, link, wire, queue, worker>>,
         repair' \in RepairRows, CheckpointIsStored',
         state' \in [last : Minutes \cup {0},
                     status : {"none", "ok", "running", "success", "failed"}],
         faults' \in 0..MaxFaults, Ranged', Progress'
  PROVE  Inv'
<1>1. TypeOK'
  BY DEF Inv, TypeOK, Grows, StoreRows, RepairRows
<1>2. Sent' /\ Drained'
  BY DEF Inv, Sent, Drained, Closed, Grows
<1> QED
  BY <1>1, <1>2, GrownIsFinal DEF Inv

LEMMA WantedBounds ==
  ASSUME TypeOK
  PROVE  Wanted(now) \in 1..MaxMinute /\ now - 1 \in 0..MaxMinute
  BY Constants DEF TypeOK, Wanted

LEMMA BeginStep ==
  ASSUME Inv, BeginRepair
  PROVE  Inv'
<1>1. /\ repair' = [NoRepair EXCEPT !.pc = "ranges", !.start = Wanted(now), !.final = now - 1,
                                    !.last = LastKnown]
      /\ UNCHANGED <<now, halted, server, link, wire, queue, worker, store, state, faults>>
  BY DEF BeginRepair
<1>2. LastKnown \in 0..MaxMinute /\ (LastKnown # 0 => LastKnown \in store.one)
  <2>1. CASE store.one = {}
    BY <2>1, Constants DEF Inv, TypeOK, LastKnown, CheckpointIsStored, Minutes
  <2>2. CASE store.one # {}
    <3>1. store.one \in SUBSET Minutes /\ store.one \in SUBSET (0..MaxMinute)
      BY Constants DEF Inv, TypeOK, Minutes
    <3>2. LastKnown \in store.one
      BY <2>2, <3>1, MaxIsGreatest, Constants DEF LastKnown
    <3> QED
      BY <3>1, <3>2
  <2> QED
    BY <2>1, <2>2
<1>3. /\ Wanted(now) \in 1..MaxMinute /\ Wanted(now) \in 0..MaxMinute
      /\ now - 1 \in 0..MaxMinute /\ 0 \in 0..(MaxMinute + 1)
  BY WantedBounds, Constants DEF Inv
<1>8. /\ repair'.pc = "ranges" /\ repair'.start = Wanted(now) /\ repair'.final = now - 1
      /\ repair'.last = LastKnown /\ repair'.todo = {} /\ repair' \in RepairRows
  BY <1>1, <1>2, <1>3 DEF NoRepair, RepairRows
<1>4. Grows
  BY <1>1, KeptGrows
<1>5. Ranged'
  <2>1. now \in Nat
    BY Constants DEF Inv, TypeOK
  <2> QED
    BY <1>1, <1>2, <1>3, <1>8, <2>1 DEF Ranged
<1>6. Progress'
  BY <1>8 DEF Progress, Hopeful, Succeeding
<1>7. CheckpointIsStored'
  BY <1>1 DEF Inv, CheckpointIsStored
<1> QED
  BY <1>1, <1>4, <1>5, <1>6, <1>7, <1>8, RepairKeepsRest DEF Inv, TypeOK

LEMMA RangesStep ==
  ASSUME Inv, ReadRanges
  PROVE  Inv'
<1> DEFINE gone == Missing(repair.start, repair.final)
<1>1. /\ repair.pc = "ranges" /\ repair' = [Paging(repair, gone) EXCEPT !.pc = "page"]
      /\ UNCHANGED <<now, halted, server, link, wire, queue, worker, store, state, faults>>
  BY DEF ReadRanges
<1>2. repair \in RepairRows /\ repair.start >= 1
  BY <1>1 DEF Inv, TypeOK, Ranged, RepairRows
<1>3. gone \in SUBSET Minutes /\ gone \in SUBSET Nat
      /\ gone \subseteq repair.start..repair.final /\ \A m \in gone : m >= 1
  BY <1>2, Constants DEF Missing, RepairRows, Minutes
<1>4. gone # {} => Min(gone) \in gone /\ \A m \in gone : Min(gone) <= m
  BY <1>3, MinIsLeast
<1>5. /\ repair'.pc = "page" /\ repair'.todo = gone
      /\ repair'.cursor = IF gone = {} THEN 0 ELSE Min(gone)
      /\ repair'.start = repair.start /\ repair'.final = repair.final
      /\ repair'.last = repair.last /\ repair'.status = repair.status
      /\ repair' \in RepairRows
  <2>1. (IF gone = {} THEN 0 ELSE Min(gone)) \in 0..(MaxMinute + 1)
    BY <1>3, <1>4, Constants DEF Minutes
  <2> HIDE DEF gone
  <2> QED
    BY <1>1, <1>2, <1>3, <2>1 DEF Paging, RepairRows
<1>6. Grows
  BY <1>1, KeptGrows
<1>7. Ranged'
  BY <1>1, <1>2, <1>3, <1>4, <1>5 DEF Inv, Ranged
<1>8. Progress'
  BY <1>1, <1>3, <1>4, <1>5 DEF Progress, Hopeful, Succeeding, Fetched, Span, Missing
<1>9. CheckpointIsStored'
  BY <1>1 DEF Inv, CheckpointIsStored
<1> QED
  BY <1>1, <1>5, <1>6, <1>7, <1>8, <1>9, RepairKeepsRest DEF Inv, TypeOK

-----------------------------------------------------------------------------
(* A page: the first PageLimit candles of a gap, from the cursor on.       *)

PageRows == (repair.cursor..Max(Gap)) \ halted
Before(m) == {k \in PageRows : k < m}

\* A gap is a run: what follows it lies beyond its end.
LEMMA GapIsRun ==
  ASSUME Inv, repair.pc = "page", repair.todo # {}
  PROVE  /\ repair.cursor \in Nat /\ repair.cursor >= 1
         /\ Gap # {} /\ Gap \subseteq repair.todo
         /\ Max(Gap) \in Gap /\ Max(Gap) <= repair.final /\ Max(Gap) \in Nat
         /\ \A m \in Gap : m <= Max(Gap)
         /\ \A m \in repair.todo \ Gap : m > Max(Gap)
<1>1. /\ repair.todo \in SUBSET Nat /\ repair.todo \in SUBSET (0..MaxMinute)
      /\ repair.todo \subseteq repair.start..repair.final
      /\ repair.start \in Nat /\ repair.final \in Nat
      /\ repair.cursor \in Nat /\ repair.cursor >= 1
  BY Constants DEF Inv, TypeOK, Minutes, Ranged
<1>2. Min(repair.todo) \in repair.todo /\ \A m \in repair.todo : Min(repair.todo) <= m
  BY <1>1, MinIsLeast
<1>3. Gap \subseteq repair.todo
  BY DEF Gap
<1>4. Min(repair.todo) \in Gap
  <2>1. Min(repair.todo)..Min(repair.todo) \subseteq repair.todo
    BY <1>1, <1>2
  <2> QED
    BY <1>2, <2>1 DEF Gap
<1>5. Max(Gap) \in Gap /\ \A m \in Gap : m <= Max(Gap)
  <2>1. Gap \in SUBSET (0..MaxMinute) /\ Gap # {}
    BY <1>1, <1>3, <1>4
  <2> QED
    BY <2>1, MaxIsGreatest, Constants
<1>6. ASSUME NEW m \in repair.todo \ Gap PROVE m > Max(Gap)
  <2>1. Min(repair.todo)..Max(Gap) \subseteq repair.todo
    BY <1>5 DEF Gap
  <2>2. ~(Min(repair.todo)..m \subseteq repair.todo)
    BY <1>6 DEF Gap
  <2>3. m \in Nat /\ Max(Gap) \in Nat /\ Min(repair.todo) \in Nat
    BY <1>1, <1>2, <1>3, <1>5, <1>6
  <2>4. m <= Max(Gap) => Min(repair.todo)..m \subseteq Min(repair.todo)..Max(Gap)
    BY <2>3
  <2> QED
    BY <2>1, <2>2, <2>3, <2>4
<1>7. Max(Gap) <= repair.final /\ Max(Gap) \in Nat
  BY <1>1, <1>3, <1>5
<1> QED
  BY <1>1, <1>3, <1>4, <1>5, <1>6, <1>7

LEMMA PageDef == Page = {m \in PageRows : Cardinality(Before(m)) < PageLimit}
  BY DEF Page, PageRows, Before

\* A page holds what comes first, and all there is when it is short.
LEMMA PageIsPrefix ==
  ASSUME Inv, repair.pc = "page", repair.todo # {}
  PROVE  /\ PageRows \in SUBSET Nat /\ PageRows \in SUBSET (0..MaxMinute)
         /\ Page \subseteq PageRows
         /\ PageRows # {} => Page # {}
         /\ \A m \in PageRows, p \in Page : m <= p => m \in Page
         /\ Cardinality(Page) < PageLimit => Page = PageRows
<1>1. PageRows \in SUBSET Nat /\ PageRows \in SUBSET (0..MaxMinute)
  <2>1. repair.final <= MaxMinute /\ repair.final \in Nat
    BY Constants DEF Inv, TypeOK
  <2> QED
    BY <2>1, GapIsRun, Constants DEF PageRows
<1>2. IsFiniteSet(PageRows)
  <2>1. 0 \in Int /\ MaxMinute \in Int
    BY Constants
  <2>2. IsFiniteSet(0..MaxMinute)
    BY <2>1, FS_Interval
  <2> QED
    BY <1>1, <2>2, FS_Subset
<1>3. \A m \in PageRows : /\ IsFiniteSet(Before(m)) /\ Cardinality(Before(m)) \in Nat
                          /\ Before(m) \subseteq PageRows
  <2>1. \A m \in PageRows : Before(m) \in SUBSET PageRows
    BY DEF Before
  <2> QED
    BY <1>2, <2>1, FS_Subset, FS_CardinalityType
<1>4. Page \subseteq PageRows
  BY PageDef
<1>5. ASSUME PageRows # {} PROVE Page # {}
  <2>1. PICK m \in PageRows : \A k \in PageRows : m <= k
    BY <1>1, <1>5, LeastElement
  <2>2. Before(m) = {}
    BY <1>1, <2>1 DEF Before
  <2>3. Cardinality(Before(m)) = 0
    BY <2>2, FS_EmptySet
  <2> QED
    BY <2>1, <2>3, PageDef, Constants
<1>6. ASSUME NEW m \in PageRows, NEW p \in Page, m <= p PROVE m \in Page
  <2>1. Before(m) \in SUBSET Before(p) /\ p \in PageRows
    <3>1. m \in Nat /\ p \in Nat /\ p \in PageRows
      BY <1>1, <1>4, <1>6
    <3>2. \A k \in PageRows : k \in Nat /\ (k < m => k < p)
      BY <1>1, <1>6, <3>1
    <3> QED
      BY <3>1, <3>2, Zenon DEF Before
  <2>2. Cardinality(Before(m)) <= Cardinality(Before(p))
    BY <1>3, <2>1, FS_Subset
  <2>3. Cardinality(Before(p)) < PageLimit
    BY PageDef
  <2> QED
    BY <1>3, <2>1, <2>2, <2>3, PageDef, Constants
<1>7. ASSUME Cardinality(Page) < PageLimit PROVE PageRows \subseteq Page
  <2> SUFFICES ASSUME PageRows \ Page # {} PROVE FALSE
    OBVIOUS
  <2>1. PICK m \in PageRows \ Page : \A k \in PageRows \ Page : m <= k
    <3>1. PageRows \ Page \in SUBSET Nat
      BY <1>1
    <3> QED
      BY <3>1, LeastElement
  <2>2. Before(m) \in SUBSET Page
    <3>1. \A k \in PageRows : k < m => k \in Page
      BY <1>1, <2>1
    <3> QED
      BY <3>1, Zenon DEF Before
  <2>3. IsFiniteSet(Page)
    BY <1>2, <1>4, FS_Subset
  <2>4. Cardinality(Before(m)) <= Cardinality(Page) /\ Cardinality(Page) \in Nat
    BY <2>2, <2>3, FS_Subset, FS_CardinalityType
  <2>5. Cardinality(Before(m)) < PageLimit
    BY <1>3, <1>7, <2>1, <2>4, Constants
  <2> QED
    BY <2>1, <2>5, PageDef
<1> QED
  BY <1>1, <1>4, <1>5, <1>6, <1>7

\* What is fetched closed before the repair began.
LEMMA RowsAreClosed ==
  ASSUME Inv, repair.pc = "page", repair.todo # {}
  PROVE  PageRows \in SUBSET Closed
<1>1. /\ now \in Nat /\ repair.final \in Nat /\ repair.final < now
  BY Constants DEF Inv, TypeOK, Ranged
<1> QED
  BY <1>1, GapIsRun DEF PageRows, Closed

\* The range is done: nothing of it is left to be asked for.
LEMMA NextRange ==
  ASSUME Inv, repair.pc = "page", repair.todo # {},
         NEW r \in RepairRows, r = Paging(repair, repair.todo \ Gap),
         NEW kept, store.one \subseteq kept, PageRows \subseteq kept
  PROVE  /\ r.todo = repair.todo \ Gap
         /\ r.start = repair.start /\ r.final = repair.final
         /\ r.todo # {} => r.cursor >= 1
         /\ \A m \in Span : m \in kept \/ (m \in r.todo /\ r.cursor <= m)
<1> DEFINE rest == repair.todo \ Gap
<1>1. repair \in RepairRows /\ rest \in SUBSET Nat /\ \A m \in rest : m >= 1
  <2>1. repair \in RepairRows
    BY DEF Inv, TypeOK, RepairRows
  <2>2. repair.todo \in SUBSET (1..MaxMinute)
    BY <2>1 DEF RepairRows, Minutes
  <2>3. \A m \in repair.todo : m \in Nat /\ m >= 1
    BY <2>2, Constants
  <2> QED
    BY <2>1, <2>3
<1>2. rest # {} => Min(rest) \in rest /\ \A m \in rest : Min(rest) <= m
  BY <1>1, MinIsLeast
<1> HIDE DEF rest
<1>3. /\ r.todo = rest /\ r.start = repair.start /\ r.final = repair.final
      /\ r.cursor = IF rest = {} THEN 0 ELSE Min(rest)
  BY <1>1 DEF Paging, RepairRows, rest
<1>4. ASSUME NEW m \in Span, m \notin kept PROVE m \in r.todo /\ r.cursor <= m
  <2>1. m \in repair.todo /\ repair.cursor <= m /\ m \notin halted
    BY <1>4 DEF Inv, Progress, Hopeful, Fetched, Span
  <2>2. m \notin Gap
    <3>1. m \in Gap => m \in repair.cursor..Max(Gap)
      <4>1. m \in Nat /\ repair.cursor \in Nat
        BY <2>1, GapIsRun, Constants DEF Inv, TypeOK, Minutes
      <4> QED
        BY <2>1, <4>1, GapIsRun
    <3> QED
      BY <1>4, <2>1, <3>1 DEF PageRows
  <2> QED
    BY <1>2, <1>3, <2>1, <2>2 DEF rest
<1> QED
  BY <1>1, <1>2, <1>3, <1>4 DEF rest

LEMMA PagingType ==
  ASSUME NEW r \in RepairRows, NEW todo \in SUBSET Minutes
  PROVE  Paging(r, todo) \in RepairRows
<1>1. todo \in SUBSET Nat /\ \A m \in todo : m \in 0..(MaxMinute + 1)
  <2>1. \A m \in Minutes : m \in Nat /\ m \in 0..(MaxMinute + 1)
    BY Constants DEF Minutes
  <2> QED
    BY <2>1
<1>2. (IF todo = {} THEN 0 ELSE Min(todo)) \in 0..(MaxMinute + 1)
  <2>1. CASE todo = {}
    BY <2>1, Constants
  <2>2. CASE todo # {}
    BY <1>1, <2>2, MinIsLeast
  <2> QED
    BY <2>1, <2>2
<1> QED
  BY <1>2 DEF Paging, RepairRows

LEMMA FetchStep ==
  ASSUME Inv, FetchPage
  PROVE  Inv'
<1> DEFINE rest == repair.todo \ Gap
<1>1. /\ repair.pc = "page" /\ repair.todo # {}
      /\ UNCHANGED <<now, halted, server, link, wire, queue, worker, state, faults>>
  BY DEF FetchPage
<1>2. repair \in RepairRows /\ rest \in SUBSET Minutes /\ rest \subseteq repair.todo
  BY DEF Inv, TypeOK, RepairRows
<1>3. Paging(repair, rest) \in RepairRows
  BY <1>2, PagingType
<1>4. Span' = (repair'.start..repair'.final) \ halted
  BY <1>1 DEF Span
<1>5. CASE Page = {}
  <2>1. repair' = Paging(repair, rest) /\ UNCHANGED store
    BY <1>5 DEF FetchPage
  <2>2. PageRows = {}
    BY <1>1, <1>5, PageIsPrefix
  <2>3. /\ repair'.todo = rest
        /\ repair'.start = repair.start /\ repair'.final = repair.final
        /\ repair'.todo # {} => repair'.cursor >= 1
        /\ \A m \in Span : m \in store.one \/ (m \in repair'.todo /\ repair'.cursor <= m)
    BY <1>1, <1>3, <2>1, <2>2, NextRange
  <2>4. repair'.pc = "page" /\ repair'.last = repair.last
    BY <1>1, <1>2, <2>1 DEF Paging, RepairRows
  <2>5. Grows /\ CheckpointIsStored'
    BY <1>1, <2>1, KeptGrows DEF Inv, CheckpointIsStored
  <2>6. Ranged'
    BY <1>1, <1>2, <2>1, <2>3, <2>4 DEF Inv, Ranged
  <2>7. Progress'
    BY <1>1, <1>4, <2>1, <2>3, <2>4 DEF Progress, Hopeful, Succeeding, Fetched, Span
  <2> QED
    BY <1>1, <1>3, <2>1, <2>5, <2>6, <2>7, RepairKeepsRest DEF Inv, TypeOK
<1>6. CASE Page # {}
  <2> DEFINE last == Max({repair.last} \cup Page)
             next == AfterPage(Page)
  <2>1. /\ store' = Upserted(Page)
        /\ repair' = [next EXCEPT !.pc = "clear", !.status = "running",
                                  !.last = Max({@} \cup Page)]
    BY <1>6 DEF FetchPage
  <2>2. /\ Page \subseteq PageRows /\ PageRows \in SUBSET (0..MaxMinute)
        /\ Page \in SUBSET Closed
    BY <1>1, PageIsPrefix, RowsAreClosed
  <2>3. Grows /\ store'.one = store.one \cup Page
    BY <1>1, <2>1, <2>2, UpsertedGrows
  <2>4. last \in 0..MaxMinute /\ (last # 0 => last \in store'.one)
    <3>1. {repair.last} \cup Page \in SUBSET (0..MaxMinute)
      BY <1>2, <2>2 DEF RepairRows
    <3>2. last \in {repair.last} \cup Page
      BY <3>1, MaxIsGreatest, Constants
    <3> QED
      BY <3>1, <3>2, <2>3 DEF Inv, Ranged
  <2>5. /\ Max(Page) \in Page /\ Max(Page) \in 0..MaxMinute /\ Max(Page) >= 1
        /\ \A m \in Page : m <= Max(Page)
        /\ Max(Page) <= Max(Gap)
    <3>1. Page \in SUBSET (0..MaxMinute)
      BY <2>2
    <3>2. Max(Page) \in Page /\ \A m \in Page : m <= Max(Page)
      BY <1>6, <3>1, MaxIsGreatest, Constants
    <3>3. Max(Page) \in PageRows
      BY <2>2, <3>2
    <3> QED
      BY <1>1, <2>2, <3>2, <3>3, GapIsRun DEF PageRows
  <2>6. /\ next \in RepairRows /\ next.last = repair.last
        /\ next.start = repair.start /\ next.final = repair.final
        /\ next.todo \subseteq repair.todo
        /\ next.todo # {} => next.cursor >= 1
        /\ \A m \in Span : m \in store'.one \/ (m \in next.todo /\ next.cursor <= m)
    <3>1. CASE /\ Cardinality(Page) < PageLimit \/ Max(Page) + 1 > Max(Gap)
               /\ next = Paging(repair, rest)
      <4>1. PageRows \subseteq Page
        <5>1. CASE Cardinality(Page) < PageLimit
          BY <1>1, <5>1, PageIsPrefix
        <5>2. CASE Max(Page) + 1 > Max(Gap)
          <6>1. \A m \in PageRows : m <= Max(Page)
            BY <1>1, <2>5, <5>2, PageIsPrefix, GapIsRun DEF PageRows
          <6> QED
            BY <1>1, <2>5, <6>1, PageIsPrefix
        <5> QED
          BY <3>1, <5>1, <5>2
      <4>2. store.one \subseteq store'.one /\ PageRows \subseteq store'.one
        BY <2>3, <4>1
      <4>3. /\ next.todo = rest
            /\ next.start = repair.start /\ next.final = repair.final
            /\ next.todo # {} => next.cursor >= 1
            /\ \A m \in Span : m \in store'.one \/ (m \in next.todo /\ next.cursor <= m)
        BY <1>1, <1>3, <3>1, <4>2, NextRange
      <4>4. next.last = repair.last
        BY <1>2, <3>1 DEF Paging, RepairRows
      <4> QED
        BY <1>2, <1>3, <3>1, <4>3, <4>4
    <3>2. CASE next = [repair EXCEPT !.cursor = Max(Page) + 1]
      <4>1. Max(Page) + 1 \in 0..(MaxMinute + 1) /\ Max(Page) + 1 >= 1
        BY <2>5, Constants
      <4>2. /\ next \in RepairRows /\ next.last = repair.last
            /\ next.start = repair.start /\ next.final = repair.final
            /\ next.todo = repair.todo /\ next.cursor = Max(Page) + 1
        BY <1>2, <3>2, <4>1 DEF RepairRows
      <4>3. ASSUME NEW m \in Span, m \notin store'.one
            PROVE  m \in repair.todo /\ Max(Page) + 1 <= m
        <5>1. m \in repair.todo /\ repair.cursor <= m /\ m \notin halted /\ m \in Nat
          BY <1>1, <1>2, <2>3, <4>3 DEF Inv, Progress, Hopeful, Fetched, Span, RepairRows
        <5>2. m <= Max(Page) => m \in PageRows
          BY <1>1, <2>5, <5>1, GapIsRun DEF PageRows
        <5>3. ~(m <= Max(Page))
          BY <1>1, <2>3, <2>5, <4>3, <5>2, PageIsPrefix
        <5> QED
          BY <2>5, <5>1, <5>3
      <4> QED
        BY <4>1, <4>2, <4>3
    <3> QED
      BY <3>1, <3>2 DEF AfterPage
  <2> HIDE DEF next, last
  <2>7. /\ repair'.pc = "clear" /\ repair'.status = "running" /\ repair'.last = last
        /\ repair'.start = repair.start /\ repair'.final = repair.final
        /\ repair'.todo = next.todo /\ repair'.cursor = next.cursor
        /\ repair' \in RepairRows
    <3>1. repair' = [next EXCEPT !.pc = "clear", !.status = "running", !.last = last]
      BY <2>1, <2>6 DEF RepairRows, last
    <3> QED
      BY <2>4, <2>6, <3>1 DEF RepairRows
  <2>8. Ranged'
    BY <1>1, <2>4, <2>6, <2>7 DEF Inv, Ranged
  <2>9. Progress'
    BY <1>4, <2>6, <2>7 DEF Progress, Hopeful, Succeeding, Fetched, Span
  <2>10. CheckpointIsStored'
    BY <1>1, <2>3 DEF Inv, CheckpointIsStored
  <2> QED
    BY <1>1, <2>3, <2>7, <2>8, <2>9, <2>10, RepairKeepsRest DEF Inv, TypeOK
<1> QED
  BY <1>5, <1>6

\* The ranges are done, then the derived intervals, then the MACD.
LEMMA FinishStep ==
  ASSUME Inv, FinishRepair
  PROVE  Inv'
<1>1. /\ UNCHANGED <<now, halted, server, link, wire, queue, worker, faults, state>>
      /\ repair.pc \in {"page", "derive", "indicate"} /\ repair \in RepairRows
  BY DEF FinishRepair, Inv, TypeOK, RepairRows
<1>2. \/ /\ repair.pc = "page" /\ repair.todo = {} /\ UNCHANGED store
         /\ repair' = [repair EXCEPT !.pc = "derive"]
      \/ /\ repair.pc = "derive" /\ store' = Derived
         /\ repair' = [repair EXCEPT !.pc = "indicate"]
      \/ /\ repair.pc = "indicate" /\ store' = Indicated
         /\ repair' = [repair EXCEPT !.pc = "clear", !.status = "success"]
  BY DEF FinishRepair
<1>3. /\ repair'.start = repair.start /\ repair'.final = repair.final
      /\ repair'.todo = repair.todo /\ repair'.cursor = repair.cursor
      /\ repair'.last = repair.last /\ repair' \in RepairRows
      /\ repair'.pc # "idle"
  BY <1>1, <1>2 DEF RepairRows
<1>4. Span' = Span
  BY <1>1, <1>3 DEF Span
<1>5. Grows
  <2>1. Indicated = Pointed(IndicatorSource)
    BY DEF Indicated
  <2> QED
    BY <1>1, <1>2, <2>1, KeptGrows, DerivedGrows, PointedGrows
<1>6. CheckpointIsStored' /\ Ranged'
  BY <1>1, <1>3, <1>5 DEF Inv, CheckpointIsStored, Ranged, Grows
<1>7. Fetched /\ Fetched'
  <2>1. Fetched
    BY <1>1 DEF Inv, Progress, Hopeful
  <2> QED
    BY <1>3, <1>4, <1>5, <2>1 DEF Fetched, Grows
<1>8. Progress'
  <2>1. CASE repair.pc = "page" /\ repair.todo = {} /\ repair' = [repair EXCEPT !.pc = "derive"]
    <3>1. repair'.pc = "derive"
      BY <1>1, <2>1 DEF RepairRows
    <3> QED
      BY <1>3, <1>7, <2>1, <3>1 DEF Progress, Hopeful, Succeeding
  <2>2. CASE repair.pc = "derive" /\ store' = Derived
             /\ repair' = [repair EXCEPT !.pc = "indicate"]
    <3>1. repair'.pc = "indicate" /\ repair.todo = {}
      BY <1>1, <2>2 DEF RepairRows, Inv, Progress
    <3>2. Span \subseteq store.one
      BY <1>7, <3>1 DEF Fetched
    <3>3. \A b \in Buckets : b..(b + BucketSize - 1) \subseteq Span => b \in store'.derived
      BY <1>1, <2>2, <3>2, DerivedGrows
    <3> QED
      BY <1>3, <1>4, <1>7, <3>1, <3>3 DEF Progress, Hopeful, Succeeding
  <2>3. CASE repair.pc = "indicate" /\ store' = Indicated
             /\ repair' = [repair EXCEPT !.pc = "clear", !.status = "success"]
    <3>1. repair'.pc = "clear" /\ repair'.status = "success" /\ repair.todo = {}
      BY <1>1, <2>3 DEF RepairRows, Inv, Progress
    <3>2. \A b \in Buckets : b..(b + BucketSize - 1) \subseteq Span => b \in store'.derived
      BY <1>5, <2>3 DEF Inv, Progress, Grows
    <3>3. store'.one \subseteq store'.macd
      BY <1>1, <2>3, PointedGrows DEF Indicated
    <3> QED
      BY <1>3, <1>4, <1>7, <3>1, <3>2, <3>3 DEF Progress, Hopeful, Succeeding
  <2> QED
    BY <1>2, <2>1, <2>2, <2>3
<1> QED
  BY <1>1, <1>3, <1>5, <1>6, <1>8, RepairKeepsRest DEF Inv, TypeOK

LEMMA IdleRepair ==
  /\ NoRepair \in RepairRows
  /\ NoRepair.pc = "idle" /\ NoRepair.final = 0 /\ NoRepair.todo = {} /\ NoRepair.last = 0
  BY Constants DEF NoRepair, RepairRows

\* A repair that fails has no success to record.
LEMMA FailureStands ==
  ASSUME Inv, Grows, UNCHANGED <<now, halted, server, link, wire, queue, worker, state>>,
         repair' = Failing(repair) \/ repair' = NoRepair, faults' \in 0..MaxFaults,
         repair.pc # "idle"
  PROVE  Inv'
<1>1. repair \in RepairRows /\ now \in Nat /\ now >= 1
  BY Constants DEF Inv, TypeOK, RepairRows
<1>2. CASE repair' = NoRepair
  <2>1. Ranged' /\ Progress' /\ CheckpointIsStored'
    BY <1>1, <1>2, IdleRepair
       DEF Inv, Ranged, Progress, Hopeful, Succeeding, CheckpointIsStored, Grows
  <2> QED
    BY <1>2, <2>1, IdleRepair, RepairKeepsRest DEF Inv, TypeOK
<1>3. CASE repair' = [repair EXCEPT !.pc = "clear", !.status = "failed"]
  <2>1. /\ repair'.pc = "clear" /\ repair'.status = "failed" /\ repair' \in RepairRows
        /\ repair'.start = repair.start /\ repair'.final = repair.final
        /\ repair'.todo = repair.todo /\ repair'.cursor = repair.cursor
        /\ repair'.last = repair.last
    BY <1>1, <1>3 DEF RepairRows
  <2>2. Ranged' /\ Progress' /\ CheckpointIsStored'
    BY <2>1 DEF Inv, Ranged, Progress, Hopeful, Succeeding, CheckpointIsStored, Grows
  <2> QED
    BY <2>1, <2>2, RepairKeepsRest DEF Inv, TypeOK
<1> QED
  BY <1>2, <1>3 DEF Failing

\* The checkpoint of a repair names a candle that is stored.
LEMMA RecordStep ==
  ASSUME Inv, RecordRepair
  PROVE  Inv'
<1>1. /\ UNCHANGED <<now, halted, server, link, wire, queue, worker, store, faults>>
      /\ repair.pc \in {"clear", "insert"} /\ repair \in RepairRows
      /\ now \in Nat /\ now >= 1
  BY Constants DEF RecordRepair, Inv, TypeOK, RepairRows
<1>2. Grows
  BY <1>1, KeptGrows
<1>3. CASE ClearState /\ repair.pc = "clear" /\ repair' = [repair EXCEPT !.pc = "insert"]
  <2>1. /\ repair'.pc = "insert" /\ repair'.status = repair.status /\ repair' \in RepairRows
        /\ repair'.start = repair.start /\ repair'.final = repair.final
        /\ repair'.todo = repair.todo /\ repair'.cursor = repair.cursor
        /\ repair'.last = repair.last
    BY <1>1, <1>3 DEF RepairRows
  <2>2. CheckpointIsStored'
    BY <1>3 DEF ClearState, NoState, CheckpointIsStored
  <2>3. Ranged'
    BY <1>1, <2>1 DEF Inv, Ranged
  <2>4. Progress'
    BY <1>1, <1>3, <2>1 DEF Inv, Progress, Hopeful, Succeeding, Fetched, Span
  <2>5. state' \in [last : Minutes \cup {0},
                    status : {"none", "ok", "running", "success", "failed"}]
    BY <1>3 DEF ClearState, NoState
  <2> QED
    BY <1>1, <1>2, <2>1, <2>2, <2>3, <2>4, <2>5, RepairKeepsRest DEF Inv, TypeOK
<1>4. CASE /\ InsertedState(repair.last, repair.status) /\ repair.pc = "insert"
           /\ repair' = IF repair.status = "running" THEN [repair EXCEPT !.pc = "page"]
                                                      ELSE NoRepair
  <2>1. CheckpointIsStored'
    BY <1>1, <1>4 DEF Inv, Ranged, InsertedState, CheckpointIsStored
  <2>2. state' \in [last : Minutes \cup {0},
                    status : {"none", "ok", "running", "success", "failed"}]
    BY <1>1, <1>4, Constants DEF InsertedState, RepairRows, Minutes
  <2>3. CASE repair.status = "running" /\ repair' = [repair EXCEPT !.pc = "page"]
    <3>1. /\ repair'.pc = "page" /\ repair'.status = repair.status /\ repair' \in RepairRows
          /\ repair'.start = repair.start /\ repair'.final = repair.final
          /\ repair'.todo = repair.todo /\ repair'.cursor = repair.cursor
          /\ repair'.last = repair.last
      BY <1>1, <2>3 DEF RepairRows
    <3>2. Ranged'
      BY <1>1, <3>1 DEF Inv, Ranged
    <3>3. Progress'
      BY <1>1, <1>4, <2>3, <3>1 DEF Inv, Progress, Hopeful, Succeeding, Fetched, Span
    <3> QED
      BY <1>1, <1>2, <2>1, <2>2, <3>1, <3>2, <3>3, RepairKeepsRest DEF Inv, TypeOK
  <2>4. CASE repair' = NoRepair
    <3>1. Ranged' /\ Progress'
      BY <1>1, <2>4, IdleRepair DEF Ranged, Progress, Hopeful, Succeeding
    <3> QED
      BY <1>1, <1>2, <2>1, <2>2, <2>4, <3>1, IdleRepair, RepairKeepsRest DEF Inv, TypeOK
  <2> QED
    BY <1>4, <2>3, <2>4
<1>5. CASE Collision /\ repair' = Failing(repair)
  <2>1. state' = state /\ faults' \in 0..MaxFaults
    BY <1>1, <1>5 DEF Collision, Inv, TypeOK
  <2> QED
    BY <1>1, <1>2, <1>5, <2>1, FailureStands
<1> QED
  BY <1>3, <1>4, <1>5 DEF RecordRepair

LEMMA ErrorStep ==
  ASSUME Inv, RepairError
  PROVE  Inv'
<1>1. /\ repair.pc # "idle"
      /\ repair' = NoRepair \/ repair' = Failing(repair)
      /\ UNCHANGED <<now, halted, server, link, wire, queue, worker, store, state>>
      /\ faults' \in 0..MaxFaults
  BY Constants DEF RepairError, Fault, Inv, TypeOK
<1>2. Grows
  BY <1>1, KeptGrows
<1> QED
  BY <1>1, <1>2, FailureStands

LEMMA InvStep == Inv /\ [Next]_vars => Inv'
<1> SUFFICES ASSUME Inv, [Next]_vars PROVE Inv'
  OBVIOUS
<1>1. CASE Next
  BY <1>1, QuietStep, DownStep, WorkerStep, DrawStep, BeginStep, RangesStep, FetchStep,
     FinishStep, RecordStep, ErrorStep DEF Next, RepairStep
<1>2. CASE UNCHANGED vars
  BY <1>2 DEF vars, Inv, TypeOK, WarehouseIsFinal, CheckpointIsStored, Sent, Drained, Ranged,
     Progress, Hopeful, Succeeding, Fetched, Span, Closed
<1> QED
  BY <1>1, <1>2

LEMMA AlwaysInv == Spec => []Inv
  BY InvInit, InvStep, PTL DEF Spec

-----------------------------------------------------------------------------
(* The theorems.                                                           *)

\* The tables, the queue and the two writers keep their types and bounds.
THEOREM TypeCorrectness == Spec => []TypeOK
<1>1. Inv => TypeOK
  BY DEF Inv
<1> QED
  BY <1>1, AlwaysInv, PTL

\* No candle of an open minute and no incomplete derived candle is stored, and
\* the checkpoint names a stored candle, whoever wrote it.
THEOREM Stored == Spec => []StoreIsFinal
<1>1. Inv => StoreIsFinal
  BY DEF Inv, StoreIsFinal
<1> QED
  BY <1>1, AlwaysInv, PTL

\* Only the repair records a success, and only one it has reached.
LEMMA OnlySuccessIsRecorded ==
  ASSUME Inv, [Next]_vars, state.status # "success", state'.status = "success"
  PROVE  RecordRepair /\ Succeeding
<1>1. CASE RecordRepair
  BY <1>1 DEF RecordRepair, ClearState, NoState, InsertedState, Collision, Succeeding
<1>2. CASE Drain
  BY <1>2 DEF Drain, ClearState, NoState, InsertedState, Collision
<1>3. CASE ~RecordRepair /\ ~Drain
  BY <1>3 DEF Next, vars, RepairStep, Tick, Connect, Disconnect, Receive, Take, WorkerError,
     BeginRepair, ReadRanges, FetchPage, FinishRepair, RepairError, Start, Stop, Exit, Crash,
     DrawIndicator
<1> QED
  BY <1>1, <1>2, <1>3

\* A repair that is recorded as a success left no gap, no complete bucket
\* underived and no candle without its MACD, however long its pages were and
\* whatever was stored while it ran.
THEOREM SuccessMeansComplete == Spec => SuccessIsComplete
<1>1. Inv /\ [Next]_vars =>
        [state.status # "success" /\ state'.status = "success" =>
          LET span == repair.start..repair.final
          IN  /\ span \ store.one \subseteq halted
              /\ store.one \cap span \subseteq store.macd
              /\ \A b \in Buckets : b..(b + BucketSize - 1) \subseteq span \ halted
                                        => b \in store.derived]_vars
  <2> SUFFICES ASSUME Inv, [Next]_vars, state.status # "success", state'.status = "success"
               PROVE  LET span == repair.start..repair.final
                      IN  /\ span \ store.one \subseteq halted
                          /\ store.one \cap span \subseteq store.macd
                          /\ \A b \in Buckets :
                                b..(b + BucketSize - 1) \subseteq span \ halted
                                    => b \in store.derived
    OBVIOUS
  <2>1. Succeeding /\ Hopeful
    BY OnlySuccessIsRecorded DEF Succeeding, Hopeful
  <2>2. Span \subseteq store.one
    BY <2>1 DEF Inv, Progress, Fetched
  <2>3. store.one \cap halted = {}
    BY DEF Inv, WarehouseIsFinal
  <2> QED
    BY <2>1, <2>2, <2>3 DEF Inv, Progress, Span
<1> QED
  BY <1>1, AlwaysInv, PTL DEF Spec, SuccessIsComplete

-----------------------------------------------------------------------------
(* The orders judged by the candles.                                       *)

OrderRows ==
    [status : {"none", "pending", "filled"}, submitted : 0..(MaxMinute + 1),
     completed : 0..(MaxMinute + 1), exit : {"none", "stop", "target"}, at : 0..MaxMinute]

\* A filled order has been touched; the clock and the store only grow, so that
\* it stays so.
OrderInv ==
    /\ Inv
    /\ market \in Markets
    /\ order \in OrderRows
    /\ order.status = "filled" => Touched(order.submitted, "limit") # {}

-----------------------------------------------------------------------------

\* Every step of the candles is one of CandlePipeline, and the others leave the
\* candles alone.
LEMMA CandleStep == [OrderNext]_allvars => [Next]_vars
  BY DEF OrderNext, allvars, Submit, ProcessOrders, FillLimit, FireExit

\* The clock never runs backwards.
LEMMA ClockGrows ==
  ASSUME Inv, [Next]_vars
  PROVE  now' \in {now, now + 1} /\ halted' = halted
  BY DEF Next, vars, RepairStep, Tick, Connect, Disconnect, Receive, Take, Drain, WorkerError,
     BeginRepair, ReadRanges, FetchPage, FinishRepair, RecordRepair, RepairError, Start, Stop,
     Exit, Crash, DrawIndicator

\* A stored candle of the span looked at that touches a level is a touch of the
\* market, after its minute had begun.
LEMMA StoredTouch ==
  ASSUME Inv, NEW from \in Nat, NEW levels, NEW m \in Touches(from, levels)
  PROVE  /\ m \in store.one /\ m \in Nat /\ m <= MaxMinute
         /\ from <= m
         /\ m \in (from..(now - 1)) \ halted
         /\ \E l \in levels : m \in market[l]
<1>1. m \in store.one /\ from <= m /\ \E l \in levels : m \in market[l]
  BY DEF Touches, Candles
<1>2. m \in 1..(now - 1) /\ m \notin halted
  BY <1>1 DEF Inv, WarehouseIsFinal
<1>3. now \in 1..(MaxMinute + 1) /\ MaxMinute \in Nat
  BY Constants DEF Inv, TypeOK
<1> QED
  BY <1>1, <1>2, <1>3

\* The candle that decides an exit is stored, touches the stop or the target,
\* and no stored candle between the fill and it does.
LEMMA DecisiveIsFirst ==
  ASSUME Inv, order \in OrderRows,
         Touches(order.completed, {"stop", "target"}) # {}
  PROVE  /\ Decisive(order) \in Touches(order.completed, {"stop", "target"})
         /\ \A m \in Touches(order.completed, {"stop", "target"}) : Decisive(order) <= m
<1>1. order.completed \in Nat
  BY Constants DEF OrderRows
<1>2. Touches(order.completed, {"stop", "target"}) \in SUBSET Nat
  BY <1>1, StoredTouch
<1> QED
  BY <1>2, MinIsLeast DEF Decisive

-----------------------------------------------------------------------------
(* The steps.                                                              *)

LEMMA OrderInvInit == OrderInit => OrderInv
  BY InvInit, Constants DEF OrderInit, OrderInv, NoOrder, OrderRows

\* A fill answers a stored candle that touches the limit.
LEMMA FillAnswers ==
  ASSUME OrderInv, FillLimit
  PROVE  /\ order' \in OrderRows
         /\ Touched(order.submitted, "limit") # {}
         /\ order'.status = "filled" /\ order'.submitted = order.submitted
         /\ order'.exit = order.exit
<1>1. order.submitted \in Nat
  BY Constants DEF OrderInv, OrderRows
<1>2. PICK m \in Touches(order.submitted, {"limit"}) : TRUE
  BY DEF FillLimit
<1>3. m \in Touched(order.submitted, "limit")
  BY <1>1, <1>2, StoredTouch DEF Touched, OrderInv
<1>4. now \in 0..(MaxMinute + 1)
  BY Constants DEF OrderInv, Inv, TypeOK
<1> QED
  BY <1>3, <1>4 DEF FillLimit, OrderInv, OrderRows

\* An exit answers the first stored candle that touches either level.
LEMMA ExitAnswers ==
  ASSUME OrderInv, FireExit
  PROVE  /\ order' \in OrderRows
         /\ order'.status = order.status /\ order'.submitted = order.submitted
         /\ order'.at \in Touched(order.completed, order'.exit)
         /\ \A m \in store.one :
                m \in order.completed..(order'.at - 1)
                    => m \notin market["stop"] \cup market["target"]
         /\ order'.exit = "target" => order'.at \notin market["stop"]
<1> DEFINE d == Decisive(order)
           touches == Touches(order.completed, {"stop", "target"})
<1>1. order.completed \in Nat /\ now \in Nat
  BY Constants DEF OrderInv, OrderRows, Inv, TypeOK
<1>2. d \in touches /\ \A m \in touches : d <= m
  BY DecisiveIsFirst DEF FireExit, OrderInv
<1>3. /\ d \in store.one /\ d \in Nat /\ d <= MaxMinute
      /\ d \in (order.completed..(now - 1)) \ halted
      /\ d \in market["stop"] \cup market["target"]
  BY <1>1, <1>2, StoredTouch DEF OrderInv
<1>4. /\ order'.at = d
      /\ order'.exit = IF d \in market["stop"] THEN "stop" ELSE "target"
      /\ order'.status = order.status /\ order'.submitted = order.submitted
  BY DEF FireExit, OrderInv, OrderRows
<1>5. order' \in OrderRows
  <2>1. d \in 0..MaxMinute /\ order \in OrderRows
    BY <1>3, Constants DEF OrderInv
  <2>2. order' = [order EXCEPT !.at = d,
                               !.exit = IF d \in market["stop"] THEN "stop" ELSE "target"]
    BY DEF FireExit
  <2> HIDE DEF d
  <2> QED
    BY <2>1, <2>2 DEF OrderRows
<1>6. order'.at \in Touched(order.completed, order'.exit)
  BY <1>3, <1>4 DEF Touched
<1>7. ASSUME NEW m \in store.one, m \in order.completed..(order'.at - 1)
      PROVE  m \notin market["stop"] \cup market["target"]
  <2>1. m \in Nat /\ order.completed <= m /\ m < d /\ m <= now
    BY <1>1, <1>3, <1>4, <1>7
  <2>2. SUFFICES ASSUME m \in market["stop"] \cup market["target"] PROVE FALSE
    OBVIOUS
  <2>3. m \in touches
    BY <1>7, <2>1, <2>2 DEF Touches, Candles
  <2> QED
    BY <1>2, <1>3, <2>1, <2>3
<1> QED
  BY <1>4, <1>5, <1>6, <1>7

LEMMA OrderInvStep ==
  ASSUME OrderInv, [OrderNext]_allvars
  PROVE  OrderInv'
<1>1. Inv'
  BY CandleStep, InvStep DEF OrderInv
<1>2. market' = market
  BY DEF OrderNext, allvars, Submit, ProcessOrders, FillLimit, FireExit
<1>3. /\ order' \in OrderRows
      /\ order'.status = "filled" => /\ Touched(order'.submitted, "limit") # {}
                                     /\ order'.submitted \in Nat
  <2>1. CASE UNCHANGED order
    BY <2>1, Constants DEF OrderInv, OrderRows
  <2>2. CASE Submit
    <3>1. now \in 0..(MaxMinute + 1)
      BY Constants DEF OrderInv, Inv, TypeOK
    <3> QED
      BY <2>2, <3>1 DEF Submit, OrderInv, OrderRows
  <2>3. CASE FillLimit
    BY <2>3, FillAnswers, Constants DEF OrderRows
  <2>4. CASE FireExit
    BY <2>4, ExitAnswers, Constants DEF OrderInv, OrderRows
  <2> QED
    BY <2>1, <2>2, <2>3, <2>4 DEF OrderNext, ProcessOrders, allvars
<1>4. (order.status = "filled" => Touched(order.submitted, "limit") # {})'
  <2> SUFFICES ASSUME order'.status = "filled"
               PROVE  (Touched(order.submitted, "limit") # {})'
    OBVIOUS
  <2> DEFINE from == order'.submitted
  <2>1. PICK m \in Touched(from, "limit") : TRUE
    BY <1>3
  <2>2. now \in Nat /\ from \in Nat
    BY <1>3 DEF OrderInv, Inv, TypeOK
  <2>3. now' \in {now, now + 1} /\ halted' = halted
    BY CandleStep, ClockGrows DEF OrderInv
  <2>4. m \in ((from..(now' - 1)) \cap market'["limit"]) \ halted'
    BY <1>2, <2>1, <2>2, <2>3 DEF Touched
  <2> QED
    BY <2>4 DEF Touched
<1> QED
  BY <1>1, <1>2, <1>3, <1>4 DEF OrderInv

LEMMA AlwaysOrderInv == OrderSpec => []OrderInv
  BY OrderInvInit, OrderInvStep, PTL DEF OrderSpec

-----------------------------------------------------------------------------
(* The theorems.                                                           *)

\* The candles and the order they decide on keep their types.
THEOREM OrderTypeCorrectness == OrderSpec => []OrderTypeOK
<1>1. OrderInv => OrderTypeOK
  BY DEF OrderInv, OrderRows, OrderTypeOK, Inv
<1> QED
  BY <1>1, AlwaysOrderInv, PTL

\* The pending order processor executes orders at prices the market reached, and
\* exits at the first touch it can know of, however candles were lost, late or
\* repaired.
THEOREM DecidedByTheMarket == OrderSpec => MarketDecides
<1>1. OrderInv /\ OrderInv' /\ [OrderNext]_allvars =>
        [/\ order'.status = "filled" => Touched(order'.submitted, "limit") # {}
         /\ order'.exit # order.exit =>
               LET earlier == order.completed..(order'.at - 1)
               IN  /\ order'.at \in Touched(order.completed, order'.exit)
                   /\ (earlier \cap (market["stop"] \cup market["target"])) \cap store.one = {}
                   /\ order'.exit = "target" => order'.at \notin market["stop"]]_allvars
  <2> SUFFICES ASSUME OrderInv, [OrderNext]_allvars
      PROVE  /\ order'.status = "filled" => Touched(order'.submitted, "limit") # {}
             /\ order'.exit # order.exit =>
                   LET earlier == order.completed..(order'.at - 1)
                   IN  /\ order'.at \in Touched(order.completed, order'.exit)
                       /\ (earlier \cap (market["stop"] \cup market["target"]))
                              \cap store.one = {}
                       /\ order'.exit = "target" => order'.at \notin market["stop"]
    OBVIOUS
  <2>1. CASE UNCHANGED order
    BY <2>1 DEF OrderInv
  <2>2. CASE Submit
    BY <2>2 DEF Submit, OrderInv, OrderRows
  <2>3. CASE FillLimit
    BY <2>3, FillAnswers
  <2>4. CASE FireExit
    <3>1. order.status = "filled"
      BY <2>4 DEF FireExit
    <3> QED
      BY <2>4, <3>1, ExitAnswers DEF OrderInv
  <2> QED
    BY <2>1, <2>2, <2>3, <2>4 DEF OrderNext, ProcessOrders, allvars
<1> QED
  BY <1>1, AlwaysOrderInv, PTL DEF OrderSpec, MarketDecides

=============================================================================
