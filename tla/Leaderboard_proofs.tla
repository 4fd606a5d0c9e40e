------------------------- MODULE Leaderboard_proofs --------------------------
(***************************************************************************)
(* Whom a round of pushes drops, and when the next one may begin: proved   *)
(* of Leaderboard, for any number of contests and clients.  Then the page  *)
(* at the other end, LeaderboardClient: it always has one source, of the   *)
(* contest it shows, and shows another contest's board only when it had    *)
(* asked for it, for any contests, criteria and number of polls.           *)
(***************************************************************************)
EXTENDS Leaderboard, LeaderboardClient, TLAPS

-----------------------------------------------------------------------------
(* The inductive invariant.                                                *)

Conns == {"new", "open", "gone"}
Handlers == {"none", "sending", "receiving", "ended"}
Stamps == Times \cup {Never}

Rows ==
    /\ clock \in Times
    /\ registry \in [Contests -> SUBSET Sockets]
    /\ opened \in Seq(Contests)
    /\ lastAt \in [Contests -> Stamps]
    /\ sentAt \in [Contests -> Stamps]
    /\ socket \in [Sockets -> [conn : Conns, handler : Handlers]]

Round ==
    /\ round = [pc |-> round.pc, now |-> round.now, todo |-> round.todo,
                targets |-> round.targets, results |-> round.results]
    /\ round.pc \in {"idle", "next", "sending"}
    /\ round.now \in Times /\ round.now <= clock
    /\ round.todo \in Seq(Contests)
    /\ round.pc = "sending" => round.todo # << >>
    /\ round.results \in [Sockets -> {"done", "waiting", "failed"}]

\* A send has failed only because its client has gone, and who has gone does
\* not come back.
FailedAreGone == \A c \in Sockets : round.results[c] = "failed" => socket[c].conn = "gone"

\* Who is registered, or being sent a push, has connected.
Connected ==
    /\ \A k \in Contests : \A c \in registry[k] : socket[c].conn # "new"
    /\ \A c \in Sockets : round.results[c] = "waiting" => socket[c].conn # "new"

Cache == cache \in SUBSET Contests

Inv == Rows /\ Round /\ FailedAreGone /\ Connected

LEMMA Constants ==
  /\ Throttle \in Nat /\ MaxTime \in Nat /\ 0 \in Times /\ Times \subseteq Int
  /\ Never \in Int /\ Stamps \subseteq Int
  /\ Watches \in [Sockets -> Contests]
  BY TimesAssumption, ClientsAssumption DEF Times, Never, Stamps, Sockets

LEMMA EmptyRound ==
  ASSUME NEW now \in Times, NEW pc \in {"idle", "next"}, NEW todo \in Seq(Contests),
         now <= clock',
         round' = [pc |-> pc, now |-> now, todo |-> todo, targets |-> << >>,
                   results |-> [c \in Sockets |-> "done"]]
  PROVE  /\ Round' /\ FailedAreGone'
         /\ \A c \in Sockets : round'.results[c] = "done"
<1>1. /\ round'.pc = pc /\ round'.now = now /\ round'.todo = todo
      /\ round'.targets = << >> /\ round'.results = [c \in Sockets |-> "done"]
  OBVIOUS
<1> QED
  BY <1>1 DEF Round, FailedAreGone

LEMMA InvInit == Init => Inv
<1> SUFFICES ASSUME Init PROVE Inv
  OBVIOUS
<1>1. Rows
  BY Constants DEF Init, Rows, Stamps, Conns, Handlers
<1>2. /\ round.pc = "idle" /\ round.now = 0 /\ round.todo = << >>
      /\ round.targets = << >> /\ round.results = [c \in Sockets |-> "done"]
      /\ round = [pc |-> "idle", now |-> 0, todo |-> << >>, targets |-> << >>,
                  results |-> [c \in Sockets |-> "done"]]
  BY DEF Init, NoRound
<1>3. Round /\ FailedAreGone /\ Connected
  BY <1>2, Constants DEF Init, Round, FailedAreGone, Connected
<1> QED
  BY <1>1, <1>3 DEF Inv

-----------------------------------------------------------------------------
(* One lemma per kind of step.                                             *)

LEMMA ClientStep ==
  ASSUME Inv, NEW c \in Sockets,
         Open(c) \/ Refuse(c) \/ SnapshotSent(c) \/ SetSort(c) \/ Leave(c)
           \/ HandlerEnds(c) \/ Malformed(c)
  PROVE  Inv'
<1>1. UNCHANGED <<clock, lastAt, round, sentAt>>
  BY DEF Open, Refuse, SnapshotSent, SetSort, Leave, HandlerEnds, Malformed, Snapshot, Discard
<1>2. Watches[c] \in Contests
  BY Constants
<1>3. opened' \in Seq(Contests)
  <2>1. Append(opened, Watches[c]) \in Seq(Contests)
    BY <1>2 DEF Inv, Rows
  <2> QED
    BY <2>1 DEF Inv, Rows, Open, Refuse, SnapshotSent, SetSort, Leave, HandlerEnds,
       Malformed, Inserted
<1>4. registry' \in [Contests -> SUBSET Sockets]
  BY <1>2 DEF Inv, Rows, Open, Refuse, SnapshotSent, SetSort, Leave, HandlerEnds,
     Malformed, Discard
<1>5. /\ socket' \in [Sockets -> [conn : Conns, handler : Handlers]]
      /\ \A d \in Sockets : socket[d].conn = "gone" => socket'[d].conn = "gone"
      /\ \A d \in Sockets : socket[d].conn # "new" => socket'[d].conn # "new"
  <2>1. socket \in [Sockets -> [conn : Conns, handler : Handlers]]
    BY DEF Inv, Rows
  <2>2. CASE (Open(c) \/ SetSort(c))
    <3>1. /\ socket[c].conn # "gone"
          /\ \E h \in Handlers : socket' = [socket EXCEPT ![c].conn = "open", ![c].handler = h]
      BY <2>1, <2>2 DEF Open, SetSort, Snapshot, Handlers
    <3>2. PICK h \in Handlers : socket' = [socket EXCEPT ![c].conn = "open", ![c].handler = h]
      BY <3>1
    <3> DEFINE opening == [socket EXCEPT ![c].conn = "open"]
    <3>3. /\ opening \in [Sockets -> [conn : Conns, handler : Handlers]]
          /\ opening[c].conn = "open"
          /\ \A d \in Sockets : d # c => opening[d] = socket[d]
      BY <2>1 DEF Conns
    <3>4. socket' = [opening EXCEPT ![c].handler = h]
      BY <2>1, <3>2
    <3> HIDE DEF opening
    <3>5. /\ socket' \in [Sockets -> [conn : Conns, handler : Handlers]]
          /\ socket'[c].conn = "open"
          /\ \A d \in Sockets : d # c => socket'[d] = socket[d]
      BY <3>3, <3>4
    <3> QED
      BY <3>1, <3>5
  <2>3. CASE Refuse(c)
    BY <2>1, <2>3 DEF Refuse, Conns, Handlers
  <2>4. CASE SnapshotSent(c)
    BY <2>1, <2>4 DEF SnapshotSent, Conns, Handlers
  <2>5. CASE Leave(c)
    BY <2>1, <2>5 DEF Leave, Conns, Handlers
  <2>6. CASE HandlerEnds(c)
    BY <2>1, <2>6 DEF HandlerEnds, Conns, Handlers
  <2>7. CASE Malformed(c)
    <3> DEFINE closed == [socket EXCEPT ![c].conn = "gone"]
    <3>1. /\ closed \in [Sockets -> [conn : Conns, handler : Handlers]]
          /\ closed[c].conn = "gone"
          /\ \A d \in Sockets : d # c => closed[d] = socket[d]
      BY <2>1 DEF Conns
    <3>2. socket' = [closed EXCEPT ![c].handler = "ended"]
      BY <2>1, <2>7 DEF Malformed
    <3> HIDE DEF closed
    <3>3. /\ socket' \in [Sockets -> [conn : Conns, handler : Handlers]]
          /\ socket'[c].conn = "gone"
          /\ \A d \in Sockets : d # c => socket'[d] = socket[d]
      BY <3>1, <3>2 DEF Handlers
    <3> QED
      BY <3>3
  <2> QED
    BY <2>2, <2>3, <2>4, <2>5, <2>6, <2>7
<1>o. Open(c) => socket'[c].conn # "new"
  <2> SUFFICES ASSUME Open(c) PROVE socket'[c].conn = "open"
    OBVIOUS
  <2>1. /\ socket \in [Sockets -> [conn : Conns, handler : Handlers]]
        /\ \E h \in Handlers : socket' = [socket EXCEPT ![c].conn = "open", ![c].handler = h]
    BY DEF Inv, Rows, Open, Snapshot, Handlers
  <2> QED
    BY <2>1
<1>6. \A k \in Contests : \A d \in registry'[k] : d \in registry[k] \/ (Open(c) /\ d = c)
  BY <1>2 DEF Inv, Rows, Open, Refuse, SnapshotSent, SetSort, Leave, HandlerEnds,
     Malformed, Discard
<1>7. Connected'
  BY <1>1, <1>4, <1>5, <1>o, <1>6 DEF Inv, Rows, Connected
<1> QED
  BY <1>1, <1>3, <1>4, <1>5, <1>7 DEF Inv, Rows, Round, FailedAreGone

LEMMA PushStep ==
  ASSUME Inv, NEW c \in Sockets, Push(c)
  PROVE  Inv'
<1> DEFINE answer == IF socket[c].conn = "open" THEN "done" ELSE "failed"
<1>1. /\ round.results[c] = "waiting"
      /\ round' = [round EXCEPT !.results[c] = answer]
      /\ UNCHANGED <<clock, registry, opened, cache, lastAt, socket, sentAt>>
  BY DEF Push
<1>2. /\ round'.pc = round.pc /\ round'.now = round.now /\ round'.todo = round.todo
      /\ round'.targets = round.targets
      /\ round'.results = [round.results EXCEPT ![c] = answer]
      /\ round' = [pc |-> round'.pc, now |-> round'.now, todo |-> round'.todo,
                   targets |-> round'.targets, results |-> round'.results]
  BY <1>1 DEF Inv, Round
<1>3. socket[c].conn \in Conns /\ socket[c].conn # "new"
  BY <1>1 DEF Inv, Rows, Connected
<1>4. FailedAreGone' /\ Connected'
  BY <1>1, <1>2, <1>3 DEF Inv, Round, FailedAreGone, Connected, Conns
<1> QED
  BY <1>1, <1>2, <1>4 DEF Inv, Rows, Round

\* A push begins with a send to every registered client, and ends with none.
LEMMA RoundSteps ==
  ASSUME Inv, Tick \/ PriceUpdate \/ RoundStep
  PROVE  Inv'
<1>1. CASE Tick
  <2>1. /\ clock' = clock + 1 /\ clock' \in Times /\ clock <= clock'
        /\ UNCHANGED <<registry, opened, cache, lastAt, socket, round, sentAt>>
    BY <1>1, Constants DEF Tick, Times, Inv, Rows
  <2>2. round.now <= clock'
    BY <2>1, Constants DEF Inv, Rows, Round, Times
  <2> QED
    BY <2>1, <2>2 DEF Inv, Rows, Round, FailedAreGone, Connected
<1>2. CASE PriceUpdate
  <2>1. /\ round' = [pc |-> "next", now |-> clock, todo |-> opened, targets |-> << >>,
                     results |-> [c \in Sockets |-> "done"]]
        /\ UNCHANGED <<clock, registry, opened, cache, lastAt, socket, sentAt>>
    BY <1>2 DEF PriceUpdate, NoRound
  <2>2. clock \in Times /\ opened \in Seq(Contests) /\ clock <= clock'
    BY <2>1, Constants DEF Inv, Rows
  <2>3. Round' /\ FailedAreGone' /\ \A c \in Sockets : round'.results[c] = "done"
    BY <2>1, <2>2, EmptyRound
  <2> QED
    BY <2>1, <2>3 DEF Inv, Rows, Connected
<1>3. CASE SkipContest \/ SkipBoard
  <2>1. /\ round.pc = "next" /\ round.todo # << >>
        /\ round' = [round EXCEPT !.todo = Tail(@)]
        /\ UNCHANGED <<clock, registry, opened, lastAt, socket, sentAt>>
    BY <1>3 DEF SkipContest, SkipBoard
  <2>2. Tail(round.todo) \in Seq(Contests)
    BY <2>1 DEF Inv, Round
  <2>3. /\ round'.pc = round.pc /\ round'.now = round.now /\ round'.todo = Tail(round.todo)
        /\ round'.targets = round.targets /\ round'.results = round.results
        /\ round' = [pc |-> round'.pc, now |-> round'.now, todo |-> round'.todo,
                     targets |-> round'.targets, results |-> round'.results]
    BY <2>1 DEF Inv, Round
  <2> QED
    BY <2>1, <2>2, <2>3 DEF Inv, Rows, Round, FailedAreGone, Connected
<1>4. CASE StartPush
  <2> DEFINE k == Head(round.todo)
             sends == [c \in Sockets |-> IF c \in registry[k] THEN "waiting" ELSE "done"]
  <2>1. /\ round.pc = "next" /\ round.todo # << >>
        /\ round' = [round EXCEPT !.pc = "sending", !.targets = Listed(k), !.results = sends]
        /\ sentAt' = [sentAt EXCEPT ![k] = clock]
        /\ UNCHANGED <<clock, registry, opened, lastAt, socket>>
    BY <1>4 DEF StartPush
  <2>2. k \in Contests
    BY <2>1 DEF Inv, Round
  <2> HIDE DEF k
  <2>3. /\ round'.pc = "sending" /\ round'.now = round.now /\ round'.todo = round.todo
        /\ round'.targets = Listed(k) /\ round'.results = sends
        /\ round' = [pc |-> round'.pc, now |-> round'.now, todo |-> round'.todo,
                     targets |-> round'.targets, results |-> round'.results]
    BY <2>1 DEF Inv, Round
  <2>4. FailedAreGone' /\ Connected'
    BY <2>1, <2>2, <2>3 DEF Inv, FailedAreGone, Connected
  <2>5. Round'
    BY <2>1, <2>3 DEF Inv, Round
  <2> QED
    BY <2>1, <2>2, <2>4, <2>5 DEF Inv, Rows, Stamps
<1>5. CASE FinishPush
  <2> DEFINE k == Head(round.todo)
  <2>1. /\ round.pc = "sending"
        /\ \E dead : registry' = [registry EXCEPT ![k] = @ \ dead]
        /\ lastAt' = [lastAt EXCEPT ![k] = round.now]
        /\ round' = [NoRound EXCEPT !.pc = "next", !.now = round.now, !.todo = Tail(round.todo)]
        /\ UNCHANGED <<clock, opened, cache, socket, sentAt>>
    BY <1>5, Zenon DEF FinishPush
  <2>r. round' = [pc |-> "next", now |-> round.now, todo |-> Tail(round.todo),
                  targets |-> << >>, results |-> [c \in Sockets |-> "done"]]
    BY <2>1 DEF NoRound
  <2>2. /\ k \in Contests /\ Tail(round.todo) \in Seq(Contests)
        /\ round.now \in Times /\ round.now <= clock'
    BY <2>1 DEF Inv, Round
  <2>3. Round' /\ FailedAreGone' /\ \A c \in Sockets : round'.results[c] = "done"
    BY <2>r, <2>2, EmptyRound
  <2> HIDE DEF k
  <2>4. /\ registry' \in [Contests -> SUBSET Sockets]
        /\ \A j \in Contests : registry'[j] \subseteq registry[j]
    BY <2>1, <2>2 DEF Inv, Rows
  <2> QED
    BY <2>1, <2>2, <2>3, <2>4 DEF Inv, Rows, Connected, Stamps
<1>6. CASE EndRound
  <2>1. /\ round' = [pc |-> "idle", now |-> 0, todo |-> << >>, targets |-> << >>,
                     results |-> [c \in Sockets |-> "done"]]
        /\ UNCHANGED <<clock, registry, opened, cache, lastAt, socket, sentAt>>
    BY <1>6 DEF EndRound, NoRound
  <2>2. 0 <= clock' /\ << >> \in Seq(Contests)
    BY <2>1 DEF Inv, Rows, Times
  <2>3. Round' /\ FailedAreGone' /\ \A c \in Sockets : round'.results[c] = "done"
    BY <2>1, <2>2, EmptyRound, Constants
  <2> QED
    BY <2>1, <2>3 DEF Inv, Rows, Connected
<1> QED
  BY <1>1, <1>2, <1>3, <1>4, <1>5, <1>6 DEF RoundStep

LEMMA InvStep == Inv /\ [Next]_vars => Inv'
<1> SUFFICES ASSUME Inv, [Next]_vars PROVE Inv'
  OBVIOUS
<1>1. CASE Next
  BY <1>1, ClientStep, PushStep, RoundSteps DEF Next
<1>2. CASE UNCHANGED vars
  BY <1>2 DEF vars, Inv, Rows, Round, FailedAreGone, Connected
<1> QED
  BY <1>1, <1>2

LEMMA AlwaysInv == Spec => []Inv
  BY InvInit, InvStep, PTL DEF Spec

LEMMA CacheStep ==
  ASSUME Inv, Cache, [Next]_vars
  PROVE  Cache'
<1>1. ASSUME NEW k \in Contests, Reads(k) PROVE Cache'
  BY <1>1 DEF Reads, Cache
<1>2. CASE \E c \in Sockets : Open(c) \/ SetSort(c)
  <2>1. PICK c \in Sockets : Open(c) \/ SetSort(c)
    BY <1>2
  <2> QED
    BY <2>1, <1>1, Constants DEF Open, SetSort, Snapshot
<1>3. CASE SkipBoard \/ StartPush
  <2>1. round.todo \in Seq(Contests) /\ round.todo # << >>
    BY <1>3 DEF Inv, Round, SkipBoard, StartPush
  <2>2. Head(round.todo) \in Contests
    BY <2>1
  <2> QED
    BY <1>1, <1>3, <2>2 DEF SkipBoard, StartPush
<1>4. CASE UNCHANGED cache
  BY <1>4 DEF Cache
<1>5. CASE \E c \in Sockets : Refuse(c) \/ SnapshotSent(c) \/ Leave(c) \/ HandlerEnds(c)
                                \/ Malformed(c) \/ Push(c)
  BY <1>4, <1>5 DEF Refuse, SnapshotSent, Leave, HandlerEnds, Malformed, Push
<1>6. CASE Tick \/ PriceUpdate \/ SkipContest \/ FinishPush \/ EndRound
  BY <1>4, <1>6 DEF Tick, PriceUpdate, SkipContest, FinishPush, EndRound
<1> QED
  BY <1>2, <1>3, <1>4, <1>5, <1>6 DEF Next, RoundStep, vars

\* The registry, the cache, the handlers and the round keep their types,
\* whoever connects, leaves or fails while pushes are under way.
THEOREM TypeCorrectness == Spec => []TypeOK
<1>1. Init => Inv /\ Cache
  BY InvInit DEF Init, Cache
<1>2. Inv /\ Cache /\ [Next]_vars => (Inv /\ Cache)'
  BY InvStep, CacheStep
<1>3. Inv /\ Cache => TypeOK
  BY DEF Inv, Cache, Rows, Round, TypeOK, Stamps, Conns, Handlers
<1> QED
  BY <1>1, <1>2, <1>3, PTL DEF Spec

-----------------------------------------------------------------------------
(* What a step may do.                                                     *)

LEMMA OnlyStartPushBegins ==
  ASSUME Inv, NEW k \in Contests, [Next]_vars, Begins(k)
  PROVE  StartPush
<1>1. round.pc = "next" /\ round'.pc = "sending" /\ round' # round
  BY DEF Begins
<1>2. ASSUME NEW c \in Sockets,
             Open(c) \/ Refuse(c) \/ SnapshotSent(c) \/ SetSort(c) \/ Leave(c)
               \/ HandlerEnds(c) \/ Malformed(c)
      PROVE  FALSE
  BY <1>1, <1>2 DEF Open, Refuse, SnapshotSent, SetSort, Leave, HandlerEnds, Malformed, Snapshot,
     Discard
<1>3. ASSUME NEW c \in Sockets, Push(c)
      PROVE  FALSE
  <2>1. round'.pc = round.pc
    BY <1>3 DEF Push, Inv, Round
  <2> QED
    BY <1>1, <2>1
<1>4. ~Tick /\ ~UNCHANGED vars
  BY <1>1 DEF Tick, vars
<1>5. ~PriceUpdate
  BY <1>1 DEF PriceUpdate, StreamFree
<1>6. ASSUME SkipContest \/ SkipBoard PROVE FALSE
  <2>1. round'.pc = round.pc
    BY <1>6 DEF SkipContest, SkipBoard, Inv, Round
  <2> QED
    BY <1>1, <2>1
<1>7. ~FinishPush
  BY <1>1 DEF FinishPush
<1>8. ~EndRound
  BY <1>1 DEF EndRound, NoRound
<1> QED
  BY <1>2, <1>3, <1>4, <1>5, <1>6, <1>7, <1>8 DEF Next, RoundStep

\* However many contests and however slow their clients, two pushes of a
\* contest are the throttle apart, unless the first was made in a round that
\* stamped it with an earlier time (the throttle test of on_price_update).
THEOREM Spacing == Spec => PushesAreSpaced
<1>1. ASSUME Inv, [Next]_vars
      PROVE  \A k \in Contests :
               Begins(k) => clock - sentAt[k] >= Throttle \/ sentAt[k] > lastAt[k]
  <2> SUFFICES ASSUME NEW k \in Contests, Begins(k), ~(sentAt[k] > lastAt[k])
               PROVE  clock - sentAt[k] >= Throttle
    OBVIOUS
  <2>1. StartPush
    BY <1>1, OnlyStartPushBegins
  <2>2. ~(round.now - lastAt[k] < Throttle)
    BY <2>1, Zenon DEF StartPush, Begins, Throttled
  <2>3. /\ clock \in Int /\ round.now \in Int /\ round.now <= clock
        /\ sentAt[k] \in Int /\ lastAt[k] \in Int /\ Throttle \in Int
    BY <1>1, Constants DEF Inv, Rows, Round
  <2> QED
    BY <2>2, <2>3
<1>2. Inv /\ [Next]_vars
      => [\A k \in Contests :
            Begins(k) => clock - sentAt[k] >= Throttle \/ sentAt[k] > lastAt[k]]_vars
  BY <1>1
<1> QED
  BY <1>2, AlwaysInv, PTL DEF Spec, PushesAreSpaced

LEMMA MatchedWithItself ==
  ASSUME NEW s, NEW p \in ToSet(Zip(s, s))
  PROVE  p[1] = p[2]
<1>1. PICK i \in DOMAIN Zip(s, s) : p = Zip(s, s)[i]
  BY DEF ToSet
<1> QED
  BY <1>1 DEF Zip

LEMMA DropStep ==
  ASSUME Inv, [Next]_vars, NEW c \in Sockets,
         c \in registry[Watches[c]], c \notin registry'[Watches[c]], socket'[c].conn = "open"
  PROVE  round.pc = "sending" /\ Listed(Watches[c]) # round.targets
<1>1. Watches[c] \in Contests /\ registry \in [Contests -> SUBSET Sockets]
  BY Constants DEF Inv, Rows
<1>2. registry' # registry
  OBVIOUS
<1>3. /\ ~Tick /\ ~PriceUpdate /\ ~SkipContest /\ ~SkipBoard /\ ~StartPush /\ ~EndRound
      /\ ~UNCHANGED vars
  BY <1>2 DEF Tick, PriceUpdate, SkipContest, SkipBoard, StartPush, EndRound, vars
<1>4. ASSUME NEW d \in Sockets PROVE ~Refuse(d) /\ ~SetSort(d) /\ ~Leave(d) /\ ~Push(d)
  BY <1>2 DEF Refuse, SetSort, Leave, Push
<1>5. ASSUME NEW d \in Sockets, Open(d) PROVE FALSE
  BY <1>1, <1>5, Constants DEF Open
<1>6. ASSUME NEW d \in Sockets, SnapshotSent(d) \/ HandlerEnds(d) \/ Malformed(d) PROVE FALSE
  <2>1. socket'[d].conn # "open" /\ registry' = [registry EXCEPT ![Watches[d]] = @ \ {d}]
    <3>1. socket \in [Sockets -> [conn : Conns, handler : Handlers]]
      BY DEF Inv, Rows
    <3>2. CASE SnapshotSent(d)
      BY <1>2, <3>1, <3>2 DEF SnapshotSent, Discard
    <3>3. CASE HandlerEnds(d)
      BY <3>1, <3>3 DEF HandlerEnds, Discard
    <3>4. CASE Malformed(d)
      BY <3>1, <3>4 DEF Malformed, Discard
    <3> QED
      BY <1>6, <3>2, <3>3, <3>4
  <2> QED
    BY <1>1, <2>1, Constants
<1>7. FinishPush
  BY <1>3, <1>4, <1>5, <1>6 DEF Next, RoundStep
<1> SUFFICES ASSUME Listed(Watches[c]) = round.targets PROVE FALSE
  BY <1>7 DEF FinishPush
<1> DEFINE k == Head(round.todo)
           matched == IF registry[k] = {} THEN << >> ELSE Matched(k)
           dead == {p[1] : p \in {q \in ToSet(matched) : round.results[q[2]] = "failed"}}
<1>8. registry' = [registry EXCEPT ![k] = @ \ dead]
  BY <1>7 DEF FinishPush
<1> HIDE DEF dead
<1>9. k = Watches[c] /\ c \in dead
  BY <1>1, <1>8
<1>10. matched = Zip(round.targets, round.targets)
  BY <1>9 DEF Matched
<1> HIDE DEF matched
<1>11. PICK p \in ToSet(matched) : round.results[p[2]] = "failed" /\ c = p[1]
  BY <1>9 DEF dead
<1>12. round.results[c] = "failed"
  BY <1>10, <1>11, MatchedWithItself
<1> QED
  BY <1>7, <1>12 DEF FinishPush, Inv, FailedAreGone

\* Matching the gathered results with the set as it stands afterwards
\* (_broadcast_to_contest) costs a connected client its place only when that
\* set is listed otherwise than it was when the sends began.
THEOREM DropsOnlyByShift == Spec => HealthyDroppedOnlyByShift
<1>1. Inv /\ [Next]_vars
      => [\A c \in Sockets :
            LET k == Watches[c]
            IN  /\ c \in registry[k] /\ c \notin registry'[k]
                /\ socket'[c].conn = "open"
                => round.pc = "sending" /\ Listed(k) # round.targets]_vars
  BY DropStep
<1> QED
  BY <1>1, AlwaysInv, PTL DEF Spec, HealthyDroppedOnlyByShift

-----------------------------------------------------------------------------
(* The page.  The two invariants are inductive together: that there is no  *)
(* more than one socket follows from its being that of the contest shown.  *)

PageInv == PageTypeOK /\ PageHasOneSource

LEMMA PollCounts ==
  ASSUME PageTypeOK, NEW k \in PageContests
  PROVE  /\ Sent(k) \in [PageContests -> 0..MaxPolls]
         /\ polls[k] > 0 => [polls EXCEPT ![k] = @ - 1] \in [PageContests -> 0..MaxPolls]
  BY PollsAssumption DEF PageTypeOK, Sent

LEMMA PageConnectStep ==
  ASSUME PageTypeOK, NEW k \in PageContests, Connect(k)
  PROVE  /\ status' \in {"connecting", "error"}
         /\ status' = "connecting" => wires' = {k}
         /\ status' = "error" => wires' = {} /\ polling' = TRUE
         /\ live' \in BOOLEAN
         /\ polling' \in BOOLEAN
         /\ polls' \in [PageContests -> 0..MaxPolls]
  BY PollCounts DEF Connect, Wired, StartPolling, PageTypeOK

LEMMA PageFailureStep ==
  ASSUME PageInv, mounted, HandleFailure
  PROVE  /\ status' = "error" /\ polling' = TRUE
         /\ polls' \in [PageContests -> 0..MaxPolls]
  BY PollCounts DEF PageInv, HandleFailure, StartPolling, PageTypeOK, PageHasOneSource

LEMMA PageInvInit == PageInit => PageInv
<1> SUFFICES ASSUME PageInit PROVE PageInv
  OBVIOUS
<1>1. polls \in [PageContests -> 0..MaxPolls]
  BY PollsAssumption DEF PageInit
<1>2. rows \in PageBoards
  BY DEF PageInit, PageBoards
<1> QED
  BY <1>1, <1>2 DEF PageInit, PageInv, PageTypeOK, PageHasOneSource

LEMMA PageInvStep == PageInv /\ [PageNext]_pageVars => PageInv'
<1> SUFFICES ASSUME PageInv, [PageNext]_pageVars PROVE PageInv'
  OBVIOUS
<1>1. ASSUME NEW k \in PageContests, Board(k) PROVE PageInv'
  BY <1>1 DEF Board, Shown, PageInv, PageTypeOK, PageHasOneSource, PageBoards
<1>2. ASSUME NEW k \in PageContests, Drop(k) PROVE PageInv'
  <2>1. mounted /\ wires' = {}
    BY <1>2 DEF Drop, PageInv, PageTypeOK, PageHasOneSource
  <2>2. /\ status' = "error" /\ polling' = TRUE
        /\ polls' \in [PageContests -> 0..MaxPolls]
    BY <1>2, <2>1, PageFailureStep DEF Drop
  <2> QED
    BY <1>2, <2>1, <2>2 DEF Drop, PageInv, PageTypeOK, PageHasOneSource
<1>3. ASSUME NEW k \in PageContests, Switch(k) PROVE PageInv'
  BY <1>3, PageConnectStep DEF Switch, PageInv, PageTypeOK, PageHasOneSource
<1>4. ASSUME NEW k \in PageContests, PollAnswered(k) PROVE PageInv'
  BY <1>4, PollCounts DEF PollAnswered, Shown, PageInv, PageTypeOK, PageHasOneSource, PageBoards
<1>5. ASSUME NEW k \in PageContests, PollFails(k) PROVE PageInv'
  BY <1>5, PollCounts DEF PollFails, PageInv, PageTypeOK, PageHasOneSource
<1>6. ASSUME NEW s \in Sorts, SetSortBy(s) PROVE PageInv'
  <2>1. CASE status = "connected" /\ UNCHANGED <<status, wires, live, polling, polls>>
    BY <1>6, <2>1 DEF SetSortBy, PageInv, PageTypeOK, PageHasOneSource
  <2>2. CASE Connect(contest)
    BY <1>6, <2>2, PageConnectStep DEF SetSortBy, PageInv, PageTypeOK, PageHasOneSource
  <2> QED
    BY <1>6, <2>1, <2>2 DEF SetSortBy
<1>7. CASE Poll
  BY <1>7, PollCounts DEF Poll, PageInv, PageTypeOK, PageHasOneSource
<1>8. CASE Refresh \/ RefreshFails
  BY <1>8 DEF Refresh, RefreshFails, PageInv, PageTypeOK, PageHasOneSource
<1>9. CASE RefreshAnswered
  BY <1>9 DEF RefreshAnswered, Shown, PageInv, PageTypeOK, PageHasOneSource, PageBoards
<1>10. CASE Unmount
  BY <1>10 DEF Unmount, Wired, PageInv, PageTypeOK, PageHasOneSource
<1>11. CASE UNCHANGED pageVars
  BY <1>11 DEF pageVars, PageInv, PageTypeOK, PageHasOneSource
<1>12. CASE GoesSilent
  <2>1. live' \in BOOLEAN
    BY <1>12 DEF GoesSilent
  <2>2. UNCHANGED <<contest, sort, status, rows, wires, polling, polls, refreshing, mounted>>
    BY <1>12 DEF GoesSilent
  <2> QED
    BY <2>1, <2>2 DEF PageInv, PageTypeOK, PageHasOneSource
<1> QED
  BY <1>1, <1>2, <1>3, <1>4, <1>5, <1>6, <1>7, <1>8, <1>9, <1>10, <1>11, <1>12 DEF PageNext

LEMMA AlwaysPageInv == PageSpec => []PageInv
  BY PageInvInit, PageInvStep, PTL DEF PageSpec

\* Every reachable page is well typed, and listens to at most one socket.
THEOREM PageTypeCorrectness == PageSpec => []PageTypeOK
  BY AlwaysPageInv, PTL DEF PageInv

\* connect, handleFailure, onmessage and onUnmounted keep the page on exactly
\* one source, however they follow one another.
THEOREM OneSource == PageSpec => []PageHasOneSource
  BY AlwaysPageInv, PTL DEF PageInv

-----------------------------------------------------------------------------

LEMMA ForeignStep ==
  ASSUME PageInv, [PageNext]_pageVars, rows' # rows, rows'.of # contest'
  PROVE  \/ refreshing = rows'.of /\ refreshing' = None
         \/ status = "error" /\ polls'[rows'.of] < polls[rows'.of]
<1>1. ASSUME NEW k \in PageContests, Board(k) PROVE FALSE
  BY <1>1 DEF Board, Shown, PageInv, PageHasOneSource
<1>2. ASSUME NEW k \in PageContests, PollAnswered(k)
      PROVE  status = "error" /\ polls'[rows'.of] < polls[rows'.of]
  <2>1. status = "error" /\ rows'.of = k /\ polls' = [polls EXCEPT ![k] = @ - 1]
    BY <1>2 DEF PollAnswered, Shown
  <2>2. polls \in [PageContests -> 0..MaxPolls]
    BY DEF PageInv, PageTypeOK
  <2>3. polls'[k] = polls[k] - 1 /\ polls[k] \in Nat
    BY <2>1, <2>2
  <2> QED
    BY <2>1, <2>3
<1>3. ASSUME RefreshAnswered PROVE refreshing = rows'.of /\ refreshing' = None
  BY <1>3 DEF RefreshAnswered, Shown
<1>4. ASSUME NEW k \in PageContests PROVE ~Drop(k) /\ ~Switch(k) /\ ~PollFails(k)
  BY DEF Drop, Switch, PollFails
<1>5. ASSUME NEW s \in Sorts PROVE ~SetSortBy(s)
  BY DEF SetSortBy
<1>6. ~Poll /\ ~Refresh /\ ~RefreshFails /\ ~Unmount /\ ~GoesSilent /\ ~UNCHANGED pageVars
  BY DEF Poll, GoesSilent, Refresh, RefreshFails, Unmount, pageVars
<1> QED
  BY <1>1, <1>2, <1>3, <1>4, <1>5, <1>6 DEF PageNext

\* No socket of a contest that was left is ever heard: what the page shows of
\* another contest it had asked for by HTTP.
THEOREM ForeignAsked == PageSpec => ForeignBoardsWereAskedFor
<1>1. PageInv /\ [PageNext]_pageVars
      => [rows' # rows /\ rows'.of # contest' =>
            \/ refreshing = rows'.of /\ refreshing' = None
            \/ status = "error" /\ polls'[rows'.of] < polls[rows'.of]]_pageVars
  BY ForeignStep
<1> QED
  BY <1>1, AlwaysPageInv, PTL DEF PageSpec, ForeignBoardsWereAskedFor

=============================================================================
