---------------------------- MODULE Leaderboard -----------------------------
(***************************************************************************)
(* The realtime leaderboard: the service that pushes standings to the      *)
(* WebSocket clients of every contest (services/leaderboard_broadcast.py), *)
(* driven by the price updates of the market stream, which waits until a   *)
(* round of pushes is over (services/binance_realtime.py).                 *)
(*                                                                         *)
(* Everything runs in one event loop, so a step is what happens between    *)
(* two awaits.  A client is one connection.  What matters of a list of     *)
(* participants is whether some account is in it: the list is read in a    *)
(* session that is closed before the board is computed, the display name   *)
(* needs participant.user, which the query does not load, and the lazy     *)
(* load of a detached row raises.  A board with rows is never computed.    *)
(*                                                                         *)
(* Time is counted in units of the throttle.                               *)
(***************************************************************************)
EXTENDS Integers, SequencesExt

CONSTANTS
    Contests,   \* slugs
    Clients,    \* the connections, in the order a set of them is iterated in
    Watches,    \* the contest of each connection
    Joined,     \* the contests somebody has an account in
    Throttle,   \* throttle_seconds
    MaxTime     \* bound on the clock

ASSUME ClientsAssumption == Joined \subseteq Contests /\ Watches \in [ToSet(Clients) -> Contests]
ASSUME TimesAssumption ==
    /\ Throttle \in Nat \ {0} /\ MaxTime \in Nat

Sockets == ToSet(Clients)

VARIABLES
    clock,     \* time.monotonic()
    registry,  \* _clients
    opened,    \* the keys of _clients, in the order they were inserted in
    cache,     \* the contests in _participant_cache; any read may find the entry too old
    lastAt,    \* _last_broadcast_at
    socket,    \* the connections and their handlers
    round,     \* the on_price_update the stream is waiting for
    sentAt     \* history: when the last push to a contest really began

vars == <<clock, registry, opened, cache, lastAt, socket, round, sentAt>>

Never == -Throttle
NoRound == [pc |-> "idle", now |-> 0, todo |-> << >>, targets |-> << >>,
            results |-> [c \in Sockets |-> "done"]]
Times == 0..MaxTime

TypeOK ==
    /\ clock \in Times
    /\ registry \in [Contests -> SUBSET Sockets]
    /\ opened \in Seq(Contests)
    /\ cache \in SUBSET Contests
    /\ lastAt \in [Contests -> Times \cup {Never}]
    /\ socket \in [Sockets -> [conn : {"new", "open", "gone"},
                               handler : {"none", "sending", "receiving", "ended"}]]
    /\ round.pc \in {"idle", "next", "sending"}
    /\ round.now \in Times
    /\ round.todo \in Seq(Contests)
    /\ round.results \in [Sockets -> {"done", "waiting", "failed"}]
    /\ sentAt \in [Contests -> Times \cup {Never}]

Init ==
    /\ clock = 0
    /\ registry = [k \in Contests |-> {}]
    /\ opened = << >>
    /\ cache = {}
    /\ lastAt = [k \in Contests |-> Never]
    /\ socket = [c \in Sockets |-> [conn |-> "new", handler |-> "none"]]
    /\ round = NoRound
    /\ sentAt = [k \in Contests |-> Never]

Tick ==
    /\ clock < MaxTime
    /\ clock' = clock + 1
    /\ UNCHANGED <<registry, opened, cache, lastAt, socket, round, sentAt>>

-----------------------------------------------------------------------------
(* Participants and boards.                                                *)

\* _get_cached_participants: the list is read and cached, or it is still young
\* or the read fails, and what was cached is left, if anything was.
Reads(k) ==
    \/ cache' = cache \cup {k}
    \/ UNCHANGED cache

\* list_contest_participants does not load the users, and _get_display_name
\* reads participant.user of a detached participant.
UserLoaded(k) == FALSE
Named(k) == UserLoaded(k)

\* _compute_row_unranked: figures, which always have a value, and a name
Row(k) == Named(k)

\* compute_snapshot, of what is cached after the read
Computed(k) == k \in cache' \cap Joined => Row(k)

-----------------------------------------------------------------------------
(* A client's handler.                                                     *)

\* _send_snapshot, until it awaits: with nothing cached it sends a board
\* without rows, and when the computation raises it sends nothing.
Snapshot(c) ==
    /\ Reads(Watches[c])
    /\ socket' = [socket EXCEPT
         ![c].conn = "open",
         ![c].handler = IF Computed(Watches[c]) THEN "sending" ELSE "receiving"]

\* _clients: a contest is inserted at the end, once.
Inserted(k) == IF k \in ToSet(opened) THEN opened ELSE Append(opened, k)

\* handle_client
Open(c) ==
    LET k == Watches[c]
    IN  /\ socket[c].conn = "new"
        /\ registry' = [registry EXCEPT ![k] = @ \cup {c}]
        /\ opened' = Inserted(k)
        /\ Snapshot(c)
        /\ UNCHANGED <<clock, lastAt, round, sentAt>>

\* The contest is not found: an error, and the connection is closed.
Refuse(c) ==
    /\ socket[c].conn = "new"
    /\ socket' = [socket EXCEPT ![c].conn = "gone", ![c].handler = "ended"]
    /\ UNCHANGED <<clock, registry, opened, cache, lastAt, round, sentAt>>

Discard(c) == registry' = [registry EXCEPT ![Watches[c]] = @ \ {c}]

\* send_json returns, or raises because the client is gone.
SnapshotSent(c) ==
    /\ socket[c].handler = "sending"
    /\ socket' = [socket EXCEPT ![c].handler = "receiving"]
    /\ IF socket[c].conn = "open" THEN UNCHANGED registry ELSE Discard(c)
    /\ UNCHANGED <<clock, opened, cache, lastAt, round, sentAt>>

\* _handle_client_message: set_sort
SetSort(c) ==
    /\ socket[c].handler = "receiving"
    /\ socket[c].conn = "open"
    /\ Snapshot(c)
    /\ UNCHANGED <<clock, registry, opened, lastAt, round, sentAt>>

Leave(c) ==
    /\ socket[c].conn = "open"
    /\ socket' = [socket EXCEPT ![c].conn = "gone"]
    /\ UNCHANGED <<clock, registry, opened, cache, lastAt, round, sentAt>>

\* receive_json raises, and the finally clause runs (slip: it is missing).
HandlerEndsOnly(c) ==
    /\ socket[c].handler = "receiving"
    /\ socket[c].conn = "gone"
    /\ socket' = [socket EXCEPT ![c].handler = "ended"]
    /\ UNCHANGED <<clock, registry, opened, cache, lastAt, round, sentAt>>
HandlerEnds(c) ==
    /\ socket[c].handler = "receiving"
    /\ socket[c].conn = "gone"
    /\ socket' = [socket EXCEPT ![c].handler = "ended"]
    /\ Discard(c)
    /\ UNCHANGED <<clock, opened, cache, lastAt, round, sentAt>>

\* receive_json raises for what is no JSON: the handler ends, and the connection
\* with it.
Malformed(c) ==
    /\ socket[c].handler = "receiving"
    /\ socket[c].conn = "open"
    /\ socket' = [socket EXCEPT ![c].conn = "gone", ![c].handler = "ended"]
    /\ Discard(c)
    /\ UNCHANGED <<clock, opened, cache, lastAt, round, sentAt>>

-----------------------------------------------------------------------------
(* A round of on_price_update.  The stream handles no message meanwhile.   *)

StreamFree == round.pc = "idle"

\* A ticker: the clock is read once, and the contests are listed.
PriceUpdate ==
    /\ StreamFree
    /\ round' = [NoRound EXCEPT !.pc = "next", !.now = clock, !.todo = opened]
    /\ UNCHANGED <<clock, registry, opened, cache, lastAt, socket, sentAt>>

\* Slip: no throttle.
Untimed(k) == FALSE
Throttled(k) == round.now - lastAt[k] < Throttle

\* `continue`: nobody watches, too early, or the contest cannot be read, which
\* may happen at any time.
SkipContest ==
    /\ round.pc = "next" /\ round.todo # << >>
    /\ round' = [round EXCEPT !.todo = Tail(@)]
    /\ UNCHANGED <<clock, registry, opened, cache, lastAt, socket, sentAt>>

\* `continue`: no participants, or the board cannot be computed.
SkipBoard ==
    /\ round.pc = "next" /\ round.todo # << >>
    /\ LET k == Head(round.todo)
       IN  /\ registry[k] # {} /\ ~Throttled(k)
           /\ Reads(k)
           /\ k \notin cache' \/ ~Computed(k)
    /\ round' = [round EXCEPT !.todo = Tail(@)]
    /\ UNCHANGED <<clock, registry, opened, lastAt, socket, sentAt>>

\* list(clients): what the set holds at that moment, in its order.
Listed(k) == SelectSeq(Clients, LAMBDA c : c \in registry[k])

\* _broadcast_to_contest, until gather awaits
StartPush ==
    /\ round.pc = "next" /\ round.todo # << >>
    /\ LET k == Head(round.todo)
       IN  /\ registry[k] # {} /\ ~Throttled(k)
           /\ Reads(k)
           /\ k \in cache' /\ Computed(k)
           /\ round' = [round EXCEPT !.pc = "sending", !.targets = Listed(k),
                          !.results = [c \in Sockets |-> IF c \in registry[k] THEN "waiting"
                                                                              ELSE "done"]]
           /\ sentAt' = [sentAt EXCEPT ![k] = clock]
    /\ UNCHANGED <<clock, registry, opened, lastAt, socket>>

\* One of the gathered sends returns or raises (slip: only those that return).
PushReturns(c) ==
    /\ round.results[c] = "waiting"
    /\ socket[c].conn = "open"
    /\ round' = [round EXCEPT !.results[c] = "done"]
    /\ UNCHANGED <<clock, registry, opened, cache, lastAt, socket, sentAt>>
Push(c) ==
    /\ round.results[c] = "waiting"
    /\ round' = [round EXCEPT !.results[c] = IF socket[c].conn = "open" THEN "done" ELSE "failed"]
    /\ UNCHANGED <<clock, registry, opened, cache, lastAt, socket, sentAt>>

\* zip(list(clients), results): the set may hold other clients by now, and the
\* results of the sends fall to whoever stands at their place (slip: results
\* are matched one place off).
ShiftedZip(k) == Zip(Tail(Listed(k)) \o <<Head(Listed(k))>>, round.targets)
Matched(k) == Zip(Listed(k), round.targets)

FinishPush ==
    /\ round.pc = "sending"
    /\ \A c \in Sockets : round.results[c] # "waiting"
    /\ LET k == Head(round.todo)
           matched == IF registry[k] = {} THEN << >> ELSE Matched(k)
           dead == {p[1] : p \in {q \in ToSet(matched) : round.results[q[2]] = "failed"}}
       IN  /\ registry' = [registry EXCEPT ![k] = @ \ dead]
           /\ lastAt' = [lastAt EXCEPT ![k] = round.now]
    /\ round' = [NoRound EXCEPT !.pc = "next", !.now = round.now, !.todo = Tail(round.todo)]
    /\ UNCHANGED <<clock, opened, cache, socket, sentAt>>

EndRound ==
    /\ round.pc = "next" /\ round.todo = << >>
    /\ round' = NoRound
    /\ UNCHANGED <<clock, registry, opened, cache, lastAt, socket, sentAt>>

-----------------------------------------------------------------------------

RoundStep == SkipContest \/ SkipBoard \/ StartPush \/ FinishPush \/ EndRound

Next ==
    \/ Tick \/ PriceUpdate \/ RoundStep
    \/ \E c \in Sockets :
        \/ Open(c) \/ Refuse(c) \/ SnapshotSent(c) \/ SetSort(c) \/ Leave(c) \/ HandlerEnds(c)
        \/ Malformed(c) \/ Push(c)

\* The event loop resumes every coroutine; a send returns, or raises when the
\* transport has given the client up.
Fairness ==
    /\ WF_vars(RoundStep)
    /\ \A c \in Sockets :
        WF_vars(SnapshotSent(c)) /\ WF_vars(HandlerEnds(c)) /\ WF_vars(Push(c))

Spec == Init /\ [][Next]_vars /\ Fairness

-----------------------------------------------------------------------------
\* A push drops a client that is still connected only if the set of clients
\* changed while the results were awaited: somebody connected or left, and the
\* failure of one send fell to another.
HealthyDroppedOnlyByShift ==
    [][\A c \in Sockets :
          LET k == Watches[c]
          IN  /\ c \in registry[k] /\ c \notin registry'[k]
              /\ socket'[c].conn = "open"
              => round.pc = "sending" /\ Listed(k) # round.targets]_vars

\* What the documents promise: a client that disconnects is removed "without
\* affecting other clients".  The program does not keep it: RefutedOthersStay.cfg
\* has TLC show a client dropped for the failure of another.
OthersStay ==
    [][\A c \in Sockets :
          c \in registry[Watches[c]] /\ socket'[c].conn = "open" =>
              c \in registry'[Watches[c]]]_vars

\* "When a client disconnects, it is removed from the broadcast set": in the
\* end, also one that left while its board was being sent or a push to it was
\* gathered, and one whose failure fell to another client.
GoneClientsAreForgotten ==
    \A c \in Sockets : socket[c].conn = "gone" ~> c \notin registry[Watches[c]]

Begins(k) == round.pc = "next" /\ round'.pc = "sending" /\ Head(round.todo) = k

\* Pushes of a contest are at least the throttle apart, except that a round
\* stamps them with the time it began at: one held up by the sends of another
\* contest may be followed too soon.
PushesAreSpaced ==
    [][\A k \in Contests :
          Begins(k) => clock - sentAt[k] >= Throttle \/ sentAt[k] > lastAt[k]]_vars

\* What the documents promise: "not more than once per second per contest".  The
\* program does not keep it: RefutedThrottle.cfg has TLC show two pushes at once.
PushesAreThrottled ==
    [][\A k \in Contests : Begins(k) => clock - sentAt[k] >= Throttle]_vars

\* The stream gets on with the next price: no round is held for ever by a
\* client that left, a contest that cannot be read or a board that cannot be
\* computed.
StreamIsReleased == []<>StreamFree

-----------------------------------------------------------------------------
\* Refuted by a run of its own.  "The client connects and receives the
\* leaderboard at once": a client that is accepted is being sent a board.
BoardIsShown ==
    [][\A c \in Sockets : socket[c].conn = "new" /\ socket'[c].conn = "open" =>
          socket'[c].handler = "sending"]_vars

=============================================================================
