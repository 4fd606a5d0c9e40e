--------------------------- MODULE OrderBookSync ----------------------------
(***************************************************************************)
(* One symbol's local order book, kept from Binance's depth stream and REST*)
(* snapshots (services/binance_realtime.py: LocalOrderBook,                *)
(* OrderBookSynchronizer, _process_raw_message), and the copy the cache    *)
(* serves (services/crypto_realtime_cache.py).                             *)
(*                                                                         *)
(* The exchange numbers its updates; an update sets the quantity of a      *)
(* level or removes it.  What matters of a quantity is which update set it,*)
(* so the quantity update n sets is n, and 0 is no level.  The two sides of*)
(* a book do not interact: the model keeps the asks.                       *)
(*                                                                         *)
(* The stream loop handles one message at a time and waits for the snapshot*)
(* inside the handler, so a message is taken from the socket when it is    *)
(* processed: sent is the last update handed over.  A depth event covers a *)
(* range of updates and carries the final quantity of every level touched. *)
(* The REST snapshot is taken from a server that may be ahead of the stream*)
(* or lag behind the exchange.                                             *)
(***************************************************************************)
EXTENDS Naturals, SequencesExt

CONSTANTS
    Prices,      \* the levels
    Depth,       \* depth_limit: the best levels kept and requested
    MaxUpdates,  \* bound on the exchange's updates
    MaxLag,      \* how far a snapshot may be behind the exchange
    MaxBuffer    \* bound on the buffer: on the failures in a row

ASSUME PricesAssumption == Prices \subseteq Nat /\ IsFiniteSet(Prices)
ASSUME BoundsAssumption == /\ Depth \in Nat \ {0}
                           /\ MaxUpdates \in Nat /\ MaxLag \in Nat /\ MaxBuffer \in Nat

VARIABLES
    books,    \* the exchange's book after each of its updates
    sent,     \* the last update the stream has handed over
    sync,     \* the OrderBookSynchronizer
    loading,  \* the handler is waiting for a snapshot
    cache,    \* RealtimeMarketCache: the book served, and orderbook_synced
    base      \* history: the snapshot the local book was last reset from

vars == <<books, sent, sync, loading, cache, base>>

Latest == Len(books)
Updates == 1..(MaxUpdates + 1)
NoUpdate == 0                                   \* last_update_id is None
Levels == [Prices -> Updates \cup {0}]
NoLevels == [p \in Prices |-> 0]
Present(b) == {p \in Prices : b[p] # 0}

Better(p, b) == {q \in Present(b) : q < p}

\* _trim; slip: everything is kept.
Untrimmed(b) == b
Trim(b) == [p \in Prices |-> IF Cardinality(Better(p, b)) < Depth THEN b[p] ELSE 0]

TypeOK ==
    /\ books \in Seq(Levels) /\ Latest \in Updates
    /\ sent \in 1..Latest
    /\ sync \in [book : Levels, last : Updates \cup {NoUpdate}, synced : BOOLEAN,
                 buffer : Seq([first : Updates, final : Updates])]
    /\ Cardinality(Present(sync.book)) <= Depth
    /\ loading \in BOOLEAN
    /\ cache \in [book : Levels, last : Updates \cup {NoUpdate}, synced : BOOLEAN]
    /\ base \in Updates \cup {NoUpdate}

\* A synchronizer that has just been made, and a cache no book was stored in.
EmptySync == [book |-> NoLevels, last |-> NoUpdate, synced |-> FALSE, buffer |-> << >>]
NoCache == [book |-> NoLevels, last |-> NoUpdate, synced |-> FALSE]

Init ==
    /\ books = << [p \in Prices |-> 1] >>
    /\ sent = 1
    /\ sync = EmptySync
    /\ loading = FALSE
    /\ cache = NoCache
    /\ base = NoUpdate

-----------------------------------------------------------------------------
(* The synchronizer.                                                       *)

Touched(e) == {p \in Prices : \E n \in e.first..e.final : books[n][p] # books[n - 1][p]}

\* What apply_diff refuses; slip: one missing update goes unnoticed.
LooseGap(s, e) == s.last # NoUpdate /\ e.first > s.last + 2
Gap(s, e) == s.last # NoUpdate /\ e.first > s.last + 1

Diffed(b, e) == [p \in Prices |-> IF p \in Touched(e) THEN books[e.final][p] ELSE b[p]]

\* apply_diff
ApplyDiff(s, e) == [s EXCEPT !.book = Trim(Diffed(@, e)), !.last = e.final]

\* apply_event
ApplyEvent(s, e) ==
    IF ~s.synced /\ s.last = NoUpdate THEN [s EXCEPT !.buffer = Append(@, e)]
    ELSE IF Gap(s, e) THEN [s EXCEPT !.synced = FALSE, !.buffer = <<e>>]
    ELSE [ApplyDiff(s, e) EXCEPT !.synced = TRUE]

\* reset_from_snapshot with the snapshot taken after update n; slip: the
\* snapshot's levels are added to those of the old book.
Overlaid(b, n) == Trim([p \in Prices |-> IF books[n][p] # 0 THEN books[n][p] ELSE b[p]])
Replaced(b, n) == Trim(books[n])

Bridges(e, n) == e.first <= n + 1 /\ n + 1 <= e.final

ResetFrom(s, n) == [s EXCEPT !.book = Replaced(@, n), !.last = n, !.buffer = << >>]
ApplyNewer(s, e, n) == IF e.final > n THEN ApplyEvent(s, e) ELSE s

\* synchronize: the buffered events newer than the snapshot, from the first that
\* bridges it on; the book is synchronized even when one of them reveals a gap.
Synchronize(s, n) ==
    LET bridge == SelectInSeq(s.buffer, LAMBDA e : Bridges(e, n))
        applied == FoldLeft(LAMBDA v, e : ApplyNewer(v, e, n), ResetFrom(s, n),
                            SubSeq(s.buffer, bridge, Len(s.buffer)))
    IN  [(IF bridge = 0 THEN ResetFrom(s, n) ELSE applied) EXCEPT !.synced = TRUE]

-----------------------------------------------------------------------------
(* The exchange and the stream.                                            *)

\* The next update sets level p, or removes it.
Update(p, quantity) ==
    /\ Latest <= MaxUpdates
    /\ quantity \in {0, Latest + 1}
    /\ books[Latest][p] # quantity
    /\ books' = Append(books, [books[Latest] EXCEPT ![p] = quantity])
    /\ UNCHANGED <<sent, sync, loading, cache, base>>

\* The connection is lost, with what it had not handed over; the next one
\* starts with the current updates.  Neither the synchronizer nor the cached
\* book is told.
Reconnect(n) ==
    /\ ~loading
    /\ n \in sent..Latest
    /\ sent' = n
    /\ UNCHANGED <<books, sync, loading, cache, base>>

-----------------------------------------------------------------------------
(* _process_raw_message, for a depthUpdate.                                *)

Event(u) == [first |-> sent + 1, final |-> u]

\* update_orderbook, mark_orderbook_unsynced: a book once served stays.
Stored(s) ==
    IF s.synced THEN [book |-> s.book, last |-> s.last, synced |-> TRUE]
    ELSE [cache EXCEPT !.synced = FALSE]

Publish(s) == cache' = Stored(s)

\* An event of a synchronized book.
ReceiveSynced(u) ==
    /\ ~loading
    /\ sync.synced
    /\ u \in (sent + 1)..Latest
    /\ sent' = u
    /\ sync' = ApplyEvent(sync, Event(u))
    /\ Publish(sync')
    /\ UNCHANGED <<books, loading, base>>

\* An event of a book that is not: it is buffered and a snapshot requested.
ReceiveUnsynced(u) ==
    /\ ~loading
    /\ ~sync.synced
    /\ u \in (sent + 1)..Latest
    /\ Len(sync.buffer) < MaxBuffer
    /\ sent' = u
    /\ sync' = [sync EXCEPT !.buffer = Append(@, Event(u))]
    /\ loading' = TRUE
    /\ UNCHANGED <<books, cache, base>>

\* The snapshot arrives.
Load(n) ==
    /\ loading
    /\ n \in 1..Latest
    /\ n + MaxLag >= Latest
    /\ sync' = Synchronize(sync, n)
    /\ base' = n
    /\ loading' = FALSE
    /\ Publish(sync')
    /\ UNCHANGED <<books, sent>>

\* The request fails: the exception ends the connection, and the loop makes
\* the next one.
LoadFails(n) ==
    /\ loading
    /\ n \in sent..Latest
    /\ loading' = FALSE
    /\ sent' = n
    /\ UNCHANGED <<books, sync, cache, base>>

Next ==
    \/ \E p \in Prices, q \in Updates \cup {0} : Update(p, q)
    \/ \E n \in Updates :
        Reconnect(n) \/ ReceiveSynced(n) \/ ReceiveUnsynced(n) \/ Load(n) \/ LoadFails(n)

Spec == Init /\ [][Next]_vars

-----------------------------------------------------------------------------
\* Once the stream has caught up with the snapshot the book was reset from,
\* every level is the exchange's at last_update_id, whatever was lost, delayed
\* or delivered before and after; and none is missing if all fit.
CaughtUpIsExact ==
    sync.last # NoUpdate /\ sync.last >= base =>
        /\ \A p \in Present(sync.book) : sync.book[p] = books[sync.last][p]
        /\ Cardinality(Prices) <= Depth => sync.book = books[sync.last]

\* Before that, when events older than the snapshot are still being applied
\* over it, every level served is the exchange's either then or now: no level
\* survives its removal by both.
ServedIsThenOrNow ==
    \A p \in Present(cache.book) : cache.book[p] \in {books[cache.last][p], books[base][p]}

\* The design's rule, that an event which is not newer than the book is
\* discarded, is not the code's: synchronize drops such events from its buffer,
\* but apply_diff refuses gaps only.  A book reset from a snapshot ahead of the
\* stream takes the stream's older events over it and goes back to their
\* numbers, while it is served as synchronized.  Refuted by RefutedDiscard.cfg.
OlderEventsAreDiscarded ==
    [][\A u \in Updates : ReceiveSynced(u) /\ u <= sync.last => sync' = sync]_vars

=============================================================================
