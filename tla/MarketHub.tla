----------------------------- MODULE MarketHub ------------------------------
(***************************************************************************)
(* A browser that subscribes to the symbol of OrderBookSync                *)
(* (services/binance_realtime.py: handle_client, _handle_client_message,   *)
(* _broadcast_to_symbol).  Its handler reads the cached book and awaits    *)
(* the sending of the candle before it sends the book, while the stream    *)
(* loop sends every book it publishes to whoever is subscribed already.    *)
(***************************************************************************)
EXTENDS OrderBookSync

VARIABLE client   \* the handler, the book it is about to send, the book shown

hubvars == <<vars, client>>

View(book, last) == [book |-> book, last |-> last]
NoView == View(NoLevels, NoUpdate)
Away == [pc |-> "away", held |-> NoView, shown |-> NoView, overtaken |-> FALSE]

\* get_orderbook; nothing before the first book
Cached == View(cache.book, cache.last)

HubTypeOK ==
    /\ TypeOK
    /\ client.pc \in {"away", "answering", "subscribed"}
    /\ \A v \in {client.held, client.shown} :
           v \in [book : Levels, last : Updates \cup {NoUpdate}]
    /\ client.overtaken \in BOOLEAN

HubInit == Init /\ client = Away

\* _handle_client_message: the client is a subscriber from here on; it may be
\* one already.
Subscribe ==
    /\ client.pc # "answering"
    /\ client' = [client EXCEPT !.pc = "answering", !.held = Cached, !.overtaken = FALSE]
    /\ UNCHANGED vars

\* The candle is sent, and the book that was read before, if there was one.
Answer ==
    /\ client.pc = "answering"
    /\ client' = [client EXCEPT !.pc = "subscribed", !.held = NoView,
                     !.shown = IF client.held = NoView THEN @ ELSE client.held]
    /\ UNCHANGED vars

\* The client leaves, or turns to another symbol.
Unsubscribe ==
    /\ client.pc = "subscribed"
    /\ client' = Away
    /\ UNCHANGED vars

\* _broadcast_to_symbol: whose symbol it is (slip: who has been answered).
Answered == client.pc = "subscribed"
Subscribed == client.pc # "away"

\* A book that is published reaches the subscriber.
Broadcast ==
    /\ \E n \in Updates : ReceiveSynced(n) \/ Load(n)
    /\ client' = IF sync'.synced /\ Subscribed
                 THEN [client EXCEPT !.shown = Cached', !.overtaken = client.pc = "answering"]
                 ELSE client

Unpublished ==
    /\ \/ \E p \in Prices, q \in Updates \cup {0} : Update(p, q)
       \/ \E n \in Updates : Reconnect(n) \/ ReceiveUnsynced(n) \/ LoadFails(n)
    /\ UNCHANGED client

HubNext == Subscribe \/ Answer \/ Unsubscribe \/ Broadcast \/ Unpublished

HubSpec == HubInit /\ [][HubNext]_hubvars

-----------------------------------------------------------------------------
\* A subscriber shows the book the backend serves.  Only when a book was
\* published between reading the cache and answering, the answer takes it back
\* to an older one, until the next is published.
ShownIsServed ==
    client.pc = "subscribed" /\ ~client.overtaken => client.shown = Cached

=============================================================================
