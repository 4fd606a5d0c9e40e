------------------------- MODULE LeaderboardClient --------------------------
(***************************************************************************)
(* The leaderboard page: where it takes the board it shows from            *)
(* (src/composables/useLeaderboardRealtime.ts).  It listens to a WebSocket *)
(* of the contest it shows; when that fails it polls every ten seconds,    *)
(* and it does not connect again until the contest or the criterion is     *)
(* changed.  The user may ask for the board at any time.                   *)
(*                                                                         *)
(* A board is the contest it is of and the criterion it was put in order   *)
(* by, which the page does itself, when the board arrives.  What the       *)
(* server sends, and whether it sends anything, is open: the service may   *)
(* fall silent at any time, and leave the socket as it is.  It does when a *)
(* contest shown empty gets a participant, for computing its board raises  *)
(* from then on, and when it drops a client for another's failure          *)
(* (Leaderboard).                                                          *)
(***************************************************************************)
EXTENDS Naturals

CONSTANTS
    PageContests,
    Sorts,     \* the criteria
    None,      \* no board, no request
    MaxPolls   \* bound on the polls of a contest that wait for an answer

ASSUME NoneAssumption == None \notin PageContests
ASSUME PollsAssumption == MaxPolls \in Nat \ {0}

VARIABLES
    contest,     \* contestId: the contest of the route
    sort,        \* sortBy
    status,      \* what the page says of its connection
    rows,        \* the board shown
    wires,       \* the sockets whose handlers are set, by their contest
    live,        \* external: the service pushes to that socket, and will again
    polling,     \* pollIntervalId is set
    polls,       \* polls sent and not answered, by their contest
    refreshing,  \* the contest of the refresh that is not answered
    mounted

pageVars == <<contest, sort, status, rows, wires, live, polling, polls, refreshing, mounted>>

PageBoards == [of : PageContests \cup {None}, by : Sorts]

PageTypeOK ==
    /\ contest \in PageContests /\ sort \in Sorts
    /\ status \in {"connecting", "connected", "error"}
    /\ rows \in PageBoards
    /\ wires \in SUBSET PageContests /\ \A j, k \in wires : j = k
    /\ live \in BOOLEAN /\ polling \in BOOLEAN /\ mounted \in BOOLEAN
    /\ polls \in [PageContests -> 0..MaxPolls]
    /\ refreshing \in PageContests \cup {None}

\* The page is set up and has called connect.
PageInit ==
    /\ contest \in PageContests /\ sort \in Sorts
    /\ status = "connecting"
    /\ rows = [of |-> None, by |-> sort]
    /\ wires = {contest} /\ live = TRUE
    /\ polling = FALSE
    /\ polls = [k \in PageContests |-> 0]
    /\ refreshing = None
    /\ mounted = TRUE

-----------------------------------------------------------------------------
(* Polling.                                                                *)

Sent(k) == IF polls[k] < MaxPolls THEN [polls EXCEPT ![k] = @ + 1] ELSE polls

\* startPolling: at once and every ten seconds (slip: at once).
PollOnce(k) == polls' = Sent(k) /\ UNCHANGED polling
StartPolling(k) ==
    /\ polling' = TRUE
    /\ polls' = IF polling THEN polls ELSE Sent(k)

\* handleFailure (slip: only a page that was connected begins to poll)
FailIfConnected ==
    /\ status' = "error"
    /\ IF status = "connected" THEN StartPolling(contest) ELSE UNCHANGED <<polling, polls>>
HandleFailure ==
    IF status = "error" THEN UNCHANGED <<status, polling, polls>>
                        ELSE status' = "error" /\ StartPolling(contest)

\* doPoll: sent by the timer, answered, or not.
Poll ==
    /\ polling
    /\ polls[contest] < MaxPolls
    /\ polls' = Sent(contest)
    /\ UNCHANGED <<contest, sort, status, rows, wires, live, polling, refreshing, mounted>>

Shown(k) == rows' = [of |-> k, by |-> sort]

PollAnswered(k) ==
    /\ polls[k] > 0
    /\ polls' = [polls EXCEPT ![k] = @ - 1]
    /\ IF mounted /\ status = "error" THEN Shown(k) ELSE UNCHANGED rows
    /\ UNCHANGED <<contest, sort, status, wires, live, polling, refreshing, mounted>>

PollFails(k) ==
    /\ polls[k] > 0
    /\ polls' = [polls EXCEPT ![k] = @ - 1]
    /\ UNCHANGED <<contest, sort, status, rows, wires, live, polling, refreshing, mounted>>

-----------------------------------------------------------------------------
(* The socket.                                                             *)

\* disconnect: the handlers of the old socket are removed (slip: it is only
\* closed, and what is on its way still arrives).
LeftWired == wires
Wired == {}

\* connect: the constructor returns, or raises, and the page polls.  A poll that
\* is running is not stopped.
Connect(k) ==
    \/ /\ wires' = Wired \cup {k} /\ live' = TRUE
       /\ status' = "connecting"
       /\ UNCHANGED <<polling, polls>>
    \/ /\ wires' = Wired /\ live' = FALSE
       /\ status' = "error" /\ StartPolling(k)

\* onmessage: leaderboard_snapshot, leaderboard_update.  A message of type
\* error is only logged.
Board(k) ==
    /\ k \in wires
    /\ status' = "connected"
    /\ polling' = FALSE
    /\ Shown(k)
    /\ UNCHANGED <<contest, sort, wires, live, polls, refreshing, mounted>>

\* onerror, onclose: the first that fires counts.
Drop(k) ==
    /\ k \in wires
    /\ wires' = wires \ {k} /\ live' = FALSE
    /\ HandleFailure
    /\ UNCHANGED <<contest, sort, rows, refreshing, mounted>>

\* The other end: on_price_update skips the contest from now on, or this client
\* is no longer among those it pushes to; the socket stays open.
GoesSilent ==
    /\ live
    /\ live' = FALSE
    /\ UNCHANGED <<contest, sort, status, rows, wires, polling, polls, refreshing, mounted>>

-----------------------------------------------------------------------------
(* The user.                                                               *)

\* watch(contestId): the rows stay until others come.
Switch(k) ==
    /\ mounted
    /\ k # contest
    /\ contest' = k
    /\ Connect(k)
    /\ UNCHANGED <<sort, rows, refreshing, mounted>>

\* setSortBy: the server is told, and answers with a board.  Where there is no
\* connection to tell it by, or the telling raises, the page connects again.
SetSortBy(s) ==
    /\ mounted
    /\ s # sort
    /\ sort' = s
    /\ \/ status = "connected" /\ UNCHANGED <<status, wires, live, polling, polls>>
       \/ Connect(contest)
    /\ UNCHANGED <<contest, rows, refreshing, mounted>>

\* refresh: its button is disabled until the answer.
Refresh ==
    /\ mounted
    /\ refreshing = None
    /\ refreshing' = contest
    /\ UNCHANGED <<contest, sort, status, rows, wires, live, polling, polls, mounted>>

RefreshAnswered ==
    /\ refreshing # None
    /\ refreshing' = None
    /\ Shown(refreshing)
    /\ UNCHANGED <<contest, sort, status, wires, live, polling, polls, mounted>>

RefreshFails ==
    /\ refreshing # None
    /\ refreshing' = None
    /\ UNCHANGED <<contest, sort, status, rows, wires, live, polling, polls, mounted>>

\* onUnmounted
Unmount ==
    /\ mounted
    /\ mounted' = FALSE
    /\ wires' = Wired /\ live' = FALSE
    /\ polling' = FALSE
    /\ UNCHANGED <<contest, sort, status, rows, polls, refreshing>>

-----------------------------------------------------------------------------

PageNext ==
    \/ \E k \in PageContests :
        Board(k) \/ Drop(k) \/ Switch(k) \/ PollAnswered(k) \/ PollFails(k)
    \/ \E s \in Sorts : SetSortBy(s)
    \/ GoesSilent \/ Poll \/ Refresh \/ RefreshAnswered \/ RefreshFails \/ Unmount

\* A socket that has brought a board brings others, as prices come, until it
\* closes or the service falls silent.  One that has brought none may never.
Pushed == status = "connected" /\ live /\ \E k \in PageContests : Board(k)

\* The timer fires, and polls are answered again and again.
PageFairness ==
    /\ WF_pageVars(Poll) /\ WF_pageVars(Pushed)
    /\ \A k \in PageContests : SF_pageVars(PollAnswered(k))

PageSpec == PageInit /\ [][PageNext]_pageVars /\ PageFairness

-----------------------------------------------------------------------------
\* "WebSocket broadcasts with polling fallback": however failures, switches and
\* reconnections follow one another, a page listens to a socket of the contest
\* it shows or polls, it polls once it has said that the connection failed and
\* no longer once it is live, and it leaves neither socket nor timer behind.
PageHasOneSource ==
    /\ wires \subseteq {contest}
    /\ mounted /\ status = "error" => polling
    /\ mounted /\ status # "error" => wires # {}
    /\ mounted /\ status = "connected" => ~polling
    /\ ~mounted => wires = {} /\ ~polling

\* A board of another contest appears only as the late answer to a refresh, or
\* to a poll when the page polls again: it was asked for before the switch.
\* What the socket of the other contest still sends is never shown.
ForeignBoardsWereAskedFor ==
    [][rows' # rows /\ rows'.of # contest' =>
          \/ refreshing = rows'.of /\ refreshing' = None
          \/ status = "error" /\ polls'[rows'.of] < polls[rows'.of]]_pageVars

\* Such a board, and one in an order no longer wanted, is replaced once the user
\* stops switching: by the next push while the service pushes, or by the next
\* poll.  What keeps it is a socket that stays open and silent, whether the page
\* still says "connecting" or was "connected" when the service fell silent: the
\* page does not notice, and does not poll.
Unheard == status = "connecting" \/ (status = "connected" /\ ~live)
LeftAlone == <>[][FALSE]_<<contest, sort>>
BoardCatchesUp ==
    LeftAlone =>
        (rows # [of |-> contest, by |-> sort]
            ~> rows = [of |-> contest, by |-> sort] \/ Unheard \/ ~mounted)

=============================================================================
