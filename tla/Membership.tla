----------------------------- MODULE Membership -----------------------------
(***************************************************************************)
(* Users, one contest and who takes part in it: the requests of            *)
(* api/auth.py and api/admin.py that change an account or the contest, the *)
(* two ways to join (services/crypto_accounts.py and solana_join.py) and   *)
(* the faucet (services/solana_faucet.py).                                 *)
(*                                                                         *)
(* None of them locks a row.  A request reads everything it needs from the *)
(* snapshot of its transaction, the caller's own row first, and decides;   *)
(* it may then wait for the chain; it writes and commits, or a unique key  *)
(* or the database refuses it and nothing is written.  So a request is two *)
(* steps, one of which may be separated from the other by any other's.     *)
(*                                                                         *)
(* The state after a commit is what the rows hold, and `overlapped' notes  *)
(* of every open request that another one has committed since it read, or, *)
(* when it asks to enter the contest, that the contest's end has come.     *)
(***************************************************************************)
EXTENDS Integers, FiniteSets

CONSTANTS
    Users,
    Founders,   \* the admins there are at the start
    Wallets,
    Requests,   \* the number of requests open at a time is at most their number
    Mixes,      \* every behaviour sticks to the operations of one of these sets
    SenderConfigured,  \* whether the faucet has a sender: the route as shipped wires none
    None        \* a model value: no wallet, no row

Roles == {"user", "admin"}
Statuses == {"scheduled", "active", "completed"}
Accounts == [role : Roles, locked : BOOLEAN]
Members == [wallet : Wallets \cup {None}]
Operations == {"register", "setRole", "lock", "unlock", "create", "setStatus", "reschedule",
               "initialize", "join", "confirm", "claim"}
\* An end a contest is given; the target of a request is a user.
Ends == {"past", "future"}
Arguments == Roles \cup Statuses \cup Ends \cup Wallets \cup {None}

ASSUME FoundersAssumption == Founders \subseteq Users /\ Founders # {}
ASSUME NoneAssumption == None \notin Wallets \cup Statuses \cup Accounts \cup Members
ASSUME MixesAssumption == Mixes \subseteq SUBSET Operations
ASSUME SenderAssumption == SenderConfigured \in BOOLEAN

VARIABLES
    mix,
    user,        \* users: None, or role and is_locked
    contest,     \* the contest's row: its status and onchain_admin_wallet
    ended,       \* the contest's ends_at has come
    member,      \* participant and account: None, or the wallet it is bound to
    joins,       \* external: the wallets with a confirmed join transaction
    claims,      \* faucet claims younger than the cooldown
    paid,        \* external: transfers younger than the cooldown
    lost,        \* history: transfers whose claim was never recorded
    request

vars == <<mix, user, contest, ended, member, joins, claims, paid, lost, request>>
rows == <<user, contest, ended, member>>

Idle == [pc |-> "idle", op |-> "join", by |-> CHOOSE u \in Users : TRUE,
         of |-> CHOOSE u \in Users : TRUE, arg |-> None, inserts |-> FALSE,
         changes |-> FALSE, overlapped |-> FALSE]
Claims == Users \X Wallets

TypeOK ==
    /\ mix \in Mixes
    /\ user \in [Users -> Accounts \cup {None}]
    /\ contest \in [status : Statuses \cup {None}, admin : Wallets \cup {None}]
    /\ ended \in BOOLEAN
    /\ member \in [Users -> Members \cup {None}]
    /\ \A u \in Users : member[u] # None => user[u] # None /\ contest.status # None
    /\ joins \subseteq Wallets
    /\ claims \subseteq paid /\ lost \subseteq paid
    /\ paid \subseteq Claims
    /\ request \in [Requests -> [pc : {"idle", "read", "sent"}, op : Operations, by : Users,
                                 of : Users, arg : Arguments, inserts : BOOLEAN,
                                 changes : BOOLEAN, overlapped : BOOLEAN]]

Init ==
    /\ mix \in Mixes
    /\ user = [u \in Users |-> IF u \in Founders THEN [role |-> "admin", locked |-> FALSE]
                                                 ELSE None]
    /\ contest \in [status : {None, "active"}, admin : {None}]
    /\ ended = FALSE
    /\ member = [u \in Users |-> None]
    /\ joins = {} /\ claims = {} /\ paid = {} /\ lost = {}
    /\ request = [r \in Requests |-> Idle]

-----------------------------------------------------------------------------
(* What a request reads and decides.                                       *)

\* require_auth: a token names its user and never ends early, so the row says
\* whether he is locked (slip: the row is not looked at); require_role
AnyToken(u) == user[u] # None
Active(u) == user[u] # None /\ ~user[u].locked
Admin(u) == Active(u) /\ user[u].role = "admin"

Unbound(u) == member[u] \in {None, [wallet |-> None]}

\* get_active_contest and _contest_is_open, _contest_is_open_for_join
Open == contest.status \in {"scheduled", "active"} /\ ~ended

\* update_user_role, lock_user, unlock_user (slip: on oneself, too)
OnAnyone(by, of) == Admin(by) /\ user[of] # None
OnAnother(by, of) == Admin(by) /\ user[of] # None /\ of # by

\* confirm_onchain_initialize (slip: it may be confirmed again)
AnyInitialization(by) == Admin(by) /\ contest.status # None
FirstInitialization(by) == Admin(by) /\ contest.status # None /\ contest.admin = None

\* confirm_join; a binding that is confirmed again changes nothing (slip: a
\* binding is replaced).
Rebinding(by, w) == Active(by) /\ Open /\ w # contest.admin
Binding(by, w) ==
    /\ Active(by)
    /\ Unbound(by)
    /\ Open
    /\ w # contest.admin

\* join_contest (slip: of any contest there is)
JoiningAny(by) == Active(by) /\ contest.status # None
Joining(by) == Active(by) /\ Open

\* SolanaFaucetService.claim (slip: no cooldown)
ClaimingAlways(by, w) == Active(by)
Claiming(by, w) == Active(by) /\ <<by, w>> \notin claims

Admitted(op, by, of, arg) ==
    \/ op = "register" /\ user[by] = None /\ of = by /\ arg = None
    \/ op = "setRole" /\ OnAnother(by, of) /\ arg \in Roles
    \/ op \in {"lock", "unlock"} /\ OnAnother(by, of) /\ arg = None
    \/ /\ op = "create" /\ Admin(by) /\ contest.status = None
       /\ of = by /\ arg \in Statuses \ {"completed"}
    \/ op = "setStatus" /\ Admin(by) /\ contest.status # None /\ of = by /\ arg \in Statuses
    \/ op = "reschedule" /\ Admin(by) /\ contest.status # None /\ of = by /\ arg \in Ends
    \/ op = "initialize" /\ FirstInitialization(by) /\ of = by /\ arg \in Wallets
    \/ op = "join" /\ Joining(by) /\ of = by /\ arg = None
    \/ op = "confirm" /\ arg \in Wallets /\ Binding(by, arg) /\ of = by
    \/ op = "claim" /\ arg \in Wallets /\ Claiming(by, arg) /\ of = by

\* Assigning a column the value it was read with writes nothing.
Differs(op, of, arg) ==
    /\ op = "setRole" => user[of].role # arg
    /\ op \in {"lock", "unlock"} => user[of].locked # (op = "lock")
    /\ op = "setStatus" => contest.status # arg

Read(r, op, by, of, arg) ==
    /\ request[r].pc = "idle"
    /\ op \in mix
    /\ Admitted(op, by, of, arg)
    /\ request' = [request EXCEPT ![r] = [pc |-> "read", op |-> op, by |-> by, of |-> of,
                                          arg |-> arg, overlapped |-> FALSE,
                                          changes |-> Differs(op, of, arg),
                                          inserts |-> /\ op \in {"join", "confirm"}
                                                      /\ member[by] = None]]
    /\ UNCHANGED <<mix, rows, joins, claims, paid, lost>>

-----------------------------------------------------------------------------
(* What a request writes.                                                  *)

\* send_lamports of a sender that is configured; UnconfiguredSolanaSender
\* raises (Fail).
Send(r) ==
    LET q == request[r]
    IN  /\ SenderConfigured
        /\ q.pc = "read" /\ q.op = "claim"
        /\ paid' = paid \cup {<<q.by, q.arg>>}
        /\ request' = [request EXCEPT ![r].pc = "sent"]
        /\ UNCHANGED <<mix, rows, joins, claims, lost>>

\* SolanaRpcTransactionVerifier: the wallet has signed a transaction of the
\* program that names the contest.
Verified(w) == w \in joins

\* The rows of a request that commits.  A row it found missing is inserted,
\* and refused by its unique key when somebody else has inserted it since;
\* of a row it found, the columns it assigns another value are overwritten.
Registered(q) ==
    /\ q.op = "register" /\ user[q.by] = None
    /\ user' = [user EXCEPT ![q.by] = [role |-> "user", locked |-> FALSE]]
    /\ UNCHANGED <<contest, ended, member, claims>>

Administered(q) ==
    /\ q.op \in {"setRole", "lock", "unlock"}
    /\ user' = CASE ~q.changes -> user
                 [] q.op = "setRole" -> [user EXCEPT ![q.of].role = q.arg]
                 [] OTHER -> [user EXCEPT ![q.of].locked = (q.op = "lock")]
    /\ UNCHANGED <<contest, ended, member, claims>>

Created(q) ==
    /\ q.op = "create" /\ contest.status = None
    /\ contest' = [contest EXCEPT !.status = q.arg]
    /\ UNCHANGED <<user, ended, member, claims>>

StatusSet(q) ==
    /\ q.op = "setStatus"
    /\ contest' = IF q.changes THEN [contest EXCEPT !.status = q.arg] ELSE contest
    /\ UNCHANGED <<user, ended, member, claims>>

\* update_contest with another ends_at.
Rescheduled(q) ==
    /\ q.op = "reschedule"
    /\ ended' = (q.arg = "past")
    /\ UNCHANGED <<user, contest, member, claims>>

Initialized(q) ==
    /\ q.op = "initialize"
    /\ contest' = [contest EXCEPT !.admin = q.arg]
    /\ UNCHANGED <<user, ended, member, claims>>

\* A participant and an account, unless there are.
Joined(q) ==
    /\ q.op = "join"
    /\ q.inserts => member[q.by] = None
    /\ member' = IF q.inserts THEN [member EXCEPT ![q.by] = [wallet |-> None]] ELSE member
    /\ UNCHANGED <<user, contest, ended, claims>>

Bound(q) ==
    /\ q.op = "confirm" /\ Verified(q.arg)
    /\ q.inserts => member[q.by] = None
    /\ member' = [member EXCEPT ![q.by] = [wallet |-> q.arg]]
    /\ UNCHANGED <<user, contest, ended, claims>>

Claimed(q) ==
    /\ q.op = "claim" /\ q.pc = "sent"
    /\ claims' = claims \cup {<<q.by, q.arg>>}
    /\ UNCHANGED rows

Written(q) ==
    \/ Registered(q) \/ Administered(q)
    \/ Created(q) \/ StatusSet(q) \/ Rescheduled(q) \/ Initialized(q)
    \/ Joined(q) \/ Bound(q) \/ Claimed(q)

Commit(r) ==
    /\ request[r].pc # "idle"
    /\ Written(request[r])
    /\ request' = [s \in Requests |->
                     IF s = r THEN Idle
                     ELSE IF request[s].pc = "idle" \/ UNCHANGED <<rows, claims>> THEN request[s]
                     ELSE [request[s] EXCEPT !.overlapped = TRUE]]
    /\ UNCHANGED <<mix, joins, paid, lost>>

\* An error: a unique key, the chain, the database, or the process dies.
Fail(r) ==
    /\ request[r].pc # "idle"
    /\ lost' = IF request[r].pc = "sent" THEN lost \cup {<<request[r].by, request[r].arg>>}
                                         ELSE lost
    /\ request' = [request EXCEPT ![r] = Idle]
    /\ UNCHANGED <<mix, rows, joins, claims, paid>>

-----------------------------------------------------------------------------
(* The outside.                                                            *)

\* The contest's end comes.  A request to enter it that was let in before is
\* overtaken: it may wait for the chain past the end and is not asked again.
End ==
    /\ contest.status # None /\ ~ended
    /\ ended' = TRUE
    /\ request' = [r \in Requests |->
                     IF request[r].pc # "idle" /\ request[r].op \in {"join", "confirm"}
                     THEN [request[r] EXCEPT !.overlapped = TRUE] ELSE request[r]]
    /\ UNCHANGED <<mix, user, contest, member, joins, claims, paid, lost>>

\* The program's participant account is created, so a wallet joins once.
NotJoined(w) == w \notin joins

JoinOnChain(w) ==
    /\ NotJoined(w) /\ "confirm" \in mix
    /\ joins' = joins \cup {w}
    /\ UNCHANGED <<mix, rows, claims, paid, lost, request>>

\* The cooldown of a transfer is over.  No request is open for that long.
CoolDown(u, w) ==
    /\ <<u, w>> \in paid
    /\ \A r \in Requests : request[r].op = "claim" => request[r].pc = "idle"
    /\ paid' = paid \ {<<u, w>>}
    /\ claims' = claims \ {<<u, w>>}
    /\ lost' = lost \ {<<u, w>>}
    /\ UNCHANGED <<mix, rows, joins, request>>

Next ==
    \/ \E r \in Requests :
        \/ \E op \in mix, by, of \in Users, arg \in Arguments : Read(r, op, by, of, arg)
        \/ Send(r) \/ Commit(r) \/ Fail(r)
    \/ End
    \/ \E w \in Wallets : JoinOnChain(w)
    \/ \E u \in Users, w \in Wallets : CoolDown(u, w)

Spec == Init /\ [][Next]_vars

-----------------------------------------------------------------------------
Admins == {u \in Users : Admin(u)}

\* Nobody may demote or lock himself, so that an administrator always remains:
\* the last one can only be lost when two administrators act on each other at
\* the same time.
AnAdminRemains ==
    [][\A r \in Requests :
          Commit(r) /\ Admins # {} /\ Admins' = {} => request[r].overlapped]_vars

\* A lock and the loss of a role take effect at once, whatever tokens are out:
\* who has been locked changes nothing any more, nor does one who is no longer
\* an administrator administer, but for a request that was already under way.
RightsAreCurrent ==
    [][\A r \in Requests :
          LET q == request[r]
          IN  Commit(r) /\ q.op # "register" /\ ~q.overlapped =>
                  IF q.op \in {"setRole", "lock", "unlock", "create", "setStatus", "reschedule",
                              "initialize"}
                  THEN user[q.by] # None /\ user[q.by].role = "admin" /\ ~user[q.by].locked
                  ELSE user[q.by] # None /\ ~user[q.by].locked]_vars

\* A wallet once bound to a participant, and the admin's once bound to the
\* contest, stay: they are replaced only by a request that overlapped the one
\* that bound them.
BindingsAreKept ==
    [][/\ \A u \in Users :
            ~Unbound(u) /\ member'[u] # member[u] =>
                \E r \in Requests : request[r].overlapped /\ request[r].by = u
       /\ contest.admin # None /\ contest'.admin # contest.admin =>
            \E r \in Requests : request[r].overlapped /\ request[r].op = "initialize"]_vars

\* What the documents promise without exception: "Backend locks the wallet
\* address for that contest after join confirmation".  The program does not keep
\* it, for confirm_join locks no row and asks no second time whether a wallet is
\* bound: RefutedBinding.cfg has TLC show two confirmations of one user.
WalletsAreLocked == [][\A u \in Users : ~Unbound(u) => member'[u] = member[u]]_vars

\* Nobody enters a contest or is bound to a wallet once it is over, by its status
\* or because its end has come, and "the admin wallet that initialized this
\* contest cannot join it", except by a request that was under way when the
\* status changed, the end came or the wallet was registered.
EntriesAreProper ==
    [][\A u \in Users :
          LET forAdmin == contest.admin # None /\ member'[u] = [wallet |-> contest.admin]
          IN  member'[u] # member[u] /\ (~Open \/ forAdmin) =>
                  \E r \in Requests : request[r].overlapped /\ request[r].by = u]_vars

\* A wallet is paid twice within the cooldown only if two requests overlapped,
\* or the record of the first payment was lost.
CooldownHolds ==
    [][\A r \in Requests :
          Send(r) /\ <<request[r].by, request[r].arg>> \in paid =>
              \/ request[r].overlapped
              \/ <<request[r].by, request[r].arg>> \in lost
              \/ \E s \in Requests \ {r} : request[s].pc = "sent"]_vars

=============================================================================
