-------------------------- MODULE Membership_proofs --------------------------
(***************************************************************************)
(* What the checks of unlocked requests are worth: proved of Membership,   *)
(* for any number of users, wallets and requests.                          *)
(***************************************************************************)
EXTENDS Membership, TLAPS

Busy(r) == request[r].pc # "idle"

\* Rows are never deleted, so what a request has found is still there.
Found(q) ==
    /\ q.op # "register" => user[q.by] # None
    /\ q.op \in {"setRole", "lock", "unlock"} => user[q.of] # None
    /\ q.op \in {"setStatus", "reschedule", "initialize", "join", "confirm"} =>
          contest.status # None

\* The argument is one of its operation's.
Fitting(q) ==
    /\ q.op = "setRole" => q.arg \in Roles
    /\ q.op \in {"create", "setStatus"} => q.arg \in Statuses
    /\ q.op = "reschedule" => q.arg \in Ends
    /\ q.op \in {"initialize", "confirm", "claim"} => q.arg \in Wallets

Grounded == \A r \in Requests : Busy(r) => Found(request[r]) /\ Fitting(request[r])

\* A transfer that is not too old is recorded, lost, or about to be recorded.
Accounted ==
    /\ \A r \in Requests : request[r].pc = "sent" =>
          request[r].op = "claim" /\ <<request[r].by, request[r].arg>> \in paid
    /\ \A p \in paid : p \in claims \cup lost \/
          \E r \in Requests : request[r].pc = "sent" /\ <<request[r].by, request[r].arg>> = p

\* What a request decided on the rows it read, it would decide now, unless
\* another one has committed since, or the end of the contest it enters came.
StillAdmitted(q) ==
    /\ Admitted(q.op, q.by, q.of, q.arg)
    /\ q.op \in {"join", "confirm"} => (q.inserts <=> member[q.by] = None)
Current ==
    \A r \in Requests : Busy(r) /\ ~request[r].overlapped => StillAdmitted(request[r])

Inv == TypeOK /\ Grounded /\ Accounted /\ Current

-----------------------------------------------------------------------------
RequestRows == [pc : {"idle", "read", "sent"}, op : Operations, by : Users, of : Users,
                arg : Arguments, inserts : BOOLEAN, changes : BOOLEAN, overlapped : BOOLEAN]

RowsOK ==
    /\ user \in [Users -> Accounts \cup {None}]
    /\ contest \in [status : Statuses \cup {None}, admin : Wallets \cup {None}]
    /\ ended \in BOOLEAN
    /\ member \in [Users -> Members \cup {None}]
    /\ \A u \in Users : member[u] # None => user[u] # None /\ contest.status # None

\* None is no row and no value of a column that has one.
LEMMA NoneIsNothing ==
  /\ None \notin Wallets
  /\ None \notin Statuses
  /\ \A a \in Accounts : a # None
  /\ \A m \in Members : m # None
  BY NoneAssumption

LEMMA IdleType == Idle \in RequestRows
<1>1. (CHOOSE u \in Users : TRUE) \in Users
  BY FoundersAssumption
<1>2. None \in Arguments /\ "join" \in Operations
  BY DEF Arguments, Operations
<1> QED
  BY <1>1, <1>2 DEF Idle, RequestRows

LEMMA InvInit == Init => Inv
<1> SUFFICES ASSUME Init PROVE Inv
  OBVIOUS
<1>1. \A r \in Requests : request[r] = Idle /\ Idle.pc = "idle"
  BY DEF Init, Idle
<1>2. RowsOK
  BY FoundersAssumption DEF Init, RowsOK, Accounts, Roles, Statuses
<1>3. TypeOK
  <2>1. request \in [Requests -> RequestRows]
    BY IdleType DEF Init
  <2> QED
    BY <1>2, <2>1 DEF Init, TypeOK, RowsOK, RequestRows
<1>4. Grounded /\ Accounted /\ Current
  BY <1>1 DEF Init, Grounded, Accounted, Current, Busy
<1> QED
  BY <1>3, <1>4 DEF Inv

-----------------------------------------------------------------------------
(* One lemma per step.                                                     *)

\* Another step's effect on a request: none, or on its progress only.
Same(s) ==
    /\ request'[s].op = request[s].op /\ request'[s].by = request[s].by
    /\ request'[s].of = request[s].of /\ request'[s].arg = request[s].arg
    /\ request'[s].inserts = request[s].inserts

\* While no row changes, a request would decide as it did.
LEMMA AdmissionStands ==
  ASSUME NEW s \in Requests, Same(s), UNCHANGED <<rows, claims>>
  PROVE  StillAdmitted(request[s]) => StillAdmitted(request[s])'
  BY DEF Same, StillAdmitted, rows, Admitted, OnAnother, Admin, Active, Joining, Open,
         FirstInitialization, Binding, Unbound, Claiming

\* Rows that are there stay there.
RowsStay ==
    /\ \A u \in Users : user[u] # None => user'[u] # None
    /\ contest.status # None => contest'.status # None

LEMMA GroundStands ==
  ASSUME TypeOK, NEW s \in Requests, Same(s), RowsStay, Found(request[s]) /\ Fitting(request[s])
  PROVE  (Found(request[s]) /\ Fitting(request[s]))'
<1>1. request[s].by \in Users /\ request[s].of \in Users
  BY DEF TypeOK
<1> QED
  BY <1>1 DEF Same, Found, Fitting, RowsStay

\* The rows do not change: what the other requests were admitted for stands.
LEMMA ReadStep ==
  ASSUME Inv, NEW r \in Requests, NEW op \in mix, NEW by \in Users, NEW of \in Users,
         NEW arg \in Arguments, Read(r, op, by, of, arg)
  PROVE  Inv'
<1> DEFINE q == [pc |-> "read", op |-> op, by |-> by, of |-> of, arg |-> arg,
                 overlapped |-> FALSE, changes |-> Differs(op, of, arg),
                 inserts |-> op \in {"join", "confirm"} /\ member[by] = None]
<1>1. /\ Admitted(op, by, of, arg)
      /\ request[r].pc = "idle"
      /\ request' = [request EXCEPT ![r] = q]
      /\ UNCHANGED <<mix, user, contest, ended, member, joins, claims, paid, lost>>
  BY Zenon DEF Read, rows
<1>2. op \in Operations
  BY MixesAssumption DEF Inv, TypeOK
<1>3. Differs(op, of, arg) \in BOOLEAN
  BY DEF Differs
<1>4. q \in RequestRows
  BY <1>2, <1>3 DEF RequestRows
<1>5. /\ request'[r] = q
      /\ \A s \in Requests : s # r => request'[s] = request[s]
      /\ request' \in [Requests -> RequestRows]
  BY <1>1, <1>4 DEF Inv, TypeOK, RequestRows
<1> HIDE DEF q
<1>6. TypeOK'
  BY <1>1, <1>5 DEF Inv, TypeOK, RequestRows
<1>7. Found(q) /\ Fitting(q)
  <2>1. Open => contest.status # None
    BY NoneIsNothing DEF Open, Statuses
  <2>2. Found(q)
    BY <1>1, <2>1 DEF q, Found, Admitted, OnAnother, Admin, Active, Joining,
       FirstInitialization, Binding, Claiming
  <2>3. Fitting(q)
    BY <1>1 DEF q, Fitting, Admitted
  <2> QED
    BY <2>2, <2>3
<1>8. Grounded'
  <2> SUFFICES ASSUME NEW s \in Requests, Busy(s)'
               PROVE  (Found(request[s]) /\ Fitting(request[s]))'
    BY DEF Grounded
  <2>1. CASE s = r
    BY <2>1, <1>1, <1>5, <1>7 DEF Found, Fitting
  <2>2. CASE s # r
    <3>1. Same(s) /\ RowsStay
      BY <2>2, <1>1, <1>5 DEF RowsStay, Same
    <3>2. Found(request[s]) /\ Fitting(request[s])
      BY <2>2, <1>5 DEF Inv, Grounded, Busy
    <3> QED
      BY <3>1, <3>2, GroundStands DEF Inv
  <2> QED
    BY <2>1, <2>2
<1>9. Accounted'
  <2>1. q.pc = "read"
    BY DEF q
  <2> QED
    BY <1>1, <1>5, <2>1 DEF Inv, Accounted
<1>10. Current'
  <2> SUFFICES ASSUME NEW s \in Requests, Busy(s)', ~request'[s].overlapped
               PROVE  StillAdmitted(request[s])'
    BY DEF Current
  <2>1. CASE s = r
    <3>1. q.inserts <=> q.op \in {"join", "confirm"} /\ member[q.by] = None
      BY DEF q
    <3>2. Admitted(q.op, q.by, q.of, q.arg)
      BY <1>1 DEF q
    <3>3. StillAdmitted(q)
      BY <3>1, <3>2 DEF StillAdmitted
    <3> QED
      BY <2>1, <1>1, <1>5, <3>3 DEF StillAdmitted, Admitted, OnAnother, Admin, Active, Joining,
         Open, FirstInitialization, Binding, Unbound, Claiming
  <2>2. CASE s # r
    <3>1. Same(s) /\ UNCHANGED <<rows, claims>>
      BY <2>2, <1>1, <1>5 DEF rows, Same
    <3>2. StillAdmitted(request[s])
      BY <2>2, <1>5 DEF Inv, Current, Busy
    <3> QED
      BY <3>1, <3>2, AdmissionStands
  <2> QED
    BY <2>1, <2>2
<1> QED
  BY <1>6, <1>8, <1>9, <1>10 DEF Inv

LEMMA SendStep ==
  ASSUME Inv, NEW r \in Requests, Send(r)
  PROVE  Inv'
<1> DEFINE p == <<request[r].by, request[r].arg>>
<1>1. /\ request[r].pc = "read" /\ request[r].op = "claim"
      /\ paid' = paid \cup {p}
      /\ request' = [request EXCEPT ![r].pc = "sent"]
      /\ UNCHANGED <<mix, user, contest, ended, member, joins, claims, lost>>
  BY DEF Send, rows
<1>2. request \in [Requests -> RequestRows]
  BY DEF Inv, TypeOK, RequestRows
<1>3. /\ request'[r] = [request[r] EXCEPT !.pc = "sent"]
      /\ \A s \in Requests : s # r => request'[s] = request[s]
  BY <1>1, <1>2
<1>4. /\ request'[r].pc = "sent" /\ request'[r].op = "claim"
      /\ <<request'[r].by, request'[r].arg>> = p
      /\ request'[r].overlapped = request[r].overlapped
      /\ \A s \in Requests : Same(s)
  BY <1>1, <1>2, <1>3 DEF RequestRows, Same
<1>5. request' \in [Requests -> RequestRows]
  BY <1>1, <1>2 DEF RequestRows
<1>6. p \in Claims
  BY <1>1, <1>2 DEF Inv, Grounded, Busy, Fitting, Claims, RequestRows
<1>7. TypeOK'
  BY <1>1, <1>5, <1>6 DEF Inv, TypeOK, RequestRows
<1>8. Grounded'
  <2> SUFFICES ASSUME NEW s \in Requests, Busy(s)'
               PROVE  (Found(request[s]) /\ Fitting(request[s]))'
    BY DEF Grounded
  <2>1. RowsStay /\ request[s].pc # "idle"
    BY <1>1, <1>3 DEF RowsStay, Busy
  <2> QED
    BY <1>4, <2>1, GroundStands DEF Inv, Grounded, Busy
<1>9. Accounted'
  BY <1>1, <1>3, <1>4 DEF Inv, Accounted
<1>10. Current'
  <2> SUFFICES ASSUME NEW s \in Requests, Busy(s)', ~request'[s].overlapped
               PROVE  StillAdmitted(request[s])'
    BY DEF Current
  <2>1. StillAdmitted(request[s])
    BY <1>1, <1>3, <1>4 DEF Inv, Current, Busy
  <2> QED
    BY <1>1, <1>4, <2>1, AdmissionStands DEF rows
<1> QED
  BY <1>7, <1>8, <1>9, <1>10 DEF Inv

\* What a request writes keeps the rows well-formed and takes none away.
LEMMA WrittenRows ==
  ASSUME Inv, NEW r \in Requests, Busy(r), Written(request[r])
  PROVE  RowsOK' /\ RowsStay
<1> DEFINE q == request[r]
<1>1. q \in RequestRows /\ Found(q) /\ Fitting(q) /\ RowsOK
  BY DEF Inv, TypeOK, Grounded, RequestRows, RowsOK
<1> HIDE DEF q
<1>2. Written(q)
  BY DEF q
<1>3. CASE Registered(q)
  BY <1>1, <1>3, NoneIsNothing
     DEF Registered, RowsOK, RowsStay, RequestRows, Accounts, Roles
<1>4. CASE Administered(q)
  <2>1. user[q.of] \in Accounts /\ q.of \in Users
    BY <1>1, <1>4 DEF Administered, Found, RowsOK, RequestRows
  <2>2. [user[q.of] EXCEPT !.locked = (q.op = "lock")] \in Accounts
    BY <2>1 DEF Accounts
  <2>3. q.op = "setRole" => [user[q.of] EXCEPT !.role = q.arg] \in Accounts
    BY <1>1, <2>1 DEF Accounts, Fitting
  <2>4. /\ user' \in [Users -> Accounts \cup {None}]
        /\ \A u \in Users : user[u] # None => user'[u] # None
    BY <1>1, <1>4, <2>1, <2>2, <2>3, NoneIsNothing DEF Administered, RowsOK
  <2> QED
    BY <1>1, <1>4, <2>4 DEF Administered, RowsOK, RowsStay
<1>5. CASE Created(q) \/ StatusSet(q)
  <2>1. q.arg \in Statuses
    BY <1>1, <1>5 DEF Created, StatusSet, Fitting
  <2> QED
    BY <1>1, <1>5, <2>1, NoneIsNothing DEF Created, StatusSet, RowsOK, RowsStay
<1>6. CASE Rescheduled(q) \/ Initialized(q)
  BY <1>1, <1>6 DEF Rescheduled, Initialized, RowsOK, RowsStay, Fitting
<1>7. CASE Joined(q) \/ Bound(q)
  <2>1. /\ user[q.by] # None /\ contest.status # None /\ q.by \in Users
        /\ Bound(q) => [wallet |-> q.arg] \in Members
        /\ [wallet |-> None] \in Members
    BY <1>1, <1>7 DEF Joined, Bound, Found, Fitting, RequestRows, Members
  <2> QED
    BY <1>1, <1>7, <2>1 DEF Joined, Bound, RowsOK, RowsStay
<1>8. CASE Claimed(q)
  BY <1>1, <1>8 DEF Claimed, RowsOK, RowsStay, rows
<1> QED
  BY <1>2, <1>3, <1>4, <1>5, <1>6, <1>7, <1>8 DEF Written

\* Whatever a commit overtakes is marked, unless it changed nothing.
LEMMA CommitStep ==
  ASSUME Inv, NEW r \in Requests, Commit(r)
  PROVE  Inv'
<1> DEFINE Marked(s) == [request[s] EXCEPT !.overlapped = TRUE]
           Quiet(s) == request[s].pc = "idle" \/ UNCHANGED <<rows, claims>>
<1>1. /\ Busy(r) /\ Written(request[r])
      /\ request' = [s \in Requests |-> IF s = r THEN Idle
                                        ELSE IF Quiet(s) THEN request[s] ELSE Marked(s)]
      /\ UNCHANGED <<mix, joins, paid, lost>>
  BY DEF Commit, Busy
<1>2. request \in [Requests -> RequestRows]
  BY DEF Inv, TypeOK, RequestRows
<1>3. \A s \in Requests : Marked(s) \in RequestRows /\ Marked(s).overlapped
  BY <1>2 DEF RequestRows
<1>4. \A s \in Requests : s # r => request'[s] = request[s] \/ request'[s] = Marked(s)
  BY <1>1
<1>5. \A s \in Requests : s # r => Same(s) /\ request'[s].pc = request[s].pc
  <2> SUFFICES ASSUME NEW s \in Requests, s # r
               PROVE  Same(s) /\ request'[s].pc = request[s].pc
    OBVIOUS
  <2>1. CASE request'[s] = request[s]
    BY <2>1 DEF Same
  <2>2. CASE request'[s] = Marked(s)
    BY <1>2, <2>2 DEF RequestRows, Same
  <2> QED
    BY <1>4, <2>1, <2>2
<1>6. request'[r].pc = "idle"
  BY <1>1 DEF Idle
<1>7. RowsOK' /\ RowsStay
  BY <1>1, WrittenRows
<1>8. claims' = claims \/ /\ Claimed(request[r])
                          /\ claims' = claims \cup {<<request[r].by, request[r].arg>>}
  BY <1>1 DEF Written, Registered, Administered, Created, StatusSet, Rescheduled,
              Initialized, Joined, Bound, Claimed
<1>9. TypeOK'
  <2>1. request' \in [Requests -> RequestRows]
    BY <1>1, <1>2, <1>3, IdleType
  <2>2. claims' \subseteq paid
    BY <1>8 DEF Inv, TypeOK, Accounted, Claimed
  <2> QED
    BY <1>1, <1>7, <2>1, <2>2 DEF Inv, TypeOK, RowsOK, RequestRows
<1>10. Grounded'
  <2> SUFFICES ASSUME NEW s \in Requests, Busy(s)'
               PROVE  (Found(request[s]) /\ Fitting(request[s]))'
    BY DEF Grounded
  <2>1. s # r /\ Busy(s) /\ Same(s)
    BY <1>5, <1>6 DEF Busy
  <2> QED
    BY <1>7, <2>1, GroundStands DEF Inv, Grounded
<1>11. Accounted'
  <2>1. request[r].pc = "sent" => <<request[r].by, request[r].arg>> \in claims'
    <3>1. request[r].pc = "sent" => request[r].op = "claim"
      BY DEF Inv, Accounted
    <3>2. request[r].op = "claim" /\ Written(request[r]) => Claimed(request[r])
      BY DEF Written, Registered, Administered, Created, StatusSet,
         Rescheduled, Initialized, Joined, Bound
    <3> QED
      BY <1>1, <3>1, <3>2 DEF Claimed
  <2>2. claims \subseteq claims'
    BY <1>8
  <2>3. \A s \in Requests : request'[s].pc = "sent" =>
          request'[s].op = "claim" /\ <<request'[s].by, request'[s].arg>> \in paid'
    BY <1>1, <1>5, <1>6 DEF Inv, Accounted, Same
  <2>4. ASSUME NEW p \in paid', p \notin claims' \cup lost'
        PROVE  \E s \in Requests : request'[s].pc = "sent"
                                   /\ <<request'[s].by, request'[s].arg>> = p
    <3>1. PICK s \in Requests : request[s].pc = "sent" /\ <<request[s].by, request[s].arg>> = p
      BY <1>1, <2>2, <2>4 DEF Inv, Accounted
    <3>2. s # r
      BY <2>1, <2>4, <3>1
    <3> QED
      BY <1>5, <3>1, <3>2 DEF Same
  <2> QED
    BY <2>3, <2>4 DEF Accounted
<1>12. Current'
  <2> SUFFICES ASSUME NEW s \in Requests, Busy(s)', ~request'[s].overlapped
               PROVE  StillAdmitted(request[s])'
    BY DEF Current
  <2>1. s # r /\ Busy(s) /\ Same(s)
    BY <1>5, <1>6 DEF Busy
  <2>2. Quiet(s)
    BY <1>1, <1>3, <2>1
  <2>3. request'[s] = request[s] /\ UNCHANGED <<rows, claims>>
    BY <1>1, <2>1, <2>2 DEF Busy
  <2> QED
    BY <2>1, <2>3, AdmissionStands DEF Inv, Current
<1> QED
  BY <1>9, <1>10, <1>11, <1>12 DEF Inv

LEMMA FailStep ==
  ASSUME Inv, NEW r \in Requests, Fail(r)
  PROVE  Inv'
<1> DEFINE p == <<request[r].by, request[r].arg>>
<1>1. /\ lost' = IF request[r].pc = "sent" THEN lost \cup {p} ELSE lost
      /\ request' = [request EXCEPT ![r] = Idle]
      /\ UNCHANGED <<mix, user, contest, ended, member, joins, claims, paid>>
  BY DEF Fail, rows
<1>2. request \in [Requests -> RequestRows]
  BY DEF Inv, TypeOK, RequestRows
<1>3. /\ request'[r].pc = "idle"
      /\ \A s \in Requests : s # r => request'[s] = request[s] /\ Same(s)
  BY <1>1, <1>2 DEF Idle, Same
<1>4. TypeOK'
  <2>1. request' \in [Requests -> RequestRows]
    BY <1>1, <1>2, IdleType
  <2>2. lost' \subseteq paid
    BY <1>1 DEF Inv, TypeOK, Accounted
  <2> QED
    BY <1>1, <2>1, <2>2 DEF Inv, TypeOK, RequestRows
<1>5. Grounded'
  <2>1. RowsStay
    BY <1>1 DEF RowsStay
  <2> QED
    BY <1>3, <2>1, GroundStands DEF Inv, Grounded, Busy
<1>6. Accounted'
  BY <1>1, <1>3 DEF Inv, Accounted
<1>7. Current'
  <2>1. UNCHANGED <<rows, claims>>
    BY <1>1 DEF rows
  <2> QED
    BY <1>3, <2>1, AdmissionStands DEF Inv, Current, Busy
<1> QED
  BY <1>4, <1>5, <1>6, <1>7 DEF Inv

\* A request, once admitted, does not depend on the chain; a cooldown ends
\* while no claim is open.
LEMMA OutsideStep ==
  ASSUME Inv, \/ \E w \in Wallets : JoinOnChain(w)
              \/ \E u \in Users, w \in Wallets : CoolDown(u, w)
  PROVE  Inv'
<1>1. UNCHANGED <<mix, user, contest, ended, member, request>>
  BY DEF JoinOnChain, CoolDown, rows
<1>2. CASE \E w \in Wallets : JoinOnChain(w)
  <2>1. PICK w \in Wallets : JoinOnChain(w)
    BY <1>2
  <2>2. TypeOK'
    BY <1>1, <2>1 DEF Inv, TypeOK, JoinOnChain
  <2>3. UNCHANGED <<user, contest, ended, member, claims, paid, lost, request>>
    BY <2>1 DEF JoinOnChain, rows
  <2>4. Grounded' /\ Accounted'
    BY <2>3 DEF Inv, Grounded, Accounted, Busy, Found, Fitting
  <2>5. \A s \in Requests : Same(s) /\ UNCHANGED <<rows, claims>>
    BY <2>3 DEF Same, rows
  <2>6. Current'
    BY <2>3, <2>5, AdmissionStands DEF Inv, Current, Busy
  <2> QED
    BY <2>2, <2>4, <2>6 DEF Inv
<1>3. CASE \E u \in Users, w \in Wallets : CoolDown(u, w)
  <2>1. PICK u \in Users, w \in Wallets : CoolDown(u, w)
    BY <1>3
  <2>2. /\ \A r \in Requests : request[r].op = "claim" => request[r].pc = "idle"
        /\ paid' = paid \ {<<u, w>>} /\ claims' = claims \ {<<u, w>>}
        /\ lost' = lost \ {<<u, w>>} /\ joins' = joins
    BY <2>1 DEF CoolDown
  <2>3. TypeOK'
    BY <1>1, <2>2 DEF Inv, TypeOK
  <2>4. Grounded'
    BY <1>1 DEF Inv, Grounded, Busy, Found, Fitting
  <2>5. Accounted'
    BY <1>1, <2>2 DEF Inv, Accounted
  <2>6. Current'
    BY <1>1, <2>2 DEF Inv, Current, Busy, StillAdmitted, Admitted, OnAnother, Admin, Active,
       Joining, Open, FirstInitialization, Binding, Unbound
  <2> QED
    BY <2>3, <2>4, <2>5, <2>6 DEF Inv
<1> QED
  BY <1>2, <1>3

\* The end of the contest marks every request to enter it, and no other one
\* was admitted because it had not come.
LEMMA EndStep ==
  ASSUME Inv, End
  PROVE  Inv'
<1> DEFINE Marked(s) == [request[s] EXCEPT !.overlapped = TRUE]
           Entering(s) == request[s].pc # "idle" /\ request[s].op \in {"join", "confirm"}
<1>1. /\ ended' = TRUE
      /\ request' = [s \in Requests |-> IF Entering(s) THEN Marked(s) ELSE request[s]]
      /\ UNCHANGED <<mix, user, contest, member, joins, claims, paid, lost>>
  BY DEF End
<1>2. request \in [Requests -> RequestRows]
  BY DEF Inv, TypeOK, RequestRows
<1>3. \A s \in Requests : Marked(s) \in RequestRows /\ Marked(s).overlapped
  BY <1>2 DEF RequestRows
<1>4. \A s \in Requests : Same(s) /\ request'[s].pc = request[s].pc
  <2> SUFFICES ASSUME NEW s \in Requests PROVE Same(s) /\ request'[s].pc = request[s].pc
    OBVIOUS
  <2>1. CASE request'[s] = request[s]
    BY <2>1 DEF Same
  <2>2. CASE request'[s] = Marked(s)
    BY <1>2, <2>2 DEF RequestRows, Same
  <2> QED
    BY <1>1, <2>1, <2>2
<1>5. TypeOK'
  <2>1. request' \in [Requests -> RequestRows]
    BY <1>1, <1>2, <1>3
  <2> QED
    BY <1>1, <2>1 DEF Inv, TypeOK, RequestRows
<1>6. Grounded'
  <2>1. RowsStay
    BY <1>1 DEF RowsStay
  <2> QED
    BY <1>4, <2>1, GroundStands DEF Inv, Grounded, Busy
<1>7. Accounted'
  BY <1>1, <1>4 DEF Inv, Accounted, Same
<1>8. Current'
  <2> SUFFICES ASSUME NEW s \in Requests, Busy(s)', ~request'[s].overlapped
               PROVE  StillAdmitted(request[s])'
    BY DEF Current
  <2>1. ~Entering(s)
    BY <1>1, <1>3
  <2>2. request'[s] = request[s] /\ Busy(s) /\ request[s].op \notin {"join", "confirm"}
    BY <1>1, <1>4, <2>1 DEF Busy
  <2>3. StillAdmitted(request[s])
    BY <2>2 DEF Inv, Current
  <2> QED
    BY <1>1, <2>2, <2>3 DEF StillAdmitted, Admitted, OnAnother, Admin, Active,
       FirstInitialization, Claiming
<1> QED
  BY <1>5, <1>6, <1>7, <1>8 DEF Inv

LEMMA InvStep == Inv /\ [Next]_vars => Inv'
<1> SUFFICES ASSUME Inv, [Next]_vars PROVE Inv'
  OBVIOUS
<1>1. ASSUME NEW r \in Requests, NEW op \in mix, NEW by \in Users, NEW of \in Users,
             NEW arg \in Arguments, Read(r, op, by, of, arg)
      PROVE  Inv'
  BY <1>1, ReadStep
<1>2. ASSUME NEW r \in Requests, Send(r) \/ Commit(r) \/ Fail(r)
      PROVE  Inv'
  BY <1>2, SendStep, CommitStep, FailStep
<1>3. CASE UNCHANGED vars
  BY <1>3 DEF vars, Inv, TypeOK, Grounded, Accounted, Current, Busy, Found, Fitting,
     StillAdmitted, Admitted, OnAnother, Admin, Active, Joining, Open, FirstInitialization,
     Binding, Unbound, Claiming
<1> QED
  BY <1>1, <1>2, <1>3, OutsideStep, EndStep DEF Next

LEMMA AlwaysInv == Spec => []Inv
  BY InvInit, InvStep, PTL DEF Spec

-----------------------------------------------------------------------------
(* The theorems.                                                           *)

\* Rows, claims and requests keep their types, no participant lacks a user or
\* a contest, and what is recorded as paid or known as lost was paid.
THEOREM TypeCorrectness == Spec => []TypeOK
<1>1. Inv => TypeOK
  BY DEF Inv
<1> QED
  BY <1>1, AlwaysInv, PTL

\* A step that changes the contest or a participant commits a request.
LEMMA OnlyCommitsWrite ==
  ASSUME [Next]_vars, <<contest, member>>' # <<contest, member>>
  PROVE  \E r \in Requests : Commit(r)
  BY DEF Next, vars, rows, Read, Send, Fail, End, JoinOnChain, CoolDown

\* A request nobody overtook is admitted by the rows it is committed on.
LEMMA CommitsAreAdmitted ==
  ASSUME Inv, NEW r \in Requests, Commit(r), ~request[r].overlapped
  PROVE  StillAdmitted(request[r])
  BY DEF Inv, Current, Commit, Busy

\* Who administers, or acts for himself, has the right to when it is
\* committed: a lock and the loss of a role take effect at once.
THEOREM RightsHold == Spec => RightsAreCurrent
<1>1. Inv /\ [Next]_vars =>
        [\A r \in Requests :
          LET q == request[r]
          IN  Commit(r) /\ q.op # "register" /\ ~q.overlapped =>
                  IF q.op \in {"setRole", "lock", "unlock", "create", "setStatus", "reschedule",
                              "initialize"}
                  THEN user[q.by] # None /\ user[q.by].role = "admin" /\ ~user[q.by].locked
                  ELSE user[q.by] # None /\ ~user[q.by].locked]_vars
  <2> SUFFICES ASSUME Inv, NEW r \in Requests, Commit(r), request[r].op # "register",
                      ~request[r].overlapped
               PROVE  LET q == request[r]
                      IN  IF q.op \in {"setRole", "lock", "unlock", "create", "setStatus",
                                       "reschedule", "initialize"}
                          THEN user[q.by] # None /\ user[q.by].role = "admin"
                               /\ ~user[q.by].locked
                          ELSE user[q.by] # None /\ ~user[q.by].locked
    OBVIOUS
  <2>1. StillAdmitted(request[r])
    BY CommitsAreAdmitted
  <2> QED
    BY <2>1 DEF StillAdmitted, Admitted, OnAnother, Admin, Active, Joining,
       FirstInitialization, Binding, Claiming
<1> QED
  BY <1>1, AlwaysInv, PTL DEF Spec, RightsAreCurrent

\* An administrator always remains, unless the last ones act on each other at
\* the same time: nobody acts on himself.
THEOREM AdminsRemain == Spec => AnAdminRemains
<1>1. Inv /\ [Next]_vars =>
        [\A r \in Requests :
            Commit(r) /\ Admins # {} /\ Admins' = {} => request[r].overlapped]_vars
  <2> SUFFICES ASSUME Inv, NEW r \in Requests, Commit(r), Admins # {}, ~request[r].overlapped
               PROVE  Admins' # {}
    OBVIOUS
  <2> DEFINE q == request[r]
  <2>1. Admitted(q.op, q.by, q.of, q.arg) /\ Written(q)
    BY CommitsAreAdmitted DEF StillAdmitted, Commit
  <2>2. q \in RequestRows /\ user \in [Users -> Accounts \cup {None}]
    BY DEF Inv, TypeOK, RequestRows
  <2> HIDE DEF q
  <2>3. PICK u \in Users : Admin(u)
    BY DEF Admins
  <2>4. CASE Registered(q)
    <3>1. u # q.by /\ user'[u] = user[u]
      BY <2>2, <2>3, <2>4 DEF Registered, Admin, Active, RequestRows
    <3> QED
      BY <2>3, <3>1 DEF Admins, Admin, Active
  <2>5. CASE Administered(q)
    <3>1. Admin(q.by) /\ q.of # q.by
      BY <2>1, <2>5 DEF Administered, Admitted, OnAnother
    <3>2. user'[q.by] = user[q.by] /\ q.by \in Users
      BY <2>2, <2>5, <3>1 DEF Administered, RequestRows
    <3> QED
      BY <3>1, <3>2 DEF Admins, Admin, Active
  <2>6. CASE ~Registered(q) /\ ~Administered(q)
    <3>1. user' = user
      BY <2>1, <2>6 DEF Written, Created, StatusSet, Rescheduled, Initialized, Joined, Bound,
         Claimed, rows
    <3> QED
      BY <2>3, <3>1 DEF Admins, Admin, Active
  <2> QED
    BY <2>4, <2>5, <2>6
<1> QED
  BY <1>1, AlwaysInv, PTL DEF Spec, AnAdminRemains

\* What a commit does to a participant and to the contest's wallet.
LEMMA EntryEffect ==
  ASSUME Inv, NEW r \in Requests, Commit(r), NEW u \in Users, member'[u] # member[u]
  PROVE  LET q == request[r]
         IN  /\ q.by = u
             /\ \/ member[u] = None /\ member'[u] = [wallet |-> None] /\ q.op = "join"
                \/ member'[u] = [wallet |-> q.arg] /\ q.op = "confirm" /\ q.arg \in Wallets
<1> DEFINE q == request[r]
<1>1. Written(q) /\ q.by \in Users /\ Busy(r)
  BY DEF Commit, Inv, TypeOK, Busy
<1>2. member \in [Users -> Members \cup {None}] /\ Fitting(q)
  BY <1>1 DEF Inv, TypeOK, Grounded
<1> HIDE DEF q
<1>3. Joined(q) \/ Bound(q)
  BY <1>1 DEF Written, Registered, Administered, Created, StatusSet, Rescheduled, Initialized,
     Claimed, rows
<1>4. q.by = u
  BY <1>1, <1>2, <1>3 DEF Joined, Bound
<1> QED
  BY <1>2, <1>3, <1>4 DEF Joined, Bound, Fitting, q

LEMMA WalletEffect ==
  ASSUME Inv, NEW r \in Requests, Commit(r), contest'.admin # contest.admin
  PROVE  request[r].op = "initialize"
<1> DEFINE q == request[r]
<1>1. Written(q)
  BY DEF Commit
<1>2. contest \in [status : Statuses \cup {None}, admin : Wallets \cup {None}]
  BY DEF Inv, TypeOK
<1> HIDE DEF q
<1>3. CASE Created(q) \/ StatusSet(q)
  BY <1>2, <1>3 DEF Created, StatusSet
<1>4. CASE Initialized(q)
  BY <1>4 DEF Initialized, q
<1> QED
  BY <1>1, <1>3, <1>4 DEF Written, Registered, Administered, Rescheduled, Joined, Bound,
     Claimed, rows

\* A wallet stays bound to its participant, and the admin's to the contest,
\* but for requests that were overtaken.
THEOREM BindingsStay == Spec => BindingsAreKept
<1>1. Inv /\ [Next]_vars =>
        [/\ \A u \in Users :
              ~Unbound(u) /\ member'[u] # member[u] =>
                  \E r \in Requests : request[r].overlapped /\ request[r].by = u
         /\ contest.admin # None /\ contest'.admin # contest.admin =>
              \E r \in Requests : request[r].overlapped /\ request[r].op = "initialize"]_vars
  <2> SUFFICES ASSUME Inv, [Next]_vars
               PROVE  /\ \A u \in Users :
                           ~Unbound(u) /\ member'[u] # member[u] =>
                             \E r \in Requests : request[r].overlapped /\ request[r].by = u
                      /\ contest.admin # None /\ contest'.admin # contest.admin =>
                           \E r \in Requests : request[r].overlapped
                                               /\ request[r].op = "initialize"
    OBVIOUS
  <2>1. ASSUME NEW u \in Users, ~Unbound(u), member'[u] # member[u]
        PROVE  \E r \in Requests : request[r].overlapped /\ request[r].by = u
    <3>1. PICK r \in Requests : Commit(r)
      BY <2>1, OnlyCommitsWrite
    <3>2. /\ request[r].by = u
          /\ member[u] = None \/ request[r].op = "confirm"
      BY <2>1, <3>1, EntryEffect
    <3>3. ~request[r].overlapped /\ request[r].op = "confirm" => Unbound(u)
      BY <3>1, <3>2, CommitsAreAdmitted DEF StillAdmitted, Admitted, Binding
    <3> QED
      BY <2>1, <3>2, <3>3 DEF Unbound
  <2>2. ASSUME contest.admin # None, contest'.admin # contest.admin
        PROVE  \E r \in Requests : request[r].overlapped /\ request[r].op = "initialize"
    <3>1. PICK r \in Requests : Commit(r)
      BY <2>2, OnlyCommitsWrite
    <3>2. request[r].op = "initialize"
      BY <2>2, <3>1, WalletEffect
    <3>3. request[r].overlapped
      BY <2>2, <3>1, <3>2, CommitsAreAdmitted DEF StillAdmitted, Admitted, FirstInitialization
    <3> QED
      BY <3>2, <3>3
  <2> QED
    BY <2>1, <2>2
<1> QED
  BY <1>1, AlwaysInv, PTL DEF Spec, BindingsAreKept

\* Nobody enters a contest that is over, whether its status or its ends_at says
\* so, nor is bound to its admin's wallet, but by a request that was overtaken by
\* another or by the end itself (join_contest, confirm_join).
THEOREM EntriesProper == Spec => EntriesAreProper
<1>1. Inv /\ [Next]_vars =>
        [\A u \in Users :
            LET forAdmin == contest.admin # None /\ member'[u] = [wallet |-> contest.admin]
            IN  member'[u] # member[u] /\ (~Open \/ forAdmin) =>
                    \E r \in Requests : request[r].overlapped /\ request[r].by = u]_vars
  <2> SUFFICES ASSUME Inv, [Next]_vars, NEW u \in Users, member'[u] # member[u],
                      \/ ~Open
                      \/ contest.admin # None /\ member'[u] = [wallet |-> contest.admin]
               PROVE  \E r \in Requests : request[r].overlapped /\ request[r].by = u
    OBVIOUS
  <2>1. PICK r \in Requests : Commit(r)
    BY OnlyCommitsWrite
  <2>2. /\ request[r].by = u
        /\ request[r].op \in {"join", "confirm"}
        /\ \/ member'[u] = [wallet |-> None]
           \/ member'[u] = [wallet |-> request[r].arg] /\ request[r].op = "confirm"
    BY <2>1, EntryEffect
  <2>3. CASE ~Open
    BY <2>1, <2>2, <2>3, CommitsAreAdmitted DEF StillAdmitted, Admitted, Joining, Binding
  <2>4. CASE contest.admin # None /\ member'[u] = [wallet |-> contest.admin]
    <3>1. member'[u].wallet = contest.admin
      BY <2>4
    <3>2. request[r].arg = contest.admin /\ request[r].op = "confirm"
      BY <2>2, <2>4, <3>1
    <3> QED
      BY <2>1, <2>2, <2>4, <3>2, CommitsAreAdmitted, NoneIsNothing
         DEF StillAdmitted, Admitted, Binding
  <2> QED
    BY <2>3, <2>4
<1> QED
  BY <1>1, AlwaysInv, PTL DEF Spec, EntriesAreProper

\* A second payment within the cooldown follows a lost record or overlaps.
THEOREM Cooldown == Spec => CooldownHolds
<1>1. Inv /\ [Next]_vars =>
        [\A r \in Requests :
            Send(r) /\ <<request[r].by, request[r].arg>> \in paid =>
                \/ request[r].overlapped
                \/ <<request[r].by, request[r].arg>> \in lost
                \/ \E s \in Requests \ {r} : request[s].pc = "sent"]_vars
  <2> SUFFICES ASSUME Inv, NEW r \in Requests, Send(r), ~request[r].overlapped,
                      <<request[r].by, request[r].arg>> \in paid,
                      <<request[r].by, request[r].arg>> \notin lost
               PROVE  \E s \in Requests \ {r} : request[s].pc = "sent"
    OBVIOUS
  <2>1. request[r].pc = "read" /\ request[r].op = "claim" /\ Busy(r)
    BY DEF Send, Busy
  <2>2. <<request[r].by, request[r].arg>> \notin claims
    BY <2>1 DEF Inv, Current, StillAdmitted, Admitted, Claiming
  <2> QED
    BY <2>1, <2>2 DEF Inv, Accounted
<1> QED
  BY <1>1, AlwaysInv, PTL DEF Spec, CooldownHolds

=============================================================================
