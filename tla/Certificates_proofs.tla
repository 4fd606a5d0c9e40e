-------------------------- MODULE Certificates_proofs -----------------------
(***************************************************************************)
(* Proved of Certificates, for every number of wallets, settlements and    *)
(* batches: claims recorded were sent, certificates state their owners'    *)
(* ranks, and the program accepts the exported proofs of a published batch *)
(* of any size, and no others.                                             *)
(***************************************************************************)
EXTENDS Certificates, FiniteSetTheorems, WellFoundedInduction, TLAPS

PagesOK ==
    page \in [Wallets -> [batch : BatchIds \cup {NoBatch}, claimed : BOOLEAN, sent : BOOLEAN]]
AccountsOK == certificates = [w \in Wallets |-> certificates[w]]
RecordsOK == recorded \subseteq BatchIds \X Wallets /\ sent \subseteq BatchIds \X Wallets

\* A claim's transaction was sent: it has landed, or may still.
WasSent(b, w) == certificates[w].batch = b \/ <<b, w>> \in sent

\* A page that waits for its confirmation has sent the claim it shows.
WaitingPages ==
    \A w \in Wallets : page[w].sent => page[w].batch # NoBatch /\ WasSent(page[w].batch, w)

\* The inductive invariant: a claim may be recorded because the page that
\* confirms it has sent its transaction, and a claim stays sent because no
\* transaction lands where there is a certificate.
Sent == PagesOK /\ AccountsOK /\ RecordsOK /\ WaitingPages /\ RecordedWasSent

LEMMA SentInit == Init => Sent
  BY BoundsAssumption
     DEF Init, Sent, PagesOK, AccountsOK, RecordsOK, WaitingPages, RecordedWasSent,
         NoPage, NoCertificate, BatchIds, NoBatch

LEMMA SendStep ==
  ASSUME Sent, NEW w \in Wallets, Send(w)
  PROVE  Sent'
<1>1. /\ page[w].batch # NoBatch
      /\ sent' = sent \cup {<<page[w].batch, w>>}
      /\ page' = [page EXCEPT ![w].sent = TRUE]
      /\ recorded' = recorded /\ certificates' = certificates
  BY DEF Send, Offered
<1>2. page[w].batch \in BatchIds /\ page'[w].batch = page[w].batch
  BY <1>1 DEF Sent, PagesOK
<1>3. PagesOK' /\ AccountsOK'
  BY <1>1 DEF Sent, PagesOK, AccountsOK
<1>4. RecordsOK' /\ RecordedWasSent'
  BY <1>1, <1>2 DEF Sent, RecordsOK, RecordedWasSent
<1>5. WaitingPages'
  <2> SUFFICES ASSUME NEW v \in Wallets, page'[v].sent
               PROVE  page'[v].batch # NoBatch /\ WasSent(page[v].batch, v)'
    BY DEF WaitingPages
  <2>1. CASE v = w
    BY <1>1, <1>2, <2>1 DEF WasSent
  <2>2. CASE v # w
    <3>1. page'[v] = page[v]
      BY <1>1, <2>2 DEF Sent, PagesOK
    <3> QED
      BY <1>1, <3>1 DEF Sent, WaitingPages, WasSent
  <2> QED
    BY <2>1, <2>2
<1> QED
  BY <1>3, <1>4, <1>5 DEF Sent

\* The wallet whose certificate is created had none, so none of its claims
\* stands by its certificate alone.
LEMMA LandStep ==
  ASSUME Sent, NEW b \in BatchIds, NEW w \in Wallets, Land(b, w)
  PROVE  Sent'
<1>1. PICK i \in Places(b, w) :
        certificates' = [certificates EXCEPT ![w] =
            Certificate(b, batches[b].prizes[i].rank, chain.snapshot)]
  BY DEF Land
<1>2. /\ certificates[w] = NoCertificate
      /\ sent' = sent \ {<<b, w>>}
      /\ UNCHANGED <<recorded, page>>
  BY DEF Land, Absent
<1>3. certificates'[w].batch = b /\ certificates[w].batch = NoBatch
  BY <1>1, <1>2 DEF Sent, AccountsOK, Certificate, NoCertificate
<1>4. \A v \in Wallets : v # w => certificates'[v] = certificates[v]
  BY <1>1 DEF Sent, AccountsOK
<1>5. NoBatch \notin BatchIds
  BY BoundsAssumption DEF NoBatch, BatchIds
<1>6. ASSUME NEW v \in Wallets, NEW a, a # NoBatch, WasSent(a, v)
      PROVE  WasSent(a, v)'
  <2>1. CASE v = w
    <3>1. <<a, w>> \in sent
      BY <1>3, <1>6, <2>1 DEF WasSent
    <3> QED
      BY <1>2, <1>3, <2>1, <3>1 DEF WasSent
  <2>2. CASE v # w
    BY <1>2, <1>4, <1>6, <2>2 DEF WasSent
  <2> QED
    BY <2>1, <2>2
<1>7. PagesOK' /\ RecordsOK'
  BY <1>2 DEF Sent, PagesOK, RecordsOK
<1>8. AccountsOK'
  BY <1>1 DEF Sent, AccountsOK
<1>9. WaitingPages'
  BY <1>2, <1>6 DEF Sent, WaitingPages
<1>10. RecordedWasSent'
  <2> SUFFICES ASSUME NEW c \in recorded
               PROVE  certificates'[c[2]].batch = c[1] \/ c \in sent'
    BY <1>2 DEF RecordedWasSent
  <2>1. c = <<c[1], c[2]>> /\ c[1] \in BatchIds /\ c[2] \in Wallets
    BY DEF Sent, RecordsOK
  <2>2. WasSent(c[1], c[2])
    BY <2>1 DEF Sent, RecordedWasSent, WasSent
  <2>3. WasSent(c[1], c[2])'
    BY <1>5, <1>6, <2>1, <2>2
  <2> QED
    BY <2>1, <2>3 DEF WasSent
<1> QED
  BY <1>7, <1>8, <1>9, <1>10 DEF Sent

\* The claim confirmed is the one the page has sent.
LEMMA ConfirmStep ==
  ASSUME Sent, NEW w \in Wallets, Confirm(w)
  PROVE  Sent'
<1>1. PICK answered \in BOOLEAN :
        page' = [page EXCEPT ![w].claimed = answered, ![w].sent = FALSE]
  BY DEF Confirm
<1>2. /\ page[w].sent
      /\ recorded' = recorded \cup {<<page[w].batch, w>>}
      /\ UNCHANGED <<certificates, sent>>
  BY DEF Confirm, ConfirmedClaim, Marked
<1>3. page[w].batch \in BatchIds /\ WasSent(page[w].batch, w)
  BY <1>2 DEF Sent, PagesOK, WaitingPages
<1>4. PagesOK' /\ AccountsOK'
  BY <1>1, <1>2 DEF Sent, PagesOK, AccountsOK
<1>5. RecordsOK' /\ RecordedWasSent'
  BY <1>2, <1>3 DEF Sent, RecordsOK, RecordedWasSent, WasSent
<1>6. WaitingPages'
  <2> SUFFICES ASSUME NEW v \in Wallets, page'[v].sent
               PROVE  page'[v].batch # NoBatch /\ WasSent(page[v].batch, v)'
    BY DEF WaitingPages
  <2>1. v # w /\ page'[v] = page[v]
    BY <1>1 DEF Sent, PagesOK
  <2> QED
    BY <1>2, <2>1 DEF Sent, WaitingPages, WasSent
<1> QED
  BY <1>4, <1>5, <1>6 DEF Sent

LEMMA SentStep == Sent /\ [Next]_vars => Sent'
<1> SUFFICES ASSUME Sent, [Next]_vars PROVE Sent'
  OBVIOUS
<1>1. CASE UNCHANGED <<recorded, certificates, sent, page>>
  BY <1>1 DEF Sent, PagesOK, AccountsOK, RecordsOK, WaitingPages, WasSent, RecordedWasSent
<1>2. CASE \E r \in Rankings : Settle(r)
  BY <1>1, <1>2 DEF Settle
<1>3. CASE \E n \in TopNs : Export(n)
  BY <1>1, <1>3 DEF Export
<1>4. CASE \E b \in BatchIds : Publish(b) \/ Authorize(b)
  BY <1>1, <1>4 DEF Publish, Authorize
<1>5. ASSUME NEW w \in Wallets, Open(w) PROVE Sent'
  <2>1. PICK b \in BatchIds :
          page' = [page EXCEPT ![w] = [batch |-> b, claimed |-> <<b, w>> \in recorded,
                                       sent |-> FALSE]]
    BY <1>5 DEF Open
  <2>2. (<<b, w>> \in recorded) \in BOOLEAN
    OBVIOUS
  <2>3. UNCHANGED <<certificates, recorded, sent>>
    BY <1>5 DEF Open
  <2>4. PagesOK' /\ AccountsOK' /\ RecordsOK' /\ RecordedWasSent'
    BY <2>1, <2>2, <2>3 DEF Sent, PagesOK, AccountsOK, RecordsOK, RecordedWasSent
  <2>5. WaitingPages'
    BY <2>1, <2>3 DEF Sent, PagesOK, WaitingPages, WasSent
  <2> QED
    BY <2>4, <2>5 DEF Sent
<1>6. ASSUME NEW w \in Wallets, Send(w) PROVE Sent'
  BY <1>6, SendStep
<1>7. ASSUME NEW b \in BatchIds, NEW w \in Wallets, Land(b, w) PROVE Sent'
  BY <1>7, LandStep
<1>8. ASSUME NEW w \in Wallets, Confirm(w) PROVE Sent'
  BY <1>8, ConfirmStep
<1>9. ASSUME NEW w \in Wallets, ConfirmFails(w) PROVE Sent'
  <2>1. page' = [page EXCEPT ![w].sent = FALSE] /\ UNCHANGED <<certificates, recorded, sent>>
    BY <1>9 DEF ConfirmFails
  <2>2. PagesOK' /\ AccountsOK' /\ RecordsOK' /\ RecordedWasSent'
    BY <2>1 DEF Sent, PagesOK, AccountsOK, RecordsOK, RecordedWasSent
  <2>3. WaitingPages'
    BY <2>1 DEF Sent, PagesOK, WaitingPages, WasSent
  <2> QED
    BY <2>2, <2>3 DEF Sent
<1>10. CASE UNCHANGED vars
  BY <1>1, <1>10 DEF vars
<1> QED
  BY <1>2, <1>3, <1>4, <1>5, <1>6, <1>7, <1>8, <1>9, <1>10 DEF Next

\* A claim marked claimed is one whose transaction was sent, for its batch,
\* whatever is settled, exported, published and authorized between the opening
\* of a page, the sending and its confirmation: the backend asks for no more
\* than the page has done.
THEOREM RecordedClaimsWereSent == Spec => []RecordedWasSent
<1>1. Sent => RecordedWasSent
  BY DEF Sent
<1> QED
  BY SentInit, SentStep, <1>1, PTL DEF Spec


-----------------------------------------------------------------------------
(* Numbers.                                                                *)

LEMMA Smallest ==
  ASSUME NEW T \in SUBSET Nat, T # {}
  PROVE  \E k \in T : \A j \in T : k <= j
<1>1. PICK k \in T : \A j \in T : <<j, k>> \notin OpToRel(<, Nat)
  BY NatLessThanWellFounded, WFMin
<1>2. \A j \in T : ~(j < k)
  BY <1>1 DEF OpToRel
<1> QED
  BY <1>2

LEMMA MinIn ==
  ASSUME NEW T \in SUBSET Nat, T # {}
  PROVE  Min(T) \in T
  BY Smallest DEF Min

\* Induction up to n: a set of exceptions has one without a predecessor in it.
LEMMA SmallestNumber ==
  ASSUME NEW n \in Nat, NEW T \in SUBSET (0 .. n), T # {}
  PROVE  \E k \in T : k = 0 \/ (k \in 1 .. n /\ k - 1 \in 0 .. n /\ k - 1 \notin T)
<1>1. PICK k \in T : \A j \in T : k <= j
  BY Smallest
<1>2. k \in 0 .. n /\ (k # 0 => k - 1 \in 0 .. n /\ k \in 1 .. n)
  BY <1>1
<1>3. k # 0 => k - 1 \notin T
  BY <1>1, <1>2
<1> QED
  BY <1>1, <1>2, <1>3

LEMMA Halves ==
  ASSUME NEW c \in Nat
  PROVE  c \div 2 \in Nat /\ c % 2 \in {0, 1} /\ c = 2 * (c \div 2) + (c % 2)
  OBVIOUS

-----------------------------------------------------------------------------
(* The tree.                                                               *)

\* The levels up to the m-th, as merkle_root makes them.
LevelsTo(f, leaves, m) == f = [h \in 0 .. m |-> IF h = 0 THEN leaves ELSE NextLevel(f[h - 1])]

LEMMA LevelsExist ==
  ASSUME NEW leaves, NEW n \in Nat
  PROVE  \E f : LevelsTo(f, leaves, n)
<1> DEFINE Bad == {m \in 0 .. n : ~ \E f : LevelsTo(f, leaves, m)}
<1> SUFFICES ASSUME Bad # {} PROVE FALSE
  OBVIOUS
<1>1. Bad \in SUBSET (0 .. n)
  OBVIOUS
<1>2. PICK m \in Bad : m = 0 \/ (m \in 1 .. n /\ m - 1 \in 0 .. n /\ m - 1 \notin Bad)
  BY <1>1, SmallestNumber
<1>3. CASE m = 0
  <2> DEFINE g == [h \in 0 .. 0 |-> leaves]
  <2>1. g = [h \in 0 .. 0 |-> IF h = 0 THEN leaves ELSE NextLevel(g[h - 1])]
    OBVIOUS
  <2>2. LevelsTo(g, leaves, 0)
    BY <2>1 DEF LevelsTo
  <2> QED
    BY <1>2, <1>3, <2>2
<1>4. CASE m # 0
  <2>1. m \in 1 .. n /\ m - 1 \in 0 .. n
    BY <1>2, <1>4
  <2>2. PICK f : LevelsTo(f, leaves, m - 1)
    BY <1>2, <2>1
  <2>3. \A h \in 0 .. (m - 1) : f[h] = IF h = 0 THEN leaves ELSE NextLevel(f[h - 1])
    BY <2>2 DEF LevelsTo
  <2> DEFINE g == [h \in 0 .. m |-> IF h = m THEN NextLevel(f[m - 1]) ELSE f[h]]
  <2>4. ASSUME NEW h \in 0 .. m
        PROVE  g[h] = IF h = 0 THEN leaves ELSE NextLevel(g[h - 1])
    <3>1. CASE h = m
      <4>1. m - 1 \in 0 .. m /\ m - 1 # m /\ m # 0
        BY <2>1
      <4>2. g[m - 1] = f[m - 1] /\ g[m] = NextLevel(f[m - 1])
        BY <2>1, <4>1
      <4> QED
        BY <3>1, <4>1, <4>2
    <3>2. CASE h # m
      <4>1. h \in 0 .. (m - 1) /\ (h # 0 => h - 1 \in 0 .. m /\ h - 1 # m)
        BY <2>1, <3>2
      <4>2. g[h] = f[h] /\ (h # 0 => g[h - 1] = f[h - 1])
        BY <3>2, <4>1
      <4> QED
        BY <2>3, <4>1, <4>2
    <3> QED
      BY <3>1, <3>2
  <2>5. g = [h \in 0 .. m |-> g[h]]
    OBVIOUS
  <2> HIDE DEF g
  <2>6. LevelsTo(g, leaves, m)
    BY <2>4, <2>5 DEF LevelsTo
  <2> QED
    BY <1>2, <2>6
<1> QED
  BY <1>3, <1>4

LEMMA LevelSteps ==
  ASSUME NEW leaves, Len(leaves) \in Nat
  PROVE  /\ Level(leaves)[0] = leaves
         /\ \A h \in 1 .. Len(leaves) : Level(leaves)[h] = NextLevel(Level(leaves)[h - 1])
<1> DEFINE n == Len(leaves)
           f == CHOOSE g : LevelsTo(g, leaves, n)
<1>1. Level(leaves) = f
  BY DEF Level, LevelsTo
<1>2. LevelsTo(f, leaves, n)
  BY LevelsExist
<1> HIDE DEF f
<1>3. \A h \in 0 .. n : f[h] = IF h = 0 THEN leaves ELSE NextLevel(f[h - 1])
  BY <1>2 DEF LevelsTo
<1>4. 0 \in 0 .. n /\ \A h \in 1 .. n : h \in 0 .. n /\ h # 0
  OBVIOUS
<1> QED
  BY <1>1, <1>3, <1>4

\* A level has one hash for every two of the one below.
LEMMA NextLevelIs ==
  ASSUME NEW level, Len(level) \in Nat
  PROVE  /\ Len(NextLevel(level)) = (Len(level) + 1) \div 2
         /\ \A i \in 1 .. ((Len(level) + 1) \div 2) :
                NextLevel(level)[i] =
                    HashPair(level[2 * i - 1],
                             IF 2 * i > Len(level) THEN level[2 * i - 1] ELSE level[2 * i])
<1> DEFINE m == (Len(level) + 1) \div 2
<1>1. m \in Nat
  BY Halves
<1> HIDE DEF m
<1>2. NextLevel(level) = [i \in 1 .. m |->
          HashPair(level[2 * i - 1], IF 2 * i > Len(level) THEN level[2 * i - 1] ELSE level[2 * i])]
  BY DEF NextLevel, m
<1>3. DOMAIN NextLevel(level) = 1 .. m
  BY <1>2
<1>4. Len(NextLevel(level)) = m
  BY <1>1, <1>3
<1> QED
  BY <1>2, <1>4 DEF m

\* The loop of merkle_root ends with a single hash, at the latest when as many
\* levels were made as there are leaves.
LEMMA LevelsShrink ==
  ASSUME NEW leaves, Len(leaves) \in Nat \ {0}
  PROVE  \A h \in 0 .. Len(leaves) :
             /\ Len(Level(leaves)[h]) \in Nat \ {0}
             /\ Len(Level(leaves)[h]) = 1 \/ Len(Level(leaves)[h]) <= Len(leaves) - h
<1> DEFINE n == Len(leaves)
           size == [h \in 0 .. n |-> Len(Level(leaves)[h])]
           Good(h) == size[h] \in Nat \ {0} /\ (size[h] = 1 \/ size[h] <= n - h)
           Bad == {h \in 0 .. n : ~Good(h)}
<1>1. size[0] = n
  BY LevelSteps
<1>2. ASSUME NEW h \in 1 .. n, size[h - 1] \in Nat
      PROVE  size[h] = (size[h - 1] + 1) \div 2
  <2>1. Level(leaves)[h] = NextLevel(Level(leaves)[h - 1])
    BY LevelSteps
  <2>2. h - 1 \in 0 .. n /\ h \in 0 .. n
    OBVIOUS
  <2>3. Len(Level(leaves)[h - 1]) \in Nat
    BY <1>2, <2>2
  <2>4. Len(Level(leaves)[h]) = (Len(Level(leaves)[h - 1]) + 1) \div 2
    BY <2>1, <2>3, NextLevelIs
  <2> QED
    BY <2>2, <2>4
<1>3. n \in Nat \ {0}
  OBVIOUS
<1>4. \A h \in 0 .. n : size[h] = Len(Level(leaves)[h])
  OBVIOUS
<1> HIDE DEF size, n
<1>5. Bad = {}
  <2> SUFFICES ASSUME Bad # {} PROVE FALSE
    OBVIOUS
  <2>1. Bad \in SUBSET (0 .. n)
    OBVIOUS
  <2>2. PICK h \in Bad : h = 0 \/ (h \in 1 .. n /\ h - 1 \in 0 .. n /\ h - 1 \notin Bad)
    BY <1>3, <2>1, SmallestNumber
  <2>3. CASE h = 0
    <3>1. Good(0)
      BY <1>1, <1>3
    <3> QED
      BY <2>2, <2>3, <3>1
  <2>4. CASE h # 0
    <3>1. h \in 1 .. n /\ Good(h - 1)
      BY <2>2, <2>4
    <3> DEFINE s == size[h - 1]
    <3>2. s \in Nat \ {0} /\ (s = 1 \/ s <= n - (h - 1)) /\ size[h] = (s + 1) \div 2
      BY <1>2, <3>1
    <3> HIDE DEF s
    <3>3. (s + 1) \div 2 \in Nat \ {0} /\ (s = 1 => (s + 1) \div 2 = 1)
          /\ (s # 1 => (s + 1) \div 2 <= s - 1)
      BY <3>2
    <3>4. Good(h)
      BY <1>3, <3>1, <3>2, <3>3
    <3> QED
      BY <2>2, <3>4
  <2> QED
    BY <2>3, <2>4
<1>6. \A h \in 0 .. n : Good(h)
  BY <1>5
<1> QED
  BY <1>4, <1>6 DEF n

LEMMA HeightIs ==
  ASSUME NEW leaves, Len(leaves) \in Nat \ {0}
  PROVE  Height(leaves) \in 0 .. Len(leaves) /\ Len(Level(leaves)[Height(leaves)]) = 1
<1> DEFINE n == Len(leaves)
           S == {h \in 0 .. n : Len(Level(leaves)[h]) = 1}
<1>1. n - 1 \in 0 .. n
  OBVIOUS
<1>2. Len(Level(leaves)[n - 1]) = 1
  <2>1. /\ Len(Level(leaves)[n - 1]) \in Nat \ {0}
        /\ Len(Level(leaves)[n - 1]) = 1 \/ Len(Level(leaves)[n - 1]) <= n - (n - 1)
    BY <1>1, LevelsShrink
  <2>2. n - (n - 1) = 1
    OBVIOUS
  <2> DEFINE size == Len(Level(leaves)[n - 1])
  <2>3. size \in Nat \ {0} /\ (size = 1 \/ size <= 1)
    BY <2>1, <2>2
  <2> HIDE DEF size
  <2>4. size = 1
    BY <2>3
  <2> QED
    BY <2>4 DEF size
<1>3. S # {} /\ S \in SUBSET Nat
  BY <1>1, <1>2
<1>4. Height(leaves) = Min(S)
  BY DEF Height
<1>5. Min(S) \in S
  <2> HIDE DEF S
  <2> QED
    BY <1>3, MinIn
<1> QED
  BY <1>4, <1>5

\* The places of a leaf's ancestors, up to the m-th.
CursorsTo(f, i, m) == f = [h \in 0 .. m |-> IF h = 0 THEN i - 1 ELSE f[h - 1] \div 2]

LEMMA CursorsExist ==
  ASSUME NEW i, NEW n \in Nat
  PROVE  \E f : CursorsTo(f, i, n)
<1> DEFINE Bad == {m \in 0 .. n : ~ \E f : CursorsTo(f, i, m)}
<1> SUFFICES ASSUME Bad # {} PROVE FALSE
  OBVIOUS
<1>1. Bad \in SUBSET (0 .. n)
  OBVIOUS
<1>2. PICK m \in Bad : m = 0 \/ (m \in 1 .. n /\ m - 1 \in 0 .. n /\ m - 1 \notin Bad)
  BY <1>1, SmallestNumber
<1>3. CASE m = 0
  <2> DEFINE g == [h \in 0 .. 0 |-> i - 1]
  <2>1. g = [h \in 0 .. 0 |-> IF h = 0 THEN i - 1 ELSE g[h - 1] \div 2]
    OBVIOUS
  <2>2. CursorsTo(g, i, 0)
    BY <2>1 DEF CursorsTo
  <2> QED
    BY <1>2, <1>3, <2>2
<1>4. CASE m # 0
  <2>1. m \in 1 .. n /\ m - 1 \in 0 .. n
    BY <1>2, <1>4
  <2>2. PICK f : CursorsTo(f, i, m - 1)
    BY <1>2, <2>1
  <2>3. \A h \in 0 .. (m - 1) : f[h] = IF h = 0 THEN i - 1 ELSE f[h - 1] \div 2
    BY <2>2 DEF CursorsTo
  <2> DEFINE g == [h \in 0 .. m |-> IF h = m THEN f[m - 1] \div 2 ELSE f[h]]
  <2>4. ASSUME NEW h \in 0 .. m
        PROVE  g[h] = IF h = 0 THEN i - 1 ELSE g[h - 1] \div 2
    <3>1. CASE h = m
      <4>1. m - 1 \in 0 .. m /\ m - 1 # m /\ m # 0
        BY <2>1
      <4>2. g[m - 1] = f[m - 1] /\ g[m] = f[m - 1] \div 2
        BY <2>1, <4>1
      <4> QED
        BY <3>1, <4>1, <4>2
    <3>2. CASE h # m
      <4>1. h \in 0 .. (m - 1) /\ (h # 0 => h - 1 \in 0 .. m /\ h - 1 # m)
        BY <2>1, <3>2
      <4>2. g[h] = f[h] /\ (h # 0 => g[h - 1] = f[h - 1])
        BY <3>2, <4>1
      <4> QED
        BY <2>3, <4>1, <4>2
    <3> QED
      BY <3>1, <3>2
  <2>5. g = [h \in 0 .. m |-> g[h]]
    OBVIOUS
  <2> HIDE DEF g
  <2>6. CursorsTo(g, i, m)
    BY <2>4, <2>5 DEF CursorsTo
  <2> QED
    BY <1>2, <2>6
<1> QED
  BY <1>3, <1>4

LEMMA CursorSteps ==
  ASSUME NEW leaves, Len(leaves) \in Nat, NEW i
  PROVE  /\ Cursor(leaves, i)[0] = i - 1
         /\ \A h \in 1 .. Len(leaves) : Cursor(leaves, i)[h] = Cursor(leaves, i)[h - 1] \div 2
<1> DEFINE n == Len(leaves)
           f == CHOOSE g : CursorsTo(g, i, n)
<1>1. Cursor(leaves, i) = f
  BY DEF Cursor, CursorsTo
<1>2. CursorsTo(f, i, n)
  BY CursorsExist
<1> HIDE DEF f
<1>3. \A h \in 0 .. n : f[h] = IF h = 0 THEN i - 1 ELSE f[h - 1] \div 2
  BY <1>2 DEF CursorsTo
<1>4. 0 \in 0 .. n /\ \A h \in 1 .. n : h \in 0 .. n /\ h # 0
  OBVIOUS
<1> QED
  BY <1>1, <1>3, <1>4

\* Every ancestor is in its level.
LEMMA CursorsInLevels ==
  ASSUME NEW leaves, Len(leaves) \in Nat \ {0}, NEW i \in 1 .. Len(leaves)
  PROVE  \A h \in 0 .. Len(leaves) :
             Cursor(leaves, i)[h] \in 0 .. (Len(Level(leaves)[h]) - 1)
<1> DEFINE n == Len(leaves)
           size == [h \in 0 .. n |-> Len(Level(leaves)[h])]
           cursor == Cursor(leaves, i)
           Bad == {h \in 0 .. n : cursor[h] \notin 0 .. (size[h] - 1)}
<1>1. n \in Nat \ {0} /\ i \in 1 .. n
  OBVIOUS
<1>2. \A h \in 0 .. n : size[h] = Len(Level(leaves)[h]) /\ size[h] \in Nat \ {0}
  BY LevelsShrink
<1>3. size[0] = n /\ cursor[0] = i - 1
  BY LevelSteps, CursorSteps
<1>4. ASSUME NEW h \in 1 .. n
      PROVE  /\ h - 1 \in 0 .. n /\ h \in 0 .. n
             /\ size[h] = (size[h - 1] + 1) \div 2
             /\ cursor[h] = cursor[h - 1] \div 2
  <2>1. h - 1 \in 0 .. n /\ h \in 0 .. n
    BY <1>1
  <2>2. Level(leaves)[h] = NextLevel(Level(leaves)[h - 1])
    BY LevelSteps
  <2>3. Len(Level(leaves)[h - 1]) \in Nat
    BY <1>2, <2>1
  <2>4. Len(Level(leaves)[h]) = (Len(Level(leaves)[h - 1]) + 1) \div 2
    BY <2>2, <2>3, NextLevelIs
  <2>5. cursor[h] = cursor[h - 1] \div 2
    BY CursorSteps
  <2> QED
    BY <2>1, <2>4, <2>5
<1> HIDE DEF n, size, cursor
<1>5. Bad = {}
  <2> SUFFICES ASSUME Bad # {} PROVE FALSE
    OBVIOUS
  <2>1. Bad \in SUBSET (0 .. n)
    OBVIOUS
  <2>2. PICK h \in Bad : h = 0 \/ (h \in 1 .. n /\ h - 1 \in 0 .. n /\ h - 1 \notin Bad)
    BY <1>1, <2>1, SmallestNumber
  <2>3. CASE h = 0
    BY <1>1, <1>3, <2>2, <2>3
  <2>4. CASE h # 0
    <3>1. h \in 1 .. n /\ cursor[h - 1] \in 0 .. (size[h - 1] - 1)
      BY <2>2, <2>4
    <3>2. /\ size[h - 1] \in Nat \ {0} /\ size[h] = (size[h - 1] + 1) \div 2
          /\ cursor[h] = cursor[h - 1] \div 2
      BY <1>2, <1>4, <3>1
    <3> DEFINE s == size[h - 1]
               c == cursor[h - 1]
    <3>3. s \in Nat \ {0} /\ c \in 0 .. (s - 1)
      BY <3>1, <3>2
    <3> HIDE DEF s, c
    <3>4. c \div 2 \in 0 .. (((s + 1) \div 2) - 1)
      BY <3>3
    <3>5. cursor[h] \in 0 .. (size[h] - 1)
      BY <3>2, <3>4 DEF s, c
    <3> QED
      BY <2>2, <3>5
  <2> QED
    BY <2>3, <2>4
<1> QED
  BY <1>2, <1>5 DEF n, cursor

-----------------------------------------------------------------------------
(* The proof.                                                              *)

\* What merkle_root_from_proof has computed after m hashes of the proof.
HashesTo(f, leaf, proof, m) ==
    f = [h \in 0 .. m |-> IF h = 0 THEN leaf ELSE HashPair(f[h - 1], proof[h])]

LEMMA HashesExist ==
  ASSUME NEW leaf, NEW proof, NEW n \in Nat
  PROVE  \E f : HashesTo(f, leaf, proof, n)
<1> DEFINE Bad == {m \in 0 .. n : ~ \E f : HashesTo(f, leaf, proof, m)}
<1> SUFFICES ASSUME Bad # {} PROVE FALSE
  OBVIOUS
<1>1. Bad \in SUBSET (0 .. n)
  OBVIOUS
<1>2. PICK m \in Bad : m = 0 \/ (m \in 1 .. n /\ m - 1 \in 0 .. n /\ m - 1 \notin Bad)
  BY <1>1, SmallestNumber
<1>3. CASE m = 0
  <2> DEFINE g == [h \in 0 .. 0 |-> leaf]
  <2>1. g = [h \in 0 .. 0 |-> IF h = 0 THEN leaf ELSE HashPair(g[h - 1], proof[h])]
    OBVIOUS
  <2>2. HashesTo(g, leaf, proof, 0)
    BY <2>1 DEF HashesTo
  <2> QED
    BY <1>2, <1>3, <2>2
<1>4. CASE m # 0
  <2>1. m \in 1 .. n /\ m - 1 \in 0 .. n
    BY <1>2, <1>4
  <2>2. PICK f : HashesTo(f, leaf, proof, m - 1)
    BY <1>2, <2>1
  <2>3. \A h \in 0 .. (m - 1) : f[h] = IF h = 0 THEN leaf ELSE HashPair(f[h - 1], proof[h])
    BY <2>2 DEF HashesTo
  <2> DEFINE g == [h \in 0 .. m |-> IF h = m THEN HashPair(f[m - 1], proof[m]) ELSE f[h]]
  <2>4. ASSUME NEW h \in 0 .. m
        PROVE  g[h] = IF h = 0 THEN leaf ELSE HashPair(g[h - 1], proof[h])
    <3>1. CASE h = m
      <4>1. m - 1 \in 0 .. m /\ m - 1 # m /\ m # 0
        BY <2>1
      <4>2. g[m - 1] = f[m - 1] /\ g[m] = HashPair(f[m - 1], proof[m])
        BY <2>1, <4>1
      <4> QED
        BY <3>1, <4>1, <4>2
    <3>2. CASE h # m
      <4>1. h \in 0 .. (m - 1) /\ (h # 0 => h - 1 \in 0 .. m /\ h - 1 # m)
        BY <2>1, <3>2
      <4>2. g[h] = f[h] /\ (h # 0 => g[h - 1] = f[h - 1])
        BY <3>2, <4>1
      <4> QED
        BY <2>3, <4>1, <4>2
    <3> QED
      BY <3>1, <3>2
  <2>5. g = [h \in 0 .. m |-> g[h]]
    OBVIOUS
  <2> HIDE DEF g
  <2>6. HashesTo(g, leaf, proof, m)
    BY <2>4, <2>5 DEF HashesTo
  <2> QED
    BY <1>2, <2>6
<1> QED
  BY <1>3, <1>4

\* The hashes computed one after the other.
Computed(leaf, proof) == CHOOSE f : HashesTo(f, leaf, proof, Len(proof))

LEMMA RootFromProofSteps ==
  ASSUME NEW leaf, NEW proof, Len(proof) \in Nat
  PROVE  /\ RootFromProof(leaf, proof) = Computed(leaf, proof)[Len(proof)]
         /\ Computed(leaf, proof)[0] = leaf
         /\ \A h \in 1 .. Len(proof) :
                Computed(leaf, proof)[h] = HashPair(Computed(leaf, proof)[h - 1], proof[h])
<1> DEFINE n == Len(proof)
           f == CHOOSE g : HashesTo(g, leaf, proof, n)
<1>1. RootFromProof(leaf, proof) = f[n]
  BY DEF RootFromProof, HashesTo
<1>2. HashesTo(f, leaf, proof, n)
  BY HashesExist
<1>3. Computed(leaf, proof) = f
  BY DEF Computed
<1> HIDE DEF f
<1>4. \A h \in 0 .. n : f[h] = IF h = 0 THEN leaf ELSE HashPair(f[h - 1], proof[h])
  BY <1>2 DEF HashesTo
<1>5. 0 \in 0 .. n /\ \A h \in 1 .. n : h \in 0 .. n /\ h # 0
  OBVIOUS
<1> QED
  BY <1>1, <1>3, <1>4, <1>5

\* Hashing a place of a level with the hash beside it gives its parent.
LEMMA BesideHashesUp ==
  ASSUME NEW level, Len(level) \in Nat \ {0}, NEW c \in 0 .. (Len(level) - 1)
  PROVE  HashPair(level[c + 1], Beside(level, c)) = NextLevel(level)[(c \div 2) + 1]
<1> DEFINE s == Len(level)
           i == (c \div 2) + 1
<1>1. s \in Nat \ {0} /\ c \in Nat /\ c < s
  OBVIOUS
<1>2. c \div 2 \in Nat /\ c % 2 \in {0, 1} /\ c = 2 * (c \div 2) + (c % 2)
  BY <1>1, Halves
<1>3. i \in 1 .. ((s + 1) \div 2)
  <2> HIDE DEF s
  <2> QED
    BY <1>1
<1>4. NextLevel(level)[i] =
          HashPair(level[2 * i - 1], IF 2 * i > s THEN level[2 * i - 1] ELSE level[2 * i])
  BY <1>3, NextLevelIs
<1>5. CASE c % 2 = 0
  <2>1. 2 * i - 1 = c + 1 /\ 2 * i = (c + 1) + 1 /\ (2 * i > s <=> ~(c + 1 < s))
    BY <1>1, <1>2, <1>5
  <2>2. Beside(level, c) = IF c + 1 < s THEN level[(c + 1) + 1] ELSE level[c + 1]
    BY <1>5 DEF Beside
  <2> QED
    BY <1>4, <2>1, <2>2
<1>6. CASE c % 2 = 1
  <2>1. 2 * i - 1 = (c - 1) + 1 /\ 2 * i = c + 1 /\ ~(2 * i > s) /\ c - 1 < s
    BY <1>1, <1>2, <1>6
  <2>2. Beside(level, c) = level[(c - 1) + 1]
    BY <1>6, <2>1 DEF Beside
  <2>3. HashPair(level[c + 1], level[(c - 1) + 1]) = HashPair(level[(c - 1) + 1], level[c + 1])
    BY DEF HashPair
  <2> QED
    BY <1>4, <2>1, <2>2, <2>3
<1> QED
  BY <1>2, <1>5, <1>6

\* The proof that merkle_proof makes for a leaf leads to the root.
LEMMA ProofReachesRoot ==
  ASSUME NEW leaves, Len(leaves) \in Nat \ {0}, NEW i \in 1 .. Len(leaves)
  PROVE  RootFromProof(leaves[i], MerkleProof(leaves, i)) = MerkleRoot(leaves)
<1> DEFINE n == Len(leaves)
           m == Height(leaves)
           proof == MerkleProof(leaves, i)
           level == Level(leaves)
           cursor == Cursor(leaves, i)
           computed == Computed(leaves[i], proof)
           Bad == {h \in 0 .. m : computed[h] # level[h][cursor[h] + 1]}
<1>1. m \in 0 .. n /\ Len(level[m]) = 1 /\ n \in Nat \ {0} /\ m \in Nat
  BY HeightIs
<1>2. /\ level[0] = leaves /\ cursor[0] = i - 1
      /\ \A h \in 1 .. n : level[h] = NextLevel(level[h - 1]) /\ cursor[h] = cursor[h - 1] \div 2
  BY LevelSteps, CursorSteps
<1>3. \A h \in 0 .. n : Len(level[h]) \in Nat \ {0} /\ cursor[h] \in 0 .. (Len(level[h]) - 1)
  BY LevelsShrink, CursorsInLevels
<1>4. proof = [h \in 1 .. m |-> Beside(level[h - 1], cursor[h - 1])]
  BY DEF MerkleProof
<1>5. MerkleRoot(leaves) = level[m][1]
  BY DEF MerkleRoot
<1> HIDE DEF m, proof, level, cursor
<1>6. Len(proof) = m
  BY <1>1, <1>4
<1>7. /\ RootFromProof(leaves[i], proof) = computed[m] /\ computed[0] = leaves[i]
      /\ \A h \in 1 .. m : computed[h] = HashPair(computed[h - 1], proof[h])
  BY <1>1, <1>6, RootFromProofSteps
<1> HIDE DEF computed, n
<1>8. ASSUME NEW h \in 1 .. m, computed[h - 1] = level[h - 1][cursor[h - 1] + 1]
      PROVE  computed[h] = level[h][cursor[h] + 1]
  <2>1. h \in 1 .. n /\ h - 1 \in 0 .. n
    BY <1>1
  <2>2. Len(level[h - 1]) \in Nat \ {0} /\ cursor[h - 1] \in 0 .. (Len(level[h - 1]) - 1)
    BY <1>3, <2>1
  <2>3. HashPair(level[h - 1][cursor[h - 1] + 1], Beside(level[h - 1], cursor[h - 1]))
          = NextLevel(level[h - 1])[(cursor[h - 1] \div 2) + 1]
    BY <2>2, BesideHashesUp
  <2>4. proof[h] = Beside(level[h - 1], cursor[h - 1])
    BY <1>4
  <2> QED
    BY <1>2, <1>7, <1>8, <2>1, <2>3, <2>4
<1>9. Bad = {}
  <2> SUFFICES ASSUME Bad # {} PROVE FALSE
    OBVIOUS
  <2>1. Bad \in SUBSET (0 .. m)
    OBVIOUS
  <2>2. PICK h \in Bad : h = 0 \/ (h \in 1 .. m /\ h - 1 \in 0 .. m /\ h - 1 \notin Bad)
    BY <1>1, <2>1, SmallestNumber
  <2>3. CASE h = 0
    <3>1. (i - 1) + 1 = i
      BY <1>1 DEF n
    <3> QED
      BY <1>2, <1>7, <2>2, <2>3, <3>1
  <2>4. CASE h # 0
    BY <1>8, <2>2, <2>4
  <2> QED
    BY <2>3, <2>4
<1>10. computed[m] = level[m][1]
  <2>1. m \in 0 .. m /\ m \in 0 .. n
    BY <1>1
  <2>2. computed[m] = level[m][cursor[m] + 1]
    BY <1>9, <2>1
  <2>3. cursor[m] \in 0 .. (Len(level[m]) - 1) /\ Len(level[m]) = 1
    BY <1>1, <1>3, <2>1
  <2>4. cursor[m] \in 0 .. (1 - 1)
    BY <2>3
  <2>5. cursor[m] + 1 = 1
    BY <2>4
  <2> QED
    BY <2>2, <2>5
<1> QED
  BY <1>5, <1>7, <1>10 DEF proof

\* Two leaves that lead to one root along one proof are the same.
LEMMA ProofIsOfOneLeaf ==
  ASSUME NEW a, NEW b, NEW proof, Len(proof) \in Nat,
         RootFromProof(a, proof) = RootFromProof(b, proof)
  PROVE  a = b
<1> DEFINE n == Len(proof)
           f == Computed(a, proof)
           g == Computed(b, proof)
           Bad == {k \in 0 .. n : f[n - k] # g[n - k]}
<1>1. /\ f[n] = g[n] /\ f[0] = a /\ g[0] = b
      /\ \A h \in 1 .. n : f[h] = HashPair(f[h - 1], proof[h]) /\ g[h] = HashPair(g[h - 1], proof[h])
  BY RootFromProofSteps
<1>2. n \in Nat
  OBVIOUS
<1> HIDE DEF n, f, g
<1>3. ASSUME NEW x, NEW y, NEW z, HashPair(x, z) = HashPair(y, z) PROVE x = y
  <2>1. {x, z} = {y, z}
    BY <1>3 DEF HashPair
  <2> QED
    BY <2>1
<1>4. Bad = {}
  <2> SUFFICES ASSUME Bad # {} PROVE FALSE
    OBVIOUS
  <2>1. Bad \in SUBSET (0 .. n)
    OBVIOUS
  <2>2. PICK k \in Bad : k = 0 \/ (k \in 1 .. n /\ k - 1 \in 0 .. n /\ k - 1 \notin Bad)
    BY <1>2, <2>1, SmallestNumber
  <2>3. CASE k = 0
    <3>1. n - 0 = n
      BY <1>2
    <3> QED
      BY <1>1, <2>2, <2>3, <3>1
  <2>4. CASE k # 0
    <3> DEFINE h == n - (k - 1)
    <3>1. h \in 1 .. n /\ h - 1 = n - k /\ f[h] = g[h]
      BY <1>2, <2>2, <2>4
    <3> HIDE DEF h
    <3>2. HashPair(f[h - 1], proof[h]) = HashPair(g[h - 1], proof[h])
      BY <1>1, <3>1
    <3>3. f[h - 1] = g[h - 1]
      BY <1>3, <3>2
    <3> QED
      BY <2>2, <3>1, <3>3
  <2> QED
    BY <2>3, <2>4
<1>5. n \in 0 .. n /\ n - n = 0
  BY <1>2
<1> QED
  BY <1>1, <1>4, <1>5

-----------------------------------------------------------------------------
(* The prizes of a batch.                                                  *)

LEMMA WalletsCounted == Cardinality(Wallets) \in Nat
  BY WalletsAssumption, FS_CardinalityType

\* At most n prizes, each of the wallet that has the stated rank.
PrizesOf(prizes, ranking, n) ==
    /\ prizes \in Seq(Prizes)
    /\ Len(prizes) <= n
    /\ \A i \in DOMAIN prizes : ranking[prizes[i].rank] = prizes[i].wallet

LEMMA WithRowIsPrizes ==
  ASSUME NEW ranking \in Rankings, NEW n \in Nat, NEW rank \in Ranks,
         NEW prizes, PrizesOf(prizes, ranking, n)
  PROVE  PrizesOf(WithRow(prizes, ranking, rank, n), ranking, n)
<1>1. CASE WithRow(prizes, ranking, rank, n) = prizes
  BY <1>1
<1>2. CASE WithRow(prizes, ranking, rank, n) # prizes
  <2> DEFINE prize == Prize(ranking[rank], rank)
             more == Append(prizes, prize)
  <2>1. WithRow(prizes, ranking, rank, n) = more /\ ~(Len(prizes) >= n)
    BY <1>2 DEF WithRow, Enough, StatedRank
  <2>2. ranking[rank] \in Wallets
    BY DEF Rankings
  <2>3. prize \in Prizes /\ prize.rank = rank /\ prize.wallet = ranking[rank]
    BY <2>2 DEF Prizes, Prize
  <2>4. prizes \in Seq(Prizes) /\ Len(prizes) \in Nat /\ Len(prizes) <= n
        /\ \A i \in 1 .. Len(prizes) : ranking[prizes[i].rank] = prizes[i].wallet
    BY DEF PrizesOf
  <2> HIDE DEF prize
  <2>5. /\ more \in Seq(Prizes) /\ Len(more) = Len(prizes) + 1
        /\ DOMAIN more = 1 .. (Len(prizes) + 1)
        /\ \A i \in 1 .. Len(prizes) : more[i] = prizes[i]
        /\ more[Len(prizes) + 1] = prize
    BY <2>3, <2>4
  <2> HIDE DEF more
  <2>6. Len(more) <= n
    BY <2>1, <2>4, <2>5
  <2>7. ASSUME NEW i \in DOMAIN more PROVE ranking[more[i].rank] = more[i].wallet
    <3>1. i \in 1 .. Len(prizes) \/ i = Len(prizes) + 1
      BY <2>4, <2>5
    <3> QED
      BY <2>3, <2>4, <2>5, <3>1
  <2> QED
    BY <2>1, <2>5, <2>6, <2>7 DEF PrizesOf
<1> QED
  BY <1>1, <1>2

\* The prizes prepared of the first m rows.
RowsTo(f, ranking, n, m) ==
    f = [k \in 0 .. m |-> IF k = 0 THEN << >> ELSE WithRow(f[k - 1], ranking, k, n)]

LEMMA RowsExist ==
  ASSUME NEW ranking, NEW n, NEW c \in Nat
  PROVE  \E f : RowsTo(f, ranking, n, c)
<1> DEFINE Bad == {m \in 0 .. c : ~ \E f : RowsTo(f, ranking, n, m)}
<1> SUFFICES ASSUME Bad # {} PROVE FALSE
  OBVIOUS
<1>1. Bad \in SUBSET (0 .. c)
  OBVIOUS
<1>2. PICK m \in Bad : m = 0 \/ (m \in 1 .. c /\ m - 1 \in 0 .. c /\ m - 1 \notin Bad)
  BY <1>1, SmallestNumber
<1>3. CASE m = 0
  <2> DEFINE g == [k \in 0 .. 0 |-> << >>]
  <2>1. g = [k \in 0 .. 0 |-> IF k = 0 THEN << >> ELSE WithRow(g[k - 1], ranking, k, n)]
    OBVIOUS
  <2>2. RowsTo(g, ranking, n, 0)
    BY <2>1 DEF RowsTo
  <2> QED
    BY <1>2, <1>3, <2>2
<1>4. CASE m # 0
  <2>1. m \in 1 .. c /\ m - 1 \in 0 .. c
    BY <1>2, <1>4
  <2>2. PICK f : RowsTo(f, ranking, n, m - 1)
    BY <1>2, <2>1
  <2>3. \A k \in 0 .. (m - 1) : f[k] = IF k = 0 THEN << >> ELSE WithRow(f[k - 1], ranking, k, n)
    BY <2>2 DEF RowsTo
  <2> DEFINE g == [k \in 0 .. m |-> IF k = m THEN WithRow(f[m - 1], ranking, m, n) ELSE f[k]]
  <2>4. ASSUME NEW k \in 0 .. m
        PROVE  g[k] = IF k = 0 THEN << >> ELSE WithRow(g[k - 1], ranking, k, n)
    <3>1. CASE k = m
      <4>1. m - 1 \in 0 .. m /\ m - 1 # m /\ m # 0
        BY <2>1
      <4>2. g[m - 1] = f[m - 1] /\ g[m] = WithRow(f[m - 1], ranking, m, n)
        BY <2>1, <4>1
      <4> QED
        BY <3>1, <4>1, <4>2
    <3>2. CASE k # m
      <4>1. k \in 0 .. (m - 1) /\ (k # 0 => k - 1 \in 0 .. m /\ k - 1 # m)
        BY <2>1, <3>2
      <4>2. g[k] = f[k] /\ (k # 0 => g[k - 1] = f[k - 1])
        BY <3>2, <4>1
      <4> QED
        BY <2>3, <4>1, <4>2
    <3> QED
      BY <3>1, <3>2
  <2>5. g = [k \in 0 .. m |-> g[k]]
    OBVIOUS
  <2> HIDE DEF g
  <2>6. RowsTo(g, ranking, n, m)
    BY <2>4, <2>5 DEF RowsTo
  <2> QED
    BY <1>2, <2>6
<1> QED
  BY <1>3, <1>4

\* Wherever participants without a wallet are ranked, export_batch prepares at
\* most top_n prizes, and each states its wallet's own rank.
LEMMA PreparedArePrizes ==
  ASSUME NEW ranking \in Rankings, NEW n \in Nat
  PROVE  PrizesOf(Prepared(ranking, n), ranking, n)
<1> DEFINE c == Cardinality(Wallets)
           f == CHOOSE g : RowsTo(g, ranking, n, c)
<1>1. c \in Nat
  BY WalletsCounted
<1>2. Prepared(ranking, n) = f[c]
  BY DEF Prepared, RowsTo
<1>3. RowsTo(f, ranking, n, c)
  BY <1>1, RowsExist
<1> HIDE DEF f
<1>4. \A k \in 0 .. c : f[k] = IF k = 0 THEN << >> ELSE WithRow(f[k - 1], ranking, k, n)
  BY <1>3 DEF RowsTo
<1>5. Ranks = 1 .. c
  BY DEF Ranks
<1> HIDE DEF c
<1> DEFINE Bad == {k \in 0 .. c : ~PrizesOf(f[k], ranking, n)}
<1>6. Bad = {}
  <2> SUFFICES ASSUME Bad # {} PROVE FALSE
    OBVIOUS
  <2>1. Bad \in SUBSET (0 .. c)
    OBVIOUS
  <2>2. PICK k \in Bad : k = 0 \/ (k \in 1 .. c /\ k - 1 \in 0 .. c /\ k - 1 \notin Bad)
    BY <1>1, <2>1, SmallestNumber
  <2>3. CASE k = 0
    <3>1. f[0] = << >>
      BY <1>1, <1>4
    <3>2. PrizesOf(<< >>, ranking, n)
      BY DEF PrizesOf
    <3> QED
      BY <2>2, <2>3, <3>1, <3>2
  <2>4. CASE k # 0
    <3>1. k \in 1 .. c /\ k \in 0 .. c /\ PrizesOf(f[k - 1], ranking, n)
      BY <2>2, <2>4
    <3>2. f[k] = WithRow(f[k - 1], ranking, k, n)
      BY <1>4, <2>4, <3>1
    <3>3. PrizesOf(f[k], ranking, n)
      BY <1>5, <3>1, <3>2, WithRowIsPrizes
    <3> QED
      BY <2>2, <3>3
  <2> QED
    BY <2>3, <2>4
<1>7. c \in 0 .. c
  BY <1>1
<1> QED
  BY <1>2, <1>6, <1>7

-----------------------------------------------------------------------------
(* The sequences the state keeps.                                          *)

LEMMA AppendedTo ==
  ASSUME NEW S, NEW s \in Seq(S), NEW x
  PROVE  /\ Append(s, x) \in Seq(S \cup {x})
         /\ x \in S => Append(s, x) \in Seq(S)
         /\ Len(s) \in Nat /\ DOMAIN s = 1 .. Len(s)
         /\ Len(Append(s, x)) = Len(s) + 1
         /\ DOMAIN Append(s, x) = 1 .. (Len(s) + 1)
         /\ \A i \in 1 .. Len(s) : Append(s, x)[i] = s[i]
         /\ Append(s, x)[Len(s) + 1] = x
<1>1. s \in Seq(S \cup {x}) /\ x \in S \cup {x}
  OBVIOUS
<1> QED
  BY <1>1

LEMMA RemovedFrom ==
  ASSUME NEW S, NEW s \in Seq(S), NEW e
  PROVE  RemoveFirst(s, e) \in Seq(S)
<1>1. CASE \E i \in 1 .. Len(s) : s[i] = e
  <2> DEFINE I == {i \in 1 .. Len(s) : s[i] = e}
             k == Min(I)
  <2>1. I # {} /\ I \in SUBSET Nat
    BY <1>1
  <2>2. k \in I
    <3> HIDE DEF I
    <3> QED
      BY <2>1, MinIn
  <2>3. RemoveFirst(s, e) = RemoveAt(s, k)
    BY <1>1, <2>1 DEF RemoveFirst, SelectInSeq
  <2>4. k \in 1 .. Len(s) /\ Len(s) \in Nat
    BY <2>2
  <2> HIDE DEF k
  <2>5. SubSeq(s, 1, k - 1) \in Seq(S)
    BY <2>4
  <2>6. SubSeq(s, k + 1, Len(s)) \in Seq(S)
    BY <2>4
  <2> QED
    BY <2>3, <2>5, <2>6 DEF RemoveAt
<1>2. CASE ~ \E i \in 1 .. Len(s) : s[i] = e
  BY <1>2 DEF RemoveFirst
<1> QED
  BY <1>1, <1>2

-----------------------------------------------------------------------------
(* The inductive invariant: what is stored of a batch and what was         *)
(* published of it stay what export_batch computed from its snapshot.      *)

SettlementsOK == settlements \in Seq(Rankings) /\ Len(settlements) <= MaxSettlements

\* The leaves of a batch's tree.
LeavesOf(b, row) ==
    [i \in DOMAIN row.prizes |-> Leaf(b, row.topN, row.version, row.prizes[i])]

BatchOK(b, row, ranked) ==
    /\ row.version \in 1 .. Len(ranked)
    /\ row.topN \in TopNs
    /\ row.prizes # << >>
    /\ PrizesOf(row.prizes, ranked[row.version], row.topN)
    /\ row.root = MerkleRoot(LeavesOf(b, row))
    /\ row.proofs = [i \in DOMAIN row.prizes |-> MerkleProof(LeavesOf(b, row), i)]

BatchesOK ==
    /\ batches \in Seq(Range(batches))
    /\ Len(batches) <= MaxBatches
    /\ \A b \in DOMAIN batches : BatchOK(b, batches[b], settlements)

\* The contest's account is empty or as of a batch.
ChainOK ==
    \/ chain = [batch |-> NoBatch, topN |-> 0, snapshot |-> 0, root |-> NoRoot]
    \/ \E b \in DOMAIN batches :
           chain = [batch |-> b, topN |-> batches[b].topN, snapshot |-> batches[b].version,
                    root |-> batches[b].root]

PublishedOK == published \subseteq DOMAIN batches /\ authorized \in Seq(BatchIds)

\* A certificate is of a snapshot that exists, and of the wallet's rank in it.
RankedIn(w, certificate) ==
    /\ certificate.snapshot \in 1 .. Len(settlements)
    /\ settlements[certificate.snapshot][certificate.rank] = w

CertificatesOK ==
    /\ certificates \in [Wallets -> CertificateClaims]
    /\ \A w \in Wallets : certificates[w] # NoCertificate => RankedIn(w, certificates[w])

Exported ==
    /\ SettlementsOK /\ BatchesOK /\ ChainOK /\ PublishedOK /\ CertificatesOK
    /\ PagesOK /\ RecordsOK
    /\ bound \subseteq Wallets

LEMMA BatchIdsKnown ==
  ASSUME BatchesOK
  PROVE  /\ Len(batches) \in Nat
         /\ DOMAIN batches = 1 .. Len(batches)
         /\ DOMAIN batches \subseteq BatchIds
         /\ NoBatch \notin DOMAIN batches
<1>1. Len(batches) \in Nat /\ DOMAIN batches = 1 .. Len(batches)
  BY DEF BatchesOK
<1>2. Len(batches) <= MaxBatches /\ MaxBatches \in Nat
  BY BoundsAssumption DEF BatchesOK
<1> QED
  BY <1>1, <1>2 DEF BatchIds, NoBatch

LEMMA ExportedInit == Init => Exported
<1> SUFFICES ASSUME Init PROVE Exported
  OBVIOUS
<1>1. SettlementsOK
  BY BoundsAssumption DEF Init, SettlementsOK
<1>2. BatchesOK
  BY BoundsAssumption DEF Init, BatchesOK
<1>3. ChainOK /\ PublishedOK /\ RecordsOK /\ bound \subseteq Wallets
  BY DEF Init, ChainOK, PublishedOK, RecordsOK
<1>4. CertificatesOK
  BY DEF Init, CertificatesOK, CertificateClaims, NoCertificate, Certificate
<1>5. PagesOK
  BY DEF Init, PagesOK, NoPage
<1> QED
  BY <1>1, <1>2, <1>3, <1>4, <1>5 DEF Exported

\* Earlier settlements stay: what refers to them is still true of them.
LEMMA SettleKeeps ==
  ASSUME Exported, NEW r \in Rankings, Settle(r)
  PROVE  Exported'
<1>1. /\ settlements' = Append(settlements, r) /\ Len(settlements) < MaxSettlements
      /\ UNCHANGED <<bound, batches, authorized, recorded, chain, certificates, sent, published, page>>
  BY DEF Settle
<1>2. /\ settlements \in Seq(Rankings)
      /\ settlements' \in Seq(Rankings) /\ Len(settlements) \in Nat
      /\ Len(settlements') = Len(settlements) + 1
      /\ \A v \in 1 .. Len(settlements) : settlements'[v] = settlements[v]
  BY <1>1, AppendedTo DEF Exported, SettlementsOK
<1>3. 1 .. Len(settlements) \subseteq 1 .. Len(settlements')
  BY <1>2
<1>4. SettlementsOK'
  BY <1>1, <1>2, BoundsAssumption DEF SettlementsOK
<1>5. ASSUME NEW b, NEW row, BatchOK(b, row, settlements) PROVE BatchOK(b, row, settlements')
  <2>1. row.version \in 1 .. Len(settlements)
    BY <1>5 DEF BatchOK
  <2>2. row.version \in 1 .. Len(settlements') /\ settlements'[row.version] = settlements[row.version]
    BY <1>2, <1>3, <2>1
  <2> QED
    BY <1>5, <2>2 DEF BatchOK
<1>6. BatchesOK'
  BY <1>1, <1>5 DEF Exported, BatchesOK
<1>7. ASSUME NEW w, NEW c, RankedIn(w, c)
      PROVE  c.snapshot \in 1 .. Len(settlements') /\ settlements'[c.snapshot][c.rank] = w
  BY <1>2, <1>3, <1>7 DEF RankedIn
<1>8. CertificatesOK'
  BY <1>1, <1>7 DEF Exported, CertificatesOK, RankedIn
<1>9. (ChainOK /\ PublishedOK /\ PagesOK /\ RecordsOK /\ bound \subseteq Wallets)'
  BY <1>1 DEF Exported, ChainOK, PublishedOK, PagesOK, RecordsOK
<1> QED
  BY <1>4, <1>6, <1>8, <1>9 DEF Exported

\* The row of a batch is as export_batch computes it, for the id it gets.
LEMMA ExportKeeps ==
  ASSUME Exported, NEW n \in TopNs, Export(n)
  PROVE  Exported'
<1> DEFINE version == Len(settlements)
           id == Len(batches) + 1
           prizes == Prepared(settlements[version], n)
           leaves == [i \in DOMAIN prizes |-> Leaf(id, n, version, prizes[i])]
           row == [version |-> version, topN |-> n, prizes |-> prizes,
                   root |-> MerkleRoot(leaves),
                   proofs |-> [i \in DOMAIN prizes |-> MerkleProof(leaves, i)]]
<1>1. /\ version > 0 /\ Len(batches) < MaxBatches /\ prizes # << >>
      /\ batches' = Append(batches, row)
      /\ UNCHANGED <<bound, settlements, authorized, recorded, chain, certificates,
                     sent, published, page>>
  BY DEF Export
<1>2. version \in 1 .. Len(settlements) /\ settlements[version] \in Rankings
  BY <1>1 DEF Exported, SettlementsOK
<1>3. PrizesOf(prizes, settlements[version], n)
  BY <1>2, TopNsAssumption, PreparedArePrizes
<1>4. /\ row.version = version /\ row.topN = n /\ row.prizes = prizes
      /\ row.root = MerkleRoot(leaves)
      /\ row.proofs = [i \in DOMAIN prizes |-> MerkleProof(leaves, i)]
  OBVIOUS
<1>5. LeavesOf(id, row) = leaves
  BY <1>4 DEF LeavesOf
<1> HIDE DEF row, leaves, prizes
<1>6. BatchOK(id, row, settlements)
  BY <1>1, <1>2, <1>3, <1>4, <1>5 DEF BatchOK
<1>7. /\ batches' \in Seq(Range(batches) \cup {row})
      /\ Len(batches) \in Nat /\ DOMAIN batches = 1 .. Len(batches)
      /\ Len(batches') = id /\ DOMAIN batches' = 1 .. id
      /\ \A b \in 1 .. Len(batches) : batches'[b] = batches[b]
      /\ batches'[id] = row
  <2>1. batches \in Seq(Range(batches))
    BY DEF Exported, BatchesOK
  <2> QED
    BY <1>1, <2>1, AppendedTo
<1>8. id \in Nat /\ \A b : b \in 1 .. id <=> (b \in 1 .. Len(batches) \/ b = id)
  BY <1>7
<1>9. BatchesOK'
  <2>1. Range(batches') = Range(batches) \cup {row}
    BY <1>7, <1>8 DEF Range
  <2>2. ASSUME NEW b \in DOMAIN batches' PROVE BatchOK(b, batches'[b], settlements)
    BY <1>6, <1>7, <1>8 DEF Exported, BatchesOK
  <2>3. Len(batches') <= MaxBatches
    BY <1>1, <1>7, BoundsAssumption
  <2> QED
    BY <1>1, <1>7, <2>1, <2>2, <2>3 DEF BatchesOK
<1>10. ChainOK'
  <2>1. \A b \in DOMAIN batches : b \in DOMAIN batches' /\ batches'[b] = batches[b]
    BY <1>7, <1>8
  <2> QED
    BY <1>1, <2>1 DEF Exported, ChainOK
<1>11. PublishedOK'
  BY <1>1, <1>7, <1>8 DEF Exported, PublishedOK
<1>12. (SettlementsOK /\ CertificatesOK /\ PagesOK /\ RecordsOK /\ bound \subseteq Wallets)'
  BY <1>1 DEF Exported, SettlementsOK, CertificatesOK, RankedIn, PagesOK, RecordsOK
<1> QED
  BY <1>9, <1>10, <1>11, <1>12 DEF Exported

LEMMA PublishKeeps ==
  ASSUME Exported, NEW b \in BatchIds, Publish(b)
  PROVE  Exported'
<1>1. /\ b \in DOMAIN batches /\ published' = published \cup {b}
      /\ chain' = [batch |-> b, topN |-> batches[b].topN, snapshot |-> batches[b].version,
                   root |-> batches[b].root]
      /\ UNCHANGED <<bound, settlements, batches, authorized, recorded, certificates, sent, page>>
  BY DEF Publish
<1>2. ChainOK' /\ PublishedOK'
  BY <1>1 DEF Exported, ChainOK, PublishedOK
<1>3. (SettlementsOK /\ BatchesOK /\ CertificatesOK /\ PagesOK /\ RecordsOK
       /\ bound \subseteq Wallets)'
  BY <1>1 DEF Exported, SettlementsOK, BatchesOK, CertificatesOK, RankedIn, PagesOK, RecordsOK
<1> QED
  BY <1>2, <1>3 DEF Exported

LEMMA AuthorizeKeeps ==
  ASSUME Exported, NEW b \in BatchIds, Authorize(b)
  PROVE  Exported'
<1>1. /\ authorized' = Reauthorized(b)
      /\ UNCHANGED <<bound, settlements, batches, recorded, chain, certificates, sent, published, page>>
  BY DEF Authorize
<1>2. RemoveFirst(authorized, b) \in Seq(BatchIds)
  BY RemovedFrom DEF Exported, PublishedOK
<1>3. authorized' \in Seq(BatchIds)
  BY <1>1, <1>2, AppendedTo DEF Reauthorized
<1>4. PublishedOK'
  BY <1>1, <1>3 DEF Exported, PublishedOK
<1>5. (SettlementsOK /\ BatchesOK /\ ChainOK /\ CertificatesOK /\ PagesOK /\ RecordsOK
       /\ bound \subseteq Wallets)'
  BY <1>1 DEF Exported, SettlementsOK, BatchesOK, ChainOK, CertificatesOK, RankedIn, PagesOK,
              RecordsOK
<1> QED
  BY <1>4, <1>5 DEF Exported

\* What a step that leaves batches, settlements and the contest's account alone
\* may change: the page, the records and the certificates.
LEMMA StoredKeeps ==
  ASSUME Exported,
         UNCHANGED <<bound, settlements, batches, authorized, chain, published>>
  PROVE  (SettlementsOK /\ BatchesOK /\ ChainOK /\ PublishedOK /\ bound \subseteq Wallets)'
  BY DEF Exported, SettlementsOK, BatchesOK, ChainOK, PublishedOK

\* The program creates a certificate of the rank that the batch's snapshot has
\* for the wallet: its checks tie the claim to the published batch.
LEMMA LandKeeps ==
  ASSUME Exported, NEW b \in BatchIds, NEW w \in Wallets, Land(b, w)
  PROVE  Exported'
<1>1. PICK i \in Places(b, w) :
        /\ Accepted(b, i)
        /\ certificates' = [certificates EXCEPT ![w] =
               Certificate(b, batches[b].prizes[i].rank, chain.snapshot)]
  BY DEF Land
<1>2. /\ b # NoBatch /\ sent' = sent \ {<<b, w>>}
      /\ UNCHANGED <<bound, settlements, batches, authorized, recorded, chain, published, page>>
  BY BoundsAssumption DEF Land, BatchIds, NoBatch
<1>3. b = chain.batch /\ i \in DOMAIN batches[b].prizes /\ batches[b].prizes[i].wallet = w
  BY <1>1 DEF Accepted, Places
<1>4. b \in DOMAIN batches /\ chain.snapshot = batches[b].version
  BY <1>2, <1>3 DEF Exported, ChainOK
<1> DEFINE row == batches[b]
           rank == row.prizes[i].rank
<1>5. /\ row.version \in 1 .. Len(settlements)
      /\ PrizesOf(row.prizes, settlements[row.version], row.topN)
  BY <1>4 DEF Exported, BatchesOK, BatchOK
<1>6. /\ row.prizes \in Seq(Prizes)
      /\ settlements[row.version][rank] = w
  BY <1>3, <1>5 DEF PrizesOf
<1>7. rank \in Ranks
  BY <1>3, <1>6 DEF Prizes, Prize
<1>8. b \in BatchIds /\ row.version \in Versions
  BY <1>4, <1>5, BatchIdsKnown, BoundsAssumption DEF Exported, SettlementsOK, Versions
<1> HIDE DEF row, rank
<1>9. certificates' = [certificates EXCEPT ![w] = Certificate(b, rank, row.version)]
  BY <1>1, <1>4 DEF row, rank
<1> DEFINE c == Certificate(b, rank, row.version)
<1>10. c \in CertificateClaims /\ c.snapshot = row.version /\ c.rank = rank
  BY <1>7, <1>8 DEF CertificateClaims, Certificate
<1> HIDE DEF c
<1>11. certificates' \in [Wallets -> CertificateClaims]
       /\ \A v \in Wallets : certificates'[v] = IF v = w THEN c ELSE certificates[v]
  BY <1>9, <1>10 DEF Exported, CertificatesOK, c
<1>12. RankedIn(w, c)
  BY <1>5, <1>6, <1>10 DEF RankedIn
<1>13. CertificatesOK'
  BY <1>2, <1>11, <1>12 DEF Exported, CertificatesOK, RankedIn
<1>14. PagesOK' /\ RecordsOK'
  BY <1>2 DEF Exported, PagesOK, RecordsOK
<1> QED
  BY <1>2, <1>13, <1>14, StoredKeeps DEF Exported

\* The page's own steps: what waits for its confirmation is of a batch.
LEMMA PageKeeps ==
  ASSUME Exported, Sent, NEW w \in Wallets,
         Open(w) \/ Send(w) \/ Confirm(w) \/ ConfirmFails(w)
  PROVE  Exported'
<1>1. UNCHANGED <<bound, settlements, batches, authorized, chain, certificates, published>>
  BY DEF Open, Send, Confirm, ConfirmFails
<1>2. PagesOK' /\ RecordsOK'
  <2>1. CASE Open(w)
    <3>1. PICK b \in BatchIds :
            page' = [page EXCEPT ![w] = [batch |-> b, claimed |-> <<b, w>> \in recorded,
                                         sent |-> FALSE]]
      BY <2>1 DEF Open
    <3>2. (<<b, w>> \in recorded) \in BOOLEAN /\ UNCHANGED <<recorded, sent>>
      BY <2>1 DEF Open
    <3> QED
      BY <3>1, <3>2 DEF Exported, PagesOK, RecordsOK
  <2>2. CASE Confirm(w)
    BY <2>2, ConfirmStep DEF Sent
  <2>3. CASE Send(w)
    BY <2>3, SendStep DEF Sent
  <2>4. CASE ConfirmFails(w)
    BY <2>4 DEF Exported, PagesOK, RecordsOK, ConfirmFails
  <2> QED
    BY <2>1, <2>2, <2>3, <2>4
<1>3. CertificatesOK'
  BY <1>1 DEF Exported, CertificatesOK, RankedIn
<1> QED
  BY <1>1, <1>2, <1>3, StoredKeeps DEF Exported

LEMMA ExportedStep == Exported /\ Sent /\ [Next]_vars => Exported'
<1> SUFFICES ASSUME Exported, Sent, [Next]_vars PROVE Exported'
  OBVIOUS
<1>1. ASSUME NEW r \in Rankings, Settle(r) PROVE Exported'
  BY <1>1, SettleKeeps
<1>2. ASSUME NEW n \in TopNs, Export(n) PROVE Exported'
  BY <1>2, ExportKeeps
<1>3. ASSUME NEW b \in BatchIds, Publish(b) PROVE Exported'
  BY <1>3, PublishKeeps
<1>4. ASSUME NEW b \in BatchIds, Authorize(b) PROVE Exported'
  BY <1>4, AuthorizeKeeps
<1>5. ASSUME NEW b \in BatchIds, NEW w \in Wallets, Land(b, w) PROVE Exported'
  BY <1>5, LandKeeps
<1>6. ASSUME NEW w \in Wallets, Open(w) \/ Send(w) \/ Confirm(w) \/ ConfirmFails(w) PROVE Exported'
  BY <1>6, PageKeeps
<1>7. CASE UNCHANGED vars
  <2>1. (CertificatesOK /\ PagesOK /\ RecordsOK)'
    BY <1>7 DEF vars, Exported, CertificatesOK, RankedIn, PagesOK, RecordsOK
  <2> QED
    BY <1>7, <2>1, StoredKeeps DEF vars, Exported
<1> QED
  BY <1>1, <1>2, <1>3, <1>4, <1>5, <1>6, <1>7 DEF Next

LEMMA AlwaysExported == Spec => []Exported
  BY SentInit, SentStep, ExportedInit, ExportedStep, PTL DEF Spec

-----------------------------------------------------------------------------
(* What the invariant says.                                                *)

LEMMA ExportedTypes == Exported => TypeOK
<1> SUFFICES ASSUME Exported PROVE TypeOK
  OBVIOUS
<1>1. ASSUME NEW b \in DOMAIN batches
      PROVE  /\ [version |-> batches[b].version, topN |-> batches[b].topN] \in BatchRows
             /\ ClaimRows(b)
  <2> DEFINE row == batches[b]
  <2>1. BatchOK(b, row, settlements)
    BY DEF Exported, BatchesOK
  <2>2. row.version \in Versions
    BY <2>1, BoundsAssumption DEF Exported, SettlementsOK, BatchOK, Versions
  <2>3. row.topN \in TopNs
    BY <2>1 DEF BatchOK
  <2>4. /\ row.prizes \in Seq(Prizes) /\ row.prizes # << >> /\ Len(row.prizes) <= row.topN
        /\ DOMAIN row.proofs = DOMAIN row.prizes
    BY <2>1 DEF BatchOK, PrizesOf
  <2>5. Len(row.prizes) \in 1 .. row.topN
    BY <2>3, <2>4, TopNsAssumption
  <2> QED
    BY <2>2, <2>3, <2>4, <2>5 DEF BatchRows, ClaimRows
<1>2. /\ DOMAIN chain = {"batch", "topN", "snapshot", "root"}
      /\ [k \in {"batch", "topN", "snapshot"} |-> chain[k]] \in ContestStates
  <2>1. CASE chain = [batch |-> NoBatch, topN |-> 0, snapshot |-> 0, root |-> NoRoot]
    BY <2>1 DEF ContestStates
  <2>2. ASSUME NEW b \in DOMAIN batches,
               chain = [batch |-> b, topN |-> batches[b].topN, snapshot |-> batches[b].version,
                        root |-> batches[b].root]
        PROVE  /\ DOMAIN chain = {"batch", "topN", "snapshot", "root"}
               /\ [k \in {"batch", "topN", "snapshot"} |-> chain[k]] \in ContestStates
    <3>1. b \in BatchIds
      BY BatchIdsKnown DEF Exported
    <3>2. batches[b].topN \in TopNs /\ batches[b].version \in Versions
      BY <1>1 DEF BatchRows
    <3> QED
      BY <2>2, <3>1, <3>2 DEF ContestStates
  <2> QED
    BY <2>1, <2>2 DEF Exported, ChainOK
<1>3. published \subseteq BatchIds
  BY BatchIdsKnown DEF Exported, PublishedOK
<1> QED
  BY <1>1, <1>2, <1>3
     DEF Exported, SettlementsOK, PublishedOK, CertificatesOK, PagesOK, RecordsOK, TypeOK

LEMMA ExportedRanks == Exported => CertificatesStateRanks
  BY DEF Exported, CertificatesOK, RankedIn, CertificatesStateRanks

\* The leaves of different prizes differ.
LEMMA LeavesDiffer ==
  ASSUME NEW b, NEW n, NEW version, NEW p \in Prizes, NEW q \in Prizes,
         Leaf(b, n, version, p) = Leaf(b, n, version, q)
  PROVE  p = q
<1>1. [batch |-> b, topN |-> n, snapshot |-> version, wallet |-> p.wallet, rank |-> p.rank]
        = [batch |-> b, topN |-> n, snapshot |-> version, wallet |-> q.wallet, rank |-> q.rank]
  BY DEF Leaf, LeafHash
<1>2. p.wallet = q.wallet /\ p.rank = q.rank
  BY <1>1
<1> QED
  BY <1>2 DEF Prizes, Prize

LEMMA ExportedAccepts == Exported => AcceptsExactlyPrizes
<1> SUFFICES ASSUME Exported, chain.batch # NoBatch, NEW i \in DOMAIN batches[chain.batch].prizes
             PROVE  /\ batches[chain.batch].prizes[i].rank <= RankLimit => Accepted(chain.batch, i)
                    /\ \A w \in Wallets, r \in Ranks :
                           Verifies(chain.batch, Prize(w, r), batches[chain.batch].proofs[i]) =>
                               batches[chain.batch].prizes[i] = Prize(w, r)
  BY DEF AcceptsExactlyPrizes
<1> DEFINE b == chain.batch
           row == batches[b]
           leaves == LeavesOf(b, row)
           proof == row.proofs[i]
<1>1. /\ b \in DOMAIN batches /\ chain.topN = row.topN /\ chain.snapshot = row.version
      /\ chain.root = row.root
  BY DEF Exported, ChainOK
<1>2. BatchOK(b, row, settlements)
  BY <1>1 DEF Exported, BatchesOK
<1>3. row.prizes \in Seq(Prizes) /\ row.prizes # << >>
  BY <1>2 DEF BatchOK, PrizesOf
<1>4. /\ Len(row.prizes) \in Nat \ {0} /\ i \in 1 .. Len(row.prizes)
      /\ DOMAIN row.prizes = 1 .. Len(row.prizes) /\ row.prizes[i] \in Prizes
  BY <1>3
<1>5. /\ Len(leaves) \in Nat \ {0} /\ i \in 1 .. Len(leaves)
      /\ leaves[i] = Leaf(b, row.topN, row.version, row.prizes[i])
  BY <1>4 DEF LeavesOf
<1>6. chain.root = MerkleRoot(leaves) /\ proof = MerkleProof(leaves, i)
  BY <1>1, <1>2, <1>4 DEF BatchOK
<1>7. RootFromProof(leaves[i], proof) = chain.root
  BY <1>5, <1>6, ProofReachesRoot
<1>8. Len(proof) \in Nat
  <2>1. proof = [h \in 1 .. Height(leaves) |->
                    Beside(Level(leaves)[h - 1], Cursor(leaves, i)[h - 1])]
    BY <1>6 DEF MerkleProof
  <2>2. Height(leaves) \in Nat
    BY <1>5, HeightIs
  <2> QED
    BY <2>1, <2>2
<1>9. row.prizes[i].rank <= RankLimit => Accepted(b, i)
  BY <1>1, <1>5, <1>7 DEF Accepted, Verifies
<1>10. ASSUME NEW w \in Wallets, NEW r \in Ranks, Verifies(b, Prize(w, r), proof)
       PROVE  row.prizes[i] = Prize(w, r)
  <2>1. Prize(w, r) \in Prizes
    BY DEF Prizes
  <2>2. RootFromProof(Leaf(b, row.topN, row.version, Prize(w, r)), proof)
          = RootFromProof(leaves[i], proof)
    BY <1>7, <1>10 DEF Verifies
  <2>3. Leaf(b, row.topN, row.version, Prize(w, r)) = leaves[i]
    BY <1>8, <2>2, ProofIsOfOneLeaf
  <2> QED
    BY <1>4, <1>5, <2>1, <2>3, LeavesDiffer
<1> QED
  BY <1>9, <1>10

-----------------------------------------------------------------------------
\* Batches, claims, the contest's account, certificates and pages keep their
\* types: no batch is empty or has more prizes than its top_n, and every prize
\* has its proof, however many participants have no wallet.
THEOREM TypeCorrectness == Spec => []TypeOK
  BY AlwaysExported, ExportedTypes, PTL

\* A certificate states the rank its owner has in the snapshot it names, after
\* any number of settlements, exports, publications and mints.
THEOREM StatesTheRank == Spec => []CertificatesStateRanks
  BY AlwaysExported, ExportedRanks, PTL

\* The program accepts the claims of the published batch, of any size, and no
\* proof of theirs is one for another wallet or another rank.
THEOREM AcceptsThePrizes == Spec => []AcceptsExactlyPrizes
  BY AlwaysExported, ExportedAccepts, PTL

=============================================================================
