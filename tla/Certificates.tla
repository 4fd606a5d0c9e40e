---------------------------- MODULE Certificates ----------------------------
(***************************************************************************)
(* Certificates of a settled contest: exported in batches by the backend   *)
(* (services/certificate_export.py), published on Solana by the contest's  *)
(* admin and authorized in the backend, minted by the winners on chain     *)
(* (programs/contest_nft/src/lib.rs) and confirmed to the backend          *)
(* (routes/crypto_trading.py, views/MyCertificates.vue).                   *)
(*                                                                         *)
(* A winner's page confirms once its transaction is sent: it waits for the *)
(* chain but takes a failure for an answer, and the backend looks at       *)
(* neither the signature nor the chain.  So a transaction lands at any     *)
(* time after it was sent, or never.                                       *)
(*                                                                         *)
(* A participant is named by the wallet it is bound to, or would be.  A    *)
(* settlement's snapshot is its ranking; snapshot hashes are taken to be   *)
(* distinct, so a snapshot is named by the settlement's version.           *)
(***************************************************************************)
EXTENDS Merkle

CONSTANTS
    Wallets,        \* the participants
    TopNs,          \* the top_n admins ask for, in 1..100
    RankLimit,      \* the greatest rank the program's u8 holds: 255, less in an instance
    MaxSettlements, \* bound on settlements and resettlements
    MaxBatches,     \* bound on exports
    MaxVisitors     \* bound on the wallets whose owners open the page

ASSUME WalletsAssumption == IsFiniteSet(Wallets)
ASSUME TopNsAssumption == TopNs \subseteq 1..100
ASSUME RankLimitAssumption == RankLimit \in Nat
ASSUME BoundsAssumption == MaxSettlements \in Nat /\ MaxBatches \in Nat /\ MaxVisitors \in Nat

VARIABLES
    bound,        \* the participants with a wallet
    settlements,  \* the rankings settled, latest last
    batches,      \* the exported batches, by id
    authorized,   \* the ids of the authorized ones, latest last
    recorded,     \* the claims marked claimed: <<batch id, wallet>>
    chain,        \* the contest's account: what publish_certificate_root wrote
    certificates, \* the certificate accounts, one per contest and wallet
    sent,         \* external: transactions sent and not landed, <<batch id, wallet>>
    published,    \* the batches the admin published and may authorize
    page          \* the certificate pages open in the wallets' browsers

vars == <<bound, settlements, batches, authorized, recorded, chain, certificates, sent,
          published, page>>

BatchIds == 1..MaxBatches
Versions == 1..MaxSettlements
Ranks == 1..Cardinality(Wallets)
Rankings == {r \in [Ranks -> Wallets] : \A i, j \in Ranks : r[i] = r[j] => i = j}
NoBatch == 0
NoRoot == <<"leaf", 0>>

Prize(w, rank) == [wallet |-> w, rank |-> rank]
Prizes == {Prize(w, r) : w \in Wallets, r \in Ranks}
Certificate(b, rank, version) == [batch |-> b, rank |-> rank, snapshot |-> version]
NoCertificate == Certificate(NoBatch, 0, 0)
NoPage == [batch |-> NoBatch, claimed |-> FALSE, sent |-> FALSE]

\* What is stored: a batch and its claims; the contest's account and the
\* certificates' on chain.
BatchRows == [version : Versions, topN : TopNs]
ClaimRows(b) ==
    /\ batches[b].prizes \in Seq(Prizes)
    /\ Len(batches[b].prizes) \in 1..batches[b].topN
    /\ DOMAIN batches[b].proofs = DOMAIN batches[b].prizes
ContestStates == [batch : BatchIds \cup {NoBatch}, topN : TopNs \cup {0},
                  snapshot : Versions \cup {0}]
CertificateClaims == [batch : BatchIds \cup {NoBatch}, rank : Ranks \cup {0},
                      snapshot : Versions \cup {0}]
Absent(w) == certificates[w] = NoCertificate

TypeOK ==
    /\ bound \subseteq Wallets
    /\ settlements \in Seq(Rankings) /\ Len(settlements) <= MaxSettlements
    /\ \A b \in DOMAIN batches :
           /\ [version |-> batches[b].version, topN |-> batches[b].topN] \in BatchRows
           /\ ClaimRows(b)
    /\ authorized \in Seq(BatchIds)
    /\ recorded \subseteq BatchIds \X Wallets
    /\ DOMAIN chain = {"batch", "topN", "snapshot", "root"}
    /\ [k \in {"batch", "topN", "snapshot"} |-> chain[k]] \in ContestStates
    /\ certificates \in [Wallets -> CertificateClaims]
    /\ sent \subseteq BatchIds \X Wallets
    /\ published \subseteq BatchIds
    /\ page \in [Wallets -> [batch : BatchIds \cup {NoBatch}, claimed : BOOLEAN,
                             sent : BOOLEAN]]

Init ==
    /\ bound \in SUBSET Wallets
    /\ settlements = << >>
    /\ batches = << >>
    /\ authorized = << >>
    /\ recorded = {}
    /\ chain = [batch |-> NoBatch, topN |-> 0, snapshot |-> 0, root |-> NoRoot]
    /\ certificates = [w \in Wallets |-> NoCertificate]
    /\ sent = {}
    /\ published = {}
    /\ page = [w \in Wallets |-> NoPage]

-----------------------------------------------------------------------------
(* The backend.                                                            *)

Settle(ranking) ==
    /\ Len(settlements) < MaxSettlements
    /\ settlements' = Append(settlements, ranking)
    /\ UNCHANGED <<bound, batches, authorized, recorded, chain, certificates, sent, published, page>>

\* The rank a prize states is that of its row; slip: its place in the batch.
NextPlace(prepared, rank) == Len(prepared) + 1
StatedRank(prepared, rank) == rank

\* top_n rows are prepared; slip: there are never enough.
NeverEnough(prepared, n) == FALSE
Enough(prepared, n) == Len(prepared) >= n

\* The rows of the latest settlement, by rank, whose participant has a wallet.
WithRow(prepared, ranking, rank, n) ==
    IF Enough(prepared, n) \/ ranking[rank] \notin bound THEN prepared
    ELSE Append(prepared, Prize(ranking[rank], StatedRank(prepared, rank)))

Prepared(ranking, n) ==
    LET prepared[rank \in 0..Cardinality(Wallets)] ==
            IF rank = 0 THEN << >> ELSE WithRow(prepared[rank - 1], ranking, rank, n)
    IN  prepared[Cardinality(Wallets)]

\* certificate_leaf; the metadata URI belongs to the prize.
Leaf(b, n, version, prize) ==
    LeafHash([batch |-> b, topN |-> n, snapshot |-> version,
              wallet |-> prize.wallet, rank |-> prize.rank])

\* export_batch, whose uploads and inserts are one transaction.
Export(n) ==
    LET version == Len(settlements)
        prizes == Prepared(settlements[version], n)
        leaves == [i \in DOMAIN prizes |-> Leaf(Len(batches) + 1, n, version, prizes[i])]
    IN  /\ version > 0
        /\ Len(batches) < MaxBatches
        /\ prizes # << >>
        /\ batches' = Append(batches,
               [version |-> version, topN |-> n, prizes |-> prizes,
                root |-> MerkleRoot(leaves),
                proofs |-> [i \in DOMAIN prizes |-> MerkleProof(leaves, i)]])
        /\ UNCHANGED <<bound, settlements, authorized, recorded, chain, certificates,
                       sent, published, page>>

\* authorize_certificate_batch; authorized_at is set again for a batch that is
\* authorized again.
Reauthorized(b) == Append(RemoveFirst(authorized, b), b)

\* authorize_batch: the admin reports what was published.
Authorize(b) ==
    /\ b \in published
    /\ authorized' = Reauthorized(b)
    /\ UNCHANGED <<bound, settlements, batches, recorded, chain, certificates, sent, published, page>>

Places(b, w) == {i \in DOMAIN batches[b].prizes : batches[b].prizes[i].wallet = w}

\* get_certificate_claim_for_user: the participant's claim in the batch that
\* was authorized last.
IsLatest(b, w) ==
    \E i \in DOMAIN authorized :
        /\ authorized[i] = b
        /\ Places(b, w) # {}
        /\ \A j \in DOMAIN authorized : j > i => Places(authorized[j], w) = {}

-----------------------------------------------------------------------------
(* The program.                                                            *)

\* publish_certificate_root, signed by the contest's admin, of any batch
Publish(b) ==
    /\ b \in DOMAIN batches
    /\ chain' = [batch |-> b, topN |-> batches[b].topN, snapshot |-> batches[b].version,
                 root |-> batches[b].root]
    /\ published' = published \cup {b}
    /\ UNCHANGED <<bound, settlements, batches, authorized, recorded, certificates, sent, page>>

\* claim_certificate's requirements, for the claim of place i of batch b
Verifies(b, prize, proof) ==
    RootFromProof(Leaf(b, batches[b].topN, batches[b].version, prize), proof) = chain.root

Accepted(b, i) ==
    /\ b = chain.batch
    /\ batches[b].topN = chain.topN
    /\ batches[b].version = chain.snapshot
    /\ batches[b].prizes[i].rank <= RankLimit
    /\ Verifies(b, batches[b].prizes[i], batches[b].proofs[i])

\* claim_certificate of a transaction that was sent: the certificate's account
\* is created for the contest and the wallet, which fails when it exists.
Land(b, w) ==
    /\ <<b, w>> \in sent
    /\ Absent(w)
    /\ \E i \in Places(b, w) :
        /\ Accepted(b, i)
        /\ certificates' = [certificates EXCEPT ![w] =
               Certificate(b, batches[b].prizes[i].rank, chain.snapshot)]
    /\ sent' = sent \ {<<b, w>>}
    /\ UNCHANGED <<bound, settlements, batches, authorized, recorded, chain, published, page>>

-----------------------------------------------------------------------------
(* The certificate page of a wallet's owner.                               *)

Visitors == {w \in Wallets : page[w] # NoPage}

\* The page is opened, again perhaps, and with it a transaction forgotten that
\* was not confirmed.
Open(w) ==
    /\ Cardinality(Visitors \cup {w}) <= MaxVisitors
    /\ \E b \in BatchIds :
        /\ IsLatest(b, w)
        /\ page' = [page EXCEPT ![w] = [batch |-> b, claimed |-> <<b, w>> \in recorded,
                                        sent |-> FALSE]]
    /\ UNCHANGED <<bound, settlements, batches, authorized, recorded, chain, certificates,
                   sent, published>>

\* "Mint Certificate" is offered.
Offered(w) == page[w].batch # NoBatch /\ ~page[w].claimed /\ ~page[w].sent

\* claimCertificateOnchain: a transaction is sent when its simulation succeeds,
\* and signAndConfirm returns its signature whatever becomes of it.
Send(w) ==
    LET b == page[w].batch
    IN  /\ Offered(w)
        /\ Absent(w)
        /\ \E i \in Places(b, w) : Accepted(b, i)
        /\ sent' = sent \cup {<<b, w>>}
        /\ page' = [page EXCEPT ![w].sent = TRUE]
        /\ UNCHANGED <<bound, settlements, batches, authorized, recorded, chain,
                       certificates, published>>

\* The claim that confirmCertificateClaim names; slip: the latest one.
LatestClaim(w) == <<CHOOSE b \in BatchIds : IsLatest(b, w), w>>
ConfirmedClaim(w) == <<page[w].batch, w>>

\* get_certificate_claim_for_user_batch: a claim of the user's, in a batch that
\* is authorized, is all the backend asks for.
Confirmable(claim) == claim[1] \in Range(authorized) /\ Places(claim[1], claim[2]) # {}

\* mark_certificate_claimed
Marked(claim) == recorded \cup {claim}

\* confirm_my_certificate_claim of a page that has sent its transaction; the
\* answer may be lost, and the claim be offered again.
Confirm(w) ==
    /\ page[w].sent
    /\ Confirmable(ConfirmedClaim(w))
    /\ recorded' = Marked(ConfirmedClaim(w))
    /\ \E answered \in BOOLEAN :
           page' = [page EXCEPT ![w].claimed = answered, ![w].sent = FALSE]
    /\ UNCHANGED <<bound, settlements, batches, authorized, chain, certificates, sent, published>>

\* The confirmation fails: the page shows the error and offers the claim again.
ConfirmFails(w) ==
    /\ page[w].sent
    /\ page' = [page EXCEPT ![w].sent = FALSE]
    /\ UNCHANGED <<bound, settlements, batches, authorized, recorded, chain, certificates,
                   sent, published>>

Next ==
    \/ \E r \in Rankings : Settle(r)
    \/ \E n \in TopNs : Export(n)
    \/ \E b \in BatchIds : Publish(b) \/ Authorize(b)
    \/ \E b \in BatchIds, w \in Wallets : Land(b, w)
    \/ \E w \in Wallets : Open(w) \/ Send(w) \/ Confirm(w) \/ ConfirmFails(w)

Spec == Init /\ [][Next]_vars

-----------------------------------------------------------------------------
\* Backend and program agree on leaves, trees and proofs.  With the batch's root
\* published, the program accepts every prize, with the proof exported for it,
\* whose rank its u8 can hold; and no exported proof gives anybody the rank of
\* another.  (Acceptance is what the program requires of the claim itself: that
\* the wallet has no certificate yet is the guard of Land.)
AcceptsExactlyPrizes ==
    chain.batch # NoBatch =>
        LET b == batches[chain.batch]
        IN  \A i \in DOMAIN b.prizes :
                /\ b.prizes[i].rank <= RankLimit => Accepted(chain.batch, i)
                /\ \A w \in Wallets, r \in Ranks :
                       Verifies(chain.batch, Prize(w, r), b.proofs[i]) =>
                           b.prizes[i] = Prize(w, r)

\* A certificate states the rank its owner has in the snapshot it names, also
\* when better ranked participants have no wallet, the contest was settled
\* again or another batch was published since.
CertificatesStateRanks ==
    \A w \in Wallets : certificates[w] # NoCertificate =>
        settlements[certificates[w].snapshot][certificates[w].rank] = w

\* A claim marked claimed is one whose transaction was sent: its certificate is
\* there, or the transaction has not landed.  Batches authorized since the page
\* was opened, mints of others and lost answers do not make a page confirm
\* anything else.
RecordedWasSent ==
    \A c \in recorded : certificates[c[2]].batch = c[1] \/ c \in sent

\* What the documents say of it: a claim is marked claimed "after a confirmed
\* Solana transaction".  The program does not keep it: RefutedClaim.cfg has TLC
\* show a claim that is recorded before its transaction lands.
RecordedIsMinted ==
    \A c \in recorded : certificates[c[2]].batch = c[1]

=============================================================================
