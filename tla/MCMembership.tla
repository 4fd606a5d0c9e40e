---------------------------- MODULE MCMembership ----------------------------
(***************************************************************************)
(* A small instance of Membership: an administrator and a user to come,    *)
(* whom he may make an administrator.  A behaviour is about the accounts,  *)
(* about entering the contest or about the faucet: the operations of       *)
(* different mixes touch different rows.                                   *)
(***************************************************************************)
EXTENDS Membership, TLC

CONSTANTS ann, bob, w1, w2, r1, r2
TwoUsers == {ann, bob}
OneAdmin == {ann}
TwoWallets == {w1, w2}
TwoRequests == {r1, r2}
ThreeMixes == {{"register", "setRole", "lock", "unlock"},
               {"register", "create", "setStatus", "reschedule", "initialize", "join",
                "confirm"},
               {"register", "lock", "claim"}}
Symmetry == Permutations(TwoRequests) \cup Permutations(TwoWallets)

=============================================================================
