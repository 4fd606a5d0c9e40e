--------------------------- MODULE MCLeaderboard ----------------------------
(***************************************************************************)
(* A small instance of Leaderboard: two contests, two clients of one and   *)
(* one of the other.                                                       *)
(***************************************************************************)
EXTENDS Leaderboard

CONSTANTS main, side, ann, bob, eve
Nobody == {}
TwoContests == {main, side}
ThreeClients == <<ann, bob, eve>>
TwoWatchMain == [c \in {ann, bob, eve} |-> IF c = eve THEN side ELSE main]

=============================================================================
