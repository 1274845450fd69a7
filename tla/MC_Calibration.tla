--------------------------- MODULE MC_Calibration ---------------------------
(***************************************************************************)
(* Two relationships of the gold set as it is (tests/gold), two edges of   *)
(* one of them in one store, and none in the other.                        *)
(***************************************************************************)
EXTENDS Calibration, TLC

CONSTANTS g1, g2, s1, s2

MC_GoldSeed ==
    LET R(i, l, w, v) == [id |-> i, label |-> l, weight |-> w, verdict |-> v, provenance |-> "seed"]
    IN  {R(1, "owns", 18, "invalid"), R(2, "owns", 26, "invalid"), R(3, "owns", 50, "abstain"),
         R(4, "owns", 76, "valid"), R(5, "owns", 88, "valid"),
         R(6, "targets", 16, "invalid"), R(7, "targets", 24, "invalid"),
         R(8, "targets", 53, "abstain"), R(9, "targets", 79, "valid"), R(10, "targets", 91, "valid")}

MC_Claim == 11 .. 12
MC_ClaimLabel == [c \in Claim |-> "owns"]
MC_Home == [a \in Agent |-> s1]
MC_Held == [s \in Store |-> IF s = s1 THEN Claim ELSE {}]
MC_Ruling == LET J(w, o) == [weight |-> w, outcome |-> o]
             IN  {J(80, "confirmed"), J(30, "confirmed"), J(30, "invalidated")}
MC_Guess == LET G(l, s) == [label |-> l, score |-> s]
            IN  {G("owns", 26), G("targets", 79), G("high-impact", 90)}
=============================================================================
