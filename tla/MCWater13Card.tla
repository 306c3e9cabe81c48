---------------------------- MODULE MCWater13Card ----------------------------
(***************************************************************************)
(* Water13Card on small instances: two or three clients, two or three      *)
(* seats, one or two rounds.  The clients are interchangeable in every     *)
(* definition, so the safety runs identify states that differ by a         *)
(* permutation of them.                                                    *)
(***************************************************************************)
EXTENDS Water13Card, TLC

ClientSymmetry == Permutations(Clients)

\* A negative number, none, the highest and one too high; the timeout fills in 1.
MCPoints == {-1, 0, BankerMultiple, BankerMultiple + 1}

=============================================================================
