------------------------------ MODULE MCEnvTable -----------------------------
(* A table of three slots for four names, three of which begin their search   *)
(* at the same slot; nothing is imported.                                    *)
EXTENDS EnvTable

MCKeys == {"a", "b", "c", "d"}
MCHash == [k \in MCKeys |-> CASE k = "a" -> 6 [] k = "b" -> 11 [] k = "c" -> 10 [] OTHER -> 3]
MCOrder == <<"a", "b", "c", "d">>
MCKeyLen == [k \in MCKeys |-> 1]
MCValLen == [v \in {"x", "y"} |-> 3]
=============================================================================
