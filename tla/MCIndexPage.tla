------------------------------ MODULE MCIndexPage ------------------------------
(* A small instance of IndexPage for TLC: a name, also typed with a blank   *)
(* after it, a name that is reserved, and nothing.                         *)
EXTENDS IndexPage, TLC

MCTexts     == {"", "abc", "abc ", "status"}
MCTrim      == [t \in MCTexts |-> IF t = "abc " THEN "abc" ELSE t]
MCHinted    == {"abc", "status"}
MCClaimable == {"abc"}
================================================================================
