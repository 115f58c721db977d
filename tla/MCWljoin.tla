------------------------------ MODULE MCWljoin ------------------------------
(* One access point and few polls for TLC. *)
EXTENDS Wljoin

Way(pass, privacy, rsn) == [pass |-> pass, privacy |-> privacy, rsn |-> rsn]
MCJoins ==
    {Way("right", TRUE, TRUE), Way("wrong", TRUE, TRUE), Way(NoPass, TRUE, TRUE),
     Way("right", TRUE, FALSE), Way("right", FALSE, FALSE)}
=============================================================================
