------------------------------ MODULE MCProgram ------------------------------
(* The words of the runs of module Program: every flag, the numbers at the  *)
(* borders of the ranges, both kinds of addresses, and one word that is     *)
(* nothing of all that.                                                     *)
EXTENDS Program

AllWords ==
    {[flag |-> f, num |-> -1, addr |-> "none"] :
         f \in Flag \cup {"h", "other", "none"}}
    \cup {[flag |-> "none", num |-> n, addr |-> "none"] :
         n \in {0, 1, 2, 10, 11, 20, 21, 1023, 1024, 49151, 49152}}
    \cup {[flag |-> "none", num |-> 10, addr |-> a] : a \in {"plain", "padded"}}

\* Words enough to start with a plain and with a padded address.
FewWords ==
    {[flag |-> "a", num |-> -1, addr |-> "none"],
     [flag |-> "none", num |-> 10, addr |-> "padded"]}
==============================================================================
