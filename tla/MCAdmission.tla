---------------------------- MODULE MCAdmission ----------------------------
(* Small instances of Admission for TLC.                                   *)
EXTENDS Admission, TLC

CONSTANTS t1, t2, t3
OneToTwo == t1 :> 1 @@ t2 :> 2          \* shares 1 and 2 of a cap of 3
Lopsided == t1 :> 1 @@ t2 :> 0          \* t2 gets a class later, or never
Equal == [t \in Tenant |-> 1]
MCSymmetry == Permutations(Submission)
=============================================================================
