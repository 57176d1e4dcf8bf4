---------------------------- MODULE MCValidateAmi ----------------------------
(* A small instance of ValidateAmi: two regions, two image ids, expected   *)
(* images and live images chosen to cover every verdict.                   *)
EXTENDS ValidateAmi, TLC

CONSTANTS r1, r2, i1, i2, pAll, pAcct, a1, a2

MCRegions == {r1, r2}
MCIds == {i1, i2}

(* One id, which the expected-AMI file may list in both regions.           *)
MCOneId == {i1}

(* Expected: public; public with a stray permission list; private shared   *)
(* with an account; private without a permission list.                     *)
MCExpectedDefs ==
    {[public |-> TRUE,  lp |-> None,      rest |-> a1],
     [public |-> TRUE,  lp |-> <<pAll>>,  rest |-> a1],
     [public |-> FALSE, lp |-> <<pAcct>>, rest |-> a1],
     [public |-> FALSE, lp |-> None,      rest |-> a1]}

(* Live: public; private shared with an account; private unshared; public  *)
(* with another name or attributes.                                        *)
MCLiveImages ==
    {[public |-> TRUE,  perms |-> <<pAll>>,  rest |-> a1],
     [public |-> FALSE, perms |-> <<pAcct>>, rest |-> a1],
     [public |-> FALSE, perms |-> <<>>,      rest |-> a1],
     [public |-> TRUE,  perms |-> <<pAll>>,  rest |-> a2]}

MCSymmetry == Permutations(MCRegions) \cup Permutations(MCIds)
=============================================================================
