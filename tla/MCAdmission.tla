----------------------------- MODULE MCAdmission -----------------------------
(***************************************************************************)
(* Small instances of Admission: two circles, of which a reload revokes    *)
(* one, drops the other, or lets the first one's window end.               *)
(***************************************************************************)
EXTENDS Admission

mcFiles == {<<9>>, <<1, 9>>, [id \in {2} |-> 9]}
mcSymmetry == Permutations(Nonces) \cup Permutations(Tokens) \cup Permutations(Calls)
=============================================================================
