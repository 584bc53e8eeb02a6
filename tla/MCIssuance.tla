----------------------------- MODULE MCIssuance -----------------------------
(***************************************************************************)
(* Two codes of one symbol, and what people make of them on the phone.     *)
(***************************************************************************)
EXTENDS Issuance

mcCodes == {<<"0">>, <<"1">>}

mcMeanings ==
  {<<<<"o", "-">>, <<"0">>>>, <<<<"l">>, <<"1">>>>, <<<<"U">>, NoCode>>}
mcTypings == {pair[1] : pair \in mcMeanings}
mcMeant == [typed \in mcTypings |-> (CHOOSE pair \in mcMeanings : pair[1] = typed)[2]]

\* One window that has ended, one that runs.
mcFirst == [id \in mcCodes |-> [tier |-> "box", notAfter |-> IF id = <<"0">> THEN 1 ELSE 4]]

mcTiers == [box |-> "sound", slip |-> "negative"]
=============================================================================
