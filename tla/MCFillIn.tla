------------------------------- MODULE MCFillIn -------------------------------
(* Three templates: one whose required text and approvers list resolve, one  *)
(* with a computed placeholder that never resolves, one with a named         *)
(* placeholder.                                                              *)
EXTENDS FillIn, TLC

CONSTANTS t1, t2, t3, w1, w2, ann, bob

MCTemplates == {t1, t2, t3}
MCPlaceholders == {"resp", "approvers", "doc_code", "title"}
MCSchema == t1 :> {"resp", "approvers"} @@ t2 :> {"resp", "doc_code"} @@ t3 :> {"title"}
MCRequired == {"resp", "title"}
MCResolver == "approvers" :> "approvers" @@ "doc_code" :> "unreadable"
MCNamed == {"title"}
MCTexts == {{}, {"a"}, {"b"}}
MCAccepts ==
  [p \in MCPlaceholders |-> IF p = "resp" THEN MCTexts ELSE {{"a"}}]
=============================================================================
