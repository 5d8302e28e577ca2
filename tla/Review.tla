-------------------------------- MODULE Review --------------------------------
(***************************************************************************)
(* What the approval workflow promises of a document, with every operation *)
(* one step: a review works off the stages of a route, each signed until   *)
(* its quorum is met, nobody signs twice and the author never; the last    *)
(* stage releases the document, a rejection sends it back for rework.      *)
(* There are no instances, no transactions and no requests that overlap.   *)
(* Module Approval is shown to implement this one: it takes no step that   *)
(* this one forbids.  Two steps stated here it never takes, Vote and       *)
(* Rework.                                                                 *)
(***************************************************************************)
EXTENDS Integers

CONSTANTS
  Docs, Actors,
  Released0,   \* documents published before there were reviews
  CreatedBy,   \* [Docs -> Actors]
  StageSets    \* the stage numbers of each route

VARIABLES
  phase,    \* where the document is on its way, reviews included
  left,     \* stages of its open review that are not signed
  author,   \* who submitted the review that counts, a set of at most one
  signers   \* who has signed it

vars == <<phase, left, author, signers>>

Init ==
  /\ phase = [d \in Docs |-> IF d \in Released0 THEN "published" ELSE "draft"]
  /\ left = [d \in Docs |-> {}]
  /\ author = [d \in Docs |-> {}]
  /\ signers = [d \in Docs |-> {}]

Submit(d) ==
  /\ phase[d] = "draft"
  /\ phase' = [phase EXCEPT ![d] = "review"]
  /\ \E S \in StageSets : S # {} /\ left' = [left EXCEPT ![d] = S]
  /\ \E a \in Actors : author' = [author EXCEPT ![d] = {a}]
  /\ UNCHANGED signers

(* Somebody who has no part in the document or its review so far. *)
MaySign(d, a) == a \notin signers[d] \cup author[d] \cup {CreatedBy[d]}

(* A signature that leaves the quorum of its stage open. *)
Vote(d) ==
  /\ phase[d] = "review"
  /\ \E a \in Actors : MaySign(d, a) /\ signers' = [signers EXCEPT ![d] = @ \cup {a}]
  /\ UNCHANGED <<phase, left, author>>

(* The signature that meets the quorum of the lowest stage left; after the *)
(* last stage d is approved.                                               *)
Sign(d) ==
  /\ phase[d] = "review"
  /\ \E a \in Actors : MaySign(d, a) /\ signers' = [signers EXCEPT ![d] = @ \cup {a}]
  /\ \E k \in left[d] :
       /\ \A j \in left[d] : k <= j
       /\ left' = [left EXCEPT ![d] = @ \ {k}]
       /\ phase' = [phase EXCEPT ![d] = IF left[d] = {k} THEN "approved" ELSE "review"]
  /\ UNCHANGED author

(* A vote against ends the review. *)
Reject(d) ==
  /\ phase[d] = "review"
  /\ \E a \in Actors : MaySign(d, a) /\ signers' = [signers EXCEPT ![d] = @ \cup {a}]
  /\ left' = [left EXCEPT ![d] = {}]
  /\ phase' = [phase EXCEPT ![d] = "rejected"]
  /\ UNCHANGED author

(* The author takes a rejected document up again, for another review. *)
Rework(d) ==
  /\ phase[d] = "rejected"
  /\ phase' = [phase EXCEPT ![d] = "draft"]
  /\ author' = [author EXCEPT ![d] = {}]
  /\ signers' = [signers EXCEPT ![d] = {}]
  /\ UNCHANGED left

(* The review is dropped with its signatures. *)
Cancel(d) ==
  /\ phase[d] = "review"
  /\ phase' = [phase EXCEPT ![d] = "draft"]
  /\ left' = [left EXCEPT ![d] = {}]
  /\ author' = [author EXCEPT ![d] = {}]
  /\ signers' = [signers EXCEPT ![d] = {}]

Publish(d) ==
  /\ phase[d] = "approved"
  /\ phase' = [phase EXCEPT ![d] = "published"]
  /\ UNCHANGED <<left, author, signers>>

(* The new document is published and the old one superseded, together. *)
Supersede(new, prior) ==
  /\ phase[new] = "approved" /\ phase[prior] = "published"
  /\ phase' = [phase EXCEPT ![new] = "published", ![prior] = "superseded"]
  /\ UNCHANGED <<left, author, signers>>

Obsolete(d) ==
  /\ phase[d] \in {"published", "superseded"}
  /\ phase' = [phase EXCEPT ![d] = "obsolete"]
  /\ UNCHANGED <<left, author, signers>>

Next ==
  \/ \E d \in Docs :
       \/ Submit(d) \/ Vote(d) \/ Sign(d) \/ Reject(d) \/ Rework(d)
       \/ Cancel(d) \/ Publish(d) \/ Obsolete(d)
  \/ \E new, prior \in Docs : Supersede(new, prior)

Spec == Init /\ [][Next]_vars
=============================================================================
