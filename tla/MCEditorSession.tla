--------------------------- MODULE MCEditorSession ---------------------------
(***************************************************************************)
(* An instance of EditorSession for TLC: the creator of the document, an   *)
(* administrator and a user who is neither, the session of CreateDocument  *)
(* and two more, two contents besides the initial one, up to two uploads   *)
(* reserved and two commits in flight at a time.                           *)
(***************************************************************************)
EXTENDS EditorSession, TLC

CONSTANTS u1, u2, u3, s1, s2, s3, h0, h1, h2

MCUsers == {u1, u2, u3}
MCAdmins == {u2}
MCHashes == {h0, h1, h2}

Symmetry == Permutations({s1, s2, s3}) \cup Permutations({h1, h2})
=============================================================================
