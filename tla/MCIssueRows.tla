---------------------------- MODULE MCIssueRows ----------------------------
(***************************************************************************)
(* Ids 1 and 2, a missing one, and one so small that 2 is out of its reach *)
(* in a machine word of -4..3.                                             *)
(***************************************************************************)
EXTENDS IssueRows

MCIDs == {-3, 0, 1, 2}

=============================================================================
