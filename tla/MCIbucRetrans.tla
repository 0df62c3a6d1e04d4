---------------------------- MODULE MCIbucRetrans ----------------------------
(* Instances of IbucRetrans for model checking. *)
EXTENDS IbucRetrans
=============================================================================
