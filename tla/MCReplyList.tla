---------------------------- MODULE MCReplyList ----------------------------
(***************************************************************************)
(* The reply list for TLC.                                                 *)
(***************************************************************************)
EXTENDS ReplyList

(* No text, and one with a line end in it. *)
Texts == {<<>>, <<TEXT, EOL>>}
=============================================================================
