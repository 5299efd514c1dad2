---------------------------- MODULE MCResponseSize ----------------------------
EXTENDS ResponseSize

(* Nothing to add: the bounds are Half and MaxSize, and there is one client. *)
=============================================================================
