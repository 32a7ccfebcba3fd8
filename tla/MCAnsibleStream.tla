-------------------------- MODULE MCAnsibleStream --------------------------
(***************************************************************************)
(* Three lines: a header with two statuses, or a failure, what takes it    *)
(* back, and another line.                                                 *)
(***************************************************************************)
EXTENDS AnsibleStream
=============================================================================
