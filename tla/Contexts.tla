------------------------------- MODULE Contexts ------------------------------
(***************************************************************************)
(* The states of a Go context as the code tells them apart: ctx.Err() is   *)
(* nil, context.Canceled or context.DeadlineExceeded.  A context that has  *)
(* ended stays ended.                                                      *)
(***************************************************************************)
Contexts == {"live", "canceled", "deadline_exceeded"}
Dead     == Contexts \ {"live"}
=============================================================================
