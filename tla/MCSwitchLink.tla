---------------------------- MODULE MCSwitchLink ----------------------------
(***************************************************************************)
(* SwitchLink used in four ways: as intended, by a caller that goes on after  *)
(* failures, over a socket that takes parts, and with a buffer for each way.  *)
(***************************************************************************)
EXTENDS SwitchLinkProps

Used(shared, partial, careful) ==
    [shared |-> shared, partial |-> partial, careful |-> careful]

MCUsages == {Used(TRUE, FALSE, TRUE), Used(TRUE, FALSE, FALSE),
             Used(TRUE, TRUE, FALSE), Used(FALSE, TRUE, FALSE)}

\* As intended, but for the two buffers.
MCSeparate == {Used(FALSE, FALSE, TRUE)}
=============================================================================
