---------------------------- MODULE MCAuditPages ----------------------------
(* A small instance of AuditPages for TLC. *)
EXTENDS AuditPages

\* Three ids, two times: events of one time straddle the border of a page.
MCId == 1..3
=============================================================================
