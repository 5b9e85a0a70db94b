-------------------------- MODULE MCGroupLifecycle --------------------------
(* A group for TLC, and statuses a server may answer with: each that         *)
(* classify.go tells apart, and both ends of its ranges.                     *)
EXTENDS GroupLifecycle

SomeStatuses == {301, 400, 403, 404, 410, 429, 499, 500, 503}
=============================================================================
