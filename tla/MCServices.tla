------------------------------ MODULE MCServices ------------------------------
(***************************************************************************)
(* Services on one service that is restarted after a crash: its user may   *)
(* ask for anything at any time, its processes may end at any time.        *)
(***************************************************************************)
EXTENDS Services

=============================================================================
