---------------------------- MODULE MCHookTerminals ----------------------------
(***************************************************************************)
(* HookTerminals with a few sessions.                                      *)
(***************************************************************************)
EXTENDS HookTerminals

=============================================================================
