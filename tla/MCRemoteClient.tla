---------------------------- MODULE MCRemoteClient ----------------------------
(***************************************************************************)
(* RemoteClient with two terminals, in scenarios that each spend their     *)
(* budget on something else: terminals that come and go, output faster     *)
(* than the session, sessions that break.                                  *)
(***************************************************************************)
EXTENDS RemoteClient

Scenario(c, o, t, b) == [changes |-> c, chunks |-> o, texts |-> t, breaks |-> b]

Scenarios ==
  {Scenario(2, 0, 1, 0), Scenario(1, 2, 0, 0), Scenario(0, 3, 0, 0),
   Scenario(1, 0, 1, 1), Scenario(0, 1, 0, 1), Scenario(0, 0, 1, 2)}

=============================================================================
