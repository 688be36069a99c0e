---------------------------- MODULE MCSendThread ----------------------------
(***************************************************************************)
(* SendThread with a pool of one buffer (three with the surge), one client *)
(* and up to two sessions: a stop, a reconnection, a pool reset and an     *)
(* exhausted pool all happen.                                              *)
(***************************************************************************)
EXTENDS SendThread
=============================================================================
