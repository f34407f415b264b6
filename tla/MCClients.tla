----------------------------- MODULE MCClients ------------------------------
(***************************************************************************)
(* Two clients and two ids, which they may share; both can get on the list *)
(* before a handshake, or one twice, and there are edits and faults enough *)
(* for a save that fails, or is cut short, to be followed by another.      *)
(***************************************************************************)
EXTENDS Clients
=============================================================================
