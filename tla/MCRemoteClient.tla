--------------------------- MODULE MCRemoteClient ---------------------------
(***************************************************************************)
(* Small instances of RemoteClient: two callers, two URLs, sizes one and   *)
(* two around the registered one, two transports.                          *)
(***************************************************************************)
EXTENDS RemoteClient
CONSTANTS a, b
=============================================================================
