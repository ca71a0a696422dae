--------------------------- MODULE MCStorageWriter ---------------------------
(***************************************************************************)
(* Instances of StorageWriter for TLC: RPCs served by the TCP task, while  *)
(* the transmit task ends and starts sessions.                             *)
(***************************************************************************)
EXTENDS StorageWriter

OneRpcTask == {"tcp"}
OneSessionTask == {"tx"}
=============================================================================
