----------------------------- MODULE MCEthSocket -----------------------------
(* One server, on one port.                                                *)
EXTENDS EthSocket

CONSTANT Http
==============================================================================
