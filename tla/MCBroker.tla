------------------------------ MODULE MCBroker ------------------------------
(* Small instances of Broker for TLC.                                      *)
EXTENDS Broker
=============================================================================
