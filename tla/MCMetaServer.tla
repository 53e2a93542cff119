----------------------------- MODULE MCMetaServer -----------------------------
(***************************************************************************)
(* Instances of MetaServer for TLC.  The names are those of services with  *)
(* the same role in opt/cluster/etc/servers.d/client.xml.                  *)
(***************************************************************************)
EXTENDS MetaServer

CONSTANTS memcached, logging, hostmon

(* client.xml: logging-server needs memcached.                             *)
OnMemcached == [s \in {memcached, logging} |-> IF s = logging THEN {memcached} ELSE {}]

(* host-monitoring alone: its wait_time of 300 s exceeds LOCK_TIMEOUT.     *)
Alone == [s \in {hostmon} |-> {}]

Licensed == {[conf |-> "run", lic |-> "valid"]}

Configurable == {[conf |-> "run", lic |-> "valid"], [conf |-> "stop", lic |-> "valid"]}
===============================================================================
