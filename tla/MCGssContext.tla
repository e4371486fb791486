---------------------------- MODULE MCGssContext ----------------------------
(* One client and one server handle of a Python program using the         *)
(* kerberos module.                                                        *)
EXTENDS GssContext

CONSTANTS c1, s1

MCClients == {c1}
MCServers == {s1}
====
