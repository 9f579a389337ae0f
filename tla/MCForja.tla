------------------------------ MODULE MCForja ------------------------------
(* A client that either writes or decides, follows everything and has a webhook, beside one
   session of Mac's own. *)
EXTENDS Forja

CONSTANT platform

TheClients == {platform}
TheGrants == {{"write", "events"}, {"approve", "events"}}
TheWants == [c \in TheClients |-> TYPES \ {"discovery_started"}]
=============================================================================
