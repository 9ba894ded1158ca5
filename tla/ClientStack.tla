----------------------------- MODULE ClientStack -----------------------------
(***************************************************************************)
(* The two layers a client is made of: the postman that carries requests,  *)
(* and the light client that makes them.  The light client's exchanges end *)
(* in an answer or in expiry, which is what the postman is shown to bring  *)
(* about (Resolves), so neither looks at the other's state; in a behaviour *)
(* one of them is idle.                                                    *)
(***************************************************************************)
EXTENDS Postman, LightClient

stackVars == <<vars, clientVars>>

Idle == cast.addresses = {} \/ Nodes = {}

Init == PostmanInit /\ ClientInit /\ Idle

Next ==
    \/ PostmanNext /\ UNCHANGED clientVars
    \/ ClientNext /\ UNCHANGED vars

Spec == Init /\ [][Next]_stackVars /\ PostmanFairness /\ ClientFairness

\* The variables' types: what the mailbox, the links, the peers, the client's
\* trust and its reader may be.
TypeOK == PostmanTypeOK /\ ClientTypeOK
=============================================================================
