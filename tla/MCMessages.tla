---------------------------- MODULE MCMessages ----------------------------
(***************************************************************************)
(* The path of a message for TLC: the connection it is read from and       *)
(* written to, the router, and the rules.  One run has the three parts     *)
(* side by side; a behaviour moves one of them and leaves the other two    *)
(* in an initial state.                                                    *)
(***************************************************************************)
EXTENDS MCRouter, MCConn, MCRules

VARIABLE part

MessagesInit ==
    /\ part \in {"conn", "router", "rules"}
    /\ ConnInit /\ MCInit /\ RulesInit
    /\ part # "conn" => conn = ConnBeginClose(Fresh(TRUE))
    /\ part # "router" => instance = "groups"
    /\ part # "rules" => program = Loop

MessagesNext ==
    \/ part = "conn" /\ ConnNext /\ UNCHANGED <<routerVars, rulesVars, part>>
    \/ part = "router" /\ MCNext /\ UNCHANGED <<connVars, rulesVars, part>>
    \/ part = "rules" /\ RulesNext /\ UNCHANGED <<connVars, routerVars, part>>
    \/ part # "conn" /\ UNCHANGED <<connVars, routerVars, rulesVars, part>>  \* at a bound

MessagesSpec == MessagesInit /\ [][MessagesNext]_<<connVars, routerVars, rulesVars, part>>
=============================================================================
