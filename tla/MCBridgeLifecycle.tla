------------------------ MODULE MCBridgeLifecycle ------------------------
(* The bridge's service and its page.  A behaviour is one of the two, the   *)
(* other stays where it starts; the service's are of one of two kinds:      *)
(*   overlap  one intent, two requests at the same time, a burn that        *)
(*            matches the intent and one that does not;                     *)
(*   serial   two intents that compete for two matching burns, one request  *)
(*            at a time.                                                    *)
(* Mint m1 delivers the message of burn b1, any other mint that of b2.      *)
(* Every row has an idempotency key of its own.                             *)
EXTENDS BridgeLifecycle, BridgeClient, TLC

CONSTANTS m1, b1, b2, b3

VARIABLE focus

MCReceives == [m \in Mints |-> IF m = m1 THEN b1 ELSE b2]
MCKeyOf == [i \in Ids |-> i]

Symmetry == Permutations(Handlers) \cup Permutations(Ids) \cup Permutations(Approvals)

Active == {p \in Handlers : pc[p] # "idle"}

UsesBurn(b) == \/ iris[b] = "complete"
               \/ \E i \in Ids : b \in {Result(i).source, Result(i).attested}
               \/ \E p \in Active : b \in {local[p].arg, local[p].message}

UsesApprovals == \/ \E i \in Ids : Result(i).approval # None
                 \/ \E p \in Active : local[p].arg \in Approvals

Created == {i \in Ids : row[i].status # "absent"} \cup
             {i \in Ids : \E p \in Active : local[p].op = "create" /\ local[p].id = i}

Overlap == Cardinality(Created) <= 1 /\ ~UsesApprovals /\ ~UsesBurn(b2)
Serial == Cardinality(Active) <= 1 /\ ~UsesBurn(b3)

MCInit ==
    /\ focus \in {"overlap", "serial", "page"}
    /\ Init /\ BridgePageInit
    /\ focus = "overlap" => \A i, j \in Ids : readable[i] = readable[j]
    /\ focus \in {"serial", "page"} => \A i \in Ids : readable[i]
    /\ focus # "page" => live = CHOOSE l \in [rate : BridgeRates, allowance : Allowances] : TRUE

MCNext ==
    /\ UNCHANGED focus
    /\ \/ focus = "overlap" /\ Next /\ Overlap' /\ UNCHANGED bridgePageVars
       \/ focus = "serial" /\ Next /\ Serial' /\ UNCHANGED bridgePageVars
       \/ focus = "page" /\ BridgePageNext /\ UNCHANGED vars

MCSpec == MCInit /\ [][MCNext]_<<vars, bridgePageVars, focus>>

(* OneIntentPerMessage is a promise of requests that do not overlap.        *)
SerialOneIntentPerMessage == focus = "serial" => OneIntentPerMessage
==========================================================================
