----------------------------- MODULE MCPlatform -----------------------------
(* What a payment rests on: the unit reports of its task, the contracts and *)
(* their deployment, the network's switches, the receipts a payroll is      *)
(* verified by and the state every page shares.  They do not interact here: *)
(* a behaviour is one of a single component, the others stay where they     *)
(* start.                                                                   *)
EXTENDS TaskUnits, SettlementContracts, NameService, DeploymentRelease,
        ArcNetwork, PayrollReceipt, PageShell

VARIABLE focus

platformVars == <<unitVars, settlementVars, nameVars, relVars, poolVars, arcVars, receiptVars,
                  historyVars, shellVars>>

MCLengthOf == [l \in Labels |-> 3]

(* No promo, a free rent in a window, a window that ends before it starts   *)
(* and a discount beyond the whole.                                         *)
Promo(enabled, discount, starts, ends) ==
    [enabled |-> enabled, discount |-> discount, starts |-> starts, ends |-> ends]
MCPromos == {Promo(FALSE, 0, 0, 0), Promo(TRUE, 4, 2, 3), Promo(TRUE, 1, 3, 2),
             Promo(FALSE, 5, 0, 0)}

(* Two fee transfers in four, a payee paid twice in one batch, an amount    *)
(* the fee does not divide.                                                 *)
Paid(to, units) == [to |-> to, units |-> units]
MCBatches == <<[block |-> 2, list |-> <<Paid("a", 4), Paid("b", 1)>>],
               [block |-> 3, list |-> <<Paid("a", 2), Paid("a", 4)>>],
               [block |-> 5, list |-> <<Paid("b", 1)>>]>>
MCFee == <<1, 4>>

(* The calls of everyone, approvals of tokens left out. *)
WithoutApprovals ==
    tokenOperators' = {} /\ \A n \in Names : approvals'[n] = NoApproval

(* A long life of the names of one namespace, all other calls left out. *)
TokenCalls ==
    /\ calls < MaxCalls /\ calls' = calls + 1
    /\ IF calls = 0
       THEN /\ \E p \in PriceTables : OpenNamespace(Governor, "arc", Governor, p, Promo(FALSE, 0, 0, 0))
            /\ sender' = NoOne
       ELSE \/ /\ \E n \in Names, a \in People, d \in Durations : Register(n, a, d, "unset", NoOne)
               /\ sender' = NoOne
            \/ \E a \in People : TokenCall(a) /\ sender' = a

MCInit ==
    /\ focus \in {"units", "contracts", "names", "tokens", "release", "pool", "network", "receipt", "history",
               "toasts", "install", "profile"}
    /\ UnitInit
    /\ SettlementInit /\ NameInit /\ RelInit /\ PoolInit /\ ArcInit
    /\ ReceiptInit /\ HistoryInit /\ ToastInit /\ InstallInit /\ ProfileInit
    /\ focus # "release" => repo.code = CHOOSE c \in Codes : TRUE
    /\ focus # "receipt" => /\ order.net = "arc-mainnet" /\ order.token = "USDC"
                           /\ order.list = CHOOSE l \in Lists : TRUE
    /\ scan.honest = CHOOSE e \in ScanEndpoints : TRUE    \* the endpoints are alike
    /\ focus # "install" => ~install.manual

MCNext ==
    /\ UNCHANGED focus
    /\ IF focus = "units" THEN UnitNext ELSE UNCHANGED unitVars
    /\ IF focus = "contracts" THEN SettlementNext ELSE UNCHANGED settlementVars
    /\ CASE focus = "names"  -> (Tick \/ (calls + 1 < MaxCalls /\ NameNext)) /\ WithoutApprovals
         [] focus = "tokens" -> TokenCalls \/ Tick
         [] OTHER            -> UNCHANGED nameVars
    /\ IF focus = "release" THEN RelNext ELSE UNCHANGED relVars
    /\ IF focus = "pool" THEN PoolNext ELSE UNCHANGED poolVars
    /\ evidenceFile # None => poolChain' = poolChain /\ scan' = scan    \* the collection is over
    /\ IF focus = "network" THEN ArcNext ELSE UNCHANGED arcVars
    /\ IF focus = "receipt" THEN ReceiptNext ELSE UNCHANGED receiptVars
    /\ IF focus = "history" THEN HistoryNext ELSE UNCHANGED historyVars
    /\ IF focus = "toasts" THEN ToastNext ELSE UNCHANGED toastVars
    /\ IF focus = "install" THEN InstallNext ELSE UNCHANGED installVars
    /\ IF focus = "profile" THEN ProfileNext ELSE UNCHANGED profileVars

MCSpec == MCInit /\ [][MCNext]_<<platformVars, focus>>
=============================================================================
