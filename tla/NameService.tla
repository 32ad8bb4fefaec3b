----------------------------- MODULE NameService -----------------------------
(***************************************************************************)
(* The ANS contracts: ArcRegistry (who owns a node and its resolver),       *)
(* RootRegistry (namespaces, prices, promos, suspension), the factory that  *)
(* builds a namespace's registrar, controller and vault, NamespaceRegistrar *)
(* (names as ERC-721 tokens that expire), NamespaceController (renting) and *)
(* PublicResolver.  A transaction is one step; a reverting call changes     *)
(* nothing.  Labels are model values of a given length: their character     *)
(* check rejects a call before any state is read.                           *)
(***************************************************************************)
EXTENDS Integers, FiniteSets

CONSTANTS
    Users,        \* accounts of people
    Namespaces,   \* labels under the root, "arc" the reserved one
    Labels,       \* names that can be rented
    LengthOf,     \* the length of each label
    Grace,        \* GRACE_PERIOD
    Year,         \* YEAR
    MaxBps,       \* MAX_BPS
    Durations,    \* rental durations asked for
    Prices,       \* annual prices a namespace may set
    Promos,       \* promos a namespace may set: discounts in MaxBps and windows
    MaxTime,      \* bound: the clock
    MaxCalls      \* bound: transactions of a behaviour

ASSUME NameAssumption ==
    /\ {Grace, MaxTime, MaxCalls} \subseteq Nat /\ {Year, MaxBps} \subseteq Nat \ {0}
    /\ LengthOf \in [Labels -> Nat]
    /\ Durations \subseteq Nat \ {0} /\ Prices \subseteq Nat
    /\ Promos \subseteq [enabled : BOOLEAN, discount : Nat, starts : Nat, ends : Nat]

VARIABLES
    clock,       \* block.timestamp
    nodes,       \* ArcRegistry: owner and resolver of every node
    operators,   \* ArcRegistry._operators
    spaces,      \* RootRegistry: namespace records, pricing and promo
    tokens,      \* each registrar's tokens: holder and expiry
    approvals,   \* the account approved for a token; ghost: the tenure it was given in
    tenures,     \* ghost: how often each token was minted or transferred
    tokenOperators, \* each registrar's operators: <<namespace, holder, operator>>
    controllers, \* each registrar's controllers
    addrs,       \* PublicResolver: the address a node resolves to
    revenue,     \* rent credited to each namespace's vault, per namespace
    calls,       \* transactions so far
    sender       \* ghost: who called the registry or a token, if the last step did

approvalVars == <<approvals, tenures, tokenOperators>>
nameVars == <<clock, nodes, operators, spaces, tokens, approvalVars, controllers, addrs,
              revenue, calls, sender>>

(* Accounts: people, the governor (deployer of ArcRegistry and owner of     *)
(* RootRegistry) and the contracts.                                         *)
Governor == <<"person", "governor">>
People == {<<"person", u>> : u \in Users} \cup {Governor}
RootContract == <<"contract", "rootRegistry">>
Registrar(ns) == <<"registrar", ns>>
Controller(ns) == <<"controller", ns>>
CustomController == <<"contract", "customController">>
NoOne == <<"none", "none">>

Names == Namespaces \X Labels
Root == <<>>
SpaceNode(ns) == <<ns>>
NodeSet == {Root} \cup {SpaceNode(ns) : ns \in Namespaces} \cup Names

NoSpace == [owner |-> NoOne, active |-> FALSE, blacklisted |-> FALSE,
            pricing |-> <<0, 0, 0>>,
            promo |-> [enabled |-> FALSE, discount |-> 0, starts |-> 0, ends |-> 0]]
NoToken == [holder |-> NoOne, expiry |-> 0]
NoApproval == [to |-> NoOne, tenure |-> 0]

(* After DeployANS: the deployer keeps the root node and makes the root     *)
(* registry its operator.                                                   *)
NameInit ==
    /\ clock = 1
    /\ nodes = [n \in NodeSet |-> [owner |-> IF n = Root THEN Governor ELSE NoOne,
                                   resolver |-> "unset"]]
    /\ operators = {<<Governor, RootContract>>}
    /\ spaces = [ns \in Namespaces |-> NoSpace]
    /\ tokens = [n \in Names |-> NoToken]
    /\ approvals = [n \in Names |-> NoApproval]
    /\ tenures = [n \in Names |-> 0]
    /\ tokenOperators = {}
    /\ controllers = [ns \in Namespaces |-> {}]
    /\ addrs = [n \in Names |-> NoOne]
    /\ revenue = [ns \in Namespaces |-> 0]
    /\ calls = 0
    /\ sender = NoOne

-----------------------------------------------------------------------------
(* ArcRegistry *)

(* _checkAuthorised: the owner of the node or an operator of that owner. *)
Authorised(node, account) ==
    nodes[node].owner = account \/ <<nodes[node].owner, account>> \in operators

(* setOwner, setResolver, setRecord. *)
SetRecord(account, node, owner, resolver) ==
    /\ Authorised(node, account)
    /\ nodes' = [nodes EXCEPT ![node] = [owner |-> owner, resolver |-> resolver]]
    /\ UNCHANGED <<clock, operators, spaces, tokens, approvalVars, controllers, addrs, revenue>>

(* setSubnodeOwner and setSubnodeRecord called on the root directly. *)
SetRootSubnode(account, ns, owner) ==
    /\ Authorised(Root, account)
    /\ nodes' = [nodes EXCEPT ![SpaceNode(ns)].owner = owner]
    /\ UNCHANGED <<clock, operators, spaces, tokens, approvalVars, controllers, addrs, revenue>>

SetApprovalForAll(account, operator, approved) ==
    /\ operator # account
    /\ operators' = IF approved THEN operators \cup {<<account, operator>>}
                    ELSE operators \ {<<account, operator>>}
    /\ UNCHANGED <<clock, nodes, spaces, tokens, approvalVars, controllers, addrs, revenue>>

(* PublicResolver.setAddr and clearRecords: whoever the registry authorises. *)
SetAddr(account, name, address) ==
    /\ nodes[name].owner # NoOne /\ Authorised(name, account)
    /\ addrs' = [addrs EXCEPT ![name] = address]
    /\ UNCHANGED <<clock, nodes, operators, spaces, tokens, approvalVars, controllers, revenue>>

-----------------------------------------------------------------------------
(* RootRegistry *)

ValidPricing(p) == p[1] >= p[2] /\ p[2] >= p[3]
ValidPromo(promo) ==
    /\ promo.discount <= MaxBps
    /\ promo.enabled /\ promo.ends # 0 => promo.starts < promo.ends

(* bootstrapArcNamespace and registerNamespace: the record, the prices and  *)
(* the promo, then the namespace's node goes to the new registrar and       *)
(* finalizeNamespace adds its controller and hands it over.  The root       *)
(* contract must own the root node, and the governor alone opens "arc".     *)
OpenNamespace(account, ns, owner, pricing, promo) ==
    /\ ns = "arc" => account = Governor
    /\ spaces[ns].owner = NoOne
    /\ ValidPricing(pricing) /\ ValidPromo(promo)
    /\ Authorised(Root, RootContract)
    /\ spaces' = [spaces EXCEPT ![ns] = [owner |-> owner, active |-> TRUE,
                                         blacklisted |-> FALSE, pricing |-> pricing,
                                         promo |-> promo]]
    /\ nodes' = [nodes EXCEPT ![SpaceNode(ns)] = [owner |-> Registrar(ns),
                                                  resolver |-> "defaultResolver"]]
    /\ controllers' = [controllers EXCEPT ![ns] = {Controller(ns)}]
    /\ UNCHANGED <<clock, operators, tokens, approvalVars, addrs, revenue>>

(* setNamespacePricing and setNamespacePromo: the governor, or the owner of *)
(* a namespace other than "arc".                                            *)
Manages(account, ns) == account = Governor \/ (ns # "arc" /\ account = spaces[ns].owner)

SetTerms(account, ns, pricing, promo) ==
    /\ spaces[ns].owner # NoOne /\ Manages(account, ns)
    /\ ValidPricing(pricing) /\ ValidPromo(promo)
    /\ spaces' = [spaces EXCEPT ![ns].pricing = pricing, ![ns].promo = promo]
    /\ UNCHANGED <<clock, nodes, operators, tokens, approvalVars, controllers, addrs, revenue>>

(* setNamespaceActive and setNamespaceBlacklist. *)
SetStanding(ns, active, blacklisted) ==
    /\ spaces[ns].owner # NoOne
    /\ spaces' = [spaces EXCEPT ![ns].active = active, ![ns].blacklisted = blacklisted]
    /\ UNCHANGED <<clock, nodes, operators, tokens, approvalVars, controllers, addrs, revenue>>

IsNamespaceActive(ns) ==
    spaces[ns].owner # NoOne /\ spaces[ns].active /\ ~spaces[ns].blacklisted

AnnualPrice(pricing, length) ==
    IF length = 3 THEN pricing[1] ELSE IF length = 4 THEN pricing[2] ELSE pricing[3]

IsPromoActive(promo) ==
    /\ promo.enabled
    /\ promo.starts # 0 => clock >= promo.starts
    /\ promo.ends # 0 => clock <= promo.ends

MulDivUp(x, y, unit) == (x * y + unit - 1) \div unit

(* rentPrice: the annual price for the length, pro rata and rounded up,     *)
(* less the promo's discount rounded down.                                  *)
Rent(annual, duration, discount) ==
    LET base == MulDivUp(annual, duration, Year)
    IN  base - (base * discount) \div MaxBps

RentPrice(ns, length, duration) ==
    LET promo == spaces[ns].promo
    IN  Rent(AnnualPrice(spaces[ns].pricing, length), duration,
             IF IsPromoActive(promo) THEN promo.discount ELSE 0)

-----------------------------------------------------------------------------
(* NamespaceRegistrar and NamespaceController *)

Live(name) == tokens[name].expiry > clock

(* variant: a name is free as soon as it expires. *)
AvailableOnExpiry(name) == tokens[name].expiry = 0 \/ tokens[name].expiry < clock

Available(name) == tokens[name].expiry = 0 \/ tokens[name].expiry + Grace < clock

(* _register and _update: burn the expired token, which clears its          *)
(* approval, mint the new one and make the registry follow; the registrar   *)
(* must own its base node.                                                  *)
Mint(name, owner, duration, resolver) ==
    /\ Available(name)
    /\ Authorised(SpaceNode(name[1]), Registrar(name[1]))
    /\ tokens' = [tokens EXCEPT ![name] = [holder |-> owner, expiry |-> clock + duration]]
    /\ approvals' = [approvals EXCEPT ![name] = NoApproval]
    /\ tenures' = [tenures EXCEPT ![name] = @ + 1]
    /\ nodes' = [nodes EXCEPT ![name] = [owner |-> owner,
                     resolver |-> IF resolver = "unset" THEN nodes[name].resolver ELSE resolver]]

(* register: the rent goes to the vault; with a resolver or an address the  *)
(* controller mints to itself, writes the records and hands the name over,  *)
(* without either the node keeps the records of an earlier holder.          *)
Register(name, owner, duration, resolver, address) ==
    LET ns == name[1]
        effective == IF resolver = "unset" /\ address # NoOne THEN "defaultResolver"
                     ELSE resolver
    IN  /\ LengthOf[name[2]] >= 3
        /\ IsNamespaceActive(ns)
        /\ Controller(ns) \in controllers[ns]
        /\ Mint(name, owner, duration, effective)
        /\ addrs' = IF address = NoOne THEN addrs ELSE [addrs EXCEPT ![name] = address]
        /\ revenue' = [revenue EXCEPT ![ns] = @ + RentPrice(ns, LengthOf[name[2]], duration)]
        /\ UNCHANGED <<clock, operators, spaces, tokenOperators, controllers>>

(* A controller the namespace owner added mints without rent. *)
RegisterCustom(name, owner, duration) ==
    /\ CustomController \in controllers[name[1]]
    /\ Mint(name, owner, duration, "unset")
    /\ UNCHANGED <<clock, operators, spaces, tokenOperators, controllers, addrs, revenue>>

Renewable(name) == tokens[name].expiry # 0 /\ tokens[name].expiry + Grace >= clock

(* renew: anyone may pay until the grace period ends. *)
Renew(name, duration) ==
    LET ns == name[1]
    IN  /\ IsNamespaceActive(ns)
        /\ Controller(ns) \in controllers[ns]
        /\ Renewable(name)
        /\ tokens[name].expiry + duration <= MaxTime + 1
        /\ tokens' = [tokens EXCEPT ![name].expiry = @ + duration]
        /\ revenue' = [revenue EXCEPT ![ns] = @ + RentPrice(ns, LengthOf[name[2]], duration)]
        /\ UNCHANGED <<clock, nodes, operators, spaces, approvalVars, controllers, addrs>>

(* ERC-721 (external).  approve: by the holder or an operator of the        *)
(* holder, on an expired token too; setApprovalForAll: per registrar.       *)
Appointed(account, name) ==
    \/ account = tokens[name].holder
    \/ <<name[1], tokens[name].holder, account>> \in tokenOperators

ApproveToken(account, name, to) ==
    /\ tokens[name].holder # NoOne /\ Appointed(account, name)
    /\ approvals' = [approvals EXCEPT ![name] = [to |-> to, tenure |-> tenures[name]]]
    /\ UNCHANGED <<clock, nodes, operators, spaces, tokens, tenures, tokenOperators, controllers,
                   addrs, revenue>>

SetTokenOperator(account, ns, operator, approved) ==
    /\ spaces[ns].owner # NoOne    \* the registrar is deployed
    /\ tokenOperators' = IF approved THEN tokenOperators \cup {<<ns, account, operator>>}
                         ELSE tokenOperators \ {<<ns, account, operator>>}
    /\ UNCHANGED <<clock, nodes, operators, spaces, tokens, approvals, tenures, controllers,
                   addrs, revenue>>

(* _isAuthorized *)
IsAuthorized(account, name) == Appointed(account, name) \/ approvals[name].to = account

(* transferFrom and safeTransferFrom: _update refuses an expired token and  *)
(* clears the approval.                                                     *)
TransferName(account, name, to) ==
    /\ Live(name) /\ IsAuthorized(account, name)
    /\ Authorised(SpaceNode(name[1]), Registrar(name[1]))
    /\ tokens' = [tokens EXCEPT ![name].holder = to]
    /\ approvals' = [approvals EXCEPT ![name] = NoApproval]
    /\ tenures' = [tenures EXCEPT ![name] = @ + 1]
    /\ nodes' = [nodes EXCEPT ![name].owner = to]
    /\ UNCHANGED <<clock, operators, spaces, tokenOperators, controllers, addrs, revenue>>

Reclaim(account, name, to) ==
    /\ Live(name) /\ IsAuthorized(account, name)
    /\ Authorised(SpaceNode(name[1]), Registrar(name[1]))
    /\ nodes' = [nodes EXCEPT ![name].owner = to]
    /\ UNCHANGED <<clock, operators, spaces, tokens, approvalVars, controllers, addrs, revenue>>

(* addController and removeController: the registrar's owner, which is the  *)
(* namespace's owner once finalizeNamespace has run.                        *)
SetControllers(account, ns, set) ==
    /\ spaces[ns].owner = account
    /\ controllers' = [controllers EXCEPT ![ns] = set]
    /\ UNCHANGED <<clock, nodes, operators, spaces, tokens, approvalVars, addrs, revenue>>

Tick ==
    /\ clock < MaxTime
    /\ clock' = clock + 1
    /\ UNCHANGED <<calls, sender, nodes, operators, spaces, tokens, approvalVars, controllers,
                   addrs, revenue>>

PriceTables == {<<a, b, c>> : a \in Prices, b \in Prices, c \in Prices}

RegistryWrite(a) ==
    \/ \E node \in Names, owner \in People, r \in {"unset", "otherResolver"} :
          SetRecord(a, node, owner, r)
    \/ \E ns \in Namespaces, owner \in People : SetRootSubnode(a, ns, owner)

TokenCall(a) ==
    \/ \E name \in Names, to \in People : TransferName(a, name, to) \/ Reclaim(a, name, to)
    \/ \E name \in Names, to \in People \cup {NoOne} : ApproveToken(a, name, to)
    \/ \E ns \in Namespaces, b \in People, approved \in BOOLEAN :
          SetTokenOperator(a, ns, b, approved)

Transact ==
    \/ \E a, owner \in People, ns \in Namespaces, pricing \in PriceTables, promo \in Promos :
          OpenNamespace(a, ns, owner, pricing, promo) \/ SetTerms(a, ns, pricing, promo)
    \/ \E a, b \in People, approved \in BOOLEAN : SetApprovalForAll(a, b, approved)
    \/ \E ns \in Namespaces, active, black \in BOOLEAN : SetStanding(ns, active, black)
    \/ \E a, b \in People, name \in Names : SetAddr(a, name, b)
    \/ \E name \in Names, owner \in People, d \in Durations :
          \/ RegisterCustom(name, owner, d)
          \/ Renew(name, d)
          \/ (\E r \in {"unset", "otherResolver"}, address \in {NoOne, owner} :
                Register(name, owner, d, r, address))
    \/ \E a \in People, ns \in Namespaces :
          \E set \in SUBSET {Controller(ns), CustomController} : SetControllers(a, ns, set)

NameNext ==
    \/ /\ calls < MaxCalls /\ calls' = calls + 1
       /\ \/ Transact /\ sender' = NoOne
          \/ (\E a \in People : (RegistryWrite(a) \/ TokenCall(a)) /\ sender' = a)
    \/ Tick

NameSpec == NameInit /\ [][NameNext]_nameVars

-----------------------------------------------------------------------------
(* Properties *)

(* A rented name leaves its holder only while it is live and by the hand of *)
(* the holder, an operator the holder appointed in that registrar, or the   *)
(* account approved for it since it last changed hands, or else by a        *)
(* registration after its expiry and the whole grace period, whichever      *)
(* controller registers: no approval outlives a transfer or a burn.         *)
HeldUntilGraceEnds(n) ==
    (tokens[n].holder # NoOne /\ tokens'[n].holder # tokens[n].holder) =>
        \/ tokens[n].expiry + Grace < clock
        \/ /\ Live(n) /\ sender' # NoOne
           /\ \/ Appointed(sender', n)
              \/ approvals[n] = [to |-> sender', tenure |-> tenures[n]]

(* A namespace's node leaves its registrar only by the hand of the owner of *)
(* the root node or of an operator that owner approved: no other namespace, *)
(* name holder or operator of theirs reaches it.                            *)
NamespaceIsIsolated(ns) ==
    (/\ nodes[SpaceNode(ns)].owner = Registrar(ns)
     /\ nodes'[SpaceNode(ns)].owner # Registrar(ns)) =>
        \/ sender' = nodes[Root].owner
        \/ <<nodes[Root].owner, sender'>> \in operators

(* What a holder rents and what a namespace controls stays theirs, whatever *)
(* the others call and however time passes.                                 *)
NamesStayTheirs ==
    [][/\ \A n \in Names : HeldUntilGraceEnds(n)
       /\ \A ns \in Namespaces : NamespaceIsIsolated(ns)]_nameVars
=============================================================================
