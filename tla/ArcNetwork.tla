----------------------------- MODULE ArcNetwork -----------------------------
(***************************************************************************)
(* What a WizPay process accepts: the resource registry of                  *)
(* packages/arc-network, the environment checks a backend runs before it    *)
(* starts, the capabilities it resolves, and the decisions that             *)
(* PaymentRoutingService and CapabilityService then make per request.       *)
(* Addresses are modelled by what the code tells apart: the two configured  *)
(* tokens, another well-formed address, the zero address and a malformed or *)
(* padded string.  A thrown error is modelled by its code.                  *)
(***************************************************************************)
EXTENDS Naturals, FiniteSets

VARIABLES
    phase,      \* "down", "running" or "refused"
    environ,    \* the environment the process was started with
    caps,       \* the capabilities it resolved
    served      \* the last request and its answer

arcVars == <<phase, environ, caps, served>>

-----------------------------------------------------------------------------
(* The registry. *)

ArcResources ==
    [rpc |-> "available", explorer |-> "available", USDC |-> "available",
     EURC |-> "available", tokenMessengerV2 |-> "available",
     messageTransmitterV2 |-> "available", irisApi |-> "available",
     wizpay |-> "available", swapExecutorV2 |-> "unavailable",
     swapExecutorMainnet |-> "available"]

(* The Uniswap contracts are published, never available. *)
ProtocolContracts ==
    [c \in {"v3CoreFactory", "multicall", "v3Quoter", "nonfungiblePositionManager",
            "tickLens", "swapRouter02", "poolManager", "positionManager", "stateView",
            "quoter", "universalRouter", "permit2"} |-> "published"]

UniswapCapabilities ==
    [poolKey |-> "candidate", poolId |-> "candidate", poolUniqueness |-> "unavailable",
     liquidity |-> "unavailable", rpcQuorum |-> "unavailable",
     officialResourceEvidence |-> "verified", executionAuthorization |-> "unavailable"]

(* requireAvailableArcResource: only "available" carries an executable      *)
(* value.                                                                   *)
IsAvailable(status) == status = "available"

(* getArcMainnetUniswapV4Readiness *)
UniswapV4Readiness ==
    [blockers |-> {k \in DOMAIN UniswapCapabilities : UniswapCapabilities[k] = "unavailable"},
     executable |-> FALSE]

(* getArcOperationResourceReadiness *)
Ready(names) == \A n \in names : IsAvailable(ArcResources[n])
OperationReadiness ==
    LET swapDirect == Ready({"rpc", "USDC", "EURC"})
                      /\ (Ready({"swapExecutorV2"}) \/ Ready({"swapExecutorMainnet"}))
    IN  [send |-> Ready({"rpc", "explorer", "USDC"}),
         sameTokenPayroll |-> Ready({"rpc", "USDC", "wizpay"}),
         invoice |-> Ready({"USDC"}),
         paymentLink |-> Ready({"rpc", "USDC"}),
         bridge |-> Ready({"rpc", "USDC", "tokenMessengerV2", "messageTransmitterV2",
                           "irisApi"}),
         swap |-> swapDirect,
         crossTokenPayroll |-> swapDirect /\ Ready({"wizpay"})]

-----------------------------------------------------------------------------
(* Capabilities. *)

CapabilityNames == {"send", "sameTokenPayroll", "invoice", "paymentLink", "liquidity",
                    "bridge", "swap", "crossTokenPayroll", "crossTokenInvoice",
                    "nanoAgentApi"}
MainnetConfigurable == {"send", "sameTokenPayroll", "invoice", "paymentLink", "bridge",
                        "swap", "crossTokenPayroll"}

(* An environment: the settings start-up looks at.  "flags" gives the       *)
(* capability variables that are set.                                       *)
Baseline ==
    [network |-> "arc-mainnet", workerNetwork |-> "unset", stray |-> "none",
     database |-> "host", redis |-> "host", queuePrefix |-> "scoped",
     legacyValue |-> "unset", docker |-> FALSE, strayFlag |-> FALSE,
     flags |-> [c \in CapabilityNames |-> "unset"]]

(* resolveArcCapabilities: the flags that are on, once none of its checks   *)
(* stops start-up.                                                          *)
FlagsOn(env) == {c \in CapabilityNames : env.flags[c] = "true"}
FlagsAcceptedAlone(env) ==  \* variant: crossTokenPayroll no longer requires swap
    /\ env.network = "arc-mainnet" /\ ~env.strayFlag
    /\ \A c \in CapabilityNames : env.flags[c] \in {"unset", "true", "false"}
    /\ FlagsOn(env) \subseteq MainnetConfigurable
    /\ \A c \in FlagsOn(env) : OperationReadiness[c]
FlagsAccepted(env) ==
    /\ env.network = "arc-mainnet" /\ ~env.strayFlag
    /\ \A c \in CapabilityNames : env.flags[c] \in {"unset", "true", "false"}
    /\ FlagsOn(env) \subseteq MainnetConfigurable
    /\ \A c \in FlagsOn(env) : OperationReadiness[c]
    /\ "crossTokenPayroll" \in FlagsOn(env) => "swap" \in FlagsOn(env)

-----------------------------------------------------------------------------
(* Start-up. *)

NormalizeHosts(env) ==
    IF env.docker THEN env
    ELSE [env EXCEPT !.database = IF @ = "compose" THEN "host" ELSE @,
                     !.redis = IF @ = "compose" THEN "host" ELSE @]

(* assertRuntimeIdentityAgreement *)
IdentityAgrees(env) == env.workerNetwork \in {"unset", "arc-mainnet"}

(* The forbidden groups: unscoped runtime keys, TESTNET keys, CIRCLE keys   *)
(* and manifest keys.                                                       *)
NoStrayKeys(env) == env.stray = "none"

(* parseDatabaseTarget, parseRedisTarget and requireQueuePrefix. *)
TargetsParse(env) ==
    /\ env.database \in {"host", "compose"}
    /\ env.redis \in {"host", "compose"}
    /\ env.queuePrefix = "scoped"

(* resolveRuntimeIsolationConfiguration *)
IsIsolated(env) ==
    env.network = "arc-mainnet" /\ IdentityAgrees(env) /\ NoStrayKeys(env) /\ TargetsParse(env)

(* RPC_URL, CHAIN_ID and the contract variables, when set, must equal the   *)
(* registry's values.                                                       *)
LegacyAgrees(env) == env.legacyValue \in {"unset", "registry"}

(* loadBackendArcNetworkConfiguration: RPC, explorer and USDC must be       *)
(* available.                                                               *)
NetworkConfigured(env) ==
    /\ env.network = "arc-mainnet"
    /\ Ready({"rpc", "explorer", "USDC"})
    /\ LegacyAgrees(env)

ConfiguredTokens == {t \in {"USDC", "EURC"} : IsAvailable(ArcResources[t])}
ConfiguredContracts ==
    {c \in {"wizpay", "swapExecutorV2", "swapExecutorMainnet"} : IsAvailable(ArcResources[c])}

(* The environments tried: a working one with at most two settings changed, *)
(* or with any set of capability flags.                                     *)
FieldValues ==
    [network |-> {"arc-mainnet", "other", "unset"},
     workerNetwork |-> {"unset", "arc-mainnet", "other"},
     stray |-> {"none", "unscoped", "TESTNET", "CIRCLE", "manifest"},
     database |-> {"host", "compose", "missing", "malformed"},
     redis |-> {"host", "compose", "missing", "malformed"},
     queuePrefix |-> {"scoped", "generic", "missing"},
     legacyValue |-> {"unset", "registry", "other"},
     docker |-> BOOLEAN, strayFlag |-> BOOLEAN]
Flags(on, how) == [c \in CapabilityNames |-> IF c \in on THEN how ELSE "unset"]
WithFields(f, v, g, u) == [Baseline EXCEPT ![f] = v, ![g] = u]
Environments ==
    UNION {{WithFields(f, v, g, u) : v \in FieldValues[f], u \in FieldValues[g]} :
              f \in DOMAIN FieldValues, g \in DOMAIN FieldValues}
    \cup {[Baseline EXCEPT !.flags = Flags(on, "true")] : on \in SUBSET CapabilityNames}
    \cup {[Baseline EXCEPT !.flags = Flags({c}, how)] :
              c \in CapabilityNames, how \in {"false", "other"}}

NoRequest == [kind |-> "none", answer |-> "none"]

ArcInit ==
    /\ phase = "down"
    /\ environ = Baseline
    /\ caps = {}
    /\ served = NoRequest

(* validateEnvironment, then the configuration factory. *)
Boot(env) ==
    /\ phase = "down"
    /\ environ' = NormalizeHosts(env)
    /\ IF FlagsAccepted(environ') /\ IsIsolated(environ') /\ NetworkConfigured(environ')
       THEN phase' = "running" /\ caps' = FlagsOn(environ')
       ELSE phase' = "refused" /\ caps' = {}
    /\ UNCHANGED served

-----------------------------------------------------------------------------
(* PaymentRoutingService. *)

TokenValues == {"USDC", "EURC", "unknown", "zero", "malformed"}
Operations == {"SEND", "PAYROLL", "INVOICE", "PAYMENT_LINK"}

(* identifyToken and parseAddress *)
IdentifyToken(value) ==
    IF value \in {"zero", "malformed"} THEN "INVALID_TOKEN"
    ELSE IF value \in ConfiguredTokens THEN value ELSE "UNSUPPORTED_TOKEN"
IsToken(value) == IdentifyToken(value) = value

DirectCapability(op) ==
    [SEND |-> "send", PAYROLL |-> "sameTokenPayroll", INVOICE |-> "invoice",
     PAYMENT_LINK |-> "paymentLink"][op]
CrossTokenCapability(op) ==
    IF op = "PAYROLL" THEN "crossTokenPayroll"
    ELSE IF op = "SEND" THEN "swap" ELSE "crossTokenInvoice"

(* decide: the kind of route, or the error. *)
Decide(op, tokenIn, tokenOut) ==
    IF ~IsToken(tokenIn) THEN IdentifyToken(tokenIn)
    ELSE IF ~IsToken(tokenOut) THEN IdentifyToken(tokenOut)
    ELSE IF tokenIn = tokenOut THEN "DIRECT_TRANSFER"
    ELSE IF CrossTokenCapability(op) \in caps THEN "CROSS_TOKEN_ATOMIC"
    ELSE "CROSS_TOKEN_DISABLED"

-----------------------------------------------------------------------------
(* CapabilityService: "ok" or the error. *)

AssertExecution(name) ==
    IF name \notin CapabilityNames THEN "UNKNOWN_CAPABILITY"
    ELSE IF name \in caps THEN "ok" ELSE "CAPABILITY_DISABLED"

(* assertPaymentDecision over routing.assertExecutable *)
AssertPayment(op, tokenIn, tokenOut) ==
    LET kind == Decide(op, tokenIn, tokenOut) IN
    CASE kind = "DIRECT_TRANSFER" -> AssertExecution(DirectCapability(op))
      [] kind = "CROSS_TOKEN_ATOMIC" -> "ok"
      [] OTHER -> kind

(* assertPayroll: every recipient, in order; "absent" inherits the source.  *)
AssertPayroll(source, targets) ==
    LET answers == [i \in DOMAIN targets |->
                      AssertPayment("PAYROLL", source,
                                    IF targets[i] = "absent" THEN source ELSE targets[i])]
        failing == {i \in DOMAIN targets : answers[i] # "ok"}
    IN  IF source = "absent" \/ DOMAIN targets = {} THEN "CONTEXT_REQUIRED"
        ELSE IF failing = {} THEN "ok"
        ELSE answers[CHOOSE i \in failing : \A j \in failing : i <= j]

(* assertPayrollApproval: the token approved, and whom the call data names. *)
AssertPayrollApproval(token, spender) ==
    IF ~IsToken(token) \/ spender # "wizpay" \/ "wizpay" \notin ConfiguredContracts
    THEN "CONTEXT_REQUIRED"
    ELSE IF "sameTokenPayroll" \in caps THEN "ok" ELSE AssertExecution("crossTokenPayroll")

(* assertPayrollCall and assertMainnetPayrollCall, assertSwapCall: the      *)
(* contract called, the function the call data decodes to and its tokens.   *)
AssertPayrollCall(contract, fn, tokenIn, tokenOut) ==
    IF contract # "wizpay" \/ "wizpay" \notin ConfiguredContracts THEN "CONTEXT_REQUIRED"
    ELSE CASE fn = "executeSameTokenPayroll" -> AssertPayment("PAYROLL", tokenIn, tokenIn)
           [] fn = "executeCrossTokenPayroll" -> AssertPayment("PAYROLL", tokenIn, tokenOut)
           [] OTHER -> "CONTEXT_REQUIRED"

AssertSwapCall(contract, fn, tokenIn, tokenOut) ==
    IF AssertExecution("swap") # "ok" THEN AssertExecution("swap")
    ELSE IF contract # "swapExecutorMainnet" \/ fn # "executeSwap"
            \/ "swapExecutorMainnet" \notin ConfiguredContracts
    THEN "CONTEXT_REQUIRED"
    ELSE AssertPayment("SEND", tokenIn, tokenOut)

Payrolls == {<<>>} \cup {<<t>> : t \in TokenValues \cup {"absent"}}
            \cup {<<t, u>> : t, u \in {"USDC", "EURC", "absent"}}

Requests ==
    [kind : {"feature"}, name : CapabilityNames \cup {"unheardOf"}]
    \cup [kind : {"payment"}, op : Operations, tokenIn : TokenValues, tokenOut : TokenValues]
    \cup [kind : {"payroll"}, source : {"USDC", "EURC", "absent"}, targets : Payrolls]
    \cup [kind : {"approval"}, token : TokenValues, spender : {"wizpay", "other"}]
    \cup [kind : {"call"}, contract : {"wizpay", "swapExecutorMainnet", "other"},
          fn : {"executeSameTokenPayroll", "executeCrossTokenPayroll", "executeSwap"},
          tokenIn : {"USDC", "EURC"}, tokenOut : {"USDC", "EURC", "unknown"}]

Answer(r) ==
    CASE r.kind = "feature" -> AssertExecution(r.name)
      [] r.kind = "payment" -> AssertPayment(r.op, r.tokenIn, r.tokenOut)
      [] r.kind = "payroll" -> AssertPayroll(r.source, r.targets)
      [] r.kind = "approval" -> AssertPayrollApproval(r.token, r.spender)
      [] r.kind = "call" ->
            IF r.fn = "executeSwap" THEN AssertSwapCall(r.contract, r.fn, r.tokenIn, r.tokenOut)
            ELSE AssertPayrollCall(r.contract, r.fn, r.tokenIn, r.tokenOut)

Serve(r) ==
    /\ phase = "running"
    /\ served' = [kind |-> r.kind, answer |-> Answer(r)]
    /\ UNCHANGED <<phase, environ, caps>>

ArcNext ==
    \/ \E env \in Environments : Boot(env)
    \/ \E r \in Requests : Serve(r)

ArcSpec == ArcInit /\ [][ArcNext]_arcVars

-----------------------------------------------------------------------------
ArcTypeOK ==
    /\ phase \in {"down", "running", "refused"}
    /\ DOMAIN environ = DOMAIN Baseline
    /\ caps \subseteq CapabilityNames
    /\ served.answer \in {"none", "ok", "UNKNOWN_CAPABILITY", "CAPABILITY_DISABLED",
                          "INVALID_TOKEN", "UNSUPPORTED_TOKEN", "CROSS_TOKEN_DISABLED",
                          "CONTEXT_REQUIRED"}

(* What a request with the two configured tokens needs: a payment that      *)
(* changes the token is a conversion, and a conversion always needs swap.   *)
Converts(r) ==
    CASE r.kind = "payment" -> r.tokenIn # r.tokenOut
      [] r.kind = "payroll" -> \E i \in DOMAIN r.targets : r.targets[i] \notin {r.source, "absent"}
      [] r.kind = "call" -> r.fn # "executeSameTokenPayroll" /\ r.tokenIn # r.tokenOut
      [] OTHER -> FALSE

(* Whatever flags a process was started with, it never lets a request that  *)
(* converts tokens through without the swap capability: the capability      *)
(* resolution at start-up, PaymentRoutingService.decide and the             *)
(* CapabilityService checks agree although each looks at different flags.   *)
ConversionNeedsSwap ==
    phase = "running" =>
        \A r \in Requests : Converts(r) /\ Answer(r) = "ok" => "swap" \in caps

(* A capability that is switched on is usable: every registry resource the  *)
(* requests it stands for depend on is configured in the started process.   *)
EnabledIsUsable ==
    phase = "running" =>
        /\ \A op \in Operations : DirectCapability(op) \in caps =>
              \A t \in {"USDC", "EURC"} : AssertPayment(op, t, t) = "ok"
        /\ "swap" \in caps =>
              AssertSwapCall("swapExecutorMainnet", "executeSwap", "USDC", "EURC") = "ok"
        /\ "crossTokenPayroll" \in caps =>
              AssertPayrollCall("wizpay", "executeCrossTokenPayroll", "USDC", "EURC") = "ok"

(* A process that starts outside Docker never keeps a Compose host name     *)
(* (normalizeMainnetRuntimeEnvironmentValues runs before the isolation      *)
(* checks, which would accept it).                                          *)
HostRunIsReachable ==
    phase = "running" /\ ~environ.docker =>
        environ.database # "compose" /\ environ.redis # "compose"

(* What a started process says it can do, it can do: conversions need the   *)
(* swap capability, enabled means configured, and a host run has reachable  *)
(* services.                                                                *)
CapabilitiesAreUsable ==
    /\ ArcTypeOK
    /\ ConversionNeedsSwap
    /\ EnabledIsUsable
    /\ HostRunIsReachable
=============================================================================
