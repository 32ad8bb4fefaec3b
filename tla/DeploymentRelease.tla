-------------------------- MODULE DeploymentRelease --------------------------
(***************************************************************************)
(* How WizPayMainnetV2 is released (packages/contracts/scripts): resources *)
(* are promoted, a plan is built from a fresh compilation at the audited   *)
(* commit, the Safe signs a record over the plan's digest, the preflight   *)
(* and, after the deployment, the verifier rebuild the plan, check the     *)
(* record and read the chain through two RPC endpoints.                    *)
(*                                                                         *)
(* Digests are injective, so a digest is the value it is taken of.  The    *)
(* deployment itself is external: the script entry point always reverts    *)
(* and the deployer may send any init code.  One of the two endpoints is   *)
(* honest, the other may answer anything, and which of them is the first   *)
(* is not known.                                                           *)
(*                                                                         *)
(* Beside it stands the candidate record of the Uniswap v4 pool the swaps  *)
(* would use (mainnet-uniswap-v4-pool-evidence): collected by hand through *)
(* the same kind of endpoints, and believed only if it validates.  The      *)
(* validator is offline and sees the file alone: a record of events nobody  *)
(* emitted, or edited consistently by hand, validates too.                  *)
(***************************************************************************)
EXTENDS Naturals, Sequences, FiniteSets

CONSTANTS
    Codes,          \* versions of the contract source
    FeeRates,       \* the fee rates an input may name
    MaxCommits,     \* bound on the commits of a history
    MaxClock,       \* bound on the clock the records expire by
    MaxForks,       \* bound on reorganisations of the chain
    MaxUpsets,      \* bound on edits, commits, demotions, reorganisations,
                    \* owner calls and clock ticks in one history
    ScanEndpoints,  \* RPC endpoints the pool is scanned through
    PoolKeys,       \* pools of the two tokens
    MaxRanges,      \* bound: block ranges of the chain
    MaxPoolEdits    \* bound: edits of the pool's record by hand

ASSUME ReleaseAssumption ==
    /\ Codes # {} /\ FeeRates # {}
    /\ MaxCommits \in Nat /\ MaxClock \in Nat
    /\ MaxForks \in Nat /\ MaxUpsets \in Nat
    /\ ScanEndpoints # {} /\ MaxRanges \in Nat /\ MaxPoolEdits \in Nat

VARIABLES
    repo,       \* HEAD, the source committed there, the worktree, the record's place
    resources,  \* state of the mandatory resources in the manifest
    input,      \* the deployment input file
    record,     \* the authorization evidence file
    plan,       \* the plan file last written
    releaseClock,
    chain,      \* the honest view: the deployment transaction and the contract
    check,      \* the preflight or verification in progress
    results,    \* preflight and verification outputs
    upsets,     \* steps taken against MaxUpsets
    poolChain,  \* for each range of blocks the pools initialised in it
    scan,       \* the collection of the pool's evidence
    evidenceFile, \* the record, its digest; ghost: how often it was edited by hand
    accepted    \* the record, once it has validated as it is

relVars == <<repo, resources, input, record, plan, releaseClock, chain, check, results,
            upsets>>
poolVars == <<poolChain, scan, evidenceFile, accepted>>

Commits == 0 .. MaxCommits
Cores == [commit : Commits, code : Codes, fee : FeeRates]
InitCodes == [code : Codes, fee : FeeRates]
InitCodeOf(core) == [code |-> core.code, fee |-> core.fee]
None == [none |-> TRUE]
NoTx == [none |-> TRUE]
Records == [payload : Cores, signed : Cores, expires : 0 .. MaxClock]
Plans == [core : Cores, authorized : {None} \cup Records]
ReleaseTransactions == [init : InitCodes, block : 0 .. MaxForks]
ReleasedContracts == [init : InitCodes, paused : BOOLEAN, fee : FeeRates]
Checks == [kind : {"idle"}]
          \cup [kind : {"preflight"}, at : {"sample", "chain"}, core : Cores]
          \cup [kind : {"verify"}, at : {"receipt"}, core : Cores]
          \cup [kind : {"verify"}, at : {"confirm", "canonical", "stable", "state"},
                core : Cores, tx : ReleaseTransactions]
NoCheckUnderWay == [kind |-> "idle"]
ResourceStates == {"unavailable", "candidate", "official"}

RelInit ==
    /\ repo \in [head : {0}, code : Codes, work : Codes, record : {"untracked"}]
    /\ repo.code = repo.work
    /\ resources = "candidate"
    /\ input = None /\ record = None /\ plan = None
    /\ releaseClock = 0
    /\ chain = [tx |-> NoTx, contract |-> NoTx, mined |-> {}, forks |-> 0]
    /\ check = NoCheckUnderWay
    /\ results = [preflight |-> None, verified |-> None]
    /\ upsets = 0

Upset == upsets < MaxUpsets /\ upsets' = upsets + 1
Calm == UNCHANGED upsets

-----------------------------------------------------------------------------
(* The repository, its files and the people who edit them. *)

Edit(c) ==
    /\ Upset
    /\ repo' = [repo EXCEPT !.work = c]
    /\ UNCHANGED <<resources, input, record, plan, releaseClock, chain, check, results>>

\* A commit moves HEAD and takes the staged record with it.
Commit ==
    /\ Upset
    /\ repo.head < MaxCommits
    /\ repo' = [repo EXCEPT !.head = @ + 1, !.code = repo.work,
                            !.record = IF @ = "staged" THEN "committed" ELSE @]
    /\ UNCHANGED <<resources, input, record, plan, releaseClock, chain, check, results>>

StageRecord ==
    /\ Calm
    /\ record # None /\ repo.record = "untracked"
    /\ repo' = [repo EXCEPT !.record = "staged"]
    /\ UNCHANGED <<resources, input, record, plan, releaseClock, chain, check, results>>

Transitions == {<<"unavailable", "candidate">>, <<"candidate", "official">>,
                <<"candidate", "unavailable">>, <<"official", "unavailable">>}

\* An official resource must reconcile with a tracked authoritative record.
AssertResourceTransition(next) ==
    /\ <<resources, next>> \in Transitions
    /\ IF next = "unavailable" THEN Upset ELSE Calm
    /\ resources' = next
    /\ UNCHANGED <<repo, input, record, plan, releaseClock, chain, check, results>>

ValidateDeploymentInput(fee, evidence) ==
    /\ Calm
    /\ input' = [audited |-> repo.head, fee |-> fee, evidence |-> evidence]
    /\ UNCHANGED <<repo, resources, record, plan, releaseClock, chain, check, results>>

-----------------------------------------------------------------------------
(* Plan and authorization. *)

\* loadAuthorizationEvidence: the file must be listed by git ls-files.
Loadable == record # None /\ repo.record # "untracked"

\* The compilation is of the worktree, the commit named is HEAD.
FreshCore == [commit |-> repo.head, code |-> repo.work, fee |-> input.fee]

CanBuild ==
    /\ input # None
    /\ input.audited = repo.head
    /\ input.evidence => Loadable

FreshPlan == [core |-> FreshCore,
              authorized |-> IF input.evidence THEN record ELSE None]

\* The plan's digest covers the core and not the authorization.
BuildDeploymentPlan ==
    /\ Calm
    /\ CanBuild
    /\ plan' = FreshPlan
    /\ UNCHANGED <<repo, resources, input, record, releaseClock, chain, check, results>>

\* A file that HEAD holds and the worktree changes is still tracked.
Rewritten == [repo EXCEPT !.record = IF @ = "committed" THEN "staged" ELSE @]

\* The owners of the Safe sign the payload of the plan they are shown; the
\* expiry is a field of the record beside the payload.
SignRecord(expires) ==
    /\ Calm
    /\ plan # None
    /\ record' = [payload |-> plan.core, signed |-> plan.core, expires |-> expires]
    /\ repo' = Rewritten
    /\ UNCHANGED <<resources, input, plan, releaseClock, chain, check, results>>

\* Somebody edits the record for the current plan, keeping the signature.
RebindRecord ==
    /\ Upset
    /\ record # None /\ plan # None
    /\ record' = [record EXCEPT !.payload = plan.core]
    /\ repo' = Rewritten
    /\ UNCHANGED <<resources, input, plan, releaseClock, chain, check, results>>

\* isValidSignature of the Safe over the payload, asked of both endpoints.
SafeSignatureIsValid(r) == r.payload = r.signed

\* verifyAuthorizationEvidence.
Authorizes(p) ==
    /\ p.authorized # None
    /\ p.authorized = record /\ Loadable
    /\ p.authorized.expires > releaseClock
    /\ p.authorized.payload = p.core
    /\ SafeSignatureIsValid(p.authorized)

\* validateResourceManifest with requireOfficial, assertPlanMatchesFreshInputs.
InputsHold ==
    /\ resources = "official"
    /\ plan # None /\ CanBuild
    /\ plan = FreshPlan

-----------------------------------------------------------------------------
(* Two endpoints, one of them honest. *)

Answers(honest, possible) ==
    {<<honest, x>> : x \in possible} \cup {<<x, honest>> : x \in possible}

\* variant: the first endpoint is believed.
FirstOnly(pair) == TRUE

Same(pair) == pair[1] = pair[2]

-----------------------------------------------------------------------------
(* The chain. *)

\* The deployer, outside the repository, sends whatever init code it has.
SendDeployment(init) ==
    /\ Calm
    /\ chain.tx = NoTx
    /\ chain' = [chain EXCEPT
                   !.tx = [init |-> init, block |-> chain.forks],
                   !.contract = [init |-> init, paused |-> FALSE, fee |-> init.fee],
                   !.mined = @ \cup {init}]
    /\ UNCHANGED <<repo, resources, input, record, plan, releaseClock, check, results>>

\* The block is replaced: the transaction is dropped or mined in another one.
Reorganise ==
    /\ Upset
    /\ chain.forks < MaxForks /\ chain.tx # NoTx
    /\ \/ chain' = [chain EXCEPT !.forks = @ + 1, !.tx = NoTx, !.contract = NoTx]
       \/ chain' = [chain EXCEPT !.forks = @ + 1, !.tx.block = chain.forks + 1]
    /\ UNCHANGED <<repo, resources, input, record, plan, releaseClock, check, results>>

\* The owner pauses the contract or changes its fee.
OwnerActs(paused, fee) ==
    /\ Upset
    /\ chain.contract # NoTx
    /\ chain' = [chain EXCEPT !.contract.paused = paused, !.contract.fee = fee]
    /\ UNCHANGED <<repo, resources, input, record, plan, releaseClock, check, results>>

PassTime ==
    /\ Upset
    /\ releaseClock < MaxClock
    /\ releaseClock' = releaseClock + 1
    /\ UNCHANGED <<repo, resources, input, record, plan, chain, check, results>>

-----------------------------------------------------------------------------
(* Preflight. *)

PreflightInputs ==
    /\ Calm
    /\ check = NoCheckUnderWay /\ InputsHold /\ Authorizes(plan)
    /\ check' = [kind |-> "preflight", at |-> "sample", core |-> plan.core]
    /\ UNCHANGED <<repo, resources, input, record, plan, releaseClock, chain, results>>

Advance(at) == check' = [check EXCEPT !.at = at]

\* Both endpoints advance, their tips are close and fresh and they agree on
\* the block the rest is read at; otherwise the preflight fails.
PreflightSample ==
    /\ Calm
    /\ check.kind = "preflight" /\ check.at = "sample"
    /\ Advance("chain") \/ check' = NoCheckUnderWay
    /\ UNCHANGED <<repo, resources, input, record, plan, releaseClock, chain, results>>

\* USDC, gas, balance and nonce agree and pass at that block, or it fails.
PreflightChain ==
    /\ Calm
    /\ check.kind = "preflight" /\ check.at = "chain"
    /\ \/ results' = [results EXCEPT !.preflight = [core |-> check.core,
                                                    record |-> repo.record]]
       \/ results' = results
    /\ check' = NoCheckUnderWay
    /\ UNCHANGED <<repo, resources, input, record, plan, releaseClock, chain>>

-----------------------------------------------------------------------------
(* Verification of a deployment. *)

VerifyInputs ==
    /\ Calm
    /\ check = NoCheckUnderWay /\ InputsHold /\ Authorizes(plan)
    /\ check' = [kind |-> "verify", at |-> "receipt", core |-> plan.core]
    /\ UNCHANGED <<repo, resources, input, record, plan, releaseClock, chain, results>>

MatchesPlan(tx, core) == tx.init = InitCodeOf(core)

\* Receipt and transaction: successful, a creation by the deployer, of the
\* plan's init code at the derived address.
VerifyReceipt ==
    /\ Calm
    /\ check.kind = "verify" /\ check.at = "receipt"
    /\ \E answers \in Answers(chain.tx, {NoTx} \cup ReleaseTransactions) :
         LET tx == answers[1] IN
         check' = IF Same(answers) /\ tx # NoTx /\ MatchesPlan(tx, check.core)
                  THEN [kind |-> "verify", at |-> "confirm", core |-> check.core, tx |-> tx]
                  ELSE NoCheckUnderWay
    /\ UNCHANGED <<repo, resources, input, record, plan, releaseClock, chain, results>>

\* Both tips are close, fresh and far enough above the receipt's block.
VerifyConfirmations ==
    /\ Calm
    /\ check.kind = "verify" /\ check.at = "confirm"
    /\ Advance("canonical") \/ check' = NoCheckUnderWay
    /\ UNCHANGED <<repo, resources, input, record, plan, releaseClock, chain, results>>

CanonicalBlock == IF chain.tx = NoTx THEN chain.forks ELSE chain.tx.block

\* The receipt's block is read by number, and once more a second later.
VerifyCanonical ==
    /\ Calm
    /\ check.kind = "verify" /\ check.at \in {"canonical", "stable"}
    /\ \E answers \in Answers(CanonicalBlock, 0 .. MaxForks) :
         IF \A i \in 1 .. 2 : answers[i] = check.tx.block
         THEN Advance(IF check.at = "canonical" THEN "stable" ELSE "state")
         ELSE check' = NoCheckUnderWay
    /\ UNCHANGED <<repo, resources, input, record, plan, releaseClock, chain, results>>

\* Code, owner, fee and pause are read at one agreed block.
VerifyState ==
    /\ Calm
    /\ check.kind = "verify" /\ check.at = "state"
    /\ \E answers \in Answers(chain.contract, {NoTx} \cup ReleasedContracts) :
         LET c == answers[1] IN
         results' = IF /\ Same(answers) /\ c # NoTx
                       /\ c.init.code = check.core.code
                       /\ c.fee = check.core.fee /\ ~c.paused
                    THEN [results EXCEPT !.verified = [core |-> check.core,
                                                       tx |-> check.tx]]
                    ELSE results
    /\ check' = NoCheckUnderWay
    /\ UNCHANGED <<repo, resources, input, record, plan, releaseClock, chain>>

RelNext ==
    \/ (\E c \in Codes : Edit(c))
    \/ Commit \/ StageRecord
    \/ (\E s \in ResourceStates : AssertResourceTransition(s))
    \/ (\E f \in FeeRates, e \in BOOLEAN : ValidateDeploymentInput(f, e))
    \/ BuildDeploymentPlan
    \/ (\E e \in 0 .. MaxClock : SignRecord(e))
    \/ RebindRecord
    \/ (\E i \in InitCodes : SendDeployment(i))
    \/ Reorganise
    \/ (\E p \in BOOLEAN, f \in FeeRates : OwnerActs(p, f))
    \/ PassTime
    \/ PreflightInputs \/ PreflightSample \/ PreflightChain
    \/ VerifyInputs \/ VerifyReceipt \/ VerifyConfirmations
    \/ VerifyCanonical \/ VerifyState

RelSpec == RelInit /\ [][RelNext]_relVars

-----------------------------------------------------------------------------
(* The pool's evidence.  A pool identifier is the key it is hashed from.    *)
PoolDirections == {"USDC_TO_EURC", "EURC_TO_USDC"}
BlockHashes == {"canonical", "fork"}
Requirements == {"git tracking", "uniqueness scan", "authorization"}
CandidateOnly == [executable |-> FALSE, adopt |-> FALSE, unresolved |-> Requirements]
Candidates == [key : PoolKeys, id : PoolKeys]

PoolInit ==
    /\ poolChain = <<>>
    /\ \E honest \in ScanEndpoints :
         scan = [honest |-> honest, pin |-> 0, seen |-> [e \in ScanEndpoints |-> "canonical"],
                 done |-> [e \in ScanEndpoints |-> 0], found |-> {}, swapped |-> {}]
    /\ evidenceFile = None /\ accepted = None

InitializedUpTo(range) == UNION {poolChain[r] : r \in 1 .. range}

MineRange ==
    /\ Len(poolChain) < MaxRanges
    /\ \E pools \in SUBSET (PoolKeys \ InitializedUpTo(Len(poolChain))) :
         poolChain' = Append(poolChain, pools)
    /\ UNCHANGED <<scan, evidenceFile, accepted>>

\* A block is pinned, and every endpoint is asked for its hash.
PinBlock ==
    /\ scan.pin = 0 /\ Len(poolChain) > 0
    /\ \E seen \in [ScanEndpoints -> BlockHashes] :
         /\ seen[scan.honest] = "canonical"
         /\ scan' = [scan EXCEPT !.pin = Len(poolChain), !.seen = seen]
    /\ UNCHANGED <<poolChain, evidenceFile, accepted>>

\* Initialize events of the next range; an endpoint that is not honest may
\* leave some out and make others up.  A range that fails is asked for again.
ScanRange(e) ==
    /\ scan.done[e] < scan.pin
    /\ \E logs \in SUBSET PoolKeys :
         /\ e = scan.honest => logs = poolChain[scan.done[e] + 1]
         /\ scan' = [scan EXCEPT !.done[e] = @ + 1, !.found = @ \cup logs]
    /\ UNCHANGED <<poolChain, evidenceFile, accepted>>

\* A swap through the router, after the pinned block.
DirectSwap(d) ==
    /\ scan.pin > 0 /\ Len(poolChain) > scan.pin
    /\ scan' = [scan EXCEPT !.swapped = @ \cup {d}]
    /\ UNCHANGED <<poolChain, evidenceFile, accepted>>

\* The record is written down from the collection, whenever somebody wants.
RecordEvidence ==
    /\ scan.pin > 0
    /\ \E unique \in BOOLEAN, hash \in {scan.seen[e] : e \in ScanEndpoints} :
         LET body == [hash |-> hash, seen |-> scan.seen, ranges |-> scan.pin, done |-> scan.done,
                      unique |-> unique, candidates |-> {[key |-> k, id |-> k] : k \in scan.found},
                      swaps |-> scan.swapped, conclusions |-> CandidateOnly]
         IN  evidenceFile' = [body |-> body, digest |-> body, edits |-> 0]
    /\ accepted' = None
    /\ UNCHANGED <<poolChain, scan>>

\* What somebody may make of a record: another block or an endpoint's other
\* observation of it, another end or another count of the scan, a candidate more,
\* less or changed (its key, or its key and its ids), other swaps or conclusions.
Edits(body) ==
    {[body EXCEPT !.hash = h, !.seen = [e \in ScanEndpoints |-> h]] : h \in BlockHashes}
      \cup {[body EXCEPT !.seen[e] = h] : e \in ScanEndpoints, h \in BlockHashes}
      \cup {[body EXCEPT !.ranges = r] : r \in 1 .. MaxRanges}
      \cup {[body EXCEPT !.unique = u, !.done = d] :
               u \in BOOLEAN, d \in [ScanEndpoints -> {0, body.ranges}]}
      \cup {[body EXCEPT !.candidates = (@ \ {c}) \cup more] :
               c \in Candidates, more \in {{}} \cup {{d} : d \in Candidates}}
      \cup {[body EXCEPT !.swaps = s] : s \in SUBSET PoolDirections}
      \cup {[body EXCEPT !.conclusions = c] :
               c \in {[body.conclusions EXCEPT !.executable = TRUE],
                      [body.conclusions EXCEPT !.adopt = TRUE]}
                     \cup {[body.conclusions EXCEPT !.unresolved = @ \ {r}] : r \in Requirements}}

\* Somebody edits the record, and may redo the digest.
EditEvidence ==
    /\ evidenceFile # None /\ evidenceFile.edits < MaxPoolEdits
    /\ \E edited \in Edits(evidenceFile.body) :
         \E digest \in {evidenceFile.digest, edited} :
            evidenceFile' = [body |-> edited, digest |-> digest,
                             edits |-> evidenceFile.edits + 1]
    /\ accepted' = None
    /\ UNCHANGED <<poolChain, scan>>

AnyScan(body) == TRUE        \* variant: the claim is taken as it is written

ScanAgrees(body) ==
    body.unique <=> /\ Cardinality(ScanEndpoints) >= 2
                    /\ \A e \in ScanEndpoints : body.done[e] = body.ranges

RpcQuorum(body) ==
    /\ Cardinality(ScanEndpoints) >= 2
    /\ \A e \in ScanEndpoints : body.seen[e] = body.hash

CandidatesMatch(body) ==
    /\ body.candidates # {}
    /\ \A c \in body.candidates : c.id = c.key

SwapsMatch(body) == body.swaps = PoolDirections

\* A candidate only, with its requirements open: that of the scan even when
\* the record says the scan is complete.
ConclusionsFailClosed(body) ==
    /\ ~body.conclusions.executable /\ ~body.conclusions.adopt
    /\ Requirements \subseteq body.conclusions.unresolved

EvidenceDigest(file) == file.digest = file.body

\* validateMainnetUniswapV4PoolEvidence.
ValidateEvidence ==
    /\ evidenceFile # None
    /\ LET body == evidenceFile.body IN
       /\ ScanAgrees(body) /\ RpcQuorum(body) /\ CandidatesMatch(body) /\ SwapsMatch(body)
       /\ ConclusionsFailClosed(body) /\ EvidenceDigest(evidenceFile)
       /\ accepted' = evidenceFile
    /\ UNCHANGED <<poolChain, scan, evidenceFile>>

PoolNext ==
    \/ MineRange \/ PinBlock
    \/ (\E e \in ScanEndpoints : ScanRange(e))
    \/ (\E d \in PoolDirections : DirectSwap(d))
    \/ RecordEvidence \/ EditEvidence \/ ValidateEvidence

ReleaseSpec ==
    /\ RelInit /\ PoolInit
    /\ [][\/ RelNext /\ UNCHANGED poolVars
          \/ PoolNext /\ UNCHANGED relVars]_<<relVars, poolVars>>

-----------------------------------------------------------------------------
\* The files, the chain and the outputs have the shapes the scripts give them;
\* a record in an authorized plan is one that was read from a file.
RelTypeOK ==
    /\ repo \in [head : Commits, code : Codes, work : Codes,
                 record : {"untracked", "staged", "committed"}]
    /\ resources \in ResourceStates
    /\ input \in {None} \cup [audited : Commits, fee : FeeRates, evidence : BOOLEAN]
    /\ record \in {None} \cup Records
    /\ plan \in {None} \cup Plans
    /\ releaseClock \in 0 .. MaxClock
    /\ chain.tx \in {NoTx} \cup ReleaseTransactions
    /\ chain.contract \in {NoTx} \cup ReleasedContracts
    /\ (chain.tx = NoTx) = (chain.contract = NoTx)
    /\ check \in Checks
    /\ upsets \in 0 .. MaxUpsets

\* A release reported as verified was mined, on the chain the honest endpoint
\* sees, from exactly the plan's source and fee, whatever the other endpoint
\* answered and however the chain was reorganised during the verification.
VerifiedWasDeployed ==
    results.verified # None =>
        InitCodeOf(results.verified.core) \in chain.mined

\* A pool record that validated names every pool by its own key and leaves
\* nothing to execute.  As collected, unedited, it is of the chain the honest
\* endpoint sees, and where it claims to be complete no pool initialised by the
\* pinned block is missing, whichever endpoint left events out and in whatever
\* order the ranges came (the scan is counted for every endpoint).  It does not
\* show that its pools exist: an invented event is recorded, and what was
\* edited by hand and is consistent in itself validates.
PoolEvidenceHolds ==
    accepted # None =>
        LET body == accepted.body IN
        /\ ConclusionsFailClosed(body) /\ \A c \in body.candidates : c.id = c.key
        /\ accepted.edits = 0 =>
             /\ body.hash = "canonical"
             /\ body.unique =>
                  InitializedUpTo(body.ranges) \subseteq {c.key : c \in body.candidates}

\* Types, a release that is verified is the one planned, and a pool record that
\* validates is a candidate only and, as collected, leaves no pool out.
ReleaseIsAsPlanned == RelTypeOK /\ VerifiedWasDeployed /\ PoolEvidenceHolds
=============================================================================
