------------------------------ MODULE SwapFlow ------------------------------
(***************************************************************************)
(* A USDC/EURC swap from the swap screen to its verified record: the       *)
(* screen's debounced quotes and its transaction (SwapScreen), the quote   *)
(* service with its cached two-endpoint quorum, prepare and confirm        *)
(* (user-swap), and the deployed executor as they see it.                  *)
(*                                                                         *)
(* Time is counted in blocks.  The pool gives price(head) units for one;   *)
(* basis points are parts of BpsScale.  The clock of the backend and of    *)
(* the browser are the same.                                               *)
(***************************************************************************)
EXTENDS Naturals, Sequences

CONSTANTS
    SwapAmounts,    \* amounts a user may type
    Rates,          \* pool rates
    BpsScale,       \* 10 000 in the code
    SlippageBps,    \* PREVIEW_SLIPPAGE_BPS
    ExecutorFee,    \* feeBps of the executor
    QuorumTtl,      \* QUORUM_CACHE_MS, in blocks
    QuoteAge,       \* QUOTE_MAX_BLOCK_AGE
    QuoteLife,      \* QUOTE_EXPIRY_SECONDS, in blocks
    DeadlineAfter,  \* deadline given to a swap, in blocks
    MaxHead,        \* bound on blocks
    MaxQuotes,      \* bound on quote requests
    MaxSwaps,       \* bound on swaps started
    MaxPauses       \* bound on pauses of the executor

ASSUME SwapAssumption ==
    /\ SwapAmounts \subseteq Nat \ {0} /\ Rates \subseteq Nat \ {0}
    /\ BpsScale \in Nat \ {0} /\ SlippageBps \in 1 .. BpsScale - 1
    /\ ExecutorFee \in 0 .. BpsScale - 1
    /\ QuorumTtl \in Nat \ {0}
    /\ {QuoteAge, QuoteLife, DeadlineAfter, MaxHead, MaxQuotes, MaxSwaps, MaxPauses}
         \subseteq Nat

VARIABLES
    pool,       \* head, the rate at each block so far, the executor's pause
    cache,      \* quorumCache of the quote service
    screen,     \* inputs, quote sequence, the quote shown, status
    asks,       \* quote requests on their way, keyed by sequence number
    flow,       \* the handleSwap call in progress
    swaps,      \* swap transactions sent
    stored      \* verifiedSwapTransaction rows

swapVars == <<pool, cache, screen, asks, flow, swaps, stored>>

Heads == 0 .. MaxHead
Directions == {"USDC_TO_EURC", "EURC_TO_USDC"}
NoQuoteKey == [amount |-> 0, direction |-> "USDC_TO_EURC"]
SwapKeys == [amount : SwapAmounts, direction : Directions]
Quotes == [key : SwapKeys, out : Nat, block : Heads, quotedAt : Heads,
           quorumAt : Heads, askedAt : Heads]
NoSwapQuote == [none |-> TRUE]
NoFlow == [phase |-> "none"]
NoCache == [none |-> TRUE]

SwapInit ==
    /\ pool \in [head : {0}, rate : [{0} -> Rates], paused : {FALSE},
               was : {FALSE}, pauses : {0}]
    /\ cache = NoCache
    /\ screen = [key |-> NoQuoteKey, seq |-> 0, quote |-> NoSwapQuote, status |-> "idle"]
    /\ asks = [i \in {} |-> {}]
    /\ flow = NoFlow
    /\ swaps = <<>>
    /\ stored = {}

RateAt(b) == pool.rate[b]
OutAt(amount, b) == amount * RateAt(b)

ApplySlippage(out) == (out * (BpsScale - SlippageBps)) \div BpsScale

-----------------------------------------------------------------------------
(* The chain. *)

NextBlock(rate) ==
    /\ pool.head < MaxHead
    /\ pool' = [pool EXCEPT !.head = @ + 1, !.was = pool.paused,
                !.rate = [b \in 0 .. pool.head + 1 |->
                            IF b <= pool.head THEN @[b] ELSE rate]]
    /\ UNCHANGED <<cache, screen, asks, flow, swaps, stored>>

SetPaused(p) ==
    /\ pool.paused # p
    /\ p => pool.pauses < MaxPauses
    /\ pool' = [pool EXCEPT !.paused = p, !.pauses = IF p THEN @ + 1 ELSE @]
    /\ UNCHANGED <<cache, screen, asks, flow, swaps, stored>>

\* An endpoint may be a block behind.
PausedSeen == {pool.paused, pool.was}

-----------------------------------------------------------------------------
(* The quote service. *)

Cached(now) == cache # NoCache /\ now < cache.at + QuorumTtl

Ask(seq) == asks[seq]
SetAsk(seq, a) == asks' = [asks EXCEPT ![seq] = a]
DropAsk(seq) == asks' = [s \in DOMAIN asks \ {seq} |-> asks[s]]

\* The request arrives: a cached quorum is enough, otherwise the first endpoint
\* is read.  Reads are sequential and the cache will carry the start time.
BeginQuorum(seq) ==
    /\ Ask(seq).at = "sent"
    /\ \/ /\ Cached(pool.head)
          /\ SetAsk(seq, [Ask(seq) EXCEPT !.at = "quote", !.quorumAt = cache.readAt,
                                          !.askedAt = pool.head])
       \/ /\ ~Cached(pool.head)
          /\ \E p \in PausedSeen :
               SetAsk(seq, [Ask(seq) EXCEPT !.at = "second", !.first = p,
                                            !.askedAt = pool.head])
    /\ UNCHANGED <<pool, cache, screen, flow, swaps, stored>>

\* The second endpoint: agreement on an executor that is not paused is cached,
\* anything else fails the request and is not cached.
EndQuorum(seq) ==
    /\ Ask(seq).at = "second"
    /\ \E p \in PausedSeen :
         IF p = Ask(seq).first /\ ~p
         THEN /\ cache' = [at |-> Ask(seq).askedAt, readAt |-> pool.head]
              /\ SetAsk(seq, [Ask(seq) EXCEPT !.at = "quote", !.quorumAt = pool.head])
         ELSE /\ SetAsk(seq, [Ask(seq) EXCEPT !.at = "failed"])
              /\ UNCHANGED cache
    /\ UNCHANGED <<pool, screen, flow, swaps, stored>>

\* The head is read first and the quoter is then called at that block.
PinBlock(seq) ==
    /\ Ask(seq).at = "quote"
    /\ SetAsk(seq, [Ask(seq) EXCEPT !.at = "pinned", !.block = pool.head])
    /\ UNCHANGED <<pool, cache, screen, flow, swaps, stored>>

\* variant: the quoter is called at the latest block.
LatestBlock(a) == pool.head

QuotedBlock(a) == a.block

LiveQuote(seq) ==
    /\ Ask(seq).at = "pinned"
    /\ \/ SetAsk(seq, [Ask(seq) EXCEPT !.at = "answered", !.quotedAt = pool.head,
                       !.out = OutAt(Ask(seq).key.amount, QuotedBlock(Ask(seq)))])
       \/ SetAsk(seq, [Ask(seq) EXCEPT !.at = "failed"])
    /\ UNCHANGED <<pool, cache, screen, flow, swaps, stored>>

-----------------------------------------------------------------------------
(* The screen. *)

\* A new request key clears the quote and, when it is complete, starts the
\* next quote in the sequence; the one on its way is aborted, or its answer
\* has already left.
ChangeInputs(key) ==
    /\ key # screen.key
    /\ IF key = NoQuoteKey
       THEN /\ screen' = [screen EXCEPT !.key = key, !.quote = NoSwapQuote]
            /\ asks' = asks \/ asks' = [s \in {} |-> {}]
       ELSE /\ screen.seq < MaxQuotes
            /\ screen' = [screen EXCEPT !.key = key, !.quote = NoSwapQuote,
                                        !.seq = @ + 1, !.status = "quoting"]
            /\ \E kept \in SUBSET DOMAIN asks :
                 asks' = [s \in kept \cup {screen.seq + 1} |->
                            IF s \in kept THEN asks[s]
                            ELSE [key |-> key, at |-> "sent", first |-> FALSE, out |-> 0,
                                  block |-> 0, quotedAt |-> 0, quorumAt |-> 0,
                                  askedAt |-> 0]]
    /\ UNCHANGED <<pool, cache, flow, swaps, stored>>

\* An answer is used when its sequence number is still the latest one.
TakeAnswer(seq) ==
    /\ Ask(seq).at \in {"answered", "failed"}
    /\ DropAsk(seq)
    /\ screen' = IF seq # screen.seq THEN screen
                 ELSE IF Ask(seq).at = "failed" THEN [screen EXCEPT !.status = "idle"]
                 ELSE [screen EXCEPT !.status = "idle",
                         !.quote = [key |-> Ask(seq).key, out |-> Ask(seq).out,
                                    block |-> Ask(seq).block,
                                    quotedAt |-> Ask(seq).quotedAt,
                                    quorumAt |-> Ask(seq).quorumAt,
                                    askedAt |-> Ask(seq).askedAt]]
    /\ UNCHANGED <<pool, cache, flow, swaps, stored>>

SwapQuoteCurrent == screen.quote # NoSwapQuote /\ screen.quote.key = screen.key

\* transactionActive is a ref beside the status, which a new quote resets.
NothingActive == flow = NoFlow

\* handleSwap up to its first await: the quote and the inputs are those of this
\* render from now on.
Click ==
    /\ screen.status = "idle" /\ SwapQuoteCurrent /\ NothingActive
    /\ Len(swaps) < MaxSwaps
    /\ screen' = [screen EXCEPT !.status = "preparing"]
    /\ flow' = [phase |-> "auth", quote |-> screen.quote]
    /\ UNCHANGED <<pool, cache, asks, swaps, stored>>

\* The finally block of handleSwap.
Finish == flow' = NoFlow /\ screen' = [screen EXCEPT !.status = "idle"]

\* The wallet session is there or the user signs in; executeMainnetSwap then
\* refuses an expired quote and fixes the deadline.
AuthenticateSwap ==
    /\ flow.phase = "auth"
    /\ \/ /\ pool.head <= flow.quote.quotedAt + QuoteLife
          /\ flow' = [phase |-> "prepare", quote |-> flow.quote,
                      deadline |-> pool.head + DeadlineAfter]
          /\ UNCHANGED screen
       \/ Finish
    /\ UNCHANGED <<pool, cache, asks, swaps, stored>>

QuoteFresh(q) == pool.head <= q.block + QuoteAge

ValidBoundary(q, deadline) == q.key.amount > 0 /\ deadline >= pool.head

NeedsApproval(q) == q.key.direction = "EURC_TO_USDC"

\* The call the wallet signs, with the minimum taken from the observation.
SwapPlan(q, deadline) ==
    [amount |-> q.key.amount, quotedAt |-> q.block,
     min |-> ApplySlippage(q.out), deadline |-> deadline]

\* prepare: the boundary is validated again and a quote too far from the head
\* is refused.  EURC needs an approval of the executor, USDC is sent as native
\* value.
Prepare ==
    /\ flow.phase = "prepare"
    /\ \/ /\ QuoteFresh(flow.quote) /\ ValidBoundary(flow.quote, flow.deadline)
          /\ flow' = [phase |-> IF NeedsApproval(flow.quote) THEN "approve" ELSE "sign",
                      quote |-> flow.quote, plan |-> SwapPlan(flow.quote, flow.deadline)]
          /\ screen' = [screen EXCEPT !.status = "signing"]
       \/ Finish
    /\ UNCHANGED <<pool, cache, asks, swaps, stored>>

\* The approval is signed and mined; the user may refuse, it may revert.
ApproveInput ==
    /\ flow.phase = "approve"
    /\ \/ flow' = [flow EXCEPT !.phase = "sign"] /\ UNCHANGED screen
       \/ Finish
    /\ UNCHANGED <<pool, cache, asks, swaps, stored>>

Sign ==
    /\ flow.phase = "sign"
    /\ \/ /\ swaps' = Append(swaps, [call |-> flow.plan, state |-> "pending", received |-> 0])
          /\ flow' = [phase |-> "wait", tx |-> Len(swaps) + 1]
          /\ screen' = [screen EXCEPT !.status = "confirming"]
       \/ Finish /\ UNCHANGED swaps
    /\ UNCHANGED <<pool, cache, asks, stored>>

-----------------------------------------------------------------------------
(* Execution and confirmation. *)

Net(amount) == amount - (amount * ExecutorFee) \div BpsScale

Executes(t) ==
    /\ ~pool.paused
    /\ pool.head <= t.call.deadline
    /\ OutAt(Net(t.call.amount), pool.head) >= t.call.min

MineSwap(i) ==
    /\ swaps[i].state = "pending"
    /\ swaps' = [swaps EXCEPT
                   ![i].state = IF Executes(swaps[i]) THEN "success" ELSE "reverted",
                   ![i].received = IF Executes(swaps[i])
                                   THEN OutAt(Net(swaps[i].call.amount), pool.head) ELSE 0]
    /\ UNCHANGED <<pool, cache, screen, asks, flow, stored>>

\* waitForTransactionReceipt; the wait may also time out.
SeeReceipt ==
    /\ flow.phase = "wait"
    /\ \/ /\ swaps[flow.tx].state = "success"
          /\ flow' = [flow EXCEPT !.phase = "confirm"] /\ UNCHANGED screen
       \/ Finish
    /\ UNCHANGED <<pool, cache, asks, swaps, stored>>

\* confirmTransaction and verifySwapReceipt over the executor's event and the
\* transfers: the sender, the call, exactly one event, the output at least the
\* minimum in the call.
VerifySwapReceipt(t) == t.state = "success" /\ t.received >= t.call.min

\* The receipt may not have reached the backend's endpoint: the screen shows
\* the error and does not ask again.
Confirm ==
    /\ flow.phase = "confirm"
    /\ \/ /\ VerifySwapReceipt(swaps[flow.tx])
          /\ stored' = stored \cup {flow.tx}
       \/ UNCHANGED stored
    /\ Finish
    /\ UNCHANGED <<pool, cache, asks, swaps>>

\* The same endpoint called with a transaction of the wallet the screen no
\* longer waits for.
ConfirmOther(i) ==
    /\ VerifySwapReceipt(swaps[i])
    /\ stored' = stored \cup {i}
    /\ UNCHANGED <<pool, cache, screen, asks, flow, swaps>>

SwapNext ==
    \/ (\E r \in Rates : NextBlock(r))
    \/ (\E p \in BOOLEAN : SetPaused(p))
    \/ (\E k \in SwapKeys \cup {NoQuoteKey} : ChangeInputs(k))
    \/ (\E s \in DOMAIN asks : BeginQuorum(s) \/ EndQuorum(s) \/ PinBlock(s)
                             \/ LiveQuote(s) \/ TakeAnswer(s))
    \/ Click \/ AuthenticateSwap \/ Prepare \/ ApproveInput \/ Sign
    \/ (\E i \in DOMAIN swaps : MineSwap(i) \/ ConfirmOther(i))
    \/ SeeReceipt \/ Confirm

SwapSpec == SwapInit /\ [][SwapNext]_swapVars

-----------------------------------------------------------------------------
\* The quote shown was asked for less than the cache's life after both
\* endpoints reported an executor that is not paused: the cache is stamped
\* with the time its reads began, so no chain of cached requests stretches it.
QuoteBackedByQuorum ==
    screen.quote # NoSwapQuote =>
        screen.quote.askedAt < screen.quote.quorumAt + QuorumTtl

\* The minimum a swap carries is what its own amount was quoted, less the
\* slippage, at the very block that the quote names and that its age is
\* measured from, whatever blocks arrive while the quoter is asked.
SignedAsQuoted ==
    \A i \in DOMAIN swaps :
        swaps[i].call.min =
            ApplySlippage(OutAt(swaps[i].call.amount, swaps[i].call.quotedAt))

\* A stored swap was executed and paid the wallet at least the minimum.
StoredIsSwapped ==
    \A i \in stored : swaps[i].state = "success" /\ swaps[i].received >= swaps[i].call.min

\* A swap is made on the terms of its quote: backed by both endpoints, signed
\* with the minimum of the block it names, and stored when it paid that
\* minimum.
SwapAsQuoted == QuoteBackedByQuorum /\ SignedAsQuoted /\ StoredIsSwapped
=============================================================================
