---------------------------- MODULE WalletSession ----------------------------
(***************************************************************************)
(* Wallet sessions: a browser tab proves control of its connected wallet   *)
(* by signing a challenge (WalletAuthProvider.tsx) and the backend opens a *)
(* session for the wallet's owner (wallet-auth.service.ts).  A tab may     *)
(* change account while an attempt is under way, several tabs log in at    *)
(* once, and a request may reach the backend twice.                        *)
(***************************************************************************)
EXTENDS Naturals, Sequences, FiniteSets

CONSTANTS
  Browsers,      \* browser tabs, each with its own sessionStorage
  Wallets,       \* wallet addresses
  StartWallet,   \* the wallet every tab is connected with at first
  LegacyOwners,  \* the UserWallet rows found at the start, one set per start
  ChallengeTtl,  \* CHALLENGE_TTL_MS, in ticks
  SessionTtl,    \* SESSION_TTL_MS, in ticks
  MaxTicks,      \* bound on the clock
  MaxLogins,     \* bound on the attempts that ask for a challenge
  MaxSwitches,   \* bound on changes of the connected account
  MaxRepeats     \* bound on verification requests that arrive twice

ASSUME WalletAssumption ==
  /\ StartWallet \in Wallets
  /\ \A rows \in LegacyOwners : IsFiniteSet(rows) /\ rows \subseteq [wallet : Wallets, owner : Nat]
  /\ ChallengeTtl \in Nat /\ SessionTtl \in Nat

VARIABLES
  ticks,       \* the wall clock
  account,     \* account[b]: the address the wallet of tab b exposes, or "none"
  settled,     \* settled[b]: the effect has run for the account rendered
  shown,       \* shown[b]: the session in React state, 0 when null
  kept,        \* kept[b][w]: the session in sessionStorage, 0 when absent
  logins,      \* attempts under way: [browser, wallet, at, challenge, read, session]
  challenges,  \* walletAuthChallenge rows
  sessions,    \* activityAuthSession rows
  owners,      \* UserWallet rows: [wallet, owner]
  acted,       \* requests the backend authenticated: [account, wallet, owner]
  switches,    \* account changes so far
  repeats      \* repeated requests so far

walletVars == <<ticks, account, settled, shown, kept, logins, challenges,
                sessions, owners, acted, switches, repeats>>

tabVars == <<account, settled, shown, kept>>

NoAccount == "none"

WalletInit ==
  /\ ticks = 0
  /\ account = [b \in Browsers |-> StartWallet]
  /\ settled = [b \in Browsers |-> TRUE]
  /\ shown = [b \in Browsers |-> 0]
  /\ kept = [b \in Browsers |-> [w \in Wallets |-> 0]]
  /\ logins = <<>>
  /\ challenges = <<>>
  /\ sessions = <<>>
  /\ owners \in LegacyOwners
  /\ acted = {}
  /\ switches = 0
  /\ repeats = 0

(* ------------------------------ the browser ----------------------------- *)

Fresh(s) == s # 0 /\ sessions[s].expires > ticks

\* What readStoredSession returns; an expired entry is dropped by the caller.
ReadStoredSession(b, w) == IF Fresh(kept[b][w]) THEN kept[b][w] ELSE 0

SessionMatches(b) ==
  /\ Fresh(shown[b])
  /\ account[b] # NoAccount
  /\ sessions[shown[b]].wallet = account[b]

\* The user picks another account, or disconnects: the next render already
\* sees it, while the effect below has not run.
SwitchAccount(b, w) ==
  /\ switches < MaxSwitches
  /\ w # account[b]
  /\ account' = [account EXCEPT ![b] = w]
  /\ settled' = [settled EXCEPT ![b] = FALSE]
  /\ switches' = switches + 1
  /\ UNCHANGED <<ticks, shown, kept, logins, challenges, sessions, owners, acted, repeats>>

\* The provider's effect on [activeWalletAddress, activeWalletChainId].
AccountEffect(b) ==
  LET w == account[b]
      stored == IF w = NoAccount THEN 0 ELSE ReadStoredSession(b, w)
  IN /\ ~settled[b]
     /\ settled' = [settled EXCEPT ![b] = TRUE]
     /\ shown' = [shown EXCEPT ![b] = stored]
     /\ kept' = IF w = NoAccount THEN kept ELSE [kept EXCEPT ![b][w] = stored]
     /\ UNCHANGED <<ticks, account, logins, challenges, sessions, owners, acted,
                    switches, repeats>>

\* authenticate() with a usable stored session.
ReuseStored(b) ==
  LET w == account[b]
  IN /\ settled[b] /\ w # NoAccount
     /\ ReadStoredSession(b, w) # 0
     /\ shown[b] # kept[b][w]
     /\ shown' = [shown EXCEPT ![b] = kept[b][w]]
     /\ UNCHANGED <<ticks, account, settled, kept, logins, challenges, sessions, owners,
                    acted, switches, repeats>>

\* authenticate() without one: the challenge request, for the address the
\* callback captured.  createChallenge stores the row and answers with it.
AskChallenge(b) ==
  LET w == account[b]
  IN /\ settled[b] /\ w # NoAccount
     /\ ReadStoredSession(b, w) = 0
     /\ Len(logins) < MaxLogins
     /\ challenges' = Append(challenges,
                        [wallet |-> w, expires |-> ticks + ChallengeTtl, used |-> FALSE])
     /\ logins' = Append(logins, [browser |-> b, wallet |-> w, at |-> "sign",
                        challenge |-> Len(challenges) + 1, read |-> 0, session |-> 0])
     /\ kept' = [kept EXCEPT ![b][w] = 0]
     /\ UNCHANGED <<ticks, account, settled, shown, sessions, owners, acted,
                    switches, repeats>>

Move(l, at) == logins' = [logins EXCEPT ![l].at = at]

\* walletClient.signMessage: signed, or refused by the user.
SignChallenge(l) ==
  /\ logins[l].at = "sign"
  /\ \E at \in {"find", "failed"} : Move(l, at)
  /\ UNCHANGED <<ticks, tabVars, challenges, sessions, owners, acted, switches, repeats>>

\* The verification request reaches the backend a second time.
RepeatVerify(l) ==
  /\ repeats < MaxRepeats
  /\ logins[l].at \in {"check", "consume", "answered"}
  /\ logins' = Append(logins, [logins[l] EXCEPT !.at = "find", !.browser = NoAccount])
  /\ repeats' = repeats + 1
  /\ UNCHANGED <<ticks, tabVars, challenges, sessions, owners, acted, switches>>

(* ------------------------- WalletAuthService ---------------------------- *)

\* verifyChallenge reads the row and the clock...
FindChallenge(l) ==
  LET row == challenges[logins[l].challenge]
  IN /\ logins[l].at = "find"
     /\ logins' = [logins EXCEPT
                     ![l].at = IF row.used \/ row.expires <= ticks THEN "failed" ELSE "check",
                     ![l].read = ticks]
     /\ UNCHANGED <<ticks, tabVars, challenges, sessions, owners, acted, switches, repeats>>

\* ...awaits the chain's verdict on the signature, which a smart wallet may
\* deny and an RPC fault makes invalid...
CheckSignature(l) ==
  /\ logins[l].at = "check"
  /\ \E at \in {"consume", "failed"} : Move(l, at)
  /\ UNCHANGED <<ticks, tabVars, challenges, sessions, owners, acted, switches, repeats>>

\* variant: any row that exists is consumed
ConsumableAgain(l) == challenges[logins[l].challenge].expires > logins[l].read

\* updateMany({id, usedAt: null, expiresAt > now}) with the clock read above
Consumable(l) ==
  /\ ~challenges[logins[l].challenge].used
  /\ challenges[logins[l].challenge].expires > logins[l].read

OwnersOf(w) == {r.owner : r \in {x \in owners : x.wallet = w}}

\* The one owner that has the address, or a new one (randomUUID).
ResolveOwner(w) ==
  IF OwnersOf(w) # {} THEN CHOOSE o \in OwnersOf(w) : TRUE
  ELSE Cardinality(owners) + Len(sessions) + 1

RevokeOwned(o) ==
  [s \in DOMAIN sessions |->
     IF sessions[s].owner = o THEN [sessions[s] EXCEPT !.revoked = TRUE] ELSE sessions[s]]

\* ...and in one serializable transaction consumes the challenge, resolves
\* the owner, revokes the owner's sessions and opens the new one.
OpenSession(l) ==
  LET login == logins[l]
      w     == login.wallet
      o     == ResolveOwner(w)
  IN /\ login.at = "consume"
     /\ Consumable(l) /\ Cardinality(OwnersOf(w)) <= 1
     /\ challenges' = [challenges EXCEPT ![login.challenge].used = TRUE]
     /\ owners' = owners \union {[wallet |-> w, owner |-> o]}
     /\ sessions' = Append(RevokeOwned(o),
                      [owner |-> o, wallet |-> w, expires |-> login.read + SessionTtl,
                       revoked |-> FALSE, challenge |-> login.challenge])
     /\ logins' = [logins EXCEPT ![l].at = "answered", ![l].session = Len(sessions) + 1]
     /\ UNCHANGED <<ticks, tabVars, acted, switches, repeats>>

\* The transaction is refused: consumed already, two owners claim the
\* address, or the database aborts it to keep it serializable.
RefuseSession(l) ==
  /\ logins[l].at = "consume"
  /\ \/ ~Consumable(l)
     \/ Cardinality(OwnersOf(logins[l].wallet)) > 1
     \/ \E k \in DOMAIN logins \ {l} : logins[k].at \in {"consume", "answered"}
  /\ Move(l, "failed")
  /\ UNCHANGED <<ticks, tabVars, challenges, sessions, owners, acted, switches, repeats>>

\* The answer reaches the tab's pending authenticate(): it is stored under
\* the captured address and shown, whatever account the tab has by now.
StoreSession(l) ==
  LET login == logins[l]
  IN /\ login.at = "answered"
     /\ IF login.browser = NoAccount THEN UNCHANGED <<kept, shown>>
        ELSE /\ kept' = [kept EXCEPT ![login.browser][login.wallet] = login.session]
             /\ shown' = [shown EXCEPT ![login.browser] = login.session]
     /\ Move(l, "done")
     /\ UNCHANGED <<ticks, account, settled, challenges, sessions, owners, acted,
                    switches, repeats>>

\* A component of the tab calls the API with the exposed token.
Authenticate(b) ==
  LET s == sessions[shown[b]]
  IN /\ SessionMatches(b)
     /\ ~s.revoked /\ s.expires > ticks
     /\ acted' = acted \union {[account |-> account[b], wallet |-> s.wallet, owner |-> s.owner]}
     /\ UNCHANGED <<ticks, tabVars, logins, challenges, sessions, owners, switches, repeats>>

\* POST auth/revoke with the exposed token.
Revoke(b) ==
  /\ SessionMatches(b)
  /\ ~sessions[shown[b]].revoked
  /\ sessions' = [sessions EXCEPT ![shown[b]].revoked = TRUE]
  /\ UNCHANGED <<ticks, tabVars, logins, challenges, owners, acted, switches, repeats>>

WalletTick ==
  /\ ticks < MaxTicks
  /\ ticks' = ticks + 1
  /\ UNCHANGED <<tabVars, logins, challenges, sessions, owners, acted, switches, repeats>>

WalletNext ==
  \/ WalletTick
  \/ \E b \in Browsers :
       \/ \E w \in Wallets \union {NoAccount} : SwitchAccount(b, w)
       \/ AccountEffect(b) \/ ReuseStored(b) \/ AskChallenge(b)
       \/ Authenticate(b) \/ Revoke(b)
  \/ \E l \in DOMAIN logins :
       \/ SignChallenge(l) \/ RepeatVerify(l)
       \/ FindChallenge(l) \/ CheckSignature(l) \/ OpenSession(l) \/ RefuseSession(l)
       \/ StoreSession(l)

WalletSpec == WalletInit /\ [][WalletNext]_walletVars

(* ------------------------------ properties ------------------------------ *)

\* A signed challenge opens at most one session, however often and however
\* concurrently its verification reaches verifyChallenge.
ChallengeOpensOnce ==
  \A s, t \in DOMAIN sessions :
    sessions[s].challenge = sessions[t].challenge => s = t

\* An owner has at most one session that is not revoked, also when two tabs
\* or two wallets of the owner log in at the same time.
OneSessionPerOwner ==
  \A s, t \in DOMAIN sessions :
    /\ sessions[s].owner = sessions[t].owner
    /\ ~sessions[s].revoked /\ ~sessions[t].revoked
    => s = t

\* Two logins of one wallet are logins of one owner: concurrent first logins
\* do not split a merchant's invoices between two users.
WalletHasOneOwner ==
  \A s, t \in DOMAIN sessions :
    sessions[s].wallet = sessions[t].wallet => sessions[s].owner = sessions[t].owner

\* Every authenticated request acts for the wallet the tab is connected
\* with, also when an attempt of an earlier account completes after a switch.
ActsForConnectedWallet ==
  \A a \in acted : a.wallet = a.account /\ a.owner \in OwnersOf(a.account)

\* Sessions follow the wallets that signed for them: one per signature, one
\* live per owner, one owner per wallet, and used for the connected account
\* only.
SessionsFollowWallets ==
    /\ ChallengeOpensOnce
    /\ OneSessionPerOwner
    /\ WalletHasOneOwner
    /\ ActsForConnectedWallet
=============================================================================
