--------------------------- MODULE IdentityProofs ---------------------------
(***************************************************************************)
(* Who acts and for what: a session belongs to the wallet that signed for  *)
(* it (WalletSession), an intent to the payment that asked for it          *)
(* (IntentIdentity), for any number of tabs, logins and calls and whatever *)
(* their interleaving; and a transfer of the Send page to the review the   *)
(* user confirmed (SendFlow).                                              *)
(***************************************************************************)
EXTENDS SendFlow, WalletSession, IntentIdentity, TLAPS, SequenceTheorems, FiniteSetTheorems

Logins ==
  [browser : Browsers \union {NoAccount}, wallet : Wallets,
   at : {"sign", "find", "check", "consume", "answered", "done", "failed"},
   challenge : Nat, read : Nat, session : Nat]
Challenges == [wallet : Wallets, expires : Nat, used : BOOLEAN]
Sessions == [owner : Nat, wallet : Wallets, expires : Nat, revoked : BOOLEAN, challenge : Nat]
OwnerRows == [wallet : Wallets, owner : Nat]

WalletTypeOK ==
  /\ ticks \in Nat
  /\ logins \in Seq(Logins)
  /\ challenges \in Seq(Challenges)
  /\ sessions \in Seq(Sessions)
  /\ owners \subseteq OwnerRows /\ IsFiniteSet(owners)
  /\ account \in [Browsers -> Wallets \union {NoAccount}]
  /\ shown \in [Browsers -> Nat]
  /\ kept \in [Browsers -> [Wallets -> Nat]]

\* What a login, a tab and a session refer to is there; a session's challenge
\* is consumed, and its wallet's owner is on record.
SessionLinks ==
  /\ \A b \in Browsers : /\ shown[b] \in 0..Len(sessions)
                         /\ \A w \in Wallets : kept[b][w] \in 0..Len(sessions)
  /\ \A l \in DOMAIN logins : /\ logins[l].challenge \in DOMAIN challenges
                              /\ logins[l].session \in 0..Len(sessions)
  /\ \A s \in DOMAIN sessions :
       /\ sessions[s].challenge \in DOMAIN challenges
       /\ challenges[sessions[s].challenge].used
       /\ [wallet |-> sessions[s].wallet, owner |-> sessions[s].owner] \in owners

WalletInv == WalletTypeOK /\ SessionLinks /\ SessionsFollowWallets

-----------------------------------------------------------------------------
(* Appending to a sequence, and replacing one of its elements.              *)
LEMMA AppendElement ==
  ASSUME NEW S, NEW s \in Seq(S), NEW e \in S
  PROVE  /\ Append(s, e) \in Seq(S)
         /\ DOMAIN Append(s, e) = DOMAIN s \union {Len(s) + 1}
         /\ \A i \in DOMAIN s : Append(s, e)[i] = s[i]
         /\ Append(s, e)[Len(s) + 1] = e
         /\ Len(Append(s, e)) = Len(s) + 1
<1>1. /\ Append(s, e) \in Seq(S) /\ Len(Append(s, e)) = Len(s) + 1
      /\ \A i \in 1..Len(s) : Append(s, e)[i] = s[i]
      /\ Append(s, e)[Len(s) + 1] = e
  BY AppendProperties
<1>2. DOMAIN s = 1..Len(s) /\ Len(s) \in Nat /\ DOMAIN Append(s, e) = 1..(Len(s) + 1)
  BY <1>1
<1>3. 1..(Len(s) + 1) = 1..Len(s) \union {Len(s) + 1}
  BY <1>2
<1> QED BY <1>1, <1>2, <1>3

LEMMA ReplaceElement ==
  ASSUME NEW S, NEW s \in Seq(S), NEW i \in DOMAIN s, NEW e \in S
  PROVE  /\ [s EXCEPT ![i] = e] \in Seq(S)
         /\ DOMAIN [s EXCEPT ![i] = e] = DOMAIN s
         /\ [s EXCEPT ![i] = e][i] = e
         /\ \A j \in DOMAIN s : j # i => [s EXCEPT ![i] = e][j] = s[j]
<1>1. DOMAIN s = 1..Len(s)
  OBVIOUS
<1> QED BY <1>1, ExceptSeq

LEMMA OwnersFinite ==
  ASSUME IsFiniteSet(owners), NEW w PROVE IsFiniteSet(OwnersOf(w))
<1> DEFINE T == {r.owner : r \in owners}
           f == [r \in owners |-> r.owner]
<1>1. f \in Surjection(owners, T)
  BY DEF Surjection
<1>2. IsFiniteSet(T)
  BY <1>1, FS_Surjection
<1>3. OwnersOf(w) \in SUBSET T
  BY DEF OwnersOf
<1> HIDE DEF T
<1> QED BY <1>2, <1>3, FS_Subset

\* The owner a login is given: the wallet's, when it has one.
LEMMA ResolvedOwner ==
  ASSUME WalletTypeOK, NEW w \in Wallets, Cardinality(OwnersOf(w)) <= 1
  PROVE  /\ ResolveOwner(w) \in Nat
         /\ \A o \in OwnersOf(w) : o = ResolveOwner(w)
<1>1. IsFiniteSet(OwnersOf(w)) /\ Cardinality(OwnersOf(w)) \in Nat
  BY OwnersFinite, FS_CardinalityType DEF WalletTypeOK
<1>2. CASE OwnersOf(w) = {}
  <2>1. Cardinality(owners) \in Nat /\ Len(sessions) \in Nat
    BY FS_CardinalityType DEF WalletTypeOK
  <2> QED BY <1>2, <2>1 DEF ResolveOwner
<1>3. CASE OwnersOf(w) # {}
  <2>1. Cardinality(OwnersOf(w)) = 1
    BY <1>1, <1>3, FS_EmptySet
  <2>2. PICK o : OwnersOf(w) = {o}
    BY <1>1, <2>1, FS_Singleton
  <2>3. ResolveOwner(w) = o
    BY <1>3, <2>2 DEF ResolveOwner
  <2>4. o \in Nat
    <3>1. PICK r \in owners : r.owner = o
      BY <2>2 DEF OwnersOf
    <3> QED BY <3>1 DEF WalletTypeOK, OwnerRows
  <2> QED BY <2>2, <2>3, <2>4
<1> QED BY <1>2, <1>3

\* A step that opens and closes no session and consumes no challenge.
LoginLinks ==
  \A l \in DOMAIN logins : /\ logins[l].challenge \in DOMAIN challenges
                            /\ logins[l].session \in 0..Len(sessions)
TabLinks ==
  \A b \in Browsers : /\ shown[b] \in 0..Len(sessions)
                       /\ \A w \in Wallets : kept[b][w] \in 0..Len(sessions)

LEMMA QuietStep ==
  ASSUME WalletInv, WalletTypeOK', LoginLinks', TabLinks', UNCHANGED <<sessions, owners>>,
         \A c \in DOMAIN challenges : c \in DOMAIN challenges' /\ challenges'[c].used = challenges[c].used,
         \A a \in acted' \ acted : a.wallet = a.account /\ a.owner \in OwnersOf(a.account)
  PROVE  WalletInv'
<1>1. SessionLinks'
  BY DEF WalletInv, SessionLinks, LoginLinks, TabLinks
<1>2. ActsForConnectedWallet'
  BY DEF WalletInv, SessionsFollowWallets, ActsForConnectedWallet, OwnersOf
<1>3. ChallengeOpensOnce' /\ OneSessionPerOwner' /\ WalletHasOneOwner'
  BY DEF WalletInv, SessionsFollowWallets, ChallengeOpensOnce, OneSessionPerOwner, WalletHasOneOwner
<1> QED BY <1>1, <1>2, <1>3 DEF WalletInv, SessionsFollowWallets

\* A login moves on, without a session.
LEMMA LoginMoves ==
  ASSUME WalletInv, NEW l \in DOMAIN logins, NEW e \in Logins,
         e.challenge = logins[l].challenge, e.session \in 0..Len(sessions),
         logins' = [logins EXCEPT ![l] = e] \/ logins' = Append(logins, e),
         UNCHANGED <<challenges, sessions>>
  PROVE  logins' \in Seq(Logins) /\ LoginLinks'
<1>1. logins \in Seq(Logins) /\ LoginLinks
  BY DEF WalletInv, WalletTypeOK, SessionLinks, LoginLinks
<1>2. CASE logins' = [logins EXCEPT ![l] = e]
  <2>1. /\ logins' \in Seq(Logins) /\ DOMAIN logins' = DOMAIN logins /\ logins'[l] = e
        /\ \A k \in DOMAIN logins : k # l => logins'[k] = logins[k]
    BY <1>1, <1>2, ReplaceElement
  <2> QED BY <1>1, <2>1 DEF LoginLinks
<1>3. CASE logins' = Append(logins, e)
  <2>1. /\ logins' \in Seq(Logins) /\ DOMAIN logins' = DOMAIN logins \union {Len(logins) + 1}
        /\ logins'[Len(logins) + 1] = e
        /\ \A k \in DOMAIN logins : logins'[k] = logins[k]
    BY <1>1, <1>3, AppendElement
  <2> QED BY <1>1, <2>1 DEF LoginLinks
<1> QED BY <1>2, <1>3

LEMMA MoveOK ==
  ASSUME WalletInv, NEW l \in DOMAIN logins, UNCHANGED <<challenges, sessions>>,
         NEW at \in {"sign", "find", "check", "consume", "answered", "done", "failed"}, Move(l, at)
  PROVE  logins' \in Seq(Logins) /\ LoginLinks'
<1>1. logins[l] \in Logins /\ logins[l].session \in 0..Len(sessions)
  BY ElementOfSeq DEF WalletInv, WalletTypeOK, SessionLinks
<1> DEFINE e == [logins[l] EXCEPT !.at = at]
<1>2. e \in Logins /\ e.challenge = logins[l].challenge /\ e.session = logins[l].session
  BY <1>1 DEF Logins
<1>3. logins' = [logins EXCEPT ![l] = e]
  BY DEF Move
<1> HIDE DEF e
<1> QED BY <1>1, <1>2, <1>3, LoginMoves

-----------------------------------------------------------------------------
LEMMA RevokeOwnedOK ==
  ASSUME sessions \in Seq(Sessions), NEW o
  PROVE  /\ RevokeOwned(o) \in Seq(Sessions) /\ Len(RevokeOwned(o)) = Len(sessions)
         /\ \A s \in DOMAIN sessions :
              /\ RevokeOwned(o)[s].owner = sessions[s].owner
              /\ RevokeOwned(o)[s].wallet = sessions[s].wallet
              /\ RevokeOwned(o)[s].challenge = sessions[s].challenge
              /\ ~RevokeOwned(o)[s].revoked => ~sessions[s].revoked /\ sessions[s].owner # o
<1> DEFINE R == RevokeOwned(o)
<1>1. /\ DOMAIN sessions = 1..Len(sessions) /\ Len(sessions) \in Nat
      /\ \A s \in DOMAIN sessions : sessions[s] \in Sessions
  BY ElementOfSeq
<1>2. DOMAIN R = 1..Len(sessions)
  BY <1>1 DEF RevokeOwned
<1>3. \A s \in DOMAIN sessions :
         /\ R[s] \in Sessions
         /\ R[s].owner = sessions[s].owner /\ R[s].wallet = sessions[s].wallet
         /\ R[s].challenge = sessions[s].challenge
         /\ ~R[s].revoked => ~sessions[s].revoked /\ sessions[s].owner # o
  <2> SUFFICES ASSUME NEW s \in DOMAIN sessions
               PROVE  /\ R[s] \in Sessions
                      /\ R[s].owner = sessions[s].owner /\ R[s].wallet = sessions[s].wallet
                      /\ R[s].challenge = sessions[s].challenge
                      /\ ~R[s].revoked => ~sessions[s].revoked /\ sessions[s].owner # o
    OBVIOUS
  <2>1. R[s] = IF sessions[s].owner = o THEN [sessions[s] EXCEPT !.revoked = TRUE] ELSE sessions[s]
    BY DEF RevokeOwned
  <2> HIDE DEF R
  <2> QED BY <1>1, <2>1 DEF Sessions
<1>4. R \in [1..Len(sessions) -> Sessions]
  BY <1>1, <1>2, <1>3 DEF RevokeOwned
<1> HIDE DEF R
<1>5. R \in Seq(Sessions) /\ Len(R) = Len(sessions)
  BY <1>1, <1>4, SeqDef
<1> QED BY <1>3, <1>5 DEF R

LEMMA OpenSessionOK ==
  ASSUME WalletInv, NEW l \in DOMAIN logins, OpenSession(l)
  PROVE  WalletInv'
<1> DEFINE login == logins[l]
           w == login.wallet
           o == ResolveOwner(w)
           c == login.challenge
           new == [owner |-> o, wallet |-> w, expires |-> login.read + SessionTtl,
                   revoked |-> FALSE, challenge |-> c]
           n == Len(sessions) + 1
           R == RevokeOwned(o)
<1>1. /\ WalletTypeOK /\ SessionLinks /\ SessionsFollowWallets
      /\ logins \in Seq(Logins) /\ challenges \in Seq(Challenges) /\ sessions \in Seq(Sessions)
      /\ owners \subseteq OwnerRows /\ IsFiniteSet(owners)
      /\ DOMAIN sessions = 1..Len(sessions) /\ Len(sessions) \in Nat
  BY DEF WalletInv, WalletTypeOK
<1>2. /\ login \in Logins /\ w \in Wallets /\ c \in DOMAIN challenges /\ login.read \in Nat
      /\ challenges[c] \in Challenges
  <2>1. login \in Logins
    BY <1>1, ElementOfSeq
  <2>2. c \in DOMAIN challenges
    BY <1>1 DEF SessionLinks
  <2>3. challenges[c] \in Challenges
    BY <1>1, <2>2, ElementOfSeq
  <2> QED BY <2>1, <2>2, <2>3 DEF Logins
<1>3. /\ ~challenges[c].used /\ Cardinality(OwnersOf(w)) <= 1
      /\ challenges' = [challenges EXCEPT ![c].used = TRUE]
      /\ owners' = owners \union {[wallet |-> w, owner |-> o]}
      /\ sessions' = Append(R, new)
      /\ logins' = [logins EXCEPT ![l].at = "answered", ![l].session = n]
      /\ UNCHANGED <<ticks, tabVars, acted>>
  BY DEF OpenSession, Consumable
<1>4. o \in Nat /\ \A q \in OwnersOf(w) : q = o
  BY <1>1, <1>2, <1>3, ResolvedOwner
<1>5. /\ challenges' \in Seq(Challenges) /\ DOMAIN challenges' = DOMAIN challenges
      /\ challenges'[c].used /\ \A d \in DOMAIN challenges : challenges[d].used => challenges'[d].used
  <2> DEFINE e == [challenges[c] EXCEPT !.used = TRUE]
  <2>1. e \in Challenges /\ e.used
    BY <1>2 DEF Challenges
  <2>2. challenges' = [challenges EXCEPT ![c] = e]
    BY <1>3
  <2> HIDE DEF e
  <2>3. /\ challenges' \in Seq(Challenges) /\ DOMAIN challenges' = DOMAIN challenges
        /\ challenges'[c] = e /\ \A d \in DOMAIN challenges : d # c => challenges'[d] = challenges[d]
    BY <1>1, <1>2, <2>1, <2>2, ReplaceElement
  <2> QED BY <2>1, <2>3
<1>n. n \in Nat /\ n \in 0..n /\ n \notin 1..Len(sessions) /\ 0..Len(sessions) \subseteq 0..n
  BY <1>1
<1>6. new \in Sessions
  <2>1. c \in Nat /\ login.read + SessionTtl \in Nat
    BY <1>1, <1>2, WalletAssumption
  <2> HIDE DEF login, w, o, c
  <2> QED BY <1>2, <1>4, <2>1 DEF Sessions
<1>7. /\ R \in Seq(Sessions) /\ Len(R) = Len(sessions) /\ DOMAIN R = DOMAIN sessions
      /\ \A s \in DOMAIN sessions :
           /\ R[s].owner = sessions[s].owner /\ R[s].wallet = sessions[s].wallet
           /\ R[s].challenge = sessions[s].challenge
           /\ ~R[s].revoked => ~sessions[s].revoked /\ sessions[s].owner # o
  BY <1>1, RevokeOwnedOK
<1> HIDE DEF R
<1>8. /\ sessions' \in Seq(Sessions) /\ Len(sessions') = n
      /\ DOMAIN sessions' = DOMAIN sessions \union {n} /\ sessions'[n] = new /\ n \notin DOMAIN sessions
      /\ \A s \in DOMAIN sessions : sessions'[s] = R[s]
  BY <1>1, <1>3, <1>6, <1>7, AppendElement
<1>9. /\ new.owner = o /\ new.wallet = w /\ new.challenge = c /\ ~new.revoked
  OBVIOUS
<1> HIDE DEF new
(* types and links *)
<1>10. /\ logins' \in Seq(Logins)
       /\ \A k \in DOMAIN logins' : /\ logins'[k].challenge \in DOMAIN challenges'
                                     /\ logins'[k].session \in 0..n
  <2> DEFINE e == [logins[l] EXCEPT !.at = "answered", !.session = n]
  <2>1. e \in Logins /\ e.challenge = c /\ e.session = n
    <3> HIDE DEF n
    <3> QED BY <1>2, <1>n DEF Logins
  <2>2. logins' = [logins EXCEPT ![l] = e]
    BY <1>3
  <2> HIDE DEF e
  <2>3. /\ logins' \in Seq(Logins) /\ DOMAIN logins' = DOMAIN logins /\ logins'[l] = e
        /\ \A k \in DOMAIN logins : k # l => logins'[k] = logins[k]
    BY <1>1, <2>1, <2>2, ReplaceElement
  <2>4. \A k \in DOMAIN logins : logins[k].challenge \in DOMAIN challenges /\ logins[k].session \in 0..n
    BY <1>1, <1>n DEF SessionLinks
  <2> QED BY <1>2, <1>5, <1>n, <2>1, <2>3, <2>4
<1>11. WalletTypeOK'
  <2>1. [wallet |-> w, owner |-> o] \in OwnerRows
    BY <1>2, <1>4 DEF OwnerRows
  <2>2. owners' \subseteq OwnerRows /\ IsFiniteSet(owners')
    BY <1>1, <1>3, <2>1, FS_AddElement
  <2> QED BY <1>1, <1>3, <1>5, <1>8, <1>10, <2>2 DEF WalletTypeOK, tabVars
<1>12. SessionLinks'
  <2>1. \A b \in Browsers : /\ shown'[b] \in 0..n
                            /\ \A v \in Wallets : kept'[b][v] \in 0..n
    BY <1>1, <1>3 DEF SessionLinks, tabVars
  <2>2. ASSUME NEW s \in DOMAIN sessions'
        PROVE  /\ sessions'[s].challenge \in DOMAIN challenges'
               /\ challenges'[sessions'[s].challenge].used
               /\ [wallet |-> sessions'[s].wallet, owner |-> sessions'[s].owner] \in owners'
    <3> HIDE DEF login, w, o, c, n
    <3>1. CASE s = n
      BY <1>2, <1>3, <1>5, <1>8, <1>9, <3>1
    <3>2. CASE s \in DOMAIN sessions
      <4>1. /\ sessions'[s].challenge = sessions[s].challenge
            /\ sessions'[s].wallet = sessions[s].wallet /\ sessions'[s].owner = sessions[s].owner
        BY <1>7, <1>8, <3>2
      <4>2. /\ sessions[s].challenge \in DOMAIN challenges /\ challenges[sessions[s].challenge].used
            /\ [wallet |-> sessions[s].wallet, owner |-> sessions[s].owner] \in owners
        BY <1>1, <3>2 DEF SessionLinks
      <4> QED BY <1>3, <1>5, <4>1, <4>2
    <3> QED BY <1>8, <3>1, <3>2
  <2> QED BY <1>8, <1>10, <2>1, <2>2 DEF SessionLinks
(* the properties, of the new session and those before it *)
<1>13. \A s \in DOMAIN sessions :
          /\ sessions[s].challenge # c
          /\ sessions[s].wallet = w => sessions[s].owner = o
  <2>1. ASSUME NEW s \in DOMAIN sessions, sessions[s].wallet = w PROVE sessions[s].owner = o
    <3>1. [wallet |-> w, owner |-> sessions[s].owner] \in owners
      BY <1>1, <2>1 DEF SessionLinks
    <3>2. sessions[s].owner \in OwnersOf(w)
      BY <3>1 DEF OwnersOf
    <3> QED BY <1>4, <3>2
  <2> QED BY <1>1, <1>3, <2>1 DEF SessionLinks
<1> HIDE DEF login, w, o, c, n
<1>s. /\ \A s \in DOMAIN sessions :
          /\ sessions'[s].challenge = sessions[s].challenge
          /\ sessions'[s].wallet = sessions[s].wallet /\ sessions'[s].owner = sessions[s].owner
          /\ ~sessions'[s].revoked => ~sessions[s].revoked /\ sessions[s].owner # o
      /\ sessions'[n].challenge = c /\ sessions'[n].wallet = w /\ sessions'[n].owner = o
      /\ \A s \in DOMAIN sessions' : s \in DOMAIN sessions \/ s = n
  BY <1>7, <1>8, <1>9
<1>14. ChallengeOpensOnce'
  <2> SUFFICES ASSUME NEW s \in DOMAIN sessions', NEW t \in DOMAIN sessions',
                      sessions'[s].challenge = sessions'[t].challenge
               PROVE  s = t
    BY DEF ChallengeOpensOnce
  <2>1. CASE s \in DOMAIN sessions /\ t \in DOMAIN sessions
    BY <1>1, <1>s, <2>1 DEF ChallengeOpensOnce, SessionsFollowWallets
  <2> QED BY <1>13, <1>s, <2>1
<1>15. OneSessionPerOwner'
  <2> SUFFICES ASSUME NEW s \in DOMAIN sessions', NEW t \in DOMAIN sessions',
                      sessions'[s].owner = sessions'[t].owner,
                      ~sessions'[s].revoked, ~sessions'[t].revoked
               PROVE  s = t
    BY DEF OneSessionPerOwner
  <2>1. CASE s \in DOMAIN sessions /\ t \in DOMAIN sessions
    BY <1>1, <1>s, <2>1 DEF OneSessionPerOwner, SessionsFollowWallets
  <2> QED BY <1>s, <2>1
<1>16. WalletHasOneOwner'
  <2> SUFFICES ASSUME NEW s \in DOMAIN sessions', NEW t \in DOMAIN sessions',
                      sessions'[s].wallet = sessions'[t].wallet
               PROVE  sessions'[s].owner = sessions'[t].owner
    BY DEF WalletHasOneOwner
  <2>1. CASE s \in DOMAIN sessions /\ t \in DOMAIN sessions
    BY <1>1, <1>s, <2>1 DEF WalletHasOneOwner, SessionsFollowWallets
  <2> QED BY <1>13, <1>s, <2>1
<1>17. ActsForConnectedWallet'
  <2>1. \A v : OwnersOf(v) \subseteq OwnersOf(v)'
    BY <1>3 DEF OwnersOf
  <2> QED BY <1>1, <1>3, <2>1 DEF ActsForConnectedWallet, SessionsFollowWallets
<1> QED BY <1>11, <1>12, <1>14, <1>15, <1>16, <1>17 DEF WalletInv, SessionsFollowWallets

-----------------------------------------------------------------------------
\* A tab stores and shows a session that is there.
LEMMA KeepSession ==
  ASSUME WalletInv, UNCHANGED sessions, NEW b \in Browsers, NEW s \in 0..Len(sessions),
         shown' = shown \/ shown' = [shown EXCEPT ![b] = s],
         \/ kept' = kept
         \/ \E w \in Wallets : kept' = [kept EXCEPT ![b][w] = s]
  PROVE  /\ shown' \in [Browsers -> Nat] /\ kept' \in [Browsers -> [Wallets -> Nat]]
         /\ TabLinks'
<1>1. /\ shown \in [Browsers -> Nat] /\ kept \in [Browsers -> [Wallets -> Nat]] /\ TabLinks
      /\ s \in Nat
  BY DEF WalletInv, WalletTypeOK, SessionLinks, TabLinks
<1>2. /\ shown' \in [Browsers -> Nat]
      /\ \A c \in Browsers : shown'[c] \in 0..Len(sessions)
  BY <1>1 DEF TabLinks
<1>3. /\ kept' \in [Browsers -> [Wallets -> Nat]]
      /\ \A c \in Browsers, v \in Wallets : kept'[c][v] \in 0..Len(sessions)
  <2>1. CASE kept' = kept
    BY <1>1, <2>1 DEF TabLinks
  <2>2. ASSUME NEW w \in Wallets, kept' = [kept EXCEPT ![b][w] = s]
        PROVE  /\ kept' \in [Browsers -> [Wallets -> Nat]]
               /\ \A c \in Browsers, v \in Wallets : kept'[c][v] \in 0..Len(sessions)
    <3> DEFINE k == [kept[b] EXCEPT ![w] = s]
    <3>1. k \in [Wallets -> Nat] /\ \A v \in Wallets : k[v] \in 0..Len(sessions)
      BY <1>1 DEF TabLinks
    <3>2. kept' = [kept EXCEPT ![b] = k]
      BY <2>2
    <3> HIDE DEF k
    <3> QED BY <1>1, <3>1, <3>2 DEF TabLinks
  <2> QED BY <2>1, <2>2
<1> QED BY <1>2, <1>3 DEF TabLinks

LEMMA WalletStarts == ASSUME WalletInit PROVE WalletInv
<1>1. /\ logins = <<>> /\ challenges = <<>> /\ sessions = <<>> /\ acted = {}
      /\ Len(sessions) = 0 /\ DOMAIN logins = {} /\ DOMAIN sessions = {}
  BY DEF WalletInit
<1>2. WalletTypeOK
  BY <1>1, WalletAssumption, EmptySeq DEF WalletInit, WalletTypeOK, OwnerRows
<1>3. SessionLinks
  BY <1>1 DEF WalletInit, SessionLinks
<1>4. SessionsFollowWallets
  BY <1>1 DEF SessionsFollowWallets, ChallengeOpensOnce, OneSessionPerOwner, WalletHasOneOwner,
              ActsForConnectedWallet
<1> QED BY <1>2, <1>3, <1>4 DEF WalletInv

LEMMA WalletStep == ASSUME WalletInv, [WalletNext]_walletVars PROVE WalletInv'
<1>1. /\ WalletTypeOK /\ SessionLinks /\ SessionsFollowWallets /\ LoginLinks /\ TabLinks
      /\ logins \in Seq(Logins) /\ challenges \in Seq(Challenges) /\ sessions \in Seq(Sessions)
      /\ \A c \in DOMAIN challenges : c \in DOMAIN challenges /\ challenges[c].used = challenges[c].used
  BY DEF WalletInv, WalletTypeOK, SessionLinks, LoginLinks, TabLinks
(* only the tabs, the clock and the counters move *)
<1>2. ASSUME UNCHANGED <<logins, challenges, sessions, owners, acted>>, TabLinks', ticks' \in Nat,
             account' \in [Browsers -> Wallets \union {NoAccount}],
             shown' \in [Browsers -> Nat], kept' \in [Browsers -> [Wallets -> Nat]]
      PROVE  WalletInv'
  <2>1. WalletTypeOK' /\ LoginLinks'
    BY <1>1, <1>2 DEF WalletTypeOK, LoginLinks
  <2> QED BY <1>1, <1>2, <2>1, QuietStep
(* only a login moves *)
<1>3. ASSUME UNCHANGED <<ticks, tabVars, challenges, sessions, owners, acted>>,
             logins' \in Seq(Logins), LoginLinks'
      PROVE  WalletInv'
  <2>1. WalletTypeOK' /\ TabLinks'
    BY <1>1, <1>3 DEF WalletTypeOK, TabLinks, tabVars
  <2> QED BY <1>1, <1>3, <2>1, QuietStep
<1>4. CASE WalletTick
  BY <1>1, <1>2, <1>4 DEF WalletTick, WalletTypeOK, TabLinks, tabVars
<1>5. ASSUME NEW b \in Browsers, NEW w \in Wallets \union {NoAccount}, SwitchAccount(b, w)
      PROVE  WalletInv'
  BY <1>1, <1>2, <1>5 DEF SwitchAccount, WalletTypeOK, TabLinks
<1>6. ASSUME NEW b \in Browsers, AccountEffect(b) PROVE WalletInv'
  <2> DEFINE w == account[b]
             stored == IF w = NoAccount THEN 0 ELSE ReadStoredSession(b, w)
  <2>1. w \in Wallets \union {NoAccount} /\ Len(sessions) \in Nat
    BY <1>1 DEF WalletTypeOK
  <2>2. stored \in 0..Len(sessions)
    BY <1>1, <2>1 DEF ReadStoredSession, TabLinks
  <2>3. UNCHANGED <<ticks, account, logins, challenges, sessions, owners, acted>>
    BY <1>6 DEF AccountEffect
  <2>s. shown' = [shown EXCEPT ![b] = stored]
    BY <1>6 DEF AccountEffect
  <2>k. kept' = IF w = NoAccount THEN kept ELSE [kept EXCEPT ![b][w] = stored]
    BY <1>6 DEF AccountEffect
  <2> HIDE DEF stored, w
  <2>4. /\ shown' \in [Browsers -> Nat] /\ kept' \in [Browsers -> [Wallets -> Nat]]
        /\ TabLinks' /\ ticks' \in Nat /\ account' \in [Browsers -> Wallets \union {NoAccount}]
    <3>1. kept' = kept \/ \E v \in Wallets : kept' = [kept EXCEPT ![b][v] = stored]
      BY <2>1, <2>k
    <3>2. shown' \in [Browsers -> Nat] /\ kept' \in [Browsers -> [Wallets -> Nat]] /\ TabLinks'
      BY <2>2, <2>3, <2>s, <3>1, KeepSession
    <3> QED BY <1>1, <2>3, <3>2 DEF WalletTypeOK
  <2> QED BY <1>2, <2>3, <2>4
<1>7. ASSUME NEW b \in Browsers, ReuseStored(b) PROVE WalletInv'
  <2>1. account[b] \in Wallets
    BY <1>1, <1>7 DEF ReuseStored, WalletTypeOK
  <2>2. /\ UNCHANGED <<ticks, account, kept, logins, challenges, sessions, owners, acted>>
        /\ shown' = [shown EXCEPT ![b] = kept[b][account[b]]]
    BY <1>7 DEF ReuseStored
  <2>3. shown' \in [Browsers -> Nat] /\ TabLinks'
    BY <1>1, <2>1, <2>2 DEF WalletTypeOK, TabLinks
  <2> QED BY <1>1, <1>2, <2>2, <2>3 DEF WalletTypeOK
<1>8. ASSUME NEW b \in Browsers, AskChallenge(b) PROVE WalletInv'
  <2> DEFINE w == account[b]
             c == [wallet |-> w, expires |-> ticks + ChallengeTtl, used |-> FALSE]
             e == [browser |-> b, wallet |-> w, at |-> "sign", challenge |-> Len(challenges) + 1,
                   read |-> 0, session |-> 0]
  <2>1. /\ w \in Wallets /\ Len(challenges) + 1 \in Nat /\ 0 \in 0..Len(sessions)
        /\ ticks + ChallengeTtl \in Nat /\ Len(sessions) \in Nat
    BY <1>1, <1>8, WalletAssumption DEF AskChallenge, WalletTypeOK
  <2>2. /\ challenges' = Append(challenges, c) /\ logins' = Append(logins, e)
        /\ kept' = [kept EXCEPT ![b][w] = 0]
        /\ UNCHANGED <<ticks, account, shown, sessions, owners, acted>>
    BY <1>8 DEF AskChallenge
  <2>3. c \in Challenges /\ e \in Logins /\ e.challenge = Len(challenges) + 1 /\ e.session = 0
    <3> HIDE DEF w
    <3> QED BY <2>1 DEF Challenges, Logins
  <2> HIDE DEF c, e, w
  <2>4. /\ challenges' \in Seq(Challenges) /\ Len(challenges) + 1 \in DOMAIN challenges'
        /\ \A d \in DOMAIN challenges : d \in DOMAIN challenges' /\ challenges'[d].used = challenges[d].used
    BY <1>1, <2>2, <2>3, AppendElement
  <2>5. /\ logins' \in Seq(Logins) /\ DOMAIN logins' = DOMAIN logins \union {Len(logins) + 1}
        /\ logins'[Len(logins) + 1] = e /\ \A l \in DOMAIN logins : logins'[l] = logins[l]
    BY <1>1, <2>2, <2>3, AppendElement
  <2>6. LoginLinks'
    BY <1>1, <2>1, <2>2, <2>3, <2>4, <2>5 DEF LoginLinks
  <2>7. kept' \in [Browsers -> [Wallets -> Nat]] /\ TabLinks'
    BY <1>1, <2>1, <2>2 DEF WalletTypeOK, TabLinks
  <2>8. WalletTypeOK'
    BY <1>1, <2>2, <2>4, <2>5, <2>7 DEF WalletTypeOK
  <2>9. acted' \ acted = {}
    BY <2>2
  <2> QED BY <2>2, <2>4, <2>6, <2>7, <2>8, <2>9, QuietStep
<1>9. ASSUME NEW b \in Browsers, Authenticate(b) PROVE WalletInv'
  <2> DEFINE s == sessions[shown[b]]
             a == [account |-> account[b], wallet |-> s.wallet, owner |-> s.owner]
  <2>1. shown[b] \in DOMAIN sessions /\ s.wallet = account[b]
    BY <1>1, <1>9 DEF Authenticate, SessionMatches, Fresh, TabLinks
  <2>2. [wallet |-> s.wallet, owner |-> s.owner] \in owners
    BY <1>1, <2>1 DEF SessionLinks
  <2>3. s.owner \in OwnersOf(account[b])
    BY <2>1, <2>2 DEF OwnersOf
  <2>4. /\ acted' = acted \union {a}
        /\ UNCHANGED <<ticks, tabVars, logins, challenges, sessions, owners>>
    BY <1>9 DEF Authenticate
  <2>5. WalletTypeOK' /\ LoginLinks' /\ TabLinks'
    BY <1>1, <2>4 DEF WalletTypeOK, LoginLinks, TabLinks, tabVars
  <2>6. a.wallet = a.account /\ a.owner \in OwnersOf(a.account)
    BY <2>1, <2>3
  <2>7. \A x \in acted' \ acted : x.wallet = x.account /\ x.owner \in OwnersOf(x.account)
    BY <2>4, <2>6
  <2> QED BY <1>1, <2>4, <2>5, <2>7, QuietStep
<1>10. ASSUME NEW b \in Browsers, Revoke(b) PROVE WalletInv'
  <2> DEFINE s == shown[b]
             e == [sessions[s] EXCEPT !.revoked = TRUE]
  <2>1. s \in DOMAIN sessions
    BY <1>1, <1>10 DEF Revoke, SessionMatches, Fresh, TabLinks
  <2>2. sessions[s] \in Sessions
    BY <1>1, <2>1, ElementOfSeq
  <2>3. /\ e \in Sessions /\ e.owner = sessions[s].owner /\ e.wallet = sessions[s].wallet
        /\ e.challenge = sessions[s].challenge /\ e.revoked
    BY <2>2 DEF Sessions
  <2>4. /\ sessions' = [sessions EXCEPT ![s] = e]
        /\ UNCHANGED <<ticks, tabVars, logins, challenges, owners, acted>>
    BY <1>10 DEF Revoke
  <2> HIDE DEF e, s
  <2>5. /\ sessions' \in Seq(Sessions) /\ DOMAIN sessions' = DOMAIN sessions /\ sessions'[s] = e
        /\ \A t \in DOMAIN sessions : t # s => sessions'[t] = sessions[t]
    BY <1>1, <2>1, <2>3, <2>4, ReplaceElement
  <2>6. Len(sessions') = Len(sessions)
    BY <1>1, <2>1, <2>3, <2>4, ExceptSeq
  <2>7. WalletTypeOK'
    BY <1>1, <2>4, <2>5 DEF WalletTypeOK, tabVars
  <2>8. \A t \in DOMAIN sessions :
           /\ sessions'[t].owner = sessions[t].owner /\ sessions'[t].wallet = sessions[t].wallet
           /\ sessions'[t].challenge = sessions[t].challenge
           /\ ~sessions'[t].revoked => ~sessions[t].revoked
    BY <2>3, <2>5
  <2>9. SessionLinks'
    BY <1>1, <2>4, <2>5, <2>6, <2>8 DEF SessionLinks, tabVars
  <2>10. ChallengeOpensOnce' /\ OneSessionPerOwner' /\ WalletHasOneOwner'
    BY <1>1, <2>5, <2>8 DEF SessionsFollowWallets, ChallengeOpensOnce, OneSessionPerOwner, WalletHasOneOwner
  <2>11. ActsForConnectedWallet'
    BY <1>1, <2>4 DEF SessionsFollowWallets, ActsForConnectedWallet, OwnersOf
  <2> QED BY <2>7, <2>9, <2>10, <2>11 DEF WalletInv, SessionsFollowWallets
<1>11. ASSUME NEW l \in DOMAIN logins, SignChallenge(l) \/ CheckSignature(l) \/ RefuseSession(l)
       PROVE  WalletInv'
  <2>1. \E at \in {"find", "failed", "consume"} : Move(l, at)
    BY <1>11 DEF SignChallenge, CheckSignature, RefuseSession
  <2>2. UNCHANGED <<ticks, tabVars, challenges, sessions, owners, acted>>
    BY <1>11 DEF SignChallenge, CheckSignature, RefuseSession
  <2>3. logins' \in Seq(Logins) /\ LoginLinks'
    BY <2>1, <2>2, MoveOK
  <2> QED BY <1>3, <2>2, <2>3
<1>12. ASSUME NEW l \in DOMAIN logins, RepeatVerify(l) PROVE WalletInv'
  <2> DEFINE e == [logins[l] EXCEPT !.at = "find", !.browser = NoAccount]
  <2>1. logins[l] \in Logins /\ logins[l].session \in 0..Len(sessions)
    BY <1>1, ElementOfSeq DEF LoginLinks
  <2>2. e \in Logins /\ e.challenge = logins[l].challenge /\ e.session = logins[l].session
    BY <2>1 DEF Logins
  <2>3. logins' = Append(logins, e) /\ UNCHANGED <<ticks, tabVars, challenges, sessions, owners, acted>>
    BY <1>12 DEF RepeatVerify
  <2> HIDE DEF e
  <2>4. logins' \in Seq(Logins) /\ LoginLinks'
    BY <2>1, <2>2, <2>3, LoginMoves
  <2> QED BY <1>3, <2>3, <2>4
<1>13. ASSUME NEW l \in DOMAIN logins, FindChallenge(l) PROVE WalletInv'
  <2> DEFINE row == challenges[logins[l].challenge]
             at == IF row.used \/ row.expires <= ticks THEN "failed" ELSE "check"
             e == [logins[l] EXCEPT !.at = at, !.read = ticks]
  <2>1. logins[l] \in Logins /\ logins[l].session \in 0..Len(sessions) /\ ticks \in Nat
    BY <1>1, ElementOfSeq DEF LoginLinks, WalletTypeOK
  <2>2. logins' = [logins EXCEPT ![l] = e] /\ UNCHANGED <<ticks, tabVars, challenges, sessions, owners, acted>>
    BY <1>13 DEF FindChallenge
  <2>3. at \in {"failed", "check"}
    OBVIOUS
  <2> HIDE DEF at
  <2>4. e \in Logins /\ e.challenge = logins[l].challenge /\ e.session = logins[l].session
    BY <2>1, <2>3 DEF Logins
  <2> HIDE DEF e
  <2>5. logins' \in Seq(Logins) /\ LoginLinks'
    BY <2>1, <2>2, <2>4, LoginMoves
  <2> QED BY <1>3, <2>2, <2>5
<1>14. ASSUME NEW l \in DOMAIN logins, StoreSession(l) PROVE WalletInv'
  <2> DEFINE login == logins[l]
  <2>1. /\ Move(l, "done") /\ UNCHANGED <<ticks, account, challenges, sessions, owners, acted>>
    BY <1>14 DEF StoreSession
  <2>2. /\ login.session \in 0..Len(sessions) /\ login.session \in Nat
        /\ login.browser \in Browsers \union {NoAccount} /\ login.wallet \in Wallets
    <3>1. login \in Logins /\ login.session \in 0..Len(sessions)
      BY <1>1, ElementOfSeq DEF LoginLinks
    <3> QED BY <3>1 DEF Logins
  <2>3. \/ UNCHANGED <<kept, shown>>
        \/ /\ login.browser \in Browsers
           /\ kept' = [kept EXCEPT ![login.browser][login.wallet] = login.session]
           /\ shown' = [shown EXCEPT ![login.browser] = login.session]
    BY <1>14, <2>2 DEF StoreSession
  <2>4. logins' \in Seq(Logins) /\ LoginLinks'
    BY <2>1, MoveOK
  <2>5. kept' \in [Browsers -> [Wallets -> Nat]] /\ shown' \in [Browsers -> Nat] /\ TabLinks'
    <3>1. CASE UNCHANGED <<kept, shown>>
      BY <1>1, <2>1, <3>1 DEF WalletTypeOK, TabLinks
    <3> QED BY <2>1, <2>2, <2>3, <3>1, KeepSession
  <2>6. WalletTypeOK'
    BY <1>1, <2>1, <2>4, <2>5 DEF WalletTypeOK
  <2> QED BY <1>1, <2>1, <2>4, <2>5, <2>6, QuietStep
<1>15. CASE UNCHANGED walletVars
  BY <1>1, <1>2, <1>15 DEF walletVars, WalletTypeOK, TabLinks, tabVars
<1> QED BY <1>4, <1>5, <1>6, <1>7, <1>8, <1>9, <1>10, <1>11, <1>12, <1>13, <1>14, <1>15,
           OpenSessionOK DEF WalletNext

(* However logins of several tabs interleave, repeat and outlive a change   *)
(* of account, a signed challenge opens one session, an owner has one live  *)
(* session, a wallet one owner, and the backend acts for the wallet the tab *)
(* is connected with.                                                       *)
THEOREM SessionsBelong == WalletSpec => []SessionsFollowWallets
<1>1. WalletInit => WalletInv
  BY WalletStarts
<1>2. WalletInv /\ [WalletNext]_walletVars => WalletInv'
  BY WalletStep
<1>3. WalletInv => SessionsFollowWallets
  BY DEF WalletInv
<1> QED BY <1>1, <1>2, <1>3, PTL DEF WalletSpec

-----------------------------------------------------------------------------
(* The identity of intents.                                                 *)
Payments == {Immutable(r) : r \in Requests}
Calls == [at : {"idle", "find", "upsert", "reread", "answered", "refused", "failed"},
          request : Requests \union {<<>>}, attempt : Nat, answer : Nat]

KeysUnique == \A i, j \in DOMAIN intents : LogicalKey(intents[i]) = LogicalKey(intents[j]) => i = j

CallOK(p) ==
  /\ call[p].at # "idle" => call[p].request \in Requests
  /\ call[p].at = "answered" => /\ call[p].answer \in DOMAIN intents
                                /\ intents[call[p].answer] = Asked(p)

IdentityInv ==
  /\ intents \in Seq(Payments)
  /\ call \in [Acquirers -> Calls]
  /\ KeysUnique
  /\ \A p \in Acquirers : CallOK(p)

\* Call p moves, and at most its row is added.
LEMMA CallMoves ==
  ASSUME IdentityInv, NEW p \in Acquirers, NEW c \in Calls, call' = [call EXCEPT ![p] = c],
         \/ UNCHANGED intents
         \/ /\ c.request \in Requests
            /\ intents' = Append(intents, Immutable(c.request))
            /\ RowWith(LogicalKey(Immutable(c.request))) = {},
         c.at # "idle" => c.request \in Requests,
         c.at = "answered" => c.answer \in DOMAIN intents' /\ intents'[c.answer] = Immutable(c.request)
  PROVE  IdentityInv'
<1>1. call' \in [Acquirers -> Calls] /\ call'[p] = c /\ \A q \in Acquirers : q # p => call'[q] = call[q]
  BY DEF IdentityInv
<1>2. /\ intents' \in Seq(Payments) /\ KeysUnique'
      /\ \A i \in DOMAIN intents : i \in DOMAIN intents' /\ intents'[i] = intents[i]
  <2>1. CASE UNCHANGED intents
    BY <2>1 DEF IdentityInv, KeysUnique
  <2>2. CASE /\ c.request \in Requests
             /\ intents' = Append(intents, Immutable(c.request))
             /\ RowWith(LogicalKey(Immutable(c.request))) = {}
    <3> DEFINE m == Immutable(c.request)
               n == Len(intents) + 1
    <3>1. m \in Payments
      BY <2>2 DEF Payments
    <3>2. intents' = Append(intents, m) /\ RowWith(LogicalKey(m)) = {}
      BY <2>2
    <3> HIDE DEF m, n
    <3>3. /\ intents' \in Seq(Payments) /\ DOMAIN intents' = DOMAIN intents \union {n}
          /\ intents'[n] = m /\ \A i \in DOMAIN intents : intents'[i] = intents[i]
      BY <3>1, <3>2, AppendElement DEF IdentityInv, n
    <3>4. \A i \in DOMAIN intents : LogicalKey(intents[i]) # LogicalKey(m)
      BY <3>2 DEF RowWith
    <3>5. KeysUnique'
      BY <3>3, <3>4 DEF IdentityInv, KeysUnique
    <3> QED BY <3>3, <3>5
  <2> QED BY <2>1, <2>2
<1>3. \A q \in Acquirers : CallOK(q)'
  <2> SUFFICES ASSUME NEW q \in Acquirers PROVE CallOK(q)'
    OBVIOUS
  <2>1. CASE q = p
    BY <1>1, <2>1 DEF CallOK, Asked
  <2>2. CASE q # p
    BY <1>1, <1>2, <2>2 DEF IdentityInv, CallOK, Asked
  <2> QED BY <2>1, <2>2
<1> QED BY <1>1, <1>2, <1>3 DEF IdentityInv

LEMMA IdentityStep == ASSUME IdentityInv, [IdentityNext]_identityVars PROVE IdentityInv'
<1>1. ASSUME UNCHANGED <<intents, call>> PROVE IdentityInv'
  BY <1>1 DEF IdentityInv, KeysUnique, CallOK, Asked
<1>2. ASSUME NEW p \in Acquirers, BeginAcquire(p) PROVE IdentityInv'
  <2>1. PICK r \in Requests :
           call' = [call EXCEPT ![p] = [NoCallYet EXCEPT !.request = r,
                       !.at = IF Canonicalizes(r) THEN "find" ELSE "refused"]]
    BY <1>2 DEF BeginAcquire
  <2> DEFINE c == [NoCallYet EXCEPT !.request = r,
                       !.at = IF Canonicalizes(r) THEN "find" ELSE "refused"]
  <2>2. c \in Calls /\ c.request = r /\ c.at # "answered"
    BY DEF NoCallYet, NoIntent, Calls
  <2>3. call' = [call EXCEPT ![p] = c] /\ UNCHANGED intents
    BY <1>2, <2>1 DEF BeginAcquire
  <2> HIDE DEF c
  <2> QED BY <2>2, <2>3, CallMoves
(* a call that is under way *)
<1>3. ASSUME NEW p \in Acquirers, call[p].at \in {"find", "upsert", "reread"},
             FindIntent(p) \/ UpsertIntent(p) \/ RereadIntent(p)
      PROVE  IdentityInv'
  <2>1. call[p] \in Calls /\ call[p].request \in Requests
    BY <1>3 DEF IdentityInv, CallOK
  <2>2. ASSUME NEW at \in {"find", "upsert", "reread", "refused", "failed"}, NEW k \in Nat,
               call' = [call EXCEPT ![p].at = at, ![p].attempt = k], UNCHANGED intents
        PROVE  IdentityInv'
    <3> DEFINE c == [call[p] EXCEPT !.at = at, !.attempt = k]
    <3>1. c \in Calls /\ c.request = call[p].request /\ c.at = at
      BY <2>1, <2>2 DEF Calls
    <3>2. call' = [call EXCEPT ![p] = c]
      BY <2>2
    <3> HIDE DEF c
    <3> QED BY <2>1, <2>2, <3>1, <3>2, CallMoves
  <2>3. ASSUME NEW at \in {"find", "upsert", "reread", "refused", "failed"},
               call' = [call EXCEPT ![p].at = at], UNCHANGED intents
        PROVE  IdentityInv'
    <3> DEFINE c == [call[p] EXCEPT !.at = at]
    <3>1. c \in Calls /\ c.request = call[p].request /\ c.at = at
      BY <2>1, <2>3 DEF Calls
    <3>2. call' = [call EXCEPT ![p] = c]
      BY <2>3
    <3> HIDE DEF c
    <3> QED BY <2>1, <2>3, <3>1, <3>2, CallMoves
  <2>4. ASSUME AnswerWith(p, Found(LogicalKey(Asked(p)))), UNCHANGED intents,
               Found(LogicalKey(Asked(p))) # NoIntent
        PROVE  IdentityInv'
    <3> DEFINE i == Found(LogicalKey(Asked(p)))
               c == [call[p] EXCEPT !.at = "answered", !.answer = i]
    <3>1. i \in DOMAIN intents
      BY <2>4 DEF Found, RowWith
    <3>2. \/ call' = [call EXCEPT ![p].at = "refused"]
          \/ intents[i] = Asked(p) /\ call' = [call EXCEPT ![p].at = "answered", ![p].answer = i]
      BY <2>4 DEF AnswerWith, RequestFingerprint
    <3>3. i \in Nat
      BY <3>1 DEF IdentityInv
    <3> HIDE DEF i
    <3>4. c \in Calls /\ c.request = call[p].request /\ c.at = "answered" /\ c.answer = i
      BY <2>1, <3>3 DEF Calls
    <3>5. CASE intents[i] = Asked(p) /\ call' = [call EXCEPT ![p].at = "answered", ![p].answer = i]
      <4>1. call' = [call EXCEPT ![p] = c]
        BY <3>5
      <4> HIDE DEF c
      <4> QED BY <2>1, <2>4, <3>1, <3>4, <3>5, <4>1, CallMoves DEF Asked
    <3> QED BY <2>3, <2>4, <3>2, <3>5
  <2>5. CASE FindIntent(p)
    BY <2>3, <2>4, <2>5 DEF FindIntent
  <2>6. CASE RereadIntent(p)
    <3>1. CASE call' = [call EXCEPT ![p].at = "find", ![p].attempt = @ + 1] /\ UNCHANGED intents
      <4>1. call[p].attempt + 1 \in Nat
        BY <2>1 DEF Calls
      <4>2. call' = [call EXCEPT ![p].at = "find", ![p].attempt = call[p].attempt + 1]
        BY <3>1 DEF IdentityInv, Calls
      <4> QED BY <2>2, <3>1, <4>1, <4>2
    <3> QED BY <2>3, <2>4, <2>6, <3>1 DEF RereadIntent
  <2>7. CASE UpsertIntent(p)
    <3>1. CASE UNCHANGED intents /\ call' = [call EXCEPT ![p].at = "reread"]
      BY <2>3, <3>1
    <3>2. CASE /\ ~CommitRefused(LogicalKey(Asked(p)))
               /\ intents' = Append(intents, Asked(p))
               /\ call' = [call EXCEPT ![p].at = "answered", ![p].answer = Len(intents) + 1]
      <4> DEFINE n == Len(intents) + 1
                 c == [call[p] EXCEPT !.at = "answered", !.answer = n]
      <4>1. n \in Nat
        BY DEF IdentityInv
      <4>2. call' = [call EXCEPT ![p] = c]
        BY <3>2
      <4>3. RowWith(LogicalKey(Asked(p))) = {}
        <5>1. \A i \in RowWith(LogicalKey(Asked(p))) : i # NoIntent
          BY DEF RowWith, NoIntent, IdentityInv
        <5> QED BY <3>2, <5>1 DEF CommitRefused, Found
      <4>4. Asked(p) \in Payments
        BY <2>1 DEF Asked, Payments
      <4>5. n \in DOMAIN intents' /\ intents'[n] = Asked(p)
        BY <3>2, <4>4, AppendElement DEF IdentityInv
      <4> HIDE DEF n
      <4>6. c \in Calls /\ c.request = call[p].request /\ c.at = "answered" /\ c.answer = n
        BY <2>1, <4>1 DEF Calls
      <4> HIDE DEF c
      <4> QED BY <2>1, <3>2, <4>2, <4>3, <4>5, <4>6, CallMoves DEF Asked
    <3> QED BY <2>7, <3>1, <3>2 DEF UpsertIntent
  <2> QED BY <1>3, <2>5, <2>6, <2>7
<1>4. CASE CloseInvoice \/ UNCHANGED identityVars
  BY <1>1, <1>4 DEF CloseInvoice, identityVars
<1> QED BY <1>2, <1>3, <1>4 DEF IdentityNext, AcquireStep, FindIntent, UpsertIntent, RereadIntent

\* Two requests are the same payment when their immutable fields are equal.
LEMMA SameImmutable ==
  ASSUME NEW r \in Requests, NEW s \in Requests
  PROVE  SamePayment(r, s) <=> Immutable(r) = Immutable(s)
  BY DEF SamePayment, Immutable, CanonicalReference

-----------------------------------------------------------------------------
\* A column that is bound stays bound to its value, and a call that was
\* answered is one whose value the row has.
Rows == [context : Columns, circle : Columns, leased : BOOLEAN]
Binds == [at : {"update", "check", "answered", "refused"}, ask : Bindings, seen : Columns]
RowOf(ask) == columns[ask.intent][ask.kind]
Keeps(old, new) == /\ old.key # Unbound => new.key = old.key
                   /\ old.extra # Unbound => new.extra = old.extra
BindOK(p) ==
  /\ bind[p].at = "update" => /\ Compatible(bind[p].seen.key, bind[p].ask.key)
                              /\ Compatible(bind[p].seen.extra, bind[p].ask.extra)
  /\ bind[p].at = "answered" =>
       /\ RowOf(bind[p].ask).key = bind[p].ask.key
       /\ bind[p].ask.extra # Unbound => RowOf(bind[p].ask).extra = bind[p].ask.extra
OneCorrelation ==
  \A i, j \in BoundIntents : i # j =>
     /\ columns[i].circle.key # Unbound => columns[i].circle.key # columns[j].circle.key
     /\ columns[i].circle.extra # Unbound =>
          columns[i].circle.extra # columns[j].circle.extra
BindingInv ==
  /\ columns \in [BoundIntents -> Rows]
  /\ bind \in [Binders -> {NoBind} \union Binds]
  /\ \A p \in Binders : BindOK(p)
  /\ OneCorrelation

\* A call that has read the row has a request, and the row it names is one.
LEMMA BindUnderWay ==
  ASSUME BindingInv, NEW p \in Binders, bind[p].at \in {"update", "check", "answered", "refused"}
  PROVE  /\ bind[p] \in Binds /\ bind[p].ask \in Bindings /\ bind[p].seen \in Columns
         /\ bind[p].ask.intent \in BoundIntents /\ RowOf(bind[p].ask) \in Columns
<1>1. bind[p] \in Binds
  BY DEF BindingInv, NoBind
<1>2. bind[p].ask \in Bindings /\ bind[p].seen \in Columns
  BY <1>1 DEF Binds
<1>3. bind[p].ask.intent \in BoundIntents /\ bind[p].ask.kind \in {"context", "circle"}
  BY <1>2 DEF Bindings
<1> QED BY <1>1, <1>2, <1>3 DEF BindingInv, Rows, RowOf

\* What an update writes: the columns it has read, the empty ones filled.
LEMMA Fills ==
  ASSUME BindingInv, NEW p \in Binders, bind[p].at = "update"
  PROVE  /\ BoundTo(p) \in Columns /\ Keeps(bind[p].seen, BoundTo(p))
<1>1. bind[p].ask \in Bindings /\ bind[p].seen \in Columns
  BY BindUnderWay
<1> QED BY <1>1 DEF BoundTo, Columns, Bindings, Keeps

LEMMA UpdateKeeps ==
  ASSUME BindingInv, NEW p \in Binders, UpdateColumns(p), UNCHANGED columns
  PROVE  BindingInv'
<1>1. bind' = [bind EXCEPT ![p].at = "refused"] \/ bind' = [bind EXCEPT ![p].at = "check"]
  BY DEF UpdateColumns
<1>2. bind[p] \in Binds
  BY BindUnderWay DEF UpdateColumns
<1>3. bind' \in [Binders -> {NoBind} \union Binds]
  BY <1>1, <1>2 DEF BindingInv, Binds
<1>4. ASSUME NEW q \in Binders PROVE BindOK(q)'
  <2>1. CASE q = p
    <3>1. bind'[p].at \in {"refused", "check"}
      BY <1>1, <1>2 DEF BindingInv, Binds
    <3> QED BY <2>1, <3>1 DEF BindOK
  <2>2. CASE q # p
    <3>1. bind'[q] = bind[q]
      BY <1>1, <2>2 DEF BindingInv
    <3> QED BY <3>1 DEF BindingInv, BindOK, RowOf
  <2> QED BY <2>1, <2>2
<1> QED BY <1>3, <1>4 DEF BindingInv, OneCorrelation

\* The update that is made: the row is still as it was read.
LEMMA UpdateFills ==
  ASSUME BindingInv, NEW p \in Binders, UpdateColumns(p), StillAsRead(p), ~HeldElsewhere(p)
  PROVE  BindingInv'
<1> DEFINE i == bind[p].ask.intent
           k == bind[p].ask.kind
           new == BoundTo(p)
<1>1. /\ bind[p] \in Binds /\ i \in BoundIntents /\ k \in {"context", "circle"}
      /\ columns[i][k] = bind[p].seen
  BY BindUnderWay DEF UpdateColumns, StillAsRead, Bindings
<1>2. new \in Columns /\ Keeps(columns[i][k], new)
  BY <1>1, Fills DEF UpdateColumns
<1>3. /\ columns' = [columns EXCEPT ![i][k] = new, ![i].leased = @ /\ k = "context"]
      /\ bind' = [bind EXCEPT ![p].at = "check"]
  BY DEF UpdateColumns
<1>4. k = "circle" => \A j \in BoundIntents \ {i} :
        /\ columns[j].circle.key # new.key
        /\ new.extra # Unbound => columns[j].circle.extra # new.extra
  BY DEF HeldElsewhere
<1> HIDE DEF new
<1>5. /\ columns' \in [BoundIntents -> Rows]
      /\ \A j \in BoundIntents : j # i => columns'[j] = columns[j]
      /\ columns'[i][k] = new
      /\ k = "circle" => columns'[i].context = columns[i].context /\ columns'[i].circle = new
      /\ k = "context" => columns'[i].circle = columns[i].circle /\ columns'[i].context = new
  <2>1. columns[i] \in Rows
    BY <1>1 DEF BindingInv
  <2>2. CASE k = "circle"
    BY <1>1, <1>2, <1>3, <2>1, <2>2 DEF BindingInv, Rows
  <2>3. CASE k = "context"
    BY <1>1, <1>2, <1>3, <2>1, <2>3 DEF BindingInv, Rows
  <2> QED BY <1>1, <2>2, <2>3
<1>6. \A ask \in Bindings : Keeps(RowOf(ask), RowOf(ask)')
  <2> SUFFICES ASSUME NEW ask \in Bindings PROVE Keeps(RowOf(ask), RowOf(ask)')
    OBVIOUS
  <2>1. ask.intent \in BoundIntents /\ ask.kind \in {"context", "circle"}
    BY DEF Bindings
  <2>2. CASE ask.intent # i
    BY <1>5, <2>1, <2>2 DEF RowOf, Keeps
  <2>3. CASE ask.intent = i
    BY <1>1, <1>2, <1>5, <2>1, <2>3 DEF RowOf, Keeps
  <2> QED BY <2>2, <2>3
<1>7. bind' \in [Binders -> {NoBind} \union Binds] /\ bind'[p].at = "check"
      /\ \A q \in Binders : q # p => bind'[q] = bind[q]
  BY <1>1, <1>3 DEF BindingInv, Binds
<1>8. ASSUME NEW q \in Binders PROVE BindOK(q)'
  <2>1. CASE q = p
    BY <1>7, <2>1 DEF BindOK
  <2>2. CASE q # p
    <3>1. bind'[q] = bind[q]
      BY <1>7, <2>2
    <3>2. CASE bind[q].at = "answered"
      <4>1. bind[q].ask \in Bindings
        BY <3>2, BindUnderWay
      <4>2. bind[q].ask.key # Unbound
        BY <4>1, IdentityAssumption DEF Bindings, Unbound
      <4>3. Keeps(RowOf(bind[q].ask), RowOf(bind[q].ask)')
        BY <1>6, <4>1, <3>1
      <4> QED BY <3>1, <3>2, <4>2, <4>3 DEF BindingInv, BindOK, Keeps
    <3>3. CASE bind[q].at # "answered"
      BY <3>1, <3>3 DEF BindingInv, BindOK
    <3> QED BY <3>2, <3>3
  <2> QED BY <2>1, <2>2
<1>9. OneCorrelation'
  <2>1. CASE k = "context"
    BY <1>1, <1>5, <2>1 DEF BindingInv, OneCorrelation
  <2>2. CASE k = "circle"
    BY <1>1, <1>4, <1>5, <2>2 DEF BindingInv, OneCorrelation
  <2> QED BY <1>1, <2>1, <2>2
<1> QED BY <1>5, <1>7, <1>8, <1>9 DEF BindingInv

LEMMA BindingStep == ASSUME BindingInv, [BindingNext]_bindingVars PROVE BindingInv'
<1>1. CASE UNCHANGED bindingVars
  BY <1>1 DEF bindingVars, BindingInv, BindOK, RowOf, OneCorrelation
<1>2. ASSUME NEW p \in Binders, BeginBind(p) PROVE BindingInv'
  <2>1. PICK ask \in Bindings :
          LET seen == columns[ask.intent][ask.kind] IN
          bind' = [bind EXCEPT ![p] =
                    [at |-> IF Compatible(seen.key, ask.key) /\ Compatible(seen.extra, ask.extra)
                            THEN "update" ELSE "refused",
                     ask |-> ask, seen |-> seen]]
    BY <1>2 DEF BeginBind
  <2> DEFINE seen == columns[ask.intent][ask.kind]
             at == IF Compatible(seen.key, ask.key) /\ Compatible(seen.extra, ask.extra)
                   THEN "update" ELSE "refused"
             b == [at |-> at, ask |-> ask, seen |-> seen]
  <2>2. seen \in Columns
    BY DEF BindingInv, Rows, Bindings
  <2>3. b \in Binds
    BY <2>2 DEF Binds
  <2>4. bind' = [bind EXCEPT ![p] = b] /\ UNCHANGED columns
    BY <1>2, <2>1 DEF BeginBind
  <2>5. b.at = "update" => Compatible(b.seen.key, b.ask.key) /\ Compatible(b.seen.extra, b.ask.extra)
    OBVIOUS
  <2>6. b.at # "answered"
    OBVIOUS
  <2> HIDE DEF b
  <2>7. bind' \in [Binders -> {NoBind} \union Binds]
    BY <2>3, <2>4 DEF BindingInv
  <2>8. ASSUME NEW q \in Binders PROVE BindOK(q)'
    <3>1. CASE q = p
      BY <2>4, <2>5, <2>6, <3>1 DEF BindingInv, BindOK
    <3>2. CASE q # p
      <4>1. bind'[q] = bind[q]
        BY <2>4, <3>2 DEF BindingInv
      <4> QED BY <2>4, <4>1 DEF BindingInv, BindOK, RowOf
    <3> QED BY <3>1, <3>2
  <2> QED BY <2>4, <2>7, <2>8 DEF BindingInv, OneCorrelation
<1>3. ASSUME NEW p \in Binders, UpdateColumns(p) PROVE BindingInv'
  <2>1. UNCHANGED columns \/ (StillAsRead(p) /\ ~HeldElsewhere(p))
    BY <1>3 DEF UpdateColumns
  <2> QED BY <1>3, <2>1, UpdateKeeps, UpdateFills
<1>4. ASSUME NEW p \in Binders, CheckColumns(p) PROVE BindingInv'
  <2>1. bind[p] \in Binds
    BY <1>4, BindUnderWay DEF CheckColumns
  <2>2. PICK at \in {"answered", "refused"} :
          /\ bind' = [bind EXCEPT ![p].at = at] /\ UNCHANGED columns
          /\ at = "answered" => Matches(RowOf(bind[p].ask), bind[p].ask)
    BY <1>4 DEF CheckColumns, RowOf
  <2>3. bind' \in [Binders -> {NoBind} \union Binds]
    BY <2>1, <2>2 DEF BindingInv, Binds
  <2>4. ASSUME NEW q \in Binders PROVE BindOK(q)'
    <3>1. CASE q = p
      <4>1. bind'[p].at = at /\ bind'[p].ask = bind[p].ask
        BY <2>1, <2>2 DEF BindingInv, Binds
      <4> QED BY <2>2, <3>1, <4>1 DEF BindOK, Matches, RowOf
    <3>2. CASE q # p
      <4>1. bind'[q] = bind[q]
        BY <2>2, <3>2 DEF BindingInv
      <4> QED BY <2>2, <4>1 DEF BindingInv, BindOK, RowOf
    <3> QED BY <3>1, <3>2
  <2> QED BY <2>2, <2>3, <2>4 DEF BindingInv, OneCorrelation
<1> QED BY <1>1, <1>2, <1>3, <1>4 DEF BindingNext

(* However calls of acquire interleave, fail and are retried, two of them   *)
(* are answered with the same intent exactly when they ask for the same     *)
(* payment, an invoice or payment link has one intent whoever pays it, and  *)
(* a call that binds columns of an intent is answered with what the row     *)
(* keeps.                                                                   *)
THEOREM IntentsFollowPayments == IdentitySpec => []OneIntentPerPayment
<1> DEFINE Inv == IdentityInv /\ BindingInv
<1>1. IdentityInit => IdentityInv
  BY EmptySeq DEF IdentityInit, IdentityInv, NoCallYet, NoIntent, Calls, KeysUnique, CallOK
<1>2. BindingInit => BindingInv
  <2> SUFFICES ASSUME BindingInit PROVE BindingInv
    OBVIOUS
  <2>1. PICK w \in BindValues \union {Unbound} :
          columns = [i \in BoundIntents |->
                      [context |-> [key |-> w, extra |-> Unbound],
                       circle |-> [key |-> Unbound, extra |-> Unbound], leased |-> TRUE]]
    BY DEF BindingInit
  <2>2. columns \in [BoundIntents -> Rows]
    BY <2>1 DEF Rows, Columns
  <2>3. OneCorrelation
    BY <2>1 DEF OneCorrelation
  <2> QED BY <2>2, <2>3 DEF BindingInit, BindingInv, NoBind, BindOK
<1>3. Inv /\ [\/ IdentityNext /\ UNCHANGED bindingVars
              \/ BindingNext /\ UNCHANGED identityVars]_<<identityVars, bindingVars>> => Inv'
  <2>1. IdentityInv /\ [IdentityNext]_identityVars => IdentityInv'
    BY IdentityStep
  <2>2. BindingInv /\ [BindingNext]_bindingVars => BindingInv'
    BY BindingStep
  <2>3. UNCHANGED <<identityVars, bindingVars>> <=> UNCHANGED identityVars /\ UNCHANGED bindingVars
    OBVIOUS
  <2> QED BY <2>1, <2>2, <2>3
<1>4. ASSUME IdentityInv PROVE AnswersFollowPayment
  <2> SUFFICES ASSUME NEW p \in Acquirers, NEW q \in Acquirers,
                      call[p].at = "answered", call[q].at = "answered"
               PROVE  (call[p].answer = call[q].answer) <=> SamePayment(call[p].request, call[q].request)
    BY DEF AnswersFollowPayment
  <2>1. /\ call[p].request \in Requests /\ call[q].request \in Requests
        /\ call[p].answer \in DOMAIN intents /\ intents[call[p].answer] = Immutable(call[p].request)
        /\ call[q].answer \in DOMAIN intents /\ intents[call[q].answer] = Immutable(call[q].request)
    BY <1>4 DEF IdentityInv, CallOK, Asked
  <2>2. Immutable(call[p].request) = Immutable(call[q].request) => call[p].answer = call[q].answer
    BY <1>4, <2>1 DEF IdentityInv, KeysUnique
  <2> QED BY <2>1, <2>2, SameImmutable
<1>5. ASSUME IdentityInv PROVE OneIntentPerInvoice
  BY <1>5 DEF IdentityInv, KeysUnique, OneIntentPerInvoice, LogicalKey
<1>6. BindingInv => BindingsHold
  BY DEF BindingInv, BindOK, RowOf, OneCorrelation, BindingsHold
<1>7. Inv => OneIntentPerPayment
  BY <1>4, <1>5, <1>6 DEF OneIntentPerPayment
<1>8. IdentityInit /\ BindingInit => Inv
  BY <1>1, <1>2
<1> QED BY <1>3, <1>7, <1>8, PTL DEF IdentitySpec

-----------------------------------------------------------------------------
(* The send page, in any number of tabs: evidence only grows, an intent is  *)
(* granted the wallet by the page that acquired it, and what a success      *)
(* dialog shows is an intent completed with a transaction of its transfer.  *)

SendStatuses == {"CREATED", "AWAITING_WALLET_SIGNATURE", "SUBMITTED", "COMPLETED", "CANCELLED"}
SendRecords == [what : Reviewed, status : SendStatuses, hash : Nat]
SentRecords == [intent : Nat, what : Reviewed, outcome : {"pending", "success", "reverted"}]
Recoveries == [intent : Nat, hash : Nat]
SendPages ==
  [stage : {"idle", "awaiting_signature", "submitting", "confirming", "verifying", "completed",
            "recoverable_error"},
   locked : BOOLEAN, recovery : Recoveries,
   at : {"none", "prepare", "prepared", "wallet", "hash", "bind", "confirm"},
   intent : Nat, tx : Nat, checking : {"none", "reconcile", "cancelled"},
   held : Recoveries, verified : Nat, done : Nat]

SendRowsOK ==
  /\ sends \in Seq(SendRecords)
  /\ broadcasts \in Seq(SentRecords)
  /\ \A i \in DOMAIN sends :
       /\ sends[i].hash # 0 => sends[i].hash \in DOMAIN broadcasts
       /\ sends[i].status = "COMPLETED" =>
            /\ sends[i].hash # 0
            /\ broadcasts[sends[i].hash].outcome = "success"
            /\ broadcasts[sends[i].hash].what = sends[i].what
  /\ \A h \in DOMAIN broadcasts : broadcasts[h].intent \in DOMAIN sends

\* An intent that was granted the wallet once.
OpenedIntent(i) == i \in DOMAIN sends /\ sends[i].status # "CREATED"

RecoveryOK(r) ==
  /\ r \in Recoveries
  /\ r.intent # 0 => OpenedIntent(r.intent)
  /\ r.hash # 0 => r.intent # 0 /\ r.hash \in DOMAIN broadcasts

ShownOK(p) ==
  p.stage = "completed" /\ p.done # 0 =>
    p.done \in DOMAIN sends /\ sends[p.done].status = "COMPLETED" /\ sends[p.done].hash = p.verified

SendPageOK(p) ==
  /\ p \in SendPages
  /\ p.at # "none" => p.intent \in DOMAIN sends
  /\ p.at = "prepare" => sends[p.intent].status = "CREATED"
  /\ p.at \notin {"none", "prepare"} => OpenedIntent(p.intent)
  /\ p.at \in {"hash", "bind", "confirm"} =>
       p.tx \in DOMAIN broadcasts /\ broadcasts[p.tx].intent = p.intent
  /\ RecoveryOK(p.recovery) /\ RecoveryOK(p.held)
  /\ p.checking = "reconcile" => p.held.hash # 0
  /\ ShownOK(p)

\* Each page acquires its own intent.
OwnIntents ==
  \A b, c \in Pages :
    page[b].at = "prepare" /\ page[c].at = "prepare" /\ page[b].intent = page[c].intent => b = c

SendInv ==
  /\ SendRowsOK
  /\ page = [b \in Pages |-> page[b]] /\ \A b \in Pages : SendPageOK(page[b])
  /\ RecoveryOK(storage)
  /\ OwnIntents

\* What no step takes back.
SendsGrow ==
  \A i \in DOMAIN sends :
    /\ i \in DOMAIN sends'
    /\ sends[i].status # "CREATED" => sends'[i].status # "CREATED"
    /\ sends[i].hash # 0 => sends'[i].hash = sends[i].hash
    /\ sends[i].status = "COMPLETED" => sends'[i].status = "COMPLETED"

SentGrows ==
  \A h \in DOMAIN broadcasts :
    h \in DOMAIN broadcasts' /\ broadcasts'[h].intent = broadcasts[h].intent

LEMMA SendStarts == SendInit => SendInv
BY DEF SendInit, SendInv, SendRowsOK, SendPageOK, RecoveryOK, ShownOK, OwnIntents, FreshPage,
       NoRecovery, SendPages, Recoveries

LEMMA RecoveryStays ==
  ASSUME SendRowsOK, SendsGrow, SentGrows, NEW r, RecoveryOK(r)
  PROVE  RecoveryOK(r)'
BY DEF SendRowsOK, SendsGrow, SentGrows, RecoveryOK, OpenedIntent, Recoveries

\* A page that takes no step: only its own intent must still be to be granted.
LEMMA PageStays ==
  ASSUME SendRowsOK, SendsGrow, SentGrows, NEW p, SendPageOK(p),
         p.at = "prepare" => sends'[p.intent].status = "CREATED"
  PROVE  SendPageOK(p)'
<1>1. p \in SendPages /\ RecoveryOK(p.recovery)' /\ RecoveryOK(p.held)'
  BY RecoveryStays DEF SendPageOK
<1>2. ShownOK(p)'
  BY DEF SendPageOK, ShownOK, SendsGrow, SendRowsOK
<1> QED  BY <1>1, <1>2 DEF SendPageOK, SendsGrow, SentGrows, OpenedIntent, SendRowsOK

\* Page b moves to q.
LEMMA PageMoves ==
  ASSUME SendInv, NEW b \in Pages, NEW q,
         page' = [page EXCEPT ![b] = q], SendPageOK(q)',
         SendRowsOK', SendsGrow, SentGrows, RecoveryOK(storage)',
         \A c \in Pages \ {b} : page[c].at = "prepare" =>
            /\ sends'[page[c].intent].status = "CREATED"
            /\ q.at = "prepare" => q.intent # page[c].intent
  PROVE  SendInv'
<1>1. /\ page' = [c \in Pages |-> page'[c]] /\ page'[b] = q
      /\ \A c \in Pages \ {b} : page'[c] = page[c]
  BY DEF SendInv
<1>2. \A c \in Pages : SendPageOK(page[c])  BY DEF SendInv
<1>3. ASSUME NEW c \in Pages PROVE SendPageOK(page[c])'
  <2> DEFINE p == page[c]
  <2>1. SendPageOK(p)  BY <1>2
  <2>2. CASE c = b  BY <2>2, <1>1 DEF SendPageOK
  <2>3. CASE c # b
    <3>1. p.at = "prepare" => sends'[p.intent].status = "CREATED"  BY <2>3
    <3>2. page'[c] = p  BY <1>1, <2>3
    <3> HIDE DEF p
    <3>3. PICK x : x = p  OBVIOUS
    <3>4. SendPageOK(x)'  BY <3>1, <3>3, <2>1, PageStays DEF SendInv
    <3> QED  BY <3>2, <3>3, <3>4 DEF SendPageOK, RecoveryOK, ShownOK
  <2> QED  BY <2>2, <2>3
<1>4. OwnIntents'
  BY <1>1 DEF OwnIntents, SendInv
<1> QED  BY <1>1, <1>3, <1>4 DEF SendInv

LEMMA QuietMoves ==
  ASSUME SendInv, NEW b \in Pages, NEW q, NEW r, UNCHANGED <<sends, broadcasts>>,
         page' = [page EXCEPT ![b] = q], SendPageOK(q),
         q.at = "prepare" => page[b].at = "prepare" /\ q.intent = page[b].intent,
         storage' = r, RecoveryOK(r)
  PROVE  SendInv'
<1>1. SendRowsOK' /\ SendsGrow /\ SentGrows
  BY DEF SendInv, SendRowsOK, SendsGrow, SentGrows
<1>2. SendPageOK(q)' /\ RecoveryOK(storage)'
  BY DEF SendPageOK, RecoveryOK, ShownOK, OpenedIntent
<1>3. \A c \in Pages \ {b} : page[c].at = "prepare" =>
        /\ sends'[page[c].intent].status = "CREATED"
        /\ q.at = "prepare" => q.intent # page[c].intent
  BY DEF SendInv, SendPageOK, OwnIntents
<1> QED  BY <1>1, <1>2, <1>3, PageMoves

\* One row is written, which keeps its evidence.
RowGrows(i, row) ==
  /\ row \in SendRecords
  /\ row.hash # 0 => row.hash \in DOMAIN broadcasts
  /\ row.status = "COMPLETED" =>
       /\ row.hash # 0
       /\ broadcasts[row.hash].outcome = "success" /\ broadcasts[row.hash].what = row.what
  /\ row.status # "CREATED"
  /\ sends[i].hash # 0 => row.hash = sends[i].hash
  /\ sends[i].status = "COMPLETED" => row.status = "COMPLETED"

LEMMA RowWritten ==
  ASSUME SendRowsOK, NEW i \in DOMAIN sends, NEW row, RowGrows(i, row),
         sends' = [sends EXCEPT ![i] = row], UNCHANGED broadcasts
  PROVE  /\ SendRowsOK' /\ SendsGrow /\ SentGrows
         /\ DOMAIN sends' = DOMAIN sends /\ sends'[i] = row
         /\ \A j \in DOMAIN sends \ {i} : sends'[j] = sends[j]
<1>1. sends' \in Seq(SendRecords) /\ DOMAIN sends' = DOMAIN sends /\ sends'[i] = row
      /\ \A j \in DOMAIN sends \ {i} : sends'[j] = sends[j]
  BY DEF SendRowsOK, RowGrows
<1>2. broadcasts' = broadcasts  OBVIOUS
<1>3. SendsGrow /\ SentGrows
  BY <1>1, <1>2 DEF SendsGrow, SentGrows, RowGrows
<1>4. \A j \in DOMAIN sends' :
       /\ sends'[j].hash # 0 => sends'[j].hash \in DOMAIN broadcasts
       /\ sends'[j].status = "COMPLETED" =>
            /\ sends'[j].hash # 0
            /\ broadcasts[sends'[j].hash].outcome = "success"
            /\ broadcasts[sends'[j].hash].what = sends'[j].what
  <2> TAKE j \in DOMAIN sends'
  <2>1. CASE j = i  BY <2>1, <1>1 DEF RowGrows
  <2>2. CASE j # i
    <3>1. j \in DOMAIN sends \ {i} /\ sends'[j] = sends[j]  BY <2>2, <1>1
    <3> QED  BY <3>1 DEF SendRowsOK
  <2> QED  BY <2>1, <2>2
<1>5. SendRowsOK'  BY <1>1, <1>2, <1>4 DEF SendRowsOK
<1> QED  BY <1>1, <1>3, <1>5

LEMMA RowMoves ==
  ASSUME SendInv, NEW b \in Pages, NEW q, NEW r, NEW i \in DOMAIN sends, NEW row,
         RowGrows(i, row), sends' = [sends EXCEPT ![i] = row], UNCHANGED broadcasts,
         page' = [page EXCEPT ![b] = q], SendPageOK(q)',
         OpenedIntent(i) \/ (page[b].at = "prepare" /\ page[b].intent = i),
         q.at = "prepare" => page[b].at = "prepare" /\ q.intent = page[b].intent,
         storage' = r, RecoveryOK(r)'
  PROVE  SendInv'
<1>1. /\ SendRowsOK' /\ SendsGrow /\ SentGrows
      /\ \A j \in DOMAIN sends \ {i} : sends'[j] = sends[j]
  BY RowWritten DEF SendInv
<1>2. RecoveryOK(storage)'  BY DEF RecoveryOK
<1>3. \A c \in Pages \ {b} : page[c].at = "prepare" =>
        /\ sends'[page[c].intent].status = "CREATED"
        /\ q.at = "prepare" => q.intent # page[c].intent
  BY <1>1 DEF SendInv, SendPageOK, OwnIntents, OpenedIntent
<1> QED  BY <1>1, <1>2, <1>3, PageMoves

LEMMA FailedPageOK ==
  ASSUME NEW b \in Pages, SendPageOK(page[b])
  PROVE  SendPageOK(FailedPage(b)) /\ FailedPage(b).at = "none"
BY DEF FailedPage, SendPageOK, ShownOK, SendPages

LEMMA FailureKeeps ==
  ASSUME SendInv, NEW b \in Pages, page' = [page EXCEPT ![b] = FailedPage(b)],
         UNCHANGED <<sends, broadcasts, storage>>
  PROVE  SendInv'
<1>1. SendPageOK(FailedPage(b)) /\ FailedPage(b).at = "none"  BY FailedPageOK DEF SendInv
<1>2. PICK q : q = FailedPage(b)  OBVIOUS
<1>3. PICK r : r = storage  OBVIOUS
<1>4. RecoveryOK(r)  BY <1>3 DEF SendInv
<1> QED  BY <1>1, <1>2, <1>3, <1>4, QuietMoves

LEMMA WalletFailureKeeps ==
  ASSUME SendInv, NEW b \in Pages, WalletFails(b)
  PROVE  SendInv'
BY FailureKeeps DEF WalletFails

LEMMA SubmitKeeps ==
  ASSUME SendInv, NEW b \in Pages, NEW what \in Reviewed, Submit(b, what)
  PROVE  SendInv'
<1> DEFINE n == Len(sends) + 1
<1> DEFINE row == [what |-> what, status |-> "CREATED", hash |-> 0]
<1> DEFINE q == [page[b] EXCEPT !.stage = "awaiting_signature", !.at = "prepare", !.intent = n,
                                !.tx = 0]
<1>1. /\ sends \in Seq(SendRecords) /\ row \in SendRecords /\ sends' = Append(sends, row)
      /\ UNCHANGED <<broadcasts, storage>>
  BY DEF Submit, SendInv, SendRowsOK, SendRecords, SendStatuses
<1>2. /\ n \in Nat /\ n \notin DOMAIN sends /\ n \in DOMAIN sends' /\ sends'[n] = row
      /\ sends' \in Seq(SendRecords)
      /\ \A i \in DOMAIN sends' : i # n => i \in DOMAIN sends /\ sends'[i] = sends[i]
      /\ \A i \in DOMAIN sends : i \in DOMAIN sends' /\ sends'[i] = sends[i]
  BY <1>1
<1>3. SendsGrow /\ SentGrows  BY <1>1, <1>2 DEF SendsGrow, SentGrows
<1>4. SendRowsOK'
  <2>1. \A i \in DOMAIN sends' : i # n => i \in DOMAIN sends /\ sends'[i] = sends[i]  BY <1>2
  <2> QED  BY <2>1, <1>1, <1>2 DEF SendRowsOK, SendInv
<1>5. page' = [page EXCEPT ![b] = q]  BY DEF Submit
<1>6. SendPageOK(page[b])  BY DEF SendInv
<1>7. q \in SendPages /\ q.at = "prepare" /\ q.intent = n /\ q.stage = "awaiting_signature"
      /\ q.recovery = page[b].recovery /\ q.held = page[b].held /\ q.checking = page[b].checking
  BY <1>2, <1>6 DEF SendPageOK, SendPages
<1>8. PICK x : x = q  OBVIOUS
<1>9. SendPageOK(x)'
  <2>1. PICK r, h : r = page[b].recovery /\ h = page[b].held  OBVIOUS
  <2>2. RecoveryOK(r) /\ RecoveryOK(h)  BY <2>1, <1>6 DEF SendPageOK
  <2>3. RecoveryOK(r)' /\ RecoveryOK(h)'  BY <2>2, <1>3, RecoveryStays DEF SendInv
  <2>4. x.recovery = r /\ x.held = h  BY <2>1, <1>7, <1>8
  <2>5. RecoveryOK(x.recovery)' /\ RecoveryOK(x.held)'  BY <2>3, <2>4
  <2>6. x.checking = "reconcile" => x.held.hash # 0  BY <1>6, <1>7, <1>8 DEF SendPageOK
  <2> HIDE DEF q
  <2> QED  BY <2>5, <2>6, <1>2, <1>7, <1>8 DEF SendPageOK, ShownOK
<1>10. RecoveryOK(storage)'
  <2>1. PICK r : r = storage  OBVIOUS
  <2>2. RecoveryOK(r)  BY <2>1 DEF SendInv
  <2>3. RecoveryOK(r)'  BY <2>2, <1>3, RecoveryStays DEF SendInv
  <2> QED  BY <2>1, <2>3, <1>1 DEF RecoveryOK
<1>11. \A c \in Pages \ {b} : page[c].at = "prepare" =>
         /\ sends'[page[c].intent].status = "CREATED"
         /\ x.at = "prepare" => x.intent # page[c].intent
  <2> HIDE DEF q
  <2> QED  BY <1>2, <1>7, <1>8 DEF SendInv, SendPageOK
<1> HIDE DEF q
<1> QED  BY <1>3, <1>4, <1>5, <1>8, <1>9, <1>10, <1>11, PageMoves

LEMMA GrantWalletKeeps ==
  ASSUME SendInv, NEW b \in Pages, GrantWallet(b)
  PROVE  SendInv'
<1> DEFINE i == page[b].intent
<1> DEFINE row == [sends[i] EXCEPT !.status = "AWAITING_WALLET_SIGNATURE"]
<1> DEFINE q == [page[b] EXCEPT !.at = "prepared"]
<1>1. /\ SendPageOK(page[b]) /\ page[b].at = "prepare" /\ UNCHANGED <<broadcasts, storage>>
      /\ i \in DOMAIN sends /\ sends[i].status = "CREATED"
  BY DEF SendInv, GrantWallet, SendPageOK
<1>2. CASE sends' = [sends EXCEPT ![i].status = "AWAITING_WALLET_SIGNATURE"]
           /\ page' = [page EXCEPT ![b].at = "prepared"]
  <2>1. sends[i] \in SendRecords  BY <1>1 DEF SendInv, SendRowsOK
  <2>2. RowGrows(i, row)  BY <1>1, <2>1 DEF RowGrows, SendInv, SendRowsOK, SendRecords, SendStatuses
  <2>3. sends' = [sends EXCEPT ![i] = row] /\ page' = [page EXCEPT ![b] = q]  BY <1>2
  <2>4. PICK x : x = q  OBVIOUS
  <2>5. PICK y : y = row  OBVIOUS
  <2>6. PICK k : k = i  OBVIOUS
  <2>7. PICK r : r = storage  OBVIOUS
  <2> DEFINE p == page[b]
  <2>8. SendPageOK(p) /\ p.at = "prepare" /\ p.intent = k  BY <1>1, <2>6
  <2>9. PICK z : z = p  OBVIOUS
  <2>10. x = [z EXCEPT !.at = "prepared"] /\ SendPageOK(z) /\ z.at = "prepare" /\ z.intent = k
    BY <2>4, <2>8, <2>9
  <2>11. RowGrows(k, y) /\ sends' = [sends EXCEPT ![k] = y] /\ k \in DOMAIN sends /\ y.status # "CREATED"
         /\ page' = [page EXCEPT ![b] = x] /\ page[b].at = "prepare" /\ page[b].intent = k
    BY <2>2, <2>3, <2>4, <2>5, <2>6, <1>1 DEF RowGrows
  <2>12. RecoveryOK(r)  BY <2>7 DEF SendInv
  <2> HIDE DEF i, row, q, p
  <2>13. /\ SendsGrow /\ SentGrows
         /\ DOMAIN sends' = DOMAIN sends /\ sends'[k] = y
    BY <2>11, <1>1, RowWritten DEF SendInv
  <2>14. RecoveryOK(r)' /\ RecoveryOK(z.recovery)' /\ RecoveryOK(z.held)'
    BY <2>12, <2>10, <2>13, RecoveryStays DEF SendInv, SendPageOK
  <2>15. ShownOK(z)'
    BY <2>10, <2>13 DEF SendPageOK, ShownOK, SendsGrow, SendInv, SendRowsOK
  <2>16. /\ x \in SendPages /\ x.at = "prepared" /\ x.intent = k /\ x.recovery = z.recovery
         /\ x.held = z.held /\ x.checking = z.checking /\ x.stage = z.stage /\ x.done = z.done
         /\ x.verified = z.verified
    BY <2>10 DEF SendPageOK, SendPages
  <2>17. SendPageOK(x)'
    BY <2>10, <2>11, <2>13, <2>14, <2>15, <2>16 DEF SendPageOK, ShownOK, OpenedIntent, RecoveryOK
  <2> QED  BY <1>1, <2>7, <2>11, <2>14, <2>16, <2>17, RowMoves
<1>3. CASE page' = [page EXCEPT ![b] = FailedPage(b)] /\ UNCHANGED sends
  BY <1>1, <1>3, FailureKeeps
<1> QED  BY <1>2, <1>3 DEF GrantWallet

LEMMA OnWalletPreparedKeeps ==
  ASSUME SendInv, NEW b \in Pages, OnWalletPrepared(b)
  PROVE  SendInv'
<1> DEFINE record == [intent |-> page[b].intent, hash |-> 0]
<1> DEFINE q == [page[b] EXCEPT !.locked = TRUE, !.at = "wallet", !.recovery = record]
<1>1. SendPageOK(page[b]) /\ page[b].at = "prepared"  BY DEF SendInv, OnWalletPrepared
<1>2. RecoveryOK(record) /\ SendPageOK(q) /\ q.at = "wallet"
  BY <1>1 DEF SendPageOK, ShownOK, SendPages, RecoveryOK, Recoveries
<1>3. /\ UNCHANGED <<sends, broadcasts>> /\ storage' = record /\ page' = [page EXCEPT ![b] = q]
  BY DEF OnWalletPrepared
<1>4. PICK x : x = q  OBVIOUS
<1>5. PICK r : r = record  OBVIOUS
<1> HIDE DEF q, record
<1> QED  BY <1>2, <1>3, <1>4, <1>5, QuietMoves

LEMMA BroadcastKeeps ==
  ASSUME SendInv, NEW b \in Pages, Broadcast(b)
  PROVE  SendInv'
<1> DEFINE n == Len(broadcasts) + 1
<1> DEFINE tx == [intent |-> page[b].intent, what |-> sends[page[b].intent].what, outcome |-> "pending"]
<1> DEFINE q == [page[b] EXCEPT !.at = "hash", !.tx = n]
<1>1. /\ SendPageOK(page[b]) /\ page[b].at = "wallet" /\ page[b].intent \in DOMAIN sends
      /\ UNCHANGED <<sends, storage>> /\ broadcasts' = Append(broadcasts, tx)
      /\ page' = [page EXCEPT ![b] = q]
  BY DEF SendInv, Broadcast, SendPageOK
<1>2. tx \in SentRecords
  <2>1. PICK i : i = page[b].intent  OBVIOUS
  <2>2. i \in DOMAIN sends /\ sends \in Seq(SendRecords)  BY <1>1, <2>1 DEF SendInv, SendRowsOK
  <2>3. sends[i] \in SendRecords /\ i \in Nat  BY <2>2
  <2>4. sends[i].what \in Reviewed  BY <2>3 DEF SendRecords
  <2> QED  BY <2>1, <2>3, <2>4 DEF SentRecords
<1>3. /\ n \in DOMAIN broadcasts' /\ n \in Nat /\ broadcasts'[n] = tx /\ broadcasts' \in Seq(SentRecords)
      /\ \A h \in DOMAIN broadcasts : h \in DOMAIN broadcasts' /\ broadcasts'[h] = broadcasts[h]
      /\ \A h \in DOMAIN broadcasts' : h # n => h \in DOMAIN broadcasts
  BY <1>1, <1>2 DEF SendInv, SendRowsOK
<1>4. SendsGrow /\ SentGrows  BY <1>1, <1>3 DEF SendsGrow, SentGrows
<1>5. SendRowsOK'
  <2>1. tx.intent \in DOMAIN sends  BY <1>1
  <2> HIDE DEF tx, n
  <2> QED  BY <2>1, <1>1, <1>3 DEF SendRowsOK, SendInv
<1>6. PICK x, z, t, m : x = q /\ z = page[b] /\ t = tx /\ m = n  OBVIOUS
<1>7. /\ x = [z EXCEPT !.at = "hash", !.tx = m] /\ SendPageOK(z) /\ z.at = "wallet"
      /\ t.intent = z.intent
  BY <1>1, <1>6
<1>8. /\ x \in SendPages /\ x.at = "hash" /\ x.intent = z.intent /\ x.recovery = z.recovery /\ x.tx = m
      /\ x.held = z.held /\ x.checking = z.checking /\ x.stage = z.stage /\ x.done = z.done
      /\ x.verified = z.verified
  BY <1>7, <1>3, <1>6 DEF SendPageOK, SendPages
<1>9. m \in DOMAIN broadcasts' /\ broadcasts'[m] = t /\ page' = [page EXCEPT ![b] = x]  BY <1>1, <1>3, <1>6
<1> HIDE DEF q, n, tx
<1>10. SendPageOK(z)'  BY <1>1, <1>4, <1>7, PageStays DEF SendInv
<1>11. SendPageOK(x)'
  BY <1>7, <1>8, <1>9, <1>10 DEF SendPageOK, ShownOK, RecoveryOK
<1>12. RecoveryOK(storage)'
  <2>1. PICK r : r = storage  OBVIOUS
  <2>2. RecoveryOK(r)'  BY <2>1, <1>4, RecoveryStays DEF SendInv
  <2> QED  BY <2>1, <2>2, <1>1 DEF RecoveryOK
<1>13. \A c \in Pages \ {b} : page[c].at = "prepare" =>
         /\ sends'[page[c].intent].status = "CREATED"
         /\ x.at = "prepare" => x.intent # page[c].intent
  BY <1>1, <1>8 DEF SendInv, SendPageOK
<1> QED  BY <1>4, <1>5, <1>9, <1>11, <1>12, <1>13, PageMoves

LEMMA RecordHashKeeps ==
  ASSUME SendInv, NEW b \in Pages, RecordHash(b)
  PROVE  SendInv'
<1> DEFINE record == [intent |-> page[b].intent, hash |-> page[b].tx]
<1> DEFINE q == [page[b] EXCEPT !.at = "bind", !.recovery = record, !.stage = "submitting"]
<1>1. SendPageOK(page[b]) /\ page[b].at = "hash"  BY DEF SendInv, RecordHash
<1>2. RecoveryOK(record) /\ SendPageOK(q) /\ q.at = "bind"
  <2>1. page[b].intent \in DOMAIN sends /\ DOMAIN sends \subseteq Nat \ {0}
    BY <1>1 DEF SendPageOK, SendInv, SendRowsOK
  <2> QED  BY <1>1, <2>1 DEF SendPageOK, ShownOK, SendPages, RecoveryOK, Recoveries
<1>3. /\ UNCHANGED <<sends, broadcasts>> /\ storage' = record /\ page' = [page EXCEPT ![b] = q]
  BY DEF RecordHash
<1>4. PICK x : x = q  OBVIOUS
<1>5. PICK r : r = record  OBVIOUS
<1> HIDE DEF q, record
<1> QED  BY <1>2, <1>3, <1>4, <1>5, QuietMoves

\* A row that is bound, and perhaps completed, by page b.
LEMMA BoundMoves ==
  ASSUME SendInv, NEW b \in Pages, NEW q, NEW r, NEW i \in DOMAIN sends, NEW h \in DOMAIN broadcasts,
         NEW s \in {"SUBMITTED", "COMPLETED"},
         Bindable(i, h), OpenedIntent(i),
         sends' = [sends EXCEPT ![i] = [@ EXCEPT !.hash = h, !.status = s]],
         sends[i].status = "COMPLETED" => s = "COMPLETED",
         s = "COMPLETED" => VerifyErc20Transfer(i, h) \/ sends[i].status = "COMPLETED",
         UNCHANGED broadcasts, page' = [page EXCEPT ![b] = q], storage' = r,
         q \in SendPages, q.at = page[b].at \/ q.at \in {"none", "confirm"},
         q.at # "none" => q.intent = page[b].intent /\ q.tx = page[b].tx,
         q.at = "confirm" => page[b].at \in {"bind", "confirm"},
         RecoveryOK(q.recovery), RecoveryOK(q.held), RecoveryOK(r),
         q.checking = "reconcile" => q.held.hash # 0,
         q.stage = "completed" =>
            \/ ShownOK(page[b]) /\ q.done = page[b].done /\ q.verified = page[b].verified
               /\ page[b].stage = "completed"
            \/ q.done = i /\ q.verified = h /\ s = "COMPLETED"
  PROVE  SendInv'
<1> DEFINE row == [sends[i] EXCEPT !.hash = h, !.status = s]
<1>1. sends[i] \in SendRecords /\ h \in Nat \ {0} /\ DOMAIN sends \subseteq Nat \ {0}
  BY DEF SendInv, SendRowsOK
<1>2. RowGrows(i, row) /\ row.hash = h /\ row.status = s
  BY <1>1 DEF RowGrows, SendInv, SendRowsOK, SendRecords, SendStatuses, Bindable, VerifyErc20Transfer
<1>3. sends' = [sends EXCEPT ![i] = row]  OBVIOUS
<1>4. PICK y : y = row  OBVIOUS
<1>5. RowGrows(i, y) /\ sends' = [sends EXCEPT ![i] = y] /\ y.hash = h /\ y.status = s
  BY <1>2, <1>3, <1>4
<1> HIDE DEF row
<1>6. /\ SendsGrow /\ SentGrows /\ DOMAIN sends' = DOMAIN sends /\ sends'[i] = y
      /\ \A j \in DOMAIN sends \ {i} : sends'[j] = sends[j]
  BY <1>5, RowWritten DEF SendInv
<1>7. RecoveryOK(q.recovery)' /\ RecoveryOK(q.held)' /\ RecoveryOK(r)'
  BY <1>6, RecoveryStays DEF SendInv
<1>8. SendPageOK(page[b])  BY DEF SendInv
<1>9. ShownOK(q)'
  BY <1>5, <1>6, <1>8 DEF ShownOK, SendsGrow, SendInv, SendRowsOK, SendPageOK
<1>10. SendPageOK(q)'
  <2>1. q.at # "none" => q.intent \in DOMAIN sends'  BY <1>6, <1>8 DEF SendPageOK
  <2>2. q.at = "prepare" => sends'[q.intent].status = "CREATED"
    BY <1>6, <1>8 DEF SendPageOK, OpenedIntent
  <2>3. q.at \notin {"none", "prepare"} => OpenedIntent(q.intent)'
    BY <1>6, <1>8 DEF SendPageOK, OpenedIntent, SendsGrow, SendPages
  <2>4. q.at \in {"hash", "bind", "confirm"} =>
          q.tx \in DOMAIN broadcasts' /\ broadcasts'[q.tx].intent = q.intent
    BY <1>8 DEF SendPageOK
  <2> QED  BY <1>7, <1>9, <2>1, <2>2, <2>3, <2>4 DEF SendPageOK
<1>11. q.at = "prepare" => page[b].at = "prepare" /\ q.intent = page[b].intent  OBVIOUS
<1> QED  BY <1>5, <1>7, <1>10, <1>11, RowMoves

BoundAs(i, h, s) == sends' = [sends EXCEPT ![i] = [@ EXCEPT !.hash = h, !.status = s]]

LEMMA BindIs ==
  ASSUME SendRowsOK, NEW i \in DOMAIN sends, NEW h, Bind(i, h)
  PROVE  \E s \in {"SUBMITTED", "COMPLETED"} :
           BoundAs(i, h, s) /\ (s = "COMPLETED" <=> sends[i].status = "COMPLETED")
<1> DEFINE s == IF sends[i].status = "COMPLETED" THEN "COMPLETED" ELSE "SUBMITTED"
<1>1. sends[i] \in SendRecords  BY DEF SendRowsOK
<1>2. BoundAs(i, h, s)  BY <1>1 DEF Bind, BoundAs, SendRecords
<1>3. s \in {"SUBMITTED", "COMPLETED"} /\ (s = "COMPLETED" <=> sends[i].status = "COMPLETED")
  OBVIOUS
<1> QED  BY <1>2, <1>3

LEMMA BindHashKeeps ==
  ASSUME SendInv, NEW b \in Pages, BindHash(b)
  PROVE  SendInv'
<1>1. /\ SendPageOK(page[b]) /\ page[b].at = "bind" /\ UNCHANGED <<broadcasts, storage>>
  BY DEF SendInv, BindHash
<1>2. PICK i, h, z, r : i = page[b].intent /\ h = page[b].tx /\ z = page[b] /\ r = storage  OBVIOUS
<1>3. i \in DOMAIN sends /\ h \in DOMAIN broadcasts /\ OpenedIntent(i)
  BY <1>1, <1>2 DEF SendPageOK, OpenedIntent
<1>4. CASE /\ Bindable(i, h) /\ Bind(i, h)
           /\ page' = [page EXCEPT ![b].at = "confirm", ![b].stage = "confirming"]
  <2>1. PICK s \in {"SUBMITTED", "COMPLETED"} :
          BoundAs(i, h, s) /\ (s = "COMPLETED" <=> sends[i].status = "COMPLETED")
    BY <1>3, <1>4, BindIs DEF SendInv
  <2>2. PICK q : q = [z EXCEPT !.at = "confirm", !.stage = "confirming"]  OBVIOUS
  <2>3. page' = [page EXCEPT ![b] = q]  BY <1>4, <1>2, <2>2
  <2>4. SendPageOK(z) /\ RecoveryOK(r)  BY <1>1, <1>2 DEF SendInv
  <2>5. /\ q \in SendPages /\ q.at = "confirm" /\ q.intent = z.intent /\ q.tx = z.tx
        /\ q.recovery = z.recovery /\ q.held = z.held /\ q.checking = z.checking
        /\ q.stage = "confirming"
    BY <2>2, <2>4 DEF SendPageOK, SendPages
  <2>6. /\ RecoveryOK(q.recovery) /\ RecoveryOK(q.held)
        /\ q.checking = "reconcile" => q.held.hash # 0
    BY <2>4, <2>5 DEF SendPageOK
  <2>7. storage' = r /\ UNCHANGED broadcasts /\ page[b].at = "bind" /\ page[b].intent = z.intent
        /\ page[b].tx = z.tx
    BY <1>1, <1>2
  <2> QED  BY <1>3, <1>4, <2>1, <2>3, <2>4, <2>5, <2>6, <2>7, BoundMoves DEF BoundAs
<1>5. CASE page' = [page EXCEPT ![b] = FailedPage(b)] /\ UNCHANGED sends
  BY <1>1, <1>5, FailureKeeps
<1> QED  BY <1>2, <1>4, <1>5 DEF BindHash

LEMMA CompletedPageIs ==
  ASSUME NEW b \in Pages, page[b] \in SendPages, NEW i \in Nat, NEW h \in Nat
  PROVE  /\ CompletedPage(b, i, h) \in SendPages
         /\ CompletedPage(b, i, h).recovery = NoRecovery
         /\ CompletedPage(b, i, h).stage = "completed"
         /\ CompletedPage(b, i, h).done = i /\ CompletedPage(b, i, h).verified = h
         /\ CompletedPage(b, i, h).held = page[b].held /\ CompletedPage(b, i, h).at = page[b].at
         /\ CompletedPage(b, i, h).checking = page[b].checking
         /\ CompletedPage(b, i, h).intent = page[b].intent /\ CompletedPage(b, i, h).tx = page[b].tx
BY DEF CompletedPage, SendPages, Recoveries, NoRecovery

LEMMA NoRecoveryOK == RecoveryOK(NoRecovery)
BY DEF RecoveryOK, NoRecovery, Recoveries

LEMMA VerifyAndCompleteKeeps ==
  ASSUME SendInv, NEW b \in Pages, VerifyAndComplete(b)
  PROVE  SendInv'
<1>1. SendPageOK(page[b]) /\ page[b].at = "confirm" /\ UNCHANGED broadcasts
  BY DEF SendInv, VerifyAndComplete
<1>2. PICK i, h, z : i = page[b].intent /\ h = page[b].tx /\ z = page[b]  OBVIOUS
<1>3. /\ i \in DOMAIN sends /\ h \in DOMAIN broadcasts /\ OpenedIntent(i) /\ i \in Nat /\ h \in Nat
      /\ h # 0
  BY <1>1, <1>2 DEF SendPageOK, OpenedIntent, SendInv, SendRowsOK, SendPages
<1>4. CASE /\ VerifyErc20Transfer(i, h) /\ sends[i].hash = h
           /\ sends' = [sends EXCEPT ![i].status = "COMPLETED"]
           /\ storage' = NoRecovery
           /\ page' = [page EXCEPT ![b] = [CompletedPage(b, i, h) EXCEPT !.at = "none"]]
  <2>1. BoundAs(i, h, "COMPLETED")
    BY <1>3, <1>4 DEF BoundAs, SendInv, SendRowsOK, SendRecords
  <2>2. Bindable(i, h)  BY <1>4 DEF Bindable
  <2>3. PICK p, q : p = CompletedPage(b, i, h) /\ q = [p EXCEPT !.at = "none"]  OBVIOUS
  <2>4. /\ p \in SendPages /\ p.recovery = NoRecovery /\ p.stage = "completed" /\ p.done = i
        /\ p.verified = h /\ p.held = z.held /\ p.checking = z.checking
    BY <1>1, <1>2, <1>3, <2>3, CompletedPageIs DEF SendPageOK
  <2>5. /\ q \in SendPages /\ q.recovery = NoRecovery /\ q.stage = "completed" /\ q.done = i
        /\ q.verified = h /\ q.held = z.held /\ q.checking = z.checking /\ q.at = "none"
    BY <2>3, <2>4 DEF SendPages
  <2>6. page' = [page EXCEPT ![b] = q]  BY <1>4, <2>3
  <2>7. SendPageOK(z)  BY <1>1, <1>2
  <2>8. /\ RecoveryOK(q.recovery) /\ RecoveryOK(q.held)
        /\ q.checking = "reconcile" => q.held.hash # 0
    BY <2>5, <2>7, NoRecoveryOK DEF SendPageOK
  <2>9. PICK r : r = NoRecovery  OBVIOUS
  <2>10. storage' = r /\ RecoveryOK(r)  BY <1>4, <2>9, NoRecoveryOK
  <2> QED
    BY <1>1, <1>3, <1>4, <2>1, <2>2, <2>5, <2>6, <2>8, <2>10, BoundMoves DEF BoundAs
<1>5. CASE page' = [page EXCEPT ![b] = FailedPage(b)] /\ UNCHANGED <<sends, storage>>
  BY <1>1, <1>5, FailureKeeps
<1> QED  BY <1>2, <1>4, <1>5 DEF VerifyAndComplete

LEMMA ReloadKeeps ==
  ASSUME SendInv, NEW b \in Pages, Reload(b)
  PROVE  SendInv'
<1>1. PICK q, r : q = Mounted(storage) /\ r = storage  OBVIOUS
<1>2. RecoveryOK(r) /\ q = Mounted(r)  BY <1>1 DEF SendInv
<1>3. SendPageOK(q) /\ q.at = "none"
  BY <1>2 DEF Mounted, FreshPage, NoRecovery, SendPageOK, RecoveryOK, ShownOK, SendPages, Recoveries
<1>4. page' = [page EXCEPT ![b] = q] /\ UNCHANGED <<sends, broadcasts>> /\ storage' = r
  BY <1>1 DEF Reload
<1> QED  BY <1>2, <1>3, <1>4, QuietMoves

LEMMA ReconcileKeeps ==
  ASSUME SendInv, NEW b \in Pages, Reconcile(b)
  PROVE  SendInv'
<1>1. SendPageOK(page[b]) /\ page[b].checking = "reconcile" /\ UNCHANGED broadcasts
  BY DEF SendInv, Reconcile
<1>2. PICK i, h, z : i = page[b].held.intent /\ h = page[b].held.hash /\ z = page[b]  OBVIOUS
<1>3. /\ i \in DOMAIN sends /\ h \in DOMAIN broadcasts /\ OpenedIntent(i) /\ i \in Nat /\ h \in Nat
      /\ i # 0
  BY <1>1, <1>2 DEF SendPageOK, OpenedIntent, SendInv, SendRowsOK, SendPages, RecoveryOK, Recoveries
<1>4. SendPageOK(z)  BY <1>1, <1>2
<1>5. CASE /\ Bindable(i, h) /\ VerifyErc20Transfer(i, h)
           /\ sends' = [sends EXCEPT ![i].hash = h, ![i].status = "COMPLETED"]
           /\ storage' = NoRecovery
           /\ page' = [page EXCEPT ![b] = [CompletedPage(b, i, h) EXCEPT
                                             !.checking = "none", !.locked = FALSE]]
  <2>1. BoundAs(i, h, "COMPLETED")
    BY <1>3, <1>5 DEF BoundAs, SendInv, SendRowsOK, SendRecords
  <2>2. PICK p, q : p = CompletedPage(b, i, h) /\ q = [p EXCEPT !.checking = "none", !.locked = FALSE]
    OBVIOUS
  <2>3. /\ p \in SendPages /\ p.recovery = NoRecovery /\ p.stage = "completed" /\ p.done = i
        /\ p.verified = h /\ p.held = z.held /\ p.at = z.at /\ p.intent = z.intent /\ p.tx = z.tx
    BY <1>1, <1>2, <1>3, <2>2, CompletedPageIs DEF SendPageOK
  <2>4. /\ q \in SendPages /\ q.recovery = NoRecovery /\ q.stage = "completed" /\ q.done = i
        /\ q.verified = h /\ q.held = z.held /\ q.checking = "none" /\ q.at = z.at
        /\ q.intent = z.intent /\ q.tx = z.tx
    BY <2>2, <2>3 DEF SendPages
  <2>5. page' = [page EXCEPT ![b] = q]  BY <1>5, <2>2
  <2>6. RecoveryOK(q.recovery) /\ RecoveryOK(q.held)
    BY <1>4, <2>4, NoRecoveryOK DEF SendPageOK
  <2>7. PICK r : r = NoRecovery  OBVIOUS
  <2>8. storage' = r /\ RecoveryOK(r)  BY <1>5, <2>7, NoRecoveryOK
  <2>9. q.at = page[b].at /\ q.intent = page[b].intent /\ q.tx = page[b].tx  BY <1>2, <2>4
  <2> QED
    BY <1>1, <1>3, <1>5, <2>1, <2>4, <2>5, <2>6, <2>8, <2>9, BoundMoves DEF BoundAs
<1>6. CASE /\ IF Bindable(i, h) /\ sends[i].status # "CANCELLED" THEN Bind(i, h) ELSE UNCHANGED sends
           /\ page' = [page EXCEPT ![b].stage = "recoverable_error", ![b].checking = "none"]
           /\ UNCHANGED storage
  <2>1. PICK q, r : q = [z EXCEPT !.stage = "recoverable_error", !.checking = "none"] /\ r = storage
    OBVIOUS
  <2>2. /\ q \in SendPages /\ q.recovery = z.recovery /\ q.stage = "recoverable_error"
        /\ q.held = z.held /\ q.checking = "none" /\ q.at = z.at
        /\ q.intent = z.intent /\ q.tx = z.tx
    BY <1>4, <2>1 DEF SendPageOK, SendPages
  <2>3. page' = [page EXCEPT ![b] = q] /\ storage' = r  BY <1>2, <1>6, <2>1
  <2>4. RecoveryOK(q.recovery) /\ RecoveryOK(q.held) /\ RecoveryOK(r)
    BY <1>4, <2>1, <2>2 DEF SendPageOK, SendInv
  <2>5. q.at = page[b].at /\ q.intent = page[b].intent /\ q.tx = page[b].tx  BY <1>2, <2>2
  <2>6. CASE Bindable(i, h) /\ Bind(i, h)
    <3>1. PICK s \in {"SUBMITTED", "COMPLETED"} :
            BoundAs(i, h, s) /\ (s = "COMPLETED" <=> sends[i].status = "COMPLETED")
      BY <1>3, <2>6, BindIs DEF SendInv
    <3> QED  BY <1>1, <1>3, <2>2, <2>3, <2>4, <2>5, <2>6, <3>1, BoundMoves DEF BoundAs
  <2>7. CASE UNCHANGED sends
    <3>1. SendPageOK(q)  BY <1>4, <2>2 DEF SendPageOK, ShownOK
    <3> QED  BY <1>1, <2>3, <2>4, <2>5, <2>7, <3>1, QuietMoves
  <2> QED  BY <1>6, <2>6, <2>7
<1> QED  BY <1>2, <1>5, <1>6 DEF Reconcile

LEMMA EnterHashKeeps ==
  ASSUME SendInv, NEW b \in Pages, NEW h \in DOMAIN broadcasts, EnterHash(b, h)
  PROVE  SendInv'
<1>1. SendPageOK(page[b]) /\ RecoveryPanel(b) /\ UNCHANGED broadcasts
  BY DEF SendInv, EnterHash
<1>2. PICK i, z, r : i = page[b].recovery.intent /\ z = page[b] /\ r = [intent |-> i, hash |-> h]
  OBVIOUS
<1>3. /\ i \in DOMAIN sends /\ OpenedIntent(i) /\ i \in Nat /\ h \in Nat /\ i # 0 /\ h # 0
  BY <1>1, <1>2 DEF RecoveryPanel, SendPageOK, OpenedIntent, SendInv, SendRowsOK, SendPages, RecoveryOK,
       Recoveries
<1>4. SendPageOK(z)  BY <1>1, <1>2
<1>5. RecoveryOK(r) /\ r.hash # 0  BY <1>2, <1>3 DEF RecoveryOK, Recoveries
<1>6. PICK q : q = [z EXCEPT !.recovery = r, !.held = r, !.checking = "reconcile",
                             !.stage = "verifying", !.verified = h]
  OBVIOUS
<1>7. /\ q \in SendPages /\ q.recovery = r /\ q.stage = "verifying" /\ q.held = r /\ q.at = z.at
      /\ q.intent = z.intent /\ q.tx = z.tx
  BY <1>3, <1>4, <1>5, <1>6 DEF SendPageOK, SendPages, RecoveryOK
<1>8. page' = [page EXCEPT ![b] = q] /\ storage' = r /\ Bind(i, h) /\ Bindable(i, h)
  BY <1>2, <1>6 DEF EnterHash
<1>9. PICK s \in {"SUBMITTED", "COMPLETED"} :
        BoundAs(i, h, s) /\ (s = "COMPLETED" <=> sends[i].status = "COMPLETED")
  BY <1>3, <1>8, BindIs DEF SendInv
<1>10. q.at = page[b].at /\ q.intent = page[b].intent /\ q.tx = page[b].tx  BY <1>2, <1>7
<1>11. RecoveryOK(q.recovery) /\ RecoveryOK(q.held) /\ q.held.hash # 0  BY <1>5, <1>7
<1> QED  BY <1>1, <1>3, <1>5, <1>7, <1>8, <1>9, <1>10, <1>11, BoundMoves DEF BoundAs

LEMMA AskCancelKeeps ==
  ASSUME SendInv, NEW b \in Pages, AskCancel(b)
  PROVE  SendInv'
<1>1. SendPageOK(page[b]) /\ RecoveryPanel(b) /\ UNCHANGED <<broadcasts, storage>>
  BY DEF SendInv, AskCancel
<1>2. PICK i, z, r : i = page[b].recovery.intent /\ z = page[b] /\ r = storage  OBVIOUS
<1>3. SendPageOK(z) /\ RecoveryOK(r)  BY <1>1, <1>2 DEF SendInv
<1>4. /\ i \in DOMAIN sends /\ OpenedIntent(i) /\ sends[i].status = "AWAITING_WALLET_SIGNATURE"
  BY <1>1, <1>2 DEF RecoveryPanel, SendPageOK, OpenedIntent, RecoveryOK, AskCancel
<1>5. PICK y : y = [sends[i] EXCEPT !.status = "CANCELLED"]  OBVIOUS
<1>6. RowGrows(i, y) /\ sends' = [sends EXCEPT ![i] = y] /\ y.status = "CANCELLED"
  <2>1. sends[i] \in SendRecords  BY <1>4 DEF SendInv, SendRowsOK
  <2> QED
    BY <1>2, <1>4, <1>5, <2>1 DEF RowGrows, SendInv, SendRowsOK, SendRecords, SendStatuses, AskCancel
<1>7. PICK q : q = [z EXCEPT !.checking = "cancelled"]  OBVIOUS
<1>8. /\ q \in SendPages /\ q.checking = "cancelled" /\ q.recovery = z.recovery /\ q.held = z.held
      /\ q.at = z.at /\ q.intent = z.intent /\ q.tx = z.tx /\ q.stage = z.stage /\ q.done = z.done
      /\ q.verified = z.verified
  BY <1>3, <1>7 DEF SendPageOK, SendPages
<1>9. page' = [page EXCEPT ![b] = q] /\ storage' = r  BY <1>1, <1>2, <1>7 DEF AskCancel
<1>10. /\ SendsGrow /\ SentGrows /\ \A j \in DOMAIN sends \ {i} : sends'[j] = sends[j]
  BY <1>1, <1>4, <1>6, RowWritten DEF SendInv
<1>11. SendPageOK(q)
  BY <1>3, <1>8 DEF SendPageOK, ShownOK
<1>12. q.at = "prepare" => sends'[q.intent].status = "CREATED"
  BY <1>4, <1>10, <1>11 DEF SendPageOK, OpenedIntent
<1>13. SendPageOK(q)' /\ RecoveryOK(r)'
  BY <1>3, <1>10, <1>11, <1>12, PageStays, RecoveryStays DEF SendInv
<1>14. q.at = "prepare" => page[b].at = "prepare" /\ q.intent = page[b].intent  BY <1>2, <1>8
<1> QED  BY <1>1, <1>4, <1>6, <1>9, <1>13, <1>14, RowMoves

LEMMA CancelledKeeps ==
  ASSUME SendInv, NEW b \in Pages, Cancelled(b)
  PROVE  SendInv'
<1>1. PICK z, r : z = page[b] /\ r = NoRecovery  OBVIOUS
<1>2. SendPageOK(z) /\ RecoveryOK(r)  BY <1>1, NoRecoveryOK DEF SendInv
<1>3. PICK q : q = [z EXCEPT !.recovery = r, !.locked = FALSE, !.stage = "idle", !.checking = "none"]
  OBVIOUS
<1>4. SendPageOK(q) /\ q.at = z.at /\ q.intent = z.intent
  BY <1>2, <1>3 DEF SendPageOK, ShownOK, SendPages, RecoveryOK
<1>5. page' = [page EXCEPT ![b] = q] /\ UNCHANGED <<sends, broadcasts>> /\ storage' = r
  BY <1>1, <1>3 DEF Cancelled
<1> QED  BY <1>1, <1>2, <1>4, <1>5, QuietMoves

LEMMA StartOverKeeps ==
  ASSUME SendInv, NEW b \in Pages, StartOver(b)
  PROVE  SendInv'
<1>1. PICK z, r : z = page[b] /\ r = storage  OBVIOUS
<1>2. SendPageOK(z) /\ RecoveryOK(r)  BY <1>1 DEF SendInv
<1>3. PICK q : q = [z EXCEPT !.stage = "idle", !.locked = FALSE, !.recovery = NoRecovery,
                             !.verified = 0, !.done = 0]
  OBVIOUS
<1>4. SendPageOK(q) /\ q.at = z.at /\ q.intent = z.intent
  BY <1>2, <1>3, NoRecoveryOK DEF SendPageOK, ShownOK, SendPages, RecoveryOK
<1>5. page' = [page EXCEPT ![b] = q] /\ UNCHANGED <<sends, broadcasts>> /\ storage' = r
  BY <1>1, <1>3 DEF StartOver
<1> QED  BY <1>1, <1>2, <1>4, <1>5, QuietMoves

LEMMA MineSendKeeps ==
  ASSUME SendInv, NEW h \in DOMAIN broadcasts, NEW outcome \in {"success", "reverted"},
         MineSend(h, outcome)
  PROVE  SendInv'
<1>1. /\ UNCHANGED <<page, storage, sends>>
      /\ broadcasts' = [broadcasts EXCEPT ![h].outcome = outcome]
      /\ broadcasts[h].outcome = "pending" /\ broadcasts[h] \in SentRecords
  BY DEF MineSend, SendInv, SendRowsOK
<1>2. /\ broadcasts' \in Seq(SentRecords) /\ DOMAIN broadcasts' = DOMAIN broadcasts
      /\ \A k \in DOMAIN broadcasts : /\ broadcasts'[k].intent = broadcasts[k].intent
                                      /\ broadcasts'[k].what = broadcasts[k].what
                                      /\ broadcasts[k].outcome = "success" => broadcasts'[k] = broadcasts[k]
  <2>1. PICK tx : tx = [broadcasts[h] EXCEPT !.outcome = outcome]  OBVIOUS
  <2>2. /\ tx \in SentRecords /\ tx.intent = broadcasts[h].intent /\ tx.what = broadcasts[h].what
    BY <1>1, <2>1 DEF SentRecords
  <2>3. broadcasts' = [broadcasts EXCEPT ![h] = tx] /\ broadcasts \in Seq(SentRecords)
    BY <1>1, <2>1 DEF SendInv, SendRowsOK
  <2>4. /\ broadcasts' \in Seq(SentRecords) /\ DOMAIN broadcasts' = DOMAIN broadcasts
        /\ broadcasts'[h] = tx /\ \A k \in DOMAIN broadcasts \ {h} : broadcasts'[k] = broadcasts[k]
    BY <2>2, <2>3
  <2>5. broadcasts[h].outcome # "success"  BY <1>1
  <2> QED  BY <2>2, <2>4, <2>5
<1>3. SendsGrow /\ SentGrows  BY <1>1, <1>2 DEF SendsGrow, SentGrows
<1>4. SendRowsOK'  BY <1>1, <1>2 DEF SendRowsOK, SendInv
<1>5. ASSUME NEW c \in Pages PROVE SendPageOK(page[c])'
  <2>1. PICK x : x = page[c]  OBVIOUS
  <2>2. SendPageOK(x)  BY <2>1 DEF SendInv
  <2>3. SendPageOK(x)'  BY <1>1, <1>3, <2>2, PageStays DEF SendInv, SendPageOK
  <2> QED  BY <1>1, <2>1, <2>3
<1>6. RecoveryOK(storage)'
  <2>1. PICK r : r = storage  OBVIOUS
  <2>2. RecoveryOK(r)'  BY <2>1, <1>3, RecoveryStays DEF SendInv
  <2> QED  BY <2>1, <2>2, <1>1 DEF RecoveryOK
<1> QED  BY <1>1, <1>4, <1>5, <1>6 DEF SendInv, OwnIntents

LEMMA ElsewhereKeeps ==
  ASSUME SendInv, UNCHANGED <<page, storage, sends, broadcasts>>
  PROVE  SendInv'
BY DEF SendInv, SendRowsOK, SendPageOK, RecoveryOK, ShownOK, OwnIntents, OpenedIntent

LEMMA SendStepKeeps ==
  ASSUME SendInv, [SendNext \/ ScanNext \/ MaxNext]_sendVars
  PROVE  SendInv'
<1>1. CASE SendNext
  BY <1>1, SubmitKeeps, GrantWalletKeeps, OnWalletPreparedKeeps, BroadcastKeeps, RecordHashKeeps,
     BindHashKeeps, VerifyAndCompleteKeeps, ReloadKeeps, ReconcileKeeps, AskCancelKeeps,
     CancelledKeeps, StartOverKeeps, EnterHashKeeps, MineSendKeeps, WalletFailureKeeps DEF SendNext
<1>2. CASE ScanNext \/ MaxNext
  BY <1>2, ElsewhereKeeps DEF ScanNext, MaxNext, ScanQr, SelectMax
<1>3. CASE UNCHANGED sendVars  BY <1>3, ElsewhereKeeps DEF sendVars
<1> QED  BY <1>1, <1>2, <1>3

LEMMA ScanShows ==
  ASSUME NEW p \in QrPayloads, ScanQr(p)
  PROVE  ScannedIsShown'
<1>1. \A u \in Nat : ParseUnits(FormatUnits(u)) = u
  BY SendAssumption DEF ParseUnits, FormatUnits
<1>2. p.amount.units \in Nat /\ p.amount \in [given : BOOLEAN, units : Nat]
  <2>1. QrAmounts \union {0} \subseteq Nat  BY SendAssumption
  <2>2. p.amount \in {NoQrAmount} \union [given : {TRUE}, units : QrAmounts \union {0}]
    BY DEF QrPayloads
  <2>3. CASE p.amount = NoQrAmount  BY <2>3 DEF NoQrAmount
  <2>4. CASE p.amount \in [given : {TRUE}, units : QrAmounts \union {0}]
    BY <2>1, <2>4
  <2> QED  BY <2>2, <2>3, <2>4
<1>3. p.amount.given = FALSE => p.amount = NoQrAmount
  BY DEF QrPayloads, NoQrAmount
<1>4. PICK f : f = ParseEvmPaymentPayload(p)  OBVIOUS
<1>5. PICK g : g = ReadPrefill(SerializeSendPrefill(f))  OBVIOUS
<1>6. /\ f.ok /\ qr' = [scanned |-> TRUE, code |-> p, form |-> g]
  BY <1>4, <1>5 DEF ScanQr
<1>7. f = [ok |-> TRUE, recipient |-> p.recipient, chain |-> p.chain,
           token |-> IF p.action = "transfer" THEN p.token ELSE "none",
           amount |-> IF p.action = "transfer" THEN p.amount ELSE NoQrAmount]
      /\ (p.action = "transfer" => p.token = "listed")
      /\ (p.action # "transfer" => p.token = "none" /\ ~p.amount.given)
  BY <1>4, <1>6 DEF ParseEvmPaymentPayload, Refused
<1>8. ASSUME g.ok
      PROVE  g.recipient = p.recipient /\ g.amount = p.amount
             /\ (p.action = "transfer" => g.token = p.token)
  <2>1. CASE p.action = "transfer"
    <3>1. PICK m : m = [given |-> TRUE,
                        units |-> IF p.amount.given THEN p.amount.units ELSE 0]
      OBVIOUS
    <3>2. ParseUnits(FormatUnits(p.amount.units)) = p.amount.units  BY <1>1, <1>2
    <3>3. g = ParseEvmPaymentPayload([action |-> "transfer", chain |-> p.chain, token |-> p.token,
                                      recipient |-> p.recipient, amount |-> m])
      BY <2>1, <1>5, <1>7, <3>1, <3>2 DEF ReadPrefill, SerializeSendPrefill
    <3>4. g.recipient = p.recipient /\ g.token = p.token /\ g.amount = m /\ ~(m.given /\ m.units = 0)
      BY <3>1, <3>3, <1>8 DEF ParseEvmPaymentPayload, Refused
    <3>5. p.amount.given  BY <3>1, <3>4
    <3>6. PICK a \in [given : BOOLEAN, units : Nat] : a = p.amount  BY <1>2
    <3>7. a.given = TRUE /\ m = [given |-> TRUE, units |-> a.units]  BY <3>1, <3>5, <3>6
    <3>8. a = [given |-> a.given, units |-> a.units]  BY <3>6
    <3>9. m = p.amount  BY <3>6, <3>7, <3>8
    <3> QED  BY <3>4, <3>9
  <2>2. CASE p.action # "transfer"
    <3>1. g = ParseEvmPaymentPayload([action |-> "none", chain |-> p.chain, token |-> "none",
                                      recipient |-> p.recipient, amount |-> NoQrAmount])
      BY <2>2, <1>5, <1>7 DEF ReadPrefill, SerializeSendPrefill
    <3>2. g.recipient = p.recipient /\ g.amount = NoQrAmount
      BY <3>1, <1>8 DEF ParseEvmPaymentPayload, Refused, NoQrAmount
    <3> QED  BY <3>2, <2>2, <1>3, <1>7, <1>2
  <2> QED  BY <2>1, <2>2
<1> QED  BY <1>6, <1>8 DEF ScannedIsShown

LEMMA CeilCovers ==
  ASSUME NEW a \in Nat, NEW b \in Nat \ {0}
  PROVE  CeilDiv(a, b) \in Nat /\ CeilDiv(a, b) * b >= a
<1> DEFINE m == a + b - 1
<1>1. m \in Nat  OBVIOUS
<1>2. m = b * (m \div b) + (m % b) /\ m % b \in 0 .. (b - 1) /\ m \div b \in Nat
  BY <1>1
<1>3. CeilDiv(a, b) = m \div b  BY DEF CeilDiv
<1> HIDE DEF m
<1>4. PICK q \in Nat, r \in 0 .. (b - 1) : q = m \div b /\ m = b * q + r  BY <1>2
<1>5. b * q >= m - (b - 1)  BY <1>1, <1>4
<1>6. m - (b - 1) = a  BY DEF m
<1>7. b * q = q * b  BY <1>4
<1> QED  BY <1>3, <1>4, <1>5, <1>6, <1>7

LEMMA ReserveCoversFee ==
  ASSUME NEW wei \in Nat
  PROVE  LET reserve == GasReserveFromFeeWei([known |-> TRUE, wei |-> wei])
         IN reserve \in Nat /\ reserve * WeiPerUnit >= wei
<1> DEFINE units == CeilDiv(wei, WeiPerUnit)
<1> DEFINE more == CeilDiv(units, GasSafety) + GasMargin
<1>1. units \in Nat /\ units * WeiPerUnit >= wei  BY SendAssumption, CeilCovers
<1>2. more \in Nat  BY <1>1, SendAssumption, CeilCovers
<1>3. GasReserveFromFeeWei([known |-> TRUE, wei |-> wei]) = units + more
  <2>1. CeilDiv(units, GasSafety) \in Nat  BY <1>1, SendAssumption, CeilCovers
  <2> HIDE DEF units
  <2> QED  BY <2>1, <1>1, SendAssumption DEF GasReserveFromFeeWei, units
<1> HIDE DEF units, more
<1>4. WeiPerUnit \in Nat  BY SendAssumption
<1>5. (units + more) * WeiPerUnit = units * WeiPerUnit + more * WeiPerUnit /\ more * WeiPerUnit \in Nat
      /\ units * WeiPerUnit \in Nat
  BY <1>1, <1>2, <1>4
<1>6. (units + more) * WeiPerUnit >= wei  BY <1>1, <1>5
<1> QED  BY <1>1, <1>2, <1>3, <1>6

LEMMA MaxShows ==
  ASSUME NEW usdc \in BOOLEAN, NEW balance \in Nat, NEW native \in Nat, NEW fee,
         fee = [known |-> FALSE] \/ \E wei \in Nat : fee = [known |-> TRUE, wei |-> wei],
         SelectMax(usdc, balance, native, fee)
  PROVE  MaxIsSendable'
<1>1. PICK reserve : reserve = GasReserveFromFeeWei(fee)  OBVIOUS
<1>2. /\ reserve \in Nat
      /\ fee.known => fee.wei \in Nat /\ reserve * WeiPerUnit >= fee.wei
  <2>1. CASE fee = [known |-> FALSE]
    BY <1>1, <2>1, SendAssumption DEF GasReserveFromFeeWei
  <2>2. CASE \E wei \in Nat : fee = [known |-> TRUE, wei |-> wei]
    <3>1. PICK wei \in Nat : fee = [known |-> TRUE, wei |-> wei]  BY <2>2
    <3> QED  BY <1>1, <3>1, ReserveCoversFee
  <2> QED  BY <2>1, <2>2
<1>3. PICK amount : amount = CalculateArcMaxAmount(usdc, balance, native, reserve)  OBVIOUS
<1>4. /\ usdc => native = balance
      /\ max' = [pressed |-> TRUE, usdc |-> usdc, balance |-> balance, native |-> native,
                 reserve |-> reserve, fee |-> fee, amount |-> amount]
  BY <1>1, <1>3 DEF SelectMax
<1>5. ASSUME amount > 0
      PROVE  /\ HasArcGasForAmount(usdc, amount, balance, native, reserve)
             /\ amount \in Nat
             /\ usdc => native - amount = reserve
             /\ ~usdc => native >= reserve
  BY <1>2, <1>3, <1>4, <1>5 DEF CalculateArcMaxAmount, HasArcGasForAmount
<1>6. WeiPerUnit \in Nat  BY SendAssumption
<1>7. ~usdc /\ native >= reserve => native * WeiPerUnit >= reserve * WeiPerUnit
  <2> SUFFICES ASSUME native >= reserve PROVE native * WeiPerUnit >= reserve * WeiPerUnit  OBVIOUS
  <2>1. PICK d \in Nat : native = reserve + d
    <3>1. native - reserve \in Nat /\ native = reserve + (native - reserve)  BY <1>2
    <3> QED  BY <3>1
  <2>2. native * WeiPerUnit = reserve * WeiPerUnit + d * WeiPerUnit /\ d * WeiPerUnit \in Nat
        /\ reserve * WeiPerUnit \in Nat
    BY <2>1, <1>2, <1>6
  <2> QED  BY <2>2
<1>8. native * WeiPerUnit \in Nat /\ reserve * WeiPerUnit \in Nat  BY <1>2, <1>6
<1>9. ASSUME amount > 0, fee.known
      PROVE  (IF usdc THEN native - amount ELSE native) * WeiPerUnit >= fee.wei
  BY <1>2, <1>5, <1>7, <1>8, <1>9
<1> QED  BY <1>4, <1>5, <1>9 DEF MaxIsSendable

LEMMA FormsShow ==
  ASSUME ScannedIsShown, MaxIsSendable, [SendNext \/ ScanNext \/ MaxNext]_sendVars
  PROVE  ScannedIsShown' /\ MaxIsSendable'
<1>1. UNCHANGED qr => ScannedIsShown'  BY DEF ScannedIsShown
<1>2. UNCHANGED max => MaxIsSendable'
  BY DEF MaxIsSendable, HasArcGasForAmount
<1>3. CASE SendNext \/ UNCHANGED sendVars
  <2>1. ASSUME NEW b \in Pages, NEW what, Submit(b, what) PROVE UNCHANGED <<qr, max>>
    BY <2>1 DEF Submit
  <2>2. ASSUME NEW b \in Pages, GrantWallet(b) \/ OnWalletPrepared(b) \/ Broadcast(b) \/ WalletFails(b)
        PROVE UNCHANGED <<qr, max>>
    BY <2>2 DEF GrantWallet, OnWalletPrepared, Broadcast, WalletFails
  <2>3. ASSUME NEW b \in Pages, RecordHash(b) \/ BindHash(b) \/ VerifyAndComplete(b)
        PROVE UNCHANGED <<qr, max>>
    BY <2>3 DEF RecordHash, BindHash, VerifyAndComplete
  <2>4. ASSUME NEW b \in Pages, Reload(b) \/ Reconcile(b) \/ AskCancel(b) \/ Cancelled(b) \/ StartOver(b)
        PROVE UNCHANGED <<qr, max>>
    BY <2>4 DEF Reload, Reconcile, AskCancel, Cancelled, StartOver
  <2>5. ASSUME NEW b \in Pages, NEW h, EnterHash(b, h) PROVE UNCHANGED <<qr, max>>
    BY <2>5 DEF EnterHash
  <2>6. ASSUME NEW h, NEW outcome, MineSend(h, outcome) PROVE UNCHANGED <<qr, max>>
    BY <2>6 DEF MineSend
  <2>7. UNCHANGED <<qr, max>>
    BY <1>3, <2>1, <2>2, <2>3, <2>4, <2>5, <2>6 DEF SendNext, sendVars
  <2> QED  BY <1>1, <1>2, <2>7
<1>4. CASE ScanNext
  BY <1>2, <1>4, ScanShows DEF ScanNext, ScanQr
<1>5. CASE MaxNext
  <2>1. 0 .. MaxBalance \subseteq Nat /\ 0 .. MaxFee \subseteq Nat
    BY SendAssumption
  <2>2. PICK usdc \in BOOLEAN, balance, native \in 0 .. MaxBalance :
          \/ SelectMax(usdc, balance, native, [known |-> FALSE])
          \/ \E wei \in 0 .. MaxFee : SelectMax(usdc, balance, native, [known |-> TRUE, wei |-> wei])
    BY <1>5 DEF MaxNext
  <2>3. UNCHANGED qr  BY <2>2 DEF SelectMax
  <2> QED  BY <1>1, <2>1, <2>2, <2>3, MaxShows
<1> QED  BY <1>3, <1>4, <1>5

\* The send page (send/page.tsx), in any number of tabs: what is shown as sent was transferred as reviewed, a
\* scanned code fills the form with what it asks for, and Max can be sent.
THEOREM SendShowsTheTruth == SendSpec => [](ShownIsTransferred /\ ScannedIsShown /\ MaxIsSendable)
<1>1. SendInit => SendInv /\ ScannedIsShown /\ MaxIsSendable
  BY SendStarts DEF SendInit, ScannedIsShown, MaxIsSendable
<1>2. SendInv /\ ScannedIsShown /\ MaxIsSendable /\ [SendNext \/ ScanNext \/ MaxNext]_sendVars
        => (SendInv /\ ScannedIsShown /\ MaxIsSendable)'
  BY SendStepKeeps, FormsShow, SendAssumption
<1>3. SendInv => ShownIsTransferred
  BY DEF SendInv, SendPageOK, ShownOK, SendRowsOK, ShownIsTransferred
<1> QED  BY <1>1, <1>2, <1>3, PTL DEF SendSpec

-----------------------------------------------------------------------------
(* The send page in one tab: the recovery record leads back to every        *)
(* transaction and every prompt that is not settled, whichever of submit(), *)
(* the recovery panel and a reload wrote it last.                           *)

OneTab == \A b, c \in Pages : b = c

HasHash(i) == sends[i].hash # 0
Accounted(i) == i \in abandoned \/ HasHash(i)
CleanRecord(r) == r.hash # 0 => Accounted(r.intent)
Live(p) == p.at \in {"wallet", "hash", "bind", "confirm"}

\* What locks the form, and which intent each part of the page is about.
LocksOK(p) ==
  /\ p.at \in {"prepare", "prepared"} => ~p.locked /\ p.checking = "none"
  /\ p.recovery.intent # 0 /\ p.recovery.hash = 0 => p.locked
  /\ p.checking # "none" => p.locked
  /\ Live(p) => p.recovery.intent \in {0, p.intent}
  /\ p.checking = "reconcile" => /\ p.recovery.intent \in {0, p.held.intent}
                                 /\ Live(p) => p.held.intent = p.intent

\* The record in storage is the page's, or needs nobody any more.
RecordOK(p) ==
  /\ p.recovery.intent # 0 => storage = p.recovery
  /\ CleanRecord(storage) \/ (p.locked /\ p.recovery.intent # 0)
  /\ p.checking = "cancelled" => storage.intent \in abandoned \union {0}

\* A wallet that was opened is accounted for, or the page still stands by it.
StandsBy(p) ==
  /\ p.checking = "cancelled" => /\ p.recovery.intent \in abandoned \union {0}
                                 /\ Live(p) => p.intent \in abandoned
  /\ Live(p) => Accounted(p.intent) \/ (p.locked /\ p.recovery.intent = p.intent)
  /\ p.at \in {"wallet", "hash"} /\ p.recovery.hash # 0 => HasHash(p.intent)
  /\ \A i \in prompted \ abandoned :
       sends[i].status = "COMPLETED" \/ (p.locked /\ p.recovery.intent = i)

TabOK(p) == LocksOK(p) /\ RecordOK(p) /\ StandsBy(p)

HistoryOK == returned \subseteq DOMAIN broadcasts /\ prompted \subseteq DOMAIN sends /\ HashSurvives

TabInv == SendInv /\ HistoryOK /\ \A b \in Pages : TabOK(page[b])

LEMMA TabStarts == SendInit => TabInv
BY SendStarts DEF SendInit, TabInv, TabOK, LocksOK, RecordOK, StandsBy, HistoryOK, HashSurvives, FreshPage,
       NoRecovery, Live, CleanRecord

LEMMA TabMoves ==
  ASSUME OneTab, TabInv, SendInv', NEW b \in Pages, NEW q, page' = [page EXCEPT ![b] = q],
         TabOK(q)', HistoryOK'
  PROVE  TabInv'
<1>1. page'[b] = q  BY DEF TabInv, SendInv
<1>2. \A c \in Pages : c = b  BY DEF OneTab
<1>3. TabOK(page[b])'
  BY <1>1 DEF TabOK, LocksOK, RecordOK, StandsBy, Live
<1> QED  BY <1>2, <1>3 DEF TabInv


KeepsRecord ==
  \/ UNCHANGED storage
  \/ storage.hash # 0 => storage.intent \in abandoned' \/ sends'[storage.intent].hash # 0

LEMMA HistoryStays ==
  ASSUME TabInv, SendsGrow, SentGrows, KeepsRecord, abandoned \subseteq abandoned',
         prompted' \subseteq DOMAIN sends',
         \A h \in returned' \ returned :
           h \in DOMAIN broadcasts' /\ storage' = [intent |-> broadcasts'[h].intent, hash |-> h]
  PROVE  HistoryOK'
<1>1. returned' \subseteq DOMAIN broadcasts'
  BY DEF TabInv, HistoryOK, SentGrows
<1>2. ASSUME NEW h \in returned'
      PROVE  LET i == broadcasts'[h].intent
             IN sends'[i].hash # 0 \/ storage' = [intent |-> i, hash |-> h] \/ i \in abandoned'
  <2>1. CASE h \notin returned  BY <2>1
  <2>2. CASE h \in returned
    <3>1. PICK i : i = broadcasts[h].intent  OBVIOUS
    <3>2. /\ h \in DOMAIN broadcasts /\ i \in DOMAIN sends /\ broadcasts'[h].intent = i
          /\ h # 0
      BY <2>2, <3>1 DEF TabInv, HistoryOK, SendInv, SendRowsOK, SentGrows
    <3>3. sends[i].hash # 0 \/ storage = [intent |-> i, hash |-> h] \/ i \in abandoned
      BY <2>2, <3>1 DEF TabInv, HistoryOK, HashSurvives
    <3>4. sends[i].hash # 0 => sends'[i].hash # 0  BY <3>2 DEF SendsGrow
    <3>5. storage = [intent |-> i, hash |-> h] =>
            storage' = storage \/ i \in abandoned' \/ sends'[i].hash # 0
      BY <3>2 DEF KeepsRecord
    <3> QED  BY <3>2, <3>3, <3>4, <3>5
  <2> QED  BY <2>1, <2>2
<1>3. HashSurvives'  BY <1>2 DEF HashSurvives
<1> QED  BY <1>1, <1>3 DEF HistoryOK

LEMMA PromptsStay ==
  ASSUME TabInv, SendsGrow, prompted' = prompted
  PROVE  prompted' \subseteq DOMAIN sends'
BY DEF TabInv, HistoryOK, SendsGrow

LEMMA CleanMayGo ==
  ASSUME TabInv, SendsGrow, abandoned \subseteq abandoned', CleanRecord(storage)
  PROVE  KeepsRecord
<1>1. storage.hash # 0 => storage.intent \in DOMAIN sends
  BY DEF TabInv, SendInv, RecoveryOK, OpenedIntent
<1> QED  BY <1>1 DEF CleanRecord, Accounted, HasHash, KeepsRecord, SendsGrow

\* A step that leaves the record and the locks alone.
LEMMA SoftMoves ==
  ASSUME OneTab, TabInv, SendInv', SendsGrow, SentGrows,
         UNCHANGED <<storage, returned, prompted, abandoned>>,
         NEW b \in Pages, NEW z, z = page[b], NEW q, page' = [page EXCEPT ![b] = q],
         q.locked = z.locked, q.recovery = z.recovery, q.held = z.held, q.intent = z.intent,
         q.checking \in {z.checking, "none"},
         q.at \in {"prepare", "prepared"} => z.at \in {"prepare", "prepared"},
         Live(q) => Live(z), q.at \in {"wallet", "hash"} => z.at \in {"wallet", "hash"}
  PROVE  TabInv'
<1>1. TabOK(z) /\ SendPageOK(z) /\ RecoveryOK(storage)  BY DEF TabInv, SendInv
<1>2. HistoryOK'
  BY PromptsStay, HistoryStays DEF KeepsRecord
<1>3. /\ \A x : x \in DOMAIN sends /\ HasHash(x) => sends'[x].hash # 0
      /\ \A x : x \in DOMAIN sends /\ sends[x].status = "COMPLETED" => sends'[x].status = "COMPLETED"
      /\ prompted \subseteq DOMAIN sends
      /\ storage.hash # 0 => storage.intent \in DOMAIN sends
      /\ Live(z) => z.intent \in DOMAIN sends
  BY <1>1 DEF SendsGrow, HasHash, TabInv, HistoryOK, RecoveryOK, OpenedIntent, SendPageOK, Live
<1>4. LocksOK(q)'  BY <1>1 DEF TabOK, LocksOK, Live
<1>5. RecordOK(q)'
  BY <1>1, <1>3 DEF TabOK, RecordOK, CleanRecord, Accounted, HasHash
<1>6. StandsBy(q)'
  BY <1>1, <1>3 DEF TabOK, StandsBy, Accounted, HasHash, Live
<1> QED  BY <1>2, <1>4, <1>5, <1>6, TabMoves DEF TabOK

LEMMA NothingGrows ==
  ASSUME SendInv, UNCHANGED <<sends, broadcasts>>
  PROVE  SendsGrow /\ SentGrows
BY DEF SendInv, SendRowsOK, SendsGrow, SentGrows

LEMMA BindGrows ==
  ASSUME SendInv, NEW i \in DOMAIN sends, NEW h \in DOMAIN broadcasts, Bindable(i, h),
         OpenedIntent(i), UNCHANGED broadcasts,
         \E s \in {"SUBMITTED", "COMPLETED"} :
            BoundAs(i, h, s) /\ (sends[i].status = "COMPLETED" => s = "COMPLETED")
  PROVE  /\ SendsGrow /\ SentGrows /\ DOMAIN sends' = DOMAIN sends
         /\ sends'[i].hash # 0 /\ \A j \in DOMAIN sends \ {i} : sends'[j] = sends[j]
<1>1. PICK s \in {"SUBMITTED", "COMPLETED"} :
        BoundAs(i, h, s) /\ (sends[i].status = "COMPLETED" => s = "COMPLETED")
  OBVIOUS
<1>2. sends[i] \in SendRecords /\ h # 0 /\ sends \in Seq(SendRecords)  BY DEF SendInv, SendRowsOK
<1>3. PICK y : y = [sends[i] EXCEPT !.hash = h, !.status = s]  OBVIOUS
<1>4. y.hash = h /\ y.status = s  BY <1>2, <1>3 DEF SendRecords
<1>5. sends' = [sends EXCEPT ![i] = y]  BY <1>1, <1>3 DEF BoundAs
<1>6. /\ DOMAIN sends' = DOMAIN sends /\ sends'[i] = y
      /\ \A j \in DOMAIN sends \ {i} : sends'[j] = sends[j]
  BY <1>2, <1>5
<1> QED  BY <1>1, <1>2, <1>4, <1>6 DEF SendsGrow, SentGrows, Bindable, OpenedIntent

LEMMA TabFailure ==
  ASSUME OneTab, TabInv, SendInv', NEW b \in Pages, page' = [page EXCEPT ![b] = FailedPage(b)],
         UNCHANGED <<sends, broadcasts, storage, returned, prompted, abandoned>>
  PROVE  TabInv'
<1>1. PICK z, q : z = page[b] /\ q = FailedPage(b)  OBVIOUS
<1>2. SendPageOK(z)  BY <1>1 DEF TabInv, SendInv
<1>3. /\ q.locked = z.locked /\ q.recovery = z.recovery /\ q.held = z.held /\ q.intent = z.intent
      /\ q.checking = z.checking /\ q.at = "none"
  BY <1>1, <1>2 DEF FailedPage, SendPageOK, SendPages
<1> QED  BY <1>1, <1>3, SoftMoves, NothingGrows DEF Live, TabInv

LEMMA TabSubmit ==
  ASSUME OneTab, TabInv, SendInv', NEW b \in Pages, NEW what \in Reviewed, Submit(b, what)
  PROVE  TabInv'
<1>1. PICK z : z = page[b]  OBVIOUS
<1>2. PICK q : q = [z EXCEPT !.stage = "awaiting_signature", !.at = "prepare",
                             !.intent = Len(sends) + 1, !.tx = 0]
  OBVIOUS
<1>3. SendPageOK(z) /\ TabOK(z) /\ ~z.locked /\ page' = [page EXCEPT ![b] = q]
      /\ UNCHANGED <<broadcasts, storage, returned, prompted, abandoned>>
  BY <1>1, <1>2 DEF TabInv, SendInv, Submit, FormLocked
<1>4. /\ q.locked = z.locked /\ q.recovery = z.recovery /\ q.held = z.held /\ q.at = "prepare"
      /\ q.checking = z.checking
  BY <1>2, <1>3 DEF SendPageOK, SendPages
<1>5. SendsGrow /\ SentGrows
  BY DEF TabInv, SendInv, SendRowsOK, Submit, SendsGrow, SentGrows
<1>6. HistoryOK'
  BY <1>3, <1>5, PromptsStay, HistoryStays DEF KeepsRecord
<1>7. LocksOK(q)'  BY <1>3, <1>4 DEF TabOK, LocksOK, Live
<1>8. RecordOK(q)'
  <2>1. CleanRecord(storage) /\ (storage.hash # 0 => storage.intent \in DOMAIN sends)
    BY <1>3 DEF TabOK, RecordOK, TabInv, SendInv, RecoveryOK, OpenedIntent
  <2>2. CleanRecord(storage)'  BY <2>1, <1>3, <1>5 DEF CleanRecord, Accounted, HasHash, SendsGrow
  <2> QED  BY <1>3, <1>4, <2>2 DEF TabOK, RecordOK
<1>9. StandsBy(q)'
  <2>1. \A x \in prompted : x \in DOMAIN sends  BY DEF TabInv, HistoryOK
  <2> QED  BY <2>1, <1>3, <1>4, <1>5 DEF TabOK, StandsBy, LocksOK, SendsGrow, Live
<1> QED  BY <1>3, <1>6, <1>7, <1>8, <1>9, TabMoves DEF TabOK

LEMMA TabGrant ==
  ASSUME OneTab, TabInv, SendInv', NEW b \in Pages, GrantWallet(b)
  PROVE  TabInv'
<1>1. PICK z, i : z = page[b] /\ i = page[b].intent  OBVIOUS
<1>2. /\ SendPageOK(z) /\ z.at = "prepare" /\ i \in DOMAIN sends /\ sends[i].status = "CREATED"
      /\ UNCHANGED <<broadcasts, storage, returned, prompted, abandoned>>
  BY <1>1 DEF TabInv, SendInv, GrantWallet, SendPageOK
<1>3. CASE /\ sends' = [sends EXCEPT ![i].status = "AWAITING_WALLET_SIGNATURE"]
           /\ page' = [page EXCEPT ![b].at = "prepared"]
  <2>1. PICK q : q = [z EXCEPT !.at = "prepared"]  OBVIOUS
  <2>2. /\ q.locked = z.locked /\ q.recovery = z.recovery /\ q.held = z.held /\ q.intent = z.intent
        /\ q.checking = z.checking /\ q.at = "prepared"
    BY <1>2, <2>1 DEF SendPageOK, SendPages
  <2>3. SendsGrow /\ SentGrows
    <3>1. sends \in Seq(SendRecords) /\ sends[i] \in SendRecords
      BY <1>2 DEF TabInv, SendInv, SendRowsOK
    <3>2. /\ DOMAIN sends' = DOMAIN sends /\ sends'[i].hash = sends[i].hash
          /\ sends'[i].status = "AWAITING_WALLET_SIGNATURE"
          /\ \A j \in DOMAIN sends \ {i} : sends'[j] = sends[j]
      BY <1>2, <1>3, <3>1 DEF SendRecords
    <3> QED  BY <3>2, <1>2 DEF SendsGrow, SentGrows
  <2>4. page' = [page EXCEPT ![b] = q]  BY <1>1, <1>3, <2>1
  <2> QED  BY <1>1, <1>2, <2>2, <2>3, <2>4, SoftMoves DEF Live
<1>4. CASE page' = [page EXCEPT ![b] = FailedPage(b)] /\ UNCHANGED sends
  BY <1>2, <1>4, TabFailure
<1> QED  BY <1>1, <1>3, <1>4 DEF GrantWallet

LEMMA TabPrepared ==
  ASSUME OneTab, TabInv, SendInv', NEW b \in Pages, OnWalletPrepared(b)
  PROVE  TabInv'
<1>1. PICK z, i, r : z = page[b] /\ i = page[b].intent /\ r = [intent |-> i, hash |-> 0]  OBVIOUS
<1>2. PICK q : q = [z EXCEPT !.locked = TRUE, !.at = "wallet", !.recovery = r]  OBVIOUS
<1>3. /\ SendPageOK(z) /\ TabOK(z) /\ z.at = "prepared" /\ i = z.intent /\ i \in DOMAIN sends
      /\ page' = [page EXCEPT ![b] = q] /\ storage' = r /\ prompted' = prompted \union {i}
      /\ UNCHANGED <<sends, broadcasts, returned, abandoned>>
  BY <1>1, <1>2 DEF TabInv, SendInv, OnWalletPrepared, SendPageOK
<1>4. /\ q.locked = TRUE /\ q.recovery = r /\ q.held = z.held /\ q.intent = i
      /\ q.checking = z.checking /\ q.at = "wallet"
  BY <1>2, <1>3 DEF SendPageOK, SendPages
<1>5. ~z.locked /\ z.checking = "none" /\ CleanRecord(storage)
      /\ \A x \in prompted \ abandoned : sends[x].status = "COMPLETED"
  BY <1>3 DEF TabOK, LocksOK, RecordOK, StandsBy
<1>6. HistoryOK'
  BY <1>3, <1>5, NothingGrows, CleanMayGo, HistoryStays DEF TabInv, HistoryOK
<1>7. r.intent = i /\ r.hash = 0  BY <1>1
<1>8. LocksOK(q)' /\ RecordOK(q)' /\ StandsBy(q)'
  BY <1>3, <1>4, <1>5, <1>7 DEF LocksOK, RecordOK, StandsBy, Live, CleanRecord
<1> QED  BY <1>3, <1>6, <1>8, TabMoves DEF TabOK

LEMMA TabBroadcast ==
  ASSUME OneTab, TabInv, SendInv', NEW b \in Pages, Broadcast(b)
  PROVE  TabInv'
<1>1. PICK z : z = page[b]  OBVIOUS
<1>2. PICK q : q = [z EXCEPT !.at = "hash", !.tx = Len(broadcasts) + 1]  OBVIOUS
<1>3. /\ SendPageOK(z) /\ z.at = "wallet" /\ page' = [page EXCEPT ![b] = q]
      /\ UNCHANGED <<sends, storage, returned, prompted, abandoned>>
  BY <1>1, <1>2 DEF TabInv, SendInv, Broadcast
<1>4. /\ q.locked = z.locked /\ q.recovery = z.recovery /\ q.held = z.held /\ q.intent = z.intent
      /\ q.checking = z.checking /\ q.at = "hash"
  BY <1>2, <1>3 DEF SendPageOK, SendPages
<1>5. SendsGrow /\ SentGrows
  BY <1>3 DEF TabInv, SendInv, SendRowsOK, Broadcast, SendsGrow, SentGrows
<1> QED  BY <1>1, <1>3, <1>4, <1>5, SoftMoves DEF Live

LEMMA TabRecord ==
  ASSUME OneTab, TabInv, SendInv', NEW b \in Pages, RecordHash(b)
  PROVE  TabInv'
<1>1. PICK z, i, h, r : z = page[b] /\ i = page[b].intent /\ h = page[b].tx
                        /\ r = [intent |-> i, hash |-> h]
  OBVIOUS
<1>2. PICK q : q = [z EXCEPT !.at = "bind", !.recovery = r, !.stage = "submitting"]  OBVIOUS
<1>3. /\ SendPageOK(z) /\ TabOK(z) /\ z.at = "hash" /\ i = z.intent /\ i \in DOMAIN sends
      /\ h \in DOMAIN broadcasts /\ broadcasts[h].intent = i /\ h # 0
      /\ page' = [page EXCEPT ![b] = q] /\ storage' = r /\ returned' = returned \union {h}
      /\ UNCHANGED <<sends, broadcasts, prompted, abandoned>>
  BY <1>1, <1>2 DEF TabInv, SendInv, SendRowsOK, RecordHash, SendPageOK
<1>4. /\ q.locked = z.locked /\ q.recovery = r /\ q.held = z.held /\ q.intent = i
      /\ q.checking = z.checking /\ q.at = "bind"
  BY <1>2, <1>3 DEF SendPageOK, SendPages
<1>5. r.intent = i /\ r.hash = h  BY <1>1
<1>6. SendsGrow /\ SentGrows  BY <1>3, NothingGrows DEF TabInv
<1>7. CleanRecord(storage)
  <2>1. SUFFICES ASSUME z.locked, z.recovery.intent # 0, storage = z.recovery, storage.hash # 0
                 PROVE  HasHash(storage.intent)
    BY <1>3 DEF TabOK, RecordOK, CleanRecord, Accounted
  <2> QED  BY <1>3, <2>1 DEF TabOK, LocksOK, StandsBy, Live
<1>8. HistoryOK'
  <2>1. KeepsRecord  BY <1>3, <1>6, <1>7, CleanMayGo
  <2>2. \A k \in returned' \ returned : k \in DOMAIN broadcasts'
           /\ storage' = [intent |-> broadcasts'[k].intent, hash |-> k]
    BY <1>1, <1>3
  <2>3. prompted' \subseteq DOMAIN sends'  BY <1>3, <1>6, PromptsStay
  <2> QED  BY <1>3, <1>6, <2>1, <2>2, <2>3, HistoryStays
<1>9. LocksOK(q)'
  BY <1>3, <1>4, <1>5 DEF TabOK, LocksOK, Live
<1>10. /\ i # 0 /\ 0 \notin prompted /\ z.recovery.intent \in {0, i}
       /\ Accounted(i) \/ (z.locked /\ z.recovery.intent = i)
       /\ z.checking = "cancelled" => i \in abandoned
       /\ \A x \in prompted \ abandoned :
            sends[x].status = "COMPLETED" \/ (z.locked /\ z.recovery.intent = x)
  <2>1. 0 \notin DOMAIN sends /\ prompted \subseteq DOMAIN sends
    BY DEF TabInv, HistoryOK, SendInv, SendRowsOK
  <2> QED  BY <2>1, <1>3 DEF TabOK, LocksOK, StandsBy, Live
<1>11. RecordOK(q)'
  <2>1. CleanRecord(storage)' \/ (q.locked /\ q.recovery.intent # 0)
    BY <1>3, <1>4, <1>5, <1>10 DEF CleanRecord, Accounted, HasHash
  <2> QED  BY <1>3, <1>4, <1>5, <1>10, <2>1 DEF RecordOK
<1>12. StandsBy(q)'
  <2>1. \A x \in prompted' \ abandoned' :
          sends'[x].status = "COMPLETED" \/ (q.locked /\ q.recovery.intent = x)
    BY <1>3, <1>4, <1>5, <1>10
  <2>2. Accounted(q.intent)' \/ (q.locked /\ q.recovery.intent = q.intent)
    BY <1>3, <1>4, <1>5, <1>10 DEF Accounted, HasHash
  <2> QED  BY <1>3, <1>4, <1>5, <1>10, <2>1, <2>2 DEF StandsBy, Live
<1> QED  BY <1>3, <1>8, <1>9, <1>11, <1>12, TabMoves DEF TabOK

LEMMA TabBind ==
  ASSUME OneTab, TabInv, SendInv', NEW b \in Pages, BindHash(b)
  PROVE  TabInv'
<1>1. PICK z, i, h : z = page[b] /\ i = page[b].intent /\ h = page[b].tx  OBVIOUS
<1>2. /\ SendPageOK(z) /\ z.at = "bind" /\ i = z.intent /\ h = z.tx
      /\ UNCHANGED <<broadcasts, storage, returned, prompted, abandoned>>
  BY <1>1 DEF TabInv, SendInv, BindHash
<1>3. i \in DOMAIN sends /\ h \in DOMAIN broadcasts /\ OpenedIntent(i)
  BY <1>2 DEF SendPageOK, OpenedIntent
<1>4. CASE /\ Bindable(i, h) /\ Bind(i, h)
           /\ page' = [page EXCEPT ![b].at = "confirm", ![b].stage = "confirming"]
  <2>1. PICK q : q = [z EXCEPT !.at = "confirm", !.stage = "confirming"]  OBVIOUS
  <2>2. /\ q.locked = z.locked /\ q.recovery = z.recovery /\ q.held = z.held /\ q.intent = z.intent
        /\ q.checking = z.checking /\ q.at = "confirm"
    BY <1>2, <2>1 DEF SendPageOK, SendPages
  <2>3. page' = [page EXCEPT ![b] = q]  BY <1>1, <1>4, <2>1
  <2>4. SendsGrow /\ SentGrows
    BY <1>2, <1>3, <1>4, BindIs, BindGrows DEF TabInv, SendInv
  <2> QED  BY <1>1, <1>2, <2>2, <2>3, <2>4, SoftMoves DEF Live
<1>5. CASE page' = [page EXCEPT ![b] = FailedPage(b)] /\ UNCHANGED sends
  BY <1>2, <1>5, TabFailure
<1> QED  BY <1>1, <1>4, <1>5 DEF BindHash

\* A page that shows intent i as completed; the record was its own.
LEMMA TabCompleted ==
  ASSUME OneTab, TabInv, SendInv', NEW b \in Pages, NEW z, z = page[b], NEW q,
         NEW i \in DOMAIN sends, NEW h \in DOMAIN broadcasts,
         page' = [page EXCEPT ![b] = q], storage' = NoRecovery, q.recovery = NoRecovery,
         Bindable(i, h), OpenedIntent(i), BoundAs(i, h, "COMPLETED"),
         UNCHANGED <<broadcasts, returned, prompted, abandoned>>,
         z.recovery.intent \in {0, i}, q.held = z.held, q.intent = z.intent,
         z.at \in {"prepare", "prepared"} => z.checking # "reconcile",
         \/ /\ Live(z) /\ z.intent = i /\ q.at = "none"
            /\ q.locked = z.locked /\ q.checking = z.checking
         \/ /\ z.checking = "reconcile" /\ q.checking = "none" /\ q.at = z.at
            /\ Live(z) => z.intent = i
  PROVE  TabInv'
<1>1. SendPageOK(z) /\ TabOK(z)  BY DEF TabInv, SendInv
<1>2. /\ SendsGrow /\ SentGrows /\ DOMAIN sends' = DOMAIN sends /\ sends'[i].hash # 0
      /\ \A x \in DOMAIN sends \ {i} : sends'[x] = sends[x]
  BY BindGrows DEF TabInv
<1>3. sends'[i].status = "COMPLETED"
  <2>1. sends \in Seq(SendRecords) /\ sends[i] \in SendRecords
    BY DEF TabInv, SendInv, SendRowsOK
  <2>2. PICK y : y = [sends[i] EXCEPT !.hash = h, !.status = "COMPLETED"]  OBVIOUS
  <2>3. y.status = "COMPLETED" /\ sends' = [sends EXCEPT ![i] = y]
    BY <2>1, <2>2 DEF BoundAs, SendRecords
  <2> QED  BY <2>1, <2>3
<1>4. NoRecovery.intent = 0 /\ NoRecovery.hash = 0  BY DEF NoRecovery
<1>5. KeepsRecord
  <2>1. CASE CleanRecord(storage)  BY <1>2, <2>1, CleanMayGo
  <2>2. CASE z.recovery.intent # 0 /\ storage = z.recovery  BY <1>2, <2>2 DEF KeepsRecord
  <2> QED  BY <1>1, <2>1, <2>2 DEF TabOK, RecordOK
<1>6. HistoryOK'  BY <1>2, <1>5, PromptsStay, HistoryStays
<1>7. \A x \in prompted \ abandoned : sends'[x].status = "COMPLETED"
  <2>1. \A x \in prompted : x \in DOMAIN sends  BY DEF TabInv, HistoryOK
  <2>2. \A x \in prompted \ abandoned : sends[x].status = "COMPLETED" \/ x = z.recovery.intent
    BY <1>1 DEF TabOK, StandsBy
  <2>3. 0 \notin DOMAIN sends  BY DEF TabInv, SendInv, SendRowsOK
  <2> QED  BY <1>2, <1>3, <2>1, <2>2, <2>3 DEF SendsGrow
<1>8. LocksOK(q)'  BY <1>1, <1>4 DEF TabOK, LocksOK, Live
<1>9. RecordOK(q)'  BY <1>4 DEF RecordOK, CleanRecord
<1>10. StandsBy(q)'
  BY <1>1, <1>2, <1>4, <1>7 DEF TabOK, StandsBy, Live, Accounted, HasHash
<1> QED  BY <1>6, <1>8, <1>9, <1>10, TabMoves DEF TabOK

LEMMA TabVerify ==
  ASSUME OneTab, TabInv, SendInv', NEW b \in Pages, VerifyAndComplete(b)
  PROVE  TabInv'
<1>1. PICK z, i, h : z = page[b] /\ i = page[b].intent /\ h = page[b].tx  OBVIOUS
<1>2. /\ SendPageOK(z) /\ TabOK(z) /\ z.at = "confirm" /\ i = z.intent /\ h = z.tx
      /\ UNCHANGED <<broadcasts, returned, prompted, abandoned>>
  BY <1>1 DEF TabInv, SendInv, VerifyAndComplete
<1>3. i \in DOMAIN sends /\ h \in DOMAIN broadcasts /\ OpenedIntent(i) /\ i \in Nat /\ h \in Nat
  BY <1>2 DEF SendPageOK, OpenedIntent, TabInv, SendInv, SendRowsOK, SendPages
<1>4. CASE /\ VerifyErc20Transfer(i, h) /\ sends[i].hash = h
           /\ sends' = [sends EXCEPT ![i].status = "COMPLETED"]
           /\ storage' = NoRecovery
           /\ page' = [page EXCEPT ![b] = [CompletedPage(b, i, h) EXCEPT !.at = "none"]]
  <2>1. BoundAs(i, h, "COMPLETED")
    BY <1>3, <1>4 DEF BoundAs, TabInv, SendInv, SendRowsOK, SendRecords
  <2>2. Bindable(i, h)  BY <1>4 DEF Bindable
  <2>3. PICK q : q = [CompletedPage(b, i, h) EXCEPT !.at = "none"]  OBVIOUS
  <2>4. /\ q.recovery = NoRecovery /\ q.held = z.held /\ q.checking = z.checking /\ q.at = "none"
        /\ q.locked = z.locked /\ q.intent = z.intent
    BY <1>1, <1>2, <2>3 DEF CompletedPage, SendPageOK, SendPages
  <2>5. page' = [page EXCEPT ![b] = q]  BY <1>4, <2>3
  <2>6. z.recovery.intent \in {0, i} /\ Live(z)  BY <1>2 DEF TabOK, LocksOK, Live
  <2>7. storage' = NoRecovery  BY <1>4
  <2>8. z = page[b] /\ z.intent = i /\ z.at \notin {"prepare", "prepared"}  BY <1>1, <1>2
  <2>9. UNCHANGED <<broadcasts, returned, prompted, abandoned>>  BY <1>2
  <2> QED  BY <1>3, <2>1, <2>2, <2>4, <2>5, <2>6, <2>7, <2>8, <2>9, TabCompleted
<1>5. CASE page' = [page EXCEPT ![b] = FailedPage(b)] /\ UNCHANGED <<sends, storage>>
  BY <1>2, <1>5, TabFailure
<1> QED  BY <1>1, <1>4, <1>5 DEF VerifyAndComplete

LEMMA TabReload ==
  ASSUME OneTab, TabInv, SendInv', NEW b \in Pages, Reload(b)
  PROVE  TabInv'
<1>1. PICK z, r : z = page[b] /\ r = storage  OBVIOUS
<1>2. PICK q : q = Mounted(r)  OBVIOUS
<1>3. /\ SendPageOK(z) /\ TabOK(z) /\ RecoveryOK(r) /\ storage' = r /\ r = storage
      /\ page' = [page EXCEPT ![b] = q]
      /\ UNCHANGED <<sends, broadcasts, returned, prompted, abandoned>>
  BY <1>1, <1>2 DEF TabInv, SendInv, Reload
<1>4. HistoryOK'
  BY <1>3, NothingGrows, PromptsStay, HistoryStays DEF KeepsRecord, TabInv
<1>5. /\ q.at = "none" /\ q.checking # "cancelled"
      /\ r.intent = 0 => q.recovery = NoRecovery /\ ~q.locked /\ q.checking = "none"
      /\ r.intent # 0 => q.recovery = r /\ q.held = r /\ q.locked
  BY <1>2 DEF Mounted, FreshPage
<1>6. r.intent = 0 => r.hash = 0  BY <1>3 DEF RecoveryOK
<1>7. NoRecovery.intent = 0 /\ NoRecovery.hash = 0  BY DEF NoRecovery
<1>8. LocksOK(q)'  BY <1>5, <1>7 DEF LocksOK, Live
<1>9. RecordOK(q)'  BY <1>3, <1>5, <1>6, <1>7 DEF RecordOK, CleanRecord
<1>10. StandsBy(q)'
  <2>1. \A x \in prompted \ abandoned : sends[x].status = "COMPLETED" \/ r.intent = x
    BY <1>3 DEF TabOK, StandsBy, RecordOK, TabInv, HistoryOK, SendInv, SendRowsOK
  <2>2. 0 \notin prompted  BY DEF TabInv, HistoryOK, SendInv, SendRowsOK
  <2> QED  BY <1>3, <1>5, <2>1, <2>2 DEF StandsBy, Live
<1> QED  BY <1>3, <1>4, <1>8, <1>9, <1>10, TabMoves DEF TabOK

LEMMA TabReconcile ==
  ASSUME OneTab, TabInv, SendInv', NEW b \in Pages, Reconcile(b)
  PROVE  TabInv'
<1>1. PICK z, i, h : z = page[b] /\ i = page[b].held.intent /\ h = page[b].held.hash  OBVIOUS
<1>2. /\ SendPageOK(z) /\ TabOK(z) /\ z.checking = "reconcile" /\ i = z.held.intent /\ h = z.held.hash
      /\ UNCHANGED <<broadcasts, returned, prompted, abandoned>>
  BY <1>1 DEF TabInv, SendInv, Reconcile
<1>3. /\ i \in DOMAIN sends /\ h \in DOMAIN broadcasts /\ OpenedIntent(i) /\ i \in Nat /\ h \in Nat
  BY <1>2 DEF SendPageOK, OpenedIntent, RecoveryOK, Recoveries
<1>4. CASE /\ Bindable(i, h) /\ VerifyErc20Transfer(i, h)
           /\ sends' = [sends EXCEPT ![i].hash = h, ![i].status = "COMPLETED"]
           /\ storage' = NoRecovery
           /\ page' = [page EXCEPT ![b] = [CompletedPage(b, i, h) EXCEPT
                                             !.checking = "none", !.locked = FALSE]]
  <2>1. BoundAs(i, h, "COMPLETED")
    BY <1>3, <1>4 DEF BoundAs, TabInv, SendInv, SendRowsOK, SendRecords
  <2>2. PICK q : q = [CompletedPage(b, i, h) EXCEPT !.checking = "none", !.locked = FALSE]  OBVIOUS
  <2>3. /\ q.recovery = NoRecovery /\ q.held = z.held /\ q.checking = "none" /\ q.at = z.at
        /\ q.intent = z.intent
    BY <1>1, <1>2, <2>2 DEF CompletedPage, SendPageOK, SendPages
  <2>4. page' = [page EXCEPT ![b] = q]  BY <1>4, <2>2
  <2>5. /\ z.recovery.intent \in {0, i} /\ (Live(z) => z.intent = i)
        /\ z.at \notin {"prepare", "prepared"}
    BY <1>2 DEF TabOK, LocksOK
  <2>6. z.at \in {"prepare", "prepared"} => z.checking # "reconcile"  BY <2>5
  <2>7. storage' = NoRecovery /\ Bindable(i, h)  BY <1>4
  <2>8. z = page[b] /\ z.checking = "reconcile"  BY <1>1, <1>2
  <2>9. UNCHANGED <<broadcasts, returned, prompted, abandoned>>  BY <1>2
  <2> QED  BY <1>3, <2>1, <2>3, <2>4, <2>5, <2>6, <2>7, <2>8, <2>9, TabCompleted
<1>5. CASE /\ IF Bindable(i, h) /\ sends[i].status # "CANCELLED" THEN Bind(i, h) ELSE UNCHANGED sends
           /\ page' = [page EXCEPT ![b].stage = "recoverable_error", ![b].checking = "none"]
           /\ UNCHANGED storage
  <2>1. PICK q : q = [z EXCEPT !.stage = "recoverable_error", !.checking = "none"]  OBVIOUS
  <2>2. /\ q.locked = z.locked /\ q.recovery = z.recovery /\ q.held = z.held /\ q.intent = z.intent
        /\ q.checking = "none" /\ q.at = z.at
    BY <1>2, <2>1 DEF SendPageOK, SendPages
  <2>3. page' = [page EXCEPT ![b] = q]  BY <1>1, <1>5, <2>1
  <2>4. SendsGrow /\ SentGrows
    <3>1. CASE Bindable(i, h) /\ Bind(i, h)
      BY <3>1, <1>2, <1>3, BindIs, BindGrows DEF TabInv, SendInv
    <3>2. CASE UNCHANGED sends  BY <3>2, <1>2, NothingGrows DEF TabInv
    <3> QED  BY <1>5, <3>1, <3>2
  <2> QED  BY <1>1, <1>2, <1>5, <2>2, <2>3, <2>4, SoftMoves DEF Live
<1> QED  BY <1>1, <1>4, <1>5 DEF Reconcile

\* The page stands by the intent whose panel it shows.
LEMMA PanelIsLive ==
  ASSUME TabInv, NEW b \in Pages, RecoveryPanel(b)
  PROVE  LET z == page[b] IN
         /\ z.locked /\ z.checking = "none" /\ storage = z.recovery
         /\ z.recovery.intent \in DOMAIN sends /\ z.recovery.hash = 0 /\ OpenedIntent(z.recovery.intent)
         /\ z.at \notin {"prepare", "prepared"}
         /\ Live(z) => z.intent = z.recovery.intent
BY DEF TabInv, SendInv, TabOK, LocksOK, RecordOK, RecoveryPanel, SendPageOK, RecoveryOK, OpenedIntent

LEMMA TabEnter ==
  ASSUME OneTab, TabInv, SendInv', NEW b \in Pages, NEW h \in DOMAIN broadcasts, EnterHash(b, h)
  PROVE  TabInv'
<1>1. PICK z, i, r : z = page[b] /\ i = page[b].recovery.intent /\ r = [intent |-> i, hash |-> h]
  OBVIOUS
<1>2. /\ SendPageOK(z) /\ TabOK(z) /\ i = z.recovery.intent
      /\ UNCHANGED <<broadcasts, returned, prompted, abandoned>> /\ storage' = r
      /\ Bindable(i, h) /\ Bind(i, h)
  BY <1>1 DEF TabInv, SendInv, EnterHash
<1>3. /\ z.locked /\ z.checking = "none" /\ storage.hash = 0
      /\ i \in DOMAIN sends /\ z.recovery.hash = 0 /\ OpenedIntent(i)
      /\ z.at \notin {"prepare", "prepared"}
      /\ Live(z) => z.intent = i
  BY <1>1, PanelIsLive DEF EnterHash
<1>4. PICK q : q = [z EXCEPT !.recovery = r, !.held = r, !.checking = "reconcile",
                             !.stage = "verifying", !.verified = h]
  OBVIOUS
<1>5. /\ q.locked = z.locked /\ q.recovery = r /\ q.held = r /\ q.intent = z.intent
      /\ q.checking = "reconcile" /\ q.at = z.at
  BY <1>2, <1>4 DEF SendPageOK, SendPages
<1>6. page' = [page EXCEPT ![b] = q]  BY <1>1, <1>4 DEF EnterHash
<1>7. /\ SendsGrow /\ SentGrows /\ sends'[i].hash # 0
  BY <1>2, <1>3, BindIs, BindGrows DEF TabInv, SendInv
<1>8. HistoryOK'
  BY <1>2, <1>3, <1>7, PromptsStay, HistoryStays DEF KeepsRecord
<1>9. r.intent = i /\ r.hash = h  BY <1>1
<1>10. LocksOK(q)'  BY <1>3, <1>5, <1>9 DEF LocksOK, Live
<1>11. RecordOK(q)'
  BY <1>2, <1>5, <1>7, <1>9 DEF RecordOK, CleanRecord, Accounted, HasHash
<1>12. StandsBy(q)'
  <2>1. \A x \in prompted : x \in DOMAIN sends  BY DEF TabInv, HistoryOK
  <2>2. \A x \in prompted \ abandoned : sends[x].status = "COMPLETED" \/ x = i
    BY <1>2 DEF TabOK, StandsBy
  <2> QED  BY <2>1, <2>2, <1>2, <1>3, <1>5, <1>7, <1>9 DEF StandsBy, Live, Accounted, HasHash, SendsGrow
<1> QED  BY <1>6, <1>8, <1>10, <1>11, <1>12, TabMoves DEF TabOK

LEMMA TabAskCancel ==
  ASSUME OneTab, TabInv, SendInv', NEW b \in Pages, AskCancel(b)
  PROVE  TabInv'
<1>1. PICK z, i : z = page[b] /\ i = page[b].recovery.intent  OBVIOUS
<1>2. /\ SendPageOK(z) /\ TabOK(z) /\ i = z.recovery.intent
      /\ UNCHANGED <<broadcasts, storage, returned, prompted>> /\ abandoned' = abandoned \union {i}
      /\ sends[i].status = "AWAITING_WALLET_SIGNATURE" /\ sends[i].hash = 0
      /\ sends' = [sends EXCEPT ![i].status = "CANCELLED"]
  BY <1>1 DEF TabInv, SendInv, AskCancel
<1>3. /\ z.locked /\ z.checking = "none" /\ storage = z.recovery
      /\ i \in DOMAIN sends /\ z.recovery.hash = 0
      /\ z.at \notin {"prepare", "prepared"}
      /\ Live(z) => z.intent = i
  BY <1>1, PanelIsLive DEF AskCancel
<1>4. PICK q : q = [z EXCEPT !.checking = "cancelled"]  OBVIOUS
<1>5. /\ q.locked = z.locked /\ q.recovery = z.recovery /\ q.held = z.held /\ q.intent = z.intent
      /\ q.checking = "cancelled" /\ q.at = z.at
  BY <1>2, <1>4 DEF SendPageOK, SendPages
<1>6. page' = [page EXCEPT ![b] = q]  BY <1>1, <1>4 DEF AskCancel
<1>7. SendsGrow /\ SentGrows
  <2>1. sends \in Seq(SendRecords) /\ sends[i] \in SendRecords
    BY <1>3 DEF TabInv, SendInv, SendRowsOK
  <2>2. /\ DOMAIN sends' = DOMAIN sends /\ sends'[i].hash = sends[i].hash
        /\ sends'[i].status = "CANCELLED"
        /\ \A x \in DOMAIN sends \ {i} : sends'[x] = sends[x]
    BY <1>2, <1>3, <2>1 DEF SendRecords
  <2> QED  BY <1>2, <2>2 DEF SendsGrow, SentGrows
<1>8. HistoryOK'  BY <1>2, <1>7, PromptsStay, HistoryStays DEF KeepsRecord
<1>9. LocksOK(q)'  BY <1>2, <1>3, <1>5 DEF TabOK, LocksOK, Live
<1>10. RecordOK(q)'
  BY <1>2, <1>3, <1>5 DEF TabOK, RecordOK, CleanRecord
<1>11. StandsBy(q)'
  <2>1. \A x \in prompted : x \in DOMAIN sends  BY DEF TabInv, HistoryOK
  <2>2. \A x \in prompted \ abandoned : sends[x].status = "COMPLETED" \/ x = i
    BY <1>2 DEF TabOK, StandsBy
  <2> QED  BY <2>1, <2>2, <1>2, <1>3, <1>5, <1>7 DEF StandsBy, Live, Accounted, HasHash, SendsGrow
<1> QED  BY <1>6, <1>8, <1>9, <1>10, <1>11, TabMoves DEF TabOK

LEMMA TabCancelled ==
  ASSUME OneTab, TabInv, SendInv', NEW b \in Pages, Cancelled(b)
  PROVE  TabInv'
<1>1. PICK z, r : z = page[b] /\ r = NoRecovery  OBVIOUS
<1>2. PICK q : q = [z EXCEPT !.recovery = r, !.locked = FALSE, !.stage = "idle", !.checking = "none"]
  OBVIOUS
<1>3. /\ SendPageOK(z) /\ TabOK(z) /\ z.checking = "cancelled" /\ storage' = r
      /\ page' = [page EXCEPT ![b] = q]
      /\ UNCHANGED <<sends, broadcasts, returned, prompted, abandoned>>
  BY <1>1, <1>2 DEF TabInv, SendInv, Cancelled
<1>4. /\ q.recovery = r /\ q.intent = z.intent /\ q.checking = "none" /\ q.at = z.at
      /\ r.intent = 0 /\ r.hash = 0
  BY <1>1, <1>2, <1>3 DEF SendPageOK, SendPages, NoRecovery
<1>5. storage.hash # 0 => storage.intent # 0  BY DEF TabInv, SendInv, RecoveryOK
<1>6. HistoryOK'
  BY <1>3, <1>5, NothingGrows, PromptsStay, HistoryStays DEF TabOK, RecordOK, KeepsRecord, TabInv
<1>7. LocksOK(q)'  BY <1>3, <1>4 DEF TabOK, LocksOK, Live
<1>8. RecordOK(q)'  BY <1>3, <1>4 DEF RecordOK, CleanRecord
<1>9. StandsBy(q)'
  <2>1. 0 \notin prompted  BY DEF TabInv, HistoryOK, SendInv, SendRowsOK
  <2> QED  BY <2>1, <1>3, <1>4 DEF TabOK, StandsBy, Live, Accounted
<1> QED  BY <1>3, <1>6, <1>7, <1>8, <1>9, TabMoves DEF TabOK

LEMMA TabStartOver ==
  ASSUME OneTab, TabInv, SendInv', NEW b \in Pages, StartOver(b)
  PROVE  TabInv'
<1>1. PICK z, r : z = page[b] /\ r = NoRecovery  OBVIOUS
<1>2. PICK q : q = [z EXCEPT !.stage = "idle", !.locked = FALSE, !.recovery = r, !.verified = 0,
                             !.done = 0]
  OBVIOUS
<1>3. /\ SendPageOK(z) /\ TabOK(z) /\ z.checking = "none" /\ z.recovery.hash = 0
      /\ page' = [page EXCEPT ![b] = q] /\ abandoned' = abandoned \union ({z.recovery.intent} \ {0})
      /\ UNCHANGED <<sends, broadcasts, storage, returned, prompted>>
  BY <1>1, <1>2 DEF TabInv, SendInv, StartOver
<1>4. /\ q.recovery = r /\ q.intent = z.intent /\ q.checking = "none" /\ q.at = z.at
      /\ r.intent = 0 /\ r.hash = 0
  BY <1>1, <1>2, <1>3 DEF SendPageOK, SendPages, NoRecovery
<1>5. CleanRecord(storage)
  BY <1>3 DEF TabOK, RecordOK, CleanRecord
<1>6. HistoryOK'
  BY <1>3, NothingGrows, PromptsStay, HistoryStays DEF KeepsRecord, TabInv
<1>7. LocksOK(q)'
  <2>1. z.at \in {"prepare", "prepared"} => q.locked = FALSE
    BY <1>2, <1>3 DEF SendPageOK, SendPages
  <2> QED  BY <2>1, <1>4 DEF LocksOK, Live
<1>8. RecordOK(q)'  BY <1>3, <1>4, <1>5 DEF RecordOK, CleanRecord, Accounted, HasHash
<1>9. StandsBy(q)'
  <2>1. 0 \notin prompted  BY DEF TabInv, HistoryOK, SendInv, SendRowsOK
  <2>2. Live(z) => z.intent # 0
    BY <1>3 DEF Live, SendPageOK, TabInv, SendInv, SendRowsOK
  <2> QED  BY <2>1, <2>2, <1>3, <1>4 DEF TabOK, StandsBy, Live, Accounted, HasHash
<1> QED  BY <1>3, <1>6, <1>7, <1>8, <1>9, TabMoves DEF TabOK

LEMMA TabMine ==
  ASSUME OneTab, TabInv, SendInv', NEW h \in DOMAIN broadcasts, NEW outcome \in {"success", "reverted"},
         MineSend(h, outcome)
  PROVE  TabInv'
<1>1. /\ UNCHANGED <<page, storage, sends, returned, prompted, abandoned>>
      /\ broadcasts' = [broadcasts EXCEPT ![h].outcome = outcome]
      /\ broadcasts \in Seq(SentRecords)
  BY DEF MineSend, TabInv, SendInv, SendRowsOK
<1>2. SendsGrow /\ SentGrows
  BY <1>1 DEF SendsGrow, SentGrows, SentRecords
<1>3. HistoryOK'  BY <1>1, <1>2, PromptsStay, HistoryStays DEF KeepsRecord
<1>4. \A b \in Pages : TabOK(page[b])'
  BY <1>1 DEF TabInv, TabOK, LocksOK, RecordOK, StandsBy, Live, CleanRecord, Accounted, HasHash
<1> QED  BY <1>1, <1>3, <1>4 DEF TabInv

LEMMA TabElsewhere ==
  ASSUME TabInv, SendInv',
         UNCHANGED <<page, storage, sends, broadcasts, returned, prompted, abandoned>>
  PROVE  TabInv'
BY DEF TabInv, TabOK, LocksOK, RecordOK, StandsBy, Live, CleanRecord, Accounted, HasHash, HistoryOK,
       HashSurvives

LEMMA TabStep ==
  ASSUME OneTab, TabInv, [SendNext \/ ScanNext \/ MaxNext]_sendVars
  PROVE  TabInv'
<1>1. SendInv'  BY SendStepKeeps DEF TabInv
<1>2. CASE SendNext
  <2>1. CASE \E b \in Pages : WalletFails(b)  BY <1>1, <2>1, TabFailure DEF WalletFails
  <2> QED
    BY <1>1, <1>2, <2>1, TabSubmit, TabGrant, TabPrepared, TabBroadcast, TabRecord, TabBind, TabVerify,
       TabReload, TabReconcile, TabAskCancel, TabCancelled, TabStartOver, TabEnter, TabMine
    DEF SendNext
<1>3. CASE ScanNext \/ MaxNext
  BY <1>1, <1>3, TabElsewhere DEF ScanNext, MaxNext, ScanQr, SelectMax
<1>4. CASE UNCHANGED sendVars  BY <1>1, <1>4, TabElsewhere DEF sendVars
<1> QED  BY <1>2, <1>3, <1>4

LEMMA TabKeepsPromises ==
  ASSUME TabInv, Pages # {}
  PROVE  HashSurvives /\ OnePromptUnresolved
<1>1. PICK b \in Pages : TRUE  OBVIOUS
<1> QED  BY DEF TabInv, HistoryOK, TabOK, StandsBy, OnePromptUnresolved

\* The send page in one tab: whatever fails and however often it is reloaded, no hash is lost
\* and the wallet is opened for one transfer at a time.
THEOREM OneSendAtATime ==
  ASSUME OneTab, Pages # {}
  PROVE  SendSpec => []OneTransferAsShown
<1>1. SendInit => TabInv  BY TabStarts
<1>2. TabInv /\ [SendNext \/ ScanNext \/ MaxNext]_sendVars => TabInv'  BY TabStep
<1>3. TabInv => HashSurvives /\ OnePromptUnresolved  BY TabKeepsPromises
<1>4. SendSpec => [](ShownIsTransferred /\ ScannedIsShown /\ MaxIsSendable)  BY SendShowsTheTruth
<1> QED  BY <1>1, <1>2, <1>3, <1>4, PTL DEF SendSpec, OneTransferAsShown
=============================================================================
