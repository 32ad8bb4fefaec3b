----------------------- MODULE BridgeLifecycleProofs -----------------------
(***************************************************************************)
(* What the result document of a bridge intent promises although every      *)
(* handler replaces it from a snapshot, for any number of intents, burns,   *)
(* mints and requests at a time; and what it promises when no two requests  *)
(* work on the same intent at once.  Then the page in front of it: what it  *)
(* burns and which burn it stores.                                          *)
(***************************************************************************)
EXTENDS BridgeClient, Integers, BridgeLifecycle, TLAPS

(* A row that is not there has no result. *)
AbsentIsEmpty == \A i \in Ids : ~Exists(i) => Result(i) = NoResult

(* What a suspended request may still rely on, although its snapshot may be *)
(* old: the snapshot was coherent and stays so, the checks made on it hold  *)
(* of it, and what Circle or the destination chain have shown is final.     *)
HandlerOK(p) ==
    LET r == local[p] IN
    pc[p] \in {"fetch", "write"} =>
        /\ r.id \in Ids /\ Exists(r.id)
        /\ Coherent(r.seen)
        /\ r.op \in {"approval", "source", "attestation", "authorize", "destination",
                     "submit", "verify"}
        /\ r.op = "approval" => r.arg \in Approvals /\ r.seen.approval = None
        /\ r.op = "source" => r.arg \in Burns /\ r.seen.source = None
        /\ r.op = "attestation" =>
               /\ r.seen.source # None
               /\ r.message # None => /\ r.message = r.seen.source
                                      /\ r.message \in Matching
                                      /\ iris[r.message] = "complete"
        /\ r.op \in {"destination", "submit"} => r.arg \in Mints /\ r.message \in Burns
        /\ r.op = "verify" =>
               /\ r.seen.attested # None /\ r.seen.dest # None
               /\ pc[p] = "write" /\ readable[r.id] => Proves(r.seen.dest, r.seen.attested)

IndInv ==
    /\ TypeOK
    /\ EvidenceIsCoherent
    /\ CompletedIsMinted
    /\ AbsentIsEmpty
    /\ \A p \in Handlers : HandlerOK(p)

-----------------------------------------------------------------------------
(* What no step takes away: attestations, mined receipts, configured RPCs   *)
(* and rows.                                                                *)
Kept ==
    /\ \A b \in Burns : iris[b] = "complete" => iris'[b] = "complete"
    /\ \A m \in Mints : chain[m] # "unseen" => chain'[m] = chain[m]
    /\ readable' = readable
    /\ \A i \in Ids : Exists(i) => row'[i].status # "absent"

(* The rest of the state of a request that does not run. *)
LEMMA HandlerStable ==
    ASSUME TypeOK, Kept, NEW p \in Handlers, HandlerOK(p),
           pc'[p] = pc[p], local'[p] = local[p]
    PROVE  HandlerOK(p)'
<1> SUFFICES ASSUME pc[p] \in {"fetch", "write"}
             PROVE  HandlerOK(p)'
  BY DEF HandlerOK
<1> DEFINE r == local[p]
<1>1. /\ r.seen.attested \in Burns \cup {None} /\ r.message \in Burns \cup {None}
      /\ r.seen.dest \in Mints \cup {None}
  BY DEF TypeOK, Locals, Results
<1>2. Coherent(r.seen) => Coherent(r.seen)'
  BY <1>1, BridgeAssumption DEF Coherent, Kept
<1>3. r.seen.dest # None /\ Proves(r.seen.dest, r.seen.attested)
        => Proves(r.seen.dest, r.seen.attested)'
  BY <1>1 DEF Proves, Kept
<1>4. r.id \in Ids /\ Exists(r.id) => Exists(r.id)'
  BY DEF Kept, Exists
<1> QED BY <1>1, <1>2, <1>3, <1>4 DEF HandlerOK, Kept

(* The UPDATE of one row, which may complete tasks but leaves the world     *)
(* alone: the rows stay coherent when the document written is.              *)
LEMMA RowWriteCoherent ==
    ASSUME TypeOK, EvidenceIsCoherent, AbsentIsEmpty, UNCHANGED iris,
           NEW i \in Ids, NEW s \in BridgeStatuses, NEW r \in Results, Coherent(r),
           row' = [row EXCEPT ![i] = [status |-> s, result |-> r]],
           s = "completed" => r.completed /\ task'[i] = "completed",
           \A j \in Ids \ {i} : task[j] = "completed" => task'[j] = "completed"
    PROVE  /\ EvidenceIsCoherent'
           /\ AbsentIsEmpty'
           /\ row' \in [Ids -> [status : BridgeStatuses \cup {"absent"}, result : Results]]
<1>1. \A j \in Ids : row'[j] = IF j = i THEN [status |-> s, result |-> r] ELSE row[j]
  BY DEF TypeOK
<1>2. EvidenceIsCoherent'
  <2> SUFFICES ASSUME NEW j \in Ids
               PROVE  /\ Coherent(Result(j))'
                      /\ row'[j].status = "completed" => Result(j)'.completed /\ task'[j] = "completed"
    BY DEF EvidenceIsCoherent
  <2>1. CASE j = i
    <3>1. Result(j)' = r /\ row'[j].status = s
      BY <1>1, <2>1 DEF Result
    <3> QED BY <2>1, <3>1 DEF Coherent
  <2>2. CASE j # i
    <3>1. Result(j)' = Result(j) /\ row'[j].status = row[j].status
      BY <1>1, <2>2 DEF Result
    <3>2. Coherent(Result(j)) /\ (row[j].status = "completed" => Result(j).completed /\ task[j] = "completed")
      BY DEF EvidenceIsCoherent
    <3> QED BY <2>2, <3>1, <3>2 DEF Coherent
  <2> QED BY <2>1, <2>2
<1>3. AbsentIsEmpty'
  <2>1. s # "absent"
    BY DEF BridgeStatuses
  <2> QED BY <1>1, <2>1 DEF AbsentIsEmpty, Exists, Result
<1> QED BY <1>1, <1>2, <1>3 DEF TypeOK

(* Nothing is completed by a step that completes no task.                   *)
LEMMA MintedStays ==
    ASSUME TypeOK, CompletedIsMinted, Kept,
           \A i \in Ids : task'[i] = "completed" => task[i] = "completed"
    PROVE  CompletedIsMinted'
<1> SUFFICES ASSUME NEW i \in Ids, task[i] = "completed", readable[i]
             PROVE  \E m \in Mints : /\ Proves(m, Receives[m])'
                                     /\ Receives[m] \in Matching
                                     /\ iris'[Receives[m]] = "complete"
  BY DEF CompletedIsMinted, Kept
<1>1. PICK m \in Mints : /\ Proves(m, Receives[m])
                         /\ Receives[m] \in Matching
                         /\ iris[Receives[m]] = "complete"
  BY DEF CompletedIsMinted
<1> QED BY <1>1, BridgeAssumption DEF Proves, Kept

(* A step that writes no row and no task. *)
LEMMA RowsStay ==
    ASSUME TypeOK, EvidenceIsCoherent, AbsentIsEmpty, CompletedIsMinted, Kept, UNCHANGED <<row, task>>
    PROVE  EvidenceIsCoherent' /\ AbsentIsEmpty' /\ CompletedIsMinted'
<1>1. EvidenceIsCoherent'
  <2> SUFFICES ASSUME NEW i \in Ids
               PROVE  /\ Coherent(Result(i))'
                      /\ row'[i].status = "completed" => Result(i)'.completed /\ task'[i] = "completed"
    BY DEF EvidenceIsCoherent
  <2>1. Result(i)' = Result(i) /\ Result(i).attested \in Burns \cup {None}
    BY DEF Result, TypeOK, Results
  <2> QED BY <2>1, BridgeAssumption DEF EvidenceIsCoherent, Coherent, Kept
<1>2. AbsentIsEmpty'
  BY DEF AbsentIsEmpty, Exists, Result
<1> QED BY <1>1, <1>2, MintedStays

-----------------------------------------------------------------------------
(* A request begins: it has read the row it works on. *)
LEMMA BeginOK ==
    ASSUME IndInv, NEW p \in Handlers, Read(p)
    PROVE  /\ \E label \in {"create", "fetch", "write"}, r \in Locals : Begin(p, label, r)
           /\ HandlerOK(p)'
<1>1. /\ pc \in [Handlers -> {"idle", "create", "fetch", "write"}]
      /\ local \in [Handlers -> Locals]
      /\ \A i \in Ids : Result(i) \in Results /\ Coherent(Result(i))
  BY DEF IndInv, TypeOK, EvidenceIsCoherent, Result
<1>2. NoResult \in Results
  BY DEF NoResult, Results
<1>3. ASSUME NEW label \in {"create", "fetch", "write"}, NEW r \in Locals, Begin(p, label, r)
      PROVE  /\ pc'[p] = label /\ local'[p] = r
             /\ UNCHANGED <<row, readable, iris, chain>>
  BY <1>1, <1>3 DEF Begin, rowVars, world
<1>4. ASSUME NEW i \in Ids, Exists(i), NEW label \in {"fetch", "write"}, NEW r \in Locals,
             Begin(p, label, r), r.id = i, r.seen = Result(i),
             r.op \in {"approval", "source", "attestation", "authorize", "destination",
                       "submit", "verify"},
             r.op = "approval" => r.arg \in Approvals /\ r.seen.approval = None,
             r.op = "source" => r.arg \in Burns /\ r.seen.source = None,
             r.op = "attestation" => r.seen.source # None /\ r.message = None,
             r.op \in {"destination", "submit"} => r.arg \in Mints /\ r.message \in Burns,
             r.op = "verify" => r.seen.attested # None /\ r.seen.dest # None /\ label = "fetch"
      PROVE  /\ \E l \in {"create", "fetch", "write"}, q \in Locals : Begin(p, l, q)
             /\ HandlerOK(p)'
  <2>1. /\ pc'[p] = label /\ local'[p] = r
        /\ UNCHANGED <<row, readable, iris, chain>>
    BY <1>3, <1>4
  <2>2. Coherent(r.seen) /\ Exists(i)'
    BY <1>1, <1>4, <2>1 DEF Exists
  <2>3. Coherent(local[p].seen)'
    BY <2>1, <2>2 DEF Coherent
  <2>4. \E l \in {"create", "fetch", "write"}, q \in Locals : Begin(p, l, q)
    BY <1>4
  <2> QED BY <1>4, <2>1, <2>2, <2>3, <2>4 DEF HandlerOK
<1>5. ASSUME NEW op \in {"create", "approval", "source", "attestation", "authorize",
                         "destination", "submit", "verify"},
             NEW i \in Ids \cup {None},
             NEW arg \in RequestKeys \cup Approvals \cup Burns \cup Mints \cup {None},
             NEW message \in Burns \cup {None}, NEW result \in Results
      PROVE  /\ Request(op, i, arg, message, result) \in Locals
             /\ Request(op, i, arg, message, result).op = op
             /\ Request(op, i, arg, message, result).id = i
             /\ Request(op, i, arg, message, result).arg = arg
             /\ Request(op, i, arg, message, result).message = message
             /\ Request(op, i, arg, message, result).seen = result
  BY DEF Request, Locals
<1>6. ASSUME NEW key \in RequestKeys, CreateRead(p, key)
      PROVE  /\ \E l \in {"create", "fetch", "write"}, q \in Locals : Begin(p, l, q)
             /\ HandlerOK(p)'
  <2> DEFINE r == Request("create", None, key, None, NoResult)
  <2>1. r \in Locals /\ Begin(p, "create", r)
    BY <1>2, <1>5, <1>6 DEF CreateRead
  <2>2. pc'[p] = "create"
    BY <1>3, <2>1
  <2> QED BY <2>1, <2>2 DEF HandlerOK
<1>7. ASSUME NEW i \in Ids, NEW a \in Approvals, ApprovalRead(p, i, a)
      PROVE  /\ \E l \in {"create", "fetch", "write"}, q \in Locals : Begin(p, l, q)
             /\ HandlerOK(p)'
  <2> DEFINE r == Request("approval", i, a, None, Result(i))
  <2>1. /\ r \in Locals /\ r.op = "approval" /\ r.id = i /\ r.arg = a /\ r.seen = Result(i)
    BY <1>1, <1>5
  <2>2. Exists(i) /\ Result(i).approval = None /\ Begin(p, "write", r)
    BY <1>7 DEF ApprovalRead
  <2> HIDE DEF r
  <2> QED BY <1>4, <2>1, <2>2
<1>8. ASSUME NEW i \in Ids, NEW b \in Burns, SourceRead(p, i, b)
      PROVE  /\ \E l \in {"create", "fetch", "write"}, q \in Locals : Begin(p, l, q)
             /\ HandlerOK(p)'
  <2> DEFINE r == Request("source", i, b, None, Result(i))
  <2>1. /\ r \in Locals /\ r.op = "source" /\ r.id = i /\ r.arg = b /\ r.seen = Result(i)
    BY <1>1, <1>5
  <2>2. Exists(i) /\ Result(i).source = None /\ Begin(p, "write", r)
    BY <1>8 DEF SourceRead
  <2> HIDE DEF r
  <2> QED BY <1>4, <2>1, <2>2
<1>9. ASSUME NEW i \in Ids, AttestationRead(p, i)
      PROVE  /\ \E l \in {"create", "fetch", "write"}, q \in Locals : Begin(p, l, q)
             /\ HandlerOK(p)'
  <2> DEFINE r == Request("attestation", i, None, None, Result(i))
  <2>1. /\ r \in Locals /\ r.op = "attestation" /\ r.id = i /\ r.message = None /\ r.seen = Result(i)
    BY <1>1, <1>5
  <2>2. Exists(i) /\ Result(i).source # None /\ Begin(p, "fetch", r)
    BY <1>9 DEF AttestationRead
  <2> HIDE DEF r
  <2> QED BY <1>4, <2>1, <2>2
<1>10. ASSUME NEW i \in Ids, AuthorizeRead(p, i)
       PROVE  /\ \E l \in {"create", "fetch", "write"}, q \in Locals : Begin(p, l, q)
              /\ HandlerOK(p)'
  <2> DEFINE r == Request("authorize", i, None, None, Result(i))
  <2>1. /\ r \in Locals /\ r.op = "authorize" /\ r.id = i /\ r.seen = Result(i)
    BY <1>1, <1>5
  <2>2. Exists(i) /\ Begin(p, "write", r)
    BY <1>10 DEF AuthorizeRead
  <2> HIDE DEF r
  <2> QED BY <1>4, <2>1, <2>2
<1>11. ASSUME NEW i \in Ids, VerifyRead(p, i)
       PROVE  /\ \E l \in {"create", "fetch", "write"}, q \in Locals : Begin(p, l, q)
              /\ HandlerOK(p)'
  <2> DEFINE r == Request("verify", i, None, None, Result(i))
  <2>1. /\ r \in Locals /\ r.op = "verify" /\ r.id = i /\ r.seen = Result(i)
    BY <1>1, <1>5
  <2>2. /\ Exists(i) /\ Result(i).attested # None /\ Result(i).dest # None
        /\ Begin(p, "fetch", r)
    BY <1>11 DEF VerifyRead
  <2> HIDE DEF r
  <2> QED BY <1>4, <2>1, <2>2
<1>12. ASSUME NEW i \in Ids, NEW m \in Mints, NEW b \in Burns, NEW op \in {"destination", "submit"},
              Exists(i), Begin(p, "write", Request(op, i, m, b, Result(i)))
       PROVE  /\ \E l \in {"create", "fetch", "write"}, q \in Locals : Begin(p, l, q)
              /\ HandlerOK(p)'
  <2> DEFINE r == Request(op, i, m, b, Result(i))
  <2>1. /\ r \in Locals /\ r.op = op /\ r.id = i /\ r.arg = m /\ r.message = b /\ r.seen = Result(i)
    BY <1>1, <1>5
  <2>2. Begin(p, "write", r)
    BY <1>12
  <2> HIDE DEF r
  <2> QED BY <1>4, <1>12, <2>1, <2>2
<1> QED
  BY <1>6, <1>7, <1>8, <1>9, <1>10, <1>11, <1>12 DEF Read, DestinationRead, SubmitRead

-----------------------------------------------------------------------------
LEMMA NextKeeps == ASSUME TypeOK, [Next]_vars PROVE Kept
<1> USE DEF TypeOK
<1>1. ASSUME UNCHANGED <<row, readable, iris, chain>>
      PROVE  Kept
  BY <1>1 DEF Kept, Exists
<1>2. ASSUME UNCHANGED <<readable, iris, chain>>, NEW i, NEW s \in BridgeStatuses, NEW r,
             row' = [row EXCEPT ![i] = [status |-> s, result |-> r]]
      PROVE  Kept
  <2>1. s # "absent"
    BY DEF BridgeStatuses
  <2> QED BY <1>2, <2>1 DEF Kept, Exists
<1>3. ASSUME NEW p \in Handlers, Read(p)
      PROVE  Kept
  <2>1. UNCHANGED <<rowVars, world>>
    BY <1>3 DEF Read, CreateRead, ApprovalRead, SourceRead, AttestationRead, AuthorizeRead,
                VerifyRead, DestinationRead, SubmitRead, Begin
  <2> QED BY <1>1, <2>1 DEF rowVars, world
<1>4. ASSUME NEW p \in Handlers, Step(p)
      PROVE  Kept
  <2> USE DEF world, BridgeStatuses, WriteRow
  <2>1. CASE CreateWrite(p)
    BY <1>2, <2>1 DEF CreateWrite
  <2>2. CASE ApprovalWrite(p) \/ SourceWrite(p)
    BY <1>2, <2>2 DEF ApprovalWrite, SourceWrite
  <2>3. CASE AttestationFetch(p) \/ VerifyProve(p)
    BY <1>1, <2>3 DEF AttestationFetch, VerifyProve, rowVars
  <2>4. CASE AttestationWrite(p)
    <3>1. UNCHANGED <<readable, iris, chain>>
      BY <2>4 DEF AttestationWrite
    <3>2. \/ UNCHANGED row
          \/ \E s \in BridgeStatuses : \E r :
                row' = [row EXCEPT ![local[p].id] = [status |-> s, result |-> r]]
      BY <2>4 DEF AttestationWrite
    <3> QED BY <1>1, <1>2, <3>1, <3>2
  <2>5. CASE AuthorizeWrite(p)
    BY <2>5 DEF AuthorizeWrite, Kept, Exists
  <2>6. CASE DestinationWrite(p)
    <3>1. UNCHANGED <<readable, iris, chain>>
      BY <2>6 DEF DestinationWrite
    <3>2. \/ UNCHANGED row
          \/ \E s \in BridgeStatuses : \E r :
                row' = [row EXCEPT ![local[p].id] = [status |-> s, result |-> r]]
      BY <2>6 DEF DestinationWrite
    <3> QED BY <1>1, <1>2, <3>1, <3>2
  <2>7. CASE VerifyWrite(p)
    BY <1>2, <2>7 DEF VerifyWrite
  <2> QED BY <1>4, <2>1, <2>2, <2>3, <2>4, <2>5, <2>6, <2>7 DEF Step
<1>5. ASSUME NEW p \in Handlers, Crash(p)
      PROVE  Kept
  BY <1>1, <1>5 DEF Crash, rowVars, world
<1>6. CASE \E i \in Ids : LeaseExpires(i)
  BY <1>1, <1>6 DEF LeaseExpires, world
<1>7. CASE World
  BY <1>7 DEF World, Attest, Mine, Kept, rowVars, Exists
<1>8. CASE UNCHANGED vars
  BY <1>1, <1>8 DEF vars, rowVars, world
<1> QED BY <1>3, <1>4, <1>5, <1>6, <1>7, <1>8 DEF Next

(* The slots after a step of request p. *)
MovesOnly(p) ==
    /\ pc' \in [Handlers -> {"idle", "create", "fetch", "write"}]
    /\ local' \in [Handlers -> Locals]
    /\ \A q \in Handlers : q # p => pc'[q] = pc[q] /\ local'[q] = local[q]

LEMMA ReturnMoves ==
    ASSUME TypeOK, NEW p \in Handlers, Return(p)
    PROVE  MovesOnly(p) /\ HandlerOK(p)'
<1>1. IdleLocal \in Locals
  BY DEF IdleLocal, Request, Locals, NoResult, Results
<1> QED BY <1>1 DEF TypeOK, Return, MovesOnly, HandlerOK

LEMMA BeginMoves ==
    ASSUME TypeOK, NEW p \in Handlers, NEW label \in {"create", "fetch", "write"},
           NEW r \in Locals, Begin(p, label, r)
    PROVE  MovesOnly(p) /\ UNCHANGED <<rowVars, world>>
  BY DEF TypeOK, Begin, MovesOnly

(* The columns that belong to no document. *)
ColumnsTyped ==
    /\ nonce \in [Ids -> Burns \cup {None}]
    /\ messageHash \in [Ids -> Burns \cup {None}]
    /\ destinationHash \in [Ids -> Mints \cup {None}]
    /\ lease \in [Ids -> [id : Leases \cup {None}, live : BOOLEAN]]
    /\ task \in [Ids -> {"absent", "bridge_intent", "completed"}]
    /\ readable \in [Ids -> BOOLEAN]
    /\ issued \subseteq Leases
    /\ iris \in [Burns -> {"not_indexed", "complete"}]
    /\ chain \in [Mints -> {"unseen", "success", "reverted"}]

RowsOK == /\ EvidenceIsCoherent /\ AbsentIsEmpty /\ CompletedIsMinted /\ ColumnsTyped
          /\ row \in [Ids -> [status : BridgeStatuses \cup {"absent"}, result : Results]]

(* The second half of a request: what it writes and what it waits for next. *)
LEMMA StepOK ==
    ASSUME IndInv, NEW p \in Handlers, Step(p)
    PROVE  MovesOnly(p) /\ RowsOK' /\ HandlerOK(p)'
<1> DEFINE r == local[p]
           i == local[p].id
<1>1. /\ TypeOK /\ EvidenceIsCoherent /\ AbsentIsEmpty /\ CompletedIsMinted /\ HandlerOK(p)
      /\ ColumnsTyped
      /\ row \in [Ids -> [status : BridgeStatuses \cup {"absent"}, result : Results]]
  BY DEF IndInv, TypeOK, ColumnsTyped
<1>2. Kept
  BY <1>1, NextKeeps DEF Next
<1>3. /\ r \in Locals /\ r.seen \in Results
      /\ pc \in [Handlers -> {"idle", "create", "fetch", "write"}]
      /\ local \in [Handlers -> Locals]
  BY <1>1 DEF TypeOK, Locals
<1>4. pc[p] \in {"fetch", "write"} => i \in Ids /\ Exists(i) /\ Coherent(r.seen)
  BY <1>1 DEF HandlerOK
<1>5. ASSUME UNCHANGED <<row, task>>, ColumnsTyped'
      PROVE  RowsOK'
  BY <1>1, <1>2, <1>5, RowsStay DEF RowsOK
<1>6. ASSUME NEW j \in Ids, NEW s \in BridgeStatuses, NEW d \in Results, Coherent(d),
             row' = [row EXCEPT ![j] = [status |-> s, result |-> d]], s # "completed",
             UNCHANGED world, ColumnsTyped',
             task' = task \/ task' = [task EXCEPT ![j] = "bridge_intent"]
      PROVE  RowsOK'
  <2>1. /\ \A l \in Ids : task'[l] = "completed" => task[l] = "completed"
        /\ \A l \in Ids \ {j} : task[l] = "completed" => task'[l] = "completed"
    BY <1>1, <1>6 DEF ColumnsTyped
  <2>2. CompletedIsMinted'
    BY <1>1, <1>2, <2>1, MintedStays
  <2> QED BY <1>1, <1>6, <2>1, <2>2, RowWriteCoherent DEF RowsOK, world
<1>7. CASE CreateWrite(p)
  <2>1. PICK j \in Ids : /\ row' = [row EXCEPT ![j] = [status |-> "idle", result |-> NoResult]]
                         /\ task' = [task EXCEPT ![j] = "bridge_intent"]
    BY <1>7 DEF CreateWrite
  <2>2. NoResult \in Results /\ Coherent(NoResult) /\ "idle" \in BridgeStatuses
    BY DEF NoResult, Results, Coherent, BridgeStatuses
  <2>3. ColumnsTyped' /\ UNCHANGED world
    BY <1>1, <1>7, <2>1 DEF CreateWrite, ColumnsTyped, columns, world
  <2>4. RowsOK'
    BY <1>6, <2>1, <2>2, <2>3
  <2>5. Return(p)
    BY <1>7 DEF CreateWrite
  <2> QED BY <1>1, <2>4, <2>5, ReturnMoves
<1>8. CASE ApprovalWrite(p)
  <2> DEFINE d == [r.seen EXCEPT !.approval = r.arg]
  <2>1. pc[p] = "write" /\ r.op = "approval" /\ r.arg \in Approvals /\ i \in Ids
    BY <1>1, <1>8 DEF ApprovalWrite, HandlerOK
  <2>2. d \in Results /\ d.attested = r.seen.attested /\ d.source = r.seen.source
        /\ d.dest = r.seen.dest /\ d.completed = r.seen.completed /\ d.verified = r.seen.verified
    BY <1>3, <2>1 DEF Results
  <2> HIDE DEF d
  <2>3. Coherent(d)
    BY <1>4, <2>1, <2>2 DEF Coherent
  <2>4. row' = [row EXCEPT ![i] = [status |-> "approval_confirmed", result |-> d]]
    BY <1>8 DEF ApprovalWrite, WriteRow, d
  <2>5. ColumnsTyped' /\ UNCHANGED <<task, world>> /\ Return(p)
    BY <1>1, <1>8 DEF ApprovalWrite, ColumnsTyped, columns, world
  <2>6. RowsOK'
    BY <1>6, <2>1, <2>2, <2>3, <2>4, <2>5 DEF BridgeStatuses
  <2> QED BY <1>1, <2>5, <2>6, ReturnMoves
<1>9. CASE SourceWrite(p)
  <2> DEFINE d == [r.seen EXCEPT !.source = r.arg]
  <2>1. pc[p] = "write" /\ r.arg \in Burns /\ i \in Ids /\ r.seen.source = None
    BY <1>1, <1>9 DEF SourceWrite, HandlerOK
  <2>2. d \in Results /\ d.attested = r.seen.attested
        /\ d.dest = r.seen.dest /\ d.completed = r.seen.completed /\ d.verified = r.seen.verified
    BY <1>3, <2>1 DEF Results
  <2> HIDE DEF d
  <2>3. Coherent(d)
    BY <1>4, <2>1, <2>2 DEF Coherent
  <2>4. row' = [row EXCEPT ![i] = [status |-> "source_confirmed", result |-> d]]
    BY <1>9 DEF SourceWrite, WriteRow, d
  <2>5. ColumnsTyped' /\ UNCHANGED <<task, world>> /\ Return(p)
    BY <1>1, <1>9 DEF SourceWrite, ColumnsTyped, columns, world
  <2>6. RowsOK'
    BY <1>6, <2>1, <2>2, <2>3, <2>4, <2>5 DEF BridgeStatuses
  <2> QED BY <1>1, <2>5, <2>6, ReturnMoves
<1>10. CASE AttestationFetch(p)
  <2>1. UNCHANGED <<rowVars, world>>
    BY <1>10 DEF AttestationFetch
  <2>2. RowsOK'
    BY <1>1, <1>5, <2>1 DEF rowVars, columns, world, ColumnsTyped
  <2>3. CASE Return(p)
    BY <1>1, <2>2, <2>3, ReturnMoves
  <2>4. CASE pc' = [pc EXCEPT ![p] = "write"] /\ UNCHANGED local
    <3>1. HandlerOK(p)'
      <4>1. pc'[p] = "write" /\ local'[p] = local[p] /\ pc[p] = "fetch" /\ r.op = "attestation"
        BY <1>3, <1>10, <2>4 DEF AttestationFetch
      <4> QED BY <1>1, <2>1, <4>1 DEF HandlerOK, Coherent, rowVars, world, Exists, Proves
    <3> QED BY <1>1, <2>2, <2>4, <3>1 DEF MovesOnly, TypeOK
  <2>5. CASE /\ iris[r.seen.source] = "complete" /\ MatchesIntent(r.seen.source)
             /\ pc' = [pc EXCEPT ![p] = "write"]
             /\ local' = [local EXCEPT ![p] = [@ EXCEPT !.message = r.seen.source]]
    <3> DEFINE n == [r EXCEPT !.message = r.seen.source]
    <3>1. r.seen.source \in Burns /\ r.seen.source \in Matching /\ pc[p] = "fetch" /\ r.op = "attestation"
      BY <1>10, <2>5, BridgeAssumption DEF AttestationFetch, MatchesIntent
    <3>2. /\ n \in Locals /\ n.message = r.seen.source /\ n.seen = r.seen /\ n.op = r.op /\ n.id = r.id
      BY <1>3, <3>1 DEF Locals
    <3>3. local' = [local EXCEPT ![p] = n]
      BY <2>5
    <3> HIDE DEF n
    <3>4. pc'[p] = "write" /\ local'[p] = n
      BY <1>1, <1>3, <2>5, <3>3 DEF TypeOK
    <3>5. HandlerOK(p)'
      <4>1. UNCHANGED <<row, readable, iris, chain>> /\ iris[n.message] = "complete"
        BY <2>1, <2>5, <3>2 DEF rowVars, world
      <4>2. /\ n.id \in Ids /\ row'[n.id].status # "absent" /\ Coherent(n.seen)
            /\ n.op = "attestation" /\ n.seen.source # None
        BY <1>1, <3>1, <3>2, <4>1 DEF HandlerOK, Exists
      <4>3. Coherent(local[p].seen)'
        BY <3>4, <4>1, <4>2 DEF Coherent
      <4> QED BY <3>1, <3>2, <3>4, <4>1, <4>2, <4>3 DEF HandlerOK, Exists
    <3>6. MovesOnly(p)
      BY <1>3, <2>5, <3>2, <3>3 DEF MovesOnly
    <3> QED BY <2>2, <3>5, <3>6
  <2> QED BY <1>10, <2>3, <2>4, <2>5 DEF AttestationFetch
<1>11. CASE AttestationWrite(p)
  <2> DEFINE b == r.message
             d == [r.seen EXCEPT !.attested = b]
  <2>1. /\ pc[p] = "write" /\ r.op = "attestation" /\ i \in Ids /\ Return(p) /\ b \in Burns \cup {None}
        /\ UNCHANGED <<lease, task, readable, world>>
    BY <1>3, <1>4, <1>11 DEF AttestationWrite, Locals
  <2>2. CASE UNCHANGED <<row, columns>>
    BY <1>1, <1>5, <2>1, <2>2, ReturnMoves DEF ColumnsTyped, columns, world
  <2>3. CASE WriteRow(p, "waiting_for_attestation", r.seen) /\ UNCHANGED columns
    <3>1. ColumnsTyped'
      BY <1>1, <2>1, <2>3 DEF ColumnsTyped, columns, world
    <3>2. RowsOK'
      BY <1>3, <1>4, <1>6, <2>1, <2>3, <3>1 DEF WriteRow, BridgeStatuses
    <3> QED BY <1>1, <2>1, <3>2, ReturnMoves
  <2>4. CASE /\ b # None
             /\ WriteRow(p, "attestation_ready", d)
             /\ nonce' = [nonce EXCEPT ![i] = b]
             /\ messageHash' = [messageHash EXCEPT ![i] = b]
             /\ UNCHANGED destinationHash
    <3>1. ColumnsTyped'
      BY <1>1, <2>1, <2>4 DEF ColumnsTyped, world
    <3>2. b \in Burns /\ b = r.seen.source /\ b \in Matching /\ iris[b] = "complete"
      BY <1>1, <2>1, <2>4 DEF HandlerOK
    <3>3. d \in Results /\ d.attested = b /\ d.source = r.seen.source
          /\ d.dest = r.seen.dest /\ d.completed = r.seen.completed /\ d.verified = r.seen.verified
      BY <1>3, <3>2 DEF Results
    <3> HIDE DEF d
    <3>4. Coherent(d)
      BY <1>4, <2>1, <2>4, <3>2, <3>3 DEF Coherent
    <3>5. row' = [row EXCEPT ![i] = [status |-> "attestation_ready", result |-> d]]
      BY <2>4 DEF WriteRow
    <3>6. RowsOK'
      BY <1>6, <2>1, <3>1, <3>3, <3>4, <3>5 DEF BridgeStatuses
    <3> QED BY <1>1, <2>1, <3>6, ReturnMoves
  <2> QED BY <1>11, <2>2, <2>3, <2>4 DEF AttestationWrite
<1>12. CASE AuthorizeWrite(p)
  <2>1. pc[p] = "write" /\ i \in Ids /\ Exists(i) /\ Return(p)
    BY <1>4, <1>12 DEF AuthorizeWrite
  <2> DEFINE n == [status |-> "awaiting_destination_signature", result |-> Result(i)]
  <2>2. row' = [row EXCEPT ![i] = n]
    <3>1. row[i] \in [status : BridgeStatuses \cup {"absent"}, result : Results]
      BY <1>1, <2>1
    <3>2. [row[i] EXCEPT !.status = "awaiting_destination_signature"] = n
      BY <3>1 DEF Result
    <3>3. row' = [row EXCEPT ![i] = [row[i] EXCEPT !.status = "awaiting_destination_signature"]]
      BY <1>12 DEF AuthorizeWrite
    <3> QED BY <3>2, <3>3
  <2>3. Result(i) \in Results /\ Coherent(Result(i))
    BY <1>1, <2>1 DEF EvidenceIsCoherent, Result
  <2>4. PICK l \in Leases \ issued : /\ lease' = [lease EXCEPT ![i] = [id |-> l, live |-> TRUE]]
                                     /\ issued' = issued \cup {l}
    BY <1>12 DEF AuthorizeWrite
  <2>5. /\ ColumnsTyped'
        /\ UNCHANGED <<task, readable, iris, chain>>
    BY <1>1, <1>12, <2>1, <2>4 DEF AuthorizeWrite, ColumnsTyped, columns
  <2>6. EvidenceIsCoherent' /\ AbsentIsEmpty'
        /\ row' \in [Ids -> [status : BridgeStatuses \cup {"absent"}, result : Results]]
    BY <1>1, <2>1, <2>2, <2>3, <2>5, RowWriteCoherent DEF BridgeStatuses
  <2>7. CompletedIsMinted'
    BY <1>1, <1>2, <2>5, MintedStays
  <2> QED BY <1>1, <2>1, <2>5, <2>6, <2>7, ReturnMoves DEF RowsOK
<1>13. CASE DestinationWrite(p)
  <2> DEFINE d == [r.seen EXCEPT !.dest = r.arg]
  <2>1. /\ pc[p] = "write" /\ i \in Ids /\ r.arg \in Mints /\ r.message \in Burns
        /\ Return(p) /\ UNCHANGED <<nonce, task, readable, world>>
    BY <1>1, <1>13 DEF DestinationWrite, HandlerOK
  <2>2. CASE UNCHANGED <<row, messageHash, destinationHash, lease>>
    <3>1. RowsOK'
      BY <1>1, <1>5, <2>1, <2>2 DEF ColumnsTyped, world
    <3> QED BY <1>1, <2>1, <3>1, ReturnMoves
  <2>3. CASE /\ WriteRow(p, "verifying_destination", d)
             /\ messageHash' = [messageHash EXCEPT ![i] = r.message]
             /\ destinationHash' = [destinationHash EXCEPT ![i] = r.arg]
             /\ lease' = IF r.op = "submit" THEN [lease EXCEPT ![i] = NoLease] ELSE lease
    <3>1. NoLease \in [id : Leases \cup {None}, live : BOOLEAN]
      BY DEF NoLease
    <3>2. lease' \in [Ids -> [id : Leases \cup {None}, live : BOOLEAN]]
      BY <1>1, <2>3, <3>1 DEF ColumnsTyped
    <3>3. ColumnsTyped'
      BY <1>1, <2>1, <2>3, <3>2 DEF ColumnsTyped, world
    <3>4. d \in Results /\ d.attested = r.seen.attested /\ d.source = r.seen.source
          /\ d.dest = r.arg /\ d.completed = r.seen.completed /\ d.verified = r.seen.verified
      BY <1>3, <2>1 DEF Results
    <3> HIDE DEF d
    <3>5. Coherent(d)
      BY <1>4, <2>1, <3>4, BridgeAssumption DEF Coherent
    <3>6. row' = [row EXCEPT ![i] = [status |-> "verifying_destination", result |-> d]]
      BY <2>3 DEF WriteRow
    <3>7. RowsOK'
      BY <1>6, <2>1, <3>3, <3>4, <3>5, <3>6 DEF BridgeStatuses
    <3> QED BY <1>1, <2>1, <3>7, ReturnMoves
  <2> QED BY <1>13, <2>2, <2>3 DEF DestinationWrite
<1>14. CASE VerifyProve(p)
  <2>1. UNCHANGED <<rowVars, world>> /\ pc[p] = "fetch" /\ r.op = "verify"
    BY <1>14 DEF VerifyProve
  <2>2. RowsOK'
    BY <1>1, <1>5, <2>1 DEF rowVars, columns, world, ColumnsTyped
  <2>3. CASE Return(p)
    BY <1>1, <2>2, <2>3, ReturnMoves
  <2>4. CASE /\ ~readable[i] \/ Proves(r.seen.dest, r.seen.attested)
             /\ pc' = [pc EXCEPT ![p] = "write"] /\ UNCHANGED local
    <3>1. pc'[p] = "write" /\ local'[p] = local[p]
          /\ UNCHANGED <<row, readable, iris, chain>>
      BY <1>3, <2>1, <2>4 DEF rowVars, world
    <3>2. HandlerOK(p)'
      BY <1>1, <2>1, <2>4, <3>1 DEF HandlerOK, Coherent, Exists, Proves
    <3>3. MovesOnly(p)
      BY <1>3, <2>4 DEF MovesOnly
    <3> QED BY <2>2, <3>2, <3>3
  <2> QED BY <1>14, <2>3, <2>4 DEF VerifyProve
<1>15. CASE VerifyWrite(p)
  <2> DEFINE d == [r.seen EXCEPT !.completed = TRUE, !.verified = @ \/ readable[i]]
  <2>1. /\ pc[p] = "write" /\ r.op = "verify" /\ i \in Ids /\ Return(p)
        /\ r.seen.attested # None /\ r.seen.dest # None
        /\ UNCHANGED <<columns, lease, readable, world>>
        /\ task' = [task EXCEPT ![i] = "completed"]
    BY <1>1, <1>15 DEF VerifyWrite, HandlerOK
  <2>2. readable[i] \in BOOLEAN /\ r.seen.verified \in BOOLEAN
    BY <1>1, <1>3, <2>1 DEF ColumnsTyped, Results
  <2>3. /\ d \in Results /\ d.attested = r.seen.attested /\ d.source = r.seen.source
        /\ d.dest = r.seen.dest /\ d.completed = TRUE
    BY <1>3, <2>2 DEF Results
  <2>4. row' = [row EXCEPT ![i] = [status |-> "completed", result |-> d]]
    BY <1>15 DEF VerifyWrite, WriteRow
  <2> HIDE DEF d
  <2>5. Coherent(d)
    BY <1>4, <2>1, <2>3 DEF Coherent
  <2>6. ColumnsTyped' /\ \A j \in Ids : task'[j] = IF j = i THEN "completed" ELSE task[j]
    BY <1>1, <2>1 DEF ColumnsTyped, columns, world
  <2>7. EvidenceIsCoherent' /\ AbsentIsEmpty'
        /\ row' \in [Ids -> [status : BridgeStatuses \cup {"absent"}, result : Results]]
    <3>1. /\ "completed" \in BridgeStatuses /\ task'[i] = "completed" /\ UNCHANGED iris
          /\ \A j \in Ids \ {i} : task[j] = "completed" => task'[j] = "completed"
      BY <2>1, <2>6 DEF BridgeStatuses, world
    <3>2. d.completed
      BY <2>3
    <3> QED BY <1>1, <2>1, <2>3, <2>4, <2>5, <3>1, <3>2, RowWriteCoherent
  <2>8. CompletedIsMinted'
    <3> SUFFICES ASSUME NEW j \in Ids, task'[j] = "completed", readable[j]
                 PROVE  \E m \in Mints : /\ Proves(m, Receives[m])
                                         /\ Receives[m] \in Matching
                                         /\ iris[Receives[m]] = "complete"
      BY <2>1 DEF CompletedIsMinted, Proves, world
    <3>1. CASE j = i
      <4>1. Proves(r.seen.dest, r.seen.attested) /\ r.seen.dest \in Mints
        BY <1>1, <1>3, <2>1, <3>1 DEF HandlerOK, Results
      <4>2. r.seen.attested \in Matching /\ iris[r.seen.attested] = "complete"
        BY <1>4, <2>1 DEF Coherent
      <4>3. Receives[r.seen.dest] = r.seen.attested
        BY <4>1 DEF Proves
      <4> QED BY <4>1, <4>2, <4>3
    <3>2. CASE j # i
      BY <1>1, <2>6, <3>2 DEF CompletedIsMinted
    <3> QED BY <3>1, <3>2
  <2> QED BY <1>1, <2>1, <2>6, <2>7, <2>8, ReturnMoves DEF RowsOK
<1> QED
  BY <1>7, <1>8, <1>9, <1>10, <1>11, <1>12, <1>13, <1>14, <1>15 DEF Step

-----------------------------------------------------------------------------
LEMMA BridgeInit == ASSUME Init PROVE IndInv
<1>1. /\ NoResult \in Results /\ NoLease \in [id : Leases \cup {None}, live : BOOLEAN]
      /\ IdleLocal \in Locals /\ Coherent(NoResult)
  BY DEF NoResult, Results, NoLease, IdleLocal, Request, Locals, Coherent
<1>2. TypeOK
  BY <1>1 DEF Init, TypeOK
<1>3. \A i \in Ids : row[i].status = "absent" /\ Result(i) = NoResult /\ task[i] = "absent"
  BY DEF Init, Result
<1>4. \A p \in Handlers : HandlerOK(p)
  BY DEF Init, HandlerOK
<1> QED BY <1>1, <1>2, <1>3, <1>4 DEF IndInv, EvidenceIsCoherent, CompletedIsMinted, AbsentIsEmpty

LEMMA TypeParts == TypeOK <=> /\ ColumnsTyped
                              /\ row \in [Ids -> [status : BridgeStatuses \cup {"absent"}, result : Results]]
                              /\ pc \in [Handlers -> {"idle", "create", "fetch", "write"}]
                              /\ local \in [Handlers -> Locals]
  BY DEF TypeOK, ColumnsTyped

LEMMA BridgeNext == ASSUME IndInv, [Next]_vars PROVE IndInv'
<1>1. /\ TypeOK /\ ColumnsTyped /\ EvidenceIsCoherent /\ AbsentIsEmpty /\ CompletedIsMinted
      /\ \A p \in Handlers : HandlerOK(p)
  BY TypeParts DEF IndInv
<1>2. Kept
  BY <1>1, NextKeeps
(* one request moves *)
<1>3. ASSUME NEW p \in Handlers, MovesOnly(p), RowsOK', HandlerOK(p)'
      PROVE  IndInv'
  <2>1. \A q \in Handlers : HandlerOK(q)'
    BY <1>1, <1>2, <1>3, HandlerStable DEF MovesOnly
  <2>2. TypeOK'
    BY <1>3 DEF TypeOK, RowsOK, ColumnsTyped, MovesOnly
  <2> QED BY <1>3, <2>1, <2>2 DEF IndInv, RowsOK
(* a step that writes neither row nor task *)
<1>4. ASSUME UNCHANGED <<row, task>>, ColumnsTyped'
      PROVE  RowsOK'
  <2>1. EvidenceIsCoherent' /\ AbsentIsEmpty' /\ CompletedIsMinted'
    BY <1>1, <1>2, <1>4, RowsStay
  <2>2. row' \in [Ids -> [status : BridgeStatuses \cup {"absent"}, result : Results]]
    BY <1>1, <1>4, TypeParts
  <2> QED BY <1>4, <2>1, <2>2 DEF RowsOK
(* no request moves *)
<1>5. ASSUME RowsOK', UNCHANGED handlerVars
      PROVE  IndInv'
  <2>1. \A q \in Handlers : HandlerOK(q)'
    BY <1>1, <1>2, <1>5, HandlerStable DEF handlerVars
  <2>2. TypeOK'
    BY <1>1, <1>5, TypeParts DEF TypeOK, RowsOK, ColumnsTyped, handlerVars
  <2> QED BY <1>5, <2>1, <2>2 DEF IndInv, RowsOK
<1>6. ASSUME UNCHANGED <<rowVars, world>>
      PROVE  RowsOK'
  BY <1>1, <1>4, <1>6 DEF rowVars, columns, world, ColumnsTyped
<1>7. ASSUME NEW p \in Handlers, Read(p) PROVE IndInv'
  <2>1. PICK label \in {"create", "fetch", "write"}, q \in Locals : Begin(p, label, q)
    BY <1>7, BeginOK
  <2>2. HandlerOK(p)'
    BY <1>7, BeginOK
  <2>3. MovesOnly(p) /\ UNCHANGED <<rowVars, world>>
    BY <1>1, <2>1, BeginMoves
  <2> QED BY <1>3, <1>6, <2>2, <2>3
<1>8. ASSUME NEW p \in Handlers, Step(p) PROVE IndInv'
  BY <1>3, <1>8, StepOK
<1>9. ASSUME NEW p \in Handlers, Crash(p) PROVE IndInv'
  <2>1. MovesOnly(p) /\ HandlerOK(p)'
    BY <1>1, <1>9, ReturnMoves DEF Crash
  <2> QED BY <1>3, <1>6, <1>9, <2>1 DEF Crash
<1>10. ASSUME NEW i \in Ids, LeaseExpires(i) PROVE IndInv'
  <2>1. ColumnsTyped' /\ UNCHANGED <<row, task>>
    BY <1>1, <1>10 DEF LeaseExpires, ColumnsTyped, columns, world
  <2> QED BY <1>4, <1>5, <1>10, <2>1 DEF LeaseExpires
<1>11. CASE World
  <2>1. ColumnsTyped' /\ UNCHANGED <<row, task>>
    BY <1>1, <1>11 DEF World, Attest, Mine, ColumnsTyped, rowVars, columns
  <2> QED BY <1>4, <1>5, <1>11, <2>1 DEF World
<1>12. CASE UNCHANGED vars
  BY <1>5, <1>6, <1>12 DEF vars
<1> QED BY <1>7, <1>8, <1>9, <1>10, <1>11, <1>12 DEF Next

(* The state every reachable bridge state is in.                            *)
THEOREM BridgeInvariant == Spec => []IndInv
<1>1. Init => IndInv
  BY BridgeInit
<1>2. IndInv /\ [Next]_vars => IndInv'
  BY BridgeNext
<1> QED BY <1>1, <1>2, PTL DEF Spec

(* However reports, attestations, authorizations and verifications of a     *)
(* bridge intent overlap, the document that survives is coherent: an        *)
(* attestation is Circle's attestation of the burn recorded beside it, a    *)
(* completed intent has an attestation and a mint, and the task of an       *)
(* intent on a readable chain is completed only when a mint succeeded.      *)
THEOREM BridgeResultIsCoherent == Spec => []ResultIsCoherent
<1>1. IndInv => ResultIsCoherent
  BY DEF IndInv, ResultIsCoherent
<1> QED BY <1>1, BridgeInvariant, PTL

-----------------------------------------------------------------------------
(* The document that request p writes: its snapshot, to which it added only *)
(* what the snapshot did not have; an attestation comes with the nonce      *)
(* column, which no other row holds.                                        *)
Replaces(p) ==
    LET r == local[p]
        i == local[p].id
        d == row'[i].result IN
    /\ pc[p] = "write" /\ i \in Ids /\ pc'[p] = "idle"
    /\ \A j \in Ids \ {i} : row'[j].result = row[j].result
    /\ r.seen.approval # None => d.approval = r.seen.approval
    /\ r.seen.source # None => d.source = r.seen.source
    /\ r.seen.attested # None => d.attested = r.seen.attested
    /\ \/ UNCHANGED nonce /\ d.attested = r.seen.attested
       \/ \E b \in Burns : /\ Free(nonce, i, b) /\ d.attested = b
                           /\ nonce' = [nonce EXCEPT ![i] = b]

ResultsStay == UNCHANGED nonce /\ \A j \in Ids : row'[j].result = row[j].result

LEMMA StepWrites ==
    ASSUME IndInv, NEW p \in Handlers, Step(p)
    PROVE  ResultsStay \/ Replaces(p)
<1> DEFINE r == local[p]
           i == local[p].id
<1>1. /\ TypeOK /\ AbsentIsEmpty /\ HandlerOK(p)
      /\ row \in [Ids -> [status : BridgeStatuses \cup {"absent"}, result : Results]]
      /\ r.seen \in Results
      /\ nonce \in [Ids -> Burns \cup {None}]
  BY DEF IndInv, TypeOK, Locals
<1>2. pc[p] \in {"fetch", "write"} => i \in Ids /\ Coherent(r.seen)
  BY <1>1 DEF HandlerOK
<1>3. Return(p) => pc'[p] = "idle"
  BY <1>1 DEF TypeOK, Return
<1>4. ASSUME NEW s, NEW d, row' = [row EXCEPT ![i] = [status |-> s, result |-> d]], i \in Ids
      PROVE  row'[i].result = d /\ \A j \in Ids \ {i} : row'[j].result = row[j].result
  BY <1>1, <1>4
<1>5. CASE CreateWrite(p)
  <2>1. PICK j \in Ids : /\ ~Exists(j)
                         /\ row' = [row EXCEPT ![j] = [status |-> "idle", result |-> NoResult]]
    BY <1>5 DEF CreateWrite
  <2>2. row[j].result = NoResult
    BY <1>1, <2>1 DEF AbsentIsEmpty, Result
  <2> QED BY <1>1, <1>5, <2>1, <2>2 DEF CreateWrite, columns, ResultsStay
<1>6. CASE ApprovalWrite(p)
  <2> DEFINE d == [r.seen EXCEPT !.approval = r.arg]
  <2>1. i \in Ids /\ Return(p) /\ pc[p] = "write" /\ UNCHANGED nonce /\ r.seen.approval = None
    BY <1>1, <1>2, <1>6 DEF ApprovalWrite, columns, HandlerOK
  <2>2. row' = [row EXCEPT ![i] = [status |-> "approval_confirmed", result |-> d]]
    BY <1>6 DEF ApprovalWrite, WriteRow
  <2>3. d.source = r.seen.source /\ d.attested = r.seen.attested
    BY <1>1 DEF Results
  <2> HIDE DEF d
  <2> QED BY <1>3, <1>4, <2>1, <2>2, <2>3 DEF Replaces
<1>7. CASE SourceWrite(p)
  <2> DEFINE d == [r.seen EXCEPT !.source = r.arg]
  <2>1. i \in Ids /\ Return(p) /\ pc[p] = "write" /\ UNCHANGED nonce /\ r.seen.source = None
    BY <1>1, <1>2, <1>7 DEF SourceWrite, columns, HandlerOK
  <2>2. row' = [row EXCEPT ![i] = [status |-> "source_confirmed", result |-> d]]
    BY <1>7 DEF SourceWrite, WriteRow
  <2>3. d.approval = r.seen.approval /\ d.attested = r.seen.attested
    BY <1>1 DEF Results
  <2> HIDE DEF d
  <2> QED BY <1>3, <1>4, <2>1, <2>2, <2>3 DEF Replaces
<1>8. CASE AttestationWrite(p)
  <2> DEFINE b == r.message
             d == [r.seen EXCEPT !.attested = b]
  <2>1. i \in Ids /\ Return(p) /\ pc[p] = "write" /\ r.op = "attestation" /\ b \in Burns \cup {None}
    BY <1>1, <1>2, <1>8 DEF AttestationWrite, TypeOK, Locals
  <2>2. CASE UNCHANGED <<row, columns>>
    BY <2>2 DEF ResultsStay, columns
  <2>3. CASE WriteRow(p, "waiting_for_attestation", r.seen) /\ UNCHANGED columns
    <3>1. row' = [row EXCEPT ![i] = [status |-> "waiting_for_attestation", result |-> r.seen]]
      BY <2>3 DEF WriteRow
    <3> QED BY <1>3, <1>4, <2>1, <2>3, <3>1 DEF Replaces, columns
  <2>4. CASE /\ b # None /\ Free(nonce, i, b)
             /\ WriteRow(p, "attestation_ready", d) /\ nonce' = [nonce EXCEPT ![i] = b]
    <3>1. d.approval = r.seen.approval /\ d.source = r.seen.source /\ d.attested = b
      BY <1>1 DEF Results
    <3>2. r.seen.attested # None => r.seen.attested = b
      BY <1>1, <1>2, <2>1, <2>4 DEF HandlerOK, Coherent
    <3>3. row' = [row EXCEPT ![i] = [status |-> "attestation_ready", result |-> d]]
      BY <2>4 DEF WriteRow
    <3> HIDE DEF d
    <3>4. row'[i].result = d /\ \A j \in Ids \ {i} : row'[j].result = row[j].result
      BY <1>4, <2>1, <3>3
    <3>5. \E c \in Burns : Free(nonce, i, c) /\ d.attested = c /\ nonce' = [nonce EXCEPT ![i] = c]
      BY <2>1, <2>4, <3>1
    <3> QED BY <1>3, <2>1, <3>1, <3>2, <3>4, <3>5 DEF Replaces
  <2> QED BY <1>8, <2>2, <2>3, <2>4 DEF AttestationWrite
<1>9. CASE AuthorizeWrite(p)
  BY <1>1, <1>2, <1>9 DEF AuthorizeWrite, ResultsStay, columns
<1>10. CASE DestinationWrite(p)
  <2> DEFINE d == [r.seen EXCEPT !.dest = r.arg]
  <2>1. i \in Ids /\ Return(p) /\ pc[p] = "write" /\ UNCHANGED nonce
    BY <1>1, <1>2, <1>10 DEF DestinationWrite
  <2>2. CASE UNCHANGED row
    BY <2>1, <2>2 DEF ResultsStay
  <2>3. CASE WriteRow(p, "verifying_destination", d)
    <3>1. d.approval = r.seen.approval /\ d.source = r.seen.source /\ d.attested = r.seen.attested
      BY <1>1 DEF Results
    <3>2. row' = [row EXCEPT ![i] = [status |-> "verifying_destination", result |-> d]]
      BY <2>3 DEF WriteRow
    <3> HIDE DEF d
    <3> QED BY <1>3, <1>4, <2>1, <3>1, <3>2 DEF Replaces
  <2> QED BY <1>10, <2>2, <2>3 DEF DestinationWrite
<1>11. CASE VerifyWrite(p)
  <2> DEFINE d == [r.seen EXCEPT !.completed = TRUE, !.verified = @ \/ readable[i]]
  <2>1. i \in Ids /\ Return(p) /\ pc[p] = "write" /\ UNCHANGED nonce
    BY <1>1, <1>2, <1>11 DEF VerifyWrite, columns
  <2>2. row' = [row EXCEPT ![i] = [status |-> "completed", result |-> d]]
    BY <1>11 DEF VerifyWrite, WriteRow
  <2>3. d.approval = r.seen.approval /\ d.source = r.seen.source /\ d.attested = r.seen.attested
    BY <1>1 DEF Results
  <2> HIDE DEF d
  <2> QED BY <1>3, <1>4, <2>1, <2>2, <2>3 DEF Replaces
<1>12. CASE AttestationFetch(p) \/ VerifyProve(p)
  BY <1>12 DEF AttestationFetch, VerifyProve, rowVars, columns, ResultsStay
<1> QED
  BY <1>5, <1>6, <1>7, <1>8, <1>9, <1>10, <1>11, <1>12 DEF Step

LEMMA NextWrites ==
    ASSUME IndInv, [Next]_vars
    PROVE  ResultsStay \/ \E p \in Handlers : Step(p) /\ Replaces(p)
<1>1. ASSUME NEW p \in Handlers, Read(p) PROVE ResultsStay
  BY <1>1 DEF Read, CreateRead, ApprovalRead, SourceRead, AttestationRead, AuthorizeRead,
              VerifyRead, DestinationRead, SubmitRead, Begin, rowVars, columns, ResultsStay
<1>2. ASSUME NEW p \in Handlers, Crash(p) PROVE ResultsStay
  BY <1>2 DEF Crash, rowVars, columns, ResultsStay
<1>3. ASSUME NEW i \in Ids, LeaseExpires(i) PROVE ResultsStay
  BY <1>3 DEF LeaseExpires, columns, ResultsStay
<1>4. CASE World \/ UNCHANGED vars
  BY <1>4 DEF World, vars, rowVars, columns, ResultsStay
<1> QED BY <1>1, <1>2, <1>3, <1>4, StepWrites DEF Next

(* A recorded approval, burn or attestation of a bridge intent is replaced  *)
(* or lost only by a write whose snapshot of the row is no longer current.  *)
THEOREM BridgeEvidenceIsKept == Spec => EvidenceIsKept
<1>1. ASSUME IndInv, [Next]_vars, NEW i \in Ids
      PROVE  \/ \A f \in {"approval", "source", "attested"} :
                    Result(i)[f] # None => row'[i].result[f] = Result(i)[f]
             \/ \E p \in Handlers : Stale(p) /\ local[p].id = i /\ pc'[p] = "idle"
  <2>1. CASE row'[i].result = row[i].result
    BY <2>1 DEF Result
  <2>2. ASSUME NEW p \in Handlers, Replaces(p), local[p].id = i
        PROVE  \/ \A f \in {"approval", "source", "attested"} :
                    Result(i)[f] # None => row'[i].result[f] = Result(i)[f]
               \/ Stale(p) /\ pc'[p] = "idle"
    <3>1. CASE local[p].seen = Result(i)
      BY <2>2, <3>1 DEF Replaces
    <3>2. CASE local[p].seen # Result(i)
      BY <2>2, <3>2, BridgeAssumption DEF Replaces, Stale
    <3> QED BY <3>1, <3>2
  <2>3. \/ row'[i].result = row[i].result
        \/ \E p \in Handlers : Replaces(p) /\ local[p].id = i
    BY <1>1, NextWrites DEF ResultsStay, Replaces
  <2> QED BY <2>1, <2>2, <2>3
<1>2. IndInv /\ [Next]_vars =>
        [\A i \in Ids :
         \/ \A f \in {"approval", "source", "attested"} :
                Result(i)[f] # None => Result(i)'[f] = Result(i)[f]
         \/ \E p \in Handlers : Stale(p) /\ local[p].id = i /\ pc'[p] = "idle"]_vars
  BY <1>1 DEF Result
<1> QED BY <1>2, BridgeInvariant, PTL DEF Spec, EvidenceIsKept

-----------------------------------------------------------------------------
(* No two requests work on the same intent at once.                         *)
Working == {p \in Handlers : pc[p] \in {"fetch", "write"}}
Apart == \A p, q \in Working : p # q => local[p].id # local[q].id
ApartSpec == Spec /\ []Apart

(* Then the snapshot of a request is the row, ...                           *)
SeenCurrent == \A p \in Working : local[p].seen = Result(local[p].id)

(* ... and the nonce column, which is unique, holds each attestation.       *)
NonceBacks == \A i \in Ids : Result(i).attested # None => nonce[i] = Result(i).attested
NonceUnique == \A i, j \in Ids : nonce[i] = nonce[j] /\ nonce[i] # None => i = j

ApartInv == SeenCurrent /\ NonceBacks /\ NonceUnique

LEMMA WorkingSlots ==
    ASSUME IndInv, [Next]_vars, SeenCurrent, NEW p \in Working'
    PROVE  \/ p \in Working /\ local'[p].id = local[p].id /\ local'[p].seen = local[p].seen
           \/ local'[p].seen = Result(local'[p].id) /\ ResultsStay /\ local'[p].id \in Ids
<1> USE DEF Working
<1>1. /\ TypeOK /\ pc \in [Handlers -> {"idle", "create", "fetch", "write"}]
      /\ local \in [Handlers -> Locals]
  BY DEF IndInv, TypeOK
<1>2. ASSUME NEW q \in Handlers, Read(q)
      PROVE  \/ p # q /\ pc'[p] = pc[p] /\ local'[p] = local[p]
             \/ pc'[p] = "create"
             \/ local'[p].seen = Result(local'[p].id) /\ ResultsStay /\ local'[p].id \in Ids
  <2>1. ASSUME NEW label, NEW r, Begin(q, label, r)
        PROVE  /\ pc'[q] = label /\ local'[q] = r /\ ResultsStay
               /\ p # q => pc'[p] = pc[p] /\ local'[p] = local[p]
    BY <1>1, <2>1 DEF Begin, ResultsStay, rowVars, columns
  <2>2. ASSUME NEW i \in Ids, NEW label, NEW r, Begin(q, label, r), r.id = i, r.seen = Result(i)
        PROVE  \/ p # q /\ pc'[p] = pc[p] /\ local'[p] = local[p]
               \/ local'[p].seen = Result(local'[p].id) /\ ResultsStay /\ local'[p].id \in Ids
    BY <2>1, <2>2
  <2>3. ASSUME NEW op, NEW i, NEW arg, NEW message, NEW result
        PROVE  /\ Request(op, i, arg, message, result).id = i
               /\ Request(op, i, arg, message, result).seen = result
    BY DEF Request
  <2>4. CASE \E key \in RequestKeys : CreateRead(q, key)
    BY <2>1, <2>4 DEF CreateRead
  <2>5. ASSUME NEW i \in Ids, NEW a \in Approvals, ApprovalRead(q, i, a)
        PROVE  \/ p # q /\ pc'[p] = pc[p] /\ local'[p] = local[p]
               \/ local'[p].seen = Result(local'[p].id) /\ ResultsStay /\ local'[p].id \in Ids
    BY <2>2, <2>3, <2>5 DEF ApprovalRead
  <2>6. ASSUME NEW i \in Ids, NEW b \in Burns, SourceRead(q, i, b)
        PROVE  \/ p # q /\ pc'[p] = pc[p] /\ local'[p] = local[p]
               \/ local'[p].seen = Result(local'[p].id) /\ ResultsStay /\ local'[p].id \in Ids
    BY <2>2, <2>3, <2>6 DEF SourceRead
  <2>7. ASSUME NEW i \in Ids, AttestationRead(q, i) \/ AuthorizeRead(q, i) \/ VerifyRead(q, i)
        PROVE  \/ p # q /\ pc'[p] = pc[p] /\ local'[p] = local[p]
               \/ local'[p].seen = Result(local'[p].id) /\ ResultsStay /\ local'[p].id \in Ids
    BY <2>2, <2>3, <2>7 DEF AttestationRead, AuthorizeRead, VerifyRead
  <2>8. ASSUME NEW i \in Ids, NEW m \in Mints, NEW b \in Burns,
               DestinationRead(q, i, m, b) \/ \E l \in Leases : SubmitRead(q, i, m, b, l)
        PROVE  \/ p # q /\ pc'[p] = pc[p] /\ local'[p] = local[p]
               \/ local'[p].seen = Result(local'[p].id) /\ ResultsStay /\ local'[p].id \in Ids
    <3>1. PICK op \in {"destination", "submit"} : Begin(q, "write", Request(op, i, m, b, Result(i)))
      BY <2>8 DEF DestinationRead, SubmitRead
    <3> DEFINE r == Request(op, i, m, b, Result(i))
    <3>2. r.id = i /\ r.seen = Result(i)
      BY <2>3
    <3> HIDE DEF r
    <3> QED BY <2>2, <3>1, <3>2 DEF r
  <2> QED BY <1>2, <2>4, <2>5, <2>6, <2>7, <2>8 DEF Read
<1>3. ASSUME NEW q \in Handlers, Step(q)
      PROVE  \/ p # q /\ pc'[p] = pc[p] /\ local'[p] = local[p]
             \/ pc'[p] = "idle"
             \/ pc[p] = "fetch" /\ local'[p].id = local[p].id /\ local'[p].seen = local[p].seen
  <2>1. CASE p # q
    BY <1>3, <2>1, StepOK DEF MovesOnly
  <2>2. Return(q) => pc'[q] = "idle"
    BY <1>1 DEF Return
  <2>3. CASE AttestationFetch(q) /\ p = q
    <3>1. CASE UNCHANGED local
      BY <2>3, <3>1 DEF AttestationFetch
    <3>2. CASE local' = [local EXCEPT ![q] = [@ EXCEPT !.message = local[q].seen.source]]
      BY <1>1, <2>3, <3>2 DEF AttestationFetch, Locals
    <3> QED BY <2>2, <2>3, <3>1, <3>2 DEF AttestationFetch
  <2>4. CASE VerifyProve(q) /\ p = q
    BY <2>2, <2>4 DEF VerifyProve
  <2>5. CASE /\ p = q
             /\ \/ CreateWrite(q) \/ ApprovalWrite(q) \/ SourceWrite(q) \/ AttestationWrite(q)
                \/ AuthorizeWrite(q) \/ DestinationWrite(q) \/ VerifyWrite(q)
    BY <2>2, <2>5 DEF CreateWrite, ApprovalWrite, SourceWrite, AttestationWrite,
                      AuthorizeWrite, DestinationWrite, VerifyWrite
  <2> QED BY <1>3, <2>1, <2>3, <2>4, <2>5 DEF Step
<1>4. ASSUME NEW q \in Handlers, Crash(q)
      PROVE  pc'[p] = "idle" \/ (pc'[p] = pc[p] /\ local'[p] = local[p])
  BY <1>1, <1>4 DEF Crash, Return
<1>5. CASE (\E i \in Ids : LeaseExpires(i)) \/ World \/ UNCHANGED vars
  BY <1>5 DEF LeaseExpires, World, vars, handlerVars
<1> QED BY <1>2, <1>3, <1>4, <1>5 DEF Next

LEMMA ApartNext == ASSUME IndInv, ApartInv, Apart, [Next]_vars PROVE ApartInv'
<1>1. CASE ResultsStay
  <2>1. SeenCurrent'
    <3> SUFFICES ASSUME NEW p \in Working' PROVE (local[p].seen = Result(local[p].id))'
      BY DEF SeenCurrent
    <3>1. CASE p \in Working /\ local'[p].id = local[p].id /\ local'[p].seen = local[p].seen
      <4>1. local[p].id \in Ids
        BY <3>1 DEF Working, IndInv, HandlerOK
      <4> QED BY <1>1, <3>1, <4>1 DEF ApartInv, SeenCurrent, ResultsStay, Result
    <3>2. CASE local'[p].seen = Result(local'[p].id) /\ local'[p].id \in Ids
      BY <1>1, <3>2 DEF ResultsStay, Result
    <3> QED BY <3>1, <3>2, WorkingSlots DEF ApartInv
  <2>2. NonceBacks' /\ NonceUnique'
    BY <1>1 DEF ApartInv, NonceBacks, NonceUnique, ResultsStay, Result
  <2> QED BY <2>1, <2>2 DEF ApartInv
<1>2. ASSUME NEW p \in Handlers, Step(p), Replaces(p)
      PROVE  ApartInv'
  <2> DEFINE i == local[p].id
  <2>1. i \in Ids /\ p \in Working /\ local[p].seen = Result(i)
    BY <1>2 DEF Replaces, Working, ApartInv, SeenCurrent
  <2>2. MovesOnly(p) /\ p \notin Working'
    BY <1>2, StepOK DEF Replaces, Working
  <2>3. SeenCurrent'
    <3> SUFFICES ASSUME NEW q \in Working' PROVE (local[q].seen = Result(local[q].id))'
      BY DEF SeenCurrent
    <3>1. q \in Working /\ q # p /\ local'[q] = local[q]
      BY <2>2 DEF MovesOnly, Working
    <3>2. local[q].id \in Ids \ {i}
      BY <2>1, <3>1 DEF Apart, IndInv, HandlerOK, Working
    <3> QED BY <1>2, <3>1, <3>2 DEF ApartInv, SeenCurrent, Replaces, Result
  <2>4. CASE UNCHANGED nonce /\ row'[i].result.attested = local[p].seen.attested
    <3>1. \A j \in Ids : row'[j].result.attested = row[j].result.attested
      BY <1>2, <2>1, <2>4 DEF Replaces, Result
    <3>2. NonceBacks' /\ NonceUnique'
      BY <2>4, <3>1 DEF ApartInv, NonceBacks, NonceUnique, Result
    <3> QED BY <2>3, <3>2 DEF ApartInv
  <2>5. ASSUME NEW b \in Burns, Free(nonce, i, b), row'[i].result.attested = b,
               nonce' = [nonce EXCEPT ![i] = b]
        PROVE  NonceBacks' /\ NonceUnique'
    <3>1. nonce'[i] = b /\ \A j \in Ids \ {i} : nonce'[j] = nonce[j] /\ nonce[j] # b
      BY <2>1, <2>5 DEF Free, IndInv, TypeOK
    <3>2. NonceBacks'
      BY <1>2, <2>5, <3>1 DEF ApartInv, NonceBacks, Replaces, Result
    <3>3. NonceUnique'
      BY <3>1 DEF ApartInv, NonceUnique
    <3> QED BY <3>2, <3>3
  <2> QED BY <1>2, <2>3, <2>4, <2>5 DEF Replaces, ApartInv
<1> QED BY <1>1, <1>2, NextWrites

(* While no two requests work on the same intent at once, a burn backs one  *)
(* intent only: an attestation never appears in the documents of two.       *)
THEOREM ApartOneIntentPerMessage == ApartSpec => []OneIntentPerMessage
<1>1. Init => ApartInv
  BY DEF Init, ApartInv, SeenCurrent, NonceBacks, NonceUnique, Working, Result, NoResult
<1>2. IndInv /\ ApartInv /\ Apart /\ [Next]_vars => ApartInv'
  BY ApartNext
<1>3. ApartInv => OneIntentPerMessage
  BY DEF ApartInv, NonceBacks, NonceUnique, OneIntentPerMessage
<1> QED BY <1>1, <1>2, <1>3, BridgeInvariant, PTL DEF ApartSpec, Spec

-----------------------------------------------------------------------------
(* The bridge page: the long start() closes over one quote, and the row it  *)
(* created is the stored one until another takes its place in plain sight.  *)

BridgeKeys == BridgeChains \X BridgeChains \X Nat
BridgeForms == [outbound : BOOLEAN, other : Counterparties, amount : Nat]
BridgeRow == [key : BridgeKeys, maxFee : Nat, threshold : Nat,
              status : {"idle", "source_approved", "waiting_for_attestation", "attestation_ready",
                        "awaiting_destination_signature", "verifying_destination", "completed"},
              burn : Nat]
BurnRow == [intent : Nat, key : BridgeKeys, maxFee : Nat, threshold : Nat]
RunRecord == [id : Nat, key : BridgeKeys, maxFee : Nat, threshold : Nat]
QuoteRecord == [on : {TRUE}, key : BridgeKeys, threshold : Nat, fee : Nat, maxFee : Nat, receive : Int,
                rate : Nat, allowance : Nat]

BridgePageType ==
  /\ live \in [rate : Nat, allowance : Nat]
  /\ form \in BridgeForms
  /\ asked.key \in BridgeKeys
  /\ quote.on => quote \in given
  /\ given \subseteq QuoteRecord
  /\ run \in RunRecord
  /\ rows \in Seq(BridgeRow) /\ burns \in Seq(BurnRow)
  /\ seen \in {0} \cup DOMAIN rows /\ lookup \in {0} \cup DOMAIN rows
  /\ bridgeSaved \in {0} \cup DOMAIN rows

\* The awaits of start() after the intent was created.
HasIntent == bat \in {"approve", "burn", "source", "attest", "authorize", "mint", "verify"}

Done(id) == id \in DOMAIN rows /\ rows[id].status = "completed"

RunFollowsQuote ==
  /\ bat = "none" \/ bat = "create" \/ HasIntent
  /\ bat # "none" =>
       \E q \in given : q.key = run.key /\ q.maxFee = run.maxFee /\ q.threshold = run.threshold
  /\ HasIntent => /\ run.id \in DOMAIN rows /\ rows[run.id].key = run.key
                  /\ rows[run.id].maxFee = run.maxFee /\ rows[run.id].threshold = run.threshold
                  /\ rows[run.id].status # "completed"

BurnsHaveRows == \A b \in DOMAIN burns : burns[b].intent \in DOMAIN rows

\* What may be overwritten in localStorage, and what the stages say.
StoredFollowsRun ==
  /\ HasIntent => bridgeSaved = run.id \/ run.id \in forgotten
  /\ bat = "create" => bridgeSaved = 0 \/ bridgeSaved \in forgotten \/ Done(bridgeSaved)
  /\ bstage = "idle" => seen = 0
  /\ bstage = "completed" => Done(seen)

BridgePageInv ==
  /\ BridgePageType /\ RunFollowsQuote /\ BurnsHaveRows /\ StoredFollowsRun
  /\ BurnedAsQuoted /\ QuoteSuffices /\ UnfinishedBurnIsStored

\* A row keeps what it was created with, and a completed one its status.
RowsLast ==
  \A i \in DOMAIN rows :
    /\ i \in DOMAIN rows'
    /\ rows'[i].key = rows[i].key /\ rows'[i].maxFee = rows[i].maxFee
    /\ rows'[i].threshold = rows[i].threshold
    /\ rows[i].status = "completed" => rows'[i].status = "completed"

LEMMA BridgePageStarts == BridgePageInit => BridgePageInv
<1> SUFFICES ASSUME BridgePageInit PROVE BridgePageInv  OBVIOUS
<1>1. EmptyForm \in BridgeForms
  BY BridgePageAssumption DEF EmptyForm, BridgeForms
<1>2. <<Arc, Arc, 0>> \in BridgeKeys  BY DEF BridgeKeys, BridgeChains
<1>3. live \in [rate : Nat, allowance : Nat]  BY BridgePageAssumption DEF BridgePageInit
<1>4. BridgePageType
  BY <1>1, <1>2, <1>3 DEF BridgePageInit, BridgePageType, NoRequest, NoRun, NoQuote, RunRecord
<1>5. DOMAIN burns = {}  BY DEF BridgePageInit
<1> QED
  BY <1>4, <1>5 DEF BridgePageInit, BridgePageInv, RunFollowsQuote, BurnsHaveRows, StoredFollowsRun,
     BurnedAsQuoted, QuoteSuffices, UnfinishedBurnIsStored, HasIntent

\* A rounded-up quotient covers what is divided.
LEMMA RoundedUp ==
  ASSUME NEW a \in Nat, NEW d \in Nat \ {0}
  PROVE  (a + d - 1) \div d \in Nat /\ ((a + d - 1) \div d) * d >= a
<1> DEFINE m == a + d - 1
<1>1. m \in Nat  OBVIOUS
<1>2. m = d * (m \div d) + (m % d) /\ m % d \in 0 .. (d - 1) /\ m \div d \in Nat
  BY <1>1
<1> HIDE DEF m
<1>3. PICK q \in Nat, r \in 0 .. (d - 1) : q = m \div d /\ m = d * q + r  BY <1>2
<1>4. d * q >= m - (d - 1)  BY <1>1, <1>3
<1>5. m - (d - 1) = a  BY DEF m
<1>6. d * q = q * d  BY <1>3
<1> QED  BY <1>3, <1>4, <1>5, <1>6 DEF m

LEMMA ProtocolFee ==
  ASSUME NEW amount \in Nat, NEW rate \in Nat
  PROVE  /\ CalculateFastProtocolFee(amount, rate) \in Nat
         /\ CalculateFastProtocolFee(amount, rate) * FeeScale >= amount * rate
<1>1. FeeScale \in Nat \ {0}  BY BridgePageAssumption
<1>2. CASE amount = 0 \/ rate = 0
  <2>1. amount * rate = 0  BY <1>2
  <2> QED  BY <1>1, <1>2, <2>1 DEF CalculateFastProtocolFee
<1>3. CASE ~(amount = 0 \/ rate = 0)
  <2>1. PICK a \in Nat : a = amount * rate  OBVIOUS
  <2>2. (a + FeeScale - 1) \div FeeScale \in Nat /\ ((a + FeeScale - 1) \div FeeScale) * FeeScale >= a
    BY <1>1, RoundedUp
  <2>3. CalculateFastProtocolFee(amount, rate) = (a + FeeScale - 1) \div FeeScale
    BY <1>3, <2>1 DEF CalculateFastProtocolFee
  <2> QED  BY <2>1, <2>2, <2>3
<1> QED  BY <1>2, <1>3

LEMMA MaxFeeCovers ==
  ASSUME NEW fee \in Nat
  PROVE  CalculateFastMaxFee(fee) \in Nat /\ CalculateFastMaxFee(fee) >= fee
<1>1. BufferDen \in Nat \ {0} /\ BufferNum \in Nat /\ BufferNum >= BufferDen  BY BridgePageAssumption
<1>2. CASE fee = 0  BY <1>2 DEF CalculateFastMaxFee
<1>3. CASE fee # 0
  <2>1. PICK a \in Nat : a = fee * BufferNum  BY <1>1
  <2>2. PICK m \in Nat : m = (a + BufferDen - 1) \div BufferDen /\ m * BufferDen >= a
    BY <1>1, RoundedUp
  <2>3. CalculateFastMaxFee(fee) = m  BY <1>3, <2>1, <2>2 DEF CalculateFastMaxFee
  <2>4. a >= fee * BufferDen
    <3>1. PICK k \in Nat : BufferNum = BufferDen + k
      <4>1. BufferNum - BufferDen \in Nat /\ BufferNum = BufferDen + (BufferNum - BufferDen)  BY <1>1
      <4> QED  BY <4>1
    <3>2. a = fee * BufferDen + fee * k /\ fee * k \in Nat /\ fee * BufferDen \in Nat
      BY <1>1, <2>1, <3>1
    <3> QED  BY <3>2
  <2>5. m >= fee
    <3> SUFFICES ASSUME m < fee PROVE FALSE  BY <2>2
    <3>1. PICK k \in Nat : fee = m + 1 + k
      <4>1. fee - m - 1 \in Nat /\ fee = m + 1 + (fee - m - 1)  BY <2>2
      <4> QED  BY <4>1
    <3>2. fee * BufferDen = m * BufferDen + BufferDen + k * BufferDen /\ k * BufferDen \in Nat
          /\ m * BufferDen \in Nat
      BY <1>1, <2>2, <3>1
    <3>3. m * BufferDen >= fee * BufferDen  BY <1>1, <2>1, <2>2, <2>4, <3>2
    <3> QED  BY <1>1, <3>2, <3>3
  <2> QED  BY <2>2, <2>3, <2>5
<1> QED  BY <1>2, <1>3

\* Every answer of the quote service suffices.
LEMMA AnswerSuffices ==
  ASSUME BridgePageType, NEW key \in BridgeKeys, QuoteAvailable(key), NEW q, q = QuoteFor(key)
  PROVE  /\ q \in QuoteRecord /\ q.key = key /\ q.on
         /\ q.receive + q.fee = q.key[3]
         /\ GetBridgeTransferMode(q.key[1]) = "fast"
            => /\ q.maxFee * FeeScale >= q.key[3] * q.rate
               /\ q.maxFee <= q.key[3]
               /\ AssertFastReady(q.key[3], q.maxFee, q.rate, q.allowance)
<1>1. PICK amount, rate, allowance \in Nat :
        amount = key[3] /\ rate = live.rate /\ allowance = live.allowance
  BY DEF BridgePageType, BridgeKeys
<1> DEFINE exact == CalculateFastProtocolFee(amount, rate)
<1>2. exact \in Nat /\ exact * FeeScale >= amount * rate  BY ProtocolFee
<1>3. PICK fee \in Nat :
        fee = IF GetBridgeTransferMode(key[1]) = "fast" THEN exact ELSE 0
  BY <1>2
<1>4. PICK m \in Nat : m = CalculateFastMaxFee(fee) /\ m >= fee  BY MaxFeeCovers
<1>5. q = [on |-> TRUE, key |-> key, threshold |-> GetBridgeFinalityThreshold(key[1]), fee |-> fee,
           maxFee |-> m, receive |-> amount - fee, rate |-> rate, allowance |-> allowance]
  BY <1>1, <1>3, <1>4 DEF QuoteFor
<1>6. GetBridgeFinalityThreshold(key[1]) \in Nat  BY DEF GetBridgeFinalityThreshold
<1>7. /\ q \in QuoteRecord /\ q.key = key /\ q.on /\ q.receive + q.fee = amount /\ q.maxFee = m
      /\ q.rate = rate /\ q.allowance = allowance
  BY <1>5, <1>6 DEF QuoteRecord
<1>8. ASSUME GetBridgeTransferMode(key[1]) = "fast"
      PROVE  /\ m * FeeScale >= amount * rate /\ m <= amount
             /\ AssertFastReady(amount, m, rate, allowance)
  <2>1. fee = exact  BY <1>3, <1>8
  <2>2. m <= amount /\ amount <= allowance  BY <1>1, <1>5, <1>8 DEF QuoteAvailable
  <2>3. m * FeeScale >= fee * FeeScale
    <3>1. PICK k \in Nat : m = fee + k
      <4>1. m - fee \in Nat /\ m = fee + (m - fee)  BY <1>4
      <4> QED  BY <4>1
    <3>2. FeeScale \in Nat  BY BridgePageAssumption
    <3>3. m * FeeScale = fee * FeeScale + k * FeeScale /\ k * FeeScale \in Nat /\ fee * FeeScale \in Nat
      BY <3>1, <3>2
    <3> QED  BY <3>3
  <2>4. m * FeeScale >= amount * rate
    <3>1. FeeScale \in Nat  BY BridgePageAssumption
    <3>2. m * FeeScale \in Nat /\ fee * FeeScale \in Nat /\ amount * rate \in Nat  BY <3>1
    <3> HIDE DEF exact
    <3> QED  BY <3>2, <2>1, <2>3, <1>2
  <2> HIDE DEF exact
  <2>5. m >= exact  BY <2>1, <1>4
  <2>6. AssertFastReady(amount, m, rate, allowance)
    BY <2>2, <2>5 DEF AssertFastReady, exact
  <2> QED  BY <2>2, <2>4, <2>6
<1> QED  BY <1>1, <1>7, <1>8

-----------------------------------------------------------------------------
(* The steps that write no row, and those of one row.                       *)

LEMMA RequestKeyTyped ==
  ASSUME NEW f \in BridgeForms
  PROVE  RequestKey(f) \in BridgeKeys /\ RequestKey(f)[3] = f.amount
BY DEF RequestKey, Source, Destination, BridgeKeys, BridgeForms, BridgeChains

LEMMA PageOnly ==
  ASSUME BridgePageInv, BridgePageType', RunFollowsQuote', StoredFollowsRun',
         UNCHANGED <<rows, burns, bridgeSaved>>,
         given \subseteq given', forgotten \subseteq forgotten', QuoteSuffices'
  PROVE  BridgePageInv'
<1>1. BurnedAsQuoted'  BY DEF BridgePageInv, BurnedAsQuoted
<1>2. BurnsHaveRows'  BY DEF BridgePageInv, BurnsHaveRows
<1>3. UnfinishedBurnIsStored'  BY DEF BridgePageInv, UnfinishedBurnIsStored
<1> QED  BY <1>1, <1>2, <1>3 DEF BridgePageInv

LEMMA QuotesStay ==
  ASSUME QuoteSuffices, UNCHANGED given
  PROVE  QuoteSuffices'
BY DEF QuoteSuffices, AssertFastReady

LEMMA EditKeeps ==
  ASSUME BridgePageInv, NEW f \in Forms, EditForm(f)
  PROVE  BridgePageInv'
<1>1. f \in BridgeForms  BY BridgePageAssumption DEF Forms, BridgeForms
<1>2. BridgePageType'  BY <1>1 DEF EditForm, BridgePageInv, BridgePageType
<1>3. RunFollowsQuote' /\ StoredFollowsRun'
  BY DEF EditForm, BridgePageInv, RunFollowsQuote, StoredFollowsRun, HasIntent, Done
<1> QED  BY <1>2, <1>3, PageOnly, QuotesStay DEF EditForm, BridgePageInv

LEMMA EffectKeeps ==
  ASSUME BridgePageInv, QuoteEffect
  PROVE  BridgePageInv'
<1>1. form \in BridgeForms /\ <<Arc, Arc, 0>> \in BridgeKeys
  BY DEF BridgePageInv, BridgePageType, BridgeKeys, BridgeChains
<1>2. asked'.key \in BridgeKeys  BY <1>1, RequestKeyTyped DEF QuoteEffect, NoRequest
<1>3. BridgePageType'  BY <1>2 DEF QuoteEffect, BridgePageInv, BridgePageType, NoQuote
<1>4. RunFollowsQuote' /\ StoredFollowsRun'
  BY DEF QuoteEffect, BridgePageInv, RunFollowsQuote, StoredFollowsRun, HasIntent, Done
<1> QED  BY <1>3, <1>4, PageOnly, QuotesStay DEF QuoteEffect, BridgePageInv

LEMMA AnswerKeeps ==
  ASSUME BridgePageInv, AnswerQuote
  PROVE  BridgePageInv'
<1>1. <<Arc, Arc, 0>> \in BridgeKeys /\ asked.key \in BridgeKeys /\ BridgePageType
  BY DEF BridgePageInv, BridgePageType, BridgeKeys, BridgeChains
<1>2. asked'.key \in BridgeKeys /\ given \subseteq given'  BY <1>1 DEF AnswerQuote, NoRequest
<1>3. CASE QuoteAvailable(asked.key)
  <2>1. PICK q : q = QuoteFor(asked.key)  OBVIOUS
  <2>2. quote' = q /\ given' = given \cup {q}  BY <1>3, <2>1 DEF AnswerQuote
  <2>3. /\ q \in QuoteRecord
        /\ q.receive + q.fee = q.key[3]
        /\ GetBridgeTransferMode(q.key[1]) = "fast"
            => /\ q.maxFee * FeeScale >= q.key[3] * q.rate
               /\ q.maxFee <= q.key[3]
               /\ AssertFastReady(q.key[3], q.maxFee, q.rate, q.allowance)
    BY <1>1, <1>3, <2>1, AnswerSuffices
  <2>4. QuoteSuffices'  BY <2>2, <2>3 DEF BridgePageInv, QuoteSuffices, AssertFastReady
  <2>5. BridgePageType'  BY <1>2, <2>2, <2>3 DEF AnswerQuote, BridgePageInv, BridgePageType
  <2>6. RunFollowsQuote' /\ StoredFollowsRun'
    BY <1>2 DEF AnswerQuote, BridgePageInv, RunFollowsQuote, StoredFollowsRun, HasIntent, Done
  <2> QED  BY <1>2, <2>4, <2>5, <2>6, PageOnly DEF AnswerQuote
<1>4. CASE ~QuoteAvailable(asked.key)
  <2>1. BridgePageType'  BY <1>2, <1>4 DEF AnswerQuote, BridgePageInv, BridgePageType, NoQuote
  <2>2. RunFollowsQuote' /\ StoredFollowsRun'
    BY <1>4 DEF AnswerQuote, BridgePageInv, RunFollowsQuote, StoredFollowsRun, HasIntent, Done
  <2> QED  BY <1>2, <1>4, <2>1, <2>2, PageOnly, QuotesStay DEF AnswerQuote, BridgePageInv
<1> QED  BY <1>3, <1>4

LEMMA QuoteFailureKeeps ==
  ASSUME BridgePageInv, QuoteFails
  PROVE  BridgePageInv'
<1>1. <<Arc, Arc, 0>> \in BridgeKeys  BY DEF BridgeKeys, BridgeChains
<1>2. BridgePageType'  BY <1>1 DEF QuoteFails, BridgePageInv, BridgePageType, NoQuote, NoRequest
<1>3. RunFollowsQuote' /\ StoredFollowsRun'
  BY DEF QuoteFails, BridgePageInv, RunFollowsQuote, StoredFollowsRun, HasIntent, Done
<1> QED  BY <1>2, <1>3, PageOnly, QuotesStay DEF QuoteFails, BridgePageInv

LEMMA CircleKeeps ==
  ASSUME BridgePageInv, NEW l \in [rate : BridgeRates, allowance : Allowances], CircleMoves(l)
  PROVE  BridgePageInv'
<1>1. l \in [rate : Nat, allowance : Nat]  BY BridgePageAssumption
<1>2. BridgePageType'  BY <1>1 DEF CircleMoves, BridgePageInv, BridgePageType
<1>3. RunFollowsQuote' /\ StoredFollowsRun'
  BY DEF CircleMoves, BridgePageInv, RunFollowsQuote, StoredFollowsRun, HasIntent, Done
<1> QED  BY <1>2, <1>3, PageOnly, QuotesStay DEF CircleMoves, BridgePageInv

LEMMA StartKeeps ==
  ASSUME BridgePageInv, StartBridge
  PROVE  BridgePageInv'
<1>1. /\ quote.on /\ quote.key = RequestKey(form) /\ quote \in given /\ form \in BridgeForms
      /\ given \subseteq QuoteRecord
  BY DEF StartBridge, QuoteCurrent, BridgePageInv, BridgePageType
<1>2. PICK k, m, t : k = RequestKey(form) /\ m = quote.maxFee /\ t = quote.threshold  OBVIOUS
<1>3. k \in BridgeKeys /\ m \in Nat /\ t \in Nat
  BY <1>1, <1>2, RequestKeyTyped DEF QuoteRecord
<1>4. run' = [id |-> 0, key |-> k, maxFee |-> m, threshold |-> t] /\ bat' = "create" /\ bstage' = "creating"
  BY <1>2 DEF StartBridge
<1>5. run' \in RunRecord  BY <1>3, <1>4 DEF RunRecord
<1>6. BridgePageType'  BY <1>5 DEF StartBridge, BridgePageInv, BridgePageType
<1>7. RunFollowsQuote'  BY <1>1, <1>2, <1>4 DEF RunFollowsQuote, HasIntent, StartBridge
<1>8. bridgeSaved = 0 \/ bridgeSaved \in forgotten' \/ Done(bridgeSaved)
  BY DEF StartBridge, Busy, BridgePageInv, StoredFollowsRun
<1>9. StoredFollowsRun'  BY <1>4, <1>8 DEF StoredFollowsRun, HasIntent, StartBridge, Done
<1> QED  BY <1>6, <1>7, <1>9, PageOnly, QuotesStay DEF StartBridge, BridgePageInv

LEMMA RunFailureKeeps ==
  ASSUME BridgePageInv, RunFails
  PROVE  BridgePageInv'
<1>1. BridgePageType'  BY DEF RunFails, BridgePageInv, BridgePageType
<1>2. RunFollowsQuote' /\ StoredFollowsRun'
  BY DEF RunFails, BridgePageInv, RunFollowsQuote, StoredFollowsRun, HasIntent, Done
<1> QED  BY <1>1, <1>2, PageOnly, QuotesStay DEF RunFails, BridgePageInv

LEMMA ReopenKeeps ==
  ASSUME BridgePageInv, Reopen
  PROVE  BridgePageInv'
<1>1. <<Arc, Arc, 0>> \in BridgeKeys /\ EmptyForm \in BridgeForms
  BY BridgePageAssumption DEF BridgeKeys, BridgeChains, EmptyForm, BridgeForms
<1>2. BridgePageType'
  BY <1>1 DEF Reopen, BridgePageInv, BridgePageType, NoQuote, NoRequest, NoRun, RunRecord
<1>3. RunFollowsQuote' /\ StoredFollowsRun'
  BY DEF Reopen, BridgePageInv, RunFollowsQuote, StoredFollowsRun, HasIntent
<1> QED  BY <1>2, <1>3, PageOnly, QuotesStay DEF Reopen, BridgePageInv

LEMMA LoadedKeeps ==
  ASSUME BridgePageInv, NEW answers \in BOOLEAN, StoredIntentLoaded(answers)
  PROVE  BridgePageInv'
<1>1. BridgePageType'  BY DEF StoredIntentLoaded, BridgePageInv, BridgePageType
<1>2. RunFollowsQuote' /\ StoredFollowsRun'
  BY DEF StoredIntentLoaded, BridgePageInv, RunFollowsQuote, StoredFollowsRun, HasIntent, Done
<1> QED  BY <1>1, <1>2, PageOnly, QuotesStay DEF StoredIntentLoaded, BridgePageInv

LEMMA StartOverBridgeKeeps ==
  ASSUME BridgePageInv, StartOverBridge
  PROVE  BridgePageInv'
<1>1. BridgePageType'  BY DEF StartOverBridge, BridgePageInv, BridgePageType
<1>2. HasIntent => run.id \in DOMAIN rows /\ (bridgeSaved = run.id \/ run.id \in forgotten)
  BY DEF BridgePageInv, RunFollowsQuote, StoredFollowsRun
<1>3. 0 \notin DOMAIN rows  BY DEF BridgePageInv, BridgePageType
<1>4. HasIntent => run.id \in forgotten'  BY <1>2, <1>3 DEF StartOverBridge
<1>5. RunFollowsQuote' /\ StoredFollowsRun'
  BY <1>4 DEF StartOverBridge, BridgePageInv, RunFollowsQuote, StoredFollowsRun, HasIntent
<1>6. BurnedAsQuoted' /\ BurnsHaveRows'
  BY DEF StartOverBridge, BridgePageInv, BurnedAsQuoted, BurnsHaveRows
<1>7. UnfinishedBurnIsStored'
  BY <1>3 DEF StartOverBridge, BridgePageInv, UnfinishedBurnIsStored, BurnsHaveRows
<1> QED  BY <1>1, <1>5, <1>6, <1>7, QuotesStay DEF StartOverBridge, BridgePageInv

\* The rows only grow and no burn is added.
LEMMA RowStep ==
  ASSUME BridgePageInv, BridgePageType', RowsLast, UNCHANGED <<burns, given>>, RunFollowsQuote',
         StoredFollowsRun', forgotten \subseteq forgotten',
         \/ UNCHANGED bridgeSaved
         \/ bridgeSaved = 0 \/ bridgeSaved \in forgotten \/ Done(bridgeSaved)
  PROVE  BridgePageInv'
<1>1. \A b \in DOMAIN burns : burns[b].intent \in DOMAIN rows  BY DEF BridgePageInv, BurnsHaveRows
<1>2. BurnedAsQuoted'  BY <1>1 DEF BridgePageInv, BurnedAsQuoted, RowsLast
<1>3. BurnsHaveRows'  BY <1>1 DEF BurnsHaveRows, RowsLast
<1>4. 0 \notin DOMAIN rows  BY DEF BridgePageInv, BridgePageType
<1>5. UnfinishedBurnIsStored'
  <2> SUFFICES ASSUME NEW b \in DOMAIN burns, rows'[burns[b].intent].status # "completed"
               PROVE  bridgeSaved' = burns[b].intent \/ burns[b].intent \in forgotten'
    BY DEF UnfinishedBurnIsStored
  <2>1. PICK id : id = burns[b].intent  OBVIOUS
  <2>2. id \in DOMAIN rows /\ rows[id].status # "completed"  BY <1>1, <2>1 DEF RowsLast
  <2>3. bridgeSaved = id \/ id \in forgotten
    BY <2>1, <2>2 DEF BridgePageInv, UnfinishedBurnIsStored
  <2> QED  BY <1>4, <2>1, <2>2, <2>3 DEF Done
<1> QED  BY <1>2, <1>3, <1>5, QuotesStay DEF BridgePageInv

LEMMA CreateBridgeKeeps ==
  ASSUME BridgePageInv, CreateBridgeIntent
  PROVE  BridgePageInv'
<1> DEFINE id == Len(rows) + 1
<1> DEFINE new == [key |-> run.key, maxFee |-> run.maxFee, threshold |-> run.threshold,
                   status |-> "idle", burn |-> 0]
<1>1. run \in RunRecord /\ rows \in Seq(BridgeRow) /\ bat = "create"
  BY DEF BridgePageInv, BridgePageType, CreateBridgeIntent
<1>2. new \in BridgeRow  BY <1>1 DEF BridgeRow, RunRecord
<1>3. rows' = Append(rows, new)  BY DEF CreateBridgeIntent
<1>4. /\ rows' \in Seq(BridgeRow) /\ id \in DOMAIN rows' /\ id \in Nat /\ rows'[id] = new
      /\ \A i \in DOMAIN rows : i \in DOMAIN rows' /\ rows'[i] = rows[i]
  BY <1>1, <1>2, <1>3
<1>5. PICK n : n = id  OBVIOUS
<1>6. run' = [run EXCEPT !.id = n] /\ seen' = n /\ bridgeSaved' = n /\ bat' = "approve"
      /\ bstage' = "approving"
  BY <1>5 DEF CreateBridgeIntent, StoreIntent
<1>7. /\ n \in DOMAIN rows' /\ n \in Nat /\ rows'[n].key = run.key /\ rows'[n].maxFee = run.maxFee
      /\ rows'[n].threshold = run.threshold /\ rows'[n].status = "idle"
  BY <1>4, <1>5
<1> HIDE DEF id, new
<1>8. /\ run' \in RunRecord /\ run'.id = n /\ run'.key = run.key /\ run'.maxFee = run.maxFee
      /\ run'.threshold = run.threshold
  BY <1>1, <1>6, <1>7 DEF RunRecord
<1>9. RowsLast  BY <1>4 DEF RowsLast
<1>10. BridgePageType'
  BY <1>4, <1>6, <1>7, <1>8 DEF CreateBridgeIntent, BridgePageInv, BridgePageType
<1>11. RunFollowsQuote'
  BY <1>1, <1>6, <1>7, <1>8 DEF CreateBridgeIntent, BridgePageInv, RunFollowsQuote, HasIntent
<1>12. StoredFollowsRun'  BY <1>6, <1>8 DEF StoredFollowsRun, HasIntent
<1>13. bridgeSaved = 0 \/ bridgeSaved \in forgotten \/ Done(bridgeSaved)
  BY <1>1 DEF BridgePageInv, StoredFollowsRun
<1> QED  BY <1>9, <1>10, <1>11, <1>12, <1>13, RowStep DEF CreateBridgeIntent

\* The row of intent i is given another status (and a burn).
LEMMA StatusKeeps ==
  ASSUME BridgePageInv, NEW i \in DOMAIN rows, NEW new \in BridgeRow,
         rows' = [rows EXCEPT ![i] = new], new.key = rows[i].key, new.maxFee = rows[i].maxFee,
         new.threshold = rows[i].threshold,
         rows[i].status = "completed" => new.status = "completed",
         UNCHANGED <<live, form, asked, quote, given, run, bridgeSaved, lookup, burns, forgotten>>,
         seen' \in {0} \cup DOMAIN rows,
         bat' = "none" \/ bat' = bat \/ (HasIntent /\ HasIntent'),
         bat' = "none" \/ new.status # "completed",
         bstage' # "idle", bstage' = "completed" => Done(seen)'
  PROVE  BridgePageInv'
<1>1. rows \in Seq(BridgeRow)  BY DEF BridgePageInv, BridgePageType
<1>2. /\ rows' \in Seq(BridgeRow) /\ DOMAIN rows' = DOMAIN rows /\ rows'[i] = new
      /\ \A j \in DOMAIN rows \ {i} : rows'[j] = rows[j]
  BY <1>1
<1>3. RowsLast  BY <1>2 DEF RowsLast
<1>4. BridgePageType'  BY <1>2 DEF BridgePageInv, BridgePageType
<1>5. RunFollowsQuote'
  BY <1>3 DEF BridgePageInv, RunFollowsQuote, HasIntent, RowsLast
<1>6. StoredFollowsRun'
  BY <1>3 DEF BridgePageInv, StoredFollowsRun, HasIntent, RowsLast, Done
<1> QED  BY <1>3, <1>4, <1>5, <1>6, RowStep

\* A report of start() on its own row.
LEMMA ReportKeeps ==
  ASSUME BridgePageInv, HasIntent, NEW new, new \in BridgeRow,
         rows' = [rows EXCEPT ![run.id] = new], new.key = rows[run.id].key,
         new.maxFee = rows[run.id].maxFee, new.threshold = rows[run.id].threshold,
         UNCHANGED <<live, form, asked, quote, given, run, bridgeSaved, lookup, burns, forgotten>>,
         seen' = run.id, bstage' # "idle",
         \/ HasIntent' /\ bstage' # "completed" /\ new.status # "completed"
         \/ bat' = "none" /\ new.status = "completed"
  PROVE  BridgePageInv'
<1>1. /\ run.id \in DOMAIN rows /\ rows \in Seq(BridgeRow) /\ rows[run.id].status # "completed"
  BY DEF BridgePageInv, BridgePageType, RunFollowsQuote
<1>2. PICK i : i = run.id  OBVIOUS
<1>3. DOMAIN rows' = DOMAIN rows /\ rows'[i] = new  BY <1>1, <1>2
<1>4. bstage' = "completed" => Done(seen)'  BY <1>1, <1>2, <1>3 DEF Done
<1> QED  BY <1>1, <1>2, <1>4, StatusKeeps

LEMMA AdvanceKeeps ==
  ASSUME BridgePageInv, NEW from, NEW to, NEW stageAfter, NEW status,
         Advances(from, to, stageAfter, status), UNCHANGED burns,
         from \in {"approve", "burn", "source", "attest", "authorize", "mint", "verify"},
         [key |-> run.key, maxFee |-> run.maxFee, threshold |-> run.threshold, status |-> status,
          burn |-> 0] \in BridgeRow,
         stageAfter # "idle",
         \/ /\ to \in {"approve", "burn", "source", "attest", "authorize", "mint", "verify"}
            /\ stageAfter # "completed" /\ status # "completed"
         \/ to = "none" /\ status = "completed"
  PROVE  BridgePageInv'
<1>1. HasIntent /\ bat' = to /\ bstage' = stageAfter  BY DEF Advances, HasIntent
<1>2. rows[run.id] \in BridgeRow
  BY <1>1 DEF BridgePageInv, BridgePageType, RunFollowsQuote
<1>3. PICK new : new = [rows[run.id] EXCEPT !.status = status]  OBVIOUS
<1>4. /\ new \in BridgeRow /\ new.status = status /\ new.key = rows[run.id].key
      /\ new.maxFee = rows[run.id].maxFee /\ new.threshold = rows[run.id].threshold
  BY <1>2, <1>3 DEF BridgeRow
<1>5. rows' = [rows EXCEPT ![run.id] = new] /\ seen' = run.id  BY <1>3 DEF Advances
<1>6. UNCHANGED <<live, form, asked, quote, given, run, bridgeSaved, lookup, burns, forgotten>>
  BY DEF Advances
<1>7. \/ HasIntent' /\ bstage' # "completed" /\ new.status # "completed"
      \/ bat' = "none" /\ new.status = "completed"
  BY <1>1, <1>4 DEF HasIntent
<1> QED  BY <1>1, <1>4, <1>5, <1>6, <1>7, ReportKeeps

LEMMA RunRow ==
  ASSUME BridgePageInv,
         NEW status \in {"source_approved", "attestation_ready", "awaiting_destination_signature",
                         "verifying_destination", "completed"}
  PROVE  [key |-> run.key, maxFee |-> run.maxFee, threshold |-> run.threshold, status |-> status,
          burn |-> 0] \in BridgeRow
BY DEF BridgePageInv, BridgePageType, RunRecord, BridgeRow

LEMMA AdvancesKeep ==
  ASSUME BridgePageInv,
         ApproveBridge \/ PollAttestation \/ AuthorizeDestination \/ MintDestination \/ CompleteBridge
  PROVE  BridgePageInv'
<1>1. CASE ApproveBridge  BY <1>1, RunRow, AdvanceKeeps DEF ApproveBridge
<1>2. CASE PollAttestation  BY <1>2, RunRow, AdvanceKeeps DEF PollAttestation
<1>3. CASE AuthorizeDestination  BY <1>3, RunRow, AdvanceKeeps DEF AuthorizeDestination
<1>4. CASE MintDestination  BY <1>4, RunRow, AdvanceKeeps DEF MintDestination
<1>5. CASE CompleteBridge  BY <1>5, RunRow, AdvanceKeeps DEF CompleteBridge
<1> QED  BY <1>1, <1>2, <1>3, <1>4, <1>5

LEMMA ReportSourceKeeps ==
  ASSUME BridgePageInv, ReportSource
  PROVE  BridgePageInv'
<1>1. HasIntent /\ HasIntent' /\ bstage' = "waiting_attestation"  BY DEF ReportSource, HasIntent
<1>2. rows[run.id] \in BridgeRow /\ Len(burns) \in Nat
  BY <1>1 DEF BridgePageInv, BridgePageType, RunFollowsQuote
<1>3. PICK new : new = [rows[run.id] EXCEPT !.status = "waiting_for_attestation", !.burn = Len(burns)]
  OBVIOUS
<1>4. /\ new \in BridgeRow /\ new.status = "waiting_for_attestation" /\ new.key = rows[run.id].key
      /\ new.maxFee = rows[run.id].maxFee /\ new.threshold = rows[run.id].threshold
  BY <1>2, <1>3 DEF BridgeRow
<1>5. rows' = [rows EXCEPT ![run.id] = new] /\ seen' = run.id  BY <1>3 DEF ReportSource
<1>6. UNCHANGED <<live, form, asked, quote, given, run, bridgeSaved, lookup, burns, forgotten>>
  BY DEF ReportSource
<1> QED  BY <1>1, <1>4, <1>5, <1>6, ReportKeeps

LEMMA CheckKeeps ==
  ASSUME BridgePageInv, CheckStatus
  PROVE  BridgePageInv'
<1>1. seen \in DOMAIN rows /\ rows[seen] \in BridgeRow
  BY DEF CheckStatus, BridgePageInv, BridgePageType
<1>2. CASE rows[seen].status = "completed" /\ bstage' = "completed" /\ UNCHANGED rows
  <2>1. BridgePageType'  BY <1>2 DEF CheckStatus, BridgePageInv, BridgePageType
  <2>2. RunFollowsQuote' /\ StoredFollowsRun'
    BY <1>1, <1>2 DEF CheckStatus, BridgePageInv, RunFollowsQuote, StoredFollowsRun, HasIntent, Done
  <2> QED  BY <1>2, <2>1, <2>2, PageOnly, QuotesStay DEF CheckStatus, BridgePageInv
<1>3. CASE /\ Attests(rows[seen]) /\ bstage' = "recoverable_error"
           /\ rows' = [rows EXCEPT ![seen].status = "attestation_ready"]
  <2>1. PICK i, new : i = seen /\ new = [rows[seen] EXCEPT !.status = "attestation_ready"]  OBVIOUS
  <2>2. /\ new \in BridgeRow /\ new.status = "attestation_ready" /\ new.key = rows[i].key
        /\ new.maxFee = rows[i].maxFee /\ new.threshold = rows[i].threshold
    BY <1>1, <2>1 DEF BridgeRow
  <2>3. rows[i].status # "completed" /\ rows' = [rows EXCEPT ![i] = new]
    BY <1>3, <2>1 DEF Attests
  <2>4. UNCHANGED <<live, form, asked, quote, given, run, bridgeSaved, lookup, burns, forgotten>>
        /\ bat' = bat /\ seen' = seen
    BY DEF CheckStatus
  <2>5. i \in DOMAIN rows /\ seen' \in {0} \cup DOMAIN rows  BY <1>1, <2>1, <2>4
  <2> QED  BY <1>3, <2>2, <2>3, <2>4, <2>5, StatusKeeps
<1> QED  BY <1>2, <1>3 DEF CheckStatus

LEMMA BurnKeeps ==
  ASSUME BridgePageInv, BurnSource
  PROVE  BridgePageInv'
<1> DEFINE new == [intent |-> run.id, key |-> run.key, maxFee |-> run.maxFee,
                   threshold |-> run.threshold]
<1>1. HasIntent /\ HasIntent' /\ bat # "none"  BY DEF BurnSource, HasIntent
<1>2. /\ run \in RunRecord /\ burns \in Seq(BurnRow) /\ run.id \in DOMAIN rows
      /\ rows[run.id].key = run.key /\ rows[run.id].maxFee = run.maxFee
      /\ rows[run.id].threshold = run.threshold
      /\ bridgeSaved = run.id \/ run.id \in forgotten
      /\ \E q \in given : q.key = run.key /\ q.maxFee = run.maxFee /\ q.threshold = run.threshold
  BY <1>1 DEF BridgePageInv, BridgePageType, RunFollowsQuote, StoredFollowsRun
<1>3. new \in BurnRow  BY <1>2 DEF BurnRow, RunRecord
<1>4. PICK x : x = new  OBVIOUS
<1>5. /\ x \in BurnRow /\ x.intent = run.id /\ x.key = run.key /\ x.maxFee = run.maxFee
      /\ x.threshold = run.threshold /\ burns' = Append(burns, x)
  BY <1>3, <1>4 DEF BurnSource
<1> HIDE DEF new
<1>6. /\ burns' \in Seq(BurnRow)
      /\ \A b \in DOMAIN burns' : burns'[b] = x \/ (b \in DOMAIN burns /\ burns'[b] = burns[b])
  BY <1>2, <1>5
<1>7. UNCHANGED <<live, form, asked, quote, given, run, bridgeSaved, lookup, rows, forgotten, seen, bstage>>
  BY DEF BurnSource
<1>8. BridgePageType'  BY <1>6, <1>7 DEF BridgePageInv, BridgePageType
<1>9. RunFollowsQuote' /\ StoredFollowsRun'
  BY <1>1, <1>7 DEF BridgePageInv, RunFollowsQuote, StoredFollowsRun, HasIntent, Done
<1>10. BurnsHaveRows'  BY <1>2, <1>5, <1>6, <1>7 DEF BridgePageInv, BurnsHaveRows
<1>11. BurnedAsQuoted'  BY <1>2, <1>5, <1>6, <1>7 DEF BridgePageInv, BurnedAsQuoted
<1>12. UnfinishedBurnIsStored'
  BY <1>2, <1>5, <1>6, <1>7 DEF BridgePageInv, UnfinishedBurnIsStored
<1> QED  BY <1>7, <1>8, <1>9, <1>10, <1>11, <1>12, QuotesStay DEF BridgePageInv

LEMMA BridgePageStep ==
  ASSUME BridgePageInv, [BridgePageNext]_bridgePageVars
  PROVE  BridgePageInv'
<1>1. CASE BridgePageNext
  BY <1>1, EditKeeps, EffectKeeps, AnswerKeeps, QuoteFailureKeeps, CircleKeeps, StartKeeps,
     RunFailureKeeps, ReopenKeeps, LoadedKeeps, StartOverBridgeKeeps, CreateBridgeKeeps,
     AdvancesKeep, ReportSourceKeeps, CheckKeeps, BurnKeeps DEF BridgePageNext
<1>2. CASE UNCHANGED bridgePageVars
  <2>1. BridgePageType' /\ RunFollowsQuote' /\ StoredFollowsRun'
    BY <1>2 DEF bridgePageVars, BridgePageInv, BridgePageType, RunFollowsQuote, StoredFollowsRun,
       HasIntent, Done
  <2> QED  BY <1>2, <2>1, PageOnly, QuotesStay DEF bridgePageVars, BridgePageInv
<1> QED  BY <1>1, <1>2

\* Whatever the user edits and whenever quotes, fees and answers move, the
\* bridge page (BridgeScreen.tsx) burns what one quote said, the quote's fees
\* suffice, and an unfinished burn stays the stored one or is given up openly.
THEOREM BurnsFollowQuotes == BridgePageSpec => []BurnsAreQuotedAndStored
<1>1. BridgePageInv => BurnsAreQuotedAndStored  BY DEF BridgePageInv, BurnsAreQuotedAndStored
<1> QED  BY <1>1, BridgePageStarts, BridgePageStep, PTL DEF BridgePageSpec
=============================================================================
