----------------------------- MODULE MCIntents -----------------------------
(* The execution intents with what stands around them: the key a request is *)
(* found again by, the session it is made in, and the page that sends.      *)
(* They do not interact here: a behaviour is one of a single component, the *)
(* others stay where they start.                                            *)
EXTENDS MCExecutionIntent, IntentIdentity, WalletSession, SendFlow

VARIABLE focus

aroundVars == <<identityVars, bindingVars, walletVars, sendVars>>

(* Requests of one invoice and of one reference, by two wallets, that       *)
(* differ in a spelling or in what they pay.                                *)
Cell(v, f) == [v |-> v, form |-> f]
R(op, w, wf, to, d, u, uf, ref, rf) ==
    [op |-> op, owner |-> Cell("none", "plain"), wallet |-> Cell(w, wf),
     recipient |-> Cell(to, "plain"), digest |-> Cell(d, "plain"), units |-> Cell(u, uf),
     ref |-> Cell(ref, rf)]
MCRequests == {
    R("INVOICE_SETTLEMENT", "w1", "checksum", "m", "none", 5, "exact", "inv", "plain"),
    R("INVOICE_SETTLEMENT", "w1", "lower", "m", "none", 5, "exact", "inv", "padded"),
    R("INVOICE_SETTLEMENT", "w2", "lower", "m", "none", 5, "exact", "inv", "plain"),
    R("INVOICE_SETTLEMENT", "w2", "lower", "m", "none", 7, "exact", "inv", "plain"),
    R("SEND", "w1", "checksum", "m", "none", 5, "exact", "ref", "plain"),
    R("SEND", "w1", "lower", "m", "none", 5, "exact", "ref", "padded"),
    R("SEND", "w1", "lower", "m", "none", 7, "exact", "ref", "plain"),
    R("SEND", "w2", "lower", "m", "none", 7, "exact", "ref", "plain"),
    R("SEND", "w2", "lower", "m", "none", 7, "leading", "ref", "plain"),
    R("PAYROLL", "w1", "lower", "none", "none", 7, "exact", "ref", "plain"),
    R("PAYROLL", "w1", "lower", "none", "d", 7, "exact", "ref", "plain") }
MCOpen == {[op |-> "INVOICE_SETTLEMENT", ref |-> "inv", recipient |-> "m", units |-> 5]}

(* A wallet row that is missing, one owner of each wallet, or two owners of *)
(* the same wallet, as left by an earlier version.                          *)
Owns(w, o) == [wallet |-> w, owner |-> o]
MCLegacy == {{}, {Owns("w1", 1), Owns("w2", 1)}, {Owns("w1", 1), Owns("w1", 2)}}

MCInit ==
    /\ focus \in {"intents", "identity", "binding", "session", "send", "max", "scan"}
    /\ Init /\ IdentityInit /\ BindingInit /\ WalletInit /\ SendInit
    /\ focus # "session" => owners = {}
    /\ focus # "binding" => \A i \in BoundIntents : columns[i].context.key = Unbound

MCNext ==
    /\ UNCHANGED focus
    /\ IF focus = "intents" THEN Next ELSE UNCHANGED vars
    /\ IF focus = "identity" THEN IdentityNext ELSE UNCHANGED identityVars
    /\ IF focus = "binding" THEN BindingNext ELSE UNCHANGED bindingVars
    /\ IF focus = "session" THEN WalletNext ELSE UNCHANGED walletVars
    /\ \/ focus = "send" /\ SendNext
       \/ focus = "max" /\ MaxNext
       \/ focus = "scan" /\ ScanNext
       \/ focus \notin {"send", "max", "scan"} /\ UNCHANGED sendVars

MCSpec == MCInit /\ [][MCNext]_<<vars, aroundVars, focus>>
=============================================================================
