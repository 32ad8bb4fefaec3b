----------------------- MODULE MCInvoiceSettlement -----------------------
(* Instances of InvoiceSettlement: transaction h_i makes the transfer d_i,  *)
(* d0 being the merchant's own; all of them fit every invoice's terms.      *)
EXTENDS InvoiceSettlement

CONSTANTS h1, h2, d1, d2, d0

MCTerms == [k \in Keys |-> Payloads]
MCPays == [h \in Hashes |-> CASE h = h1 -> d1 [] h = h2 -> d2 [] OTHER -> d0]
==========================================================================
