---------------------------- MODULE MCAllocation ----------------------------
EXTENDS Allocation
CONSTANTS a, b       \* two operations of one amount

\* Two deals with a payment each; the first has an invoice for the same money.
Instalment(n, d) == [kind |-> "deal-payment", id |-> n, deal |-> d]
MCTarget ==
  {Instalment(1, 1), Instalment(3, 2), [kind |-> "invoice", id |-> 2, deal |-> 1],
   [kind |-> "deal", id |-> 1, deal |-> 1]}
\* a names an order with two payments, b both deals, the invoice and an order.
MCNames ==
  [o \in {a, b} |-> IF o = a THEN {Instalment(1, 1), Instalment(3, 2)} ELSE MCTarget]
MCExact == [o \in {a, b} |-> {t \in MCTarget : t.kind # "deal"}]
MCSetting ==
  [auto : BOOLEAN, ledger : BOOLEAN, paidStage : {"none", "plain", "success"}]
=============================================================================
