-------------------------------- MODULE Finance --------------------------------
(***************************************************************************)
(* Invoices and their payments, to customers and from suppliers, and what  *)
(* a payment means for the sales order that was invoiced.                  *)
(*                                                                         *)
(* Nothing is locked.  A request first reads the highest number a document *)
(* of its kind has, then the rows it works on, and commits with the next   *)
(* number; the constraint that numbers are unique refuses it when another  *)
(* request has used that number in between.  The two sides, receivable and *)
(* payable, have numbers of their own and are otherwise handled alike.     *)
(* A request that fails changes nothing.                                   *)
(***************************************************************************)
EXTENDS Integers, UnitCount

CONSTANTS
  Orders,        \* sales orders
  References,    \* invoice references of the supplier
  Unlinked,      \* the subject of an invoice that names neither
  Worth,         \* Worth[o]: grand total of order o
  Amounts,       \* totals that an invoice entered by hand may have
  Sessions,
  MaxInvoices,   \* bound: invoices of a side
  MaxPayments    \* bound: payments of a side

ASSUME SubjectAssumption == Unlinked \notin Orders \cup References
ASSUME MoneyAssumption == Worth \in [Orders -> Nat \ {0}] /\ Amounts \subseteq Nat \ {0}
ASSUME BoundAssumption == MaxInvoices \in Nat /\ MaxPayments \in Nat

VARIABLES
  invoice,     \* invoices and supplier_invoices, by side and number
  payment,     \* payments and supplier_payments, by side and number
  balance,     \* balance[side]: the receivable and the payable account of the journal
  order,       \* sales_orders.status
  evaluated,   \* orders whose payment the workflow has an audit entry for
  session      \* session[s]: the request of s, with what it has read

docs == <<invoice, payment, balance, order, evaluated>>
vars == <<docs, session>>

-----------------------------------------------------------------------------
(* Documents *)

Sides == {"customer", "supplier"}
InvoiceNumbers == 1..MaxInvoices
PaymentNumbers == 1..MaxPayments
Invoices == Sides \X InvoiceNumbers
Payments == Sides \X PaymentNumbers

Subjects(side) == {Unlinked} \cup (IF side = "customer" THEN Orders ELSE References)

OrderStatus == {"SHIPPED", "DELIVERED", "INVOICED", "COMPLETED"}
InvoiceStatus == {"none", "DRAFT", "SENT", "OVERDUE", "PENDING", "PARTIAL", "PAID"}

Invoice == [status : InvoiceStatus, subject : Orders \cup References \cup {Unlinked},
            total : Nat, paid : Nat]
Payment == [of : InvoiceNumbers \cup {0}, amount : Nat]

NoInvoice == [status |-> "none", subject |-> Unlinked, total |-> 0, paid |-> 0]
NoPayment == [of |-> 0, amount |-> 0]

Issued(i) == invoice[i].status # "none"
Recorded(k) == payment[k].amount # 0

\* Sum of the payments recorded for an invoice
PaidFor(i) == Total([n \in PaymentNumbers |->
                       IF payment[<<i[1], n>>].of = i[2] THEN payment[<<i[1], n>>].amount ELSE 0])

\* _next_document_number: one more than the highest in use
After(used) == IF used = {} THEN 1 ELSE 1 + (CHOOSE n \in used : \A m \in used : m =< n)
NextInvoice(side) == After({n \in InvoiceNumbers : Issued(<<side, n>>)})
NextPayment(side) == After({n \in PaymentNumbers : Recorded(<<side, n>>)})

\* A column holds the new value when it differs from the one that was read.
Written(now, read, new) == IF new = read THEN now ELSE new

-----------------------------------------------------------------------------
(* Requests *)

Idle == [kind |-> "none"]

InProgress ==
  {Idle}
  \cup [kind : {"issue"}, side : Sides, subject : Orders \cup References \cup {Unlinked},
        number : Nat, step : {"number", "order", "found"}, found : BOOLEAN]
  \cup [kind : {"pay"}, of : Invoices, number : Nat, read : BOOLEAN,
        status : InvoiceStatus, paid : Nat]
  \cup [kind : {"send"}, of : Invoices]

Begin(s, req) ==
  /\ session[s] = Idle
  /\ session' = [session EXCEPT ![s] = req]
  /\ UNCHANGED docs

End(s) == session' = [session EXCEPT ![s] = Idle]

Abandon(s) ==
  /\ session[s] # Idle
  /\ End(s)
  /\ UNCHANGED docs

\* _post_journal_entry: a document adds to, or takes from, the account of its side.
EnteredWhenPaid(side, change) ==           \* mutant: issued invoices are not entered
  IF change > 0 THEN balance ELSE [balance EXCEPT ![side] = @ + change]
Entered(side, change) == [balance EXCEPT ![side] = @ + change]

\* The number a request commits with is the one it read first.
NumberLast(s, next) == next                \* mutant: the number is read at the end
NumberOf(s, next) == session[s].number

-----------------------------------------------------------------------------
(* Invoices *)

\* create_invoice_from_sales_order, create_invoice_manual, create_supplier_invoice
BeginIssue(s, side, subject) ==
  Begin(s, [kind |-> "issue", side |-> side, subject |-> subject,
            number |-> NextInvoice(side), step |-> "number", found |-> FALSE])

\* An order must be DELIVERED.
ReadOrder(s) ==
  /\ session[s].kind = "issue" /\ session[s].step = "number"
  /\ session[s].subject \in Orders => order[session[s].subject] = "DELIVERED"
  /\ session' = [session EXCEPT ![s].step = "order"]
  /\ UNCHANGED docs

\* An invoice of the same order, or with the same reference of the supplier, is the answer.
HasInvoice(side, subject) ==
  /\ subject # Unlinked
  /\ \E n \in InvoiceNumbers : Issued(<<side, n>>) /\ invoice[<<side, n>>].subject = subject

FindInvoice(s) ==
  /\ session[s].kind = "issue" /\ session[s].step = "order"
  /\ session' = [session EXCEPT ![s].step = "found",
                                ![s].found = HasInvoice(session[s].side, session[s].subject)]
  /\ UNCHANGED docs

\* The order is INVOICED, whatever became of it since it was read.
OrderInvoiced(o) == IF o \in Orders THEN [order EXCEPT ![o] = "INVOICED"] ELSE order

AnswerInvoice(s) ==
  /\ session[s].kind = "issue" /\ session[s].step = "found" /\ session[s].found
  /\ order' = OrderInvoiced(session[s].subject)
  /\ End(s)
  /\ UNCHANGED <<invoice, payment, balance, evaluated>>

Issue(s) ==
  /\ session[s].kind = "issue" /\ session[s].step = "found" /\ ~session[s].found
  /\ LET side == session[s].side
         subject == session[s].subject
         n == NumberOf(s, NextInvoice(side))
     IN \E total \in (IF subject \in Orders THEN {Worth[subject]} ELSE Amounts) :
          /\ n \in InvoiceNumbers
          /\ ~Issued(<<side, n>>)
          /\ invoice' = [invoice EXCEPT ![<<side, n>>] =
               [status |-> IF side = "customer" THEN "DRAFT" ELSE "PENDING",
                subject |-> subject, total |-> total, paid |-> 0]]
          /\ balance' = Entered(side, total)
          /\ order' = OrderInvoiced(subject)
  /\ End(s)
  /\ UNCHANGED <<payment, evaluated>>

BeginSend(s, i) ==
  /\ i[1] = "customer" /\ invoice[i].status = "DRAFT"
  /\ Begin(s, [kind |-> "send", of |-> i])

SendInvoice(s) ==
  /\ session[s].kind = "send"
  /\ invoice' = [invoice EXCEPT ![session[s].of].status = "SENT"]
  /\ End(s)
  /\ UNCHANGED <<payment, balance, order, evaluated>>

\* mark_overdue_invoices: one UPDATE of the invoices whose day has passed
MarkOverdue(due) ==
  /\ \A i \in due : i[1] = "customer" /\ invoice[i].status \in {"SENT", "PARTIAL"}
  /\ invoice' = [i \in Invoices |->
       IF i \in due THEN [invoice[i] EXCEPT !.status = "OVERDUE"] ELSE invoice[i]]
  /\ UNCHANGED <<payment, balance, order, evaluated, session>>

-----------------------------------------------------------------------------
(* Payments *)

\* record_payment, record_supplier_payment
BeginPay(s, i) ==
  Begin(s, [kind |-> "pay", of |-> i, number |-> NextPayment(i[1]), read |-> FALSE,
            status |-> "none", paid |-> 0])

ReadInvoice(s) ==
  /\ session[s].kind = "pay" /\ ~session[s].read
  /\ Issued(session[s].of)
  /\ session' = [session EXCEPT ![s].read = TRUE,
                                ![s].status = invoice[session[s].of].status,
                                ![s].paid = invoice[session[s].of].paid]
  /\ UNCHANGED docs

AnyPayment(i, paid) == 1..invoice[i].total     \* mutant: the balance is not checked
Payable(i, paid) == 1..(invoice[i].total - paid)

PaidAtOnce(i, paid) == "PAID"                  \* mutant: any payment settles the invoice
StatusOf(i, paid) == IF paid >= invoice[i].total THEN "PAID" ELSE "PARTIAL"

\* on_payment_received: the first payment of an order decides, on all that was paid,
\* whether the order is completed; its audit entry makes a later one a duplicate.
OrderPaid(o, paid) ==
  /\ order' = IF o \notin evaluated /\ paid >= Worth[o] /\ order[o] = "INVOICED"
              THEN [order EXCEPT ![o] = "COMPLETED"] ELSE order
  /\ evaluated' = evaluated \cup {o}

Pay(s) ==
  /\ session[s].kind = "pay" /\ session[s].read
  /\ LET i == session[s].of
         n == NumberOf(s, NextPayment(i[1]))
     IN \E amount \in Payable(i, session[s].paid) :
          LET paid == session[s].paid + amount IN
          /\ n \in PaymentNumbers
          /\ ~Recorded(<<i[1], n>>)
          /\ payment' = [payment EXCEPT ![<<i[1], n>>] = [of |-> i[2], amount |-> amount]]
          /\ invoice' = [invoice EXCEPT
               ![i].paid = paid, ![i].status = Written(@, session[s].status, StatusOf(i, paid))]
          /\ balance' = Entered(i[1], -amount)
          /\ IF invoice[i].subject \in Orders
             THEN OrderPaid(invoice[i].subject, PaidFor(i) + amount)
             ELSE UNCHANGED <<order, evaluated>>
  /\ End(s)

-----------------------------------------------------------------------------
(* The specification *)

\* The delivery of an order, which the invoice waits for.
Deliver(o) ==
  /\ order[o] = "SHIPPED"
  /\ order' = [order EXCEPT ![o] = "DELIVERED"]
  /\ UNCHANGED <<invoice, payment, balance, evaluated, session>>

Init ==
  /\ invoice = [i \in Invoices |-> NoInvoice]
  /\ payment = [k \in Payments |-> NoPayment]
  /\ balance = [side \in Sides |-> 0]
  /\ order = [o \in Orders |-> "SHIPPED"]
  /\ evaluated = {}
  /\ session = [s \in Sessions |-> Idle]

Step(s) ==
  \/ \E side \in Sides : \E subject \in Subjects(side) : BeginIssue(s, side, subject)
  \/ ReadOrder(s)
  \/ FindInvoice(s)
  \/ AnswerInvoice(s)
  \/ Issue(s)
  \/ \E i \in Invoices : BeginSend(s, i)
  \/ SendInvoice(s)
  \/ \E i \in Invoices : BeginPay(s, i)
  \/ ReadInvoice(s)
  \/ Pay(s)
  \/ Abandon(s)

Next ==
  \/ \E s \in Sessions : Step(s)
  \/ \E due \in SUBSET Invoices : MarkOverdue(due)
  \/ \E o \in Orders : Deliver(o)

Spec == Init /\ [][Next]_vars

-----------------------------------------------------------------------------
(* Properties *)

\* Every column, and every request in progress, holds a value of its kind.
TypeOK ==
  /\ invoice \in [Invoices -> Invoice]
  /\ payment \in [Payments -> Payment]
  /\ balance \in [Sides -> Nat]
  /\ order \in [Orders -> OrderStatus]
  /\ evaluated \subseteq Orders
  /\ session \in [Sessions -> InProgress]

\* No invoice is paid more than its total, although every payment checks the balance
\* it read without a lock (record_payment, record_supplier_payment).
PaidWithinTotal == \A i \in Invoices : invoice[i].paid =< invoice[i].total

\* paid_amount is the sum of the payments recorded: of two payments at once none is
\* recorded without being counted.
PaidMatchesPayments == \A i \in Invoices : invoice[i].paid = PaidFor(i)

\* An order, or a reference of the supplier, has at most one invoice, although two
\* requests may each find none (create_invoice_from_sales_order, create_supplier_invoice).
OneInvoiceEach ==
  \A side \in Sides : \A m, n \in InvoiceNumbers :
    /\ Issued(<<side, m>>) /\ Issued(<<side, n>>)
    /\ invoice[<<side, m>>].subject = invoice[<<side, n>>].subject
    /\ invoice[<<side, m>>].subject # Unlinked
    => m = n

\* An invoice that says PAID is settled, and one that says PARTIAL is neither settled
\* nor unpaid, whichever requests wrote the status last (record_payment, send_invoice).
StatusMatchesPaid ==
  \A i \in Invoices :
    /\ invoice[i].status = "PAID" => invoice[i].paid = invoice[i].total
    /\ invoice[i].status = "PARTIAL" => invoice[i].paid \in 1..(invoice[i].total - 1)

\* The receivable and payable accounts are what the invoices leave open: the journal
\* is kept by increments, the invoices by values that were read before.
JournalMatchesInvoices ==
  \A side \in Sides :
    balance[side] + Total([n \in InvoiceNumbers |-> invoice[<<side, n>>].paid])
      = Total([n \in InvoiceNumbers |-> invoice[<<side, n>>].total])

\* "Transition SO to COMPLETED when cumulative payments >= grand_total"
\* (workflow_orchestration_service.py:603)
FullyPaidCompletes ==
  \A i \in Invoices :
    Issued(i) /\ invoice[i].subject \in Orders /\ PaidFor(i) >= Worth[invoice[i].subject]
      => order[invoice[i].subject] = "COMPLETED"
=============================================================================
