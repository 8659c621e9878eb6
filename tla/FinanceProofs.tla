---------------------------- MODULE FinanceProofs ----------------------------
(***************************************************************************)
(* The books of Finance agree for every set of orders, references and      *)
(* sessions, every amount and every bound: no lock protects them, and they *)
(* agree because a request commits with the number it read first, which a  *)
(* request that committed in between has taken.                            *)
(***************************************************************************)
EXTENDS Finance, UnitCountProofs

\* The invariant on the documents.
DocTypes ==
  /\ invoice \in [Invoices -> Invoice]
  /\ payment \in [Payments -> Payment]
  /\ order \in [Orders -> OrderStatus]
  /\ evaluated \subseteq Orders

\* The numbers in use are those up to some number.
InvoicesNumbered ==
  \A side \in Sides : \E k \in 0..MaxInvoices : \A n \in InvoiceNumbers :
    Issued(<<side, n>>) <=> n =< k
PaymentsNumbered ==
  \A side \in Sides : \E k \in 0..MaxPayments : \A n \in PaymentNumbers :
    Recorded(<<side, n>>) <=> n =< k

\* What is not issued adds nothing to the sums.
Blank == \A i \in Invoices : ~Issued(i) => invoice[i].paid = 0 /\ invoice[i].total = 0

\* A request that issues has a number all smaller ones of which are taken; if nobody took
\* its own, what it found is still so.
IssueOK(r) ==
  /\ \A n \in InvoiceNumbers : n < r.number => Issued(<<r.side, n>>)
  /\ r.step = "found" /\ ~r.found /\ r.number \in InvoiceNumbers
       /\ ~Issued(<<r.side, r.number>>)
     => ~HasInvoice(r.side, r.subject)

\* Likewise a request that pays, and what it read of the invoice.
PayOK(r) ==
  /\ \A n \in PaymentNumbers : n < r.number => Recorded(<<r.of[1], n>>)
  /\ r.read =>
       /\ Issued(r.of)
       /\ r.status = "PAID" => r.paid = invoice[r.of].total
       /\ r.number \in PaymentNumbers /\ ~Recorded(<<r.of[1], r.number>>)
          => r.paid = invoice[r.of].paid

SessionOK(r) ==
  /\ r \in InProgress
  /\ r.kind = "issue" => IssueOK(r)
  /\ r.kind = "pay" => PayOK(r)
  /\ r.kind = "send" => Issued(r.of)

SessionsOK ==
  /\ session = [s \in Sessions |-> session[s]]
  /\ \A s \in Sessions : SessionOK(session[s])

Books ==
  /\ PaidWithinTotal
  /\ PaidMatchesPayments
  /\ OneInvoiceEach
  /\ StatusMatchesPaid

FInv ==
  /\ DocTypes
  /\ InvoicesNumbered /\ PaymentsNumbered
  /\ Blank
  /\ Books
  /\ SessionsOK

-----------------------------------------------------------------------------
(* Numbers *)

LEMMA AfterAll ==
  ASSUME NEW M \in Nat, NEW k \in 0..M, NEW U, U \subseteq 1..M,
         \A n \in 1..M : n \in U <=> n =< k
  PROVE  After(U) = k + 1
<1>1. CASE k = 0
  BY <1>1 DEF After
<1>2. CASE k # 0
  <2>1. k \in U /\ \A m \in U : m =< k
    BY <1>2
  <2>2. \A n \in U : (\A m \in U : m =< n) => n = k
    BY <2>1
  <2>3. (CHOOSE n \in U : \A m \in U : m =< n) = k
    BY <2>1, <2>2
  <2>4. After(U) = 1 + (CHOOSE n \in U : \A m \in U : m =< n)
    BY <2>1, Zenon DEF After
  <2>5. After(U) = 1 + k
    BY <2>3, <2>4, Zenon
  <2> QED  BY <2>5
<1> QED  BY <1>1, <1>2

LEMMA NextInvoiceIs ==
  ASSUME FInv, NEW side \in Sides
  PROVE  /\ NextInvoice(side) \in Nat
         /\ \A n \in InvoiceNumbers : n < NextInvoice(side) <=> Issued(<<side, n>>)
<1>1. PICK k \in 0..MaxInvoices : \A n \in InvoiceNumbers : Issued(<<side, n>>) <=> n =< k
  BY DEF FInv, InvoicesNumbered
<1> DEFINE U == {n \in InvoiceNumbers : Issued(<<side, n>>)}
<1>2. /\ U \subseteq 1..MaxInvoices /\ MaxInvoices \in Nat
      /\ \A n \in 1..MaxInvoices : n \in U <=> n =< k
  BY <1>1, BoundAssumption DEF InvoiceNumbers
<1>3. NextInvoice(side) = After(U)
  BY DEF NextInvoice
<1> HIDE DEF U
<1>4. NextInvoice(side) = k + 1
  BY <1>2, <1>3, AfterAll
<1> QED  BY <1>1, <1>4 DEF InvoiceNumbers

LEMMA NextPaymentIs ==
  ASSUME FInv, NEW side \in Sides
  PROVE  /\ NextPayment(side) \in Nat
         /\ \A n \in PaymentNumbers : n < NextPayment(side) <=> Recorded(<<side, n>>)
<1>1. PICK k \in 0..MaxPayments : \A n \in PaymentNumbers : Recorded(<<side, n>>) <=> n =< k
  BY DEF FInv, PaymentsNumbered
<1> DEFINE U == {n \in PaymentNumbers : Recorded(<<side, n>>)}
<1>2. /\ U \subseteq 1..MaxPayments /\ MaxPayments \in Nat
      /\ \A n \in 1..MaxPayments : n \in U <=> n =< k
  BY <1>1, BoundAssumption DEF PaymentNumbers
<1>3. NextPayment(side) = After(U)
  BY DEF NextPayment
<1> HIDE DEF U
<1>4. NextPayment(side) = k + 1
  BY <1>2, <1>3, AfterAll
<1> QED  BY <1>1, <1>4 DEF PaymentNumbers

-----------------------------------------------------------------------------
(* Kinds of requests *)

LEMMA Kinds ==
  ASSUME NEW r \in InProgress
  PROVE  /\ r.kind \in {"none", "issue", "pay", "send"}
         /\ r.kind = "none" => r = Idle
         /\ r.kind = "issue" => /\ r.side \in Sides /\ r.number \in Nat
                                /\ r.subject \in Orders \cup References \cup {Unlinked}
                                /\ r.step \in {"number", "order", "found"} /\ r.found \in BOOLEAN
         /\ r.kind = "pay" => /\ r.of \in Invoices /\ r.number \in Nat /\ r.read \in BOOLEAN
                              /\ r.status \in InvoiceStatus /\ r.paid \in Nat
         /\ r.kind = "send" => r.of \in Invoices
BY DEF InProgress, Idle

LEMMA IssueAnew ==
  ASSUME NEW q \in InProgress, q.kind = "issue", NEW h \in BOOLEAN
  PROVE  LET r == [q EXCEPT !.step = "found", !.found = h] IN
         /\ r \in InProgress /\ r.kind = "issue" /\ r.side = q.side /\ r.number = q.number
         /\ r.subject = q.subject /\ r.found = h
<1>1. q \in [kind : {"issue"}, side : Sides, subject : Orders \cup References \cup {Unlinked},
             number : Nat, step : {"number", "order", "found"}, found : BOOLEAN]
  BY DEF InProgress, Idle
<1>2. [q EXCEPT !.step = "found", !.found = h]
        \in [kind : {"issue"}, side : Sides, subject : Orders \cup References \cup {Unlinked},
             number : Nat, step : {"number", "order", "found"}, found : BOOLEAN]
  BY <1>1
<1> QED  BY <1>1, <1>2 DEF InProgress

LEMMA IdleOK == SessionOK(Idle)
BY DEF SessionOK, Idle, InProgress

LEMMA InvoicePair ==
  ASSUME NEW i \in Invoices
  PROVE  i[1] \in Sides /\ i[2] \in InvoiceNumbers /\ i = <<i[1], i[2]>>
BY DEF Invoices

\* A step of one session that changes no document.
LEMMA SessionStep ==
  ASSUME FInv, UNCHANGED docs, NEW s \in Sessions, NEW r, SessionOK(r),
         session' = [session EXCEPT ![s] = r]
  PROVE  FInv'
<1>1. SessionsOK'
  <2>1. session' = [t \in Sessions |-> session'[t]]
    BY DEF FInv, SessionsOK
  <2>2. ASSUME NEW t \in Sessions
        PROVE  SessionOK(session'[t])
    BY DEF FInv, SessionsOK
  <2>3. \A t \in Sessions : SessionOK(session[t])'
    BY <2>2 DEF docs, SessionOK, IssueOK, PayOK, HasInvoice, Issued, Recorded
  <2> QED  BY <2>1, <2>3 DEF SessionsOK
<1> QED  BY <1>1 DEF FInv, docs, DocTypes, InvoicesNumbered, PaymentsNumbered, Blank, Books,
                     Issued, Recorded, PaidWithinTotal, PaidMatchesPayments, PaidFor,
                     OneInvoiceEach, StatusMatchesPaid

LEMMA ReadingStep ==
  ASSUME FInv, NEW s \in Sessions,
         \/ \E side \in Sides : \E subject \in Subjects(side) : BeginIssue(s, side, subject)
         \/ ReadOrder(s) \/ FindInvoice(s)
         \/ \E i \in Invoices : BeginSend(s, i) \/ BeginPay(s, i)
         \/ ReadInvoice(s) \/ Abandon(s)
  PROVE  FInv'
<1>1. CASE \E side \in Sides : \E subject \in Subjects(side) : BeginIssue(s, side, subject)
  <2>0. PICK side \in Sides : \E subject \in Subjects(side) : BeginIssue(s, side, subject)
    BY <1>1
  <2>1. PICK subject \in Subjects(side) : BeginIssue(s, side, subject)
    BY <2>0
  <2> DEFINE r == [kind |-> "issue", side |-> side, subject |-> subject,
                   number |-> NextInvoice(side), step |-> "number", found |-> FALSE]
  <2>2. NextInvoice(side) \in Nat
        /\ \A n \in InvoiceNumbers : n < NextInvoice(side) => Issued(<<side, n>>)
    BY NextInvoiceIs
  <2>3. r \in InProgress
    BY <2>2 DEF InProgress, Subjects
  <2>4. SessionOK(r)
    BY <2>2, <2>3 DEF SessionOK, IssueOK
  <2> QED  BY <2>1, <2>4, SessionStep DEF BeginIssue, Begin
<1>2. CASE ReadOrder(s)
  <2> DEFINE r == [session[s] EXCEPT !.step = "order"]
  <2>1. SessionOK(session[s]) /\ session[s].kind = "issue" /\ session[s].step = "number"
    BY <1>2 DEF FInv, SessionsOK, ReadOrder
  <2>2. r \in InProgress /\ r.kind = "issue" /\ r.side = session[s].side
        /\ r.number = session[s].number /\ r.step = "order"
    BY <2>1 DEF SessionOK, InProgress, Idle
  <2>3. SessionOK(r)
    BY <2>1, <2>2 DEF SessionOK, IssueOK
  <2>4. session' = [session EXCEPT ![s] = r] /\ UNCHANGED docs
    BY <1>2 DEF ReadOrder
  <2> HIDE DEF r
  <2> QED  BY <2>3, <2>4, SessionStep
<1>3. CASE FindInvoice(s)
  <2> DEFINE h == HasInvoice(session[s].side, session[s].subject)
             r == [session[s] EXCEPT !.step = "found", !.found = h]
  <2>1. SessionOK(session[s]) /\ session[s].kind = "issue"
    BY <1>3 DEF FInv, SessionsOK, FindInvoice
  <2>2. h \in BOOLEAN
    BY DEF HasInvoice
  <2>3. r \in InProgress /\ r.kind = "issue" /\ r.side = session[s].side
        /\ r.number = session[s].number /\ r.subject = session[s].subject /\ r.found = h
    <3> HIDE DEF h
    <3> QED  BY <2>1, <2>2, IssueAnew DEF SessionOK
  <2>4. SessionOK(r)
    BY <2>1, <2>3 DEF SessionOK, IssueOK
  <2>5. session' = [session EXCEPT ![s] = r] /\ UNCHANGED docs
    BY <1>3 DEF FindInvoice
  <2> HIDE DEF r
  <2> QED  BY <2>4, <2>5, SessionStep
<1>4. CASE \E i \in Invoices : BeginSend(s, i)
  <2>1. PICK i \in Invoices : BeginSend(s, i)
    BY <1>4
  <2>2. SessionOK([kind |-> "send", of |-> i])
    BY <2>1 DEF SessionOK, InProgress, BeginSend, Issued
  <2> QED  BY <2>1, <2>2, SessionStep DEF BeginSend, Begin
<1>5. CASE \E i \in Invoices : BeginPay(s, i)
  <2>1. PICK i \in Invoices : BeginPay(s, i)
    BY <1>5
  <2> DEFINE r == [kind |-> "pay", of |-> i, number |-> NextPayment(i[1]), read |-> FALSE,
                   status |-> "none", paid |-> 0]
  <2>2. NextPayment(i[1]) \in Nat
        /\ \A n \in PaymentNumbers : n < NextPayment(i[1]) => Recorded(<<i[1], n>>)
    BY NextPaymentIs, InvoicePair
  <2>3. r \in InProgress
    BY <2>2 DEF InProgress, InvoiceStatus
  <2>4. SessionOK(r)
    BY <2>2, <2>3 DEF SessionOK, PayOK
  <2> QED  BY <2>1, <2>4, SessionStep DEF BeginPay, Begin
<1>6. CASE ReadInvoice(s)
  <2> DEFINE i == session[s].of
             st == invoice[i].status
             n == invoice[i].paid
             r == [session[s] EXCEPT !.read = TRUE, !.status = st, !.paid = n]
  <2>1. SessionOK(session[s]) /\ session[s].kind = "pay" /\ Issued(i)
    BY <1>6 DEF FInv, SessionsOK, ReadInvoice
  <2>2. i \in Invoices
    BY <2>1, Kinds DEF SessionOK
  <2>3. st \in InvoiceStatus /\ n \in Nat /\ (st = "PAID" => n = invoice[i].total)
    BY <2>2 DEF FInv, DocTypes, Invoice, Books, StatusMatchesPaid
  <2>4. session' = [session EXCEPT ![s] = r] /\ UNCHANGED docs
    BY <1>6 DEF ReadInvoice
  <2>5. st = invoice[i].status /\ n = invoice[i].paid
    OBVIOUS
  <2>6. session[s] \in InProgress /\ i = session[s].of
    BY <2>1 DEF SessionOK
  <2> HIDE DEF st, n
  <2>7. r \in InProgress /\ r.kind = "pay" /\ r.of = session[s].of
        /\ r.number = session[s].number /\ r.status = st /\ r.paid = n
    <3>1. session[s] \in [kind : {"pay"}, of : Invoices, number : Nat, read : BOOLEAN,
                          status : InvoiceStatus, paid : Nat]
      BY <2>1, <2>6 DEF InProgress, Idle
    <3>2. r \in [kind : {"pay"}, of : Invoices, number : Nat, read : BOOLEAN,
                 status : InvoiceStatus, paid : Nat]
      BY <2>3, <3>1
    <3> QED  BY <2>3, <3>1, <3>2 DEF InProgress
  <2> HIDE DEF r
  <2>8. SessionOK(r)
    BY <2>1, <2>3, <2>5, <2>6, <2>7 DEF SessionOK, PayOK
  <2> QED  BY <2>4, <2>8, SessionStep
<1>7. CASE Abandon(s)
  BY <1>7, IdleOK, SessionStep DEF Abandon, End
<1> QED  BY <1>1, <1>2, <1>3, <1>4, <1>5, <1>6, <1>7

-----------------------------------------------------------------------------
(* Steps that change documents *)

\* What the requests in progress rely on is kept.
LEMMA SessionsKept ==
  ASSUME FInv,
         session' = [t \in Sessions |-> session'[t]],
         \A t \in Sessions : session'[t] \in {session[t], Idle},
         \A i \in Invoices : Issued(i) => Issued(i)' /\ invoice'[i].total = invoice[i].total,
         \A k \in Payments : Recorded(k) => Recorded(k)',
         \A t \in Sessions :
           session'[t].kind = "issue" /\ IssueOK(session'[t]) => IssueOK(session[t])',
         \A t \in Sessions :
           /\ session'[t].kind = "pay" /\ session'[t].read
           /\ session'[t].number \in PaymentNumbers
           /\ payment'[<<session'[t].of[1], session'[t].number>>].amount = 0
           => invoice'[session'[t].of].paid = invoice[session'[t].of].paid
  PROVE  SessionsOK'
<1> SUFFICES ASSUME NEW t \in Sessions
             PROVE  SessionOK(session[t])'
  BY DEF SessionsOK
<1> DEFINE r == session'[t]
<1>1. SessionOK(r)
  BY IdleOK DEF FInv, SessionsOK
<1>2. r \in InProgress
  BY <1>1 DEF SessionOK
<1>3. r.kind = "issue" => IssueOK(session[t])'
  BY <1>1 DEF SessionOK
<1>4. ASSUME r.kind = "pay"
      PROVE  PayOK(session[t])'
  <2>1. PayOK(r) /\ r.of \in Invoices /\ r.of[1] \in Sides
    <3>1. PayOK(r)
      BY <1>1, <1>4 DEF SessionOK
    <3>2. r.of \in Invoices
      BY <1>2, <1>4, Kinds
    <3> QED  BY <3>1, <3>2, InvoicePair
  <2>2. \A n \in PaymentNumbers :
          payment[<<r.of[1], n>>].amount # 0 => payment'[<<r.of[1], n>>].amount # 0
    BY <2>1 DEF Payments, Recorded
  <2>3. \A n \in PaymentNumbers : n < r.number => payment'[<<r.of[1], n>>].amount # 0
    BY <2>1, <2>2 DEF PayOK, Recorded
  <2>4. ASSUME r.read
        PROVE  /\ Issued(session[t].of)'
               /\ r.status = "PAID" => r.paid = invoice'[r.of].total
    <3>1. Issued(r.of) /\ (r.status = "PAID" => r.paid = invoice[r.of].total)
      BY <2>1, <2>4 DEF PayOK
    <3>2. invoice'[r.of].status # "none" /\ invoice'[r.of].total = invoice[r.of].total
      BY <2>1, <3>1 DEF Issued
    <3> QED  BY <3>1, <3>2 DEF Issued
  <2>5. ASSUME r.read, r.number \in PaymentNumbers, payment'[<<r.of[1], r.number>>].amount = 0
        PROVE  r.paid = invoice'[r.of].paid
    <3>1. ~Recorded(<<r.of[1], r.number>>)
      BY <2>2, <2>5 DEF Recorded
    <3>2. invoice'[r.of].paid = invoice[r.of].paid
      BY <1>4, <2>5
    <3>3. r.paid = invoice[r.of].paid
      BY <2>1, <2>5, <3>1 DEF PayOK
    <3> QED  BY <3>2, <3>3
  <2> QED  BY <2>3, <2>4, <2>5 DEF PayOK, Recorded
<1>5. r.kind = "send" => Issued(session[t].of)'
  BY <1>1, <1>2, Kinds DEF SessionOK
<1> QED  BY <1>2, <1>3, <1>4, <1>5 DEF SessionOK

\* The end of a session.
LEMMA EndKeeps ==
  ASSUME FInv, NEW s \in Sessions, End(s) \/ UNCHANGED session
  PROVE  /\ session' = [t \in Sessions |-> session'[t]]
         /\ \A t \in Sessions : session'[t] \in {session[t], Idle}
BY DEF FInv, SessionsOK, End

\* A step that moves an order and no invoice or payment.
LEMMA OrderStep ==
  ASSUME FInv, UNCHANGED <<invoice, payment, evaluated>>, order' \in [Orders -> OrderStatus],
         session' = [t \in Sessions |-> session'[t]],
         \A t \in Sessions : session'[t] \in {session[t], Idle}
  PROVE  FInv'
<1>1. SessionsOK'
  <2>1. \A t \in Sessions : SessionOK(session'[t])
    BY IdleOK DEF FInv, SessionsOK
  <2>2. \A t \in Sessions : SessionOK(session[t])'
    BY <2>1 DEF SessionOK, IssueOK, PayOK, HasInvoice, Issued, Recorded
  <2> QED  BY <2>2 DEF SessionsOK
<1> QED  BY <1>1 DEF FInv, DocTypes, InvoicesNumbered, PaymentsNumbered, Blank, Books,
                     Issued, Recorded, PaidWithinTotal, PaidMatchesPayments, PaidFor,
                     OneInvoiceEach, StatusMatchesPaid

LEMMA InvoicedOrder ==
  ASSUME FInv, NEW o
  PROVE  OrderInvoiced(o) \in [Orders -> OrderStatus]
BY DEF FInv, DocTypes, OrderInvoiced, OrderStatus

LEMMA AnswerStep ==
  ASSUME FInv, NEW s \in Sessions, AnswerInvoice(s)
  PROVE  FInv'
BY InvoicedOrder, EndKeeps, OrderStep DEF AnswerInvoice

LEMMA DeliverStep ==
  ASSUME FInv, NEW o \in Orders, Deliver(o)
  PROVE  FInv'
<1>1. order' \in [Orders -> OrderStatus]
  BY DEF FInv, DocTypes, Deliver, OrderStatus
<1>2. session' = [t \in Sessions |-> session'[t]]
      /\ \A t \in Sessions : session'[t] \in {session[t], Idle}
  BY DEF FInv, SessionsOK, Deliver
<1> QED  BY <1>1, <1>2, OrderStep DEF Deliver

\* A step that sets the status of invoices, none of them to PARTIAL or PAID.
LEMMA StatusStep ==
  ASSUME FInv, UNCHANGED <<payment, order, evaluated>>,
         NEW st \in [Invoices -> InvoiceStatus],
         invoice' = [i \in Invoices |-> [invoice[i] EXCEPT !.status = st[i]]],
         \A i \in Invoices : st[i] = "none" <=> invoice[i].status = "none",
         \A i \in Invoices : st[i] \in {"PAID", "PARTIAL"} => st[i] = invoice[i].status,
         session' = [t \in Sessions |-> session'[t]],
         \A t \in Sessions : session'[t] \in {session[t], Idle}
  PROVE  FInv'
<1>1. \A i \in Invoices :
        /\ invoice[i] \in Invoice /\ invoice'[i] \in Invoice
        /\ invoice'[i].status = st[i] /\ invoice'[i].subject = invoice[i].subject
        /\ invoice'[i].total = invoice[i].total /\ invoice'[i].paid = invoice[i].paid
  BY DEF FInv, DocTypes, Invoice
<1>2. \A i \in Invoices : Issued(i)' <=> Issued(i)
  BY <1>1 DEF Issued
<1>3. \A side \in Sides, n \in InvoiceNumbers : <<side, n>> \in Invoices
  BY DEF Invoices
<1>4. DocTypes'
  BY <1>1 DEF FInv, DocTypes
<1>5. InvoicesNumbered' /\ PaymentsNumbered'
  <2>1. InvoicesNumbered'
    BY <1>2, <1>3 DEF FInv, InvoicesNumbered
  <2> QED  BY <2>1 DEF FInv, PaymentsNumbered, Recorded
<1>6. Blank'
  BY <1>1, <1>2 DEF FInv, Blank
<1>7. Books'
  <2>0. \A i \in Invoices : PaidFor(i)' = PaidFor(i)
    BY DEF PaidFor
  <2>1. PaidWithinTotal' /\ PaidMatchesPayments'
    BY <1>1, <2>0 DEF FInv, Books, PaidWithinTotal, PaidMatchesPayments
  <2>2. OneInvoiceEach'
    BY <1>1, <1>2, <1>3 DEF FInv, Books, OneInvoiceEach
  <2>3. StatusMatchesPaid'
    BY <1>1 DEF FInv, Books, StatusMatchesPaid
  <2> QED  BY <2>1, <2>2, <2>3 DEF Books
<1>8. \A t \in Sessions :
        session'[t].kind = "issue" /\ IssueOK(session'[t]) => IssueOK(session[t])'
  <2> SUFFICES ASSUME NEW t \in Sessions, session'[t].kind = "issue", IssueOK(session'[t])
               PROVE  IssueOK(session[t])'
    OBVIOUS
  <2>1. session'[t].side \in Sides
    BY IdleOK, Kinds DEF FInv, SessionsOK, SessionOK
  <2>2. HasInvoice(session[t].side, session[t].subject)'
          <=> HasInvoice(session'[t].side, session'[t].subject)
    BY <1>1, <1>2, <1>3, <2>1 DEF HasInvoice
  <2> QED  BY <1>2, <1>3, <2>1, <2>2 DEF IssueOK
<1>9. \A t \in Sessions : session'[t].kind = "pay" =>
        invoice'[session'[t].of].paid = invoice[session'[t].of].paid
  <2> SUFFICES ASSUME NEW t \in Sessions, session'[t].kind = "pay"
               PROVE  invoice'[session'[t].of].paid = invoice[session'[t].of].paid
    OBVIOUS
  <2>1. session'[t] \in InProgress
    BY IdleOK DEF FInv, SessionsOK, SessionOK
  <2>2. session'[t].of \in Invoices
    BY <2>1, Kinds
  <2> QED  BY <1>1, <2>2
<1>10. SessionsOK'
  BY <1>1, <1>2, <1>8, <1>9, SessionsKept DEF Recorded
<1> QED  BY <1>4, <1>5, <1>6, <1>7, <1>10 DEF FInv

LEMMA SendStep ==
  ASSUME FInv, NEW s \in Sessions, SendInvoice(s)
  PROVE  FInv'
<1> DEFINE i == session[s].of
           st == [j \in Invoices |-> IF j = i THEN "SENT" ELSE invoice[j].status]
<1>1. i \in Invoices /\ Issued(i)
  BY Kinds DEF SendInvoice, FInv, SessionsOK, SessionOK
<1>2. invoice \in [Invoices -> Invoice]
  BY DEF FInv, DocTypes
<1>3. st \in [Invoices -> InvoiceStatus]
  BY <1>2 DEF Invoice, InvoiceStatus
<1>4. invoice' = [j \in Invoices |-> [invoice[j] EXCEPT !.status = st[j]]]
  <2>1. invoice' = [invoice EXCEPT ![i].status = "SENT"]
    BY DEF SendInvoice
  <2>2. \A j \in Invoices : [invoice[j] EXCEPT !.status = invoice[j].status] = invoice[j]
    BY <1>2 DEF Invoice
  <2> HIDE DEF i
  <2> QED  BY <1>2, <2>1, <2>2
<1>5. /\ \A j \in Invoices : st[j] = "none" <=> invoice[j].status = "none"
      /\ \A j \in Invoices : st[j] \in {"PAID", "PARTIAL"} => st[j] = invoice[j].status
  BY <1>1 DEF Issued
<1> HIDE DEF st, i
<1> QED  BY <1>3, <1>4, <1>5, EndKeeps, StatusStep DEF SendInvoice

LEMMA OverdueStep ==
  ASSUME FInv, NEW due \in SUBSET Invoices, MarkOverdue(due)
  PROVE  FInv'
<1> DEFINE st == [j \in Invoices |-> IF j \in due THEN "OVERDUE" ELSE invoice[j].status]
<1>1. invoice \in [Invoices -> Invoice]
  BY DEF FInv, DocTypes
<1>2. st \in [Invoices -> InvoiceStatus]
  BY <1>1 DEF Invoice, InvoiceStatus
<1>3. invoice' = [j \in Invoices |-> [invoice[j] EXCEPT !.status = st[j]]]
  <2>1. invoice' = [j \in Invoices |->
                     IF j \in due THEN [invoice[j] EXCEPT !.status = "OVERDUE"] ELSE invoice[j]]
    BY DEF MarkOverdue
  <2>2. \A j \in Invoices : [invoice[j] EXCEPT !.status = invoice[j].status] = invoice[j]
    BY <1>1 DEF Invoice
  <2> QED  BY <2>1, <2>2
<1>4. /\ \A j \in Invoices : st[j] = "none" <=> invoice[j].status = "none"
      /\ \A j \in Invoices : st[j] \in {"PAID", "PARTIAL"} => st[j] = invoice[j].status
  BY DEF MarkOverdue
<1>5. session' = [t \in Sessions |-> session'[t]]
      /\ \A t \in Sessions : session'[t] \in {session[t], Idle}
  BY DEF FInv, SessionsOK, MarkOverdue
<1> HIDE DEF st
<1> QED  BY <1>2, <1>3, <1>4, <1>5, StatusStep DEF MarkOverdue

-----------------------------------------------------------------------------
(* A new invoice *)

LEMMA IssueStep ==
  ASSUME FInv, NEW s \in Sessions, Issue(s)
  PROVE  FInv'
<1> DEFINE side == session[s].side
           subject == session[s].subject
           n == session[s].number
           x == <<side, n>>
<1>1. /\ session[s] \in InProgress /\ session[s].kind = "issue" /\ IssueOK(session[s])
      /\ session[s].step = "found" /\ ~session[s].found
  BY DEF Issue, FInv, SessionsOK, SessionOK
<1>2. side \in Sides /\ subject \in Orders \cup References \cup {Unlinked} /\ n \in Nat
  BY <1>1, Kinds
<1>3. PICK total \in (IF subject \in Orders THEN {Worth[subject]} ELSE Amounts) :
        /\ n \in InvoiceNumbers
        /\ ~Issued(x)
        /\ invoice' = [invoice EXCEPT ![x] =
             [status |-> IF side = "customer" THEN "DRAFT" ELSE "PENDING",
              subject |-> subject, total |-> total, paid |-> 0]]
        /\ order' = OrderInvoiced(subject)
  BY DEF Issue, NumberOf
<1>4. UNCHANGED <<payment, evaluated>> /\ End(s)
  BY DEF Issue
<1>5. /\ \A m \in InvoiceNumbers : m < n => Issued(<<side, m>>)
      /\ ~HasInvoice(side, subject)
  BY <1>1, <1>3 DEF IssueOK
<1> HIDE DEF side, subject, n
<1>6. total \in Nat
  BY <1>3, MoneyAssumption
<1>7. x \in Invoices /\ \A d \in Sides, m \in InvoiceNumbers : <<d, m>> \in Invoices
  BY <1>2, <1>3 DEF Invoices
<1> DEFINE new == [status |-> IF side = "customer" THEN "DRAFT" ELSE "PENDING",
                   subject |-> subject, total |-> total, paid |-> 0]
<1>8. new \in Invoice /\ new.status \in {"DRAFT", "PENDING"} /\ new.subject = subject
      /\ new.total = total /\ new.paid = 0
  BY <1>2, <1>6 DEF Invoice, InvoiceStatus
<1>9. invoice' = [invoice EXCEPT ![x] = new]
  BY <1>3
<1> HIDE DEF new, x
<1>10. /\ invoice \in [Invoices -> Invoice] /\ invoice' \in [Invoices -> Invoice]
       /\ invoice'[x] = new /\ \A j \in Invoices \ {x} : invoice'[j] = invoice[j]
  BY <1>7, <1>8, <1>9 DEF FInv, DocTypes
<1>11. \A j \in Invoices : Issued(j)' <=> Issued(j) \/ j = x
  BY <1>7, <1>8, <1>10 DEF Issued
<1>12. \A d \in Sides, m \in InvoiceNumbers : <<d, m>> = x <=> d = side /\ m = n
  BY DEF x
<1>13. DocTypes'
  BY <1>3, <1>4, <1>10, InvoicedOrder DEF FInv, DocTypes
<1>14. InvoicesNumbered' /\ PaymentsNumbered'
  <2>1. ASSUME NEW d \in Sides
        PROVE  \E k \in 0..MaxInvoices : \A m \in InvoiceNumbers : Issued(<<d, m>>)' <=> m =< k
    <3>1. PICK k \in 0..MaxInvoices : \A m \in InvoiceNumbers : Issued(<<d, m>>) <=> m =< k
      BY DEF FInv, InvoicesNumbered
    <3>2. CASE d # side
      BY <1>7, <1>11, <1>12, <3>1, <3>2
    <3>3. CASE d = side
      <4>1. \A m \in InvoiceNumbers : Issued(<<d, m>>)' <=> m =< k \/ m = n
        BY <1>7, <1>11, <1>12, <3>1, <3>3
      <4>2. n \in 1..MaxInvoices /\ k < n /\ MaxInvoices \in Nat
        BY <1>3, <3>1, <3>3, BoundAssumption DEF InvoiceNumbers, x
      <4>3. n = k + 1
        <5>1. k + 1 \in InvoiceNumbers /\ ~(k + 1 =< k)
          BY <4>2 DEF InvoiceNumbers
        <5>2. ~(k + 1 < n)
          BY <1>5, <3>1, <3>3, <5>1
        <5> QED  BY <4>2, <5>2
      <4>4. \A m \in InvoiceNumbers : Issued(<<d, m>>)' <=> m =< n
        BY <4>1, <4>2, <4>3 DEF InvoiceNumbers
      <4> QED  BY <4>2, <4>4
    <3> QED  BY <3>2, <3>3
  <2>2. InvoicesNumbered'
    BY <2>1 DEF InvoicesNumbered
  <2> QED  BY <1>4, <2>2 DEF FInv, PaymentsNumbered, Recorded
<1>15. Blank'
  BY <1>10, <1>11 DEF FInv, Blank
<1>16. Books'
  <2>1. \A j \in Invoices : PaidFor(j)' = PaidFor(j)
    BY <1>4 DEF PaidFor
  <2>2. invoice[x].paid = 0
    BY <1>3, <1>7 DEF FInv, Blank
  <2>3. PaidWithinTotal'
    BY <1>6, <1>8, <1>10 DEF FInv, Books, PaidWithinTotal
  <2>4. PaidMatchesPayments'
    BY <1>8, <1>10, <2>1, <2>2 DEF FInv, Books, PaidMatchesPayments
  <2>5. StatusMatchesPaid'
    BY <1>8, <1>10 DEF FInv, Books, StatusMatchesPaid
  <2>6. OneInvoiceEach'
    <3> SUFFICES ASSUME NEW d \in Sides, NEW m \in InvoiceNumbers, NEW l \in InvoiceNumbers,
                        Issued(<<d, m>>)', Issued(<<d, l>>)',
                        invoice'[<<d, m>>].subject = invoice'[<<d, l>>].subject,
                        invoice'[<<d, m>>].subject # Unlinked
                 PROVE  m = l
      BY DEF OneInvoiceEach
    <3>1. \A j \in InvoiceNumbers : d = side /\ j # n /\ Issued(<<d, j>>)'
            => invoice'[<<d, j>>].subject # subject \/ subject = Unlinked
      BY <1>5, <1>7, <1>10, <1>11, <1>12 DEF HasInvoice
    <3>2. CASE d = side /\ (m = n \/ l = n)
      BY <1>8, <1>10, <1>12, <3>1, <3>2
    <3>3. CASE ~(d = side /\ (m = n \/ l = n))
      BY <1>7, <1>10, <1>11, <1>12, <3>3 DEF FInv, Books, OneInvoiceEach
    <3> QED  BY <3>2, <3>3
  <2> QED  BY <2>3, <2>4, <2>5, <2>6 DEF Books
<1>17. ASSUME NEW t \in Sessions, session'[t].kind = "issue", IssueOK(session'[t])
       PROVE  IssueOK(session[t])'
  <2> DEFINE r == session'[t]
  <2>1. r \in InProgress
    BY <1>4, EndKeeps, IdleOK DEF FInv, SessionsOK, SessionOK
  <2>2. r.side \in Sides /\ r.number \in Nat
    BY <1>17, <2>1, Kinds
  <2>3. \A m \in InvoiceNumbers : m < r.number => invoice'[<<r.side, m>>].status # "none"
    BY <1>7, <1>11, <1>17, <2>2 DEF IssueOK, Issued
  <2>4. ASSUME r.step = "found", ~r.found, r.number \in InvoiceNumbers,
               invoice'[<<r.side, r.number>>].status = "none"
        PROVE  /\ r.side # side
               /\ ~HasInvoice(r.side, r.subject)
    <3>1. ~Issued(<<r.side, r.number>>) /\ <<r.side, r.number>> # x
      BY <1>7, <1>11, <2>2, <2>4 DEF Issued
    <3>2. ~HasInvoice(r.side, r.subject)
      BY <1>17, <2>4, <3>1 DEF IssueOK
    <3>3. ASSUME r.side = side
          PROVE  FALSE
      <4>1. ~(r.number < n) /\ r.number # n
        BY <1>5, <1>12, <2>2, <2>4, <3>1, <3>3
      <4>2. ~(n < r.number)
        BY <1>3, <1>17, <3>3 DEF IssueOK, x
      <4> QED  BY <1>2, <2>2, <4>1, <4>2
    <3> QED  BY <3>2, <3>3
  <2>5. ASSUME r.side # side, ~HasInvoice(r.side, r.subject)
        PROVE  ~HasInvoice(session[t].side, session[t].subject)'
    <3>1. \A m \in InvoiceNumbers : invoice'[<<r.side, m>>] = invoice[<<r.side, m>>]
      BY <1>7, <1>10, <1>12, <2>2, <2>5
    <3> QED  BY <2>5, <3>1 DEF HasInvoice, Issued
  <2> QED  BY <2>3, <2>4, <2>5 DEF IssueOK, Issued
<1>18. ASSUME NEW t \in Sessions, session'[t].kind = "pay", session'[t].read
       PROVE  invoice'[session'[t].of].paid = invoice[session'[t].of].paid
  <2>1. session'[t] \in InProgress /\ PayOK(session'[t])
    BY <1>4, <1>18, EndKeeps, IdleOK DEF FInv, SessionsOK, SessionOK
  <2>2. session'[t].of \in Invoices /\ Issued(session'[t].of)
    BY <1>18, <2>1, Kinds DEF PayOK
  <2> QED  BY <1>3, <1>10, <2>2
<1>19. SessionsOK'
  <2>1. \A j \in Invoices : Issued(j) => Issued(j)' /\ invoice'[j].total = invoice[j].total
    BY <1>3, <1>10, <1>11
  <2>2. \A k \in Payments : Recorded(k) => Recorded(k)'
    BY <1>4 DEF Recorded
  <2> QED  BY <1>4, <1>17, <1>18, <2>1, <2>2, EndKeeps, SessionsKept
<1> QED  BY <1>13, <1>14, <1>15, <1>16, <1>19 DEF FInv

-----------------------------------------------------------------------------
(* A payment *)

\* The amounts that a table of payments has for an invoice.
Paid(table, i) ==
  [n \in PaymentNumbers |-> IF table[<<i[1], n>>].of = i[2] THEN table[<<i[1], n>>].amount ELSE 0]

LEMMA NumbersFinite == IsFiniteSet(PaymentNumbers) /\ IsFiniteSet(InvoiceNumbers)
<1>1. MaxPayments \in Int /\ MaxInvoices \in Int /\ 1 \in Int
  BY BoundAssumption
<1> QED  BY <1>1, FS_Interval DEF PaymentNumbers, InvoiceNumbers

LEMMA PaidNat ==
  ASSUME NEW table \in [Payments -> Payment], NEW i \in Invoices
  PROVE  Paid(table, i) \in [PaymentNumbers -> Nat] /\ Total(Paid(table, i)) \in Nat
<1>1. \A n \in PaymentNumbers : <<i[1], n>> \in Payments
  BY InvoicePair DEF Payments
<1>2. Paid(table, i) \in [PaymentNumbers -> Nat]
  BY <1>1 DEF Paid, Payment
<1>3. IsFiniteSet(PaymentNumbers)
  BY NumbersFinite
<1> QED  BY <1>2, <1>3, UnitsFinite

\* A payment with a free number adds its amount to its invoice, and to no other.
LEMMA PaidMore ==
  ASSUME NEW table \in [Payments -> Payment], NEW i \in Invoices, NEW n \in PaymentNumbers,
         table[<<i[1], n>>].amount = 0, NEW amount \in Nat, NEW j \in Invoices,
         NEW after \in [Payments -> Payment],
         after[<<i[1], n>>].of = i[2], after[<<i[1], n>>].amount = amount,
         \A k \in Payments \ {<<i[1], n>>} : after[k] = table[k]
  PROVE  /\ j = i => Total(Paid(after, j)) = Total(Paid(table, j)) + amount
         /\ j # i => Total(Paid(after, j)) = Total(Paid(table, j))
<1> DEFINE x == <<i[1], n>>
           f == Paid(table, j)
           g == Paid(after, j)
<1>1. x \in Payments /\ i[2] \in InvoiceNumbers /\ i = <<i[1], i[2]>> /\ j = <<j[1], j[2]>>
      /\ j[1] \in Sides
  BY InvoicePair DEF Payments
<1>2. \A m \in PaymentNumbers : <<j[1], m>> \in Payments
                               /\ (<<j[1], m>> = x <=> j[1] = i[1] /\ m = n)
  BY <1>1 DEF Payments
<1>5. f \in [PaymentNumbers -> Nat] /\ g \in [PaymentNumbers -> Nat]
      /\ Total(f) \in Nat /\ Total(g) \in Nat
  BY PaidNat
<1>6. \A m \in PaymentNumbers \ {n} : g[m] = f[m]
  BY <1>2 DEF Paid
<1>7. f[n] = IF j[1] = i[1] THEN 0 ELSE g[n]
  BY <1>1, <1>2 DEF Paid
<1>8. /\ j[1] = i[1] /\ j = i => g[n] = amount
      /\ j[1] = i[1] /\ j # i => g[n] = 0
  <2>1. j[1] = i[1] => g[n] = IF after[x].of = j[2] THEN after[x].amount ELSE 0
    BY DEF Paid
  <2>2. j[1] = i[1] => (j = i <=> i[2] = j[2])
    BY <1>1
  <2>3. after[x].of = i[2] /\ after[x].amount = amount
    OBVIOUS
  <2> HIDE DEF g, x
  <2> QED  BY <2>1, <2>2, <2>3
<1>9. IsFiniteSet(PaymentNumbers)
  BY NumbersFinite
<1> HIDE DEF f, g
<1>10. Total(g) + f[n] = Total(f) + g[n]
  BY <1>5, <1>6, <1>9, TotalUpdate
<1>11. /\ j = i => Total(g) = Total(f) + amount
       /\ j # i => Total(g) = Total(f)
  BY <1>5, <1>7, <1>8, <1>10
<1> QED  BY <1>11 DEF f, g

LEMMA PaidForIs ==
  ASSUME NEW i \in Invoices
  PROVE  PaidFor(i) = Total(Paid(payment, i))
BY DEF PaidFor, Paid

LEMMA PayStep ==
  ASSUME FInv, NEW s \in Sessions, Pay(s)
  PROVE  FInv'
<1> DEFINE q == session[s]
           i == q.of
           side == i[1]
           n == q.number
           x == <<side, n>>
<1>1. q \in InProgress /\ q.kind = "pay" /\ q.read /\ PayOK(q)
  BY DEF Pay, FInv, SessionsOK, SessionOK
<1>2. /\ i \in Invoices /\ side \in Sides /\ n \in Nat /\ q.paid \in Nat
      /\ q.status \in InvoiceStatus /\ Issued(i)
  <2>1. i \in Invoices /\ n \in Nat /\ q.paid \in Nat /\ q.status \in InvoiceStatus
    BY <1>1, Kinds
  <2> QED  BY <1>1, <2>1, InvoicePair DEF PayOK
<1>3. PICK amount \in 1..(invoice[i].total - q.paid) :
        /\ n \in PaymentNumbers
        /\ ~Recorded(x)
        /\ payment' = [payment EXCEPT ![x] = [of |-> i[2], amount |-> amount]]
        /\ invoice' = [invoice EXCEPT
             ![i].paid = q.paid + amount,
             ![i].status = Written(@, q.status, StatusOf(i, q.paid + amount))]
        /\ IF invoice[i].subject \in Orders
           THEN OrderPaid(invoice[i].subject, PaidFor(i) + amount)
           ELSE UNCHANGED <<order, evaluated>>
  BY DEF Pay, NumberOf, Payable
<1>4. End(s)
  BY DEF Pay
<1>5. /\ \A m \in PaymentNumbers : m < n => Recorded(<<side, m>>)
      /\ q.status = "PAID" => q.paid = invoice[i].total
      /\ q.paid = invoice[i].paid
  BY <1>1, <1>3 DEF PayOK
<1> HIDE DEF q, i, side, n
<1>6. invoice[i] \in Invoice /\ invoice \in [Invoices -> Invoice] /\ payment \in [Payments -> Payment]
  BY <1>2 DEF FInv, DocTypes
<1> DEFINE paid == q.paid + amount
           st == Written(invoice[i].status, q.status, StatusOf(i, paid))
<1>7. /\ amount \in Nat /\ amount > 0 /\ paid \in Nat /\ paid =< invoice[i].total
      /\ paid = invoice[i].paid + amount
  BY <1>2, <1>3, <1>5, <1>6 DEF Invoice
<1>8. /\ st \in InvoiceStatus /\ st # "none"
      /\ st = "PAID" => paid = invoice[i].total
      /\ st = "PARTIAL" => paid < invoice[i].total
  <2>1. invoice[i].status \in InvoiceStatus /\ invoice[i].status # "none"
        /\ invoice[i].total \in Nat
    BY <1>2, <1>6 DEF Invoice, Issued
  <2>2. invoice[i].status # "PAID" /\ q.status # "PAID"
    BY <1>2, <1>5, <1>7, <2>1 DEF FInv, Books, StatusMatchesPaid
  <2>3. StatusOf(i, paid) = IF paid >= invoice[i].total THEN "PAID" ELSE "PARTIAL"
    BY DEF StatusOf
  <2>4. st = "PARTIAL" => paid < invoice[i].total
    <3>1. CASE paid >= invoice[i].total
      BY <2>2, <2>3, <3>1 DEF Written
    <3>2. CASE ~(paid >= invoice[i].total)
      BY <1>7, <2>1, <3>2
    <3> QED  BY <3>1, <3>2
  <2> QED  BY <1>7, <2>1, <2>2, <2>3, <2>4 DEF Written, InvoiceStatus
<1>9. invoice' = [invoice EXCEPT ![i] = [invoice[i] EXCEPT !.paid = paid, !.status = st]]
  BY <1>2, <1>3, <1>6
<1> HIDE DEF st, paid
<1>10. /\ invoice' \in [Invoices -> Invoice]
       /\ \A j \in Invoices \ {i} : invoice'[j] = invoice[j]
       /\ invoice'[i].status = st /\ invoice'[i].paid = paid
       /\ invoice'[i].total = invoice[i].total /\ invoice'[i].subject = invoice[i].subject
  <2> DEFINE new == [invoice[i] EXCEPT !.paid = paid, !.status = st]
  <2>1. new \in Invoice /\ new.status = st /\ new.paid = paid
        /\ new.total = invoice[i].total /\ new.subject = invoice[i].subject
    BY <1>6, <1>7, <1>8 DEF Invoice
  <2> HIDE DEF new
  <2> QED  BY <1>2, <1>6, <1>9, <2>1 DEF new
<1>11. /\ x \in Payments /\ \A d \in Sides, m \in PaymentNumbers : <<d, m>> \in Payments
       /\ \A d \in Sides, m \in PaymentNumbers : <<d, m>> = x <=> d = side /\ m = n
       /\ \A d \in Sides, m \in InvoiceNumbers : <<d, m>> \in Invoices
  BY <1>2, <1>3 DEF Payments, Invoices
<1>12. i[2] \in InvoiceNumbers /\ i = <<side, i[2]>>
  BY <1>2, InvoicePair DEF side
<1> HIDE DEF x
<1>13. payment' \in [Payments -> Payment]
  <2>1. [of |-> i[2], amount |-> amount] \in Payment
    BY <1>7, <1>12 DEF Payment
  <2> QED  BY <1>3, <1>6, <2>1
<1>14. \A k \in Payments : Recorded(k)' <=> Recorded(k) \/ k = x
  BY <1>3, <1>6, <1>7, <1>11 DEF Recorded
<1>15. \A j \in Invoices : (Issued(j)' <=> Issued(j)) /\ invoice'[j].subject = invoice[j].subject
                          /\ invoice'[j].total = invoice[j].total
  BY <1>2, <1>8, <1>10 DEF Issued
<1>16. DocTypes'
  <2>1. order' \in [Orders -> OrderStatus] /\ evaluated' \subseteq Orders
    BY <1>3 DEF FInv, DocTypes, OrderPaid, OrderStatus
  <2> QED  BY <1>10, <1>13, <2>1 DEF DocTypes
<1>17. PaymentsNumbered'
  <2> SUFFICES ASSUME NEW d \in Sides
               PROVE  \E k \in 0..MaxPayments : \A m \in PaymentNumbers : Recorded(<<d, m>>)' <=> m =< k
    BY DEF PaymentsNumbered
  <2>1. PICK k \in 0..MaxPayments : \A m \in PaymentNumbers : Recorded(<<d, m>>) <=> m =< k
    BY DEF FInv, PaymentsNumbered
  <2>2. CASE d # side
    BY <1>11, <1>14, <2>1, <2>2
  <2>3. CASE d = side
    <3>1. \A m \in PaymentNumbers : Recorded(<<d, m>>)' <=> m =< k \/ m = n
      BY <1>11, <1>14, <2>1, <2>3
    <3>2. n \in 1..MaxPayments /\ k < n /\ MaxPayments \in Nat
      BY <1>3, <2>1, <2>3, BoundAssumption DEF PaymentNumbers, x
    <3>3. n = k + 1
      <4>1. k + 1 \in PaymentNumbers /\ ~(k + 1 =< k)
        BY <3>2 DEF PaymentNumbers
      <4>2. ~(k + 1 < n)
        BY <1>5, <2>1, <2>3, <4>1
      <4> QED  BY <3>2, <4>2
    <3>4. \A m \in PaymentNumbers : Recorded(<<d, m>>)' <=> m =< n
      BY <3>1, <3>2, <3>3 DEF PaymentNumbers
    <3> QED  BY <3>2, <3>4
  <2> QED  BY <2>2, <2>3
<1>18. InvoicesNumbered'
  BY <1>11, <1>15 DEF FInv, InvoicesNumbered
<1>19. Blank'
  BY <1>2, <1>10, <1>15 DEF FInv, Blank
<1>20. Books'
  <2>1. \A j \in Invoices : PaidFor(j)' = PaidFor(j) + (IF j = i THEN amount ELSE 0)
    <3> SUFFICES ASSUME NEW j \in Invoices
                 PROVE  PaidFor(j)' = PaidFor(j) + (IF j = i THEN amount ELSE 0)
      OBVIOUS
    <3>1. payment[<<i[1], n>>].amount = 0
      BY <1>3 DEF Recorded, x, side
    <3> DEFINE after == payment'
    <3>2. /\ after \in [Payments -> Payment]
          /\ after[<<i[1], n>>].of = i[2] /\ after[<<i[1], n>>].amount = amount
          /\ \A k \in Payments \ {<<i[1], n>>} : after[k] = payment[k]
      BY <1>3, <1>6, <1>11, <1>13 DEF x, side
    <3>3. n \in PaymentNumbers /\ i \in Invoices /\ amount \in Nat
          /\ payment \in [Payments -> Payment]
      BY <1>2, <1>3, <1>6, <1>7
    <3> HIDE DEF after
    <3>4. /\ j = i => Total(Paid(after, j)) = Total(Paid(payment, j)) + amount
          /\ j # i => Total(Paid(after, j)) = Total(Paid(payment, j))
      BY <3>1, <3>2, <3>3, PaidMore
    <3>5. PaidFor(j)' = Total(Paid(after, j))
      BY DEF PaidFor, Paid, after
    <3>6. Total(Paid(payment, j)) \in Nat
      BY <3>3, PaidNat
    <3> QED  BY <3>4, <3>5, <3>6, PaidForIs
  <2>2. PaidWithinTotal'
    BY <1>7, <1>10 DEF FInv, Books, PaidWithinTotal
  <2>3. PaidMatchesPayments'
    <3> SUFFICES ASSUME NEW j \in Invoices
                 PROVE  invoice'[j].paid = PaidFor(j)'
      BY DEF PaidMatchesPayments
    <3>1. invoice[j].paid = PaidFor(j) /\ invoice[j].paid \in Nat
      BY <1>6 DEF FInv, Books, PaidMatchesPayments, Invoice
    <3>2. CASE j = i
      BY <1>7, <1>10, <2>1, <3>1, <3>2
    <3>3. CASE j # i
      BY <1>10, <2>1, <3>1, <3>3
    <3> QED  BY <3>2, <3>3
  <2>4. OneInvoiceEach'
    BY <1>11, <1>15 DEF FInv, Books, OneInvoiceEach
  <2>5. StatusMatchesPaid'
    <3> SUFFICES ASSUME NEW j \in Invoices
                 PROVE  /\ invoice'[j].status = "PAID" => invoice'[j].paid = invoice'[j].total
                        /\ invoice'[j].status = "PARTIAL"
                             => invoice'[j].paid \in 1..(invoice'[j].total - 1)
      BY DEF StatusMatchesPaid
    <3>1. CASE j = i
      <4>1. invoice[i].total \in Nat /\ invoice[i].paid \in Nat
        BY <1>6 DEF Invoice
      <4> QED  BY <1>7, <1>8, <1>10, <3>1, <4>1
    <3>2. CASE j # i
      BY <1>10, <3>2 DEF FInv, Books, StatusMatchesPaid
    <3> QED  BY <3>1, <3>2
  <2> QED  BY <2>2, <2>3, <2>4, <2>5 DEF Books
<1>21. ASSUME NEW t \in Sessions, session'[t].kind = "issue", IssueOK(session'[t])
       PROVE  IssueOK(session[t])'
  <2>1. session'[t] \in InProgress
    BY <1>4, EndKeeps, IdleOK DEF FInv, SessionsOK, SessionOK
  <2>2. session'[t].side \in Sides
    BY <1>21, <2>1, Kinds
  <2>3. \A m \in InvoiceNumbers :
          /\ invoice'[<<session'[t].side, m>>].status # "none" <=> Issued(<<session'[t].side, m>>)
          /\ invoice'[<<session'[t].side, m>>].subject = invoice[<<session'[t].side, m>>].subject
    BY <1>11, <1>15, <2>2 DEF Issued
  <2>4. HasInvoice(session[t].side, session[t].subject)'
          => HasInvoice(session'[t].side, session'[t].subject)
    BY <2>3 DEF HasInvoice, Issued
  <2> QED  BY <1>21, <2>3, <2>4 DEF IssueOK, Issued
<1>22. ASSUME NEW t \in Sessions, session'[t].kind = "pay", session'[t].read,
              session'[t].number \in PaymentNumbers,
              payment'[<<session'[t].of[1], session'[t].number>>].amount = 0
       PROVE  invoice'[session'[t].of].paid = invoice[session'[t].of].paid
  <2> DEFINE r == session'[t]
  <2>1. r \in InProgress /\ PayOK(r)
    BY <1>4, <1>22, EndKeeps, IdleOK DEF FInv, SessionsOK, SessionOK
  <2>2. r.of \in Invoices /\ r.number \in Nat /\ r.of[1] \in Sides
    <3>1. r.of \in Invoices /\ r.number \in Nat
      BY <1>22, <2>1, Kinds
    <3> QED  BY <3>1, InvoicePair
  <2>3. r.of[1] # side
    <3> SUFFICES ASSUME r.of[1] = side
                 PROVE  FALSE
      OBVIOUS
    <3>1. ~Recorded(<<side, r.number>>) /\ r.number # n
      BY <1>11, <1>14, <1>22, <2>2 DEF Recorded
    <3>2. ~(r.number < n)
      BY <1>5, <1>22, <3>1
    <3>3. ~(n < r.number)
      BY <1>3, <2>1 DEF PayOK, x
    <3> QED  BY <1>2, <2>2, <3>1, <3>2, <3>3
  <2>4. r.of # i
    BY <2>3 DEF side
  <2> QED  BY <1>10, <2>2, <2>4
<1>23. SessionsOK'
  <2>1. \A j \in Invoices : Issued(j) => Issued(j)' /\ invoice'[j].total = invoice[j].total
    BY <1>15
  <2>2. \A k \in Payments : Recorded(k) => Recorded(k)'
    BY <1>14
  <2> QED  BY <1>4, <1>21, <1>22, <2>1, <2>2, EndKeeps, SessionsKept
<1> QED  BY <1>16, <1>17, <1>18, <1>19, <1>20, <1>23 DEF FInv

-----------------------------------------------------------------------------
(* The invariant *)

LEMMA FInit == Init => FInv
<1> SUFFICES ASSUME Init
             PROVE  FInv
  OBVIOUS
<1>1. \A i \in Invoices : invoice[i] = NoInvoice /\ invoice[i].status = "none"
                         /\ invoice[i].paid = 0 /\ invoice[i].total = 0
  BY DEF Init, NoInvoice
<1>2. \A k \in Payments : payment[k] = NoPayment /\ payment[k].amount = 0
  BY DEF Init, NoPayment
<1>3. /\ \A d \in Sides, n \in InvoiceNumbers : <<d, n>> \in Invoices
      /\ \A d \in Sides, n \in PaymentNumbers : <<d, n>> \in Payments
  BY DEF Invoices, Payments
<1>4. DocTypes
  <2>1. NoInvoice \in Invoice /\ NoPayment \in Payment
    BY DEF NoInvoice, NoPayment, Invoice, Payment, InvoiceStatus
  <2> QED  BY <2>1 DEF Init, DocTypes, OrderStatus
<1>5. InvoicesNumbered /\ PaymentsNumbered
  <2>1. /\ 0 \in 0..MaxInvoices /\ \A n \in InvoiceNumbers : ~(n =< 0)
        /\ 0 \in 0..MaxPayments /\ \A n \in PaymentNumbers : ~(n =< 0)
    BY BoundAssumption DEF InvoiceNumbers, PaymentNumbers
  <2>2. InvoicesNumbered
    BY <1>1, <1>3, <2>1 DEF InvoicesNumbered, Issued
  <2>3. PaymentsNumbered
    BY <1>2, <1>3, <2>1 DEF PaymentsNumbered, Recorded
  <2> QED  BY <2>2, <2>3
<1>6. Blank
  BY <1>1 DEF Blank
<1>7. Books
  <2>1. \A i \in Invoices : PaidFor(i) = 0
    <3> SUFFICES ASSUME NEW i \in Invoices
                 PROVE  PaidFor(i) = 0
      OBVIOUS
    <3>1. DOMAIN Paid(payment, i) = PaymentNumbers
          /\ \A n \in PaymentNumbers : Paid(payment, i)[n] = 0
      BY <1>2, <1>3, InvoicePair DEF Paid
    <3>2. Total(Paid(payment, i)) = 0
      BY <3>1, TotalZero
    <3> QED  BY <3>2, PaidForIs
  <2>2. PaidWithinTotal /\ PaidMatchesPayments /\ StatusMatchesPaid
    BY <1>1, <2>1 DEF PaidWithinTotal, PaidMatchesPayments, StatusMatchesPaid
  <2>3. OneInvoiceEach
    BY <1>1, <1>3 DEF OneInvoiceEach, Issued
  <2> QED  BY <2>2, <2>3 DEF Books
<1>8. SessionsOK
  BY IdleOK DEF Init, SessionsOK
<1> QED  BY <1>4, <1>5, <1>6, <1>7, <1>8 DEF FInv

LEMMA FNext ==
  ASSUME FInv, [Next]_vars
  PROVE  FInv'
<1>1. CASE UNCHANGED vars
  <2>1. order' \in [Orders -> OrderStatus]
        /\ session' = [t \in Sessions |-> session'[t]]
        /\ \A t \in Sessions : session'[t] \in {session[t], Idle}
    BY <1>1 DEF FInv, DocTypes, SessionsOK, vars, docs
  <2> QED  BY <1>1, <2>1, OrderStep DEF vars, docs
<1>2. ASSUME NEW s \in Sessions, Step(s)
      PROVE  FInv'
  BY <1>2, ReadingStep, AnswerStep, IssueStep, SendStep, PayStep DEF Step
<1>3. ASSUME NEW due \in SUBSET Invoices, MarkOverdue(due)
      PROVE  FInv'
  BY <1>3, OverdueStep
<1>4. ASSUME NEW o \in Orders, Deliver(o)
      PROVE  FInv'
  BY <1>4, DeliverStep
<1> QED  BY <1>1, <1>2, <1>3, <1>4 DEF Next

(* FInv is an inductive invariant of the specification. *)
THEOREM BooksInvariant == Spec => []FInv
<1>1. Init => FInv
  BY FInit
<1>2. FInv /\ [Next]_vars => FInv'
  BY FNext
<1> QED  BY <1>1, <1>2, PTL DEF Spec

-----------------------------------------------------------------------------
(* The journal *)

PaidColumn(table, side)  == [n \in InvoiceNumbers |-> table[<<side, n>>].paid]
TotalColumn(table, side) == [n \in InvoiceNumbers |-> table[<<side, n>>].total]

\* The journal in integers: that its accounts are never negative follows.
JInv ==
  /\ balance \in [Sides -> Int]
  /\ \A side \in Sides : balance[side] + Total(PaidColumn(invoice, side))
                            = Total(TotalColumn(invoice, side))

LEMMA ColumnsNat ==
  ASSUME NEW table \in [Invoices -> Invoice], NEW side \in Sides
  PROVE  /\ PaidColumn(table, side) \in [InvoiceNumbers -> Nat]
         /\ TotalColumn(table, side) \in [InvoiceNumbers -> Nat]
         /\ Total(PaidColumn(table, side)) \in Nat
         /\ Total(TotalColumn(table, side)) \in Nat
<1>1. \A n \in InvoiceNumbers : table[<<side, n>>] \in Invoice
  BY DEF Invoices
<1>2. /\ PaidColumn(table, side) \in [InvoiceNumbers -> Nat]
      /\ TotalColumn(table, side) \in [InvoiceNumbers -> Nat]
  BY <1>1 DEF PaidColumn, TotalColumn, Invoice
<1> QED  BY <1>2, NumbersFinite, UnitsFinite

\* One entry of a column changes.
LEMMA ColumnUpdate ==
  ASSUME NEW n \in InvoiceNumbers, NEW f \in [InvoiceNumbers -> Nat], NEW g \in [InvoiceNumbers -> Nat],
         NEW d \in Nat, g[n] = f[n] + d, \A m \in InvoiceNumbers \ {n} : g[m] = f[m]
  PROVE  Total(g) = Total(f) + d
<1>1. Total(g) + f[n] = Total(f) + g[n]
  BY NumbersFinite, TotalUpdate
<1>2. Total(f) \in Nat /\ Total(g) \in Nat /\ f[n] \in Nat
  BY NumbersFinite, UnitsFinite
<1> QED  BY <1>1, <1>2

\* Amounts of the invoices and the accounts that stay as they are.
LEMMA JournalKept ==
  ASSUME JInv, balance' = balance,
         \A i \in Invoices : invoice'[i].paid = invoice[i].paid /\ invoice'[i].total = invoice[i].total
  PROVE  JInv'
<1>1. \A side \in Sides : /\ PaidColumn(invoice', side) = PaidColumn(invoice, side)
                          /\ TotalColumn(invoice', side) = TotalColumn(invoice, side)
  BY DEF PaidColumn, TotalColumn, Invoices
<1>2. \A side \in Sides : balance'[side] + Total(PaidColumn(invoice', side))
                            = Total(TotalColumn(invoice', side))
  BY <1>1 DEF JInv
<1> QED  BY <1>2 DEF JInv, PaidColumn, TotalColumn

\* An entry of one account and one invoice of its side.
LEMMA JournalEntry ==
  ASSUME JInv, FInv, FInv', NEW side \in Sides, NEW n \in InvoiceNumbers,
         NEW p \in Nat, NEW t \in Nat,
         balance' \in [Sides -> Int], \A d \in Sides \ {side} : balance'[d] = balance[d],
         balance'[side] = balance[side] + t - p,
         invoice'[<<side, n>>].paid = invoice[<<side, n>>].paid + p,
         invoice'[<<side, n>>].total = invoice[<<side, n>>].total + t,
         \A j \in Invoices \ {<<side, n>>} : invoice'[j].paid = invoice[j].paid
                                            /\ invoice'[j].total = invoice[j].total
  PROVE  JInv'
<1>1. invoice \in [Invoices -> Invoice] /\ invoice' \in [Invoices -> Invoice]
  BY DEF FInv, DocTypes
<1>2. \A d \in Sides, m \in InvoiceNumbers : <<d, m>> \in Invoices
                                          /\ (<<d, m>> = <<side, n>> <=> d = side /\ m = n)
  BY DEF Invoices
<1>3. ASSUME NEW d \in Sides
      PROVE  balance'[d] + Total(PaidColumn(invoice', d)) = Total(TotalColumn(invoice', d))
  <2> DEFINE f == PaidColumn(invoice, d)
             g == PaidColumn(invoice', d)
             h == TotalColumn(invoice, d)
             k == TotalColumn(invoice', d)
  <2>1. /\ f \in [InvoiceNumbers -> Nat] /\ g \in [InvoiceNumbers -> Nat]
        /\ h \in [InvoiceNumbers -> Nat] /\ k \in [InvoiceNumbers -> Nat]
        /\ Total(f) \in Nat /\ Total(g) \in Nat /\ Total(h) \in Nat /\ Total(k) \in Nat
    BY <1>1, ColumnsNat
  <2>2. balance[d] \in Int /\ balance[d] + Total(f) = Total(h)
    BY DEF JInv
  <2>3. CASE d # side
    <3>1. f = g /\ h = k
      BY <1>2, <2>3 DEF PaidColumn, TotalColumn
    <3>2. balance'[d] = balance[d]
      BY <2>3 DEF JInv
    <3> QED  BY <2>2, <3>1, <3>2
  <2>4. CASE d = side
    <3>1. /\ g[n] = f[n] + p /\ k[n] = h[n] + t
          /\ \A m \in InvoiceNumbers \ {n} : g[m] = f[m] /\ k[m] = h[m]
      BY <1>2, <2>4 DEF PaidColumn, TotalColumn
    <3>2. balance'[d] = balance[d] + t - p
      BY <2>4 DEF JInv
    <3> HIDE DEF f, g, h, k
    <3>3. Total(g) = Total(f) + p /\ Total(k) = Total(h) + t
      BY <2>1, <3>1, ColumnUpdate
    <3>4. balance'[d] + Total(g) = Total(k)
      BY <2>1, <2>2, <3>2, <3>3
    <3> QED  BY <3>4 DEF g, k
  <2> QED  BY <2>3, <2>4
<1>4. balance' \in [Sides -> Int]
  BY DEF JInv
<1> QED  BY <1>3, <1>4 DEF JInv, PaidColumn, TotalColumn

LEMMA JournalIssue ==
  ASSUME JInv, FInv, FInv', NEW s \in Sessions, Issue(s)
  PROVE  JInv'
<1> DEFINE side == session[s].side
           n == session[s].number
           x == <<side, n>>
<1>1. side \in Sides
  BY Kinds DEF Issue, FInv, SessionsOK, SessionOK
<1>2. PICK total \in Nat :
        /\ n \in InvoiceNumbers
        /\ ~Issued(x)
        /\ invoice' = [invoice EXCEPT ![x] =
             [status |-> IF side = "customer" THEN "DRAFT" ELSE "PENDING",
              subject |-> session[s].subject, total |-> total, paid |-> 0]]
        /\ balance' = [balance EXCEPT ![side] = @ + total]
  <2>1. \A total \in (IF session[s].subject \in Orders THEN {Worth[session[s].subject]} ELSE Amounts) :
          total \in Nat
    BY MoneyAssumption
  <2> QED  BY <2>1 DEF Issue, NumberOf, Entered
<1>3. total \in Nat
  OBVIOUS
<1>4. x \in Invoices /\ invoice \in [Invoices -> Invoice]
  BY <1>1, <1>2 DEF Invoices, FInv, DocTypes
<1>5. invoice[x].paid = 0 /\ invoice[x].total = 0
  BY <1>2, <1>4 DEF FInv, Blank
<1>6. /\ invoice'[x].paid = 0 /\ invoice'[x].total = total
      /\ \A j \in Invoices \ {x} : invoice'[j] = invoice[j]
  <2> HIDE DEF x
  <2> QED  BY <1>2, <1>4
<1>7. /\ balance' \in [Sides -> Int] /\ \A d \in Sides \ {side} : balance'[d] = balance[d]
      /\ balance'[side] = balance[side] + total - 0
  <2>1. balance \in [Sides -> Int]
    BY DEF JInv
  <2>2. balance' = [balance EXCEPT ![side] = @ + total]
    BY <1>2
  <2> HIDE DEF side
  <2> QED  BY <1>1, <1>3, <2>1, <2>2
<1> HIDE DEF side, n
<1> QED  BY <1>1, <1>2, <1>3, <1>5, <1>6, <1>7, JournalEntry

LEMMA JournalPay ==
  ASSUME JInv, FInv, FInv', NEW s \in Sessions, Pay(s)
  PROVE  JInv'
<1> DEFINE q == session[s]
           i == q.of
<1>1. q \in InProgress /\ q.kind = "pay" /\ q.read /\ PayOK(q)
  BY DEF Pay, FInv, SessionsOK, SessionOK
<1>2. i \in Invoices /\ q.paid \in Nat /\ invoice \in [Invoices -> Invoice]
  BY <1>1, Kinds DEF FInv, DocTypes
<1>3. PICK amount \in 1..(invoice[i].total - q.paid) :
        /\ q.number \in PaymentNumbers
        /\ ~Recorded(<<i[1], q.number>>)
        /\ invoice' = [invoice EXCEPT
             ![i].paid = q.paid + amount,
             ![i].status = Written(@, q.status, StatusOf(i, q.paid + amount))]
        /\ balance' = [balance EXCEPT ![i[1]] = @ + (-amount)]
  BY DEF Pay, NumberOf, Payable, Entered
<1>4. q.paid = invoice[i].paid
  BY <1>1, <1>3 DEF PayOK
<1>5. amount \in Nat /\ invoice[i].total \in Nat
  BY <1>2, <1>3 DEF Invoice
<1> HIDE DEF q, i
<1>6. /\ invoice'[i].paid = q.paid + amount /\ invoice'[i].total = invoice[i].total
      /\ \A j \in Invoices \ {i} : invoice'[j] = invoice[j]
  BY <1>2, <1>3 DEF Invoice
<1>7. i[1] \in Sides /\ i[2] \in InvoiceNumbers /\ i = <<i[1], i[2]>>
  BY <1>2, InvoicePair
<1>8. /\ balance' \in [Sides -> Int] /\ \A d \in Sides \ {i[1]} : balance'[d] = balance[d]
      /\ balance'[i[1]] = balance[i[1]] + 0 - amount
  BY <1>3, <1>5, <1>7 DEF JInv
<1>9. /\ invoice'[<<i[1], i[2]>>].paid = invoice[<<i[1], i[2]>>].paid + amount
      /\ invoice'[<<i[1], i[2]>>].total = invoice[<<i[1], i[2]>>].total + 0
      /\ \A j \in Invoices \ {<<i[1], i[2]>>} : invoice'[j].paid = invoice[j].paid
                                            /\ invoice'[j].total = invoice[j].total
  BY <1>4, <1>5, <1>6, <1>7
<1> QED  BY <1>5, <1>7, <1>8, <1>9, JournalEntry

LEMMA JournalNext ==
  ASSUME JInv, FInv, FInv', [Next]_vars
  PROVE  JInv'
<1>1. \A i \in Invoices : invoice[i] \in Invoice
  BY DEF FInv, DocTypes
<1>2. CASE UNCHANGED <<invoice, balance>>
  BY <1>2, JournalKept
<1>3. ASSUME NEW s \in Sessions, SendInvoice(s)
      PROVE  JInv'
  <2>1. \A i \in Invoices : invoice'[i].paid = invoice[i].paid /\ invoice'[i].total = invoice[i].total
    BY <1>1, <1>3 DEF SendInvoice, FInv, DocTypes, Invoice
  <2> QED  BY <1>3, <2>1, JournalKept DEF SendInvoice
<1>4. ASSUME NEW due \in SUBSET Invoices, MarkOverdue(due)
      PROVE  JInv'
  <2>1. \A i \in Invoices : invoice'[i].paid = invoice[i].paid /\ invoice'[i].total = invoice[i].total
    BY <1>1, <1>4 DEF MarkOverdue, Invoice
  <2> QED  BY <1>4, <2>1, JournalKept DEF MarkOverdue
<1>5. ASSUME NEW s \in Sessions, Step(s)
      PROVE  JInv'
  <2>1. CASE Issue(s)
    BY <2>1, JournalIssue
  <2>2. CASE Pay(s)
    BY <2>2, JournalPay
  <2>3. CASE SendInvoice(s)
    BY <1>3, <2>3
  <2>4. CASE ~Issue(s) /\ ~Pay(s) /\ ~SendInvoice(s)
    <3>1. UNCHANGED <<invoice, balance>>
      BY <1>5, <2>4 DEF Step, BeginIssue, ReadOrder, FindInvoice, AnswerInvoice, BeginSend,
                        BeginPay, ReadInvoice, Abandon, Begin, docs
    <3> QED  BY <1>2, <3>1
  <2> QED  BY <2>1, <2>2, <2>3, <2>4
<1>6. ASSUME NEW o \in Orders, Deliver(o)
      PROVE  JInv'
  BY <1>2, <1>6 DEF Deliver
<1> QED  BY <1>2, <1>4, <1>5, <1>6 DEF Next, vars, docs

LEMMA JInit == Init => JInv
<1> SUFFICES ASSUME Init
             PROVE  JInv
  OBVIOUS
<1>1. \A side \in Sides : Total(PaidColumn(invoice, side)) = 0 /\ Total(TotalColumn(invoice, side)) = 0
  <2> SUFFICES ASSUME NEW side \in Sides
               PROVE  Total(PaidColumn(invoice, side)) = 0 /\ Total(TotalColumn(invoice, side)) = 0
    OBVIOUS
  <2>1. /\ DOMAIN PaidColumn(invoice, side) = InvoiceNumbers
        /\ DOMAIN TotalColumn(invoice, side) = InvoiceNumbers
        /\ \A n \in InvoiceNumbers : /\ PaidColumn(invoice, side)[n] = 0
                                     /\ TotalColumn(invoice, side)[n] = 0
    BY DEF Init, PaidColumn, TotalColumn, NoInvoice, Invoices
  <2> QED  BY <2>1, TotalZero
<1> QED  BY <1>1 DEF Init, JInv

LEMMA JournalInvariant == Spec => [](FInv /\ JInv)
<1>1. Init => FInv /\ JInv
  BY FInit, JInit
<1>2. FInv /\ JInv /\ [Next]_vars => FInv' /\ JInv'
  BY FNext, JournalNext
<1> QED  BY <1>1, <1>2, PTL DEF Spec

(* Every column and every request holds a value of its kind; in particular no account
   of the journal is ever negative, although payments only ever subtract. *)
THEOREM FinanceTyped == Spec => []TypeOK
<1>1. FInv /\ JInv => TypeOK
  <2> SUFFICES ASSUME FInv, JInv
               PROVE  TypeOK
    OBVIOUS
  <2>1. ASSUME NEW side \in Sides
        PROVE  balance[side] \in Nat
    <3> DEFINE f == PaidColumn(invoice, side)
               g == TotalColumn(invoice, side)
    <3>1. /\ f \in [InvoiceNumbers -> Nat] /\ g \in [InvoiceNumbers -> Nat]
          /\ Total(f) \in Nat /\ Total(g) \in Nat
      BY ColumnsNat DEF FInv, DocTypes
    <3>2. \A n \in InvoiceNumbers : f[n] =< g[n]
      BY DEF FInv, Books, PaidWithinTotal, Invoices, PaidColumn, TotalColumn
    <3>3. balance[side] \in Int /\ balance[side] + Total(f) = Total(g)
      BY DEF JInv
    <3> HIDE DEF f, g
    <3>4. Total(f) =< Total(g)
      BY <3>1, <3>2, NumbersFinite, TotalMonotone
    <3> QED  BY <3>1, <3>3, <3>4
  <2>2. balance \in [Sides -> Nat]
    BY <2>1 DEF JInv
  <2>3. session \in [Sessions -> InProgress]
    BY DEF FInv, SessionsOK, SessionOK
  <2> QED  BY <2>2, <2>3 DEF FInv, DocTypes, TypeOK
<1> QED  BY <1>1, JournalInvariant, PTL

(* The accounts of the journal are what the invoices leave open. *)
THEOREM JournalAgrees == Spec => []JournalMatchesInvoices
<1>1. JInv => JournalMatchesInvoices
  BY DEF JInv, JournalMatchesInvoices, PaidColumn, TotalColumn
<1> QED  BY <1>1, JournalInvariant, PTL

-----------------------------------------------------------------------------
(* What the runs check *)

\* However many requests record payments of an invoice without a lock, it is never
\* paid more than its total.
THEOREM NeverOverpaid == Spec => []PaidWithinTotal
<1>1. FInv => PaidWithinTotal
  BY DEF FInv, Books
<1> QED  BY <1>1, BooksInvariant, PTL

\* No payment is lost: what an invoice counts as paid is the sum of its payments.
THEOREM PaymentsCounted == Spec => []PaidMatchesPayments
<1>1. FInv => PaidMatchesPayments
  BY DEF FInv, Books
<1> QED  BY <1>1, BooksInvariant, PTL

(* However many requests look for an invoice and find none, an order or a reference
   of the supplier gets one. *)
THEOREM InvoicedOnce == Spec => []OneInvoiceEach
<1>1. FInv => OneInvoiceEach
  BY DEF FInv, Books
<1> QED  BY <1>1, BooksInvariant, PTL

(* The status of an invoice tells what was paid of it. *)
THEOREM StatusTells == Spec => []StatusMatchesPaid
<1>1. FInv => StatusMatchesPaid
  BY DEF FInv, Books
<1> QED  BY <1>1, BooksInvariant, PTL
=============================================================================
