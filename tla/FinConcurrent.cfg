\* Two requests at a time issue and pay invoices of two units.
CONSTANTS
  Orders = {o1}
  References = {r1}
  Unlinked = Unlinked
  Worth <- WorthTwo
  Amounts = {2}
  Sessions = {s1, s2}
  MaxInvoices = 2
  MaxPayments = 2
  MaxDocuments = 4
SPECIFICATION Spec
SYMMETRY Alike
CONSTRAINT FewDocuments
INVARIANTS
  TypeOK
  PaidWithinTotal
  PaidMatchesPayments
  OneInvoiceEach
  StatusMatchesPaid
  JournalMatchesInvoices
\* The system stops when every number is used and every order is closed.
CHECK_DEADLOCK FALSE
