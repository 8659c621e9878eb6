\* An order paid in two payments.
CONSTANTS
  Orders = {o1}
  References = {r1}
  Unlinked = Unlinked
  Worth <- WorthTwo
  Amounts = {2}
  Sessions = {s1, s2}
  MaxInvoices = 2
  MaxPayments = 2
  MaxDocuments = 4
SPECIFICATION Spec
SYMMETRY Alike
CONSTRAINT FewDocuments
INVARIANT FullyPaidCompletes
CHECK_DEADLOCK FALSE
