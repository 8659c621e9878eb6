------------------------ MODULE WorkOrderSerialProofs ------------------------
(***************************************************************************)
(* With one request at a time, what is reserved of a material is claimed   *)
(* by a reservation row and, with stock kept in current_stock, is there.   *)
(* Both rest on SeenCurrent: what a request has read still holds when it   *)
(* writes.                                                                 *)
(***************************************************************************)
EXTENDS WorkOrderMaterialsProofs

\* What the requests in progress have read of the materials holds.
SeenCurrent ==
  \A w \in WorkOrders : request[w] # "NONE" =>
    /\ seen[w].reserved = reservedStock
    /\ ~ Bucketed => seen[w].stock = onHand

\* What one reservation row, and the rows of a line, hold back for a work order.
RowClaim(r) == IF Cancelled(r) THEN 0 ELSE Unissued(r)

ClaimsOf(s) == [i \in DOMAIN s |-> RowClaim(s[i])]

ClaimOf(s) == Total(ClaimsOf(s))

LEMMA ClaimIs ==
  ASSUME NEW w \in WorkOrders, NEW m \in Materials
  PROVE  Claim(w, m) = ClaimOf(rows[w][m])
BY DEF Claim, ClaimOf, ClaimsOf, RowClaim

-----------------------------------------------------------------------------
(* One row *)

\* The claim of a row is a quantity.
LEMMA RowClaimNat ==
  ASSUME NEW r, RowOK(r)
  PROVE  RowClaim(r) \in Nat /\ Unissued(r) \in Nat /\ RowClaim(r) =< Unissued(r)
BY DEF RowClaim, Unissued, RowOK, Row

\* What is issued of a row is no longer claimed, and no more than that.
LEMMA IssueRowClaim ==
  ASSUME NEW r, RowOK(r), NEW n \in Nat, n =< r.quantity - r.issued
  PROVE  RowClaim(r) =< RowClaim(AfterIssue(r, n)) + n
<1>1. /\ r \in Row /\ r.quantity \in Nat /\ r.issued \in Nat /\ r.issued =< r.quantity
  BY DEF RowOK, Row
<1>2. CASE n = 0
  BY <1>1, <1>2, RowClaimNat DEF AfterIssue
<1>3. CASE n # 0
  <2> DEFINE st == IF r.issued + n >= r.quantity THEN "ISSUED" ELSE "PARTIALLY_ISSUED"
             z == [r EXCEPT !.issued = @ + n, !.status = st]
  <2>1. AfterIssue(r, n) = z
    BY <1>3 DEF AfterIssue
  <2>2. z.quantity = r.quantity /\ z.issued = r.issued + n /\ z.status = st
    BY <1>1 DEF Row
  <2> HIDE DEF z
  <2>3. ~ Cancelled(z)
    BY <1>1, <2>2 DEF Cancelled
  <2>4. RowClaim(z) = r.quantity - (r.issued + n)
    BY <2>2, <2>3 DEF RowClaim, Unissued
  <2>5. RowClaim(r) =< r.quantity - r.issued /\ RowClaim(r) \in Nat
    BY RowClaimNat DEF Unissued
  <2> QED  BY <1>1, <2>1, <2>4, <2>5
<1> QED  BY <1>2, <1>3

\* Consumption takes nothing from the claim of a row.
LEMMA ConsumeRowClaim ==
  ASSUME NEW r, RowOK(r), NEW n \in Nat
  PROVE  RowClaim(r) =< RowClaim(AfterConsume(r, n))
<1>1. /\ r \in Row /\ r.quantity \in Nat /\ r.issued \in Nat /\ r.issued =< r.quantity
  BY DEF RowOK, Row
<1>2. CASE n = 0
  BY <1>1, <1>2, RowClaimNat DEF AfterConsume
<1>3. CASE n # 0
  <2> DEFINE st == IF r.consumed + n >= r.quantity THEN "CONSUMED" ELSE "PARTIALLY_CONSUMED"
             z == [r EXCEPT !.consumed = @ + n, !.status = st]
  <2>1. AfterConsume(r, n) = z
    BY <1>3 DEF AfterConsume
  <2>2. z.quantity = r.quantity /\ z.issued = r.issued /\ z.status = st
    BY <1>1 DEF Row
  <2> HIDE DEF z
  <2>3. ~ Cancelled(z)
    BY <2>2 DEF Cancelled
  <2>4. RowClaim(z) = Unissued(r)
    BY <2>2, <2>3 DEF RowClaim, Unissued
  <2> QED  BY <2>1, <2>4, RowClaimNat
<1> QED  BY <1>2, <1>3

\* Nor does a return: a row that got units back had some issued.
LEMMA ReturnRowClaim ==
  ASSUME NEW r, RowOK(r), NEW n \in Nat, n =< r.issued - r.consumed - r.returned
  PROVE  RowClaim(r) =< RowClaim(AfterReturn(r, n))
<1>1. /\ r \in Row /\ r.quantity \in Nat /\ r.issued \in Nat /\ r.issued =< r.quantity
      /\ r.consumed \in Nat /\ r.returned \in Nat
  BY DEF RowOK, Row
<1>2. CASE n = 0
  BY <1>1, <1>2, RowClaimNat DEF AfterReturn
<1>3. CASE n # 0
  <2> DEFINE st == IF r.consumed = 0 /\ r.returned + n >= r.issued THEN "RETURNED"
                   ELSE IF r.consumed >= r.quantity THEN "CONSUMED"
                   ELSE IF r.consumed > 0 THEN "PARTIALLY_CONSUMED"
                   ELSE "PARTIALLY_ISSUED"
             z == [r EXCEPT !.returned = @ + n, !.status = st]
  <2>1. AfterReturn(r, n) = z
    BY <1>3 DEF AfterReturn
  <2>2. z.quantity = r.quantity /\ z.issued = r.issued /\ z.status = st
    BY <1>1 DEF Row
  <2>3. r.issued > 0 /\ st # "ISSUED"
    BY <1>1, <1>3
  <2> HIDE DEF z, st
  <2>4. ~ Cancelled(z)
    BY <1>1, <2>2, <2>3 DEF Cancelled
  <2>5. RowClaim(z) = Unissued(r)
    BY <2>2, <2>4 DEF RowClaim, Unissued
  <2> QED  BY <2>1, <2>5, RowClaimNat
<1> QED  BY <1>2, <1>3

\* What a cancelled row gives back covers what it no longer claims.
LEMMA CancelRowClaim ==
  ASSUME NEW r, RowOK(r), NEW n \in Nat,
         n = IF r.status \in {"RESERVED", "PARTIALLY_ISSUED"} THEN Positive(Unissued(r)) ELSE 0
  PROVE  RowClaim(r) =< RowClaim(AfterCancel(r, n)) + n
<1>1. /\ r \in Row /\ RowClaim(r) \in Nat /\ Unissued(r) \in Nat /\ RowClaim(r) =< Unissued(r)
  BY RowClaimNat DEF RowOK
<1>2. CASE n = 0
  BY <1>1, <1>2 DEF AfterCancel
<1>3. CASE n # 0
  <2>1. n = Unissued(r)
    BY <1>1, <1>3 DEF Positive
  <2>2. RowOK(AfterCancel(r, n))
    BY CancelRow
  <2>3. RowClaim(AfterCancel(r, n)) \in Nat
    BY <2>2, RowClaimNat
  <2> QED  BY <1>1, <2>1, <2>3
<1> QED  BY <1>2, <1>3

-----------------------------------------------------------------------------
(* The rows of a line *)

\* The claims of a line are quantities, to be summed.
LEMMA ClaimsNat ==
  ASSUME NEW s \in Seq(Row), \A i \in DOMAIN s : RowOK(s[i])
  PROVE  /\ IsFiniteSet(DOMAIN s)
         /\ ClaimsOf(s) \in [DOMAIN s -> Nat]
         /\ ClaimOf(s) \in Nat
<1>1. \A i \in DOMAIN s : RowClaim(s[i]) \in Nat
  BY RowClaimNat
<1>2. ClaimsOf(s) \in [DOMAIN s -> Nat]
  BY <1>1 DEF ClaimsOf
<1> QED  BY <1>2, Columns, UnitsFinite DEF ClaimOf

\* A sum bounded term by term by two others.
LEMMA TotalBoth ==
  ASSUME NEW D, IsFiniteSet(D),
         NEW e \in [D -> Nat], NEW f \in [D -> Nat], NEW g \in [D -> Nat],
         \A x \in D : e[x] =< f[x] + g[x]
  PROVE  Total(e) =< Total(f) + Total(g)
<1> DEFINE h == [x \in D |-> f[x] + g[x]]
<1>1. h \in [D -> Nat] /\ \A x \in D : h[x] = f[x] + g[x]
  OBVIOUS
<1>2. \A x \in D : e[x] =< h[x]
  BY <1>1
<1> HIDE DEF h
<1>3. Total(h) = Total(f) + Total(g)
  BY <1>1, TotalAdd
<1>4. Total(e) =< Total(h)
  BY <1>1, <1>2, TotalMonotone
<1> QED  BY <1>3, <1>4

\* z claims what s claims, row by row, except for what t takes.
LEMMA ClaimsLess ==
  ASSUME NEW s \in Seq(Row), \A i \in DOMAIN s : RowOK(s[i]),
         NEW z \in Seq(Row), \A i \in DOMAIN z : RowOK(z[i]), DOMAIN z = DOMAIN s,
         NEW t \in [DOMAIN s -> Nat],
         \A i \in DOMAIN s : RowClaim(s[i]) =< RowClaim(z[i]) + t[i]
  PROVE  ClaimOf(s) =< ClaimOf(z) + Total(t)
<1>1. /\ IsFiniteSet(DOMAIN s)
      /\ ClaimsOf(s) \in [DOMAIN s -> Nat] /\ ClaimsOf(z) \in [DOMAIN s -> Nat]
  BY ClaimsNat
<1>2. \A i \in DOMAIN s : ClaimsOf(s)[i] =< ClaimsOf(z)[i] + t[i]
  BY DEF ClaimsOf
<1> QED  BY <1>1, <1>2, TotalBoth DEF ClaimOf

\* The books of a line, without its totals.
LEMMA LineRows ==
  ASSUME NEW s, NEW a, NEW b, LineOK(s, a, b)
  PROVE  s \in Seq(Row) /\ \A i \in DOMAIN s : RowOK(s[i])
BY DEF LineOK

\* Issuing n units takes at most n from the claim of a line.
LEMMA IssueLineClaim ==
  ASSUME NEW s, NEW a, NEW b, LineOK(s, a, b),
         NEW n \in Nat, NEW t \in FifoTakes(IssuableOf(s), n)
  PROVE  ClaimOf(s) =< ClaimOf(IssueRows(s, t)) + n
<1> DEFINE z == IssueRows(s, t)
<1>1. s \in Seq(Row) /\ \A i \in DOMAIN s : RowOK(s[i])
  BY LineRows
<1>2. LineOK(z, a + n, b)
  BY IssueLine
<1>3. z \in Seq(Row) /\ \A i \in DOMAIN z : RowOK(z[i])
  BY <1>2, LineRows
<1>4. /\ t \in [DOMAIN s -> Nat] /\ Total(t) = n
      /\ \A i \in DOMAIN s : t[i] =< IssuableOf(s)[i]
  BY TakeBounds DEF IssuableOf
<1>5. \A i \in DOMAIN s : t[i] =< s[i].quantity - s[i].issued
  BY <1>1, <1>4 DEF IssuableOf, Positive, Unissued, RowOK, Row
<1>6. DOMAIN z = DOMAIN s /\ \A i \in DOMAIN s : z[i] = AfterIssue(s[i], t[i])
  BY DEF IssueRows
<1> HIDE DEF z
<1>7. \A i \in DOMAIN s : RowClaim(s[i]) =< RowClaim(z[i]) + t[i]
  BY <1>1, <1>4, <1>5, <1>6, IssueRowClaim
<1>8. ClaimOf(s) =< ClaimOf(z) + n
  BY <1>1, <1>3, <1>4, <1>6, <1>7, ClaimsLess
<1> QED  BY <1>8 DEF z

\* z claims at least what s claims, row by row.
LEMMA ClaimsKept ==
  ASSUME NEW s \in Seq(Row), \A i \in DOMAIN s : RowOK(s[i]),
         NEW z \in Seq(Row), \A i \in DOMAIN z : RowOK(z[i]), DOMAIN z = DOMAIN s,
         \A i \in DOMAIN s : RowClaim(s[i]) =< RowClaim(z[i])
  PROVE  ClaimOf(s) =< ClaimOf(z)
<1>1. /\ IsFiniteSet(DOMAIN s)
      /\ ClaimsOf(s) \in [DOMAIN s -> Nat] /\ ClaimsOf(z) \in [DOMAIN s -> Nat]
  BY ClaimsNat
<1>2. \A i \in DOMAIN s : ClaimsOf(s)[i] =< ClaimsOf(z)[i]
  BY DEF ClaimsOf
<1> QED  BY <1>1, <1>2, TotalMonotone DEF ClaimOf

\* Consumption takes nothing from the claim of a line.
LEMMA ConsumeLineClaim ==
  ASSUME NEW s, NEW a, NEW b, LineOK(s, a, b),
         NEW n \in Nat, NEW t \in FifoTakes(ConsumableOf(s), n)
  PROVE  ClaimOf(s) =< ClaimOf(ConsumeRows(s, t))
<1> DEFINE z == ConsumeRows(s, t)
<1>1. s \in Seq(Row) /\ \A i \in DOMAIN s : RowOK(s[i])
  BY LineRows
<1>2. LineOK(z, a, b + n)
  BY ConsumeLine
<1>3. z \in Seq(Row) /\ \A i \in DOMAIN z : RowOK(z[i])
  BY <1>2, LineRows
<1>4. t \in [DOMAIN s -> Nat]
  BY TakeBounds DEF ConsumableOf
<1>5. DOMAIN z = DOMAIN s /\ \A i \in DOMAIN s : z[i] = AfterConsume(s[i], t[i])
  BY DEF ConsumeRows
<1> HIDE DEF z
<1>6. \A i \in DOMAIN s : RowClaim(s[i]) =< RowClaim(z[i])
  BY <1>1, <1>4, <1>5, ConsumeRowClaim
<1>7. ClaimOf(s) =< ClaimOf(z)
  BY <1>1, <1>3, <1>5, <1>6, ClaimsKept
<1> QED  BY <1>7 DEF z

\* Nor does a return.
LEMMA ReturnLineClaim ==
  ASSUME NEW s, NEW a, NEW b, LineOK(s, a, b),
         NEW n \in Nat, NEW t \in FifoTakes(ReturnableOf(s), n)
  PROVE  ClaimOf(s) =< ClaimOf(ReturnRows(s, t))
<1> DEFINE z == ReturnRows(s, t)
<1>1. s \in Seq(Row) /\ \A i \in DOMAIN s : RowOK(s[i])
  BY LineRows
<1>2. LineOK(z, a - n, b)
  BY ReturnLine
<1>3. z \in Seq(Row) /\ \A i \in DOMAIN z : RowOK(z[i])
  BY <1>2, LineRows
<1>4. /\ t \in [DOMAIN s -> Nat]
      /\ \A i \in DOMAIN s : t[i] =< ReturnableOf(s)[i]
  BY TakeBounds DEF ReturnableOf
<1>5. \A i \in DOMAIN s : t[i] =< s[i].issued - s[i].consumed - s[i].returned
  BY <1>1, <1>4 DEF ReturnableOf, Positive, Unused, RowOK, Row
<1>6. DOMAIN z = DOMAIN s /\ \A i \in DOMAIN s : z[i] = AfterReturn(s[i], t[i])
  BY DEF ReturnRows
<1> HIDE DEF z
<1>7. \A i \in DOMAIN s : RowClaim(s[i]) =< RowClaim(z[i])
  BY <1>1, <1>4, <1>5, <1>6, ReturnRowClaim
<1>8. ClaimOf(s) =< ClaimOf(z)
  BY <1>1, <1>3, <1>6, <1>7, ClaimsKept
<1> QED  BY <1>8 DEF z

\* Cancelling takes from the claim of a line at most what its rows give back.
LEMMA CancelLineClaim ==
  ASSUME NEW s, NEW a, NEW b, LineOK(s, a, b)
  PROVE  ClaimOf(s) =< ClaimOf(CancelRows(s)) + Total(CancellableOf(s))
<1> DEFINE z == CancelRows(s)
           t == CancellableOf(s)
<1>1. s \in Seq(Row) /\ \A i \in DOMAIN s : RowOK(s[i])
  BY LineRows
<1>2. LineOK(z, a, b)
  BY CancelLine
<1>3. z \in Seq(Row) /\ \A i \in DOMAIN z : RowOK(z[i])
  BY <1>2, LineRows
<1>4. /\ DOMAIN z = DOMAIN s /\ \A i \in DOMAIN s : z[i] = AfterCancel(s[i], t[i])
      /\ DOMAIN t = DOMAIN s
      /\ \A i \in DOMAIN s :
           t[i] = IF s[i].status \in {"RESERVED", "PARTIALLY_ISSUED"}
                  THEN Positive(Unissued(s[i])) ELSE 0
  BY DEF CancelRows, CancellableOf
<1>5. t \in [DOMAIN s -> Nat]
  BY <1>1, RowClaimNat DEF CancellableOf, Positive
<1> HIDE DEF z, t
<1>6. ASSUME NEW i \in DOMAIN s
      PROVE  RowClaim(s[i]) =< RowClaim(z[i]) + t[i]
  <2>1. RowOK(s[i]) /\ t[i] \in Nat /\ z[i] = AfterCancel(s[i], t[i])
        /\ t[i] = IF s[i].status \in {"RESERVED", "PARTIALLY_ISSUED"}
                  THEN Positive(Unissued(s[i])) ELSE 0
    BY <1>1, <1>4, <1>5
  <2> QED  BY <2>1, CancelRowClaim
<1>7. ClaimOf(s) =< ClaimOf(z) + Total(t)
  BY <1>1, <1>3, <1>4, <1>5, <1>6, ClaimsLess
<1> QED  BY <1>7 DEF z, t

\* A new row claims its whole quantity.
LEMMA AppendLineClaim ==
  ASSUME NEW s, NEW a, NEW b, LineOK(s, a, b), NEW q \in Nat
  PROVE  ClaimOf(Append(s, NewRow(q))) = ClaimOf(s) + q
<1> DEFINE z == Append(s, NewRow(q))
           E == DOMAIN s
           x == Len(s) + 1
<1>1. s \in Seq(Row) /\ \A i \in DOMAIN s : RowOK(s[i])
  BY LineRows
<1>2. LineOK(z, a, b)
  BY AppendLine
<1>3. z \in Seq(Row) /\ \A i \in DOMAIN z : RowOK(z[i])
  BY <1>2, LineRows
<1>4. NewRow(q) \in Row
  BY DEF NewRow, Row, RowStatus
<1>5. /\ DOMAIN z = E \cup {x} /\ x \notin E /\ IsFiniteSet(E)
      /\ z[x] = NewRow(q) /\ \A i \in E : z[i] = s[i]
  <2>1. Len(s) \in Nat /\ E = 1..Len(s) /\ Len(z) = Len(s) + 1 /\ DOMAIN z = 1..Len(z)
    BY <1>1, <1>4, <1>3
  <2>2. z[x] = NewRow(q) /\ \A i \in E : z[i] = s[i]
    BY <1>1, <1>4, <2>1
  <2>3. DOMAIN z = E \cup {x} /\ x \notin E
    BY <2>1
  <2> QED  BY <2>2, <2>3, <1>1, Columns
<1>6. RowClaim(NewRow(q)) = q
  <2>1. NewRow(q).status = "RESERVED" /\ NewRow(q).quantity = q /\ NewRow(q).issued = 0
    BY DEF NewRow
  <2> QED  BY <2>1 DEF RowClaim, Cancelled, Unissued
<1> HIDE DEF z, E, x
<1>7. ClaimsOf(s) \in [E -> Nat] /\ ClaimsOf(z) \in [E \cup {x} -> Nat]
  BY <1>1, <1>3, <1>5, ClaimsNat DEF E
<1>8. ClaimsOf(z)[x] = q /\ \A i \in E : ClaimsOf(z)[i] = ClaimsOf(s)[i]
  BY <1>5, <1>6 DEF ClaimsOf, E
<1>9. ClaimOf(z) = ClaimOf(s) + q
  BY <1>5, <1>7, <1>8, TotalSplit DEF ClaimOf
<1> QED  BY <1>9 DEF z

-----------------------------------------------------------------------------
(* What a step does to the reserved stock *)

\* reserved_stock grows by no more than the claims of w do, or nothing is left of it.
Serves(w) ==
  /\ \A v \in WorkOrders \ {w} : rows'[v] = rows[v]
  /\ \A m \in Materials :
       \/ reservedStock'[m] = 0
       \/ reservedStock'[m] + ClaimOf(rows[w][m]) =< reservedStock[m] + ClaimOf(rows'[w][m])

\* The stock of every material covers its reservations after the step if it did before.
Covers == ReservedWithinStock => ReservedWithinStock'

LEMMA ClaimNat ==
  ASSUME Inv, NEW w \in WorkOrders, NEW m \in Materials
  PROVE  /\ ClaimOf(rows[w][m]) \in Nat
         /\ LineOK(rows[w][m], lineIssued[w][m], posted[w][m])
<1>1. LineOK(rows[w][m], lineIssued[w][m], posted[w][m])
  BY InvParts DEF Lines
<1> QED  BY <1>1, LineRows, ClaimsNat

LEMMA ClaimNatNext ==
  ASSUME Inv', NEW w \in WorkOrders, NEW m \in Materials
  PROVE  ClaimOf(rows'[w][m]) \in Nat
<1> DEFINE s == rows'[w][m]
<1>1. s \in Seq(Row) /\ \A i \in DOMAIN s : RowOK(s[i])
  BY DEF Inv, TypeOK, Quantities, RowAccounting, RowOK
<1> HIDE DEF s
<1>2. ClaimOf(s) \in Nat
  BY <1>1, ClaimsNat
<1> QED  BY <1>2 DEF s

\* Claims added up over the work orders.
LEMMA ServesBacked ==
  ASSUME Inv, Inv', ReservedBacked, NEW w \in WorkOrders, Serves(w)
  PROVE  ReservedBacked'
<1> SUFFICES ASSUME NEW m \in Materials
             PROVE  reservedStock'[m] =< Total([v \in WorkOrders |-> ClaimOf(rows'[v][m])])
  BY DEF ReservedBacked, Claim, ClaimOf, ClaimsOf, RowClaim
<1> DEFINE f == [v \in WorkOrders |-> ClaimOf(rows[v][m])]
           g == [v \in WorkOrders |-> ClaimOf(rows'[v][m])]
<1>1. /\ f \in [WorkOrders -> Nat] /\ g \in [WorkOrders -> Nat]
      /\ f[w] = ClaimOf(rows[w][m]) /\ g[w] = ClaimOf(rows'[w][m])
  BY ClaimNat, ClaimNatNext
<1>2. \A v \in WorkOrders \ {w} : g[v] = f[v]
  BY DEF Serves
<1>3. reservedStock[m] =< Total(f)
  BY DEF ReservedBacked, Claim, ClaimOf, ClaimsOf, RowClaim
<1>4. reservedStock[m] \in Nat /\ reservedStock'[m] \in Nat
  BY DEF Inv, TypeOK
<1> HIDE DEF f, g
<1>5. Total(g) + f[w] = Total(f) + g[w]
  BY <1>1, <1>2, FiniteInstances, TotalUpdate
<1>6. Total(f) \in Nat /\ Total(g) \in Nat
  BY <1>1, FiniteInstances, UnitsFinite
<1>7. reservedStock'[m] = 0 \/ reservedStock'[m] + f[w] =< reservedStock[m] + g[w]
  BY <1>1 DEF Serves
<1>8. f[w] \in Nat /\ g[w] \in Nat
  BY <1>1
<1>9. reservedStock'[m] =< Total(g)
  BY <1>3, <1>4, <1>5, <1>6, <1>7, <1>8
<1> QED  BY <1>9 DEF g

LEMMA RowsAlone ==
  ASSUME Inv, ReservedBacked, UNCHANGED <<rows, reservedStock>>
  PROVE  ReservedBacked'
BY DEF ReservedBacked, Claim

\* What a request in progress finds, and leaves, when nothing came in between.
LEMMA Fresh ==
  ASSUME TypeOK, SeenCurrent, NEW w \in WorkOrders, request[w] # "NONE",
         NEW m \in Materials, NEW n \in Nat
  PROVE  /\ InHand(w, m) = onHand[m]
         /\ seen[w].reserved[m] = reservedStock[m]
         /\ Drawn(w, m, n) = onHand[m] - n
         /\ ReservedLess(w, m, n) = Released(reservedStock[m], n)
BY DEF SeenCurrent, InHand, Drawn, ReservedLess, Written

-----------------------------------------------------------------------------
(* Reservations *)

LEMMA GrantServes ==
  ASSUME Inv, SeenCurrent, NEW w \in WorkOrders, request[w] # "NONE", ReserveLines(w)
  PROVE  Serves(w) /\ Covers
<1>1. TypeOK
  BY InvParts
<1>2. rows \in [WorkOrders -> [Materials -> Seq(Row)]]
  BY <1>1 DEF TypeOK, Quantities
<1>3. \A v \in WorkOrders \ {w} : rows'[v] = rows[v]
  BY <1>2 DEF ReserveLines
<1>4. ASSUME NEW m \in Materials
      PROVE  /\ reservedStock'[m] = reservedStock[m] + GrantOf(w, m)
             /\ ClaimOf(rows'[w][m]) = ClaimOf(rows[w][m]) + GrantOf(w, m)
             /\ reservedStock[m] =< onHand[m] => reservedStock'[m] =< onHand'[m]
             /\ reservedStock[m] \in Nat /\ GrantOf(w, m) \in Nat
             /\ ClaimOf(rows[w][m]) \in Nat
  <2> DEFINE g == GrantOf(w, m)
  <2>1. /\ g \in Nat /\ reservedStock[m] \in Nat /\ onHand[m] \in Nat
        /\ NeedOf(w, m) \in Nat
    BY <1>1, GrantNat DEF TypeOK
  <2>2. InHand(w, m) = onHand[m] /\ seen[w].reserved[m] = reservedStock[m]
    BY <1>1, Fresh
  <2>3. g =< Positive(onHand[m] - reservedStock[m])
    <3>1. g = Least(NeedOf(w, m), Positive(onHand[m] - reservedStock[m]))
      BY <2>2 DEF GrantOf, Available
    <3> QED  BY <2>1, <3>1 DEF Least, Positive
  <2>4. /\ reservedStock'[m] = IF g > 0 THEN seen[w].reserved[m] + g ELSE reservedStock[m]
        /\ onHand' = onHand
        /\ rows'[w][m] = IF g > 0 THEN Append(rows[w][m], NewRow(g)) ELSE rows[w][m]
    BY <1>2 DEF ReserveLines, AppendRows
  <2> HIDE DEF g
  <2>5. reservedStock'[m] = reservedStock[m] + g
    BY <2>1, <2>2, <2>4
  <2>6. /\ ClaimOf(rows[w][m]) \in Nat
        /\ ClaimOf(Append(rows[w][m], NewRow(g))) = ClaimOf(rows[w][m]) + g
    BY <2>1, ClaimNat, AppendLineClaim
  <2>7. ClaimOf(rows'[w][m]) = ClaimOf(rows[w][m]) + g
    BY <2>1, <2>4, <2>6
  <2>8. reservedStock[m] =< onHand[m] => reservedStock'[m] =< onHand'[m]
    BY <2>1, <2>3, <2>4, <2>5 DEF Positive
  <2> QED  BY <2>1, <2>5, <2>6, <2>7, <2>8 DEF g
<1>5. Serves(w)
  BY <1>3, <1>4 DEF Serves
<1> QED  BY <1>4, <1>5 DEF Covers, ReservedWithinStock

LEMMA StorekeeperServes ==
  ASSUME Inv, NEW w \in WorkOrders, NEW m \in Materials, NEW n \in 1..MaxStock,
         StorekeeperReserve(w, m, n)
  PROVE  Serves(w) /\ Covers
<1>1. /\ TypeOK /\ n \in Nat
  BY InvParts, BoundAssumption
<1>2. /\ rows \in [WorkOrders -> [Materials -> Seq(Row)]]
      /\ onHand \in [Materials -> Nat] /\ reservedStock \in [Materials -> Nat]
  BY <1>1 DEF TypeOK, Quantities
<1>3. /\ n =< Positive(onHand[m] - reservedStock[m])
      /\ rows' = [rows EXCEPT ![w][m] = Append(@, NewRow(n))]
      /\ reservedStock' = [reservedStock EXCEPT ![m] = @ + n]
      /\ onHand' = onHand
  BY DEF StorekeeperReserve, Available
<1>4. ClaimOf(Append(rows[w][m], NewRow(n))) = ClaimOf(rows[w][m]) + n
  BY <1>1, ClaimNat, AppendLineClaim
<1>5. /\ \A v \in WorkOrders \ {w} : rows'[v] = rows[v]
      /\ rows'[w][m] = Append(rows[w][m], NewRow(n))
      /\ \A k \in Materials \ {m} : rows'[w][k] = rows[w][k]
  BY <1>2, <1>3
<1>6. /\ reservedStock'[m] = reservedStock[m] + n
      /\ \A k \in Materials \ {m} : reservedStock'[k] = reservedStock[k]
  BY <1>2, <1>3
<1>7. ASSUME NEW k \in Materials
      PROVE  /\ reservedStock'[k] + ClaimOf(rows[w][k])
                  =< reservedStock[k] + ClaimOf(rows'[w][k])
             /\ reservedStock[k] =< onHand[k] => reservedStock'[k] =< onHand'[k]
  <2>1. ClaimOf(rows[w][k]) \in Nat /\ reservedStock[k] \in Nat /\ onHand[k] \in Nat
    BY <1>2, ClaimNat
  <2>2. CASE k = m
    BY <1>1, <1>3, <1>4, <1>5, <1>6, <2>1, <2>2 DEF Positive
  <2>3. CASE k # m
    BY <1>3, <1>5, <1>6, <2>1, <2>3
  <2> QED  BY <2>2, <2>3
<1>8. Serves(w)
  BY <1>5, <1>7 DEF Serves
<1> QED  BY <1>7, <1>8 DEF Covers, ReservedWithinStock

-----------------------------------------------------------------------------
(* Issues, returns, cancellations, postings *)

\* What reserved_stock and the stock become when n units are taken of both.
LEMMA DrawnTogether ==
  ASSUME NEW reserved \in Nat, NEW stock \in Nat, NEW n \in Nat, n =< stock
  PROVE  /\ Released(reserved, n) = 0 \/ Released(reserved, n) + n =< reserved
         /\ reserved =< stock => Released(reserved, n) =< stock - n
         /\ Released(reserved, n) =< reserved
BY DEF Released, Positive

LEMMA IssueServes ==
  ASSUME Inv, SeenCurrent, NEW w \in WorkOrders, NEW m \in Materials, NEW n \in 1..MaxStock,
         IssueMaterial(w, m, n)
  PROVE  Serves(w) /\ Covers
<1>1. TypeOK /\ n \in Nat
  BY InvParts, BoundAssumption
<1>2. /\ rows \in [WorkOrders -> [Materials -> Seq(Row)]]
      /\ onHand \in [Materials -> Nat] /\ reservedStock \in [Materials -> Nat]
  BY <1>1 DEF TypeOK, Quantities
<1> DEFINE t == Fifo(IssuableOf(rows[w][m]), n)
<1>3. /\ request[w] # "NONE" /\ n =< InHand(w, m)
      /\ CanTake(IssuableOf(rows[w][m]), n)
      /\ rows' = [rows EXCEPT ![w][m] = IssueRows(@, t)]
      /\ onHand' = [onHand EXCEPT ![m] = Drawn(w, m, n)]
      /\ reservedStock' = [reservedStock EXCEPT ![m] = ReservedLess(w, m, n)]
  BY <1>2 DEF IssueMaterial, CanIssue
<1>4. t \in FifoTakes(IssuableOf(rows[w][m]), n)
  BY <1>3, FifoIsTake
<1> HIDE DEF t
<1>5. ClaimOf(rows[w][m]) =< ClaimOf(IssueRows(rows[w][m], t)) + n
  BY <1>1, <1>4, ClaimNat, IssueLineClaim
<1>6. LineOK(IssueRows(rows[w][m], t), lineIssued[w][m] + n, posted[w][m])
  BY <1>1, <1>4, ClaimNat, IssueLine
<1>7. ClaimOf(IssueRows(rows[w][m], t)) \in Nat
  BY <1>6, LineRows, ClaimsNat
<1>8. /\ \A v \in WorkOrders \ {w} : rows'[v] = rows[v]
      /\ rows'[w][m] = IssueRows(rows[w][m], t)
      /\ \A k \in Materials \ {m} : rows'[w][k] = rows[w][k]
  BY <1>2, <1>3
<1>9. /\ n =< onHand[m]
      /\ onHand'[m] = onHand[m] - n
      /\ reservedStock'[m] = Released(reservedStock[m], n)
      /\ \A k \in Materials \ {m} : reservedStock'[k] = reservedStock[k] /\ onHand'[k] = onHand[k]
  BY <1>1, <1>2, <1>3, Fresh
<1>10. ASSUME NEW k \in Materials
       PROVE  /\ \/ reservedStock'[k] = 0
                 \/ reservedStock'[k] + ClaimOf(rows[w][k])
                      =< reservedStock[k] + ClaimOf(rows'[w][k])
              /\ reservedStock[k] =< onHand[k] => reservedStock'[k] =< onHand'[k]
  <2>1. ClaimOf(rows[w][k]) \in Nat /\ reservedStock[k] \in Nat /\ onHand[k] \in Nat
    BY <1>2, ClaimNat
  <2>2. CASE k = m
    <3>1. Released(reservedStock[m], n) \in Nat
      BY <1>1, <1>2, ReleasedNat
    <3>2. /\ \/ Released(reservedStock[m], n) = 0
             \/ Released(reservedStock[m], n) + n =< reservedStock[m]
          /\ reservedStock[m] =< onHand[m] =>
               Released(reservedStock[m], n) =< onHand[m] - n
      BY <1>1, <1>2, <1>9, DrawnTogether
    <3>3. \/ reservedStock'[m] = 0
          \/ reservedStock'[m] + ClaimOf(rows[w][m])
               =< reservedStock[m] + ClaimOf(rows'[w][m])
      BY <1>1, <1>5, <1>7, <1>8, <1>9, <2>1, <2>2, <3>1, <3>2
    <3> QED  BY <1>9, <2>2, <3>2, <3>3
  <2>3. CASE k # m
    BY <1>8, <1>9, <2>1, <2>3
  <2> QED  BY <2>2, <2>3
<1>11. Serves(w)
  BY <1>8, <1>10 DEF Serves
<1> QED  BY <1>10, <1>11 DEF Covers, ReservedWithinStock

LEMMA ReturnServes ==
  ASSUME Inv, NEW w \in WorkOrders, NEW m \in Materials, NEW n \in 1..MaxStock,
         ReturnMaterial(w, m, n)
  PROVE  Serves(w) /\ Covers
<1>1. TypeOK /\ n \in Nat
  BY InvParts, BoundAssumption
<1>2. /\ rows \in [WorkOrders -> [Materials -> Seq(Row)]]
      /\ onHand \in [Materials -> Nat] /\ reservedStock \in [Materials -> Nat]
  BY <1>1 DEF TypeOK, Quantities
<1> DEFINE t == Fifo(ReturnableOf(rows[w][m]), n)
<1>3. /\ CanTake(ReturnableOf(rows[w][m]), n)
      /\ rows' = [rows EXCEPT ![w][m] = ReturnRows(@, t)]
      /\ onHand' = [onHand EXCEPT ![m] = @ + n]
      /\ reservedStock' = reservedStock
  BY <1>2 DEF ReturnMaterial
<1>4. t \in FifoTakes(ReturnableOf(rows[w][m]), n)
  BY <1>3, FifoIsTake
<1> HIDE DEF t
<1>5. ClaimOf(rows[w][m]) =< ClaimOf(ReturnRows(rows[w][m], t))
  BY <1>1, <1>4, ClaimNat, ReturnLineClaim
<1>6. LineOK(ReturnRows(rows[w][m], t), lineIssued[w][m] - n, posted[w][m])
  BY <1>1, <1>4, ClaimNat, ReturnLine
<1>7. ClaimOf(ReturnRows(rows[w][m], t)) \in Nat
  BY <1>6, LineRows, ClaimsNat
<1>8. /\ \A v \in WorkOrders \ {w} : rows'[v] = rows[v]
      /\ rows'[w][m] = ReturnRows(rows[w][m], t)
      /\ \A k \in Materials \ {m} : rows'[w][k] = rows[w][k]
  BY <1>2, <1>3
<1>9. ASSUME NEW k \in Materials
      PROVE  /\ reservedStock'[k] + ClaimOf(rows[w][k])
                  =< reservedStock[k] + ClaimOf(rows'[w][k])
             /\ reservedStock[k] =< onHand[k] => reservedStock'[k] =< onHand'[k]
  <2>1. /\ ClaimOf(rows[w][k]) \in Nat /\ reservedStock[k] \in Nat /\ onHand[k] \in Nat
        /\ onHand'[k] = IF k = m THEN onHand[k] + n ELSE onHand[k]
    BY <1>2, <1>3, ClaimNat
  <2>2. ClaimOf(rows[w][k]) =< ClaimOf(rows'[w][k]) /\ ClaimOf(rows'[w][k]) \in Nat
    <3>1. CASE k = m
      BY <1>5, <1>7, <1>8, <3>1
    <3>2. CASE k # m
      BY <1>8, <2>1, <3>2
    <3> QED  BY <3>1, <3>2
  <2> QED  BY <1>1, <1>3, <2>1, <2>2
<1>10. Serves(w)
  BY <1>8, <1>9 DEF Serves
<1> QED  BY <1>9, <1>10 DEF Covers, ReservedWithinStock

\* What the rows of a line give back when they are cancelled leaves reserved_stock.
LEMMA CancelledTogether ==
  ASSUME Inv, NEW w \in WorkOrders, NEW m \in Materials,
         rows'[w][m] = CancelRows(rows[w][m]),
         reservedStock'[m] = Released(reservedStock[m], Total(CancellableOf(rows[w][m])))
  PROVE  /\ \/ reservedStock'[m] = 0
            \/ reservedStock'[m] + ClaimOf(rows[w][m]) =< reservedStock[m] + ClaimOf(rows'[w][m])
         /\ reservedStock'[m] =< reservedStock[m]
<1> DEFINE n == Total(CancellableOf(rows[w][m]))
<1>1. LineOK(rows[w][m], lineIssued[w][m], posted[w][m]) /\ ClaimOf(rows[w][m]) \in Nat
  BY ClaimNat
<1>2. ClaimOf(rows[w][m]) =< ClaimOf(rows'[w][m]) + n
  BY <1>1, CancelLineClaim
<1>3. ClaimOf(rows'[w][m]) \in Nat
  <2>1. LineOK(rows'[w][m], lineIssued[w][m], posted[w][m])
    BY <1>1, CancelLine
  <2> QED  BY <2>1, LineRows, ClaimsNat
<1>4. n \in Nat /\ reservedStock[m] \in Nat
  BY InvParts, CancellableNat DEF TypeOK
<1> HIDE DEF n
<1>5. reservedStock'[m] = Positive(reservedStock[m] - n)
  BY DEF Released, n
<1> QED  BY <1>1, <1>2, <1>3, <1>4, <1>5 DEF Positive

LEMMA RejectServes ==
  ASSUME Inv, NEW w \in WorkOrders, NEW m \in Materials, RejectIssue(w, m)
  PROVE  Serves(w) /\ Covers
<1>1. /\ rows \in [WorkOrders -> [Materials -> Seq(Row)]]
      /\ onHand \in [Materials -> Nat] /\ reservedStock \in [Materials -> Nat]
  BY InvParts DEF TypeOK, Quantities
<1>2. /\ \A v \in WorkOrders \ {w} : rows'[v] = rows[v]
      /\ rows'[w][m] = CancelRows(rows[w][m])
      /\ \A k \in Materials \ {m} : rows'[w][k] = rows[w][k]
  BY <1>1 DEF RejectIssue
<1>3. /\ reservedStock'[m] = Released(reservedStock[m], Total(CancellableOf(rows[w][m])))
      /\ \A k \in Materials \ {m} : reservedStock'[k] = reservedStock[k]
      /\ onHand' = onHand
  BY <1>1 DEF RejectIssue
<1>4. ASSUME NEW k \in Materials
      PROVE  /\ \/ reservedStock'[k] = 0
                \/ reservedStock'[k] + ClaimOf(rows[w][k])
                     =< reservedStock[k] + ClaimOf(rows'[w][k])
             /\ reservedStock'[k] =< reservedStock[k]
  <2>1. CASE k = m
    BY <1>2, <1>3, <2>1, CancelledTogether
  <2>2. CASE k # m
    <3>1. ClaimOf(rows[w][k]) \in Nat /\ reservedStock[k] \in Nat
      BY <1>1, ClaimNat
    <3> QED  BY <1>2, <1>3, <2>2, <3>1
  <2> QED  BY <2>1, <2>2
<1>5. Serves(w)
  BY <1>2, <1>4 DEF Serves
<1>6. \A k \in Materials : reservedStock'[k] \in Nat
  <2>1. Total(CancellableOf(rows[w][m])) \in Nat
    BY InvParts, CancellableNat
  <2> QED  BY <1>1, <1>3, <2>1, ReleasedNat
<1>7. Covers
  BY <1>1, <1>3, <1>4, <1>6 DEF Covers, ReservedWithinStock
<1> QED  BY <1>5, <1>7

LEMMA ScrapServes ==
  ASSUME Inv, SeenCurrent, NEW w \in WorkOrders, NEW s, ScrapBatch(w, s)
  PROVE  Serves(w) /\ Covers
<1>1. /\ TypeOK
      /\ rows \in [WorkOrders -> [Materials -> Seq(Row)]]
      /\ onHand \in [Materials -> Nat] /\ reservedStock \in [Materials -> Nat]
  BY InvParts DEF TypeOK, Quantities
<1>2. /\ \A v \in WorkOrders \ {w} : rows'[v] = rows[v]
      /\ \A m \in Materials : rows'[w][m] = CancelRows(rows[w][m])
      /\ onHand' = onHand /\ request[w] # "NONE"
  BY <1>1 DEF ScrapBatch, Decide
<1>3. ASSUME NEW m \in Materials
      PROVE  /\ \/ reservedStock'[m] = 0
                \/ reservedStock'[m] + ClaimOf(rows[w][m])
                     =< reservedStock[m] + ClaimOf(rows'[w][m])
             /\ reservedStock'[m] =< reservedStock[m]
             /\ reservedStock'[m] \in Nat
  <2>1. Total(CancellableOf(rows[w][m])) \in Nat
    BY <1>1, CancellableNat
  <2>2. reservedStock'[m] = ReservedLess(w, m, Total(CancellableOf(rows[w][m])))
    BY DEF ScrapBatch
  <2>3. reservedStock'[m] = Released(reservedStock[m], Total(CancellableOf(rows[w][m])))
    BY <1>1, <1>2, <2>1, <2>2, Fresh
  <2>4. reservedStock'[m] \in Nat
    BY <1>1, <2>1, <2>3, ReleasedNat
  <2> QED  BY <1>2, <2>3, <2>4, CancelledTogether
<1>4. Serves(w)
  BY <1>2, <1>3 DEF Serves
<1>5. Covers
  BY <1>1, <1>2, <1>3 DEF Covers, ReservedWithinStock
<1> QED  BY <1>4, <1>5

\* Production issues what it lacks, line by line, and then consumes.
LEMMA PostServes ==
  ASSUME Inv, SeenCurrent, NEW w \in WorkOrders, NEW p \in Nat, NEW s \in Nat,
         PostOutput(w, p, s)
  PROVE  Serves(w) /\ Covers
<1> DEFINE need  == [m \in Materials |-> ToConsume(w, m, p + s)]
           short == [m \in Materials |->
                       Positive(need[m] - Total(ConsumableOf(rows[w][m])))]
           issued == [m \in Materials |->
                       IssueRows(rows[w][m], Fifo(IssuableOf(rows[w][m]), short[m]))]
           z == [m \in Materials |->
                  ConsumeRows(issued[m], Fifo(ConsumableOf(issued[m]), need[m]))]
<1>1. /\ TypeOK
      /\ rows \in [WorkOrders -> [Materials -> Seq(Row)]]
      /\ onHand \in [Materials -> Nat] /\ reservedStock \in [Materials -> Nat]
  BY InvParts DEF TypeOK, Quantities
<1>2. /\ request[w] # "NONE"
      /\ \A m \in Materials : /\ CanIssue(w, m, short[m])
                              /\ CanTake(ConsumableOf(issued[m]), need[m])
      /\ rows' = [rows EXCEPT ![w] = z]
      /\ onHand' = [m \in Materials |-> Drawn(w, m, short[m])]
      /\ reservedStock' = [m \in Materials |-> ReservedLess(w, m, short[m])]
  BY DEF PostOutput
<1>3. \A m \in Materials : need[m] \in Nat
  <2> SUFFICES ASSUME NEW m \in Materials
               PROVE  ToConsume(w, m, p + s) \in Nat
    OBVIOUS
  <2>1. PerUnit[w][m] \in Nat /\ posted[w][m] \in Nat
    BY <1>1, BomAssumption DEF TypeOK, Quantities
  <2>2. (p + s) * PerUnit[w][m] \in Nat
    BY <2>1, MoreOutput
  <2> QED  BY <2>1, <2>2 DEF ToConsume, Positive
<1>4. \A m \in Materials : short[m] \in Nat
  <2> SUFFICES ASSUME NEW m \in Materials
               PROVE  Positive(need[m] - Total(ConsumableOf(rows[w][m]))) \in Nat
    OBVIOUS
  <2> DEFINE r == rows[w][m]
  <2>1. r \in Seq(Row)
    BY <1>1
  <2> HIDE DEF r
  <2>2. \A i \in DOMAIN r : Unused(r[i]) \in Nat
    <3>1. \A i \in DOMAIN r : r[i] \in Row
      BY <2>1
    <3> QED  BY <3>1 DEF Row, Unused, Positive
  <2>3. ConsumableOf(r) \in [DOMAIN r -> Nat]
    BY <2>2 DEF ConsumableOf
  <2>4. Total(ConsumableOf(r)) \in Nat
    BY <2>1, <2>3, Columns, UnitsFinite
  <2>5. need[m] \in Nat
    BY <1>3
  <2> HIDE DEF need
  <2> QED  BY <2>4, <2>5 DEF Positive, r
<1>5. rows'[w] = z /\ \A v \in WorkOrders \ {w} : rows'[v] = rows[v]
  BY <1>1, <1>2
<1>6. ASSUME NEW m \in Materials
      PROVE  /\ \/ reservedStock'[m] = 0
                \/ reservedStock'[m] + ClaimOf(rows[w][m])
                     =< reservedStock[m] + ClaimOf(rows'[w][m])
             /\ reservedStock[m] =< onHand[m] => reservedStock'[m] =< onHand'[m]
  <2> DEFINE t == Fifo(IssuableOf(rows[w][m]), short[m])
             u == Fifo(ConsumableOf(issued[m]), need[m])
             n == short[m]
  <2>1. issued[m] = IssueRows(rows[w][m], t) /\ rows'[w][m] = ConsumeRows(issued[m], u)
    BY <1>5
  <2>2. /\ n \in Nat /\ need[m] \in Nat
        /\ n =< InHand(w, m)
        /\ CanTake(IssuableOf(rows[w][m]), n)
        /\ CanTake(ConsumableOf(issued[m]), need[m])
    BY <1>2, <1>3, <1>4 DEF CanIssue
  <2>3. /\ t \in FifoTakes(IssuableOf(rows[w][m]), n)
        /\ u \in FifoTakes(ConsumableOf(issued[m]), need[m])
    BY <2>2, FifoIsTake
  <2>4. onHand'[m] = Drawn(w, m, n) /\ reservedStock'[m] = ReservedLess(w, m, n)
    BY <1>2
  <2> HIDE DEF t, u, n, z, issued, need, short
  <2>5. /\ LineOK(rows[w][m], lineIssued[w][m], posted[w][m])
        /\ ClaimOf(rows[w][m]) \in Nat
    BY ClaimNat
  <2>6. LineOK(issued[m], lineIssued[w][m] + n, posted[w][m])
    BY <2>1, <2>2, <2>3, <2>5, IssueLine
  <2>7. ClaimOf(rows[w][m]) =< ClaimOf(issued[m]) + n
    BY <2>1, <2>2, <2>3, <2>5, IssueLineClaim
  <2>8. ClaimOf(issued[m]) =< ClaimOf(rows'[w][m])
    BY <2>1, <2>2, <2>3, <2>6, ConsumeLineClaim
  <2>9. ClaimOf(issued[m]) \in Nat /\ ClaimOf(rows'[w][m]) \in Nat
    <3>1. LineOK(rows'[w][m], lineIssued[w][m] + n, posted[w][m] + need[m])
      BY <2>1, <2>2, <2>3, <2>6, ConsumeLine
    <3> QED  BY <2>6, <3>1, LineRows, ClaimsNat
  <2>10. /\ n =< onHand[m] /\ onHand'[m] = onHand[m] - n
         /\ reservedStock'[m] = Released(reservedStock[m], n)
    BY <1>1, <1>2, <2>2, <2>4, Fresh
  <2>11. onHand[m] \in Nat /\ reservedStock[m] \in Nat
    BY <1>1
  <2>12. /\ reservedStock'[m] \in Nat
         /\ reservedStock'[m] = 0 \/ reservedStock'[m] + n =< reservedStock[m]
         /\ reservedStock[m] =< onHand[m] => reservedStock'[m] =< onHand'[m]
    <3>1. /\ Released(reservedStock[m], n) \in Nat
          /\ \/ Released(reservedStock[m], n) = 0
             \/ Released(reservedStock[m], n) + n =< reservedStock[m]
          /\ reservedStock[m] =< onHand[m] =>
               Released(reservedStock[m], n) =< onHand[m] - n
      BY <2>2, <2>10, <2>11, DrawnTogether, ReleasedNat
    <3> QED  BY <2>10, <3>1
  <2> QED  BY <2>2, <2>5, <2>7, <2>8, <2>9, <2>11, <2>12
<1> HIDE DEF z, issued, need, short
<1>7. Serves(w)
  BY <1>5, <1>6 DEF Serves
<1> QED  BY <1>6, <1>7 DEF Covers, ReservedWithinStock

LEMMA RecordServes ==
  ASSUME Inv, SeenCurrent, NEW w \in WorkOrders,
         NEW p \in 0..Planned[w] + 1, NEW s \in 0..MaxScrap,
         RecordProduction(w, p, s) \/ WorkerRecordProduction(w, p, s)
  PROVE  Serves(w) /\ Covers
<1>1. p \in Nat /\ s \in Nat /\ produced[w] + p \in Nat
  BY InvParts, BoundAssumption, PlanAssumption DEF TypeOK
<1>2. PostOutput(w, produced[w] + p, s) \/ PostOutput(w, p, s)
  BY DEF RecordProduction, WorkerRecordProduction
<1> QED  BY <1>1, <1>2, PostServes

-----------------------------------------------------------------------------
(* Every step *)

\* Steps that leave the rows, the stock and the reserved stock alone.
LEMMA PaperKeeps ==
  ASSUME NEW w \in WorkOrders,
         \/ CreateWorkOrder(w) \/ BeginRelease(w) \/ BeginWork(w) \/ AbandonWork(w)
         \/ FailRelease(w) \/ StartProduction(w) \/ BeginWastage(w)
         \/ (\E n \in 1..MaxScrap : CommitWastage(w, n))
         \/ SubmitForQC(w) \/ (\E d \in Decisions : BeginDecision(w, d))
         \/ RejectInspection(w) \/ SendToRework(w)
  PROVE  UNCHANGED <<rows, onHand, reservedStock>>
BY DEF CreateWorkOrder, BeginRelease, BeginWork, AbandonWork, FailRelease, StartProduction,
       BeginWastage, CommitWastage, SubmitForQC, BeginDecision, RejectInspection,
       SendToRework, Decide, Lock, stockVars, lineVars

\* Stock by hand never takes what is reserved when it is kept in current_stock.
LEMMA StockCovers ==
  ASSUME Inv, NEW m \in Materials, Stock(m)
  PROVE  UNCHANGED <<rows, reservedStock>> /\ (~ Bucketed => Covers)
<1>1. PICK n \in 1..MaxStock : ReceiveStock(m, n) \/ RemoveStock(m, n)
  BY DEF Stock
<1>2. /\ onHand \in [Materials -> Nat] /\ reservedStock \in [Materials -> Nat] /\ n \in Nat
  BY InvParts, BoundAssumption DEF TypeOK
<1>3. UNCHANGED <<rows, reservedStock>>
  BY <1>1 DEF ReceiveStock, RemoveStock, lineVars
<1>4. ASSUME ~ Bucketed, NEW k \in Materials, reservedStock[k] =< onHand[k]
      PROVE  reservedStock[k] =< onHand'[k]
  <2>1. CASE ReceiveStock(m, n)
    BY <1>2, <1>4, <2>1 DEF ReceiveStock
  <2>2. CASE RemoveStock(m, n)
    BY <1>2, <1>4, <2>2 DEF RemoveStock
  <2> QED  BY <1>1, <2>1, <2>2
<1> QED  BY <1>3, <1>4 DEF Covers, ReservedWithinStock

LEMMA NextServes ==
  ASSUME Inv, SeenCurrent, Next
  PROVE  /\ \/ UNCHANGED <<rows, reservedStock>>
            \/ \E w \in WorkOrders : Serves(w)
         /\ ~ Bucketed => Covers
<1>1. ASSUME NEW m \in Materials, Stock(m)
      PROVE  UNCHANGED <<rows, reservedStock>> /\ (~ Bucketed => Covers)
  BY <1>1, StockCovers
<1>2. ASSUME UNCHANGED <<rows, onHand, reservedStock>>
      PROVE  UNCHANGED <<rows, reservedStock>> /\ Covers
  BY <1>2 DEF Covers, ReservedWithinStock
<1>3. ASSUME NEW w \in WorkOrders,
             CommitRelease(w) \/ CommitSalesRelease(w) \/ AllocateMaterials(w)
      PROVE  Serves(w) /\ Covers
  BY <1>3, GrantServes DEF CommitRelease, CommitSalesRelease, AllocateMaterials
<1>4. ASSUME NEW w \in WorkOrders, Release(w)
      PROVE  UNCHANGED <<rows, onHand, reservedStock>> \/ (Serves(w) /\ Covers)
  BY <1>3, <1>4, PaperKeeps DEF Release
<1>5. ASSUME NEW w \in WorkOrders, Storekeeper(w)
      PROVE  Serves(w) /\ Covers
  BY <1>5, StorekeeperServes, IssueServes, ReturnServes, RejectServes DEF Storekeeper
<1>6. ASSUME NEW w \in WorkOrders, Production(w)
      PROVE  UNCHANGED <<rows, onHand, reservedStock>> \/ (Serves(w) /\ Covers)
  BY <1>6, PaperKeeps, RecordServes DEF Production
<1>7. ASSUME NEW w \in WorkOrders, QualityControl(w)
      PROVE  UNCHANGED <<rows, onHand, reservedStock>> \/ (Serves(w) /\ Covers)
  BY <1>7, PaperKeeps, ScrapServes DEF QualityControl
<1>8. CASE \E m \in Materials : Stock(m)
  BY <1>1, <1>8
<1>9. CASE \E w \in WorkOrders :
             Release(w) \/ Storekeeper(w) \/ Production(w) \/ QualityControl(w)
  <2>1. PICK w \in WorkOrders :
           Release(w) \/ Storekeeper(w) \/ Production(w) \/ QualityControl(w)
    BY <1>9
  <2>2. UNCHANGED <<rows, onHand, reservedStock>> \/ (Serves(w) /\ Covers)
    BY <1>4, <1>5, <1>6, <1>7, <2>1
  <2> QED  BY <1>2, <2>2
<1> QED  BY <1>8, <1>9 DEF Next

-----------------------------------------------------------------------------
(* What has been read stays true *)

\* A request that is in progress after a step and was not before has just read.
LEMMA OnlyLocks ==
  ASSUME TypeOK, Next, NEW v \in WorkOrders, request[v] = "NONE", request'[v] # "NONE"
  PROVE  \E kind \in Requests : Lock(v, kind)
<1>1. request \in [WorkOrders -> Requests]
  BY DEF TypeOK
<1>2. ASSUME NEW w \in WorkOrders, EndRequest(w)
      PROVE  request'[v] = "NONE"
  BY <1>1, <1>2 DEF EndRequest
<1>3. ASSUME NEW m \in Materials, Stock(m)
      PROVE  request' = request
  BY <1>3 DEF Stock, ReceiveStock, RemoveStock, requestVars
<1>4. ASSUME NEW w \in WorkOrders, Release(w)
      PROVE  \/ request' = request \/ EndRequest(w)
             \/ \E kind \in Requests : Lock(w, kind)
  BY <1>4 DEF Release, CreateWorkOrder, BeginRelease, BeginWork, AbandonWork, CommitRelease,
              FailRelease, CommitSalesRelease, AllocateMaterials, requestVars, Requests
<1>5. ASSUME NEW w \in WorkOrders, Storekeeper(w)
      PROVE  request' = request \/ EndRequest(w)
  BY <1>5 DEF Storekeeper, StorekeeperReserve, IssueMaterial, ReturnMaterial, RejectIssue,
              requestVars
<1>6. ASSUME NEW w \in WorkOrders, Production(w)
      PROVE  request' = request \/ EndRequest(w)
  BY <1>6 DEF Production, StartProduction, RecordProduction, WorkerRecordProduction,
              PostOutput, BeginWastage, CommitWastage, requestVars
<1>7. ASSUME NEW w \in WorkOrders, QualityControl(w)
      PROVE  request' = request \/ EndRequest(w)
  BY <1>7 DEF QualityControl, SubmitForQC, BeginDecision, RejectInspection, SendToRework,
              ScrapBatch, requestVars
<1>8. PICK w \in WorkOrders : \E kind \in Requests : Lock(w, kind)
  BY <1>2, <1>3, <1>4, <1>5, <1>6, <1>7 DEF Next
<1>9. w = v
  BY <1>1, <1>8 DEF Lock
<1> QED  BY <1>8, <1>9

LEMMA SeenStaysCurrent ==
  ASSUME TypeOK, Next, OneAtATime
  PROVE  SeenCurrent'
<1> SUFFICES ASSUME NEW v \in WorkOrders, request'[v] # "NONE"
             PROVE  /\ seen'[v].reserved = reservedStock'
                    /\ ~ Bucketed => seen'[v].stock = onHand'
  BY DEF SeenCurrent
<1>1. request[v] = "NONE"
  BY DEF OneAtATime
<1>2. PICK kind \in Requests : Lock(v, kind)
  BY <1>1, OnlyLocks
<1>3. seen'[v] = [stock |-> IF Bucketed THEN NothingSeen.stock ELSE onHand,
                  reserved |-> reservedStock]
  BY <1>2 DEF Lock, TypeOK
<1>4. onHand' = onHand /\ reservedStock' = reservedStock
  BY <1>2 DEF Lock, stockVars
<1> QED  BY <1>3, <1>4

-----------------------------------------------------------------------------
(* The theorems *)

\* The inductive invariant of the serial specification.
SerialInv ==
  /\ Inv
  /\ SeenCurrent
  /\ ReservedBacked
  /\ ~ Bucketed => ReservedWithinStock

LEMMA InitSerial ==
  ASSUME Init
  PROVE  SerialInv
<1>1. SeenCurrent
  BY DEF Init, SeenCurrent
<1>2. ReservedBacked
  <2> SUFFICES ASSUME NEW m \in Materials
               PROVE  0 =< Total([w \in WorkOrders |-> Claim(w, m)])
    BY DEF Init, ReservedBacked
  <2> DEFINE f == [w \in WorkOrders |-> Claim(w, m)]
  <2>1. f \in [WorkOrders -> Nat]
    BY InitInv, ClaimNat, ClaimIs
  <2> HIDE DEF f
  <2>2. Total(f) \in Nat
    BY <2>1, FiniteInstances, UnitsFinite
  <2> QED  BY <2>2 DEF f
<1>3. ReservedWithinStock
  BY DEF Init, ReservedWithinStock
<1> QED  BY <1>1, <1>2, <1>3, InitInv DEF SerialInv

LEMMA NextSerial ==
  ASSUME SerialInv, [Next /\ OneAtATime]_vars
  PROVE  SerialInv'
<1>1. Inv /\ TypeOK /\ SeenCurrent /\ ReservedBacked
  BY InvParts DEF SerialInv
<1>2. CASE UNCHANGED vars
  <2>1. Inv'
    BY <1>1, <1>2, NextInv
  <2>2. UNCHANGED <<onHand, reservedStock, rows, request, seen>>
    BY <1>2 DEF vars, stockVars, lineVars, requestVars
  <2>3. SeenCurrent'
    BY <1>1, <2>2 DEF SeenCurrent
  <2>4. ReservedBacked'
    BY <1>1, <2>2, RowsAlone
  <2>5. ~ Bucketed => ReservedWithinStock'
    BY <2>2 DEF SerialInv, ReservedWithinStock
  <2> QED  BY <2>1, <2>3, <2>4, <2>5 DEF SerialInv
<1>3. CASE Next /\ OneAtATime
  <2>1. Inv'
    BY <1>1, <1>3, NextInv
  <2>2. SeenCurrent'
    BY <1>1, <1>3, SeenStaysCurrent
  <2>3. /\ \/ UNCHANGED <<rows, reservedStock>>
           \/ \E w \in WorkOrders : Serves(w)
        /\ ~ Bucketed => Covers
    BY <1>1, <1>3, NextServes
  <2>4. ReservedBacked'
    BY <1>1, <2>1, <2>3, RowsAlone, ServesBacked
  <2>5. ~ Bucketed => ReservedWithinStock'
    BY <2>3 DEF SerialInv, Covers
  <2> QED  BY <2>1, <2>2, <2>4, <2>5 DEF SerialInv
<1> QED  BY <1>2, <1>3

(* SerialInv is an inductive invariant of the serial specification. *)
THEOREM SerialInvariance == SerialSpec => []SerialInv
<1>1. Init => SerialInv
  BY InitSerial
<1>2. SerialInv /\ [Next /\ OneAtATime]_vars => SerialInv'
  BY NextSerial
<1> QED  BY <1>1, <1>2, PTL DEF SerialSpec

(* With one request at a time, and however stock is kept, reserved_stock is never
   more than the unissued quantity of the rows that were not cancelled. *)
THEOREM Backed == SerialSpec => []ReservedBacked
<1>1. SerialInv => ReservedBacked
  BY DEF SerialInv
<1> QED  BY <1>1, SerialInvariance, PTL

(* With one request at a time and stock kept in current_stock, no more of a
   material is reserved than there is. *)
THEOREM CoveredByStock ==
  ASSUME ~ Bucketed
  PROVE  SerialSpec => []ReservedWithinStock
<1>1. SerialInv => ReservedWithinStock
  BY DEF SerialInv
<1> QED  BY <1>1, SerialInvariance, PTL

=============================================================================
