---------------------- MODULE WorkOrderMaterialsProofs ----------------------
(***************************************************************************)
(* The invariants of WorkOrderMaterials hold for every set of work orders  *)
(* and materials, every BOM and plan, and every bound.  First the lemmas   *)
(* about the reservation rows of one line of a work order, whatever the    *)
(* rows; then the inductive invariant, step by step; and last that, with   *)
(* stock in buckets, WorkOrderMaterials implements MaterialFlow.           *)
(***************************************************************************)
EXTENDS WorkOrderMaterials, UnitCountProofs

-----------------------------------------------------------------------------
(* What issuing, consuming, returning, cancelling and reserving do to a line *)

\* The books of a row, and of a line's rows s beside the quantities a issued
\* and b posted of the line.
RowOK(r) ==
  /\ r \in Row
  /\ r.consumed + r.returned =< r.issued
  /\ r.issued =< r.quantity
  /\ r.status = "RESERVED" => r.issued = 0

LineOK(s, a, b) ==
  /\ s \in Seq(Row)
  /\ \A i \in DOMAIN s : RowOK(s[i])
  /\ a \in Nat /\ a + Total(ReturnedOf(s)) = Total(IssuedOf(s))
  /\ b \in Nat /\ b = Total(ConsumedOf(s))

\* The columns of a sequence of rows are functions into Nat on a finite domain.
LEMMA Columns ==
  ASSUME NEW s \in Seq(Row)
  PROVE  /\ IsFiniteSet(DOMAIN s)
         /\ QuantityOf(s) \in [DOMAIN s -> Nat] /\ Total(QuantityOf(s)) \in Nat
         /\ IssuedOf(s) \in [DOMAIN s -> Nat]   /\ Total(IssuedOf(s)) \in Nat
         /\ ConsumedOf(s) \in [DOMAIN s -> Nat] /\ Total(ConsumedOf(s)) \in Nat
         /\ ReturnedOf(s) \in [DOMAIN s -> Nat] /\ Total(ReturnedOf(s)) \in Nat
<1>1. IsFiniteSet(DOMAIN s)
  <2>1. DOMAIN s = 1..Len(s) /\ Len(s) \in Nat
    OBVIOUS
  <2> QED  BY <2>1, FS_Interval
<1>2. \A i \in DOMAIN s : s[i] \in Row
  OBVIOUS
<1>3. /\ QuantityOf(s) \in [DOMAIN s -> Nat]
      /\ IssuedOf(s) \in [DOMAIN s -> Nat]
      /\ ConsumedOf(s) \in [DOMAIN s -> Nat]
      /\ ReturnedOf(s) \in [DOMAIN s -> Nat]
  BY <1>2 DEF Row, QuantityOf, IssuedOf, ConsumedOf, ReturnedOf
<1> QED  BY <1>1, <1>3, UnitsFinite

\* A first-in first-out take is a function on the rows that sums up to n and
\* asks of no row more than it can give.
LEMMA TakeBounds ==
  ASSUME NEW avail, NEW n \in Nat, NEW t \in FifoTakes(avail, n)
  PROVE  /\ t \in [DOMAIN avail -> Nat]
         /\ Total(t) = n
         /\ \A i \in DOMAIN avail : t[i] =< avail[i]
BY DEF FifoTakes

\* Fifo is such a take when there is one.
LEMMA FifoIsTake ==
  ASSUME NEW avail, NEW n, CanTake(avail, n)
  PROVE  Fifo(avail, n) \in FifoTakes(avail, n)
BY DEF CanTake, Fifo

\* A row-by-row change of a sequence of rows is a sequence of rows of the same
\* length.
LEMMA RowByRow ==
  ASSUME NEW s \in Seq(Row), NEW z, DOMAIN z = DOMAIN s,
         z = [i \in DOMAIN s |-> z[i]], \A i \in DOMAIN s : z[i] \in Row
  PROVE  z \in Seq(Row)
<1>1. DOMAIN s = 1..Len(s) /\ Len(s) \in Nat
  OBVIOUS
<1> QED  BY <1>1

-----------------------------------------------------------------------------
(* One row *)

LEMMA IssueRow ==
  ASSUME NEW r, RowOK(r), NEW n \in Nat, n =< r.quantity - r.issued
  PROVE  /\ RowOK(AfterIssue(r, n))
         /\ AfterIssue(r, n).issued = r.issued + n
         /\ AfterIssue(r, n).consumed = r.consumed
         /\ AfterIssue(r, n).returned = r.returned
<1>1. /\ r \in Row /\ r.quantity \in Nat /\ r.issued \in Nat
      /\ r.consumed \in Nat /\ r.returned \in Nat /\ r.issued + n \in Nat
  BY DEF RowOK, Row
<1>2. CASE n = 0
  BY <1>1, <1>2 DEF AfterIssue
<1>3. CASE n # 0
  <2> DEFINE st == IF r.issued + n >= r.quantity THEN "ISSUED" ELSE "PARTIALLY_ISSUED"
             z == [r EXCEPT !.issued = @ + n, !.status = st]
  <2>1. AfterIssue(r, n) = z
    BY <1>3 DEF AfterIssue
  <2>2. st \in RowStatus /\ st # "RESERVED"
    BY DEF RowStatus
  <2> HIDE DEF st
  <2>3. /\ z.issued = r.issued + n
        /\ z.consumed = r.consumed /\ z.returned = r.returned
        /\ z.quantity = r.quantity /\ z.status = st
    BY <1>1 DEF Row
  <2>4. \A v \in Nat, w \in RowStatus : [r EXCEPT !.issued = v, !.status = w] \in Row
    BY <1>1 DEF Row
  <2>5. z \in Row
    BY <1>1, <2>2, <2>4
  <2> HIDE DEF z
  <2> QED  BY <1>1, <2>1, <2>2, <2>3, <2>5 DEF RowOK
<1> QED  BY <1>2, <1>3

LEMMA ConsumeRow ==
  ASSUME NEW r, RowOK(r), NEW n \in Nat, n =< r.issued - r.consumed - r.returned
  PROVE  /\ RowOK(AfterConsume(r, n))
         /\ AfterConsume(r, n).consumed = r.consumed + n
         /\ AfterConsume(r, n).issued = r.issued
         /\ AfterConsume(r, n).returned = r.returned
<1>1. /\ r \in Row /\ r.quantity \in Nat /\ r.issued \in Nat
      /\ r.consumed \in Nat /\ r.returned \in Nat /\ r.consumed + n \in Nat
  BY DEF RowOK, Row
<1>2. CASE n = 0
  BY <1>1, <1>2 DEF AfterConsume
<1>3. CASE n # 0
  <2> DEFINE st == IF r.consumed + n >= r.quantity THEN "CONSUMED" ELSE "PARTIALLY_CONSUMED"
             z == [r EXCEPT !.consumed = @ + n, !.status = st]
  <2>1. AfterConsume(r, n) = z
    BY <1>3 DEF AfterConsume
  <2>2. st \in RowStatus /\ st # "RESERVED"
    BY DEF RowStatus
  <2> HIDE DEF st
  <2>3. /\ z.consumed = r.consumed + n
        /\ z.issued = r.issued /\ z.returned = r.returned
        /\ z.quantity = r.quantity /\ z.status = st
    BY <1>1 DEF Row
  <2>4. \A v \in Nat, w \in RowStatus : [r EXCEPT !.consumed = v, !.status = w] \in Row
    BY <1>1 DEF Row
  <2>5. z \in Row
    BY <1>1, <2>2, <2>4
  <2> HIDE DEF z
  <2> QED  BY <1>1, <2>1, <2>2, <2>3, <2>5 DEF RowOK
<1> QED  BY <1>2, <1>3

LEMMA ReturnRow ==
  ASSUME NEW r, RowOK(r), NEW n \in Nat, n =< r.issued - r.consumed - r.returned
  PROVE  /\ RowOK(AfterReturn(r, n))
         /\ AfterReturn(r, n).returned = r.returned + n
         /\ AfterReturn(r, n).issued = r.issued
         /\ AfterReturn(r, n).consumed = r.consumed
<1>1. /\ r \in Row /\ r.quantity \in Nat /\ r.issued \in Nat
      /\ r.consumed \in Nat /\ r.returned \in Nat /\ r.returned + n \in Nat
  BY DEF RowOK, Row
<1>2. CASE n = 0
  BY <1>1, <1>2 DEF AfterReturn
<1>3. CASE n # 0
  <2> DEFINE st == IF r.consumed = 0 /\ r.returned + n >= r.issued THEN "RETURNED"
                   ELSE IF r.consumed >= r.quantity THEN "CONSUMED"
                   ELSE IF r.consumed > 0 THEN "PARTIALLY_CONSUMED"
                   ELSE "PARTIALLY_ISSUED"
             z == [r EXCEPT !.returned = @ + n, !.status = st]
  <2>1. AfterReturn(r, n) = z
    BY <1>3 DEF AfterReturn
  <2>2. st \in RowStatus /\ st # "RESERVED"
    BY DEF RowStatus
  <2> HIDE DEF st
  <2>3. /\ z.returned = r.returned + n
        /\ z.issued = r.issued /\ z.consumed = r.consumed
        /\ z.quantity = r.quantity /\ z.status = st
    BY <1>1 DEF Row
  <2>4. \A v \in Nat, w \in RowStatus : [r EXCEPT !.returned = v, !.status = w] \in Row
    BY <1>1 DEF Row
  <2>5. z \in Row
    BY <1>1, <2>2, <2>4
  <2> HIDE DEF z
  <2> QED  BY <1>1, <2>1, <2>2, <2>3, <2>5 DEF RowOK
<1> QED  BY <1>2, <1>3

LEMMA CancelRow ==
  ASSUME NEW r, RowOK(r), NEW n \in Nat
  PROVE  /\ RowOK(AfterCancel(r, n))
         /\ AfterCancel(r, n).issued = r.issued
         /\ AfterCancel(r, n).consumed = r.consumed
         /\ AfterCancel(r, n).returned = r.returned
<1> DEFINE st == IF r.issued > 0 THEN "ISSUED" ELSE "RETURNED"
<1>1. st \in RowStatus /\ st # "RESERVED"
  BY DEF RowStatus
<1> HIDE DEF st
<1>2. AfterCancel(r, n) = IF n = 0 THEN r ELSE [r EXCEPT !.status = st]
  BY DEF AfterCancel, st
<1> QED  BY <1>1, <1>2 DEF RowOK, Row

-----------------------------------------------------------------------------
(* The rows of a line *)

\* Issuing n units moves the issued quantity of the line by n and nothing else.
LEMMA IssueLine ==
  ASSUME NEW s, NEW a, NEW b, LineOK(s, a, b),
         NEW n \in Nat, NEW t \in FifoTakes(IssuableOf(s), n)
  PROVE  LineOK(IssueRows(s, t), a + n, b)
<1> DEFINE z == IssueRows(s, t)
<1>1. s \in Seq(Row) /\ \A i \in DOMAIN s : RowOK(s[i])
  BY DEF LineOK
<1>2. /\ t \in [DOMAIN s -> Nat] /\ Total(t) = n
      /\ \A i \in DOMAIN s : t[i] =< IssuableOf(s)[i]
  BY TakeBounds DEF IssuableOf
<1>3. \A i \in DOMAIN s : t[i] =< s[i].quantity - s[i].issued
  BY <1>1, <1>2 DEF IssuableOf, Positive, Unissued, Unused, RowOK, Row
<1>4. DOMAIN z = DOMAIN s /\ \A i \in DOMAIN s : z[i] = AfterIssue(s[i], t[i])
  BY DEF IssueRows
<1>5. \A i \in DOMAIN s : /\ RowOK(z[i])
                          /\ z[i].issued = s[i].issued + t[i]
                          /\ z[i].consumed = s[i].consumed
                          /\ z[i].returned = s[i].returned
  BY <1>1, <1>2, <1>3, <1>4, IssueRow
<1>6. z \in Seq(Row)
  <2>1. z = [i \in DOMAIN s |-> z[i]]
    BY DEF IssueRows
  <2> QED  BY <1>1, <1>4, <1>5, <2>1, RowByRow DEF RowOK
<1> HIDE DEF z
<1>7. Total(IssuedOf(z)) = Total(IssuedOf(s)) + n
  <2>1. \A i \in DOMAIN s : IssuedOf(z)[i] = IssuedOf(s)[i] + t[i]
    BY <1>4, <1>5 DEF IssuedOf
  <2>2. /\ IsFiniteSet(DOMAIN s) /\ t \in [DOMAIN s -> Nat]
        /\ IssuedOf(s) \in [DOMAIN s -> Nat] /\ IssuedOf(z) \in [DOMAIN s -> Nat]
    BY <1>1, <1>2, <1>4, <1>6, Columns
  <2>3. Total(IssuedOf(z)) = Total(IssuedOf(s)) + Total(t)
    BY <2>1, <2>2, TotalAdd
  <2> QED  BY <2>3, <1>2
<1>8. ConsumedOf(z) = ConsumedOf(s) /\ ReturnedOf(z) = ReturnedOf(s)
  BY <1>4, <1>5 DEF ConsumedOf, ReturnedOf
<1>9. /\ a \in Nat /\ b \in Nat
      /\ a + Total(ReturnedOf(s)) = Total(IssuedOf(s)) /\ b = Total(ConsumedOf(s))
  BY DEF LineOK
<1>10. /\ Total(ReturnedOf(s)) \in Nat /\ Total(IssuedOf(s)) \in Nat
       /\ Total(ReturnedOf(z)) \in Nat /\ Total(IssuedOf(z)) \in Nat
  BY <1>1, <1>6, Columns
<1>11. LineOK(z, a + n, b)
  BY <1>4, <1>5, <1>6, <1>7, <1>8, <1>9, <1>10 DEF LineOK
<1> QED  BY <1>11 DEF z

\* Consuming n units moves the consumed quantity by n and nothing else.
LEMMA ConsumeLine ==
  ASSUME NEW s, NEW a, NEW b, LineOK(s, a, b),
         NEW n \in Nat, NEW t \in FifoTakes(ConsumableOf(s), n)
  PROVE  LineOK(ConsumeRows(s, t), a, b + n)
<1> DEFINE z == ConsumeRows(s, t)
<1>1. s \in Seq(Row) /\ \A i \in DOMAIN s : RowOK(s[i])
  BY DEF LineOK
<1>2. /\ t \in [DOMAIN s -> Nat] /\ Total(t) = n
      /\ \A i \in DOMAIN s : t[i] =< ConsumableOf(s)[i]
  BY TakeBounds DEF ConsumableOf
<1>3. \A i \in DOMAIN s : t[i] =< s[i].issued - s[i].consumed - s[i].returned
  BY <1>1, <1>2 DEF ConsumableOf, Positive, Unissued, Unused, RowOK, Row
<1>4. DOMAIN z = DOMAIN s /\ \A i \in DOMAIN s : z[i] = AfterConsume(s[i], t[i])
  BY DEF ConsumeRows
<1>5. \A i \in DOMAIN s : /\ RowOK(z[i])
                          /\ z[i].consumed = s[i].consumed + t[i]
                          /\ z[i].issued = s[i].issued
                          /\ z[i].returned = s[i].returned
  BY <1>1, <1>2, <1>3, <1>4, ConsumeRow
<1>6. z \in Seq(Row)
  <2>1. z = [i \in DOMAIN s |-> z[i]]
    BY DEF ConsumeRows
  <2> QED  BY <1>1, <1>4, <1>5, <2>1, RowByRow DEF RowOK
<1> HIDE DEF z
<1>7. Total(ConsumedOf(z)) = Total(ConsumedOf(s)) + n
  <2>1. \A i \in DOMAIN s : ConsumedOf(z)[i] = ConsumedOf(s)[i] + t[i]
    BY <1>4, <1>5 DEF ConsumedOf
  <2>2. /\ IsFiniteSet(DOMAIN s) /\ t \in [DOMAIN s -> Nat]
        /\ ConsumedOf(s) \in [DOMAIN s -> Nat] /\ ConsumedOf(z) \in [DOMAIN s -> Nat]
    BY <1>1, <1>2, <1>4, <1>6, Columns
  <2>3. Total(ConsumedOf(z)) = Total(ConsumedOf(s)) + Total(t)
    BY <2>1, <2>2, TotalAdd
  <2> QED  BY <2>3, <1>2
<1>8. IssuedOf(z) = IssuedOf(s) /\ ReturnedOf(z) = ReturnedOf(s)
  BY <1>4, <1>5 DEF IssuedOf, ReturnedOf
<1>9. /\ a \in Nat /\ b \in Nat
      /\ a + Total(ReturnedOf(s)) = Total(IssuedOf(s)) /\ b = Total(ConsumedOf(s))
  BY DEF LineOK
<1>10. /\ Total(ReturnedOf(s)) \in Nat /\ Total(IssuedOf(s)) \in Nat
       /\ Total(ReturnedOf(z)) \in Nat /\ Total(IssuedOf(z)) \in Nat
  BY <1>1, <1>6, Columns
<1>11. LineOK(z, a, b + n)
  BY <1>4, <1>5, <1>6, <1>7, <1>8, <1>9, <1>10 DEF LineOK
<1> QED  BY <1>11 DEF z

\* Returning n units: the line held that many, and holds n less.
LEMMA ReturnLine ==
  ASSUME NEW s, NEW a, NEW b, LineOK(s, a, b),
         NEW n \in Nat, NEW t \in FifoTakes(ReturnableOf(s), n)
  PROVE  n =< a /\ LineOK(ReturnRows(s, t), a - n, b)
<1> DEFINE z == ReturnRows(s, t)
<1>1. s \in Seq(Row) /\ \A i \in DOMAIN s : RowOK(s[i])
  BY DEF LineOK
<1>2. /\ t \in [DOMAIN s -> Nat] /\ Total(t) = n
      /\ \A i \in DOMAIN s : t[i] =< ReturnableOf(s)[i]
  BY TakeBounds DEF ReturnableOf
<1>3. \A i \in DOMAIN s : t[i] =< s[i].issued - s[i].consumed - s[i].returned
  BY <1>1, <1>2 DEF ReturnableOf, Positive, Unissued, Unused, RowOK, Row
<1>4. DOMAIN z = DOMAIN s /\ \A i \in DOMAIN s : z[i] = AfterReturn(s[i], t[i])
  BY DEF ReturnRows
<1>5. \A i \in DOMAIN s : /\ RowOK(z[i])
                          /\ z[i].returned = s[i].returned + t[i]
                          /\ z[i].issued = s[i].issued
                          /\ z[i].consumed = s[i].consumed
  BY <1>1, <1>2, <1>3, <1>4, ReturnRow
<1>6. z \in Seq(Row)
  <2>1. z = [i \in DOMAIN s |-> z[i]]
    BY DEF ReturnRows
  <2> QED  BY <1>1, <1>4, <1>5, <2>1, RowByRow DEF RowOK
<1> HIDE DEF z
<1>7. Total(ReturnedOf(z)) = Total(ReturnedOf(s)) + n
  <2>1. \A i \in DOMAIN s : ReturnedOf(z)[i] = ReturnedOf(s)[i] + t[i]
    BY <1>4, <1>5 DEF ReturnedOf
  <2>2. /\ IsFiniteSet(DOMAIN s) /\ t \in [DOMAIN s -> Nat]
        /\ ReturnedOf(s) \in [DOMAIN s -> Nat] /\ ReturnedOf(z) \in [DOMAIN s -> Nat]
    BY <1>1, <1>2, <1>4, <1>6, Columns
  <2>3. Total(ReturnedOf(z)) = Total(ReturnedOf(s)) + Total(t)
    BY <2>1, <2>2, TotalAdd
  <2> QED  BY <2>3, <1>2
<1>8. IssuedOf(z) = IssuedOf(s) /\ ConsumedOf(z) = ConsumedOf(s)
  BY <1>4, <1>5 DEF IssuedOf, ConsumedOf
<1>9. /\ a \in Nat /\ b \in Nat
      /\ a + Total(ReturnedOf(s)) = Total(IssuedOf(s)) /\ b = Total(ConsumedOf(s))
  BY DEF LineOK
<1>10. /\ Total(ReturnedOf(s)) \in Nat /\ Total(IssuedOf(s)) \in Nat
       /\ Total(ReturnedOf(z)) \in Nat /\ Total(IssuedOf(z)) \in Nat
  BY <1>1, <1>6, Columns
<1>11. Total(ReturnedOf(z)) =< Total(IssuedOf(z))
  <2>1. \A i \in DOMAIN z : ReturnedOf(z)[i] =< IssuedOf(z)[i]
    BY <1>4, <1>5 DEF ReturnedOf, IssuedOf, RowOK, Row
  <2>2. /\ IsFiniteSet(DOMAIN z)
        /\ ReturnedOf(z) \in [DOMAIN z -> Nat] /\ IssuedOf(z) \in [DOMAIN z -> Nat]
    BY <1>6, Columns
  <2> QED  BY <2>1, <2>2, TotalMonotone
<1>12. n =< a /\ a - n \in Nat
  BY <1>7, <1>8, <1>9, <1>10, <1>11
<1>13. LineOK(z, a - n, b)
  BY <1>4, <1>5, <1>6, <1>7, <1>8, <1>9, <1>10, <1>12 DEF LineOK
<1> QED  BY <1>12, <1>13 DEF z

\* Cancelling changes the status of rows only.
LEMMA CancelLine ==
  ASSUME NEW s, NEW a, NEW b, LineOK(s, a, b)
  PROVE  LineOK(CancelRows(s), a, b)
<1> DEFINE z == CancelRows(s)
<1>1. s \in Seq(Row) /\ \A i \in DOMAIN s : RowOK(s[i])
  BY DEF LineOK
<1>2. \A i \in DOMAIN s : CancellableOf(s)[i] \in Nat
  BY <1>1 DEF CancellableOf, Positive, Unissued, RowOK, Row
<1>3. DOMAIN z = DOMAIN s
      /\ \A i \in DOMAIN s : z[i] = AfterCancel(s[i], CancellableOf(s)[i])
  BY DEF CancelRows
<1>4. \A i \in DOMAIN s : /\ RowOK(z[i])
                          /\ z[i].issued = s[i].issued
                          /\ z[i].consumed = s[i].consumed
                          /\ z[i].returned = s[i].returned
  <2> SUFFICES ASSUME NEW i \in DOMAIN s
               PROVE  /\ RowOK(z[i])
                      /\ z[i].issued = s[i].issued
                      /\ z[i].consumed = s[i].consumed
                      /\ z[i].returned = s[i].returned
    OBVIOUS
  <2> DEFINE n == CancellableOf(s)[i]
  <2>1. RowOK(s[i]) /\ n \in Nat /\ z[i] = AfterCancel(s[i], n)
    BY <1>1, <1>2, <1>3
  <2> HIDE DEF z, n
  <2> QED  BY <2>1, CancelRow
<1>5. z \in Seq(Row)
  <2>1. z = [i \in DOMAIN s |-> z[i]]
    BY DEF CancelRows
  <2> QED  BY <1>1, <1>3, <1>4, <2>1, RowByRow DEF RowOK
<1> HIDE DEF z
<1>6. /\ IssuedOf(z) = IssuedOf(s) /\ ConsumedOf(z) = ConsumedOf(s)
      /\ ReturnedOf(z) = ReturnedOf(s)
  BY <1>3, <1>4 DEF IssuedOf, ConsumedOf, ReturnedOf
<1>7. LineOK(z, a, b)
  BY <1>3, <1>4, <1>5, <1>6 DEF LineOK
<1> QED  BY <1>7 DEF z

\* A new row has issued, consumed and returned nothing.
LEMMA AppendLine ==
  ASSUME NEW s, NEW a, NEW b, LineOK(s, a, b), NEW q \in Nat
  PROVE  LineOK(Append(s, NewRow(q)), a, b)
<1> DEFINE z == Append(s, NewRow(q))
           E == DOMAIN s
           x == Len(s) + 1
<1>1. s \in Seq(Row) /\ \A i \in DOMAIN s : RowOK(s[i])
  BY DEF LineOK
<1>2. RowOK(NewRow(q))
  BY DEF NewRow, RowOK, Row, RowStatus
<1>3. /\ NewRow(q).issued = 0 /\ NewRow(q).consumed = 0 /\ NewRow(q).returned = 0
  BY DEF NewRow
<1>4. z \in Seq(Row)
  BY <1>1, <1>2 DEF RowOK
<1>5. /\ DOMAIN z = E \cup {x} /\ x \notin E /\ IsFiniteSet(E)
      /\ z[x] = NewRow(q) /\ \A i \in E : z[i] = s[i]
  <2>1. NewRow(q) \in Row
    BY <1>2 DEF RowOK
  <2>2. Len(s) \in Nat /\ E = 1..Len(s) /\ Len(z) = Len(s) + 1 /\ DOMAIN z = 1..Len(z)
    BY <1>1, <2>1, <1>4
  <2>3. z[x] = NewRow(q) /\ \A i \in E : z[i] = s[i]
    BY <1>1, <2>1, <2>2
  <2>4. DOMAIN z = E \cup {x} /\ x \notin E
    BY <2>2
  <2> QED  BY <2>3, <2>4, <1>1, Columns
<1> HIDE DEF z, E, x
<1>6. \A i \in DOMAIN z : RowOK(z[i])
  BY <1>1, <1>2, <1>5 DEF E
<1>7. /\ Total(IssuedOf(z)) = Total(IssuedOf(s))
      /\ Total(ConsumedOf(z)) = Total(ConsumedOf(s))
      /\ Total(ReturnedOf(z)) = Total(ReturnedOf(s))
  <2>1. Total(IssuedOf(z)) = Total(IssuedOf(s)) + 0
    <3>1. IssuedOf(s) \in [E -> Nat] /\ IssuedOf(z) \in [E \cup {x} -> Nat]
      BY <1>1, <1>4, <1>5, Columns DEF E
    <3>2. IssuedOf(z)[x] = 0 /\ \A i \in E : IssuedOf(z)[i] = IssuedOf(s)[i]
      BY <1>3, <1>5 DEF IssuedOf, E
    <3> QED  BY <1>5, <3>1, <3>2, TotalSplit
  <2>2. Total(ConsumedOf(z)) = Total(ConsumedOf(s)) + 0
    <3>1. ConsumedOf(s) \in [E -> Nat] /\ ConsumedOf(z) \in [E \cup {x} -> Nat]
      BY <1>1, <1>4, <1>5, Columns DEF E
    <3>2. ConsumedOf(z)[x] = 0 /\ \A i \in E : ConsumedOf(z)[i] = ConsumedOf(s)[i]
      BY <1>3, <1>5 DEF ConsumedOf, E
    <3> QED  BY <1>5, <3>1, <3>2, TotalSplit
  <2>3. Total(ReturnedOf(z)) = Total(ReturnedOf(s)) + 0
    <3>1. ReturnedOf(s) \in [E -> Nat] /\ ReturnedOf(z) \in [E \cup {x} -> Nat]
      BY <1>1, <1>4, <1>5, Columns DEF E
    <3>2. ReturnedOf(z)[x] = 0 /\ \A i \in E : ReturnedOf(z)[i] = ReturnedOf(s)[i]
      BY <1>3, <1>5 DEF ReturnedOf, E
    <3> QED  BY <1>5, <3>1, <3>2, TotalSplit
  <2>4. /\ Total(IssuedOf(s)) \in Nat /\ Total(ConsumedOf(s)) \in Nat
        /\ Total(ReturnedOf(s)) \in Nat
    BY <1>1, Columns
  <2> QED  BY <2>1, <2>2, <2>3, <2>4
<1>8. LineOK(z, a, b)
  BY <1>4, <1>6, <1>7 DEF LineOK
<1> QED  BY <1>8 DEF z

\* A line has consumed no more than it was issued and still holds or used.
LEMMA ConsumedWithinIssued ==
  ASSUME NEW s, NEW a, NEW b, LineOK(s, a, b)
  PROVE  b =< a
<1> DEFINE both == [i \in DOMAIN s |-> s[i].consumed + s[i].returned]
<1>1. s \in Seq(Row) /\ \A i \in DOMAIN s : RowOK(s[i])
  BY DEF LineOK
<1>2. /\ IsFiniteSet(DOMAIN s) /\ IssuedOf(s) \in [DOMAIN s -> Nat]
      /\ ConsumedOf(s) \in [DOMAIN s -> Nat] /\ ReturnedOf(s) \in [DOMAIN s -> Nat]
      /\ Total(IssuedOf(s)) \in Nat /\ Total(ConsumedOf(s)) \in Nat
      /\ Total(ReturnedOf(s)) \in Nat
  BY <1>1, Columns
<1>3. both \in [DOMAIN s -> Nat]
  BY <1>1 DEF RowOK, Row
<1>4. \A i \in DOMAIN s : /\ both[i] = ConsumedOf(s)[i] + ReturnedOf(s)[i]
                          /\ both[i] =< IssuedOf(s)[i]
  BY <1>1 DEF RowOK, Row, IssuedOf, ConsumedOf, ReturnedOf
<1> HIDE DEF both
<1>5. Total(both) = Total(ConsumedOf(s)) + Total(ReturnedOf(s))
  BY <1>2, <1>3, <1>4, TotalAdd
<1>6. Total(both) =< Total(IssuedOf(s))
  BY <1>2, <1>3, <1>4, TotalMonotone
<1>7. /\ a \in Nat /\ b = Total(ConsumedOf(s))
      /\ a + Total(ReturnedOf(s)) = Total(IssuedOf(s))
  BY DEF LineOK
<1> QED  BY <1>2, <1>5, <1>6, <1>7

-----------------------------------------------------------------------------
(* The inductive invariant, in parts *)

\* The three books of every line, in the form the lemmas about lines use.
Lines ==
  \A w \in WorkOrders, m \in Materials :
    LineOK(rows[w][m], lineIssued[w][m], posted[w][m])

\* The part of TypeOK about the requests in progress.
RequestsTyped ==
  /\ request \in [WorkOrders -> Requests]
  /\ seen \in [WorkOrders -> [stock : [Materials -> Nat], reserved : [Materials -> Nat]]]
  /\ wastageSeen \in [WorkOrders -> SUBSET Nat]
  /\ deciding \in [WorkOrders -> SUBSET [decision : Decisions, scrap : Nat]]

\* Inv in five parts, each of which a step disturbs or leaves alone.
LEMMA InvParts ==
  ASSUME Inv
  PROVE  TypeOK /\ Lines /\ IssuedWithinRequired /\ NoFreeGoods /\ StockConserved
BY DEF Inv, Lines, LineOK, RowOK, TypeOK, Quantities, RowAccounting, LineMatchesRows,
       PostedMatchesRows

LEMMA PartsInv ==
  ASSUME TypeOK, Lines, IssuedWithinRequired, NoFreeGoods, StockConserved
  PROVE  Inv
BY DEF Inv, Lines, LineOK, RowOK, TypeOK, Quantities, RowAccounting, LineMatchesRows,
       PostedMatchesRows

LEMMA PartsInvNext ==
  ASSUME TypeOK', Lines', IssuedWithinRequired', NoFreeGoods', StockConserved'
  PROVE  Inv'
BY DEF Inv, Lines, LineOK, RowOK, TypeOK, Quantities, RowAccounting, LineMatchesRows,
       PostedMatchesRows

\* Parts that no variable of theirs leaves.
LEMMA LinesAlone ==
  ASSUME Inv, UNCHANGED lineVars
  PROVE  Lines' /\ IssuedWithinRequired'
BY InvParts DEF lineVars, Lines, IssuedWithinRequired

LEMMA GoodsAlone ==
  ASSUME Inv, UNCHANGED posted, UNCHANGED produced
  PROVE  NoFreeGoods'
BY InvParts DEF NoFreeGoods

LEMMA StoreAlone ==
  ASSUME Inv, UNCHANGED <<onHand, netReceived, lineIssued>>
  PROVE  StockConserved'
BY InvParts DEF StockConserved, Accounted

\* Material that moves between the store and one work order.
LEMMA StoreToOrder ==
  ASSUME Inv, TypeOK', NEW w \in WorkOrders, UNCHANGED netReceived,
         \A v \in WorkOrders \ {w} : lineIssued'[v] = lineIssued[v],
         Bucketed => \A m \in Materials :
           onHand'[m] + lineIssued'[w][m] = onHand[m] + lineIssued[w][m]
  PROVE  StockConserved'
<1> SUFFICES ASSUME Bucketed, NEW m \in Materials
             PROVE  onHand'[m] + Total([v \in WorkOrders |-> lineIssued'[v][m]])
                      = netReceived[m]
  BY DEF StockConserved, Accounted
<1> DEFINE f == [v \in WorkOrders |-> lineIssued[v][m]]
           g == [v \in WorkOrders |-> lineIssued'[v][m]]
<1>1. /\ f \in [WorkOrders -> Nat] /\ g \in [WorkOrders -> Nat]
      /\ \A v \in WorkOrders \ {w} : g[v] = f[v]
      /\ f[w] = lineIssued[w][m] /\ g[w] = lineIssued'[w][m]
  <2>1. lineIssued \in Quantities(Nat) /\ lineIssued' \in Quantities(Nat)
    BY InvParts DEF TypeOK
  <2>2. \A v \in WorkOrders : lineIssued[v][m] \in Nat /\ lineIssued'[v][m] \in Nat
    BY <2>1 DEF Quantities
  <2> QED  BY <2>2
<1>2. onHand[m] \in Nat /\ onHand'[m] \in Nat /\ netReceived[m] \in Int
  BY InvParts DEF TypeOK
<1>3. onHand[m] + Total(f) = netReceived[m]
  BY InvParts DEF StockConserved, Accounted
<1> HIDE DEF f, g
<1>4. Total(g) + f[w] = Total(f) + g[w]
  BY <1>1, FiniteInstances, TotalUpdate
<1>5. Total(f) \in Nat /\ Total(g) \in Nat
  BY <1>1, FiniteInstances, UnitsFinite
<1>6. onHand'[m] + g[w] = onHand[m] + f[w] /\ f[w] \in Nat /\ g[w] \in Nat
  BY <1>1
<1>7. onHand'[m] + Total(g) = netReceived[m]
  BY <1>2, <1>3, <1>4, <1>5, <1>6
<1> QED  BY <1>7 DEF g

-----------------------------------------------------------------------------
(* Initially *)

LEMMA InitInv ==
  ASSUME Init
  PROVE  Inv
<1>1. TypeOK
  BY DEF Init, TypeOK, Quantities, WOStatus, NothingSeen, Requests
<1>2. Lines
  <2> SUFFICES ASSUME NEW w \in WorkOrders, NEW m \in Materials
               PROVE  LineOK(<< >>, 0, 0)
    BY DEF Init, Lines
  <2>1. << >> \in Seq(Row) /\ DOMAIN << >> = {}
    OBVIOUS
  <2>2. /\ Total(IssuedOf(<< >>)) = 0 /\ Total(ConsumedOf(<< >>)) = 0
        /\ Total(ReturnedOf(<< >>)) = 0
    <3>1. \A f : DOMAIN f = {} => Total(f) = 0
      BY TotalZero
    <3> QED  BY <2>1, <3>1 DEF IssuedOf, ConsumedOf, ReturnedOf
  <2> QED  BY <2>1, <2>2 DEF LineOK
<1>3. IssuedWithinRequired
  BY BomAssumption, PlanAssumption DEF Init, IssuedWithinRequired, Required
<1>4. NoFreeGoods
  BY BomAssumption DEF Init, NoFreeGoods
<1>5. StockConserved
  <2> SUFFICES ASSUME NEW m \in Materials
               PROVE  Total([w \in WorkOrders |-> 0]) = 0
    BY DEF Init, StockConserved, Accounted
  <2> DEFINE f == [w \in WorkOrders |-> 0]
  <2>1. DOMAIN f = WorkOrders /\ \A w \in WorkOrders : f[w] = 0
    OBVIOUS
  <2> HIDE DEF f
  <2>2. Total(f) = 0
    BY <2>1, TotalZero
  <2> QED  BY <2>2 DEF f
<1> QED  BY <1>1, <1>2, <1>3, <1>4, <1>5, PartsInv

-----------------------------------------------------------------------------
(* Stock by hand *)

LEMMA StockStep ==
  ASSUME Inv, NEW m \in Materials, NEW n \in 1..MaxStock,
         ReceiveStock(m, n) \/ RemoveStock(m, n)
  PROVE  Inv'
<1>1. TypeOK /\ Lines /\ StockConserved
  BY InvParts
<1>2. UNCHANGED <<lineVars, outputVars, woStatus, requestVars, reservedStock>>
  BY DEF ReceiveStock, RemoveStock
<1>3. /\ n \in Nat /\ onHand \in [Materials -> Nat] /\ netReceived \in [Materials -> Int]
      /\ reservedStock[m] \in Nat
  BY <1>1, BoundAssumption DEF TypeOK
<1>4. \A k \in Materials : /\ onHand'[k] \in Nat /\ netReceived'[k] \in Int
                           /\ onHand'[k] - onHand[k] = netReceived'[k] - netReceived[k]
  <2>1. CASE ReceiveStock(m, n)
    BY <1>3, <2>1 DEF ReceiveStock
  <2>2. CASE RemoveStock(m, n)
    <3>1. n =< onHand[m]
      BY <1>3, <2>2 DEF RemoveStock
    <3> QED  BY <1>3, <2>2, <3>1 DEF RemoveStock
  <2> QED  BY <2>1, <2>2
<1>5. /\ onHand' = [k \in Materials |-> onHand'[k]]
      /\ netReceived' = [k \in Materials |-> netReceived'[k]]
  BY <1>3 DEF ReceiveStock, RemoveStock
<1>6. ASSUME Bucketed, NEW k \in Materials
      PROVE  onHand'[k] + Total([w \in WorkOrders |-> lineIssued[w][k]]) = netReceived'[k]
  <2> DEFINE f == [w \in WorkOrders |-> lineIssued[w][k]]
  <2>1. f \in [WorkOrders -> Nat]
    BY <1>1 DEF TypeOK, Quantities
  <2>2. onHand[k] + Total(f) = netReceived[k]
    BY <1>1, <1>6 DEF StockConserved, Accounted
  <2> HIDE DEF f
  <2>3. Total(f) \in Nat
    BY <2>1, FiniteInstances, UnitsFinite
  <2>4. /\ onHand[k] \in Nat /\ netReceived[k] \in Int
        /\ onHand'[k] \in Nat /\ netReceived'[k] \in Int
        /\ onHand'[k] - onHand[k] = netReceived'[k] - netReceived[k]
    BY <1>3, <1>4, <1>6
  <2>5. onHand'[k] + Total(f) = netReceived'[k]
    BY <2>2, <2>3, <2>4
  <2> QED  BY <2>5 DEF f
<1>7. StockConserved'
  BY <1>2, <1>6 DEF StockConserved, Accounted, lineVars
<1>8. onHand' \in [Materials -> Nat] /\ netReceived' \in [Materials -> Int]
  BY <1>4, <1>5
<1>9. TypeOK'
  BY <1>1, <1>2, <1>8 DEF TypeOK, lineVars, outputVars, requestVars
<1> QED  BY <1>2, <1>7, <1>9, LinesAlone, GoodsAlone, PartsInvNext DEF lineVars, outputVars

-----------------------------------------------------------------------------
(* Steps that touch neither stock nor rows nor the quantity produced *)

LEMMA PaperStep ==
  ASSUME Inv, UNCHANGED <<stockVars, lineVars, produced>>,
         scrap' \in [WorkOrders -> Nat],
         woStatus' \in [WorkOrders -> WOStatus],
         RequestsTyped'
  PROVE  Inv'
<1>1. TypeOK'
  BY InvParts DEF TypeOK, RequestsTyped, stockVars, lineVars
<1> QED  BY <1>1, LinesAlone, GoodsAlone, StoreAlone, PartsInvNext DEF stockVars, lineVars

\* The end of a request forgets what it has read.
LEMMA EndRequestTypes ==
  ASSUME TypeOK, NEW w \in WorkOrders, EndRequest(w),
         deciding' \in [WorkOrders -> SUBSET [decision : Decisions, scrap : Nat]]
  PROVE  RequestsTyped'
<1>1. NothingSeen \in [stock : [Materials -> Nat], reserved : [Materials -> Nat]]
  BY DEF NothingSeen
<1> QED  BY <1>1 DEF EndRequest, Requests, TypeOK, RequestsTyped

\* A request that starts keeps what it reads.
LEMMA LockTypes ==
  ASSUME TypeOK, NEW w \in WorkOrders, NEW kind \in Requests, Lock(w, kind)
  PROVE  RequestsTyped'
<1> DEFINE read == [stock |-> IF Bucketed THEN NothingSeen.stock ELSE onHand,
                    reserved |-> reservedStock]
<1>1. read \in [stock : [Materials -> Nat], reserved : [Materials -> Nat]]
  BY DEF NothingSeen, TypeOK
<1>2. seen' = [seen EXCEPT ![w] = read]
  BY DEF Lock
<1> HIDE DEF read
<1> QED  BY <1>1, <1>2 DEF Lock, TypeOK, RequestsTyped

LEMMA RequestStep ==
  ASSUME Inv, NEW w \in WorkOrders,
         CreateWorkOrder(w) \/ BeginRelease(w) \/ BeginWork(w) \/ AbandonWork(w)
           \/ FailRelease(w) \/ StartProduction(w) \/ BeginWastage(w)
  PROVE  Inv'
<1>1. TypeOK
  BY InvParts
<1>2. CASE CreateWorkOrder(w) \/ StartProduction(w)
  BY <1>1, <1>2, PaperStep
     DEF CreateWorkOrder, StartProduction, TypeOK, RequestsTyped, WOStatus, outputVars, requestVars
<1>3. CASE BeginRelease(w) \/ BeginWork(w)
  <2>1. PICK kind \in Requests : Lock(w, kind)
    BY <1>3 DEF BeginRelease, BeginWork, Requests
  <2>2. RequestsTyped'
    BY <1>1, <2>1, LockTypes
  <2> QED  BY <1>1, <2>1, <2>2, PaperStep DEF Lock, TypeOK, outputVars
<1>4. CASE AbandonWork(w) \/ FailRelease(w)
  <2>1. /\ EndRequest(w)
        /\ UNCHANGED <<stockVars, lineVars, outputVars, woStatus, deciding>>
    BY <1>4 DEF AbandonWork, FailRelease
  <2>2. RequestsTyped'
    BY <1>1, <2>1, EndRequestTypes DEF TypeOK
  <2> QED  BY <1>1, <2>1, <2>2, PaperStep DEF TypeOK, outputVars
<1>5. CASE BeginWastage(w)
  BY <1>1, <1>5, PaperStep DEF BeginWastage, TypeOK, RequestsTyped, outputVars
<1> QED  BY <1>2, <1>3, <1>4, <1>5

LEMMA QualityStep ==
  ASSUME Inv, NEW w \in WorkOrders,
         SubmitForQC(w) \/ RejectInspection(w) \/ SendToRework(w)
           \/ (\E d \in Decisions : BeginDecision(w, d))
  PROVE  Inv'
<1>1. TypeOK
  BY InvParts
<1>2. CASE SubmitForQC(w)
  BY <1>1, <1>2, PaperStep
     DEF SubmitForQC, TypeOK, RequestsTyped, WOStatus, outputVars, requestVars
<1>3. CASE RejectInspection(w)
  BY <1>1, <1>3, PaperStep
     DEF RejectInspection, Decide, TypeOK, RequestsTyped, WOStatus, stockVars, lineVars
<1>4. CASE SendToRework(w)
  BY <1>1, <1>4, PaperStep
     DEF SendToRework, Decide, TypeOK, RequestsTyped, WOStatus, stockVars, lineVars
<1>5. CASE \E d \in Decisions : BeginDecision(w, d)
  <2>1. PICK d \in Decisions : BeginDecision(w, d)
    BY <1>5
  <2>2. [decision |-> d, scrap |-> scrap[w]] \in [decision : Decisions, scrap : Nat]
    BY <1>1 DEF TypeOK
  <2>3. deciding' \in [WorkOrders -> SUBSET [decision : Decisions, scrap : Nat]]
    BY <1>1, <2>1, <2>2 DEF BeginDecision, TypeOK
  <2> QED  BY <1>1, <2>1, <2>3, PaperStep DEF BeginDecision, TypeOK, RequestsTyped, outputVars
<1> QED  BY <1>2, <1>3, <1>4, <1>5

LEMMA WastageStep ==
  ASSUME Inv, NEW w \in WorkOrders, NEW n \in 1..MaxScrap, CommitWastage(w, n)
  PROVE  Inv'
<1>1. TypeOK
  BY InvParts
<1>2. PICK v \in wastageSeen[w] : scrap' = [scrap EXCEPT ![w] = v + n]
  BY DEF CommitWastage
<1>3. v + n \in Nat
  BY <1>1, BoundAssumption DEF TypeOK
<1> QED  BY <1>1, <1>2, <1>3, PaperStep DEF CommitWastage, TypeOK, RequestsTyped

-----------------------------------------------------------------------------
(* Reservations *)

\* Rows appended to the lines of one work order.
LEMMA ReserveStep ==
  ASSUME Inv, NEW w \in WorkOrders, NEW got \in [Materials -> Nat],
         rows' = [rows EXCEPT ![w] = AppendRows(w, got)],
         UNCHANGED <<onHand, netReceived, lineIssued, posted, outputVars>>,
         reservedStock' \in [Materials -> Nat],
         woStatus' \in [WorkOrders -> WOStatus],
         RequestsTyped'
  PROVE  Inv'
<1>1. TypeOK /\ Lines /\ IssuedWithinRequired
  BY InvParts
<1>2. Lines'
  <2> SUFFICES ASSUME NEW v \in WorkOrders, NEW m \in Materials
               PROVE  LineOK(rows'[v][m], lineIssued[v][m], posted[v][m])
    BY DEF Lines
  <2>1. LineOK(rows[v][m], lineIssued[v][m], posted[v][m])
    BY <1>1 DEF Lines
  <2>2. \/ rows'[v][m] = rows[v][m]
        \/ rows'[v][m] = Append(rows[v][m], NewRow(got[m]))
    BY <1>1 DEF TypeOK, Quantities, AppendRows
  <2>3. got[m] \in Nat
    OBVIOUS
  <2>4. LineOK(Append(rows[v][m], NewRow(got[m])), lineIssued[v][m], posted[v][m])
    BY <2>1, <2>3, AppendLine
  <2> QED  BY <2>1, <2>2, <2>4
<1>3. rows' \in Quantities(Seq(Row))
  <2>1. \A m \in Materials : NewRow(got[m]) \in Row
    BY DEF NewRow, Row, RowStatus
  <2>2. AppendRows(w, got) \in [Materials -> Seq(Row)]
    BY <1>1, <2>1 DEF AppendRows, TypeOK, Quantities
  <2> QED  BY <1>1, <2>2 DEF TypeOK, Quantities
<1>4. TypeOK'
  BY <1>1, <1>3 DEF TypeOK, RequestsTyped, outputVars
<1> QED  BY <1>1, <1>2, <1>4, GoodsAlone, StoreAlone, PartsInvNext
         DEF IssuedWithinRequired, outputVars

LEMMA GrantNat ==
  ASSUME TypeOK, NEW w \in WorkOrders, NEW m \in Materials
  PROVE  NeedOf(w, m) \in Nat /\ GrantOf(w, m) \in Nat
<1>1. Required(w, m) \in Nat /\ lineIssued[w][m] \in Nat
  BY BomAssumption, PlanAssumption DEF Required, TypeOK, Quantities
<1>2. Total(QuantityOf(rows[w][m])) \in Nat
  BY Columns DEF TypeOK, Quantities
<1>3. NeedOf(w, m) \in Nat
  BY <1>1, <1>2 DEF NeedOf, Positive
<1>4. InHand(w, m) \in Nat /\ seen[w].reserved[m] \in Nat
  BY DEF TypeOK, InHand
<1> QED  BY <1>3, <1>4 DEF GrantOf, Least, Available, Positive

LEMMA CommitStep ==
  ASSUME Inv, NEW w \in WorkOrders,
         CommitRelease(w) \/ CommitSalesRelease(w) \/ AllocateMaterials(w)
  PROVE  Inv'
<1>1. TypeOK
  BY InvParts
<1> DEFINE got == [m \in Materials |-> GrantOf(w, m)]
<1>2. got \in [Materials -> Nat]
  BY <1>1, GrantNat
<1>3. ReserveLines(w) /\ EndRequest(w)
  BY DEF CommitRelease, CommitSalesRelease, AllocateMaterials
<1>4. reservedStock' \in [Materials -> Nat]
  <2>1. \A m \in Materials :
          /\ reservedStock[m] \in Nat
          /\ seen[w].reserved[m] + GrantOf(w, m) \in Nat
    BY <1>1, GrantNat DEF TypeOK
  <2> QED  BY <1>3, <2>1 DEF ReserveLines, Written
<1>5. woStatus' \in [WorkOrders -> WOStatus]
  <2>1. PICK st \in {"MATERIAL_PENDING", "MATERIAL_RESERVED", woStatus[w]} :
           woStatus' = [woStatus EXCEPT ![w] = st]
    BY DEF CommitRelease, CommitSalesRelease, AllocateMaterials
  <2> QED  BY <1>1, <2>1 DEF TypeOK, WOStatus
<1>6. /\ rows' = [rows EXCEPT ![w] = AppendRows(w, got)]
      /\ UNCHANGED <<onHand, netReceived, lineIssued, posted, outputVars, deciding>>
  BY <1>3 DEF ReserveLines
<1>7. RequestsTyped'
  BY <1>1, <1>3, <1>6, EndRequestTypes DEF TypeOK
<1> HIDE DEF got
<1> QED  BY <1>2, <1>4, <1>5, <1>6, <1>7, ReserveStep

LEMMA StorekeeperReserveStep ==
  ASSUME Inv, NEW w \in WorkOrders, NEW m \in Materials, NEW n \in 1..MaxStock,
         StorekeeperReserve(w, m, n)
  PROVE  Inv'
<1>1. TypeOK /\ n \in Nat /\ n > 0
  BY InvParts, BoundAssumption
<1> DEFINE got == [k \in Materials |-> IF k = m THEN n ELSE 0]
<1>2. got \in [Materials -> Nat]
  BY <1>1
<1>3. AppendRows(w, got) = [rows[w] EXCEPT ![m] = Append(@, NewRow(n))]
  <2>1. got[m] = n /\ \A k \in Materials \ {m} : ~ (got[k] > 0)
    OBVIOUS
  <2>2. rows[w] \in [Materials -> Seq(Row)]
    BY <1>1 DEF TypeOK, Quantities
  <2> HIDE DEF got
  <2>3. \A k \in Materials :
          AppendRows(w, got)[k] = IF k = m THEN Append(rows[w][m], NewRow(n)) ELSE rows[w][k]
    BY <1>1, <2>1 DEF AppendRows
  <2>4. AppendRows(w, got) = [k \in Materials |-> AppendRows(w, got)[k]]
    BY DEF AppendRows
  <2> QED  BY <2>2, <2>3, <2>4
<1>4. rows' = [rows EXCEPT ![w] = AppendRows(w, got)]
  BY <1>1, <1>3 DEF StorekeeperReserve, TypeOK, Quantities
<1> HIDE DEF got
<1>5. reservedStock' \in [Materials -> Nat]
  BY <1>1 DEF StorekeeperReserve, TypeOK
<1>6. woStatus' \in [WorkOrders -> WOStatus]
  BY <1>1 DEF StorekeeperReserve, TypeOK, WOStatus
<1> QED  BY <1>1, <1>2, <1>4, <1>5, <1>6, ReserveStep
         DEF StorekeeperReserve, TypeOK, RequestsTyped, requestVars

-----------------------------------------------------------------------------
(* Issues, returns, cancellations *)

\* The lines of one work order change, each according to the books.
LEMMA LinesOfOne ==
  ASSUME TypeOK, Lines, NEW w \in WorkOrders, NEW z,
         rows' = [rows EXCEPT ![w] = z], z = [m \in Materials |-> z[m]],
         \A v \in WorkOrders \ {w} : lineIssued'[v] = lineIssued[v] /\ posted'[v] = posted[v],
         \A m \in Materials : LineOK(z[m], lineIssued'[w][m], posted'[w][m])
  PROVE  Lines' /\ rows' \in Quantities(Seq(Row))
<1>1. \A m \in Materials : z[m] \in Seq(Row)
  BY DEF LineOK
<1>2. z \in [Materials -> Seq(Row)]
  BY <1>1
<1>3. rows' \in Quantities(Seq(Row))
  BY <1>2 DEF TypeOK, Quantities
<1>4. rows'[w] = z /\ \A v \in WorkOrders \ {w} : rows'[v] = rows[v]
  BY DEF TypeOK, Quantities
<1>5. ASSUME NEW v \in WorkOrders, NEW m \in Materials
      PROVE  LineOK(rows'[v][m], lineIssued'[v][m], posted'[v][m])
  <2>1. CASE v = w
    BY <1>4, <2>1
  <2>2. CASE v # w
    <3>1. LineOK(rows[v][m], lineIssued[v][m], posted[v][m])
      BY DEF Lines
    <3> QED  BY <1>4, <2>2, <3>1
  <2> QED  BY <2>1, <2>2
<1> QED  BY <1>3, <1>5 DEF Lines

LEMMA ReleasedNat ==
  ASSUME NEW a \in Nat, NEW n \in Nat
  PROVE  Released(a, n) \in Nat
BY DEF Released, Positive

\* What a request leaves of the stock and of reserved_stock, stale or not.
LEMMA DrawnNat ==
  ASSUME TypeOK, NEW w \in WorkOrders, NEW m \in Materials, NEW n \in Nat
  PROVE  /\ ReservedLess(w, m, n) \in Nat
         /\ n =< InHand(w, m) => Drawn(w, m, n) \in Nat
         /\ Bucketed => Drawn(w, m, n) = onHand[m] - n
<1>1. /\ onHand[m] \in Nat /\ reservedStock[m] \in Nat
      /\ seen[w].stock[m] \in Nat /\ seen[w].reserved[m] \in Nat
  BY DEF TypeOK
<1>2. Released(seen[w].reserved[m], n) \in Nat
  BY <1>1, ReleasedNat
<1> QED  BY <1>1, <1>2 DEF ReservedLess, Drawn, Written, InHand

LEMMA IssueStep ==
  ASSUME Inv, NEW w \in WorkOrders, NEW m \in Materials, NEW n \in 1..MaxStock,
         IssueMaterial(w, m, n)
  PROVE  Inv'
<1>1. TypeOK /\ Lines /\ IssuedWithinRequired /\ n \in Nat
  BY InvParts, BoundAssumption
<1> DEFINE t == Fifo(IssuableOf(rows[w][m]), n)
           z == [rows[w] EXCEPT ![m] = IssueRows(@, t)]
<1>2. /\ lineIssued[w] \in [Materials -> Nat] /\ rows[w] \in [Materials -> Seq(Row)]
      /\ lineIssued \in [WorkOrders -> [Materials -> Nat]]
      /\ onHand \in [Materials -> Nat] /\ reservedStock \in [Materials -> Nat]
  BY <1>1 DEF TypeOK, Quantities
<1>3. /\ n =< Required(w, m) - lineIssued[w][m]
      /\ n =< InHand(w, m)
      /\ CanTake(IssuableOf(rows[w][m]), n)
  BY DEF IssueMaterial, CanIssue
<1>4. /\ rows' = [rows EXCEPT ![w] = z]
      /\ lineIssued' = [lineIssued EXCEPT ![w] = [lineIssued[w] EXCEPT ![m] = @ + n]]
      /\ onHand' = [onHand EXCEPT ![m] = Drawn(w, m, n)]
      /\ reservedStock' = [reservedStock EXCEPT ![m] = ReservedLess(w, m, n)]
      /\ EndRequest(w)
      /\ UNCHANGED <<netReceived, posted, outputVars, deciding>>
  BY DEF IssueMaterial
<1>5. /\ \A v \in WorkOrders \ {w} : lineIssued'[v] = lineIssued[v]
      /\ \A k \in Materials : lineIssued'[w][k] = lineIssued[w][k] + (IF k = m THEN n ELSE 0)
  BY <1>2, <1>4
<1>6. lineIssued' \in Quantities(Nat)
  <2>1. [lineIssued[w] EXCEPT ![m] = @ + n] \in [Materials -> Nat]
    BY <1>1, <1>2
  <2> QED  BY <1>2, <1>4, <2>1 DEF Quantities
<1>7. Lines' /\ rows' \in Quantities(Seq(Row))
  <2>1. t \in FifoTakes(IssuableOf(rows[w][m]), n)
    BY <1>3, FifoIsTake
  <2>2. \A k \in Materials : LineOK(rows[w][k], lineIssued[w][k], posted[w][k])
    BY <1>1 DEF Lines
  <2> HIDE DEF t
  <2>3. LineOK(IssueRows(rows[w][m], t), lineIssued[w][m] + n, posted[w][m])
    BY <1>1, <2>1, <2>2, IssueLine
  <2>4. \A k \in Materials : z[k] = IF k = m THEN IssueRows(rows[w][m], t) ELSE rows[w][k]
    BY <1>2
  <2>5. z = [k \in Materials |-> z[k]]
    BY <1>2
  <2> HIDE DEF z
  <2>6. \A k \in Materials : LineOK(z[k], lineIssued'[w][k], posted'[w][k])
    <3> SUFFICES ASSUME NEW k \in Materials
                 PROVE  LineOK(z[k], lineIssued'[w][k], posted[w][k])
      BY <1>4
    <3>1. CASE k = m
      BY <1>5, <2>3, <2>4, <3>1
    <3>2. CASE k # m
      <4>1. lineIssued'[w][k] = lineIssued[w][k]
        BY <1>2, <1>4, <3>2
      <4> QED  BY <2>2, <2>4, <3>2, <4>1
    <3> QED  BY <3>1, <3>2
  <2> QED  BY <1>1, <1>4, <1>5, <2>5, <2>6, LinesOfOne
<1>8. onHand' \in [Materials -> Nat] /\ reservedStock' \in [Materials -> Nat]
  <2>1. Drawn(w, m, n) \in Nat /\ ReservedLess(w, m, n) \in Nat
    BY <1>1, <1>3, DrawnNat
  <2> QED  BY <1>2, <1>4, <2>1
<1>9. woStatus' \in [WorkOrders -> WOStatus]
  <2>1. PICK st \in {"MATERIAL_ISSUED", woStatus[w]} :
           woStatus' = [woStatus EXCEPT ![w] = st]
    BY DEF IssueMaterial
  <2> QED  BY <1>1, <2>1 DEF TypeOK, WOStatus
<1>10. TypeOK'
  <2>1. RequestsTyped'
    BY <1>1, <1>4, EndRequestTypes DEF TypeOK
  <2> QED  BY <1>1, <1>4, <1>6, <1>7, <1>8, <1>9, <2>1 DEF TypeOK, RequestsTyped, outputVars
<1>11. IssuedWithinRequired'
  <2> SUFFICES ASSUME NEW v \in WorkOrders, NEW k \in Materials
               PROVE  lineIssued'[v][k] =< Required(v, k)
    BY DEF IssuedWithinRequired, Required
  <2>1. lineIssued[v][k] =< Required(v, k) /\ Required(v, k) \in Nat
    BY <1>1, BomAssumption, PlanAssumption DEF IssuedWithinRequired, Required
  <2>2. CASE v = w /\ k = m
    BY <1>1, <1>2, <1>3, <1>5, <2>1, <2>2
  <2>3. CASE ~ (v = w /\ k = m)
    <3>1. lineIssued'[v][k] = lineIssued[v][k]
      BY <1>2, <1>4, <2>3
    <3> QED  BY <2>1, <3>1
  <2> QED  BY <2>2, <2>3
<1>12. StockConserved'
  <2>1. ASSUME Bucketed, NEW k \in Materials
        PROVE  onHand'[k] + lineIssued'[w][k] = onHand[k] + lineIssued[w][k]
    <3>1. Drawn(w, m, n) = onHand[m] - n
      BY <1>1, <2>1, DrawnNat
    <3> QED  BY <1>1, <1>2, <1>4, <1>5, <3>1
  <2> QED  BY <1>4, <1>5, <1>10, <2>1, StoreToOrder
<1> QED  BY <1>4, <1>7, <1>10, <1>11, <1>12, GoodsAlone, PartsInvNext DEF outputVars

LEMMA ReturnStep ==
  ASSUME Inv, NEW w \in WorkOrders, NEW m \in Materials, NEW n \in 1..MaxStock,
         ReturnMaterial(w, m, n)
  PROVE  Inv'
<1>1. TypeOK /\ Lines /\ IssuedWithinRequired /\ n \in Nat
  BY InvParts, BoundAssumption
<1> DEFINE t == Fifo(ReturnableOf(rows[w][m]), n)
           z == [rows[w] EXCEPT ![m] = ReturnRows(@, t)]
<1>2. /\ lineIssued[w] \in [Materials -> Nat] /\ rows[w] \in [Materials -> Seq(Row)]
      /\ lineIssued \in [WorkOrders -> [Materials -> Nat]]
      /\ onHand \in [Materials -> Nat]
  BY <1>1 DEF TypeOK, Quantities
<1>3. CanTake(ReturnableOf(rows[w][m]), n)
  BY DEF ReturnMaterial
<1>4. /\ rows' = [rows EXCEPT ![w] = z]
      /\ lineIssued' = [lineIssued EXCEPT ![w][m] = Positive(@ - n)]
      /\ onHand' = [onHand EXCEPT ![m] = @ + n]
      /\ UNCHANGED <<reservedStock, netReceived, posted, outputVars, woStatus, requestVars>>
  BY <1>2 DEF ReturnMaterial
<1>5. t \in FifoTakes(ReturnableOf(rows[w][m]), n)
  BY <1>3, FifoIsTake
<1>6. \A k \in Materials : LineOK(rows[w][k], lineIssued[w][k], posted[w][k])
  BY <1>1 DEF Lines
<1> HIDE DEF t
<1>7. /\ n =< lineIssued[w][m]
      /\ LineOK(ReturnRows(rows[w][m], t), lineIssued[w][m] - n, posted[w][m])
  BY <1>1, <1>5, <1>6, ReturnLine
<1>8. /\ \A v \in WorkOrders \ {w} : lineIssued'[v] = lineIssued[v]
      /\ \A k \in Materials : lineIssued'[w][k] = lineIssued[w][k] - (IF k = m THEN n ELSE 0)
  BY <1>1, <1>2, <1>4, <1>7 DEF Positive
<1>9. lineIssued' \in Quantities(Nat)
  <2>1. Positive(lineIssued[w][m] - n) \in Nat
    BY <1>1, <1>2 DEF Positive
  <2> QED  BY <1>2, <1>4, <2>1 DEF Quantities
<1>10. Lines' /\ rows' \in Quantities(Seq(Row))
  <2>1. \A k \in Materials : z[k] = IF k = m THEN ReturnRows(rows[w][m], t) ELSE rows[w][k]
    BY <1>2
  <2>2. z = [k \in Materials |-> z[k]]
    BY <1>2
  <2> HIDE DEF z
  <2>3. \A k \in Materials : LineOK(z[k], lineIssued'[w][k], posted'[w][k])
    <3> SUFFICES ASSUME NEW k \in Materials
                 PROVE  LineOK(z[k], lineIssued'[w][k], posted[w][k])
      BY <1>4
    <3>1. CASE k = m
      BY <1>7, <1>8, <2>1, <3>1
    <3>2. CASE k # m
      <4>1. lineIssued'[w][k] = lineIssued[w][k]
        BY <1>2, <1>4, <3>2
      <4> QED  BY <1>6, <2>1, <3>2, <4>1
    <3> QED  BY <3>1, <3>2
  <2> QED  BY <1>1, <1>4, <1>8, <2>2, <2>3, LinesOfOne
<1>11. TypeOK'
  <2>1. onHand' \in [Materials -> Nat]
    BY <1>1, <1>2, <1>4
  <2> QED  BY <1>1, <1>4, <1>9, <1>10, <2>1 DEF TypeOK, outputVars, requestVars
<1>12. IssuedWithinRequired'
  <2> SUFFICES ASSUME NEW v \in WorkOrders, NEW k \in Materials
               PROVE  lineIssued'[v][k] =< Required(v, k)
    BY DEF IssuedWithinRequired, Required
  <2>1. /\ lineIssued[v][k] =< Required(v, k) /\ Required(v, k) \in Nat
        /\ lineIssued[v][k] \in Nat
    BY <1>1, <1>2, BomAssumption, PlanAssumption DEF IssuedWithinRequired, Required
  <2>2. lineIssued'[v][k] =< lineIssued[v][k]
    BY <1>1, <1>8, <2>1
  <2>3. lineIssued'[v][k] \in Nat
    BY <1>9 DEF Quantities
  <2> QED  BY <2>1, <2>2, <2>3
<1>13. StockConserved'
  <2>1. \A k \in Materials :
          onHand'[k] + lineIssued'[w][k] = onHand[k] + lineIssued[w][k]
    BY <1>1, <1>2, <1>4, <1>8
  <2> QED  BY <1>4, <1>8, <1>11, <2>1, StoreToOrder
<1> QED  BY <1>4, <1>10, <1>11, <1>12, <1>13, GoodsAlone, PartsInvNext DEF outputVars

LEMMA CancellableNat ==
  ASSUME TypeOK, NEW w \in WorkOrders, NEW m \in Materials
  PROVE  Total(CancellableOf(rows[w][m])) \in Nat
<1> DEFINE s == rows[w][m]
<1>1. s \in Seq(Row)
  BY DEF TypeOK, Quantities
<1> HIDE DEF s
<1>2. CancellableOf(s) \in [DOMAIN s -> Nat]
  <2>1. \A i \in DOMAIN s : s[i] \in Row
    BY <1>1
  <2>2. \A i \in DOMAIN s : Positive(Unissued(s[i])) \in Nat
    BY <2>1 DEF Row, Positive, Unissued
  <2> QED  BY <2>2 DEF CancellableOf
<1>3. Total(CancellableOf(s)) \in Nat
  BY <1>1, <1>2, Columns, UnitsFinite
<1> QED  BY <1>3 DEF s

\* Cancellation of some lines of a work order.
LEMMA CancelStep ==
  ASSUME Inv, NEW w \in WorkOrders, NEW z,
         z = [m \in Materials |-> z[m]],
         \A m \in Materials : z[m] = rows[w][m] \/ z[m] = CancelRows(rows[w][m]),
         rows' = [rows EXCEPT ![w] = z],
         UNCHANGED <<onHand, netReceived, lineIssued, posted, produced>>,
         reservedStock' \in [Materials -> Nat],
         scrap' \in [WorkOrders -> Nat],
         woStatus' \in [WorkOrders -> WOStatus],
         RequestsTyped'
  PROVE  Inv'
<1>1. TypeOK /\ Lines /\ IssuedWithinRequired
  BY InvParts
<1>2. \A m \in Materials : LineOK(z[m], lineIssued[w][m], posted[w][m])
  <2> SUFFICES ASSUME NEW m \in Materials
               PROVE  LineOK(z[m], lineIssued[w][m], posted[w][m])
    OBVIOUS
  <2>1. LineOK(rows[w][m], lineIssued[w][m], posted[w][m])
    BY <1>1 DEF Lines
  <2>2. LineOK(CancelRows(rows[w][m]), lineIssued[w][m], posted[w][m])
    BY <2>1, CancelLine
  <2> QED  BY <2>1, <2>2
<1>3. Lines' /\ rows' \in Quantities(Seq(Row))
  BY <1>1, <1>2, LinesOfOne
<1>4. TypeOK'
  BY <1>1, <1>3 DEF TypeOK, RequestsTyped
<1> QED  BY <1>1, <1>3, <1>4, GoodsAlone, StoreAlone, PartsInvNext DEF IssuedWithinRequired

LEMMA RejectStep ==
  ASSUME Inv, NEW w \in WorkOrders, NEW m \in Materials, RejectIssue(w, m)
  PROVE  Inv'
<1>1. TypeOK
  BY InvParts
<1> DEFINE z == [rows[w] EXCEPT ![m] = CancelRows(@)]
<1>2. rows[w] \in [Materials -> Seq(Row)]
  BY <1>1 DEF TypeOK, Quantities
<1>3. /\ z = [k \in Materials |-> z[k]]
      /\ \A k \in Materials : z[k] = rows[w][k] \/ z[k] = CancelRows(rows[w][k])
  BY <1>2
<1>4. /\ rows' = [rows EXCEPT ![w] = z]
      /\ UNCHANGED <<onHand, netReceived, lineIssued, posted, outputVars, woStatus, requestVars>>
  BY DEF RejectIssue
<1>5. reservedStock' \in [Materials -> Nat]
  <2>1. Released(reservedStock[m], Total(CancellableOf(rows[w][m]))) \in Nat
    BY <1>1, CancellableNat, ReleasedNat DEF TypeOK
  <2> QED  BY <1>1, <2>1 DEF RejectIssue, TypeOK
<1>6. /\ UNCHANGED <<onHand, netReceived, lineIssued, posted, produced>>
      /\ scrap' \in [WorkOrders -> Nat] /\ woStatus' \in [WorkOrders -> WOStatus]
      /\ RequestsTyped'
  BY <1>1, <1>4 DEF TypeOK, RequestsTyped, outputVars, requestVars
<1> HIDE DEF z
<1> QED  BY <1>3, <1>4, <1>5, <1>6, CancelStep

LEMMA ScrapStep ==
  ASSUME Inv, NEW w \in WorkOrders, NEW s \in 0..MaxScrap, ScrapBatch(w, s)
  PROVE  Inv'
<1>1. TypeOK /\ s \in Nat
  BY InvParts, BoundAssumption
<1> DEFINE z == [m \in Materials |-> CancelRows(rows[w][m])]
<1>2. /\ z = [k \in Materials |-> z[k]]
      /\ \A k \in Materials : z[k] = rows[w][k] \/ z[k] = CancelRows(rows[w][k])
  OBVIOUS
<1>3. /\ rows' = [rows EXCEPT ![w] = z]
      /\ UNCHANGED <<onHand, netReceived, lineIssued, posted, produced>>
      /\ EndRequest(w)
  BY <1>1 DEF ScrapBatch, Decide, TypeOK
<1>4. reservedStock' \in [Materials -> Nat]
  <2>1. \A m \in Materials : ReservedLess(w, m, Total(CancellableOf(rows[w][m]))) \in Nat
    BY <1>1, CancellableNat, DrawnNat
  <2> QED  BY <2>1 DEF ScrapBatch
<1>5. PICK r \in deciding[w] :
         /\ Decide(w, r, "CLOSED")
         /\ scrap' = [scrap EXCEPT ![w] = Written(@, r.scrap, s)]
  BY DEF ScrapBatch
<1>6. scrap' \in [WorkOrders -> Nat] /\ woStatus' \in [WorkOrders -> WOStatus]
  <2>1. PICK n \in Nat : scrap' = [scrap EXCEPT ![w] = n]
    BY <1>1, <1>5 DEF TypeOK, Written
  <2> QED  BY <1>1, <1>5, <2>1 DEF Decide, TypeOK, WOStatus
<1>7. RequestsTyped'
  <2>1. deciding' \in [WorkOrders -> SUBSET [decision : Decisions, scrap : Nat]]
    BY <1>1, <1>5 DEF Decide, TypeOK
  <2> QED  BY <1>1, <1>3, <2>1, EndRequestTypes
<1> HIDE DEF z
<1> QED  BY <1>2, <1>3, <1>4, <1>6, <1>7, CancelStep

-----------------------------------------------------------------------------
(* Production *)

LEMMA MoreOutput ==
  ASSUME NEW p \in Nat, NEW s \in Nat, NEW k \in Nat
  PROVE  p * k =< (p + s) * k /\ p * k \in Nat /\ (p + s) * k \in Nat
<1>1. (p + s) * k = p * k + s * k
  OBVIOUS
<1>2. p * k \in Nat /\ s * k \in Nat
  OBVIOUS
<1> QED  BY <1>1, <1>2

LEMMA PostStep ==
  ASSUME Inv, NEW w \in WorkOrders, NEW p \in Nat, NEW s \in Nat, PostOutput(w, p, s),
         woStatus' \in [WorkOrders -> WOStatus]
  PROVE  Inv'
<1>1. TypeOK /\ Lines /\ IssuedWithinRequired /\ NoFreeGoods
  BY InvParts
<1> DEFINE need  == [m \in Materials |-> ToConsume(w, m, p + s)]
           short == [m \in Materials |->
                       Positive(need[m] - Total(ConsumableOf(rows[w][m])))]
           issued == [m \in Materials |->
                       IssueRows(rows[w][m], Fifo(IssuableOf(rows[w][m]), short[m]))]
           z == [m \in Materials |->
                  ConsumeRows(issued[m], Fifo(ConsumableOf(issued[m]), need[m]))]
<1>2. /\ \A m \in Materials : /\ CanIssue(w, m, short[m])
                              /\ CanTake(ConsumableOf(issued[m]), need[m])
      /\ rows' = [rows EXCEPT ![w] = z]
      /\ lineIssued' = [lineIssued EXCEPT ![w] = [m \in Materials |-> @[m] + short[m]]]
      /\ posted' = [posted EXCEPT ![w] = [m \in Materials |-> @[m] + need[m]]]
      /\ onHand' = [m \in Materials |-> Drawn(w, m, short[m])]
      /\ reservedStock' = [m \in Materials |-> ReservedLess(w, m, short[m])]
      /\ produced' = [produced EXCEPT ![w] = p]
      /\ scrap' = [scrap EXCEPT ![w] = s]
      /\ EndRequest(w)
      /\ UNCHANGED <<netReceived, deciding>>
  BY DEF PostOutput
<1>3. /\ lineIssued \in [WorkOrders -> [Materials -> Nat]]
      /\ posted \in [WorkOrders -> [Materials -> Nat]]
      /\ rows \in [WorkOrders -> [Materials -> Seq(Row)]]
      /\ onHand \in [Materials -> Nat] /\ reservedStock \in [Materials -> Nat]
      /\ produced \in [WorkOrders -> Nat] /\ scrap \in [WorkOrders -> Nat]
  BY <1>1 DEF TypeOK, Quantities
<1>4. \A m \in Materials : PerUnit[w][m] \in Nat /\ (p + s) * PerUnit[w][m] \in Nat
  BY BomAssumption, MoreOutput
<1>5. \A m \in Materials : need[m] \in Nat /\ (p + s) * PerUnit[w][m] =< posted[w][m] + need[m]
  BY <1>3, <1>4 DEF ToConsume, Positive
<1>6. \A m \in Materials : short[m] \in Nat
  <2> SUFFICES ASSUME NEW m \in Materials
               PROVE  Positive(need[m] - Total(ConsumableOf(rows[w][m]))) \in Nat
    OBVIOUS
  <2> DEFINE r == rows[w][m]
  <2>1. r \in Seq(Row)
    BY <1>3
  <2> HIDE DEF r
  <2>2. ConsumableOf(r) \in [DOMAIN r -> Nat]
    <3>1. \A i \in DOMAIN r : r[i] \in Row
      BY <2>1
    <3>2. \A i \in DOMAIN r : Unused(r[i]) \in Nat
      BY <3>1 DEF Row, Unused, Positive
    <3> QED  BY <3>2 DEF ConsumableOf
  <2>3. Total(ConsumableOf(r)) \in Nat
    BY <2>1, <2>2, Columns, UnitsFinite
  <2>4. need[m] \in Nat
    BY <1>5
  <2> HIDE DEF need
  <2> QED  BY <2>3, <2>4 DEF Positive, r
<1>7. \A m \in Materials : /\ short[m] =< Required(w, m) - lineIssued[w][m]
                           /\ short[m] =< InHand(w, m)
                           /\ CanTake(IssuableOf(rows[w][m]), short[m])
                           /\ CanTake(ConsumableOf(issued[m]), need[m])
  BY <1>2 DEF CanIssue
<1>8. \A m \in Materials :
        LineOK(z[m], lineIssued[w][m] + short[m], posted[w][m] + need[m])
  <2> SUFFICES ASSUME NEW m \in Materials
               PROVE  LineOK(z[m], lineIssued[w][m] + short[m], posted[w][m] + need[m])
    OBVIOUS
  <2> DEFINE t == Fifo(IssuableOf(rows[w][m]), short[m])
             u == Fifo(ConsumableOf(issued[m]), need[m])
  <2>1. issued[m] = IssueRows(rows[w][m], t) /\ z[m] = ConsumeRows(issued[m], u)
    OBVIOUS
  <2>2. LineOK(rows[w][m], lineIssued[w][m], posted[w][m])
    BY <1>1 DEF Lines
  <2>3. t \in FifoTakes(IssuableOf(rows[w][m]), short[m])
    BY <1>7, FifoIsTake
  <2>4. u \in FifoTakes(ConsumableOf(issued[m]), need[m])
    BY <1>7, FifoIsTake
  <2>5. short[m] \in Nat /\ need[m] \in Nat
    BY <1>5, <1>6
  <2> HIDE DEF t, u, z, issued, short, need
  <2>6. LineOK(issued[m], lineIssued[w][m] + short[m], posted[w][m])
    BY <2>1, <2>2, <2>3, <2>5, IssueLine
  <2>7. LineOK(ConsumeRows(issued[m], u), lineIssued[w][m] + short[m], posted[w][m] + need[m])
    BY <2>4, <2>5, <2>6, ConsumeLine
  <2> QED  BY <2>1, <2>7
<1>9. z = [m \in Materials |-> z[m]]
  OBVIOUS
<1> HIDE DEF z, issued, short, need
<1>10. /\ \A v \in WorkOrders \ {w} : lineIssued'[v] = lineIssued[v] /\ posted'[v] = posted[v]
       /\ \A m \in Materials : /\ lineIssued'[w][m] = lineIssued[w][m] + short[m]
                               /\ posted'[w][m] = posted[w][m] + need[m]
  BY <1>2, <1>3
<1>11. Lines' /\ rows' \in Quantities(Seq(Row))
  <2>1. \A m \in Materials : LineOK(z[m], lineIssued'[w][m], posted'[w][m])
    <3> SUFFICES ASSUME NEW m \in Materials
                 PROVE  LineOK(z[m], lineIssued'[w][m], posted'[w][m])
      OBVIOUS
    <3>1. /\ lineIssued'[w][m] = lineIssued[w][m] + short[m]
          /\ posted'[w][m] = posted[w][m] + need[m]
      BY <1>10
    <3> QED  BY <1>8, <3>1
  <2>2. rows' = [rows EXCEPT ![w] = z]
    BY <1>2
  <2> QED  BY <1>1, <1>9, <1>10, <2>1, <2>2, LinesOfOne
<1>12. TypeOK'
  <2>1. lineIssued' \in Quantities(Nat) /\ posted' \in Quantities(Nat)
    <3>1. /\ [m \in Materials |-> lineIssued[w][m] + short[m]] \in [Materials -> Nat]
          /\ [m \in Materials |-> posted[w][m] + need[m]] \in [Materials -> Nat]
      BY <1>3, <1>5, <1>6
    <3> QED  BY <1>2, <1>3, <3>1 DEF Quantities
  <2>2. onHand' \in [Materials -> Nat] /\ reservedStock' \in [Materials -> Nat]
    <3>1. \A m \in Materials : /\ Drawn(w, m, short[m]) \in Nat
                               /\ ReservedLess(w, m, short[m]) \in Nat
      BY <1>1, <1>6, <1>7, DrawnNat
    <3> QED  BY <1>2, <3>1
  <2>3. produced' \in [WorkOrders -> Nat] /\ scrap' \in [WorkOrders -> Nat]
    BY <1>2, <1>3
  <2>4. RequestsTyped'
    BY <1>1, <1>2, EndRequestTypes DEF TypeOK
  <2> QED  BY <1>1, <1>2, <1>11, <2>1, <2>2, <2>3, <2>4 DEF TypeOK, RequestsTyped
<1>13. IssuedWithinRequired'
  <2> SUFFICES ASSUME NEW v \in WorkOrders, NEW m \in Materials
               PROVE  lineIssued'[v][m] =< Required(v, m)
    BY DEF IssuedWithinRequired, Required
  <2>1. /\ lineIssued[v][m] =< Required(v, m) /\ Required(v, m) \in Nat
        /\ lineIssued[v][m] \in Nat
    BY <1>1, <1>3, BomAssumption, PlanAssumption DEF IssuedWithinRequired, Required
  <2>2. CASE v = w
    BY <1>6, <1>7, <1>10, <2>1, <2>2
  <2>3. CASE v # w
    BY <1>10, <2>1, <2>3
  <2> QED  BY <2>2, <2>3
<1>14. NoFreeGoods'
  <2> SUFFICES ASSUME NEW v \in WorkOrders, NEW m \in Materials
               PROVE  produced'[v] * PerUnit[v][m] =< posted'[v][m]
    BY DEF NoFreeGoods
  <2>1. CASE v = w
    <3>1. produced'[v] = p /\ posted'[v][m] = posted[w][m] + need[m]
      BY <1>2, <1>3, <1>10, <2>1
    <3>2. /\ p * PerUnit[w][m] =< (p + s) * PerUnit[w][m]
          /\ p * PerUnit[w][m] \in Nat /\ (p + s) * PerUnit[w][m] \in Nat
      BY <1>4, MoreOutput
    <3>3. posted[w][m] + need[m] \in Nat
      BY <1>3, <1>5
    <3>4. p * PerUnit[w][m] =< posted[w][m] + need[m]
      BY <1>5, <3>2, <3>3
    <3> QED  BY <2>1, <3>1, <3>4
  <2>2. CASE v # w
    <3>1. produced'[v] = produced[v] /\ posted'[v] = posted[v]
      BY <1>2, <1>3, <1>10, <2>2
    <3>2. produced[v] * PerUnit[v][m] =< posted[v][m]
      BY <1>1 DEF NoFreeGoods
    <3> QED  BY <3>1, <3>2
  <2> QED  BY <2>1, <2>2
<1>15. StockConserved'
  <2>1. ASSUME Bucketed, NEW m \in Materials
        PROVE  onHand'[m] + lineIssued'[w][m] = onHand[m] + lineIssued[w][m]
    <3>1. Drawn(w, m, short[m]) = onHand[m] - short[m]
      BY <1>1, <1>6, <2>1, DrawnNat
    <3> QED  BY <1>2, <1>3, <1>6, <1>10, <2>1, <3>1
  <2> QED  BY <1>2, <1>10, <1>12, <2>1, StoreToOrder
<1> QED  BY <1>11, <1>12, <1>13, <1>14, <1>15, PartsInvNext

LEMMA RecordStep ==
  ASSUME Inv, NEW w \in WorkOrders, NEW p \in 0..Planned[w] + 1, NEW s \in 0..MaxScrap,
         RecordProduction(w, p, s) \/ WorkerRecordProduction(w, p, s)
  PROVE  Inv'
<1>1. TypeOK /\ p \in Nat /\ s \in Nat
  BY InvParts, BoundAssumption, PlanAssumption
<1>2. CASE RecordProduction(w, p, s)
  <2>1. produced[w] + p \in Nat
    BY <1>1 DEF TypeOK
  <2>2. PostOutput(w, produced[w] + p, s) /\ woStatus' \in [WorkOrders -> WOStatus]
    BY <1>1, <1>2 DEF RecordProduction, TypeOK
  <2> QED  BY <1>1, <2>1, <2>2, PostStep
<1>3. CASE WorkerRecordProduction(w, p, s)
  <2>1. PICK st \in {"QC_PENDING", woStatus[w]} :
           woStatus' = [woStatus EXCEPT ![w] = st]
    BY <1>3 DEF WorkerRecordProduction
  <2>2. woStatus' \in [WorkOrders -> WOStatus]
    BY <1>1, <2>1 DEF TypeOK, WOStatus
  <2> QED  BY <1>1, <1>3, <2>2, PostStep DEF WorkerRecordProduction
<1> QED  BY <1>2, <1>3

-----------------------------------------------------------------------------
(* The theorems *)

LEMMA NextInv ==
  ASSUME Inv, [Next]_vars
  PROVE  Inv'
<1>1. CASE UNCHANGED vars
  <2>1. UNCHANGED <<stockVars, lineVars, outputVars, requestVars, woStatus>>
    BY <1>1 DEF vars
  <2> QED  BY <2>1, PaperStep, InvParts DEF TypeOK, RequestsTyped, outputVars, requestVars
<1>2. ASSUME NEW m \in Materials, Stock(m)
      PROVE  Inv'
  BY <1>2, StockStep DEF Stock
<1>3. ASSUME NEW w \in WorkOrders, Release(w)
      PROVE  Inv'
  BY <1>3, RequestStep, CommitStep DEF Release
<1>4. ASSUME NEW w \in WorkOrders, Storekeeper(w)
      PROVE  Inv'
  BY <1>4, StorekeeperReserveStep, IssueStep, ReturnStep, RejectStep DEF Storekeeper
<1>5. ASSUME NEW w \in WorkOrders, Production(w)
      PROVE  Inv'
  BY <1>5, RequestStep, RecordStep, WastageStep DEF Production
<1>6. ASSUME NEW w \in WorkOrders, QualityControl(w)
      PROVE  Inv'
  BY <1>6, QualityStep, ScrapStep DEF QualityControl
<1> QED  BY <1>1, <1>2, <1>3, <1>4, <1>5, <1>6 DEF Next

(* Inv is an inductive invariant of the specification. *)
THEOREM Invariance == Spec => []Inv
<1>1. Init => Inv
  BY InitInv
<1>2. Inv /\ [Next]_vars => Inv'
  BY NextInv
<1> QED  BY <1>1, <1>2, PTL DEF Spec

(* Every table holds rows of its type; in particular no request can leave a
   negative stock, reservation or quantity behind. *)
THEOREM TypeCorrect == Spec => []TypeOK
<1>1. Inv => TypeOK
  BY DEF Inv
<1> QED  BY <1>1, Invariance, PTL

(* A reservation row never gives more than it holds. *)
THEOREM RowsAccounted == Spec => []RowAccounting
<1>1. Inv => RowAccounting
  BY DEF Inv
<1> QED  BY <1>1, Invariance, PTL

\* What a line has been issued is what its reservation rows gave it, less what came
\* back, however issues, returns and cancellations follow each other.
THEOREM BooksAgree == Spec => []LineMatchesRows
<1>1. Inv => LineMatchesRows
  BY DEF Inv
<1> QED  BY <1>1, Invariance, PTL

\* The consumption records and the rows count the same units as used.
THEOREM PostingsAgree == Spec => []PostedMatchesRows
<1>1. Inv => PostedMatchesRows
  BY DEF Inv
<1> QED  BY <1>1, Invariance, PTL

(* With stock in buckets, what is on hand and what the work orders hold is what
   was received, although the requests hold stale material objects. *)
THEOREM Conservation == Spec => []StockConserved
<1>1. Inv => StockConserved
  BY DEF Inv
<1> QED  BY <1>1, Invariance, PTL

(* No finished goods without the material the BOM asks for them. *)
THEOREM GoodsPaidFor == Spec => []NoFreeGoods
<1>1. Inv => NoFreeGoods
  BY DEF Inv
<1> QED  BY <1>1, Invariance, PTL

LEMMA FewerFactor ==
  ASSUME NEW p \in Nat, NEW q \in Nat, NEW k \in Nat, k > 0, p * k =< q * k
  PROVE  p =< q
<1> SUFFICES ASSUME p > q
             PROVE  FALSE
  OBVIOUS
<1>1. PICK d \in Nat : d > 0 /\ p = q + d
  <2>1. p - q \in Nat /\ p - q > 0 /\ p = q + (p - q)
    OBVIOUS
  <2> QED  BY <2>1
<1>2. p * k = q * k + d * k /\ q * k \in Nat /\ d * k \in Nat
  BY <1>1
<1>3. d * k > 0
  BY <1>1
<1> QED  BY <1>2, <1>3

(* A work order whose BOM asks for any material never produces beyond its plan:
   the output is paid for by consumption, consumption by issues, and issues
   stop at the requirement. *)
THEOREM PlanRespected == Spec => []ProducedWithinPlan
<1>1. Inv => ProducedWithinPlan
  <2> SUFFICES ASSUME Inv, NEW w \in WorkOrders, NEW m \in Materials, PerUnit[w][m] > 0
               PROVE  produced[w] =< Planned[w]
    BY DEF ProducedWithinPlan
  <2>1. TypeOK /\ Lines /\ IssuedWithinRequired /\ NoFreeGoods
    BY InvParts
  <2>2. posted[w][m] =< lineIssued[w][m]
    BY <2>1, ConsumedWithinIssued DEF Lines
  <2>3. /\ produced[w] \in Nat /\ Planned[w] \in Nat /\ PerUnit[w][m] \in Nat
        /\ posted[w][m] \in Nat /\ lineIssued[w][m] \in Nat
    BY <2>1, BomAssumption, PlanAssumption DEF TypeOK, Quantities
  <2>4. /\ produced[w] * PerUnit[w][m] =< posted[w][m]
        /\ lineIssued[w][m] =< Planned[w] * PerUnit[w][m]
    BY <2>1 DEF NoFreeGoods, IssuedWithinRequired, Required
  <2>5. produced[w] * PerUnit[w][m] \in Nat /\ Planned[w] * PerUnit[w][m] \in Nat
    BY <2>3
  <2>6. produced[w] * PerUnit[w][m] =< Planned[w] * PerUnit[w][m]
    BY <2>2, <2>3, <2>4, <2>5
  <2> QED  BY <2>3, <2>6, FewerFactor
<1> QED  BY <1>1, Invariance, PTL

-----------------------------------------------------------------------------
(* The flow of material: every step maps to a step of MaterialFlow, or changes
   nothing it shows *)

\* What a work order holds was issued to it, and never all used more than once.
HoldsNat ==
  \A w \in WorkOrders, m \in Materials :
    /\ Holding[w][m] = lineIssued[w][m] - posted[w][m]
    /\ Holding[w][m] \in Nat
    /\ lineIssued[w][m] \in Nat /\ posted[w][m] \in Nat /\ onHand[m] \in Nat

LEMMA HoldingNat == Inv => HoldsNat
<1> SUFFICES ASSUME Inv, NEW w \in WorkOrders, NEW m \in Materials
             PROVE  /\ Holding[w][m] = lineIssued[w][m] - posted[w][m]
                    /\ Holding[w][m] \in Nat
                    /\ lineIssued[w][m] \in Nat /\ posted[w][m] \in Nat /\ onHand[m] \in Nat
  BY DEF HoldsNat
<1>1. LineOK(rows[w][m], lineIssued[w][m], posted[w][m]) /\ TypeOK
  BY InvParts DEF Lines
<1>2. posted[w][m] =< lineIssued[w][m]
  BY <1>1, ConsumedWithinIssued
<1> QED  BY <1>1, <1>2 DEF Holding, TypeOK, Quantities

\* A step that moves no material, as far as MaterialFlow shows.
LEMMA FlowStutter ==
  ASSUME UNCHANGED <<onHand, lineIssued, posted, produced>>
  PROVE  UNCHANGED Flow!vars
BY DEF Flow!vars, Holding

\* Only w is touched.
LEMMA FlowOnly ==
  ASSUME NEW w \in WorkOrders,
         \A v \in WorkOrders \ {w} :
           lineIssued'[v] = lineIssued[v] /\ posted'[v] = posted[v] /\ produced'[v] = produced[v]
  PROVE  Flow!Only(w)
BY DEF Flow!Only, Holding

\* What leaves the store for w is issued to it.
LEMMA FlowBalanced ==
  ASSUME HoldsNat, HoldsNat', NEW w \in WorkOrders,
         \A m \in Materials : onHand'[m] + lineIssued'[w][m] = onHand[m] + lineIssued[w][m]
  PROVE  Flow!Balanced(w)
<1> SUFFICES ASSUME NEW m \in Materials
             PROVE  /\ onHand'[m] \in Nat /\ Holding'[w][m] \in Nat
                    /\ onHand'[m] + Holding'[w][m] + posted'[w][m]
                         = onHand[m] + Holding[w][m] + posted[w][m]
  BY DEF Flow!Balanced
<1>1. /\ Holding[w][m] = lineIssued[w][m] - posted[w][m]
      /\ lineIssued[w][m] \in Nat /\ posted[w][m] \in Nat /\ onHand[m] \in Nat
  BY DEF HoldsNat
<1>2. /\ Holding'[w][m] = lineIssued'[w][m] - posted'[w][m] /\ Holding'[w][m] \in Nat
      /\ lineIssued'[w][m] \in Nat /\ posted'[w][m] \in Nat /\ onHand'[m] \in Nat
  BY DEF HoldsNat
<1> QED  BY <1>1, <1>2

-----------------------------------------------------------------------------
(* Initially *)

LEMMA FlowInit == Init => Flow!Init
<1> SUFFICES ASSUME Init
             PROVE  /\ onHand = [m \in Materials |-> 0]
                    /\ Holding = [w \in WorkOrders |-> [m \in Materials |-> 0]]
                    /\ posted = Holding
                    /\ produced = [w \in WorkOrders |-> 0]
  BY DEF Flow!Init
<1>1. \A w \in WorkOrders, m \in Materials : lineIssued[w][m] - posted[w][m] = 0
  BY DEF Init
<1> QED  BY <1>1 DEF Init, Holding

-----------------------------------------------------------------------------
(* Every step *)

LEMMA FlowStock ==
  ASSUME Inv, HoldsNat', NEW m \in Materials, NEW n \in 1..MaxStock,
         ReceiveStock(m, n) \/ RemoveStock(m, n)
  PROVE  Flow!Supply(m)
<1>1. /\ \A k \in Materials : onHand'[k] \in Nat
      /\ \A k \in Materials : k # m => onHand'[k] = onHand[k]
  <2>1. onHand \in [Materials -> Nat]
    BY InvParts DEF TypeOK
  <2>2. \A k \in Materials : k # m => onHand'[k] = onHand[k]
    BY <2>1 DEF ReceiveStock, RemoveStock
  <2>3. Inv'
    BY StockStep
  <2>4. onHand' \in [Materials -> Nat]
    BY <2>3 DEF Inv, TypeOK
  <2> QED  BY <2>1, <2>2, <2>4
<1>2. UNCHANGED <<lineIssued, posted, produced>>
  BY DEF ReceiveStock, RemoveStock, lineVars, outputVars
<1> QED  BY <1>1, <1>2 DEF Flow!Supply, Holding

LEMMA FlowIssue ==
  ASSUME Bucketed, Inv, HoldsNat, HoldsNat', NEW w \in WorkOrders, NEW m \in Materials,
         NEW n \in 1..MaxStock, IssueMaterial(w, m, n)
  PROVE  Flow!Work(w)
<1>1. TypeOK /\ NoFreeGoods /\ n \in Nat
  BY InvParts, BoundAssumption
<1>2. /\ lineIssued \in [WorkOrders -> [Materials -> Nat]]
      /\ onHand \in [Materials -> Nat]
      /\ posted \in [WorkOrders -> [Materials -> Nat]]
      /\ produced \in [WorkOrders -> Nat]
  BY <1>1 DEF TypeOK, Quantities
<1>3. /\ lineIssued' = [lineIssued EXCEPT ![w] = [lineIssued[w] EXCEPT ![m] = @ + n]]
      /\ onHand' = [onHand EXCEPT ![m] = Drawn(w, m, n)]
      /\ UNCHANGED <<posted, produced>>
  BY DEF IssueMaterial, outputVars
<1>4. Drawn(w, m, n) = onHand[m] - n
  BY <1>1, DrawnNat
<1>5. \A k \in Materials : /\ onHand'[k] + lineIssued'[w][k] = onHand[k] + lineIssued[w][k]
                           /\ onHand'[k] =< onHand[k] /\ posted[w][k] =< posted'[w][k]
  BY <1>1, <1>2, <1>3, <1>4
<1>6. Flow!Only(w)
  BY <1>2, <1>3, FlowOnly
<1>7. Flow!Balanced(w)
  BY <1>5, FlowBalanced
<1>8. /\ produced[w] =< produced'[w]
      /\ \A k \in Materials : produced'[w] * PerUnit[w][k] =< posted'[w][k]
  BY <1>1, <1>2, <1>3 DEF NoFreeGoods
<1> QED  BY <1>5, <1>6, <1>7, <1>8 DEF Flow!Work

LEMMA FlowReturn ==
  ASSUME Inv, HoldsNat, HoldsNat', NEW w \in WorkOrders, NEW m \in Materials,
         NEW n \in 1..MaxStock, ReturnMaterial(w, m, n)
  PROVE  Flow!GiveBack(w)
<1>1. TypeOK /\ Lines /\ n \in Nat
  BY InvParts, BoundAssumption
<1>2. /\ lineIssued \in [WorkOrders -> [Materials -> Nat]]
      /\ onHand \in [Materials -> Nat]
  BY <1>1 DEF TypeOK, Quantities
<1>3. /\ lineIssued' = [lineIssued EXCEPT ![w][m] = Positive(@ - n)]
      /\ onHand' = [onHand EXCEPT ![m] = @ + n]
      /\ UNCHANGED <<posted, produced>>
      /\ CanTake(ReturnableOf(rows[w][m]), n)
  BY DEF ReturnMaterial, outputVars
<1>4. n =< lineIssued[w][m]
  <2>1. Fifo(ReturnableOf(rows[w][m]), n) \in FifoTakes(ReturnableOf(rows[w][m]), n)
    BY <1>3, FifoIsTake
  <2>2. LineOK(rows[w][m], lineIssued[w][m], posted[w][m])
    BY <1>1 DEF Lines
  <2> QED  BY <1>1, <2>1, <2>2, ReturnLine
<1>5. /\ \A v \in WorkOrders \ {w} : lineIssued'[v] = lineIssued[v]
      /\ \A k \in Materials : lineIssued'[w][k] = lineIssued[w][k] - (IF k = m THEN n ELSE 0)
  BY <1>1, <1>2, <1>3, <1>4 DEF Positive
<1>6. \A k \in Materials : /\ onHand'[k] + lineIssued'[w][k] = onHand[k] + lineIssued[w][k]
                           /\ onHand[k] =< onHand'[k]
  BY <1>1, <1>2, <1>3, <1>5
<1>7. Flow!Only(w) /\ Flow!Balanced(w)
  BY <1>3, <1>5, <1>6, FlowOnly, FlowBalanced
<1> QED  BY <1>3, <1>6, <1>7 DEF Flow!GiveBack

\* What production still has to issue of a line.
LEMMA ShortNat ==
  ASSUME NEW r \in Seq(Row), NEW n \in Nat
  PROVE  Positive(n - Total(ConsumableOf(r))) \in Nat
<1>1. \A i \in DOMAIN r : r[i] \in Row
  OBVIOUS
<1>2. \A i \in DOMAIN r : Unused(r[i]) \in Nat
  BY <1>1 DEF Row, Unused, Positive
<1>3. ConsumableOf(r) \in [DOMAIN r -> Nat]
  BY <1>2 DEF ConsumableOf
<1>4. Total(ConsumableOf(r)) \in Nat
  BY <1>3, Columns, UnitsFinite
<1> QED  BY <1>4 DEF Positive

LEMMA FlowPost ==
  ASSUME Bucketed, Inv, Inv', HoldsNat, HoldsNat', NEW w \in WorkOrders, NEW p \in Nat, NEW s \in Nat,
         PostOutput(w, p, s), produced[w] =< p
  PROVE  Flow!Work(w)
<1>1. TypeOK /\ NoFreeGoods' /\ TypeOK'
  BY InvParts DEF Inv
<1> DEFINE need  == [m \in Materials |-> ToConsume(w, m, p + s)]
           short == [m \in Materials |->
                       Positive(need[m] - Total(ConsumableOf(rows[w][m])))]
<1>2. /\ lineIssued' = [lineIssued EXCEPT ![w] = [m \in Materials |-> @[m] + short[m]]]
      /\ posted' = [posted EXCEPT ![w] = [m \in Materials |-> @[m] + need[m]]]
      /\ onHand' = [m \in Materials |-> Drawn(w, m, short[m])]
      /\ produced' = [produced EXCEPT ![w] = p]
  BY DEF PostOutput
<1>3. /\ lineIssued \in [WorkOrders -> [Materials -> Nat]]
      /\ posted \in [WorkOrders -> [Materials -> Nat]]
      /\ rows \in [WorkOrders -> [Materials -> Seq(Row)]]
      /\ onHand \in [Materials -> Nat]
      /\ produced \in [WorkOrders -> Nat]
  BY <1>1 DEF TypeOK, Quantities
<1>4. \A m \in Materials : need[m] \in Nat
  <2>1. \A m \in Materials : (p + s) * PerUnit[w][m] \in Nat
    BY BomAssumption, MoreOutput
  <2> QED  BY <1>3, <2>1 DEF ToConsume, Positive
<1>5. \A m \in Materials : short[m] \in Nat
  BY <1>3, <1>4, ShortNat
<1> HIDE DEF need, short
<1>6. \A m \in Materials : /\ lineIssued'[w][m] = lineIssued[w][m] + short[m]
                           /\ posted'[w][m] = posted[w][m] + need[m]
  BY <1>2, <1>3
<1>7. \A m \in Materials : onHand'[m] = onHand[m] - short[m]
  BY <1>1, <1>2, <1>5, DrawnNat
<1>8. \A m \in Materials : /\ onHand'[m] + lineIssued'[w][m] = onHand[m] + lineIssued[w][m]
                           /\ onHand'[m] =< onHand[m] /\ posted[w][m] =< posted'[w][m]
  <2> SUFFICES ASSUME NEW m \in Materials
               PROVE  /\ onHand'[m] + lineIssued'[w][m] = onHand[m] + lineIssued[w][m]
                      /\ onHand'[m] =< onHand[m] /\ posted[w][m] =< posted'[w][m]
    OBVIOUS
  <2>1. /\ need[m] \in Nat /\ short[m] \in Nat /\ onHand[m] \in Nat
        /\ lineIssued[w][m] \in Nat /\ posted[w][m] \in Nat
    BY <1>3, <1>4, <1>5
  <2>2. /\ lineIssued'[w][m] = lineIssued[w][m] + short[m]
        /\ posted'[w][m] = posted[w][m] + need[m]
        /\ onHand'[m] = onHand[m] - short[m]
    BY <1>6, <1>7
  <2> QED  BY <2>1, <2>2
<1>9. Flow!Only(w)
  BY <1>2, <1>3, FlowOnly
<1>10. Flow!Balanced(w)
  BY <1>8, FlowBalanced
<1>11. /\ produced[w] =< produced'[w]
       /\ \A m \in Materials : produced'[w] * PerUnit[w][m] =< posted'[w][m]
  BY <1>1, <1>2, <1>3 DEF NoFreeGoods
<1> QED  BY <1>8, <1>9, <1>10, <1>11 DEF Flow!Work

LEMMA FlowRecord ==
  ASSUME Bucketed, Inv, Inv', HoldsNat, HoldsNat', NEW w \in WorkOrders,
         NEW p \in 0..Planned[w] + 1, NEW s \in 0..MaxScrap,
         RecordProduction(w, p, s) \/ WorkerRecordProduction(w, p, s)
  PROVE  Flow!Work(w)
<1>1. TypeOK /\ p \in Nat /\ s \in Nat
  BY InvParts, BoundAssumption, PlanAssumption
<1>2. produced[w] \in Nat
  BY <1>1 DEF TypeOK
<1>3. CASE RecordProduction(w, p, s)
  <2>1. produced[w] + p \in Nat /\ produced[w] =< produced[w] + p
    BY <1>1, <1>2
  <2> QED  BY <1>1, <1>3, <2>1, FlowPost DEF RecordProduction
<1>4. CASE WorkerRecordProduction(w, p, s)
  BY <1>1, <1>4, FlowPost DEF WorkerRecordProduction
<1> QED  BY <1>3, <1>4

LEMMA FlowRelease ==
  ASSUME NEW w \in WorkOrders, Release(w)
  PROVE  UNCHANGED Flow!vars
<1>1. UNCHANGED <<onHand, lineIssued, posted, produced>>
  BY DEF Release, CreateWorkOrder, BeginRelease, BeginWork, Lock, AbandonWork, CommitRelease,
         FailRelease, CommitSalesRelease, AllocateMaterials, ReserveLines,
         stockVars, lineVars, outputVars
<1> QED  BY <1>1, FlowStutter

LEMMA FlowStorekeeper ==
  ASSUME Bucketed, Inv, HoldsNat, HoldsNat', NEW w \in WorkOrders, Storekeeper(w)
  PROVE  Flow!Next \/ UNCHANGED Flow!vars
<1>1. PICK m \in Materials :
         \/ \E n \in 1..MaxStock : \/ StorekeeperReserve(w, m, n)
                                   \/ IssueMaterial(w, m, n)
                                   \/ ReturnMaterial(w, m, n)
         \/ RejectIssue(w, m)
  BY DEF Storekeeper
<1>2. CASE \E n \in 1..MaxStock : IssueMaterial(w, m, n)
  BY <1>2, FlowIssue DEF Flow!Next
<1>3. CASE \E n \in 1..MaxStock : ReturnMaterial(w, m, n)
  BY <1>3, FlowReturn DEF Flow!Next
<1>4. CASE RejectIssue(w, m) \/ \E n \in 1..MaxStock : StorekeeperReserve(w, m, n)
  <2>1. UNCHANGED <<onHand, lineIssued, posted, produced>>
    BY <1>4 DEF RejectIssue, StorekeeperReserve, outputVars
  <2> QED  BY <2>1, FlowStutter
<1> QED  BY <1>1, <1>2, <1>3, <1>4

LEMMA FlowProduction ==
  ASSUME Bucketed, Inv, Inv', HoldsNat, HoldsNat', NEW w \in WorkOrders, Production(w)
  PROVE  Flow!Next \/ UNCHANGED Flow!vars
<1>1. CASE \E p \in 0..Planned[w] + 1, s \in 0..MaxScrap :
             RecordProduction(w, p, s) \/ WorkerRecordProduction(w, p, s)
  BY <1>1, FlowRecord DEF Flow!Next
<1>2. CASE StartProduction(w) \/ BeginWastage(w) \/ \E n \in 1..MaxScrap : CommitWastage(w, n)
  <2>1. UNCHANGED <<onHand, lineIssued, posted, produced>>
    BY <1>2 DEF StartProduction, BeginWastage, CommitWastage, stockVars, lineVars, outputVars
  <2> QED  BY <2>1, FlowStutter
<1> QED  BY <1>1, <1>2 DEF Production

LEMMA FlowQuality ==
  ASSUME NEW w \in WorkOrders, QualityControl(w)
  PROVE  UNCHANGED Flow!vars
<1>1. UNCHANGED <<onHand, lineIssued, posted, produced>>
  BY DEF QualityControl, SubmitForQC, BeginDecision, RejectInspection, SendToRework,
         ScrapBatch, Decide, stockVars, lineVars, outputVars
<1> QED  BY <1>1, FlowStutter

LEMMA FlowNext ==
  ASSUME Bucketed, Inv, Inv', HoldsNat, HoldsNat', [Next]_vars
  PROVE  [Flow!Next]_Flow!vars
<1>1. CASE UNCHANGED vars
  <2>1. UNCHANGED <<onHand, lineIssued, posted, produced>>
    BY <1>1 DEF vars, stockVars, lineVars, outputVars
  <2> QED  BY <2>1, FlowStutter
<1>2. ASSUME NEW m \in Materials, Stock(m)
      PROVE  Flow!Next
  BY <1>2, FlowStock DEF Stock, Flow!Next
<1>3. ASSUME NEW w \in WorkOrders,
             Release(w) \/ Storekeeper(w) \/ Production(w) \/ QualityControl(w)
      PROVE  Flow!Next \/ UNCHANGED Flow!vars
  BY <1>3, FlowRelease, FlowStorekeeper, FlowProduction, FlowQuality
<1> QED  BY <1>1, <1>2, <1>3 DEF Next

(* With stock in buckets, every behaviour of the requests, however they interleave, is
   one of MaterialFlow: the store and the work orders exchange material, none appears
   or disappears, consumption is never taken back, and output is paid for by it. *)
THEOREM FlowImplemented ==
  ASSUME Bucketed
  PROVE  Spec => MaterialFlows
<1>1. Init => Flow!Init
  BY FlowInit
<1>2. Inv /\ Inv' /\ HoldsNat /\ HoldsNat' /\ [Next]_vars => [Flow!Next]_Flow!vars
  BY FlowNext
<1>3. Inv => HoldsNat
  BY HoldingNat
<1>4. Spec => []Inv
  BY Invariance
<1> QED  BY <1>1, <1>2, <1>3, <1>4, PTL DEF Spec, MaterialFlows, Flow!Spec
=============================================================================
