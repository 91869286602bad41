---------------------------- MODULE MCDocuments ----------------------------
(* Documents on small instances: two overlapping requests everywhere. *)
EXTENDS Documents, TLC

CONSTANTS c1, c2, q1, q2, o1, k1, d1, d2, v1, g1, g2, x1, b1, b2, t1, u1, u2,
          n1, i1, i2, a1, a2, a3, p1, p2, j1, e1, h1, h2, m1, m2, s1

QuoteOrders == [q \in {q1, q2} |-> o1]

CapaComplaints == [a \in {d1, d2} |-> k1]

\* One receipt of all that was ordered and one of about half of it.
Receipts ==
  [g \in {g1, g2} |->
     IF g = g1 THEN [vendor |-> v1, ratio |-> 100, acceptedValue |-> 5, poTotal |-> 5]
     ELSE [vendor |-> v1, ratio |-> 50, acceptedValue |-> 3, poTotal |-> 5]]

InvoiceVendors == [i \in {x1} |-> v1]

\* Two articles, of which one is on a document, and a vendor category with a vendor.
RowTables == [m \in {b1, b2, t1} |-> IF m = t1 THEN "categories" ELSE "articles"]

UsedRows == [u \in {u1, u2} |-> IF u = u1 THEN t1 ELSE b1]

Gross == [k \in {n1} |-> 2]

\* A line without a type, a contradiction in an OFX file, and a line of nothing.
Lines ==
  {[no |-> 1, format |-> "csv", declared |-> "none", amount |-> -2],
   [no |-> 2, format |-> "ofx", declared |-> "credit", amount |-> -1],
   [no |-> 3, format |-> "csv", declared |-> "debit", amount |-> 0],
   [no |-> 4, format |-> "csv", declared |-> "payment", amount |-> -1]}

\* A balanced journal of three lines and one that is not balanced.
Dr(n) == [debit |-> n, credit |-> 0]
Cr(n) == [debit |-> 0, credit |-> n]
JournalLines == {<<Dr(2), Cr(1), Cr(1)>>, <<Dr(2), Cr(1)>>}

\* A payroll that can be posted, one without all of its fields, one of nothing.
Payrolls ==
  {[period |-> p1, net |-> 1, complete |-> TRUE], [period |-> p1, net |-> 1, complete |-> FALSE],
   [period |-> p1, net |-> 0, complete |-> TRUE]}

DailyOrders == [e \in {e1} |-> p1]

Symmetry ==
  Permutations(Clients) \cup Permutations({a1, a2})
=============================================================================
