--------------------------- MODULE MCOrderLifecycle ---------------------------
(***************************************************************************)
(* Small instances of OrderLifecycle: one for the ledgers of a sale        *)
(* (codes, promotions, stock, queue), one for memberships used away from   *)
(* their home branch, one for plans sold at the counter.                   *)
(***************************************************************************)
EXTENDS OrderLifecycle, TLC

CONSTANTS o1, o2, c1, c2, x1, x2, k1, k2, p1, d1, m1, e1

Symmetric == Permutations(Clerks) \union Permutations(Orders)

Wash(outlet) ==
  [outlet |-> outlet, codes |-> {}, promos |-> {}, member |-> NoMember,
   wash |-> TRUE, plan |-> FALSE, pick |-> NoEntry, plate |-> NoEntry]

\* Sales: a pack of two codes, a promotion for two sales, one waiting car.  The
\* last cart touches no code and no stock: nothing makes its cancellations wait.
SalePackOf == [k \in Codes |-> p1]
SaleTotals == [p \in Packs |-> 2]
SaleQuota == [p \in Promos |-> 2]
SaleEntryOutlet == [e \in Entries |-> x1]
SaleCarts ==
  {[Wash(x1) EXCEPT !.codes = {k1, k2}, !.promos = {d1}, !.wash = FALSE],
   [Wash(x1) EXCEPT !.codes = {k1}, !.pick = e1],
   [Wash(x1) EXCEPT !.promos = {d1}, !.plate = e1],
   [Wash(x1) EXCEPT !.promos = {d1}, !.wash = FALSE]}

\* Visits: a member of branch x1 with one prepaid wash, who asks for it at
\* branch x1 and at branch x2, which x1 then owes.
VisitHome == [m \in Members |-> x1]
VisitMaxUses == [m \in Members |-> 1]
VisitDaily == [m \in Members |-> 2]
VisitCarts == {[Wash(x) EXCEPT !.member = m1] : x \in {x1, x2}}

\* Plans: a plan of two washes sold at the counter, and a later wash on it.
PlanHome == [m \in Members |-> NoOutlet]
PlanMaxUses == [m \in Members |-> 2]
PlanCarts ==
  {[Wash(x1) EXCEPT !.wash = FALSE, !.plan = TRUE], [Wash(x1) EXCEPT !.member = m1]}

Empty == << >>
=============================================================================
