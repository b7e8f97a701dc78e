-------------------------------- MODULE PayBook --------------------------------
(***************************************************************************)
(* What payroll promises an employee: whatever is due is paid by at most   *)
(* one run, and once a payslip pays it, one always does.  A month that is  *)
(* generated again moves all that its old draft paid to the new run, and   *)
(* may add what has become due since.                                      *)
(***************************************************************************)
CONSTANTS Items, Runs

VARIABLE pays  \* by run, what its payslip pays

PaidBy(runs) == UNION {pays[q] : q \in runs}
Due == Items \ PaidBy(Runs)

Init == pays = [r \in Runs |-> {}]

\* Run r takes over what the old runs paid, and pays what nobody did.
Generate(r, old, new) ==
  pays' = [q \in Runs |-> IF q = r THEN PaidBy(old) \union new
                          ELSE IF q \in old THEN {} ELSE pays[q]]

Next == \E r \in {q \in Runs : pays[q] = {}}, old \in SUBSET Runs, new \in SUBSET Due :
          Generate(r, old, new)

Spec == Init /\ [][Next]_pays
=============================================================================
