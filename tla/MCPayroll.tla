------------------------------- MODULE MCPayroll -------------------------------
(* Instances of Payroll: one employee, two months, two runs, a sale that is
   accrued up to twice. *)
EXTENDS Payroll, TLC

CONSTANTS s1

MCOrderOf == [k \in Accruals |-> s1]

MCSymmetry == Permutations(Clerks) \union Permutations(Runs) \union Permutations(Accruals)
=============================================================================
