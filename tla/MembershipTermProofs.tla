------------------------- MODULE MembershipTermProofs -------------------------
(* Proofs about MembershipTerm, for every number of members, fee orders,    *)
(* workers and days.                                                        *)
EXTENDS MembershipTerm, TLAPS

\* The dates a worker is about to write are a term, and they are written only
\* for an order that was paid: what the two invariants below rest on.
JobInOrder == \A w \in Workers : job[w].start <= job[w].end

IInv == TypeOK /\ TermInOrder /\ JobInOrder /\ LapsedIsPastItsEnd

-----------------------------------------------------------------------------
\* renewalPeriodStart and renewalPeriodEnd give a term that does not end before
\* it starts, whatever the old end and the requested start.
LEMMA PeriodIsATerm ==
  ASSUME NEW end \in Nat, NEW next \in Nat \union {NoDate}, NEW days \in Nat \ {0},
         today \in Nat
  PROVE  LET start == PeriodStart(end, next)
         IN  /\ start \in Nat
             /\ PeriodEnd(end, start, days) \in Nat
             /\ start <= PeriodEnd(end, start, days)
<1>1. PeriodStart(end, next) \in Nat
  BY DEF PeriodStart
<1>2. ASSUME NEW s \in Nat
      PROVE  PeriodEnd(end, s, days) \in Nat /\ s <= PeriodEnd(end, s, days)
  BY DEF PeriodEnd
<1> QED
  BY <1>1, <1>2

\* Step 4c of the reversal keeps a term a term, and only ever shortens it.
LEMMA RolledBackShortens ==
  ASSUME NEW start \in Nat, NEW end \in Nat, NEW days \in Nat, start <= end
  PROVE  /\ RolledBack(start, end, days) \in Nat
         /\ start <= RolledBack(start, end, days)
         /\ RolledBack(start, end, days) <= end
BY DEF RolledBack

-----------------------------------------------------------------------------
(* Type correctness *)

LEMMA TypeInit == Init => TypeOK
<1> SUFFICES ASSUME Init PROVE TypeOK
  OBVIOUS
<1> USE ConstantsAssumption DEF Init
<1>1. mem \in [Members -> Membership]
  BY DEF Membership, MemberStatus
<1>2. renewal \in [Fees -> Renewal]
  BY DEF Renewal
<1>3. job \in [Workers -> Job]
  BY DEF Job
<1> QED
  BY <1>1, <1>2, <1>3 DEF TypeOK

\* A membership row keeps its type when its status or its end changes.
LEMMA RowUpdates ==
  ASSUME NEW x \in Membership, NEW s \in MemberStatus, NEW d \in Nat
  PROVE  /\ [x EXCEPT !.status = s] \in Membership
         /\ [x EXCEPT !.end = d] \in Membership
BY DEF Membership

\* What applyRenewal decides in its reads is a job whose dates are a term.
LEMMA ReadJob ==
  ASSUME TypeOK, NEW w \in Workers, NEW o \in Fees, ApplyRead(w, o)
  PROVE  \E t \in Members \union {0}, s, e \in Nat :
           /\ s <= e
           /\ job' = [job EXCEPT ![w] = [step |-> "read", fee |-> o, target |-> t,
                                         start |-> s, end |-> e]]
<1> DEFINE r == renewal[o]
           same == {m \in Renewable : mem[m].plan = r.plan}
           first == IF r.next # NoDate THEN r.next ELSE today
<1>1. r.plan \in Plans /\ r.next \in Nat \union {NoDate}
  BY DEF TypeOK, Renewal
<1>2. Term[r.plan] \in Nat \ {0} /\ today \in Nat
  BY <1>1, ConstantsAssumption DEF TypeOK
<1>3. ASSUME NEW m \in Members
      PROVE  mem[m].end \in Nat
  BY DEF TypeOK, Membership
<1>4. Renewable \subseteq Members
  BY DEF Renewable
<1>5. ASSUME NEW t \in Members \union {0}, NEW e \in Nat, Behind(w, o, t, e)
      PROVE  \E s, f \in Nat :
               /\ s <= f
               /\ job' = [job EXCEPT ![w] = [step |-> "read", fee |-> o, target |-> t,
                                             start |-> s, end |-> f]]
  <2> DEFINE s == PeriodStart(e, r.next)
             f == PeriodEnd(e, s, Term[r.plan])
  <2>1. s \in Nat /\ f \in Nat /\ s <= f
    BY <1>1, <1>2, PeriodIsATerm
  <2>2. job' = [job EXCEPT ![w] = [step |-> "read", fee |-> o, target |-> t,
                                   start |-> s, end |-> f]]
    BY <1>5 DEF Behind, Decided
  <2> QED
    BY <2>1, <2>2
<1>6. CASE \E m \in Newest(same) : Behind(w, o, m, mem[m].end)
  BY <1>3, <1>4, <1>5, <1>6 DEF Newest
<1>7. CASE \E m \in LastToEnd(Renewable) : Behind(w, o, 0, mem[m].end)
  BY <1>3, <1>4, <1>5, <1>7 DEF LastToEnd
<1>8. CASE Decided(w, o, 0, first, first + Term[r.plan])
  <2>1. first \in Nat /\ first + Term[r.plan] \in Nat /\ first <= first + Term[r.plan]
    BY <1>1, <1>2
  <2> QED
    BY <1>8, <2>1 DEF Decided
<1> QED
  BY <1>6, <1>7, <1>8 DEF ApplyRead

-----------------------------------------------------------------------------
(* The inductive invariant *)

LEMMA InvInit == Init => IInv
<1> SUFFICES ASSUME Init PROVE IInv
  OBVIOUS
<1>1. TypeOK
  BY TypeInit
<1>2. TermInOrder
  BY ConstantsAssumption DEF Init, TermInOrder
<1>3. JobInOrder
  BY DEF Init, JobInOrder, Idle
<1>4. LapsedIsPastItsEnd
  BY DEF Init, LapsedIsPastItsEnd
<1> QED
  BY <1>1, <1>2, <1>3, <1>4 DEF IInv

LEMMA InvStep == IInv /\ [Next]_vars => IInv'
<1> SUFFICES ASSUME IInv, [Next]_vars PROVE IInv'
  OBVIOUS
<1> USE DEF IInv
<1>1. ASSUME Midnight PROVE IInv'
  <2>1. TypeOK'
    BY <1>1 DEF TypeOK, Midnight
  <2>2. TermInOrder' /\ JobInOrder'
    BY <1>1 DEF TermInOrder, JobInOrder, Midnight
  <2>3. LapsedIsPastItsEnd'
    BY <1>1, ConstantsAssumption
    DEF LapsedIsPastItsEnd, Midnight, TypeOK, Membership, Lapsed, PastGrace
  <2> QED
    BY <2>1, <2>2, <2>3
<1>2. ASSUME SweepGrace PROVE IInv'
  <2>1. TypeOK'
    <3>1. mem' \in [Members -> Membership]
      BY <1>2, RowUpdates DEF SweepGrace, TypeOK, MemberStatus
    <3> QED
      BY <1>2, <3>1 DEF SweepGrace, TypeOK
  <2>2. TermInOrder' /\ JobInOrder'
    BY <1>2 DEF TermInOrder, JobInOrder, SweepGrace, TypeOK, Membership
  <2>3. LapsedIsPastItsEnd'
    BY <1>2 DEF LapsedIsPastItsEnd, SweepGrace, TypeOK, Membership, Lapsed, PastGrace
  <2> QED
    BY <2>1, <2>2, <2>3
<1>3. ASSUME SweepRevoke PROVE IInv'
  <2>1. TypeOK'
    <3>1. mem' \in [Members -> Membership]
      BY <1>3, RowUpdates DEF SweepRevoke, TypeOK, MemberStatus
    <3> QED
      BY <1>3, <3>1 DEF SweepRevoke, TypeOK
  <2>2. TermInOrder' /\ JobInOrder'
    BY <1>3 DEF TermInOrder, JobInOrder, SweepRevoke, TypeOK, Membership
  <2>3. LapsedIsPastItsEnd'
    BY <1>3 DEF LapsedIsPastItsEnd, SweepRevoke, TypeOK, Membership, Lapsed, PastGrace
  <2> QED
    BY <2>1, <2>2, <2>3
<1>4. ASSUME NEW o \in Fees, NEW m \in Members, NEW p \in Plans,
             NEW next \in ValidNext(mem[m].end), StartRenewal(o, m, p, next)
      PROVE  IInv'
  <2>1. next \in Nat \union {NoDate}
    BY ConstantsAssumption DEF ValidNext, TypeOK, Membership
  <2>2. TypeOK'
    <3>1. renewal' \in [Fees -> Renewal]
      BY <1>4, <2>1 DEF StartRenewal, TypeOK, Renewal
    <3> QED
      BY <1>4, <3>1 DEF StartRenewal, TypeOK
  <2> QED
    BY <1>4, <2>2 DEF StartRenewal, TermInOrder, JobInOrder, LapsedIsPastItsEnd, Lapsed, PastGrace
<1>5. ASSUME NEW o \in Fees, PayRead(o) \/ PayCommit(o) PROVE IInv'
  BY <1>5 DEF PayRead, PayCommit, TypeOK, TermInOrder, JobInOrder, LapsedIsPastItsEnd, Lapsed, PastGrace
<1>6. ASSUME NEW w \in Workers, NEW o \in Fees, ApplyRead(w, o) PROVE IInv'
  <2>1. PICK t \in Members \union {0}, s \in Nat, e \in Nat :
          /\ s <= e
          /\ job' = [job EXCEPT ![w] = [step |-> "read", fee |-> o, target |-> t,
                                        start |-> s, end |-> e]]
    BY <1>6, ReadJob
  <2>2. UNCHANGED <<today, mem, fee, paying, renewal, written, revoking>>
    BY <1>6 DEF ApplyRead
  <2>3. [step |-> "read", fee |-> o, target |-> t, start |-> s, end |-> e] \in Job
    BY DEF Job
  <2>4. TypeOK'
    BY <2>1, <2>2, <2>3 DEF TypeOK
  <2>5. JobInOrder'
    BY <2>1 DEF JobInOrder, TypeOK
  <2> QED
    BY <2>2, <2>4, <2>5 DEF TermInOrder, LapsedIsPastItsEnd, Lapsed, PastGrace
<1>7. ASSUME NEW w \in Workers, ApplyWrite(w) PROVE IInv'
  <2> DEFINE j == job[w]
             extended(m) == [mem[m] EXCEPT !.status = "active", !.start = j.start, !.end = j.end]
             created == [status |-> "active", plan |-> renewal[j.fee].plan,
                         start |-> j.start, end |-> j.end, fee |-> j.fee]
  <2>1. /\ j.start \in Nat /\ j.end \in Nat /\ j.start <= j.end
        /\ j.fee \in Fees
    BY <1>7 DEF ApplyWrite, TypeOK, Job, Idle, JobInOrder
  <2>2. PICK m \in Members :
          mem' = [mem EXCEPT ![m] = extended(m)] \/ mem' = [mem EXCEPT ![m] = created]
    BY <1>7 DEF ApplyWrite, NextRow, TypeOK
  <2>3. renewal[j.fee].plan \in Plans
    BY <2>1 DEF TypeOK, Renewal
  <2>4. PICK x \in Membership :
          /\ mem' = [mem EXCEPT ![m] = x]
          /\ x.status = "active" /\ x.start = j.start /\ x.end = j.end
    <3>1. mem[m] \in Membership
      BY DEF TypeOK
    <3>2. /\ extended(m) \in Membership /\ extended(m).status = "active"
          /\ extended(m).start = j.start /\ extended(m).end = j.end
      BY <2>1, <3>1 DEF Membership, MemberStatus
    <3>3. created \in Membership
      BY <2>1, <2>3 DEF Membership, MemberStatus
    <3> QED
      BY <2>2, <3>2, <3>3
  <2>5. /\ job' = [job EXCEPT ![w].step = "written"]
        /\ written' = written \union {<<j.fee, w>>}
        /\ UNCHANGED <<today, fee, paying, renewal, revoking>>
    BY <1>7 DEF ApplyWrite
  <2>6. [j EXCEPT !.step = "written"] \in Job
    BY <1>7 DEF ApplyWrite, TypeOK, Job, Idle
  <2>7. TypeOK'
    BY <2>1, <2>4, <2>5, <2>6 DEF TypeOK
  <2>8. JobInOrder'
    <3>1. \A v \in Workers : job'[v] = IF v = w THEN [j EXCEPT !.step = "written"] ELSE job[v]
      BY <2>5 DEF TypeOK
    <3>2. [j EXCEPT !.step = "written"].start = j.start /\ [j EXCEPT !.step = "written"].end = j.end
      BY DEF TypeOK, Job
    <3> QED
      BY <2>1, <3>1, <3>2 DEF JobInOrder
  <2>9. TermInOrder' /\ LapsedIsPastItsEnd'
    BY <2>1, <2>4, <2>5 DEF TermInOrder, LapsedIsPastItsEnd, Lapsed, PastGrace, TypeOK
  <2> QED
    BY <2>7, <2>8, <2>9
<1>8. ASSUME NEW w \in Workers, ApplyMark(w) PROVE IInv'
  <2>1. renewal' \in [Fees -> Renewal]
    <3>1. renewal \in [Fees -> Renewal] /\ renewal' = [renewal EXCEPT ![job[w].fee].applied = TRUE]
      BY <1>8 DEF ApplyMark, TypeOK
    <3> QED
      BY <3>1 DEF Renewal
  <2>2. Idle \in Job
    BY DEF Job
  <2>3. TypeOK'
    BY <1>8, <2>1, <2>2 DEF ApplyMark, TypeOK
  <2>4. JobInOrder'
    BY <1>8 DEF ApplyMark, JobInOrder, TypeOK, Idle
  <2> QED
    BY <1>8, <2>3, <2>4 DEF ApplyMark, TermInOrder, LapsedIsPastItsEnd, Lapsed, PastGrace
<1>9. ASSUME NEW o \in Fees, Void(o) PROVE IInv'
  <2> DEFINE r == renewal[o]
             x(m) == IF mem[m].fee = o THEN [mem[m] EXCEPT !.status = "cancelled"] ELSE mem[m]
             new(m) == IF r.applied /\ m = r.member
                       THEN [x(m) EXCEPT !.end = RolledBack(x(m).start, x(m).end, Term[r.plan])]
                       ELSE x(m)
  <2>1. /\ mem' = [m \in Members |-> new(m)]
        /\ fee' = [fee EXCEPT ![o] = "cancelled"]
        /\ renewal' = [renewal EXCEPT ![o].applied = FALSE]
        /\ UNCHANGED <<today, paying, written, job, revoking>>
    BY <1>9 DEF Void
  <2>2. Term[r.plan] \in Nat
    BY ConstantsAssumption DEF TypeOK, Renewal
  <2>3. ASSUME NEW m \in Members
        PROVE  /\ new(m) \in Membership
               /\ new(m).start <= new(m).end
               /\ new(m).end <= mem[m].end
               /\ new(m).status \in {mem[m].status, "cancelled"}
    <3>1. mem[m] \in Membership /\ mem[m].start <= mem[m].end
      BY DEF TypeOK, TermInOrder
    <3>2. /\ x(m) \in Membership /\ x(m).start = mem[m].start /\ x(m).end = mem[m].end
          /\ x(m).status \in {mem[m].status, "cancelled"}
      BY <3>1 DEF Membership, MemberStatus
    <3>3. x(m).start \in Nat /\ x(m).end \in Nat
      BY <3>2 DEF Membership
    <3>4. /\ RolledBack(x(m).start, x(m).end, Term[r.plan]) \in Nat
          /\ x(m).start <= RolledBack(x(m).start, x(m).end, Term[r.plan])
          /\ RolledBack(x(m).start, x(m).end, Term[r.plan]) <= x(m).end
      BY <2>2, <3>1, <3>2, <3>3, RolledBackShortens
    <3> HIDE DEF x
    <3> QED
      BY <3>1, <3>2, <3>3, <3>4, RowUpdates DEF Membership
  <2> HIDE DEF new
  <2>4. TypeOK'
    <3>1. mem' \in [Members -> Membership]
      BY <2>1, <2>3
    <3> QED
      BY <2>1, <3>1 DEF TypeOK, Renewal
  <2>5. TermInOrder'
    BY <2>1, <2>3 DEF TermInOrder
  <2>6. LapsedIsPastItsEnd'
    BY <2>1, <2>3, ConstantsAssumption
    DEF LapsedIsPastItsEnd, Lapsed, PastGrace, TypeOK, Membership
  <2> QED
    BY <2>1, <2>4, <2>5, <2>6 DEF JobInOrder
<1>10. ASSUME NEW m \in Members, NEW from \in SUBSET MemberStatus, NEW to \in MemberStatus,
              to \notin {"grace", "revoked"}, SetStatus(m, from, to)
       PROVE  IInv'
  <2>1. /\ mem' = [mem EXCEPT ![m] = [mem[m] EXCEPT !.status = to]]
        /\ UNCHANGED <<today, fee, paying, renewal, written, job, revoking>>
    BY <1>10 DEF SetStatus
  <2>2. mem[m] \in Membership /\ [mem[m] EXCEPT !.status = to] \in Membership
    BY RowUpdates DEF TypeOK
  <2>3. TypeOK' /\ JobInOrder'
    BY <2>1, <2>2 DEF TypeOK, JobInOrder
  <2>4. TermInOrder' /\ LapsedIsPastItsEnd'
    BY <1>10, <2>1, <2>2
    DEF TypeOK, Membership, TermInOrder, LapsedIsPastItsEnd, Lapsed, PastGrace
  <2> QED
    BY <2>3, <2>4
<1>11. ASSUME NEW m \in Members, Suspend(m) \/ Reactivate(m) \/ Cancel(m) PROVE IInv'
  BY <1>10, <1>11 DEF Suspend, Reactivate, Cancel, MemberStatus
<1>12. ASSUME Crash PROVE IInv'
  <2>1. Idle \in Job
    BY DEF Job
  <2>2. TypeOK'
    BY <1>12, <2>1 DEF Crash, TypeOK
  <2>3. JobInOrder'
    BY <1>12 DEF Crash, JobInOrder, Idle
  <2> QED
    BY <1>12, <2>2, <2>3 DEF Crash, TermInOrder, LapsedIsPastItsEnd, Lapsed, PastGrace
<1>13. CASE UNCHANGED vars
  BY <1>13 DEF vars, TypeOK, TermInOrder, JobInOrder, LapsedIsPastItsEnd, Lapsed, PastGrace
<1> QED
  BY <1>1, <1>2, <1>3, <1>4, <1>5, <1>6, <1>7, <1>8, <1>9, <1>11, <1>12, <1>13 DEF Next

LEMMA InvHolds == Spec => []IInv
BY InvInit, InvStep, PTL DEF Spec

-----------------------------------------------------------------------------
(* The theorems *)

\* Every variable keeps its type: no call and no order of calls writes a date
\* or a status outside its column's domain.
THEOREM TypeCorrect == Spec => []TypeOK
<1>1. IInv => TypeOK
  BY DEF IInv
<1> QED
  BY <1>1, InvHolds, PTL

\* The nightly pass, late renewals, voids and the back office never leave a
\* membership in grace before its end or revoked before its grace has passed.
THEOREM LapsesAreDue == Spec => []LapsedIsPastItsEnd
<1>1. IInv => LapsedIsPastItsEnd
  BY DEF IInv
<1> QED
  BY <1>1, InvHolds, PTL

\* No renewal and no void of one leaves a term that ends before it starts.
THEOREM TermsAreInOrder == Spec => []TermInOrder
<1>1. IInv => TermInOrder
  BY DEF IInv
<1> QED
  BY <1>1, InvHolds, PTL

\* "an unpaid renewal never silently extends a membership": nothing is written
\* for an order that nobody paid.
THEOREM PaymentComesFirst == Spec => []NothingBeforePayment
<1>1. Init => NothingBeforePayment
  BY ConstantsAssumption DEF Init, NothingBeforePayment, Idle
<1>2. IInv /\ NothingBeforePayment /\ [Next]_vars => NothingBeforePayment'
  <2> SUFFICES ASSUME IInv, NothingBeforePayment, [Next]_vars PROVE NothingBeforePayment'
    OBVIOUS
  <2> USE DEF IInv
  <2>1. ASSUME Midnight \/ SweepGrace \/ SweepRevoke PROVE NothingBeforePayment'
    BY <2>1 DEF Midnight, SweepGrace, SweepRevoke, NothingBeforePayment, TypeOK, Membership
  <2>2. ASSUME NEW o \in Fees, NEW m \in Members, NEW p \in Plans,
               NEW next \in ValidNext(mem[m].end), StartRenewal(o, m, p, next)
        PROVE  NothingBeforePayment'
    BY <2>2 DEF StartRenewal, NothingBeforePayment, TypeOK
  <2>3. ASSUME NEW o \in Fees, PayRead(o) \/ PayCommit(o) PROVE NothingBeforePayment'
    BY <2>3 DEF PayRead, PayCommit, NothingBeforePayment, TypeOK
  <2>4. ASSUME NEW w \in Workers, NEW o \in Fees, ApplyRead(w, o) PROVE NothingBeforePayment'
    <3>1. PICK t \in Members \union {0}, s \in Nat, e \in Nat :
            job' = [job EXCEPT ![w] = [step |-> "read", fee |-> o, target |-> t,
                                       start |-> s, end |-> e]]
      BY <2>4, ReadJob
    <3>2. fee[o] = "paid" /\ UNCHANGED <<mem, fee, renewal, written>>
      BY <2>4 DEF ApplyRead, Confirmed
    <3> QED
      BY <3>1, <3>2 DEF NothingBeforePayment, TypeOK
  <2>5. ASSUME NEW w \in Workers, ApplyWrite(w) PROVE NothingBeforePayment'
    <3> DEFINE j == job[w]
    <3>1. j.fee \in Fees /\ fee[j.fee] \notin {"none", "ordered"}
      <4>1. j \in Job /\ j.step = "read"
        BY <2>5 DEF ApplyWrite, TypeOK
      <4>2. j.fee \in Fees
        BY <4>1 DEF Job, Idle
      <4> QED
        BY <4>2 DEF NothingBeforePayment
    <3>2. ASSUME NEW m \in Members PROVE mem'[m].fee \in {mem[m].fee, j.fee}
      <4>1. mem[m] \in Membership
        BY DEF TypeOK
      <4>2. CASE /\ j.target \in Members
                 /\ mem' = [mem EXCEPT ![j.target] =
                      [@ EXCEPT !.status = "active", !.start = j.start, !.end = j.end]]
        BY <4>1, <4>2 DEF TypeOK, Membership
      <4>3. CASE \E i \in NextRow :
                   mem' = [mem EXCEPT ![i] =
                     [status |-> "active", plan |-> renewal[j.fee].plan,
                      start |-> j.start, end |-> j.end, fee |-> j.fee]]
        BY <4>1, <4>3 DEF NextRow, TypeOK
      <4> QED
        BY <2>5, <4>2, <4>3 DEF ApplyWrite
    <3>3. /\ job' = [job EXCEPT ![w].step = "written"]
          /\ written' = written \union {<<j.fee, w>>}
          /\ UNCHANGED <<fee, renewal>>
      BY <2>5 DEF ApplyWrite
    <3>4. ASSUME NEW v \in Workers PROVE job'[v].fee = job[v].fee
      BY <3>3 DEF TypeOK, Job, Idle
    <3> QED
      BY <3>1, <3>2, <3>3, <3>4 DEF NothingBeforePayment
  <2>6. ASSUME NEW w \in Workers, ApplyMark(w) PROVE NothingBeforePayment'
    <3>1. job[w].fee \in Fees /\ fee[job[w].fee] \notin {"none", "ordered"}
      <4>1. job[w] \in Job /\ job[w].step = "written"
        BY <2>6 DEF ApplyMark, TypeOK
      <4>2. job[w].fee \in Fees
        BY <4>1 DEF Job, Idle
      <4> QED
        BY <4>2 DEF NothingBeforePayment
    <3> QED
      BY <2>6, <3>1, ConstantsAssumption DEF ApplyMark, NothingBeforePayment, TypeOK, Idle
  <2>7. ASSUME NEW o \in Fees, Void(o) PROVE NothingBeforePayment'
    <3>1. ASSUME NEW m \in Members PROVE mem'[m].fee = mem[m].fee
      BY <2>7 DEF Void, TypeOK, Membership
    <3>2. /\ fee' = [fee EXCEPT ![o] = "cancelled"]
          /\ renewal' = [renewal EXCEPT ![o].applied = FALSE]
          /\ UNCHANGED <<written, job>>
      BY <2>7 DEF Void
    <3> QED
      BY <3>1, <3>2 DEF NothingBeforePayment, TypeOK
  <2>8. ASSUME NEW m \in Members, Suspend(m) \/ Reactivate(m) \/ Cancel(m)
        PROVE  NothingBeforePayment'
    BY <2>8 DEF Suspend, Reactivate, Cancel, SetStatus, NothingBeforePayment, TypeOK, Membership
  <2>9. ASSUME Crash PROVE NothingBeforePayment'
    BY <2>9, ConstantsAssumption DEF Crash, NothingBeforePayment, Idle
  <2>10. CASE UNCHANGED vars
    BY <2>10 DEF vars, NothingBeforePayment
  <2> QED
    BY <2>1, <2>2, <2>3, <2>4, <2>5, <2>6, <2>7, <2>8, <2>9, <2>10 DEF Next
<1> QED
  BY <1>1, <1>2, InvHolds, PTL DEF Spec
=============================================================================
