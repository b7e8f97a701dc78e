-------------------------- MODULE LedgerPostingProofs --------------------------
(* Proofs about LedgerPosting, for every number of orders, settlements,     *)
(* payouts, records, months, posters and faults.                            *)
EXTENDS LedgerPosting, TLAPS

\* What an entry of the journal is about is there, in the state it was posted for.
There(k) ==
  CASE k[1] = "order" -> order[k[2]].status # "none"
    [] k[1] \in {"settle_accrue_r", "settle_accrue_p"} -> entry[k[2]].status # "none"
    [] k[1] \in {"settle_void_r", "settle_void_p"} -> entry[k[2]].status = "void"
    [] k[1] \in {"settle_payout_a", "settle_payout_b"} -> payout[k[2]] # NoMonth
    [] k[1] = "record" -> record[k[2]] # NoMonth
    [] OTHER -> TRUE

JobThere(job) ==
  CASE job[1] = "accrual" -> entry[job[2]].status # "none"
    [] job[1] = "payout" -> payout[job[2]] # NoMonth
    [] job[1] = "record" -> record[job[2]] # NoMonth
    [] OTHER -> TRUE

EntryRow == [status : {"none", "pending", "paid", "void"}, month : MonthOrNone,
             order : Orders \union {NoOrder}, payout : Payouts \union {NoPayout}]

FactTypes ==
  /\ order \in [Orders -> [status : {"none", "unpaid", "paid", "cancelled"},
                           month : MonthOrNone, wasPaid : BOOLEAN]]
  /\ entry \in [Entries -> EntryRow]
  /\ payout \in [Payouts -> MonthOrNone]
  /\ record \in [Records -> MonthOrNone]
  /\ today \in Months

WorkTypes ==
  /\ pending \subseteq Jobs
  /\ slot \in [Posters -> [job : {"idle", "sale", "void", "accrual", "payout", "record"},
                           todo : SUBSET Keys, leg : Keys \union {NoKey}]]
  /\ journal \in [Keys -> [status : {"none", "posted", "void"}, month : MonthOrNone]]

PeriodTypes ==
  /\ closing \in [Months -> Seq(SUBSET Keys)]
  /\ closed \subseteq Months
  /\ admin \in [Admins -> [step : {"idle", "sum", "post", "mark", "delete"},
                           month : MonthOrNone, covers : SUBSET Keys]]
  /\ \A a \in Admins : admin[a].step # "idle" => admin[a].month \in Months
  /\ faults \in 0 .. MaxFaults

\* What is there is dated, and only what a payout has paid carries one.
Dated ==
  /\ \A o \in Orders : order[o].status # "none" => order[o].month \in Months
  /\ \A e \in Entries : entry[e].status # "none" => entry[e].month \in Months
  /\ \A e \in Entries : entry[e].status # "paid" => entry[e].payout = NoPayout

\* A poster has only entries of sources that are there, and a second leg only with
\* its first leg still before it or in the books.
SlotSound(w) ==
  /\ \A k \in w.todo : There(k) /\ (FirstLeg(k) \in w.todo \/ ~Off(FirstLeg(k)))
  /\ w.leg # NoKey => w.leg \in w.todo /\ (FirstLeg(w.leg) = w.leg \/ FirstLeg(w.leg) \notin w.todo)

Sound ==
  /\ \A job \in pending : JobThere(job)
  /\ \A p \in Posters : SlotSound(slot[p])
  /\ \A k \in Keys : ~Off(k) => There(k) /\ ~Off(FirstLeg(k)) /\ journal[k].month \in Months

Inv == FactTypes /\ WorkTypes /\ PeriodTypes /\ Dated /\ Sound

-----------------------------------------------------------------------------
(* The keys of the journal *)

\* The two elements of a key, by the kind of its source.
LEMMA KeyShape ==
  ASSUME NEW k \in Keys
  PROVE  /\ k = <<k[1], k[2]>>
         /\ k[1] \in {"order", "order_void"} => k[2] \in Priced /\ k[2] \in Orders
         /\ k[1] \in {"settle_accrue_r", "settle_accrue_p", "settle_void_r", "settle_void_p"}
              => k[2] \in Entries
         /\ k[1] \in {"settle_payout_a", "settle_payout_b"} => k[2] \in Payouts
         /\ k[1] = "record" => k[2] \in Records
         /\ k[1] \in {"order", "order_void", "settle_accrue_r", "settle_accrue_p", "settle_void_r",
                      "settle_void_p", "settle_payout_a", "settle_payout_b", "record"}
BY ConstantsAssumption DEF Keys

\* The keys there are, from the sources.
LEMMA KeysOf ==
  /\ \A o \in Priced : <<"order", o>> \in Keys /\ <<"order_void", o>> \in Keys
  /\ \A e \in Entries : /\ <<"settle_accrue_r", e>> \in Keys /\ <<"settle_accrue_p", e>> \in Keys
                        /\ <<"settle_void_r", e>> \in Keys /\ <<"settle_void_p", e>> \in Keys
  /\ \A y \in Payouts : <<"settle_payout_a", y>> \in Keys /\ <<"settle_payout_b", y>> \in Keys
  /\ \A n \in Records : <<"record", n>> \in Keys
BY DEF Keys

\* The first leg of an entry is an entry that comes first itself.
LEMMA FirstLegs ==
  ASSUME NEW k \in Keys
  PROVE  FirstLeg(k) \in Keys /\ FirstLeg(FirstLeg(k)) = FirstLeg(k)
<1>1. CASE k[1] = "settle_accrue_p"
  BY <1>1, KeyShape, KeysOf DEF FirstLeg
<1>2. CASE k[1] = "settle_void_p"
  BY <1>2, KeyShape, KeysOf DEF FirstLeg
<1>3. CASE k[1] = "settle_payout_b"
  BY <1>3, KeyShape, KeysOf DEF FirstLeg
<1>4. CASE k[1] \notin {"settle_accrue_p", "settle_void_p", "settle_payout_b"}
  BY <1>4 DEF FirstLeg
<1> QED
  BY <1>1, <1>2, <1>3, <1>4

\* The reversals of a settlement come in pairs.
LEMMA VoidLegsPaired ==
  ASSUME NEW o
  PROVE  /\ VoidLegs(o) \subseteq Keys
         /\ \A k \in VoidLegs(o) : There(k) /\ FirstLeg(k) \in VoidLegs(o)
<1> SUFFICES ASSUME NEW k \in VoidLegs(o)
             PROVE  k \in Keys /\ There(k) /\ FirstLeg(k) \in VoidLegs(o)
  OBVIOUS
<1>1. PICK t \in {"settle_void_r", "settle_void_p"}, e \in Entries :
        k = <<t, e>> /\ entry[e].order = o /\ entry[e].status = "void"
  BY DEF VoidLegs
<1>2. k \in Keys /\ There(k)
  BY <1>1, KeysOf DEF There
<1>3. FirstLeg(k) = <<"settle_void_r", e>>
  BY <1>1 DEF FirstLeg
<1> QED
  BY <1>1, <1>2, <1>3 DEF VoidLegs

-----------------------------------------------------------------------------
(* The sources *)

OfFacts ==
  \/ \E o \in Orders : PlaceOrder(o) \/ \E washes \in SUBSET Entries : Pay(o, washes)
  \/ \E o \in Orders, read \in BOOLEAN : Void(o, read)
  \/ \E y \in Payouts, es \in SUBSET Entries : Settle(y, es)
  \/ \E n \in Records, m \in Months : RecordFinal(n, m)

\* Sources are never taken away, and a settlement that is void stays void.
Stays ==
  /\ \A o \in Orders : order[o].status # "none" => order'[o].status # "none"
  /\ \A e \in Entries : /\ entry[e].status # "none" => entry'[e].status # "none"
                        /\ entry[e].status = "void" => entry'[e].status = "void"
  /\ \A y \in Payouts : payout[y] # NoMonth => payout'[y] # NoMonth
  /\ \A n \in Records : record[n] # NoMonth => record'[n] # NoMonth

LEMMA FactsChangeByThem ==
  ASSUME [Next]_vars
  PROVE  OfFacts \/ NextMonth \/ UNCHANGED <<facts, today>>
BY DEF Next, vars, OfFacts, facts, Backfill, Take, CheckMonth, Insert, PostFail, VoidEntry,
       CloseDelete, CloseSum, ClosePost, CloseMark, Reopen, ReopenDelete, Restart

LEMMA FactStep ==
  ASSUME FactTypes, Dated, [Next]_vars
  PROVE  FactTypes' /\ Dated' /\ Stays
<1> USE ConstantsAssumption DEF FactTypes, MonthOrNone, Dated, Stays
<1>1. ASSUME NEW o \in Orders, PlaceOrder(o) PROVE FactTypes' /\ Dated' /\ Stays
  BY <1>1 DEF PlaceOrder
<1>2. ASSUME NEW o \in Orders, NEW washes \in SUBSET Entries, Pay(o, washes)
      PROVE  FactTypes' /\ Dated' /\ Stays
  <2>1. order' \in [Orders -> [status : {"none", "unpaid", "paid", "cancelled"},
                               month : MonthOrNone, wasPaid : BOOLEAN]]
    <3>1. order' = [order EXCEPT ![o] = [order[o] EXCEPT !.status = "paid", !.wasPaid = TRUE]]
      BY <1>2 DEF Pay
    <3>2. [order[o] EXCEPT !.status = "paid", !.wasPaid = TRUE]
             \in [status : {"none", "unpaid", "paid", "cancelled"},
                 month : MonthOrNone, wasPaid : BOOLEAN]
      OBVIOUS
    <3> QED
      BY <3>1, <3>2
  <2>2. entry' \in [Entries -> EntryRow]
    <3>1. ASSUME NEW e \in Entries
          PROVE  (IF e \in washes
                  THEN [status |-> "pending", month |-> today, order |-> o, payout |-> NoPayout]
                  ELSE entry[e]) \in EntryRow
      BY DEF EntryRow
    <3> HIDE DEF EntryRow, FactTypes, MonthOrNone
    <3> QED
      BY <1>2, <3>1, Zenon DEF Pay
  <2>3. \A e \in washes : /\ entry[e].status = "none"
                          /\ entry'[e] = [status |-> "pending", month |-> today, order |-> o,
                                          payout |-> NoPayout]
    BY <1>2 DEF Pay
  <2>4. \A e \in Entries \ washes : entry'[e] = entry[e]
    BY <1>2 DEF Pay
  <2>5. \A e \in Entries : /\ entry'[e].status # "none" => entry'[e].month \in Months
                           /\ entry'[e].status # "paid" => entry'[e].payout = NoPayout
                           /\ entry[e].status # "none" => entry'[e].status # "none"
                           /\ entry[e].status = "void" => entry'[e].status = "void"
    BY <2>3, <2>4
  <2>6. \A x \in Orders : /\ order'[x].status # "none" => order'[x].month \in Months
                          /\ order[x].status # "none" => order'[x].status # "none"
    BY <1>2 DEF Pay
  <2>7. UNCHANGED <<payout, record, today>>
    BY <1>2 DEF Pay
  <2> QED
    BY <2>1, <2>2, <2>5, <2>6, <2>7
<1>3. ASSUME NEW o \in Orders, NEW read \in BOOLEAN, Void(o, read)
      PROVE  FactTypes' /\ Dated' /\ Stays
  <2>1. order' \in [Orders -> [status : {"none", "unpaid", "paid", "cancelled"},
                               month : MonthOrNone, wasPaid : BOOLEAN]]
    BY <1>3 DEF Void
  <2>2. entry' \in [Entries -> EntryRow]
    BY <1>3 DEF Void, EntryRow
  <2> QED
    BY <1>3, <2>1, <2>2 DEF Void, EntryRow
<1>4. ASSUME NEW y \in Payouts, NEW es \in SUBSET Entries, Settle(y, es)
      PROVE  FactTypes' /\ Dated' /\ Stays
  <2>1. ASSUME NEW e \in Entries
        PROVE  /\ entry'[e] \in EntryRow
               /\ entry'[e].status # "none" => entry'[e].month \in Months
               /\ entry'[e].status # "paid" => entry'[e].payout = NoPayout
               /\ entry[e].status # "none" => entry'[e].status # "none"
               /\ entry[e].status = "void" => entry'[e].status = "void"
    <3>1. entry[e] \in EntryRow
      OBVIOUS
    <3>2. CASE e \in es
      <4>1. /\ entry[e].status = "pending"
            /\ entry'[e] = [entry[e] EXCEPT !.status = "paid", !.payout = y]
        BY <1>4, <3>2 DEF Settle
      <4> QED
        BY <3>1, <4>1 DEF EntryRow
    <3>3. CASE e \notin es
      BY <1>4, <3>1, <3>3 DEF Settle
    <3> QED
      BY <3>2, <3>3
  <2>2. entry' \in [Entries -> EntryRow]
    BY <1>4, <2>1 DEF Settle
  <2>3. payout' \in [Payouts -> Months \union {NoMonth}]
        /\ (\A x \in Payouts : payout[x] # NoMonth => payout'[x] # NoMonth)
    BY <1>4 DEF Settle
  <2>4. UNCHANGED <<order, record, today>>
    BY <1>4 DEF Settle
  <2> QED
    BY <2>1, <2>2, <2>3, <2>4
<1>5. ASSUME NEW n \in Records, NEW m \in Months, RecordFinal(n, m)
      PROVE  FactTypes' /\ Dated' /\ Stays
  BY <1>5 DEF RecordFinal
<1>6. CASE NextMonth
  BY <1>6 DEF NextMonth, facts
<1>7. CASE UNCHANGED <<facts, today>>
  BY <1>7 DEF facts
<1> QED
  BY <1>1, <1>2, <1>3, <1>4, <1>5, <1>6, <1>7, FactsChangeByThem DEF OfFacts

LEMMA ThereStays ==
  ASSUME FactTypes, Dated, [Next]_vars
  PROVE  /\ \A k \in Keys : There(k) => There(k)'
         /\ \A job \in Jobs : JobThere(job) => JobThere(job)'
<1>1. Stays
  BY FactStep
<1>2. ASSUME NEW k \in Keys, There(k) PROVE There(k)'
  BY <1>1, <1>2, KeyShape DEF There, Stays
<1>3. ASSUME NEW job \in Jobs, JobThere(job) PROVE JobThere(job)'
  BY <1>1, <1>3 DEF JobThere, Stays, Jobs
<1> QED
  BY <1>2, <1>3

\* The date of an entry of a source that is there is a month.
LEMMA DateIsAMonth ==
  ASSUME FactTypes, Dated, NEW k \in Keys, There(k)
  PROVE  MonthOf(k) \in Months
<1> USE KeyShape DEF FactTypes, Dated, There, MonthOf, MonthOrNone
<1>1. CASE k[1] = "order"
  BY <1>1
<1>2. CASE k[1] \in {"settle_accrue_r", "settle_accrue_p"}
  BY <1>2
<1>3. CASE k[1] \in {"settle_payout_a", "settle_payout_b"}
  BY <1>3
<1>4. CASE k[1] = "record"
  BY <1>4
<1>5. CASE k[1] \in {"order_void", "settle_void_r", "settle_void_p"}
  BY <1>5
<1> QED
  BY <1>1, <1>2, <1>3, <1>4, <1>5

-----------------------------------------------------------------------------
(* Periods *)

\* A step of an admin that keeps the month leaves the types of the admins as they are.
LEMMA AdminUpdate ==
  ASSUME PeriodTypes, NEW a \in Admins, admin[a].month \in Months,
         NEW st \in {"sum", "mark", "post"}, NEW covers \in SUBSET Keys,
         admin' = [admin EXCEPT ![a].step = st, ![a].covers = covers],
         UNCHANGED <<closing, closed, faults>>
  PROVE  PeriodTypes'
<1> DEFINE row == [admin[a] EXCEPT !.step = st, !.covers = covers]
           AdminRow == [step : {"idle", "sum", "post", "mark", "delete"},
                   month : MonthOrNone, covers : SUBSET Keys]
<1>1. admin \in [Admins -> AdminRow]
  BY DEF PeriodTypes
<1>2. admin' = [admin EXCEPT ![a] = row]
  OBVIOUS
<1>3. row \in AdminRow /\ row.month = admin[a].month
  BY <1>1
<1> HIDE DEF row, AdminRow
<1>4. admin' \in [Admins -> AdminRow] /\ \A b \in Admins : admin'[b] = IF b = a THEN row ELSE admin[b]
  BY <1>1, <1>2, <1>3
<1>5. \A b \in Admins : admin'[b].step # "idle" => admin'[b].month \in Months
  BY <1>3, <1>4 DEF PeriodTypes
<1> USE DEF AdminRow
<1>6. admin' \in [Admins -> [step : {"idle", "sum", "post", "mark", "delete"},
                            month : MonthOrNone, covers : SUBSET Keys]]
  BY <1>4
<1> QED
  BY <1>5, <1>6 DEF PeriodTypes, MonthOrNone

LEMMA PeriodStep ==
  ASSUME PeriodTypes, [Next]_vars
  PROVE  PeriodTypes'
<1> USE ConstantsAssumption DEF PeriodTypes, MonthOrNone, Idle
<1>1. CASE UNCHANGED periods /\ (UNCHANGED faults \/ (faults < MaxFaults /\ faults' = faults + 1))
  BY <1>1 DEF periods
<1>2. ASSUME NEW a \in Admins, NEW m \in Months, CloseDelete(a, m) PROVE PeriodTypes'
  <2>1. << >> \in Seq(SUBSET Keys)
    OBVIOUS
  <2> QED
    BY <1>2, <2>1 DEF CloseDelete, Kept
<1>3. ASSUME NEW a \in Admins, CloseSum(a) PROVE PeriodTypes'
  <2>1. Result(admin[a].month) \in SUBSET Keys
    BY DEF Result
  <2>2. PICK st \in {"mark", "post"}, covers \in SUBSET Keys :
          admin' = [admin EXCEPT ![a].step = st, ![a].covers = covers]
    BY <1>3, <2>1 DEF CloseSum
  <2>3. UNCHANGED <<closing, closed, faults>> /\ admin[a].step = "sum"
    BY <1>3 DEF CloseSum
  <2>4. admin[a].month \in Months
    BY <2>3
  <2> QED
    BY <2>2, <2>3, <2>4, AdminUpdate
<1>4. ASSUME NEW a \in Admins, ClosePost(a) PROVE PeriodTypes'
  <2>1. admin[a].month \in Months /\ admin[a].covers \in SUBSET Keys
    BY <1>4 DEF ClosePost
  <2>2. Append(closing[admin[a].month], admin[a].covers) \in Seq(SUBSET Keys)
    BY <2>1
  <2> QED
    BY <1>4, <2>1, <2>2 DEF ClosePost
<1>5. ASSUME NEW a \in Admins, CloseMark(a) PROVE PeriodTypes'
  BY <1>5 DEF CloseMark
<1>6. ASSUME NEW a \in Admins, NEW m \in Months, Reopen(a, m) PROVE PeriodTypes'
  BY <1>6 DEF Reopen
<1>7. ASSUME NEW a \in Admins, ReopenDelete(a) PROVE PeriodTypes'
  <2>1. << >> \in Seq(SUBSET Keys)
    OBVIOUS
  <2> QED
    BY <1>7, <2>1 DEF ReopenDelete
<1>8. CASE Restart
  BY <1>8 DEF Restart
<1>9. \/ UNCHANGED periods /\ (UNCHANGED faults \/ (faults < MaxFaults /\ faults' = faults + 1))
      \/ \E a \in Admins : CloseSum(a) \/ ClosePost(a) \/ CloseMark(a) \/ ReopenDelete(a)
      \/ \E a \in Admins, m \in Months : CloseDelete(a, m) \/ Reopen(a, m)
      \/ Restart
  BY DEF Next, vars, periods, PlaceOrder, Pay, Void, Settle, RecordFinal, Backfill, Take,
         CheckMonth, Insert, PostFail, VoidEntry, NextMonth
<1> QED
  BY <1>1, <1>2, <1>3, <1>4, <1>5, <1>6, <1>7, <1>8, <1>9

-----------------------------------------------------------------------------
(* The poster *)

\* An entry of the journal is only ever added or voided.
LEMMA JournalGrows ==
  ASSUME WorkTypes, [Next]_vars, NEW k \in Keys
  PROVE  ~Off(k) => ~Off(k)'
<1> USE DEF WorkTypes, Off
<1>1. ASSUME NEW p \in Posters, Insert(p) PROVE ~Off(k) => ~Off(k)'
  BY <1>1, NoKeyAssumption DEF Insert, Row
<1>2. ASSUME NEW j \in Keys, VoidEntry(j) PROVE ~Off(k) => ~Off(k)'
  BY <1>2 DEF VoidEntry
<1>3. UNCHANGED journal => (~Off(k) => ~Off(k)')
  OBVIOUS
<1>4. UNCHANGED journal \/ (\E p \in Posters : Insert(p)) \/ \E j \in Keys : VoidEntry(j)
  BY DEF Next, vars, PlaceOrder, Pay, Void, Settle, RecordFinal, Backfill, Take, CheckMonth,
         PostFail, CloseDelete, CloseSum, ClosePost, CloseMark, Reopen, ReopenDelete, NextMonth, Restart
<1> QED
  BY <1>1, <1>2, <1>3, <1>4

\* Every job of a step is about a source that is there once the step is done.
LEMMA JobsStep ==
  ASSUME Inv, [Next]_vars
  PROVE  pending' \subseteq Jobs /\ \A job \in pending' : JobThere(job)'
<1> USE DEF Inv, WorkTypes, Sound
<1>1. FactTypes' /\ \A job \in Jobs : JobThere(job) => JobThere(job)'
  BY FactStep, ThereStays
<1>2. CASE pending' \subseteq pending
  BY <1>1, <1>2
<1>3. ASSUME NEW o \in Orders, NEW washes \in SUBSET Entries, Pay(o, washes)
      PROVE  pending' \subseteq Jobs /\ \A job \in pending' : JobThere(job)'
  <2>1. ASSUME NEW job \in pending' \ pending PROVE job \in Jobs /\ JobThere(job)'
    <3>1. job = <<"sale", o>> \/ \E e \in washes : job = <<"accrual", e>>
      BY <1>3 DEF Pay
    <3>2. \A e \in washes : entry'[e].status = "pending"
      BY <1>3 DEF Pay
    <3> QED
      BY <3>1, <3>2 DEF Jobs, JobThere
  <2> QED
    BY <1>1, <2>1
<1>4. ASSUME NEW o \in Orders, NEW read \in BOOLEAN, Void(o, read)
      PROVE  pending' \subseteq Jobs /\ \A job \in pending' : JobThere(job)'
  <2>1. ASSUME NEW job \in pending' \ pending PROVE job \in Jobs /\ JobThere(job)'
    <3>1. job = <<"void", o>>
      BY <1>4 DEF Void
    <3> QED
      BY <3>1 DEF Jobs, JobThere
  <2> QED
    BY <1>1, <2>1
<1>5. ASSUME NEW y \in Payouts, NEW es \in SUBSET Entries, Settle(y, es)
      PROVE  pending' \subseteq Jobs /\ \A job \in pending' : JobThere(job)'
  <2>1. ASSUME NEW job \in pending' \ pending PROVE job \in Jobs /\ JobThere(job)'
    <3>1. job = <<"payout", y>> /\ payout'[y] = today
      BY <1>5 DEF Settle, FactTypes
    <3> QED
      BY <3>1, ConstantsAssumption DEF Jobs, JobThere, FactTypes
  <2> QED
    BY <1>1, <2>1
<1>6. ASSUME NEW n \in Records, NEW m \in Months, RecordFinal(n, m)
      PROVE  pending' \subseteq Jobs /\ \A job \in pending' : JobThere(job)'
  <2>1. ASSUME NEW job \in pending' \ pending PROVE job \in Jobs /\ JobThere(job)'
    <3>1. job = <<"record", n>> /\ record'[n] = m
      BY <1>6 DEF RecordFinal, FactTypes
    <3> QED
      BY <3>1, ConstantsAssumption DEF Jobs, JobThere
  <2> QED
    BY <1>1, <2>1
<1>7. ASSUME NEW job \in Jobs, Backfill(job)
      PROVE  pending' \subseteq Jobs /\ \A j \in pending' : JobThere(j)'
  <2>1. JobThere(job)
    BY <1>7 DEF Backfill, Backfillable, JobThere
  <2> QED
    BY <1>1, <1>7, <2>1 DEF Backfill
<1>8. \/ pending' \subseteq pending
      \/ \E o \in Orders, washes \in SUBSET Entries : Pay(o, washes)
      \/ \E o \in Orders, read \in BOOLEAN : Void(o, read)
      \/ \E y \in Payouts, es \in SUBSET Entries : Settle(y, es)
      \/ \E n \in Records, m \in Months : RecordFinal(n, m)
      \/ \E job \in Jobs : Backfill(job)
  BY DEF Next, vars, PlaceOrder, Take, CheckMonth, Insert, PostFail, VoidEntry, CloseDelete,
         CloseSum, ClosePost, CloseMark, Reopen, ReopenDelete, NextMonth, Restart
<1> QED
  BY <1>2, <1>3, <1>4, <1>5, <1>6, <1>7, <1>8

\* There and FirstLeg, entry by entry.
LEMMA OfEachKey ==
  ASSUME NEW x
  PROVE  /\ There(<<"order", x>>) <=> order[x].status # "none"
         /\ There(<<"order_void", x>>)
         /\ There(<<"settle_accrue_r", x>>) <=> entry[x].status # "none"
         /\ There(<<"settle_accrue_p", x>>) <=> entry[x].status # "none"
         /\ There(<<"settle_payout_a", x>>) <=> payout[x] # NoMonth
         /\ There(<<"settle_payout_b", x>>) <=> payout[x] # NoMonth
         /\ There(<<"record", x>>) <=> record[x] # NoMonth
         /\ FirstLeg(<<"order", x>>) = <<"order", x>>
         /\ FirstLeg(<<"order_void", x>>) = <<"order_void", x>>
         /\ FirstLeg(<<"settle_accrue_r", x>>) = <<"settle_accrue_r", x>>
         /\ FirstLeg(<<"settle_accrue_p", x>>) = <<"settle_accrue_r", x>>
         /\ FirstLeg(<<"settle_payout_a", x>>) = <<"settle_payout_a", x>>
         /\ FirstLeg(<<"settle_payout_b", x>>) = <<"settle_payout_a", x>>
         /\ FirstLeg(<<"record", x>>) = <<"record", x>>
BY DEF There, FirstLeg

\* What a handler reads when it starts.
LEMMA LegsSound ==
  ASSUME FactTypes, NEW job \in Jobs, JobThere(job)
  PROVE  /\ Legs(job) \subseteq Keys
         /\ \A k \in Legs(job) : There(k) /\ FirstLeg(k) \in Legs(job)
<1>1. CASE job[1] = "sale"
  <2>1. CASE job[2] \in Priced /\ order[job[2]].status = "paid"
    <3>1. Legs(job) = {<<"order", job[2]>>}
      BY <1>1, <2>1 DEF Legs
    <3> QED
      BY <2>1, <3>1, KeysOf, OfEachKey
  <2>2. CASE ~(job[2] \in Priced /\ order[job[2]].status = "paid")
    BY <1>1, <2>2 DEF Legs
  <2> QED
    BY <2>1, <2>2
<1>2. CASE job[1] = "void"
  <2>1. CASE job[2] \in Priced
    <3>1. Legs(job) = {<<"order_void", job[2]>>}
      BY <1>2, <2>1 DEF Legs
    <3> QED
      BY <2>1, <3>1, KeysOf, OfEachKey
  <2>2. CASE job[2] \notin Priced
    BY <1>2, <2>2, VoidLegsPaired DEF Legs
  <2> QED
    BY <2>1, <2>2
<1>3. CASE job[1] = "accrual"
  <2>1. job[2] \in Entries /\ entry[job[2]].status # "none"
    BY <1>3 DEF Jobs, JobThere
  <2>2. \A k : k \in Legs(job) <=>
          k = <<"settle_accrue_r", job[2]>> \/ k = <<"settle_accrue_p", job[2]>>
    BY <1>3 DEF Legs
  <2> QED
    BY <2>1, <2>2, KeysOf, OfEachKey
<1>4. CASE job[1] = "payout"
  <2>1. job[2] \in Payouts /\ payout[job[2]] # NoMonth
    BY <1>4 DEF Jobs, JobThere
  <2>2. \A k : k \in Legs(job) <=>
          k = <<"settle_payout_a", job[2]>> \/ k = <<"settle_payout_b", job[2]>>
    BY <1>4 DEF Legs
  <2> QED
    BY <2>1, <2>2, KeysOf, OfEachKey
<1>5. CASE job[1] = "record"
  BY <1>5, KeysOf, OfEachKey DEF Legs, Jobs, JobThere
<1> QED
  BY <1>1, <1>2, <1>3, <1>4, <1>5 DEF Jobs

\* A poster that does not step stays sound: nothing it relies on goes away.
LEMMA SlotKept ==
  ASSUME Inv, [Next]_vars, NEW p \in Posters, slot'[p] = slot[p]
  PROVE  SlotSound(slot[p])'
<1> USE DEF Inv
<1>1. slot[p].todo \subseteq Keys /\ SlotSound(slot[p])
  BY DEF WorkTypes, Sound
<1>2. \A k \in Keys : There(k) => There(k)'
  BY ThereStays
<1>3. \A k \in Keys : ~Off(k) => ~Off(k)'
  BY JournalGrows
<1>4. \A k \in Keys : FirstLeg(k) \in Keys
  BY FirstLegs
<1> QED
  BY <1>1, <1>2, <1>3, <1>4 DEF SlotSound

SlotTyped(w) ==
  w \in [job : {"idle", "sale", "void", "accrual", "payout", "record"},
         todo : SUBSET Keys, leg : Keys \union {NoKey}]

LEMMA FreeIsSound == SlotTyped(Free) /\ SlotSound(Free)
BY DEF SlotTyped, SlotSound, Free

LEMMA TakeStep ==
  ASSUME Inv, [Next]_vars, NEW p \in Posters, NEW job \in Jobs, Take(p, job)
  PROVE  SlotTyped(slot'[p]) /\ SlotSound(slot[p])'
<1> DEFINE w == [job |-> job[1], todo |-> Legs(job), leg |-> NoKey]
<1>1. slot'[p] = Free \/ slot'[p] = w
  BY DEF Take, Inv, WorkTypes
<1>2. /\ Legs(job) \subseteq Keys
      /\ \A k \in Legs(job) : There(k) /\ FirstLeg(k) \in Legs(job)
  BY LegsSound DEF Take, Inv, Sound
<1>3. job[1] \in {"sale", "void", "accrual", "payout", "record"}
  BY DEF Jobs
<1>4. \A k \in Keys : There(k) => There(k)'
  BY ThereStays DEF Inv
<1>5. CASE slot'[p] = Free
  BY <1>5, FreeIsSound DEF SlotSound, Free
<1>6. CASE slot'[p] = w
  <2>1. SlotTyped(w)
    BY <1>2, <1>3 DEF SlotTyped
  <2>2. slot'[p].todo = Legs(job) /\ slot'[p].leg = NoKey
    BY <1>6
  <2> QED
    BY <1>2, <1>4, <1>6, <2>1, <2>2 DEF SlotSound
<1> QED
  BY <1>1, <1>5, <1>6

LEMMA CheckMonthStep ==
  ASSUME Inv, [Next]_vars, NEW p \in Posters, NEW k \in Keys, CheckMonth(p, k)
  PROVE  SlotTyped(slot'[p]) /\ SlotSound(slot[p])'
<1>1. SlotTyped(slot[p]) /\ SlotSound(slot[p])
  BY DEF Inv, WorkTypes, Sound, SlotTyped
<1>2. slot'[p] = Free \/ slot'[p] = [slot[p] EXCEPT !.leg = k]
  BY DEF CheckMonth, Inv, WorkTypes
<1>3. \A j \in Keys : There(j) => There(j)'
  BY ThereStays DEF Inv
<1>4. UNCHANGED journal /\ k \in slot[p].todo /\ (FirstLeg(k) = k \/ FirstLeg(k) \notin slot[p].todo)
  BY DEF CheckMonth
<1>5. CASE slot'[p] = Free
  BY <1>5, FreeIsSound DEF SlotSound, Free
<1>6. CASE slot'[p] = [slot[p] EXCEPT !.leg = k]
  <2>1. SlotTyped(slot'[p]) /\ slot'[p].todo = slot[p].todo /\ slot'[p].leg = k
    BY <1>1, <1>6 DEF SlotTyped
  <2>2. slot[p].todo \subseteq Keys
    BY <1>1 DEF SlotTyped
  <2> QED
    BY <1>1, <1>3, <1>4, <2>1, <2>2 DEF SlotSound, Off
<1> QED
  BY <1>2, <1>5, <1>6

\* The entry that is posted is of a source that is there, after its first leg.
LEMMA LegPosted ==
  ASSUME Inv, NEW p \in Posters, slot[p].leg # NoKey
  PROVE  /\ slot[p].leg \in Keys /\ There(slot[p].leg) /\ MonthOf(slot[p].leg) \in Months
         /\ FirstLeg(slot[p].leg) = slot[p].leg \/ ~Off(FirstLeg(slot[p].leg))
<1>1. slot[p].leg \in Keys /\ There(slot[p].leg)
  BY DEF Inv, WorkTypes, Sound, SlotSound
<1> QED
  BY <1>1, DateIsAMonth DEF Inv, Sound, SlotSound

LEMMA InsertStep ==
  ASSUME Inv, [Next]_vars, NEW p \in Posters, Insert(p)
  PROVE  SlotTyped(slot'[p]) /\ SlotSound(slot[p])'
<1>0. PICK k \in Keys : k = slot[p].leg
  BY LegPosted DEF Insert
<1> DEFINE more == IF k[1] = "order_void" THEN VoidLegs(k[2]) ELSE {}
         left == (slot[p].todo \ {k}) \union more
<1>1. SlotTyped(slot[p]) /\ SlotSound(slot[p])
  BY DEF Inv, WorkTypes, Sound, SlotTyped
<1>2. slot'[p] = Free \/ slot'[p] = [slot[p] EXCEPT !.todo = left, !.leg = NoKey]
  BY <1>0 DEF Insert, Inv, WorkTypes
<1>3. \A j \in Keys : (There(j) => There(j)') /\ (~Off(j) => ~Off(j)')
  BY ThereStays, JournalGrows DEF Inv
<1>4. ~Off(k)'
  <2>1. journal'[k] = Row(k, MonthOf(k))
    BY <1>0 DEF Insert, Inv, WorkTypes
  <2> QED
    BY <2>1 DEF Row, Off
<1>5. more \subseteq Keys /\ \A j \in more : There(j) /\ FirstLeg(j) \in more
  BY VoidLegsPaired
<1>6. CASE slot'[p] = Free
  BY <1>6, FreeIsSound DEF SlotSound, Free
<1>7. CASE slot'[p] = [slot[p] EXCEPT !.todo = left, !.leg = NoKey]
  <2>1. slot[p].todo \subseteq Keys /\ left \subseteq Keys
    BY <1>1, <1>5 DEF SlotTyped
  <2>2. SlotTyped(slot'[p]) /\ slot'[p].todo = left /\ slot'[p].leg = NoKey
    BY <1>1, <1>7, <2>1 DEF SlotTyped
  <2>3. ASSUME NEW j \in left
        PROVE  There(j)' /\ (FirstLeg(j) \in left \/ ~Off(FirstLeg(j))')
    <3>1. CASE j \in more
      BY <1>3, <1>5, <2>1, <3>1
    <3>2. CASE j \in slot[p].todo \ {k}
      <4>1. There(j) /\ (FirstLeg(j) \in slot[p].todo \/ ~Off(FirstLeg(j))) /\ j \in Keys
        BY <1>1, <2>1, <3>2 DEF SlotSound
      <4>2. FirstLeg(j) \in Keys
        BY <4>1, FirstLegs
      <4>3. CASE FirstLeg(j) = k
        BY <1>3, <1>4, <4>1, <4>3 DEF Off
      <4>4. CASE FirstLeg(j) # k
        BY <1>3, <4>1, <4>2, <4>4
      <4> QED
        BY <4>3, <4>4
    <3> QED
      BY <3>1, <3>2
  <2> QED
    BY <2>2, <2>3 DEF SlotSound
<1> QED
  BY <1>2, <1>6, <1>7

LEMMA SlotsStep ==
  ASSUME Inv, [Next]_vars
  PROVE  /\ slot' \in [Posters -> [job : {"idle", "sale", "void", "accrual", "payout", "record"},
                                   todo : SUBSET Keys, leg : Keys \union {NoKey}]]
         /\ \A p \in Posters : SlotSound(slot[p])'
<1>1. \/ UNCHANGED slot
      \/ \E p \in Posters : \/ \E job \in Jobs : Take(p, job)
                            \/ \E k \in Keys : CheckMonth(p, k)
                            \/ Insert(p) \/ PostFail(p)
      \/ Restart
  BY DEF Next, vars, PlaceOrder, Pay, Void, Settle, RecordFinal, Backfill, VoidEntry, CloseDelete,
         CloseSum, ClosePost, CloseMark, Reopen, ReopenDelete, NextMonth
<1>2. slot \in [Posters -> [job : {"idle", "sale", "void", "accrual", "payout", "record"},
                            todo : SUBSET Keys, leg : Keys \union {NoKey}]]
  BY DEF Inv, WorkTypes
<1>3. CASE UNCHANGED slot
  BY <1>2, <1>3, SlotKept
<1>4. ASSUME NEW p \in Posters, SlotTyped(slot'[p]), SlotSound(slot[p])',
             NEW w, slot' = [slot EXCEPT ![p] = w]
      PROVE  /\ slot' \in [Posters -> [job : {"idle", "sale", "void", "accrual", "payout", "record"},
                                       todo : SUBSET Keys, leg : Keys \union {NoKey}]]
             /\ \A q \in Posters : SlotSound(slot[q])'
  <2>1. w = slot'[p]
    BY <1>2, <1>4
  <2>2. ASSUME NEW q \in Posters, q # p PROVE SlotSound(slot[q])'
    BY <1>2, <1>4, <2>2, SlotKept
  <2> QED
    BY <1>2, <1>4, <2>1, <2>2 DEF SlotTyped
<1>5. ASSUME NEW p \in Posters, NEW job \in Jobs, Take(p, job)
      PROVE  \E w : slot' = [slot EXCEPT ![p] = w]
  BY <1>5 DEF Take
<1>6. ASSUME NEW p \in Posters, NEW k \in Keys, CheckMonth(p, k)
      PROVE  \E w : slot' = [slot EXCEPT ![p] = w]
  BY <1>6 DEF CheckMonth
<1>7. ASSUME NEW p \in Posters, Insert(p) PROVE \E w : slot' = [slot EXCEPT ![p] = w]
  BY <1>7 DEF Insert
<1>8. ASSUME NEW p \in Posters, PostFail(p)
      PROVE  /\ slot' = [slot EXCEPT ![p] = Free]
             /\ SlotTyped(slot'[p]) /\ SlotSound(slot[p])'
  <2>1. slot' = [slot EXCEPT ![p] = Free] /\ slot'[p] = Free
    BY <1>2, <1>8 DEF PostFail
  <2> QED
    BY <2>1, FreeIsSound DEF SlotSound, Free
<1>9. CASE Restart
  <2>1. slot' = [p \in Posters |-> Free]
    BY <1>9 DEF Restart
  <2> QED
    BY <2>1, FreeIsSound DEF SlotTyped, SlotSound, Free
<1> QED
  BY <1>1, <1>3, <1>4, <1>5, <1>6, <1>7, <1>8, <1>9, TakeStep, CheckMonthStep, InsertStep

LEMMA JournalStep ==
  ASSUME Inv, [Next]_vars
  PROVE  /\ journal' \in [Keys -> [status : {"none", "posted", "void"}, month : MonthOrNone]]
         /\ (\A k \in Keys : ~Off(k) => There(k) /\ ~Off(FirstLeg(k)) /\ journal[k].month \in Months)'
<1> DEFINE Good(k) == ~Off(k) => There(k) /\ ~Off(FirstLeg(k)) /\ journal[k].month \in Months
<1>1. /\ journal \in [Keys -> [status : {"none", "posted", "void"}, month : MonthOrNone]]
      /\ \A k \in Keys : Good(k)
  BY DEF Inv, WorkTypes, Sound
<1>2. \A k \in Keys : (There(k) => There(k)') /\ (~Off(k) => ~Off(k)') /\ FirstLeg(k) \in Keys
  BY ThereStays, JournalGrows, FirstLegs DEF Inv
<1>3. CASE UNCHANGED journal
  BY <1>1, <1>2, <1>3 DEF Off
<1>4. ASSUME NEW p \in Posters, Insert(p)
      PROVE  /\ journal' \in [Keys -> [status : {"none", "posted", "void"}, month : MonthOrNone]]
             /\ \A k \in Keys : Good(k)'
  <2>1. PICK leg \in Keys : /\ leg = slot[p].leg /\ There(leg) /\ MonthOf(leg) \in Months
                            /\ FirstLeg(leg) = leg \/ ~Off(FirstLeg(leg))
    BY <1>4, LegPosted DEF Insert
  <2>2. journal' = [journal EXCEPT ![leg] = Row(leg, MonthOf(leg))]
    BY <1>4, <2>1 DEF Insert
  <2>3. CASE Off(leg)
    <3>1. journal' = [journal EXCEPT ![leg] = [status |-> "posted", month |-> MonthOf(leg)]]
      BY <2>2, <2>3 DEF Row
    <3>2. \A k \in Keys \ {leg} : journal'[k] = journal[k]
      BY <1>1, <3>1
    <3>3. journal'[leg] = [status |-> "posted", month |-> MonthOf(leg)]
      BY <1>1, <3>1
    <3>4. ASSUME NEW k \in Keys \ {leg} PROVE Good(k)'
      BY <1>1, <1>2, <3>2 DEF Off
    <3>5. Good(leg)'
      BY <1>2, <2>1, <3>3 DEF Off
    <3>6. journal' \in [Keys -> [status : {"none", "posted", "void"}, month : MonthOrNone]]
      BY <1>1, <2>1, <3>1 DEF MonthOrNone
    <3> QED
      BY <3>4, <3>5, <3>6
  <2>4. CASE ~Off(leg)
    <3>1. UNCHANGED journal
      BY <1>1, <2>2, <2>4 DEF Row
    <3> QED
      BY <1>3, <3>1
  <2> QED
    BY <2>3, <2>4
<1>5. ASSUME NEW j \in Keys, VoidEntry(j)
      PROVE  /\ journal' \in [Keys -> [status : {"none", "posted", "void"}, month : MonthOrNone]]
             /\ \A k \in Keys : Good(k)'
  <2>1. ~Off(j) /\ journal' = [journal EXCEPT ![j].status = "void"]
    BY <1>5 DEF VoidEntry, Off
  <2>2. journal' \in [Keys -> [status : {"none", "posted", "void"}, month : MonthOrNone]]
    BY <1>1, <2>1
  <2>3. \A k \in Keys : journal'[k].month = journal[k].month /\ (~Off(k)' => ~Off(k))
    BY <1>1, <2>1 DEF Off
  <2> QED
    BY <1>1, <1>2, <2>2, <2>3 DEF Off
<1>6. UNCHANGED journal \/ (\E p \in Posters : Insert(p)) \/ \E j \in Keys : VoidEntry(j)
  BY DEF Next, vars, PlaceOrder, Pay, Void, Settle, RecordFinal, Backfill, Take, CheckMonth,
         PostFail, CloseDelete, CloseSum, ClosePost, CloseMark, Reopen, ReopenDelete, NextMonth, Restart
<1> QED
  BY <1>3, <1>4, <1>5, <1>6

-----------------------------------------------------------------------------
(* The invariant *)

LEMMA InvInit == Init => Inv
<1> SUFFICES ASSUME Init PROVE Inv
  OBVIOUS
<1> USE DEF Init
<1>1. 1 \in Months
  BY ConstantsAssumption
<1>2. FactTypes /\ Dated
  BY <1>1 DEF FactTypes, Dated, EntryRow, MonthOrNone
<1>3. WorkTypes
  BY DEF WorkTypes, MonthOrNone, Free
<1>4. PeriodTypes
  <2>1. << >> \in Seq(SUBSET Keys)
    OBVIOUS
  <2> QED
    BY <2>1, ConstantsAssumption DEF PeriodTypes, MonthOrNone, Idle
<1>5. Sound
  <2>1. \A k \in Keys : Off(k)
    BY DEF Off
  <2>2. \A p \in Posters : slot[p] = Free
    OBVIOUS
  <2> QED
    BY <2>1, <2>2 DEF Sound, SlotSound, Free
<1> QED
  BY <1>2, <1>3, <1>4, <1>5 DEF Inv

LEMMA InvStep ==
  ASSUME Inv, [Next]_vars
  PROVE  Inv'
<1>1. FactTypes' /\ Dated'
  BY FactStep DEF Inv
<1>2. PeriodTypes'
  BY PeriodStep DEF Inv
<1>3. WorkTypes'
  BY JobsStep, SlotsStep, JournalStep DEF WorkTypes
<1>4. Sound'
  BY JobsStep, SlotsStep, JournalStep DEF Sound
<1> QED
  BY <1>1, <1>2, <1>3, <1>4 DEF Inv

LEMMA InvHolds == Spec => []Inv
BY InvInit, InvStep, PTL DEF Spec

-----------------------------------------------------------------------------
(* The theorems *)

\* Every table and call keeps its type, and no entry is posted without the date of a
\* source that is there.
THEOREM TypeCorrect == Spec => []TypeOK
<1>1. Inv => TypeOK
  BY DEF Inv, FactTypes, EntryRow, WorkTypes, PeriodTypes, Sound, TypeOK
<1> QED
  BY <1>1, InvHolds, PTL

\* For any number of posters, backfills, closed months and faults: the second leg of a
\* settlement is in the books only with the first.
THEOREM LegsInOrder == Spec => []SecondLegAfterFirst
<1>1. ASSUME Inv PROVE SecondLegAfterFirst
  <2>1. \A k \in Keys : ~Off(k) => ~Off(FirstLeg(k))
    BY <1>1 DEF Inv, Sound
  <2>2. /\ \A e \in Entries : /\ FirstLeg(<<"settle_accrue_p", e>>) = <<"settle_accrue_r", e>>
                              /\ FirstLeg(<<"settle_void_p", e>>) = <<"settle_void_r", e>>
        /\ \A y \in Payouts : FirstLeg(<<"settle_payout_b", y>>) = <<"settle_payout_a", y>>
    BY DEF FirstLeg
  <2> QED
    BY <2>1, <2>2, KeysOf DEF SecondLegAfterFirst
<1> QED
  BY <1>1, InvHolds, PTL

\* A settlement that the void of its sale reversed in the books was never paid out.
THEOREM ReversedIsNotPaid == Spec => []ClearedOnce
<1>1. ASSUME Inv PROVE ClearedOnce
  <2>1. ASSUME NEW e \in Entries, ~Off(<<"settle_void_r", e>>)
        PROVE  entry[e].status = "void" /\ \A y \in Payouts : entry[e].payout # y
    <3>1. There(<<"settle_void_r", e>>)
      BY <1>1, <2>1, KeysOf DEF Inv, Sound
    <3>2. entry[e].status = "void"
      BY <3>1 DEF There
    <3>3. entry[e].payout = NoPayout
      BY <1>1, <3>2 DEF Inv, Dated
    <3> QED
      BY <3>2, <3>3, ConstantsAssumption
  <2> QED
    BY <2>1 DEF ClearedOnce
<1> QED
  BY <1>1, InvHolds, PTL

\* Every step posts a source for the first time, with a month, or voids an entry that
\* is posted, or leaves the journal alone: the ledger implements Journal.
THEOREM LedgerImplementsJournal == Spec => ImplementsJournal
<1>1. Init => Books!Init
  BY DEF Init, Books!Init
<1>2. ASSUME Inv, [Next]_vars PROVE [Books!Next]_journal
  <2>1. ASSUME NEW p \in Posters, Insert(p) PROVE [Books!Next]_journal
    <3>1. PICK leg \in Keys : leg = slot[p].leg /\ MonthOf(leg) \in Months
      BY <1>2, <2>1, LegPosted DEF Insert
    <3>2. journal' = [journal EXCEPT ![leg] = Row(leg, MonthOf(leg))]
      BY <2>1, <3>1 DEF Insert
    <3>3. CASE Off(leg)
      <4>1. Books!Post(leg, MonthOf(leg))
        BY <3>2, <3>3 DEF Row, Off, Books!Post
      <4> QED
        BY <3>1, <4>1 DEF Books!Next
    <3>4. CASE ~Off(leg)
      <4>1. UNCHANGED journal
        BY <1>2, <3>2, <3>4 DEF Row, Inv, WorkTypes
      <4> QED
        BY <4>1
    <3> QED
      BY <3>3, <3>4
  <2>2. ASSUME NEW k \in Keys, VoidEntry(k) PROVE [Books!Next]_journal
    <3>1. Books!Unbook(k)
      BY <2>2 DEF VoidEntry, Books!Unbook
    <3> QED
      BY <3>1 DEF Books!Next
  <2>3. UNCHANGED journal \/ (\E p \in Posters : Insert(p)) \/ \E k \in Keys : VoidEntry(k)
    BY <1>2 DEF Next, vars, PlaceOrder, Pay, Void, Settle, RecordFinal, Backfill, Take,
      CheckMonth, PostFail, CloseDelete, CloseSum, ClosePost, CloseMark, Reopen, ReopenDelete,
      NextMonth, Restart
  <2> QED
    BY <2>1, <2>2, <2>3
<1> QED
  BY <1>1, <1>2, InvHolds, PTL DEF Spec, ImplementsJournal, Books!Spec

-----------------------------------------------------------------------------
(* Closing.  Nothing in the code keeps two admins apart: what the theorem needs *)
(* of them is a hypothesis on the behaviour.                                    *)

\* No two admins are between the delete and the post of the same month.
SerialCloses ==
  \A a, b \in Admins :
    a # b /\ admin[a].step \in {"sum", "post"} /\ admin[b].step \in {"sum", "post"} =>
      admin[a].month # admin[b].month

\* Between the delete and the post of one admin's close the month has no closing entry.
ClosingInv ==
  /\ PeriodTypes
  /\ OneClosingEntry
  /\ \A a \in Admins : admin[a].step \in {"sum", "post"} => closing[admin[a].month] = << >>

LEMMA ClosingStep ==
  ASSUME SerialCloses, ClosingInv, [Next]_vars
  PROVE  ClosingInv'
<1> USE DEF ClosingInv, PeriodTypes, OneClosingEntry, Idle
<1>0. PeriodTypes'
  BY PeriodStep
<1>1. CASE UNCHANGED periods
  BY <1>0, <1>1 DEF periods
<1>2. ASSUME NEW a \in Admins, NEW m \in Months, CloseDelete(a, m) PROVE ClosingInv'
  BY <1>0, <1>2 DEF CloseDelete, Kept
<1>3. ASSUME NEW a \in Admins, CloseSum(a) PROVE ClosingInv'
  BY <1>0, <1>3 DEF CloseSum
<1>4. ASSUME NEW a \in Admins, ClosePost(a) PROVE ClosingInv'
  <2>1. /\ admin[a].month \in Months /\ closing[admin[a].month] = << >>
        /\ admin[a].covers \in SUBSET Keys
    BY <1>4 DEF ClosePost
  <2>2. Len(Append(closing[admin[a].month], admin[a].covers)) = 1
    BY <2>1
  <2>3. ASSUME NEW b \in Admins, admin'[b].step \in {"sum", "post"}
        PROVE  closing'[admin'[b].month] = << >>
    <3>1. b # a /\ admin'[b] = admin[b]
      BY <1>4, <2>3 DEF ClosePost
    <3>2. admin[b].month \in Months /\ admin[b].month # admin[a].month
      BY <1>4, <2>3, <3>1 DEF ClosePost, SerialCloses
    <3> QED
      BY <1>4, <2>3, <3>1, <3>2 DEF ClosePost
  <2>4. \A m \in Months : Len(closing'[m]) <= 1
    BY <1>4, <2>1, <2>2 DEF ClosePost
  <2> QED
    BY <1>0, <2>3, <2>4
<1>5. ASSUME NEW a \in Admins, CloseMark(a) PROVE ClosingInv'
  BY <1>0, <1>5 DEF CloseMark
<1>6. ASSUME NEW a \in Admins, NEW m \in Months, Reopen(a, m) PROVE ClosingInv'
  BY <1>0, <1>6 DEF Reopen
<1>7. ASSUME NEW a \in Admins, ReopenDelete(a) PROVE ClosingInv'
  BY <1>0, <1>7 DEF ReopenDelete
<1>8. CASE Restart
  BY <1>0, <1>8 DEF Restart
<1>9. \/ UNCHANGED periods \/ Restart
      \/ \E a \in Admins : CloseSum(a) \/ ClosePost(a) \/ CloseMark(a) \/ ReopenDelete(a)
      \/ \E a \in Admins, m \in Months : CloseDelete(a, m) \/ Reopen(a, m)
  BY DEF Next, vars, periods, PlaceOrder, Pay, Void, Settle, RecordFinal, Backfill, Take,
         CheckMonth, Insert, PostFail, VoidEntry, NextMonth
<1> QED
  BY <1>1, <1>2, <1>3, <1>4, <1>5, <1>6, <1>7, <1>8, <1>9

\* In every behaviour in which no two admins are inside the close of one month at once,
\* with any number of them closing and reopening, and whatever statement of setPeriod
\* fails: a month has at most one closing entry.
THEOREM SerialClosesCloseOnce == Spec /\ []SerialCloses => []OneClosingEntry
<1>1. ASSUME Init PROVE ClosingInv
  <2>1. PeriodTypes
    BY <1>1, InvInit DEF Inv
  <2> QED
    BY <1>1, <2>1 DEF Init, ClosingInv, OneClosingEntry, Idle
<1>2. ClosingInv /\ SerialCloses /\ [Next]_vars => ClosingInv'
  BY ClosingStep
<1>3. ClosingInv => OneClosingEntry
  BY DEF ClosingInv
<1> QED
  BY <1>1, <1>2, <1>3, PTL DEF Spec
=============================================================================
