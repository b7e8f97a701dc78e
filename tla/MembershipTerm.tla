---------------------------- MODULE MembershipTerm ----------------------------
(***************************************************************************)
(* The term of one customer's memberships: how it lapses into grace and    *)
(* revocation, how a renewal is ordered, paid, applied and voided, and how *)
(* a membership is suspended and cancelled by hand.                        *)
(* Source: membership-lifecycle.service.ts, membership-renewal.service.ts, *)
(* membership-admin.service.ts and the last steps of the reversal in       *)
(* order.service.ts.                                                       *)
(*                                                                         *)
(* applyRenewal reads the renewal, its order and the memberships, then     *)
(* writes a membership, then marks the renewal applied: three actions of a *)
(* worker, with no transaction around them.                                *)
(*                                                                         *)
(* Dates are day numbers, and a plan adds Term days where the code adds    *)
(* calendar months.                                                        *)
(***************************************************************************)
EXTENDS Naturals, FiniteSets, TLC

CONSTANTS
  Members,       \* membership rows, numbered in the order they are created
  Enrolled,      \* the memberships that exist at the start
  Plans,
  FirstPlan,     \* plan of the enrolled memberships
  Term,          \* days a plan adds
  FirstEnd,      \* end_date of the enrolled memberships
  GraceDays,     \* MEMBERSHIP_GRACE_DAYS
  MaxDeferral,   \* days a cashier may put the next period off
  Fees,          \* renewal fee orders
  Workers,       \* applyRenewal requests served at the same time
  Horizon,       \* the last day of the instance
  Latest,        \* the last end_date the instance writes
  Calls          \* the endpoints and faults the instance exercises

CONSTANTS NoFee, NoDate  \* memberships.order_id, next_start_date IS NULL

AllCalls == {"defer", "void", "suspend", "cancel", "crash"}
MemberStatus == {"none", "active", "grace", "revoked", "suspended", "cancelled"}

Membership == [status : MemberStatus, plan : Plans, start : Nat, end : Nat,
               fee : Fees \union {NoFee}]
Renewal == [member : Members, plan : Plans, next : Nat \union {NoDate}, applied : BOOLEAN]

\* What a worker of applyRenewal holds: the order, the membership it will
\* extend (0: a new one), and the dates it will write.
Idle == [step |-> "idle", fee |-> NoFee, target |-> 0, start |-> 0, end |-> 0]
Job == {Idle} \union [step : {"read", "written"}, fee : Fees,
                      target : Members \union {0}, start : Nat, end : Nat]

ASSUME ConstantsAssumption ==
  /\ Members \subseteq Nat \ {0} /\ Enrolled \subseteq Members /\ Members # {}
  /\ FirstPlan \in Plans /\ Term \in [Plans -> Nat \ {0}]
  /\ FirstEnd \in Nat /\ GraceDays \in Nat /\ MaxDeferral \in Nat
  /\ Horizon \in Nat /\ Latest \in Nat
  /\ NoFee \notin Fees /\ NoDate \notin Nat
  /\ Calls \subseteq AllCalls

VARIABLES
  today,      \* CURRENT_DATE
  mem,        \* memberships
  fee,        \* orders.status of the renewal fee orders
  paying,     \* fee orders that a payOrder in flight has read as 'ordered'
  renewal,    \* membership_renewals of an order
  written,    \* 'renewed' membership_events: the order, and the worker who wrote
  job,        \* the applyRenewal requests in flight
  revoking    \* runTransitions has moved rows to grace, and revokes next

vars == <<today, mem, fee, paying, renewal, written, job, revoking>>

-----------------------------------------------------------------------------
(* Plausible bugs: wrong versions of the helpers below. *)

LapsedToday(m) == mem[m].end <= today            \* <= CURRENT_DATE
GraceForgotten == {"active"}                     \* WHERE status = 'active'
ConfirmedAny(o) == fee[o] # "cancelled"          \* applied without payment
RolledBackUnguarded(start, end, days) == end - days  \* no GREATEST with the start

-----------------------------------------------------------------------------
(* Dates of a renewed period *)

\* renewalPeriodStart: the day after a running term, today after a lapsed one.
PeriodStart(end, next) ==
  IF next # NoDate THEN next ELSE IF end >= today THEN end + 1 ELSE today

\* renewalPeriodEnd: a stacked period is measured from the old end.
PeriodEnd(end, start, days) == (IF start = end + 1 THEN end ELSE start) + days

\* validateNextStart
ValidNext(end) ==
  {NoDate} \union {end + k : k \in IF "defer" \in Calls THEN 1 .. MaxDeferral ELSE {}}

\* Step 4c of the reversal: the end goes back, but not before the start.
RolledBack(start, end, days) == IF end >= start + days THEN end - days ELSE start

(* The rows the statements select *)

Confirmed(o) == fee[o] = "paid"
Renewable == {m \in Members : mem[m].status \in {"active", "grace"}}
Lapsed(m) == mem[m].end < today
PastGrace(m) == mem[m].end + GraceDays < today
Revocable == {"active", "grace"}

Newest(S) == {m \in S : \A i \in S : i <= m}
LastToEnd(S) == {m \in S : \A i \in S : mem[i].end <= mem[m].end}
NextRow == {m \in Members : mem[m].status = "none" /\ \A i \in Members :
                              i < m => mem[i].status # "none"}

-----------------------------------------------------------------------------
Init ==
  /\ today = 0
  /\ mem = [m \in Members |->
       [status |-> IF m \in Enrolled THEN "active" ELSE "none", plan |-> FirstPlan,
        start |-> 0, end |-> IF m \in Enrolled THEN FirstEnd ELSE 0, fee |-> NoFee]]
  /\ fee = [o \in Fees |-> "none"]
  /\ paying = {}
  /\ renewal = [o \in Fees |-> [member |-> CHOOSE m \in Members : TRUE,
                                plan |-> FirstPlan, next |-> NoDate, applied |-> FALSE]]
  /\ written = {}
  /\ job = [w \in Workers |-> Idle]
  /\ revoking = FALSE

Midnight ==
  /\ today < Horizon
  /\ today' = today + 1
  /\ UNCHANGED <<mem, fee, paying, renewal, written, job, revoking>>

(* runTransitions: one UPDATE to grace, then one to revoked *)

SweepGrace ==
  /\ ~revoking
  /\ revoking' = TRUE
  /\ mem' = [m \in Members |->
               IF mem[m].status = "active" /\ Lapsed(m) /\ ~PastGrace(m)
               THEN [mem[m] EXCEPT !.status = "grace"] ELSE mem[m]]
  /\ UNCHANGED <<today, fee, paying, renewal, written, job>>

SweepRevoke ==
  /\ revoking
  /\ revoking' = FALSE
  /\ mem' = [m \in Members |->
               IF mem[m].status \in Revocable /\ PastGrace(m)
               THEN [mem[m] EXCEPT !.status = "revoked"] ELSE mem[m]]
  /\ UNCHANGED <<today, fee, paying, renewal, written, job>>

(* renewByMembershipId, and the payment of its order *)

StartRenewal(o, m, p, next) ==
  /\ fee[o] = "none" /\ mem[m].status # "none"
  /\ next \in ValidNext(mem[m].end)
  /\ fee' = [fee EXCEPT ![o] = "ordered"]
  /\ renewal' = [renewal EXCEPT ![o] = [member |-> m, plan |-> p, next |-> next,
                                        applied |-> FALSE]]
  /\ UNCHANGED <<today, mem, paying, written, job, revoking>>

PayRead(o) ==
  /\ fee[o] = "ordered"
  /\ paying' = paying \union {o}
  /\ UNCHANGED <<today, mem, fee, renewal, written, job, revoking>>

\* By id: an order that was cancelled meanwhile is paid, too.
PayCommit(o) ==
  /\ o \in paying
  /\ fee' = [fee EXCEPT ![o] = "paid"]
  /\ paying' = paying \ {o}
  /\ UNCHANGED <<today, mem, renewal, written, job, revoking>>

(* applyRenewal, which the till, the back office and the portal's poll call *)

Decided(w, o, target, start, end) ==
  /\ end <= Latest
  /\ job' = [job EXCEPT ![w] = [step |-> "read", fee |-> o, target |-> target,
                                start |-> start, end |-> end]]

\* A period behind a term that ends on end.
Behind(w, o, target, end) ==
  LET start == PeriodStart(end, renewal[o].next)
  IN  Decided(w, o, target, start, PeriodEnd(end, start, Term[renewal[o].plan]))

\* The newest same-plan membership in use or in grace is extended.  With none,
\* a new one queues behind the longest running term, or starts at once.
ApplyRead(w, o) ==
  LET r == renewal[o]
      same == {m \in Renewable : mem[m].plan = r.plan}
      first == IF r.next # NoDate THEN r.next ELSE today
  IN  /\ job[w] = Idle
      /\ fee[o] # "none" /\ ~r.applied /\ Confirmed(o)
      /\ \/ \E m \in Newest(same) : Behind(w, o, m, mem[m].end)
         \/ same = {} /\ \E m \in LastToEnd(Renewable) : Behind(w, o, 0, mem[m].end)
         \/ Renewable = {} /\ Decided(w, o, 0, first, first + Term[r.plan])
      /\ UNCHANGED <<today, mem, fee, paying, renewal, written, revoking>>

\* The UPDATE names the membership by id, whatever it has become.
ApplyWrite(w) ==
  LET j == job[w]
  IN  /\ j.step = "read"
      /\ \/ /\ j.target \in Members
            /\ mem' = [mem EXCEPT ![j.target] = [@ EXCEPT !.status = "active",
                                                          !.start = j.start, !.end = j.end]]
         \/ /\ j.target = 0
            /\ \E m \in NextRow :
                 mem' = [mem EXCEPT ![m] =
                   [status |-> "active", plan |-> renewal[j.fee].plan,
                    start |-> j.start, end |-> j.end, fee |-> j.fee]]
      /\ written' = written \union {<<j.fee, w>>}
      /\ job' = [job EXCEPT ![w].step = "written"]
      /\ UNCHANGED <<today, fee, paying, renewal, revoking>>

ApplyMark(w) ==
  /\ job[w].step = "written"
  /\ renewal' = [renewal EXCEPT ![job[w].fee].applied = TRUE]
  /\ job' = [job EXCEPT ![w] = Idle]
  /\ UNCHANGED <<today, mem, fee, paying, written, revoking>>

(* voidOrder on the fee order, steps 4b and 4c of the reversal *)

Void(o) ==
  LET r == renewal[o]
  IN  /\ "void" \in Calls
      /\ fee[o] \in {"ordered", "paid"}
      /\ fee' = [fee EXCEPT ![o] = "cancelled"]
      /\ mem' = [m \in Members |->
           LET x == IF mem[m].fee = o THEN [mem[m] EXCEPT !.status = "cancelled"] ELSE mem[m]
           IN  IF r.applied /\ m = r.member
               THEN [x EXCEPT !.end = RolledBack(x.start, x.end, Term[r.plan])] ELSE x]
      /\ renewal' = [renewal EXCEPT ![o].applied = FALSE]
      /\ UNCHANGED <<today, paying, written, job, revoking>>

(* MembershipAdminService, and the process itself *)

SetStatus(m, from, to) ==
  /\ mem[m].status \in from
  /\ mem' = [mem EXCEPT ![m].status = to]
  /\ UNCHANGED <<today, fee, paying, renewal, written, job, revoking>>

Suspend(m) == "suspend" \in Calls /\ SetStatus(m, {"active"}, "suspended")
Reactivate(m) == SetStatus(m, {"suspended"}, "active")
Cancel(m) == "cancel" \in Calls /\ SetStatus(m, MemberStatus \ {"none", "cancelled"}, "cancelled")

Crash ==
  /\ "crash" \in Calls
  /\ job' = [w \in Workers |-> Idle]
  /\ revoking' = FALSE
  /\ paying' = {}
  /\ UNCHANGED <<today, mem, fee, renewal, written>>

-----------------------------------------------------------------------------
Next ==
  \/ Midnight
  \/ SweepGrace
  \/ SweepRevoke
  \/ \E o \in Fees, m \in Members, p \in Plans : \E next \in ValidNext(mem[m].end) :
       StartRenewal(o, m, p, next)
  \/ \E o \in Fees : PayRead(o)
  \/ \E o \in Fees : PayCommit(o)
  \/ \E w \in Workers, o \in Fees : ApplyRead(w, o)
  \/ \E w \in Workers : ApplyWrite(w)
  \/ \E w \in Workers : ApplyMark(w)
  \/ \E o \in Fees : Void(o)
  \/ \E m \in Members : Suspend(m)
  \/ \E m \in Members : Reactivate(m)
  \/ \E m \in Members : Cancel(m)
  \/ Crash

Spec == Init /\ [][Next]_vars

\* setInterval starts a maintenance pass again and again.
FairSpec == Spec /\ WF_vars(SweepGrace) /\ WF_vars(SweepRevoke)

-----------------------------------------------------------------------------
(* What the code keeps true, whatever the interleaving *)

\* Every variable holds a value of its kind.
TypeOK ==
  /\ today \in Nat
  /\ mem \in [Members -> Membership]
  /\ fee \in [Fees -> {"none", "ordered", "paid", "cancelled"}]
  /\ paying \subseteq Fees
  /\ renewal \in [Fees -> Renewal]
  /\ written \subseteq Fees \X Workers
  /\ job \in [Workers -> Job]
  /\ revoking \in BOOLEAN

\* "an unpaid renewal never silently extends a membership": nothing is written,
\* and nothing is about to be written, for an order that was never paid.
NothingBeforePayment ==
  \A o \in Fees : fee[o] \in {"none", "ordered"} =>
    /\ ~renewal[o].applied
    /\ \A w \in Workers : <<o, w>> \notin written /\ job[w].fee # o
    /\ \A m \in Members : mem[m].fee # o

\* A membership is in grace or revoked only after its end date, and revoked only
\* after its grace: the nightly pass, late renewals and voids never disagree
\* with the dates.
LapsedIsPastItsEnd ==
  \A m \in Members :
    /\ mem[m].status = "grace" => mem[m].end < today
    /\ mem[m].status = "revoked" => mem[m].end + GraceDays < today

\* A term never ends before it starts, however renewals and voids interleave.
TermInOrder == \A m \in Members : mem[m].start <= mem[m].end

\* The maintenance pass reaches every membership whose time has come.
Overdue(m) ==
  \/ mem[m].status = "active" /\ mem[m].end < today
  \/ mem[m].status = "grace" /\ mem[m].end + GraceDays < today
OverdueIsSwept == \A m \in Members : Overdue(m) ~> ~Overdue(m)
=============================================================================
