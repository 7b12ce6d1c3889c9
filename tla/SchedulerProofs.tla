--------------------------- MODULE SchedulerProofs ---------------------------
(***************************************************************************)
(* Proofs about Scheduler, for every size of the process table and every   *)
(* number of priorities.  A handler maps a machine to a machine, so the    *)
(* inductive invariant is a predicate Sound on machines and each part of a *)
(* handler has a lemma of its own; BecomeSound carries them over to the    *)
(* variables.                                                              *)
(***************************************************************************)
EXTENDS Scheduler, ListLemmas, FiniteSetTheorems

USE DEF IDLE_PID, SHELL_PID, NoPid

-----------------------------------------------------------------------------
(***************************************************************************)
(* The inductive invariant.                                                *)
(***************************************************************************)

IsMachine(m) ==
  DOMAIN m = {"status", "ready", "current", "cleanup", "qty", "parent",
              "children", "priority", "rounds", "dangling", "halted"}

Typed(m) ==
  /\ IsMachine(m)
  /\ m.status \in [Pids -> Statuses]
  /\ m.ready \in Seq(Pids)
  /\ m.current \in Pids
  /\ m.cleanup \in Pids \cup {NoPid}
  /\ m.qty \in Int
  /\ m.priority \in [Pids -> Priorities]
  /\ m.rounds \in [Pids -> Priorities]
  /\ m.dangling \in {"no", "top", "buried"}
  /\ m.halted \in Halts \ {"idle"}

Exact(m) ==
  /\ Distinct(m.ready)
  /\ ToSet(m.ready) =
       {p \in Pids \ {IDLE_PID} : m.status[p] \in {"READY", "RUNNING", "KILLED"}}

\* p is the first process of the ready list that has not ended.
Leads(m, p) ==
  \E k \in DOMAIN m.ready :
    /\ m.ready[k] = p
    /\ m.status[p] # "KILLED"
    /\ \A i \in 1 .. k - 1 : m.status[m.ready[i]] = "KILLED"

\* What holds also inside a handler, when the process that made the call has
\* already been marked KILLED or BLOCKED and schedule() is about to run.
Core(m) ==
  /\ Typed(m)
  /\ Exact(m)
  /\ \A p \in Pids : m.status[p] = "RUNNING" => p = m.current
  /\ m.status[SHELL_PID] \in {"READY", "RUNNING"}
  /\ m.status[IDLE_PID] = "READY"
  /\ m.cleanup \notin {IDLE_PID, SHELL_PID}

\* What schedule() may be given: the current process may have just ended.
Schedulable(m) ==
  /\ Core(m)
  /\ m.cleanup # m.current
  /\ \A p \in Pids : m.status[p] = "KILLED" => p \in {m.cleanup, m.current}
  /\ m.status[m.current] = "RUNNING" => Leads(m, m.current)

Sound(m) ==
  /\ Schedulable(m)
  /\ m.status[m.current] # "RUNNING" => m.current = IDLE_PID

\* The outcome of a handler: a sound machine, or one that has faulted anywhere
\* but in the idle process.
Good(m) ==
  /\ m.halted \in Halts \ {"idle"}
  /\ m.halted = "no" => Sound(m)

IInv == Sound(Machine)

-----------------------------------------------------------------------------
(***************************************************************************)
(* The process that is dispatched.                                         *)
(***************************************************************************)

\* getNextProcess() returns the process that leads the list.
LEMMA NextProcessLeads ==
  ASSUME NEW m, m.ready \in Seq(Pids), NEW p, Leads(m, p)
  PROVE  getNextProcess(m) = p
<1> DEFINE I == {i \in 1 .. Len(m.ready) : m.status[m.ready[i]] # "KILLED"}
<1>1. PICK k \in 1 .. Len(m.ready) :
        /\ m.ready[k] = p
        /\ m.status[p] # "KILLED"
        /\ \A i \in 1 .. k - 1 : m.status[m.ready[i]] = "KILLED"
  BY DEF Leads
<1>2. I \in SUBSET Nat /\ I # {} /\ k \in I
  BY <1>1
<1>3. Min(I) \in I /\ Min(I) <= k
  BY <1>2, MinIsLeast
<1>4. Min(I) = k
  <2> DEFINE least == Min(I)
  <2>1. least \in 1 .. Len(m.ready) /\ m.status[m.ready[least]] # "KILLED" /\ least <= k
    BY <1>3
  <2> HIDE DEF least
  <2>2. least = k
    BY <1>1, <2>1
  <2>3. QED
    BY <2>2 DEF least
<1>5. SelectInSeq(m.ready, LAMBDA q : m.status[q] # "KILLED") = k
  BY <1>2, <1>4 DEF SelectInSeq
<1>6. QED
  BY <1>1, <1>5 DEF getNextProcess

\* A list with a process that has not ended has one that leads it.
LEMMA SomeoneLeads ==
  ASSUME NEW m, m.ready \in Seq(Pids),
         NEW q \in ToSet(m.ready), m.status[q] # "KILLED"
  PROVE  \E p \in ToSet(m.ready) : Leads(m, p)
<1> DEFINE I == {i \in 1 .. Len(m.ready) : m.status[m.ready[i]] # "KILLED"}
           k == Min(I)
<1>1. I \in SUBSET Nat /\ I # {}
  BY DEF ToSet
<1>2. k \in I /\ \A n \in I : k <= n
  BY <1>1, MinIsLeast
<1> HIDE DEF k
<1>3. Leads(m, m.ready[k])
  BY <1>2 DEF Leads
<1>4. m.ready[k] \in ToSet(m.ready)
  BY <1>2 DEF ToSet
<1>5. QED
  BY <1>3, <1>4

\* Who leads goes on leading when another process leaves the list ...
LEMMA RemoveKeepsLead ==
  ASSUME NEW m, NEW n, m.ready \in Seq(Pids), NEW p, Leads(m, p),
         NEW q \in ToSet(m.ready), q # p,
         n.ready = RemoveFirst(m.ready, q),
         \A r \in ToSet(m.ready) \ {q} : n.status[r] = m.status[r],
         Distinct(m.ready)
  PROVE  Leads(n, p)
<1>1. PICK j \in 1 .. Len(m.ready) :
        /\ m.ready[j] = q
        /\ n.ready \in Seq(Pids)
        /\ Len(n.ready) = Len(m.ready) - 1
        /\ \A i \in 1 .. Len(m.ready) - 1 :
             n.ready[i] = IF i < j THEN m.ready[i] ELSE m.ready[i + 1]
  <2> DEFINE s == m.ready
  <2>1. s \in Seq(Pids) /\ q \in ToSet(s) /\ n.ready = RemoveFirst(s, q)
    OBVIOUS
  <2> HIDE DEF s
  <2>2. \E j \in 1 .. Len(s) :
          /\ s[j] = q
          /\ n.ready \in Seq(Pids)
          /\ Len(n.ready) = Len(s) - 1
          /\ \A i \in 1 .. Len(s) - 1 : n.ready[i] = IF i < j THEN s[i] ELSE s[i + 1]
    BY <2>1, RemoveMemberPlaces
  <2>3. QED
    BY <2>2, Zenon DEF s
<1>2. PICK k \in 1 .. Len(m.ready) :
        /\ m.ready[k] = p
        /\ m.status[p] # "KILLED"
        /\ \A i \in 1 .. k - 1 : m.status[m.ready[i]] = "KILLED"
  BY DEF Leads
<1>3. ASSUME NEW i \in 1 .. Len(m.ready), i # j
      PROVE  n.status[m.ready[i]] = m.status[m.ready[i]]
  <2>1. m.ready[i] # q
    BY <1>1, <1>3 DEF Distinct
  <2>2. m.ready[i] \in ToSet(m.ready)
    BY DEF ToSet
  <2>3. QED
    BY <2>1, <2>2
<1>4. j # k
  BY <1>1, <1>2
<1>5. CASE j < k
  <2>1. /\ k - 1 \in 1 .. Len(m.ready) - 1 /\ ~(k - 1 < j) /\ (k - 1) + 1 = k
        /\ Len(m.ready) \in Nat
    BY <1>1, <1>2, <1>5
  <2>2. k - 1 \in DOMAIN n.ready /\ n.ready[k - 1] = p
    BY <1>1, <1>2, <2>1
  <2>3. n.status[p] # "KILLED"
    BY <1>2, <1>3, <1>4
  <2>4. ASSUME NEW i \in 1 .. k - 2
        PROVE  n.status[n.ready[i]] = "KILLED"
    <3>1. /\ i \in 1 .. Len(m.ready) - 1
          /\ n.ready[i] = IF i < j THEN m.ready[i] ELSE m.ready[i + 1]
      BY <1>1, <1>2
    <3>2. CASE i < j
      BY <1>2, <1>3, <3>1, <3>2
    <3>3. CASE i >= j
      <4>1. /\ i + 1 \in 1 .. k - 1 /\ i + 1 \in 1 .. Len(m.ready) /\ i + 1 # j
            /\ n.ready[i] = m.ready[i + 1]
        BY <3>1, <3>3
      <4>2. QED
        BY <1>2, <1>3, <4>1
    <3>4. QED
      BY <3>1, <3>2, <3>3
  <2>5. QED
    BY <2>1, <2>2, <2>3, <2>4 DEF Leads
<1>6. CASE k < j
  <2>1. k \in 1 .. Len(m.ready) - 1
    BY <1>1, <1>2, <1>6
  <2>2. k \in DOMAIN n.ready /\ n.ready[k] = p
    BY <1>1, <1>2, <1>6, <2>1
  <2>3. n.status[p] # "KILLED"
    BY <1>2, <1>3, <1>4
  <2>4. ASSUME NEW i \in 1 .. k - 1
        PROVE  n.status[n.ready[i]] = "KILLED"
    <3>1. i \in 1 .. Len(m.ready) /\ i < j /\ i \in 1 .. Len(m.ready) - 1 /\ i # j
      BY <1>1, <1>2, <1>6
    <3>2. n.ready[i] = m.ready[i]
      BY <1>1, <3>1
    <3>3. QED
      BY <1>2, <1>3, <3>1, <3>2
  <2>5. QED
    BY <2>2, <2>3, <2>4 DEF Leads
<1>7. QED
  BY <1>4, <1>5, <1>6

\* ... or joins it at the tail ...
LEMMA AppendKeepsLead ==
  ASSUME NEW m, NEW n, m.ready \in Seq(Pids), NEW p, Leads(m, p),
         NEW q \in Pids,
         n.ready = Append(m.ready, q),
         \A r \in ToSet(m.ready) : n.status[r] = m.status[r]
  PROVE  Leads(n, p)
<1>1. /\ n.ready \in Seq(Pids) /\ Len(n.ready) = Len(m.ready) + 1
      /\ \A i \in 1 .. Len(m.ready) : n.ready[i] = m.ready[i]
  BY AppendProperties
<1>2. \A i \in 1 .. Len(m.ready) : n.status[m.ready[i]] = m.status[m.ready[i]]
  BY DEF ToSet
<1>3. PICK k \in 1 .. Len(m.ready) :
        /\ m.ready[k] = p
        /\ m.status[p] # "KILLED"
        /\ \A i \in 1 .. k - 1 : m.status[m.ready[i]] = "KILLED"
  BY DEF Leads
<1>4. /\ k \in DOMAIN n.ready /\ n.ready[k] = p /\ n.status[p] # "KILLED"
      /\ \A i \in 1 .. k - 1 : n.status[n.ready[i]] = "KILLED"
  BY <1>1, <1>2, <1>3
<1>5. QED
  BY <1>4 DEF Leads

\* ... or when nobody in the list dies or comes to life.
LEMMA SameListSameLead ==
  ASSUME NEW m, NEW n, m.ready \in Seq(Pids), NEW p, Leads(m, p),
         n.ready = m.ready,
         \A r \in ToSet(m.ready) : n.status[r] = "KILLED" <=> m.status[r] = "KILLED"
  PROVE  Leads(n, p)
<1>1. \A i \in 1 .. Len(m.ready) :
        n.status[m.ready[i]] = "KILLED" <=> m.status[m.ready[i]] = "KILLED"
  BY DEF ToSet
<1>2. QED
  BY <1>1 DEF Leads

-----------------------------------------------------------------------------
(***************************************************************************)
(* The parts of schedule().                                                *)
(***************************************************************************)

\* n differs from m in the family fields and in halted only.
SameScheduling(m, n) ==
  /\ IsMachine(n)
  /\ n.status = m.status /\ n.ready = m.ready /\ n.current = m.current
  /\ n.cleanup = m.cleanup /\ n.qty = m.qty /\ n.priority = m.priority
  /\ n.rounds = m.rounds /\ n.dangling = m.dangling

\* The loops over children, whatever they compute, touch the families only.
LEMMA FamilyOnly ==
  ASSUME NEW m, IsMachine(m), m.halted = "no", NEW d
  PROVE  /\ SameScheduling(m, Bereave(m, d))
         /\ Bereave(m, d).halted \in {"no", "child", "parent"}
<1> DEFINE h == HandOverChildren(m, d)
<1>1. SameScheduling(m, h) /\ h.halted \in {"no", "child"}
  <2> DEFINE Result(a, b, c) ==
        [m EXCEPT !.parent = a, !.children = b,
                  !.halted = IF c = "no" THEN "no" ELSE "child"]
  <2>1. \A a, b, c : /\ SameScheduling(m, Result(a, b, c))
                     /\ Result(a, b, c).halted \in {"no", "child"}
    BY DEF SameScheduling, IsMachine
  <2> HIDE DEF Result
  <2>2. \E a, b, c : h = Result(a, b, c)
    BY Zenon DEF HandOverChildren, Result
  <2>3. QED
    BY <2>1, <2>2
<1> HIDE DEF h
<1>2. SameScheduling(h, LeaveParent(h, d)) /\ LeaveParent(h, d).halted \in {"no", "child", "parent"}
  BY <1>1 DEF SameScheduling, LeaveParent, IsMachine
<1>3. QED
  BY <1>1, <1>2 DEF SameScheduling, Bereave, h

\* Freeing the slot of a process that is neither running nor the shell.
LEMMA FreeSlotFields ==
  ASSUME NEW m, Typed(m), NEW d \in Pids
  PROVE  /\ Typed(FreeSlot(m, d))
         /\ FreeSlot(m, d).status = [m.status EXCEPT ![d] = "none"]
         /\ FreeSlot(m, d).ready = m.ready
         /\ FreeSlot(m, d).cleanup = m.cleanup
         /\ FreeSlot(m, d).current = m.current
         /\ FreeSlot(m, d).halted = m.halted
<1> DEFINE n == FreeSlot(m, d)
<1>1. /\ IsMachine(n)
      /\ n.status = [m.status EXCEPT ![d] = "none"]
      /\ n.ready = m.ready /\ n.cleanup = m.cleanup /\ n.current = m.current
      /\ n.qty = m.qty - 1
      /\ n.priority = [m.priority EXCEPT ![d] = 0]
      /\ n.rounds = [m.rounds EXCEPT ![d] = 0]
      /\ n.dangling = m.dangling /\ n.halted = m.halted
  BY DEF FreeSlot, IsMachine, Typed
<1>2. "none" \in Statuses /\ 0 \in Priorities
  BY SchedulerAssumption DEF Statuses, Priorities
<1> HIDE DEF n
<1>3. Typed(n)
  BY <1>1, <1>2 DEF Typed
<1>4. QED
  BY <1>1, <1>3 DEF n

\* CleanUp keeps what schedule() needs, or halts.
LEMMA CleanUpGood ==
  ASSUME NEW m, Schedulable(m), m.halted = "no"
  PROVE  /\ CleanUp(m).halted \in Halts \ {"idle"}
         /\ CleanUp(m).halted = "no" => /\ Schedulable(CleanUp(m))
                                        /\ CleanUp(m).cleanup = NoPid
<1> DEFINE c == CleanUp(m)
           d == m.cleanup
<1> USE DEF Schedulable, Core
<1>1. Typed(m) /\ IsMachine(m)
  BY DEF Typed
<1>2. CASE d = NoPid \/ m.status[d] = "none"
  <2>1. c = [m EXCEPT !.cleanup = NoPid]
    BY <1>2 DEF CleanUp
  <2>2. /\ IsMachine(c) /\ c.status = m.status /\ c.ready = m.ready
        /\ c.current = m.current /\ c.cleanup = NoPid /\ c.halted = "no"
        /\ c.qty = m.qty /\ c.priority = m.priority /\ c.rounds = m.rounds
        /\ c.dangling = m.dangling
    BY <1>1, <2>1 DEF IsMachine
  <2> HIDE DEF c
  <2>3. Typed(c) /\ Exact(c)
    BY <2>2 DEF Typed, Exact
  <2>4. \A p \in Pids : c.status[p] = "KILLED" => p = c.current
    BY <1>1, <1>2, <2>2 DEF Pids, Typed
  <2>5. c.status[c.current] = "RUNNING" => Leads(c, c.current)
    BY <2>2 DEF Leads
  <2>6. c.cleanup # c.current
    BY <1>1, <2>2 DEF Typed, Pids
  <2>7. Schedulable(c) /\ c.cleanup = NoPid
    BY <2>2, <2>3, <2>4, <2>5, <2>6 
  <2>8. QED
    BY <2>2, <2>7 DEF c, Halts
<1>3. CASE d # NoPid /\ m.status[d] = "BLOCKED"
  <2>1. c = [m EXCEPT !.halted = "links"]
    BY <1>3 DEF CleanUp
  <2>2. c.halted = "links"
    BY <1>1, <2>1 DEF IsMachine
  <2>3. QED
    BY <2>2 DEF Halts, VacantCalls
<1>4. CASE d # NoPid /\ m.status[d] \notin {"none", "BLOCKED"}
  <2> DEFINE b == Bereave(m, d)
  <2>1. SameScheduling(m, b) /\ b.halted \in {"no", "child", "parent"}
    BY <1>1, FamilyOnly
  <2>2. d \in Pids \ {IDLE_PID, SHELL_PID, m.current} /\ m.status[d] \in {"READY", "KILLED"}
    BY <1>1, <1>4 DEF Typed, Statuses
  <2>3. d \in ToSet(m.ready)
    BY <2>2 DEF Exact
  <2> DEFINE place == IF FreeSlot(b, d).dangling = "top" THEN "buried"
                      ELSE FreeSlot(b, d).dangling
  <2>4. c = [FreeSlot(b, d) EXCEPT !.ready = RemoveFirst(@, d), !.cleanup = NoPid,
                                    !.dangling = place]
    BY <1>4 DEF CleanUp, Bereave
  <2> HIDE DEF b, c, d
  <2>5. Typed(b)
    BY <1>1, <2>1 DEF Typed, SameScheduling, Halts
  <2>6. /\ RemoveFirst(m.ready, d) \in Seq(Pids)
        /\ Distinct(RemoveFirst(m.ready, d))
        /\ ToSet(RemoveFirst(m.ready, d)) = ToSet(m.ready) \ {d}
    BY <1>1, <2>3, RemoveMember DEF Exact, Typed
  <2>7. /\ Typed(FreeSlot(b, d))
        /\ FreeSlot(b, d).status = [m.status EXCEPT ![d] = "none"]
        /\ FreeSlot(b, d).ready = m.ready
        /\ FreeSlot(b, d).current = m.current
        /\ FreeSlot(b, d).halted = b.halted
    BY <2>1, <2>2, <2>5, FreeSlotFields DEF SameScheduling
  <2>8. /\ Typed(c)
        /\ c.status = [m.status EXCEPT ![d] = "none"]
        /\ c.ready = RemoveFirst(m.ready, d) /\ c.cleanup = NoPid
        /\ c.current = m.current /\ c.halted = b.halted
    <3>1. place \in {"no", "top", "buried"}
      BY <2>7 DEF Typed
    <3> HIDE DEF place
    <3>2. QED
      BY <2>4, <2>6, <2>7, <3>1 DEF Typed, IsMachine
  <2>9. Exact(c)
    BY <1>1, <2>2, <2>6, <2>8 DEF Exact, Typed
  <2>10. ASSUME c.status[c.current] = "RUNNING"
         PROVE  Leads(c, c.current)
    <3>1. Leads(m, m.current)
      BY <1>1, <2>2, <2>8, <2>10 DEF Typed
    <3>2. \A r \in ToSet(m.ready) \ {d} : c.status[r] = m.status[r]
      BY <1>1, <2>8 DEF Exact, Typed
    <3>3. /\ m.ready \in Seq(Pids) /\ Distinct(m.ready)
          /\ c.ready = RemoveFirst(m.ready, d)
          /\ c.current = m.current /\ d # m.current
      BY <1>1, <2>2, <2>8 DEF Typed, Exact
    <3> HIDE DEF c, d
    <3>4. Leads(c, m.current)
      BY <2>3, <3>1, <3>2, <3>3, RemoveKeepsLead
    <3>5. QED
      BY <3>3, <3>4
  <2>11. \A p \in Pids : p # d => c.status[p] = m.status[p]
    BY <1>1, <2>8 DEF Typed
  <2>12. c.status[d] = "none"
    BY <1>1, <2>2, <2>8 DEF Typed
  <2>13. \A p \in Pids : c.status[p] = "KILLED" => p = c.current
    BY <2>8, <2>11, <2>12 DEF d
  <2>14. \A p \in Pids : c.status[p] = "RUNNING" => p = c.current
    BY <2>8, <2>11, <2>12
  <2>15. c.status[SHELL_PID] \in {"READY", "RUNNING"} /\ c.status[IDLE_PID] = "READY"
    BY <2>2, <2>11, SchedulerAssumption DEF Pids
  <2>16. c.cleanup = NoPid /\ c.cleanup \notin {IDLE_PID, SHELL_PID} /\ c.cleanup # c.current
    BY <1>1, <2>8 DEF Typed, Pids
  <2>17. Schedulable(c)
    BY <2>8, <2>9, <2>10, <2>13, <2>14, <2>15, <2>16
  <2>18. QED
    BY <2>1, <2>8, <2>16, <2>17 DEF c, Halts
<1>5. QED
  BY <1>2, <1>3, <1>4

\* What Preempt hands to switchContext: nobody is RUNNING, and a process that
\* has ended is the one remembered for clean-up.
Idle(m) ==
  /\ Core(m)
  /\ \A p \in Pids : m.status[p] # "RUNNING"
  /\ \A p \in Pids : m.status[p] = "KILLED" => p = m.cleanup
  /\ m.cleanup # NoPid => m.status[m.cleanup] = "KILLED"

\* Preempt keeps the list exact, leaves nobody RUNNING, and remembers the
\* process that ended, if the current one has.
LEMMA PreemptIdles ==
  ASSUME NEW m, Schedulable(m), m.cleanup = NoPid, m.halted = "no"
  PROVE  Idle(Preempt(m)) /\ Preempt(m).halted = "no"
<1> DEFINE n == Preempt(m)
           cur == m.current
<1> USE DEF Schedulable, Core
<1>1. Typed(m) /\ IsMachine(m) /\ cur \in Pids
  BY DEF Typed
<1>2. CASE m.status[cur] = "RUNNING" /\ cur = IDLE_PID
  BY <1>2
<1>3. CASE m.status[cur] = "RUNNING" /\ cur # IDLE_PID
  <2>1. n = [m EXCEPT !.status[cur] = "READY",
                      !.ready = Append(RemoveFirst(@, cur), cur)]
    BY <1>3 DEF Preempt
  <2> DEFINE l == RemoveFirst(m.ready, cur)
  <2>2. cur \in ToSet(m.ready)
    BY <1>1, <1>3 DEF Exact
  <2>3. l \in Seq(Pids) /\ Distinct(l) /\ ToSet(l) = ToSet(m.ready) \ {cur}
    BY <1>1, <2>2, RemoveMember DEF Exact, Typed
  <2> HIDE DEF l
  <2>4. /\ Append(l, cur) \in Seq(Pids)
        /\ Distinct(Append(l, cur))
        /\ ToSet(Append(l, cur)) = ToSet(l) \cup {cur}
    BY <1>1, <2>3, AppendMember
  <2>5. /\ IsMachine(n) /\ n.status = [m.status EXCEPT ![cur] = "READY"]
        /\ n.ready = Append(l, cur)
        /\ n.current = cur /\ n.cleanup = NoPid /\ n.halted = "no"
        /\ n.qty = m.qty /\ n.priority = m.priority /\ n.rounds = m.rounds
        /\ n.dangling = m.dangling
    BY <1>1, <2>1 DEF IsMachine, l
  <2> HIDE DEF n
  <2>6. "READY" \in Statuses
    BY DEF Statuses
  <2>7. Typed(n)
    BY <1>1, <2>4, <2>5, <2>6 DEF Typed
  <2>8. \A p \in Pids : n.status[p] = IF p = cur THEN "READY" ELSE m.status[p]
    BY <1>1, <2>5 DEF Typed
  <2>9. Exact(n)
    BY <1>1, <1>3, <2>2, <2>3, <2>4, <2>5, <2>8 DEF Exact
  <2>10. SHELL_PID \in Pids /\ IDLE_PID \in Pids
    BY SchedulerAssumption DEF Pids
  <2>11. /\ n.status[SHELL_PID] \in {"READY", "RUNNING"} /\ n.status[IDLE_PID] = "READY"
         /\ \A p \in Pids : n.status[p] \notin {"RUNNING", "KILLED"}
    BY <1>1, <1>3, <2>8, <2>10 DEF Typed, Pids
  <2>12. QED
    BY <2>5, <2>7, <2>9, <2>11 DEF Idle, n
<1>4. CASE m.status[cur] = "KILLED"
  <2>1. n = [m EXCEPT !.cleanup = cur]
    BY <1>4 DEF Preempt
  <2>2. /\ IsMachine(n) /\ n.status = m.status /\ n.ready = m.ready
        /\ n.current = cur /\ n.cleanup = cur /\ n.halted = "no"
        /\ n.qty = m.qty /\ n.priority = m.priority /\ n.rounds = m.rounds
        /\ n.dangling = m.dangling
    BY <1>1, <2>1 DEF IsMachine
  <2> HIDE DEF n
  <2>3. Typed(n) /\ Exact(n)
    BY <1>1, <2>2 DEF Typed, Exact
  <2>4. \A p \in Pids : /\ n.status[p] # "RUNNING"
                         /\ n.status[p] = "KILLED" => p = cur
    BY <1>4, <2>2 DEF Pids
  <2>5. QED
    BY <1>4, <2>2, <2>3, <2>4 DEF Idle, n
<1>5. CASE m.status[cur] \notin {"RUNNING", "KILLED"}
  <2>1. n = m
    BY <1>5 DEF Preempt
  <2>2. \A p \in Pids : m.status[p] \notin {"RUNNING", "KILLED"}
    BY <1>5 DEF Pids
  <2>3. QED
    BY <2>1, <2>2 DEF Idle
<1>6. QED
  BY <1>2, <1>3, <1>4, <1>5

\* The process switched to is the one that leads the list, never the idle one.
LEMMA SwitchSound ==
  ASSUME NEW m, Idle(m), m.halted = "no"
  PROVE  /\ switchContext(m, getNextProcess(m)).halted = "no"
         /\ Sound(switchContext(m, getNextProcess(m)))
<1> USE DEF Idle, Core
<1>1. Typed(m) /\ IsMachine(m)
  BY DEF Typed
<1>2. SHELL_PID \in ToSet(m.ready) /\ m.status[SHELL_PID] # "KILLED"
  BY SchedulerAssumption DEF Exact, Pids
<1>3. PICK q \in ToSet(m.ready) : Leads(m, q)
  BY <1>1, <1>2, SomeoneLeads DEF Typed
<1>4. getNextProcess(m) = q
  BY <1>1, <1>3, NextProcessLeads DEF Typed
<1>5. q \in Pids \ {IDLE_PID} /\ m.status[q] = "READY"
  BY <1>3 DEF Exact, Leads
<1> DEFINE n == switchContext(m, q)
<1>6. n = [m EXCEPT !.rounds[q] = m.priority[q], !.status[q] = "RUNNING", !.current = q]
  BY <1>5 DEF switchContext
<1>7. /\ IsMachine(n)
      /\ n.status = [m.status EXCEPT ![q] = "RUNNING"]
      /\ n.rounds = [m.rounds EXCEPT ![q] = m.priority[q]]
      /\ n.current = q /\ n.ready = m.ready /\ n.cleanup = m.cleanup
      /\ n.qty = m.qty /\ n.priority = m.priority
      /\ n.dangling = m.dangling /\ n.halted = "no"
  BY <1>1, <1>6 DEF IsMachine
<1> HIDE DEF n
<1>8. "RUNNING" \in Statuses
  BY DEF Statuses
<1>9. Typed(n)
  BY <1>1, <1>5, <1>7, <1>8 DEF Typed
<1>10. \A p \in Pids : n.status[p] = IF p = q THEN "RUNNING" ELSE m.status[p]
  BY <1>1, <1>7 DEF Typed
<1>11. Exact(n)
  BY <1>5, <1>7, <1>10 DEF Exact
<1>12. Leads(n, q)
  <2>1. \A r \in ToSet(m.ready) : n.status[r] = "KILLED" <=> m.status[r] = "KILLED"
    BY <1>5, <1>10 DEF Exact
  <2>2. m.ready \in Seq(Pids) /\ n.ready = m.ready /\ Leads(m, q)
    BY <1>1, <1>3, <1>7 DEF Typed
  <2>3. QED
    BY <2>1, <2>2, SameListSameLead, Zenon
<1>13. /\ n.status[SHELL_PID] \in {"READY", "RUNNING"} /\ n.status[IDLE_PID] = "READY"
       /\ SHELL_PID \in Pids
  BY <1>5, <1>10, SchedulerAssumption DEF Pids
<1>14. \A p \in Pids : /\ n.status[p] = "RUNNING" => p = q
                       /\ n.status[p] = "KILLED" => p = n.cleanup
  BY <1>7, <1>10
<1>15. n.cleanup # q /\ n.status[q] = "RUNNING"
  BY <1>1, <1>5, <1>7, <1>10 DEF Typed, Pids
<1>16. Sound(n)
  BY <1>7, <1>9, <1>11, <1>12, <1>13, <1>14, <1>15 DEF Sound, Schedulable
<1>17. QED
  BY <1>4, <1>7, <1>16 DEF n

\* Reschedule, given the machine CleanUp leaves, yields a good machine.
LEMMA RescheduleGood ==
  ASSUME NEW m, Schedulable(m), m.cleanup = NoPid, m.halted = "no"
  PROVE  Good(Reschedule(m))
<1> USE DEF Schedulable, Core
<1>1. Typed(m) /\ IsMachine(m)
  BY DEF Typed
<1>2. m.ready # <<>>
  <2>1. SHELL_PID \in ToSet(m.ready)
    BY SchedulerAssumption DEF Exact, Pids
  <2>2. QED
    BY <2>1 DEF ToSet
<1>3. CASE m.status[m.current] = "RUNNING" /\ m.rounds[m.current] > 0
  <2> DEFINE n == [m EXCEPT !.rounds[m.current] = @ - 1]
  <2>1. Reschedule(m) = n
    BY <1>2, <1>3 DEF Reschedule
  <2>2. /\ IsMachine(n) /\ n.status = m.status /\ n.ready = m.ready
        /\ n.current = m.current /\ n.cleanup = m.cleanup /\ n.halted = "no"
        /\ n.qty = m.qty /\ n.priority = m.priority /\ n.dangling = m.dangling
        /\ n.rounds = [m.rounds EXCEPT ![m.current] = m.rounds[m.current] - 1]
    BY <1>1 DEF IsMachine
  <2> HIDE DEF n
  <2>3. m.rounds[m.current] - 1 \in Priorities
    <3>1. m.rounds[m.current] \in Priorities /\ m.rounds[m.current] > 0
      BY <1>1, <1>3 DEF Typed
    <3>2. QED
      BY <3>1, SchedulerAssumption DEF Priorities
  <2>4. Typed(n) /\ Exact(n)
    <3>1. n.rounds \in [Pids -> Priorities]
      BY <1>1, <2>2, <2>3 DEF Typed
    <3>2. Typed(n)
      BY <1>1, <2>2, <3>1 DEF Typed
    <3>3. Exact(n)
      BY <2>2 DEF Exact
    <3>4. QED
      BY <3>2, <3>3
  <2>5. Leads(n, n.current)
    BY <1>3, <2>2 DEF Leads
  <2>6. Sound(n)
    BY <1>3, <2>2, <2>4, <2>5 DEF Sound
  <2>7. QED
    BY <2>1, <2>2, <2>6 DEF Good, Halts
<1>4. CASE ~(m.status[m.current] = "RUNNING" /\ m.rounds[m.current] > 0)
  <2>1. Reschedule(m) = switchContext(Preempt(m), getNextProcess(Preempt(m)))
    BY <1>2, <1>4 DEF Reschedule
  <2>2. Idle(Preempt(m)) /\ Preempt(m).halted = "no"
    BY PreemptIdles
  <2>3. /\ Reschedule(m).halted = "no"
        /\ Sound(Reschedule(m))
    BY <2>1, <2>2, SwitchSound
  <2>4. QED
    BY <2>3 DEF Good, Halts
<1>5. QED
  BY <1>3, <1>4

\* schedule() as a whole: from anything a handler may hand it to a good machine.
LEMMA ScheduleGood ==
  ASSUME NEW m, m.halted \in Halts \ {"idle"}, m.halted = "no" => Schedulable(m)
  PROVE  Good(schedule(m))
<1>1. CASE m.halted # "no"
  BY <1>1 DEF schedule, Good
<1>2. CASE m.halted = "no" /\ CleanUp(m).halted # "no"
  <2>1. schedule(m) = CleanUp(m)
    BY <1>2 DEF schedule
  <2>2. CleanUp(m).halted \in Halts \ {"idle"}
    BY <1>2, CleanUpGood
  <2>3. QED
    BY <1>2, <2>1, <2>2 DEF Good
<1>3. CASE m.halted = "no" /\ CleanUp(m).halted = "no"
  <2>1. schedule(m) = Reschedule(CleanUp(m))
    BY <1>3 DEF schedule
  <2>2. Schedulable(CleanUp(m)) /\ CleanUp(m).cleanup = NoPid
    BY <1>3, CleanUpGood
  <2>3. QED
    BY <1>3, <2>1, <2>2, RescheduleGood
<1>4. QED
  BY <1>1, <1>2, <1>3

-----------------------------------------------------------------------------
(***************************************************************************)
(* The slots that are in use.                                              *)
(***************************************************************************)

Occupied(m) == {p \in Pids : m.status[p] # "none"}

\* The slot of p is emptied and counted, if it was in use, and no other.
Frees(m, n, p) ==
  /\ Occupied(n) = Occupied(m) \ {p}
  /\ n.qty = IF p \in Occupied(m) THEN m.qty - 1 ELSE m.qty

\* What giving blocks back does to a freed node that is still linked.
Covers(m, n, p) ==
  n.dangling = IF p \in Occupied(m) /\ m.dangling = "top" THEN "buried" ELSE m.dangling

\* The clean-up frees the process it is meant for, or nobody.
LEMMA CleanUpFrees ==
  ASSUME NEW m, Schedulable(m), m.halted = "no", CleanUp(m).halted = "no"
  PROVE  Frees(m, CleanUp(m), m.cleanup) /\ Covers(m, CleanUp(m), m.cleanup)
<1> DEFINE d == m.cleanup
<1>1. Typed(m) /\ IsMachine(m) /\ NoPid \notin Pids
  BY SchedulerAssumption DEF Schedulable, Core, Typed, Pids
<1>2. CASE d = NoPid \/ m.status[d] = "none"
  <2>1. CleanUp(m).status = m.status /\ CleanUp(m).qty = m.qty
        /\ CleanUp(m).dangling = m.dangling
    BY <1>1, <1>2 DEF CleanUp, IsMachine
  <2>2. d \notin Occupied(m)
    BY <1>1, <1>2 DEF Occupied
  <2>3. QED
    BY <2>1, <2>2 DEF Frees, Covers, Occupied
<1>3. CASE d # NoPid /\ m.status[d] # "none"
  <2> DEFINE b == Bereave(m, d)
             f == FreeSlot(b, d)
             n == [f EXCEPT !.ready = RemoveFirst(@, d), !.cleanup = NoPid,
                            !.dangling = IF @ = "top" THEN "buried" ELSE @]
  <2>1. CleanUp(m) = n
    BY <1>3 DEF CleanUp, Bereave, Halts
  <2>2. SameScheduling(m, b)
    BY <1>1, FamilyOnly
  <2> HIDE DEF b
  <2>3. /\ IsMachine(f) /\ f.status = [m.status EXCEPT ![d] = "none"]
        /\ f.qty = m.qty - 1 /\ f.dangling = m.dangling
    BY <2>2 DEF FreeSlot, SameScheduling, IsMachine
  <2> HIDE DEF f
  <2>4. /\ n.status = f.status /\ n.qty = f.qty
        /\ n.dangling = IF f.dangling = "top" THEN "buried" ELSE f.dangling
    BY <2>3 DEF IsMachine
  <2> HIDE DEF n
  <2>5. d \in Pids /\ d \in Occupied(m)
    BY <1>1, <1>3 DEF Typed, Occupied
  <2>6. \A p \in Pids : n.status[p] = IF p = d THEN "none" ELSE m.status[p]
    BY <1>1, <2>3, <2>4 DEF Typed
  <2>7. Occupied(n) = Occupied(m) \ {d}
    BY <2>6 DEF Occupied
  <2>8. QED
    BY <2>1, <2>3, <2>4, <2>5, <2>7 DEF Frees, Covers
<1>4. QED
  BY <1>2, <1>3

\* A switch frees and creates nobody.
LEMMA RescheduleKeeps ==
  ASSUME NEW m, Typed(m), m.halted = "no", Reschedule(m).halted = "no"
  PROVE  /\ Occupied(Reschedule(m)) = Occupied(m)
         /\ Reschedule(m).qty = m.qty /\ Reschedule(m).dangling = m.dangling
<1> DEFINE p == Preempt(m)
           q == getNextProcess(p)
           n == switchContext(p, q)
<1>1. IsMachine(m) /\ m.status \in [Pids -> Statuses] /\ m.current \in Pids
  BY DEF Typed
<1>2. m.ready # <<>>
  BY <1>1 DEF Reschedule, IsMachine
<1>3. CASE m.status[m.current] = "RUNNING" /\ m.rounds[m.current] > 0
  <2>1. Reschedule(m) = [m EXCEPT !.rounds[m.current] = @ - 1]
    BY <1>2, <1>3 DEF Reschedule
  <2>2. /\ Reschedule(m).status = m.status /\ Reschedule(m).qty = m.qty
        /\ Reschedule(m).dangling = m.dangling
    BY <1>1, <2>1 DEF IsMachine
  <2>3. QED
    BY <2>2 DEF Occupied
<1>4. CASE ~(m.status[m.current] = "RUNNING" /\ m.rounds[m.current] > 0)
  <2>1. Reschedule(m) = n
    BY <1>2, <1>4 DEF Reschedule
  <2>2. /\ IsMachine(p) /\ p.qty = m.qty /\ p.dangling = m.dangling
        /\ \/ p.status = m.status
           \/ m.status[m.current] = "RUNNING" /\ p.status = [m.status EXCEPT ![m.current] = "READY"]
    BY <1>1 DEF Preempt, IsMachine
  <2> HIDE DEF p
  <2>3. /\ \A r \in Pids : p.status[r] = "none" <=> m.status[r] = "none"
        /\ DOMAIN p.status = Pids
    BY <1>1, <2>2
  <2> HIDE DEF q
  <2>4. p.status[q] # "none"
    BY <2>1, <2>2 DEF switchContext, IsMachine
  <2>5. /\ n.status = [p.status EXCEPT ![q] = "RUNNING"]
        /\ n.qty = p.qty /\ n.dangling = p.dangling
    BY <2>2, <2>4 DEF switchContext, IsMachine
  <2>6. \A r \in Pids : n.status[r] = "none" <=> m.status[r] = "none"
    BY <2>3, <2>4, <2>5
  <2>7. QED
    BY <2>1, <2>2, <2>5, <2>6 DEF Occupied
<1>5. QED
  BY <1>3, <1>4

\* schedule() frees the process the clean-up is meant for, or nobody.
LEMMA ScheduleFrees ==
  ASSUME NEW m, Schedulable(m), m.halted = "no", schedule(m).halted = "no"
  PROVE  Frees(m, schedule(m), m.cleanup) /\ Covers(m, schedule(m), m.cleanup)
<1> DEFINE c == CleanUp(m)
<1>1. schedule(m) = IF c.halted # "no" THEN c ELSE Reschedule(c)
  BY DEF schedule
<1>2. c.halted = "no" /\ schedule(m) = Reschedule(c)
  BY <1>1
<1>3. Frees(m, c, m.cleanup) /\ Covers(m, c, m.cleanup) /\ Typed(c)
  BY <1>2, CleanUpFrees, CleanUpGood DEF Schedulable, Core
<1> HIDE DEF c
<1>4. /\ Occupied(Reschedule(c)) = Occupied(c)
      /\ Reschedule(c).qty = c.qty /\ Reschedule(c).dangling = c.dangling
  BY <1>2, <1>3, RescheduleKeeps
<1>5. QED
  BY <1>2, <1>3, <1>4 DEF Frees, Covers

-----------------------------------------------------------------------------
(***************************************************************************)
(* From machines to variables.                                             *)
(***************************************************************************)

\* A step whose outcome is a good machine keeps the invariant.
LEMMA BecomeSound ==
  ASSUME NEW m, IInv, Good(m), Become(m)
  PROVE  IInv'
<1>1. CASE m.halted = "no"
  <2>1. Sound(m)
    BY <1>1 DEF Good
  <2>2. /\ Machine'.status = m.status /\ Machine'.ready = m.ready
        /\ Machine'.current = m.current /\ Machine'.cleanup = m.cleanup
        /\ Machine'.qty = m.qty /\ Machine'.priority = m.priority
        /\ Machine'.rounds = m.rounds /\ Machine'.dangling = m.dangling
        /\ Machine'.halted = m.halted
        /\ IsMachine(Machine')
    BY <1>1 DEF Become, Machine, IsMachine
  <2> QED
    BY <2>1, <2>2 DEF IInv, Sound, Schedulable, Core, Typed, Exact, Leads
<1>2. CASE m.halted # "no"
  <2>2. /\ Machine'.status = Machine.status /\ Machine'.ready = Machine.ready
        /\ Machine'.current = Machine.current /\ Machine'.cleanup = Machine.cleanup
        /\ Machine'.qty = Machine.qty /\ Machine'.priority = Machine.priority
        /\ Machine'.rounds = Machine.rounds /\ Machine'.dangling = Machine.dangling
        /\ Machine'.halted \in Halts \ {"idle"}
        /\ IsMachine(Machine')
    BY <1>2 DEF Become, Machine, IsMachine, Good
  <2> QED
    BY <2>2 DEF IInv, Sound, Schedulable, Core, Typed, Exact, Leads
<1>3. QED
  BY <1>1, <1>2

-----------------------------------------------------------------------------
(***************************************************************************)
(* The actions.                                                            *)
(***************************************************************************)

\* n differs from m in what no process's place depends on: families, priorities,
\* ticks left, a freed node and the reason of a fault.
LEMMA SameSound ==
  ASSUME NEW m, Sound(m), NEW n, IsMachine(n),
         n.status = m.status, n.ready = m.ready, n.current = m.current,
         n.cleanup = m.cleanup, n.qty = m.qty,
         n.rounds \in [Pids -> Priorities], n.dangling \in {"no", "top", "buried"},
         n.priority \in [Pids -> Priorities], n.halted \in Halts \ {"idle"}
  PROVE  Sound(n)
BY DEF Sound, Schedulable, Core, Typed, Exact, Leads

\* What each field of Machine is.
LEMMA MachineFields ==
  /\ IsMachine(Machine)
  /\ Machine.status = status /\ Machine.ready = readyList
  /\ Machine.current = currentPID /\ Machine.cleanup = toCleanupPID
  /\ Machine.qty = processQty /\ Machine.parent = parentPID
  /\ Machine.children = children /\ Machine.priority = priority
  /\ Machine.rounds = roundsLeft /\ Machine.dangling = dangling
  /\ Machine.halted = halted
BY DEF Machine, IsMachine

\* The types the invariant gives the variables.
LEMMA VariablesTyped ==
  ASSUME IInv
  PROVE  /\ status \in [Pids -> Statuses] /\ readyList \in Seq(Pids)
         /\ currentPID \in Pids /\ toCleanupPID \in Pids \cup {NoPid}
         /\ processQty \in Int /\ priority \in [Pids -> Priorities]
         /\ roundsLeft \in [Pids -> Priorities]
         /\ dangling \in {"no", "top", "buried"} /\ halted \in Halts \ {"idle"}
BY MachineFields DEF IInv, Sound, Schedulable, Core, Typed

\* The machine main() leaves behind is sound.
LEMMA InitSound == Init => IInv
<1> SUFFICES ASSUME Init PROVE Sound(Machine)
  BY DEF IInv
<1> USE MachineFields, SchedulerAssumption DEF Init
<1>1. /\ IDLE_PID \in Pids /\ SHELL_PID \in Pids /\ 0 \in Priorities
      /\ HighestPriority \in Priorities
  BY DEF Pids, Priorities
<1>2. Typed(Machine)
  BY <1>1 DEF Typed, Statuses, Halts
<1>3. Exact(Machine)
  BY <1>1 DEF Exact, Distinct, ToSet
<1>4. QED
  BY <1>1, <1>2, <1>3 DEF Sound, Schedulable, Core, Pids

Waiting(m) == {p \in Pids : m.status[p] = "READY"}

\* What a handler that gives up the processor hands to schedule(): the caller
\* may have ended, but no slot has been emptied or filled yet and the processes
\* that wait have kept their order.
HandsOver(n) ==
  /\ Typed(n)
  /\ Schedulable(n)
  /\ Occupied(n) = Occupied(Machine)
  /\ Waiting(Machine) \subseteq Waiting(n)
  /\ KeepsOrder(readyList, n.ready, Waiting(Machine))
  /\ n.cleanup = toCleanupPID /\ n.qty = processQty /\ n.dangling = dangling

\* The three handlers and the timer interrupt end in the same way.
LEMMA HandedSound ==
  ASSUME IInv, NEW n, HandsOver(n), Become(schedule(n))
  PROVE  IInv'
<1>1. Good(schedule(n))
  BY ScheduleGood DEF HandsOver, Typed
<1>2. QED
  BY <1>1, BecomeSound

\* A timer interrupt hands over the machine as it is.
LEMMA TickHandsOver == ASSUME IInv, Tick PROVE \E n : HandsOver(n) /\ Become(schedule(n))
<1>1. HandsOver(Machine)
  BY MachineFields DEF HandsOver, IInv, Sound, Schedulable, Core, KeepsOrder
<1>2. QED
  BY <1>1 DEF Tick

\* A free slot is chosen, the lowest.
LEMMA AvailablePid ==
  ASSUME FreePids # {}
  PROVE  availablePidValue \in Pids /\ status[availablePidValue] = "none"
<1>1. FreePids \in SUBSET Nat
  BY SchedulerAssumption DEF FreePids, Pids
<1>2. \E p \in FreePids : \A q \in FreePids : p <= q
  BY <1>1, MinIsLeast
<1>3. availablePidValue \in FreePids
  BY <1>2 DEF availablePidValue
<1>4. QED
  BY <1>3 DEF FreePids

\* What the caller of a system call is.
LEMMA CallerRuns ==
  ASSUME IInv, NEW call, Issues(call)
  PROVE  /\ halted = "no" /\ currentPID \in Pids \ {IDLE_PID}
         /\ status[currentPID] = "RUNNING"
         /\ Leads(Machine, currentPID)
         /\ toCleanupPID # currentPID
BY MachineFields DEF IInv, Sound, Schedulable, Core, Typed, Issues

\* A creation fills a free slot and puts its node at the tail of the list.
LEMMA CreateSound == ASSUME IInv, NEW prio \in Priorities, Create(prio) PROVE IInv'
<1> DEFINE pid == availablePidValue
<1>1. PICK d \in AfterAllocation :
        Become([Machine EXCEPT
          !.dangling = d,
          !.status[pid] = "READY", !.ready = Append(@, pid), !.qty = @ + 1,
          !.parent[pid] = currentPID, !.children = AddChildren,
          !.priority[pid] = prio, !.rounds[pid] = 0])
  BY DEF Create
<1> DEFINE n == [Machine EXCEPT
          !.dangling = d,
          !.status[pid] = "READY", !.ready = Append(@, pid), !.qty = @ + 1,
          !.parent[pid] = currentPID, !.children = AddChildren,
          !.priority[pid] = prio, !.rounds[pid] = 0]
<1>2. pid \in Pids /\ status[pid] = "none"
  BY AvailablePid DEF Create, CanCreate
<1> HIDE DEF pid
<1>3. Sound(Machine) /\ Schedulable(Machine) /\ Core(Machine) /\ Typed(Machine) /\ Exact(Machine)
  BY DEF IInv, Sound, Schedulable, Core
<1>4. /\ halted = "no" /\ currentPID \in Pids \ {IDLE_PID}
      /\ status[currentPID] = "RUNNING" /\ Leads(Machine, currentPID)
      /\ toCleanupPID # currentPID
  BY CallerRuns DEF Create
<1>5. /\ IsMachine(n)
      /\ n.status = [status EXCEPT ![pid] = "READY"]
      /\ n.ready = Append(readyList, pid) /\ n.qty = processQty + 1
      /\ n.priority = [priority EXCEPT ![pid] = prio]
      /\ n.rounds = [roundsLeft EXCEPT ![pid] = 0]
      /\ n.dangling = d /\ n.current = currentPID /\ n.cleanup = toCleanupPID
      /\ n.halted = "no"
  BY <1>4, MachineFields DEF IsMachine
<1>6. d \in {"no", "top", "buried"}
  BY <1>3, MachineFields DEF AfterAllocation, Typed
<1> HIDE DEF n
<1>7. pid \notin {IDLE_PID, SHELL_PID, currentPID} /\ pid \notin ToSet(readyList)
  BY <1>2, <1>3, <1>4, MachineFields DEF Core, Exact
<1>8. readyList \in Seq(Pids) /\ Distinct(readyList)
  BY <1>3, MachineFields DEF Typed, Exact
<1>9. /\ Append(readyList, pid) \in Seq(Pids)
      /\ Distinct(Append(readyList, pid))
      /\ ToSet(Append(readyList, pid)) = ToSet(readyList) \cup {pid}
  BY <1>2, <1>7, <1>8, AppendMember
<1>10. "READY" \in Statuses /\ 0 \in Priorities
  BY SchedulerAssumption DEF Statuses, Priorities
<1>11. Typed(n)
  <2>1. n.status \in [Pids -> Statuses] /\ n.rounds \in [Pids -> Priorities]
    BY <1>2, <1>5, <1>10, VariablesTyped
  <2>2. n.priority \in [Pids -> Priorities] /\ n.qty \in Int
    BY <1>2, <1>5, VariablesTyped
  <2>3. n.current \in Pids /\ n.cleanup \in Pids \cup {NoPid} /\ n.halted \in Halts \ {"idle"}
    BY <1>5, VariablesTyped DEF Halts
  <2>4. QED
    BY <1>5, <1>6, <1>9, <2>1, <2>2, <2>3 DEF Typed
<1>12. \A p \in Pids : n.status[p] = IF p = pid THEN "READY" ELSE status[p]
  BY <1>3, <1>5, MachineFields DEF Typed
<1>13. Exact(n)
  BY <1>2, <1>3, <1>5, <1>7, <1>9, <1>12, MachineFields DEF Exact
<1>14. Leads(n, currentPID)
  <2>1. \A r \in ToSet(Machine.ready) : n.status[r] = Machine.status[r]
    BY <1>3, <1>7, <1>12, MachineFields DEF Exact
  <2>2. Machine.ready \in Seq(Pids) /\ n.ready = Append(Machine.ready, pid)
    BY <1>5, <1>8, MachineFields
  <2>3. QED
    BY <1>2, <1>4, <2>1, <2>2, AppendKeepsLead
<1>15. SHELL_PID \in Pids /\ IDLE_PID \in Pids
  BY SchedulerAssumption DEF Pids
<1>16. Sound(n)
  BY <1>3, <1>4, <1>5, <1>7, <1>11, <1>12, <1>13, <1>14, <1>15, MachineFields
  DEF Sound, Schedulable, Core
<1>17. Good(n)
  BY <1>5, <1>16 DEF Good, Halts
<1>18. QED
  BY <1>1, <1>17, BecomeSound DEF n

\* A creation that runs out of memory touches the caller's family only.
LEMMA CreateWithoutNodeSound == ASSUME IInv, CreateWithoutNode PROVE IInv'
<1> DEFINE n == [Machine EXCEPT !.children = AddChildren]
<1>1. /\ IsMachine(n)
      /\ n.status = Machine.status /\ n.ready = Machine.ready
      /\ n.current = Machine.current /\ n.cleanup = Machine.cleanup
      /\ n.qty = Machine.qty /\ n.rounds = Machine.rounds
      /\ n.dangling = Machine.dangling /\ n.priority = Machine.priority
      /\ n.halted = Machine.halted
  BY MachineFields DEF IsMachine
<1> HIDE DEF n
<1>2. /\ Machine.priority \in [Pids -> Priorities] /\ Machine.halted \in Halts \ {"idle"}
      /\ Machine.rounds \in [Pids -> Priorities]
      /\ Machine.dangling \in {"no", "top", "buried"}
  BY DEF IInv, Sound, Schedulable, Core, Typed
<1>3. Sound(n)
  BY <1>1, <1>2, SameSound DEF IInv
<1>4. Good(n)
  BY <1>1, <1>2, <1>3 DEF Good
<1>5. QED
  BY <1>4, BecomeSound DEF n, CreateWithoutNode

\* The caller marks itself KILLED or BLOCKED (and, if BLOCKED, leaves the
\* list) before the tick it forces.
LEMMA MarkedCaller ==
  ASSUME IInv, NEW call, Issues(call), currentPID # SHELL_PID,
         NEW n, Typed(n), NEW st \in {"KILLED", "BLOCKED"},
         n.status = [status EXCEPT ![currentPID] = st],
         n.ready = IF st = "BLOCKED" THEN RemoveFirst(readyList, currentPID) ELSE readyList,
         n.current = currentPID, n.cleanup = toCleanupPID
  PROVE  Schedulable(n)
<1> DEFINE cur == currentPID
<1>1. /\ cur \in Pids \ {IDLE_PID, SHELL_PID} /\ status[cur] = "RUNNING"
      /\ toCleanupPID # cur
  BY CallerRuns
<1>2. Core(Machine) /\ Exact(Machine) /\ Schedulable(Machine)
  BY DEF IInv, Sound, Schedulable, Core
<1>3. \A p \in Pids : n.status[p] = IF p = cur THEN st ELSE status[p]
  BY VariablesTyped
<1>4. cur \in ToSet(readyList) /\ Distinct(readyList) /\ readyList \in Seq(Pids)
  BY <1>1, <1>2, VariablesTyped, MachineFields DEF Exact
<1>5. Exact(n)
  <2>1. CASE st = "KILLED"
    BY <1>1, <1>2, <1>3, <1>4, <2>1, MachineFields DEF Exact
  <2>2. CASE st = "BLOCKED"
    <3>1. /\ Distinct(n.ready)
          /\ ToSet(n.ready) = ToSet(readyList) \ {cur}
      BY <1>4, <2>2, RemoveMember
    <3>2. QED
      BY <1>1, <1>2, <1>3, <2>2, <3>1, MachineFields DEF Exact
  <2>3. QED
    BY <2>1, <2>2
<1>6. SHELL_PID \in Pids /\ IDLE_PID \in Pids
  BY SchedulerAssumption DEF Pids
<1>7. /\ \A p \in Pids : n.status[p] # "RUNNING"
      /\ n.status[SHELL_PID] \in {"READY", "RUNNING"}
      /\ n.status[IDLE_PID] = "READY"
      /\ n.cleanup \notin {IDLE_PID, SHELL_PID, cur}
  BY <1>1, <1>2, <1>3, <1>6, MachineFields DEF Core
<1>8. \A p \in Pids : n.status[p] = "KILLED" => p \in {n.cleanup, cur}
  BY <1>2, <1>3, MachineFields DEF Schedulable
<1>9. QED
  BY <1>1, <1>5, <1>7, <1>8 DEF Schedulable, Core

\* The slot of a caller that is marked stays in use.
LEMMA MarkedOccupied ==
  ASSUME IInv, status[currentPID] # "none", NEW n, NEW st \in {"KILLED", "BLOCKED"},
         n.status = [status EXCEPT ![currentPID] = st]
  PROVE  Occupied(n) = Occupied(Machine)
<1>1. \A p \in Pids : n.status[p] = IF p = currentPID THEN st ELSE status[p]
  BY VariablesTyped
<1>2. QED
  BY <1>1, MachineFields DEF Occupied

\* The processes that wait are not the caller, and none is overtaken.
LEMMA MarkedWaiting ==
  ASSUME IInv, NEW call, Issues(call), NEW n, NEW st \in {"KILLED", "BLOCKED"},
         n.status = [status EXCEPT ![currentPID] = st],
         n.ready = IF st = "BLOCKED" THEN RemoveFirst(readyList, currentPID) ELSE readyList
  PROVE  /\ Waiting(Machine) \subseteq Waiting(n)
         /\ KeepsOrder(readyList, n.ready, Waiting(Machine))
<1>1. currentPID \in Pids \ {IDLE_PID} /\ status[currentPID] = "RUNNING"
  BY CallerRuns
<1>2. \A p \in Pids : p # currentPID => n.status[p] = status[p]
  BY VariablesTyped
<1>3. currentPID \notin Waiting(Machine) /\ Waiting(Machine) \subseteq Waiting(n)
  BY <1>1, <1>2, MachineFields DEF Waiting
<1>4. currentPID \in ToSet(readyList) /\ Distinct(readyList) /\ readyList \in Seq(Pids)
  BY <1>1, VariablesTyped, MachineFields DEF IInv, Sound, Schedulable, Core, Exact
<1>5. KeepsOrder(readyList, n.ready, Waiting(Machine))
  <2>1. CASE st = "BLOCKED"
    BY <1>3, <1>4, <2>1, RemoveKeepsOrder
  <2>2. CASE st # "BLOCKED"
    BY <2>2 DEF KeepsOrder
  <2>3. QED
    BY <2>1, <2>2
<1>6. QED
  BY <1>3, <1>5

\* The exit of a process.
LEMMA ExitHandsOver == ASSUME IInv, Exit PROVE \E n : HandsOver(n) /\ Become(schedule(n))
<1> DEFINE cur == currentPID
           n == [[Machine EXCEPT !.status[currentPID] = "KILLED"]
                   EXCEPT !.rounds[currentPID] = 0]
<1>1. Become(schedule(n))
  <2> DEFINE k == [Machine EXCEPT !.status[currentPID] = "KILLED"]
  <2>1. k.current = currentPID
    BY MachineFields DEF IsMachine
  <2>2. QED
    BY <2>1 DEF Exit, yield
<1>2. /\ IsMachine(n)
      /\ n.status = [status EXCEPT ![cur] = "KILLED"]
      /\ n.rounds = [roundsLeft EXCEPT ![cur] = 0]
      /\ n.ready = readyList /\ n.current = cur /\ n.cleanup = toCleanupPID
      /\ n.qty = processQty /\ n.priority = priority /\ n.dangling = dangling
      /\ n.halted = halted
  BY MachineFields DEF IsMachine
<1> HIDE DEF n
<1>3. "KILLED" \in Statuses /\ 0 \in Priorities /\ cur \in Pids
  BY VariablesTyped, SchedulerAssumption DEF Statuses, Priorities
<1>4. Typed(n)
  BY <1>2, <1>3, VariablesTyped DEF Typed
<1>5. Schedulable(n)
  BY <1>2, <1>4, MarkedCaller DEF Exit
<1>6. Occupied(n) = Occupied(Machine)
  BY <1>2, MarkedOccupied, CallerRuns DEF Exit
<1>7. /\ Waiting(Machine) \subseteq Waiting(n)
      /\ KeepsOrder(readyList, n.ready, Waiting(Machine))
  BY <1>2, MarkedWaiting DEF Exit
<1>8. HandsOver(n)
  BY <1>2, <1>4, <1>5, <1>6, <1>7 DEF HandsOver
<1>9. QED
  BY <1>1, <1>8

\* A kill of oneself settles the family, which may halt, and ends as an exit.
LEMMA KillSelfHandsOver ==
  ASSUME IInv, NEW pid \in Pids, KillSelf(pid)
  PROVE  \E n : HandsOver(n) /\ Become(schedule(n))
<1> DEFINE b == Bereave(Machine, pid)
           n == [b EXCEPT !.status[pid] = "KILLED"]
<1>1. Become(schedule(n)) /\ Issues("kill") /\ pid \notin {IDLE_PID, SHELL_PID}
  BY DEF KillSelf
<1>2. pid = currentPID
  BY MachineFields DEF KillSelf, IInv, Sound, Schedulable, Core
<1>3. SameScheduling(Machine, b) /\ b.halted \in {"no", "child", "parent"}
  BY <1>1, FamilyOnly, MachineFields DEF Issues
<1> HIDE DEF b
<1>4. /\ IsMachine(n)
      /\ n.status = [status EXCEPT ![pid] = "KILLED"]
      /\ n.ready = readyList /\ n.current = currentPID /\ n.cleanup = toCleanupPID
      /\ n.qty = processQty /\ n.priority = priority /\ n.dangling = dangling
      /\ n.rounds = roundsLeft /\ n.halted = b.halted
  BY <1>3, MachineFields DEF IsMachine, SameScheduling
<1> HIDE DEF n
<1>5. "KILLED" \in Statuses /\ b.halted \in Halts \ {"idle"}
  BY <1>3 DEF Statuses, Halts
<1>6. Typed(n)
  BY <1>4, <1>5, VariablesTyped DEF Typed
<1>7. Schedulable(n)
  BY <1>1, <1>2, <1>4, <1>6, MarkedCaller
<1>8. Occupied(n) = Occupied(Machine)
  BY <1>1, <1>2, <1>4, MarkedOccupied, CallerRuns
<1>9. /\ Waiting(Machine) \subseteq Waiting(n)
      /\ KeepsOrder(readyList, n.ready, Waiting(Machine))
  BY <1>1, <1>2, <1>4, MarkedWaiting
<1>10. HandsOver(n)
  BY <1>4, <1>6, <1>7, <1>8, <1>9 DEF HandsOver
<1>11. QED
  BY <1>1, <1>10

\* A process other than the caller leaves the list, to be BLOCKED or freed;
\* only one that is BLOCKED already was not in it.
LEMMA OtherLeaves ==
  ASSUME IInv, NEW call, Issues(call), NEW pid \in Pids \ {SHELL_PID, currentPID},
         status[pid] \in {"READY", "BLOCKED", "KILLED"}, pid # IDLE_PID,
         NEW n, Typed(n), NEW st \in {"none", "BLOCKED"},
         n.status = [status EXCEPT ![pid] = st],
         n.ready = RemoveFirst(readyList, pid),
         n.current = currentPID, n.cleanup = toCleanupPID
  PROVE  Sound(n)
<1>1. /\ currentPID \in Pids \ {IDLE_PID} /\ status[currentPID] = "RUNNING"
      /\ toCleanupPID # currentPID /\ Leads(Machine, currentPID)
  BY CallerRuns
<1>2. Core(Machine) /\ Exact(Machine) /\ Schedulable(Machine)
  BY DEF IInv, Sound, Schedulable, Core
<1>3. \A p \in Pids : n.status[p] = IF p = pid THEN st ELSE status[p]
  BY VariablesTyped
<1>4. Distinct(readyList) /\ readyList \in Seq(Pids)
  BY <1>2, VariablesTyped, MachineFields DEF Exact
<1>5. Exact(n) /\ Leads(n, currentPID)
  <2>1. CASE pid \in ToSet(readyList)
    <3>1. /\ Distinct(n.ready)
          /\ ToSet(n.ready) = ToSet(readyList) \ {pid}
      BY <1>4, <2>1, RemoveMember
    <3>2. Exact(n)
      BY <1>2, <1>3, <3>1, MachineFields DEF Exact
    <3>3. \A r \in ToSet(Machine.ready) \ {pid} : n.status[r] = Machine.status[r]
      BY <1>2, <1>3, MachineFields DEF Exact
    <3>4. /\ Machine.ready \in Seq(Pids) /\ pid \in ToSet(Machine.ready)
          /\ n.ready = RemoveFirst(Machine.ready, pid) /\ Distinct(Machine.ready)
      BY <1>4, <2>1, MachineFields
    <3>5. Leads(n, currentPID)
      BY <1>1, <3>3, <3>4, RemoveKeepsLead
    <3>6. QED
      BY <3>2, <3>5
  <2>2. CASE pid \notin ToSet(readyList)
    <3>1. n.ready = readyList
      BY <1>4, <2>2 DEF RemoveFirst, ToSet
    <3>2. Exact(n)
      BY <1>2, <1>3, <2>2, <3>1, MachineFields DEF Exact
    <3>3. \A r \in ToSet(Machine.ready) : n.status[r] = "KILLED" <=> Machine.status[r] = "KILLED"
      BY <1>2, <1>3, <2>2, MachineFields DEF Exact
    <3>4. Machine.ready \in Seq(Pids) /\ n.ready = Machine.ready
      BY <1>4, <3>1, MachineFields
    <3>5. Leads(n, currentPID)
      BY <1>1, <3>3, <3>4, SameListSameLead
    <3>6. QED
      BY <3>2, <3>5
  <2>3. QED
    BY <2>1, <2>2
<1>6. SHELL_PID \in Pids /\ IDLE_PID \in Pids
  BY SchedulerAssumption DEF Pids
<1>7. /\ \A p \in Pids : n.status[p] = "RUNNING" => p = currentPID
      /\ n.status[currentPID] = "RUNNING"
      /\ n.status[SHELL_PID] \in {"READY", "RUNNING"}
      /\ n.status[IDLE_PID] = "READY"
      /\ n.cleanup \notin {IDLE_PID, SHELL_PID, currentPID}
  BY <1>1, <1>2, <1>3, <1>6, MachineFields DEF Core
<1>8. \A p \in Pids : n.status[p] = "KILLED" => p \in {n.cleanup, currentPID}
  BY <1>2, <1>3, MachineFields DEF Schedulable
<1>9. QED
  BY <1>5, <1>7, <1>8 DEF Sound, Schedulable, Core

\* A kill of another process takes it from the list, if it is there, and
\* frees its slot, whatever its status was.
LEMMA KillOtherSound == ASSUME IInv, NEW pid \in Pids, KillOther(pid) PROVE IInv'
<1> DEFINE b == Bereave(Machine, pid)
           f == FreeSlot(b, pid)
           n == [f EXCEPT !.ready = RemoveFirst(@, pid),
                          !.dangling = IF status[pid] = "KILLED" THEN "top"
                                       ELSE IF @ = "top" THEN "buried" ELSE @]
<1>1. /\ Become(n) /\ Issues("kill") /\ pid \notin {IDLE_PID, SHELL_PID}
      /\ status[pid] \in {"READY", "BLOCKED", "KILLED"}
  BY DEF KillOther
<1>2. SameScheduling(Machine, b) /\ b.halted \in {"no", "child", "parent"}
  BY <1>1, FamilyOnly, MachineFields DEF Issues
<1> HIDE DEF b
<1>3. b.halted \in Halts \ {"idle"}
  BY <1>2 DEF Halts
<1>4. Typed(b)
  BY <1>2, <1>3, VariablesTyped, MachineFields DEF Typed, SameScheduling
<1>5. /\ Typed(f) /\ f.status = [status EXCEPT ![pid] = "none"]
      /\ f.ready = readyList /\ f.cleanup = toCleanupPID
      /\ f.current = currentPID /\ f.halted = b.halted
  BY <1>2, <1>4, FreeSlotFields, MachineFields DEF SameScheduling
<1> HIDE DEF f
<1>6. RemoveFirst(readyList, pid) \in Seq(Pids)
  <2>1. CASE pid \in ToSet(readyList)
    BY <2>1, RemoveMemberPlaces, VariablesTyped
  <2>2. CASE pid \notin ToSet(readyList)
    BY <2>2, VariablesTyped DEF RemoveFirst, ToSet
  <2>3. QED
    BY <2>1, <2>2
<1>7. /\ IsMachine(n) /\ n.status = f.status /\ n.ready = RemoveFirst(readyList, pid)
      /\ n.current = currentPID /\ n.cleanup = toCleanupPID
      /\ n.qty = f.qty /\ n.priority = f.priority /\ n.rounds = f.rounds
      /\ n.dangling \in {"no", "top", "buried"} /\ n.halted = b.halted
  BY <1>5 DEF IsMachine, Typed
<1> HIDE DEF n
<1>8. Typed(n)
  BY <1>3, <1>5, <1>6, <1>7 DEF Typed
<1>9. pid # currentPID
  BY <1>1, CallerRuns
<1>10. Sound(n)
  BY <1>1, <1>5, <1>7, <1>8, <1>9, OtherLeaves
<1>11. Good(n)
  BY <1>3, <1>7, <1>10 DEF Good
<1>12. QED
  BY <1>1, <1>11, BecomeSound

\* The machine in which a process was blocked.
LEMMA BlockedTyped ==
  ASSUME IInv, NEW pid \in Pids, Block(pid)
  PROVE  LET n == [Machine EXCEPT !.status[pid] = "BLOCKED", !.ready = RemoveFirst(@, pid)]
         IN /\ Typed(n) /\ n.status = [status EXCEPT ![pid] = "BLOCKED"]
            /\ n.ready = RemoveFirst(readyList, pid)
            /\ n.current = currentPID /\ n.cleanup = toCleanupPID
            /\ n.qty = processQty /\ n.dangling = dangling /\ n.rounds = roundsLeft
            /\ Become(IF pid = currentPID
                      THEN schedule([n EXCEPT !.rounds[currentPID] = 0]) ELSE n)
<1> DEFINE n == [Machine EXCEPT !.status[pid] = "BLOCKED", !.ready = RemoveFirst(@, pid)]
<1>1. /\ Issues("block") /\ pid \notin {IDLE_PID, SHELL_PID}
      /\ status[pid] \in {"READY", "RUNNING"}
  BY DEF Block
<1>2. /\ IsMachine(n) /\ n.status = [status EXCEPT ![pid] = "BLOCKED"]
      /\ n.ready = RemoveFirst(readyList, pid)
      /\ n.current = currentPID /\ n.cleanup = toCleanupPID
      /\ n.qty = processQty /\ n.priority = priority /\ n.rounds = roundsLeft
      /\ n.dangling = dangling /\ n.halted = halted
  BY MachineFields DEF IsMachine
<1>3. Become(IF pid = currentPID THEN schedule([n EXCEPT !.rounds[currentPID] = 0]) ELSE n)
  BY <1>2 DEF Block, yield
<1> HIDE DEF n
<1>4. pid \in ToSet(readyList)
  BY <1>1, MachineFields DEF IInv, Sound, Schedulable, Core, Exact
<1>5. RemoveFirst(readyList, pid) \in Seq(Pids)
  BY <1>4, RemoveMemberPlaces, VariablesTyped
<1>6. "BLOCKED" \in Statuses
  BY DEF Statuses
<1>7. Typed(n)
  BY <1>2, <1>5, <1>6, VariablesTyped DEF Typed
<1>8. QED
  BY <1>2, <1>3, <1>7 DEF n

\* A block of oneself takes the caller from the list and runs schedule().
LEMMA BlockHandsOver ==
  ASSUME IInv, Block(currentPID)
  PROVE  \E n : HandsOver(n) /\ Become(schedule(n))
<1> DEFINE pid == currentPID
           n == [Machine EXCEPT !.status[pid] = "BLOCKED", !.ready = RemoveFirst(@, pid)]
           k == [n EXCEPT !.rounds[currentPID] = 0]
<1>1. Issues("block") /\ pid # SHELL_PID
  BY DEF Block
<1>2. /\ Typed(n) /\ n.status = [status EXCEPT ![pid] = "BLOCKED"]
      /\ n.ready = RemoveFirst(readyList, pid)
      /\ n.current = currentPID /\ n.cleanup = toCleanupPID
      /\ n.qty = processQty /\ n.dangling = dangling /\ n.rounds = roundsLeft
      /\ Become(schedule(k))
  BY BlockedTyped, VariablesTyped
<1> HIDE DEF n
<1>3. /\ IsMachine(k) /\ k.status = n.status /\ k.ready = n.ready
      /\ k.current = n.current /\ k.cleanup = n.cleanup /\ k.qty = n.qty
      /\ k.priority = n.priority /\ k.rounds = [roundsLeft EXCEPT ![pid] = 0]
      /\ k.dangling = n.dangling /\ k.halted = n.halted
  BY <1>2 DEF Typed, IsMachine
<1> HIDE DEF k
<1>4. 0 \in Priorities /\ pid \in Pids
  BY VariablesTyped, SchedulerAssumption DEF Priorities
<1>5. Typed(k)
  BY <1>2, <1>3, <1>4, VariablesTyped DEF Typed
<1>6. Schedulable(k)
  BY <1>1, <1>2, <1>3, <1>5, MarkedCaller
<1>7. Occupied(k) = Occupied(Machine)
  BY <1>1, <1>2, <1>3, MarkedOccupied, CallerRuns
<1>8. /\ Waiting(Machine) \subseteq Waiting(k)
      /\ KeepsOrder(readyList, k.ready, Waiting(Machine))
  BY <1>1, <1>2, <1>3, MarkedWaiting
<1>9. HandsOver(k)
  BY <1>2, <1>3, <1>5, <1>6, <1>7, <1>8 DEF HandsOver
<1>10. QED
  BY <1>2, <1>9

\* A block of another process takes it from the list.
LEMMA BlockOtherSound ==
  ASSUME IInv, NEW pid \in Pids, Block(pid), pid # currentPID
  PROVE  IInv'
<1> DEFINE n == [Machine EXCEPT !.status[pid] = "BLOCKED", !.ready = RemoveFirst(@, pid)]
<1>1. /\ Typed(n) /\ n.status = [status EXCEPT ![pid] = "BLOCKED"]
      /\ n.ready = RemoveFirst(readyList, pid)
      /\ n.current = currentPID /\ n.cleanup = toCleanupPID /\ Become(n)
  BY BlockedTyped
<1> HIDE DEF n
<1>2. Issues("block") /\ pid \notin {IDLE_PID, SHELL_PID} /\ status[pid] = "READY"
  BY MachineFields DEF Block, IInv, Sound, Schedulable, Core
<1>3. Sound(n)
  BY <1>1, <1>2, OtherLeaves
<1>4. Good(n)
  BY <1>1, <1>3 DEF Good, Typed
<1>5. QED
  BY <1>1, <1>4, BecomeSound

\* n is the machine in which a process was woken.
Woken(n, pid) ==
  /\ IsMachine(n) /\ n.status = [status EXCEPT ![pid] = "READY"]
  /\ n.ready = Append(readyList, pid)
  /\ n.current = currentPID /\ n.cleanup = toCleanupPID
  /\ n.qty = processQty /\ n.priority = priority /\ n.rounds = roundsLeft
  /\ n.dangling \in {"no", "top", "buried"} /\ n.halted = halted

\* A blocked process was in no list; it is woken by going to the tail.
LEMMA WokenGood ==
  ASSUME IInv, NEW call, Issues(call), NEW pid \in Pids, status[pid] = "BLOCKED",
         NEW n, Woken(n, pid)
  PROVE  Good(n)
<1>1. /\ IsMachine(n) /\ n.status = [status EXCEPT ![pid] = "READY"]
      /\ n.ready = Append(readyList, pid)
      /\ n.current = currentPID /\ n.cleanup = toCleanupPID
      /\ n.qty = processQty /\ n.priority = priority /\ n.rounds = roundsLeft
      /\ n.dangling \in {"no", "top", "buried"} /\ n.halted = halted
  BY DEF Woken
<1>2. Core(Machine) /\ Exact(Machine) /\ Schedulable(Machine)
  BY DEF IInv, Sound, Schedulable, Core
<1>3. /\ currentPID \in Pids \ {IDLE_PID} /\ status[currentPID] = "RUNNING"
      /\ toCleanupPID # currentPID /\ Leads(Machine, currentPID)
  BY CallerRuns
<1>4. pid \notin {IDLE_PID, SHELL_PID, currentPID} /\ pid \notin ToSet(readyList)
  BY <1>2, <1>3, MachineFields DEF Core, Exact
<1>5. readyList \in Seq(Pids) /\ Distinct(readyList)
  BY <1>2, VariablesTyped, MachineFields DEF Exact
<1>6. /\ Append(readyList, pid) \in Seq(Pids)
      /\ Distinct(Append(readyList, pid))
      /\ ToSet(Append(readyList, pid)) = ToSet(readyList) \cup {pid}
  BY <1>4, <1>5, AppendMember
<1>7. "READY" \in Statuses
  BY DEF Statuses
<1>8. Typed(n)
  BY <1>1, <1>6, <1>7, VariablesTyped DEF Typed
<1>9. \A p \in Pids : n.status[p] = IF p = pid THEN "READY" ELSE status[p]
  BY <1>1, VariablesTyped
<1>10. Exact(n)
  BY <1>1, <1>2, <1>4, <1>6, <1>9, MachineFields DEF Exact
<1>11. Leads(n, currentPID)
  <2>1. \A r \in ToSet(Machine.ready) : n.status[r] = Machine.status[r]
    BY <1>2, <1>4, <1>9, MachineFields DEF Exact
  <2>2. Machine.ready \in Seq(Pids) /\ n.ready = Append(Machine.ready, pid)
    BY <1>1, <1>5, MachineFields
  <2>3. QED
    BY <1>3, <2>1, <2>2, AppendKeepsLead
<1>12. SHELL_PID \in Pids /\ IDLE_PID \in Pids
  BY SchedulerAssumption DEF Pids
<1>13. Sound(n)
  BY <1>1, <1>2, <1>3, <1>4, <1>8, <1>9, <1>10, <1>11, <1>12, MachineFields
  DEF Sound, Schedulable, Core
<1>14. QED
  BY <1>8, <1>13 DEF Good, Typed

\* The unblock of a process: WokenGood.
LEMMA UnblockSound == ASSUME IInv, NEW pid \in Pids, Unblock(pid) PROVE IInv'
<1> DEFINE n == [Machine EXCEPT !.status[pid] = "READY", !.ready = Append(@, pid)]
<1>1. Become(n) /\ Issues("unblock") /\ status[pid] = "BLOCKED"
  BY DEF Unblock
<1>2. /\ IsMachine(n) /\ n.status = [status EXCEPT ![pid] = "READY"]
      /\ n.ready = Append(readyList, pid)
      /\ n.current = currentPID /\ n.cleanup = toCleanupPID
      /\ n.qty = processQty /\ n.priority = priority /\ n.rounds = roundsLeft
      /\ n.dangling = dangling /\ n.halted = halted
  BY MachineFields DEF IsMachine
<1> HIDE DEF n
<1>3. Good(n)
  BY <1>1, <1>2, WokenGood, VariablesTyped DEF Woken
<1>4. QED
  BY <1>1, <1>3, BecomeSound

\* The three calls that set a priority keep it in its range.
LEMMA PrioritySound ==
  ASSUME IInv, NEW pid \in Pids, NEW prio \in Priorities,
         Become([Machine EXCEPT !.priority[pid] = prio])
  PROVE  IInv'
<1> DEFINE n == [Machine EXCEPT !.priority[pid] = prio]
<1>1. /\ IsMachine(n) /\ n.status = Machine.status /\ n.ready = Machine.ready
      /\ n.current = Machine.current /\ n.cleanup = Machine.cleanup
      /\ n.qty = Machine.qty /\ n.rounds = Machine.rounds
      /\ n.dangling = Machine.dangling /\ n.halted = halted
      /\ n.priority = [priority EXCEPT ![pid] = prio]
  BY MachineFields DEF IsMachine
<1> HIDE DEF n
<1>2. /\ n.priority \in [Pids -> Priorities] /\ n.halted \in Halts \ {"idle"}
      /\ n.rounds \in [Pids -> Priorities] /\ n.dangling \in {"no", "top", "buried"}
  BY <1>1, VariablesTyped, MachineFields
<1>3. Sound(n)
  BY <1>1, <1>2, SameSound DEF IInv
<1>4. Good(n)
  BY <1>2, <1>3 DEF Good
<1>5. QED
  BY <1>4, BecomeSound DEF n

\* The calls that fault, and the reuse of a freed node, only set halted.
LEMMA HaltSound ==
  ASSUME IInv, NEW site \in Halts \ {"idle"}, Become([Machine EXCEPT !.halted = site])
  PROVE  IInv'
<1> DEFINE n == [Machine EXCEPT !.halted = site]
<1>1. /\ IsMachine(n) /\ n.status = Machine.status /\ n.ready = Machine.ready
      /\ n.current = Machine.current /\ n.cleanup = Machine.cleanup
      /\ n.qty = Machine.qty /\ n.rounds = Machine.rounds
      /\ n.dangling = Machine.dangling /\ n.halted = site
      /\ n.priority = priority
  BY MachineFields DEF IsMachine
<1> HIDE DEF n
<1>2. /\ n.priority \in [Pids -> Priorities] /\ n.rounds \in [Pids -> Priorities]
      /\ n.dangling \in {"no", "top", "buried"}
  BY <1>1, VariablesTyped, MachineFields
<1>3. Sound(n)
  BY <1>1, <1>2, SameSound DEF IInv
<1>4. Good(n)
  BY <1>1, <1>3 DEF Good
<1>5. QED
  BY <1>4, BecomeSound DEF n

\* Fields of a machine with another place of the freed node.
LEMMA OtherPlace ==
  ASSUME NEW d
  PROVE  LET n == [Machine EXCEPT !.dangling = d]
         IN /\ IsMachine(n) /\ n.status = status /\ n.ready = readyList
            /\ n.current = currentPID /\ n.cleanup = toCleanupPID
            /\ n.qty = processQty /\ n.priority = priority
            /\ n.rounds = roundsLeft /\ n.dangling = d /\ n.halted = halted
BY MachineFields DEF IsMachine

\* Where a freed node lies changes nothing that schedule() reads.
LEMMA PlaceGood ==
  ASSUME IInv, NEW d \in {"no", "top", "buried"}
  PROVE  Good([Machine EXCEPT !.dangling = d])
<1> DEFINE n == [Machine EXCEPT !.dangling = d]
<1>1. /\ IsMachine(n) /\ n.status = status /\ n.ready = readyList
      /\ n.current = currentPID /\ n.cleanup = toCleanupPID
      /\ n.qty = processQty /\ n.priority = priority
      /\ n.rounds = roundsLeft /\ n.dangling = d /\ n.halted = halted
  BY OtherPlace
<1> HIDE DEF n
<1>2. Sound(n)
  BY <1>1, SameSound, MachineFields, VariablesTyped DEF IInv
<1>3. QED
  BY <1>1, <1>2, VariablesTyped DEF n, Good

\* A step that only moves the freed node.
LEMMA PlaceSound ==
  ASSUME IInv, NEW d \in {"no", "top", "buried"}, Become([Machine EXCEPT !.dangling = d])
  PROVE  IInv'
BY PlaceGood, BecomeSound

\* A step that changes nothing.
LEMMA StutterSound == IInv /\ UNCHANGED vars => IInv'
BY DEF vars, IInv, Machine, Sound, Schedulable, Core, Typed, Exact, Leads

\* Every step keeps the invariant.
LEMMA NextSound == IInv /\ [Next]_vars => IInv'
<1> SUFFICES ASSUME IInv, [Next]_vars PROVE IInv'
  OBVIOUS
<1>1. CASE Tick
  BY <1>1, TickHandsOver, HandedSound
<1>2. CASE \E prio \in Priorities : Create(prio)
  BY <1>2, CreateSound
<1>3. CASE CreateWithoutNode
  BY <1>3, CreateWithoutNodeSound
<1>4. CASE Exit
  BY <1>4, ExitHandsOver, HandedSound
<1>5. ASSUME NEW pid \in Pids, KillSelf(pid) \/ KillOther(pid) \/ Block(pid) \/ Unblock(pid)
      PROVE  IInv'
  <2>1. CASE KillSelf(pid)
    BY <2>1, KillSelfHandsOver, HandedSound
  <2>2. CASE Block(pid)
    BY <2>2, BlockHandsOver, BlockOtherSound, HandedSound
  <2>3. QED
    BY <1>5, <2>1, <2>2, KillOtherSound, UnblockSound
<1>6. ASSUME NEW pid \in Pids, IncreasePriority(pid)
      PROVE  IInv'
  <2>1. priority[pid] + 1 \in Priorities
    BY <1>6, VariablesTyped, SchedulerAssumption DEF IncreasePriority, Priorities
  <2>2. Become([Machine EXCEPT !.priority[pid] = priority[pid] + 1])
    BY <1>6, MachineFields DEF IncreasePriority
  <2>3. QED
    BY <2>1, <2>2, PrioritySound
<1>7. ASSUME NEW pid \in Pids, DecreasePriority(pid)
      PROVE  IInv'
  <2>1. priority[pid] - 1 \in Priorities
    BY <1>7, VariablesTyped, SchedulerAssumption DEF DecreasePriority, Priorities
  <2>2. Become([Machine EXCEPT !.priority[pid] = priority[pid] - 1])
    BY <1>7, MachineFields DEF DecreasePriority
  <2>3. QED
    BY <2>1, <2>2, PrioritySound
<1>8. ASSUME NEW pid \in Pids, NEW prio \in 0 .. HighestPriority + 1, nice(pid, prio)
      PROVE  IInv'
  <2>1. prio \in Priorities
    BY <1>8, SchedulerAssumption DEF nice, Priorities
  <2>2. QED
    BY <1>8, <2>1, PrioritySound DEF nice
<1>9. ASSUME NEW pid \in Pids, NEW call \in VacantCalls, CallOnVacantSlot(call, pid)
      PROVE  IInv'
  BY <1>9, HaltSound DEF CallOnVacantSlot, Halts, VacantCalls
<1>10. CASE ReuseFreedNode
  BY <1>10, HaltSound DEF ReuseFreedNode, Halts
<1>11. CASE UseMissingBlock
  BY <1>11, HaltSound DEF UseMissingBlock, Halts
<1>12. CASE UncoverFreedNode
  BY <1>12, PlaceSound DEF UncoverFreedNode
<1>13. CASE UNCHANGED vars
  BY <1>13, StutterSound
<1>14. QED
  BY <1>1, <1>2, <1>3, <1>4, <1>5, <1>6, <1>7, <1>8, <1>9, <1>10, <1>11, <1>12, <1>13
  DEF Next, Call, Allocation

-----------------------------------------------------------------------------
(***************************************************************************)
(* What each step does to the slots in use and to their count.             *)
(***************************************************************************)

InUse == {p \in Pids : status[p] # "none"}

\* InUse is Occupied, said of the variables.
LEMMA InUseIsOccupied == InUse = Occupied(Machine)
BY MachineFields DEF InUse, Occupied

\* The steps that enter schedule() free the process the clean-up is meant for.
LEMMA SwitchAccounts ==
  ASSUME IInv, NEW n, HandsOver(n), Become(schedule(n))
  PROVE  /\ halted' # "no" => UNCHANGED <<status, processQty>>
         /\ halted' = "no" =>
              /\ InUse' = InUse \ {toCleanupPID}
              /\ processQty' = IF toCleanupPID \in InUse THEN processQty - 1 ELSE processQty
              /\ dangling' = IF toCleanupPID \in InUse /\ dangling = "top"
                             THEN "buried" ELSE dangling
<1> DEFINE k == schedule(n)
<1>1. CASE k.halted # "no"
  BY <1>1 DEF Become
<1>2. CASE k.halted = "no"
  <2>1. n.halted = "no"
    BY <1>2 DEF schedule
  <2>2. Frees(n, k, n.cleanup) /\ Covers(n, k, n.cleanup)
    BY <1>2, <2>1, ScheduleFrees DEF HandsOver
  <2> HIDE DEF k
  <2>3. /\ status' = k.status /\ processQty' = k.qty /\ dangling' = k.dangling
        /\ halted' = "no"
    BY <1>2 DEF Become, k
  <2>4. InUse' = Occupied(k)
    BY <2>3 DEF InUse, Occupied
  <2>5. QED
    <3>1. Occupied(n) = InUse /\ n.cleanup = toCleanupPID /\ n.qty = processQty /\ n.dangling = dangling
      BY InUseIsOccupied DEF HandsOver
    <3>2. QED
      BY <2>2, <2>3, <2>4, <3>1 DEF Frees, Covers
<1>3. QED
  BY <1>1, <1>2

\* A kill of another process frees that one.
LEMMA KillAccounts ==
  ASSUME IInv, NEW pid \in Pids, KillOther(pid)
  PROVE  /\ halted' # "no" => UNCHANGED <<status, processQty>>
         /\ halted' = "no" =>
              /\ pid \in InUse /\ InUse' = InUse \ {pid} /\ processQty' = processQty - 1
              /\ dangling' = IF status[pid] = "KILLED" THEN "top"
                             ELSE IF dangling = "top" THEN "buried" ELSE dangling
<1> DEFINE b == Bereave(Machine, pid)
           f == FreeSlot(b, pid)
           n == [f EXCEPT !.ready = RemoveFirst(@, pid),
                          !.dangling = IF status[pid] = "KILLED" THEN "top"
                                       ELSE IF @ = "top" THEN "buried" ELSE @]
<1>1. Become(n) /\ Issues("kill") /\ status[pid] \in {"READY", "BLOCKED", "KILLED"}
  BY DEF KillOther
<1>2. SameScheduling(Machine, b)
  BY <1>1, FamilyOnly, MachineFields DEF Issues
<1> HIDE DEF b
<1>3. /\ IsMachine(f) /\ f.status = [status EXCEPT ![pid] = "none"]
      /\ f.qty = processQty - 1 /\ f.dangling = dangling
  BY <1>2, MachineFields DEF FreeSlot, SameScheduling, IsMachine
<1> HIDE DEF f
<1>4. /\ n.status = [status EXCEPT ![pid] = "none"] /\ n.qty = processQty - 1
      /\ n.dangling = IF status[pid] = "KILLED" THEN "top"
                      ELSE IF dangling = "top" THEN "buried" ELSE dangling
  BY <1>3 DEF IsMachine
<1> HIDE DEF n
<1>5. CASE halted' # "no"
  BY <1>1, <1>5 DEF Become
<1>6. CASE halted' = "no"
  <2>1. status' = n.status /\ processQty' = n.qty /\ dangling' = n.dangling
    BY <1>1, <1>6 DEF Become
  <2>2. \A p \in Pids : status'[p] = IF p = pid THEN "none" ELSE status[p]
    BY <1>4, <2>1, VariablesTyped
  <2>3. pid \in InUse /\ InUse' = InUse \ {pid}
    BY <1>1, <2>2 DEF InUse
  <2>4. QED
    BY <1>4, <1>6, <2>1, <2>3
<1>7. QED
  BY <1>5, <1>6

\* A creation takes the slot it was given, which was free.
LEMMA CreateAccounts ==
  ASSUME IInv, NEW prio \in Priorities, Create(prio)
  PROVE  /\ availablePidValue \in Pids \ InUse
         /\ InUse' = InUse \cup {availablePidValue}
         /\ processQty' = processQty + 1 /\ halted' = "no"
<1> DEFINE pid == availablePidValue
<1>1. pid \in Pids /\ status[pid] = "none"
  BY AvailablePid DEF Create, CanCreate
<1> HIDE DEF pid
<1>2. status' = [status EXCEPT ![pid] = "READY"] /\ processQty' = processQty + 1 /\ halted' = "no"
  BY MachineFields DEF Create, Issues, Become, IsMachine, pid
<1>3. \A p \in Pids : status'[p] = IF p = pid THEN "READY" ELSE status[p]
  BY <1>2, VariablesTyped
<1>4. QED
  BY <1>1, <1>2, <1>3 DEF InUse, pid

\* A step that is none of these frees and creates nobody.
LEMMA OtherAccounts ==
  ASSUME IInv, NEW pid \in Pids,
         \/ Unblock(pid)
         \/ Block(pid) /\ pid # currentPID
         \/ IncreasePriority(pid)
         \/ DecreasePriority(pid)
         \/ \E prio \in 0 .. HighestPriority + 1 : nice(pid, prio)
         \/ \E call \in VacantCalls : CallOnVacantSlot(call, pid)
         \/ CreateWithoutNode \/ UseMissingBlock \/ UncoverFreedNode \/ ReuseFreedNode
  PROVE  InUse' = InUse /\ processQty' = processQty
<1>1. \/ status' = status
      \/ /\ status[pid] # "none"
         /\ \E st \in {"READY", "BLOCKED"} : status' = [status EXCEPT ![pid] = st]
  BY MachineFields DEF Unblock, Block, IncreasePriority, DecreasePriority, nice,
     CallOnVacantSlot, CreateWithoutNode, UseMissingBlock, UncoverFreedNode,
     ReuseFreedNode, Become, IsMachine
<1>2. processQty' = processQty
  BY MachineFields DEF Unblock, Block, IncreasePriority, DecreasePriority, nice,
     CallOnVacantSlot, CreateWithoutNode, UseMissingBlock, UncoverFreedNode,
     ReuseFreedNode, Become, IsMachine
<1>3. \A p \in Pids : status'[p] = "none" <=> status[p] = "none"
  BY <1>1, VariablesTyped
<1>4. QED
  BY <1>2, <1>3 DEF InUse

\* processQty counts the slots in use.
LEMMA CountKept == IInv /\ ProcessQtyExact /\ [Next]_vars => ProcessQtyExact'
<1> SUFFICES ASSUME IInv, processQty = Cardinality(InUse), [Next]_vars
             PROVE  processQty' = Cardinality(InUse')
  BY DEF ProcessQtyExact, InUse
<1>1. IsFiniteSet(InUse)
  <2>1. IsFiniteSet(Pids)
    BY FS_Interval, SchedulerAssumption DEF Pids
  <2>2. QED
    BY <2>1, FS_Subset DEF InUse
<1>2. ASSUME NEW p, InUse' = InUse \ {p},
             processQty' = IF p \in InUse THEN processQty - 1 ELSE processQty
      PROVE  processQty' = Cardinality(InUse')
  BY <1>1, <1>2, FS_RemoveElement
<1>3. ASSUME UNCHANGED <<status, processQty>>
      PROVE  processQty' = Cardinality(InUse')
  BY <1>3 DEF InUse
<1>4. ASSUME NEW n, HandsOver(n), Become(schedule(n))
      PROVE  processQty' = Cardinality(InUse')
  BY <1>2, <1>3, <1>4, SwitchAccounts
<1>5. CASE Tick
  BY <1>4, <1>5, TickHandsOver
<1>6. CASE Exit
  BY <1>4, <1>6, ExitHandsOver
<1>7. ASSUME NEW pid \in Pids, KillSelf(pid)
      PROVE  processQty' = Cardinality(InUse')
  BY <1>4, <1>7, KillSelfHandsOver
<1>8. ASSUME NEW pid \in Pids, KillOther(pid)
      PROVE  processQty' = Cardinality(InUse')
  BY <1>2, <1>3, <1>8, KillAccounts
<1>9. CASE Block(currentPID)
  BY <1>4, <1>9, BlockHandsOver
<1>10. ASSUME NEW prio \in Priorities, Create(prio)
       PROVE  processQty' = Cardinality(InUse')
  BY <1>1, <1>10, CreateAccounts, FS_AddElement
<1>11. CASE UNCHANGED vars
  BY <1>3, <1>11 DEF vars
<1>12. ASSUME NEW pid \in Pids,
              \/ Unblock(pid)
              \/ Block(pid) /\ pid # currentPID
              \/ IncreasePriority(pid)
              \/ DecreasePriority(pid)
              \/ \E prio \in 0 .. HighestPriority + 1 : nice(pid, prio)
              \/ \E call \in VacantCalls : CallOnVacantSlot(call, pid)
              \/ CreateWithoutNode \/ UseMissingBlock \/ UncoverFreedNode \/ ReuseFreedNode
       PROVE  processQty' = Cardinality(InUse')
  BY <1>12, OtherAccounts
<1>13. \E pid : pid \in Pids
  BY VariablesTyped
<1>14. QED
  BY <1>5, <1>6, <1>7, <1>8, <1>9, <1>10, <1>11, <1>12, <1>13
  DEF Next, Call, Allocation

-----------------------------------------------------------------------------
(***************************************************************************)
(* The order in which processes wait.                                      *)
(***************************************************************************)

\* The clean-up takes one process from the list, if any, and empties its slot.
LEMMA CleanUpTurns ==
  ASSUME NEW m, Schedulable(m), m.halted = "no", CleanUp(m).halted = "no"
  PROVE  /\ KeepsOrder(m.ready, CleanUp(m).ready, Waiting(CleanUp(m)))
         /\ \A p \in Pids : CleanUp(m).status[p] \in {m.status[p], "none"}
<1> DEFINE d == m.cleanup
           c == CleanUp(m)
<1>1. Typed(m) /\ IsMachine(m) /\ Exact(m) /\ d \notin {IDLE_PID, SHELL_PID}
  BY DEF Schedulable, Core, Typed
<1>2. CASE d = NoPid \/ m.status[d] = "none"
  <2>1. c.status = m.status /\ c.ready = m.ready
    BY <1>1, <1>2 DEF CleanUp, IsMachine
  <2>2. QED
    BY <2>1 DEF KeepsOrder
<1>3. CASE d # NoPid /\ m.status[d] # "none"
  <2> DEFINE b == Bereave(m, d)
             f == FreeSlot(b, d)
             n == [f EXCEPT !.ready = RemoveFirst(@, d), !.cleanup = NoPid,
                            !.dangling = IF @ = "top" THEN "buried" ELSE @]
  <2>1. c = n /\ m.status[d] # "BLOCKED"
    BY <1>3 DEF CleanUp, Bereave, Halts
  <2>2. SameScheduling(m, b)
    BY <1>1, FamilyOnly
  <2> HIDE DEF b
  <2>3. IsMachine(f) /\ f.status = [m.status EXCEPT ![d] = "none"] /\ f.ready = m.ready
    BY <2>2 DEF FreeSlot, SameScheduling, IsMachine
  <2> HIDE DEF f
  <2>4. n.status = f.status /\ n.ready = RemoveFirst(f.ready, d)
    BY <2>3 DEF IsMachine
  <2> HIDE DEF n, c
  <2>5. d \in Pids /\ m.status \in [Pids -> Statuses]
    BY <1>1, <1>3 DEF Typed
  <2>6. \A p \in Pids : c.status[p] = IF p = d THEN "none" ELSE m.status[p]
    BY <2>1, <2>3, <2>4, <2>5
  <2>7. d \in ToSet(m.ready) /\ m.ready \in Seq(Pids) /\ Distinct(m.ready)
    <3>1. m.status[d] \in {"READY", "RUNNING", "KILLED"}
      BY <1>3, <2>1, <2>5 DEF Statuses
    <3>2. QED
      BY <1>1, <2>5, <3>1 DEF Exact, Typed
  <2>8. d \notin Waiting(c)
    BY <2>5, <2>6 DEF Waiting
  <2>9. KeepsOrder(m.ready, c.ready, Waiting(c))
    BY <2>1, <2>3, <2>4, <2>7, <2>8, RemoveKeepsOrder
  <2>10. QED
    BY <2>6, <2>9 DEF c
<1>4. QED
  BY <1>2, <1>3

\* A switch sends the process that ran to the tail, or nobody.
LEMMA RescheduleTurns ==
  ASSUME NEW m, Schedulable(m), m.halted = "no", Reschedule(m).halted = "no"
  PROVE  /\ KeepsOrder(m.ready, Reschedule(m).ready, Waiting(m))
         /\ ToSet(Reschedule(m).ready) = ToSet(m.ready)
<1> DEFINE p == Preempt(m)
           q == getNextProcess(p)
           n == switchContext(p, q)
           cur == m.current
<1>1. /\ IsMachine(m) /\ m.status \in [Pids -> Statuses] /\ cur \in Pids
      /\ m.ready \in Seq(Pids) /\ Exact(m)
  BY DEF Schedulable, Core, Typed
<1>2. m.ready # <<>>
  BY <1>1 DEF Reschedule, IsMachine
<1>3. CASE m.status[m.current] = "RUNNING" /\ m.rounds[m.current] > 0
  <2>1. Reschedule(m) = [m EXCEPT !.rounds[m.current] = @ - 1]
    BY <1>2, <1>3 DEF Reschedule
  <2>2. Reschedule(m).ready = m.ready
    BY <1>1, <2>1 DEF IsMachine
  <2>3. QED
    BY <2>2 DEF KeepsOrder
<1>4. CASE ~(m.status[m.current] = "RUNNING" /\ m.rounds[m.current] > 0)
  <2>1. Reschedule(m) = n
    BY <1>2, <1>4 DEF Reschedule
  <2>2. /\ IsMachine(p)
        /\ \/ p.ready = m.ready
           \/ /\ m.status[cur] = "RUNNING" /\ cur # IDLE_PID
              /\ p.ready = Append(RemoveFirst(m.ready, cur), cur)
    BY <1>1 DEF Preempt, IsMachine
  <2> HIDE DEF p
  <2>3. n.ready = p.ready
    BY <2>2 DEF switchContext, IsMachine
  <2>4. CASE p.ready = m.ready
    BY <2>1, <2>3, <2>4 DEF KeepsOrder
  <2>5. CASE /\ m.status[cur] = "RUNNING" /\ cur # IDLE_PID
             /\ p.ready = Append(RemoveFirst(m.ready, cur), cur)
    <3>1. cur \in ToSet(m.ready) /\ Distinct(m.ready) /\ cur \notin Waiting(m)
      BY <1>1, <2>5 DEF Exact, Waiting
    <3> DEFINE r == RemoveFirst(m.ready, cur)
    <3>2. r \in Seq(Pids) /\ Distinct(r) /\ ToSet(r) = ToSet(m.ready) \ {cur}
      BY <1>1, <3>1, RemoveMember
    <3>3. ToSet(Append(r, cur)) = ToSet(m.ready)
      <4> HIDE DEF r
      <4>1. ToSet(Append(r, cur)) = ToSet(r) \cup {cur}
        BY <1>1, <3>2, AppendMember
      <4>2. QED
        BY <3>1, <3>2, <4>1
    <3>4. KeepsOrder(m.ready, Append(r, cur), Waiting(m))
      BY <1>1, <3>1, RequeueKeepsOrder
    <3>5. QED
      BY <2>1, <2>3, <2>5, <3>3, <3>4
  <2>6. QED
    BY <2>2, <2>4, <2>5
<1>5. QED
  BY <1>3, <1>4

\* schedule() as a whole: who waits before and after was not overtaken.
LEMMA ScheduleTurns ==
  ASSUME NEW m, Schedulable(m), m.halted = "no", schedule(m).halted = "no"
  PROVE  /\ KeepsOrder(m.ready, schedule(m).ready, Waiting(schedule(m)) \cap Waiting(m))
         /\ ToSet(schedule(m).ready) \subseteq ToSet(m.ready)
<1> DEFINE c == CleanUp(m)
           k == schedule(m)
           W == Waiting(k) \cap Waiting(m)
<1>1. c.halted = "no" /\ k = Reschedule(c)
  BY DEF schedule
<1>2. Schedulable(c) /\ c.cleanup = NoPid
  BY <1>1, CleanUpGood
<1>3. /\ KeepsOrder(m.ready, c.ready, Waiting(c))
      /\ \A p \in Pids : c.status[p] \in {m.status[p], "none"}
  BY <1>1, CleanUpTurns
<1>4. ToSet(c.ready) \subseteq ToSet(m.ready)
  <2>1. /\ ToSet(m.ready) = {p \in Pids \ {IDLE_PID} : m.status[p] \in {"READY", "RUNNING", "KILLED"}}
        /\ ToSet(c.ready) = {p \in Pids \ {IDLE_PID} : c.status[p] \in {"READY", "RUNNING", "KILLED"}}
    BY <1>2 DEF Schedulable, Core, Exact
  <2> HIDE DEF c
  <2>2. QED
    BY <1>3, <2>1
<1> HIDE DEF c, k
<1>5. /\ KeepsOrder(c.ready, k.ready, Waiting(c)) /\ ToSet(k.ready) = ToSet(c.ready)
  BY <1>1, <1>2, RescheduleTurns DEF k
<1>6. Occupied(k) = Occupied(c)
  BY <1>1, <1>2, RescheduleKeeps DEF k, Schedulable, Core
<1>7. W \subseteq Waiting(c)
  BY <1>3, <1>6 DEF Waiting, Occupied
<1>8. KeepsOrder(m.ready, c.ready, W) /\ KeepsOrder(c.ready, k.ready, W)
  BY <1>3, <1>5, <1>7 DEF KeepsOrder
<1>9. KeepsOrder(m.ready, k.ready, W)
  BY <1>5, <1>8, KeepsOrderTwice
<1>10. QED
  BY <1>4, <1>5, <1>9 DEF k

\* Who waits through the step, by the variables.
StillWaiting == {p \in Pids : status[p] = "READY" /\ status'[p] = "READY"}

\* The steps that enter schedule().
LEMMA SwitchTurns ==
  ASSUME IInv, NEW n, HandsOver(n), Become(schedule(n))
  PROVE  KeepsOrder(readyList, readyList', StillWaiting)
<1> DEFINE k == schedule(n)
<1>1. CASE k.halted # "no"
  BY <1>1 DEF Become, KeepsOrder
<1>2. CASE k.halted = "no"
  <2>1. n.halted = "no" /\ Schedulable(n)
    BY <1>2 DEF schedule, HandsOver
  <2>2. /\ KeepsOrder(n.ready, k.ready, Waiting(k) \cap Waiting(n))
        /\ ToSet(k.ready) \subseteq ToSet(n.ready)
    BY <1>2, <2>1, ScheduleTurns
  <2> HIDE DEF k
  <2>3. status' = k.status /\ readyList' = k.ready
    BY <1>2 DEF Become, k
  <2>4. Waiting(Machine) \subseteq Waiting(n) /\ KeepsOrder(readyList, n.ready, Waiting(Machine))
    BY DEF HandsOver
  <2>5. StillWaiting \subseteq Waiting(Machine) /\ StillWaiting \subseteq Waiting(k) \cap Waiting(n)
    BY <2>3, <2>4, MachineFields DEF StillWaiting, Waiting
  <2>6. KeepsOrder(readyList, n.ready, StillWaiting) /\ KeepsOrder(n.ready, k.ready, StillWaiting)
    BY <2>2, <2>4, <2>5 DEF KeepsOrder
  <2>7. QED
    BY <2>2, <2>3, <2>6, KeepsOrderTwice
<1>3. QED
  BY <1>1, <1>2

\* A process that another one kills or blocks leaves the list, if it is there.
LEMMA LeaverTurns ==
  ASSUME IInv, NEW pid \in Pids, status'[pid] # "READY", readyList' = RemoveFirst(readyList, pid)
  PROVE  KeepsOrder(readyList, readyList', StillWaiting)
<1>1. Distinct(readyList) /\ readyList \in Seq(Pids)
  BY VariablesTyped, MachineFields DEF IInv, Sound, Schedulable, Core, Exact
<1>2. pid \notin StillWaiting
  BY DEF StillWaiting
<1>3. CASE pid \in ToSet(readyList)
  BY <1>1, <1>2, <1>3, RemoveKeepsOrder
<1>4. CASE pid \notin ToSet(readyList)
  BY <1>1, <1>4 DEF RemoveFirst, ToSet, KeepsOrder
<1>5. QED
  BY <1>3, <1>4

\* A kill of another process.
LEMMA KillTurns ==
  ASSUME IInv, NEW pid \in Pids, KillOther(pid)
  PROVE  KeepsOrder(readyList, readyList', StillWaiting)
<1> DEFINE b == Bereave(Machine, pid)
           f == FreeSlot(b, pid)
           n == [f EXCEPT !.ready = RemoveFirst(@, pid),
                          !.dangling = IF status[pid] = "KILLED" THEN "top"
                                       ELSE IF @ = "top" THEN "buried" ELSE @]
<1>1. Become(n) /\ Issues("kill")
  BY DEF KillOther
<1>2. SameScheduling(Machine, b)
  BY <1>1, FamilyOnly, MachineFields DEF Issues
<1> HIDE DEF b
<1>3. IsMachine(f) /\ f.status = [status EXCEPT ![pid] = "none"] /\ f.ready = readyList
  BY <1>2, MachineFields DEF FreeSlot, SameScheduling, IsMachine
<1> HIDE DEF f
<1>4. n.status = [status EXCEPT ![pid] = "none"] /\ n.ready = RemoveFirst(readyList, pid)
  BY <1>3 DEF IsMachine
<1> HIDE DEF n
<1>5. CASE halted' # "no"
  BY <1>1, <1>5 DEF Become, KeepsOrder
<1>6. CASE halted' = "no"
  <2>1. status' = n.status /\ readyList' = n.ready
    BY <1>1, <1>6 DEF Become
  <2>2. status'[pid] # "READY"
    BY <1>4, <2>1, VariablesTyped
  <2>3. QED
    BY <1>4, <2>1, <2>2, LeaverTurns
<1>7. QED
  BY <1>5, <1>6

\* A block of another process.
LEMMA BlockTurns ==
  ASSUME IInv, NEW pid \in Pids, Block(pid), pid # currentPID
  PROVE  KeepsOrder(readyList, readyList', StillWaiting)
<1> DEFINE n == [Machine EXCEPT !.status[pid] = "BLOCKED", !.ready = RemoveFirst(@, pid)]
<1>1. /\ n.status = [status EXCEPT ![pid] = "BLOCKED"]
      /\ n.ready = RemoveFirst(readyList, pid) /\ n.halted = halted /\ Become(n)
  BY MachineFields DEF Block, IsMachine
<1> HIDE DEF n
<1>2. status' = n.status /\ readyList' = n.ready
  BY <1>1 DEF Become, Block, Issues
<1>3. status'[pid] # "READY"
  BY <1>1, <1>2, VariablesTyped
<1>4. QED
  BY <1>1, <1>2, <1>3, LeaverTurns

\* A process that is created or woken goes to the tail.
LEMMA NewcomerTurns ==
  ASSUME IInv, NEW pid \in Pids,
         readyList' = readyList \/ readyList' = Append(readyList, pid)
  PROVE  KeepsOrder(readyList, readyList', StillWaiting)
<1>1. CASE readyList' = readyList
  BY <1>1 DEF KeepsOrder
<1>2. CASE readyList' = Append(readyList, pid)
  BY <1>2, AppendKeepsOrder, VariablesTyped
<1>3. QED
  BY <1>1, <1>2

\* No step lets a process that waits be overtaken.
LEMMA TurnsKept == IInv /\ [Next]_vars => KeepsOrder(readyList, readyList', StillWaiting)
<1> SUFFICES ASSUME IInv, [Next]_vars PROVE KeepsOrder(readyList, readyList', StillWaiting)
  OBVIOUS
<1>1. CASE Tick \/ Exit \/ Block(currentPID)
  BY <1>1, TickHandsOver, ExitHandsOver, BlockHandsOver, SwitchTurns
<1>2. ASSUME NEW pid \in Pids, KillSelf(pid)
      PROVE  KeepsOrder(readyList, readyList', StillWaiting)
  BY <1>2, KillSelfHandsOver, SwitchTurns
<1>3. ASSUME NEW pid \in Pids, KillOther(pid) \/ (Block(pid) /\ pid # currentPID)
      PROVE  KeepsOrder(readyList, readyList', StillWaiting)
  BY <1>3, KillTurns, BlockTurns
<1>4. ASSUME NEW prio \in Priorities, Create(prio)
      PROVE  KeepsOrder(readyList, readyList', StillWaiting)
  <2>1. availablePidValue \in Pids
    BY <1>4, AvailablePid DEF Create, CanCreate
  <2>2. readyList' = Append(readyList, availablePidValue)
    BY <1>4, MachineFields DEF Create, Issues, Become, IsMachine
  <2>3. QED
    BY <2>1, <2>2, NewcomerTurns
<1>5. ASSUME NEW pid \in Pids, Unblock(pid)
      PROVE  KeepsOrder(readyList, readyList', StillWaiting)
  <2>1. readyList' = Append(readyList, pid)
    BY <1>5, MachineFields DEF Unblock, Issues, Become, IsMachine
  <2>2. QED
    BY <2>1, NewcomerTurns
<1>6. ASSUME NEW pid \in Pids,
             \/ IncreasePriority(pid)
             \/ DecreasePriority(pid)
             \/ \E prio \in 0 .. HighestPriority + 1 : nice(pid, prio)
             \/ \E call \in VacantCalls : CallOnVacantSlot(call, pid)
             \/ CreateWithoutNode \/ UseMissingBlock \/ UncoverFreedNode \/ ReuseFreedNode
      PROVE  KeepsOrder(readyList, readyList', StillWaiting)
  <2>1. readyList' = readyList
    BY <1>6, MachineFields DEF IncreasePriority, DecreasePriority, nice,
       CallOnVacantSlot, CreateWithoutNode, UseMissingBlock, UncoverFreedNode,
       ReuseFreedNode, Become, IsMachine
  <2>2. QED
    BY <2>1, NewcomerTurns
<1>7. CASE UNCHANGED vars
  BY <1>7 DEF vars, KeepsOrder
<1>8. \E pid : pid \in Pids
  BY VariablesTyped
<1>9. QED
  BY <1>1, <1>2, <1>3, <1>4, <1>5, <1>6, <1>7, <1>8 DEF Next, Call, Allocation

-----------------------------------------------------------------------------
(***************************************************************************)
(* Families: the loops that hand over children, whatever lists they meet.  *)
(***************************************************************************)

ChildLists == {kids \in Seq(Pids) : Len(kids) <= MaxProcesses}

FamilyTyped(m) ==
  /\ m.parent \in [Pids -> Pids \cup {NoPid}]
  /\ m.children \in [Pids -> ChildLists]

\* What the loop of HandOverChildren carries from one turn to the next.
LoopStates ==
  [parent : [Pids -> Pids \cup {NoPid}], children : [Pids -> ChildLists],
   halted : {"no", "child"}]

FamilyInv == FamilyTyped(Machine)

\* A full list is shortened, so that childrenQty never passes MAX_PROCESSES.
LEMMA PushChildTyped ==
  ASSUME NEW kids \in ChildLists, NEW c \in Pids
  PROVE  PushChild(kids, c) \in ChildLists
<1>1. CASE Len(kids) < MaxProcesses
  BY <1>1, AppendProperties, SchedulerAssumption DEF PushChild, ChildLists
<1>2. CASE ~(Len(kids) < MaxProcesses)
  <2>1. kids \in Seq(Pids) /\ Len(kids) = MaxProcesses /\ c + 1 \in 1 .. MaxProcesses
    BY <1>2, SchedulerAssumption DEF ChildLists, Pids
  <2>2. SubSeq(kids, 1, c + 1) \in Seq(Pids) /\ Len(SubSeq(kids, 1, c + 1)) = c + 1
    BY <2>1, SubSeqProperties, SchedulerAssumption
  <2>3. QED
    BY <1>2, <2>1, <2>2 DEF PushChild, ChildLists
<1>3. QED
  BY <1>1, <1>2

LEMMA DropChildTyped ==
  ASSUME NEW kids \in ChildLists
  PROVE  DropChild(kids) \in ChildLists
<1>1. CASE kids = <<>>
  BY <1>1 DEF DropChild
<1>2. CASE kids # <<>>
  BY <1>2, SubSeqProperties, SchedulerAssumption DEF DropChild, Front, ChildLists
<1>3. QED
  BY <1>1, <1>2

\* One turn of the loop.  A child that is KILLED and has no parent would leave
\* the lists as they are.
LEMMA AdoptTyped ==
  ASSUME NEW m, NEW f \in LoopStates, NEW child \in Pids
  PROVE  Adopt(m, f, child) \in LoopStates
<1> DEFINE p == NewParent(m, f, child)
<1>1. p \in Pids \cup {NoPid}
  BY SchedulerAssumption DEF NewParent, LoopStates, Pids
<1>2. [f EXCEPT !.halted = "child"] \in LoopStates
  BY DEF LoopStates
<1>3. [f.parent EXCEPT ![child] = p] \in [Pids -> Pids \cup {NoPid}]
  BY <1>1 DEF LoopStates
<1>4. [f.children EXCEPT ![p] = PushChild(@, child)] \in [Pids -> ChildLists]
  BY <1>1, PushChildTyped DEF LoopStates
<1>5. [f EXCEPT !.parent[child] = p, !.children[p] = PushChild(@, child)] \in LoopStates
  BY <1>3, <1>4 DEF LoopStates
<1>6. QED
  BY <1>2, <1>5 DEF Adopt

\* All its turns: the loop is a function on them, with a value after each.
LEMMA HandOverTyped ==
  ASSUME NEW m, IsMachine(m), m.halted = "no", FamilyTyped(m), NEW dead \in Pids
  PROVE  FamilyTyped(HandOverChildren(m, dead))
<1> DEFINE start == [parent |-> m.parent, children |-> m.children, halted |-> m.halted]
           Turn(i, f) == IF f.halted # "no" \/ i > Len(f.children[dead]) THEN f
                         ELSE Adopt(m, f, f.children[dead][i])
           G(g) == [i \in 0 .. MaxProcesses |-> IF i = 0 THEN start ELSE Turn(i, g[i - 1])]
           loop == CHOOSE g : g = G(g)
           turn == [x \in (1 .. MaxProcesses) \X LoopStates |-> Turn(x[1], x[2])]
<1>1. start \in LoopStates
  BY DEF LoopStates, FamilyTyped
<1>2. ASSUME NEW i \in 1 .. MaxProcesses, NEW f \in LoopStates
      PROVE  Turn(i, f) \in LoopStates
  <2>1. CASE f.halted # "no" \/ i > Len(f.children[dead])
    BY <2>1
  <2>2. CASE ~(f.halted # "no" \/ i > Len(f.children[dead]))
    <3>1. f.children[dead] \in Seq(Pids) /\ i \in 1 .. Len(f.children[dead])
      BY <2>2 DEF LoopStates, ChildLists
    <3>2. f.children[dead][i] \in Pids
      BY <3>1
    <3>3. QED
      BY <2>2, <3>2, AdoptTyped
  <2>3. QED
    BY <2>1, <2>2
<1> HIDE DEF start, Turn
<1>3. \E g : g = G(g)
  <2>1. turn \in [(1 .. MaxProcesses) \X LoopStates -> LoopStates]
    <3>1. ASSUME NEW x \in (1 .. MaxProcesses) \X LoopStates
          PROVE  Turn(x[1], x[2]) \in LoopStates
      BY <1>2
    <3>2. QED
      BY <3>1
  <2> HIDE DEF turn
  <2>2. PICK g : Runs(g, LoopStates, MaxProcesses, start, turn)
    <3>1. MaxProcesses \in Nat
      BY SchedulerAssumption
    <3>2. QED
      BY <1>1, <2>1, <3>1, IterationExists, Zenon
  <2> USE DEF Runs
  <2>3. ASSUME NEW i \in 1 .. MaxProcesses
        PROVE  g[i] = Turn(i, g[i - 1])
    <3>1. i - 1 \in 0 .. MaxProcesses
      BY SchedulerAssumption
    <3>2. <<i, g[i - 1]>> \in (1 .. MaxProcesses) \X LoopStates
      BY <2>2, <3>1
    <3>3. turn[<<i, g[i - 1]>>] = Turn(i, g[i - 1])
      BY <3>2 DEF turn
    <3>4. QED
      BY <2>2, <3>3
  <2>4. ASSUME NEW i \in 0 .. MaxProcesses
        PROVE  g[i] = G(g)[i]
    BY <2>2, <2>3, SchedulerAssumption
  <2>5. g = G(g)
    BY <2>2, <2>4
  <2>6. QED
    BY <2>5
<1>4. loop = G(loop)
  BY <1>3
<1>5. HandOverChildren(m, dead) =
        [m EXCEPT !.parent = loop[MaxProcesses].parent,
                  !.children = loop[MaxProcesses].children,
                  !.halted = IF loop[MaxProcesses].halted = "no" THEN "no" ELSE "child"]
  BY DEF HandOverChildren, Turn, start
<1> HIDE DEF loop
<1>6. loop[MaxProcesses] \in LoopStates
  <2> DEFINE D == {i \in 0 .. MaxProcesses : loop[i] \notin LoopStates}
  <2> SUFFICES ASSUME D # {} PROVE FALSE
    BY SchedulerAssumption
  <2> DEFINE k == Min(D)
  <2>1. D \in SUBSET Nat
    OBVIOUS
  <2>2. k \in D /\ \A i \in D : k <= i
    BY <2>1, MinIsLeast
  <2> HIDE DEF k
  <2>3. k \in 0 .. MaxProcesses /\ loop[k] = IF k = 0 THEN start ELSE Turn(k, loop[k - 1])
    BY <1>4, <2>2
  <2>4. CASE k = 0
    BY <1>1, <2>2, <2>3, <2>4
  <2>5. CASE k # 0
    <3>1. k \in 1 .. MaxProcesses /\ k - 1 \in 0 .. MaxProcesses /\ k - 1 \notin D
      BY <2>2, <2>3, <2>5, SchedulerAssumption
    <3>2. loop[k - 1] \in LoopStates
      BY <3>1
    <3>3. QED
      BY <1>2, <2>2, <2>3, <2>5, <3>1, <3>2
  <2>6. QED
    BY <2>4, <2>5
<1>7. QED
  BY <1>5, <1>6 DEF FamilyTyped, LoopStates, IsMachine

\* A process leaves its family.
LEMMA BereaveTyped ==
  ASSUME NEW m, IsMachine(m), m.halted = "no", FamilyTyped(m), NEW dead \in Pids
  PROVE  FamilyTyped(Bereave(m, dead))
<1> DEFINE h == HandOverChildren(m, dead)
<1>1. FamilyTyped(h)
  BY HandOverTyped
<1>2. IsMachine(h)
  BY DEF HandOverChildren, IsMachine
<1> HIDE DEF h
<1>3. [h.children EXCEPT ![h.parent[dead]] = DropChild(@)] \in [Pids -> ChildLists]
  BY <1>1, DropChildTyped DEF FamilyTyped
<1>4. FamilyTyped(LeaveParent(h, dead))
  BY <1>1, <1>2, <1>3 DEF LeaveParent, FamilyTyped, IsMachine
<1>5. QED
  BY <1>4 DEF Bereave, h

\* A slot that is emptied has no parent and no children.
LEMMA FreeSlotTyped ==
  ASSUME NEW m, IsMachine(m), FamilyTyped(m), NEW pid \in Pids
  PROVE  FamilyTyped(FreeSlot(m, pid)) /\ IsMachine(FreeSlot(m, pid))
<1>1. <<>> \in ChildLists
  BY SchedulerAssumption, EmptySeq DEF ChildLists
<1>2. QED
  BY <1>1 DEF FreeSlot, FamilyTyped, IsMachine

\* schedule() changes families in its clean-up only.
LEMMA ScheduleTyped ==
  ASSUME NEW m, IsMachine(m), FamilyTyped(m), m.cleanup \in Pids \cup {NoPid}
  PROVE  FamilyTyped(schedule(m))
<1> DEFINE c == CleanUp(m)
<1>1. ASSUME m.halted = "no"
      PROVE  FamilyTyped(c) /\ IsMachine(c)
  <2> DEFINE b == Bereave(m, m.cleanup)
             f == FreeSlot(b, m.cleanup)
  <2>1. CASE m.cleanup = NoPid \/ m.status[m.cleanup] \in {"none", "BLOCKED"}
    BY <2>1 DEF CleanUp, FamilyTyped, IsMachine
  <2>2. CASE ~(m.cleanup = NoPid \/ m.status[m.cleanup] \in {"none", "BLOCKED"})
    <3>1. IsMachine(b) /\ FamilyTyped(b)
      BY <1>1, <2>2, BereaveTyped, FamilyOnly DEF SameScheduling
    <3> HIDE DEF b
    <3>2. FamilyTyped(f) /\ IsMachine(f)
      BY <2>2, <3>1, FreeSlotTyped
    <3>3. c = [f EXCEPT !.ready = RemoveFirst(@, m.cleanup), !.cleanup = NoPid,
                        !.dangling = IF @ = "top" THEN "buried" ELSE @]
      BY <2>2 DEF CleanUp, Bereave, b
    <3> HIDE DEF f
    <3>4. QED
      BY <3>2, <3>3 DEF FamilyTyped, IsMachine
  <2>3. QED
    BY <2>1, <2>2
<1>2. ASSUME m.halted = "no", c.halted = "no"
      PROVE  FamilyTyped(Reschedule(c))
  <2> HIDE DEF c
  <2> DEFINE p == Preempt(c)
  <2>1. FamilyTyped(c) /\ IsMachine(c)
    BY <1>1, <1>2 DEF c
  <2>2. IsMachine(p) /\ p.parent = c.parent /\ p.children = c.children
    BY <2>1 DEF Preempt, IsMachine
  <2> HIDE DEF p
  <2>3. ASSUME NEW q
        PROVE  /\ switchContext(p, q).parent = c.parent
               /\ switchContext(p, q).children = c.children
    BY <2>2 DEF switchContext, IsMachine
  <2>4. Reschedule(c).parent = c.parent /\ Reschedule(c).children = c.children
    BY <2>1, <2>3 DEF Reschedule, IsMachine, p
  <2>5. QED
    BY <2>1, <2>4 DEF FamilyTyped
<1>3. QED
  BY <1>1, <1>2 DEF schedule

\* A step keeps the types of the families if its outcome has them.
LEMMA BecomeTyped ==
  ASSUME NEW m, FamilyInv, FamilyTyped(m), Become(m)
  PROVE  FamilyInv'
BY MachineFields DEF FamilyInv, FamilyTyped, Become, Machine

\* No process has children at the start.
LEMMA FamilyInit == Init => FamilyInv
<1>1. <<>> \in ChildLists /\ IDLE_PID \in Pids
  BY SchedulerAssumption, EmptySeq DEF ChildLists, Pids
<1>2. QED
  BY <1>1, MachineFields DEF Init, FamilyInv, FamilyTyped

\* The entry a creation adds is within the array.
LEMMA AddChildrenTyped ==
  ASSUME IInv, FamilyInv, CanCreate
  PROVE  AddChildren \in [Pids -> ChildLists]
<1>1. availablePidValue \in Pids /\ currentPID \in Pids
  BY AvailablePid, VariablesTyped DEF CanCreate
<1>2. children[currentPID] \in Seq(Pids) /\ Len(children[currentPID]) < MaxProcesses
  BY <1>1, MachineFields DEF CanCreate, FamilyInv, FamilyTyped, ChildLists
<1>3. Append(children[currentPID], availablePidValue) \in ChildLists
  BY <1>1, <1>2, AppendProperties, SchedulerAssumption DEF ChildLists
<1>4. QED
  BY <1>3, MachineFields DEF AddChildren, FamilyInv, FamilyTyped

\* Every step keeps the types of the families.
LEMMA FamilyKept == IInv /\ FamilyInv /\ [Next]_vars => FamilyInv'
<1> SUFFICES ASSUME IInv, FamilyInv, [Next]_vars PROVE FamilyInv'
  OBVIOUS
<1>1. IsMachine(Machine) /\ FamilyTyped(Machine) /\ Machine.cleanup \in Pids \cup {NoPid}
  BY MachineFields, VariablesTyped DEF FamilyInv
<1>2. CASE Tick
  BY <1>1, <1>2, ScheduleTyped, BecomeTyped DEF Tick
<1>3. CASE Exit
  <2> DEFINE n == [[Machine EXCEPT !.status[currentPID] = "KILLED"]
                     EXCEPT !.rounds[currentPID] = 0]
  <2>1. IsMachine(n) /\ FamilyTyped(n) /\ n.cleanup \in Pids \cup {NoPid}
    BY <1>1 DEF IsMachine, FamilyTyped
  <2>2. Become(schedule(n))
    BY <1>3, MachineFields DEF Exit, yield, IsMachine
  <2>3. QED
    BY <2>1, <2>2, ScheduleTyped, BecomeTyped
<1>4. ASSUME NEW pid \in Pids, KillSelf(pid) PROVE FamilyInv'
  <2> DEFINE b == Bereave(Machine, pid)
             n == [b EXCEPT !.status[pid] = "KILLED"]
  <2>1. IsMachine(b) /\ FamilyTyped(b) /\ b.cleanup = Machine.cleanup
    BY <1>1, <1>4, BereaveTyped, FamilyOnly, MachineFields DEF KillSelf, Issues, SameScheduling
  <2>2. Become(schedule(n))
    BY <1>4 DEF KillSelf
  <2> HIDE DEF b
  <2>3. IsMachine(n) /\ FamilyTyped(n) /\ n.cleanup \in Pids \cup {NoPid}
    BY <1>1, <2>1 DEF IsMachine, FamilyTyped
  <2>4. QED
    BY <2>2, <2>3, ScheduleTyped, BecomeTyped
<1>5. ASSUME NEW pid \in Pids, KillOther(pid) PROVE FamilyInv'
  <2> DEFINE b == Bereave(Machine, pid)
             f == FreeSlot(b, pid)
             n == [f EXCEPT !.ready = RemoveFirst(@, pid),
                            !.dangling = IF status[pid] = "KILLED" THEN "top"
                                         ELSE IF @ = "top" THEN "buried" ELSE @]
  <2>1. IsMachine(b) /\ FamilyTyped(b)
    BY <1>1, <1>5, BereaveTyped, FamilyOnly, MachineFields DEF KillOther, Issues, SameScheduling
  <2>2. Become(n)
    BY <1>5 DEF KillOther
  <2> HIDE DEF b
  <2>3. IsMachine(f) /\ FamilyTyped(f)
    BY <2>1, FreeSlotTyped
  <2> HIDE DEF f
  <2>4. FamilyTyped(n)
    BY <2>3 DEF IsMachine, FamilyTyped
  <2>5. QED
    BY <2>2, <2>4, BecomeTyped
<1>6. ASSUME NEW pid \in Pids, Block(pid) PROVE FamilyInv'
  <2> DEFINE n == [Machine EXCEPT !.status[pid] = "BLOCKED", !.ready = RemoveFirst(@, pid)]
             k == [n EXCEPT !.rounds[n.current] = 0]
  <2>1. IsMachine(n) /\ FamilyTyped(n) /\ n.cleanup \in Pids \cup {NoPid}
    BY <1>1 DEF IsMachine, FamilyTyped
  <2>2. Become(IF pid = currentPID THEN yield(n) ELSE n)
    BY <1>6 DEF Block
  <2> HIDE DEF n
  <2>3. IsMachine(k) /\ FamilyTyped(k) /\ k.cleanup \in Pids \cup {NoPid}
    BY <2>1 DEF IsMachine, FamilyTyped
  <2>4. yield(n) = schedule(k)
    BY DEF yield
  <2> HIDE DEF k
  <2>5. QED
    BY <2>1, <2>2, <2>3, <2>4, ScheduleTyped, BecomeTyped
<1>7. ASSUME NEW prio \in Priorities, Create(prio) PROVE FamilyInv'
  <2> DEFINE pid == availablePidValue
  <2>1. PICK d \in AfterAllocation :
          Become([Machine EXCEPT
            !.dangling = d,
            !.status[pid] = "READY", !.ready = Append(@, pid), !.qty = @ + 1,
            !.parent[pid] = currentPID, !.children = AddChildren,
            !.priority[pid] = prio, !.rounds[pid] = 0])
    BY <1>7 DEF Create
  <2> DEFINE n == [Machine EXCEPT
            !.dangling = d,
            !.status[pid] = "READY", !.ready = Append(@, pid), !.qty = @ + 1,
            !.parent[pid] = currentPID, !.children = AddChildren,
            !.priority[pid] = prio, !.rounds[pid] = 0]
  <2>2. n.parent = [parentPID EXCEPT ![pid] = currentPID] /\ n.children = AddChildren
    BY MachineFields DEF IsMachine
  <2>3. Become(n)
    BY <2>1
  <2>4. FamilyTyped(n)
    <3> HIDE DEF n
    <3>1. AddChildren \in [Pids -> ChildLists]
      BY <1>7, AddChildrenTyped DEF Create
    <3>2. parentPID \in [Pids -> Pids \cup {NoPid}] /\ currentPID \in Pids
      BY <1>1, MachineFields, VariablesTyped DEF FamilyTyped
    <3> HIDE DEF pid
    <3>3. [parentPID EXCEPT ![pid] = currentPID] \in [Pids -> Pids \cup {NoPid}]
      BY <3>2
    <3>4. QED
      BY <2>2, <3>1, <3>3 DEF FamilyTyped
  <2> HIDE DEF n
  <2>5. QED
    BY <2>3, <2>4, BecomeTyped
<1>8. CASE CreateWithoutNode
  <2> DEFINE n == [Machine EXCEPT !.children = AddChildren]
  <2>1. AddChildren \in [Pids -> ChildLists] /\ Become(n)
    BY <1>8, AddChildrenTyped DEF CreateWithoutNode
  <2>2. FamilyTyped(n)
    BY <1>1, <2>1 DEF FamilyTyped, IsMachine
  <2>3. QED
    BY <2>1, <2>2, BecomeTyped
<1>9. ASSUME NEW pid \in Pids,
             \/ Unblock(pid)
             \/ IncreasePriority(pid)
             \/ DecreasePriority(pid)
             \/ \E prio \in 0 .. HighestPriority + 1 : nice(pid, prio)
             \/ \E call \in VacantCalls : CallOnVacantSlot(call, pid)
             \/ UseMissingBlock \/ UncoverFreedNode \/ ReuseFreedNode
      PROVE  UNCHANGED <<parentPID, children>>
  BY <1>9, MachineFields DEF Unblock, IncreasePriority, DecreasePriority, nice,
     CallOnVacantSlot, UseMissingBlock, UncoverFreedNode, ReuseFreedNode, Become, IsMachine
<1>10. ASSUME UNCHANGED <<parentPID, children>> PROVE FamilyInv'
  BY <1>1, <1>10 DEF FamilyInv, FamilyTyped, Machine
<1>11. \E pid : pid \in Pids
  BY VariablesTyped
<1>12. QED
  BY <1>2, <1>3, <1>4, <1>5, <1>6, <1>7, <1>8, <1>9, <1>10, <1>11
  DEF Next, Call, Allocation, vars

-----------------------------------------------------------------------------
(***************************************************************************)
(* The theorems.                                                           *)
(***************************************************************************)

\* The inductive invariant holds in every reachable state.
THEOREM InductiveInvariant == Spec => []IInv
BY InitSound, NextSound, PTL DEF Spec

\* Type correctness of everything schedule() works on: slots, list, current
\* process, pending clean-up, priorities and slices never leave their ranges.
THEOREM SchedulingTypeCorrect == Spec => []SchedulingTypeOK
<1>1. IInv => SchedulingTypeOK
  BY VariablesTyped DEF SchedulingTypeOK
<1>2. QED
  BY <1>1, InductiveInvariant, PTL

\* The families keep their types too: no list of children outgrows its array,
\* though a full one is written past its end, and no PID in it is foreign.
THEOREM TypeCorrect == Spec => []TypeOK
<1>1. IInv /\ FamilyInv => TypeOK
  BY VariablesTyped, MachineFields
  DEF TypeOK, SchedulingTypeOK, FamilyInv, FamilyTyped, ChildLists
<1>2. QED
  BY <1>1, InitSound, NextSound, FamilyInit, FamilyKept, PTL DEF Spec

\* Exact, said of the variables.
LEMMA ExactList == IInv => ReadyListExact
BY MachineFields DEF IInv, Sound, Schedulable, Core, Exact, Distinct,
   ReadyListExact, Linked

\* The ready list links exactly the processes that are READY, RUNNING or
\* KILLED and not freed, once each: every call of removeFromQueue() is given a
\* node that is linked and every call of queue() one that is not.
THEOREM ReadyListIsExact == Spec => []ReadyListExact
BY ExactList, InductiveInvariant, PTL

\* Leads, said with the function of the code.
LEMMA RunningLeads == IInv => RunningIsFirst
BY MachineFields, NextProcessLeads, VariablesTyped
DEF IInv, Sound, Schedulable, Core, RunningIsFirst

\* At most one process is RUNNING, the current one, and the round robin always
\* runs the first process of the list that has not ended.
THEOREM RunningProcessIsFirst == Spec => []RunningIsFirst
BY RunningLeads, InductiveInvariant, PTL

\* The part of Core about the shell and the idle process.
LEMMA ShellIsReady == IInv => IdleNeverRuns
BY MachineFields, VariablesTyped
DEF IInv, Sound, Schedulable, Core, IdleNeverRuns

\* The shell can always run, so the idle process, with the wrong stack pointer
\* runIdleProcess() would give it, never does.
THEOREM IdleProcessNeverRuns == Spec => []IdleNeverRuns
BY ShellIsReady, InductiveInvariant, PTL

\* One pending clean-up is enough: no process that has ended is forgotten.
THEOREM EveryZombieIsPending == Spec => []ZombieIsPending
<1>1. IInv => ZombieIsPending
  <2> SUFFICES ASSUME IInv, NEW p \in Pids, status[p] = "KILLED"
               PROVE  p = toCleanupPID
    BY DEF ZombieIsPending
  <2>1. p \in {toCleanupPID, currentPID}
    BY MachineFields DEF IInv, Sound, Schedulable
  <2>2. status[currentPID] \in {"RUNNING", "READY"}
    BY MachineFields DEF IInv, Sound, Schedulable, Core
  <2>3. QED
    BY <2>1, <2>2
<1>2. QED
  BY <1>1, InductiveInvariant, PTL

\* processQty, against which createProcess() tests MAX_PROCESSES, is the number
\* of slots in use, whatever the order of kills, exits and clean-ups.
THEOREM ProcessQtyIsExact == Spec => []ProcessQtyExact
<1>1. Init => ProcessQtyExact
  <2> SUFFICES ASSUME Init PROVE processQty = Cardinality(InUse)
    BY DEF ProcessQtyExact, InUse
  <2>1. InUse = {IDLE_PID} \cup {SHELL_PID}
    BY SchedulerAssumption DEF Init, InUse, Pids
  <2>2. Cardinality({IDLE_PID} \cup {SHELL_PID}) = 2
    <3> DEFINE S == {IDLE_PID}
    <3>1. IsFiniteSet(S) /\ Cardinality(S) = 1
      BY FS_Singleton, Zenon
    <3>2. SHELL_PID \notin S
      OBVIOUS
    <3> HIDE DEF S
    <3>3. Cardinality(S \cup {SHELL_PID}) = 1 + 1
      BY <3>1, <3>2, FS_AddElement
    <3>4. QED
      BY <3>3 DEF S
  <2>3. QED
    BY <2>1, <2>2 DEF Init
<1>2. QED
  BY <1>1, CountKept, InductiveInvariant, PTL DEF Spec

\* Round robin: through any call, kill, block or switch, a process that goes on
\* waiting READY keeps everyone behind it who still waits behind it.
THEOREM NobodyIsOvertaken == Spec => NoOvertaking
<1>1. ASSUME IInv, [Next]_vars
      PROVE  \A i, j \in DOMAIN readyList :
               /\ i < j
               /\ status[readyList[i]] = "READY" /\ status'[readyList[i]] = "READY"
               /\ readyList[j] \in ToSet(readyList')
               => \E k, l \in DOMAIN readyList' :
                    k < l /\ readyList'[k] = readyList[i] /\ readyList'[l] = readyList[j]
  <2> SUFFICES ASSUME NEW i \in DOMAIN readyList, NEW j \in DOMAIN readyList, i < j,
                      status[readyList[i]] = "READY", status'[readyList[i]] = "READY",
                      readyList[j] \in ToSet(readyList')
               PROVE  Before(readyList', readyList[i], readyList[j])
    BY DEF Before
  <2>1. readyList[i] \in StillWaiting
    BY <1>1, VariablesTyped DEF StillWaiting
  <2>2. Before(readyList, readyList[i], readyList[j])
    BY DEF Before
  <2>3. KeepsOrder(readyList, readyList', StillWaiting)
    BY <1>1, TurnsKept
  <2>4. QED
    BY <2>1, <2>2, <2>3 DEF KeepsOrder
<1>2. QED
  BY <1>1, InductiveInvariant, PTL DEF Spec, NoOvertaking

=============================================================================
