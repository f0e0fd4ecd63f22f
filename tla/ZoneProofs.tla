----------------------------- MODULE ZoneProofs -----------------------------
(***************************************************************************)
(* Proofs about module Zone, for any number of threads, names, types and   *)
(* values, and any requests; then, with them, what one request of the page *)
(* changes.                                                                *)
(*                                                                         *)
(* JobsOK is the shape of the requests. SoaInv carries ZoneKeepsSoa: a     *)
(* change writes back an apex that was read when it had its SOA, or a body *)
(* that was checked for one. QuietInv carries the rest: while nothing      *)
(* raced, at most one change is between its reads and its commit, and what *)
(* it has read is what is there. SentInv ties the request that a thread    *)
(* handles to the call of the page it was made for.                        *)
(***************************************************************************)
EXTENDS RecordsProofs

\* Time for a leaf that names no prover.
USE SMTT(30), ZenonT(30)

IsJob(j) ==
    \/ j = Idle
    \/ /\ j.phase \in {"sent", "read", "checked", "ok", "refused"}
       /\ j.op \in Ops /\ (j.op \in ZoneOps => j.name = Apex)

JobsOK ==
    /\ jobs = [t \in Threads |-> jobs[t]]
    /\ \A t \in Threads : IsJob(jobs[t])

ReadWithSoa(j) ==
    /\ j.name # Apex => Soa \in DOMAIN j.seen.apex
    /\ j.op # "delzone" /\ j.name = Apex =>
          j.op \in {"put", "newzone"} /\ Soa \in DOMAIN j.body

SoaInv ==
    /\ ZoneKeepsSoa
    /\ \A t \in Threads : Working(t) => ReadWithSoa(jobs[t])

ReadIsCurrent(j) ==
    /\ j.seen.serial = serial
    /\ j.op # "newzone" => Apex \in DOMAIN entries /\ j.seen.apex = entries[Apex]
    /\ j.op = "delete" => j.name \in DOMAIN entries /\ j.name # Apex

QuietInv ==
    /\ clash \in BOOLEAN /\ raced \in BOOLEAN /\ recreated \in BOOLEAN
    /\ ~raced /\ ~recreated =>
          /\ ~clash
          /\ serial \in Int /\ diffs \subseteq Int
          /\ \A d \in diffs : d <= serial
    /\ IndexIsExact
    /\ ~raced =>
          /\ \A t, u \in Threads : Working(t) /\ Working(u) => t = u
          /\ \A t \in Threads : Working(t) => ReadIsCurrent(jobs[t])

Inv == JobsOK /\ SoaInv /\ QuietInv

-----------------------------------------------------------------------------
\* A step of the zone is one of six kinds of step of a thread.
LEMMA StepCases ==
    ASSUME ZoneNext
    PROVE  \E t \in Threads :
              \/ \E op \in Ops : \E name, body : Gets(t, op, name, body)
              \/ Withdraw(t) \/ Lookup(t) \/ CheckNew(t) \/ Commit(t) \/ Answer(t)
<1>1. PICK t \in Threads :
         \/ \E op \in RrOps, name \in Names : \E body \in Bodies(name) : Receive(t, op, name, body)
         \/ \E op \in ZoneOps, body \in Bodies(Apex) : Receive(t, op, Apex, body)
         \/ Withdraw(t) \/ Lookup(t) \/ CheckNew(t) \/ Commit(t) \/ Answer(t)
  BY DEF ZoneNext
<1>2. CASE \E op \in RrOps, name \in Names : \E body \in Bodies(name) : Receive(t, op, name, body)
  <2>1. PICK op \in RrOps, name \in Names : \E body \in Bodies(name) : Receive(t, op, name, body)
    BY <1>2
  <2>2. op \in Ops
    BY DEF Ops
  <2>3. op \notin ZoneOps
    BY DEF RrOps, ZoneOps
  <2>. QED
    BY <2>1, <2>2, <2>3 DEF Gets
<1>3. CASE \E op \in ZoneOps, body \in Bodies(Apex) : Receive(t, op, Apex, body)
  <2>1. PICK op \in ZoneOps, body \in Bodies(Apex) : Receive(t, op, Apex, body)
    BY <1>3
  <2>2. op \in Ops
    BY DEF Ops
  <2>. QED
    BY <2>1, <2>2 DEF Gets
<1>. QED
  BY <1>1, <1>2, <1>3

\* Every step leaves each request in its shape.
LEMMA JobsInductive ==
    ASSUME JobsOK, ZoneNext
    PROVE  JobsOK'
<1>1. PICK t \in Threads :
         \/ \E op \in Ops : \E name, body : Gets(t, op, name, body)
         \/ Withdraw(t) \/ Lookup(t) \/ CheckNew(t) \/ Commit(t) \/ Answer(t)
  BY StepCases
<1>2. CASE \E op \in Ops : \E name, body : Gets(t, op, name, body)
  BY <1>2 DEF JobsOK, IsJob, Gets, Receive, Job
<1>3. CASE Lookup(t)
  BY <1>3 DEF JobsOK, IsJob, Lookup, Advanced, Job, Idle
<1>4. CASE CheckNew(t)
  BY <1>4 DEF JobsOK, IsJob, CheckNew, Advanced, Job, Idle
<1>5. CASE Commit(t)
  BY <1>5 DEF JobsOK, IsJob, Commit, ReadyToCommit, Advanced, Job, Idle
<1>6. CASE Withdraw(t) \/ Answer(t)
  BY <1>6 DEF JobsOK, IsJob, Withdraw, Answer
<1>. QED
  BY <1>1, <1>2, <1>3, <1>4, <1>5, <1>6

-----------------------------------------------------------------------------
\* A request that comes in is one that has read nothing yet.
LEMMA ReceiveStep ==
    ASSUME JobsOK, NEW t \in Threads, NEW op, NEW name, NEW body, Receive(t, op, name, body)
    PROVE  /\ \A u \in Threads \ {t} : jobs'[u] = jobs[u]
           /\ jobs'[t].phase = "sent"
BY DEF JobsOK, Receive, Job

\* A lookup either refuses the request, or leaves it with what it read and
\* notices whether another thread is at work.
LEMMA LookupStep ==
    ASSUME JobsOK, NEW t \in Threads, Lookup(t)
    PROVE  /\ \A u \in Threads \ {t} : jobs'[u] = jobs[u]
           /\ \/ jobs'[t].phase = "refused" /\ UNCHANGED raced
              \/ /\ ~Refuses(jobs[t])
                 /\ jobs'[t].phase = "read" /\ jobs'[t].seen = Seen(jobs[t].name)
                 /\ jobs'[t].op = jobs[t].op /\ jobs'[t].name = jobs[t].name
                 /\ jobs'[t].body = jobs[t].body
                 /\ raced' = (raced \/ \E u \in Threads \ {t} : Working(u))
BY DEF JobsOK, Lookup, Advanced, Job

\* The check of a POST refuses it, or leaves what it read as it was.
LEMMA CheckNewStep ==
    ASSUME JobsOK, NEW t \in Threads, CheckNew(t)
    PROVE  /\ \A u \in Threads \ {t} : jobs'[u] = jobs[u]
           /\ jobs[t].phase = "read"
           /\ \/ jobs'[t].phase = "refused"
              \/ jobs'[t].phase = "checked" /\ jobs'[t].seen = jobs[t].seen
           /\ jobs'[t].op = jobs[t].op
           /\ jobs'[t].name = jobs[t].name /\ jobs'[t].body = jobs[t].body
BY Zenon DEF JobsOK, CheckNew, Advanced, Job

\* A commit ends the work of a thread that was at work.
LEMMA CommitStep ==
    ASSUME JobsOK, NEW t \in Threads, Commit(t)
    PROVE  /\ \A u \in Threads \ {t} : jobs'[u] = jobs[u]
           /\ Working(t) /\ jobs[t].op \in Ops /\ jobs'[t].phase = "ok"
           /\ jobs[t].op \in ZoneOps => jobs[t].name = Apex
BY DEF JobsOK, IsJob, Commit, ReadyToCommit, Working, Advanced, Job, Idle

\* A request that is answered, or never arrives, leaves its thread idle.
LEMMA AnswerStep ==
    ASSUME JobsOK, NEW t \in Threads, Withdraw(t) \/ Answer(t)
    PROVE  /\ \A u \in Threads \ {t} : jobs'[u] = jobs[u]
           /\ jobs'[t].phase = "idle"
BY DEF JobsOK, Withdraw, Answer, Idle

-----------------------------------------------------------------------------
\* What a commit writes for the apex: nothing that lacks the SOA.
LEMMA WrittenHasSoa ==
    ASSUME NEW j, j.op \in Ops, ReadWithSoa(j), ZoneKeepsSoa, Apex \in DOMAIN Written(j)
    PROVE  Soa \in DOMAIN Written(j)[Apex]
<1>1. CASE j.op = "delzone"
  BY <1>1 DEF Written, Without, ZoneKeepsSoa
<1>2. CASE j.op # "delzone" /\ j.name = Apex
  <2>1. Written(j) = Bound(entries, Apex, j.body)
    BY Zenon, <1>2 DEF Written, Changed, RemovesName, NewEntry, ReadWithSoa
  <2>. QED
    BY Zenon, <1>2, <2>1 DEF Bound, ReadWithSoa
<1>3. CASE j.op # "delzone" /\ j.name # Apex
  <2>1. Written(j) = Bound(Changed(j), Apex, j.seen.apex)
    BY Zenon, <1>3 DEF Written
  <2>. QED
    BY Zenon, <1>3, <2>1 DEF Bound, ReadWithSoa
<1>. QED
  BY Zenon, <1>1, <1>2, <1>3

\* A request that is not refused has read an apex with a SOA, or brings one.
LEMMA LookupReadsSoa ==
    ASSUME NEW j, ~Refuses(j), ZoneKeepsSoa, j.op \in Ops, j.op \in ZoneOps => j.name = Apex
    PROVE  /\ j.name # Apex => Soa \in DOMAIN Seen(j.name).apex
           /\ j.op # "delzone" /\ j.name = Apex =>
                 j.op \in {"put", "newzone"} /\ Soa \in DOMAIN j.body
<1>1. ASSUME j.name # Apex PROVE Soa \in DOMAIN Seen(j.name).apex
  <2>1. j.op # "newzone"
    BY <1>1 DEF ZoneOps
  <2>2. Apex \in DOMAIN entries
    BY <2>1 DEF Refuses
  <2>. QED
    BY <2>2 DEF Seen, Found, ZoneKeepsSoa
<1>2. ASSUME j.op # "delzone", j.name = Apex
      PROVE  j.op \in {"put", "newzone"} /\ Soa \in DOMAIN j.body
  BY <1>2 DEF Refuses, Ops, RrOps, ZoneOps
<1>. QED
  BY Zenon, <1>1, <1>2

\* Every step keeps the SOA in the apex entry and in what requests have read.
LEMMA SoaInductive ==
    ASSUME JobsOK, SoaInv, ZoneNext
    PROVE  SoaInv'
<1>1. PICK t \in Threads :
         \/ \E op \in Ops : \E name, body : Gets(t, op, name, body)
         \/ Withdraw(t) \/ Lookup(t) \/ CheckNew(t) \/ Commit(t) \/ Answer(t)
  BY Zenon, StepCases
<1>2. CASE \E op \in Ops : \E name, body : Gets(t, op, name, body)
  <2>1. PICK op \in Ops : \E name, body : Receive(t, op, name, body)
    BY <1>2 DEF Gets
  <2>2. (\A u \in Threads \ {t} : jobs'[u] = jobs[u]) /\ jobs'[t].phase = "sent"
    BY Zenon, <2>1, ReceiveStep
  <2>. QED
    BY Zenon, <2>1, <2>2 DEF SoaInv, ZoneKeepsSoa, Working, ReadWithSoa, Receive
<1>3. CASE Lookup(t)
  <2>1. UNCHANGED entries
    BY <1>3 DEF Lookup
  <2>2. \A u \in Threads \ {t} : jobs'[u] = jobs[u]
    BY Zenon, <1>3, LookupStep
  <2>3. Working(t)' => ReadWithSoa(jobs[t])'
    <3>1. CASE jobs'[t].phase = "refused"
      BY Zenon, <3>1 DEF Working
    <3>2. CASE jobs'[t].phase # "refused"
      <4>1. /\ ~Refuses(jobs[t])
            /\ jobs'[t].seen = Seen(jobs[t].name)
            /\ jobs'[t].op = jobs[t].op /\ jobs'[t].name = jobs[t].name
            /\ jobs'[t].body = jobs[t].body
        BY <1>3, <3>2, LookupStep
      <4>2. jobs[t].op \in Ops /\ (jobs[t].op \in ZoneOps => jobs[t].name = Apex)
        BY <1>3 DEF Lookup, JobsOK, IsJob, Idle
      <4>. QED
        BY <4>1, <4>2, LookupReadsSoa DEF SoaInv, ReadWithSoa
    <3>. QED
      BY <3>1, <3>2
  <2>. QED
    BY <2>1, <2>2, <2>3 DEF SoaInv, ZoneKeepsSoa, Working, ReadWithSoa
<1>4. CASE CheckNew(t)
  <2>1. UNCHANGED entries
    BY Zenon, <1>4 DEF CheckNew
  <2>. QED
    BY <1>4, <2>1, CheckNewStep DEF SoaInv, ZoneKeepsSoa, Working, ReadWithSoa
<1>5. CASE Commit(t)
  <2>1. entries' = Written(jobs[t])
    BY Zenon, <1>5 DEF Commit
  <2>2. /\ \A u \in Threads \ {t} : jobs'[u] = jobs[u]
        /\ Working(t) /\ jobs[t].op \in Ops /\ jobs'[t].phase = "ok"
    BY <1>5, CommitStep
  <2>3. ZoneKeepsSoa'
    BY <2>1, <2>2, WrittenHasSoa DEF SoaInv, ZoneKeepsSoa
  <2>. QED
    BY <2>2, <2>3 DEF SoaInv, Working, ReadWithSoa
<1>6. CASE Withdraw(t) \/ Answer(t)
  <2>1. UNCHANGED entries
    BY Zenon, <1>6 DEF Withdraw, Answer, ghosts
  <2>. QED
    BY <1>6, <2>1, AnswerStep DEF SoaInv, ZoneKeepsSoa, Working, ReadWithSoa
<1>. QED
  BY <1>1, <1>2, <1>3, <1>4, <1>5, <1>6

-----------------------------------------------------------------------------
\* What a commit that raced with nothing writes.
LEMMA QuietWrite ==
    ASSUME NEW j, j.op \in Ops, j.op \in ZoneOps => j.name = Apex, ReadIsCurrent(j),
           zrrIx \ {Apex} = DOMAIN entries \ {Apex}
    PROVE  /\ Indexed(j) \ {Apex} = DOMAIN Written(j) \ {Apex}
           /\ j.op # "delzone" =>
                 \A n \in DOMAIN entries \ {j.name} :
                    n \in DOMAIN Written(j) /\ Written(j)[n] = entries[n]
<1>1. CASE j.op = "delzone"
  <2>1. Written(j) = Without(entries, {Apex}) /\ j.name = Apex
    BY <1>1 DEF Written, ZoneOps
  <2>2. Indexed(j) = zrrIx \union {Apex}
    BY Zenon, <1>1, <2>1 DEF Indexed, RemovesName
  <2>. QED
    BY <1>1, <2>1, <2>2 DEF Without
<1>2. CASE j.op # "delzone" /\ j.name = Apex
  <2>1. ~RemovesName(j) /\ j.op # "delete"
    BY <1>2 DEF RemovesName, ReadIsCurrent
  <2>2. Written(j) = Bound(entries, Apex, NewEntry(j))
    BY <1>2, <2>1 DEF Written, Changed
  <2>3. Indexed(j) = zrrIx \union {Apex}
    BY <1>2, <2>1 DEF Indexed
  <2>. QED
    BY <1>2, <2>2, <2>3 DEF Bound
<1>3. CASE j.op # "delzone" /\ j.name # Apex
  <2>1. Written(j) = Bound(Changed(j), Apex, entries[Apex]) /\ Apex \in DOMAIN entries
    BY <1>3 DEF Written, ReadIsCurrent, ZoneOps
  <2>2. CASE RemovesName(j)
    <3>1. Changed(j) = Without(entries, {j.name}) /\ Indexed(j) = zrrIx \ {j.name}
      BY Zenon, <2>2 DEF Changed, Indexed
    <3>. QED
      BY <1>3, <2>1, <3>1 DEF Bound, Without
  <2>3. CASE ~RemovesName(j)
    <3>1. Changed(j) = Bound(entries, j.name, NewEntry(j))
      BY <2>3 DEF Changed
    <3>2. Indexed(j) \ {Apex} = (DOMAIN entries \union {j.name}) \ {Apex}
      BY Zenon, <2>3 DEF Indexed, ReadIsCurrent
    <3>. QED
      BY <1>3, <2>1, <3>1, <3>2 DEF Bound
  <2>. QED
    BY <2>2, <2>3
<1>. QED
  BY <1>1, <1>2, <1>3

\* Every step keeps the index exact, reads current and serials new, as long as
\* nothing raced.
LEMMA QuietInductive ==
    ASSUME JobsOK, QuietInv, ZoneNext
    PROVE  QuietInv'
<1>1. PICK t \in Threads :
         \/ \E op \in Ops : \E name, body : Gets(t, op, name, body)
         \/ Withdraw(t) \/ Lookup(t) \/ CheckNew(t) \/ Commit(t) \/ Answer(t)
  BY StepCases
<1>2. CASE \E op \in Ops : \E name, body : Gets(t, op, name, body)
  <2>1. PICK op \in Ops : \E name, body : Receive(t, op, name, body)
    BY <1>2 DEF Gets
  <2>2. (\A u \in Threads \ {t} : jobs'[u] = jobs[u]) /\ jobs'[t].phase = "sent"
    BY <2>1, ReceiveStep
  <2>3. UNCHANGED <<entries, serial, diffs, zrrIx, clash, raced, recreated>>
    BY Zenon, <2>1 DEF Receive, ghosts
  <2>. QED
    BY <2>2, <2>3 DEF QuietInv, IndexIsExact, Working, ReadIsCurrent
<1>3. CASE Lookup(t)
  <2>1. UNCHANGED <<entries, serial, diffs, zrrIx, clash, recreated>>
    BY <1>3 DEF Lookup
  <2>2. \A u \in Threads \ {t} : jobs'[u] = jobs[u]
    BY <1>3, LookupStep
  <2>3. CASE jobs'[t].phase = "refused" /\ UNCHANGED raced
    BY <2>1, <2>2, <2>3 DEF QuietInv, IndexIsExact, Working, ReadIsCurrent
  <2>4. CASE /\ ~Refuses(jobs[t])
             /\ jobs'[t].phase = "read" /\ jobs'[t].seen = Seen(jobs[t].name)
             /\ jobs'[t].op = jobs[t].op /\ jobs'[t].name = jobs[t].name
             /\ raced' = (raced \/ \E u \in Threads \ {t} : Working(u))
    <3>1. raced' \in BOOLEAN /\ (~raced' => ~raced /\ \A u \in Threads \ {t} : ~Working(u))
      BY Zenon, <2>4
    <3>2. ReadIsCurrent(jobs[t])'
      BY <2>1, <2>4 DEF ReadIsCurrent, Seen, Found, Refuses
    <3>3. ~raced' => \A u, v \in Threads : Working(u)' /\ Working(v)' => u = v
      BY <2>2, <3>1 DEF Working
    <3>4. ~raced' => \A u \in Threads : Working(u)' => ReadIsCurrent(jobs[u])'
      BY <2>2, <3>1, <3>2 DEF Working
    <3>. QED
      BY Zenon, <2>1, <3>1, <3>3, <3>4 DEF QuietInv, IndexIsExact
  <2>. QED
    BY <1>3, <2>3, <2>4, LookupStep
<1>4. CASE CheckNew(t)
  <2>1. UNCHANGED <<entries, serial, diffs, zrrIx, clash, raced, recreated>>
    BY Zenon, <1>4 DEF CheckNew, ghosts
  <2>2. /\ \A u \in Threads \ {t} : jobs'[u] = jobs[u]
        /\ jobs[t].phase = "read"
        /\ \/ jobs'[t].phase = "refused"
           \/ jobs'[t].phase = "checked" /\ jobs'[t].seen = jobs[t].seen
        /\ jobs'[t].op = jobs[t].op /\ jobs'[t].name = jobs[t].name
    BY ZenonT(30), <1>4, CheckNewStep
  <2>. QED
    BY <2>1, <2>2 DEF QuietInv, IndexIsExact, Working, ReadIsCurrent
<1>5. CASE Commit(t)
  <2>1. /\ \A u \in Threads \ {t} : jobs'[u] = jobs[u]
        /\ Working(t) /\ jobs[t].op \in Ops /\ jobs'[t].phase = "ok"
        /\ jobs[t].op \in ZoneOps => jobs[t].name = Apex
    BY <1>5, CommitStep
  <2>2. entries' = Written(jobs[t]) /\ zrrIx' = Indexed(jobs[t]) /\ UNCHANGED raced
    BY Zenon, <1>5 DEF Commit
  <2>3. ~raced => ReadIsCurrent(jobs[t]) /\ \A u \in Threads \ {t} : ~Working(u)
    BY Zenon, <2>1 DEF QuietInv
  <2>4. ~raced => \A u \in Threads : ~Working(u)'
    BY <2>1, <2>3 DEF Working
  <2>5. IndexIsExact'
    BY <2>1, <2>2, <2>3, QuietWrite DEF QuietInv, IndexIsExact
  <2>6. clash' \in BOOLEAN /\ recreated' \in BOOLEAN
    BY Zenon, <1>5 DEF Commit, QuietInv
  <2>7. ~raced /\ ~recreated' =>
           /\ ~clash' /\ serial' \in Int /\ diffs' \subseteq Int
           /\ \A d \in diffs' : d <= serial'
    <3>0. recreated' = (recreated \/ jobs[t].op = "newzone")
      BY <1>5 DEF Commit
    <3>1. CASE jobs[t].op \in ZoneOps
      BY Zenon, <1>5, <3>0, <3>1 DEF Commit, QuietInv
    <3>2. CASE jobs[t].op \notin ZoneOps
      <4>1. /\ serial' = jobs[t].seen.serial + 1
            /\ diffs' = diffs \union {jobs[t].seen.serial + 1}
            /\ clash' = (clash \/ jobs[t].seen.serial + 1 \in diffs)
        BY Zenon, <1>5, <3>2 DEF Commit, NextSerial
      <4>2. ~raced => jobs[t].seen.serial = serial
        BY Zenon, <2>3 DEF ReadIsCurrent
      <4>. QED
        BY <3>0, <4>1, <4>2 DEF QuietInv
    <3>. QED
      BY Zenon, <3>1, <3>2
  <2>. QED
    BY <2>2, <2>4, <2>5, <2>6, <2>7 DEF QuietInv
<1>6. CASE Withdraw(t) \/ Answer(t)
  <2>1. UNCHANGED <<entries, serial, diffs, zrrIx, clash, raced, recreated>>
    BY <1>6 DEF Withdraw, Answer, ghosts
  <2>. QED
    BY <1>6, <2>1, AnswerStep DEF QuietInv, IndexIsExact, Working, ReadIsCurrent
<1>. QED
  BY <1>1, <1>2, <1>3, <1>4, <1>5, <1>6

-----------------------------------------------------------------------------
\* The three parts together are an invariant of the zone.
THEOREM InvHolds == ZoneSpec => []Inv
<1>1. ZoneInit => Inv
  <2>. SUFFICES ASSUME ZoneInit PROVE Inv
    OBVIOUS
  <2>1. JobsOK
    BY DEF ZoneInit, JobsOK, IsJob
  <2>2. \A t \in Threads : ~Working(t)
    BY Zenon DEF ZoneInit, Working, Idle
  <2>3. SoaInv
    BY <2>2, ZoneAssumption DEF ZoneInit, SoaInv, ZoneKeepsSoa
  <2>4. QuietInv
    <3>1. IndexIsExact
      BY DEF ZoneInit, IndexIsExact
    <3>2. serial \in Int /\ diffs = {}
      BY ZoneAssumption DEF ZoneInit
    <3>3. clash = FALSE /\ raced = FALSE /\ recreated = FALSE
      BY DEF ZoneInit
    <3>. QED
      BY Zenon, <2>2, <3>1, <3>2, <3>3 DEF QuietInv
  <2>. QED
    BY Zenon, <2>1, <2>3, <2>4 DEF Inv
<1>2. Inv /\ [ZoneNext]_zoneVars => Inv'
  <2>1. ASSUME Inv, ZoneNext PROVE Inv'
    BY <2>1, JobsInductive, SoaInductive, QuietInductive DEF Inv
  <2>2. ASSUME Inv, UNCHANGED zoneVars PROVE Inv'
    BY <2>2 DEF zoneVars, ghosts, Inv, JobsOK, SoaInv, ZoneKeepsSoa, QuietInv, IndexIsExact,
                Working, ReadWithSoa, ReadIsCurrent
  <2>. QED
    BY <2>1, <2>2
<1>. QED
  BY <1>1, <1>2, PTL DEF ZoneSpec

\* The apex entry never loses its SOA, whatever is sent by whom and however
\* the handlers interleave.
THEOREM SoaIsKept == ZoneSpec => []ZoneKeepsSoa
<1>1. Inv => ZoneKeepsSoa
  BY DEF Inv, SoaInv
<1>. QED
  BY <1>1, InvHolds, PTL

\* Without a race, the ZRR index has the names there are.
THEOREM IndexFollowsZone == ZoneSpec => []IndexIsExact
<1>1. Inv => IndexIsExact
  BY Zenon DEF Inv, QuietInv
<1>. QED
  BY <1>1, InvHolds, PTL

\* Without a race, every change of a zone that was not created again has a
\* serial of its own.
THEOREM SerialsAreUnique == ZoneSpec => []OwnSerialPerChange
<1>1. Inv => OwnSerialPerChange
  BY DEF Inv, QuietInv, OwnSerialPerChange
<1>. QED
  BY <1>1, InvHolds, PTL

\* Without a race, a change of one name leaves the other names, the apex
\* included, as they were.
THEOREM ChangesAreLocal == ZoneSpec => OthersUntouched
<1> DEFINE Local ==
        \A t \in Threads :
          ~raced /\ ReadyToCommit(t) /\ jobs[t].op # "delzone" /\ jobs'[t].phase = "ok" =>
             \A n \in DOMAIN entries \ {jobs[t].name} :
                n \in DOMAIN entries' /\ entries'[n] = entries[n]
<1>1. ASSUME Inv, ZoneNext PROVE Local
  <2>1. SUFFICES ASSUME NEW t \in Threads, ~raced, ReadyToCommit(t), jobs[t].op # "delzone",
                        jobs'[t].phase = "ok"
                 PROVE  \A n \in DOMAIN entries \ {jobs[t].name} :
                           n \in DOMAIN entries' /\ entries'[n] = entries[n]
    OBVIOUS
  <2>2. Working(t)
    BY <2>1 DEF ReadyToCommit, Working
  <2>3. PICK u \in Threads :
           \/ \E op \in Ops : \E name, body : Gets(u, op, name, body)
           \/ Withdraw(u) \/ Lookup(u) \/ CheckNew(u) \/ Commit(u) \/ Answer(u)
    BY Zenon, <1>1, StepCases
  <2>4. CASE Commit(u)
    <3>1. u = t
      BY Zenon, <2>1, <2>2, <2>4, <1>1, CommitStep DEF Inv, QuietInv
    <3>2. ReadIsCurrent(jobs[t]) /\ zrrIx \ {Apex} = DOMAIN entries \ {Apex}
      BY <1>1, <2>1, <2>2 DEF Inv, QuietInv, IndexIsExact
    <3>3. /\ entries' = Written(jobs[t])
          /\ jobs[t].op \in Ops /\ (jobs[t].op \in ZoneOps => jobs[t].name = Apex)
      BY Zenon, <1>1, <2>4, <3>1, CommitStep DEF Commit, Inv
    <3>. QED
      BY <2>1, <3>2, <3>3, QuietWrite
  <2>5. CASE ~Commit(u)
    BY Zenon, <2>3, <2>5 DEF Gets, Receive, Withdraw, Lookup, CheckNew, Answer
  <2>. QED
    BY <2>4, <2>5
<1>2. Inv /\ [ZoneNext]_zoneVars => [Local]_zoneVars
  BY <1>1
<1>. QED
  BY <1>2, InvHolds, PTL DEF ZoneSpec, OthersUntouched

-----------------------------------------------------------------------------
\* What a call asks of the zone, made from the table it was made from.
OpOf(c) == CASE c.kind = "deleteFqdn" -> "delete" [] c.kind = "addFqdn" -> "post" [] OTHER -> "put"
BodyOf(c) ==
    CASE c.kind \in {"deleteFqdn", "addFqdn"} -> NoEntry
      [] c.kind = "deleteRr" -> DeleteBody(c.base[c.name], c.type, c.ix)
      [] OTHER -> setValueInRr(c.base[c.name], c.type, c.ix, c.value, Malformed)

\* It is about a value the table had, or adds one that it may add.
AboutTable(c) ==
    /\ c.kind \in {"deleteRr", "addRr", "editRr"} =>
          c.name \in DOMAIN c.base /\ IsGood(c.name, c.base[c.name])
    /\ c.kind \in {"deleteRr", "editRr"} =>
          c.type \in DOMAIN c.base[c.name] /\ c.ix \in DOMAIN c.base[c.name][c.type]
    /\ c.kind = "addRr" =>
          c.ix = 0 /\ (c.type \in DOMAIN c.base[c.name] => rrProto[c.type].array)

\* The request of a thread is the one its call was made for.
Sent(c, j) ==
    c.kind \notin {"none", "list"} /\ c.base # NotLoaded /\ c.sound /\ j # Idle =>
        j.op = OpOf(c) /\ j.name = c.name /\ j.body = BodyOf(c) /\ AboutTable(c)

SentInv == \A s \in Threads : Sent(calls[s], jobs[s])

-----------------------------------------------------------------------------
\* A call that asks for the same, and a request that is the same or over.
SameCall(c, e) ==
    \/ e.kind \in {"none", "list"}
    \/ /\ e.kind = c.kind /\ e.name = c.name /\ e.base = c.base /\ e.sound = c.sound
       /\ c.kind \in ChangeKinds => e.type = c.type /\ e.ix = c.ix /\ e.value = c.value
SameJob(j, k) == k = Idle \/ (j # Idle /\ k.op = j.op /\ k.name = j.name /\ k.body = j.body)

\* A request stays the one its call was made for.
LEMMA SameIsSent ==
    ASSUME NEW c, CallFits(c), NEW e, NEW j, NEW k, Sent(c, j), SameCall(c, e), SameJob(j, k)
    PROVE  Sent(e, k)
<1>1. CASE e.kind \in {"none", "list"} \/ k = Idle
  BY Zenon, <1>1 DEF Sent
<1>2. CASE e.kind \notin {"none", "list"} /\ k # Idle
  <2>1. /\ e.kind = c.kind /\ e.name = c.name /\ e.base = c.base /\ e.sound = c.sound
        /\ c.kind \in ChangeKinds => e.type = c.type /\ e.ix = c.ix /\ e.value = c.value
        /\ j # Idle /\ k.op = j.op /\ k.name = j.name /\ k.body = j.body
    BY Zenon, <1>2 DEF SameCall, SameJob
  <2>2. c.kind = "addFqdn" \/ c.kind \in ChangeKinds
    BY <1>2, <2>1 DEF CallFits
  <2>3. OpOf(e) = OpOf(c) /\ BodyOf(e) = BodyOf(c)
    BY Zenon, <2>1, <2>2 DEF OpOf, BodyOf, ChangeKinds
  <2>4. AboutTable(c) => AboutTable(e)
    BY Zenon, <2>1, <2>2 DEF AboutTable, ChangeKinds
  <2>. QED
    BY <1>2, <2>1, <2>3, <2>4 DEF Sent
<1>. QED
  BY Zenon, <1>1, <1>2

\* A thread goes on with the request it has.
ServerStep(t) == Withdraw(t) \/ Lookup(t) \/ CheckNew(t) \/ Commit(t) \/ Answer(t)

\* The handlers change neither the operation nor the name nor the body.
LEMMA JobGoesOn ==
    ASSUME ZoneFits, NEW s \in Threads, ServerStep(s) \/ UNCHANGED zoneVars
    PROVE  \A t \in Threads : SameJob(jobs[t], jobs'[t])
<1>0. jobs = [t \in Threads |-> jobs[t]]
  BY DEF ZoneFits
<1>1. CASE UNCHANGED zoneVars
  BY <1>1 DEF SameJob, zoneVars
<1>2. CASE Withdraw(s) \/ Answer(s)
  BY Zenon, <1>0, <1>2 DEF SameJob, Withdraw, Answer
<1>3. ASSUME NEW phase, NEW seen, jobs' = [jobs EXCEPT ![s] = Advanced(jobs[s], phase, seen)],
             jobs[s].phase # "idle"
      PROVE  \A t \in Threads : SameJob(jobs[t], jobs'[t])
  <2>1. jobs'[s] = Job(phase, jobs[s].op, jobs[s].name, jobs[s].body, seen) /\ jobs[s] # Idle
    BY <1>0, <1>3 DEF Advanced, Idle
  <2>2. SameJob(jobs[s], jobs'[s])
    BY <2>1 DEF SameJob, Job
  <2>3. \A t \in Threads \ {s} : jobs'[t] = jobs[t]
    BY Zenon, <1>0, <1>3
  <2>. QED
    BY <2>2, <2>3 DEF SameJob
<1>4. CASE Lookup(s)
  BY <1>3, <1>4 DEF Lookup
<1>5. CASE CheckNew(s)
  BY Zenon, <1>3, <1>5 DEF CheckNew
<1>6. CASE Commit(s)
  BY Zenon, <1>3, <1>6 DEF Commit, ReadyToCommit
<1>. QED
  BY <1>1, <1>2, <1>4, <1>5, <1>6 DEF ServerStep

\* So they all stay as they were sent.
LEMMA SentGoesOn ==
    ASSUME RecInv, SentInv, \A t \in Threads : SameCall(calls[t], calls'[t]),
           \A t \in Threads : SameJob(jobs[t], jobs'[t])
    PROVE  SentInv'
BY Zenon, SameIsSent, CallsParts DEF SentInv, RecInv

\* One call becomes none, or one that asks for the same.
LEMMA OneCall ==
    ASSUME CallsFit, NEW s \in Threads, NEW c, calls' = [calls EXCEPT ![s] = c],
           SameCall(calls[s], c)
    PROVE  \A t \in Threads : SameCall(calls[t], calls'[t])
<1>1. calls'[s] = c /\ \A t \in Threads \ {s} : calls'[t] = calls[t]
  BY CallsParts
<1>. QED
  BY <1>1 DEF SameCall

\* A reload leaves the other calls what they ask for.
LEMMA ReloadedCalls ==
    ASSUME CallsFit, NEW s \in Threads, calls' = [FormsGone EXCEPT ![s] = ListCall]
    PROVE  \A t \in Threads : SameCall(calls[t], calls'[t])
<1>1. SameCall(calls[s], calls'[s])
  BY Zenon, FormsAreGone DEF SameCall, ListCall
<1>2. ASSUME NEW t \in Threads \ {s} PROVE SameCall(calls[t], calls'[t])
  <2>1. CASE calls[t].kind # "addFqdn"
    BY Zenon, <2>1, FormsAreGone DEF SameCall
  <2>2. CASE calls[t].kind = "addFqdn"
    <3>1. calls'[t] = [kind |-> "addFqdn", name |-> calls[t].name, lost |-> calls[t].lost,
                       form |-> FALSE, base |-> calls[t].base, sound |-> calls[t].sound]
      BY Zenon, <2>2, FormsAreGone
    <3>. QED
      BY <2>2, <3>1 DEF SameCall, ChangeKinds
  <2>. QED
    BY <2>1, <2>2
<1>. QED
  BY <1>1, <1>2

\* No call and a listing ask for no change.
LEMMA SmallCalls ==
    ASSUME NEW c, NEW e, e \in {NoCall, ListCall}
    PROVE  SameCall(c, e)
BY DEF SameCall, NoCall, ListCall

\* A new request, with its call.
LEMMA NewCall ==
    ASSUME RecInv, SentInv, NEW s \in Threads, NEW op, NEW name, NEW body, NEW c,
           Send(s, op, name, body, c),
           c.base # NotLoaded /\ c.sound =>
              op = OpOf(c) /\ name = c.name /\ body = BodyOf(c) /\ AboutTable(c)
    PROVE  SentInv'
<1>1. /\ jobs = [t \in Threads |-> jobs[t]] /\ calls = [t \in Threads |-> calls[t]]
      /\ jobs' = [jobs EXCEPT ![s] = Job("sent", op, name, body, NotSeen)]
      /\ calls' = [calls EXCEPT ![s] = c]
  BY DEF RecInv, ZoneFits, CallsFit, Send, Receive
<1>2. jobs'[s] = Job("sent", op, name, body, NotSeen) /\ calls'[s] = c
  BY ZenonT(30), <1>1
<1>3. Sent(calls'[s], jobs'[s])
  BY <1>2 DEF Sent, Job
<1>4. \A t \in Threads \ {s} : jobs'[t] = jobs[t] /\ calls'[t] = calls[t]
  BY <1>1
<1>. QED
  BY Zenon, <1>3, <1>4 DEF SentInv

\* A call whose answer is lost asks for the same.
LEMMA LostSame ==
    ASSUME NEW c, CallFits(c), c.kind # "none", NEW lost
    PROVE  SameCall(c, [c EXCEPT !.lost = lost])
<1> DEFINE l == [c EXCEPT !.lost = lost]
<1>1. CASE c.kind = "list"
  BY <1>1, LostCall DEF SameCall
<1>2. CASE c.kind = "addFqdn"
  <2>1. c = [kind |-> "addFqdn", name |-> c.name, lost |-> c.lost, form |-> c.form,
             base |-> c.base, sound |-> c.sound]
    BY <1>2 DEF CallFits
  <2>2. l = [kind |-> "addFqdn", name |-> c.name, lost |-> lost, form |-> c.form,
             base |-> c.base, sound |-> c.sound]
    BY <2>1
  <2>3. SameCall(c, l)
    BY Zenon, <1>2, <2>2 DEF SameCall, ChangeKinds
  <2>. QED
    BY Zenon, <2>3
<1>3. CASE c.kind \in ChangeKinds
  <2>1. c = [kind |-> c.kind, name |-> c.name, type |-> c.type, ix |-> c.ix, value |-> c.value,
             lost |-> c.lost, base |-> c.base, sound |-> c.sound]
    BY <1>3 DEF CallFits
  <2>2. l = [kind |-> c.kind, name |-> c.name, type |-> c.type, ix |-> c.ix, value |-> c.value,
             lost |-> lost, base |-> c.base, sound |-> c.sound]
    BY <2>1
  <2>3. SameCall(c, l)
    BY Zenon, <1>3, <2>2 DEF SameCall
  <2>. QED
    BY <2>3
<1>. QED
  BY <1>1, <1>2, <1>3 DEF CallFits

\* What the table showed, if it showed what the zone had.
LEMMA BaseIsView ==
    ASSUME NEW kind, NEW name, NEW type, NEW ix, NEW value, NEW sound, NEW c,
           c = ChangeCall(kind, name, type, ix, value, sound)
    PROVE  /\ c.kind = kind /\ c.name = name /\ c.type = type /\ c.ix = ix /\ c.value = value
           /\ c.sound = sound /\ (c.base # NotLoaded => c.base = ui.view)
BY DEF ChangeCall, Base

\* The four requests of the user are the ones their calls are made for.
LEMMA SentByUser ==
    ASSUME RecInv, SentInv, NEW s \in Threads,
           \/ \E name \in Names : deleteFqdn(s, name)
           \/ \E name \in DOMAIN ui.view : \E type \in DOMAIN ui.view[name] :
                 \E ix \in DOMAIN ui.view[name][type] : deleteRr(s, name, type, ix)
           \/ \E name \in TypedNames : submitFqdn(s, name)
           \/ \E value \in TypedValues : submitRr(s, value)
    PROVE  SentInv'
<1>0. PageInv
  BY DEF RecInv, PageInv
<1>1. ASSUME NEW name \in Names, deleteFqdn(s, name) PROVE SentInv'
  <2> DEFINE c == ChangeCall("deleteFqdn", name, NoType, 0, "", TRUE)
  <2>1. Send(s, "delete", name, NoEntry, c)
    BY Zenon, <1>1 DEF deleteFqdn
  <2>2. c.kind = "deleteFqdn" /\ c.name = name
    BY DEF ChangeCall
  <2> HIDE DEF c
  <2>3. OpOf(c) = "delete" /\ BodyOf(c) = NoEntry /\ AboutTable(c)
    BY ZenonT(30), <2>2 DEF OpOf, BodyOf, AboutTable
  <2>. QED
    BY <2>1, <2>2, <2>3, NewCall
<1>2. ASSUME NEW name \in DOMAIN ui.view, NEW type \in DOMAIN ui.view[name],
             NEW ix \in DOMAIN ui.view[name][type], deleteRr(s, name, type, ix)
      PROVE  SentInv'
  <2> DEFINE sound == Sound(name)
             c == ChangeCall("deleteRr", name, type, ix, "", sound)
  <2>1. Send(s, "put", name, DeleteBody(ui.rrs[name], type, ix), c) /\ Shown
    BY Zenon, <1>2 DEF deleteRr, Clickable
  <2> HIDE DEF sound
  <2>2. /\ c.kind = "deleteRr" /\ c.name = name /\ c.type = type /\ c.ix = ix
        /\ c.sound = sound /\ (c.base # NotLoaded => c.base = ui.view)
    BY DEF ChangeCall, Base
  <2> HIDE DEF c
  <2>3. OpOf(c) = "put"
    BY ZenonT(30), <2>2 DEF OpOf
  <2>4. IsGood(name, ui.view[name])
    BY ZenonT(30), <1>0, <2>1, ClickableTable
  <2>5. ASSUME c.base # NotLoaded, c.sound
        PROVE  DeleteBody(ui.rrs[name], type, ix) = BodyOf(c) /\ AboutTable(c)
    <3>1. c.base = ui.view /\ ui.rrs[name] = ui.view[name]
      BY ZenonT(30), <2>2, <2>5 DEF sound, Sound
    <3>. QED
      BY <2>2, <2>4, <3>1 DEF BodyOf, AboutTable
  <2>. QED
    BY ZenonT(30), <2>1, <2>2, <2>3, <2>5, NewCall
<1>3. ASSUME NEW name \in TypedNames, submitFqdn(s, name) PROVE SentInv'
  <2> DEFINE c == [kind |-> "addFqdn", name |-> name, lost |-> FALSE, form |-> TRUE,
                   base |-> Base, sound |-> TRUE]
  <2>1. Send(s, "post", name, NoEntry, c)
    BY <1>3 DEF submitFqdn
  <2>2. c.kind = "addFqdn" /\ c.name = name
    OBVIOUS
  <2> HIDE DEF c
  <2>3. OpOf(c) = "post" /\ BodyOf(c) = NoEntry /\ AboutTable(c)
    BY ZenonT(30), <2>2 DEF OpOf, BodyOf, AboutTable
  <2>. QED
    BY Zenon, <2>1, <2>2, <2>3, NewCall
<1>4. ASSUME NEW value \in TypedValues, submitRr(s, value) PROVE SentInv'
  <2> DEFINE d == ui.dialog
             edited == IF CollectFits(ui.form) THEN value ELSE Malformed
             new == setValueInRr(d.rr, ui.form.type, d.ix, edited, Malformed)
             sound == d.sound /\ d.name \in DOMAIN ui.view /\ d.rr = ui.view[d.name]
             c == ChangeCall(d.mode, d.name, ui.form.type, d.ix, edited, sound)
  <2>1. RrFormValid /\ ~SetThrows(d.rr, ui.form.type, d.ix) /\ Send(s, "put", d.name, new, c)
    BY ZenonT(30), <1>4 DEF submitRr
  <2> HIDE DEF edited, sound
  <2>2. /\ c.kind = d.mode /\ c.name = d.name /\ c.type = ui.form.type /\ c.ix = d.ix
        /\ c.value = edited /\ c.sound = sound /\ (c.base # NotLoaded => c.base = ui.view)
    <3>1. c = ChangeCall(d.mode, d.name, ui.form.type, d.ix, edited, sound)
      BY Zenon
    <3> HIDE DEF c, d
    <3>. QED
      BY <3>1, BaseIsView
  <2> HIDE DEF c
  <2>3. /\ d.mode \in {"addRr", "editRr"}
        /\ d.mode = "addRr" => d.ix = 0
        /\ d.mode = "editRr" => ui.form.type = d.type
    BY Zenon, <1>0, <2>1, FormType
  <2>4. OpOf(c) = "put"
    BY Zenon, <2>2, <2>3 DEF OpOf
  <2>5. ASSUME c.base # NotLoaded, c.sound PROVE new = BodyOf(c) /\ AboutTable(c)
    <3>1. c.base = ui.view /\ d.sound /\ d.name \in DOMAIN ui.view /\ d.rr = c.base[d.name]
      BY ZenonT(30), <2>2, <2>5 DEF sound
    <3>2. new = BodyOf(c)
      BY <2>2, <2>3, <3>1 DEF BodyOf
    <3>3. IsGood(d.name, ui.view[d.name])
      BY Zenon, <1>0, <2>1, <3>1, ClickableTable DEF RrFormValid, DialogShown
    <3>4. d.mode = "editRr" => d.type \in DOMAIN d.rr /\ d.ix \in DOMAIN d.rr[d.type]
      <4>1. DialogFits(d)
        BY ZenonT(30), <1>0, UiParts DEF PageInv
      <4>. QED
        BY Zenon, <3>1, <4>1 DEF DialogFits
    <3>5. d.mode = "addRr" => (ui.form.type \in DOMAIN d.rr => rrProto[ui.form.type].array)
      BY <2>1, <2>3 DEF SetThrows
    <3>. QED
      BY ZenonT(30), <2>2, <2>3, <3>1, <3>2, <3>3, <3>4, <3>5 DEF AboutTable
  <2>. QED
    BY ZenonT(30), <2>1, <2>2, <2>4, <2>5, NewCall
<1>. QED
  BY <1>1, <1>2, <1>3, <1>4

\* Every step leaves each request the one its call was made for.
LEMMA NextSent ==
    ASSUME RecInv, SentInv, [Next]_vars
    PROVE  SentInv'
<1>0. PageInv /\ ZoneFits /\ CallsFit
  BY DEF RecInv, PageInv
<1>a. ASSUME \A t \in Threads : SameCall(calls[t], calls'[t]),
             UNCHANGED zoneVars \/ \E s \in Threads : ServerStep(s)
      PROVE  SentInv'
  BY <1>0, <1>a, JobGoesOn, SentGoesOn
<1>b. ASSUME UNCHANGED calls PROVE \A t \in Threads : SameCall(calls[t], calls'[t])
  BY <1>b DEF SameCall
<1>c. ASSUME NEW s \in Threads, calls' = [calls EXCEPT ![s] = NoCall]
      PROVE  \A t \in Threads : SameCall(calls[t], calls'[t])
  BY Zenon, <1>0, <1>c, OneCall, SmallCalls
<1>d. ASSUME NEW s \in Threads, CallEnds(s) PROVE UNCHANGED zoneVars \/ ServerStep(s)
  <2>1. CASE Finished(s)
    BY Zenon, <1>d, <2>1 DEF CallEnds, ServerStep, Answer
  <2>2. CASE ~Finished(s)
    <3>1. jobs' = jobs
      BY <1>0, <1>d, <2>2 DEF CallEnds, ZoneFits
    <3>. QED
      BY Zenon, <1>d, <3>1 DEF CallEnds, zoneVars
  <2>. QED
    BY Zenon, <2>1, <2>2
<1>1. CASE UserOpens \/ UNCHANGED vars
  <2>1. UNCHANGED <<zoneVars, calls>>
    BY <1>0, <1>1, UserOpensStep DEF vars
  <2>. QED
    BY <1>a, <1>b, <2>1
<1>2. ASSUME NEW s \in Threads, User(s) PROVE SentInv'
  <2>1. CASE Reload(s) \/ onCancel(s)
    <3>1. calls' = [FormsGone EXCEPT ![s] = ListCall] /\ UNCHANGED zoneVars
      BY Zenon, <2>1 DEF Reload, onCancel, Reloading
    <3>. QED
      BY Zenon, <1>0, <1>a, <3>1, ReloadedCalls
  <2>2. CASE Reopen(s)
    <3>1. UNCHANGED zoneVars /\ \A t \in Threads : calls'[t] \in {NoCall, ListCall}
      BY <2>2 DEF Reopen
    <3>. QED
      BY <1>a, <3>1, SmallCalls
  <2>. QED
    BY <1>2, <2>1, <2>2, SentByUser DEF User
<1>3. ASSUME NEW s \in Threads, ServeList(s) PROVE SentInv'
  <2>1. PICK page : calls' = [calls EXCEPT ![s].page = page]
    BY Zenon, <1>3 DEF ServeList
  <2>2. calls[s].kind = "list" /\ UNCHANGED zoneVars /\ CallFits(calls[s])
    BY <1>0, <1>3, CallsParts DEF ServeList
  <2> DEFINE c == [kind |-> "list", page |-> page, lost |-> calls[s].lost]
  <2>3. [calls[s] EXCEPT !.page = page] = c
    BY <2>2 DEF CallFits
  <2>4. calls' = [calls EXCEPT ![s] = c] /\ SameCall(calls[s], c)
    BY Zenon, <2>1, <2>3 DEF SameCall
  <2> HIDE DEF c
  <2>. QED
    BY Zenon, <1>0, <1>a, <2>2, <2>4, OneCall
<1>4. ASSUME NEW s \in Threads, Serve(s) PROVE SentInv'
  <2>1. ServerStep(s) /\ UNCHANGED calls
    BY <1>4 DEF Serve, ServerStep
  <2>. QED
    BY <1>a, <1>b, <2>1
<1>5. ASSUME NEW s \in Threads, NetworkFails(s) PROVE SentInv'
  <2>1. /\ calls' = [calls EXCEPT ![s] = [calls[s] EXCEPT !.lost = TRUE]] /\ calls[s].kind # "none"
        /\ UNCHANGED zoneVars \/ ServerStep(s)
    BY <1>5 DEF NetworkFails, ServerStep
  <2>2. CallFits(calls[s])
    BY <1>0, CallsParts
  <2>3. SameCall(calls[s], [calls[s] EXCEPT !.lost = TRUE])
    BY <2>1, <2>2, LostSame, Zenon
  <2>4. \A t \in Threads : SameCall(calls[t], calls'[t])
    BY <1>0, <2>1, <2>3, OneCall, Zenon
  <2>. QED
    BY Zenon, <1>a, <2>1, <2>4
<1>6. ASSUME NEW s \in Threads, ListLoaded(s) PROVE SentInv'
  BY Zenon, <1>6, <1>a, <1>c DEF ListLoaded
<1>7. ASSUME NEW s \in Threads, ListFailed(s) PROVE SentInv'
  <2>1. UNCHANGED zoneVars /\ \A t \in Threads : calls'[t] \in {NoCall, ListCall}
    BY <1>7 DEF ListFailed
  <2>. QED
    BY <1>a, <2>1, SmallCalls
<1>8. ASSUME NEW s \in Threads, DeleteAnswered(s) \/ SaveAnswered(s) PROVE SentInv'
  <2>1. UNCHANGED zoneVars \/ ServerStep(s)
    BY <1>8, <1>d DEF DeleteAnswered, SaveAnswered
  <2>2. \/ calls' = [FormsGone EXCEPT ![s] = ListCall]
        \/ calls' = [calls EXCEPT ![s] = NoCall]
    BY <1>8 DEF DeleteAnswered, SaveAnswered, Reloading
  <2>3. \A t \in Threads : SameCall(calls[t], calls'[t])
    BY <1>0, <1>c, <2>2, ReloadedCalls
  <2>. QED
    BY <1>a, <2>1, <2>3
<1>9. ASSUME NEW s \in Threads, NEW r \in OtherRequests, OtherClient(s, r) PROVE SentInv'
  <2>1. /\ calls[s] = NoCall /\ UNCHANGED calls
        /\ jobs' = [jobs EXCEPT ![s] = Job("sent", r.op, r.name, r.body, NotSeen)]
    BY <1>9 DEF OtherClient, Free, Receive
  <2>2. \A t \in Threads \ {s} : jobs'[t] = jobs[t]
    BY <1>0, <2>1 DEF ZoneFits
  <2>3. \A j : Sent(NoCall, j)
    BY DEF Sent, NoCall
  <2>. QED
    BY Zenon, <2>1, <2>2, <2>3 DEF SentInv
<1>. QED
  BY <1>1, <1>2, <1>3, <1>4, <1>5, <1>6, <1>7, <1>8, <1>9 DEF Next

\* At first there is no request.
LEMMA InitSent ==
    ASSUME Init
    PROVE  SentInv
BY DEF Init, ZoneInit, SentInv, Sent, Idle

\* A request that is committed is committed by its own thread.
LEMMA OnlyCommits ==
    ASSUME ZoneFits, ZonePart, NEW s \in Threads, ReadyToCommit(s), jobs'[s].phase = "ok"
    PROVE  Commit(s)
<1>a. jobs = [t \in Threads |-> jobs[t]]
  BY Zenon DEF ZoneFits
<1>b. jobs[s].phase \in {"read", "checked"}
  BY Zenon DEF ReadyToCommit
<1>0. jobs = [t \in Threads |-> jobs[t]] /\ jobs[s].phase \in {"read", "checked"}
  BY Zenon, <1>a, <1>b
<1>1. CASE UNCHANGED zoneVars
  BY Zenon, <1>0, <1>1 DEF zoneVars
<1>2. ASSUME NEW t \in Threads, ThreadStep(t) PROVE Commit(s)
  <2>1. CASE t # s
    <3>1. \E j : jobs' = [jobs EXCEPT ![t] = j]
      BY Zenon, <1>2 DEF ThreadStep, Request, Gets, Receive, Withdraw, Lookup, CheckNew, Commit, Answer
    <3>2. jobs'[s] = jobs[s]
      BY Zenon, <1>a, <2>1, <3>1
    <3>. QED
      BY Zenon, <1>0, <3>2
  <2>2. CASE t = s
    <3>1. ~Request(s) /\ ~Withdraw(s) /\ ~Lookup(s) /\ ~Answer(s)
      BY <1>0 DEF Request, Gets, Receive, Withdraw, Lookup, Answer, Finished, Idle
    <3>2. ~CheckNew(s)
      BY <1>0 DEF CheckNew, Advanced, Job
    <3>. QED
      BY <1>2, <2>2, <3>1, <3>2 DEF ThreadStep
  <2>. QED
    BY <2>1, <2>2
<1>. QED
  BY <1>1, <1>2 DEF ZonePart

-----------------------------------------------------------------------------
\* What is sent for a value is the change of that value and nothing else.
LEMMA EmptySplice ==
    ASSUME NEW S, NEW v \in Seq(S), Len(v) = 1, NEW ix
    PROVE  splice(v, ix) = <<>>
<1>1. splice(v, ix) = [i \in 1..0 |-> IF i < ix THEN v[i] ELSE v[i + 1]]
  BY DEF splice
<1>2. 1..0 = {}
  OBVIOUS
<1>. QED
  BY <1>1, <1>2

\* An edit sets the value at its place; where there is one value, that one.
LEMMA EditedValues ==
    ASSUME NEW S, NEW v \in Seq(S), NEW ix \in DOMAIN v, NEW value, NEW hole
    PROVE  /\ ValueSet(v, ix, value, hole) = [v EXCEPT ![ix] = value]
           /\ Len(v) = 1 => <<value>> = [v EXCEPT ![ix] = value]
           /\ [v EXCEPT ![ix] = value] # <<>>
<1>1. ix \in Nat /\ 1 <= ix /\ ix <= Len(v) /\ Len(v) \in Nat /\ DOMAIN v = 1..Len(v)
  OBVIOUS
<1> DEFINE e == [v EXCEPT ![ix] = value]
<1>2. e = [i \in 1..Len(v) |-> IF i = ix THEN value ELSE v[i]]
  BY Zenon, <1>1
<1> HIDE DEF e
<1>3. ValueSet(v, ix, value, hole) = e
  BY <1>1, <1>2 DEF ValueSet
<1>4. e # <<>>
  <2>1. ix \in DOMAIN e
    BY <1>1, <1>2
  <2>2. DOMAIN <<>> = {}
    OBVIOUS
  <2>. QED
    BY <2>1, <2>2
<1>5. ASSUME Len(v) = 1 PROVE <<value>> = e
  <2>1. e = [i \in 1..1 |-> value]
    BY <1>1, <1>2, <1>5
  <2>2. <<value>> = [i \in 1..1 |-> value]
    OBVIOUS
  <2>. QED
    BY <2>1, <2>2
<1>. QED
  BY <1>3, <1>4, <1>5 DEF e

\* The values of a type after the change that a call asks for.
NewValues(rr, c) ==
    LET values == IF c.type \in DOMAIN rr THEN rr[c.type] ELSE <<>> IN
    CASE c.kind = "deleteRr" -> splice(values, c.ix)
      [] c.kind = "editRr" -> [values EXCEPT ![c.ix] = c.value]
      [] OTHER -> Append(values, c.value)
NewObject(rr, c) ==
    IF NewValues(rr, c) = <<>> THEN Without(rr, {c.type}) ELSE Bound(rr, c.type, NewValues(rr, c))

\* The body of a delete, an edit or an add is the object with that one value
\* changed, and without the type when no value is left.
LEMMA BodyIsExact ==
    ASSUME NEW c, c.kind \in {"deleteRr", "addRr", "editRr"}, AboutTable(c)
    PROVE  BodyOf(c) = NewObject(c.base[c.name], c)
<1> DEFINE rr == c.base[c.name]
           S == Values \union {Malformed}
           v == rr[c.type]
<1>0. IsObject(c.name, rr)
  BY DEF AboutTable, IsGood
<1>1. CASE c.kind = "deleteRr"
  <2>1. c.type \in DOMAIN rr /\ c.ix \in DOMAIN v
    BY ZenonT(30), <1>1 DEF AboutTable
  <2>2. v \in Seq(S) /\ v # <<>> /\ (rrProto[c.type].array \/ Len(v) = 1)
    BY <1>0, <2>1 DEF IsObject
  <2>3. NewValues(rr, c) = splice(v, c.ix)
    BY <1>1, <2>1 DEF NewValues
  <2>4. BodyOf(c) = DeleteBody(rr, c.type, c.ix)
    BY Zenon, <1>1 DEF BodyOf
  <2>5. /\ DeleteBody(rr, c.type, c.ix) =
              IF rrProto[c.type].array /\ Len(v) > 1 THEN Spliced(rr, c.type, c.ix)
              ELSE [t \in DOMAIN rr \ {c.type} |-> rr[t]]
        /\ Spliced(rr, c.type, c.ix) =
              IF rrProto[c.type].array /\ Len(v) > 1 /\ c.ix <= Len(v)
              THEN [rr EXCEPT ![c.type] = splice(v, c.ix)] ELSE rr
    BY DEF DeleteBody, Spliced
  <2> HIDE DEF S, rr, v
  <2>8. Len(v) \in Nat /\ c.ix \in Nat /\ c.ix <= Len(v) /\ 1 <= c.ix
    BY <2>1, <2>2
  <2>6. CASE Len(v) > 1
    <3>1. BodyOf(c) = [rr EXCEPT ![c.type] = splice(v, c.ix)]
      <4>1. rrProto[c.type].array
        <5>1. Len(v) # 1
          <6>1. ASSUME NEW k \in Nat, k > 1 PROVE k # 1
            BY <6>1
          <6>. QED
            BY Zenon, <2>6, <2>8, <6>1
        <5>. QED
          BY <2>2, <5>1, Zenon
      <4>. QED
        BY <2>4, <2>5, <2>6, <2>8, <4>1
    <3>2. splice(v, c.ix) # <<>>
      BY Zenon, <2>2, <2>6, SpliceValues
    <3>3. NewObject(rr, c) = Bound(rr, c.type, splice(v, c.ix))
      BY <2>3, <3>2 DEF NewObject
    <3>4. [rr EXCEPT ![c.type] = splice(v, c.ix)] = Bound(rr, c.type, splice(v, c.ix))
      BY Zenon, <2>1 DEF Bound
    <3>. QED
      BY Zenon, <3>1, <3>3, <3>4 DEF rr
  <2>7. CASE ~(Len(v) > 1)
    <3>1. BodyOf(c) = Without(rr, {c.type})
      BY <2>4, <2>5, <2>7 DEF Without
    <3>2. Len(v) = 1
      <4>1. ASSUME NEW k \in Nat, NEW i \in Nat, i <= k, 1 <= i, ~(k > 1) PROVE k = 1
        BY <4>1
      <4>. QED
        BY Zenon, <2>7, <2>8, <4>1
    <3>3. splice(v, c.ix) = <<>>
      BY Zenon, <2>2, <3>2, EmptySplice
    <3>. QED
      BY <2>3, <3>1, <3>3 DEF NewObject, rr
  <2>. QED
    BY Zenon, <2>6, <2>7
<1>2. CASE c.kind = "editRr"
  <2>1. c.type \in DOMAIN rr /\ c.ix \in DOMAIN v
    BY Zenon, <1>2 DEF AboutTable
  <2>2. v \in Seq(S) /\ (rrProto[c.type].array \/ Len(v) = 1)
    BY <1>0, <2>1 DEF IsObject
  <2>3. NewValues(rr, c) = [v EXCEPT ![c.ix] = c.value]
    BY <1>2, <2>1 DEF NewValues
  <2>4. BodyOf(c) = setValueInRr(rr, c.type, c.ix, c.value, Malformed)
    BY <1>2 DEF BodyOf
  <2> HIDE DEF S
  <2>5. c.ix \in Nat /\ c.ix # 0
    BY <2>1, <2>2
  <2> DEFINE n == IF rrProto[c.type].array THEN ValueSet(v, c.ix, c.value, Malformed) ELSE <<c.value>>
  <2>6. BodyOf(c) = Bound(rr, c.type, n)
    BY Zenon, <2>1, <2>4, <2>5 DEF setValueInRr, Bound
  <2> HIDE DEF rr, v
  <2>7. n = [v EXCEPT ![c.ix] = c.value] /\ n # <<>>
    <3>1. /\ ValueSet(v, c.ix, c.value, Malformed) = [v EXCEPT ![c.ix] = c.value]
          /\ Len(v) = 1 => <<c.value>> = [v EXCEPT ![c.ix] = c.value]
          /\ [v EXCEPT ![c.ix] = c.value] # <<>>
      BY <2>1, <2>2, EditedValues
    <3>. QED
      BY Zenon, <2>2, <3>1
  <2>8. BodyOf(c) = NewObject(rr, c)
    BY Zenon, <2>3, <2>6, <2>7 DEF NewObject
  <2>. QED
    BY Zenon, <2>8 DEF rr
<1>3. CASE c.kind = "addRr"
  <2> DEFINE w == IF c.type \in DOMAIN rr THEN rr[c.type] ELSE <<>>
  <2>1. c.ix = 0 /\ (c.type \in DOMAIN rr => rrProto[c.type].array)
    BY Zenon, <1>3 DEF AboutTable
  <2>2. w \in Seq(S)
    BY <1>0 DEF IsObject
  <2>3. NewValues(rr, c) = Append(w, c.value)
    BY Zenon, <1>3 DEF NewValues
  <2>4. BodyOf(c) = setValueInRr(rr, c.type, 0, c.value, Malformed)
    BY Zenon, <1>3, <2>1 DEF BodyOf
  <2>5. BodyOf(c) = Bound(rr, c.type, Append(w, c.value))
    <3>1. CASE rrProto[c.type].array
      BY <2>4, <3>1 DEF setValueInRr, Bound
    <3>2. CASE ~rrProto[c.type].array
      <4>1. w = <<>> /\ Append(<<>>, c.value) = <<c.value>>
        BY <2>1, <3>2
      <4>. QED
        BY Zenon, <2>4, <3>2, <4>1 DEF setValueInRr, Bound
    <3>. QED
      BY <3>1, <3>2
  <2> HIDE DEF S, w
  <2>6. Append(w, c.value) # <<>>
    <3>1. w \in Seq(S \union {c.value})
      <4>1. ASSUME NEW x \in Seq(S), NEW T, S \subseteq T PROVE x \in Seq(T)
        <5>1. x = [i \in 1..Len(x) |-> x[i]] /\ Len(x) \in Nat /\ \A i \in 1..Len(x) : x[i] \in T
          BY <4>1
        <5>. QED
          BY <5>1
      <4>. QED
        BY <2>2, <4>1
    <3>. QED
      BY <3>1, AppendValues
  <2>. QED
    BY Zenon, <2>3, <2>5, <2>6 DEF NewObject
<1>. QED
  BY <1>1, <1>2, <1>3

\* A commit of the page writes the change of its name, and the apex as it is.
LEMMA WrittenIsChanged ==
    ASSUME NEW j, j.op \in Ops, j.op # "delzone", ReadWithSoa(j), j.seen.apex = Found(Apex)
    PROVE  Written(j) = Changed(j) /\ (j.name = Apex => j.op \in {"put", "newzone"})
<1>1. CASE j.name = Apex
  BY <1>1 DEF Written, ReadWithSoa
<1>2. CASE j.name # Apex
  <2>1. Soa \in DOMAIN Found(Apex)
    BY <1>2 DEF ReadWithSoa
  <2>2. Apex \in DOMAIN entries
    BY <2>1 DEF Found, NoEntry
  <2>3. Written(j) = Bound(Changed(j), Apex, entries[Apex])
    BY <1>2, <2>2 DEF Written, Found
  <2>4. CASE RemovesName(j)
    <3>1. Changed(j) = Without(entries, {j.name})
      BY <2>4 DEF Changed
    <3>. QED
      BY <1>2, <2>2, <2>3, <3>1 DEF Bound, Without
  <2>5. CASE ~RemovesName(j)
    <3>1. Changed(j) = Bound(entries, j.name, NewEntry(j))
      BY <2>5 DEF Changed
    <3>. QED
      BY <1>2, <2>2, <2>3, <3>1 DEF Bound
  <2>. QED
    BY <1>2, <2>4, <2>5
<1>. QED
  BY <1>1, <1>2

\* It is what the user asked for.
LEMMA ChangedIsIntended ==
    ASSUME NEW c, c.kind \in {"addFqdn"} \union ChangeKinds, c.base = entries, AboutTable(c),
           NEW j, j.op = OpOf(c), j.name = c.name, j.body = BodyOf(c)
    PROVE  Changed(j) = Intended(entries, c)
<1>1. CASE c.kind = "deleteFqdn"
  <2>1. j.op = "delete" /\ DOMAIN j.body = {}
    BY <1>1 DEF OpOf, BodyOf, NoEntry
  <2>. QED
    BY <1>1, <2>1 DEF Changed, RemovesName, Intended
<1>2. CASE c.kind = "addFqdn"
  <2>1. j.op = "post" /\ j.body = NoEntry
    BY <1>2 DEF OpOf, BodyOf
  <2>. QED
    BY <1>2, <2>1 DEF Changed, RemovesName, NewEntry, Intended
<1>3. CASE c.kind \in {"deleteRr", "addRr", "editRr"}
  <2>1. j.op = "put" /\ j.body = NewObject(entries[c.name], c)
    BY <1>3, BodyIsExact DEF OpOf
  <2>2. Changed(j) = Bound(entries, c.name, NewObject(entries[c.name], c))
    BY ZenonT(30), <2>1 DEF Changed, RemovesName, NewEntry
  <2>3. Intended(entries, c) = Bound(entries, c.name, NewObject(entries[c.name], c))
    BY <1>3 DEF Intended, NewObject, NewValues
  <2>. QED
    BY <2>2, <2>3
<1>. QED
  BY <1>1, <1>2, <1>3 DEF ChangeKinds

\* A request that the page made from an unchanged object of a table that showed the zone is
\* the change of the one value it names, until it is answered.
THEOREM SentInvariance == Spec => []SentInv
<1>1. Init => SentInv
  BY InitSent
<1>2. RecInv /\ SentInv /\ [Next]_vars => SentInv'
  BY NextSent
<1>. QED
  BY <1>1, <1>2, RecordsInvariance, PTL DEF Spec

\* deleteFqdn, deleteRr, AddFqdn.submit and AddRr.submit change what they name and nothing
\* else, under the conditions that EditIsExact lists.
THEOREM EditsAreExact == Spec => EditIsExact
<1> DEFINE Exact ==
        \A s \in Threads : Commits(s) /\ calls[s].sound => entries' = Intended(entries, calls[s])
<1>1. ASSUME RecInv, SentInv, Inv, [Next]_vars PROVE [Exact]_vars
  <2>1. SUFFICES ASSUME NEW s \in Threads, Commits(s), calls[s].sound
                 PROVE  entries' = Intended(entries, calls[s])
    OBVIOUS
  <2> DEFINE c == calls[s]
             j == jobs[s]
  <2>2. /\ c.kind \notin {"none", "list"} /\ ReadyToCommit(s) /\ jobs'[s].phase = "ok"
        /\ c.base = entries /\ j.seen.apex = Found(Apex)
    BY <2>1 DEF Commits
  <2>3. Commit(s)
    BY <1>1, <2>2, NextRec, OnlyCommits DEF RecInv
  <2>4. j.phase \in {"read", "checked"} /\ j # Idle /\ j.op \in Ops /\ ReadWithSoa(j)
    <3>1. j.phase \in {"read", "checked"} /\ j # Idle
      BY <2>2 DEF ReadyToCommit, Idle
    <3>. QED
      BY <1>1, <3>1 DEF Inv, SoaInv, Working, JobsOK, IsJob
  <2>5. c.base # NotLoaded
    <3>1. DOMAIN entries \subseteq Names
      BY Zenon, <1>1 DEF RecInv, ZoneFits, IsTable
    <3>. QED
      BY Zenon, <2>2, <3>1, TableIsLoaded
  <2>6. j.op = OpOf(c) /\ j.name = c.name /\ j.body = BodyOf(c) /\ AboutTable(c)
    <3>1. Sent(c, j)
      BY Zenon, <1>1 DEF SentInv
    <3>. QED
      BY Zenon, <2>1, <2>2, <2>4, <2>5, <3>1 DEF Sent
  <2>7. c.kind \in {"addFqdn"} \union ChangeKinds
    BY <1>1, <2>2, CallsParts DEF RecInv, CallFits
  <2>8. j.op # "delzone"
    BY <2>6 DEF OpOf
  <2>9. entries' = Written(j)
    BY <2>3 DEF Commit
  <2> HIDE DEF c, j
  <2>10. Written(j) = Changed(j)
    BY <2>2, <2>4, <2>8, WrittenIsChanged
  <2>11. Changed(j) = Intended(entries, c)
    BY <2>2, <2>6, <2>7, ChangedIsIntended
  <2>. QED
    BY <2>9, <2>10, <2>11 DEF c
<1>. QED
  BY <1>1, RecordsInvariance, SentInvariance, PageDrivesTheZone, InvHolds, PTL DEF Spec, EditIsExact

\* What the handlers keep whatever their clients send, they keep for this page: the SOA of the
\* apex, and without a race the index, the serials of the diffs and the names not changed.
THEOREM PageKeepsTheZone ==
    Spec => []ZoneKeepsSoa /\ []IndexIsExact /\ []OwnSerialPerChange /\ OthersUntouched
BY PageDrivesTheZone, SoaIsKept, IndexFollowsZone, SerialsAreUnique, ChangesAreLocal, PTL
=============================================================================
