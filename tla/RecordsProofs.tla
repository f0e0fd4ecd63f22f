--------------------------- MODULE RecordsProofs ----------------------------
(***************************************************************************)
(* Proofs about the page of module Records and the zone that it changes,   *)
(* for any names, types and values, any number of calls and of other       *)
(* requests.                                                               *)
(*                                                                         *)
(* RecInv is the shape of the database and of the requests (ZoneFits), of  *)
(* the table, its dialog and its form (UiFits) and of the calls of the page*)
(* (CallsFit). SpinnerHasItsListing is a part of it: that a listing is in  *)
(* flight is what keeps it while other calls end.                          *)
(***************************************************************************)
EXTENDS Records, TLAPS

\* Time for a leaf that names no prover.
USE SMTT(30), ZenonT(30)

\* Thread t receives a request that ZoneNext allows.
Gets(t, op, name, body) == Receive(t, op, name, body) /\ (op \in ZoneOps => name = Apex)

-----------------------------------------------------------------------------
(* The shape of the zone, its requests, the page and its requests.         *)

\* What is in the database: an object without anything malformed.
IsGood(name, e) == IsObject(name, e) /\ WellFormed(e)

IsTable(p) == DOMAIN p \subseteq Names /\ \A n \in DOMAIN p : IsGood(n, p[n])

JobFits(j) ==
    \/ j = Idle
    \/ /\ j = Job(j.phase, j.op, j.name, j.body, j.seen)
       /\ j.phase \in {"sent", "read", "checked", "ok", "refused"}
       /\ j.op \in Ops /\ j.name \in Names /\ (j.op \in ZoneOps => j.name = Apex)
       /\ IsObject(j.name, j.body)
       /\ j.phase \in {"read", "checked"} =>
             /\ WellFormed(j.body) /\ IsGood(j.name, j.seen.old) /\ IsGood(Apex, j.seen.apex)
             /\ j.seen.serial \in Nat

ZoneFits ==
    /\ IsTable(entries) /\ serial \in Nat /\ zrrIx \subseteq Names
    /\ jobs = [t \in Threads |-> jobs[t]] /\ \A t \in Threads : JobFits(jobs[t])

\* The table: the names it shows are the ones its objects are for.
TableFits(u) ==
    /\ u = [rrs |-> u.rrs, view |-> u.view, error |-> u.error, dialog |-> u.dialog, form |-> u.form]
    /\ u.error \in BOOLEAN /\ (u.error => u.dialog = NoDialog)
    /\ u.rrs # NotLoaded =>
          /\ IsTable(u.view) /\ DOMAIN u.rrs = DOMAIN u.view
          /\ \A n \in DOMAIN u.rrs : IsObject(n, u.rrs[n])

\* The dialog holds an object of the name it is about. An edit made from what
\* the table showed is about a value that is there.
DialogFits(d) ==
    /\ d.mode \in {"closed", "addFqdn", "addRr", "editRr"}
    /\ d.mode = "closed" => d = NoDialog
    /\ d.mode \in {"addRr", "editRr"} =>
          /\ d.name \in Names /\ IsObject(d.name, d.rr) /\ d.sound \in BOOLEAN
    /\ d.mode = "addRr" =>
          d = [mode |-> "addRr", name |-> d.name, ix |-> 0, rr |-> d.rr, sound |-> d.sound]
    /\ d.mode = "editRr" =>
          /\ d = [mode |-> "editRr", name |-> d.name, type |-> d.type, ix |-> d.ix,
                  rr |-> d.rr, sound |-> d.sound]
          /\ d.type \in Types /\ d.ix \in Nat \ {0} /\ (d.type = Soa => d.name = Apex)
          /\ d.sound => d.type \in DOMAIN d.rr /\ d.ix \in DOMAIN d.rr[d.type]

FieldNames ==
    {"value", "mname", "email", "refresh", "retry", "expire", "minimum", "host", "priority", "cpu",
     "os", "mbox", "txt", "subtype", "target", "weight", "port"}

\* A name stands at the same place in every prototype that has it, and an
\* input keeps the place it was mounted at.
InPlace(name, i) ==
    \E t \in DOMAIN rrProto : i \in DOMAIN rrProto[t].fields /\ rrProto[t].fields[i] = name

IsAddForm(f) ==
    /\ f = [type |-> f.type, inputs |-> f.inputs, gone |-> f.gone, offered |-> f.offered,
            selections |-> f.selections]
    /\ f.type = NoType \/ (f.type \in Types /\ rrProto[f.type].canAdd)
    /\ f.offered \subseteq {t \in DOMAIN rrProto : rrProto[t].canAdd}
    /\ f.inputs \in Seq(FieldNames) /\ Len(f.inputs) = Len(Fields(f.type))
    /\ \A i \in DOMAIN f.inputs : InPlace(f.inputs[i], i)

FormFits(f, d) ==
    /\ d.mode = "closed" => f = NoForm
    /\ d.mode = "addFqdn" => f \in {NoForm, NameForm, [type |-> "failed"]}
    /\ d.mode = "addRr" => f = NoForm \/ IsAddForm(f)
    /\ d.mode = "editRr" => f = NoForm \/ f.type = d.type

\* A table with a dialog has the dialog's form, and nothing else has one.
UiFits ==
    /\ TableFits(ui) /\ DialogFits(ui.dialog) /\ FormFits(ui.form, ui.dialog)
    /\ DialogShown <=> ui.form # NoForm

ChangeKinds == {"deleteFqdn", "deleteRr", "addRr", "editRr"}

CallFits(c) ==
    /\ c.kind \in {"none", "list", "addFqdn"} \union ChangeKinds
    /\ c.kind = "none" => c = NoCall
    /\ c.kind = "list" =>
          /\ c = [kind |-> "list", page |-> c.page, lost |-> c.lost]
          /\ c.page = NotLoaded \/ IsTable(c.page)
    /\ c.kind = "addFqdn" =>
          c = [kind |-> "addFqdn", name |-> c.name, lost |-> c.lost, form |-> c.form,
               base |-> c.base, sound |-> c.sound]
    /\ c.kind \in ChangeKinds =>
          c = [kind |-> c.kind, name |-> c.name, type |-> c.type, ix |-> c.ix, value |-> c.value,
               lost |-> c.lost, base |-> c.base, sound |-> c.sound]
    /\ c.kind = "addRr" => c.value # Malformed

\* A form that waits for its answer is there.
FormWaits(c, u) == c.kind = "addFqdn" /\ c.form => u.dialog.mode = "addFqdn" /\ u.form # NoForm

CallsFit ==
    /\ calls = [s \in Threads |-> calls[s]]
    /\ \A s \in Threads : CallFits(calls[s]) /\ FormWaits(calls[s], ui)

BoundsFit == clicks \in 0..MaxClicks /\ events \in 0..MaxEvents

RecInv == ZoneFits /\ UiFits /\ CallsFit /\ SpinnerHasItsListing /\ BoundsFit

-----------------------------------------------------------------------------
\* An array that has more than one value keeps some when one is spliced out.
LEMMA SpliceValues ==
    ASSUME NEW S, NEW v \in Seq(S), Len(v) > 1, NEW ix
    PROVE  splice(v, ix) \in Seq(S) /\ splice(v, ix) # <<>> /\ Len(splice(v, ix)) = Len(v) - 1
<1> DEFINE n == Len(v) - 1
<1>1. n \in Nat /\ n > 0 /\ Len(v) = n + 1
  OBVIOUS
<1>2. \A i \in 1..n : v[i] \in S /\ v[i + 1] \in S
  BY <1>1
<1>3. splice(v, ix) = [i \in 1..n |-> IF i < ix THEN v[i] ELSE v[i + 1]]
  BY DEF splice
<1> HIDE DEF n
<1>. QED
  BY <1>1, <1>2, <1>3

\* The value that is set is there, the others are where they were, and what
\* was skipped is a hole.
LEMMA ValueIsSet ==
    ASSUME NEW S, NEW v \in Seq(S), NEW ix \in Nat \ {0}, NEW value \in S, NEW hole \in S
    PROVE  ValueSet(v, ix, value, hole) \in Seq(S) /\ ValueSet(v, ix, value, hole) # <<>>
<1> DEFINE n == IF ix > Len(v) THEN ix ELSE Len(v)
           at(i) == IF i = ix THEN value ELSE IF i \in DOMAIN v THEN v[i] ELSE hole
<1>1. n \in Nat /\ n > 0
  OBVIOUS
<1>2. \A i \in 1..n : at(i) \in S
  OBVIOUS
<1>3. ValueSet(v, ix, value, hole) = [i \in 1..n |-> at(i)]
  BY DEF ValueSet
<1> HIDE DEF n, at
<1>. QED
  BY <1>1, <1>2, <1>3

\* What a value is appended to has values.
LEMMA AppendValues ==
    ASSUME NEW S, NEW v \in Seq(S), NEW value \in S
    PROVE  Append(v, value) \in Seq(S) /\ Append(v, value) # <<>>
<1>1. Len(v) \in Nat /\ Len(Append(v, value)) = Len(v) + 1 /\ Append(v, value) \in Seq(S)
  OBVIOUS
<1>2. ASSUME NEW w \in Seq(S), Len(w) > 0 PROVE w # <<>>
  BY <1>2
<1>. QED
  BY <1>1, <1>2

\* Every type has values of S, one where there is no array.
HasValues(e, S) ==
    \A t \in DOMAIN e : e[t] \in Seq(S) /\ e[t] # <<>> /\ (rrProto[t].array \/ Len(e[t]) = 1)

\* The parts of IsObject, with the set of values as a parameter.
LEMMA ObjectParts ==
    ASSUME NEW name, NEW e
    PROVE  IsObject(name, e) <=>
              /\ e = [t \in DOMAIN e |-> e[t]] /\ DOMAIN e \subseteq Types
              /\ Soa \in DOMAIN e => name = Apex
              /\ HasValues(e, Values \union {Malformed})
BY DEF IsObject, IsBody, HasValues

\* deleteRr leaves an object an object, whether it splices it or not.
LEMMA SplicedObject ==
    ASSUME NEW name, NEW rr, IsObject(name, rr), NEW type, NEW ix
    PROVE  IsObject(name, Spliced(rr, type, ix)) /\ DOMAIN Spliced(rr, type, ix) = DOMAIN rr
<1> DEFINE S == Values \union {Malformed}
           new == Spliced(rr, type, ix)
<1>0. /\ rr = [t \in DOMAIN rr |-> rr[t]] /\ DOMAIN rr \subseteq Types
      /\ Soa \in DOMAIN rr => name = Apex
      /\ HasValues(rr, S)
  BY ObjectParts
<1> HIDE DEF S
<1>1. CASE rrProto[type].array /\ Len(rr[type]) > 1 /\ ix <= Len(rr[type]) /\ type \in DOMAIN rr
  <2>1. new = [t \in DOMAIN rr |-> IF t = type THEN splice(rr[type], ix) ELSE rr[t]]
    BY <1>0, <1>1 DEF Spliced
  <2>2. splice(rr[type], ix) \in Seq(S) /\ splice(rr[type], ix) # <<>>
    BY <1>0, <1>1, SpliceValues DEF HasValues
  <2> HIDE DEF new
  <2>3. DOMAIN new = DOMAIN rr /\ new = [t \in DOMAIN new |-> new[t]]
    BY <2>1
  <2>4. HasValues(new, S)
    BY <1>0, <1>1, <2>1, <2>2 DEF HasValues
  <2>5. IsObject(name, new)
    BY <1>0, <2>3, <2>4, ObjectParts DEF S
  <2>. QED
    BY <2>3, <2>5 DEF new
<1>2. CASE ~(rrProto[type].array /\ Len(rr[type]) > 1 /\ ix <= Len(rr[type]) /\ type \in DOMAIN rr)
  <2>1. new = rr
    BY <1>0, <1>2 DEF Spliced
  <2>. QED
    BY <2>1
<1>. QED
  BY <1>1, <1>2

\* What deleteRr sends is an object.
LEMMA DeleteBodyObject ==
    ASSUME NEW name, NEW rr, IsObject(name, rr), NEW type, NEW ix
    PROVE  IsObject(name, DeleteBody(rr, type, ix))
<1>1. CASE rrProto[type].array /\ Len(rr[type]) > 1
  BY <1>1, SplicedObject DEF DeleteBody
<1>2. CASE ~(rrProto[type].array /\ Len(rr[type]) > 1)
  <2> DEFINE new == [t \in DOMAIN rr \ {type} |-> rr[t]]
  <2>1. DeleteBody(rr, type, ix) = new
    BY <1>2 DEF DeleteBody
  <2>2. IsObject(name, new)
    BY DEF IsObject, IsBody
  <2>. QED
    BY <2>1, <2>2
<1>. QED
  BY <1>1, <1>2

\* What AddRr.submit makes of an object is one.
LEMMA SetObject ==
    ASSUME NEW name, NEW rr, IsObject(name, rr), NEW type \in Types, type = Soa => name = Apex,
           NEW ix \in Nat, NEW value \in Values \union {Malformed}
    PROVE  IsObject(name, setValueInRr(rr, type, ix, value, Malformed))
<1> DEFINE S == Values \union {Malformed}
           values == IF type \in DOMAIN rr THEN rr[type] ELSE <<>>
           new == CASE ~rrProto[type].array -> <<value>>
                    [] rrProto[type].array /\ ix = 0 -> Append(values, value)
                    [] OTHER -> ValueSet(values, ix, value, Malformed)
           obj == [t \in DOMAIN rr \union {type} |-> IF t = type THEN new ELSE rr[t]]
<1>0. /\ DOMAIN rr \subseteq Types /\ (Soa \in DOMAIN rr => name = Apex)
      /\ HasValues(rr, S)
  BY ObjectParts
<1>1. setValueInRr(rr, type, ix, value, Malformed) = obj
  BY DEF setValueInRr
<1>2. value \in S /\ Malformed \in S
  OBVIOUS
<1> HIDE DEF S
<1>3. values \in Seq(S)
  BY <1>0 DEF HasValues
<1> HIDE DEF values
<1>4. new \in Seq(S) /\ new # <<>> /\ (rrProto[type].array \/ Len(new) = 1)
  <2>1. CASE ~rrProto[type].array
    BY <1>2, <2>1
  <2>2. CASE rrProto[type].array /\ ix = 0
    <3>1. new = Append(values, value)
      BY <2>2
    <3>2. Append(values, value) \in Seq(S) /\ Append(values, value) # <<>>
      BY <1>2, <1>3, AppendValues
    <3>. QED
      BY <2>2, <3>1, <3>2
  <2>3. CASE rrProto[type].array /\ ix # 0
    <3>1. new = ValueSet(values, ix, value, Malformed)
      BY <2>3
    <3>. QED
      BY <1>2, <1>3, <2>3, <3>1, ValueIsSet
  <2>. QED
    BY <2>1, <2>2, <2>3
<1> HIDE DEF new
<1>5. HasValues(obj, S)
  BY <1>0, <1>4 DEF HasValues
<1>6. obj = [t \in DOMAIN obj |-> obj[t]] /\ DOMAIN obj \subseteq Types
  BY <1>0
<1>7. Soa \in DOMAIN obj => name = Apex
  BY <1>0
<1> HIDE DEF obj
<1>. QED
  BY <1>1, <1>5, <1>6, <1>7, ObjectParts DEF S

\* An object of no types is one of any name.
LEMMA EmptyObject ==
    ASSUME NEW name
    PROVE  IsGood(name, NoEntry)
BY DEF IsGood, IsObject, IsBody, WellFormed, NoEntry

\* Objects are what a client may send about a name.
LEMMA ObjectIsBody ==
    ASSUME NEW name, NEW e, IsObject(name, e)
    PROVE  e \in Bodies(name)
<1> DEFINE S == Values \union {Malformed}
           R == Seq(S) \ {<<>>}
<1>1. e = [t \in DOMAIN e |-> e[t]] /\ IsBody(name, e) /\ DOMAIN e \subseteq Types
  BY DEF IsObject, IsBody
<1>2. \A t \in DOMAIN e : e[t] \in R
  BY DEF IsObject
<1> HIDE DEF R
<1>3. e \in [DOMAIN e -> R]
  BY <1>1, <1>2
<1>. QED
  BY <1>1, <1>3 DEF Bodies, R

-----------------------------------------------------------------------------
\* A PATCH and a DELETE of some types make an entry of an entry.
LEMMA MergedGood ==
    ASSUME NEW name, NEW old, IsGood(name, old), NEW body, IsGood(name, body), NEW T
    PROVE  IsGood(name, Merged(old, body)) /\ IsGood(name, Without(old, T))
<1>1. IsGood(name, Merged(old, body))
  <2> DEFINE m == Merged(old, body)
  <2>1. /\ DOMAIN m = DOMAIN old \union DOMAIN body /\ m = [t \in DOMAIN m |-> m[t]]
        /\ \A t \in DOMAIN m :
              (t \in DOMAIN body /\ m[t] = body[t]) \/ (t \in DOMAIN old /\ m[t] = old[t])
    BY DEF Merged
  <2> HIDE DEF m
  <2>2. IsObject(name, m)
    BY <2>1 DEF IsGood, IsObject, IsBody
  <2>3. WellFormed(m)
    BY <2>1 DEF IsGood, WellFormed
  <2>. QED
    BY <2>2, <2>3 DEF IsGood, m
<1>2. IsGood(name, Without(old, T))
  <2> DEFINE m == Without(old, T)
  <2>1. /\ DOMAIN m = DOMAIN old \ T /\ m = [t \in DOMAIN m |-> m[t]]
        /\ \A t \in DOMAIN m : t \in DOMAIN old /\ m[t] = old[t]
    BY DEF Without
  <2> HIDE DEF m
  <2>2. IsObject(name, m)
    BY <2>1 DEF IsGood, IsObject, IsBody
  <2>3. WellFormed(m)
    BY <2>1 DEF IsGood, WellFormed
  <2>. QED
    BY <2>2, <2>3 DEF IsGood, m
<1>. QED
  BY <1>1, <1>2

\* Writing an entry to a table, and taking names out of it, leaves a table.
LEMMA BoundTable ==
    ASSUME NEW p, IsTable(p), NEW name \in Names, NEW e, IsGood(name, e), NEW T
    PROVE  IsTable(Bound(p, name, e)) /\ IsTable(Without(p, T))
<1>1. IsTable(Bound(p, name, e))
  BY DEF IsTable, Bound
<1>2. IsTable(Without(p, T))
  BY DEF IsTable, Without
<1>. QED
  BY <1>1, <1>2

\* What a commit writes are entries.
LEMMA WrittenTable ==
    ASSUME NEW j, j.op \in Ops, j.name \in Names, IsGood(j.name, j.body), IsGood(j.name, j.seen.old),
           IsGood(Apex, j.seen.apex), IsTable(entries)
    PROVE  IsTable(Written(j))
<1>0. Apex \in Names
  BY ZoneAssumption
<1>1. IsGood(j.name, NewEntry(j))
  <2>1. IsGood(j.name, Merged(j.seen.old, j.body)) /\ IsGood(j.name, Remains(j))
    BY MergedGood DEF Remains
  <2>. QED
    BY <2>1 DEF NewEntry
<1>2. IsTable(Changed(j))
  BY <1>1, BoundTable DEF Changed
<1>3. IsTable(Without(entries, {Apex})) /\ IsTable(Bound(Changed(j), Apex, j.seen.apex))
  BY <1>0, <1>2, BoundTable
<1>. QED
  BY <1>2, <1>3 DEF Written

\* What a thread of the zone does.
Request(t) ==
    \E op \in Ops : \E name \in Names : \E body : IsObject(name, body) /\ Gets(t, op, name, body)
ThreadStep(t) ==
    Request(t) \/ Withdraw(t) \/ Lookup(t) \/ CheckNew(t) \/ Commit(t) \/ Answer(t)

\* It is a step of module Zone,
LEMMA ThreadIsZone ==
    ASSUME NEW t \in Threads, ThreadStep(t)
    PROVE  ZoneNext
<1>1. CASE Request(t)
  <2>1. PICK op \in Ops, name \in Names : \E body : IsObject(name, body) /\ Gets(t, op, name, body)
    BY <1>1 DEF Request
  <2>2. PICK body : IsObject(name, body) /\ Gets(t, op, name, body)
    BY <2>1
  <2>3. body \in Bodies(name) /\ Receive(t, op, name, body) /\ (op \in ZoneOps => name = Apex)
    BY <2>2, ObjectIsBody DEF Gets
  <2>4. op \in RrOps \/ op \in ZoneOps
    BY DEF Ops
  <2>. QED
    BY <2>3, <2>4 DEF ZoneNext
<1>2. CASE ~Request(t)
  BY <1>2 DEF ThreadStep, ZoneNext
<1>. QED
  BY <1>1, <1>2

\* and keeps the zone's shape.
LEMMA ThreadKeepsZone ==
    ASSUME ZoneFits, NEW t \in Threads, ThreadStep(t)
    PROVE  ZoneFits'
<1>0. /\ IsTable(entries) /\ serial \in Nat /\ zrrIx \subseteq Names
      /\ jobs = [u \in Threads |-> jobs[u]] /\ \A u \in Threads : JobFits(jobs[u])
  BY DEF ZoneFits
<1>a. ASSUME NEW j, JobFits(j), jobs' = [jobs EXCEPT ![t] = j]
      PROVE  /\ jobs' = [u \in Threads |-> jobs'[u]] /\ \A u \in Threads : JobFits(jobs'[u])
  BY <1>0, <1>a
<1>b. ASSUME NEW j, JobFits(j), jobs' = [jobs EXCEPT ![t] = j],
             UNCHANGED <<entries, serial, zrrIx>>
      PROVE  ZoneFits'
  BY <1>0, <1>a, <1>b DEF ZoneFits, IsTable
<1>c. JobFits(Idle)
  BY Zenon DEF JobFits
<1>d. jobs[t].phase # "idle" =>
         /\ jobs[t] = Job(jobs[t].phase, jobs[t].op, jobs[t].name, jobs[t].body, jobs[t].seen)
         /\ jobs[t].op \in Ops /\ jobs[t].name \in Names
         /\ jobs[t].op \in ZoneOps => jobs[t].name = Apex
         /\ IsObject(jobs[t].name, jobs[t].body)
         /\ jobs[t].phase \in {"read", "checked"} =>
               /\ WellFormed(jobs[t].body) /\ IsGood(jobs[t].name, jobs[t].seen.old)
               /\ IsGood(Apex, jobs[t].seen.apex) /\ jobs[t].seen.serial \in Nat
  BY <1>0 DEF JobFits, Idle
<1>e. \A phase \in {"ok", "refused"} :
         jobs[t].phase # "idle" => JobFits(Advanced(jobs[t], phase, NotSeen))
  BY <1>d DEF JobFits, Advanced, Job
<1>1. CASE Request(t)
  <2>1. PICK op \in Ops, name \in Names : \E body : IsObject(name, body) /\ Gets(t, op, name, body)
    BY <1>1 DEF Request
  <2>2. PICK body : IsObject(name, body) /\ Gets(t, op, name, body)
    BY Zenon, <2>1
  <2>3. JobFits(Job("sent", op, name, body, NotSeen))
    BY <2>2 DEF JobFits, Job, Gets
  <2>. QED
    BY Zenon, <1>b, <2>2, <2>3 DEF Gets, Receive
<1>2. CASE Withdraw(t) \/ Answer(t)
  BY <1>2, <1>b, <1>c DEF Withdraw, Answer
<1>3. CASE Lookup(t)
  <2>0. UNCHANGED <<entries, serial, zrrIx>> /\ jobs[t].phase # "idle"
    BY <1>3 DEF Lookup
  <2>1. CASE Refuses(jobs[t])
    BY Zenon, <1>3, <2>0, <2>1, <1>b, <1>e DEF Lookup
  <2>2. CASE ~Refuses(jobs[t])
    <3>1. WellFormed(jobs[t].body)
      BY <2>2 DEF Refuses
    <3>2. \A n : IsGood(n, NoEntry)
      BY EmptyObject
    <3>3. \A n : IsGood(n, Found(n))
      BY Zenon, <1>0, <3>2 DEF Found, IsTable
    <3>4. JobFits(Advanced(jobs[t], "read", Seen(jobs[t].name)))
      BY Zenon, <1>0, <1>d, <2>0, <3>1, <3>3 DEF JobFits, Advanced, Job, Seen
    <3>. QED
      BY Zenon, <1>3, <2>0, <2>2, <1>b, <3>4 DEF Lookup
  <2>. QED
    BY <2>1, <2>2
<1>4. CASE CheckNew(t)
  <2>0. UNCHANGED <<entries, serial, zrrIx>> /\ jobs[t].phase = "read"
    BY <1>4 DEF CheckNew
  <2>1. JobFits(Advanced(jobs[t], "checked", jobs[t].seen))
    BY ZenonT(30), <1>d, <2>0 DEF JobFits, Advanced, Job
  <2>2. JobFits(Advanced(jobs[t], "refused", NotSeen))
    BY Zenon, <1>e, <2>0
  <2>. QED
    BY Zenon, <1>4, <2>0, <2>1, <2>2, <1>b DEF CheckNew
<1>5. CASE Commit(t)
  <2>0. jobs[t].phase \in {"read", "checked"}
    BY <1>5 DEF Commit, ReadyToCommit
  <2>1. entries' = Written(jobs[t]) /\ zrrIx' = Indexed(jobs[t])
    BY <1>5 DEF Commit
  <2>2. IsTable(entries')
    <3>1. IsGood(jobs[t].name, jobs[t].body)
      BY Zenon, <1>d, <2>0 DEF IsGood
    <3>2. IsTable(Written(jobs[t]))
      BY <1>0, <1>d, <2>0, <3>1, WrittenTable
    <3>. QED
      BY Zenon, <2>1, <3>2
  <2>3. zrrIx' \subseteq Names
    BY Zenon, <1>0, <1>d, <2>0, <2>1 DEF Indexed
  <2>4. serial' \in Nat
    BY <1>0, <1>d, <1>5, <2>0, ZoneAssumption DEF Commit, NextSerial
  <2>5. jobs' = [jobs EXCEPT ![t] = Advanced(jobs[t], "ok", NotSeen)]
    BY Zenon, <1>5 DEF Commit
  <2>6. JobFits(Advanced(jobs[t], "ok", NotSeen))
    BY <1>e, <2>0
  <2>. QED
    BY <1>a, <2>2, <2>3, <2>4, <2>5, <2>6 DEF ZoneFits, IsTable
<1>. QED
  BY <1>1, <1>2, <1>3, <1>4, <1>5 DEF ThreadStep

-----------------------------------------------------------------------------
\* The place of a field in the prototypes that have it.
Place(name) ==
    IF name \in {"mname", "value", "host", "cpu", "mbox", "target"} THEN 1
    ELSE IF name \in {"email", "priority", "os", "txt", "subtype"} THEN 2
    ELSE IF name \in {"refresh", "weight"} THEN 3
    ELSE IF name \in {"retry", "port"} THEN 4
    ELSE IF name = "expire" THEN 5 ELSE 6

\* What the proofs need to know about rrProto.
ProtoFits(t) ==
    /\ rrProto[t].fields \in Seq(FieldNames) /\ Len(rrProto[t].fields) > 0
    /\ \A i \in DOMAIN rrProto[t].fields : i = Place(rrProto[t].fields[i])
    /\ Len(rrProto[t].fields) = 1 => rrProto[t].fields[1] = "value"
    /\ t \notin {NoType, "none"} /\ (t = "soa" => ~rrProto[t].canAdd)

\* It holds of every type of rrProto.
LEMMA Prototypes == \A t \in DOMAIN rrProto : ProtoFits(t)
<1>1. DOMAIN rrProto = {"soa", "ns", "a", "mx", "txt", "hinfo", "rp", "afsdb", "srv", "openpgpkey"}
  BY Zenon DEF rrProto
<1>2. ProtoFits("soa")
  <2>1. rrProto["soa"] =
           Proto(<<"mname", "email", "refresh", "retry", "expire", "minimum">>, FALSE, FALSE)
    BY DEF rrProto
  <2>. QED
    BY <2>1 DEF ProtoFits, Proto, Place, NoType, FieldNames
<1>3. ASSUME NEW t \in {"ns", "a", "txt", "openpgpkey"} PROVE ProtoFits(t)
  <2>1. rrProto[t].fields = <<"value">>
    BY DEF rrProto, Proto
  <2>. QED
    BY <2>1 DEF ProtoFits, Place, NoType, FieldNames
<1>4. ASSUME NEW t \in {"mx", "hinfo", "rp", "afsdb"} PROVE ProtoFits(t)
  <2>1. ASSUME NEW n \in {"host", "cpu", "mbox"}, NEW m \in {"priority", "os", "txt", "subtype"},
               rrProto[t].fields = <<n, m>>
        PROVE  ProtoFits(t)
    BY <2>1 DEF ProtoFits, Place, NoType, FieldNames
  <2>2. \/ rrProto[t].fields = <<"host", "priority">> \/ rrProto[t].fields = <<"cpu", "os">>
        \/ rrProto[t].fields = <<"mbox", "txt">> \/ rrProto[t].fields = <<"host", "subtype">>
    BY DEF rrProto, Proto
  <2>. QED
    BY <2>1, <2>2
<1>5. ProtoFits("srv")
  <2>1. rrProto["srv"].fields = <<"target", "priority", "weight", "port">>
    BY DEF rrProto, Proto
  <2>. QED
    BY <2>1 DEF ProtoFits, Place, NoType, FieldNames
<1>. QED
  BY Zenon, <1>1, <1>2, <1>3, <1>4, <1>5

\* The fields of a type are in their places.
LEMMA FieldsFit ==
    ASSUME NEW type \in DOMAIN rrProto \union {NoType}
    PROVE  /\ Fields(type) \in Seq(FieldNames)
           /\ \A i \in DOMAIN Fields(type) : InPlace(Fields(type)[i], i)
<1>1. CASE type = NoType
  <2>1. Fields(type) = << >>
    BY Zenon, <1>1 DEF Fields
  <2> HIDE DEF Fields
  <2>. QED
    BY <2>1
<1>2. CASE type # NoType
  <2>1. Fields(type) = rrProto[type].fields /\ type \in DOMAIN rrProto
    BY Zenon, <1>2 DEF Fields
  <2>2. rrProto[type].fields \in Seq(FieldNames)
    BY Zenon, <2>1, Prototypes DEF ProtoFits
  <2>. QED
    BY Zenon, <2>1, <2>2 DEF InPlace
<1>. QED
  BY Zenon, <1>1, <1>2

\* The form that AddRr shows first, and every form that a selection makes of
\* it: as many inputs as the type has fields, each in the place of its name.
LEMMA FirstForm ==
    ASSUME NEW rr
    PROVE  IsAddForm(AddForm(rr)) /\ AddForm(rr) # NoForm
<1> DEFINE f == AddForm(rr)
<1>1. /\ f = [type |-> f.type, inputs |-> f.inputs, gone |-> f.gone, offered |-> f.offered,
              selections |-> f.selections]
      /\ f.type = NoType /\ f.inputs = << >> /\ f.offered = Selectable(rr)
  BY DEF AddForm
<1> HIDE DEF f
<1>2. f.offered \subseteq {t \in DOMAIN rrProto : rrProto[t].canAdd}
  BY Zenon, <1>1 DEF Selectable
<1>3. Fields(NoType) = << >>
  BY Zenon DEF Fields
<1>4. f.inputs \in Seq(FieldNames) /\ f.inputs = Fields(f.type) /\ DOMAIN f.inputs = {}
  BY <1>1, <1>3
<1>5. IsAddForm(f)
  BY Zenon, <1>1, <1>2, <1>4 DEF IsAddForm
<1>6. NoForm.type # f.type
  BY <1>1 DEF NoForm, NoType
<1>. QED
  BY Zenon, <1>5, <1>6 DEF f

\* The first k elements of a, and the elements of b after them.
IsPrefix(p, a, k) == Len(p) = k /\ \A i \in 1..k : p[i] = a[i]
IsRest(q, b, k) == Len(q) = Len(b) - k /\ \A i \in 1..(Len(b) - k) : q[i] = b[k + i]
IsJoined(w, a, b, k) ==
    Len(w) = Len(b) /\ \A i \in 1..Len(b) : w[i] = IF i <= k THEN a[i] ELSE b[i]

\* What a concatenation is made of.
LEMMA ConcatParts ==
    ASSUME NEW S, NEW p \in Seq(S), NEW q \in Seq(S)
    PROVE  /\ p \o q \in Seq(S) /\ Len(p \o q) = Len(p) + Len(q)
           /\ \A i \in 1..Len(p) : (p \o q)[i] = p[i]
           /\ \A i \in 1..(Len(p) + Len(q)) : i > Len(p) => (p \o q)[i] = q[i - Len(p)]
OBVIOUS

\* A prefix of a and the rest of b: as long as b, element by element a or b.
LEMMA Joined ==
    ASSUME NEW S, NEW a \in Seq(S), NEW b \in Seq(S), NEW k \in Nat, k <= Len(a), k <= Len(b),
           NEW p \in Seq(S), IsPrefix(p, a, k), NEW q \in Seq(S), IsRest(q, b, k)
    PROVE  p \o q \in Seq(S) /\ IsJoined(p \o q, a, b, k)
<1>1. Len(a) \in Nat /\ Len(b) \in Nat
  OBVIOUS
<1>2. /\ p \o q \in Seq(S) /\ Len(p \o q) = Len(p) + Len(q)
      /\ \A i \in 1..Len(p) : (p \o q)[i] = p[i]
      /\ \A i \in 1..(Len(p) + Len(q)) : i > Len(p) => (p \o q)[i] = q[i - Len(p)]
  BY ConcatParts, Zenon
<1>3. Len(p) = k /\ Len(q) = Len(b) - k
  BY DEF IsPrefix, IsRest
<1>4. ASSUME NEW i \in 1..Len(b) PROVE (p \o q)[i] = IF i <= k THEN a[i] ELSE b[i]
  <2>1. CASE i <= k
    BY <1>1, <1>2, <1>3, <2>1 DEF IsPrefix
  <2>2. CASE i > k
    <3>1. i - k \in 1..(Len(b) - k) /\ k + (i - k) = i
      BY <1>1, <2>2
    <3>2. (p \o q)[i] = q[i - k]
      BY <1>1, <1>2, <1>3, <2>2
    <3>. QED
      BY <2>2, <3>1, <3>2 DEF IsRest
  <2>3. i <= k \/ i > k
    BY <1>1
  <2>. QED
    BY <2>1, <2>2, <2>3, Zenon
<1>5. Len(p \o q) = Len(b)
  BY <1>1, <1>2, <1>3
<1>. QED
  BY <1>2, <1>4, <1>5 DEF IsJoined

\* The same, of the SubSeqs of Selected.
LEMMA PrefixAndRest ==
    ASSUME NEW S, NEW a \in Seq(S), NEW b \in Seq(S), NEW k \in Nat, k <= Len(a), k <= Len(b)
    PROVE  /\ SubSeq(a, 1, k) \o SubSeq(b, k + 1, Len(b)) \in Seq(S)
           /\ IsJoined(SubSeq(a, 1, k) \o SubSeq(b, k + 1, Len(b)), a, b, k)
<1>1. Len(a) \in Nat /\ Len(b) \in Nat
  OBVIOUS
<1>2. SubSeq(a, 1, k) \in Seq(S) /\ IsPrefix(SubSeq(a, 1, k), a, k)
  BY <1>1 DEF IsPrefix
<1>3. SubSeq(b, k + 1, Len(b)) \in Seq(S) /\ IsRest(SubSeq(b, k + 1, Len(b)), b, k)
  BY <1>1 DEF IsRest
<1>. QED
  BY <1>2, <1>3, Joined, Zenon

\* onSelectinChanged: the inputs React keeps stay in place, and the new ones are mounted
\* in theirs.
LEMMA SelectedForm ==
    ASSUME NEW f, IsAddForm(f), NEW type, type \in (f.offered \intersect Types) \union {NoType}
    PROVE  IsAddForm(Selected(f, type)) /\ Selected(f, type) # NoForm
<1> DEFINE old == f.inputs
           new == Fields(type)
           kept == IF Len(new) < Len(old) THEN Len(new) ELSE Len(old)
           inputs == SubSeq(old, 1, kept) \o SubSeq(new, kept + 1, Len(new))
           g == Selected(f, type)
<1>1. type = NoType \/ (type \in Types /\ type \in DOMAIN rrProto /\ rrProto[type].canAdd)
  BY DEF IsAddForm
<1>2. new \in Seq(FieldNames) /\ \A i \in DOMAIN new : InPlace(new[i], i)
  BY <1>1, FieldsFit
<1>3. old \in Seq(FieldNames) /\ \A i \in DOMAIN old : InPlace(old[i], i)
  BY DEF IsAddForm
<1>4. /\ g.inputs = inputs /\ g.type = type /\ g.offered = f.offered
      /\ g = [type |-> g.type, inputs |-> g.inputs, gone |-> g.gone, offered |-> g.offered,
              selections |-> g.selections]
  BY Zenon DEF Selected
<1> HIDE DEF g, old, new
<1>5. /\ kept \in Nat /\ kept <= Len(old) /\ kept <= Len(new)
      /\ Len(new) \in Nat /\ Len(old) \in Nat
  BY <1>2, <1>3
<1> HIDE DEF kept
<1>6. /\ inputs \in Seq(FieldNames) /\ Len(inputs) = Len(new)
      /\ \A i \in 1..Len(new) : inputs[i] = IF i <= kept THEN old[i] ELSE new[i]
  <2>1. inputs \in Seq(FieldNames) /\ IsJoined(inputs, old, new, kept)
    BY <1>2, <1>3, <1>5, PrefixAndRest
  <2> HIDE DEF inputs
  <2>. QED
    BY <2>1 DEF IsJoined
<1> HIDE DEF inputs
<1>10. ASSUME NEW i \in DOMAIN inputs PROVE InPlace(inputs[i], i)
  <2>1. i \in 1..Len(new) /\ i \in DOMAIN new /\ (i <= kept => i \in DOMAIN old)
    BY <1>2, <1>3, <1>5, <1>6
  <2>. QED
    BY <1>2, <1>3, <1>6, <2>1
<1>11. type = NoType \/ (type \in Types /\ rrProto[type].canAdd)
  BY <1>1
<1>12. f.offered \subseteq {t \in DOMAIN rrProto : rrProto[t].canAdd}
  BY Zenon DEF IsAddForm
<1>13. IsAddForm(g)
  BY Zenon, <1>4, <1>6, <1>10, <1>11, <1>12 DEF IsAddForm, new
<1>14. g # NoForm
  <2>1. type # "none"
    BY <1>1, Prototypes DEF ProtoFits, NoType
  <2>. QED
    BY <1>4, <2>1 DEF NoForm
<1>. QED
  BY <1>13, <1>14 DEF g

\* What such a form collects without throwing has the fields of the type.
LEMMA CollectedFits ==
    ASSUME NEW f, IsAddForm(f), f.type # NoType, ~CollectThrows(f), Types \subseteq DOMAIN rrProto
    PROVE  CollectFits(f)
<1> DEFINE F == Fields(f.type)
           I == f.inputs
<1>1. f.type \in DOMAIN rrProto /\ F = rrProto[f.type].fields /\ ProtoFits(f.type)
  BY Zenon, Prototypes DEF IsAddForm, Fields
<1>2. /\ F \in Seq(FieldNames) /\ Len(F) \in Nat /\ Len(F) > 0
      /\ \A i \in DOMAIN F : i = Place(F[i])
      /\ Len(F) = 1 => F[1] = "value"
  BY <1>1 DEF ProtoFits
<1>3. I \in Seq(FieldNames) /\ Len(I) = Len(F) /\ \A i \in DOMAIN I : InPlace(I[i], i)
  BY DEF IsAddForm
<1>4. \A i \in DOMAIN I : i = Place(I[i])
  BY <1>3, Prototypes DEF InPlace, ProtoFits
<1>5. Registered(f) = Range(I)
  BY Zenon DEF CollectThrows, Registered
<1>6. /\ \A n \in Range(I) \ {"value"} : n \in Range(F)
      /\ "value" \in Range(I) => Range(I) = {"value"}
  BY <1>5 DEF CollectThrows
<1>7. CollectFits(f) <=> Range(I) = Range(F)
  BY <1>5 DEF CollectFits
<1> HIDE DEF F, I
<1>8. CASE "value" \in Range(I)
  <2>1. \A i \in DOMAIN I : I[i] = "value"
    BY Zenon, <1>6, <1>8 DEF Range
  <2>2. \A i \in DOMAIN I : i = 1
    BY <2>1, <1>4 DEF Place
  <2>3. Len(F) = 1
    BY <1>2, <1>3, <2>2
  <2>4. DOMAIN F = {1} /\ F[1] = "value"
    BY <1>2, <2>3
  <2>. QED
    BY Zenon, <1>6, <1>7, <1>8, <2>4 DEF Range
<1>9. CASE "value" \notin Range(I)
  <2>1. \A i \in DOMAIN I : I[i] = F[i]
    BY <1>2, <1>3, <1>4, <1>6, <1>9 DEF Range
  <2>2. DOMAIN I = DOMAIN F
    BY <1>2, <1>3
  <2>. QED
    BY <1>7, <2>1, <2>2 DEF Range
<1>. QED
  BY <1>8, <1>9

-----------------------------------------------------------------------------
\* A listing is not the spinner: no name is called like it.
LEMMA TableIsLoaded ==
    ASSUME NEW p, DOMAIN p \subseteq Names
    PROVE  p # NotLoaded
<1>1. DOMAIN NotLoaded = {"spinner"}
  BY Zenon DEF NotLoaded
<1>. QED
  BY <1>1, RecordsAssumption

\* What a next state of the page has to be.
LEMMA UiMade ==
    ASSUME NEW rrs, NEW view, NEW error \in BOOLEAN, NEW dialog, NEW form,
           ui' = [rrs |-> rrs, view |-> view, error |-> error, dialog |-> dialog, form |-> form],
           rrs # NotLoaded =>
              /\ IsTable(view) /\ DOMAIN rrs = DOMAIN view
              /\ \A n \in DOMAIN rrs : IsObject(n, rrs[n]),
           DialogFits(dialog), FormFits(form, dialog), error => dialog = NoDialog,
           (~error /\ rrs # NotLoaded /\ dialog # NoDialog) <=> form # NoForm
    PROVE  UiFits'
<1>1. /\ ui'.rrs = rrs /\ ui'.view = view /\ ui'.error = error /\ ui'.dialog = dialog
      /\ ui'.form = form
      /\ ui' = [rrs |-> ui'.rrs, view |-> ui'.view, error |-> ui'.error, dialog |-> ui'.dialog,
                form |-> ui'.form]
  BY Zenon
<1>2. TableFits(ui')
  BY Zenon, <1>1 DEF TableFits
<1>3. DialogShown' <=> ui'.form # NoForm
  BY Zenon, <1>1 DEF DialogShown, Shown
<1>. QED
  BY Zenon, <1>1, <1>2, <1>3 DEF UiFits

\* What is known of the page.
LEMMA UiParts ==
    ASSUME UiFits
    PROVE  /\ ui = [rrs |-> ui.rrs, view |-> ui.view, error |-> ui.error, dialog |-> ui.dialog,
                    form |-> ui.form]
           /\ ui.error \in BOOLEAN /\ (ui.error => ui.dialog = NoDialog)
           /\ ui.rrs # NotLoaded =>
                 /\ IsTable(ui.view) /\ DOMAIN ui.rrs = DOMAIN ui.view
                 /\ \A n \in DOMAIN ui.rrs : IsObject(n, ui.rrs[n])
           /\ DialogFits(ui.dialog) /\ FormFits(ui.form, ui.dialog)
           /\ (~ui.error /\ ui.rrs # NotLoaded /\ ui.dialog # NoDialog) <=> ui.form # NoForm
BY Zenon DEF UiFits, TableFits, DialogShown, Shown

\* A dialog that is closed, and a form that is none.
LEMMA NoDialogFits ==
    /\ DialogFits(NoDialog) /\ \A d : DialogFits(d) => FormFits(NoForm, d)
    /\ \A d : DialogFits(d) => (d = NoDialog <=> d.mode = "closed")
BY DEF DialogFits, NoDialog, FormFits

\* The form a dialog is mounted with is its own.
LEMMA FormForFits ==
    ASSUME NEW d, DialogFits(d), d # NoDialog
    PROVE  FormFits(FormFor(d), d) /\ FormFor(d) # NoForm
<1>1. d.mode \in {"addFqdn", "addRr", "editRr"}
  BY DEF DialogFits
<1>2. CASE d.mode = "addFqdn"
  BY <1>2 DEF FormFor, FormFits, NameForm, NoForm
<1>3. CASE d.mode = "addRr"
  BY <1>3, FirstForm DEF FormFor, FormFits
<1>4. CASE d.mode = "editRr"
  <2>1. FormFor(d) = EditForm(d.rr, d.type, d.ix)
    BY <1>4 DEF FormFor
  <2>2. FormFor(d).type = d.type
    BY <2>1 DEF EditForm
  <2>3. d.type # "none"
    BY <1>4, RecordsAssumption, Prototypes DEF DialogFits, ProtoFits
  <2>. QED
    BY <1>4, <2>2, <2>3 DEF FormFits, NoForm
<1>. QED
  BY <1>1, <1>2, <1>3, <1>4

\* HasNameForm(u): the page shows a form for a new name, or the error in it.
HasNameForm(u) == u.dialog.mode = "addFqdn" /\ u.form # NoForm
Waiting(c) == c.kind = "addFqdn" /\ c.form

\* CallsFit, in these words.
LEMMA CallsParts ==
    CallsFit <=>
       /\ calls = [s \in Threads |-> calls[s]]
       /\ \A s \in Threads : CallFits(calls[s]) /\ (Waiting(calls[s]) => HasNameForm(ui))
BY DEF CallsFit, FormWaits, Waiting, HasNameForm

\* The same, of the next state.
LEMMA CallsPartsNext ==
    ASSUME calls' = [s \in Threads |-> calls'[s]],
           \A s \in Threads : CallFits(calls'[s]) /\ (Waiting(calls'[s]) => HasNameForm(ui'))
    PROVE  CallsFit'
BY DEF CallsFit, FormWaits, Waiting, HasNameForm

\* The ways calls change: not at all, one of them, or with a reload, a new
\* page, or an error for the page.
LEMMA CallsKept ==
    ASSUME CallsFit, UNCHANGED calls, HasNameForm(ui) => HasNameForm(ui')
    PROVE  CallsFit'
BY CallsParts, CallsPartsNext

\* One call is made, changed or dropped.
LEMMA CallPut ==
    ASSUME CallsFit, NEW s \in Threads, NEW c, calls' = [calls EXCEPT ![s] = c], CallFits(c),
           Waiting(c) => HasNameForm(ui'), HasNameForm(ui) => HasNameForm(ui')
    PROVE  CallsFit'
<1>1. /\ calls' = [t \in Threads |-> calls'[t]]
      /\ \A t \in Threads : calls'[t] = IF t = s THEN c ELSE calls[t]
  BY Zenon, CallsParts
<1>2. \A t \in Threads : CallFits(calls'[t]) /\ (Waiting(calls'[t]) => HasNameForm(ui'))
  BY Zenon, <1>1, CallsParts
<1>. QED
  BY <1>1, <1>2, CallsPartsNext

\* No call and a new listing are well formed, and no form waits for them.
LEMMA SmallCallsFit == CallFits(NoCall) /\ CallFits(ListCall) /\ ~Waiting(NoCall) /\ ~Waiting(ListCall)
BY DEF CallFits, NoCall, ListCall, Waiting, ChangeKinds

\* A reload takes the form away from the calls that wait.
LEMMA FormsAreGone ==
    ASSUME CallsFit, NEW s \in Threads, calls' = [FormsGone EXCEPT ![s] = ListCall]
    PROVE  /\ calls' = [t \in Threads |-> calls'[t]] /\ calls'[s] = ListCall
           /\ \A t \in Threads \ {s} :
                 /\ calls'[t].kind = calls[t].kind /\ ~Waiting(calls'[t]) /\ CallFits(calls'[t])
                 /\ calls[t].kind # "addFqdn" => calls'[t] = calls[t]
                 /\ calls[t].kind = "addFqdn" =>
                       calls'[t] = [kind |-> "addFqdn", name |-> calls[t].name, lost |-> calls[t].lost,
                                    form |-> FALSE, base |-> calls[t].base, sound |-> calls[t].sound]
<1>1. /\ calls' = [t \in Threads |-> calls'[t]] /\ calls'[s] = ListCall
      /\ \A t \in Threads \ {s} : calls'[t] =
            IF calls[t].kind = "addFqdn" THEN [calls[t] EXCEPT !.form = FALSE] ELSE calls[t]
  BY ZenonT(30) DEF FormsGone
<1>2. ASSUME NEW t \in Threads \ {s}
      PROVE  /\ calls'[t].kind = calls[t].kind /\ ~Waiting(calls'[t]) /\ CallFits(calls'[t])
             /\ calls[t].kind # "addFqdn" => calls'[t] = calls[t]
             /\ calls[t].kind = "addFqdn" =>
                   calls'[t] = [kind |-> "addFqdn", name |-> calls[t].name, lost |-> calls[t].lost,
                                form |-> FALSE, base |-> calls[t].base, sound |-> calls[t].sound]
  <2>0. CallFits(calls[t])
    BY Zenon, CallsParts
  <2>1. CASE calls[t].kind = "addFqdn"
    <3>1. calls[t] = [kind |-> "addFqdn", name |-> calls[t].name, lost |-> calls[t].lost,
                      form |-> calls[t].form, base |-> calls[t].base, sound |-> calls[t].sound]
      BY <2>0, <2>1 DEF CallFits
    <3>2. calls'[t] = [kind |-> "addFqdn", name |-> calls[t].name, lost |-> calls[t].lost,
                       form |-> FALSE, base |-> calls[t].base, sound |-> calls[t].sound]
      BY <1>1, <2>1, <3>1
    <3>. QED
      BY <2>1, <3>2 DEF CallFits, Waiting, ChangeKinds
  <2>2. CASE calls[t].kind # "addFqdn"
    BY Zenon, <1>1, <2>0, <2>2 DEF Waiting
  <2>. QED
    BY <2>1, <2>2
<1>. QED
  BY <1>1, <1>2

\* So a reload leaves the calls well formed.
LEMMA CallsReloaded ==
    ASSUME CallsFit, NEW s \in Threads, calls' = [FormsGone EXCEPT ![s] = ListCall]
    PROVE  CallsFit'
<1>1. \A t \in Threads : CallFits(calls'[t]) /\ ~Waiting(calls'[t])
  BY Zenon, FormsAreGone, SmallCallsFit
<1>. QED
  BY Zenon, <1>1, FormsAreGone, CallsPartsNext

-----------------------------------------------------------------------------
\* The page after a step.
PageInv == UiFits /\ CallsFit /\ SpinnerHasItsListing

\* The listing that ends the spinner stays where it is.
LEMMA ListingStays ==
    ASSUME SpinnerHasItsListing, ui'.rrs = NotLoaded /\ ~ui'.error => ui.rrs = NotLoaded /\ ~ui.error,
           \A t \in Threads : calls[t].kind = "list" => calls'[t].kind = "list"
    PROVE  SpinnerHasItsListing'
BY DEF SpinnerHasItsListing

\* reload: the spinner turns, and its listing is in flight.
LEMMA Reloads ==
    ASSUME PageInv, NEW s \in Threads, NEW u, u = ui \/ u = [ui EXCEPT !.dialog = NoDialog],
           Reloading(s, u)
    PROVE  PageInv'
<1>1. UiFits /\ CallsFit
  BY DEF PageInv
<1>2. PICK d : /\ DialogFits(d) /\ (ui.error => d = NoDialog)
               /\ ui' = [rrs |-> NotLoaded, view |-> NotLoaded, error |-> ui.error,
                         dialog |-> d, form |-> NoForm]
  <2>1. CASE u = ui
    BY Zenon, <1>1, <2>1, UiParts DEF Reloading
  <2>2. CASE u = [ui EXCEPT !.dialog = NoDialog]
    BY Zenon, <1>1, <2>2, UiParts, NoDialogFits DEF Reloading
  <2>. QED
    BY <2>1, <2>2
<1>3. UiFits'
  <2>1. FormFits(NoForm, d) /\ ui.error \in BOOLEAN
    BY <1>1, <1>2, NoDialogFits, UiParts
  <2>. QED
    BY <1>2, <2>1, UiMade
<1>4. CallsFit' /\ calls'[s] = ListCall
  BY Zenon, <1>1, CallsReloaded, FormsAreGone DEF Reloading
<1>5. SpinnerHasItsListing'
  BY <1>4 DEF SpinnerHasItsListing, ListCall
<1>. QED
  BY <1>3, <1>4, <1>5 DEF PageInv

\* The page is opened, or shows an error.
LEMMA PageIsNew ==
    ASSUME PageInv, NEW s \in Threads,
           \/ /\ ui' = Loading
              /\ calls' = [t \in Threads |-> IF t = s THEN ListCall ELSE NoCall]
           \/ ui' = [Loading EXCEPT !.error = TRUE] /\ calls' = [t \in Threads |-> NoCall]
    PROVE  PageInv'
<1>1. UiFits /\ CallsFit
  BY DEF PageInv
<1>2. PICK e \in BOOLEAN : ui' = [rrs |-> NotLoaded, view |-> NotLoaded, error |-> e,
                                  dialog |-> NoDialog, form |-> NoForm]
  BY Zenon DEF Loading
<1>3. UiFits'
  BY <1>2, NoDialogFits, UiMade
<1>4. /\ calls' = [t \in Threads |-> calls'[t]]
      /\ \A t \in Threads : calls'[t] \in {NoCall, ListCall}
  OBVIOUS
<1>5. CallsFit'
  BY <1>4, SmallCallsFit, CallsPartsNext
<1>6. SpinnerHasItsListing'
  <2>1. CASE ui' = Loading /\ calls' = [t \in Threads |-> IF t = s THEN ListCall ELSE NoCall]
    <3>1. calls'[s].kind = "list"
      BY <2>1 DEF ListCall
    <3>. QED
      BY <3>1 DEF SpinnerHasItsListing
  <2>2. CASE ui' = [Loading EXCEPT !.error = TRUE]
    BY <2>2 DEF SpinnerHasItsListing, Loading
  <2>. QED
    BY <2>1, <2>2
<1>. QED
  BY <1>3, <1>5, <1>6 DEF PageInv

\* A call is made, in a thread that has none, or answered, while the page
\* stays as it is.
LEMMA CallChanges ==
    ASSUME PageInv, NEW s \in Threads, NEW c, calls' = [calls EXCEPT ![s] = c], CallFits(c),
           Waiting(c) => HasNameForm(ui), UNCHANGED ui, calls[s].kind = "list" => c.kind = "list"
    PROVE  PageInv'
<1>1. UiFits /\ CallsFit /\ SpinnerHasItsListing
  BY DEF PageInv
<1>2. UiFits'
  BY <1>1 DEF UiFits, DialogShown, Shown
<1>3. CallsFit'
  BY Zenon, <1>1, CallPut
<1>4. \A t \in Threads : calls[t].kind = "list" => calls'[t].kind = "list"
  BY <1>1, CallsParts
<1>5. SpinnerHasItsListing'
  BY <1>1, <1>4, ListingStays
<1>. QED
  BY <1>2, <1>3, <1>5 DEF PageInv

\* A step that leaves the page alone.
LEMMA PageKept ==
    ASSUME PageInv, UNCHANGED <<ui, calls>>
    PROVE  PageInv'
BY DEF PageInv, UiFits, CallsFit, SpinnerHasItsListing, DialogShown, Shown

\* The table loses what deleteRr splices.
LEMMA RowSpliced ==
    ASSUME PageInv, Clickable, NEW name, NEW type, NEW ix, IsRow(name, type, ix),
           ui' = [ui EXCEPT !.rrs[name] = Spliced(@, type, ix)]
    PROVE  UiFits' /\ ui'.rrs # NotLoaded /\ ~HasNameForm(ui)
<1>1. UiFits /\ ui.rrs # NotLoaded /\ ui.dialog = NoDialog
  BY DEF PageInv, Clickable, Shown
<1> DEFINE rrs == [ui.rrs EXCEPT ![name] = Spliced(@, type, ix)]
<1>2. ui' = [rrs |-> rrs, view |-> ui.view, error |-> ui.error, dialog |-> ui.dialog, form |-> ui.form]
  BY <1>1, UiParts
<1>3. /\ IsTable(ui.view) /\ DOMAIN ui.rrs = DOMAIN ui.view
      /\ \A n \in DOMAIN ui.rrs : IsObject(n, ui.rrs[n])
  BY <1>1, UiParts
<1>4. DOMAIN rrs = DOMAIN ui.view /\ \A n \in DOMAIN rrs : IsObject(n, rrs[n])
  BY <1>3, SplicedObject DEF IsRow
<1>5. rrs # NotLoaded
  BY <1>3, <1>4, TableIsLoaded DEF IsTable
<1> HIDE DEF rrs
<1>6. UiFits'
  BY <1>1, <1>2, <1>3, <1>4, <1>5, UiParts, UiMade
<1>. QED
  BY <1>1, <1>2, <1>5, <1>6 DEF HasNameForm, NoDialog

\* A dialog opens.
LEMMA DialogOpens ==
    ASSUME PageInv, NEW d, DialogFits(d), d # NoDialog, Opened(d, FormFor(d))
    PROVE  PageInv'
<1>1. /\ UiFits /\ CallsFit /\ SpinnerHasItsListing
      /\ ui.rrs # NotLoaded /\ ui.dialog = NoDialog /\ ~ui.error
  BY DEF PageInv, Opened, Clickable, Shown
<1>2. ui' = [rrs |-> ui.rrs, view |-> ui.view, error |-> ui.error, dialog |-> d, form |-> FormFor(d)]
  BY Zenon, <1>1, UiParts DEF Opened
<1>3. UiFits'
  BY <1>1, <1>2, UiParts, UiMade, FormForFits
<1>4. CallsFit'
  BY <1>1, CallsKept DEF Opened, HasNameForm, NoDialog
<1>5. SpinnerHasItsListing'
  BY <1>1, <1>2 DEF SpinnerHasItsListing
<1>. QED
  BY <1>3, <1>4, <1>5 DEF PageInv

-----------------------------------------------------------------------------
\* The steps of the user. A request they send is an object for a name.
LEMMA Sends ==
    ASSUME NEW s \in Threads, NEW op \in RrOps, NEW name \in Names, NEW body, IsObject(name, body),
           NEW c, Send(s, op, name, body, c)
    PROVE  /\ Request(s) /\ calls[s] = NoCall /\ jobs[s] = Idle
           /\ calls' = [calls EXCEPT ![s] = c]
<1>1. op \in Ops /\ op \notin ZoneOps
  BY DEF Ops, RrOps, ZoneOps
<1>2. Gets(s, op, name, body)
  BY <1>1 DEF Gets, Send
<1>. QED
  BY <1>1, <1>2 DEF Request, Send, Free

\* The calls that change the zone are well formed.
LEMMA ChangeCallFits ==
    ASSUME NEW kind \in ChangeKinds, NEW name, NEW type, NEW ix, NEW value, NEW sound,
           kind = "addRr" => value # Malformed
    PROVE  /\ CallFits(ChangeCall(kind, name, type, ix, value, sound))
           /\ ~Waiting(ChangeCall(kind, name, type, ix, value, sound))
BY Zenon DEF CallFits, ChangeCall, ChangeKinds, Waiting

\* A table that is shown has an object for every name it shows.
LEMMA ClickableTable ==
    ASSUME PageInv, Shown
    PROVE  /\ IsTable(ui.view) /\ DOMAIN ui.rrs = DOMAIN ui.view /\ DOMAIN ui.view \subseteq Names
           /\ \A n \in DOMAIN ui.view : IsGood(n, ui.view[n]) /\ IsObject(n, ui.rrs[n])
BY UiParts DEF PageInv, Shown, IsTable

\* deleteFqdn sends an empty object for a name of the table.
LEMMA DeleteFqdnStep ==
    ASSUME PageInv, NEW s \in Threads, NEW name \in Names, deleteFqdn(s, name)
    PROVE  PageInv' /\ ThreadStep(s)
<1> DEFINE c == ChangeCall("deleteFqdn", name, NoType, 0, "", TRUE)
<1>1. Request(s) /\ calls[s] = NoCall /\ calls' = [calls EXCEPT ![s] = c] /\ UNCHANGED ui
  <2>1. "delete" \in RrOps /\ IsObject(name, NoEntry)
    BY EmptyObject DEF RrOps, IsGood
  <2>. QED
    BY Zenon, <2>1, Sends DEF deleteFqdn
<1>2. CallFits(c) /\ ~Waiting(c)
  BY Zenon, ChangeCallFits DEF ChangeKinds
<1> HIDE DEF c
<1>3. calls[s].kind # "list"
  BY <1>1 DEF NoCall
<1>4. PageInv'
  BY Zenon, <1>1, <1>2, <1>3, CallChanges
<1>. QED
  BY <1>1, <1>4 DEF ThreadStep

\* deleteRr splices the object of its row and sends what is left of it.
LEMMA DeleteRrStep ==
    ASSUME PageInv, NEW s \in Threads, NEW name, NEW type, NEW ix, deleteRr(s, name, type, ix)
    PROVE  PageInv' /\ ThreadStep(s)
<1> DEFINE c == ChangeCall("deleteRr", name, type, ix, "", Sound(name))
<1>0. /\ Clickable /\ IsRow(name, type, ix)
      /\ ui' = [ui EXCEPT !.rrs[name] = Spliced(@, type, ix)]
      /\ Send(s, "put", name, DeleteBody(ui.rrs[name], type, ix), c)
  BY Zenon DEF deleteRr
<1>1. name \in Names /\ IsObject(name, ui.rrs[name])
  BY Zenon, <1>0, ClickableTable DEF IsRow, Clickable
<1>2. IsObject(name, DeleteBody(ui.rrs[name], type, ix)) /\ "put" \in RrOps
  BY <1>1, DeleteBodyObject DEF RrOps
<1>3. Request(s) /\ calls' = [calls EXCEPT ![s] = c]
  BY Zenon, <1>0, <1>1, <1>2, Sends
<1>4. CallFits(c) /\ ~Waiting(c)
  BY Zenon, ChangeCallFits DEF ChangeKinds
<1> HIDE DEF c
<1>5. UiFits' /\ ui'.rrs # NotLoaded /\ ~HasNameForm(ui)
  BY <1>0, RowSpliced
<1>6. CallsFit'
  BY Zenon, <1>3, <1>4, <1>5, CallPut DEF PageInv
<1>7. SpinnerHasItsListing'
  BY <1>5 DEF SpinnerHasItsListing
<1>. QED
  BY <1>3, <1>5, <1>6, <1>7 DEF ThreadStep, PageInv

\* deleteRr, answered with no, splices it all the same.
LEMMA DeclineStep ==
    ASSUME PageInv, NEW name, NEW type, NEW ix, deleteRrDeclined(name, type, ix)
    PROVE  PageInv'
<1>1. /\ Clickable /\ IsRow(name, type, ix)
      /\ ui' = [ui EXCEPT !.rrs[name] = Spliced(@, type, ix)] /\ UNCHANGED calls
  BY DEF deleteRrDeclined
<1>2. UiFits' /\ ui'.rrs # NotLoaded /\ ~HasNameForm(ui)
  BY <1>1, RowSpliced
<1>3. CallsFit'
  BY <1>1, <1>2, CallsKept DEF PageInv
<1>4. SpinnerHasItsListing'
  BY <1>2 DEF SpinnerHasItsListing
<1>. QED
  BY <1>2, <1>3, <1>4 DEF PageInv

\* The dialogs that open fit the table.
LEMMA OpenStep ==
    ASSUME PageInv,
           \/ addFqdn \/ \E name \in Names : addRr(name)
           \/ \E name \in DOMAIN ui.view : \E type \in DOMAIN ui.view[name] :
                 \E ix \in DOMAIN ui.view[name][type] : editRr(name, type, ix)
    PROVE  PageInv' /\ UNCHANGED <<zoneVars, calls>>
<1>a. ASSUME NEW d, DialogFits(d), d # NoDialog, Opened(d, FormFor(d))
      PROVE  PageInv' /\ UNCHANGED <<zoneVars, calls>>
  BY Zenon, <1>a, DialogOpens DEF Opened
<1>1. CASE addFqdn
  <2> DEFINE d == [mode |-> "addFqdn"]
  <2>1. Opened(d, FormFor(d))
    BY <1>1 DEF addFqdn
  <2>2. DialogFits(d) /\ d # NoDialog
    BY DEF DialogFits, NoDialog
  <2> HIDE DEF d
  <2>. QED
    BY <1>a, <2>1, <2>2
<1>2. ASSUME NEW name \in Names, addRr(name) PROVE PageInv' /\ UNCHANGED <<zoneVars, calls>>
  <2> DEFINE d == [mode |-> "addRr", name |-> name, ix |-> 0, rr |-> ui.rrs[name], sound |-> Sound(name)]
  <2>1. Opened(d, FormFor(d)) /\ name \in DOMAIN ui.view
    BY <1>2 DEF addRr
  <2>2. IsObject(name, ui.rrs[name])
    BY <2>1, ClickableTable DEF Opened, Clickable
  <2>3. DialogFits(d) /\ d # NoDialog
    BY Zenon, <2>2 DEF DialogFits, NoDialog, Sound
  <2> HIDE DEF d
  <2>. QED
    BY <1>a, <2>1, <2>3
<1>3. ASSUME NEW name \in DOMAIN ui.view, NEW type \in DOMAIN ui.view[name],
             NEW ix \in DOMAIN ui.view[name][type], editRr(name, type, ix)
      PROVE  PageInv' /\ UNCHANGED <<zoneVars, calls>>
  <2> DEFINE d == [mode |-> "editRr", name |-> name, type |-> type, ix |-> ix,
                   rr |-> ui.rrs[name], sound |-> Sound(name)]
  <2>1. Opened(d, FormFor(d)) /\ Shown
    BY ZenonT(30), <1>3 DEF editRr, Opened, Clickable
  <2>2. name \in Names /\ IsObject(name, ui.rrs[name]) /\ IsObject(name, ui.view[name])
    BY ZenonT(30), <2>1, ClickableTable DEF IsGood
  <2>3. type \in Types /\ (type = Soa => name = Apex)
    BY <2>2 DEF IsObject, IsBody
  <2>4. ix \in Nat \ {0}
    <3>1. ui.view[name][type] \in Seq(Values \union {Malformed})
      BY <2>2 DEF IsObject
    <3> DEFINE S == Values \union {Malformed}
    <3> HIDE DEF S
    <3>2. ASSUME NEW v \in Seq(S), NEW i \in DOMAIN v PROVE i \in Nat \ {0}
      OBVIOUS
    <3>. QED
      BY <3>1, <3>2 DEF S
  <2>5. /\ Sound(name) \in BOOLEAN
        /\ Sound(name) => type \in DOMAIN ui.rrs[name] /\ ix \in DOMAIN ui.rrs[name][type]
    BY DEF Sound
  <2>6. DialogFits(d) /\ d # NoDialog
    BY Zenon, <2>2, <2>3, <2>4, <2>5 DEF DialogFits, NoDialog
  <2> HIDE DEF d
  <2>. QED
    BY <1>a, <2>1, <2>6
<1>. QED
  BY <1>1, <1>2, <1>3

\* AddFqdn.submit: only the form for a new name sends this request.
LEMMA SubmitFqdnStep ==
    ASSUME PageInv, NEW s \in Threads, NEW name \in TypedNames, submitFqdn(s, name)
    PROVE  PageInv' /\ ThreadStep(s)
<1> DEFINE c == [kind |-> "addFqdn", name |-> name, lost |-> FALSE, form |-> TRUE, base |-> Base,
                 sound |-> TRUE]
<1>0. name \in Names /\ IsObject(name, NoEntry) /\ "post" \in RrOps
  BY RecordsAssumption, EmptyObject DEF IsGood, RrOps
<1>1. Send(s, "post", name, NoEntry, c) /\ UNCHANGED ui
  BY Zenon DEF submitFqdn
<1>2. Request(s) /\ calls[s] = NoCall /\ calls' = [calls EXCEPT ![s] = c]
  BY Zenon, <1>0, <1>1, Sends
<1>3. HasNameForm(ui)
  <2>1. DialogShown /\ ui.form = NameForm
    BY DEF submitFqdn, FqdnFormOpen
  <2>2. FormFits(ui.form, ui.dialog) /\ DialogFits(ui.dialog)
    BY Zenon, UiParts DEF PageInv
  <2>3. ui.form.type = "fqdn" /\ ui.form # NoForm
    BY <2>1 DEF NameForm, NoForm
  <2>4. ui.dialog.mode # "closed"
    BY <2>2, <2>3 DEF FormFits
  <2>5. ui.dialog.mode # "addRr"
    <3>1. "fqdn" # NoType /\ "fqdn" \notin DOMAIN rrProto
      BY DEF NoType, rrProto
    <3>. QED
      BY ZenonT(30), <2>2, <2>3, <3>1, RecordsAssumption DEF FormFits, IsAddForm
  <2>6. ui.dialog.mode # "editRr"
    <3>1. "fqdn" \notin DOMAIN rrProto
      BY DEF rrProto
    <3>. QED
      BY ZenonT(30), <2>2, <2>3, <3>1, RecordsAssumption DEF FormFits, DialogFits
  <2>. QED
    BY Zenon, <2>2, <2>3, <2>4, <2>5, <2>6 DEF HasNameForm, DialogFits
<1>4. CallFits(c) /\ c.kind # "list"
  BY Zenon DEF CallFits, ChangeKinds
<1> HIDE DEF c
<1>5. calls[s].kind # "list"
  BY <1>2 DEF NoCall
<1>6. PageInv'
  BY ZenonT(30), <1>1, <1>2, <1>3, <1>4, <1>5, CallChanges
<1>. QED
  BY <1>2, <1>6 DEF ThreadStep

\* The type of the form that is submitted is one the dialog may set.
LEMMA FormType ==
    ASSUME PageInv, RrFormValid
    PROVE  /\ ui.dialog.mode \in {"addRr", "editRr"} /\ ui.form # NoForm
           /\ ui.dialog.name \in Names /\ IsObject(ui.dialog.name, ui.dialog.rr) /\ ui.dialog.ix \in Nat
           /\ ui.form.type \in Types /\ (ui.form.type = Soa => ui.dialog.name = Apex)
           /\ ui.dialog.mode = "addRr" => ui.dialog.ix = 0 /\ IsAddForm(ui.form)
           /\ ui.dialog.mode = "editRr" => ui.form.type = ui.dialog.type
<1>1. DialogShown /\ ui.dialog.mode \in {"addRr", "editRr"} /\ ui.form.type # NoType
  BY DEF RrFormValid
<1>2. FormFits(ui.form, ui.dialog) /\ DialogFits(ui.dialog) /\ ui.form # NoForm
  BY Zenon, <1>1, UiParts DEF PageInv, DialogShown, Shown
<1>3. ui.dialog.name \in Names /\ IsObject(ui.dialog.name, ui.dialog.rr)
  BY ZenonT(30), <1>1, <1>2 DEF DialogFits
<1>4. CASE ui.dialog.mode = "addRr"
  <2>1. IsAddForm(ui.form) /\ ui.dialog.ix = 0
    <3>1. IsAddForm(ui.form)
      BY Zenon, <1>2, <1>4 DEF FormFits
    <3>2. \E name, rr, sound : ui.dialog = [mode |-> "addRr", name |-> name, ix |-> 0, rr |-> rr, sound |-> sound]
      BY Zenon, <1>2, <1>4 DEF DialogFits
    <3>. QED
      BY <3>1, <3>2
  <2>2. ui.form.type \in Types /\ rrProto[ui.form.type].canAdd /\ ui.form.type \in DOMAIN rrProto
    BY ZenonT(30), <1>1, <2>1, RecordsAssumption DEF IsAddForm
  <2>3. ui.form.type # Soa
    BY <2>2, Prototypes, RecordsAssumption DEF ProtoFits
  <2>4. ui.dialog.ix \in Nat /\ ui.dialog.mode # "editRr"
    BY <1>4, <2>1
  <2>. QED
    BY Zenon, <1>1, <1>2, <1>3, <1>4, <2>1, <2>2, <2>3, <2>4
<1>5. CASE ui.dialog.mode = "editRr"
  BY Zenon, <1>1, <1>2, <1>3, <1>5 DEF FormFits, DialogFits
<1>. QED
  BY Zenon, <1>1, <1>4, <1>5

\* The dialog after AddRr.submit.
LEMMA DialogSet ==
    ASSUME NEW d, DialogFits(d), d.mode \in {"addRr", "editRr"}, NEW new, IsObject(d.name, new),
           d.mode = "editRr" /\ d.sound =>
              d.type \in DOMAIN new /\ d.ix \in DOMAIN new[d.type]
    PROVE  /\ DialogFits([d EXCEPT !.rr = new]) /\ [d EXCEPT !.rr = new].mode = d.mode
           /\ d.mode = "editRr" => [d EXCEPT !.rr = new].type = d.type
<1>1. CASE d.mode = "addRr"
  <2>1. d = [mode |-> "addRr", name |-> d.name, ix |-> 0, rr |-> d.rr, sound |-> d.sound]
    BY <1>1 DEF DialogFits
  <2>2. [d EXCEPT !.rr = new] =
           [mode |-> "addRr", name |-> d.name, ix |-> 0, rr |-> new, sound |-> d.sound]
    BY <2>1
  <2>3. d.name \in Names /\ d.sound \in BOOLEAN
    BY <1>1 DEF DialogFits
  <2>. QED
    BY ZenonT(30), <1>1, <2>2, <2>3 DEF DialogFits
<1>2. CASE d.mode = "editRr"
  <2>1. d = [mode |-> "editRr", name |-> d.name, type |-> d.type, ix |-> d.ix,
             rr |-> d.rr, sound |-> d.sound]
    BY <1>2 DEF DialogFits
  <2>2. [d EXCEPT !.rr = new] =
           [mode |-> "editRr", name |-> d.name, type |-> d.type, ix |-> d.ix,
            rr |-> new, sound |-> d.sound]
    BY <2>1
  <2>3. /\ d.name \in Names /\ d.sound \in BOOLEAN
        /\ d.type \in Types /\ d.ix \in Nat \ {0} /\ (d.type = Soa => d.name = Apex)
    BY Zenon, <1>2 DEF DialogFits
  <2>. QED
    BY ZenonT(30), <1>2, <2>2, <2>3 DEF DialogFits
<1>. QED
  BY <1>1, <1>2

\* An edit leaves a value at its place.
LEMMA SetKeepsPlace ==
    ASSUME NEW name, NEW rr, IsObject(name, rr), NEW type \in DOMAIN rr,
           NEW ix \in DOMAIN rr[type], NEW value
    PROVE  /\ type \in DOMAIN setValueInRr(rr, type, ix, value, Malformed)
           /\ ix \in DOMAIN setValueInRr(rr, type, ix, value, Malformed)[type]
<1> DEFINE S == Values \union {Malformed}
           v == rr[type]
           new == setValueInRr(rr, type, ix, value, Malformed)
<1>1. v \in Seq(S) /\ (rrProto[type].array \/ Len(v) = 1)
  BY DEF IsObject
<1> HIDE DEF S
<1>2. ix \in Nat \ {0} /\ ix <= Len(v) /\ Len(v) \in Nat
  BY <1>1
<1>3. type \in DOMAIN new
  BY DEF setValueInRr
<1>4. CASE ~rrProto[type].array
  <2>1. new[type] = <<value>>
    BY Zenon, <1>4 DEF setValueInRr
  <2>2. ix = 1
    BY <1>1, <1>2, <1>4
  <2>. QED
    BY <1>3, <2>1, <2>2
<1>5. CASE rrProto[type].array
  <2>1. new[type] = ValueSet(v, ix, value, Malformed)
    BY Zenon, <1>2, <1>5 DEF setValueInRr
  <2>2. DOMAIN new[type] = 1..Len(v)
    BY <1>2, <2>1 DEF ValueSet
  <2>. QED
    BY <1>2, <1>3, <2>2
<1>. QED
  BY <1>4, <1>5

\* AddRr.submit: what an added value has not the fields for is not sent.
LEMMA SubmitRrStep ==
    ASSUME PageInv, NEW s \in Threads, NEW value \in TypedValues, submitRr(s, value)
    PROVE  PageInv' /\ ThreadStep(s)
<1> DEFINE d == ui.dialog
           edited == IF CollectFits(ui.form) THEN value ELSE Malformed
           new == setValueInRr(d.rr, ui.form.type, d.ix, edited, Malformed)
           sound == d.sound /\ d.name \in DOMAIN ui.view /\ d.rr = ui.view[d.name]
           c == ChangeCall(d.mode, d.name, ui.form.type, d.ix, edited, sound)
<1>1. /\ RrFormValid /\ ~CollectThrows(ui.form)
      /\ ui' = [ui EXCEPT !.dialog.rr = new] /\ Send(s, "put", d.name, new, c)
  BY DEF submitRr
<1>2. UiFits /\ CallsFit /\ SpinnerHasItsListing
  BY DEF PageInv
<1>3. /\ d.mode \in {"addRr", "editRr"} /\ ui.form # NoForm
      /\ d.name \in Names /\ IsObject(d.name, d.rr) /\ d.ix \in Nat
      /\ ui.form.type \in Types /\ (ui.form.type = Soa => d.name = Apex)
      /\ d.mode = "addRr" => d.ix = 0 /\ IsAddForm(ui.form)
      /\ d.mode = "editRr" => ui.form.type = d.type
  BY Zenon, <1>1, FormType
<1>4. edited \in Values \union {Malformed} /\ (d.mode = "addRr" => edited # Malformed)
  <2>1. value \in Values /\ value # Malformed
    BY RecordsAssumption
  <2>2. ASSUME d.mode = "addRr" PROVE CollectFits(ui.form)
    <3>1. ui.form.type # NoType
      BY Zenon, <1>1 DEF RrFormValid
    <3>. QED
      BY <1>1, <1>3, <2>2, <3>1, CollectedFits, RecordsAssumption
  <2>. QED
    BY Zenon, <2>1, <2>2
<1> HIDE DEF edited
<1>5. IsObject(d.name, new) /\ "put" \in RrOps
  BY Zenon, <1>3, <1>4, SetObject DEF RrOps
<1>c. c = ChangeCall(d.mode, d.name, ui.form.type, d.ix, edited, sound)
  BY Zenon
<1> HIDE DEF c
<1>6. Request(s) /\ calls[s] = NoCall /\ calls' = [calls EXCEPT ![s] = c]
  <2>1. Send(s, "put", d.name, new, c) /\ d.name \in Names
    BY Zenon, <1>1, <1>3
  <2> HIDE DEF new, d
  <2>. QED
    BY Zenon, <1>5, <2>1, Sends
<1>7. CallFits(c) /\ ~Waiting(c)
  BY ZenonT(30), <1>3, <1>4, <1>c, ChangeCallFits DEF ChangeKinds
<1>8. DialogFits(d)
  BY <1>2, UiParts
<1>9. d.mode = "editRr" /\ d.sound => d.type \in DOMAIN new /\ d.ix \in DOMAIN new[d.type]
  <2>1. ASSUME d.mode = "editRr", d.sound PROVE d.type \in DOMAIN d.rr /\ d.ix \in DOMAIN d.rr[d.type]
    BY <1>8, <2>1 DEF DialogFits
  <2>. QED
    BY ZenonT(30), <1>3, <2>1, SetKeepsPlace
<1> HIDE DEF new
<1> DEFINE e == [d EXCEPT !.rr = new]
<1>10. DialogFits(e) /\ e.mode = d.mode /\ (d.mode = "editRr" => e.type = d.type)
  BY <1>3, <1>5, <1>8, <1>9, DialogSet
<1>11. ui' = [rrs |-> ui.rrs, view |-> ui.view, error |-> ui.error, dialog |-> e, form |-> ui.form]
  BY Zenon, <1>1, <1>2, UiParts
<1> HIDE DEF e
<1>12. FormFits(ui.form, e)
  BY Zenon, <1>2, <1>3, <1>10, UiParts DEF FormFits
<1>13. e # NoDialog /\ d # NoDialog
  BY <1>3, <1>10 DEF NoDialog
<1>14. UiFits'
  BY <1>2, <1>10, <1>11, <1>12, <1>13, UiParts, UiMade
<1>15. CallsFit'
  <2>1. ~HasNameForm(ui)
    BY <1>3 DEF HasNameForm
  <2>. QED
    BY Zenon, <1>2, <1>6, <1>7, <2>1, CallPut
<1>16. SpinnerHasItsListing'
  BY <1>1, <1>11 DEF SpinnerHasItsListing, RrFormValid, DialogShown, Shown
<1>. QED
  BY <1>6, <1>14, <1>15, <1>16 DEF ThreadStep, PageInv

\* onSelectinChanged changes the form and nothing else.
LEMMA SelectStep ==
    ASSUME PageInv, NEW type, onSelectinChanged(type)
    PROVE  PageInv'
<1>1. /\ DialogShown /\ ui.dialog.mode = "addRr"
      /\ type \in (ui.form.offered \intersect Types) \union {NoType}
      /\ ui' = [ui EXCEPT !.form = Selected(@, type)] /\ UNCHANGED calls
  BY DEF onSelectinChanged
<1>2. UiFits /\ CallsFit /\ ui.rrs # NotLoaded /\ ~ui.error /\ ui.dialog # NoDialog
  BY <1>1 DEF PageInv, DialogShown, Shown
<1>3. IsAddForm(ui.form)
  BY <1>1, <1>2, UiParts DEF FormFits
<1> DEFINE f == Selected(ui.form, type)
<1>4. IsAddForm(f) /\ f # NoForm
  BY <1>1, <1>3, SelectedForm
<1> HIDE DEF f
<1>5. ui' = [rrs |-> ui.rrs, view |-> ui.view, error |-> ui.error, dialog |-> ui.dialog, form |-> f]
  BY <1>1, <1>2, UiParts DEF f
<1>6. FormFits(f, ui.dialog)
  BY Zenon, <1>1, <1>4 DEF FormFits
<1>7. UiFits'
  BY <1>2, <1>4, <1>5, <1>6, UiParts, UiMade
<1>8. CallsFit'
  BY <1>1, <1>2, CallsKept DEF HasNameForm
<1>9. SpinnerHasItsListing'
  BY <1>2, <1>5 DEF SpinnerHasItsListing
<1>. QED
  BY <1>7, <1>8, <1>9 DEF PageInv

-----------------------------------------------------------------------------
\* The answers.
LEMMA ListLoadedStep ==
    ASSUME PageInv, NEW s \in Threads, ListLoaded(s)
    PROVE  PageInv'
<1> DEFINE p == calls[s].page
           d == ui.dialog
           f == IF ui.form = NoForm THEN FormFor(d) ELSE ui.form
<1>1. /\ calls[s].kind = "list" /\ p # NotLoaded
      /\ ui' = [ui EXCEPT !.rrs = p, !.view = p, !.form = f]
      /\ calls' = [calls EXCEPT ![s] = NoCall]
  BY DEF ListLoaded
<1>2. UiFits /\ CallsFit
  BY DEF PageInv
<1>3. IsTable(p)
  BY <1>1, <1>2, CallsParts DEF CallFits
<1>4. DialogFits(d) /\ FormFits(ui.form, d) /\ ui.error \in BOOLEAN /\ (ui.error => d = NoDialog)
  BY Zenon, <1>2, UiParts
<1>5. FormFits(f, d) /\ (d # NoDialog <=> f # NoForm)
  <2>1. CASE d = NoDialog
    <3>1. FormFor(d) = NoForm /\ d.mode = "closed"
      BY <2>1 DEF FormFor, NoDialog
    <3>. QED
      BY <1>4, <2>1, <3>1 DEF FormFits
  <2>2. CASE d # NoDialog
    BY <1>4, <2>2, FormForFits
  <2>. QED
    BY ZenonT(30), <2>1, <2>2
<1>6. HasNameForm(ui) => f = ui.form
  BY DEF HasNameForm
<1>7. ui' = [rrs |-> p, view |-> p, error |-> ui.error, dialog |-> d, form |-> f]
  BY Zenon, <1>1, <1>2, UiParts
<1> HIDE DEF p, d, f
<1>8. \A n \in DOMAIN p : IsObject(n, p[n])
  BY Zenon, <1>3 DEF IsTable, IsGood
<1>9. UiFits'
  <2>1. (~ui.error /\ p # NotLoaded /\ d # NoDialog) <=> f # NoForm
    BY <1>1, <1>4, <1>5
  <2>. QED
    BY <1>3, <1>4, <1>5, <1>7, <1>8, <2>1, UiMade
<1>10. CallsFit'
  <2>1. HasNameForm(ui) => HasNameForm(ui')
    BY <1>6, <1>7 DEF HasNameForm, d
  <2>. QED
    BY Zenon, <1>1, <1>2, <2>1, CallPut, SmallCallsFit
<1>11. SpinnerHasItsListing'
  BY <1>1, <1>7 DEF SpinnerHasItsListing
<1>. QED
  BY <1>9, <1>10, <1>11 DEF PageInv

\* The thread that answered is free, or goes on.
LEMMA CallEndsStep ==
    ASSUME ZoneFits, NEW s \in Threads, CallEnds(s)
    PROVE  ThreadStep(s) \/ UNCHANGED zoneVars
<1>1. UNCHANGED <<entries, serial, diffs, zrrIx, ghosts>>
  BY DEF CallEnds
<1>2. CASE Finished(s)
  BY <1>1, <1>2 DEF CallEnds, ThreadStep, Answer
<1>3. CASE ~Finished(s)
  <2>1. jobs' = jobs
    BY <1>3 DEF CallEnds, ZoneFits
  <2>. QED
    BY <1>1, <2>1 DEF zoneVars
<1>. QED
  BY <1>2, <1>3

\* deleteFqdn and deleteRr after `await fetch`.
LEMMA DeleteAnsweredStep ==
    ASSUME PageInv, NEW s \in Threads, DeleteAnswered(s)
    PROVE  PageInv'
<1>1. CASE Heard(s, "ok")
  BY <1>1, Reloads DEF DeleteAnswered
<1>2. CASE ~Heard(s, "ok")
  <2>1. calls' = [calls EXCEPT ![s] = NoCall] /\ UNCHANGED ui /\ calls[s].kind # "list"
    BY <1>2 DEF DeleteAnswered
  <2>. QED
    BY Zenon, <2>1, CallChanges, SmallCallsFit
<1>. QED
  BY <1>1, <1>2

\* Both dialogs after `await fetch`: the error of AddFqdn shows in its own form only.
LEMMA SaveAnsweredStep ==
    ASSUME PageInv, NEW s \in Threads, SaveAnswered(s)
    PROVE  PageInv'
<1>1. CASE Heard(s, "ok")
  BY <1>1, Reloads DEF SaveAnswered
<1>2. CASE ~Heard(s, "ok")
  <2>1. calls' = [calls EXCEPT ![s] = NoCall] /\ calls[s].kind # "list"
    BY <1>2 DEF SaveAnswered
  <2>2. CASE UNCHANGED ui
    BY Zenon, <2>1, <2>2, CallChanges, SmallCallsFit
  <2>3. CASE Waiting(calls[s]) /\ ui' = [ui EXCEPT !.form = [type |-> "failed"]]
    <3>0. UiFits /\ CallsFit /\ SpinnerHasItsListing
      BY DEF PageInv
    <3>1. HasNameForm(ui)
      BY <2>3, <3>0, CallsParts
    <3> DEFINE f == [type |-> "failed"]
    <3>2. ui' = [rrs |-> ui.rrs, view |-> ui.view, error |-> ui.error, dialog |-> ui.dialog, form |-> f]
      BY <2>3, <3>0, UiParts
    <3>3. f # NoForm
      BY DEF NoForm
    <3>4. FormFits(f, ui.dialog)
      BY <3>1 DEF FormFits, HasNameForm
    <3> HIDE DEF f
    <3>5. ui.form # NoForm
      BY Zenon, <3>1 DEF HasNameForm
    <3>6. UiFits'
      BY <3>0, <3>2, <3>3, <3>4, <3>5, UiParts, UiMade
    <3>7. HasNameForm(ui')
      BY <3>1, <3>2, <3>3 DEF HasNameForm
    <3>8. CallsFit'
      BY Zenon, <2>1, <3>0, <3>7, CallPut, SmallCallsFit
    <3>9. SpinnerHasItsListing'
      BY <3>0, <3>2, <3>5, UiParts DEF SpinnerHasItsListing
    <3>. QED
      BY <3>6, <3>8, <3>9 DEF PageInv
  <2>. QED
    BY <1>2, <2>2, <2>3 DEF SaveAnswered, Waiting
<1>. QED
  BY <1>1, <1>2

-----------------------------------------------------------------------------
\* The server and the network.
LEMMA ServeListStep ==
    ASSUME PageInv, ZoneFits, NEW s \in Threads, ServeList(s)
    PROVE  PageInv'
<1>1. PICK page \in Listings : calls' = [calls EXCEPT ![s].page = page]
  BY Zenon DEF ServeList
<1>2. calls[s].kind = "list" /\ UNCHANGED ui /\ CallFits(calls[s]) /\ s \in DOMAIN calls
  BY CallsParts DEF ServeList, PageInv
<1>3. IsTable(page)
  <2>1. IsTable(NoEntry)
    BY DEF IsTable, NoEntry
  <2>. QED
    BY <2>1 DEF Listings, ZoneFits
<1> DEFINE c == [kind |-> "list", page |-> page, lost |-> calls[s].lost]
<1>4. calls' = [calls EXCEPT ![s] = c]
  <2>1. [calls[s] EXCEPT !.page = page] = c
    BY <1>2 DEF CallFits
  <2>. QED
    BY Zenon, <1>1, <2>1
<1>5. CallFits(c) /\ ~Waiting(c) /\ c.kind = "list"
  BY Zenon, <1>3 DEF CallFits, Waiting, ChangeKinds
<1> HIDE DEF c
<1>. QED
  BY Zenon, <1>2, <1>4, <1>5, CallChanges

\* A call whose answer is lost stays well formed.
LEMMA LostCall ==
    ASSUME NEW c, CallFits(c), c.kind # "none", NEW lost
    PROVE  /\ CallFits([c EXCEPT !.lost = lost]) /\ [c EXCEPT !.lost = lost].kind = c.kind
           /\ Waiting([c EXCEPT !.lost = lost]) => Waiting(c)
<1> DEFINE l == [c EXCEPT !.lost = lost]
<1>1. CASE c.kind = "list"
  <2>1. c = [kind |-> "list", page |-> c.page, lost |-> c.lost]
    BY <1>1 DEF CallFits
  <2>2. l = [kind |-> "list", page |-> c.page, lost |-> lost]
    BY <2>1
  <2> HIDE DEF l
  <2>3. CallFits(l) /\ l.kind = c.kind /\ (Waiting(l) => Waiting(c))
    BY Zenon, <1>1, <2>2 DEF CallFits, Waiting, ChangeKinds
  <2>. QED
    BY Zenon, <2>3 DEF l
<1>2. CASE c.kind = "addFqdn"
  <2>1. c = [kind |-> "addFqdn", name |-> c.name, lost |-> c.lost, form |-> c.form,
             base |-> c.base, sound |-> c.sound]
    BY <1>2 DEF CallFits
  <2>2. l = [kind |-> "addFqdn", name |-> c.name, lost |-> lost, form |-> c.form,
             base |-> c.base, sound |-> c.sound]
    BY <2>1
  <2> HIDE DEF l
  <2>3. CallFits(l) /\ l.kind = c.kind /\ (Waiting(l) => Waiting(c))
    BY Zenon, <1>2, <2>2 DEF CallFits, Waiting, ChangeKinds
  <2>. QED
    BY <2>3 DEF l
<1>3. CASE c.kind \in ChangeKinds
  <2>1. c = [kind |-> c.kind, name |-> c.name, type |-> c.type, ix |-> c.ix, value |-> c.value,
             lost |-> c.lost, base |-> c.base, sound |-> c.sound]
    BY <1>3 DEF CallFits
  <2>2. l = [kind |-> c.kind, name |-> c.name, type |-> c.type, ix |-> c.ix, value |-> c.value,
             lost |-> lost, base |-> c.base, sound |-> c.sound]
    BY <2>1
  <2> HIDE DEF l
  <2>3. CallFits(l) /\ l.kind = c.kind /\ (Waiting(l) => Waiting(c))
    BY <1>3, <2>2 DEF CallFits, Waiting, ChangeKinds
  <2>. QED
    BY <2>3 DEF l
<1>. QED
  BY <1>1, <1>2, <1>3 DEF CallFits

\* A request or an answer is lost.
LEMMA NetworkFailsStep ==
    ASSUME PageInv, NEW s \in Threads, NetworkFails(s)
    PROVE  PageInv' /\ (ThreadStep(s) \/ UNCHANGED zoneVars)
<1> DEFINE c == [calls[s] EXCEPT !.lost = TRUE]
<1>1. calls' = [calls EXCEPT ![s] = c] /\ calls[s].kind # "none" /\ UNCHANGED ui
  BY DEF NetworkFails
<1>2. CallFits(calls[s]) /\ (Waiting(calls[s]) => HasNameForm(ui))
  BY CallsParts DEF PageInv
<1>3. CallFits(c) /\ (Waiting(c) => Waiting(calls[s])) /\ c.kind = calls[s].kind
  BY <1>1, <1>2, LostCall, Zenon
<1> HIDE DEF c
<1>4. PageInv'
  BY Zenon, <1>1, <1>2, <1>3, CallChanges
<1>. QED
  BY <1>4 DEF NetworkFails, ThreadStep

\* What another client sends is an object too.
LEMMA OtherClientStep ==
    ASSUME NEW s \in Threads, NEW r \in OtherRequests, OtherClient(s, r)
    PROVE  ThreadStep(s) /\ UNCHANGED <<ui, calls>>
<1>1. /\ r.op \in Ops /\ r.name \in Names /\ (r.op \in ZoneOps => r.name = Apex)
      /\ IsObject(r.name, r.body)
  BY Zenon, RecordsAssumption
<1>2. Gets(s, r.op, r.name, r.body)
  BY <1>1 DEF OtherClient, Gets
<1>. QED
  BY Zenon, <1>1, <1>2 DEF OtherClient, ThreadStep, Request

-----------------------------------------------------------------------------
\* A step of the page leaves the zone alone or is a step of one of its threads.
ZonePart == UNCHANGED zoneVars \/ \E t \in Threads : ThreadStep(t)

\* The clicks that send nothing.
LEMMA UserOpensStep ==
    ASSUME PageInv, UserOpens
    PROVE  PageInv' /\ UNCHANGED <<zoneVars, calls>>
<1>1. CASE \/ addFqdn \/ \E name \in Names : addRr(name)
           \/ \E name \in DOMAIN ui.view : \E type \in DOMAIN ui.view[name] :
                 \E ix \in DOMAIN ui.view[name][type] : editRr(name, type, ix)
  BY <1>1, OpenStep
<1>2. ASSUME NEW name, NEW type, NEW ix, deleteRrDeclined(name, type, ix)
      PROVE  PageInv' /\ UNCHANGED <<zoneVars, calls>>
  BY <1>2, DeclineStep DEF deleteRrDeclined
<1>3. ASSUME NEW type, onSelectinChanged(type) PROVE PageInv' /\ UNCHANGED <<zoneVars, calls>>
  BY Zenon, <1>3, SelectStep DEF onSelectinChanged
<1>. QED
  BY <1>1, <1>2, <1>3 DEF UserOpens

\* The clicks that send a request.
LEMMA UserStep ==
    ASSUME PageInv, NEW s \in Threads, User(s)
    PROVE  PageInv' /\ ZonePart
<1>1. CASE Reload(s) \/ onCancel(s)
  BY <1>1, Reloads DEF Reload, onCancel, ZonePart
<1>2. CASE Reopen(s)
  BY <1>2, PageIsNew DEF Reopen, ZonePart
<1>3. CASE \E name \in Names : deleteFqdn(s, name)
  BY <1>3, DeleteFqdnStep DEF ZonePart
<1>4. CASE \E name \in DOMAIN ui.view : \E type \in DOMAIN ui.view[name] :
              \E ix \in DOMAIN ui.view[name][type] : deleteRr(s, name, type, ix)
  BY <1>4, DeleteRrStep DEF ZonePart
<1>5. CASE \E name \in TypedNames : submitFqdn(s, name)
  BY <1>5, SubmitFqdnStep DEF ZonePart
<1>6. CASE \E value \in TypedValues : submitRr(s, value)
  BY <1>6, SubmitRrStep DEF ZonePart
<1>. QED
  BY <1>1, <1>2, <1>3, <1>4, <1>5, <1>6 DEF User

\* Every step keeps the page in its shape, and is one of the zone or none.
LEMMA NextPage ==
    ASSUME PageInv, ZoneFits, Next
    PROVE  PageInv' /\ ZonePart
<1>1. CASE UserOpens
  BY <1>1, UserOpensStep DEF ZonePart
<1>2. ASSUME NEW s \in Threads, User(s) PROVE PageInv' /\ ZonePart
  BY <1>2, UserStep
<1>3. ASSUME NEW s \in Threads, ServeList(s) PROVE PageInv' /\ ZonePart
  BY Zenon, <1>3, ServeListStep DEF ServeList, ZonePart
<1>4. ASSUME NEW s \in Threads, Serve(s) PROVE PageInv' /\ ZonePart
  BY <1>4, PageKept DEF Serve, ZonePart, ThreadStep
<1>5. ASSUME NEW s \in Threads, NetworkFails(s) PROVE PageInv' /\ ZonePart
  BY <1>5, NetworkFailsStep DEF ZonePart
<1>6. ASSUME NEW s \in Threads, ListLoaded(s) PROVE PageInv' /\ ZonePart
  BY Zenon, <1>6, ListLoadedStep DEF ListLoaded, ZonePart
<1>7. ASSUME NEW s \in Threads, ListFailed(s) PROVE PageInv' /\ ZonePart
  BY Zenon, <1>7, PageIsNew DEF ListFailed, ZonePart
<1>8. ASSUME NEW s \in Threads, DeleteAnswered(s) PROVE PageInv' /\ ZonePart
  BY <1>8, DeleteAnsweredStep, CallEndsStep DEF DeleteAnswered, ZonePart
<1>9. ASSUME NEW s \in Threads, SaveAnswered(s) PROVE PageInv' /\ ZonePart
  BY <1>9, SaveAnsweredStep, CallEndsStep DEF SaveAnswered, ZonePart
<1>10. ASSUME NEW s \in Threads, NEW r \in OtherRequests, OtherClient(s, r) PROVE PageInv' /\ ZonePart
  BY <1>10, OtherClientStep, PageKept DEF ZonePart
<1>. QED
  BY <1>1, <1>2, <1>3, <1>4, <1>5, <1>6, <1>7, <1>8, <1>9, <1>10 DEF Next

\* Every step keeps the counters within their bounds.
LEMMA NextBounds ==
    ASSUME BoundsFit, Next
    PROVE  BoundsFit'
<1>0. MaxClicks \in Nat /\ MaxEvents \in Nat
  BY RecordsAssumption
<1>1. ASSUME UNCHANGED bounds PROVE BoundsFit'
  BY <1>1 DEF bounds, BoundsFit
<1>2. ASSUME Click PROVE BoundsFit'
  BY <1>0, <1>2 DEF Click, BoundsFit
<1>3. ASSUME Event PROVE BoundsFit'
  BY <1>0, <1>3 DEF Event, BoundsFit
<1>4. CASE UserOpens
  <2>1. Click \/ UNCHANGED bounds
    BY Zenon, <1>4 DEF UserOpens, addFqdn, addRr, editRr, Opened, deleteRrDeclined, onSelectinChanged
  <2>. QED
    BY <1>1, <1>2, <2>1
<1>5. ASSUME NEW s \in Threads, User(s) PROVE BoundsFit'
  <2>1. Click
    BY Zenon, <1>5 DEF User, Reload, Reopen, onCancel, deleteFqdn, deleteRr, submitFqdn, submitRr
  <2>. QED
    BY <1>2, <2>1
<1>6. ASSUME NEW s \in Threads,
             \/ ServeList(s) \/ Serve(s) \/ ListLoaded(s) \/ ListFailed(s) \/ DeleteAnswered(s)
             \/ SaveAnswered(s)
      PROVE  BoundsFit'
  <2>1. UNCHANGED bounds
    BY <1>6 DEF ServeList, Serve, ListLoaded, ListFailed, DeleteAnswered, SaveAnswered, CallEnds, bounds
  <2>. QED
    BY <1>1, <2>1
<1>7. ASSUME NEW s \in Threads, NetworkFails(s) \/ \E r \in OtherRequests : OtherClient(s, r)
      PROVE  BoundsFit'
  <2>1. Event \/ UNCHANGED bounds
    BY <1>7 DEF NetworkFails, OtherClient
  <2>. QED
    BY <1>1, <1>3, <2>1
<1>. QED
  BY Zenon, <1>4, <1>5, <1>6, <1>7 DEF Next

\* The shape of the page and the zone is an invariant.
LEMMA InitRec ==
    ASSUME Init
    PROVE  RecInv
<1>1. ZoneFits
  <2>1. ASSUME NEW n \in DOMAIN InitialEntries PROVE IsGood(n, InitialEntries[n])
    <3>1. IsObject(n, InitialEntries[n]) /\ IsEntry(InitialEntries[n]) /\ Malformed \notin Values
      BY RecordsAssumption, ZoneAssumption
    <3>2. \A t \in DOMAIN InitialEntries[n] : InitialEntries[n][t] \in Seq(Values)
      BY <3>1 DEF IsEntry
    <3>3. ASSUME NEW v \in Seq(Values), NEW i \in DOMAIN v PROVE v[i] \in Values
      OBVIOUS
    <3>4. WellFormed(InitialEntries[n])
      BY <3>1, <3>2, <3>3 DEF WellFormed
    <3>. QED
      BY <3>1, <3>4 DEF IsGood
  <2>2. IsTable(entries)
    BY <2>1, ZoneAssumption DEF IsTable, Init, ZoneInit
  <2>. QED
    BY <2>2, ZoneAssumption DEF ZoneFits, Init, ZoneInit, JobFits
<1>2. UiFits
  <2>1. ui = [rrs |-> NotLoaded, view |-> NotLoaded, error |-> FALSE, dialog |-> NoDialog,
              form |-> NoForm]
    BY DEF Init, Loading
  <2>2. TableFits(ui) /\ ui.dialog = NoDialog /\ ui.form = NoForm /\ ui.rrs = NotLoaded
    BY <2>1 DEF TableFits
  <2>. QED
    BY <2>2, NoDialogFits DEF UiFits, DialogShown, Shown
<1>3. CallsFit
  BY ZenonT(30), SmallCallsFit, CallsParts DEF Init
<1>4. SpinnerHasItsListing
  BY ZenonT(30), RecordsAssumption DEF SpinnerHasItsListing, Init, ListCall
<1>5. BoundsFit
  BY RecordsAssumption DEF BoundsFit, Init
<1>. QED
  BY ZenonT(30), <1>1, <1>2, <1>3, <1>4, <1>5 DEF RecInv

\* and every step keeps it.
LEMMA NextRec ==
    ASSUME RecInv, [Next]_vars
    PROVE  RecInv' /\ ZonePart
<1>0. PageInv /\ ZoneFits /\ BoundsFit
  BY DEF RecInv, PageInv
<1>1. CASE Next
  <2>1. PageInv' /\ ZonePart /\ BoundsFit'
    BY <1>0, <1>1, NextPage, NextBounds
  <2>2. CASE UNCHANGED zoneVars
    <3>1. ZoneFits'
      BY <1>0, <2>2 DEF ZoneFits, zoneVars, IsTable
    <3>. QED
      BY <2>1, <3>1 DEF RecInv, PageInv
  <2>3. CASE \E t \in Threads : ThreadStep(t)
    BY <1>0, <2>1, <2>3, ThreadKeepsZone DEF RecInv, PageInv
  <2>. QED
    BY <2>1, <2>2, <2>3 DEF ZonePart
<1>2. CASE UNCHANGED vars
  <2>1. UNCHANGED <<ui, calls, clicks, events, zoneVars>>
    BY <1>2 DEF vars
  <2>2. PageInv' /\ BoundsFit'
    BY <1>0, <2>1, PageKept DEF BoundsFit
  <2>3. ZoneFits'
    BY <1>0, <2>1 DEF ZoneFits, zoneVars, IsTable
  <2>. QED
    BY <2>1, <2>2, <2>3 DEF RecInv, PageInv, ZonePart
<1>. QED
  BY <1>1, <1>2

\* The page, its requests and the zone keep their shape: what the database holds, what a
\* request sends and what the table, its dialog and its form show belong to the name they are
\* about, whoever else changes the zone meanwhile.
THEOREM RecordsInvariance == Spec => []RecInv
<1>1. Init => RecInv
  BY InitRec
<1>2. RecInv /\ [Next]_vars => RecInv'
  BY NextRec
<1>. QED
  BY <1>1, <1>2, PTL DEF Spec

\* The page and the other client are clients of module Zone: every step of theirs is a step
\* of onResourceRecord or onZone as that module has it, or leaves the zone alone. What is
\* proved of ZoneSpec in ZoneProofs holds of this page too.
THEOREM PageDrivesTheZone == Spec => ZoneSpec
<1>1. Init => ZoneInit
  BY DEF Init
<1>2. RecInv /\ [Next]_vars => [ZoneNext]_zoneVars
  <2> SUFFICES ASSUME RecInv, [Next]_vars PROVE [ZoneNext]_zoneVars
    OBVIOUS
  <2>1. ZonePart
    BY NextRec
  <2>. QED
    BY <2>1, ThreadIsZone DEF ZonePart
<1>. QED
  BY <1>1, <1>2, RecordsInvariance, PTL DEF Spec, ZoneSpec

\* The database holds entries with at least one value of every type and nothing malformed, the
\* table shows names of the zone, and a form is there only with its table.
THEOREM RecordsTypes == Spec => []TypeOK
<1>1. RecInv => TypeOK
  <2> SUFFICES ASSUME RecInv PROVE TypeOK
    BY Zenon
  <2>1. ASSUME NEW n \in DOMAIN entries PROVE IsEntry(entries[n])
    <3>1. IsObject(n, entries[n]) /\ WellFormed(entries[n])
      BY DEF RecInv, ZoneFits, IsTable, IsGood
    <3>2. ASSUME NEW S, NEW x, NEW v \in Seq(S \union {x}), \A i \in DOMAIN v : v[i] # x
          PROVE  v \in Seq(S)
      <4>1. \A i \in 1..Len(v) : v[i] \in S
        BY <3>2
      <4>2. v = [i \in 1..Len(v) |-> v[i]] /\ Len(v) \in Nat
        OBVIOUS
      <4>. QED
        BY <4>1, <4>2
    <3>3. ASSUME NEW t \in DOMAIN entries[n]
          PROVE  entries[n][t] \in Seq(Values) /\ entries[n][t] # <<>>
      <4>1. entries[n][t] \in Seq(Values \union {Malformed}) /\ entries[n][t] # <<>>
        BY <3>1 DEF IsObject
      <4>2. \A i \in DOMAIN entries[n][t] : entries[n][t][i] # Malformed
        BY <3>1 DEF WellFormed
      <4>. QED
        BY Zenon, <3>2, <4>1, <4>2
    <3>. QED
      BY <3>1, <3>3 DEF IsEntry, IsObject, IsBody
  <2>2. ui.rrs # NotLoaded => DOMAIN ui.rrs \subseteq Names /\ DOMAIN ui.view = DOMAIN ui.rrs
    BY UiParts DEF RecInv, IsTable
  <2>3. ui.form # NoForm => DialogShown
    BY DEF RecInv, UiFits
  <2>. QED
    BY <2>1, <2>2, <2>3 DEF TypeOK, RecInv, ZoneFits, IsTable, BoundsFit
<1>. QED
  BY <1>1, RecordsInvariance, PTL

\* The spinner of the page never turns for nothing: reload, close, a lost answer, a page that is
\* left and opened again, in any order, leave a listing in flight or an error on the screen.
THEOREM SpinnerIsServed == Spec => []SpinnerHasItsListing
<1>1. RecInv => SpinnerHasItsListing
  BY ZenonT(30) DEF RecInv
<1>. QED
  BY <1>1, RecordsInvariance, PTL

\* AddRr.submit never sends a value that lacks the fields of its type, however often another
\* type was selected: an input keeps the place it was mounted at, a field has the same place in
\* every prototype, so what is collected without an exception has the fields of the type.
THEOREM SentValuesFit == Spec => []SentValueFitsItsType
<1>1. RecInv => SentValueFitsItsType
  BY CallsParts DEF RecInv, SentValueFitsItsType, CallFits
<1>. QED
  BY <1>1, RecordsInvariance, PTL
=============================================================================
