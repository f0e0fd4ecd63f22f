-------------------------------- MODULE Zone --------------------------------
(***************************************************************************)
(* One zone behind the REST API: the handler of /rr (onResourceRecord) for  *)
(* POST, PUT, PATCH and DELETE, and that of /zone (onZone) for POST and     *)
(* DELETE, run by several threads at once.                                 *)
(*                                                                         *)
(* A handler reads without locks, decides, and writes in a transaction     *)
(* that commits as a whole: Lookup, then for a POST the check of           *)
(* write(isNew), then Commit. RocksDB is external: a transaction sees what *)
(* is committed and its own writes, and takes a lock per key it writes,    *)
(* without looking at whether the key changed since it was read.           *)
(*                                                                         *)
(* An entry maps the types it has to the values of that type. The serial   *)
(* of the SOA is kept beside the apex entry it is a part of.               *)
(***************************************************************************)
EXTENDS Integers, Sequences

CONSTANTS
    Threads,
    Names,          \* the apex and the names below it
    Apex,
    Types,
    Soa,            \* the type of the SOA record
    Values,
    FirstSerial,    \* of a zone that is created
    InitialEntries

VARIABLES
    entries,        \* category ENTRY: the names that exist, and their entries
    serial,         \* of the SOA in the apex entry
    diffs,          \* category DIFF: the serials there is a diff for
    zrrIx,          \* the ZRR index: the names of the zone
    jobs,           \* the request each thread handles
    \* Observation, read by the properties only:
    clash,          \* a diff was written over another one
    raced,          \* two changes of the zone were handled at the same time
    recreated       \* the zone was deleted and created again

ghosts == <<clash, raced, recreated>>
zoneVars == <<entries, serial, diffs, zrrIx, jobs, ghosts>>

IsEntry(e) ==
    /\ DOMAIN e \subseteq Types
    /\ \A t \in DOMAIN e : e[t] \in Seq(Values) /\ e[t] # <<>>

ASSUME ZoneAssumption ==
    /\ Apex \in Names /\ Soa \in Types /\ FirstSerial \in Nat
    /\ DOMAIN InitialEntries \subseteq Names /\ Apex \in DOMAIN InitialEntries
    /\ \A n \in DOMAIN InitialEntries :
          IsEntry(InitialEntries[n]) /\ (Soa \in DOMAIN InitialEntries[n] <=> n = Apex)

\* What a client can send in place of a value and build() refuses.
Malformed == "malformed"

Bound(f, x, v) == [y \in DOMAIN f \union {x} |-> IF y = x THEN v ELSE f[y]]
Without(f, S) == [y \in DOMAIN f \ S |-> f[y]]
NoEntry == [t \in {} |-> <<>>]

NotSeen == [has |-> FALSE]
Idle == [phase |-> "idle"]
Job(phase, op, name, body, seen) ==
    [phase |-> phase, op |-> op, name |-> name, body |-> body, seen |-> seen]
Advanced(j, phase, seen) == Job(phase, j.op, j.name, j.body, seen)
Working(t) == jobs[t].phase \in {"read", "checked"}
Finished(t) == jobs[t].phase \in {"ok", "refused"}

ZoneInit ==
    /\ entries = InitialEntries
    /\ serial = FirstSerial
    /\ diffs = {}
    /\ zrrIx = DOMAIN InitialEntries
    /\ jobs = [t \in Threads |-> Idle]
    /\ clash = FALSE
    /\ raced = FALSE
    /\ recreated = FALSE

\* The operations. "delete" without types is the DELETE of a whole name;
\* "newzone" and "delzone" are the POST and the DELETE of /zone.
RrOps == {"post", "put", "patch", "delete"}
ZoneOps == {"newzone", "delzone"}
Ops == RrOps \union ZoneOps
MustBeNew == {"post", "newzone"}

\* A request comes in. `body` is an entry; of a delete, its types are the
\* types to delete.
Receive(t, op, name, body) ==
    /\ jobs[t] = Idle
    /\ jobs' = [jobs EXCEPT ![t] = Job("sent", op, name, body, NotSeen)]
    /\ UNCHANGED <<entries, serial, diffs, zrrIx, ghosts>>

\* The request never gets there.
Withdraw(t) ==
    /\ jobs[t].phase = "sent"
    /\ jobs' = [jobs EXCEPT ![t] = Idle]
    /\ UNCHANGED <<entries, serial, diffs, zrrIx, ghosts>>

-----------------------------------------------------------------------------
\* The early returns before anything is written. A PATCH of the apex gets as
\* far as addDiff, has no new SOA to give it, and is rolled back.
WellFormed(body) == \A t \in DOMAIN body : \A i \in DOMAIN body[t] : body[t][i] # Malformed

\* Mutant: a PUT of the apex does not look for the SOA in the body.
RefusesLoosely(j) ==
    \/ (j.op = "newzone") = (Apex \in DOMAIN entries)
    \/ j.name = Apex /\ j.op \in {"post", "patch", "delete"}
    \/ ~WellFormed(j.body)
    \/ j.op = "post" /\ j.name \in DOMAIN entries
    \/ j.op = "delete" /\ j.name \notin DOMAIN entries

Refuses(j) ==
    \/ (j.op = "newzone") = (Apex \in DOMAIN entries)
    \/ j.name = Apex /\ j.op \in {"post", "patch", "delete"}
    \/ j.name = Apex /\ j.op \in {"put", "newzone"} /\ Soa \notin DOMAIN j.body
    \/ ~WellFormed(j.body)
    \/ j.op = "post" /\ j.name \in DOMAIN entries
    \/ j.op = "delete" /\ j.name \notin DOMAIN entries

\* lookupEntryAndSoa, or zoneExists.
Found(name) == IF name \in DOMAIN entries THEN entries[name] ELSE NoEntry
Seen(name) ==
    [has |-> name \in DOMAIN entries, old |-> Found(name), apex |-> Found(Apex), serial |-> serial]

Lookup(t) ==
    /\ jobs[t].phase = "sent"
    /\ IF Refuses(jobs[t])
       THEN /\ jobs' = [jobs EXCEPT ![t] = Advanced(jobs[t], "refused", NotSeen)]
            /\ UNCHANGED raced
       ELSE /\ jobs' = [jobs EXCEPT ![t] = Advanced(jobs[t], "read", Seen(jobs[t].name))]
            /\ raced' = (raced \/ \E u \in Threads \ {t} : Working(u))
    /\ UNCHANGED <<entries, serial, diffs, zrrIx, clash, recreated>>

\* write(isNew) looks for the key once more, before it waits for the lock.
CheckNew(t) ==
    /\ jobs[t].phase = "read" /\ jobs[t].op \in MustBeNew
    /\ jobs' = [jobs EXCEPT ![t] =
           IF jobs[t].name \in DOMAIN entries THEN Advanced(jobs[t], "refused", NotSeen)
           ELSE Advanced(jobs[t], "checked", jobs[t].seen)]
    /\ UNCHANGED <<entries, serial, diffs, zrrIx, ghosts>>

-----------------------------------------------------------------------------
\* A PATCH keeps the old types that the body does not have; a DELETE of some
\* types leaves the others. A name that a DELETE leaves without records goes.
Merged(old, body) ==
    [t \in DOMAIN old \union DOMAIN body |-> IF t \in DOMAIN body THEN body[t] ELSE old[t]]
Remains(j) == Without(j.seen.old, DOMAIN j.body)

NewEntry(j) ==
    CASE j.op = "patch" -> Merged(j.seen.old, j.body)
      [] j.op = "delete" -> Remains(j)
      [] OTHER -> j.body

RemovesName(j) == j.op = "delete" /\ (DOMAIN j.body = {} \/ DOMAIN Remains(j) = {})

Changed(j) ==
    IF RemovesName(j) THEN Without(entries, {j.name}) ELSE Bound(entries, j.name, NewEntry(j))

\* Mutant: a change below the apex writes the SOA back, and not the rest of
\* the apex entry.
WrittenSoaOnly(j) ==
    CASE j.op = "delzone" -> Without(entries, {Apex})
      [] j.op # "delzone" /\ j.name = Apex -> Changed(j)
      [] OTHER -> Bound(Changed(j), Apex, [t \in {Soa} |-> j.seen.apex[t]])

\* A change below the apex writes the whole apex entry back, as it was read,
\* with the next serial. The recursive remove of DELETE /zone looks for the
\* key of the zone, which begins with the byte of its key class, at the end of
\* the keys it meets: it matches itself only.
Written(j) ==
    CASE j.op = "delzone" -> Without(entries, {Apex})
      [] j.op # "delzone" /\ j.name = Apex -> Changed(j)
      [] OTHER -> Bound(Changed(j), Apex, j.seen.apex)

\* Mutant: a PATCH does not update the index.
IndexedNotByPatch(j) ==
    CASE RemovesName(j) -> zrrIx \ {j.name}
      [] j.op \in {"delete", "patch"} /\ ~RemovesName(j) -> zrrIx
      [] OTHER -> zrrIx \union {j.name}

\* updateZoneRrIx: deleteZone calls it with update = true. A DELETE that
\* leaves some types does not call it.
Indexed(j) ==
    CASE RemovesName(j) -> zrrIx \ {j.name}
      [] j.op = "delete" /\ ~RemovesName(j) -> zrrIx
      [] OTHER -> zrrIx \union {j.name}

\* Mutant: the DELETE of a name does not increment the serial.
NextSerialSkipsDelete(j) == IF j.op = "delete" THEN j.seen.serial ELSE j.seen.serial + 1

\* incrementSoaVersion on what was read. onZone does not call it: a zone that
\* is created starts anew, next to the diffs of an earlier one.
NextSerial(j) == j.seen.serial + 1

ReadyToCommit(t) ==
    \/ jobs[t].phase = "checked"
    \/ jobs[t].phase = "read" /\ jobs[t].op \notin MustBeNew

Commit(t) ==
    /\ ReadyToCommit(t)
    /\ LET j == jobs[t] IN
       /\ entries' = Written(j)
       /\ zrrIx' = Indexed(j)
       /\ recreated' = (recreated \/ j.op = "newzone")
       /\ IF j.op \in ZoneOps
          THEN /\ serial' = IF j.op = "newzone" THEN FirstSerial ELSE serial
               /\ UNCHANGED <<diffs, clash>>
          ELSE /\ serial' = NextSerial(j)
               /\ diffs' = diffs \union {NextSerial(j)}
               /\ clash' = (clash \/ NextSerial(j) \in diffs)
       /\ jobs' = [jobs EXCEPT ![t] = Advanced(jobs[t], "ok", NotSeen)]
    /\ UNCHANGED raced

\* The answer is on its way: the thread is free.
Answer(t) ==
    /\ Finished(t)
    /\ jobs' = [jobs EXCEPT ![t] = Idle]
    /\ UNCHANGED <<entries, serial, diffs, zrrIx, ghosts>>

\* The bodies clients send: a SOA for the apex only.
IsBody(name, body) ==
    /\ DOMAIN body \subseteq Types
    /\ Soa \in DOMAIN body => name = Apex
Bodies(name) ==
    {body \in UNION {[T -> Seq(Values \union {Malformed}) \ {<<>>}] : T \in SUBSET Types} :
        IsBody(name, body)}

ZoneNext ==
    \E t \in Threads :
        \/ \E op \in RrOps, name \in Names : \E body \in Bodies(name) : Receive(t, op, name, body)
        \/ \E op \in ZoneOps, body \in Bodies(Apex) : Receive(t, op, Apex, body)
        \/ Withdraw(t) \/ Lookup(t) \/ CheckNew(t) \/ Commit(t) \/ Answer(t)

ZoneSpec == ZoneInit /\ [][ZoneNext]_zoneVars

-----------------------------------------------------------------------------
\* The apex entry never loses its SOA, whatever clients send and however their
\* changes interleave: an entry without one would make every name below it
\* unreachable (lookupEntryAndSoa finds no zone).
ZoneKeepsSoa ==
    Apex \in DOMAIN entries => Soa \in DOMAIN entries[Apex]

\* As long as no two changes were handled at the same time, the ZRR index has
\* the names below the apex that there are, and no others: whatever was
\* created, merged, emptied, deleted or left behind by the DELETE of the zone.
IndexIsExact ==
    ~raced => zrrIx \ {Apex} = DOMAIN entries \ {Apex}

\* "These keys are supposed to be unique!" (addDiff): a diff is never written
\* over another one, unless two changes were handled at the same time or the
\* zone was created again.
OwnSerialPerChange ==
    clash => raced \/ recreated

\* "Deletes a zone and all it's domain name entries." (swagger.yaml, DELETE
\* /zone/{fqdn}): a zone that is gone has left no names behind.
DeletesAllEntries ==
    Apex \notin DOMAIN entries => DOMAIN entries = {}

\* A change of one name leaves every other name as it was, as long as no two
\* changes were handled at the same time: in particular the apex entry, which
\* each change below it writes back as a whole from what it read.
OthersUntouched ==
    [][\A t \in Threads :
          ~raced /\ ReadyToCommit(t) /\ jobs[t].op # "delzone" /\ jobs'[t].phase = "ok" =>
             \A n \in DOMAIN entries \ {jobs[t].name} :
                n \in DOMAIN entries' /\ entries'[n] = entries[n]]_zoneVars
=============================================================================
