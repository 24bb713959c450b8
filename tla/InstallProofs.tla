---------------------------- MODULE InstallProofs ----------------------------
EXTENDS Install, Certificates, FiniteSetTheorems, SequenceTheorems, TLAPS

\* A job, by its fields, and what each of its places takes for granted: its
\* device, and its IPA unless it uninstalls.
Job == [pc : InstallPcs, by : Origins, ipa : Ipas \cup {None}, dev : Devices \cup {None}, id : Id,
        keep : SUBSET Exts, protected : SUBSET Id, existing : SUBSET Id, todo : SUBSET Exts,
        file : SUBSET Record, spent : BOOLEAN]

OnePerId(file) == \A r, s \in file : r.id = s.id => r = s

JobTyped(jb) ==
  /\ jb \in Job
  /\ jb.todo \subseteq jb.keep /\ IsFiniteSet(jb.keep) /\ OnePerId(jb.file)
  /\ jb.pc # "idle" => jb.dev \in Devices
  /\ jb.pc \in {"list", "plan", "main", "exts"} => jb.ipa \in Ipas

TypeInv ==
  /\ apps \subseteq App
  /\ records \subseteq Record /\ OnePerId(records) /\ \A r \in records : IsFiniteSet(r.keep)
  /\ appIds \subseteq Id /\ cut \subseteq Id
  /\ available \in 0 .. MaxQuota /\ disturbed \in 0 .. MaxDisturbed
  /\ job = [j \in Jobs |-> job[j]]
  /\ \A j \in Jobs : JobTyped(job[j]) /\ \A r \in job[j].file : IsFiniteSet(r.keep)

LEMMA IdsTyped ==
  /\ <<>> \in Id
  /\ \A p \in Ipas : Derived(p) \in Id
  /\ \A i \in Id : Varied(i) \in Id
  /\ \A i \in Id, e \in Exts : ExtId(i, e) \in Id
BY DEF Id, Parts, Derived, Varied, ExtId

LEMMA IdleTyped == JobTyped(Idle) /\ Idle.file = {} /\ Idle.pc = "idle"
<1>1. Idle \in Job
  BY IdsTyped DEF Idle, Job, InstallPcs, Origins
<1>2. IsFiniteSet(Idle.keep)
  BY FS_EmptySet DEF Idle
<1> QED BY <1>1, <1>2 DEF Idle, JobTyped, OnePerId

\* One job goes on as s, with apps, records and App IDs as they may be.
LEMMA OneGoesOn ==
  ASSUME TypeInv, NEW j \in Jobs, NEW s, JobTyped(s), \A r \in s.file : IsFiniteSet(r.keep),
         job' = [job EXCEPT ![j] = s],
         apps' \subseteq App,
         records' \subseteq Record, OnePerId(records'), \A r \in records' : IsFiniteSet(r.keep),
         appIds' \subseteq Id, cut' \subseteq Id,
         available' \in 0 .. MaxQuota, disturbed' \in 0 .. MaxDisturbed
  PROVE  TypeInv'
<1>1. job' = [i \in Jobs |-> IF i = j THEN s ELSE job[i]]
  BY DEF TypeInv
<1>2. \A i \in Jobs : JobTyped(job'[i]) /\ \A r \in job'[i].file : IsFiniteSet(r.keep)
  BY <1>1 DEF TypeInv
<1>3. \A i \in Jobs : JobTyped(job[i])' <=> JobTyped(job'[i])
  BY DEF JobTyped, OnePerId
<1> QED BY <1>1, <1>2, <1>3 DEF TypeInv, OnePerId

-----------------------------------------------------------------------------
(* What a job becomes.                                                     *)

\* What a job is about stays.
SameTask(s, jb) == s.by = jb.by /\ s.ipa = jb.ipa /\ s.dev = jb.dev /\ s.keep = jb.keep

BegunAs(j, s, by, ipa, d, id, keep, pc) ==
  /\ job' = [job EXCEPT ![j] = s]
  /\ s.pc = pc /\ s.by = by /\ s.ipa = ipa /\ s.dev = d /\ s.id = id /\ s.keep = keep
  /\ s.todo = {} /\ s.file = {} /\ s.spent = FALSE

LEMMA BeginsBecomes ==
  ASSUME TypeInv, NEW j \in Jobs, NEW by \in Origins, NEW ipa \in Ipas \cup {None}, NEW d \in Devices,
         NEW id \in Id, NEW keep \in SUBSET Exts, NEW pc \in InstallPcs, Begins(j, by, ipa, d, id, keep, pc)
  PROVE  \E s \in Job : BegunAs(j, s, by, ipa, d, id, keep, pc)
<1> DEFINE n == [Idle EXCEPT !.pc = pc, !.by = by, !.ipa = ipa, !.dev = d, !.id = id, !.keep = keep]
<1>1. Idle \in Job /\ Idle.todo = {} /\ Idle.file = {} /\ Idle.spent = FALSE
  BY IdleTyped DEF JobTyped, Idle
<1>2. ASSUME NEW jb \in Job
      PROVE  [jb EXCEPT !.pc = pc, !.by = by, !.ipa = ipa, !.dev = d, !.id = id, !.keep = keep] \in Job
  BY Zenon DEF Job
<1>3. ASSUME NEW jb \in Job
      PROVE  LET m == [jb EXCEPT !.pc = pc, !.by = by, !.ipa = ipa, !.dev = d, !.id = id, !.keep = keep]
             IN  /\ m.pc = pc /\ m.by = by /\ m.ipa = ipa /\ m.dev = d /\ m.id = id /\ m.keep = keep
                 /\ m.todo = jb.todo /\ m.file = jb.file /\ m.spent = jb.spent
  BY Zenon DEF Job
<1>4. n \in Job /\ n.pc = pc /\ n.by = by /\ n.ipa = ipa /\ n.dev = d /\ n.id = id /\ n.keep = keep
      /\ n.todo = {} /\ n.file = {} /\ n.spent = FALSE
  BY <1>1, <1>2, <1>3
<1>5. job' = [job EXCEPT ![j] = n]
  BY DEF Begins
<1> HIDE DEF n
<1> QED BY <1>4, <1>5 DEF BegunAs

LEMMA ListBecomes ==
  ASSUME TypeInv, NEW j \in Jobs, ListApps(j)
  PROVE  \E s \in Job : /\ job' = [job EXCEPT ![j] = s]
                        /\ s.pc = "plan" /\ SameTask(s, job[j]) /\ s.id = job[j].id
                        /\ s.todo = job[j].todo /\ s.file = job[j].file /\ s.spent = job[j].spent
                        /\ s.protected = OnDevice(job[j].dev) \/ "apps unreadable" \in Disturbances
<1>1. job[j] \in Job /\ job = [i \in Jobs |-> job[i]]
  BY DEF TypeInv, JobTyped
<1>2. OnDevice(job[j].dev) \in SUBSET Id /\ {} \in SUBSET Id
  BY DEF TypeInv, OnDevice, App
<1>3. PICK P \in SUBSET Id : job' = [job EXCEPT ![j] = [job[j] EXCEPT !.pc = "plan", !.protected = P]]
                            /\ (P = OnDevice(job[j].dev) \/ "apps unreadable" \in Disturbances)
  <2>1. PICK known \in {TRUE} \cup IF "apps unreadable" \in Disturbances THEN {FALSE} ELSE {} :
          job' = [job EXCEPT ![j].pc = "plan",
                             ![j].protected = IF known THEN OnDevice(job[j].dev) ELSE {}]
    BY DEF ListApps
  <2> DEFINE Q == IF known THEN OnDevice(job[j].dev) ELSE {}
  <2>2. Q \in SUBSET Id /\ (Q = OnDevice(job[j].dev) \/ "apps unreadable" \in Disturbances)
    BY <1>2, <2>1
  <2>3. job' = [job EXCEPT ![j] = [job[j] EXCEPT !.pc = "plan", !.protected = Q]]
    BY <1>1, <2>1 DEF Job
  <2> HIDE DEF Q
  <2> QED BY <2>2, <2>3
<1> DEFINE s == [job[j] EXCEPT !.pc = "plan", !.protected = P]
<1>4. job' = [job EXCEPT ![j] = s]
  BY <1>3
<1>5. s \in Job /\ s.pc = "plan" /\ SameTask(s, job[j]) /\ s.id = job[j].id
      /\ s.todo = job[j].todo /\ s.file = job[j].file /\ s.spent = job[j].spent /\ s.protected = P
  BY <1>1 DEF Job, InstallPcs, SameTask
<1> HIDE DEF s
<1> QED BY <1>3, <1>4, <1>5

\* The plan: the job goes on with the identifier it had, or with a spare one,
\* that the quota covers.
PlannedAs(j, s) ==
  /\ job' = [job EXCEPT ![j] = s]
  /\ s.pc = "main" /\ SameTask(s, job[j]) /\ s.existing = appIds
  /\ s.protected = job[j].protected /\ s.spent = job[j].spent
  /\ s.todo = job[j].todo /\ s.file = job[j].file
  /\ s.id = job[j].id \/ (MayMove(job[j]) /\ s.id \in Spares(appIds, job[j].protected))
  /\ Affordable(s.id, s.keep, TRUE) \/ "quota unknown" \in Disturbances

LEMMA PlanBecomes ==
  ASSUME TypeInv, NEW j \in Jobs, MakePlan(j)
  PROVE  Stops(j) \/ \E s \in Job : PlannedAs(j, s)
<1>1. job[j] \in Job /\ job = [i \in Jobs |-> job[i]] /\ appIds \in SUBSET Id
  BY DEF TypeInv, JobTyped
<1> DEFINE Ways(known, id) ==
  /\ \/ id = job[j].id
     \/ id \in Spares(appIds, job[j].protected) /\ MayMove(job[j])
  /\ Affordable(id, job[j].keep, known)
  /\ job' = [job EXCEPT ![j].pc = "main", ![j].id = id, ![j].existing = appIds]
<1>2. PICK known \in {TRUE} \cup IF "quota unknown" \in Disturbances THEN {FALSE} ELSE {} :
        Stops(j) \/ \E id : Ways(known, id)
  BY DEF MakePlan
<1>3. CASE Stops(j)
  BY <1>3
<1>4. ASSUME NEW id, Ways(known, id)
      PROVE  \E s \in Job : PlannedAs(j, s)
  <2> DEFINE s == [job[j] EXCEPT !.pc = "main", !.id = id, !.existing = appIds]
  <2>1. id \in Id
    BY <1>1, <1>4 DEF Job, Spares
  <2>2. job' = [job EXCEPT ![j] = s]
    BY <1>1, <1>4 DEF Job
  <2>3. s \in Job
    <3>1. "main" \in InstallPcs
      BY DEF InstallPcs
    <3> QED BY <1>1, <2>1, <3>1, Zenon DEF Job
  <2>4. s.pc = "main" /\ SameTask(s, job[j]) /\ s.existing = appIds /\ s.id = id
        /\ s.protected = job[j].protected /\ s.spent = job[j].spent
        /\ s.todo = job[j].todo /\ s.file = job[j].file
    BY <1>1, Zenon DEF Job, SameTask
  <2> HIDE DEF s
  <2>5. Affordable(s.id, s.keep, TRUE) \/ "quota unknown" \in Disturbances
    BY <1>2, <1>4, <2>4 DEF SameTask
  <2> QED BY <1>4, <2>2, <2>3, <2>4, <2>5 DEF PlannedAs
<1> HIDE DEF Ways
<1> QED BY <1>2, <1>3, <1>4

\* An App ID was found or made, and its profile: how the job goes on, and what
\* has become of Apple's side.
LEMMA ObtainBecomes ==
  ASSUME TypeInv, NEW j \in Jobs, NEW got \in Id, NEW n \in Job, Obtain(j, got, n),
         got \in job[j].existing \/ Accepted(got)
  PROVE  /\ \/ Stops(j)
            \/ /\ got \in appIds'
               /\ \E s \in Job : /\ job' = [job EXCEPT ![j] = s]
                                 /\ s.pc = n.pc /\ SameTask(s, n) /\ s.id = n.id
                                 /\ s.protected = n.protected /\ s.existing = n.existing
                                 /\ s.todo = n.todo /\ s.file = n.file
                                 /\ s.spent = (n.spent \/ appIds' # appIds)
         /\ \/ got \in job[j].existing /\ UNCHANGED apple
            \/ /\ got \notin job[j].existing /\ got \notin appIds \cup Taken /\ appIds' = appIds \cup {got}
               /\ Free => available > 0
               /\ available' = IF Free THEN available - 1 ELSE available
         /\ appIds' \subseteq Id /\ available' \in 0 .. MaxQuota
<1>1. available \in 0 .. MaxQuota /\ MaxQuota \in Nat /\ appIds \subseteq Id
  BY InstallAssumption DEF TypeInv
<1>2. \/ got \in job[j].existing /\ UNCHANGED apple
      \/ /\ got \notin job[j].existing /\ got \notin appIds \cup Taken /\ appIds' = appIds \cup {got}
         /\ Free => available > 0
         /\ available' = IF Free THEN available - 1 ELSE available
  BY <1>1 DEF Obtain, Add, Accepted, Unavailable, Exhausted
<1>3. appIds' \subseteq Id /\ available' \in 0 .. MaxQuota
  BY <1>1, <1>2 DEF apple
<1>4. CASE got \in appIds'
  <2> DEFINE s == [n EXCEPT !.spent = @ \/ appIds' # appIds]
  <2>1. job' = [job EXCEPT ![j] = s]
    BY <1>4 DEF Obtain
  <2>2. s \in Job /\ s.pc = n.pc /\ SameTask(s, n) /\ s.id = n.id /\ s.protected = n.protected
        /\ s.existing = n.existing /\ s.todo = n.todo /\ s.file = n.file
        /\ s.spent = (n.spent \/ appIds' # appIds)
    BY DEF Job, SameTask
  <2> HIDE DEF s
  <2> QED BY <1>2, <1>3, <1>4, <2>1, <2>2
<1>5. CASE got \notin appIds'
  BY <1>2, <1>3, <1>5 DEF Obtain
<1> QED BY <1>4, <1>5

\* Where the ID of the app comes from.
Named(jb, id) ==
  \/ id = jb.id /\ (id \in jb.existing \/ id \notin appIds \cup Taken)
  \/ /\ id = Varied(jb.id) /\ jb.id \notin jb.existing /\ jb.id \in appIds \cup Taken
     /\ id \notin jb.existing /\ id \notin appIds \cup Taken
  \/ jb.by = "derived" /\ jb.id \notin jb.existing /\ Exhausted /\ id \in Spares(jb.existing, jb.protected)

\* What it costs, now that the job has this ID.
Paid(jb, id) == available' = IF Free /\ id \notin jb.existing THEN available - 1 ELSE available

LEMMA MainBecomes ==
  ASSUME TypeInv, NEW j \in Jobs, EnsureMain(j)
  PROVE  /\ appIds' \subseteq Id /\ available' \in 0 .. MaxQuota
         /\ \A i \in appIds' : i \in appIds \/ (i \notin Taken /\ i \in {job[j].id, Varied(job[j].id)})
         /\ UNCHANGED <<apps, records, cut, disturbed>>
         /\ \/ Stops(j)
            \/ \E s \in Job : /\ job' = [job EXCEPT ![j] = s]
                              /\ s.pc = "exts" /\ SameTask(s, job[j]) /\ Named(job[j], s.id) /\ Paid(job[j], s.id)
                              /\ s.protected = job[j].protected /\ s.existing = job[j].existing
                              /\ s.todo = s.keep /\ s.file = job[j].file /\ s.id \in appIds'
<1> DEFINE jb == job[j]
           n(got) == [jb EXCEPT !.pc = "exts", !.id = got, !.todo = jb.keep]
<1>1. jb \in Job /\ appIds \subseteq Id /\ available \in 0 .. MaxQuota
  BY DEF TypeInv, JobTyped
<1>2. CASE Refused(j, jb.id, MayReuse(jb))
  BY <1>1, <1>2 DEF Refused, apple
<1>3. ASSUME NEW got \in Obtainable(jb, jb.id, MayReuse(jb)), Obtain(j, got, n(got))
      PROVE  /\ appIds' \subseteq Id /\ available' \in 0 .. MaxQuota
             /\ \A i \in appIds' : i \in appIds \/ (i \notin Taken /\ i \in {jb.id, Varied(jb.id)})
             /\ UNCHANGED <<apps, records, cut, disturbed>>
             /\ \/ Stops(j)
                \/ \E s \in Job : /\ job' = [job EXCEPT ![j] = s]
                                  /\ s.pc = "exts" /\ SameTask(s, jb) /\ Named(jb, s.id) /\ Paid(jb, s.id)
                                  /\ s.protected = jb.protected /\ s.existing = jb.existing
                                  /\ s.todo = s.keep /\ s.file = jb.file /\ s.id \in appIds'
  <2>1. \/ got = jb.id /\ (got \in jb.existing \/ Accepted(got))
        \/ got = Varied(jb.id) /\ jb.id \notin jb.existing /\ Unavailable(jb.id) /\ Accepted(got)
        \/ jb.by = "derived" /\ jb.id \notin jb.existing /\ Exhausted /\ got \in Spares(jb.existing, jb.protected)
    BY <1>3 DEF Obtainable, MayReuse
  <2>2. got \in Id /\ (got \in jb.existing \/ Accepted(got))
    BY <1>1, <2>1, IdsTyped DEF Job, Spares
  <2>3. n(got) \in Job
    <3>1. "exts" \in InstallPcs
      BY DEF InstallPcs
    <3> QED BY <1>1, <2>2, <3>1, Zenon DEF Job
  <2>4. /\ n(got).pc = "exts" /\ SameTask(n(got), jb) /\ n(got).id = got /\ n(got).todo = jb.keep
        /\ n(got).protected = jb.protected /\ n(got).existing = jb.existing /\ n(got).file = jb.file
    BY <1>1, Zenon DEF Job, SameTask
  <2> HIDE DEF n
  <2>5. UNCHANGED <<apps, records, cut, disturbed>>
    BY <1>3 DEF Obtain
  <2>6. /\ \/ Stops(j)
           \/ /\ got \in appIds'
              /\ \E s \in Job : /\ job' = [job EXCEPT ![j] = s]
                                /\ s.pc = n(got).pc /\ SameTask(s, n(got)) /\ s.id = n(got).id
                                /\ s.protected = n(got).protected /\ s.existing = n(got).existing
                                /\ s.todo = n(got).todo /\ s.file = n(got).file
        /\ \/ got \in jb.existing /\ UNCHANGED apple
           \/ /\ got \notin jb.existing /\ got \notin appIds \cup Taken /\ appIds' = appIds \cup {got}
              /\ available' = IF Free THEN available - 1 ELSE available
        /\ appIds' \subseteq Id /\ available' \in 0 .. MaxQuota
    BY <1>3, <2>2, <2>3, ObtainBecomes
  <2>7. \A i \in appIds' : i \in appIds \/ (i \notin Taken /\ i \in {jb.id, Varied(jb.id)})
    <3>1. got \notin jb.existing => got \in {jb.id, Varied(jb.id)}
      BY <2>1 DEF Spares
    <3> QED BY <2>6, <3>1 DEF apple
  <2>8. got \in appIds' => Named(jb, got) /\ Paid(jb, got)
    <3>1. got \in appIds' => Named(jb, got)
      BY <2>1, <2>6 DEF Named, Accepted, Unavailable, apple
    <3>2. Paid(jb, got)
      BY <2>6 DEF Paid, apple
    <3> QED BY <3>1, <3>2
  <2>9. CASE Stops(j)
    BY <2>5, <2>6, <2>7, <2>9
  <2>10. ASSUME got \in appIds', NEW s \in Job, job' = [job EXCEPT ![j] = s],
                s.pc = n(got).pc, SameTask(s, n(got)), s.id = n(got).id,
                s.protected = n(got).protected, s.existing = n(got).existing,
                s.todo = n(got).todo, s.file = n(got).file
         PROVE  /\ s.pc = "exts" /\ SameTask(s, jb) /\ Named(jb, s.id) /\ Paid(jb, s.id)
                /\ s.protected = jb.protected /\ s.existing = jb.existing
                /\ s.todo = s.keep /\ s.file = jb.file /\ s.id \in appIds'
    BY <2>4, <2>8, <2>10 DEF SameTask
  <2> QED BY <2>5, <2>6, <2>7, <2>9, <2>10
<1> QED BY <1>2, <1>3 DEF EnsureMain

LEMMA ExtensionBecomes ==
  ASSUME TypeInv, NEW j \in Jobs, EnsureExtension(j)
  PROVE  /\ appIds' \subseteq Id /\ available' \in 0 .. MaxQuota
         /\ \A i \in appIds' : i \in appIds \/ (i \notin Taken /\ \E e \in job[j].todo :
              i \in {ExtId(job[j].id, e), Varied(ExtId(job[j].id, e))})
         /\ UNCHANGED <<apps, records, cut, disturbed>>
         /\ \/ Stops(j)
            \/ \E s \in Job : /\ job' = [job EXCEPT ![j] = s]
                              /\ s.pc = "exts" /\ SameTask(s, job[j]) /\ s.id = job[j].id
                              /\ s.protected = job[j].protected /\ s.existing = job[j].existing
                              /\ s.file = job[j].file
                              /\ \E e \in job[j].todo : s.todo = job[j].todo \ {e} /\ Paid(job[j], ExtId(job[j].id, e))
<1> DEFINE jb == job[j]
           n(e) == [jb EXCEPT !.todo = @ \ {e}]
<1>1. jb \in Job /\ appIds \subseteq Id /\ available \in 0 .. MaxQuota /\ jb.pc = "exts"
  BY DEF TypeInv, JobTyped, EnsureExtension
<1>2. PICK e \in jb.todo : \/ \E got \in Obtainable(jb, ExtId(jb.id, e), FALSE) : Obtain(j, got, n(e))
                           \/ Refused(j, ExtId(jb.id, e), FALSE)
  BY DEF EnsureExtension
<1>3. CASE Refused(j, ExtId(jb.id, e), FALSE)
  BY <1>1, <1>3 DEF Refused, apple
<1>4. ASSUME NEW got \in Obtainable(jb, ExtId(jb.id, e), FALSE), Obtain(j, got, n(e))
      PROVE  /\ appIds' \subseteq Id /\ available' \in 0 .. MaxQuota
             /\ \A i \in appIds' : i \in appIds \/ (i \notin Taken /\ i \in {ExtId(jb.id, e), Varied(ExtId(jb.id, e))})
             /\ UNCHANGED <<apps, records, cut, disturbed>>
             /\ \/ Stops(j)
                \/ \E s \in Job : /\ job' = [job EXCEPT ![j] = s]
                                  /\ s.pc = "exts" /\ SameTask(s, jb) /\ s.id = jb.id
                                  /\ s.protected = jb.protected /\ s.existing = jb.existing
                                  /\ s.todo = jb.todo \ {e} /\ s.file = jb.file /\ Paid(jb, ExtId(jb.id, e))
  <2>1. ExtId(jb.id, e) \in Id /\ Varied(ExtId(jb.id, e)) \in Id
    BY <1>1, IdsTyped DEF Job
  <2>2. got \in Id /\ (got \in jb.existing \/ Accepted(got))
    BY <1>1, <1>4, <2>1 DEF Obtainable
  <2>3. n(e) \in Job /\ n(e).pc = "exts" /\ SameTask(n(e), jb) /\ n(e).id = jb.id
        /\ n(e).protected = jb.protected /\ n(e).existing = jb.existing
        /\ n(e).todo = jb.todo \ {e} /\ n(e).file = jb.file
    BY <1>1 DEF Job, SameTask
  <2> HIDE DEF n
  <2>4. UNCHANGED <<apps, records, cut, disturbed>>
    BY <1>4 DEF Obtain
  <2>5. /\ \/ Stops(j)
           \/ /\ got \in appIds'
              /\ \E s \in Job : /\ job' = [job EXCEPT ![j] = s]
                             /\ s.pc = n(e).pc /\ SameTask(s, n(e)) /\ s.id = n(e).id
                             /\ s.protected = n(e).protected /\ s.existing = n(e).existing
                             /\ s.todo = n(e).todo /\ s.file = n(e).file
        /\ \/ got \in jb.existing /\ UNCHANGED apple
           \/ /\ got \notin jb.existing /\ got \notin appIds \cup Taken /\ appIds' = appIds \cup {got}
              /\ available' = IF Free THEN available - 1 ELSE available
        /\ appIds' \subseteq Id /\ available' \in 0 .. MaxQuota
    BY <1>4, <2>2, <2>3, ObtainBecomes
  <2>6. \/ got = ExtId(jb.id, e) /\ (got \in jb.existing \/ Accepted(got))
        \/ got = Varied(ExtId(jb.id, e)) /\ ExtId(jb.id, e) \notin jb.existing /\ Accepted(got)
    BY <1>4 DEF Obtainable
  <2>8. \A i \in appIds' : i \in appIds \/ (i \notin Taken /\ i \in {ExtId(jb.id, e), Varied(ExtId(jb.id, e))})
    BY <2>5, <2>6 DEF apple
  <2>9. got \in appIds' => Paid(jb, ExtId(jb.id, e))
    BY <2>5, <2>6 DEF Paid, apple, Accepted, Unavailable
  <2>7. ASSUME NEW s \in Job, s.pc = n(e).pc, SameTask(s, n(e)), s.id = n(e).id,
               s.protected = n(e).protected, s.existing = n(e).existing,
               s.todo = n(e).todo, s.file = n(e).file
        PROVE  /\ s.pc = "exts" /\ SameTask(s, jb) /\ s.id = jb.id
               /\ s.protected = jb.protected /\ s.existing = jb.existing
               /\ s.todo = jb.todo \ {e} /\ s.file = jb.file
    BY <2>3, <2>7 DEF SameTask
  <2> QED BY <2>4, <2>5, <2>7, <2>8, <2>9
<1> QED BY <1>2, <1>3, <1>4

LEMMA RemembersBecomes ==
  ASSUME TypeInv, NEW j \in Jobs, Remembers(j)
  PROVE  \E s \in Job : /\ job' = [job EXCEPT ![j] = s]
                        /\ s.pc = "read" /\ s.by = "derived" /\ s.ipa = job[j].ipa /\ s.dev = job[j].dev
                        /\ s.id = job[j].id /\ s.keep = job[j].keep
                        /\ s.todo = {} /\ s.file = {}
<1> DEFINE n(b) == [b EXCEPT !.pc = "read", !.ipa = job[j].ipa, !.dev = job[j].dev,
                             !.id = job[j].id, !.keep = job[j].keep]
<1>1. Idle \in Job /\ Idle.todo = {} /\ Idle.file = {} /\ Idle.by = "derived" /\ job[j] \in Job
  BY IdleTyped DEF JobTyped, Idle, TypeInv
<1>2. "read" \in InstallPcs
  BY DEF InstallPcs
<1>3. ASSUME NEW b \in Job
      PROVE  n(b) \in Job
  BY <1>1, <1>2, Zenon DEF Job
<1>4. ASSUME NEW b \in Job
      PROVE  /\ n(b).pc = "read" /\ n(b).by = b.by /\ n(b).ipa = job[j].ipa /\ n(b).dev = job[j].dev
             /\ n(b).id = job[j].id /\ n(b).keep = job[j].keep
             /\ n(b).todo = b.todo /\ n(b).file = b.file
  BY Zenon DEF Job
<1>5. job' = [job EXCEPT ![j] = n(Idle)]
  BY DEF Remembers
<1> HIDE DEF n
<1>6. n(Idle) \in Job
  BY <1>1, <1>3
<1>7. /\ n(Idle).pc = "read" /\ n(Idle).by = "derived" /\ n(Idle).ipa = job[j].ipa
      /\ n(Idle).dev = job[j].dev /\ n(Idle).id = job[j].id /\ n(Idle).keep = job[j].keep
      /\ n(Idle).todo = {} /\ n(Idle).file = {}
  BY <1>1, <1>4
<1> QED BY <1>5, <1>6, <1>7

LEMMA ReadBecomes ==
  ASSUME TypeInv, NEW j \in Jobs, ReadRecords(j)
  PROVE  \E s \in Job : /\ job' = [job EXCEPT ![j] = s]
                        /\ s.pc = "write" /\ SameTask(s, job[j]) /\ s.id = job[j].id
                        /\ s.todo = job[j].todo /\ s.file = records
<1> DEFINE s == [job[j] EXCEPT !.pc = "write", !.file = records]
<1>1. job[j] \in Job /\ job = [i \in Jobs |-> job[i]] /\ records \in SUBSET Record
  BY DEF TypeInv, JobTyped
<1>2. job' = [job EXCEPT ![j] = s]
  BY <1>1 DEF ReadRecords, Job
<1>3. s \in Job /\ s.pc = "write" /\ SameTask(s, job[j]) /\ s.id = job[j].id
      /\ s.todo = job[j].todo /\ s.file = records
  BY <1>1 DEF Job, InstallPcs, SameTask
<1> HIDE DEF s
<1> QED BY <1>2, <1>3

-----------------------------------------------------------------------------
(* Types.                                                                  *)

LEMMA TypeAtFirst == InstallInit => TypeInv
<1> SUFFICES ASSUME InstallInit PROVE TypeInv
  OBVIOUS
<1>1. job = [j \in Jobs |-> Idle] /\ \A j \in Jobs : job[j] = Idle
  BY DEF InstallInit
<1>2. 0 \in 0 .. MaxDisturbed
  BY InstallAssumption
<1> QED BY <1>1, <1>2, IdleTyped DEF InstallInit, TypeInv, OnePerId

\* A job that stops, with apps, records and App IDs as they may be.
LEMMA OneStops ==
  ASSUME TypeInv, NEW j \in Jobs, Stops(j),
         apps' \subseteq App,
         records' \subseteq Record, OnePerId(records'), \A r \in records' : IsFiniteSet(r.keep),
         appIds' \subseteq Id, cut' \subseteq Id,
         available' \in 0 .. MaxQuota, disturbed' \in 0 .. MaxDisturbed
  PROVE  TypeInv'
BY IdleTyped, OneGoesOn DEF Stops

\* All but the job is as it was.
Still == UNCHANGED <<apps, records, apple, cut, disturbed>>

LEMMA StillTyped ==
  ASSUME TypeInv, Still
  PROVE  /\ apps' \subseteq App
         /\ records' \subseteq Record /\ OnePerId(records') /\ \A r \in records' : IsFiniteSet(r.keep)
         /\ appIds' \subseteq Id /\ cut' \subseteq Id
         /\ available' \in 0 .. MaxQuota /\ disturbed' \in 0 .. MaxDisturbed
BY DEF TypeInv, Still, apple

LEMMA KeptExtensions == \A ipa \in Ipas : ExtsOf[ipa] \subseteq Exts
BY DEF Exts

LEMMA RequestTyped ==
  ASSUME TypeInv, NEW j \in Jobs, InstallRequest(j)
  PROVE  TypeInv'
<1>1. ASSUME NEW by \in Origins, NEW ipa \in Ipas \cup {None}, NEW d \in Devices,
             NEW id \in Id, NEW keep \in SUBSET Exts, NEW pc \in InstallPcs, Begins(j, by, ipa, d, id, keep, pc),
             IsFiniteSet(keep), pc # "remove" => ipa \in Ipas, pc \in {"list", "remove"}
      PROVE  TypeInv'
  <2>0. Begins(j, by, ipa, d, id, keep, pc)
    BY <1>1
  <2>1. PICK s \in Job : BegunAs(j, s, by, ipa, d, id, keep, pc)
    BY <2>0, BeginsBecomes
  <2>2. JobTyped(s)
    BY <1>1, <2>1 DEF JobTyped, OnePerId, BegunAs
  <2>3. Still
    BY <1>1 DEF Begins, Still
  <2>4. job' = [job EXCEPT ![j] = s] /\ s.file = {}
    BY <2>1 DEF BegunAs
  <2> QED BY <2>2, <2>3, <2>4, StillTyped, OneGoesOn
<1>2. /\ {"derived", "chosen", "spare", "pinned"} \subseteq Origins
      /\ {"list", "remove"} \subseteq InstallPcs
  BY DEF Origins, InstallPcs
<1>3. /\ appIds \subseteq Id
      /\ \A d \in Devices : OnDevice(d) \subseteq Id
      /\ \A r \in records : r.id \in Id /\ r.ipa \in Ipas /\ r.dev \in Devices /\ r.keep \subseteq Exts
                            /\ IsFiniteSet(r.keep)
  BY DEF TypeInv, OnDevice, App, Record
<1>4. ASSUME NEW ipa \in Ipas, NEW d \in Devices, NEW keep \in SUBSET ExtsOf[ipa], Install(j, ipa, d, keep)
      PROVE  TypeInv'
  <2>1. keep \subseteq Exts /\ IsFiniteSet(keep)
    BY InstallAssumption, KeptExtensions, FS_Subset
  <2>2. PICK by \in Origins, id \in Id : Begins(j, by, ipa, d, id, keep, "list")
    BY <1>2, <1>3, <1>4, IdsTyped, InstallAssumption DEF Install, Spares
  <2> QED BY <1>1, <1>2, <2>1, <2>2
<1>5. ASSUME NEW r \in records, Refresh(j, r)
      PROVE  TypeInv'
  BY <1>1, <1>2, <1>3, <1>5 DEF Refresh
<1>6. ASSUME NEW d \in Devices, NEW id \in {r.id : r \in records} \cup OnDevice(d), Uninstall(j, d, id)
      PROVE  TypeInv'
  <2>1. id \in Id /\ IsFiniteSet({}) /\ {} \subseteq Exts
    BY <1>3, FS_EmptySet
  <2> QED BY <1>1, <1>2, <1>6, <2>1 DEF Uninstall
<1> QED BY <1>4, <1>5, <1>6 DEF InstallRequest

LEMMA JobStepTyped ==
  ASSUME TypeInv, NEW j \in Jobs, JobStep(j)
  PROVE  TypeInv'
<1> DEFINE jb == job[j]
<1>1. /\ JobTyped(jb) /\ jb \in Job /\ \A r \in jb.file : IsFiniteSet(r.keep)
      /\ jb.todo \subseteq jb.keep /\ IsFiniteSet(jb.keep) /\ OnePerId(jb.file)
      /\ jb.file \subseteq Record /\ jb.id \in Id
  BY DEF TypeInv, JobTyped, Job
<1>2. ASSUME NEW s \in Job, job' = [job EXCEPT ![j] = s], SameTask(s, jb), jb.pc # "idle",
             s.pc \in {"plan", "main", "exts"} => jb.pc \in {"list", "plan", "main", "exts"},
             s.pc # "list", s.todo \subseteq jb.keep,
             s.file = jb.file \/ s.file = records,
             apps' \subseteq App, records' = records,
             appIds' \subseteq Id, cut' = cut, available' \in 0 .. MaxQuota, disturbed' = disturbed
      PROVE  TypeInv'
  <2>1. records' \subseteq Record /\ OnePerId(records') /\ \A r \in records' : IsFiniteSet(r.keep)
    BY <1>2 DEF TypeInv
  <2>2. cut' \subseteq Id /\ disturbed' \in 0 .. MaxDisturbed
    BY <1>2 DEF TypeInv
  <2>3. OnePerId(s.file) /\ \A r \in s.file : IsFiniteSet(r.keep)
    BY <1>1, <1>2, <2>1
  <2>4. JobTyped(s)
    BY <1>1, <1>2, <2>3 DEF JobTyped, SameTask
  <2> QED BY <1>2, <2>1, <2>2, <2>3, <2>4, OneGoesOn
<1>3. CASE ListApps(j)
  <2>1. PICK s \in Job : job' = [job EXCEPT ![j] = s] /\ s.pc = "plan" /\ SameTask(s, jb)
                         /\ s.todo = jb.todo /\ s.file = jb.file
    BY <1>3, ListBecomes
  <2>2. Still /\ jb.pc = "list"
    BY <1>3 DEF ListApps, Still
  <2> QED BY <1>1, <1>2, <2>1, <2>2, StillTyped DEF Still
<1>4. CASE MakePlan(j)
  <2>1. Still /\ jb.pc = "plan"
    BY <1>4 DEF MakePlan, Still
  <2>2. CASE Stops(j)
    BY <2>1, <2>2, StillTyped, OneStops
  <2>3. ASSUME NEW s \in Job, PlannedAs(j, s)
        PROVE  TypeInv'
    BY <1>1, <1>2, <2>1, <2>3, StillTyped DEF PlannedAs, Still
  <2> QED BY <1>4, <2>2, <2>3, PlanBecomes
<1>5. CASE EnsureMain(j)
  <2>1. jb.pc = "main"
    BY <1>5 DEF EnsureMain
  <2>2. /\ appIds' \subseteq Id /\ available' \in 0 .. MaxQuota /\ UNCHANGED <<apps, records, cut, disturbed>>
        /\ \/ Stops(j)
           \/ \E s \in Job : /\ job' = [job EXCEPT ![j] = s] /\ s.pc = "exts" /\ SameTask(s, jb)
                             /\ s.todo = s.keep /\ s.file = jb.file
    BY <1>5, MainBecomes
  <2>3. CASE Stops(j)
    BY <2>2, <2>3, OneStops DEF TypeInv
  <2>4. ASSUME NEW s \in Job, job' = [job EXCEPT ![j] = s], s.pc = "exts", SameTask(s, jb),
               s.todo = s.keep, s.file = jb.file
        PROVE  TypeInv'
    <3>1. apps' \subseteq App /\ s.todo \subseteq jb.keep
      BY <2>2, <2>4 DEF TypeInv, SameTask
    <3> QED BY <1>2, <2>1, <2>2, <2>4, <3>1
  <2> QED BY <2>2, <2>3, <2>4
<1>6. CASE EnsureExtension(j)
  <2>1. jb.pc = "exts"
    BY <1>6 DEF EnsureExtension
  <2>2. /\ appIds' \subseteq Id /\ available' \in 0 .. MaxQuota /\ UNCHANGED <<apps, records, cut, disturbed>>
        /\ \/ Stops(j)
           \/ \E s \in Job : /\ job' = [job EXCEPT ![j] = s] /\ s.pc = "exts" /\ SameTask(s, jb)
                             /\ s.todo \subseteq jb.todo /\ s.file = jb.file
    BY <1>6, ExtensionBecomes
  <2>3. CASE Stops(j)
    BY <2>2, <2>3, OneStops DEF TypeInv
  <2>4. ASSUME NEW s \in Job, job' = [job EXCEPT ![j] = s], s.pc = "exts", SameTask(s, jb),
               s.todo \subseteq jb.todo, s.file = jb.file
        PROVE  TypeInv'
    <3>1. apps' \subseteq App /\ s.todo \subseteq jb.keep
      BY <1>1, <2>2, <2>4 DEF TypeInv
    <3> QED BY <1>2, <2>1, <2>2, <2>4, <3>1
  <2> QED BY <2>2, <2>3, <2>4
<1>7. ASSUME Remembers(j), jb.pc # "idle", apps' \subseteq App,
             UNCHANGED <<records, apple, cut, disturbed>>
      PROVE  TypeInv'
  <2>1. PICK s \in Job : job' = [job EXCEPT ![j] = s] /\ s.pc = "read" /\ s.dev = jb.dev
                         /\ s.keep = jb.keep /\ s.todo = {} /\ s.file = {}
    BY <1>7, RemembersBecomes
  <2>2. JobTyped(s) /\ \A r \in s.file : IsFiniteSet(r.keep)
    BY <1>1, <1>7, <2>1 DEF JobTyped, OnePerId
  <2>3. /\ records' \subseteq Record /\ OnePerId(records') /\ \A r \in records' : IsFiniteSet(r.keep)
        /\ appIds' \subseteq Id /\ cut' \subseteq Id
        /\ available' \in 0 .. MaxQuota /\ disturbed' \in 0 .. MaxDisturbed
    BY <1>7 DEF TypeInv, apple
  <2> QED BY <1>7, <2>1, <2>2, <2>3, OneGoesOn
<1>8. CASE InstallOnDevice(j)
  <2>1. jb.pc = "exts" /\ jb.ipa \in Ipas /\ jb.dev \in Devices
    BY <1>1, <1>8 DEF InstallOnDevice, JobTyped
  <2>2. Placed(jb.dev, jb.id, jb.ipa) \subseteq App
    BY <1>1, <2>1 DEF TypeInv, Placed, App
  <2> QED BY <1>7, <1>8, <2>1, <2>2 DEF InstallOnDevice
<1>9. CASE RemoveFromDevice(j)
  <2>1. Removed(jb.dev, jb.id) \subseteq App
    BY DEF TypeInv, Removed
  <2> QED BY <1>7, <1>9, <2>1 DEF RemoveFromDevice
<1>10. CASE ReadRecords(j)
  <2>1. PICK s \in Job : job' = [job EXCEPT ![j] = s] /\ s.pc = "write" /\ SameTask(s, jb)
                         /\ s.todo = jb.todo /\ s.file = records
    BY <1>10, ReadBecomes
  <2>2. Still /\ jb.pc = "read"
    BY <1>10 DEF ReadRecords, Still
  <2> QED BY <1>1, <1>2, <2>1, <2>2, StillTyped DEF Still
<1>11. CASE WriteRecords(j)
  <2>1. /\ Stops(j) /\ cut' \subseteq cut /\ UNCHANGED <<apps, apple, disturbed>> /\ jb.pc = "write"
        /\ records' = IF jb.ipa = None THEN Forgotten(jb.file, jb.id) ELSE Recorded(jb.file, Entry(jb))
    BY <1>11 DEF WriteRecords
  <2>2. Forgotten(jb.file, jb.id) \subseteq jb.file
    BY DEF Forgotten
  <2>3. CASE jb.ipa = None
    <3>1. records' \subseteq Record /\ OnePerId(records') /\ \A r \in records' : IsFiniteSet(r.keep)
      BY <1>1, <2>1, <2>2, <2>3 DEF OnePerId
    <3> QED BY <2>1, <3>1, OneStops DEF TypeInv, apple
  <2>4. CASE jb.ipa # None
    <3>1. Entry(jb) \in Record /\ Entry(jb).id = jb.id /\ IsFiniteSet(Entry(jb).keep)
      BY <1>1, <2>1, <2>4 DEF Entry, Record, JobTyped, Job
    <3>2. records' \subseteq Record /\ OnePerId(records') /\ \A r \in records' : IsFiniteSet(r.keep)
      BY <1>1, <2>1, <2>4, <3>1 DEF OnePerId, Recorded
    <3> QED BY <2>1, <3>2, OneStops DEF TypeInv, apple
  <2> QED BY <2>3, <2>4
<1> QED BY <1>3, <1>4, <1>5, <1>6, <1>8, <1>9, <1>10, <1>11 DEF JobStep

LEMMA ElseTyped ==
  ASSUME TypeInv,
         \/ \E j \in Jobs : CallFails(j) \/ AnswerLost(j)
         \/ Killed
         \/ \E x \in apps : AppRemoved(x)
         \/ \E id \in appIds : AppIdDeleted(id)
         \/ WindowMovesOn
         \/ UNCHANGED installVars
  PROVE  TypeInv'
<1>1. ASSUME NEW j \in Jobs, CallFails(j)
      PROVE  TypeInv'
  <2>1. Still /\ Stops(j)
    BY <1>1 DEF CallFails, Still
  <2> QED BY <2>1, StillTyped, OneStops
<1>2. ASSUME NEW kind, Disturbs(kind)
      PROVE  disturbed' \in 0 .. MaxDisturbed
  BY <1>2, InstallAssumption DEF Disturbs, TypeInv
<1>3. ASSUME NEW j \in Jobs, AnswerLost(j)
      PROVE  TypeInv'
  <2>1. job[j].ipa \in Ipas /\ job[j].dev \in Devices /\ job[j].id \in Id
    BY <1>3 DEF AnswerLost, TypeInv, JobTyped, Job
  <2>2. apps' \subseteq App /\ cut' \subseteq Id
    <3>1. Placed(job[j].dev, job[j].id, job[j].ipa) \subseteq App
      BY <2>1 DEF TypeInv, Placed, App
    <3>2. cut \cup {job[j].id} \subseteq Id
      BY <2>1 DEF TypeInv
    <3>3. apps' = Placed(job[j].dev, job[j].id, job[j].ipa) /\ cut' = cut \cup {job[j].id}
      BY <1>3 DEF AnswerLost
    <3> QED BY <3>1, <3>2, <3>3
  <2>3. Stops(j) /\ UNCHANGED <<records, apple>> /\ disturbed' \in 0 .. MaxDisturbed
    BY <1>2, <1>3 DEF AnswerLost
  <2> QED BY <2>2, <2>3, OneStops DEF TypeInv, apple
<1>4. ASSUME job' = job, apps' \subseteq App, records' = records, appIds' \subseteq Id, cut' = cut,
             available' \in 0 .. MaxQuota, disturbed' \in 0 .. MaxDisturbed
      PROVE  TypeInv'
  <2>1. \A i \in Jobs : JobTyped(job[i])' <=> JobTyped(job[i])
    BY <1>4 DEF JobTyped, OnePerId
  <2> QED BY <1>4, <2>1 DEF TypeInv, OnePerId
<1>5. CASE Killed
  <2>1. disturbed' \in 0 .. MaxDisturbed
    BY <1>2, <1>5 DEF Killed
  <2>2. cut' \subseteq Id
    BY <1>5 DEF Killed, TypeInv, JobTyped, Job
  <2>3. job' = [j \in Jobs |-> Idle] /\ UNCHANGED <<apps, records, apple>>
    BY <1>5 DEF Killed
  <2>4. \A j \in Jobs : job'[j] = Idle
    BY <2>3
  <2>5. \A j \in Jobs : JobTyped(job'[j]) /\ \A r \in job'[j].file : IsFiniteSet(r.keep)
    BY <2>4, IdleTyped
  <2>6. \A i \in Jobs : JobTyped(job[i])' <=> JobTyped(job'[i])
    BY DEF JobTyped, OnePerId
  <2> QED BY <2>1, <2>2, <2>3, <2>4, <2>5, <2>6 DEF TypeInv, OnePerId, apple
<1>6. ASSUME NEW x, AppRemoved(x)
      PROVE  TypeInv'
  BY <1>2, <1>4, <1>6 DEF AppRemoved, TypeInv, apple
<1>7. ASSUME NEW id, AppIdDeleted(id)
      PROVE  TypeInv'
  BY <1>2, <1>4, <1>7 DEF AppIdDeleted, TypeInv
<1>8. CASE WindowMovesOn
  <2>1. available' \in 0 .. MaxQuota
    <3>1. available \in 0 .. MaxQuota /\ MaxQuota \in Nat
      BY InstallAssumption DEF TypeInv
    <3>2. available < MaxQuota /\ available' = available + 1
      BY <1>8 DEF WindowMovesOn
    <3> QED BY <3>1, <3>2
  <2> QED BY <1>2, <1>4, <1>8, <2>1 DEF WindowMovesOn, TypeInv
<1>9. CASE UNCHANGED installVars
  BY <1>4, <1>9 DEF installVars, apple, TypeInv
<1> QED BY <1>1, <1>3, <1>5, <1>6, <1>7, <1>8, <1>9

LEMMA TypesStay ==
  ASSUME TypeInv, [InstallNext]_installVars
  PROVE  TypeInv'
BY RequestTyped, JobStepTyped, ElseTyped DEF InstallNext

LEMMA TypesAlways == InstallSpec => []TypeInv
BY TypeAtFirst, TypesStay, PTL DEF InstallSpec

-----------------------------------------------------------------------------
(* One job at a time: which app its identifier stands for.                 *)

OneJob == \A i, j \in Jobs : i = j
OneDeviceOnly == \A c, d \in Devices : c = d
AppsAreReadable == "apps unreadable" \notin Disturbances

\* No identifier in use here is another account's, an App ID a plan was made
\* for is known to it, the file that was read is the file that is there, and a
\* renewal is about a record that is there.
InPlace(jb, ids, recs) ==
  /\ jb.pc \in {"main", "exts"} => \A i \in jb.existing : i \notin Taken
  /\ jb.pc = "main" => ids \subseteq jb.existing
  /\ jb.pc = "exts" => jb.id \notin Taken
  /\ jb.pc \in {"read", "write"} /\ jb.ipa # None => jb.id \notin Taken
  /\ jb.pc = "remove" => jb.ipa = None
  /\ jb.pc = "write" => jb.file = recs
  /\ jb.by = "pinned" /\ jb.pc \in {"list", "plan", "main", "exts"} =>
       \E r \in recs : r.id = jb.id /\ r.dev = jb.dev /\ r.ipa = jb.ipa

PlaceInv ==
  /\ \A i \in appIds : i \notin Taken
  /\ \A r \in records : r.id \notin Taken
  /\ \A j \in Jobs : InPlace(job[j], appIds, records)

\* What is protected covers what is installed, and an identifier given to the
\* app instead of its own is new or not in use.
Spared(jb, installed) ==
  /\ AppsAreReadable /\ jb.pc \in {"plan", "main", "exts"} =>
       \A x \in installed : x.dev = jb.dev => x.id \in jb.protected
  /\ jb.by = "derived" =>
       /\ jb.pc \in {"list", "plan"} => jb.id = Derived(jb.ipa)
       /\ jb.pc = "main" => jb.id = Derived(jb.ipa) \/ ~InUse(jb.id, jb.protected)
       /\ jb.pc = "exts" =>
            jb.id = Derived(jb.ipa) \/ jb.id \notin jb.existing \/ ~InUse(jb.id, jb.protected)

SparedInv == \A j \in Jobs : Spared(job[j], apps)

\* Between the device and the record, the app that has the job's ID is the
\* job's.
Pending(jb, installed) ==
  jb.pc \in {"read", "write"} =>
    \A x \in installed : x.id = jb.id => jb.ipa # None /\ x.ipa = jb.ipa /\ x.dev = jb.dev

RecordInv ==
  /\ InstalledIsRecorded
  /\ \A j \in Jobs : Pending(job[j], apps)

OneJobInv ==
  /\ PlaceInv /\ SparedInv
  /\ OneDeviceOnly => RecordInv

LEMMA TheJob ==
  ASSUME OneJob, TypeInv, NEW j \in Jobs, NEW s, job' = [job EXCEPT ![j] = s]
  PROVE  \A i \in Jobs : job'[i] = s /\ i = j
<1>1. job = [i \in Jobs |-> job[i]]
  BY DEF TypeInv
<1> QED BY <1>1 DEF OneJob

\* An idle job asks for nothing.
LEMMA IdleIsFine ==
  ASSUME NEW ids, NEW recs, NEW installed
  PROVE  InPlace(Idle, ids, recs) /\ Spared(Idle, installed) /\ Pending(Idle, installed)
BY IdleTyped DEF InPlace, Spared, Pending

\* The job becomes s: what is to be shown of that.
LEMMA OneMoves ==
  ASSUME OneJob, TypeInv, NEW j \in Jobs, NEW s, job' = [job EXCEPT ![j] = s],
         \A i \in appIds' : i \notin Taken,
         \A r \in records' : r.id \notin Taken,
         InPlace(s, appIds', records'), Spared(s, apps'),
         OneDeviceOnly => Pending(s, apps') /\ InstalledIsRecorded'
  PROVE  OneJobInv'
<1>1. \A i \in Jobs : job'[i] = s
  BY TheJob
<1>2. PlaceInv'
  BY <1>1 DEF PlaceInv, InPlace
<1>3. SparedInv'
  BY <1>1 DEF SparedInv, Spared
<1>4. ASSUME OneDeviceOnly PROVE RecordInv'
  BY <1>1, <1>4 DEF RecordInv, Pending
<1> QED BY <1>2, <1>3, <1>4 DEF OneJobInv

\* What was recorded stays so while the record of no app is being written.
LEMMA StaysRecorded ==
  ASSUME InstalledIsRecorded, \A x \in apps' : x \in apps, records' = records, \A i \in cut : i \in cut',
         \A j \in Jobs : job[j].pc \in {"read", "write"} =>
           (job'[j].pc \in {"read", "write"} /\ job'[j].id = job[j].id) \/ job[j].id \in cut'
  PROVE  InstalledIsRecorded'
BY DEF InstalledIsRecorded

LEMMA InvAtFirst == InstallInit => OneJobInv
<1> SUFFICES ASSUME InstallInit PROVE OneJobInv
  OBVIOUS
<1>1. \A j \in Jobs : job[j] = Idle
  BY DEF InstallInit
<1>2. apps = {} /\ records = {} /\ appIds = {}
  BY DEF InstallInit
<1> QED BY <1>1, <1>2, IdleIsFine DEF OneJobInv, PlaceInv, SparedInv, RecordInv, InstalledIsRecorded

\* What the invariant says of one job.
LEMMA OfTheJob ==
  ASSUME OneJobInv, TypeInv, NEW j \in Jobs
  PROVE  /\ InPlace(job[j], appIds, records) /\ Spared(job[j], apps)
         /\ \A i \in appIds : i \notin Taken
         /\ \A r \in records : r.id \notin Taken
         /\ OneDeviceOnly => InstalledIsRecorded /\ Pending(job[j], apps)
         /\ JobTyped(job[j]) /\ job[j] \in Job
BY DEF OneJobInv, PlaceInv, SparedInv, RecordInv, TypeInv, JobTyped

\* The job stops, before it has anything to record.
LEMMA InvStops ==
  ASSUME OneJob, OneJobInv, TypeInv, NEW j \in Jobs, Stops(j), job[j].pc \notin {"read", "write"},
         \A i \in appIds' : i \in appIds \/ i \notin Taken,
         UNCHANGED <<apps, records, cut>>
  PROVE  OneJobInv'
<1>1. job' = [job EXCEPT ![j] = Idle] /\ \A i \in Jobs : i = j
  BY DEF Stops, OneJob
<1>2. \A i \in appIds' : i \notin Taken
  BY OfTheJob
<1>3. \A r \in records' : r.id \notin Taken
  BY OfTheJob
<1>4. ASSUME OneDeviceOnly PROVE InstalledIsRecorded'
  BY <1>1, <1>4, OfTheJob, StaysRecorded
<1>5. /\ InPlace(Idle, appIds', records') /\ Spared(Idle, apps') /\ Pending(Idle, apps')
  BY IdleIsFine
<1> QED BY <1>1, <1>2, <1>3, <1>4, <1>5, OneMoves

\* The job goes on to where nothing is recorded yet.
LEMMA InvGoesOn ==
  ASSUME OneJob, OneJobInv, TypeInv, NEW j \in Jobs, NEW s, job' = [job EXCEPT ![j] = s],
         job[j].pc \notin {"read", "write"}, s.pc \notin {"read", "write"},
         \A i \in appIds' : i \in appIds \/ i \notin Taken,
         UNCHANGED <<apps, records, cut>>,
         InPlace(s, appIds', records), Spared(s, apps)
  PROVE  OneJobInv'
<1>1. \A i \in Jobs : i = j
  BY DEF OneJob
<1>2. \A i \in appIds' : i \notin Taken
  BY OfTheJob
<1>3. \A r \in records' : r.id \notin Taken
  BY OfTheJob
<1>4. ASSUME OneDeviceOnly PROVE InstalledIsRecorded'
  BY <1>1, <1>4, OfTheJob, StaysRecorded
<1>5. Pending(s, apps')
  BY DEF Pending
<1> QED BY <1>2, <1>3, <1>4, <1>5, OneMoves

LEMMA RequestInv ==
  ASSUME OneJob, OneJobInv, TypeInv, NEW j \in Jobs, InstallRequest(j)
  PROVE  OneJobInv'
<1>1. ASSUME NEW by \in Origins, NEW ipa \in Ipas \cup {None}, NEW d \in Devices,
             NEW id \in Id, NEW keep \in SUBSET Exts, NEW pc \in InstallPcs, Begins(j, by, ipa, d, id, keep, pc),
             \/ pc = "list" /\ by # "pinned" /\ (by = "derived" => id = Derived(ipa))
             \/ pc = "remove" /\ by = "pinned" /\ ipa = None
             \/ /\ pc = "list" /\ by = "pinned"
                /\ \E r \in records : r.id = id /\ r.dev = d /\ r.ipa = ipa
      PROVE  OneJobInv'
  <2>1. Begins(j, by, ipa, d, id, keep, pc)
    BY <1>1
  <2>2. PICK s \in Job : BegunAs(j, s, by, ipa, d, id, keep, pc)
    BY <2>1, BeginsBecomes
  <2>3. job[j].pc = "idle" /\ UNCHANGED <<apps, records, apple, cut, disturbed>>
    BY <2>1 DEF Begins
  <2>4. InPlace(s, appIds', records)
    BY <1>1, <2>2 DEF InPlace, BegunAs
  <2>5. Spared(s, apps)
    BY <1>1, <2>2 DEF Spared, BegunAs
  <2>6. job' = [job EXCEPT ![j] = s] /\ s.pc \notin {"read", "write"}
    BY <1>1, <2>2 DEF BegunAs
  <2> QED BY <2>3, <2>4, <2>5, <2>6, InvGoesOn DEF apple
<1>2. /\ {"derived", "chosen", "spare", "pinned"} \subseteq Origins
      /\ {"list", "remove"} \subseteq InstallPcs
  BY DEF Origins, InstallPcs
<1>3. /\ appIds \subseteq Id
      /\ \A d \in Devices : OnDevice(d) \subseteq Id
      /\ \A r \in records : r.id \in Id /\ r.ipa \in Ipas /\ r.dev \in Devices /\ r.keep \subseteq Exts
  BY DEF TypeInv, OnDevice, App, Record
<1>4. ASSUME NEW ipa \in Ipas, NEW d \in Devices, NEW keep \in SUBSET ExtsOf[ipa], Install(j, ipa, d, keep)
      PROVE  OneJobInv'
  <2>1. PICK by \in Origins, id \in Id : /\ Begins(j, by, ipa, d, id, keep, "list")
                                         /\ by # "pinned" /\ (by = "derived" => id = Derived(ipa))
    BY <1>2, <1>3, <1>4, IdsTyped, InstallAssumption DEF Install, Spares
  <2>2. keep \subseteq Exts
    BY KeptExtensions
  <2> QED BY <1>1, <1>2, <2>1, <2>2
<1>5. ASSUME NEW r \in records, Refresh(j, r)
      PROVE  OneJobInv'
  BY <1>1, <1>2, <1>3, <1>5 DEF Refresh
<1>6. ASSUME NEW d \in Devices, NEW id \in {r.id : r \in records} \cup OnDevice(d), Uninstall(j, d, id)
      PROVE  OneJobInv'
  BY <1>1, <1>2, <1>3, <1>6 DEF Uninstall
<1> QED BY <1>4, <1>5, <1>6 DEF InstallRequest

LEMMA PlanInv ==
  ASSUME OneJob, OneJobInv, TypeInv, NEW j \in Jobs, ListApps(j) \/ MakePlan(j)
  PROVE  OneJobInv'
<1> DEFINE jb == job[j]
<1>1. InPlace(jb, appIds, records) /\ Spared(jb, apps) /\ \A i \in appIds : i \notin Taken
  BY OfTheJob
<1>2. CASE ListApps(j)
  <2>1. PICK s \in Job : /\ job' = [job EXCEPT ![j] = s]
                         /\ s.pc = "plan" /\ SameTask(s, jb) /\ s.id = jb.id
                         /\ (s.protected = OnDevice(jb.dev) \/ "apps unreadable" \in Disturbances)
    BY <1>2, ListBecomes
  <2>2. jb.pc = "list" /\ UNCHANGED <<apps, records, apple, cut, disturbed>>
    BY <1>2 DEF ListApps
  <2>3. InPlace(s, appIds', records)
    BY <1>1, <2>1, <2>2 DEF InPlace, SameTask
  <2>4. Spared(s, apps)
    BY <1>1, <2>1, <2>2 DEF Spared, SameTask, OnDevice, AppsAreReadable
  <2> QED BY <2>1, <2>2, <2>3, <2>4, InvGoesOn DEF apple
<1>3. CASE MakePlan(j)
  <2>1. jb.pc = "plan" /\ UNCHANGED <<apps, records, apple, cut, disturbed>>
    BY <1>3 DEF MakePlan
  <2>2. CASE Stops(j)
    BY <2>1, <2>2, InvStops DEF apple
  <2>3. ASSUME NEW s \in Job, PlannedAs(j, s)
        PROVE  OneJobInv'
    <3>1. /\ job' = [job EXCEPT ![j] = s] /\ s.pc = "main" /\ SameTask(s, jb) /\ s.existing = appIds
          /\ s.protected = jb.protected
          /\ s.id = jb.id \/ (jb.by = "derived" /\ ~InUse(s.id, jb.protected))
      BY <2>3 DEF PlannedAs, MayMove, Spares
    <3>2. InPlace(s, appIds', records)
      BY <1>1, <2>1, <3>1 DEF InPlace, SameTask, apple
    <3>3. Spared(s, apps)
      BY <1>1, <2>1, <3>1 DEF Spared, SameTask
    <3> QED BY <2>1, <3>1, <3>2, <3>3, InvGoesOn DEF apple
  <2> QED BY <1>3, <2>2, <2>3, PlanBecomes
<1> QED BY <1>2, <1>3

LEMMA EnsureInv ==
  ASSUME OneJob, OneJobInv, TypeInv, NEW j \in Jobs, EnsureMain(j) \/ EnsureExtension(j)
  PROVE  OneJobInv'
<1> DEFINE jb == job[j]
<1>1. InPlace(jb, appIds, records) /\ Spared(jb, apps) /\ \A i \in appIds : i \notin Taken
  BY OfTheJob
<1>2. CASE EnsureMain(j)
  <2>1. jb.pc = "main"
    BY <1>2 DEF EnsureMain
  <2>2. /\ \A i \in appIds' : i \in appIds \/ i \notin Taken
        /\ UNCHANGED <<apps, records, cut, disturbed>>
        /\ \/ Stops(j)
           \/ \E s \in Job : /\ job' = [job EXCEPT ![j] = s]
                             /\ s.pc = "exts" /\ SameTask(s, jb) /\ Named(jb, s.id)
                             /\ s.protected = jb.protected /\ s.existing = jb.existing
                             /\ s.todo = s.keep /\ s.file = jb.file /\ s.id \in appIds'
    BY <1>2, MainBecomes
  <2>3. CASE Stops(j)
    BY <2>1, <2>2, <2>3, InvStops
  <2>4. ASSUME NEW s \in Job, job' = [job EXCEPT ![j] = s], s.pc = "exts", SameTask(s, jb), Named(jb, s.id),
               s.protected = jb.protected, s.existing = jb.existing
        PROVE  OneJobInv'
    <3>1. /\ \A i \in jb.existing : i \notin Taken
          /\ appIds \subseteq jb.existing
      BY <1>1, <2>1 DEF InPlace
    <3>2. s.id \notin Taken
      BY <2>4, <3>1 DEF Named, Spares
    <3>3. ASSUME jb.by = "pinned"
          PROVE  s.id = jb.id
      <4>1. \E r \in records : r.id = jb.id
        BY <1>1, <2>1, <3>3 DEF InPlace
      <4>2. jb.id \notin Taken
        BY <4>1, OfTheJob
      <4> QED BY <2>4, <3>1, <3>3, <4>2 DEF Named
    <3>4. InPlace(s, appIds', records)
      BY <1>1, <2>1, <2>4, <3>1, <3>2, <3>3 DEF InPlace, SameTask
    <3>5. Spared(s, apps)
      <4>1. jb.by = "derived" =>
              s.id = Derived(jb.ipa) \/ s.id \notin jb.existing \/ ~InUse(s.id, jb.protected)
        BY <1>1, <2>1, <2>4 DEF Spared, Named, Spares
      <4> QED BY <1>1, <2>1, <2>4, <4>1 DEF Spared, SameTask
    <3> QED BY <2>1, <2>2, <2>4, <3>4, <3>5, InvGoesOn
  <2> QED BY <2>2, <2>3, <2>4
<1>3. CASE EnsureExtension(j)
  <2>1. jb.pc = "exts"
    BY <1>3 DEF EnsureExtension
  <2>2. /\ \A i \in appIds' : i \in appIds \/ i \notin Taken
        /\ UNCHANGED <<apps, records, cut, disturbed>>
        /\ \/ Stops(j)
           \/ \E s \in Job : /\ job' = [job EXCEPT ![j] = s]
                             /\ s.pc = "exts" /\ SameTask(s, jb) /\ s.id = jb.id
                             /\ s.protected = jb.protected /\ s.existing = jb.existing
                             /\ s.todo \subseteq jb.todo /\ s.file = jb.file
    BY <1>3, ExtensionBecomes
  <2>3. CASE Stops(j)
    BY <2>1, <2>2, <2>3, InvStops
  <2>4. ASSUME NEW s \in Job, job' = [job EXCEPT ![j] = s], s.pc = "exts", SameTask(s, jb), s.id = jb.id,
               s.protected = jb.protected, s.existing = jb.existing
        PROVE  OneJobInv'
    <3>1. InPlace(s, appIds', records)
      BY <1>1, <2>1, <2>4 DEF InPlace, SameTask
    <3>2. Spared(s, apps)
      BY <1>1, <2>1, <2>4 DEF Spared, SameTask
    <3> QED BY <2>1, <2>2, <2>4, <3>1, <3>2, InvGoesOn
  <2> QED BY <2>2, <2>3, <2>4
<1> QED BY <1>2, <1>3

LEMMA DeviceInv ==
  ASSUME OneJob, OneJobInv, TypeInv, NEW j \in Jobs, InstallOnDevice(j) \/ RemoveFromDevice(j)
  PROVE  OneJobInv'
<1> DEFINE jb == job[j]
<1>1. /\ InPlace(jb, appIds, records) /\ \A i \in appIds : i \notin Taken
      /\ \A r \in records : r.id \notin Taken
      /\ JobTyped(jb) /\ \A i \in Jobs : i = j
  BY OfTheJob DEF OneJob
<1>2. ASSUME Remembers(j), UNCHANGED <<records, apple, cut, disturbed>>, jb.pc \in {"exts", "remove"},
             OneDeviceOnly => \A x \in apps' : IF x.id = jb.id
                                               THEN jb.ipa # None /\ x.ipa = jb.ipa /\ x.dev = jb.dev
                                               ELSE x \in apps
      PROVE  OneJobInv'
  <2>1. PICK s \in Job : /\ job' = [job EXCEPT ![j] = s]
                         /\ s.pc = "read" /\ s.by = "derived" /\ s.ipa = jb.ipa /\ s.dev = jb.dev
                         /\ s.id = jb.id
    BY <1>2, RemembersBecomes
  <2>2. InPlace(s, appIds', records')
    BY <1>1, <1>2, <2>1 DEF InPlace
  <2>3. Spared(s, apps')
    BY <2>1 DEF Spared
  <2>4. ASSUME OneDeviceOnly PROVE Pending(s, apps') /\ InstalledIsRecorded'
    <3>1. Pending(s, apps')
      BY <1>2, <2>1, <2>4 DEF Pending
    <3>2. job'[j] = s /\ \A i \in Jobs : job[i].pc \notin {"read", "write"}
      BY <1>1, <1>2, <2>1, TheJob
    <3>3. InstalledIsRecorded
      BY <2>4, OfTheJob
    <3> QED BY <1>2, <2>1, <2>4, <3>1, <3>2, <3>3 DEF InstalledIsRecorded
  <2>5. (\A i \in appIds' : i \notin Taken) /\ \A r \in records' : r.id \notin Taken
    BY <1>1, <1>2 DEF apple
  <2> QED BY <2>1, <2>2, <2>3, <2>4, <2>5, OneMoves
<1>3. CASE InstallOnDevice(j)
  <2>1. jb.pc = "exts" /\ jb.ipa \in Ipas /\ jb.dev \in Devices /\ jb.ipa # None
    BY <1>1, <1>3, InstallAssumption DEF InstallOnDevice, JobTyped
  <2>2. apps' = Placed(jb.dev, jb.id, jb.ipa) /\ Remembers(j) /\ UNCHANGED <<records, apple, cut, disturbed>>
    BY <1>3 DEF InstallOnDevice
  <2>3. ASSUME OneDeviceOnly, NEW x \in apps'
        PROVE  IF x.id = jb.id THEN jb.ipa # None /\ x.ipa = jb.ipa /\ x.dev = jb.dev ELSE x \in apps
    BY <2>1, <2>2, <2>3 DEF Placed, OneDeviceOnly, TypeInv, App
  <2> QED BY <1>2, <2>1, <2>2, <2>3
<1>4. CASE RemoveFromDevice(j)
  <2>1. jb.pc = "remove" /\ jb.dev \in Devices
    BY <1>1, <1>4 DEF RemoveFromDevice, JobTyped
  <2>2. apps' = Removed(jb.dev, jb.id) /\ Remembers(j) /\ UNCHANGED <<records, apple, cut, disturbed>>
    BY <1>4 DEF RemoveFromDevice
  <2>3. ASSUME OneDeviceOnly, NEW x \in apps'
        PROVE  x.id # jb.id /\ x \in apps
    BY <2>1, <2>2, <2>3 DEF Removed, OneDeviceOnly, TypeInv, App
  <2> QED BY <1>2, <2>1, <2>2, <2>3
<1> QED BY <1>3, <1>4

LEMMA FileInv ==
  ASSUME OneJob, OneJobInv, TypeInv, NEW j \in Jobs, ReadRecords(j) \/ WriteRecords(j)
  PROVE  OneJobInv'
<1> DEFINE jb == job[j]
<1>1. /\ InPlace(jb, appIds, records) /\ \A i \in appIds : i \notin Taken
      /\ \A r \in records : r.id \notin Taken
      /\ JobTyped(jb) /\ \A i \in Jobs : i = j
  BY OfTheJob DEF OneJob
<1>2. CASE ReadRecords(j)
  <2>1. PICK s \in Job : /\ job' = [job EXCEPT ![j] = s]
                         /\ s.pc = "write" /\ SameTask(s, jb) /\ s.id = jb.id /\ s.file = records
    BY <1>2, ReadBecomes
  <2>2. jb.pc = "read" /\ UNCHANGED <<apps, records, apple, cut, disturbed>>
    BY <1>2 DEF ReadRecords
  <2>3. InPlace(s, appIds', records')
    BY <1>1, <2>1, <2>2 DEF InPlace, SameTask
  <2>4. Spared(s, apps')
    BY <2>1 DEF Spared
  <2>5. ASSUME OneDeviceOnly PROVE Pending(s, apps') /\ InstalledIsRecorded'
    <3>1. Pending(jb, apps) /\ InstalledIsRecorded
      BY <2>5, OfTheJob
    <3>2. Pending(s, apps')
      BY <2>1, <2>2, <3>1 DEF Pending, SameTask
    <3>3. job'[j] = s
      BY <2>1, TheJob
    <3> QED BY <1>1, <2>1, <2>2, <3>1, <3>2, <3>3, StaysRecorded
  <2> QED BY <1>1, <2>1, <2>2, <2>3, <2>4, <2>5, OneMoves DEF apple
<1>3. CASE WriteRecords(j)
  <2>1. /\ job' = [job EXCEPT ![j] = Idle] /\ cut' = cut \ {jb.id} /\ UNCHANGED <<apps, apple, disturbed>>
        /\ jb.pc = "write"
        /\ records' = IF jb.ipa = None THEN Forgotten(jb.file, jb.id) ELSE Recorded(jb.file, Entry(jb))
    BY <1>3 DEF WriteRecords, Stops
  <2>2. jb.file = records /\ (jb.ipa # None => jb.id \notin Taken)
    BY <1>1, <2>1 DEF InPlace
  <2>3. Entry(jb).id = jb.id /\ Entry(jb).dev = jb.dev /\ Entry(jb).ipa = jb.ipa
    BY DEF Entry
  <2>4. \A r \in records' : r.id \notin Taken
    BY <1>1, <2>1, <2>2, <2>3 DEF Forgotten, Recorded
  <2>5. ASSUME OneDeviceOnly PROVE InstalledIsRecorded'
    <3>1. Pending(jb, apps) /\ InstalledIsRecorded
      BY <2>5, OfTheJob
    <3>2. \A r \in records : r.id # jb.id => r \in records'
      BY <2>1, <2>2, <2>3 DEF Forgotten, Recorded
    <3>3. jb.ipa # None => \E r \in records' : r.id = jb.id /\ r.dev = jb.dev /\ r.ipa = jb.ipa
      BY <2>1, <2>2, <2>3 DEF Recorded
    <3>4. ASSUME NEW x \in apps, x.id = jb.id
          PROVE  \E r \in records' : r.id = x.id /\ r.dev = x.dev /\ r.ipa = x.ipa
      BY <2>1, <3>1, <3>3, <3>4 DEF Pending
    <3>5. ASSUME NEW x \in apps, x.id # jb.id
          PROVE  (\E r \in records' : r.id = x.id /\ r.dev = x.dev /\ r.ipa = x.ipa) \/ x.id \in cut'
      BY <1>1, <2>1, <3>1, <3>2, <3>5 DEF InstalledIsRecorded
    <3> QED BY <2>1, <3>4, <3>5 DEF InstalledIsRecorded
  <2>6. \A i \in appIds' : i \notin Taken
    BY <1>1, <2>1 DEF apple
  <2> QED BY <2>1, <2>4, <2>5, <2>6, IdleIsFine, OneMoves
<1> QED BY <1>2, <1>3

\* All that is as it was, or less of it.
LEMMA LessIsFine ==
  ASSUME OneJobInv, job' = job, records' = records, cut' = cut,
         \A x \in apps' : x \in apps, \A i \in appIds' : i \in appIds
  PROVE  OneJobInv'
<1>1. PlaceInv'
  BY DEF OneJobInv, PlaceInv, InPlace
<1>2. SparedInv'
  BY DEF OneJobInv, SparedInv, Spared
<1>3. ASSUME OneDeviceOnly PROVE RecordInv'
  <2>1. InstalledIsRecorded'
    BY <1>3, StaysRecorded DEF OneJobInv, RecordInv
  <2> QED BY <1>3, <2>1 DEF OneJobInv, RecordInv, Pending
<1> QED BY <1>1, <1>2, <1>3 DEF OneJobInv

LEMMA ElseInv ==
  ASSUME OneJob, OneJobInv, TypeInv,
         \/ \E j \in Jobs : CallFails(j) \/ AnswerLost(j)
         \/ Killed
         \/ \E x \in apps : AppRemoved(x)
         \/ \E id \in appIds : AppIdDeleted(id)
         \/ WindowMovesOn
         \/ UNCHANGED installVars
  PROVE  OneJobInv'
<1>1. ASSUME NEW j \in Jobs, CallFails(j)
      PROVE  OneJobInv'
  BY <1>1, InvStops DEF CallFails, apple
<1>2. ASSUME NEW j \in Jobs, AnswerLost(j)
      PROVE  OneJobInv'
  <2> DEFINE jb == job[j]
  <2>1. /\ job' = [job EXCEPT ![j] = Idle] /\ UNCHANGED <<records, apple>> /\ cut' = cut \cup {jb.id}
        /\ apps' = Placed(jb.dev, jb.id, jb.ipa) /\ jb.pc = "exts"
    BY <1>2 DEF AnswerLost, Stops
  <2>2. (\A i \in appIds' : i \notin Taken) /\ \A r \in records' : r.id \notin Taken
    BY <2>1, OfTheJob DEF apple
  <2>3. ASSUME OneDeviceOnly PROVE InstalledIsRecorded'
    <3>1. InstalledIsRecorded /\ \A i \in Jobs : i = j
      BY <2>3, OfTheJob DEF OneJob
    <3>2. \A x \in apps' : x.id \in cut' \/ x \in apps
      BY <2>1 DEF Placed
    <3> QED BY <2>1, <3>1, <3>2 DEF InstalledIsRecorded
  <2> QED BY <2>1, <2>2, <2>3, IdleIsFine, OneMoves
<1>3. CASE Killed
  <2>1. PICK j \in Jobs : job[j].pc # "idle"
    BY <1>3 DEF Killed
  <2>2. /\ job' = [i \in Jobs |-> Idle] /\ UNCHANGED <<apps, records, apple>>
        /\ cut' = cut \cup {job[k].id : k \in {i \in Jobs : job[i].pc \in {"read", "write"}}}
    BY <1>3 DEF Killed
  <2>3. job' = [job EXCEPT ![j] = Idle]
    BY <2>2 DEF TypeInv, OneJob
  <2>4. (\A i \in appIds' : i \notin Taken) /\ \A r \in records' : r.id \notin Taken
    BY <2>1, <2>2, OfTheJob DEF apple
  <2>5. ASSUME OneDeviceOnly PROVE InstalledIsRecorded'
    <3>1. InstalledIsRecorded
      BY <2>1, <2>5, OfTheJob
    <3> QED BY <2>2, <3>1, StaysRecorded
  <2> QED BY <2>2, <2>3, <2>4, <2>5, IdleIsFine, OneMoves
<1>4. ASSUME NEW x, AppRemoved(x)
      PROVE  OneJobInv'
  BY <1>4, LessIsFine DEF AppRemoved, apple
<1>5. ASSUME NEW id, AppIdDeleted(id)
      PROVE  OneJobInv'
  BY <1>5, LessIsFine DEF AppIdDeleted
<1>6. CASE WindowMovesOn
  BY <1>6, LessIsFine DEF WindowMovesOn
<1>7. CASE UNCHANGED installVars
  BY <1>7, LessIsFine DEF installVars, apple
<1> QED BY <1>1, <1>2, <1>3, <1>4, <1>5, <1>6, <1>7

LEMMA InvStays ==
  ASSUME OneJob, OneJobInv, TypeInv, [InstallNext]_installVars
  PROVE  OneJobInv'
<1>1. ASSUME NEW j \in Jobs, JobStep(j)
      PROVE  OneJobInv'
  BY <1>1, PlanInv, EnsureInv, DeviceInv, FileInv DEF JobStep
<1> QED BY <1>1, RequestInv, ElseInv DEF InstallNext

LEMMA InvAlways ==
  ASSUME OneJob
  PROVE  InstallSpec => [](TypeInv /\ OneJobInv)
<1>1. InstallInit => TypeInv /\ OneJobInv
  BY TypeAtFirst, InvAtFirst
<1>2. (TypeInv /\ OneJobInv) /\ [InstallNext]_installVars => (TypeInv /\ OneJobInv)'
  BY TypesStay, InvStays
<1> QED BY <1>1, <1>2, PTL DEF InstallSpec

\* A renewal is about the very app that was installed: at its end it still has
\* the identifier of the record it was asked to renew, though the plan, a spare
\* App ID or the variant of a taken identifier give other installations
\* another one (pipeline.py, provisioning.py).  Two jobs can take each other's
\* record away; the theorem is about one at a time.
THEOREM RenewalsStayInPlace ==
  ASSUME OneJob
  PROVE  InstallSpec => []RenewalInPlace
<1>1. TypeInv /\ OneJobInv => RenewalInPlace
  BY DEF OneJobInv, PlaceInv, InPlace, RenewalInPlace
<1> QED BY <1>1, InvAlways, PTL

\* An App ID that is used again is nobody else's on the device (spare_app_id,
\* app_id_in_use in provisioning.py), provided the device tells what is
\* installed: the list that cannot be read is the hazard the code leaves.
THEOREM ReusedIdsAreFree ==
  ASSUME OneJob, AppsAreReadable
  PROVE  InstallSpec => []ReusedIsFree
<1>1. ASSUME TypeInv, OneJobInv PROVE ReusedIsFree
  <2>1. ASSUME NEW j \in Jobs, job[j].pc = "exts", job[j].by = "derived",
               job[j].id # Derived(job[j].ipa), job[j].id \in job[j].existing,
               NEW id \in OnDevice(job[j].dev)
        PROVE  ~IsPrefix(id, job[j].id)
    <3>1. id \in job[j].protected /\ ~InUse(job[j].id, job[j].protected)
      BY <1>1, <2>1 DEF OneJobInv, SparedInv, Spared, OnDevice
    <3> QED BY <3>1 DEF InUse
  <2> QED BY <2>1 DEF ReusedIsFree
<1>2. TypeInv /\ OneJobInv => ReusedIsFree
  BY <1>1
<1> QED BY <1>2, InvAlways, PTL

\* What was installed is in apps.json, with its identifier, its device and its
\* IPA (store.record, store.forget): if a job was cut off between the device
\* and the file, its identifier is known.  The file has one record per
\* identifier, so this is for one device, and two jobs can overwrite each
\* other's file.
THEOREM InstalledAppsAreRecorded ==
  ASSUME OneJob, OneDeviceOnly
  PROVE  InstallSpec => []InstalledIsRecorded
<1>1. TypeInv /\ OneJobInv => InstalledIsRecorded
  BY DEF OneJobInv, RecordInv
<1> QED BY <1>1, InvAlways, PTL

\* Whatever the number of jobs, one identifier has one record and all that is
\* kept is of its type.
THEOREM InstallTypes == InstallSpec => []InstallTypeOK
<1>1. ASSUME TypeInv PROVE InstallTypeOK
  <2>1. ASSUME NEW j \in Jobs
        PROVE  /\ job[j].pc \in InstallPcs /\ job[j].by \in Origins /\ job[j].spent \in BOOLEAN
               /\ job[j].id \in Id /\ job[j].keep \subseteq Exts /\ job[j].todo \subseteq job[j].keep
    BY <1>1 DEF TypeInv, JobTyped, Job
  <2> QED BY <1>1, <2>1 DEF TypeInv, InstallTypeOK, OnePerId
<1>2. TypeInv => InstallTypeOK
  BY <1>1
<1> QED BY <1>2, TypesAlways, PTL

-----------------------------------------------------------------------------
(* What the extensions of an app need.                                     *)

\* The App IDs of these extensions that are not there.
Wanted(id, exts, ids) == {ExtId(id, e) : e \in exts} \ ids

LEMMA ExtIdsDiffer ==
  /\ \A i, k \in Id, e, f \in Exts : ExtId(i, e) = ExtId(k, f) <=> i = k /\ e = f
  /\ \A i, k \in Id, f \in Exts : Varied(i) = ExtId(k, f) <=> i = k /\ f = "ms"
  /\ \A i \in Id, e \in Exts : ExtId(i, e) # i
<1>1. Exts \subseteq Parts /\ "ms" \in Parts
  BY DEF Parts
<1>2. ASSUME NEW i \in Id, NEW e \in Exts
      PROVE  ExtId(i, e) # i
  <2>1. i \in Seq(Parts) /\ e \in Parts /\ Len(i) \in Nat
    BY <1>1 DEF Id
  <2>2. Len(Append(i, e)) = Len(i) + 1
    BY <2>1, AppendProperties
  <2> QED BY <2>1, <2>2 DEF ExtId
<1>3. ASSUME NEW i \in Id, NEW k \in Id, NEW e \in Parts, NEW f \in Parts
      PROVE  Append(i, e) = Append(k, f) <=> i = k /\ e = f
  BY AppendInjective DEF Id
<1> QED BY <1>1, <1>2, <1>3 DEF ExtId, Varied

\* An app has as many extensions' IDs as extensions, whatever its own ID.
LEMMA ExtIdsCount ==
  ASSUME NEW id \in Id, NEW exts \in SUBSET Exts, IsFiniteSet(exts)
  PROVE  /\ IsFiniteSet({ExtId(id, e) : e \in exts})
         /\ Cardinality({ExtId(id, e) : e \in exts}) = Cardinality(exts)
<1> DEFINE T == {ExtId(id, e) : e \in exts}
           f == [e \in exts |-> ExtId(id, e)]
<1>1. f \in Surjection(exts, T)
  BY DEF Surjection
<1>2. f \in Injection(exts, T)
  BY ExtIdsDiffer DEF Injection, IsInjective
<1> HIDE DEF f, T
<1>3. IsFiniteSet(T) /\ Cardinality(T) = Cardinality(exts)
  BY <1>1, <1>2, FS_Surjection
<1> QED BY <1>3 DEF T

LEMMA WantedIsFinite ==
  ASSUME NEW id \in Id, NEW exts \in SUBSET Exts, IsFiniteSet(exts), NEW ids
  PROVE  /\ IsFiniteSet(Wanted(id, exts, ids))
         /\ Cardinality(Wanted(id, exts, ids)) \in Nat
         /\ Cardinality(Wanted(id, exts, ids)) <= Cardinality(exts)
         /\ Cardinality(exts) \in Nat
<1> DEFINE T == {ExtId(id, e) : e \in exts}
<1>1. IsFiniteSet(T) /\ Cardinality(T) = Cardinality(exts)
  BY ExtIdsCount
<1>2. Wanted(id, exts, ids) \in SUBSET T
  BY DEF Wanted
<1> HIDE DEF T
<1> QED BY <1>1, <1>2, FS_Subset, FS_CardinalityType

\* The app's own ID is one more.
LEMMA DemandCounts ==
  ASSUME NEW id \in Id, NEW exts \in SUBSET Exts, IsFiniteSet(exts), NEW ids
  PROVE  Cardinality(Demand(id, exts, ids)) =
           Cardinality(Wanted(id, exts, ids)) + IF id \in ids THEN 0 ELSE 1
<1> DEFINE W == Wanted(id, exts, ids)
<1>1. IsFiniteSet(W) /\ Cardinality(W) \in Nat
  BY WantedIsFinite
<1>2. id \notin W
  BY ExtIdsDiffer DEF Wanted
<1>3. Demand(id, exts, ids) = IF id \in ids THEN W ELSE W \cup {id}
  BY DEF Demand, Wanted
<1> HIDE DEF W
<1>4. Cardinality(W \cup {id}) = Cardinality(W) + 1
  BY <1>1, <1>2, FS_AddElement
<1> QED BY <1>1, <1>3, <1>4 DEF W

\* One extension after the other: each one that is not there is one less.
LEMMA OneWantedLess ==
  ASSUME NEW id \in Id, NEW exts \in SUBSET Exts, IsFiniteSet(exts), NEW ids, NEW e \in exts
  PROVE  Cardinality(Wanted(id, exts \ {e}, ids)) =
           Cardinality(Wanted(id, exts, ids)) - IF ExtId(id, e) \in ids THEN 0 ELSE 1
<1> DEFINE W == Wanted(id, exts, ids)
<1>1. IsFiniteSet(W) /\ Cardinality(W) \in Nat
  BY WantedIsFinite
<1>2. Wanted(id, exts \ {e}, ids) = W \ {ExtId(id, e)}
  BY ExtIdsDiffer DEF Wanted
<1>3. ExtId(id, e) \in W <=> ExtId(id, e) \notin ids
  BY DEF Wanted
<1> HIDE DEF W
<1>4. Cardinality(W \ {ExtId(id, e)}) = IF ExtId(id, e) \in W THEN Cardinality(W) - 1 ELSE Cardinality(W)
  BY <1>1, FS_RemoveElement
<1>5. Cardinality(W \ {ExtId(id, e)}) = Cardinality(W) - IF ExtId(id, e) \in ids THEN 0 ELSE 1
  BY <1>1, <1>3, <1>4
<1> QED BY <1>2, <1>5 DEF W

\* Under another ID the extensions need no more, if none of theirs is there.
LEMMA VariantNeedsNoMore ==
  ASSUME NEW id \in Id, NEW other \in Id, NEW exts \in SUBSET Exts, IsFiniteSet(exts), NEW ids,
         \A e \in exts : ExtId(id, e) \notin ids
  PROVE  Cardinality(Wanted(other, exts, ids)) <= Cardinality(Wanted(id, exts, ids))
<1>1. Wanted(id, exts, ids) = {ExtId(id, e) : e \in exts}
  BY DEF Wanted
<1>2. Cardinality(Wanted(id, exts, ids)) = Cardinality(exts)
  BY <1>1, ExtIdsCount
<1> QED BY <1>2, WantedIsFinite

-----------------------------------------------------------------------------
(* The quota covers what is left to be created.                            *)

QuotaIsTold == "quota unknown" \notin Disturbances

\* An extension's identifier beneath an app's that is another account's.
BelowTaken(i) == \E t \in Taken \cap Id, e \in Exts : i = ExtId(t, e)

\* Nobody asks for such an identifier.
NobodyBelowTaken ==
  /\ \A ipa \in Ipas : ~BelowTaken(Derived(ipa)) /\ \A i \in Wishes[ipa] : ~BelowTaken(i)
  /\ "ms" \notin Exts

Covered(jb, left) ==
  /\ jb.ipa # None => ~BelowTaken(jb.id)
  /\ jb.pc \in {"main", "exts"} => \A i \in jb.existing : ~BelowTaken(i)
  /\ Free /\ jb.pc = "main" => Cardinality(Demand(jb.id, jb.keep, jb.existing)) <= left
  /\ Free /\ jb.pc = "exts" => Cardinality(Wanted(jb.id, jb.todo, jb.existing)) <= left

BudgetInv ==
  /\ \A i \in appIds : ~BelowTaken(i)
  /\ \A r \in records : ~BelowTaken(r.id)
  /\ \A j \in Jobs : Covered(job[j], available)

LEMMA CoveredIdle == \A left : Covered(Idle, left)
BY IdleTyped DEF Covered, Idle

LEMMA BudgetMoves ==
  ASSUME OneJob, TypeInv, BudgetInv, NEW j \in Jobs, NEW s, job' = [job EXCEPT ![j] = s],
         \A i \in appIds' : i \in appIds \/ ~BelowTaken(i),
         \A r \in records' : r \in records \/ ~BelowTaken(r.id),
         Covered(s, available')
  PROVE  BudgetInv'
<1>1. \A i \in Jobs : job'[i] = s
  BY TheJob
<1>2. \A i \in Jobs : Covered(job[i], available)' <=> Covered(job'[i], available')
  BY DEF Covered
<1>3. \A i : BelowTaken(i)' <=> BelowTaken(i)
  BY DEF BelowTaken
<1> QED BY <1>1, <1>2, <1>3 DEF BudgetInv

LEMMA BudgetAtFirst == InstallInit => BudgetInv
<1> SUFFICES ASSUME InstallInit PROVE BudgetInv
  OBVIOUS
<1>1. \A j \in Jobs : job[j] = Idle
  BY DEF InstallInit
<1>2. records = {} /\ appIds = {}
  BY DEF InstallInit
<1> QED BY <1>1, <1>2, CoveredIdle DEF BudgetInv

LEMMA RequestBudget ==
  ASSUME OneJob, NobodyBelowTaken, TypeInv, BudgetInv, NEW j \in Jobs, InstallRequest(j)
  PROVE  BudgetInv'
<1>1. ASSUME NEW by \in Origins, NEW ipa \in Ipas \cup {None}, NEW d \in Devices,
             NEW id \in Id, NEW keep \in SUBSET Exts, NEW pc \in InstallPcs, Begins(j, by, ipa, d, id, keep, pc),
             pc \in {"list", "remove"}, ipa # None => ~BelowTaken(id)
      PROVE  BudgetInv'
  <2>1. Begins(j, by, ipa, d, id, keep, pc)
    BY <1>1
  <2>2. PICK s \in Job : BegunAs(j, s, by, ipa, d, id, keep, pc)
    BY <2>1, BeginsBecomes
  <2>3. UNCHANGED <<apps, records, apple, cut, disturbed>>
    BY <2>1 DEF Begins
  <2>4. Covered(s, available')
    BY <1>1, <2>2 DEF Covered, BegunAs
  <2> QED BY <2>2, <2>3, <2>4, BudgetMoves DEF apple, BegunAs
<1>2. /\ {"derived", "chosen", "spare", "pinned"} \subseteq Origins
      /\ {"list", "remove"} \subseteq InstallPcs
  BY DEF Origins, InstallPcs
<1>3. /\ appIds \subseteq Id /\ \A i \in appIds : ~BelowTaken(i)
      /\ \A d \in Devices : OnDevice(d) \subseteq Id
      /\ \A r \in records : r.id \in Id /\ r.ipa \in Ipas /\ r.dev \in Devices /\ r.keep \subseteq Exts
                            /\ ~BelowTaken(r.id)
  BY DEF TypeInv, OnDevice, App, Record, BudgetInv
<1>4. ASSUME NEW ipa \in Ipas, NEW d \in Devices, NEW keep \in SUBSET ExtsOf[ipa], Install(j, ipa, d, keep)
      PROVE  BudgetInv'
  <2>1. PICK by \in Origins, id \in Id : Begins(j, by, ipa, d, id, keep, "list") /\ ~BelowTaken(id)
    BY <1>2, <1>3, <1>4, IdsTyped, InstallAssumption DEF Install, Spares, NobodyBelowTaken
  <2>2. keep \subseteq Exts
    BY KeptExtensions
  <2> QED BY <1>1, <1>2, <2>1, <2>2
<1>5. ASSUME NEW r \in records, Refresh(j, r)
      PROVE  BudgetInv'
  BY <1>1, <1>2, <1>3, <1>5 DEF Refresh
<1>6. ASSUME NEW d \in Devices, NEW id \in {r.id : r \in records} \cup OnDevice(d), Uninstall(j, d, id)
      PROVE  BudgetInv'
  BY <1>1, <1>2, <1>3, <1>6 DEF Uninstall
<1> QED BY <1>4, <1>5, <1>6 DEF InstallRequest

LEMMA BudgetStops ==
  ASSUME OneJob, TypeInv, BudgetInv, NEW j \in Jobs, Stops(j),
         \A i \in appIds' : i \in appIds \/ ~BelowTaken(i),
         \A r \in records' : r \in records \/ ~BelowTaken(r.id)
  PROVE  BudgetInv'
BY CoveredIdle, BudgetMoves DEF Stops

LEMMA PlanBudget ==
  ASSUME OneJob, QuotaIsTold, TypeInv, BudgetInv, NEW j \in Jobs, ListApps(j) \/ MakePlan(j)
  PROVE  BudgetInv'
<1> DEFINE jb == job[j]
<1>1. Covered(jb, available) /\ \A i \in appIds : ~BelowTaken(i)
  BY DEF BudgetInv
<1>2. CASE ListApps(j)
  <2>1. PICK s \in Job : /\ job' = [job EXCEPT ![j] = s]
                         /\ s.pc = "plan" /\ SameTask(s, jb) /\ s.id = jb.id
    BY <1>2, ListBecomes
  <2>2. UNCHANGED <<apps, records, apple, cut, disturbed>>
    BY <1>2 DEF ListApps
  <2>3. Covered(s, available')
    BY <1>1, <2>1 DEF Covered, SameTask
  <2> QED BY <2>1, <2>2, <2>3, BudgetMoves DEF apple
<1>3. CASE MakePlan(j)
  <2>1. jb.pc = "plan" /\ UNCHANGED <<apps, records, apple, cut, disturbed>>
    BY <1>3 DEF MakePlan
  <2>2. CASE Stops(j)
    BY <2>1, <2>2, BudgetStops DEF apple
  <2>3. ASSUME NEW s \in Job, PlannedAs(j, s)
        PROVE  BudgetInv'
    <3>1. /\ job' = [job EXCEPT ![j] = s] /\ s.pc = "main" /\ SameTask(s, jb) /\ s.existing = appIds
          /\ s.id = jb.id \/ s.id \in appIds
          /\ Free => Cardinality(Demand(s.id, s.keep, appIds)) <= available
      BY <2>3 DEF PlannedAs, Spares, Affordable, QuotaIsTold
    <3>2. Covered(s, available')
      BY <1>1, <2>1, <3>1 DEF Covered, SameTask, apple
    <3> QED BY <2>1, <3>1, <3>2, BudgetMoves DEF apple
  <2> QED BY <1>3, <2>2, <2>3, PlanBecomes
<1> QED BY <1>2, <1>3

LEMMA MainBudget ==
  ASSUME OneJob, NobodyBelowTaken, TypeInv, OneJobInv, BudgetInv, NEW j \in Jobs, EnsureMain(j)
  PROVE  BudgetInv'
<1> DEFINE jb == job[j]
<1>1. /\ Covered(jb, available) /\ InPlace(jb, appIds, records) /\ jb \in Job /\ JobTyped(jb)
      /\ jb.pc = "main" /\ available \in Nat
  <2>1. /\ InPlace(jb, appIds, records) /\ jb \in Job /\ JobTyped(jb)
    BY OfTheJob
  <2>2. available \in Nat
    BY InstallAssumption DEF TypeInv
  <2> QED BY <2>1, <2>2 DEF EnsureMain, BudgetInv
<1>2. jb.ipa \in Ipas /\ jb.ipa # None /\ IsFiniteSet(jb.keep) /\ jb.id \in Id /\ jb.keep \subseteq Exts
  BY <1>1, InstallAssumption DEF JobTyped, Job
<1>3. ~BelowTaken(jb.id) /\ (\A i \in jb.existing : ~BelowTaken(i)) /\ appIds \subseteq jb.existing
  BY <1>1, <1>2 DEF Covered, InPlace
<1>4. ~BelowTaken(Varied(jb.id))
  BY <1>2, ExtIdsDiffer DEF BelowTaken, NobodyBelowTaken
<1>5. /\ \A i \in appIds' : i \in appIds \/ (i \notin Taken /\ i \in {jb.id, Varied(jb.id)})
      /\ UNCHANGED <<apps, records, cut, disturbed>>
      /\ \/ Stops(j)
         \/ \E s \in Job : /\ job' = [job EXCEPT ![j] = s]
                           /\ s.pc = "exts" /\ SameTask(s, jb) /\ Named(jb, s.id) /\ Paid(jb, s.id)
                           /\ s.protected = jb.protected /\ s.existing = jb.existing
                           /\ s.todo = s.keep /\ s.file = jb.file /\ s.id \in appIds'
  BY MainBecomes
<1>6. \A i \in appIds' : i \in appIds \/ ~BelowTaken(i)
  BY <1>3, <1>4, <1>5
<1>7. CASE Stops(j)
  BY <1>5, <1>6, <1>7, BudgetStops
<1>8. ASSUME NEW s \in Job, job' = [job EXCEPT ![j] = s], s.pc = "exts", SameTask(s, jb), Named(jb, s.id),
             Paid(jb, s.id), s.existing = jb.existing, s.todo = s.keep
      PROVE  BudgetInv'
  <2>1. s.keep = jb.keep /\ s.id \in Id
    BY <1>8 DEF SameTask, Job
  <2>2. ~BelowTaken(s.id)
    BY <1>3, <1>4, <1>8 DEF Named, Spares
  <2>3. ASSUME Free
        PROVE  Cardinality(Wanted(s.id, jb.keep, jb.existing)) <= available'
    <3> DEFINE need(i) == Cardinality(Wanted(i, jb.keep, jb.existing))
    <3>1. need(jb.id) + (IF jb.id \in jb.existing THEN 0 ELSE 1) <= available
      BY <1>1, <1>2, <2>3, DemandCounts DEF Covered
    <3>2. need(jb.id) \in Nat
      BY <1>2, WantedIsFinite
    <3>3. CASE s.id = jb.id
      BY <1>1, <1>8, <2>3, <3>1, <3>2, <3>3 DEF Paid
    <3>4. CASE s.id = Varied(jb.id) /\ jb.id \notin jb.existing /\ jb.id \in appIds \cup Taken
      <4>1. jb.id \in Taken \cap Id
        BY <1>2, <1>3, <3>4
      <4>2. \A e \in jb.keep : ExtId(jb.id, e) \notin jb.existing
        BY <1>2, <1>3, <4>1 DEF BelowTaken
      <4>3. need(s.id) <= need(jb.id) /\ need(s.id) \in Nat
        BY <1>2, <2>1, <4>2, VariantNeedsNoMore, WantedIsFinite
      <4>4. available' = available \/ available' = available - 1
        BY <1>8 DEF Paid
      <4> HIDE DEF need
      <4>5. need(s.id) <= available'
        BY <1>1, <3>1, <3>2, <3>4, <4>3, <4>4
      <4> QED BY <4>5 DEF need
    <3>5. CASE jb.id \notin jb.existing /\ Exhausted
      <4>1. available = 0
        BY <3>5 DEF Exhausted
      <4> HIDE DEF need
      <4> QED BY <3>1, <3>2, <3>5, <4>1
    <3> QED BY <1>8, <3>3, <3>4, <3>5 DEF Named
  <2>4. Covered(s, available')
    BY <1>3, <1>8, <2>1, <2>2, <2>3 DEF Covered
  <2> QED BY <1>5, <1>6, <1>8, <2>4, BudgetMoves
<1> QED BY <1>5, <1>7, <1>8

LEMMA ExtensionBudget ==
  ASSUME OneJob, NobodyBelowTaken, TypeInv, OneJobInv, BudgetInv, NEW j \in Jobs, EnsureExtension(j)
  PROVE  BudgetInv'
<1> DEFINE jb == job[j]
<1>1. /\ Covered(jb, available) /\ InPlace(jb, appIds, records) /\ jb \in Job /\ JobTyped(jb)
      /\ jb.pc = "exts" /\ available \in Nat
  BY OfTheJob, InstallAssumption DEF EnsureExtension, BudgetInv, TypeInv
<1>2. /\ IsFiniteSet(jb.todo) /\ jb.id \in Id /\ jb.todo \subseteq Exts
      /\ jb.id \notin Taken
  BY <1>1, FS_Subset DEF JobTyped, Job, InPlace
<1>3. ASSUME NEW e \in Exts
      PROVE  ~BelowTaken(ExtId(jb.id, e)) /\ ~BelowTaken(Varied(ExtId(jb.id, e)))
  BY <1>2, ExtIdsDiffer, IdsTyped DEF BelowTaken, NobodyBelowTaken
<1>4. /\ \A i \in appIds' : i \in appIds \/ (i \notin Taken /\ \E e \in jb.todo :
           i \in {ExtId(jb.id, e), Varied(ExtId(jb.id, e))})
      /\ UNCHANGED <<apps, records, cut, disturbed>>
      /\ \/ Stops(j)
         \/ \E s \in Job : /\ job' = [job EXCEPT ![j] = s]
                           /\ s.pc = "exts" /\ SameTask(s, jb) /\ s.id = jb.id
                           /\ s.protected = jb.protected /\ s.existing = jb.existing
                           /\ s.file = jb.file
                           /\ \E e \in jb.todo : s.todo = jb.todo \ {e} /\ Paid(jb, ExtId(jb.id, e))
  BY ExtensionBecomes
<1>5. \A i \in appIds' : i \in appIds \/ ~BelowTaken(i)
  BY <1>2, <1>3, <1>4
<1>6. CASE Stops(j)
  BY <1>4, <1>5, <1>6, BudgetStops
<1>7. ASSUME NEW s \in Job, job' = [job EXCEPT ![j] = s], s.pc = "exts", SameTask(s, jb), s.id = jb.id,
             s.existing = jb.existing, NEW e \in jb.todo, s.todo = jb.todo \ {e}, Paid(jb, ExtId(jb.id, e))
      PROVE  BudgetInv'
  <2>1. ASSUME Free
        PROVE  Cardinality(Wanted(s.id, s.todo, s.existing)) <= available'
    <3> DEFINE need(x) == Cardinality(Wanted(jb.id, x, jb.existing))
    <3>1. need(jb.todo) <= available /\ need(jb.todo) \in Nat
      BY <1>1, <1>2, <2>1, WantedIsFinite DEF Covered
    <3>2. need(jb.todo \ {e}) = need(jb.todo) - IF ExtId(jb.id, e) \in jb.existing THEN 0 ELSE 1
      BY <1>2, OneWantedLess
    <3>3. available' = available - IF ExtId(jb.id, e) \in jb.existing THEN 0 ELSE 1
      BY <1>1, <1>7, <2>1 DEF Paid
    <3> HIDE DEF need
    <3>4. need(s.todo) <= available'
      BY <1>1, <1>7, <3>1, <3>2, <3>3
    <3> QED BY <1>7, <3>4 DEF need
  <2>2. Covered(s, available')
    BY <1>1, <1>7, <2>1 DEF Covered, SameTask
  <2> QED BY <1>4, <1>5, <1>7, <2>2, BudgetMoves
<1> QED BY <1>4, <1>6, <1>7

LEMMA RecordBudget ==
  ASSUME OneJob, TypeInv, OneJobInv, BudgetInv, NEW j \in Jobs,
         InstallOnDevice(j) \/ RemoveFromDevice(j) \/ ReadRecords(j) \/ WriteRecords(j)
  PROVE  BudgetInv'
<1> DEFINE jb == job[j]
<1>1. Covered(jb, available) /\ InPlace(jb, appIds, records)
  BY OfTheJob DEF BudgetInv
<1>2. CASE InstallOnDevice(j) \/ RemoveFromDevice(j)
  <2>1. Remembers(j) /\ UNCHANGED <<records, apple, cut, disturbed>>
    BY <1>2 DEF InstallOnDevice, RemoveFromDevice
  <2>2. PICK s \in Job : /\ job' = [job EXCEPT ![j] = s]
                         /\ s.pc = "read" /\ s.ipa = jb.ipa /\ s.id = jb.id
    BY <2>1, RemembersBecomes
  <2>3. Covered(s, available')
    BY <1>1, <2>2 DEF Covered
  <2> QED BY <2>1, <2>2, <2>3, BudgetMoves DEF apple
<1>3. CASE ReadRecords(j)
  <2>1. UNCHANGED <<apps, records, apple, cut, disturbed>>
    BY <1>3 DEF ReadRecords
  <2>2. PICK s \in Job : /\ job' = [job EXCEPT ![j] = s]
                         /\ s.pc = "write" /\ SameTask(s, jb) /\ s.id = jb.id
    BY <1>3, ReadBecomes
  <2>3. Covered(s, available')
    BY <1>1, <2>2 DEF Covered, SameTask
  <2> QED BY <2>1, <2>2, <2>3, BudgetMoves DEF apple
<1>4. CASE WriteRecords(j)
  <2>1. /\ Stops(j) /\ UNCHANGED <<apps, apple, disturbed>> /\ jb.pc = "write"
        /\ records' = IF jb.ipa = None THEN Forgotten(jb.file, jb.id) ELSE Recorded(jb.file, Entry(jb))
    BY <1>4 DEF WriteRecords
  <2>2. jb.file = records /\ Entry(jb).id = jb.id /\ (jb.ipa # None => ~BelowTaken(jb.id))
    BY <1>1, <2>1 DEF InPlace, Covered, Entry
  <2>3. \A r \in records' : r \in records \/ ~BelowTaken(r.id)
    BY <2>1, <2>2 DEF Forgotten, Recorded
  <2> QED BY <2>1, <2>3, BudgetStops DEF apple
<1> QED BY <1>2, <1>3, <1>4

LEMMA ElseBudget ==
  ASSUME OneJob, TypeInv, OneJobInv, BudgetInv,
         \/ \E j \in Jobs : CallFails(j) \/ AnswerLost(j)
         \/ Killed
         \/ \E x \in apps : AppRemoved(x)
         \/ \E id \in appIds : AppIdDeleted(id)
         \/ WindowMovesOn
         \/ UNCHANGED installVars
  PROVE  BudgetInv'
<1>1. ASSUME NEW j \in Jobs, CallFails(j)
      PROVE  BudgetInv'
  BY <1>1, BudgetStops DEF CallFails, apple
<1>2. ASSUME NEW j \in Jobs, AnswerLost(j)
      PROVE  BudgetInv'
  BY <1>2, BudgetStops DEF AnswerLost, apple
<1>3. CASE Killed
  <2>1. PICK j \in Jobs : job[j].pc # "idle"
    BY <1>3 DEF Killed
  <2>2. job' = [i \in Jobs |-> Idle] /\ UNCHANGED <<apps, records, apple>>
    BY <1>3 DEF Killed
  <2>3. job' = [job EXCEPT ![j] = Idle]
    BY <2>2 DEF TypeInv, OneJob
  <2> QED BY <2>2, <2>3, BudgetStops DEF apple, Stops
<1>4. ASSUME job' = job, records' = records, \A i \in appIds' : i \in appIds,
             available' \in Int, available' >= available
      PROVE  BudgetInv'
  <2>1. available \in Int /\ \A j \in Jobs : Covered(job[j], available) /\ job[j] \in Job /\ JobTyped(job[j])
    BY InstallAssumption DEF BudgetInv, TypeInv, JobTyped
  <2>2. ASSUME NEW j \in Jobs
        PROVE  Covered(job[j], available')
    <3>1. IsFiniteSet(job[j].keep) /\ IsFiniteSet(job[j].todo) /\ job[j].keep \subseteq Exts /\ job[j].id \in Id
          /\ job[j].todo \subseteq Exts
      BY <2>1, FS_Subset DEF JobTyped, Job
    <3>2. /\ Cardinality(Demand(job[j].id, job[j].keep, job[j].existing)) \in Nat
          /\ Cardinality(Wanted(job[j].id, job[j].todo, job[j].existing)) \in Nat
      BY <3>1, WantedIsFinite, DemandCounts
    <3>3. Covered(job[j], available)
      BY <2>1
    <3>4. \A n \in Nat : n <= available => n <= available'
      BY <1>4, <2>1
    <3> QED BY <3>2, <3>3, <3>4 DEF Covered
  <2>3. \A i : BelowTaken(i)' <=> BelowTaken(i)
    BY DEF BelowTaken
  <2>4. \A j \in Jobs : Covered(job[j], available)' <=> Covered(job'[j], available')
    BY DEF Covered
  <2> QED BY <1>4, <2>2, <2>3, <2>4 DEF BudgetInv
<1>5. available \in Int /\ available >= available /\ available + 1 >= available /\ available + 1 \in Int
  BY InstallAssumption DEF TypeInv
<1>6. ASSUME NEW x, AppRemoved(x)
      PROVE  BudgetInv'
  BY <1>4, <1>5, <1>6 DEF AppRemoved, apple
<1>7. ASSUME NEW id, AppIdDeleted(id)
      PROVE  BudgetInv'
  BY <1>4, <1>5, <1>7 DEF AppIdDeleted
<1>8. CASE WindowMovesOn
  BY <1>4, <1>5, <1>8 DEF WindowMovesOn
<1>9. CASE UNCHANGED installVars
  BY <1>4, <1>5, <1>9 DEF installVars, apple
<1> QED BY <1>1, <1>2, <1>3, <1>6, <1>7, <1>8, <1>9

LEMMA BudgetStays ==
  ASSUME OneJob, QuotaIsTold, NobodyBelowTaken, TypeInv, OneJobInv, BudgetInv, [InstallNext]_installVars
  PROVE  BudgetInv'
<1>1. ASSUME NEW j \in Jobs, JobStep(j)
      PROVE  BudgetInv'
  BY <1>1, PlanBudget, MainBudget, ExtensionBudget, RecordBudget DEF JobStep
<1> QED BY <1>1, RequestBudget, ElseBudget DEF InstallNext

\* "Planned first, so a quota that does not suffice stops us before anything is
\* created": with one job at a time, when Apple tells the quota, what is left
\* to be created for an app is always covered, also after the app has got a
\* variant of its identifier.  Not so if some extension's identifier of a taken
\* one exists: the plan counts it as there, the variant needs a new one.
THEOREM QuotaIsPlanned ==
  ASSUME OneJob, QuotaIsTold, NobodyBelowTaken
  PROVE  InstallSpec => []QuotaStopsFirst
<1>1. InstallInit => TypeInv /\ OneJobInv /\ BudgetInv
  BY TypeAtFirst, InvAtFirst, BudgetAtFirst
<1>2. (TypeInv /\ OneJobInv /\ BudgetInv) /\ [InstallNext]_installVars => (TypeInv /\ OneJobInv /\ BudgetInv)'
  BY TypesStay, InvStays, BudgetStays
<1>3. TypeInv /\ OneJobInv /\ BudgetInv => QuotaStopsFirst
  BY DEF BudgetInv, Covered, Wanted, QuotaStopsFirst
<1> QED BY <1>1, <1>2, <1>3, PTL DEF InstallSpec

-----------------------------------------------------------------------------
(* The signing identity (Certificates).                                    *)

CertRecord == [n : Numbers, key : {0} \cup Keys, content : BOOLEAN]
CertJob == [pc : CertPcs, key : {0} \cup Keys, cert : {0} \cup Numbers, revoke : BOOLEAN]

\* Two jobs are not in ensure_certificate at once.
Alone == \A i, j \in CertJobs : ~At(i, "idle") /\ ~At(j, "idle") => i = j

\* What a job relies on: the key it looks or asks for a certificate with is
\* the one on disk; it makes a key only where no certificate of ours is
\* listed, and asks for a certificate only then - or Apple's list is behind.
JobFits(s) ==
  /\ s.pc \in {"look", "revoke", "submit", "fetch"} =>
       keyPem.whole /\ s.key = keyPem.key /\ s.key # 0
  /\ s.pc = "new" => keyPem.whole /\ Ours = {}
  /\ s.pc \in {"revoke", "submit"} => late \/ Ours = {}

OursFit ==
  /\ \A c \in Ours : keyPem.whole /\ c.key = keyPem.key
  /\ late \/ \A c, d \in Ours : c = d

CertInv ==
  /\ CertificatesTypeOK
  /\ late \/ \A c \in listed : c.content
  /\ ~jobsMet => Alone /\ OursFit /\ \A j \in CertJobs : JobFits(certJob[j])

LEMMA CertTypes ==
  ASSUME CertificatesTypeOK
  PROVE  /\ \A c \in listed : c \in CertRecord
         /\ \A j \in CertJobs : certJob[j] \in CertJob
         /\ certJob = [j \in CertJobs |-> certJob[j]]
         /\ jobsMet \in BOOLEAN /\ late \in BOOLEAN
         /\ keyPem \in [key : {0} \cup Keys, whole : BOOLEAN]
BY DEF CertificatesTypeOK, CertRecord, CertJob

LEMMA NoJobType == NoCertJob \in CertJob /\ NoCertJob.pc = "idle"
BY DEF NoCertJob, CertJob, CertPcs

\* A step of job j to s that leaves key, list and everybody else alone: what
\* it writes beside the key are the three files.
LEMMA CertMoves ==
  ASSUME CertInv, NEW j \in CertJobs, NEW s \in CertJob,
         certJob' = [certJob EXCEPT ![j] = s],
         s.pc # "idle" => ~At(j, "idle"),
         ~jobsMet => JobFits(s),
         p12' \in [cert : {0} \cup Numbers, by : CertJobs], opens' \in BOOLEAN, certDer' \in {0} \cup Numbers,
         UNCHANGED <<keyPem, atApple, keys, jobsMet>>
  PROVE  CertInv'
<1>1. certJob' = [i \in CertJobs |-> IF i = j THEN s ELSE certJob[i]]
  BY CertTypes DEF CertInv
<1>2. CertificatesTypeOK'
  BY <1>1 DEF CertInv, CertificatesTypeOK, CertJob, atApple
<1>3. ~jobsMet => Alone'
  BY <1>1 DEF CertInv, Alone, At
<1>4. Ours' = Ours /\ \A t : JobFits(t)' <=> JobFits(t)
  BY DEF Ours, JobFits, atApple
<1>5. ~jobsMet => \A i \in CertJobs : JobFits(certJob'[i])
  BY <1>1 DEF CertInv
<1>6. OursFit' <=> OursFit
  BY <1>4 DEF OursFit, atApple
<1>7. ~jobsMet' => \A i \in CertJobs : JobFits(certJob[i])'
  BY <1>5, <1>4 DEF JobFits, Ours, atApple
<1> QED BY <1>2, <1>3, <1>6, <1>7 DEF CertInv, atApple

\* What to does to a job.
LEMMA Moved ==
  ASSUME CertInv, NEW j \in CertJobs, NEW pc \in CertPcs, To(j, pc)
  PROVE  \E s \in CertJob : /\ certJob' = [certJob EXCEPT ![j] = s] /\ s.pc = pc
                            /\ s.key = certJob[j].key /\ s.cert = certJob[j].cert /\ s.revoke = certJob[j].revoke
<1> DEFINE s == [certJob[j] EXCEPT !.pc = pc]
<1>1. certJob[j] \in CertJob
  BY CertTypes DEF CertInv
<1>2. s \in CertJob /\ s.pc = pc /\ s.key = certJob[j].key /\ s.cert = certJob[j].cert /\ s.revoke = certJob[j].revoke
  BY <1>1 DEF CertJob
<1>3. certJob' = [certJob EXCEPT ![j] = s]
  BY DEF To
<1> HIDE DEF s
<1> QED BY <1>2, <1>3

\* A job is given up.
LEMMA FailKeeps ==
  ASSUME CertInv, NEW j \in CertJobs, Fails(j),
         UNCHANGED <<identityFiles, atApple, keys, jobsMet>>
  PROVE  CertInv'
<1>1. ~jobsMet => JobFits(NoCertJob)
  BY NoJobType DEF JobFits
<1> QED BY <1>1, NoJobType, CertMoves DEF Fails, identityFiles, CertInv, CertificatesTypeOK

LEMMA EnsureKeeps ==
  ASSUME CertInv, NEW j \in CertJobs, EnsureBegins(j)
  PROVE  CertInv'
<1>1. PICK b \in BOOLEAN : certJob' = [certJob EXCEPT ![j] = [NoCertJob EXCEPT !.pc = "key", !.revoke = b]]
  BY DEF EnsureBegins
<1> DEFINE s == [NoCertJob EXCEPT !.pc = "key", !.revoke = b]
<1>2. s \in CertJob /\ s.pc = "key"
  BY DEF NoCertJob, CertJob, CertPcs
<1>3. certJob' = [certJob EXCEPT ![j] = s]
  BY <1>1
<1> HIDE DEF s
<1>4. certJob' = [i \in CertJobs |-> IF i = j THEN s ELSE certJob[i]]
  BY <1>3, CertTypes DEF CertInv
<1>5. CertificatesTypeOK'
  BY <1>2, <1>4 DEF EnsureBegins, CertInv, CertificatesTypeOK, CertJob, atApple, identityFiles
<1>6. ~jobsMet' => ~jobsMet /\ \A k \in CertJobs \ {j} : At(k, "idle")
  BY DEF EnsureBegins
<1>7. ~jobsMet' => Alone'
  BY <1>4, <1>6 DEF Alone, At
<1>8. OursFit' <=> OursFit
  BY DEF OursFit, Ours, EnsureBegins, identityFiles, atApple
<1>9. \A i \in CertJobs : (i # j => (JobFits(certJob[i])' <=> JobFits(certJob[i]))) /\ JobFits(certJob[j])'
  BY <1>2, <1>4 DEF JobFits, Ours, EnsureBegins, identityFiles, atApple
<1> QED BY <1>5, <1>6, <1>7, <1>8, <1>9 DEF CertInv, EnsureBegins, atApple

LEMMA LoadKeeps ==
  ASSUME CertInv, NEW j \in CertJobs, LoadKeypair(j)
  PROVE  CertInv'
<1>1. CASE ~keyPem.whole
  BY <1>1, FailKeeps DEF LoadKeypair
<1>2. CASE keyPem.whole /\ keyPem.key = 0
  <2>1. PICK s \in CertJob : certJob' = [certJob EXCEPT ![j] = s] /\ s.pc = "new"
    BY <1>2, Moved DEF LoadKeypair, CertPcs
  <2>2. ~jobsMet => JobFits(s)
    BY <1>2, <2>1 DEF JobFits, CertInv, OursFit, Ours
  <2> QED BY <2>1, <2>2, CertMoves DEF LoadKeypair, At, identityFiles, CertInv, CertificatesTypeOK
<1>3. CASE keyPem.whole /\ keyPem.key # 0
  <2> DEFINE s == [certJob[j] EXCEPT !.pc = "look", !.key = keyPem.key]
  <2>1. certJob' = [certJob EXCEPT ![j] = s]
    <3>1. certJob' = [certJob EXCEPT ![j].pc = "look", ![j].key = keyPem.key]
      BY <1>3 DEF LoadKeypair
    <3>2. certJob = [i \in CertJobs |-> certJob[i]] /\ certJob[j] \in CertJob
      BY CertTypes DEF CertInv
    <3> QED BY <3>1, <3>2 DEF CertJob
  <2>2. s \in CertJob /\ s.pc = "look" /\ s.key = keyPem.key
    BY CertTypes DEF CertInv, CertJob, CertPcs
  <2> HIDE DEF s
  <2>3. ~jobsMet => JobFits(s)
    BY <1>3, <2>2 DEF JobFits
  <2> QED BY <2>1, <2>2, <2>3, CertMoves DEF LoadKeypair, At, identityFiles, CertInv, CertificatesTypeOK
<1> QED BY <1>1, <1>2, <1>3

\* A key is made where there is none of ours at Apple.
LEMMA NewKeyKeeps ==
  ASSUME CertInv, NEW j \in CertJobs, NewKey(j)
  PROVE  CertInv'
<1> DEFINE s == [certJob[j] EXCEPT !.pc = Requests(j), !.key = keys']
<1>1. keys' \in Keys /\ keys' # 0
  BY CertificatesAssumption DEF NewKey, Generated, CertInv, CertificatesTypeOK, Keys
<1>2. Requests(j) \in {"revoke", "submit"}
  BY DEF Requests
<1>3. certJob = [i \in CertJobs |-> certJob[i]] /\ certJob[j] \in CertJob
  BY CertTypes DEF CertInv
<1>4. certJob' = [certJob EXCEPT ![j] = s]
  <2>1. certJob' = [certJob EXCEPT ![j].pc = Requests(j), ![j].key = keys']
    BY DEF NewKey, Generated
  <2> HIDE DEF Requests
  <2> QED BY <1>3, <2>1 DEF CertJob
<1>5. s \in CertJob /\ s.pc \in {"revoke", "submit"} /\ s.key = keys'
  BY <1>1, <1>2, <1>3 DEF CertJob, CertPcs
<1> HIDE DEF s
<1>6. certJob' = [i \in CertJobs |-> IF i = j THEN s ELSE certJob[i]]
  BY <1>3, <1>4
<1>7. keyPem' = [key |-> keys', whole |-> TRUE] /\ UNCHANGED <<p12, opens, certDer, atApple, jobsMet>>
  BY DEF NewKey
<1>8. CertificatesTypeOK'
  BY <1>1, <1>5, <1>6, <1>7 DEF CertInv, CertificatesTypeOK, CertJob, atApple
<1>9. ~jobsMet => Ours = {} /\ \A i \in CertJobs \ {j} : At(i, "idle")
  BY DEF NewKey, Generated, CertInv, JobFits, Alone, At
<1>10. ~jobsMet => Alone'
  BY <1>6, <1>9 DEF Alone, At
<1>11. Ours' = Ours
  BY <1>7 DEF Ours, atApple
<1>12. ~jobsMet => OursFit'
  BY <1>9, <1>11 DEF OursFit
<1>13. ~jobsMet => \A i \in CertJobs : JobFits(certJob[i])'
  BY <1>1, <1>5, <1>6, <1>7, <1>9, <1>11 DEF JobFits, At
<1> QED BY <1>7, <1>8, <1>10, <1>12, <1>13 DEF CertInv, atApple

\* The look at Apple's list: with its content there, all of ours are found.
LEMMA LookKeeps ==
  ASSUME CertInv, NEW j \in CertJobs, LookForOwn(j)
  PROVE  CertInv'
<1>0. ~At(j, "idle") /\ UNCHANGED <<identityFiles, atApple, keys, jobsMet>>
  BY DEF LookForOwn, At
<1>1. CASE \E c \in OwnCertificates(j) : certJob' = [certJob EXCEPT ![j].pc = "p12", ![j].cert = c.n]
  <2>1. PICK c \in OwnCertificates(j) : certJob' = [certJob EXCEPT ![j].pc = "p12", ![j].cert = c.n]
    BY <1>1
  <2> DEFINE s == [certJob[j] EXCEPT !.pc = "p12", !.cert = c.n]
  <2>2. certJob = [i \in CertJobs |-> certJob[i]] /\ certJob[j] \in CertJob /\ c.n \in Numbers
    BY CertTypes DEF CertInv, OwnCertificates, CertRecord
  <2>3. certJob' = [certJob EXCEPT ![j] = s]
    BY <2>1, <2>2 DEF CertJob
  <2>4. s \in CertJob /\ s.pc = "p12"
    BY <2>2 DEF CertJob, CertPcs
  <2> HIDE DEF s
  <2>5. JobFits(s)
    BY <2>4 DEF JobFits
  <2> QED BY <1>0, <2>3, <2>4, <2>5, CertMoves DEF identityFiles, CertInv, CertificatesTypeOK
<1>2. CASE OwnCertificates(j) = {} /\ At(j, "look") /\ To(j, Requests(j))
  <2>1. PICK s \in CertJob : /\ certJob' = [certJob EXCEPT ![j] = s] /\ s.pc \in {"revoke", "submit"}
                             /\ s.key = certJob[j].key
    BY <1>2, Moved DEF Requests, CertPcs
  <2>2. ~jobsMet => JobFits(s)
    <3> SUFFICES ASSUME ~jobsMet PROVE JobFits(s)
      OBVIOUS
    <3>1. keyPem.whole /\ s.key = keyPem.key /\ s.key # 0
      BY <1>2, <2>1 DEF CertInv, JobFits, At
    <3>2. late \/ Ours = {}
      BY <1>2, <2>1, <3>1 DEF CertInv, OursFit, Ours, OwnCertificates
    <3> QED BY <2>1, <3>1, <3>2 DEF JobFits
  <2> QED BY <1>0, <2>1, <2>2, CertMoves DEF identityFiles, CertInv, CertificatesTypeOK
<1>3. CASE Fails(j)
  BY <1>0, <1>3, FailKeeps
<1> QED BY <1>1, <1>2, <1>3 DEF LookForOwn

\* A step of the one job that is under way, which changes Apple's list.
LEMMA BusyMoves ==
  ASSUME CertInv, NEW j \in CertJobs, ~At(j, "idle"), NEW s \in CertJob,
         certJob' = [certJob EXCEPT ![j] = s],
         listed' \subseteq CertRecord, issued' \in {0} \cup Numbers, late' \in BOOLEAN,
         late' \/ \A c \in listed' : c.content,
         ~jobsMet => OursFit' /\ JobFits(s)',
         UNCHANGED <<identityFiles, expired, keys, jobsMet>>
  PROVE  CertInv'
<1>1. certJob' = [i \in CertJobs |-> IF i = j THEN s ELSE certJob[i]]
  BY CertTypes DEF CertInv
<1>2. CertificatesTypeOK'
  BY <1>1 DEF CertInv, CertificatesTypeOK, CertJob, CertRecord, identityFiles
<1>3. ~jobsMet => \A i \in CertJobs \ {j} : At(i, "idle")
  BY DEF CertInv, Alone
<1>4. ~jobsMet => Alone'
  BY <1>1, <1>3 DEF Alone, At
<1>5. ~jobsMet => \A i \in CertJobs : JobFits(certJob[i])'
  BY <1>1, <1>3 DEF JobFits, At
<1> QED BY <1>2, <1>4, <1>5 DEF CertInv

\* Apple's list changes and the jobs do not: nothing of ours comes up that was
\* not ours, and no second one.
LEMMA ListChanges ==
  ASSUME CertInv, UNCHANGED <<identityFiles, certJob, keys, jobsMet>>,
         listed' \subseteq CertRecord, issued' \in {0} \cup Numbers, expired' \subseteq Numbers, late' \in BOOLEAN,
         late => late', late' \/ \A c \in listed' : c.content,
         \A c \in Ours' : \E d \in Ours : c.key = d.key,
         late' \/ Ours' \subseteq Ours
  PROVE  CertInv'
<1>1. CertificatesTypeOK'
  BY DEF CertInv, CertificatesTypeOK, CertRecord, identityFiles
<1>2. Alone' <=> Alone
  BY DEF Alone, At
<1>3. OursFit => OursFit'
  BY DEF OursFit, identityFiles
<1>4. \A i \in CertJobs : JobFits(certJob[i]) => JobFits(certJob[i])'
  <2>1. Ours = {} => Ours' = {}
    OBVIOUS
  <2> QED BY <2>1 DEF JobFits, identityFiles
<1> QED BY <1>1, <1>2, <1>3, <1>4 DEF CertInv

LEMMA RevokeKeeps ==
  ASSUME CertInv, NEW j \in CertJobs, RevokeForeign(j)
  PROVE  CertInv'
<1>1. listed' \subseteq listed /\ Ours' \subseteq Ours
  BY DEF RevokeForeign, OwnCertificates, Ours
<1>2. PICK s \in CertJob : /\ certJob' = [certJob EXCEPT ![j] = s] /\ s.pc = "submit"
                           /\ s.key = certJob[j].key
  BY Moved DEF RevokeForeign, CertPcs
<1>3. At(j, "revoke") /\ UNCHANGED <<identityFiles, expired, issued, late, keys, jobsMet>>
  BY DEF RevokeForeign
<1>4. ~jobsMet => OursFit'
  BY <1>1, <1>3 DEF CertInv, OursFit, identityFiles
<1>5. ~jobsMet => JobFits(s)'
  BY <1>1, <1>2, <1>3 DEF CertInv, JobFits, At, identityFiles
<1>6. listed' \subseteq CertRecord /\ (late' \/ \A c \in listed' : c.content)
  BY <1>1, <1>3, CertTypes DEF CertInv
<1> QED BY <1>2, <1>3, <1>4, <1>5, <1>6, BusyMoves DEF At, CertInv, CertificatesTypeOK

\* What a new certificate does to the list.
LEMMA IssuedTypes ==
  ASSUME CertInv, NEW key \in {0} \cup Keys, NEW there \in BOOLEAN, Issued(key, there)
  PROVE  /\ listed' \subseteq CertRecord /\ issued' \in {0} \cup Numbers /\ late' \in BOOLEAN
         /\ late => late'
         /\ late' \/ \A c \in listed' : c.content
         /\ key = 0 => Ours' = Ours
         /\ key # 0 => \E n : Ours' = Ours \cup {[n |-> n, key |-> key, content |-> there]}
<1>1. issued' \in Numbers
  BY CertificatesAssumption DEF Issued, CertInv, CertificatesTypeOK, Numbers
<1> DEFINE c == [n |-> issued', key |-> key, content |-> there]
<1>2. c \in CertRecord /\ c.key = key /\ c.content = there
  BY <1>1 DEF CertRecord
<1>3. listed' = listed \cup {c} /\ late' = (late \/ ~there)
  BY DEF Issued
<1>4. key # 0 => Ours' = Ours \cup {c}
  <2> HIDE DEF c
  <2> QED BY <1>2, <1>3 DEF Ours
<1>5. key = 0 => Ours' = Ours
  <2> HIDE DEF c
  <2> QED BY <1>2, <1>3 DEF Ours
<1>6. key # 0 => \E n : Ours' = Ours \cup {[n |-> n, key |-> key, content |-> there]}
  BY <1>4
<1> HIDE DEF c
<1>7. listed' \subseteq CertRecord
  BY <1>2, <1>3, CertTypes DEF CertInv
<1>8. late' \in BOOLEAN /\ (late => late') /\ (late' \/ \A d \in listed' : d.content)
  BY <1>2, <1>3, CertTypes DEF CertInv
<1> QED BY <1>1, <1>5, <1>6, <1>7, <1>8

LEMMA SubmitKeeps ==
  ASSUME CertInv, NEW j \in CertJobs, SubmitCsr(j)
  PROVE  CertInv'
<1>0. At(j, "submit") /\ ~At(j, "idle") /\ UNCHANGED <<identityFiles, expired, keys, jobsMet>>
  BY DEF SubmitCsr, At
<1>1. CASE Fails(j) /\ UNCHANGED <<listed, issued, late>>
  BY <1>0, <1>1, FailKeeps DEF atApple
<1>2. ASSUME NEW there \in BOOLEAN, Issued(certJob[j].key, there),
             \/ certJob' = [certJob EXCEPT ![j].pc = "p12", ![j].cert = issued']
             \/ To(j, "fetch")
             \/ Fails(j)
      PROVE  CertInv'
  <2>0. certJob = [i \in CertJobs |-> certJob[i]] /\ certJob[j] \in CertJob
    BY CertTypes DEF CertInv
  <2>1. certJob[j].key \in {0} \cup Keys
    BY <2>0 DEF CertJob
  <2>2. /\ listed' \subseteq CertRecord /\ issued' \in {0} \cup Numbers /\ late' \in BOOLEAN
        /\ late => late'
        /\ late' \/ \A c \in listed' : c.content
        /\ certJob[j].key # 0 =>
             \E n : Ours' = Ours \cup {[n |-> n, key |-> certJob[j].key, content |-> there]}
    BY <1>2, <2>1, IssuedTypes
  <2>3. ~jobsMet => OursFit'
    <3> SUFFICES ASSUME ~jobsMet PROVE OursFit'
      OBVIOUS
    <3>1. keyPem.whole /\ certJob[j].key = keyPem.key /\ certJob[j].key # 0 /\ (late \/ Ours = {})
      BY <1>0 DEF CertInv, JobFits, At
    <3>2. PICK n : Ours' = Ours \cup {[n |-> n, key |-> certJob[j].key, content |-> there]}
      BY <2>2, <3>1
    <3> DEFINE c == [n |-> n, key |-> certJob[j].key, content |-> there]
    <3>3. Ours' = Ours \cup {c} /\ c.key = certJob[j].key
      BY <3>2
    <3> HIDE DEF c
    <3> QED BY <1>0, <2>2, <3>1, <3>3 DEF CertInv, OursFit, identityFiles
  <2>4. PICK s \in CertJob : certJob' = [certJob EXCEPT ![j] = s] /\ s.pc \in {"p12", "fetch", "idle"}
                             /\ (s.pc = "fetch" => s.key = certJob[j].key)
    <3>1. CASE certJob' = [certJob EXCEPT ![j].pc = "p12", ![j].cert = issued']
      <4> DEFINE s == [certJob[j] EXCEPT !.pc = "p12", !.cert = issued']
      <4>1. certJob' = [certJob EXCEPT ![j] = s]
        BY <2>0, <3>1 DEF CertJob
      <4>2. s \in CertJob /\ s.pc = "p12"
        BY <2>0, <2>2 DEF CertJob, CertPcs
      <4> HIDE DEF s
      <4> QED BY <4>1, <4>2
    <3>2. CASE To(j, "fetch")
      BY <3>2, Moved DEF CertPcs
    <3>3. CASE Fails(j)
      BY <3>3, NoJobType DEF Fails
    <3> QED BY <1>2, <3>1, <3>2, <3>3
  <2>5. ~jobsMet => JobFits(s)'
    BY <1>0, <2>4 DEF CertInv, JobFits, At, identityFiles
  <2> QED BY <1>0, <2>2, <2>3, <2>4, <2>5, BusyMoves
<1> QED BY <1>1, <1>2 DEF SubmitCsr

\* The three files.
LEMMA WritesKeep ==
  ASSUME CertInv, NEW j \in CertJobs, WriteP12(j) \/ WritePass(j) \/ WriteCert(j)
  PROVE  CertInv'
<1>0. certJob[j] \in CertJob /\ ~At(j, "idle")
  BY CertTypes DEF CertInv, WriteP12, WritePass, WriteCert, At
<1>1. CASE WriteP12(j)
  <2>1. PICK s \in CertJob : certJob' = [certJob EXCEPT ![j] = s] /\ s.pc = "pass"
    BY <1>1, Moved DEF WriteP12, CertPcs
  <2>2. p12' \in [cert : {0} \cup Numbers, by : CertJobs]
    BY <1>0, <1>1 DEF WriteP12, CertJob
  <2> QED BY <1>0, <1>1, <2>1, <2>2, CertMoves DEF WriteP12, JobFits, CertInv, CertificatesTypeOK
<1>2. CASE WritePass(j)
  <2>1. PICK s \in CertJob : certJob' = [certJob EXCEPT ![j] = s] /\ s.pc = "cert"
    BY <1>2, Moved DEF WritePass, CertPcs
  <2> QED BY <1>0, <1>2, <2>1, CertMoves DEF WritePass, JobFits, CertInv, CertificatesTypeOK
<1>3. CASE WriteCert(j)
  <2>1. certDer' \in {0} \cup Numbers
    BY <1>0, <1>3 DEF WriteCert, CertJob
  <2> QED BY <1>3, <2>1, NoJobType, CertMoves DEF WriteCert, JobFits, CertInv, CertificatesTypeOK
<1> QED BY <1>1, <1>2, <1>3

\* A kill in the middle of a write leaves the file that was being written
\* damaged - the key only where it is not asked for a certificate yet.
LEMMA KilledKeeps == ASSUME CertInv, CertificateJobsKilled PROVE CertInv'
<1>1. certJob' = [j \in CertJobs |-> NoCertJob] /\ UNCHANGED <<atApple, keys, jobsMet>>
  BY DEF CertificateJobsKilled
<1>2. keyPem' = keyPem \/ (keyPem' = [keyPem EXCEPT !.whole = FALSE] /\ \E j \in CertJobs : At(j, "new"))
  BY DEF CertificateJobsKilled
<1>3. p12' \in {p12, [p12 EXCEPT !.cert = 0]} /\ opens' \in BOOLEAN /\ certDer' \in {0, certDer}
  BY DEF CertificateJobsKilled, CertInv, CertificatesTypeOK
<1>4. keyPem' \in [key : {0} \cup Keys, whole : BOOLEAN]
  BY <1>2, CertTypes DEF CertInv
<1>5. CertificatesTypeOK'
  BY <1>1, <1>3, <1>4, NoJobType DEF CertInv, CertificatesTypeOK, CertJob, atApple
<1>6. Alone' /\ \A j \in CertJobs : JobFits(certJob[j])'
  BY <1>1, NoJobType DEF Alone, At, JobFits
<1>7. ~jobsMet => OursFit'
  BY <1>1, <1>2 DEF CertInv, OursFit, Ours, JobFits, At, atApple
<1> QED BY <1>1, <1>5, <1>6, <1>7 DEF CertInv, atApple

LEMMA FolderKeeps == ASSUME CertInv, FolderDeleted PROVE CertInv'
<1>1. keyPem' \in [key : {0} \cup Keys, whole : BOOLEAN] /\ UNCHANGED <<atApple, certJob, keys, jobsMet>>
  BY DEF FolderDeleted
<1>2. CertificatesTypeOK'
  BY <1>1 DEF FolderDeleted, CertInv, CertificatesTypeOK, atApple
<1>3. ~jobsMet => Ours = {} /\ \A j \in CertJobs : certJob[j].pc \notin {"look", "revoke", "submit", "fetch", "new"}
  BY DEF FolderDeleted, CertInv, OursFit, JobFits
<1>4. Ours' = Ours
  BY <1>1 DEF Ours, atApple
<1>5. ~jobsMet => OursFit' /\ \A j \in CertJobs : JobFits(certJob[j])'
  BY <1>1, <1>3, <1>4 DEF OursFit, JobFits
<1> QED BY <1>1, <1>2, <1>5 DEF CertInv, Alone, At, atApple

\* The world around.
LEMMA ListKeeps ==
  ASSUME CertInv, IssuedElsewhere \/ \E c \in listed : Revoked(c) \/ Expires(c) \/ ContentArrives(c)
  PROVE  CertInv'
<1>0. listed \subseteq CertRecord /\ issued \in {0} \cup Numbers /\ expired \subseteq Numbers /\ late \in BOOLEAN
  BY CertTypes DEF CertInv, CertificatesTypeOK
<1>1. CASE IssuedElsewhere
  <2>1. /\ listed' \subseteq CertRecord /\ issued' \in {0} \cup Numbers /\ late' \in BOOLEAN
        /\ late => late'
        /\ late' \/ \A c \in listed' : c.content
        /\ Ours' = Ours
    BY <1>1, IssuedTypes DEF IssuedElsewhere
  <2> QED BY <1>0, <1>1, <2>1, ListChanges DEF IssuedElsewhere
<1>2. ASSUME NEW c \in listed, Revoked(c) \/ Expires(c) PROVE CertInv'
  <2>1. listed' \subseteq listed /\ Ours' \subseteq Ours
    BY <1>2 DEF Revoked, Expires, Ours
  <2>2. expired' \subseteq Numbers /\ UNCHANGED <<identityFiles, certJob, keys, jobsMet, issued, late>>
    BY <1>0, <1>2 DEF Revoked, Expires, CertRecord
  <2> QED BY <1>0, <2>1, <2>2, ListChanges DEF CertInv
<1>3. ASSUME NEW c \in listed, ContentArrives(c) PROVE CertInv'
  <2> DEFINE d == [c EXCEPT !.content = TRUE]
  <2>1. d \in CertRecord /\ d.key = c.key
    BY <1>0 DEF CertRecord
  <2>2. listed' = (listed \ {c}) \cup {d} /\ UNCHANGED <<identityFiles, expired, issued, late, certJob, keys, jobsMet>>
    BY <1>3 DEF ContentArrives
  <2>3. late
    BY <1>3 DEF ContentArrives, CertInv
  <2> HIDE DEF d
  <2>4. \A x \in Ours' : \E y \in Ours : x.key = y.key
    BY <2>1, <2>2 DEF Ours
  <2>5. listed' \subseteq CertRecord
    BY <1>0, <2>1, <2>2
  <2> QED BY <1>0, <2>2, <2>3, <2>4, <2>5, ListChanges
<1> QED BY <1>1, <1>2, <1>3

\* OneCertificate: through kills, torn files, lost answers and certificates
\* listed without their content, what Apple has issued to us belongs to the key
\* on disk, and there is one at most - for any number of jobs, as long as they
\* do not overlap; and nothing leaves its type.
THEOREM NoneWasted == CertificatesSpec => [](CertificatesTypeOK /\ OneCertificate)
<1>1. CertificatesInit => CertInv
  <2> SUFFICES ASSUME CertificatesInit PROVE CertInv
    OBVIOUS
  <2>1. \A j \in CertJobs : certJob[j] \in CertJob /\ certJob[j].pc = "idle"
    BY NoJobType DEF CertificatesInit
  <2>2. (CHOOSE j \in CertJobs : TRUE) \in CertJobs
    BY CertificatesAssumption
  <2>3. CertificatesTypeOK
    BY <2>1, <2>2 DEF CertificatesInit, CertificatesTypeOK, CertJob
  <2>4. Ours = {}
    BY DEF CertificatesInit, Ours
  <2> QED BY <2>1, <2>3, <2>4 DEF CertificatesInit, CertInv, Alone, At, OursFit, JobFits
<1>2. CertInv /\ [CertificatesNext]_certificateVars => CertInv'
  <2> SUFFICES ASSUME CertInv, [CertificatesNext]_certificateVars PROVE CertInv'
    OBVIOUS
  <2>1. CASE UNCHANGED certificateVars
    BY <2>1 DEF certificateVars, identityFiles, atApple, CertInv, CertificatesTypeOK, Alone, At, OursFit, JobFits, Ours
  <2> QED BY <2>1, KilledKeeps, FolderKeeps, ListKeeps, EnsureKeeps, LoadKeeps, NewKeyKeeps, LookKeeps,
             RevokeKeeps, SubmitKeeps, WritesKeep DEF CertificatesNext
<1>3. CertInv => CertificatesTypeOK /\ OneCertificate
  <2> SUFFICES ASSUME CertInv, ~jobsMet, ~late PROVE Cardinality(Ours) <= 1
    BY DEF CertInv, OursFit, OneCertificate
  <2>1. \A c, d \in Ours : c = d
    BY DEF CertInv, OursFit
  <2>2. CASE Ours = {}
    BY <2>2, FS_EmptySet
  <2>3. CASE Ours # {}
    <3>1. PICK c : Ours = {c}
      BY <2>1, <2>3
    <3> QED BY <3>1, FS_Singleton
  <2> QED BY <2>2, <2>3
<1> QED BY <1>1, <1>2, <1>3, PTL DEF CertificatesSpec
=============================================================================
