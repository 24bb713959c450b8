------------------------------- MODULE Install --------------------------------
(***************************************************************************)
(* Installing, renewing and uninstalling (modstaller/pipeline.py,          *)
(* provisioning.py, plan.py, quota.py, state/store.py): which identifier   *)
(* an app gets, what that costs of Apple's weekly quota, what the device   *)
(* holds afterwards and what is remembered for the renewal.                *)
(*                                                                         *)
(* A job is a worker thread of the server; between two of its steps lies a *)
(* call to Apple, to the device or to a file, and anything else may happen *)
(* there: the quota's window moves on, an App ID is deleted, an app is     *)
(* removed on the device, the backend is killed.  Apple (one team) and the *)
(* devices are modelled from how the code uses them.                       *)
(*                                                                         *)
(* An identifier is the sequence of its parts: <<p>> is the ID derived for *)
(* the IPA p, Append(i, e) that of extension e of the app with the ID i.   *)
(***************************************************************************)
EXTENDS Naturals, FiniteSets, SequencesExt

CONSTANTS
  Jobs,           \* jobs that may be under way at once
  Ipas,           \* IPA files of the user
  ExtsOf,         \* [Ipas -> its extensions]
  Devices,
  Wishes,         \* [Ipas -> identifiers the user may type into the editor]
  Taken,          \* identifiers that belong to other accounts
  Free,           \* a free account: its weekly quota counts
  MaxQuota,       \* App IDs per window
  Disturbances,   \* what else may happen in this instance, see below
  MaxDisturbed,   \* bound: how many of them happen
  None

AllDisturbances == {"app removed", "App ID deleted", "window moves on",
                    "killed", "call fails", "answer lost", "quota unknown", "apps unreadable"}

\* What identifiers are made of: IPAs, extensions, the mark of a variant, and
\* whatever the user types.
Exts == UNION {ExtsOf[i] : i \in Ipas}
Parts == Ipas \cup Exts \cup {"ms"} \cup UNION {UNION {Range(i) : i \in Wishes[p]} : p \in Ipas}
Id == Seq(Parts)

ASSUME InstallAssumption ==
  /\ Free \in BOOLEAN
  /\ MaxQuota \in Nat /\ MaxDisturbed \in Nat
  /\ Disturbances \subseteq AllDisturbances
  /\ None \notin Jobs \cup Ipas
  /\ \A ipa \in Ipas : Wishes[ipa] \subseteq Id /\ IsFiniteSet(ExtsOf[ipa])

VARIABLES
  apps,           \* what is on the devices: a set of [dev, id, ipa]
  records,        \* apps.json: a set of [id, ipa, dev, keep]
  appIds,         \* App IDs of the team
  available,      \* how many App IDs may still be created in this window
  disturbed,      \* bounded count of disturbances
  job,            \* [Jobs -> Job]
  cut             \* history: IDs installed by a job that did not get to its record

apple == <<appIds, available>>
installVars == <<apps, records, appIds, available, job, cut, disturbed>>

-----------------------------------------------------------------------------
(* Identifiers.                                                            *)

\* derive_bundle_id
Derived(ipa) == <<ipa>>

\* bundle_id_for: an extension's ID follows its app's.
ExtId(id, e) == Append(id, e)

\* The variant that is tried when an identifier belongs to another account.
Varied(id) == Append(id, "ms")

\* MUTANT: extensions and other parts beneath an app's ID count as free.
InUseExactly(id, protected) == id \in protected

\* app_id_in_use: an installed app's own ID and everything beneath it.
InUse(id, protected) == \E p \in protected : IsPrefix(p, id)

\* spare_candidates, spare_app_id
Spares(ids, protected) == {i \in ids : ~InUse(i, protected)}

\* MUTANT: the extensions are forgotten.
DemandOfApp(main, keep, ids) == {main} \ ids

\* demand: the App IDs an app with ID `main` would need anew.
Demand(main, keep, ids) == ({main} \cup {ExtId(main, e) : e \in keep}) \ ids

OnDevice(d) == {x.id : x \in {y \in apps : y.dev = d}}

\* Whatever was there under this ID is replaced.
Placed(d, id, ipa) ==
  {x \in apps : ~(x.dev = d /\ x.id = id)} \cup {[dev |-> d, id |-> id, ipa |-> ipa]}
Removed(d, id) == {x \in apps : ~(x.dev = d /\ x.id = id)}

\* MUTANT: the app's older record stays.
RecordedBeside(file, entry) == file \cup {entry}

\* store.record and store.forget on what was read from the file; a record is
\* found by the app's ID alone.
Recorded(file, entry) == {r \in file : r.id # entry.id} \cup {entry}
Forgotten(file, id) == {r \in file : r.id # id}

-----------------------------------------------------------------------------
(* Jobs.                                                                   *)

\* How the identifier came about: chosen in the editor, an App ID chosen
\* there to be reused, the record's for a renewal, or derived from the IPA.
Origins == {"derived", "chosen", "spare", "pinned"}
InstallPcs == {"idle", "list", "plan", "main", "exts", "remove", "read", "write"}

Idle ==
  [pc |-> "idle", by |-> "derived", ipa |-> None, dev |-> None, id |-> <<>>, keep |-> {},
   protected |-> {}, existing |-> {}, todo |-> {}, file |-> {}, spent |-> FALSE]

Begins(j, by, ipa, d, id, keep, pc) ==
  /\ job[j].pc = "idle"
  /\ job' = [job EXCEPT ![j] =
       [Idle EXCEPT !.pc = pc, !.by = by, !.ipa = ipa, !.dev = d, !.id = id, !.keep = keep]]
  /\ UNCHANGED <<apps, records, apple, cut, disturbed>>

Stops(j) == job' = [job EXCEPT ![j] = Idle]

InstallInit ==
  /\ apps = {} /\ records = {}
  /\ appIds = {}
  /\ available \in 0..MaxQuota
  /\ job = [j \in Jobs |-> Idle]
  /\ cut = {}
  /\ disturbed = 0

-----------------------------------------------------------------------------
(* install and refresh.                                                    *)

\* The RPC "install" with the editor's choices; the App IDs offered for reuse
\* are those the preview has found unused.
Install(j, ipa, d, keep) ==
  /\ keep \subseteq ExtsOf[ipa]
  /\ \/ Begins(j, "derived", ipa, d, Derived(ipa), keep, "list")
     \/ \E id \in Wishes[ipa] : Begins(j, "chosen", ipa, d, id, keep, "list")
     \/ \E id \in Spares(appIds, {r.id : r \in records} \cup OnDevice(d)) :
          Begins(j, "spare", ipa, d, id, keep, "list")

\* The RPC "refresh" for one app.
Refresh(j, r) == Begins(j, "pinned", r.ipa, r.dev, r.id, r.keep, "list")

\* The device has been reached; list_apps protects what is installed, and a
\* list that cannot be read protects nothing.
ListApps(j) ==
  /\ job[j].pc = "list"
  /\ \E known \in {TRUE} \cup IF "apps unreadable" \in Disturbances THEN {FALSE} ELSE {} :
       job' = [job EXCEPT ![j].pc = "plan",
                          ![j].protected = IF known THEN OnDevice(job[j].dev) ELSE {}]
  /\ UNCHANGED <<apps, records, apple, cut, disturbed>>

\* Does the quota cover an app with this ID?  Apple may leave it open.
Affordable(id, keep, known) ==
  Free /\ known => Cardinality(Demand(id, keep, appIds)) <= available

\* MUTANT: a pinned ID is moved to a spare one, too.
AnyMove(jb) == jb.by # "spare" /\ jb.id \notin appIds

\* Only an app whose identifier nobody has chosen may be moved, and only if
\* it needs an App ID of its own.
MayMove(jb) == jb.by = "derived" /\ jb.id \notin appIds

\* app_id_overview and make_plan.
MakePlan(j) ==
  LET jb == job[j]
      planned(id) == job' = [job EXCEPT ![j].pc = "main", ![j].id = id,
                                        ![j].existing = appIds]
  IN  /\ jb.pc = "plan"
      /\ \E known \in {TRUE} \cup IF "quota unknown" \in Disturbances THEN {FALSE} ELSE {} :
           LET better == {c \in Spares(appIds, jb.protected) :
                            MayMove(jb) /\ Affordable(c, jb.keep, known)}
           IN  CASE jb.by = "spare" /\ jb.id \notin appIds -> Stops(j)
                 [] Affordable(jb.id, jb.keep, known) -> planned(jb.id)
                 [] better # {} -> \E c \in better : planned(c)
                 [] OTHER -> Stops(j)
      /\ UNCHANGED <<apps, records, apple, cut, disturbed>>

\* What Apple says to a new App ID.
Exhausted == Free /\ available = 0
Unavailable(id) == id \in appIds \cup Taken
Accepted(id) == ~Unavailable(id) /\ ~Exhausted

Add(id) ==
  /\ appIds' = appIds \cup {id}
  /\ available' = IF Free THEN available - 1 ELSE available

\* ensure_app_id: the IDs that may come out for the wanted one.
Obtainable(jb, id, reuse) ==
  IF id \in jb.existing THEN {id}
  ELSE IF Accepted(id) THEN {id}
  ELSE (IF Unavailable(id) /\ Accepted(Varied(id)) THEN {Varied(id)} ELSE {})
       \cup (IF Exhausted /\ reuse THEN Spares(jb.existing, jb.protected) ELSE {})

\* The App ID and its profile, which Apple has only for IDs that exist.
Obtain(j, got, then) ==
  /\ IF got \in job[j].existing THEN UNCHANGED apple ELSE Add(got)
  /\ IF got \in appIds'
     THEN job' = [job EXCEPT ![j] = [then EXCEPT !.spent = @ \/ appIds' # appIds]]
     ELSE Stops(j)
  /\ UNCHANGED <<apps, records, cut, disturbed>>

\* Which of its two reasons Apple names first is not known.
Refused(j, id, reuse) ==
  /\ id \notin job[j].existing /\ ~Accepted(id)
  /\ Obtainable(job[j], id, reuse) = {} \/ (Exhausted /\ Unavailable(id))
  /\ Stops(j)
  /\ UNCHANGED <<apps, records, apple, cut, disturbed>>

\* Only an ID nobody has asked for may be given up for a spare one.
MayReuse(jb) == jb.by = "derived"

EnsureMain(j) ==
  LET jb == job[j]
  IN  /\ jb.pc = "main"
      /\ \/ \E got \in Obtainable(jb, jb.id, MayReuse(jb)) :
              Obtain(j, got, [jb EXCEPT !.pc = "exts", !.id = got, !.todo = jb.keep])
         \/ Refused(j, jb.id, MayReuse(jb))

\* One after the other, every kept extension.
EnsureExtension(j) ==
  LET jb == job[j]
  IN  /\ jb.pc = "exts"
      /\ \E e \in jb.todo :
           LET id == ExtId(jb.id, e)
           IN  \/ \E got \in Obtainable(jb, id, FALSE) :
                    Obtain(j, got, [jb EXCEPT !.todo = @ \ {e}])
               \/ Refused(j, id, FALSE)

\* What is left to do is to write the record; the rest is forgotten.
Remembers(j) ==
  job' = [job EXCEPT ![j] = [Idle EXCEPT !.pc = "read", !.ipa = job[j].ipa, !.dev = job[j].dev,
                                         !.id = job[j].id, !.keep = job[j].keep]]

\* Signed and installed.
InstallOnDevice(j) ==
  /\ job[j].pc = "exts" /\ job[j].todo = {}
  /\ apps' = Placed(job[j].dev, job[j].id, job[j].ipa)
  /\ Remembers(j)
  /\ UNCHANGED <<records, apple, cut, disturbed>>

\* The RPC "uninstall", on the device that is selected.
Uninstall(j, d, id) == Begins(j, "pinned", None, d, id, {}, "remove")

RemoveFromDevice(j) ==
  /\ job[j].pc = "remove"
  /\ apps' = Removed(job[j].dev, job[j].id)
  /\ Remembers(j)
  /\ UNCHANGED <<records, apple, cut, disturbed>>

\* store.record and store.forget read the whole file ...
ReadRecords(j) ==
  /\ job[j].pc = "read"
  /\ job' = [job EXCEPT ![j].pc = "write", ![j].file = records]
  /\ UNCHANGED <<apps, records, apple, cut, disturbed>>

\* MUTANT: under the ID the IPA would get, not the one it has got.
EntryOfIpa(jb) == [id |-> Derived(jb.ipa), ipa |-> jb.ipa, dev |-> jb.dev, keep |-> jb.keep]

Entry(jb) == [id |-> jb.id, ipa |-> jb.ipa, dev |-> jb.dev, keep |-> jb.keep]

\* ... and write it back.
WriteRecords(j) ==
  /\ job[j].pc = "write"
  /\ records' = IF job[j].ipa = None THEN Forgotten(job[j].file, job[j].id)
                ELSE Recorded(job[j].file, Entry(job[j]))
  /\ Stops(j)
  /\ cut' = cut \ {job[j].id}
  /\ UNCHANGED <<apps, apple, disturbed>>

-----------------------------------------------------------------------------
(* What may happen in between.                                             *)

\* A call to Apple or the device fails, or the job is cancelled there.
CallFails(j) ==
  /\ "call fails" \in Disturbances
  /\ job[j].pc \in {"list", "plan", "main", "exts", "remove"}
  /\ Stops(j)
  /\ UNCHANGED <<apps, records, apple, cut, disturbed>>

Disturbs(kind) ==
  /\ kind \in Disturbances
  /\ disturbed < MaxDisturbed
  /\ disturbed' = disturbed + 1

\* The backend process is killed.
Killed ==
  /\ Disturbs("killed")
  /\ \E j \in Jobs : job[j].pc # "idle"
  /\ cut' = cut \cup {job[j].id : j \in {k \in Jobs : job[k].pc \in {"read", "write"}}}
  /\ job' = [j \in Jobs |-> Idle]
  /\ UNCHANGED <<apps, records, apple>>

\* The device installs, but its answer does not come in time.
AnswerLost(j) ==
  /\ Disturbs("answer lost")
  /\ job[j].pc = "exts" /\ job[j].todo = {}
  /\ apps' = Placed(job[j].dev, job[j].id, job[j].ipa)
  /\ cut' = cut \cup {job[j].id}
  /\ Stops(j)
  /\ UNCHANGED <<records, apple>>

\* The user removes an app on the device itself.
AppRemoved(x) ==
  /\ Disturbs("app removed")
  /\ apps' = apps \ {x}
  /\ UNCHANGED <<records, apple, job, cut>>

\* The RPC "appids.delete", or another tool; gives no quota back.
AppIdDeleted(id) ==
  /\ Disturbs("App ID deleted")
  /\ appIds' = appIds \ {id}
  /\ UNCHANGED <<apps, records, available, job, cut>>

\* A creation of a week ago no longer counts.
WindowMovesOn ==
  /\ Disturbs("window moves on")
  /\ Free /\ available < MaxQuota
  /\ available' = available + 1
  /\ UNCHANGED <<apps, records, appIds, job, cut>>

-----------------------------------------------------------------------------
JobStep(j) ==
  \/ ListApps(j) \/ MakePlan(j) \/ EnsureMain(j) \/ EnsureExtension(j)
  \/ InstallOnDevice(j) \/ RemoveFromDevice(j) \/ ReadRecords(j) \/ WriteRecords(j)

InstallRequest(j) ==
  \/ \E ipa \in Ipas, d \in Devices : \E keep \in SUBSET ExtsOf[ipa] : Install(j, ipa, d, keep)
  \/ \E r \in records : Refresh(j, r)
  \/ \E d \in Devices : \E id \in {r.id : r \in records} \cup OnDevice(d) : Uninstall(j, d, id)

InstallNext ==
  \/ \E j \in Jobs : InstallRequest(j) \/ JobStep(j) \/ CallFails(j) \/ AnswerLost(j)
  \/ Killed
  \/ \E x \in apps : AppRemoved(x)
  \/ \E id \in appIds : AppIdDeleted(id)
  \/ WindowMovesOn

InstallSpec == InstallInit /\ [][InstallNext]_installVars
-----------------------------------------------------------------------------
(* Properties.                                                             *)

App == [dev : Devices, id : Id, ipa : Ipas]
Record == [id : Id, ipa : Ipas, dev : Devices, keep : SUBSET Exts]

InstallTypeOK ==
  /\ \A x \in apps : x \in App
  /\ \A r \in records : r \in Record
  /\ \A r, s \in records : r.id = s.id => r = s
  /\ \A i \in appIds \cup cut : i \in Id
  /\ available \in 0..MaxQuota /\ disturbed \in 0..MaxDisturbed
  /\ \A j \in Jobs :
       /\ job[j].pc \in InstallPcs /\ job[j].by \in Origins /\ job[j].spent \in BOOLEAN
       /\ job[j].id \in Id /\ job[j].keep \subseteq Exts /\ job[j].todo \subseteq job[j].keep

\* "Planned first, so a quota that does not suffice stops us before anything is
\* created": once a job has created an App ID, the quota covers all it still
\* needs, although the plan was made several calls earlier and extensions
\* follow the ID that the app has really got.
QuotaStopsFirst ==
  Free => \A j \in Jobs :
    job[j].pc = "exts" /\ job[j].spent =>
      Cardinality({ExtId(job[j].id, e) : e \in job[j].todo} \ job[j].existing) <= available

\* "App IDs of installed apps and their extensions are left untouched": an
\* App ID given to an app because the quota was exhausted is nobody else's on
\* this device, up to the moment of the installation.
ReusedIsFree ==
  \A j \in Jobs :
    job[j].pc = "exts" /\ job[j].by = "derived" /\ job[j].id # Derived(job[j].ipa) =>
      \A id \in OnDevice(job[j].dev) : job[j].id \in job[j].existing => ~IsPrefix(id, job[j].id)

\* A renewal hits exactly the app that is installed, whatever has become of
\* its App ID: another identifier would be a second app next to it.
RenewalInPlace ==
  \A j \in Jobs :
    job[j].pc = "exts" /\ job[j].by = "pinned" =>
      \E r \in records : r.id = job[j].id /\ r.dev = job[j].dev /\ r.ipa = job[j].ipa

\* What ModStaller has installed is remembered, or it would never be renewed:
\* under the ID it really has, with the IPA it came from.
InstalledIsRecorded ==
  \A x \in apps :
    \/ \E r \in records : r.id = x.id /\ r.dev = x.dev /\ r.ipa = x.ipa
    \/ \E j \in Jobs : job[j].pc \in {"read", "write"} /\ job[j].id = x.id
    \/ x.id \in cut

\* The same promise for the device as a whole: unless the user has chosen the
\* identifier, an installation never replaces a different app.
NoAppReplaced ==
  \A j \in Jobs :
    job[j].pc = "exts" /\ job[j].by = "derived" =>
      \A x \in apps : x.dev = job[j].dev /\ x.id = job[j].id => x.ipa = job[j].ipa

=============================================================================
