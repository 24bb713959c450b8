------------------------------- MODULE Library -------------------------------
(***************************************************************************)
(* The app store (modstaller/store/sources.py, catalog.py, download.py,    *)
(* cache.py, updates.py; the store handlers of server.py).                 *)
(*                                                                         *)
(* The list of sources is a file the main loop writes and loading threads  *)
(* read; the catalog is rebuilt by threads from the sources that were      *)
(* enabled when they began.  An IPA comes into the cache under its name    *)
(* with .part and is renamed when it has been checked; what no installed   *)
(* app needs can be cleared away.                                          *)
(***************************************************************************)
EXTENDS Naturals, FiniteSets

CONSTANTS
  Shipped,      \* DEFAULT_SOURCES at first
  Added,        \* defaults a later release brings along
  Others,       \* sources only the user knows
  IPAs,         \* versions of apps in the store
  Loaders,      \* threads that load the catalog
  StoreJobs,    \* jobs that download or install
  Chunks,       \* chunks of a download: 1 .. Chunks
  MaxEdits      \* bound: changes of the list by the user

ASSUME LibraryAssumption ==
  /\ Chunks \in Nat \ {0} /\ MaxEdits \in Nat
  /\ Shipped \cap Added = {} /\ (Shipped \cup Added) \cap Others = {}

VARIABLES
  file,      \* sources.json
  defaults,  \* DEFAULT_SOURCES of the running release
  catalog,   \* Catalog._sources
  loader,    \* a load under way: what it will fetch and what was enabled
  edits,     \* changes so far
  unwanted,  \* history: sources the user removed and did not add again
  crowded    \* history: two loads overlapped

sourceVars == <<file, defaults, catalog, loader, edits, unwanted, crowded>>

VARIABLES
  ipa,       \* IPA cache: version -> chunks under its final name, {} if none
  partial,   \* version -> chunks in its .part, or none
  installed, \* versions an install record points to
  fetching,  \* downloads and installations
  clearing,  \* cache.clear under way: the versions it found to be needed
  shared     \* history: two downloads of one version, or a clear during one

cacheVars == <<ipa, partial, installed, fetching, clearing, shared>>
libraryVars == <<sourceVars, cacheVars>>

Sources == Shipped \cup Added \cup Others
AllChunks == 1 .. Chunks
List == [here : BOOLEAN, on : SUBSET Sources, off : SUBSET Sources, seen : SUBSET Sources]

LibraryTypeOK ==
  /\ file \in List
  /\ defaults \in {Shipped, Shipped \cup Added}
  /\ catalog \subseteq Sources /\ unwanted \subseteq Sources
  /\ loader \in [Loaders -> [busy : BOOLEAN, only : BOOLEAN, wanted : SUBSET Sources, enabled : SUBSET Sources]]
  /\ edits \in 0 .. MaxEdits /\ {crowded, shared} \subseteq BOOLEAN
  /\ ipa \in [IPAs -> SUBSET AllChunks]
  /\ partial \in [IPAs -> [here : BOOLEAN, chunks : SUBSET AllChunks]]
  /\ installed \subseteq IPAs
  /\ fetching \in [StoreJobs -> [pc : {"idle", "receiving", "checked", "installing"},
                               v : IPAs \cup {"none"}, done : 0 .. Chunks]]
  /\ clearing \in [busy : BOOLEAN, needed : SUBSET IPAs]

Resting == [busy |-> FALSE, only |-> FALSE, wanted |-> {}, enabled |-> {}]
NoPart == [here |-> FALSE, chunks |-> {}]
NoJob == [pc |-> "idle", v |-> "none", done |-> 0]

LibraryInit ==
  /\ file = [here |-> FALSE, on |-> {}, off |-> {}, seen |-> {}]
  /\ defaults = Shipped /\ catalog = {} /\ loader = [l \in Loaders |-> Resting]
  /\ edits = 0 /\ unwanted = {} /\ crowded = FALSE
  /\ ipa = [v \in IPAs |-> {}] /\ partial = [v \in IPAs |-> NoPart] /\ installed = {}
  /\ fetching = [j \in StoreJobs |-> NoJob] /\ clearing = [busy |-> FALSE, needed |-> {}] /\ shared = FALSE

-----------------------------------------------------------------------------
(* The list of sources.                                                    *)

Listed(f) == f.on \cup f.off

\* MUTANT: only what is in the list counts as seen.
SeenListed(f, entries) == entries

\* _save: what counts as seen - what is listed and was seen before, and the
\* defaults if this is the first file.
SeenBy(f, entries) == f.seen \cup entries \cup (IF f.here THEN {} ELSE defaults)

Saved(f, on, off) == [here |-> TRUE, on |-> on, off |-> off, seen |-> SeenBy(f, on \cup off)]

\* configured: the defaults without a file; new defaults join what is there
\* and are saved.
Configured ==
  IF ~file.here THEN [file EXCEPT !.on = defaults]
  ELSE IF defaults \subseteq file.seen THEN file
  ELSE Saved(file, file.on \cup (defaults \ file.seen), file.off)

\* What configured leaves in the file.
Rewritten == IF file.here THEN Configured ELSE file

Loading == {l \in Loaders : loader[l].busy}

\* Catalog.load: what is enabled is read, then fetched side by side.
LoadBegins(l, f, only) ==
  /\ ~loader[l].busy
  /\ loader' = [loader EXCEPT ![l] = [busy |-> TRUE, only |-> only # {}, enabled |-> f.on,
                                      wanted |-> IF only = {} THEN f.on ELSE only]]
  /\ crowded' = (crowded \/ Loading # {})

\* add
WithSource(c, u) == Saved(Rewritten, c.on \cup {u}, c.off)

\* remove
WithoutSource(c, u) == Saved(Rewritten, c.on \ {u}, c.off \ {u})

\* set_enabled
Toggled(c, u) ==
  IF u \in c.on THEN Saved(Rewritten, c.on \ {u}, c.off \cup {u})
  ELSE Saved(Rewritten, c.on \cup {u}, c.off \ {u})

\* store.sources.add: the source has been fetched and goes into the list,
\* then the catalog loads it alone.
AddSource(u, l) ==
  LET c == Configured
      f == IF u \in Listed(c) THEN Rewritten ELSE WithSource(c, u) IN
  /\ edits < MaxEdits /\ edits' = edits + 1
  /\ file' = f /\ unwanted' = unwanted \ {u}
  /\ LoadBegins(l, IF f.here THEN f ELSE c, {u})
  /\ UNCHANGED <<defaults, catalog, cacheVars>>

\* store.sources.remove
RemoveSource(u, l) ==
  LET c == Configured
      f == WithoutSource(c, u) IN
  /\ edits < MaxEdits /\ edits' = edits + 1
  /\ u \in Listed(c)
  /\ file' = f /\ unwanted' = unwanted \cup {u}
  /\ LoadBegins(l, f, {})
  /\ UNCHANGED <<defaults, catalog, cacheVars>>

\* store.sources.toggle
ToggleSource(u, l) ==
  LET c == Configured
      f == Toggled(c, u) IN
  /\ edits < MaxEdits /\ edits' = edits + 1
  /\ u \in Listed(c)
  /\ file' = f
  /\ LoadBegins(l, f, {})
  /\ UNCHANGED <<defaults, catalog, unwanted, cacheVars>>

\* store.refresh, ensure_loaded
RefreshCatalog(l) ==
  /\ file' = Rewritten
  /\ LoadBegins(l, Configured, {})
  /\ UNCHANGED <<defaults, catalog, edits, unwanted, cacheVars>>

\* MUTANT: sources that were switched off or removed stay.
KeptSources(sources, enabled) == sources

\* Catalog.load: sources switched off or removed drop out of the index.
Enabled(sources, enabled) == sources \cap enabled

\* fetch: each source comes from the network or from its copy, or it cannot
\* be had.
Fetches(wanted) == SUBSET wanted

\* Catalog.load, _reindex: whatever could be had replaces the index - or
\* joins it, for one source alone.
LoadEnds(l) ==
  /\ loader[l].busy
  /\ \E fetched \in Fetches(loader[l].wanted) :
       catalog' = Enabled(IF loader[l].only THEN catalog \cup fetched ELSE fetched, loader[l].enabled)
  /\ loader' = [loader EXCEPT ![l] = Resting]
  /\ UNCHANGED <<file, defaults, edits, unwanted, crowded, cacheVars>>

\* The backend starts with a newer release; what was in memory is gone.
Released ==
  /\ defaults' = Shipped \cup Added /\ defaults # defaults'
  /\ catalog' = {} /\ loader' = [l \in Loaders |-> Resting]
  /\ UNCHANGED <<file, edits, unwanted, crowded, cacheVars>>

-----------------------------------------------------------------------------
(* The IPA cache.                                                          *)

Step(j, s) == fetching' = [fetching EXCEPT ![j] = s]
Working(v) == {j \in StoreJobs : fetching[j].pc # "idle" /\ fetching[j].v = v}

\* _complete: the size or the checksum of the source matches.
Complete(v) == ipa[v] = AllChunks

\* download: at hand already, or the .part is opened, emptied if it exists.
Download(j, v) ==
  /\ fetching[j].pc = "idle"
  /\ IF Complete(v)
     THEN Step(j, [pc |-> "checked", v |-> v, done |-> Chunks]) /\ UNCHANGED partial
     ELSE /\ Step(j, [pc |-> "receiving", v |-> v, done |-> 0])
          /\ partial' = [partial EXCEPT ![v] = [here |-> TRUE, chunks |-> {}]]
  /\ shared' = (shared \/ Working(v) # {} \/ clearing.busy)
  /\ UNCHANGED <<ipa, installed, clearing, sourceVars>>

\* A chunk is written behind the last.
WithChunk(part, n) == [part EXCEPT !.chunks = @ \cup {n}]

\* A chunk arrives.
Receive(j) ==
  /\ fetching[j].pc = "receiving" /\ fetching[j].done < Chunks
  /\ Step(j, [fetching[j] EXCEPT !.done = @ + 1])
  /\ partial' = [partial EXCEPT ![fetching[j].v] = WithChunk(@, fetching[j].done + 1)]
  /\ UNCHANGED <<ipa, installed, clearing, shared, sourceVars>>

\* Cancelled, cut off, too big, the wrong sum, not an IPA: the .part goes.
DownloadFails(j) ==
  /\ fetching[j].pc = "receiving"
  /\ Step(j, NoJob)
  /\ partial' = [partial EXCEPT ![fetching[j].v] = NoPart]
  /\ UNCHANGED <<ipa, installed, clearing, shared, sourceVars>>

\* MUTANT: renamed without counting what has arrived.
EndedAnyhow(j) == TRUE

\* The size, the checksum of what arrived, and that it is an IPA.
Verified(j) == fetching[j].done = Chunks

\* All there: renamed.  (The .part may be gone by now: another download of
\* this version renamed or removed it.)
DownloadEnds(j) ==
  LET v == fetching[j].v IN
  /\ fetching[j].pc = "receiving" /\ Verified(j)
  /\ IF partial[v].here
     THEN Step(j, [fetching[j] EXCEPT !.pc = "checked"]) /\ ipa' = [ipa EXCEPT ![v] = partial[v].chunks]
     ELSE Step(j, NoJob) /\ UNCHANGED ipa
  /\ partial' = [partial EXCEPT ![v] = NoPart]
  /\ UNCHANGED <<installed, clearing, shared, sourceVars>>

\* store.download is over; store.install goes on to sign the file, if it is
\* still there.
Installs(j) ==
  /\ fetching[j].pc = "checked"
  /\ \/ ipa[fetching[j].v] # {} /\ Step(j, [fetching[j] EXCEPT !.pc = "installing"])
     \/ Step(j, NoJob)
  /\ UNCHANGED <<ipa, partial, installed, clearing, shared, sourceVars>>

\* The pipeline ends; its record points to the file.
InstallEnds(j) ==
  /\ fetching[j].pc = "installing"
  /\ Step(j, NoJob)
  /\ installed' \in {installed, installed \cup {fetching[j].v}}
  /\ UNCHANGED <<ipa, partial, clearing, shared, sourceVars>>

\* uninstall: the record goes, the file stays.
RecordGone(v) ==
  /\ installed' = installed \ {v} /\ v \in installed
  /\ UNCHANGED <<ipa, partial, fetching, clearing, shared, sourceVars>>

\* cache.clear: what installed apps need is noted first ...
ClearBegins ==
  /\ ~clearing.busy
  /\ clearing' = [busy |-> TRUE, needed |-> installed]
  /\ shared' = (shared \/ \E j \in StoreJobs : fetching[j].pc # "idle")
  /\ UNCHANGED <<ipa, partial, installed, fetching, sourceVars>>

\* The versions that stay.
Needed == clearing.needed

\* ... then everything else is removed, .part files included.
ClearEnds ==
  /\ clearing.busy
  /\ clearing' = [busy |-> FALSE, needed |-> {}]
  /\ ipa' = [v \in IPAs |-> IF v \in Needed THEN ipa[v] ELSE {}]
  /\ partial' = [v \in IPAs |-> NoPart]
  /\ UNCHANGED <<installed, fetching, shared, sourceVars>>

\* The backend dies: what lies on disk stays, a .part too.
StoreDies ==
  /\ \E j \in StoreJobs : fetching[j].pc # "idle"
  /\ fetching' = [j \in StoreJobs |-> NoJob] /\ clearing' = [busy |-> FALSE, needed |-> {}]
  /\ UNCHANGED <<ipa, partial, installed, shared, sourceVars>>

-----------------------------------------------------------------------------

SourcesNext ==
  \E l \in Loaders :
    \/ RefreshCatalog(l) \/ LoadEnds(l)
    \/ \E u \in Sources : AddSource(u, l) \/ RemoveSource(u, l) \/ ToggleSource(u, l)

CacheNext ==
  \/ ClearBegins \/ ClearEnds \/ StoreDies
  \/ \E v \in IPAs : RecordGone(v)
  \/ \E j \in StoreJobs :
       \/ Receive(j) \/ DownloadFails(j) \/ DownloadEnds(j) \/ Installs(j) \/ InstallEnds(j)
       \/ \E v \in IPAs : Download(j, v)

LibrarySpec == LibraryInit /\ [][SourcesNext \/ Released \/ CacheNext]_libraryVars

-----------------------------------------------------------------------------

\* A source the user removed does not come back on its own: not as a default,
\* not with a release that brings new ones, not through a reload.
RemovedStaysRemoved == unwanted \cap Listed(Configured) = {}

\* With no load under way the catalog offers nothing from a source that is
\* removed or switched off - as long as loads do not overlap.
CatalogMatches == ~crowded /\ Loading = {} => catalog \subseteq Configured.on

\* A file under its final name is whole, and what an installed app needs for
\* its renewal is there - after cancelled, broken and killed downloads and
\* any clearing, unless it overlapped with a download or installation.
IpasWhole ==
  ~shared => /\ \A v \in IPAs : ipa[v] \in {{}, AllChunks}
             /\ \A v \in installed : ipa[v] = AllChunks
=============================================================================
