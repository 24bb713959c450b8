--------------------------- MODULE DownloadsProofs ----------------------------
(***************************************************************************)
(* Theorems about what is downloaded.  The store, for any sources,         *)
(* threads, jobs and versions: a removed source stays removed, the catalog *)
(* follows the list, and the IPAs in the cache are whole.  ModStaller      *)
(* itself, for any versions, number of overlapping calls and pieces: what  *)
(* is installed stays one version in full, and a setup is only started     *)
(* from a whole AppImage.                                                  *)
(***************************************************************************)
EXTENDS Library, SelfUpdate, TLAPS

(***************************************************************************)
(* The list of sources.                                                    *)
(***************************************************************************)

\* The file once it exists: what is listed or was removed counts as seen, so
\* that no default among it is taken for new.
FileTrue(f) ==
  /\ DOMAIN f = {"here", "on", "off", "seen"}
  /\ ~f.here => f.off = {} /\ unwanted = {}
  /\ f.here => Listed(f) \cup unwanted \subseteq f.seen /\ Listed(f) \cap unwanted = {}

\* With no load under way the catalog keeps to the list; a lone load under
\* way knows the list as it is.
CatalogTrue ==
  ~crowded => \/ Loading = {} /\ catalog \subseteq Configured.on
              \/ \E l \in Loaders : Loading = {l} /\ loader[l].enabled = Configured.on

SourcesInv ==
  /\ FileTrue(file)
  /\ loader = [l \in Loaders |-> loader[l]]
  /\ CatalogTrue

\* Nothing new among the defaults: configured has nothing to add.
Settled(f) == f.here /\ defaults \subseteq f.seen

LEMMA ConfiguredTrue ==
  ASSUME FileTrue(file)
  PROVE  /\ FileTrue(Rewritten)
         /\ Rewritten.here => Settled(Rewritten) /\ Configured = Rewritten
         /\ ~Rewritten.here => ~file.here /\ Rewritten = file
         /\ Listed(Configured) \cap unwanted = {}
<1>1. CASE ~file.here
  BY <1>1 DEF FileTrue, Rewritten, Configured, Settled, Listed
<1>2. CASE file.here /\ defaults \subseteq file.seen
  BY <1>2 DEF FileTrue, Rewritten, Configured, Settled, Listed
<1>3. CASE file.here /\ ~(defaults \subseteq file.seen)
  BY <1>3 DEF FileTrue, Rewritten, Configured, Settled, Listed, Saved, SeenBy
<1> QED BY <1>1, <1>2, <1>3

\* Whatever is saved has the defaults among what was seen.
LEMMA SavedTrue ==
  ASSUME FileTrue(file), NEW on, NEW off
  PROVE  LET f == Saved(Rewritten, on, off) IN
         /\ DOMAIN f = {"here", "on", "off", "seen"} /\ Settled(f) /\ f.on = on /\ f.off = off
         /\ Listed(f) \subseteq f.seen
         /\ Rewritten.here => Rewritten.seen \subseteq f.seen
<1>1. Rewritten.here => defaults \subseteq Rewritten.seen
  BY ConfiguredTrue DEF Settled
<1> QED BY <1>1 DEF Saved, SeenBy, Settled, Listed

\* The list as the next step finds it: settled, so read as it stands.
LEMMA ReadAsSaved ==
  ASSUME NEW f, Settled(f), file' = f, defaults' = defaults
  PROVE  Configured' = f
BY DEF Settled, Configured

\* A load that begins knows the list as it is now.
LEMMA LoadStep ==
  ASSUME SourcesInv, NEW l \in Loaders, NEW f, NEW only, LoadBegins(l, f, only),
         FileTrue(file)', f.on = Configured'.on
  PROVE  SourcesInv'
<1> DEFINE s == [busy |-> TRUE, only |-> only # {}, enabled |-> f.on,
                 wanted |-> IF only = {} THEN f.on ELSE only]
<1>1. loader' = [x \in Loaders |-> IF x = l THEN s ELSE loader[x]]
  BY DEF LoadBegins, SourcesInv
<1>2. s.busy /\ s.enabled = f.on
  OBVIOUS
<1> HIDE DEF s
<1>3. Loading' = Loading \cup {l}
  BY <1>1, <1>2 DEF Loading
<1>4. loader'[l].enabled = Configured'.on
  BY <1>1, <1>2
<1>5. ~crowded' => Loading' = {l}
  BY <1>3 DEF LoadBegins
<1>6. CatalogTrue'
  BY <1>4, <1>5 DEF CatalogTrue
<1> QED BY <1>1, <1>6 DEF SourcesInv

LEMMA AddStep ==
  ASSUME SourcesInv, NEW l \in Loaders, NEW u \in Sources, AddSource(u, l)
  PROVE  SourcesInv'
<1> DEFINE c == Configured
<1> DEFINE f == IF u \in Listed(c) THEN Rewritten ELSE WithSource(c, u)
<1>1. /\ file' = f /\ unwanted' = unwanted \ {u} /\ defaults' = defaults
      /\ LoadBegins(l, IF f.here THEN f ELSE c, {u})
  BY DEF AddSource
<1>2. FileTrue(file)
  BY DEF SourcesInv
<1>3. CASE u \in Listed(c)
  <2>1. f = Rewritten
    BY <1>3
  <2>2. FileTrue(file)'
    BY <1>1, <1>2, <2>1, ConfiguredTrue DEF FileTrue
  <2>3. CASE Rewritten.here
    <3>1. Configured' = f /\ f.here
      BY <1>1, <1>2, <2>1, <2>3, ConfiguredTrue, ReadAsSaved DEF Settled
    <3> HIDE DEF f
    <3> QED BY <1>1, <2>2, <3>1, LoadStep
  <2>4. CASE ~Rewritten.here
    <3>1. file' = file /\ Configured' = c
      BY <1>1, <1>2, <2>1, <2>4, ConfiguredTrue DEF Configured
    <3>2. LoadBegins(l, c, {u})
      BY <1>1, <2>1, <2>4
    <3> HIDE DEF f, c
    <3> QED BY <2>2, <3>1, <3>2, LoadStep
  <2> QED BY <2>3, <2>4
<1>4. CASE u \notin Listed(c)
  <2>1. f = Saved(Rewritten, c.on \cup {u}, c.off)
    BY <1>4 DEF WithSource
  <2>2. Settled(f) /\ DOMAIN f = {"here", "on", "off", "seen"}
    BY <1>2, <2>1, SavedTrue
  <2>3. Configured' = f /\ f.here
    BY <1>1, <2>2, ReadAsSaved DEF Settled
  <2>4. Listed(f) \subseteq f.seen /\ Listed(f) = Listed(c) \cup {u}
        /\ (Rewritten.here => Rewritten.seen \subseteq f.seen)
    BY <1>2, <2>1, SavedTrue DEF Listed
  <2>5. FileTrue(file)'
    <3>1. Listed(c) \cap unwanted = {} /\ unwanted \subseteq f.seen
      BY <1>2, <2>4, ConfiguredTrue DEF FileTrue
    <3> HIDE DEF f, c
    <3> QED BY <1>1, <2>2, <2>3, <2>4, <3>1 DEF FileTrue, Listed
  <2> HIDE DEF f
  <2> QED BY <1>1, <2>3, <2>5, LoadStep
<1> QED BY <1>3, <1>4

LEMMA RemoveStep ==
  ASSUME SourcesInv, NEW l \in Loaders, NEW u \in Sources, RemoveSource(u, l)
  PROVE  SourcesInv'
<1> DEFINE c == Configured
<1> DEFINE f == WithoutSource(c, u)
<1>1. /\ file' = f /\ unwanted' = unwanted \cup {u} /\ defaults' = defaults
      /\ u \in Listed(c) /\ LoadBegins(l, f, {})
  BY DEF RemoveSource
<1>2. FileTrue(file)
  BY DEF SourcesInv
<1>3. f = Saved(Rewritten, c.on \ {u}, c.off \ {u})
  BY DEF WithoutSource
<1>4. Settled(f) /\ DOMAIN f = {"here", "on", "off", "seen"} /\ Listed(f) \subseteq f.seen
      /\ Listed(f) = Listed(c) \ {u}
      /\ (Rewritten.here => Rewritten.seen \subseteq f.seen)
  BY <1>2, <1>3, SavedTrue DEF Listed
<1>5. Configured' = f
  BY <1>1, <1>4, ReadAsSaved
<1>6. u \in f.seen
  <2>1. CASE Rewritten.here
    BY <1>1, <1>2, <1>4, <2>1, ConfiguredTrue DEF FileTrue
  <2>2. CASE ~Rewritten.here
    BY <1>1, <1>2, <1>4, <2>2, ConfiguredTrue DEF FileTrue, Configured, Settled, Listed
  <2> QED BY <2>1, <2>2
<1>7. FileTrue(file)'
  <2>1. Listed(c) \cap unwanted = {} /\ unwanted \subseteq f.seen
    BY <1>2, <1>4, ConfiguredTrue DEF FileTrue
  <2> HIDE DEF f, c
  <2> QED BY <1>1, <1>4, <1>6, <2>1 DEF FileTrue, Settled, Listed
<1> HIDE DEF f
<1> QED BY <1>1, <1>5, <1>7, LoadStep

LEMMA ToggleStep ==
  ASSUME SourcesInv, NEW l \in Loaders, NEW u \in Sources, ToggleSource(u, l)
  PROVE  SourcesInv'
<1> DEFINE c == Configured
<1> DEFINE f == Toggled(c, u)
<1>1. /\ file' = f /\ unwanted' = unwanted /\ defaults' = defaults
      /\ u \in Listed(c) /\ LoadBegins(l, f, {})
  BY DEF ToggleSource
<1>2. FileTrue(file)
  BY DEF SourcesInv
<1>3. PICK on, off : f = Saved(Rewritten, on, off) /\ on \cup off = Listed(c)
  BY <1>1 DEF Toggled, Listed
<1>4. Settled(f) /\ DOMAIN f = {"here", "on", "off", "seen"} /\ Listed(f) \subseteq f.seen
      /\ Listed(f) = Listed(c)
      /\ (Rewritten.here => Rewritten.seen \subseteq f.seen)
  BY <1>2, <1>3, SavedTrue DEF Listed
<1>5. Configured' = f
  BY <1>1, <1>4, ReadAsSaved
<1>6. FileTrue(file)'
  <2>1. Listed(c) \cap unwanted = {} /\ unwanted \subseteq f.seen
    BY <1>2, <1>4, ConfiguredTrue DEF FileTrue
  <2> HIDE DEF f, c
  <2> QED BY <1>1, <1>4, <2>1 DEF FileTrue, Settled, Listed
<1> HIDE DEF f
<1> QED BY <1>1, <1>5, <1>6, LoadStep

LEMMA RefreshStep ==
  ASSUME SourcesInv, NEW l \in Loaders, RefreshCatalog(l)
  PROVE  SourcesInv'
<1>1. file' = Rewritten /\ UNCHANGED <<unwanted, defaults>> /\ LoadBegins(l, Configured, {})
  BY DEF RefreshCatalog
<1>2. FileTrue(file)
  BY DEF SourcesInv
<1>3. FileTrue(file)'
  BY <1>1, <1>2, ConfiguredTrue DEF FileTrue
<1>4. Configured' = Configured
  <2>1. CASE Rewritten.here
    BY <1>1, <1>2, <2>1, ConfiguredTrue, ReadAsSaved
  <2>2. CASE ~Rewritten.here
    BY <1>1, <1>2, <2>2, ConfiguredTrue DEF Configured
  <2> QED BY <2>1, <2>2
<1> QED BY <1>1, <1>3, <1>4, LoadStep

LEMMA LoadEndsStep ==
  ASSUME SourcesInv, NEW l \in Loaders, LoadEnds(l)
  PROVE  SourcesInv'
<1>1. /\ UNCHANGED <<file, defaults, unwanted, crowded>> /\ loader[l].busy
      /\ loader' = [loader EXCEPT ![l] = Resting]
  BY DEF LoadEnds
<1>2. FileTrue(file)'
  BY <1>1 DEF SourcesInv, FileTrue
<1>3. Configured' = Configured
  BY <1>1 DEF Configured, Saved, SeenBy
<1>4. loader' = [x \in Loaders |-> IF x = l THEN Resting ELSE loader[x]]
  BY <1>1 DEF SourcesInv
<1>5. Loading' = Loading \ {l} /\ l \in Loading
  BY <1>1, <1>4 DEF Loading, Resting
<1>6. catalog' \subseteq loader[l].enabled
  BY DEF LoadEnds, Enabled
<1>7. CatalogTrue'
  <2> SUFFICES ASSUME ~crowded PROVE Loading' = {} /\ catalog' \subseteq Configured'.on
    BY <1>1 DEF CatalogTrue
  <2>1. Loading = {l} /\ loader[l].enabled = Configured.on
    BY <1>5 DEF SourcesInv, CatalogTrue
  <2> QED BY <1>3, <1>5, <1>6, <2>1
<1> QED BY <1>2, <1>4, <1>7 DEF SourcesInv

LEMMA ReleasedStep == ASSUME SourcesInv, Released PROVE SourcesInv'
<1>1. FileTrue(file)'
  BY DEF SourcesInv, FileTrue, Released
<1>2. loader' = [l \in Loaders |-> loader'[l]] /\ Loading' = {} /\ catalog' = {}
  BY DEF Released, Loading, Resting
<1> QED BY <1>1, <1>2 DEF SourcesInv, CatalogTrue

LEMMA SourcesStep == SourcesInv /\ [SourcesNext \/ Released \/ CacheNext]_libraryVars => SourcesInv'
<1> SUFFICES ASSUME SourcesInv, [SourcesNext \/ Released \/ CacheNext]_libraryVars PROVE SourcesInv'
  OBVIOUS
<1>1. CASE SourcesNext
  BY <1>1, AddStep, RemoveStep, ToggleStep, RefreshStep, LoadEndsStep DEF SourcesNext
<1>2. CASE Released
  BY <1>2, ReleasedStep
<1>3. CASE CacheNext \/ UNCHANGED libraryVars
  <2>1. UNCHANGED sourceVars
    BY <1>3, Zenon DEF CacheNext, libraryVars, ClearBegins, ClearEnds, StoreDies, RecordGone, Receive,
                DownloadFails, DownloadEnds, Installs, InstallEnds, Download
  <2>2. UNCHANGED <<file, defaults, catalog, loader, unwanted, crowded>>
    BY <2>1 DEF sourceVars
  <2> QED BY <2>2 DEF SourcesInv, FileTrue, CatalogTrue, Loading, Configured, Saved, SeenBy
<1> QED BY <1>1, <1>2, <1>3

LEMMA SourcesFirst == LibraryInit => SourcesInv
<1> SUFFICES ASSUME LibraryInit PROVE SourcesInv
  OBVIOUS
<1>1. FileTrue(file)
  BY DEF LibraryInit, FileTrue
<1>2. loader = [l \in Loaders |-> Resting] /\ Loading = {} /\ catalog = {}
  BY DEF LibraryInit, Loading, Resting
<1> QED BY <1>1, <1>2 DEF SourcesInv, CatalogTrue

\* A removed source is not listed again by any reload, edit or later release.
THEOREM RemovedSourcesStay == LibrarySpec => []RemovedStaysRemoved
<1>1. SourcesInv => RemovedStaysRemoved
  BY ConfiguredTrue DEF SourcesInv, RemovedStaysRemoved
<1> QED BY <1>1, SourcesFirst, SourcesStep, PTL DEF LibrarySpec

\* Unless loads overlap, the catalog offers only what is listed and on.
THEOREM CatalogFollows == LibrarySpec => []CatalogMatches
<1>1. SourcesInv => CatalogMatches
  BY DEF SourcesInv, CatalogTrue, CatalogMatches
<1> QED BY <1>1, SourcesFirst, SourcesStep, PTL DEF LibrarySpec

(***************************************************************************)
(* The IPA cache.                                                          *)
(***************************************************************************)

\* What a download has received so far.
Obtained(s) == 1 .. s.done

JobTrue(s) ==
  /\ DOMAIN s = {"pc", "v", "done"}
  /\ s.pc # "idle" => s.v \in IPAs /\ s.done \in 0 .. Chunks

Shapes ==
  /\ fetching = [j \in StoreJobs |-> fetching[j]] /\ \A j \in StoreJobs : JobTrue(fetching[j])
  /\ ipa = [v \in IPAs |-> ipa[v]]
  /\ partial = [v \in IPAs |-> partial[v]] /\ \A v \in IPAs : DOMAIN partial[v] = {"here", "chunks"}

NoneUnderWay(s) == s.pc = "idle"

\* A clear that met nobody knows all that is needed; each job has its version
\* for itself; its .part holds what it has received; and what it installs is
\* whole.
Undisturbed ==
  /\ clearing.busy => installed \subseteq clearing.needed /\ \A j \in StoreJobs : NoneUnderWay(fetching[j])
  /\ \A j, k \in StoreJobs :
       ~NoneUnderWay(fetching[j]) /\ ~NoneUnderWay(fetching[k]) /\ fetching[j].v = fetching[k].v => j = k
  /\ \A j \in StoreJobs : fetching[j].pc = "receiving"
                            => partial[fetching[j].v].chunks = Obtained(fetching[j])
  /\ \A j \in StoreJobs : fetching[j].pc = "installing" => ipa[fetching[j].v] = AllChunks
  /\ \A v \in IPAs : ipa[v] \in {{}, AllChunks}
  /\ \A v \in installed \cap IPAs : ipa[v] = AllChunks

CacheInv == Shapes /\ installed \subseteq IPAs /\ (~shared => Undisturbed)

LEMMA DownloadStep ==
  ASSUME CacheInv, NEW j \in StoreJobs, NEW v \in IPAs, Download(j, v)
  PROVE  CacheInv'
<1> USE LibraryAssumption DEF CacheInv, Shapes, JobTrue, NoneUnderWay
<1>1. PICK s : /\ fetching' = [k \in StoreJobs |-> IF k = j THEN s ELSE fetching[k]]
               /\ JobTrue(s) /\ s.pc \in {"checked", "receiving"} /\ s.v = v
               /\ s.pc = "receiving" => s.done = 0 /\ partial'[v].chunks = {}
               /\ partial' = [x \in IPAs |-> partial'[x]] /\ DOMAIN partial'[v] = {"here", "chunks"}
               /\ \A x \in IPAs : x # v => partial'[x] = partial[x]
  <2>1. CASE Complete(v)
    <3> DEFINE s == [pc |-> "checked", v |-> v, done |-> Chunks]
    <3>1. fetching' = [k \in StoreJobs |-> IF k = j THEN s ELSE fetching[k]] /\ partial' = partial
      BY <2>1 DEF Download, Step
    <3>2. JobTrue(s) /\ s.pc = "checked" /\ s.v = v
      OBVIOUS
    <3> HIDE DEF s
    <3> QED BY <3>1, <3>2
  <2>2. CASE ~Complete(v)
    <3> DEFINE s == [pc |-> "receiving", v |-> v, done |-> 0]
    <3> DEFINE new == [here |-> TRUE, chunks |-> {}]
    <3>1. /\ fetching' = [k \in StoreJobs |-> IF k = j THEN s ELSE fetching[k]]
          /\ partial' = [x \in IPAs |-> IF x = v THEN new ELSE partial[x]]
      BY <2>2 DEF Download, Step
    <3>2. JobTrue(s) /\ s.pc = "receiving" /\ s.v = v /\ s.done = 0
      OBVIOUS
    <3>3. DOMAIN new = {"here", "chunks"} /\ new.chunks = {}
      OBVIOUS
    <3> HIDE DEF s, new
    <3>4. /\ partial'[v] = new /\ partial' = [x \in IPAs |-> partial'[x]]
          /\ \A x \in IPAs : x # v => partial'[x] = partial[x]
      BY <3>1
    <3> QED BY <3>1, <3>2, <3>3, <3>4
  <2> QED BY <2>1, <2>2
<1>2. UNCHANGED <<ipa, installed, clearing>>
  BY DEF Download
<1>3. Shapes' /\ (installed \subseteq IPAs)'
  BY <1>1, <1>2
<1>4. ASSUME ~shared' PROVE Undisturbed'
  <2>1. ~shared /\ ~clearing.busy /\ Undisturbed
    BY <1>4 DEF Download
  <2>2. \A k \in StoreJobs : ~NoneUnderWay(fetching[k]) => fetching[k].v # v
    BY <1>4 DEF Download, Working
  <2>3. \A k \in StoreJobs : k # j /\ ~NoneUnderWay(fetching[k])
          => partial'[fetching[k].v] = partial[fetching[k].v]
    BY <1>1, <2>2
  <2>4. s.pc = "receiving" => partial'[v].chunks = Obtained(s)
    <3>1. 1 .. 0 = {}
      OBVIOUS
    <3> QED BY <1>1, <3>1 DEF Obtained
  <2> QED BY <1>1, <1>2, <2>1, <2>2, <2>3, <2>4 DEF Undisturbed, Obtained
<1> QED BY <1>3, <1>4

LEMMA ReceiveStep ==
  ASSUME CacheInv, NEW j \in StoreJobs, Receive(j)
  PROVE  CacheInv'
<1> USE LibraryAssumption DEF CacheInv, Shapes, JobTrue, NoneUnderWay
<1> DEFINE v == fetching[j].v
<1> DEFINE s == [fetching[j] EXCEPT !.done = @ + 1]
<1>1. /\ fetching' = [k \in StoreJobs |-> IF k = j THEN s ELSE fetching[k]]
      /\ DOMAIN s = {"pc", "v", "done"} /\ s.pc = "receiving" /\ s.v = v
      /\ s.done = fetching[j].done + 1 /\ fetching[j].done \in 0 .. Chunks
      /\ s.done \in 0 .. Chunks /\ v \in IPAs /\ fetching[j].pc = "receiving"
  BY DEF Receive, Step
<1> HIDE DEF s
<1>2. UNCHANGED <<ipa, installed, clearing, shared>>
  BY DEF Receive
<1>3. /\ \A x \in IPAs : x # v => partial'[x] = partial[x]
      /\ partial' = [x \in IPAs |-> partial'[x]]
      /\ DOMAIN partial'[v] = {"here", "chunks"}
      /\ partial'[v].chunks = partial[v].chunks \cup {fetching[j].done + 1}
  <2> DEFINE new == WithChunk(partial[v], fetching[j].done + 1)
  <2>1. partial' = [x \in IPAs |-> IF x = v THEN new ELSE partial[x]]
    BY <1>1 DEF Receive
  <2>2. DOMAIN new = {"here", "chunks"} /\ new.chunks = partial[v].chunks \cup {fetching[j].done + 1}
    BY <1>1 DEF WithChunk
  <2> HIDE DEF new
  <2> QED BY <1>1, <2>1, <2>2
<1>4. Shapes' /\ (installed \subseteq IPAs)'
  BY <1>1, <1>2, <1>3
<1>5. ASSUME ~shared PROVE Undisturbed'
  <2>1. Undisturbed
    BY <1>5
  <2>2. partial'[v].chunks = Obtained(s)
    <3>1. partial[v].chunks = 1 .. fetching[j].done
      BY <1>1, <2>1 DEF Undisturbed, Obtained
    <3>2. \A n \in Nat : (1 .. n) \cup {n + 1} = 1 .. (n + 1)
      OBVIOUS
    <3>3. fetching[j].done \in Nat
      BY <1>1
    <3> QED BY <1>1, <1>3, <3>1, <3>2, <3>3 DEF Obtained
  <2>3. \A k \in StoreJobs : k # j /\ fetching[k].pc = "receiving"
          => partial'[fetching[k].v] = partial[fetching[k].v]
    BY <1>1, <1>3, <2>1 DEF Undisturbed
  <2> QED BY <1>1, <1>2, <2>1, <2>2, <2>3 DEF Undisturbed, Obtained
<1> QED BY <1>2, <1>4, <1>5

\* A job that stops, its .part gone or taken over by nobody.
LEMMA StopStep ==
  ASSUME CacheInv, NEW j \in StoreJobs, DownloadFails(j) \/ InstallEnds(j)
  PROVE  CacheInv'
<1> USE LibraryAssumption DEF CacheInv, Shapes, JobTrue, NoneUnderWay
<1> DEFINE v == fetching[j].v
<1>1. /\ fetching' = [k \in StoreJobs |-> IF k = j THEN NoJob ELSE fetching[k]]
      /\ ~NoneUnderWay(fetching[j]) /\ v \in IPAs /\ NoneUnderWay(NoJob) /\ JobTrue(NoJob)
      /\ UNCHANGED <<ipa, clearing, shared>>
  BY DEF DownloadFails, InstallEnds, Step, NoJob
<1>2. /\ \A x \in IPAs : x # v => partial'[x] = partial[x]
      /\ partial' = [x \in IPAs |-> partial'[x]]
      /\ DOMAIN partial'[v] = {"here", "chunks"}
  BY <1>1 DEF DownloadFails, InstallEnds, NoPart
<1>3. /\ installed' \in {installed, installed \cup {v}}
      /\ installed' # installed => fetching[j].pc = "installing"
  BY DEF DownloadFails, InstallEnds
<1>4. Shapes' /\ (installed \subseteq IPAs)'
  BY <1>1, <1>2, <1>3
<1>5. ASSUME ~shared PROVE Undisturbed'
  <2>1. Undisturbed
    BY <1>5
  <2>2. \A k \in StoreJobs : k # j /\ fetching[k].pc = "receiving"
          => partial'[fetching[k].v] = partial[fetching[k].v]
    BY <1>1, <1>2, <2>1 DEF Undisturbed
  <2>3. ~clearing.busy
    BY <1>1, <2>1 DEF Undisturbed
  <2>4. \A x \in installed' \cap IPAs : ipa[x] = AllChunks
    BY <1>3, <2>1 DEF Undisturbed
  <2> QED BY <1>1, <1>3, <2>1, <2>2, <2>3, <2>4 DEF Undisturbed, Obtained
<1> QED BY <1>1, <1>4, <1>5

LEMMA DownloadEndsStep ==
  ASSUME CacheInv, NEW j \in StoreJobs, DownloadEnds(j)
  PROVE  CacheInv'
<1> USE LibraryAssumption DEF CacheInv, Shapes, JobTrue, NoneUnderWay
<1> DEFINE v == fetching[j].v
<1>1. /\ fetching[j].pc = "receiving" /\ v \in IPAs /\ fetching[j].done = Chunks
      /\ UNCHANGED <<installed, clearing, shared>>
  BY DEF DownloadEnds, Verified
<1>2. PICK s : /\ fetching' = [k \in StoreJobs |-> IF k = j THEN s ELSE fetching[k]]
               /\ JobTrue(s) /\ s.pc \in {"checked", "idle"} /\ (s.pc = "checked" => s.v = v)
               /\ ipa' \in {ipa, [ipa EXCEPT ![v] = partial[v].chunks]}
  <2>1. CASE partial[v].here
    <3> DEFINE s == [fetching[j] EXCEPT !.pc = "checked"]
    <3>1. /\ fetching' = [k \in StoreJobs |-> IF k = j THEN s ELSE fetching[k]]
          /\ ipa' = [ipa EXCEPT ![v] = partial[v].chunks]
      BY <2>1 DEF DownloadEnds, Step
    <3>2. JobTrue(s) /\ s.pc = "checked" /\ s.v = v
      BY <1>1
    <3> HIDE DEF s
    <3> QED BY <3>1, <3>2
  <2>2. CASE ~partial[v].here
    <3>1. /\ fetching' = [k \in StoreJobs |-> IF k = j THEN NoJob ELSE fetching[k]]
          /\ ipa' = ipa
      BY <2>2 DEF DownloadEnds, Step
    <3>2. JobTrue(NoJob) /\ NoJob.pc = "idle"
      BY DEF NoJob
    <3> QED BY <3>1, <3>2
  <2> QED BY <2>1, <2>2
<1>3. /\ \A x \in IPAs : x # v => partial'[x] = partial[x]
      /\ partial' = [x \in IPAs |-> partial'[x]]
      /\ DOMAIN partial'[v] = {"here", "chunks"}
  BY <1>1 DEF DownloadEnds, NoPart
<1>4. ipa' = [x \in IPAs |-> ipa'[x]]
  BY <1>2
<1>5. Shapes' /\ (installed \subseteq IPAs)'
  BY <1>1, <1>2, <1>3, <1>4
<1>6. ASSUME ~shared PROVE Undisturbed'
  <2>1. Undisturbed
    BY <1>6
  <2>2. \A k \in StoreJobs : k # j /\ ~NoneUnderWay(fetching[k]) => fetching[k].v # v
    BY <1>1, <2>1 DEF Undisturbed
  <2>3. \A k \in StoreJobs : k # j /\ fetching[k].pc = "receiving"
          => partial'[fetching[k].v] = partial[fetching[k].v]
    BY <1>3, <2>2
  <2>4. partial[v].chunks = AllChunks
    BY <1>1, <2>1 DEF Undisturbed, Obtained, AllChunks
  <2>5. \A x \in IPAs : ipa'[x] = ipa[x] \/ ipa'[x] = AllChunks
    BY <1>2, <2>4
  <2>6. ~clearing.busy
    BY <1>1, <2>1 DEF Undisturbed
  <2>7. \A k \in StoreJobs : fetching'[k].pc # "idle" => fetching[k].pc # "idle" /\ fetching'[k].v = fetching[k].v
    BY <1>1, <1>2
  <2>8. \A k \in StoreJobs : fetching'[k].pc \in {"receiving", "installing"}
          => k # j /\ fetching'[k] = fetching[k]
    BY <1>2
  <2>9. \A x \in IPAs : ipa'[x] \in {{}, AllChunks} /\ (ipa[x] = AllChunks => ipa'[x] = AllChunks)
    BY <2>1, <2>5 DEF Undisturbed
  <2> QED BY <1>1, <2>1, <2>3, <2>6, <2>7, <2>8, <2>9 DEF Undisturbed, Obtained
<1> QED BY <1>1, <1>5, <1>6

LEMMA InstallsStep ==
  ASSUME CacheInv, NEW j \in StoreJobs, Installs(j)
  PROVE  CacheInv'
<1> USE LibraryAssumption DEF CacheInv, Shapes, JobTrue, NoneUnderWay
<1> DEFINE v == fetching[j].v
<1>1. /\ fetching[j].pc = "checked" /\ v \in IPAs
      /\ UNCHANGED <<ipa, partial, installed, clearing, shared>>
  BY DEF Installs
<1>2. PICK s : /\ fetching' = [k \in StoreJobs |-> IF k = j THEN s ELSE fetching[k]]
               /\ JobTrue(s) /\ s.pc \in {"installing", "idle"}
               /\ s.pc = "installing" => s.v = v /\ ipa[v] # {}
  <2> DEFINE n == [fetching[j] EXCEPT !.pc = "installing"]
  <2>1. JobTrue(n) /\ n.pc = "installing" /\ n.v = v
    BY <1>1
  <2>2. JobTrue(NoJob) /\ NoJob.pc = "idle"
    BY DEF NoJob
  <2>3. \/ ipa[v] # {} /\ fetching' = [k \in StoreJobs |-> IF k = j THEN n ELSE fetching[k]]
        \/ fetching' = [k \in StoreJobs |-> IF k = j THEN NoJob ELSE fetching[k]]
    BY DEF Installs, Step
  <2> HIDE DEF n
  <2> QED BY <2>1, <2>2, <2>3
<1>3. Shapes' /\ (installed \subseteq IPAs)'
  BY <1>1, <1>2
<1>4. ASSUME ~shared PROVE Undisturbed'
  <2>1. Undisturbed
    BY <1>4
  <2> QED BY <1>1, <1>2, <2>1 DEF Undisturbed, Obtained
<1> QED BY <1>1, <1>3, <1>4

\* Records that go, a clear, and the death of the backend.
LEMMA WholeStep ==
  ASSUME CacheInv, ClearBegins \/ ClearEnds \/ StoreDies \/ \E v \in IPAs : RecordGone(v)
  PROVE  CacheInv'
<1> USE LibraryAssumption DEF CacheInv, Shapes, JobTrue, NoneUnderWay
<1>1. CASE ClearBegins
  <2>1. UNCHANGED <<ipa, partial, installed, fetching>> /\ clearing'.needed = installed
        /\ (~shared' => ~shared /\ \A j \in StoreJobs : NoneUnderWay(fetching[j]))
    BY <1>1 DEF ClearBegins
  <2>2. ~shared' => Undisturbed'
    BY <2>1 DEF Undisturbed, Obtained
  <2> QED BY <2>1, <2>2
<1>2. CASE ClearEnds
  <2>1. /\ UNCHANGED <<installed, fetching, shared>> /\ ~clearing'.busy /\ clearing.busy
        /\ ipa' = [v \in IPAs |-> IF v \in clearing.needed THEN ipa[v] ELSE {}]
        /\ partial' = [v \in IPAs |-> NoPart]
    BY <1>2 DEF ClearEnds, Needed
  <2>2. Shapes' /\ (installed \subseteq IPAs)'
    BY <2>1 DEF NoPart
  <2>3. ASSUME ~shared PROVE Undisturbed'
    <3>1. Undisturbed /\ \A j \in StoreJobs : NoneUnderWay(fetching[j])
      BY <2>1, <2>3 DEF Undisturbed
    <3> QED BY <2>1, <3>1 DEF Undisturbed
  <2> QED BY <2>1, <2>2, <2>3
<1>3. CASE StoreDies
  <2>1. /\ UNCHANGED <<ipa, partial, installed, shared>> /\ ~clearing'.busy
        /\ fetching' = [j \in StoreJobs |-> NoJob] /\ NoJob.pc = "idle" /\ JobTrue(NoJob)
    BY <1>3 DEF StoreDies, NoJob
  <2>2. Shapes' /\ (installed \subseteq IPAs)'
    BY <2>1
  <2>3. ASSUME ~shared PROVE Undisturbed'
    BY <2>1, <2>3 DEF Undisturbed
  <2> QED BY <2>1, <2>2, <2>3
<1>4. CASE \E v \in IPAs : RecordGone(v)
  <2>1. UNCHANGED <<ipa, partial, fetching, clearing, shared>> /\ installed' \subseteq installed
    BY <1>4 DEF RecordGone
  <2>2. ASSUME ~shared PROVE Undisturbed'
    <3>1. Undisturbed
      BY <2>2
    <3> QED BY <2>1, <3>1 DEF Undisturbed, Obtained
  <2> QED BY <2>1, <2>2
<1> QED BY <1>1, <1>2, <1>3, <1>4

LEMMA CacheStep == CacheInv /\ [SourcesNext \/ Released \/ CacheNext]_libraryVars => CacheInv'
<1> SUFFICES ASSUME CacheInv, [SourcesNext \/ Released \/ CacheNext]_libraryVars PROVE CacheInv'
  OBVIOUS
<1>1. CASE CacheNext
  BY <1>1, DownloadStep, ReceiveStep, StopStep, DownloadEndsStep, InstallsStep, WholeStep DEF CacheNext
<1>2. CASE SourcesNext \/ Released \/ UNCHANGED libraryVars
  <2>1. UNCHANGED cacheVars
    BY <1>2, Zenon DEF SourcesNext, Released, libraryVars, AddSource, RemoveSource, ToggleSource,
                RefreshCatalog, LoadEnds
  <2>2. UNCHANGED <<ipa, partial, installed, fetching, clearing, shared>>
    BY <2>1 DEF cacheVars
  <2> QED BY <2>2 DEF CacheInv, Shapes, JobTrue, Undisturbed, NoneUnderWay, Obtained
<1> QED BY <1>1, <1>2

\* No cancelled, broken or killed download leaves a half IPA under its final
\* name, and no clear takes one an installed app needs - unless two of them
\* worked on the same version, or a clear met a job.
THEOREM IpasStayWhole == LibrarySpec => []IpasWhole
<1>1. LibraryInit => CacheInv
  <2> SUFFICES ASSUME LibraryInit PROVE CacheInv
    OBVIOUS
  <2>1. JobTrue(NoJob) /\ NoJob.pc = "idle" /\ DOMAIN NoPart = {"here", "chunks"}
    BY DEF JobTrue, NoJob, NoPart
  <2> QED BY <2>1 DEF LibraryInit, CacheInv, Shapes, Undisturbed, NoneUnderWay
<1>2. CacheInv => IpasWhole
  BY DEF CacheInv, Undisturbed, IpasWhole
<1> QED BY <1>1, <1>2, CacheStep, PTL DEF LibrarySpec

-------------------------------------------------------------------------------
(* ModStaller itself.                                                      *)

Updaters == [st : {"none", "checking", "available", "downloading", "ready", "error"},
             v : AnyVersion, found : AnyVersion, downloaded : AnyVersion, onQuit : BOOLEAN]
AppImageFetches == [pc : {"idle", "asking", "receiving"}, v : AnyVersion, beta : BOOLEAN,
            got : 0 .. Pieces, at : {"part", "image", "unlinked"}]
Setups == [pc : {"idle", "begun", "copying", "retired", "activated"}, v : AnyVersion,
           launch : BOOLEAN, copied : 0 .. Pieces]

\* What the calls, the download and the directories must be typed for.
Typed ==
  /\ published \subseteq Versions /\ beta \in BOOLEAN /\ running \in AnyVersion
  /\ updater \in Updaters
  /\ fetch \in [Calls -> AppImageFetches]
  /\ part \in [Versions -> Image] /\ image \in [Versions -> Image]
  /\ setup \in Setups
  /\ \A c \in Calls : fetch[c].pc = "receiving" => fetch[c].v \in Versions

\* The directories at each place of the setup: what is copied so far, a full
\* copy once app has been retired, and one version in full otherwise.
TreesInv ==
  /\ setup.pc # "idle" => setup.v \in Versions
  /\ setup.pc = "copying" => staging = {setup.v} \X (1 .. setup.copied)
  /\ setup.pc = "retired" => staging = Tree(setup.v)
  /\ AppStaysWhole

\* While no version has been downloaded by two calls at once, each download
\* has its .part for itself, which holds what it has received, and what was
\* noted as downloaded is whole.
DownloadsInv ==
  ~overlapped =>
    /\ ~half
    /\ \A c \in Calls : fetch[c].pc = "receiving" =>
         /\ fetch[c].at = "part"
         /\ part[fetch[c].v].has = 1 .. fetch[c].got
    /\ \A c, d \in Calls : fetch[c].pc = "receiving" /\ fetch[d].pc = "receiving"
                             /\ fetch[c].v = fetch[d].v => c = d
    /\ updater.downloaded # NoVersion => image[updater.downloaded].has = Whole

LEMMA Bottoms ==
  /\ 0 \in 0 .. Pieces /\ NoVersion \in AnyVersion /\ Versions \subseteq AnyVersion
  /\ Oldest \in Versions /\ NoVersion \notin Versions
BY SelfUpdateAssumption DEF AnyVersion

LEMMA NoFetchTyped == NoFetch \in AppImageFetches /\ NoFetch.pc # "receiving"
BY Bottoms DEF NoFetch, AppImageFetches

LEMMA TypedInit == SelfUpdateInit => Typed
<1> SUFFICES ASSUME SelfUpdateInit PROVE Typed
  OBVIOUS
<1>1. Started \in Updaters /\ NoSetup \in Setups /\ NoImage \in Image
  BY Bottoms DEF Started, NoSetup, NoImage, Image, Updaters, Setups
<1> QED BY <1>1, Bottoms, NoFetchTyped DEF SelfUpdateInit, Typed

LEMMA StateTyped ==
  ASSUME Typed, NEW st \in {"none", "checking", "available", "downloading", "ready", "error"},
         NEW v \in AnyVersion
  PROVE  /\ State(st, v) \in Updaters
         /\ State(st, v).downloaded = updater.downloaded
         /\ State(st, v).found = updater.found
         /\ \A w \in AnyVersion : [State(st, v) EXCEPT !.found = w] \in Updaters
                                  /\ [State(st, v) EXCEPT !.found = w].downloaded = updater.downloaded
BY DEF Typed, State, Updaters

LEMMA CallsTyped ==
  ASSUME Typed, NEW c \in Calls, NEW f \in AppImageFetches, f.pc = "receiving" => f.v \in Versions,
         fetch' = [fetch EXCEPT ![c] = f]
  PROVE  /\ fetch' \in [Calls -> AppImageFetches]
         /\ \A d \in Calls : fetch'[d].pc = "receiving" => fetch'[d].v \in Versions
BY DEF Typed

LEMMA LaunchedTyped == ASSUME NEW tree PROVE Launched(tree) \subseteq AnyVersion
BY DEF Launched, AnyVersion

-----------------------------------------------------------------------------
(* The types.                                                              *)

LEMMA OthersTyped ==
  ASSUME Typed, NEW c \in Calls, NEW v, NEW place \in {"part", "image", "unlinked"}
  PROVE  /\ OthersAt(c, v, place) \in [Calls -> AppImageFetches]
         /\ \A d \in Calls : OthersAt(c, v, place)[d].pc = "receiving" =>
              d # c /\ fetch[d].pc = "receiving" /\ OthersAt(c, v, place)[d].v = fetch[d].v
<1>1. \A d \in Calls : [fetch[d] EXCEPT !.at = place] \in AppImageFetches
                        /\ [fetch[d] EXCEPT !.at = place].v = fetch[d].v
                        /\ [fetch[d] EXCEPT !.at = place].pc = fetch[d].pc
  BY DEF Typed, AppImageFetches
<1> QED BY <1>1, NoFetchTyped DEF OthersAt, Typed

LEMMA DownloadsTyped ==
  ASSUME Typed, NEW c \in Calls, NEW v \in Versions, Downloads(c, v)
  PROVE  /\ fetch' \in [Calls -> AppImageFetches]
         /\ \A d \in Calls : fetch'[d].pc = "receiving" => fetch'[d].v \in Versions
         /\ part' \in [Versions -> Image]
<1>1. [NoFetch EXCEPT !.pc = "receiving", !.v = v] \in AppImageFetches
      /\ [NoFetch EXCEPT !.pc = "receiving", !.v = v].v = v
  BY Bottoms DEF NoFetch, AppImageFetches
<1>2. [here |-> TRUE, has |-> {}] \in Image
  BY DEF Image
<1> QED BY <1>1, <1>2, CallsTyped DEF Downloads, Typed

LEMMA CallOverTyped ==
  ASSUME Typed, NEW c \in Calls, CallOver(c)
  PROVE  /\ fetch' \in [Calls -> AppImageFetches]
         /\ \A d \in Calls : fetch'[d].pc = "receiving" => fetch'[d].v \in Versions
BY NoFetchTyped, CallsTyped DEF CallOver, NoFetch

\* A check, the button, the choice of the channel.
LEMMA TypedCheck ==
  ASSUME Typed, NEW c \in Calls,
         CheckForUpdates(c) \/ SetBeta(c) \/ CheckAnswered(c) \/ DownloadUpdate(c)
  PROVE  Typed'
<1>0. NoVersion \in AnyVersion /\ Versions \subseteq AnyVersion
  BY DEF AnyVersion
<1>1. ASSUME NEW b \in BOOLEAN, Checking(c, b)
      PROVE  /\ fetch' \in [Calls -> AppImageFetches]
             /\ \A d \in Calls : fetch'[d].pc = "receiving" => fetch'[d].v \in Versions
  <2>1. [NoFetch EXCEPT !.pc = "asking", !.beta = b] \in AppImageFetches
        /\ [NoFetch EXCEPT !.pc = "asking", !.beta = b].pc = "asking"
    BY Bottoms DEF NoFetch, AppImageFetches
  <2> QED BY <1>1, <2>1, CallsTyped DEF Checking
<1>2. CASE CheckForUpdates(c)
  <2>1. updater' \in Updaters
    BY <1>0, <1>2, StateTyped DEF CheckForUpdates
  <2> QED BY <1>1, <1>2, <2>1 DEF CheckForUpdates, Typed, release, trees
<1>3. CASE SetBeta(c)
  <2>1. beta' \in BOOLEAN /\ Checking(c, beta')
    BY <1>3 DEF SetBeta, Typed
  <2>2. updater' \in Updaters
    BY <1>0, <1>3 DEF SetBeta, State, Typed, Updaters
  <2> QED BY <1>1, <1>3, <2>1, <2>2 DEF SetBeta, Typed, trees
<1>4. CASE CheckAnswered(c)
  <2>1. CASE CallOver(c) /\ UNCHANGED <<part, overlapped>>
    <3>1. \A v \in Picked(fetch[c].beta) : v \in Versions
      BY DEF Picked, Eligible, Typed
    <3>2. updater' \in Updaters
      BY <1>0, <1>4, <3>1, StateTyped DEF CheckAnswered
    <3> QED BY <1>4, <2>1, <3>2, CallOverTyped DEF CheckAnswered, Typed, release, trees
  <2>2. ASSUME NEW v \in Picked(fetch[c].beta), Downloads(c, v),
               updater' = [State("downloading", v) EXCEPT !.found = v]
        PROVE  Typed'
    <3>1. v \in Versions
      BY <2>2 DEF Picked, Eligible, Typed
    <3>2. updater' \in Updaters
      BY <1>0, <2>2, <3>1, StateTyped
    <3> QED BY <1>4, <2>2, <3>1, <3>2, DownloadsTyped DEF CheckAnswered, Typed, release, trees
  <2> QED BY <1>4, <2>1, <2>2 DEF CheckAnswered
<1>5. CASE DownloadUpdate(c)
  <2>1. updater.found \in Versions
    BY <1>5 DEF DownloadUpdate, Typed, Updaters, AnyVersion
  <2>2. updater' \in Updaters
    BY <1>0, <1>5, <2>1, StateTyped DEF DownloadUpdate
  <2> QED BY <1>5, <2>1, <2>2, DownloadsTyped DEF DownloadUpdate, Typed, release, trees
<1> QED BY <1>2, <1>3, <1>4, <1>5

\* A download goes on.
LEMMA TypedDownload ==
  ASSUME Typed, NEW c \in Calls, ReceivePiece(c) \/ DownloadBreaks(c) \/ DownloadComplete(c)
  PROVE  Typed'
<1> DEFINE f == fetch[c]
<1>0. f \in AppImageFetches /\ f.v \in Versions /\ f.pc = "receiving" /\ NoVersion \in AnyVersion /\ f.v \in AnyVersion
  BY DEF ReceivePiece, DownloadBreaks, DownloadComplete, Typed, AnyVersion
<1>1. CASE ReceivePiece(c)
  <2>1. \A i \in Image : With(i, f.got + 1) \in Image
    BY <1>0, <1>1, SelfUpdateAssumption DEF With, Image, Whole, ReceivePiece, AppImageFetches
  <2>2. part' \in [Versions -> Image] /\ image' \in [Versions -> Image]
    BY <1>1, <2>1 DEF ReceivePiece, Typed
  <2>3. [f EXCEPT !.got = @ + 1] \in AppImageFetches /\ [f EXCEPT !.got = @ + 1].v = f.v
    BY <1>0, <1>1, SelfUpdateAssumption DEF ReceivePiece, AppImageFetches
  <2>4. fetch' = [fetch EXCEPT ![c] = [f EXCEPT !.got = @ + 1]]
    BY <1>1 DEF ReceivePiece, Typed, AppImageFetches
  <2>5. /\ fetch' \in [Calls -> AppImageFetches]
        /\ \A d \in Calls : fetch'[d].pc = "receiving" => fetch'[d].v \in Versions
    BY <1>0, <2>3, <2>4, CallsTyped
  <2> QED BY <1>1, <2>2, <2>5 DEF ReceivePiece, Typed, release, trees
<1>2. NoImage \in Image
  BY DEF NoImage, Image
<1>3. CASE DownloadBreaks(c)
  <2>1. updater' \in Updaters
    BY <1>0, <1>3, StateTyped DEF DownloadBreaks
  <2>2. CASE CallOver(c) /\ UNCHANGED part
    BY <1>3, <2>1, <2>2, CallOverTyped DEF DownloadBreaks, Typed, release, trees
  <2>3. CASE part' = [part EXCEPT ![f.v] = NoImage] /\ fetch' = OthersAt(c, f.v, "unlinked")
    BY <1>2, <1>3, <2>1, <2>3, OthersTyped DEF DownloadBreaks, Typed, release, trees
  <2> QED BY <1>3, <2>2, <2>3 DEF DownloadBreaks
<1>4. CASE DownloadComplete(c)
  <2>1. CASE part[f.v].here
    <3>1. updater' \in Updaters
      BY <1>0, <1>4, <2>1 DEF DownloadComplete, Typed, State, Updaters
    <3>2. part' \in [Versions -> Image] /\ image' \in [Versions -> Image]
      BY <1>0, <1>2, <1>4, <2>1 DEF DownloadComplete, Typed
    <3>3. fetch' = [OthersAt(c, f.v, "image") EXCEPT ![c] = NoFetch]
      BY <1>4, <2>1 DEF DownloadComplete
    <3>4. /\ fetch' \in [Calls -> AppImageFetches]
          /\ \A d \in Calls : fetch'[d].pc = "receiving" => fetch'[d].v \in Versions
      BY <3>3, OthersTyped, NoFetchTyped DEF Typed
    <3> QED BY <1>4, <3>1, <3>2, <3>4 DEF DownloadComplete, Typed, release, trees
  <2>2. CASE ~part[f.v].here
    <3>1. updater' \in Updaters
      BY <1>0, <1>4, <2>2, StateTyped DEF DownloadComplete
    <3> QED BY <1>4, <2>2, <3>1, CallOverTyped DEF DownloadComplete, Typed, release, trees
  <2> QED BY <2>1, <2>2
<1> QED BY <1>1, <1>3, <1>4

LEMMA SpawnTyped == ASSUME Typed, NEW v \in Versions, NEW launch \in BOOLEAN, Spawn(v, launch)
                    PROVE  setup' \in Setups
BY Bottoms DEF Typed, Spawn, Setups, NoSetup

\* The app quits or starts.
LEMMA TypedApp ==
  ASSUME Typed, QuitAndInstall \/ Quit \/ Start \/ StartAgain
  PROVE  Typed'
<1>1. [c \in Calls |-> NoFetch] \in [Calls -> AppImageFetches] /\ NoFetch.pc # "receiving"
      /\ Started \in Updaters /\ NoVersion \in AnyVersion
  BY NoFetchTyped DEF NoFetch, Started, Updaters, AnyVersion
<1>2. updater.downloaded # NoVersion => updater.downloaded \in Versions
  BY DEF Typed, Updaters, AnyVersion
<1>3. CASE QuitAndInstall
  <2>1. setup' \in Setups
    BY <1>2, <1>3, SpawnTyped DEF QuitAndInstall
  <2> QED BY <1>1, <1>3, <2>1 DEF QuitAndInstall, Quits, Typed, release, trees
<1>4. CASE Quit
  <2>1. setup' \in Setups
    BY <1>2, <1>4, SpawnTyped DEF Quit, Typed
  <2> QED BY <1>1, <1>4, <2>1 DEF Quit, Quits, Typed, release, trees
<1>5. CASE Start
  BY <1>5, LaunchedTyped DEF Start, Typed, release, download, trees
<1>6. CASE StartAgain
  BY <1>1, <1>6, LaunchedTyped DEF StartAgain, Typed, release, trees
<1> QED BY <1>3, <1>4, <1>5, <1>6

\* The setup process, a release, an installation by hand.
LEMMA TypedSetup ==
  ASSUME Typed,
         \/ SetupBegins \/ CopyFile \/ Retire \/ Activate \/ SetupEnds \/ CopyFails \/ SetupKilled
         \/ \E v \in Versions : Publish(v) \/ InstallByHand(v)
  PROVE  Typed'
<1>1. NoSetup \in Setups /\ \A p \in {"idle", "begun", "copying", "retired", "activated"} : SetupAt(p) \in Setups
  BY SelfUpdateAssumption DEF NoSetup, SetupAt, Setups, AnyVersion, Typed
<1>2. CASE SetupBegins
  <2>1. setup' \in Setups
    BY <1>2, Bottoms DEF SetupBegins, SetupAt, Setups, Typed
  <2> QED BY <1>2, <2>1 DEF SetupBegins, Typed, release, download
<1>3. CASE CopyFile
  <2>1. setup' \in Setups
    BY <1>3, SelfUpdateAssumption DEF CopyFile, Setups, Typed
  <2> QED BY <1>3, <2>1 DEF CopyFile, Typed, release, download
<1>4. CASE Retire \/ Activate
  BY <1>1, <1>4 DEF Retire, Activate, Typed, release, download
<1>5. CASE SetupEnds \/ CopyFails
  BY <1>1, <1>5, LaunchedTyped DEF SetupEnds, CopyFails, Typed, release, download, trees
<1>6. CASE SetupKilled
  BY <1>1, <1>6 DEF SetupKilled, Typed, release, download
<1>7. ASSUME NEW v \in Versions, Publish(v) PROVE Typed'
  BY <1>7 DEF Publish, Typed, download, trees
<1>8. ASSUME NEW v \in Versions, InstallByHand(v) PROVE Typed'
  <2>1. setup' \in Setups
    BY <1>8, Bottoms DEF InstallByHand, NoSetup, Setups
  <2> QED BY <1>8, <2>1 DEF InstallByHand, Typed, release, download, trees
<1> QED BY <1>2, <1>3, <1>4, <1>5, <1>6, <1>7, <1>8

LEMMA TypedStep == Typed /\ [SelfUpdateNext]_selfUpdateVars => Typed'
<1> SUFFICES ASSUME Typed, [SelfUpdateNext]_selfUpdateVars PROVE Typed'
  OBVIOUS
<1>1. CASE UNCHANGED selfUpdateVars
  BY <1>1 DEF selfUpdateVars, release, download, trees, Typed
<1> QED BY <1>1, TypedCheck, TypedDownload, TypedApp, TypedSetup DEF SelfUpdateNext

\* Types hold in every state.
LEMMA AlwaysTyped == SelfUpdateSpec => []Typed
BY TypedInit, TypedStep, PTL DEF SelfUpdateSpec

-----------------------------------------------------------------------------
(* The directories.                                                        *)

\* Who leaves the setup and the directories alone keeps TreesInv.
LEMMA TreesRest ==
  ASSUME TreesInv, UNCHANGED <<setup, trees>>
  PROVE  TreesInv'
BY DEF TreesInv, trees, AppStaysWhole

\* A setup is started, or none is.
LEMMA TreesSpawn ==
  ASSUME TreesInv, setup.pc = "idle", setup'.pc \in {"idle", "begun"}, setup'.v \in Versions,
         UNCHANGED trees
  PROVE  TreesInv'
BY DEF TreesInv, trees, AppStaysWhole

\* The setup goes on, ends or is killed.
LEMMA TreesSetup ==
  ASSUME Typed, TreesInv,
         SetupBegins \/ CopyFile \/ Retire \/ Activate \/ SetupEnds \/ CopyFails \/ SetupKilled
  PROVE  TreesInv'
<1> USE DEF Typed, Setups
<1>1. CASE SetupBegins
  <2>1. setup'.pc = "copying" /\ setup'.v = setup.v /\ setup'.copied = 0 /\ staging' = {}
    BY <1>1 DEF SetupBegins, StagingCleared, SetupAt
  <2>2. {setup.v} \X (1 .. 0) = {}
    OBVIOUS
  <2> QED BY <1>1, <2>1, <2>2 DEF SetupBegins, TreesInv, AppStaysWhole
<1>2. CASE CopyFile
  <2> DEFINE n == setup.copied
  <2>1. setup'.pc = "copying" /\ setup'.v = setup.v /\ setup'.copied = n + 1
    BY <1>2 DEF CopyFile
  <2>2. staging' = {setup.v} \X (1 .. n) \cup {<<setup.v, n + 1>>}
    BY <1>2 DEF CopyFile, TreesInv
  <2>3. 1 .. n + 1 = (1 .. n) \cup {n + 1}
    BY SelfUpdateAssumption
  <2> HIDE DEF n
  <2>4. staging' = {setup.v} \X (1 .. n + 1)
    BY <2>2, <2>3
  <2> QED BY <1>2, <2>1, <2>4 DEF CopyFile, TreesInv, AppStaysWhole
<1>3. CASE Retire
  <2>1. setup'.pc = "retired" /\ setup'.v = setup.v /\ setup.copied = Pieces
    BY <1>3 DEF Retire, SetupAt
  <2> QED BY <1>3, <2>1 DEF Retire, TreesInv, AppStaysWhole, Tree, Whole
<1>4. CASE Activate
  <2>1. setup'.pc = "activated" /\ setup'.v = setup.v
    BY <1>4 DEF Activate, SetupAt
  <2> QED BY <1>4, <2>1 DEF Activate, TreesInv, AppStaysWhole
<1>5. CASE SetupEnds \/ CopyFails \/ SetupKilled
  <2>1. setup'.pc = "idle"
    BY <1>5 DEF SetupEnds, CopyFails, SetupKilled, NoSetup
  <2>2. app' = app /\ (torn => torn') /\ (setup.pc = "retired" => torn')
    <3>1. CASE SetupEnds
      BY <3>1 DEF SetupEnds
    <3>2. CASE CopyFails
      BY <3>2 DEF CopyFails, trees
    <3>3. CASE SetupKilled
      BY <3>3 DEF SetupKilled
    <3> QED BY <1>5, <3>1, <3>2, <3>3
  <2> QED BY <2>1, <2>2 DEF TreesInv, AppStaysWhole
<1> QED BY <1>1, <1>2, <1>3, <1>4, <1>5

LEMMA SpawnPlace ==
  ASSUME Typed, NEW v \in Versions, NEW launch, Spawn(v, launch)
  PROVE  setup.pc = "idle" /\ setup'.pc \in {"idle", "begun"} /\ setup'.v \in Versions
BY DEF Spawn, NoSetup

LEMMA TreesStep == Typed /\ TreesInv /\ [SelfUpdateNext]_selfUpdateVars => TreesInv'
<1> SUFFICES ASSUME Typed, TreesInv, [SelfUpdateNext]_selfUpdateVars PROVE TreesInv'
  OBVIOUS
<1>1. CASE QuitAndInstall \/ Quit
  <2>1. updater.downloaded # NoVersion => updater.downloaded \in Versions
    BY DEF Typed, Updaters, AnyVersion
  <2>2. CASE UNCHANGED setup
    BY <1>1, <2>2, TreesRest DEF QuitAndInstall, Quit
  <2>3. CASE setup' # setup
    BY <1>1, <2>1, <2>3, SpawnPlace, TreesSpawn DEF QuitAndInstall, Quit
  <2> QED BY <2>2, <2>3
<1>2. ASSUME NEW v \in Versions, Publish(v) \/ InstallByHand(v) PROVE TreesInv'
  <2>1. CASE Publish(v)
    BY <2>1, TreesRest DEF Publish
  <2>2. CASE InstallByHand(v)
    BY <2>2, TreesSpawn DEF InstallByHand, NoSetup
  <2> QED BY <1>2, <2>1, <2>2
<1>3. CASE Start \/ StartAgain
  BY <1>3, TreesRest DEF Start, StartAgain
<1>4. ASSUME NEW c \in Calls,
             \/ CheckForUpdates(c) \/ SetBeta(c) \/ CheckAnswered(c) \/ DownloadUpdate(c)
             \/ ReceivePiece(c) \/ DownloadBreaks(c) \/ DownloadComplete(c)
      PROVE  TreesInv'
  BY <1>4, TreesRest DEF CheckForUpdates, SetBeta, CheckAnswered, DownloadUpdate,
                         ReceivePiece, DownloadBreaks, DownloadComplete
<1>5. CASE UNCHANGED selfUpdateVars
  BY <1>5, TreesRest DEF selfUpdateVars
<1> QED BY <1>1, <1>2, <1>3, <1>4, <1>5, TreesSetup DEF SelfUpdateNext

\* Whatever the setup is killed at, the directory app holds one version in
\* full, but for a kill between the two renames.
THEOREM AppIsWhole == SelfUpdateSpec => []AppStaysWhole
<1>1. SelfUpdateInit => TreesInv
  BY Bottoms DEF SelfUpdateInit, TreesInv, AppStaysWhole, NoSetup
<1>2. TreesInv => AppStaysWhole
  BY DEF TreesInv
<1> QED BY <1>1, <1>2, AlwaysTyped, TreesStep, PTL DEF SelfUpdateSpec

-----------------------------------------------------------------------------
(* The downloads.                                                          *)

\* Nobody downloads anything any more, or only what was under way.
LEMMA DownloadsRest ==
  ASSUME Typed, DownloadsInv, UNCHANGED <<part, image>>, overlapped' = overlapped,
         half' = half,
         \A c \in Calls : fetch'[c].pc = "receiving" => fetch'[c] = fetch[c],
         updater'.downloaded \in {updater.downloaded, NoVersion}
  PROVE  DownloadsInv'
BY DEF DownloadsInv

\* A download begins with its .part empty.
LEMMA DownloadsBegin ==
  ASSUME Typed, DownloadsInv, NEW c \in Calls, NEW v \in Versions, Downloads(c, v),
         UNCHANGED <<image, half>>, updater'.downloaded = updater.downloaded
  PROVE  DownloadsInv'
<1> DEFINE f == [NoFetch EXCEPT !.pc = "receiving", !.v = v]
<1>1. f.pc = "receiving" /\ f.v = v /\ f.got = 0 /\ f.at = "part"
  BY DEF NoFetch
<1> HIDE DEF f
<1>2. fetch' = [fetch EXCEPT ![c] = f] /\ part' = [part EXCEPT ![v] = [here |-> TRUE, has |-> {}]]
      /\ overlapped' = (overlapped \/ \E d \in Calls \ {c} : fetch[d].pc = "receiving" /\ fetch[d].v = v)
  BY DEF Downloads, f
<1>3. 1 .. 0 = {}
  OBVIOUS
<1> QED BY <1>1, <1>2, <1>3 DEF DownloadsInv, Typed

LEMMA DownloadsPiece ==
  ASSUME Typed, DownloadsInv, NEW c \in Calls, ReceivePiece(c)
  PROVE  DownloadsInv'
<1> DEFINE f == fetch[c]
<1>1. SUFFICES ASSUME ~overlapped PROVE DownloadsInv'
  BY DEF ReceivePiece, DownloadsInv
<1>2. f \in AppImageFetches /\ f.v \in Versions /\ f.at = "part"
      /\ part[f.v].has = 1 .. f.got
  BY <1>1 DEF Typed, DownloadsInv, ReceivePiece
<1>3. fetch'[c].pc = "receiving" /\ fetch'[c].v = f.v /\ fetch'[c].at = "part" /\ fetch'[c].got = f.got + 1
      /\ \A d \in Calls \ {c} : fetch'[d] = fetch[d]
  BY <1>2 DEF ReceivePiece, Typed, AppImageFetches
<1>4. part' = [part EXCEPT ![f.v] = With(@, f.got + 1)]
  BY <1>2 DEF ReceivePiece
<1>5. image' = image /\ updater' = updater /\ half' = half /\ overlapped' = overlapped
  BY <1>2 DEF ReceivePiece
<1>6. \A d \in Calls \ {c} : fetch[d].pc = "receiving" => part'[fetch[d].v] = part[fetch[d].v]
  BY <1>1, <1>2, <1>4 DEF DownloadsInv, Typed, ReceivePiece
<1>7. part'[f.v].has = 1 .. f.got + 1
  <2>1. (1 .. f.got) \cup {f.got + 1} = 1 .. f.got + 1
    BY <1>2, SelfUpdateAssumption DEF AppImageFetches
  <2>2. part'[f.v] = With(part[f.v], f.got + 1)
    BY <1>2, <1>4 DEF Typed
  <2>3. part[f.v] \in Image
    BY <1>2 DEF Typed
  <2>4. With(part[f.v], f.got + 1).has = part[f.v].has \cup {f.got + 1}
    BY <2>3 DEF With, Image
  <2> QED BY <1>2, <2>1, <2>2, <2>4
<1>8. \A d \in Calls : fetch'[d].pc = "receiving" =>
        /\ fetch[d].pc = "receiving" /\ fetch'[d].v = fetch[d].v
        /\ fetch'[d].at = "part" /\ part'[fetch'[d].v].has = 1 .. fetch'[d].got
  <2>1. fetch[c].pc = "receiving"
    BY DEF ReceivePiece
  <2> QED BY <1>1, <1>3, <1>6, <1>7, <2>1 DEF DownloadsInv
<1> QED BY <1>1, <1>5, <1>8 DEF DownloadsInv

\* Alone with its version, a download that ends meets no other descriptor.
LEMMA DownloadsEnd ==
  ASSUME Typed, DownloadsInv, NEW c \in Calls, DownloadBreaks(c) \/ DownloadComplete(c)
  PROVE  DownloadsInv'
<1> DEFINE f == fetch[c]
<1>1. SUFFICES ASSUME ~overlapped PROVE DownloadsInv'
  BY DEF DownloadBreaks, DownloadComplete, DownloadsInv
<1>2. f \in AppImageFetches /\ f.v \in Versions /\ f.pc = "receiving"
      /\ part[f.v].has = 1 .. f.got
  BY <1>1 DEF Typed, DownloadsInv, DownloadBreaks, DownloadComplete
<1>3. \A d \in Calls \ {c} : fetch[d].pc = "receiving" => fetch[d].v # f.v
  BY <1>1, <1>2 DEF DownloadsInv
<1>4. \A place : OthersAt(c, f.v, place) = [fetch EXCEPT ![c] = NoFetch]
  BY <1>3 DEF OthersAt, Typed
<1>5. fetch' = [fetch EXCEPT ![c] = NoFetch] /\ half' = half /\ overlapped' = overlapped
  BY <1>4 DEF DownloadBreaks, DownloadComplete, CallOver, Typed
<1>6. \A d \in Calls : fetch'[d].pc = "receiving" => d # c /\ fetch'[d] = fetch[d]
  BY <1>5, NoFetchTyped DEF Typed
<1>7. \A v \in Versions \ {f.v} : part'[v] = part[v]
  BY DEF DownloadBreaks, DownloadComplete, Typed
<1>8. \A d \in Calls : fetch'[d].pc = "receiving" => part'[fetch'[d].v] = part[fetch[d].v]
  BY <1>3, <1>6, <1>7 DEF Typed
<1>9. updater'.downloaded # NoVersion => image'[updater'.downloaded].has = Whole
  <2>1. CASE DownloadBreaks(c)
    BY <1>1, <2>1 DEF DownloadBreaks, DownloadsInv, State, Typed, Updaters
  <2>2. CASE DownloadComplete(c) /\ part[f.v].here
    <3>1. image' = [image EXCEPT ![f.v] = part[f.v]]
          /\ updater' = [State("ready", f.v) EXCEPT !.downloaded = f.v, !.onQuit = TRUE]
      BY <2>2 DEF DownloadComplete
    <3>2. updater'.downloaded = f.v
      BY <3>1 DEF State, Typed, Updaters
    <3>3. part[f.v].has = Whole
      BY <1>2, <2>2 DEF DownloadComplete, Received, Whole
    <3> QED BY <1>2, <3>1, <3>2, <3>3 DEF Typed
  <2>3. CASE DownloadComplete(c) /\ ~part[f.v].here
    BY <1>1, <2>3 DEF DownloadComplete, DownloadsInv, State, Typed, Updaters
  <2> QED BY <2>1, <2>2, <2>3
<1> QED BY <1>1, <1>5, <1>6, <1>8, <1>9 DEF DownloadsInv

LEMMA DownloadsStep == Typed /\ DownloadsInv /\ [SelfUpdateNext]_selfUpdateVars => DownloadsInv'
<1> SUFFICES ASSUME Typed, DownloadsInv, [SelfUpdateNext]_selfUpdateVars PROVE DownloadsInv'
  OBVIOUS
<1>0. NoFetch.pc # "receiving" /\ Started.downloaded = NoVersion
  BY NoFetchTyped DEF Started
<1>1. ASSUME NEW c \in Calls, CheckForUpdates(c) \/ SetBeta(c) PROVE DownloadsInv'
  <2>1. \A d \in Calls : fetch'[d].pc = "receiving" => fetch'[d] = fetch[d]
    BY <1>1 DEF CheckForUpdates, SetBeta, Checking, NoFetch, Typed
  <2>2. updater'.downloaded = updater.downloaded
    BY <1>1 DEF CheckForUpdates, SetBeta, State, Typed, Updaters
  <2> QED BY <1>1, <2>1, <2>2, DownloadsRest DEF CheckForUpdates, SetBeta
<1>2. ASSUME NEW c \in Calls, CheckAnswered(c) PROVE DownloadsInv'
  <2>1. updater'.downloaded = updater.downloaded
    BY <1>2 DEF CheckAnswered, State, Typed, Updaters
  <2>2. CASE CallOver(c) /\ UNCHANGED <<part, overlapped>>
    BY <1>0, <1>2, <2>1, <2>2, DownloadsRest DEF CheckAnswered, CallOver, Typed
  <2>3. ASSUME NEW v \in Picked(fetch[c].beta), Downloads(c, v) PROVE DownloadsInv'
    <3>1. v \in Versions
      BY DEF Picked, Eligible, Typed
    <3> QED BY <1>2, <2>1, <2>3, <3>1, DownloadsBegin DEF CheckAnswered
  <2> QED BY <1>2, <2>2, <2>3 DEF CheckAnswered
<1>3. ASSUME NEW c \in Calls, DownloadUpdate(c) PROVE DownloadsInv'
  <2>1. updater'.downloaded = updater.downloaded /\ updater.found \in Versions
    BY <1>3 DEF DownloadUpdate, State, Typed, Updaters, AnyVersion
  <2> QED BY <1>3, <2>1, DownloadsBegin DEF DownloadUpdate
<1>4. CASE QuitAndInstall \/ Quit
  <2>1. \A c \in Calls : fetch'[c].pc # "receiving"
    BY <1>0, <1>4 DEF QuitAndInstall, Quit, Quits
  <2>2. updater'.downloaded = NoVersion
    BY <1>0, <1>4 DEF QuitAndInstall, Quit, Quits
  <2>3. overlapped' = overlapped /\ (~overlapped /\ ~half => ~half')
    BY <1>4 DEF QuitAndInstall, Quit, Spawn, DownloadsInv
  <2> QED BY <2>1, <2>2, <2>3 DEF DownloadsInv
<1>5. CASE Start \/ StartAgain
  BY <1>0, <1>5, DownloadsRest DEF Start, StartAgain, download
<1>6. CASE SetupBegins \/ CopyFile \/ Retire \/ Activate \/ SetupEnds \/ CopyFails \/ SetupKilled
  BY <1>6, DownloadsRest
     DEF SetupBegins, CopyFile, Retire, Activate, SetupEnds, CopyFails, SetupKilled, download
<1>7. ASSUME NEW v \in Versions, Publish(v) \/ InstallByHand(v) PROVE DownloadsInv'
  BY <1>7, DownloadsRest DEF Publish, InstallByHand, download
<1>8. CASE UNCHANGED selfUpdateVars
  BY <1>8, DownloadsRest DEF selfUpdateVars, download
<1> QED BY <1>1, <1>2, <1>3, <1>4, <1>5, <1>6, <1>7, <1>8, DownloadsPiece, DownloadsEnd DEF SelfUpdateNext

\* A setup is only ever started from an AppImage that is whole, unless two
\* downloads of one version have overlapped.
THEOREM SetupsAreWhole == SelfUpdateSpec => []StartedWhole
<1>1. SelfUpdateInit => DownloadsInv
  BY NoFetchTyped DEF SelfUpdateInit, DownloadsInv, Started
<1>2. DownloadsInv => StartedWhole
  BY DEF DownloadsInv, StartedWhole
<1> QED BY <1>1, <1>2, AlwaysTyped, DownloadsStep, PTL DEF SelfUpdateSpec

-------------------------------------------------------------------------------
(* List and cache keep their types.                                        *)

Load == [busy : BOOLEAN, only : BOOLEAN, wanted : SUBSET Sources, enabled : SUBSET Sources]
Fetch == [pc : {"idle", "receiving", "checked", "installing"}, v : IPAs \cup {"none"}, done : 0 .. Chunks]
Part == [here : BOOLEAN, chunks : SUBSET AllChunks]

SourcesTyped ==
  /\ file \in List /\ defaults \in {Shipped, Shipped \cup Added}
  /\ catalog \subseteq Sources /\ unwanted \subseteq Sources
  /\ loader \in [Loaders -> Load] /\ edits \in 0 .. MaxEdits /\ crowded \in BOOLEAN

\* Whoever works has a version to work on.
CacheTyped ==
  /\ ipa \in [IPAs -> SUBSET AllChunks] /\ partial \in [IPAs -> Part] /\ installed \subseteq IPAs
  /\ fetching \in [StoreJobs -> Fetch] /\ clearing \in [busy : BOOLEAN, needed : SUBSET IPAs]
  /\ shared \in BOOLEAN
  /\ \A j \in StoreJobs : fetching[j].pc # "idle" => fetching[j].v \in IPAs

LEMMA ListsTyped ==
  ASSUME SourcesTyped
  PROVE  /\ Configured \in List /\ Rewritten \in List
         /\ \A on, off \in SUBSET Sources : Saved(Rewritten, on, off) \in List
<1>1. defaults \subseteq Sources /\ file \in List
  BY DEF SourcesTyped, Sources
<1>2. ASSUME NEW f \in List, NEW on \in SUBSET Sources, NEW off \in SUBSET Sources
      PROVE  Saved(f, on, off) \in List
  BY <1>1 DEF Saved, SeenBy, List
<1>3. Configured \in List
  <2>1. CASE ~file.here
    BY <1>1, <2>1 DEF Configured, List
  <2>2. CASE file.here /\ defaults \subseteq file.seen
    BY <1>1, <2>2 DEF Configured
  <2>3. CASE file.here /\ ~(defaults \subseteq file.seen)
    <3>1. file.on \cup (defaults \ file.seen) \in SUBSET Sources /\ file.off \in SUBSET Sources
      BY <1>1 DEF List
    <3> QED BY <1>1, <1>2, <2>3, <3>1 DEF Configured
  <2> QED BY <2>1, <2>2, <2>3
<1>4. Rewritten \in List
  BY <1>1, <1>3 DEF Rewritten
<1> QED BY <1>2, <1>3, <1>4

LEMMA BeginsTyped ==
  ASSUME SourcesTyped, NEW l \in Loaders, NEW f \in List, NEW only \in SUBSET Sources, LoadBegins(l, f, only)
  PROVE  loader' \in [Loaders -> Load] /\ crowded' \in BOOLEAN
<1> DEFINE n == [busy |-> TRUE, only |-> only # {}, enabled |-> f.on, wanted |-> IF only = {} THEN f.on ELSE only]
<1>1. n \in Load
  BY DEF Load, List
<1>2. loader' = [loader EXCEPT ![l] = n]
  BY DEF LoadBegins
<1> HIDE DEF n
<1>3. loader' \in [Loaders -> Load]
  BY <1>1, <1>2 DEF SourcesTyped
<1>4. crowded' \in BOOLEAN
  BY Zenon DEF LoadBegins
<1> QED BY <1>3, <1>4

LEMMA EditsTyped ==
  ASSUME SourcesTyped, NEW l \in Loaders, NEW u \in Sources,
         AddSource(u, l) \/ RemoveSource(u, l) \/ ToggleSource(u, l)
  PROVE  SourcesTyped'
<1>1. /\ Configured \in List /\ Rewritten \in List
      /\ \A on, off \in SUBSET Sources : Saved(Rewritten, on, off) \in List
  BY ListsTyped
<1>2. {u} \in SUBSET Sources /\ {} \in SUBSET Sources
      /\ Configured.on \in SUBSET Sources /\ Configured.off \in SUBSET Sources
  BY <1>1 DEF List
<1>3. WithSource(Configured, u) \in List /\ WithoutSource(Configured, u) \in List /\ Toggled(Configured, u) \in List
  BY <1>1, <1>2 DEF WithSource, WithoutSource, Toggled
<1>4. edits' \in 0 .. MaxEdits
  BY LibraryAssumption DEF AddSource, RemoveSource, ToggleSource, SourcesTyped
<1>5. UNCHANGED <<defaults, catalog>> /\ unwanted' \subseteq Sources
  BY DEF AddSource, RemoveSource, ToggleSource, SourcesTyped
<1>6. CASE AddSource(u, l)
  <2> DEFINE f == IF u \in Listed(Configured) THEN Rewritten ELSE WithSource(Configured, u)
  <2>1. f \in List /\ file' = f /\ LoadBegins(l, IF f.here THEN f ELSE Configured, {u})
    BY <1>1, <1>3, <1>6 DEF AddSource
  <2> HIDE DEF f
  <2>2. loader' \in [Loaders -> Load] /\ crowded' \in BOOLEAN
    BY <1>1, <1>2, <2>1, BeginsTyped
  <2> QED BY <1>4, <1>5, <2>1, <2>2 DEF SourcesTyped
<1>7. CASE RemoveSource(u, l)
  <2>1. file' = WithoutSource(Configured, u) /\ LoadBegins(l, WithoutSource(Configured, u), {})
    BY <1>7 DEF RemoveSource
  <2>2. loader' \in [Loaders -> Load] /\ crowded' \in BOOLEAN
    BY <1>2, <1>3, <2>1, BeginsTyped
  <2> QED BY <1>3, <1>4, <1>5, <2>1, <2>2 DEF SourcesTyped
<1>8. CASE ToggleSource(u, l)
  <2>1. file' = Toggled(Configured, u) /\ LoadBegins(l, Toggled(Configured, u), {})
    BY <1>8 DEF ToggleSource
  <2>2. loader' \in [Loaders -> Load] /\ crowded' \in BOOLEAN
    BY <1>2, <1>3, <2>1, BeginsTyped
  <2> QED BY <1>3, <1>4, <1>5, <2>1, <2>2 DEF SourcesTyped
<1> QED BY <1>6, <1>7, <1>8

LEMMA SourcesStepTyped ==
  ASSUME SourcesTyped, SourcesNext \/ Released
  PROVE  SourcesTyped'
<1>0. Resting \in Load
  BY DEF Resting, Load
<1>1. ASSUME NEW l \in Loaders, RefreshCatalog(l) PROVE SourcesTyped'
  <2>1. Configured \in List /\ Rewritten \in List /\ {} \in SUBSET Sources
    BY ListsTyped
  <2>2. loader' \in [Loaders -> Load] /\ crowded' \in BOOLEAN
    BY <1>1, <2>1, BeginsTyped DEF RefreshCatalog
  <2> QED BY <1>1, <2>1, <2>2 DEF RefreshCatalog, SourcesTyped
<1>2. ASSUME NEW l \in Loaders, LoadEnds(l) PROVE SourcesTyped'
  <2>1. loader[l].wanted \subseteq Sources
    BY DEF SourcesTyped, Load
  <2>2. catalog' \subseteq Sources
    BY <1>2, <2>1 DEF LoadEnds, Fetches, Enabled, SourcesTyped
  <2>3. loader' \in [Loaders -> Load]
    BY <1>0, <1>2 DEF LoadEnds, SourcesTyped
  <2> QED BY <1>2, <2>2, <2>3 DEF LoadEnds, SourcesTyped
<1>3. CASE Released
  BY <1>0, <1>3 DEF Released, SourcesTyped
<1> QED BY <1>1, <1>2, <1>3, EditsTyped DEF SourcesNext

\* A job of the store goes on.
LEMMA StoreJobTyped ==
  ASSUME CacheTyped, NEW j \in StoreJobs, NEW s \in Fetch, s.pc # "idle" => s.v \in IPAs, Step(j, s),
         ipa' \in [IPAs -> SUBSET AllChunks], partial' \in [IPAs -> Part], installed' \subseteq IPAs,
         clearing' = clearing, shared' \in BOOLEAN
  PROVE  CacheTyped'
<1>1. fetching' \in [StoreJobs -> Fetch]
  BY DEF Step, CacheTyped
<1>2. \A i \in StoreJobs : fetching'[i].pc # "idle" => fetching'[i].v \in IPAs
  BY DEF Step, CacheTyped
<1> QED BY <1>1, <1>2 DEF CacheTyped

LEMMA NobodyTyped == NoJob \in Fetch /\ NoJob.pc = "idle" /\ NoPart \in Part
BY LibraryAssumption DEF NoJob, Fetch, NoPart, Part

LEMMA DownloadTyped ==
  ASSUME CacheTyped, NEW j \in StoreJobs,
         \/ Receive(j) \/ DownloadFails(j) \/ DownloadEnds(j) \/ Installs(j) \/ InstallEnds(j)
         \/ \E v \in IPAs : Download(j, v)
  PROVE  CacheTyped'
<1>0. /\ fetching[j] \in Fetch /\ fetching[j].v \in IPAs \cup {"none"} /\ fetching[j].done \in 0 .. Chunks
      /\ fetching[j].pc # "idle" => fetching[j].v \in IPAs
      /\ NoJob \in Fetch /\ NoJob.pc = "idle" /\ NoPart \in Part
  BY NobodyTyped DEF CacheTyped, Fetch
<1>1. /\ ipa \in [IPAs -> SUBSET AllChunks] /\ partial \in [IPAs -> Part] /\ installed \subseteq IPAs
      /\ shared \in BOOLEAN
  BY DEF CacheTyped
<1>2. ASSUME NEW v \in IPAs, Download(j, v) PROVE CacheTyped'
  <2>1. shared' \in BOOLEAN
    BY <1>2, Zenon DEF Download
  <2>2. [pc |-> "checked", v |-> v, done |-> Chunks] \in Fetch /\ [pc |-> "receiving", v |-> v, done |-> 0] \in Fetch
    BY LibraryAssumption DEF Fetch
  <2>3. [here |-> TRUE, chunks |-> {}] \in Part
    BY DEF Part
  <2>4. CASE Complete(v)
    BY <1>1, <1>2, <2>1, <2>2, <2>4, StoreJobTyped DEF Download
  <2>5. CASE ~Complete(v)
    <3>1. partial' \in [IPAs -> Part] /\ Step(j, [pc |-> "receiving", v |-> v, done |-> 0])
      BY <1>1, <1>2, <2>3, <2>5 DEF Download
    <3> QED BY <1>1, <1>2, <2>1, <2>2, <3>1, StoreJobTyped DEF Download
  <2> QED BY <2>4, <2>5
<1>3. CASE Receive(j)
  <2> DEFINE n == fetching[j].done + 1
  <2>1. n \in 1 .. Chunks
    BY <1>0, <1>3, LibraryAssumption DEF Receive
  <2>2. Step(j, [fetching[j] EXCEPT !.done = n])
    BY <1>3 DEF Receive
  <2>3. partial' = [partial EXCEPT ![fetching[j].v] = WithChunk(partial[fetching[j].v], n)]
    BY <1>3 DEF Receive
  <2> HIDE DEF n
  <2>4. [fetching[j] EXCEPT !.done = n] \in Fetch /\ [fetching[j] EXCEPT !.done = n].v = fetching[j].v
    BY <1>0, <2>1, LibraryAssumption DEF Fetch
  <2>5. \A x \in Part : WithChunk(x, n) \in Part
    BY <2>1 DEF WithChunk, Part, AllChunks
  <2>6. fetching[j].v \in IPAs
    BY <1>0, <1>3 DEF Receive
  <2>7. partial' \in [IPAs -> Part]
    BY <1>1, <2>3, <2>5, <2>6
  <2> QED BY <1>1, <1>3, <2>2, <2>4, <2>6, <2>7, StoreJobTyped DEF Receive
<1>4. CASE DownloadFails(j)
  <2>1. partial' \in [IPAs -> Part]
    BY <1>0, <1>1, <1>4 DEF DownloadFails
  <2> QED BY <1>0, <1>1, <1>4, <2>1, StoreJobTyped DEF DownloadFails
<1>5. CASE DownloadEnds(j)
  <2>0. fetching[j].v \in IPAs
    BY <1>0, <1>5 DEF DownloadEnds
  <2>1. partial' \in [IPAs -> Part]
    BY <1>0, <1>1, <1>5 DEF DownloadEnds
  <2>2. [fetching[j] EXCEPT !.pc = "checked"] \in Fetch /\ [fetching[j] EXCEPT !.pc = "checked"].v = fetching[j].v
    BY <1>0 DEF Fetch
  <2>3. partial[fetching[j].v].chunks \in SUBSET AllChunks
    BY <1>1, <2>0 DEF Part
  <2>4. ipa' \in [IPAs -> SUBSET AllChunks]
    BY <1>1, <1>5, <2>3 DEF DownloadEnds
  <2> QED BY <1>0, <1>1, <1>5, <2>0, <2>1, <2>2, <2>4, StoreJobTyped DEF DownloadEnds
<1>6. CASE Installs(j)
  <2>1. /\ [fetching[j] EXCEPT !.pc = "installing"] \in Fetch
        /\ [fetching[j] EXCEPT !.pc = "installing"].v = fetching[j].v
    BY <1>0 DEF Fetch
  <2> QED BY <1>0, <1>1, <1>6, <2>1, StoreJobTyped DEF Installs
<1>7. CASE InstallEnds(j)
  <2>1. installed' \subseteq IPAs
    BY <1>0, <1>1, <1>7 DEF InstallEnds
  <2> QED BY <1>0, <1>1, <1>7, <2>1, StoreJobTyped DEF InstallEnds
<1> QED BY <1>2, <1>3, <1>4, <1>5, <1>6, <1>7

LEMMA CacheStepTyped ==
  ASSUME CacheTyped, CacheNext
  PROVE  CacheTyped'
<1>0. NoJob \in Fetch /\ NoJob.pc = "idle" /\ NoPart \in Part
  BY NobodyTyped
<1>1. CASE ClearBegins
  <2>1. shared' \in BOOLEAN
    BY <1>1, Zenon DEF ClearBegins
  <2> QED BY <1>1, <2>1 DEF ClearBegins, CacheTyped
<1>2. CASE ClearEnds
  <2>1. ipa' \in [IPAs -> SUBSET AllChunks] /\ partial' \in [IPAs -> Part]
    BY <1>0, <1>2 DEF ClearEnds, CacheTyped
  <2> QED BY <1>2, <2>1 DEF ClearEnds, CacheTyped
<1>3. CASE StoreDies
  BY <1>0, <1>3 DEF StoreDies, CacheTyped
<1>4. ASSUME NEW v \in IPAs, RecordGone(v) PROVE CacheTyped'
  BY <1>4 DEF RecordGone, CacheTyped
<1> QED BY <1>1, <1>2, <1>3, <1>4, DownloadTyped DEF CacheNext

\* LibraryTypeOK: whatever edits, loads, downloads, clearings and crashes
\* overlap, list, catalog and cache keep their types, for any sources,
\* versions, threads and chunks.
THEOREM LibraryTypes == LibrarySpec => []LibraryTypeOK
<1>1. LibraryInit => SourcesTyped /\ CacheTyped
  <2> SUFFICES ASSUME LibraryInit PROVE SourcesTyped /\ CacheTyped
    OBVIOUS
  <2>1. Resting \in Load /\ NoJob \in Fetch /\ NoJob.pc = "idle" /\ NoPart \in Part
    BY NobodyTyped DEF Resting, Load
  <2>2. 0 \in 0 .. MaxEdits
    BY LibraryAssumption
  <2>3. SourcesTyped
    BY <2>1, <2>2 DEF LibraryInit, SourcesTyped, List
  <2>4. CacheTyped
    BY <2>1 DEF LibraryInit, CacheTyped
  <2> QED BY <2>3, <2>4
<1>2. SourcesTyped /\ CacheTyped /\ [SourcesNext \/ Released \/ CacheNext]_libraryVars
      => SourcesTyped' /\ CacheTyped'
  <2>1. (SourcesNext \/ Released) => UNCHANGED cacheVars
    BY DEF SourcesNext, Released, RefreshCatalog, LoadEnds, AddSource, RemoveSource, ToggleSource
  <2>2. CacheNext => UNCHANGED sourceVars
    BY DEF CacheNext, ClearBegins, ClearEnds, StoreDies, RecordGone, Receive, DownloadFails, DownloadEnds,
           Installs, InstallEnds, Download
  <2>3. SourcesTyped /\ UNCHANGED sourceVars => SourcesTyped'
    BY DEF sourceVars, SourcesTyped
  <2>4. CacheTyped /\ UNCHANGED cacheVars => CacheTyped'
    BY DEF cacheVars, CacheTyped
  <2> QED BY <2>1, <2>2, <2>3, <2>4, SourcesStepTyped, CacheStepTyped DEF libraryVars
<1>3. SourcesTyped /\ CacheTyped => LibraryTypeOK
  BY DEF SourcesTyped, CacheTyped, LibraryTypeOK, Load, Fetch, Part
<1> QED BY <1>1, <1>2, <1>3, PTL DEF LibrarySpec

-------------------------------------------------------------------------------
(* Directories, history and counters keep their types.                     *)

RestTyped ==
  /\ app \in Trees /\ staging \in Trees /\ retired \in Trees
  /\ half \in BOOLEAN /\ overlapped \in BOOLEAN /\ torn \in BOOLEAN
  /\ calls \in 0 .. MaxCalls /\ kills \in 0 .. MaxKills

\* Who begins a call counts it, and may meet another.
LEMMA RestOfCalls ==
  ASSUME RestTyped, NEW c \in Calls,
         \/ CheckForUpdates(c) \/ SetBeta(c) \/ CheckAnswered(c) \/ DownloadUpdate(c)
         \/ ReceivePiece(c) \/ DownloadBreaks(c) \/ DownloadComplete(c)
  PROVE  RestTyped'
<1>1. UNCHANGED <<trees, half>>
  BY DEF CheckForUpdates, SetBeta, CheckAnswered, DownloadUpdate, ReceivePiece, DownloadBreaks, DownloadComplete
<1>2. overlapped' \in BOOLEAN
  <2>1. (\E v : Downloads(c, v)) => overlapped' \in BOOLEAN
    BY Zenon DEF Downloads
  <2>2. overlapped' = overlapped \/ \E v : Downloads(c, v)
    BY DEF CheckForUpdates, SetBeta, CheckAnswered, DownloadUpdate, ReceivePiece, DownloadBreaks, DownloadComplete
  <2> QED BY <2>1, <2>2 DEF RestTyped
<1>3. calls' \in 0 .. MaxCalls
  <2>1. calls' = calls \/ (calls < MaxCalls /\ calls' = calls + 1)
    BY DEF CheckForUpdates, SetBeta, CheckAnswered, DownloadUpdate, ReceivePiece, DownloadBreaks, DownloadComplete,
           Checking, CallBegins
  <2> QED BY <2>1, SelfUpdateAssumption DEF RestTyped
<1> QED BY <1>1, <1>2, <1>3 DEF trees, RestTyped

LEMMA RestOfApp ==
  ASSUME RestTyped,
         QuitAndInstall \/ Quit \/ Start \/ StartAgain \/ \E v \in Versions : Publish(v) \/ InstallByHand(v)
  PROVE  RestTyped'
<1>1. UNCHANGED <<trees, overlapped, calls>>
  BY DEF QuitAndInstall, Quit, Start, StartAgain, Publish, InstallByHand, download
<1>2. half' \in BOOLEAN
  <2>1. (\E v, launch : Spawn(v, launch)) => half' \in BOOLEAN
    BY Zenon DEF Spawn
  <2>2. half' = half \/ \E v, launch : Spawn(v, launch)
    BY DEF QuitAndInstall, Quit, Start, StartAgain, Publish, InstallByHand
  <2> QED BY <2>1, <2>2 DEF RestTyped
<1> QED BY <1>1, <1>2 DEF trees, RestTyped

LEMMA RestOfSetup ==
  ASSUME Typed, TreesInv, RestTyped,
         SetupBegins \/ CopyFile \/ Retire \/ Activate \/ SetupEnds \/ CopyFails \/ SetupKilled
  PROVE  RestTyped'
<1>1. UNCHANGED <<overlapped, calls, half>>
  BY DEF SetupBegins, CopyFile, Retire, Activate, SetupEnds, CopyFails, SetupKilled, download
<1>2. {} \in Trees
  BY DEF Trees
<1>3. CASE CopyFile
  <2> DEFINE n == setup.copied + 1
  <2>1. setup.v \in Versions /\ n \in Whole
    BY <1>3, SelfUpdateAssumption DEF CopyFile, TreesInv, Typed, Setups, Whole
  <2>2. staging' = staging \cup {<<setup.v, n>>}
    BY <1>3 DEF CopyFile
  <2> HIDE DEF n
  <2>3. staging' \in Trees
    BY <2>1, <2>2 DEF RestTyped, Trees
  <2> QED BY <1>1, <1>3, <2>3 DEF CopyFile, RestTyped
<1>4. CASE SetupBegins \/ Retire \/ Activate
  BY <1>1, <1>2, <1>4 DEF SetupBegins, StagingCleared, Retire, Activate, RestTyped
<1>5. CASE SetupEnds \/ CopyFails
  BY <1>1, <1>2, <1>5 DEF SetupEnds, CopyFails, trees, RestTyped
<1>6. CASE SetupKilled
  <2>1. torn' \in BOOLEAN
    BY <1>6, Zenon DEF SetupKilled
  <2>2. kills' \in 0 .. MaxKills
    BY <1>6, SelfUpdateAssumption DEF SetupKilled, RestTyped
  <2> QED BY <1>1, <1>6, <2>1, <2>2 DEF SetupKilled, RestTyped
<1> QED BY <1>3, <1>4, <1>5, <1>6

\* SelfUpdateTypeOK: calls, files, directories and the setup keep their types
\* through any overlap of calls and any kills.
THEOREM SelfUpdateTypes == SelfUpdateSpec => []SelfUpdateTypeOK
<1>1. SelfUpdateInit => RestTyped
  <2> SUFFICES ASSUME SelfUpdateInit PROVE RestTyped
    OBVIOUS
  <2>1. 0 \in 0 .. MaxCalls /\ 0 \in 0 .. MaxKills
    BY SelfUpdateAssumption
  <2>2. Tree(Oldest) \in Trees /\ {} \in Trees
    BY Bottoms DEF Tree, Trees
  <2> QED BY <2>1, <2>2 DEF SelfUpdateInit, RestTyped
<1>2. SelfUpdateInit => TreesInv
  BY Bottoms DEF SelfUpdateInit, TreesInv, AppStaysWhole, NoSetup
<1>3. Typed /\ TreesInv /\ RestTyped /\ [SelfUpdateNext]_selfUpdateVars => RestTyped'
  <2>1. RestTyped /\ UNCHANGED selfUpdateVars => RestTyped'
    BY DEF selfUpdateVars, download, trees, RestTyped
  <2> QED BY <2>1, RestOfCalls, RestOfApp, RestOfSetup DEF SelfUpdateNext
<1>4. Typed /\ RestTyped => SelfUpdateTypeOK
  BY DEF Typed, RestTyped, SelfUpdateTypeOK, Updaters, AppImageFetches, Setups
<1> QED BY <1>1, <1>2, <1>3, <1>4, TreesStep, AlwaysTyped, PTL DEF SelfUpdateSpec
=============================================================================
