------------------------------ MODULE Discovery ------------------------------
(***************************************************************************)
(* Known devices and the search for them in the network                    *)
(* (modstaller/device/discovery.py, registry.py, wifi.py, tvpair.py and    *)
(* the device handlers of server.py).                                      *)
(*                                                                         *)
(* One thread searches all the time; jobs search too when they miss a      *)
(* device, and jobs and handlers switch Wi-Fi on and off, pair and forget. *)
(* They share devices.json, which every writer reads, changes and writes   *)
(* whole without a lock: two steps here, with anything in between.  The    *)
(* pair records are files of their own.                                    *)
(***************************************************************************)
EXTENDS Naturals, FiniteSets

CONSTANTS
  Phones,    \* devices paired over the cable, Wi-Fi switched on for some
  Boxes,     \* Apple TV and Vision Pro: paired and reached over the network
  Private,   \* phones whose advert does not carry their real Wi-Fi address
  Workers    \* jobs and handlers that touch the registry

ASSUME DiscoveryAssumption == Private \subseteq Phones /\ "scanner" \notin Workers

VARIABLES
  registry,   \* devices.json: udid -> [wifi, remote]
  pairings,   \* udids with a lockdown pair record
  seen,       \* NetworkScanner._seen: <<udid, transport>>
  instances,  \* NetworkScanner._instances: private addresses it has resolved
  wake,       \* NetworkScanner._wake
  actor,      \* ["scanner" or worker -> what it is doing]
  asked,      \* history: devices somebody ever switched on or paired
  unsearched  \* history: no search has begun since the last poke

files == <<registry, pairings>>
network == <<seen, instances, wake>>
told == <<asked, unsearched>>
discoveryVars == <<files, network, actor, told>>

Known == Phones \cup Boxes
Actors == Workers \cup {"scanner"}
KnownDevice == [wifi : BOOLEAN, remote : BOOLEAN]
IsRegistry(r) == DOMAIN r \subseteq Known /\ \A d \in DOMAIN r : r[d] \in KnownDevice
Adverts == Known \X {"wifi", "remote"}
Nothing == [d \in {} |-> [wifi |-> FALSE, remote |-> FALSE]]
DeviceTasks == {"enable", "disable", "forget", "pair", "learn", "search"}

DiscoveryTypeOK ==
  /\ IsRegistry(registry) /\ \A a \in Actors : IsRegistry(actor[a].copy)
  /\ pairings \subseteq Known /\ instances \subseteq Private /\ seen \subseteq Adverts
  /\ wake \in BOOLEAN
  /\ \A a \in Actors :
       /\ actor[a].pc \in {"idle", "browsing", "recorded", "read", "written"}
       /\ actor[a].task \in DeviceTasks /\ actor[a].dev \in Known \cup {"none"} /\ actor[a].moved \subseteq Known
       /\ actor[a].found \subseteq Adverts
  /\ asked \subseteq Known /\ unsearched \in BOOLEAN

IdleActor == [pc |-> "idle", task |-> "search", dev |-> "none",
            copy |-> Nothing, moved |-> {}, found |-> {}]

DiscoveryInit ==
  /\ registry = Nothing /\ pairings = {} /\ seen = {} /\ instances = {} /\ wake = FALSE
  /\ actor = [a \in Actors |-> IdleActor]
  /\ asked = {} /\ unsearched = FALSE

Goes(a, s) == actor' = [actor EXCEPT ![a] = s]
Done(a) == Goes(a, IdleActor)

-----------------------------------------------------------------------------
(* devices.json: remember and forget on the copy that was read.            *)

\* MUTANT: a new entry counts as switched on and paired.
EntryOfPaired(r, d) == IF d \in DOMAIN r THEN r[d] ELSE [wifi |-> TRUE, remote |-> TRUE]

EntryOf(r, d) == IF d \in DOMAIN r THEN r[d] ELSE [wifi |-> FALSE, remote |-> FALSE]

\* remember: creates or updates the entry; an empty value never overwrites.
Remembered(r, d, e) == [x \in DOMAIN r \cup {d} |-> IF x = d THEN e ELSE r[x]]

\* forget
Without(r, d) == [x \in DOMAIN r \ {d} |-> r[x]]

\* wifi.enable; tunnel: it has also got a RemotePairing tunnel up.
EntryEnabled(old, tunnel) == [wifi |-> TRUE, remote |-> old.remote \/ tunnel]

\* wifi.disable
EntryDisabled == [wifi |-> FALSE, remote |-> FALSE]

\* tvpair._learn
EntryPaired(old) == [old EXCEPT !.remote = TRUE]

-----------------------------------------------------------------------------
(* Searching.                                                              *)

\* scan: what is known is read first.  The thread clears its wake-up before
\* it begins.
ScanBegins(a) ==
  /\ actor[a].pc = "idle"
  /\ Goes(a, [actor[a] EXCEPT !.pc = "browsing", !.copy = registry])
  /\ wake' = (wake /\ a # "scanner")
  /\ unsearched' = (unsearched /\ a # "scanner")
  /\ UNCHANGED <<files, seen, instances, asked>>

\* MUTANT: the wake-up is cleared after the search.
ScanEndsAndClears(a) ==
  /\ actor[a].pc = "browsing"
  /\ Done(a)
  /\ wake' = FALSE
  /\ UNCHANGED <<files, seen, instances, told>>

SwitchedOn(r) == {d \in DOMAIN r : r[d].wifi}
Paired(r) == {d \in DOMAIN r : r[d].remote}

\* _identify: a private address is asked who it is, with the pair records of
\* the devices Wi-Fi is switched on for.
Identified == SwitchedOn(registry) \cap pairings \cap Private

\* _scan_mobdev2: by the address of a phone that is switched on, by an
\* instance resolved earlier, or by asking.
OverWifi(a) ==
  LET r == actor[a].copy IN
  IF SwitchedOn(r) = {} THEN {}
  ELSE (SwitchedOn(r) \ Private) \cup Identified \cup (IF a = "scanner" THEN instances ELSE {})

\* _scan_remotepairing: by the identifiers of the RemotePairing records.
OverRemotePairing(a) == Paired(actor[a].copy)

\* _record: noted as seen; those that are new here or have a new address
\* (elsewhere) are remembered afterwards, outside the lock.
Records(a, found) ==
  \E elsewhere \in SUBSET found :
    /\ seen' = seen \cup found
    /\ Goes(a, [actor[a] EXCEPT !.pc = "recorded", !.copy = Nothing, !.found = {},
                  !.moved = {ref[1] : ref \in (found \ seen) \cup elsewhere}])

\* scan: whoever answers.  A job searches with a scanner of its own, to which
\* everybody is new, and hands the result to the thread's afterwards.
ScanEnds(a) ==
  /\ actor[a].pc = "browsing"
  /\ \E w \in SUBSET OverWifi(a), r \in SUBSET OverRemotePairing(a) :
       LET found == (w \X {"wifi"}) \cup (r \X {"remote"}) IN
       IF a = "scanner"
       THEN Records(a, found) /\ instances' = instances \cup (w \cap Private)
       ELSE /\ Goes(a, [actor[a] EXCEPT !.pc = "recorded", !.copy = Nothing,
                          !.found = found, !.moved = w \cup r])
            /\ UNCHANGED <<seen, instances>>
  /\ UNCHANGED <<files, wake, told>>

\* registry.remember(last_host) for each that moved ...
RemembersMoved(a) ==
  /\ actor[a].pc = "recorded"
  /\ \E d \in actor[a].moved :
       Goes(a, [actor[a] EXCEPT !.pc = "read", !.dev = d, !.copy = registry, !.moved = @ \ {d}])
  /\ UNCHANGED <<files, network, told>>

\* ... then the thread sleeps, and resolve and _remote_ref hand over what
\* they have found.
SearchOver(a) ==
  /\ actor[a].pc = "recorded" /\ actor[a].moved = {}
  /\ IF actor[a].found = {} THEN Done(a) /\ UNCHANGED seen ELSE Records(a, actor[a].found)
  /\ UNCHANGED <<files, instances, wake, told>>

\* refs: what was not seen for SEEN_TTL counts as gone.
SeenExpires ==
  /\ \E ref \in seen : seen' = seen \ {ref}
  /\ UNCHANGED <<files, instances, wake, actor, told>>

-----------------------------------------------------------------------------
(* Jobs and handlers.                                                      *)

\* The task is through with the device and has read devices.json.
Reads(w, t, d) ==
  /\ actor[w].pc = "idle"
  /\ Goes(w, [actor[w] EXCEPT !.task = t, !.dev = d, !.copy = registry, !.pc = "read"])
  /\ UNCHANGED <<registry, network, told>>

\* enable, over the cable: connections allowed, the pair record read and
\* saved, and from iOS 17 on RemotePairing tried.
EnablesWifi(w, d) == d \in Phones /\ Reads(w, "enable", d) /\ pairings' = pairings \cup {d}

\* disable: a device that is known, told if it is reachable.
DisablesWifi(w, d) == d \in DOMAIN registry /\ Reads(w, "disable", d) /\ UNCHANGED pairings

\* pair: the PIN conversation, the advert, the first tunnel.
PairsBox(w, d) == d \in Boxes /\ Reads(w, "pair", d) /\ UNCHANGED pairings

\* _learn: a connection tells name, model and version.
Learns(w, d) == d \in Phones /\ Reads(w, "learn", d) /\ UNCHANGED pairings

\* _device_forget, registry.forget: nothing is written for an unknown one.
Forgets(w, d) ==
  /\ UNCHANGED pairings
  /\ IF d \in DOMAIN registry THEN Reads(w, "forget", d)
     ELSE /\ actor[w].pc = "idle"
          /\ Goes(w, [actor[w] EXCEPT !.task = "forget", !.dev = d, !.pc = "written"])
          /\ UNCHANGED <<registry, network, told>>

\* _save_raw: the copy as read, with the change.
Writes(a) ==
  LET s == actor[a]
      old == EntryOf(s.copy, s.dev)
      Saves(e) == registry' = Remembered(s.copy, s.dev, e)
  IN
  /\ s.pc = "read"
  /\ CASE s.task = "enable" -> \E tunnel \in BOOLEAN : Saves(EntryEnabled(old, tunnel))
       [] s.task = "disable" -> Saves(EntryDisabled)
       [] s.task = "pair" -> Saves(EntryPaired(old))
       [] s.task = "forget" -> registry' = Without(s.copy, s.dev)
       [] OTHER -> Saves(old)
  /\ pairings' = IF s.task = "forget" THEN pairings \ {s.dev} ELSE pairings
  /\ Goes(a, CASE s.task = "search" -> [s EXCEPT !.pc = "recorded", !.copy = Nothing]
               [] s.task = "learn" -> IdleActor
               [] OTHER -> [s EXCEPT !.pc = "written", !.copy = Nothing])
  /\ asked' = IF s.task \in {"enable", "pair"} THEN asked \cup {s.dev} ELSE asked
  /\ UNCHANGED <<network, unsearched>>

\* SCANNER.forget
Unseen(d) == {ref \in seen : ref[1] # d}

\* After switching on and pairing the search is poked.
Pokes(w) ==
  /\ actor[w].pc = "written" /\ actor[w].task \in {"enable", "pair"}
  /\ wake' = TRUE /\ unsearched' = TRUE
  /\ Done(w)
  /\ UNCHANGED <<files, seen, instances, asked>>

\* After switching off and forgetting, what was seen of the device goes, and
\* disable removes its pair record.
Drops(w) ==
  /\ actor[w].pc = "written" /\ actor[w].task \in {"disable", "forget"}
  /\ seen' = Unseen(actor[w].dev)
  /\ pairings' = IF actor[w].task = "disable" THEN pairings \ {actor[w].dev} ELSE pairings
  /\ Done(w)
  /\ UNCHANGED <<registry, instances, wake, told>>

DiscoveryNext ==
  \/ SeenExpires
  \/ \E a \in Actors :
       ScanBegins(a) \/ ScanEnds(a) \/ RemembersMoved(a) \/ SearchOver(a) \/ Writes(a)
  \/ \E w \in Workers : Pokes(w) \/ Drops(w)
  \/ \E w \in Workers, d \in Known :
       EnablesWifi(w, d) \/ DisablesWifi(w, d) \/ PairsBox(w, d) \/ Learns(w, d) \/ Forgets(w, d)

DiscoverySpec == DiscoveryInit /\ [][DiscoveryNext]_discoveryVars

-----------------------------------------------------------------------------

\* Only what somebody switched Wi-Fi on for, or paired, is ever offered as
\* reachable in the network, and not what was only ever on the cable - though
\* searches and writers overlap and each writes its own copy of what it read.
OnlyAsked == \A ref \in seen : ref[1] \in asked

\* "Search now" is not lost: when the thread sleeps, a search has begun since
\* the last device was switched on or paired, or the wake-up is set.
NoLostPoke == actor["scanner"].pc = "idle" /\ ~wake => ~unsearched
=============================================================================
