---------------------------- MODULE KnownProofs ------------------------------
(***************************************************************************)
(* Theorems about whom the backend knows.  Devices, for any number of      *)
(* them, of jobs and handlers: no poke is lost, and nothing is offered     *)
(* that nobody asked for.  Accounts, for any number of them and of         *)
(* threads: a team is never noted for a stranger's account, although the   *)
(* index is read, changed and written back without a lock; and the cache   *)
(* of Apple's side is never older than the last deletion, although a view  *)
(* goes on while it is cleared.                                            *)
(***************************************************************************)
EXTENDS Discovery, Accounts, TLAPS

(***************************************************************************)
(* The wake-up.                                                            *)
(***************************************************************************)

\* As long as no search has begun since the last poke, the wake-up is set.
Poked == /\ unsearched \in BOOLEAN /\ wake \in BOOLEAN
         /\ unsearched => wake

LEMMA PokedStep == Poked /\ [DiscoveryNext]_discoveryVars => Poked'
<1> SUFFICES ASSUME Poked, [DiscoveryNext]_discoveryVars PROVE Poked'
  OBVIOUS
<1> USE DEF Poked
<1>1. ASSUME NEW a \in Actors, ScanBegins(a) PROVE Poked'
  <2>1. wake' = (wake /\ a # "scanner")
    BY <1>1 DEF ScanBegins
  <2>2. unsearched' = (unsearched /\ a # "scanner")
    BY <1>1 DEF ScanBegins
  <2> QED BY <2>1, <2>2, Zenon
<1>2. ASSUME NEW a \in Actors, ScanEnds(a) \/ RemembersMoved(a) \/ SearchOver(a) \/ Writes(a)
      PROVE  Poked'
  <2>1. UNCHANGED <<wake, unsearched>>
    <3>1. ASSUME ScanEnds(a) PROVE UNCHANGED <<wake, unsearched>>
      BY <3>1, Zenon DEF ScanEnds, told
    <3>2. ASSUME RemembersMoved(a) PROVE UNCHANGED <<wake, unsearched>>
      BY <3>2, Zenon DEF RemembersMoved, network, told
    <3>3. ASSUME SearchOver(a) PROVE UNCHANGED <<wake, unsearched>>
      BY <3>3, Zenon DEF SearchOver, told
    <3>4. ASSUME Writes(a) PROVE UNCHANGED <<wake, unsearched>>
      BY <3>4, Zenon DEF Writes, network
    <3> QED BY <1>2, <3>1, <3>2, <3>3, <3>4
  <2> QED BY <2>1
<1>3. ASSUME NEW w \in Workers, Pokes(w) \/ Drops(w) PROVE Poked'
  <2>1. ASSUME Pokes(w) PROVE Poked'
    BY <2>1 DEF Pokes
  <2>2. ASSUME Drops(w) PROVE UNCHANGED <<wake, unsearched>>
    BY <2>2, Zenon DEF Drops, told
  <2> QED BY <1>3, <2>1, <2>2
<1>4. ASSUME NEW w \in Workers, NEW d \in Known,
             EnablesWifi(w, d) \/ DisablesWifi(w, d) \/ PairsBox(w, d) \/ Learns(w, d) \/ Forgets(w, d)
      PROVE  Poked'
  BY <1>4 DEF EnablesWifi, DisablesWifi, PairsBox, Learns, Forgets, Reads, network, told
<1>5. CASE SeenExpires
  BY <1>5 DEF SeenExpires, told
<1>6. CASE UNCHANGED discoveryVars
  BY <1>6 DEF discoveryVars, network, told
<1> QED BY <1>1, <1>2, <1>3, <1>4, <1>5, <1>6 DEF DiscoveryNext

\* "Search now" is never lost, whatever the handlers and the search do.
THEOREM PokesAreHeard == DiscoverySpec => []NoLostPoke
<1>1. DiscoveryInit => Poked
  BY DEF DiscoveryInit, Poked
<1>2. Poked => NoLostPoke
  BY DEF Poked, NoLostPoke
<1> QED BY <1>1, <1>2, PokedStep, PTL DEF DiscoverySpec

(***************************************************************************)
(* What is offered.  The stale copies are what makes this hard: a writer    *)
(* may write back a list that others have changed since, but each copy was  *)
(* the list at some time, and whoever has been asked for stays asked for.   *)
(***************************************************************************)

\* In this version of the list only devices somebody asked for are switched
\* on or paired.
Honest(r) == \A d \in DOMAIN r : r[d].wifi \/ r[d].remote => d \in asked

\* What one thread holds: a copy of the list, and what its search has found.
Shaped(s) == DOMAIN s = {"pc", "task", "dev", "copy", "moved", "found"}

HonestActor(s) ==
  /\ Shaped(s)
  /\ Honest(s.copy)
  /\ \A ref \in s.found : ref[1] \in asked

AskedInv ==
  /\ actor = [a \in Actors |-> actor[a]]
  /\ \A a \in Actors : HonestActor(actor[a])
  /\ Honest(registry)
  /\ instances \subseteq asked
  /\ OnlyAsked

\* A thread that does not ask for anything changes its own entry only.
LEMMA OwnStep ==
  ASSUME AskedInv, NEW a \in Actors, NEW s, Goes(a, s), HonestActor(s), UNCHANGED asked,
         Honest(registry'), instances' \subseteq asked,
         \A ref \in seen' : ref[1] \in asked
  PROVE  AskedInv'
<1>1. actor' = [x \in Actors |-> IF x = a THEN s ELSE actor[x]]
  BY DEF AskedInv, Goes
<1>2. \A x \in Actors : HonestActor(actor'[x])
  BY <1>1 DEF AskedInv
<1>3. actor' = [x \in Actors |-> actor'[x]]
  BY <1>1
<1>4. \A x \in Actors : HonestActor(actor[x])'
  BY <1>2 DEF HonestActor, Honest
<1>5. Honest(registry)'
  BY DEF Honest
<1> QED BY <1>3, <1>4, <1>5 DEF AskedInv, OnlyAsked

LEMMA IdleHonest == HonestActor(IdleActor)
BY DEF HonestActor, Shaped, IdleActor, Nothing, Honest

LEMMA NothingHonest == Honest(Nothing)
BY DEF Honest, Nothing

\* What an honest list offers is honest.
LEMMA OffersHonest ==
  ASSUME NEW r, Honest(r)
  PROVE  SwitchedOn(r) \subseteq asked /\ Paired(r) \subseteq asked
BY DEF Honest, SwitchedOn, Paired

\* Writing an entry that was asked for, or claims nothing, keeps a list honest.
LEMMA SavedHonest ==
  ASSUME NEW r, Honest(r), NEW d, NEW e, e.wifi \/ e.remote => d \in asked
  PROVE  Honest(Remembered(r, d, e)) /\ Honest(Without(r, d))
BY DEF Honest, Remembered, Without

\* _record keeps to what it is given.
LEMMA RecordsStep ==
  ASSUME AskedInv, NEW a \in Actors, NEW found, Records(a, found), UNCHANGED <<asked, registry>>,
         \A ref \in found : ref[1] \in asked, instances' \subseteq asked
  PROVE  AskedInv'
<1>1. PICK elsewhere \in SUBSET found :
        Goes(a, [actor[a] EXCEPT !.pc = "recorded", !.copy = Nothing, !.found = {},
                   !.moved = {ref[1] : ref \in (found \ seen) \cup elsewhere}])
  BY DEF Records
<1> DEFINE m == {ref[1] : ref \in (found \ seen) \cup elsewhere}
<1> DEFINE s == [actor[a] EXCEPT !.pc = "recorded", !.copy = Nothing, !.found = {}, !.moved = m]
<1>2. Goes(a, s)
  BY <1>1
<1>3. HonestActor(s)
  <2> HIDE DEF m
  <2>1. Shaped(actor[a])
    BY DEF AskedInv, HonestActor
  <2>2. Shaped(s) /\ s.copy = Nothing /\ s.found = {}
    BY <2>1 DEF Shaped
  <2> HIDE DEF s
  <2> QED BY <2>2, NothingHonest DEF HonestActor
<1>4. \A ref \in seen' : ref[1] \in asked
  BY DEF Records, AskedInv, OnlyAsked
<1>5. Honest(registry')
  BY DEF AskedInv
<1> HIDE DEF s
<1> QED BY <1>2, <1>3, <1>4, <1>5, OwnStep

LEMMA ScanEndsStep == ASSUME AskedInv, NEW a \in Actors, ScanEnds(a) PROVE AskedInv'
<1>1. PICK w \in SUBSET OverWifi(a), r \in SUBSET OverRemotePairing(a) :
        LET found == (w \X {"wifi"}) \cup (r \X {"remote"}) IN
        IF a = "scanner"
        THEN Records(a, found) /\ instances' = instances \cup (w \cap Private)
        ELSE /\ Goes(a, [actor[a] EXCEPT !.pc = "recorded", !.copy = Nothing,
                           !.found = found, !.moved = w \cup r])
             /\ UNCHANGED <<seen, instances>>
  BY DEF ScanEnds
<1> DEFINE found == (w \X {"wifi"}) \cup (r \X {"remote"})
<1>2. UNCHANGED <<asked, registry>>
  BY DEF ScanEnds, files, told
<1>3. w \subseteq asked /\ r \subseteq asked
  <2>1. SwitchedOn(actor[a].copy) \subseteq asked /\ Paired(actor[a].copy) \subseteq asked
    BY OffersHonest DEF AskedInv, HonestActor
  <2>2. SwitchedOn(registry) \subseteq asked
    BY OffersHonest DEF AskedInv
  <2>3. OverWifi(a) \subseteq asked
    BY <2>1, <2>2 DEF OverWifi, Identified, AskedInv
  <2> QED BY <2>1, <2>3 DEF OverRemotePairing
<1>4. \A ref \in found : ref[1] \in asked
  BY <1>3
<1>5. CASE a = "scanner"
  <2>1. Records(a, found) /\ instances' = instances \cup (w \cap Private)
    BY <1>1, <1>5
  <2>2. instances' \subseteq asked
    BY <2>1, <1>3 DEF AskedInv
  <2> HIDE DEF found
  <2> QED BY <1>2, <1>4, <2>1, <2>2, RecordsStep
<1>6. CASE a # "scanner"
  <2> DEFINE s == [actor[a] EXCEPT !.pc = "recorded", !.copy = Nothing,
                     !.found = found, !.moved = w \cup r]
  <2>1. Goes(a, s) /\ UNCHANGED <<seen, instances>>
    BY <1>1, <1>6
  <2>2. HonestActor(s)
    <3> HIDE DEF found
    <3>1. Shaped(actor[a])
      BY DEF AskedInv, HonestActor
    <3>2. Shaped(s) /\ s.copy = Nothing /\ s.found = found
      BY <3>1 DEF Shaped
    <3> HIDE DEF s
    <3> QED BY <1>4, <3>2, NothingHonest DEF HonestActor
  <2>3. Honest(registry') /\ instances' \subseteq asked /\ \A ref \in seen' : ref[1] \in asked
    BY <1>2, <2>1 DEF AskedInv, OnlyAsked
  <2> HIDE DEF s
  <2> QED BY <1>2, <2>1, <2>2, <2>3, OwnStep
<1> QED BY <1>5, <1>6

LEMMA ReadsStep ==
  ASSUME AskedInv, NEW w \in Workers, NEW t, NEW d, Reads(w, t, d)
  PROVE  AskedInv'
<1> DEFINE s == [actor[w] EXCEPT !.task = t, !.dev = d, !.copy = registry, !.pc = "read"]
<1>1. w \in Actors
  BY DEF Actors
<1>2. Goes(w, s) /\ UNCHANGED <<registry, seen, instances, asked>>
  BY DEF Reads, network, told
<1>3. HonestActor(s)
  <2>1. Shaped(actor[w])
    BY <1>1 DEF AskedInv, HonestActor
  <2>2. Shaped(s) /\ s.copy = registry /\ s.found = actor[w].found
    BY <2>1 DEF Shaped
  <2>3. Honest(registry) /\ \A ref \in actor[w].found : ref[1] \in asked
    BY <1>1 DEF AskedInv, HonestActor
  <2> HIDE DEF s
  <2> QED BY <2>2, <2>3 DEF HonestActor
<1>4. Honest(registry') /\ instances' \subseteq asked /\ \A ref \in seen' : ref[1] \in asked
  BY <1>2 DEF AskedInv, OnlyAsked
<1> HIDE DEF s
<1> QED BY <1>1, <1>2, <1>3, <1>4, OwnStep

LEMMA SearchStep ==
  ASSUME AskedInv, NEW a \in Actors, ScanBegins(a) \/ RemembersMoved(a) \/ SearchOver(a)
  PROVE  AskedInv'
<1>1. Shaped(actor[a]) /\ Honest(registry) /\ Honest(actor[a].copy)
      /\ \A ref \in actor[a].found : ref[1] \in asked
  BY DEF AskedInv, HonestActor
<1>2. CASE ScanBegins(a)
  <2> DEFINE s == [actor[a] EXCEPT !.pc = "browsing", !.copy = registry]
  <2>1. Goes(a, s) /\ UNCHANGED <<registry, seen, instances, asked>>
    BY <1>2 DEF ScanBegins, files
  <2>2. Shaped(s) /\ s.copy = registry /\ s.found = actor[a].found
    BY <1>1 DEF Shaped
  <2> HIDE DEF s
  <2>3. HonestActor(s)
    BY <1>1, <2>2 DEF HonestActor
  <2>4. Honest(registry') /\ instances' \subseteq asked /\ \A ref \in seen' : ref[1] \in asked
    BY <2>1 DEF AskedInv, OnlyAsked
  <2> QED BY <2>1, <2>3, <2>4, OwnStep
<1>3. CASE RemembersMoved(a)
  <2>1. PICK d \in actor[a].moved :
          Goes(a, [actor[a] EXCEPT !.pc = "read", !.dev = d, !.copy = registry, !.moved = @ \ {d}])
    BY <1>3 DEF RemembersMoved
  <2> DEFINE s == [actor[a] EXCEPT !.pc = "read", !.dev = d, !.copy = registry, !.moved = @ \ {d}]
  <2>2. Shaped(s) /\ s.copy = registry /\ s.found = actor[a].found
    BY <1>1 DEF Shaped
  <2>3. Goes(a, s) /\ UNCHANGED <<registry, seen, instances, asked>>
    BY <1>3, <2>1 DEF RemembersMoved, files, network, told
  <2> HIDE DEF s
  <2>4. HonestActor(s)
    BY <1>1, <2>2 DEF HonestActor
  <2>5. Honest(registry') /\ instances' \subseteq asked /\ \A ref \in seen' : ref[1] \in asked
    BY <2>3 DEF AskedInv, OnlyAsked
  <2> QED BY <2>3, <2>4, <2>5, OwnStep
<1>4. CASE SearchOver(a)
  <2>1. UNCHANGED <<registry, instances, asked>>
    BY <1>4 DEF SearchOver, files, told
  <2>2. instances' \subseteq asked /\ Honest(registry')
    BY <2>1 DEF AskedInv
  <2>3. CASE actor[a].found = {}
    <3>1. Goes(a, IdleActor) /\ UNCHANGED seen
      BY <1>4, <2>3 DEF SearchOver, Done
    <3>2. \A ref \in seen' : ref[1] \in asked
      BY <3>1 DEF AskedInv, OnlyAsked
    <3> QED BY <2>1, <2>2, <3>1, <3>2, IdleHonest, OwnStep
  <2>4. CASE actor[a].found # {}
    BY <1>1, <1>4, <2>1, <2>2, <2>4, RecordsStep DEF SearchOver
  <2> QED BY <2>3, <2>4
<1> QED BY <1>2, <1>3, <1>4

LEMMA WriteStep == ASSUME AskedInv, NEW a \in Actors, Writes(a) PROVE AskedInv'
<1> DEFINE s == actor[a]
<1> DEFINE t == CASE s.task = "search" -> [s EXCEPT !.pc = "recorded", !.copy = Nothing]
                  [] s.task = "learn" -> IdleActor
                  [] OTHER -> [s EXCEPT !.pc = "written", !.copy = Nothing]
<1>1. Shaped(s) /\ Honest(s.copy) /\ \A ref \in s.found : ref[1] \in asked
  BY DEF AskedInv, HonestActor
<1>2. Goes(a, t) /\ UNCHANGED <<seen, instances>> /\ asked \subseteq asked'
  BY DEF Writes, network
<1>3. HonestActor(t)
  <2>1. ASSUME NEW p PROVE HonestActor([s EXCEPT !.pc = p, !.copy = Nothing])
    <3> DEFINE n == [s EXCEPT !.pc = p, !.copy = Nothing]
    <3>1. Shaped(n) /\ n.copy = Nothing /\ n.found = s.found
      BY <1>1 DEF Shaped
    <3> HIDE DEF n, s
    <3>2. HonestActor(n)
      BY <1>1, <3>1, NothingHonest DEF HonestActor
    <3> QED BY <3>2 DEF n
  <2>2. t \in {[s EXCEPT !.pc = "recorded", !.copy = Nothing], IdleActor,
               [s EXCEPT !.pc = "written", !.copy = Nothing]}
    OBVIOUS
  <2> HIDE DEF t, s
  <2> QED BY <2>1, <2>2, IdleHonest
<1>4. (Honest(registry))'
  <2> DEFINE old == EntryOf(s.copy, s.dev)
  <2>1. old.wifi \/ old.remote => s.dev \in asked
    BY <1>1 DEF EntryOf, Honest
  <2>2. \A r : Honest(r) => Honest(r)'
    BY <1>2 DEF Honest
  <2>3. CASE s.task \in {"enable", "pair"}
    <3>1. asked' = asked \cup {s.dev}
      BY <2>3 DEF Writes
    <3>2. PICK e : registry' = Remembered(s.copy, s.dev, e)
      BY <2>3 DEF Writes
    <3> QED BY <1>1, <3>1, <3>2 DEF Remembered, Honest
  <2>4. CASE s.task = "disable"
    <3>1. registry' = Remembered(s.copy, s.dev, EntryDisabled)
      BY <2>4 DEF Writes
    <3> QED BY <1>1, <1>2, <3>1 DEF Remembered, Honest, EntryDisabled
  <2>5. CASE s.task = "forget"
    <3>1. registry' = Without(s.copy, s.dev)
      BY <2>5 DEF Writes
    <3> QED BY <1>1, <1>2, <3>1 DEF Without, Honest
  <2>6. CASE s.task \notin {"enable", "pair", "disable", "forget"}
    <3>1. registry' = Remembered(s.copy, s.dev, old)
      BY <2>6 DEF Writes
    <3> HIDE DEF old
    <3> QED BY <1>1, <1>2, <2>1, <3>1 DEF Remembered, Honest
  <2> QED BY <2>3, <2>4, <2>5, <2>6
<1>5. actor' = [x \in Actors |-> IF x = a THEN t ELSE actor[x]]
  BY <1>2 DEF AskedInv, Goes
<1> HIDE DEF t
<1>6. \A x \in Actors : HonestActor(actor'[x])
  BY <1>3, <1>5 DEF AskedInv
<1>7. \A x \in Actors : HonestActor(actor[x])'
  BY <1>2, <1>6 DEF HonestActor, Shaped, Honest
<1>8. (instances \subseteq asked)' /\ OnlyAsked'
  BY <1>2 DEF AskedInv, OnlyAsked
<1> QED BY <1>4, <1>5, <1>7, <1>8 DEF AskedInv

LEMMA HandlerStep ==
  ASSUME AskedInv, NEW w \in Workers, Pokes(w) \/ Drops(w)
  PROVE  AskedInv'
<1>1. w \in Actors
  BY DEF Actors
<1>2. Goes(w, IdleActor) /\ UNCHANGED <<registry, instances, asked>> /\ seen' \subseteq seen
  BY DEF Pokes, Drops, Done, files, told, Unseen
<1>3. Honest(registry') /\ instances' \subseteq asked /\ \A ref \in seen' : ref[1] \in asked
  BY <1>2 DEF AskedInv, OnlyAsked
<1> QED BY <1>1, <1>2, <1>3, IdleHonest, OwnStep

LEMMA ForgetsStep ==
  ASSUME AskedInv, NEW w \in Workers, NEW d \in Known, Forgets(w, d)
  PROVE  AskedInv'
<1>1. CASE d \in DOMAIN registry
  BY <1>1, ReadsStep DEF Forgets
<1>2. CASE d \notin DOMAIN registry
  <2> DEFINE s == [actor[w] EXCEPT !.task = "forget", !.dev = d, !.pc = "written"]
  <2>1. w \in Actors
    BY DEF Actors
  <2>2. Goes(w, s) /\ UNCHANGED <<registry, seen, instances, asked>>
    BY <1>2 DEF Forgets, network, told
  <2>3. Shaped(actor[w]) /\ Honest(actor[w].copy) /\ \A ref \in actor[w].found : ref[1] \in asked
    BY <2>1 DEF AskedInv, HonestActor
  <2>4. Shaped(s) /\ s.copy = actor[w].copy /\ s.found = actor[w].found
    BY <2>3 DEF Shaped
  <2> HIDE DEF s
  <2>5. HonestActor(s)
    BY <2>3, <2>4 DEF HonestActor
  <2>6. Honest(registry') /\ instances' \subseteq asked /\ \A ref \in seen' : ref[1] \in asked
    BY <2>2 DEF AskedInv, OnlyAsked
  <2> QED BY <2>1, <2>2, <2>5, <2>6, OwnStep
<1> QED BY <1>1, <1>2

LEMMA AskedStep == AskedInv /\ [DiscoveryNext]_discoveryVars => AskedInv'
<1> SUFFICES ASSUME AskedInv, [DiscoveryNext]_discoveryVars PROVE AskedInv'
  OBVIOUS
<1>1. CASE SeenExpires
  <2>1. UNCHANGED <<registry, instances, actor, asked>> /\ seen' \subseteq seen
    BY <1>1 DEF SeenExpires, files, told
  <2> QED BY <2>1 DEF AskedInv, HonestActor, Shaped, Honest, OnlyAsked
<1>2. ASSUME NEW w \in Workers, NEW d \in Known,
             EnablesWifi(w, d) \/ DisablesWifi(w, d) \/ PairsBox(w, d) \/ Learns(w, d)
      PROVE  AskedInv'
  BY <1>2, ReadsStep DEF EnablesWifi, DisablesWifi, PairsBox, Learns
<1>3. CASE UNCHANGED discoveryVars
  <2>1. UNCHANGED <<registry, instances, actor, asked, seen>>
    BY <1>3 DEF discoveryVars, files, network, told
  <2> QED BY <2>1 DEF AskedInv, HonestActor, Shaped, Honest, OnlyAsked
<1> QED BY <1>1, <1>2, <1>3, SearchStep, ScanEndsStep, WriteStep, HandlerStep, ForgetsStep
        DEF DiscoveryNext

\* Whatever searches and writers overlap, and however old the copy each of
\* them writes back: only what somebody switched on or paired is offered.
THEOREM OffersAreAsked == DiscoverySpec => []OnlyAsked
<1>1. DiscoveryInit => AskedInv
  BY IdleHonest DEF DiscoveryInit, AskedInv, OnlyAsked, Honest, Nothing
<1>2. AskedInv => OnlyAsked
  BY DEF AskedInv
<1> QED BY <1>1, <1>2, AskedStep, PTL DEF DiscoverySpec

-------------------------------------------------------------------------------
(* The index of the accounts.                                              *)

\* An index, or somebody's copy of it, that notes no stranger for a team.
OwnersTrue(x) ==
  /\ DOMAIN x = {"active", "owner"} /\ DOMAIN x.owner = People
  /\ \A t \in People : x.owner[t] \in {t, Nobody, "absent"}

\* The account asked about is the one Apple is asked with, or none was named.
Matches(c) == c.about \in {c.api, Nobody}

\* What a thread holds: a true copy, and an account that fits the session it
\* uses from the answer of Apple on - for a sign-in from the saving on.
CallTrue(c) ==
  /\ DOMAIN c = {"pc", "task", "about", "api", "copy", "hit", "ids"}
  /\ OwnersTrue(c.copy)
  /\ c.pc \in {"listed", "noting"} => Matches(c)
  /\ c.task = "login" /\ c.pc \in {"mark", "choosing", "chosen"} => Matches(c)

OwnersInv ==
  /\ call = [j \in AccountJobs |-> call[j]]
  /\ \A j \in AccountJobs : CallTrue(call[j])
  /\ OwnersTrue(index)

LEMMA NoCallTrue == CallTrue(NoCall)
BY DEF CallTrue, NoCall, OwnersTrue, NoIndex

\* A step of one thread.
LEMMA OneCallGoesOn ==
  ASSUME OwnersInv, NEW j \in AccountJobs, NEW c, Becomes(j, c), CallTrue(c), OwnersTrue(index')
  PROVE  OwnersInv'
<1>1. call' = [i \in AccountJobs |-> IF i = j THEN c ELSE call[i]]
  BY DEF OwnersInv, Becomes
<1>2. \A i \in AccountJobs : CallTrue(call'[i])
  BY <1>1 DEF OwnersInv
<1> QED BY <1>1, <1>2 DEF OwnersInv, CallTrue, OwnersTrue, Matches

\* A thread that returns.
LEMMA OneReturns ==
  ASSUME OwnersInv, NEW j \in AccountJobs, Returns(j), OwnersTrue(index')
  PROVE  OwnersInv'
BY NoCallTrue, OneCallGoesOn DEF Returns

\* What the handlers make of a true copy is true.
LEMMA CopiesTrue ==
  ASSUME NEW x, OwnersTrue(x), NEW adsid, NEW next
  PROVE  OwnersTrue(Cleared(x, adsid, next)) /\ OwnersTrue([x EXCEPT !.active = adsid])
<1>1. OwnersTrue(Cleared(x, adsid, next))
  BY DEF Cleared, OwnersTrue
<1>2. OwnersTrue([x EXCEPT !.active = adsid])
  BY DEF OwnersTrue
<1> QED BY <1>1, <1>2

LEMMA NotedTrue ==
  ASSUME NEW c, OwnersTrue(c.copy), Matches(c)
  PROVE  OwnersTrue(Noted(c.copy, c.api, c.about))
BY DEF OwnersTrue, Noted, Matches

\* The fields a handler changes on its way.
LEMMA Changed ==
  ASSUME NEW c, CallTrue(c), NEW p, NEW x, NEW a
  PROVE  /\ LET n == [c EXCEPT !.pc = p] IN
            DOMAIN n = DOMAIN c /\ n.pc = p /\ n.task = c.task /\ n.about = c.about
            /\ n.api = c.api /\ n.copy = c.copy
         /\ LET n == [[c EXCEPT !.pc = p] EXCEPT !.copy = x] IN
            DOMAIN n = DOMAIN c /\ n.pc = p /\ n.task = c.task /\ n.about = c.about
            /\ n.api = c.api /\ n.copy = x
         /\ LET n == [[c EXCEPT !.pc = p] EXCEPT !.api = a] IN
            DOMAIN n = DOMAIN c /\ n.pc = p /\ n.task = c.task /\ n.about = c.about
            /\ n.api = a /\ n.copy = c.copy
         /\ LET n == [[c EXCEPT !.pc = p] EXCEPT !.copy = x, !.api = a] IN
            DOMAIN n = DOMAIN c /\ n.pc = p /\ n.task = c.task /\ n.about = c.about
            /\ n.api = a /\ n.copy = x
         /\ LET n == [[c EXCEPT !.pc = p] EXCEPT !.about = a] IN
            DOMAIN n = DOMAIN c /\ n.pc = p /\ n.task = c.task /\ n.about = a
            /\ n.api = c.api /\ n.copy = c.copy
BY DEF CallTrue

\* Session.load for a named account is that account's session or none.
LEMMA LoadsMatch == ASSUME NEW adsid, NEW a \in Loads(adsid), a # Nobody
                    PROVE  adsid \in {a, Nobody}
BY DEF Loads

-----------------------------------------------------------------------------

LEMMA BeginStep ==
  ASSUME OwnersInv, NEW j \in AccountJobs, NEW t, NEW a, Begin(j, t, a)
  PROVE  OwnersInv'
<1>1. PICK who : Becomes(j, [NoCall EXCEPT !.pc = "begun", !.task = t, !.about = who])
  BY DEF Begin
<1>2. CallTrue([NoCall EXCEPT !.pc = "begun", !.task = t, !.about = who])
  BY DEF NoCall, CallTrue, OwnersTrue, NoIndex
<1>3. OwnersTrue(index')
  BY DEF Begin, store, OwnersInv
<1> QED BY <1>1, <1>2, <1>3, OneCallGoesOn

\* The steps of a sign-in and of choosing an account.
LEMMA SignInStep ==
  ASSUME OwnersInv, NEW j \in AccountJobs,
         SavesSession(j) \/ Marks(j) \/ Chooses(j) \/ Chosen(j)
  PROVE  OwnersInv'
<1> DEFINE c == call[j]
<1>1. CallTrue(c) /\ OwnersTrue(index) /\ OwnersTrue(c.copy)
  BY DEF OwnersInv, CallTrue
<1>2. CASE SavesSession(j)
  <2>1. OwnersTrue(index')
    BY <1>1, <1>2 DEF SavesSession
  <2>2. CASE Returns(j)
    BY <2>1, <2>2, OneReturns
  <2>3. CASE Becomes(j, [On(j, "mark") EXCEPT !.copy = index, !.api = call[j].about])
    <3>1. CallTrue([On(j, "mark") EXCEPT !.copy = index, !.api = call[j].about])
      BY <1>1, Changed DEF CallTrue, On, Matches
    <3> QED BY <2>1, <2>3, <3>1, OneCallGoesOn
  <2> QED BY <1>2, <2>2, <2>3 DEF SavesSession
<1>3. CASE Marks(j)
  <2>1. OwnersTrue(index')
    BY <1>1, <1>3, CopiesTrue DEF Marks
  <2>2. CASE c.pc = "mark"
    <3>1. Becomes(j, On(j, "choosing"))
      BY <1>3, <2>2 DEF Marks
    <3>2. CallTrue(On(j, "choosing"))
      BY <1>1, <2>2, Changed DEF CallTrue, On, Matches
    <3> QED BY <2>1, <3>1, <3>2, OneCallGoesOn
  <2>3. CASE c.pc # "mark"
    BY <1>3, <2>1, <2>3, OneReturns DEF Marks
  <2> QED BY <2>2, <2>3
<1>4. CASE Chooses(j)
  <2>1. OwnersTrue(index')
    BY <1>1, <1>4 DEF Chooses, store
  <2>2. CASE c.about \in SignedIn
    <3>1. Becomes(j, [On(j, "chosen") EXCEPT !.copy = index])
      BY <1>4, <2>2 DEF Chooses
    <3>2. c.pc = "choosing" \/ c.task = "setActive"
      BY <1>4 DEF Chooses
    <3>3. CallTrue([On(j, "chosen") EXCEPT !.copy = index])
      BY <1>1, <3>2, Changed DEF CallTrue, On, Matches
    <3> QED BY <2>1, <3>1, <3>3, OneCallGoesOn
  <2>3. CASE c.about \notin SignedIn
    BY <1>4, <2>1, <2>3, OneReturns DEF Chooses
  <2> QED BY <2>2, <2>3
<1>5. CASE Chosen(j)
  <2>1. OwnersTrue(index')
    BY <1>1, <1>5, CopiesTrue DEF Chosen
  <2>2. CASE c.task = "login"
    <3>1. Becomes(j, On(j, "listed")) /\ c.pc = "chosen"
      BY <1>5, <2>2 DEF Chosen
    <3>2. CallTrue(On(j, "listed"))
      BY <1>1, <2>2, <3>1, Changed DEF CallTrue, On, Matches
    <3> QED BY <2>1, <3>1, <3>2, OneCallGoesOn
  <2>3. CASE c.task # "login"
    BY <1>5, <2>1, <2>3, OneReturns DEF Chosen
  <2> QED BY <2>2, <2>3
<1> QED BY <1>2, <1>3, <1>4, <1>5

\* The session for a request, and Apple's list of teams.
LEMMA TeamsStep ==
  ASSUME OwnersInv, NEW j \in AccountJobs, Api(j) \/ ListTeams(j) \/ NotesTeams(j)
  PROVE  OwnersInv'
<1> DEFINE c == call[j]
<1>1. CallTrue(c) /\ OwnersTrue(index) /\ OwnersTrue(c.copy)
  BY DEF OwnersInv, CallTrue
<1>2. CASE Api(j)
  <2>1. OwnersTrue(index')
    BY <1>1, <1>2 DEF Api, store
  <2>2. PICK a \in Loads(c.about) :
          IF a = Nobody THEN Returns(j)
          ELSE Becomes(j, [On(j, IF c.task = "name" THEN "naming" ELSE "listed") EXCEPT !.api = a])
    BY <1>2 DEF Api
  <2>3. CASE a = Nobody
    BY <2>1, <2>2, <2>3, OneReturns
  <2>4. CASE a # Nobody
    <3> DEFINE p == IF c.task = "name" THEN "naming" ELSE "listed"
    <3>1. Becomes(j, [On(j, p) EXCEPT !.api = a])
      BY <2>2, <2>4
    <3>2. c.about \in {a, Nobody}
      BY <2>4, LoadsMatch
    <3>3. p \notin {"mark", "choosing", "chosen"}
      OBVIOUS
    <3> HIDE DEF p
    <3>4. CallTrue([On(j, p) EXCEPT !.api = a])
      BY <1>1, <3>2, <3>3, Changed DEF CallTrue, On, Matches
    <3> QED BY <2>1, <3>1, <3>4, OneCallGoesOn
  <2> QED BY <2>3, <2>4
<1>3. CASE ListTeams(j)
  <2>1. OwnersTrue(index')
    BY <1>1, <1>3 DEF ListTeams, store
  <2>2. CASE Returns(j)
    BY <2>1, <2>2, OneReturns
  <2>3. CASE Becomes(j, [On(j, "noting") EXCEPT !.copy = index])
    <3>1. c.pc = "listed"
      BY <1>3 DEF ListTeams
    <3>2. CallTrue([On(j, "noting") EXCEPT !.copy = index])
      BY <1>1, <3>1, Changed DEF CallTrue, On, Matches
    <3> QED BY <2>1, <2>3, <3>2, OneCallGoesOn
  <2> QED BY <1>3, <2>2, <2>3 DEF ListTeams
<1>4. CASE NotesTeams(j)
  <2>1. c.pc = "noting" /\ Matches(c)
    BY <1>1, <1>4 DEF NotesTeams, CallTrue
  <2>2. OwnersTrue(Noted(c.copy, c.api, c.about))
    BY <1>1, <2>1, NotedTrue
  <2>3. OwnersTrue(index')
    BY <1>1, <1>4, <2>2 DEF NotesTeams, NotedFor
  <2>4. CASE c.task = "view"
    <3>1. Becomes(j, [On(j, "overview") EXCEPT !.hit = TRUE])
      BY <1>4, <2>4 DEF NotesTeams
    <3>2. CallTrue([On(j, "overview") EXCEPT !.hit = TRUE])
      BY <1>1 DEF CallTrue, On, Matches
    <3> QED BY <2>3, <3>1, <3>2, OneCallGoesOn
  <2>5. CASE c.task = "account"
    <3>1. Becomes(j, On(j, "naming"))
      BY <1>4, <2>5 DEF NotesTeams
    <3>2. CallTrue(On(j, "naming"))
      BY <1>1, Changed DEF CallTrue, On, Matches
    <3> QED BY <2>3, <3>1, <3>2, OneCallGoesOn
  <2>6. CASE c.task \notin {"view", "account"}
    BY <1>4, <2>3, <2>6, OneReturns DEF NotesTeams
  <2> QED BY <2>4, <2>5, <2>6
<1> QED BY <1>2, <1>3, <1>4

\* The first name.
LEMMA NameStep ==
  ASSUME OwnersInv, NEW j \in AccountJobs, LooksAtName(j) \/ SavesName(j)
  PROVE  OwnersInv'
<1> DEFINE c == call[j]
<1>1. CallTrue(c) /\ OwnersTrue(index)
  BY DEF OwnersInv
<1>2. OwnersTrue(index')
  BY <1>1 DEF LooksAtName, SavesName, store
<1>3. CASE LooksAtName(j)
  <2>1. PICK a \in Loads(c.about) :
          IF a = Nobody \/ session[a] = "named" THEN Returns(j)
          ELSE Becomes(j, [On(j, "leaving") EXCEPT !.about = a])
    BY <1>3 DEF LooksAtName
  <2>2. CallTrue([On(j, "leaving") EXCEPT !.about = a])
    BY <1>1, Changed DEF CallTrue, On, Matches
  <2>3. Returns(j) \/ Becomes(j, [On(j, "leaving") EXCEPT !.about = a])
    BY <2>1
  <2> QED BY <1>2, <2>2, <2>3, OneReturns, OneCallGoesOn
<1>4. CASE SavesName(j)
  <2>1. Becomes(j, [On(j, "named") EXCEPT !.copy = index])
    BY <1>4 DEF SavesName
  <2>2. CallTrue([On(j, "named") EXCEPT !.copy = index])
    BY <1>1, Changed DEF CallTrue, On, Matches
  <2> QED BY <1>2, <2>1, <2>2, OneCallGoesOn
<1> QED BY <1>3, <1>4

\* Apple's view of an account.
LEMMA ViewStep ==
  ASSUME OwnersInv, NEW j \in AccountJobs,
         Views(j) \/ AsksForIds(j) \/ StoresIds(j) \/ ViewFails(j)
  PROVE  OwnersInv'
<1> DEFINE c == call[j]
<1>1. CallTrue(c) /\ OwnersTrue(index)
  BY DEF OwnersInv
<1>2. OwnersTrue(index')
  BY <1>1 DEF Views, AsksForIds, StoresIds, ViewFails, store
<1>3. CASE Views(j)
  <2>1. CASE Becomes(j, [On(j, "overview") EXCEPT !.hit = TRUE])
    <3>1. CallTrue([On(j, "overview") EXCEPT !.hit = TRUE])
      BY <1>1 DEF CallTrue, On, Matches
    <3> QED BY <1>2, <2>1, <3>1, OneCallGoesOn
  <2>2. ASSUME NEW a \in Loads(c.about) \ {Nobody}, Becomes(j, [On(j, "listed") EXCEPT !.api = a])
        PROVE  OwnersInv'
    <3>1. c.about \in {a, Nobody}
      BY <2>2, LoadsMatch
    <3>2. CallTrue([On(j, "listed") EXCEPT !.api = a])
      BY <1>1, <3>1, Changed DEF CallTrue, On, Matches
    <3> QED BY <1>2, <2>2, <3>2, OneCallGoesOn
  <2> QED BY <1>3, <2>1, <2>2 DEF Views
<1>4. CASE AsksForIds(j)
  <2>1. PICK ids : Becomes(j, [On(j, "storing") EXCEPT !.ids = ids])
    BY <1>4 DEF AsksForIds
  <2>2. CallTrue([On(j, "storing") EXCEPT !.ids = ids])
    BY <1>1 DEF CallTrue, On, Matches
  <2> QED BY <1>2, <2>1, <2>2, OneCallGoesOn
<1>5. CASE StoresIds(j) \/ ViewFails(j)
  BY <1>2, <1>5, OneReturns DEF StoresIds, ViewFails
<1> QED BY <1>3, <1>4, <1>5

\* An App ID deleted at Apple, the cache cleared: of the other threads only
\* what they hold of Apple's side changes.
LEMMA DeleteStep ==
  ASSUME OwnersInv, NEW j \in AccountJobs, Deletes(j) \/ ClearsCache(j)
  PROVE  OwnersInv'
<1>1. CallTrue(call[j]) /\ OwnersTrue(index) /\ \A i \in AccountJobs : CallTrue(call[i])
  BY DEF OwnersInv
<1>2. OwnersTrue(index')
  BY <1>1 DEF Deletes, ClearsCache, store
<1>3. CallTrue(On(j, "clearing"))
  BY <1>1, Changed DEF CallTrue, On, Matches
<1>4. \A i \in AccountJobs : \A v :
        CallTrue([call[i] EXCEPT !.ids = v]) /\ CallTrue([call[i] EXCEPT !.hit = v])
  BY <1>1 DEF CallTrue, Matches
<1>5. ASSUME NEW new, \A i \in AccountJobs : CallTrue(new[i]), call' = [i \in AccountJobs |-> new[i]]
      PROVE  OwnersInv'
  <2>1. \A i \in AccountJobs : CallTrue(call'[i])
    BY <1>5
  <2>2. call' = [i \in AccountJobs |-> call'[i]]
    BY <1>5
  <2> QED BY <1>2, <2>1, <2>2 DEF OwnersInv, CallTrue, OwnersTrue, Matches
<1>6. CASE Deletes(j)
  <2>1. CASE Returns(j)
    BY <1>2, <2>1, OneReturns
  <2>2. ASSUME NEW c, CallTrue(c), NEW how, Ages(j, c, how) PROVE OwnersInv'
    <3> DEFINE new == [i \in AccountJobs |-> IF i = j THEN c ELSE [call[i] EXCEPT !.ids = Aged(@, how)]]
    <3>1. call' = new
      BY <2>2 DEF Ages
    <3>2. \A i \in AccountJobs : CallTrue(new[i])
      BY <1>4, <2>2
    <3>3. call' = [i \in AccountJobs |-> new[i]]
      BY <3>1
    <3> HIDE DEF new
    <3> QED BY <1>5, <3>2, <3>3
  <2> QED BY <1>3, <1>6, <2>1, <2>2, NoCallTrue DEF Deletes
<1>7. CASE ClearsCache(j)
  <2> DEFINE new == [i \in AccountJobs |-> IF i = j THEN NoCall ELSE [call[i] EXCEPT !.hit = FALSE]]
  <2>1. call' = new
    BY <1>7 DEF ClearsCache
  <2>2. \A i \in AccountJobs : CallTrue(new[i])
    BY <1>4, NoCallTrue
  <2>3. call' = [i \in AccountJobs |-> new[i]]
    BY <2>1
  <2> HIDE DEF new
  <2> QED BY <1>5, <2>2, <2>3
<1> QED BY <1>6, <1>7

\* Signing out.
LEMMA SignOutStep ==
  ASSUME OwnersInv, NEW j \in AccountJobs, Unlinks(j) \/ Leaves(j)
  PROVE  OwnersInv'
<1> DEFINE c == call[j]
<1>1. CallTrue(c) /\ OwnersTrue(index) /\ OwnersTrue(c.copy)
  BY DEF OwnersInv, CallTrue
<1>2. CASE Unlinks(j)
  <2>1. OwnersTrue(index')
    BY <1>1, <1>2 DEF Unlinks
  <2>2. CallTrue([On(j, "leaving") EXCEPT !.copy = index])
    BY <1>1, Changed DEF CallTrue, On, Matches
  <2>3. Returns(j) \/ Becomes(j, [On(j, "leaving") EXCEPT !.copy = index])
    BY <1>2 DEF Unlinks
  <2> QED BY <2>1, <2>2, <2>3, OneReturns, OneCallGoesOn
<1>3. CASE Leaves(j)
  <2>1. OwnersTrue(index') /\ Returns(j)
    BY <1>1, <1>3, CopiesTrue DEF Leaves
  <2> QED BY <2>1, OneReturns
<1> QED BY <1>2, <1>3

LEMMA OwnersStep == OwnersInv /\ [AccountsNext]_accountVars => OwnersInv'
<1> SUFFICES ASSUME OwnersInv, [AccountsNext]_accountVars PROVE OwnersInv'
  OBVIOUS
<1>1. ASSUME NEW j \in AccountJobs, AccountStep(j) PROVE OwnersInv'
  BY <1>1, SignInStep, TeamsStep, NameStep, ViewStep, DeleteStep, SignOutStep DEF AccountStep
<1>2. ASSUME NEW j \in AccountJobs, NEW t \in Tasks, NEW a \in Someone, Begin(j, t, a) PROVE OwnersInv'
  BY <1>2, BeginStep
<1>3. CASE UNCHANGED accountVars
  BY <1>3 DEF accountVars, OwnersInv, CallTrue, OwnersTrue, Matches
<1> QED BY <1>1, <1>2, <1>3 DEF AccountsNext

\* However sign-ins, sign-outs, look-ups and views overlap: a team is noted
\* for its own account, for none, or not at all.
THEOREM TeamsStayTrue == AccountsSpec => []TeamsTrue
<1>1. AccountsInit => OwnersInv
  BY NoCallTrue DEF AccountsInit, OwnersInv, OwnersTrue, NoIndex
<1>2. OwnersInv => TeamsTrue
  BY DEF OwnersInv, OwnersTrue, TeamsTrue
<1> QED BY <1>1, <1>2, OwnersStep, PTL DEF AccountsSpec

-----------------------------------------------------------------------------
(* What is cached of Apple's side.                                         *)

NoneClears == \A j \in AccountJobs : call[j].pc # "clearing"

\* The places of a view under its lock.
Viewing == {"listed", "noting", "overview", "storing"}

\* App IDs are only held on the way into the entry, and a view holds none
\* that are older than what may go into an entry of the cache.
CallFresh(c) ==
  /\ DOMAIN c = {"pc", "task", "about", "api", "copy", "hit", "ids"}
  /\ c.about \in Someone
  /\ c.pc # "storing" => c.ids = "none"

FreshInv ==
  /\ call = [j \in AccountJobs |-> call[j]] /\ cache = [a \in Someone |-> cache[a]]
  /\ \A j \in AccountJobs : CallFresh(call[j])
  /\ \A j \in AccountJobs : viewing = j => call[j].task = "view" /\ call[j].pc \in Viewing
  /\ NoneClears => /\ \A a \in Someone : cache[a] # "outdated"
                   /\ \A j \in AccountJobs : call[j].hit => call[j].ids # "outdated"

\* A step of one thread that does not come from clearing.
LEMMA FreshGoesOn ==
  ASSUME FreshInv, NEW j \in AccountJobs, NEW c, Becomes(j, c), call[j].pc # "clearing",
         CallFresh(c), cache' = [a \in Someone |-> cache'[a]],
         viewing' = j => c.task = "view" /\ c.pc \in Viewing,
         \A i \in AccountJobs : i # j /\ viewing' = i => viewing = i,
         NoneClears /\ c.pc # "clearing" =>
           /\ \A a \in Someone : cache'[a] # "outdated"
           /\ c.hit => c.ids # "outdated"
  PROVE  FreshInv'
<1>1. call' = [i \in AccountJobs |-> IF i = j THEN c ELSE call[i]]
  BY DEF FreshInv, Becomes
<1>2. call'[j] = c /\ \A i \in AccountJobs \ {j} : call'[i] = call[i]
  BY <1>1
<1>3. NoneClears' => NoneClears /\ c.pc # "clearing"
  BY <1>2 DEF NoneClears
<1> QED BY <1>1, <1>2, <1>3 DEF FreshInv, CallFresh

\* The steps that leave Apple's view alone.
LEMMA FreshAside ==
  ASSUME FreshInv, NEW j \in AccountJobs, NEW c, Becomes(j, c), UNCHANGED appleView, viewing # j,
         call[j].pc # "clearing", CallFresh(c), c.pc # "clearing", c.pc # "storing"
  PROVE  FreshInv'
<1>1. NoneClears => \A a \in Someone : cache'[a] # "outdated"
  BY DEF FreshInv, appleView
<1>2. c.ids # "outdated"
  BY DEF CallFresh
<1>3. cache' = [a \in Someone |-> cache'[a]] /\ viewing' = viewing
  BY DEF FreshInv, appleView
<1> QED BY <1>1, <1>2, <1>3, FreshGoesOn

LEMMA NoCallFresh == CallFresh(NoCall) /\ NoCall.pc = "idle" /\ ~NoCall.hit /\ NoCall.ids = "none"
BY DEF CallFresh, NoCall, Someone

LEMMA LoadsSomeone == ASSUME NEW adsid PROVE ActiveAdsids \subseteq Someone /\ Loads(adsid) \subseteq Someone
BY DEF Loads, ActiveAdsids, Firsts, SignedIn, Someone

\* Signing in and out, choosing, naming, the start of a request.
LEMMA FreshElsewhere ==
  ASSUME FreshInv, NEW j \in AccountJobs,
         \/ SavesSession(j) \/ Marks(j) \/ Chooses(j) \/ Chosen(j) \/ Api(j)
         \/ LooksAtName(j) \/ SavesName(j) \/ Unlinks(j) \/ Leaves(j)
         \/ \E t : \E a \in Someone : Begin(j, t, a)
  PROVE  FreshInv'
<1> DEFINE c == call[j]
<1>1. c.pc \in {"idle", "begun", "mark", "choosing", "chosen", "naming", "named", "leaving"}
      /\ UNCHANGED appleView
  BY DEF SavesSession, Marks, Chooses, Chosen, Api, LooksAtName, SavesName, Unlinks, Leaves, Begin
<1>2. CallFresh(c) /\ viewing # j /\ c.pc # "clearing" /\ c.pc # "storing"
  BY <1>1 DEF FreshInv, Viewing
<1>3. CASE Returns(j)
  BY <1>1, <1>2, <1>3, NoCallFresh, FreshAside DEF Returns
<1>4. ASSUME NEW p \in {"mark", "choosing", "chosen", "listed", "naming", "leaving", "named"}, NEW x, NEW a \in Someone,
             \/ Becomes(j, [c EXCEPT !.pc = p])
             \/ Becomes(j, [[c EXCEPT !.pc = p] EXCEPT !.copy = x])
             \/ Becomes(j, [[c EXCEPT !.pc = p] EXCEPT !.api = a])
             \/ Becomes(j, [[c EXCEPT !.pc = p] EXCEPT !.copy = x, !.api = a])
             \/ Becomes(j, [[c EXCEPT !.pc = p] EXCEPT !.about = a])
      PROVE  FreshInv'
  <2>1. p # "clearing" /\ p # "storing" /\ CallFresh(c) /\ c.pc # "storing"
    BY <1>2, <1>4
  <2>2. ASSUME NEW n, Becomes(j, n), CallFresh(n), n.pc = p PROVE FreshInv'
    BY <1>1, <1>2, <2>1, <2>2, FreshAside
  <2> HIDE DEF c
  <2>3. CASE Becomes(j, [c EXCEPT !.pc = p])
    <3> DEFINE n == [c EXCEPT !.pc = p]
    <3>1. CallFresh(n) /\ n.pc = p
      BY <2>1 DEF CallFresh
    <3> HIDE DEF n
    <3> QED BY <2>2, <2>3, <3>1 DEF n
  <2>4. CASE Becomes(j, [[c EXCEPT !.pc = p] EXCEPT !.copy = x])
    <3> DEFINE n == [[c EXCEPT !.pc = p] EXCEPT !.copy = x]
    <3>1. CallFresh(n) /\ n.pc = p
      BY <2>1 DEF CallFresh
    <3> HIDE DEF n
    <3> QED BY <2>2, <2>4, <3>1 DEF n
  <2>5. CASE Becomes(j, [[c EXCEPT !.pc = p] EXCEPT !.api = a])
    <3> DEFINE n == [[c EXCEPT !.pc = p] EXCEPT !.api = a]
    <3>1. CallFresh(n) /\ n.pc = p
      BY <2>1 DEF CallFresh
    <3> HIDE DEF n
    <3> QED BY <2>2, <2>5, <3>1 DEF n
  <2>6. CASE Becomes(j, [[c EXCEPT !.pc = p] EXCEPT !.copy = x, !.api = a])
    <3> DEFINE n == [[c EXCEPT !.pc = p] EXCEPT !.copy = x, !.api = a]
    <3>1. CallFresh(n) /\ n.pc = p
      BY <2>1 DEF CallFresh
    <3> HIDE DEF n
    <3> QED BY <2>2, <2>6, <3>1 DEF n
  <2>7. CASE Becomes(j, [[c EXCEPT !.pc = p] EXCEPT !.about = a])
    <3> DEFINE n == [[c EXCEPT !.pc = p] EXCEPT !.about = a]
    <3>1. CallFresh(n) /\ n.pc = p
      BY <2>1 DEF CallFresh
    <3> HIDE DEF n
    <3> QED BY <2>2, <2>7, <3>1 DEF n
  <2> QED BY <1>4, <2>3, <2>4, <2>5, <2>6, <2>7
<1>5. ASSUME NEW t, NEW a \in Someone, Begin(j, t, a) PROVE FreshInv'
  <2>1. PICK who \in Someone : Becomes(j, [NoCall EXCEPT !.pc = "begun", !.task = t, !.about = who])
    BY <1>5, LoadsSomeone DEF Begin
  <2> DEFINE n == [NoCall EXCEPT !.pc = "begun", !.task = t, !.about = who]
  <2>2. CallFresh(n) /\ n.pc = "begun"
    BY DEF CallFresh, NoCall
  <2> HIDE DEF n
  <2> QED BY <1>1, <1>2, <2>1, <2>2, FreshAside DEF n
<1>6. ~(\E t : \E a \in Someone : Begin(j, t, a)) /\ ~Returns(j) =>
        \E p \in {"mark", "choosing", "chosen", "listed", "naming", "leaving", "named"} : \E x : \E a \in Someone :
          \/ Becomes(j, [c EXCEPT !.pc = p])
          \/ Becomes(j, [[c EXCEPT !.pc = p] EXCEPT !.copy = x])
          \/ Becomes(j, [[c EXCEPT !.pc = p] EXCEPT !.api = a])
          \/ Becomes(j, [[c EXCEPT !.pc = p] EXCEPT !.copy = x, !.api = a])
          \/ Becomes(j, [[c EXCEPT !.pc = p] EXCEPT !.about = a])
  BY <1>2, LoadsSomeone
     DEF SavesSession, Marks, Chooses, Chosen, Api, LooksAtName, SavesName, Unlinks, Leaves, On, CallFresh
<1> QED BY <1>3, <1>4, <1>5, <1>6

\* Apple's list of teams; a view then puts its entry in the cache.
LEMMA FreshTeams ==
  ASSUME FreshInv, NEW j \in AccountJobs, ListTeams(j) \/ NotesTeams(j)
  PROVE  FreshInv'
<1> DEFINE c == call[j]
<1>1. CallFresh(c) /\ c.pc \in {"listed", "noting"} /\ c.ids = "none"
      /\ cache = [a \in Someone |-> cache[a]] /\ (viewing = j => c.task = "view")
      /\ (NoneClears => \A a \in Someone : cache[a] # "outdated")
  BY DEF FreshInv, ListTeams, NotesTeams, CallFresh
<1>2. viewing' = viewing
  BY DEF ListTeams, NotesTeams, appleView
<1>3. CASE viewing # j /\ Returns(j) /\ cache' = cache
  BY <1>1, <1>2, <1>3, NoCallFresh, FreshAside DEF Returns, appleView
<1>4. ASSUME NEW n, Becomes(j, n), CallFresh(n), n.task = c.task, n.ids = "none", n.pc \in Viewing, cache' = cache
      PROVE  FreshInv'
  BY <1>1, <1>2, <1>4, FreshGoesOn DEF Viewing
<1>5. CASE ListTeams(j)
  <2> DEFINE n == [On(j, "noting") EXCEPT !.copy = index]
  <2>1. CallFresh(n) /\ n.task = c.task /\ n.ids = "none" /\ n.pc = "noting"
    BY <1>1 DEF CallFresh, On
  <2>2. (Becomes(j, n) \/ (Returns(j) /\ viewing # j)) /\ cache' = cache
    BY <1>5 DEF ListTeams, appleView
  <2> HIDE DEF n, c
  <2> QED BY <1>3, <1>4, <2>1, <2>2 DEF Viewing
<1>6. CASE NotesTeams(j)
  <2>1. CASE c.task = "view"
    <3> DEFINE n == [On(j, "overview") EXCEPT !.hit = TRUE]
    <3>1. CallFresh(n) /\ n.task = "view" /\ n.ids = "none" /\ n.pc = "overview"
      BY <1>1, <2>1 DEF CallFresh, On
    <3>2. Becomes(j, n) /\ cache' = [cache EXCEPT ![c.about] = "teams"]
      BY <1>6, <2>1 DEF NotesTeams
    <3>3. cache' = [a \in Someone |-> cache'[a]] /\ (NoneClears => \A a \in Someone : cache'[a] # "outdated")
      BY <1>1, <3>2
    <3> HIDE DEF n
    <3> QED BY <1>1, <1>2, <3>1, <3>2, <3>3, FreshGoesOn DEF Viewing
  <2>2. CASE c.task = "account"
    <3> DEFINE n == On(j, "naming")
    <3>1. CallFresh(n) /\ n.pc = "naming"
      BY <1>1 DEF CallFresh, On
    <3>2. Becomes(j, n) /\ cache' = cache /\ viewing # j
      BY <1>1, <1>6, <2>2 DEF NotesTeams
    <3> HIDE DEF n
    <3> QED BY <1>1, <1>2, <3>1, <3>2, FreshAside DEF appleView
  <2>3. CASE c.task \notin {"view", "account"}
    BY <1>1, <1>3, <1>6, <2>3 DEF NotesTeams
  <2> QED BY <2>1, <2>2, <2>3
<1> QED BY <1>5, <1>6

\* The view itself, under its lock.
LEMMA FreshView ==
  ASSUME FreshInv, NEW j \in AccountJobs, Views(j) \/ AsksForIds(j) \/ StoresIds(j) \/ ViewFails(j)
  PROVE  FreshInv'
<1> DEFINE c == call[j]
<1>1. CallFresh(c) /\ cache = [a \in Someone |-> cache[a]] /\ Nobody \notin AccountJobs
      /\ (viewing = j => c.task = "view" /\ c.pc \in Viewing)
      /\ (NoneClears => (\A a \in Someone : cache[a] # "outdated") /\ (c.hit => c.ids # "outdated"))
  BY AccountsAssumption DEF FreshInv
<1>2. CASE Views(j)
  <2>1. c.ids = "none" /\ c.pc = "begun" /\ c.task = "view"
    BY <1>1, <1>2 DEF Views, CallFresh
  <2>2. viewing' = j /\ viewing = Nobody /\ cache' = cache
    BY <1>2 DEF Views
  <2>3. ASSUME NEW n, Becomes(j, n), CallFresh(n), n.task = "view", n.ids = "none", n.pc \in Viewing
        PROVE  FreshInv'
    BY <1>1, <2>1, <2>2, <2>3, FreshGoesOn DEF Viewing
  <2>4. CASE Becomes(j, [On(j, "overview") EXCEPT !.hit = TRUE])
    <3> DEFINE n == [On(j, "overview") EXCEPT !.hit = TRUE]
    <3>1. CallFresh(n) /\ n.task = "view" /\ n.ids = "none" /\ n.pc = "overview"
      BY <1>1, <2>1 DEF CallFresh, On
    <3> HIDE DEF n
    <3> QED BY <2>3, <2>4, <3>1 DEF n, Viewing
  <2>5. ASSUME NEW a, Becomes(j, [On(j, "listed") EXCEPT !.api = a]) PROVE FreshInv'
    <3> DEFINE n == [On(j, "listed") EXCEPT !.api = a]
    <3>1. CallFresh(n) /\ n.task = "view" /\ n.ids = "none" /\ n.pc = "listed"
      BY <1>1, <2>1 DEF CallFresh, On
    <3> HIDE DEF n
    <3> QED BY <2>3, <2>5, <3>1 DEF n, Viewing
  <2> QED BY <1>2, <2>4, <2>5 DEF Views
<1>3. CASE AsksForIds(j)
  <2> DEFINE v == IF c.hit /\ cache[c.about] \in {"ids", "outdated", "unreported"}
                  THEN cache[c.about] ELSE "ids"
  <2> DEFINE n == [On(j, "storing") EXCEPT !.ids = v]
  <2>1. Becomes(j, n) /\ c.pc = "overview" /\ UNCHANGED appleView
    BY <1>3 DEF AsksForIds
  <2>2. CallFresh(n) /\ n.task = c.task /\ n.ids = v /\ n.pc = "storing"
    BY <1>1 DEF CallFresh, On
  <2>3. NoneClears => v # "outdated"
    BY <1>1 DEF CallFresh
  <2> HIDE DEF n, v
  <2> QED BY <1>1, <2>1, <2>2, <2>3, FreshGoesOn DEF appleView, Viewing
<1>4. CASE StoresIds(j)
  <2>1. c.pc = "storing" /\ cache' = Stored(c) /\ viewing' = Nobody /\ Becomes(j, NoCall)
    BY <1>4 DEF StoresIds, Returns
  <2>2. cache' = [a \in Someone |-> cache'[a]] /\ (NoneClears => \A a \in Someone : cache'[a] # "outdated")
    BY <1>1, <2>1 DEF Stored
  <2> QED BY <1>1, <2>1, <2>2, NoCallFresh, FreshGoesOn
<1>5. CASE ViewFails(j)
  <2>1. viewing = j /\ cache' = cache /\ viewing' = Nobody /\ Becomes(j, NoCall)
    BY <1>5 DEF ViewFails, Returns
  <2> QED BY <1>1, <2>1, NoCallFresh, FreshGoesOn DEF Viewing
<1> QED BY <1>2, <1>3, <1>4, <1>5

\* An App ID is deleted: what is known of the others is outdated, and the
\* thread is on its way to clear the cache - or its handler ends with an error.
LEMMA FreshDelete ==
  ASSUME FreshInv, NEW j \in AccountJobs, Deletes(j)
  PROVE  FreshInv'
<1> DEFINE c == call[j]
<1>1. CallFresh(c) /\ c.pc = "listed" /\ c.task = "delete" /\ viewing # j /\ viewing' = viewing
  BY DEF FreshInv, Deletes
<1>2. CASE Returns(j) /\ cache' = cache
  BY <1>1, <1>2, NoCallFresh, FreshAside DEF Returns, appleView
<1>3. ASSUME NEW next, CallFresh(next), NEW how, Ages(j, next, how),
             next.pc = "clearing" \/ (~next.hit /\ how = "unreported")
      PROVE  FreshInv'
  <2> DEFINE new(i) == IF i = j THEN next ELSE [call[i] EXCEPT !.ids = Aged(@, how)]
  <2>1. ASSUME NEW i \in AccountJobs, i # j
        PROVE  /\ CallFresh(new(i)) /\ new(i).pc = call[i].pc /\ new(i).task = call[i].task
               /\ new(i).hit = call[i].hit /\ new(i).ids = Aged(call[i].ids, how)
    BY <2>1 DEF FreshInv, CallFresh, Aged
  <2>2. new(j) = next
    OBVIOUS
  <2>3. call' = [i \in AccountJobs |-> new(i)] /\ cache' = [a \in Someone |-> cache'[a]]
        /\ \A a \in Someone : cache'[a] = Aged(cache[a], how)
    BY <1>3 DEF Ages
  <2> HIDE DEF new
  <2>4. \A i \in AccountJobs : call'[i] = new(i)
    BY <2>3
  <2>5. \A i \in AccountJobs : CallFresh(call'[i])
    BY <1>3, <2>1, <2>2, <2>4
  <2>6. \A i \in AccountJobs : viewing' = i => call'[i].task = "view" /\ call'[i].pc \in Viewing
    BY <1>1, <2>1, <2>4 DEF FreshInv
  <2>7. ASSUME NoneClears'
        PROVE  /\ \A a \in Someone : cache'[a] # "outdated"
               /\ \A i \in AccountJobs : call'[i].hit => call'[i].ids # "outdated"
    <3>1. NoneClears /\ ~next.hit /\ how = "unreported"
      BY <1>1, <1>3, <2>1, <2>2, <2>4, <2>7 DEF NoneClears
    <3>2. /\ \A a \in Someone : cache[a] # "outdated"
          /\ \A i \in AccountJobs : call[i].hit => call[i].ids # "outdated"
      BY <3>1 DEF FreshInv
    <3>3. \A v : v # "outdated" => Aged(v, "unreported") # "outdated"
      BY DEF Aged
    <3> QED BY <2>1, <2>2, <2>3, <2>4, <3>1, <3>2, <3>3
  <2> QED BY <2>3, <2>4, <2>5, <2>6, <2>7 DEF FreshInv
<1>4. On(j, "clearing").pc = "clearing" /\ CallFresh(On(j, "clearing"))
  BY <1>1 DEF On, CallFresh
<1> QED BY <1>2, <1>3, <1>4, NoCallFresh DEF Deletes

\* The cache is cleared, and no view has an entry of it in hand any more.
LEMMA FreshClear ==
  ASSUME FreshInv, NEW j \in AccountJobs, ClearsCache(j)
  PROVE  FreshInv'
<1>1. call[j].pc = "clearing" /\ viewing # j /\ viewing' = viewing
  BY DEF FreshInv, ClearsCache, Viewing
<1>2. \A i \in AccountJobs :
        LET n == [call[i] EXCEPT !.hit = FALSE] IN
        CallFresh(n) /\ n.pc = call[i].pc /\ n.task = call[i].task /\ ~n.hit
  BY DEF FreshInv, CallFresh
<1> DEFINE new(i) == IF i = j THEN NoCall ELSE [call[i] EXCEPT !.hit = FALSE]
<1>3. \A i \in AccountJobs : CallFresh(new(i)) /\ ~new(i).hit
        /\ (i # j => new(i).pc = call[i].pc /\ new(i).task = call[i].task)
  BY <1>2, NoCallFresh
<1>4. call' = [i \in AccountJobs |-> new(i)] /\ cache' = [a \in Someone |-> "none"]
  BY DEF ClearsCache
<1> HIDE DEF new
<1>5. \A i \in AccountJobs : call'[i] = new(i)
  BY <1>4
<1> QED BY <1>1, <1>3, <1>4, <1>5 DEF FreshInv

LEMMA FreshStep == FreshInv /\ [AccountsNext]_accountVars => FreshInv'
<1> SUFFICES ASSUME FreshInv, [AccountsNext]_accountVars PROVE FreshInv'
  OBVIOUS
<1>1. ASSUME NEW j \in AccountJobs, AccountStep(j) PROVE FreshInv'
  BY <1>1, FreshElsewhere, FreshTeams, FreshView, FreshDelete, FreshClear DEF AccountStep
<1>2. ASSUME NEW j \in AccountJobs, NEW t \in Tasks, NEW a \in Someone, Begin(j, t, a) PROVE FreshInv'
  BY <1>2, FreshElsewhere
<1>3. CASE UNCHANGED accountVars
  BY <1>3 DEF accountVars, FreshInv, CallFresh, NoneClears
<1> QED BY <1>1, <1>2, <1>3 DEF AccountsNext

\* When every deletion that succeeded has cleared the cache behind it, nothing in
\* the cache is older than the last of them - whatever views were under way.  (What
\* Apple deleted without the handler learning of it is "unreported".)
THEOREM ViewsAreFresh == AccountsSpec => []ViewFresh
<1>1. AccountsInit => FreshInv
  <2> SUFFICES ASSUME AccountsInit PROVE FreshInv
    OBVIOUS
  <2>1. \A j \in AccountJobs : call[j] = NoCall /\ viewing # j
    BY AccountsAssumption DEF AccountsInit
  <2> QED BY <2>1, NoCallFresh DEF AccountsInit, FreshInv
<1>2. FreshInv => ViewFresh
  BY DEF FreshInv, ViewFresh, NoneClears
<1> QED BY <1>1, <1>2, FreshStep, PTL DEF AccountsSpec

\* A thread's job, and everything else of the accounts.
AccountCall ==
  [pc : {"idle", "begun", "mark", "choosing", "chosen", "listed", "noting", "naming", "named",
         "overview", "storing", "clearing", "leaving"},
   task : Tasks, about : Someone, api : Someone, copy : Index, hit : BOOLEAN, ids : CacheEntry]

\* The fields a handler changes keep their types.
LEMMA CallStays ==
  ASSUME NEW c \in AccountCall, NEW x \in Index, NEW a \in Someone, NEW v \in CacheEntry, NEW b \in BOOLEAN
  PROVE  /\ [c EXCEPT !.copy = x] \in AccountCall
         /\ [c EXCEPT !.api = a] \in AccountCall
         /\ [c EXCEPT !.about = a] \in AccountCall
         /\ [c EXCEPT !.hit = b] \in AccountCall
         /\ [c EXCEPT !.ids = v] \in AccountCall
         /\ [c EXCEPT !.copy = x, !.api = a] \in AccountCall
BY DEF AccountCall

LEMMA PlacesStay ==
  ASSUME AccountsTypeOK, NEW j \in AccountJobs
  PROVE  /\ call[j] \in AccountCall
         /\ \A p \in {"mark", "choosing", "chosen", "listed", "noting", "naming", "named",
                      "overview", "storing", "clearing", "leaving"} : On(j, p) \in AccountCall
<1>1. call[j] \in AccountCall
  BY DEF AccountsTypeOK, AccountCall
<1> QED BY <1>1 DEF On, AccountCall

LEMMA NoCallTyped == NoCall \in AccountCall /\ NoIndex \in Index
<1>1. NoIndex \in Index
  BY DEF NoIndex, Index, Someone
<1> QED BY <1>1 DEF NoCall, AccountCall, Tasks, Someone, CacheEntry

\* What the handlers make of an index is one.
LEMMA IndexStays ==
  ASSUME NEW x \in Index, NEW a \in Someone, NEW b \in Someone
  PROVE  /\ [x EXCEPT !.active = a] \in Index
         /\ Noted(x, a, b) \in Index
         /\ Cleared(x, a, b) \in Index
<1>1. x.active \in Someone /\ x.owner \in [People -> Someone \cup {"absent"}]
  BY DEF Index
<1>2. [x EXCEPT !.active = a] \in Index
  BY DEF Index
<1>3. Noted(x, a, b) \in Index
  <2>1. [x.owner EXCEPT ![a] = b] \in [People -> Someone \cup {"absent"}]
    BY <1>1
  <2>2. Noted(x, a, b) = [x EXCEPT !.owner = [x.owner EXCEPT ![a] = b]]
    BY DEF Noted, Index
  <2> QED BY <2>1, <2>2 DEF Index
<1>4. Cleared(x, a, b) \in Index
  BY <1>1 DEF Cleared, Index
<1> QED BY <1>2, <1>3, <1>4

\* One thread goes on; the rest keeps its types.
LEMMA TypesGoOn ==
  ASSUME AccountsTypeOK, NEW j \in AccountJobs, NEW c \in AccountCall, Becomes(j, c),
         session' \in [People -> {"none", "unnamed", "named"}], index' \in Index,
         cache' \in [Someone -> CacheEntry], viewing' \in AccountJobs \cup {Nobody},
         looked' \subseteq People, requests' \in 0 .. MaxRequests
  PROVE  AccountsTypeOK'
<1>1. call \in [AccountJobs -> AccountCall]
  BY DEF AccountsTypeOK, AccountCall
<1>2. call' \in [AccountJobs -> AccountCall]
  BY <1>1 DEF Becomes
<1> QED BY <1>2 DEF AccountsTypeOK, AccountCall

LEMMA SessionsTyped ==
  ASSUME AccountsTypeOK
  PROVE  /\ SignedIn \subseteq People /\ Nobody \in Someone /\ People \subseteq Someone
         /\ ActiveAdsids \subseteq Someone
         /\ \A a \in Someone : Loads(a) \subseteq Someone
<1>1. SignedIn \subseteq People /\ Nobody \in Someone /\ People \subseteq Someone
  BY DEF SignedIn, Someone
<1>2. ActiveAdsids \subseteq Someone
  BY <1>1 DEF ActiveAdsids, Firsts, AccountsTypeOK, Index
<1> QED BY <1>1, <1>2 DEF Loads

LEMMA AccountStepTyped ==
  ASSUME AccountsTypeOK, NEW j \in AccountJobs, AccountStep(j)
  PROVE  AccountsTypeOK'
<1>0. /\ call[j] \in AccountCall /\ NoCall \in AccountCall
      /\ \A p \in {"mark", "choosing", "chosen", "listed", "noting", "naming", "named",
                   "overview", "storing", "clearing", "leaving"} : On(j, p) \in AccountCall
      /\ call[j].about \in Someone /\ call[j].api \in Someone /\ call[j].copy \in Index
      /\ call[j].ids \in CacheEntry
  BY PlacesStay, NoCallTyped DEF AccountCall
<1>1. /\ session \in [People -> {"none", "unnamed", "named"}] /\ index \in Index
      /\ cache \in [Someone -> CacheEntry] /\ viewing \in AccountJobs \cup {Nobody}
      /\ looked \subseteq People /\ requests \in 0 .. MaxRequests
  BY DEF AccountsTypeOK
<1>2. /\ SignedIn \subseteq People /\ Nobody \in Someone
      /\ \A a \in Someone : Loads(a) \subseteq Someone
  BY SessionsTyped
<1>3. ASSUME NEW a, NEW v \in {"none", "unnamed", "named"}
      PROVE  [session EXCEPT ![a] = v] \in [People -> {"none", "unnamed", "named"}]
  BY <1>1
<1>4. ASSUME NEW a, NEW v \in CacheEntry PROVE [cache EXCEPT ![a] = v] \in [Someone -> CacheEntry]
  BY <1>1
<1> USE DEF store, rest, appleView, Returns
<1>5. CASE SavesSession(j)
  <2>1. CASE Returns(j) /\ UNCHANGED session
    BY <1>0, <1>1, <1>5, <2>1, TypesGoOn DEF SavesSession
  <2>2. CASE session' = [session EXCEPT ![call[j].about] = "named"]
             /\ Becomes(j, [On(j, "mark") EXCEPT !.copy = index, !.api = call[j].about])
    <3>1. [On(j, "mark") EXCEPT !.copy = index, !.api = call[j].about] \in AccountCall
      BY <1>0, <1>1, CallStays
    <3> QED BY <1>1, <1>3, <1>5, <2>2, <3>1, TypesGoOn DEF SavesSession
  <2> QED BY <1>5, <2>1, <2>2 DEF SavesSession
<1>6. CASE Marks(j)
  <2>1. index' \in Index
    BY <1>0, <1>1, <1>6, IndexStays DEF Marks
  <2> QED BY <1>0, <1>1, <1>6, <2>1, TypesGoOn DEF Marks
<1>7. CASE Chooses(j)
  <2>1. [On(j, "chosen") EXCEPT !.copy = index] \in AccountCall
    BY <1>0, <1>1, CallStays
  <2> QED BY <1>0, <1>1, <1>7, <2>1, TypesGoOn DEF Chooses
<1>8. CASE Chosen(j)
  <2>1. index' \in Index
    BY <1>0, <1>1, <1>8, IndexStays DEF Chosen
  <2> QED BY <1>0, <1>1, <1>8, <2>1, TypesGoOn DEF Chosen
<1>9. CASE Api(j)
  <2>1. PICK a \in Loads(call[j].about) :
          IF a = Nobody THEN Returns(j)
          ELSE Becomes(j, [On(j, IF call[j].task = "name" THEN "naming" ELSE "listed") EXCEPT !.api = a])
    BY <1>9 DEF Api
  <2>2. [On(j, IF call[j].task = "name" THEN "naming" ELSE "listed") EXCEPT !.api = a] \in AccountCall
    BY <1>0, <1>2, CallStays
  <2> QED BY <1>0, <1>1, <1>9, <2>1, <2>2, TypesGoOn DEF Api
<1>10. CASE ListTeams(j)
  <2>1. [On(j, "noting") EXCEPT !.copy = index] \in AccountCall
    BY <1>0, <1>1, CallStays
  <2> QED BY <1>0, <1>1, <1>10, <2>1, TypesGoOn DEF ListTeams
<1>11. CASE NotesTeams(j)
  <2>1. index' \in Index
    BY <1>0, <1>1, <1>11, IndexStays DEF NotesTeams, NotedFor
  <2>2. [On(j, "overview") EXCEPT !.hit = TRUE] \in AccountCall
    BY <1>0, CallStays
  <2>3. "teams" \in CacheEntry
    BY DEF CacheEntry
  <2>4. CASE Becomes(j, [On(j, "overview") EXCEPT !.hit = TRUE])
             /\ cache' = [cache EXCEPT ![call[j].about] = "teams"]
    BY <1>1, <1>4, <1>11, <2>1, <2>2, <2>3, <2>4, TypesGoOn DEF NotesTeams
  <2>5. CASE (Becomes(j, On(j, "naming")) \/ Returns(j)) /\ UNCHANGED cache
    BY <1>0, <1>1, <1>11, <2>1, <2>5, TypesGoOn DEF NotesTeams
  <2> QED BY <1>11, <2>4, <2>5 DEF NotesTeams
<1>12. CASE LooksAtName(j)
  <2>1. PICK a \in Loads(call[j].about) :
          IF a = Nobody \/ session[a] = "named" THEN Returns(j)
          ELSE Becomes(j, [On(j, "leaving") EXCEPT !.about = a])
    BY <1>12 DEF LooksAtName
  <2>2. [On(j, "leaving") EXCEPT !.about = a] \in AccountCall
    BY <1>0, <1>2, CallStays
  <2> QED BY <1>0, <1>1, <1>12, <2>1, <2>2, TypesGoOn DEF LooksAtName
<1>13. CASE SavesName(j)
  <2>1. [On(j, "named") EXCEPT !.copy = index] \in AccountCall
    BY <1>0, <1>1, CallStays
  <2> QED BY <1>1, <1>3, <1>13, <2>1, TypesGoOn DEF SavesName
<1>14. CASE Views(j)
  <2>1. CASE Becomes(j, [On(j, "overview") EXCEPT !.hit = TRUE])
    <3>1. [On(j, "overview") EXCEPT !.hit = TRUE] \in AccountCall
      BY <1>0, CallStays
    <3> QED BY <1>1, <1>14, <2>1, <3>1, TypesGoOn DEF Views
  <2>2. ASSUME NEW a \in Loads(call[j].about), Becomes(j, [On(j, "listed") EXCEPT !.api = a])
        PROVE  AccountsTypeOK'
    <3>1. [On(j, "listed") EXCEPT !.api = a] \in AccountCall
      BY <1>0, <1>2, CallStays
    <3> QED BY <1>1, <1>14, <2>2, <3>1, TypesGoOn DEF Views
  <2> QED BY <1>14, <2>1, <2>2 DEF Views
<1>15. CASE AsksForIds(j)
  <2> DEFINE v == IF call[j].hit /\ cache[call[j].about] \in {"ids", "outdated", "unreported"}
                  THEN cache[call[j].about] ELSE "ids"
  <2>1. v \in CacheEntry
    BY DEF CacheEntry
  <2>2. Becomes(j, [On(j, "storing") EXCEPT !.ids = v])
    BY <1>15 DEF AsksForIds
  <2> HIDE DEF v
  <2>3. [On(j, "storing") EXCEPT !.ids = v] \in AccountCall
    BY <1>0, <2>1, CallStays
  <2> QED BY <1>1, <1>15, <2>2, <2>3, TypesGoOn DEF AsksForIds
<1>16. CASE StoresIds(j)
  <2>1. cache' \in [Someone -> CacheEntry]
    BY <1>0, <1>1, <1>4, <1>16 DEF StoresIds, Stored
  <2> QED BY <1>0, <1>1, <1>16, <2>1, TypesGoOn DEF StoresIds
<1>17. CASE ViewFails(j)
  BY <1>0, <1>1, <1>17, TypesGoOn DEF ViewFails
<1>18. ASSUME NEW v \in CacheEntry, NEW how \in {"outdated", "unreported"} PROVE Aged(v, how) \in CacheEntry
  BY <1>18 DEF Aged, CacheEntry
<1>19. CASE Deletes(j)
  <2>1. CASE Returns(j) /\ UNCHANGED cache
    BY <1>0, <1>1, <1>19, <2>1, TypesGoOn DEF Deletes
  <2>2. ASSUME NEW c \in AccountCall, NEW how \in {"outdated", "unreported"}, Ages(j, c, how)
        PROVE  AccountsTypeOK'
    <3>1. ASSUME NEW i \in AccountJobs PROVE [call[i] EXCEPT !.ids = Aged(@, how)] \in AccountCall
      <4>1. call[i] \in AccountCall /\ Aged(call[i].ids, how) \in CacheEntry
        BY <1>18, PlacesStay DEF AccountCall
      <4> QED BY <4>1, CallStays DEF AccountCall
    <3>2. call' \in [AccountJobs -> AccountCall]
      BY <2>2, <3>1 DEF Ages
    <3>3. cache' \in [Someone -> CacheEntry]
      BY <1>1, <1>18, <2>2 DEF Ages
    <3> QED BY <1>1, <1>19, <3>2, <3>3 DEF Deletes, AccountsTypeOK, AccountCall
  <2> QED BY <1>0, <1>19, <2>1, <2>2 DEF Deletes
<1>20. CASE ClearsCache(j)
  <2>1. ASSUME NEW i \in AccountJobs PROVE [call[i] EXCEPT !.hit = FALSE] \in AccountCall
    BY PlacesStay DEF AccountCall
  <2>2. call' \in [AccountJobs -> AccountCall]
    BY <1>0, <1>20, <2>1 DEF ClearsCache
  <2>3. cache' \in [Someone -> CacheEntry]
    BY <1>20 DEF ClearsCache, CacheEntry
  <2> QED BY <1>1, <1>20, <2>2, <2>3 DEF ClearsCache, AccountsTypeOK, AccountCall
<1>21. CASE Unlinks(j)
  <2>1. [On(j, "leaving") EXCEPT !.copy = index] \in AccountCall
    BY <1>0, <1>1, CallStays
  <2> QED BY <1>0, <1>1, <1>3, <1>21, <2>1, TypesGoOn DEF Unlinks
<1>22. CASE Leaves(j)
  <2>1. PICK next \in Firsts(SignedIn) : index' = Cleared(call[j].copy, call[j].about, next)
    BY <1>22 DEF Leaves
  <2>2. next \in Someone
    BY <1>2, <2>1 DEF Firsts, Someone
  <2>3. index' \in Index
    BY <1>0, <2>1, <2>2, IndexStays
  <2> QED BY <1>0, <1>1, <1>22, <2>3, TypesGoOn DEF Leaves
<1> QED BY <1>5, <1>6, <1>7, <1>8, <1>9, <1>10, <1>11, <1>12, <1>13, <1>14, <1>15, <1>16, <1>17,
           <1>19, <1>20, <1>21, <1>22 DEF AccountStep

LEMMA BeginTyped ==
  ASSUME AccountsTypeOK, NEW j \in AccountJobs, NEW t \in Tasks, NEW a \in Someone, Begin(j, t, a)
  PROVE  AccountsTypeOK'
<1>1. PICK who \in (IF a = Nobody /\ t # "delete" THEN ActiveAdsids ELSE {a}) :
        Becomes(j, [NoCall EXCEPT !.pc = "begun", !.task = t, !.about = who])
  BY DEF Begin
<1>2. who \in Someone
  BY SessionsTyped
<1>3. [NoCall EXCEPT !.pc = "begun", !.task = t, !.about = who] \in AccountCall
  BY <1>2, NoCallTyped DEF AccountCall
<1>4. requests' \in 0 .. MaxRequests
  BY AccountsAssumption DEF Begin, AccountsTypeOK
<1>5. looked' \subseteq People
  BY SessionsTyped DEF Begin, AccountsTypeOK
<1> QED BY <1>1, <1>3, <1>4, <1>5, TypesGoOn DEF Begin, store, appleView, AccountsTypeOK

\* AccountsTypeOK: every index, every copy of it somebody holds, every cached
\* entry and every handler's place keep their types, for any accounts.
THEOREM AccountsTypes == AccountsSpec => []AccountsTypeOK
<1>1. AccountsInit => AccountsTypeOK
  <2> SUFFICES ASSUME AccountsInit PROVE AccountsTypeOK
    OBVIOUS
  <2>1. call \in [AccountJobs -> AccountCall] /\ index \in Index
    BY NoCallTyped DEF AccountsInit
  <2>2. 0 \in 0 .. MaxRequests
    BY AccountsAssumption
  <2>3. session \in [People -> {"none", "unnamed", "named"}]
    BY DEF AccountsInit
  <2> QED BY <2>1, <2>2, <2>3 DEF AccountsInit, AccountsTypeOK, AccountCall, CacheEntry
<1>2. AccountsTypeOK /\ [AccountsNext]_accountVars => AccountsTypeOK'
  <2> SUFFICES ASSUME AccountsTypeOK, [AccountsNext]_accountVars PROVE AccountsTypeOK'
    OBVIOUS
  <2>1. CASE UNCHANGED accountVars
    BY <2>1 DEF accountVars, AccountsTypeOK
  <2> QED BY <2>1, AccountStepTyped, BeginTyped DEF AccountsNext
<1> QED BY <1>1, <1>2, PTL DEF AccountsSpec

-------------------------------------------------------------------------------
(* What is known of devices keeps its types.                               *)

\* What a thread holds; whoever is about to write does it for a device.
ActorTyped(s) ==
  /\ Shaped(s)
  /\ s.pc \in {"idle", "browsing", "recorded", "read", "written"} /\ s.task \in DeviceTasks
  /\ s.dev \in Known \cup {"none"} /\ s.moved \subseteq Known /\ s.found \subseteq Adverts
  /\ IsRegistry(s.copy)
  /\ s.pc = "read" => s.dev \in Known

DevicesInv ==
  /\ actor = [a \in Actors |-> actor[a]] /\ \A a \in Actors : ActorTyped(actor[a])
  /\ IsRegistry(registry) /\ pairings \subseteq Known /\ instances \subseteq Private
  /\ seen \subseteq Adverts /\ wake \in BOOLEAN /\ asked \subseteq Known /\ unsearched \in BOOLEAN

LEMMA OneActorTyped ==
  ASSUME DevicesInv, NEW a \in Actors, NEW s, Goes(a, s), ActorTyped(s), IsRegistry(registry'),
         pairings' \subseteq Known, instances' \subseteq Private, seen' \subseteq Adverts,
         wake' \in BOOLEAN, asked' \subseteq Known, unsearched' \in BOOLEAN
  PROVE  DevicesInv'
<1>1. actor' = [x \in Actors |-> IF x = a THEN s ELSE actor[x]]
  BY DEF DevicesInv, Goes
<1>2. \A x \in Actors : ActorTyped(actor'[x])
  BY <1>1 DEF DevicesInv
<1>3. actor' = [x \in Actors |-> actor'[x]]
  BY <1>1
<1>4. \A x \in Actors : ActorTyped(actor[x])'
  BY <1>2 DEF ActorTyped, Shaped, IsRegistry
<1>5. IsRegistry(registry)'
  BY DEF IsRegistry
<1> QED BY <1>3, <1>4, <1>5 DEF DevicesInv

LEMMA NothingTyped == IsRegistry(Nothing) /\ ActorTyped(IdleActor)
<1>1. IsRegistry(Nothing)
  BY DEF IsRegistry, Nothing
<1> QED BY <1>1 DEF ActorTyped, Shaped, IdleActor, DeviceTasks

LEMMA EntriesTyped ==
  ASSUME NEW r, IsRegistry(r), NEW d \in Known
  PROVE  /\ EntryOf(r, d) \in KnownDevice /\ EntryDisabled \in KnownDevice
         /\ EntryPaired(EntryOf(r, d)) \in KnownDevice
         /\ \A tunnel \in BOOLEAN : EntryEnabled(EntryOf(r, d), tunnel) \in KnownDevice
         /\ \A e \in KnownDevice : IsRegistry(Remembered(r, d, e))
         /\ IsRegistry(Without(r, d))
<1>1. EntryOf(r, d) \in KnownDevice
  BY DEF EntryOf, IsRegistry, KnownDevice
<1>2. \A e \in KnownDevice : e.wifi \in BOOLEAN /\ e.remote \in BOOLEAN /\ EntryPaired(e) \in KnownDevice
  BY DEF EntryPaired, KnownDevice
<1>3. EntryDisabled \in KnownDevice
  BY DEF EntryDisabled, KnownDevice
<1>4. \A tunnel \in BOOLEAN : EntryEnabled(EntryOf(r, d), tunnel) \in KnownDevice
  BY <1>1, <1>2 DEF EntryEnabled, KnownDevice
<1>5. \A e \in KnownDevice : IsRegistry(Remembered(r, d, e))
  BY DEF IsRegistry, Remembered
<1>6. IsRegistry(Without(r, d))
  BY DEF IsRegistry, Without
<1> QED BY <1>1, <1>2, <1>3, <1>4, <1>5, <1>6

LEMMA FoundTyped ==
  ASSUME DevicesInv, NEW a \in Actors
  PROVE  OverWifi(a) \subseteq Known /\ OverRemotePairing(a) \subseteq Known
<1>1. IsRegistry(actor[a].copy) /\ IsRegistry(registry) /\ instances \subseteq Known
  BY DiscoveryAssumption DEF DevicesInv, ActorTyped, Known
<1>2. \A r : IsRegistry(r) => SwitchedOn(r) \subseteq Known /\ Paired(r) \subseteq Known
  BY DEF SwitchedOn, Paired, IsRegistry
<1>3. Identified \subseteq Known
  BY <1>1, <1>2 DEF Identified
<1> QED BY <1>1, <1>2, <1>3 DEF OverWifi, OverRemotePairing

LEMMA RecordsTyped ==
  ASSUME DevicesInv, NEW a \in Actors, NEW found, found \subseteq Adverts, Records(a, found),
         UNCHANGED <<registry, pairings, wake, asked, unsearched>>, instances' \subseteq Private
  PROVE  DevicesInv'
<1>1. PICK elsewhere \in SUBSET found :
        Goes(a, [actor[a] EXCEPT !.pc = "recorded", !.copy = Nothing, !.found = {},
                   !.moved = {ref[1] : ref \in (found \ seen) \cup elsewhere}])
  BY DEF Records
<1> DEFINE m == {ref[1] : ref \in (found \ seen) \cup elsewhere}
<1>2. m \subseteq Known
  BY <1>1 DEF Adverts
<1>3. seen' \subseteq Adverts
  BY DEF Records, DevicesInv
<1> HIDE DEF m
<1>4. ActorTyped([actor[a] EXCEPT !.pc = "recorded", !.copy = Nothing, !.found = {}, !.moved = m])
  <2>1. ActorTyped(actor[a]) /\ IsRegistry(Nothing)
    BY NothingTyped DEF DevicesInv
  <2> QED BY <1>2, <2>1 DEF ActorTyped, Shaped
<1>5. Goes(a, [actor[a] EXCEPT !.pc = "recorded", !.copy = Nothing, !.found = {}, !.moved = m])
  BY <1>1 DEF m
<1> QED BY <1>3, <1>4, <1>5, OneActorTyped DEF DevicesInv

LEMMA SearchTyped ==
  ASSUME DevicesInv, NEW a \in Actors,
         ScanBegins(a) \/ ScanEnds(a) \/ RemembersMoved(a) \/ SearchOver(a)
  PROVE  DevicesInv'
<1>0. ActorTyped(actor[a]) /\ IsRegistry(Nothing) /\ ActorTyped(IdleActor)
  BY NothingTyped DEF DevicesInv
<1>1. CASE ScanBegins(a)
  <2>1. ActorTyped([actor[a] EXCEPT !.pc = "browsing", !.copy = registry])
    BY <1>0 DEF DevicesInv, ActorTyped, Shaped
  <2>2. wake' \in BOOLEAN /\ unsearched' \in BOOLEAN
    BY <1>1, Zenon DEF ScanBegins, DevicesInv
  <2> QED BY <1>1, <2>1, <2>2, OneActorTyped DEF ScanBegins, files, DevicesInv
<1>2. CASE ScanEnds(a)
  <2>1. PICK w \in SUBSET OverWifi(a), r \in SUBSET OverRemotePairing(a) :
          LET found == (w \X {"wifi"}) \cup (r \X {"remote"}) IN
          IF a = "scanner"
          THEN Records(a, found) /\ instances' = instances \cup (w \cap Private)
          ELSE /\ Goes(a, [actor[a] EXCEPT !.pc = "recorded", !.copy = Nothing,
                             !.found = found, !.moved = w \cup r])
               /\ UNCHANGED <<seen, instances>>
    BY <1>2 DEF ScanEnds
  <2> DEFINE found == (w \X {"wifi"}) \cup (r \X {"remote"})
             m == w \cup r
  <2>2. found \subseteq Adverts /\ m \subseteq Known
    BY FoundTyped DEF Adverts
  <2>3. UNCHANGED <<registry, pairings, wake, asked, unsearched>>
    BY <1>2 DEF ScanEnds, files, told
  <2>4. CASE a = "scanner"
    <3>1. Records(a, found) /\ instances' = instances \cup (w \cap Private)
      BY <2>1, <2>4
    <3>2. instances' \subseteq Private
      BY <3>1 DEF DevicesInv
    <3> HIDE DEF found
    <3> QED BY <2>2, <2>3, <3>1, <3>2, RecordsTyped
  <2>5. CASE a # "scanner"
    <3>1. /\ Goes(a, [actor[a] EXCEPT !.pc = "recorded", !.copy = Nothing, !.found = found, !.moved = m])
          /\ UNCHANGED <<seen, instances>>
      BY <2>1, <2>5
    <3> HIDE DEF found, m
    <3>2. ActorTyped([actor[a] EXCEPT !.pc = "recorded", !.copy = Nothing, !.found = found, !.moved = m])
      BY <1>0, <2>2 DEF ActorTyped, Shaped
    <3> QED BY <2>3, <3>1, <3>2, OneActorTyped DEF DevicesInv
  <2> QED BY <2>4, <2>5
<1>3. CASE RemembersMoved(a)
  <2>1. PICK d \in actor[a].moved :
          Goes(a, [actor[a] EXCEPT !.pc = "read", !.dev = d, !.copy = registry, !.moved = @ \ {d}])
    BY <1>3 DEF RemembersMoved
  <2>2. ActorTyped([actor[a] EXCEPT !.pc = "read", !.dev = d, !.copy = registry, !.moved = @ \ {d}])
    BY <1>0, <2>1 DEF DevicesInv, ActorTyped, Shaped
  <2> QED BY <1>3, <2>1, <2>2, OneActorTyped DEF RemembersMoved, files, network, told, DevicesInv
<1>4. CASE SearchOver(a)
  <2>1. UNCHANGED <<registry, pairings, instances, wake, asked, unsearched>> /\ instances' \subseteq Private
    BY <1>4 DEF SearchOver, files, told, DevicesInv
  <2>2. CASE actor[a].found = {}
    BY <1>0, <1>4, <2>1, <2>2, OneActorTyped DEF SearchOver, Done, DevicesInv
  <2>3. CASE actor[a].found # {}
    <3>1. Records(a, actor[a].found) /\ actor[a].found \subseteq Adverts
      BY <1>0, <1>4, <2>3 DEF SearchOver, ActorTyped
    <3> QED BY <2>1, <3>1, RecordsTyped
  <2> QED BY <2>2, <2>3
<1> QED BY <1>1, <1>2, <1>3, <1>4

LEMMA WriteTyped ==
  ASSUME DevicesInv, NEW a \in Actors, Writes(a)
  PROVE  DevicesInv'
<1> DEFINE s == actor[a]
<1>1. ActorTyped(s) /\ IsRegistry(s.copy) /\ s.dev \in Known /\ IsRegistry(Nothing) /\ ActorTyped(IdleActor)
  BY NothingTyped DEF Writes, DevicesInv, ActorTyped
<1>2. IsRegistry(registry')
  <2>1. \/ registry' = Without(s.copy, s.dev)
        \/ registry' = Remembered(s.copy, s.dev, EntryOf(s.copy, s.dev))
        \/ registry' = Remembered(s.copy, s.dev, EntryDisabled)
        \/ registry' = Remembered(s.copy, s.dev, EntryPaired(EntryOf(s.copy, s.dev)))
        \/ \E tunnel \in BOOLEAN :
             registry' = Remembered(s.copy, s.dev, EntryEnabled(EntryOf(s.copy, s.dev), tunnel))
    BY DEF Writes
  <2> HIDE DEF s
  <2> QED BY <1>1, <2>1, EntriesTyped
<1>3. PICK n \in {[s EXCEPT !.pc = "recorded", !.copy = Nothing], IdleActor,
                  [s EXCEPT !.pc = "written", !.copy = Nothing]} : Goes(a, n)
  BY DEF Writes
<1>4. ActorTyped(n)
  <2> HIDE DEF s
  <2> QED BY <1>1, <1>3 DEF ActorTyped, Shaped
<1>5. /\ pairings' \subseteq Known /\ asked' \subseteq Known
      /\ UNCHANGED <<seen, instances, wake, unsearched>>
  BY <1>1 DEF Writes, network, DevicesInv
<1> HIDE DEF s
<1> QED BY <1>2, <1>3, <1>4, <1>5, OneActorTyped DEF DevicesInv

LEMMA HandlersTyped ==
  ASSUME DevicesInv, NEW w \in Workers, NEW d \in Known,
         EnablesWifi(w, d) \/ DisablesWifi(w, d) \/ PairsBox(w, d) \/ Learns(w, d) \/ Forgets(w, d)
  PROVE  DevicesInv'
<1>0. w \in Actors /\ ActorTyped(actor[w]) /\ IsRegistry(registry)
  BY DEF Actors, DevicesInv
<1>1. ASSUME NEW t \in DeviceTasks, Reads(w, t, d), pairings' \subseteq Known PROVE DevicesInv'
  <2>1. ActorTyped([actor[w] EXCEPT !.task = t, !.dev = d, !.copy = registry, !.pc = "read"])
    BY <1>0 DEF ActorTyped, Shaped
  <2> QED BY <1>0, <1>1, <2>1, OneActorTyped DEF Reads, network, told, DevicesInv
<1>2. CASE EnablesWifi(w, d)
  <2>1. pairings' \subseteq Known
    BY <1>2 DEF EnablesWifi, DevicesInv
  <2> QED BY <1>1, <1>2, <2>1 DEF EnablesWifi, DeviceTasks
<1>3. pairings' = pairings => pairings' \subseteq Known
  BY DEF DevicesInv
<1>4. CASE DisablesWifi(w, d) \/ PairsBox(w, d) \/ Learns(w, d)
  BY <1>1, <1>3, <1>4 DEF DisablesWifi, PairsBox, Learns, DeviceTasks
<1>5. CASE Forgets(w, d)
  <2>1. CASE d \in DOMAIN registry
    BY <1>1, <1>3, <1>5, <2>1 DEF Forgets, DeviceTasks
  <2>2. CASE d \notin DOMAIN registry
    <3>1. ActorTyped([actor[w] EXCEPT !.task = "forget", !.dev = d, !.pc = "written"])
      BY <1>0 DEF ActorTyped, Shaped, DeviceTasks
    <3> QED BY <1>0, <1>5, <2>2, <3>1, OneActorTyped DEF Forgets, network, told, DevicesInv
  <2> QED BY <2>1, <2>2
<1> QED BY <1>2, <1>4, <1>5

LEMMA PokesTyped ==
  ASSUME DevicesInv, NEW w \in Workers, Pokes(w) \/ Drops(w)
  PROVE  DevicesInv'
<1>0. w \in Actors /\ ActorTyped(IdleActor)
  BY NothingTyped DEF Actors
<1>1. CASE Pokes(w)
  BY <1>0, <1>1, OneActorTyped DEF Pokes, Done, files, DevicesInv
<1>2. CASE Drops(w)
  <2>1. seen' \subseteq Adverts /\ pairings' \subseteq Known
    BY <1>2 DEF Drops, Unseen, DevicesInv
  <2> QED BY <1>0, <1>2, <2>1, OneActorTyped DEF Drops, Done, told, DevicesInv
<1> QED BY <1>1, <1>2

LEMMA DevicesInvStep == DevicesInv /\ [DiscoveryNext]_discoveryVars => DevicesInv'
<1> SUFFICES ASSUME DevicesInv, [DiscoveryNext]_discoveryVars PROVE DevicesInv'
  OBVIOUS
<1>1. CASE SeenExpires
  BY <1>1 DEF SeenExpires, files, told, DevicesInv, ActorTyped, Shaped, IsRegistry
<1>2. CASE UNCHANGED discoveryVars
  BY <1>2 DEF discoveryVars, files, network, told, DevicesInv, ActorTyped, Shaped, IsRegistry
<1> QED BY <1>1, <1>2, SearchTyped, WriteTyped, HandlersTyped, PokesTyped DEF DiscoveryNext

\* DiscoveryTypeOK: whichever copy of the registry is written back by whom, it
\* stays a list of known devices, and what is seen, asked for and paired stays
\* within them.
THEOREM DiscoveryTypes == DiscoverySpec => []DiscoveryTypeOK
<1>1. DiscoveryInit => DevicesInv
  BY NothingTyped DEF DiscoveryInit, DevicesInv
<1>2. DevicesInv => DiscoveryTypeOK
  BY DEF DevicesInv, ActorTyped, DiscoveryTypeOK
<1> QED BY <1>1, <1>2, DevicesInvStep, PTL DEF DiscoverySpec
=============================================================================
