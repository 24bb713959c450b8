------------------------------ MODULE Accounts -------------------------------
(***************************************************************************)
(* Signed-in accounts and what is cached of Apple's side                   *)
(* (modstaller/apple/session.py; the account handlers of server.py).       *)
(*                                                                         *)
(* A session file per account, one index with the active account and whose *)
(* a team is.  The handlers work in threads of their own; the index is     *)
(* read, changed and written back without a lock - two steps here, with    *)
(* anything in between.  Apple's view of an account is cached and dropped  *)
(* after an App ID was deleted.  Every account has a team of its own.      *)
(***************************************************************************)
EXTENDS Naturals

CONSTANTS
  People,        \* Apple accounts, and their teams
  Nobody,        \* None
  AccountJobs,   \* threads that work on a request
  MaxRequests    \* bound: requests in a behaviour

ASSUME AccountsAssumption == Nobody \notin People \cup AccountJobs /\ MaxRequests \in Nat

VARIABLES
  session,   \* account -> its session file: none, without or with first name
  index,     \* accounts.json: [active, owner: team -> adsid noted for it]
  cache,     \* server.apple_cache: account -> the App IDs seen, if any
  viewing,   \* who holds _APPLE_VIEW_LOCK
  looked,    \* server.name_lookups
  call,      \* the job of each thread
  requests   \* requests so far

accountVars == <<session, index, cache, viewing, looked, call, requests>>

Someone == People \cup {Nobody}
Tasks == {"login", "account", "name", "view", "delete", "logout", "setActive"}
Index == [active : Someone, owner : [People -> Someone \cup {"absent"}]]
CacheEntry == {"none", "teams", "ids", "outdated", "unreported"}

\* about: the adsid the handler was given or took for the active one; api:
\* whose session its requests to Apple carry; copy: the index as read; hit:
\* the cache entry it goes on with is still in the cache; ids: the App IDs
\* Apple has answered with ("outdated": one was deleted since; "unreported": one
\* was, but the handler that deleted it was told of an error).
AccountsTypeOK ==
  /\ session \in [People -> {"none", "unnamed", "named"}]
  /\ index \in Index
  /\ cache \in [Someone -> CacheEntry]
  /\ viewing \in AccountJobs \cup {Nobody}
  /\ looked \subseteq People /\ requests \in 0 .. MaxRequests
  /\ call \in [AccountJobs ->
       [pc : {"idle", "begun", "mark", "choosing", "chosen", "listed", "noting", "naming", "named",
              "overview", "storing", "clearing", "leaving"},
        task : Tasks, about : Someone, api : Someone, copy : Index, hit : BOOLEAN, ids : CacheEntry]]

NoIndex == [active |-> Nobody, owner |-> [t \in People |-> "absent"]]
NoCall == [pc |-> "idle", task |-> "account", about |-> Nobody, api |-> Nobody, copy |-> NoIndex,
           hit |-> FALSE, ids |-> "none"]

\* Accounts of an older version have no first name yet.
AccountsInit ==
  /\ session \in [People -> {"none", "unnamed"}]
  /\ index = NoIndex
  /\ cache = [a \in Someone |-> "none"] /\ viewing = Nobody /\ looked = {} /\ requests = 0
  /\ call = [j \in AccountJobs |-> NoCall]

store == <<session, index>>
rest == <<looked, requests>>
appleView == <<cache, viewing>>

Becomes(j, c) == call' = [call EXCEPT ![j] = c]
On(j, p) == [call[j] EXCEPT !.pc = p]
Returns(j) == Becomes(j, NoCall)

-----------------------------------------------------------------------------
(* session.py                                                              *)

\* list_accounts; the order of signing in is left open.
SignedIn == {a \in People : session[a] # "none"}

\* The first of list_accounts, or None.
Firsts(accounts) == IF accounts = {} THEN {Nobody} ELSE accounts

\* active_adsid: the one marked, or the next in line if that one is gone.
ActiveAdsids == IF index.active \in SignedIn THEN {index.active} ELSE Firsts(SignedIn)

\* Session.load: whose session it is, Nobody without one.
Loads(adsid) ==
  IF adsid = Nobody THEN ActiveAdsids ELSE IF adsid \in SignedIn THEN {adsid} ELSE {Nobody}

\* remember_teams on the copy: None is written as such.
Noted(copy, team, adsid) == [copy EXCEPT !.owner[team] = adsid]

\* clear on the copy: its teams, and the next account moves up.
Cleared(copy, adsid, next) ==
  [active |-> IF copy.active = adsid THEN next ELSE copy.active,
   owner |-> [t \in People |-> IF copy.owner[t] = adsid THEN "absent" ELSE copy.owner[t]]]

-----------------------------------------------------------------------------

\* A request: the account it names, or the active one.
Begin(j, t, a) ==
  /\ call[j].pc = "idle" /\ requests < MaxRequests /\ requests' = requests + 1
  /\ \/ t \in {"login", "setActive"} /\ a # Nobody /\ UNCHANGED looked
     \/ t \in {"account", "view", "delete", "logout"} /\ UNCHANGED looked
     \/ t = "name" /\ a \in SignedIn \ looked /\ looked' = looked \cup {a}
  /\ \E who \in (IF a = Nobody /\ t # "delete" THEN ActiveAdsids ELSE {a}) :
       Becomes(j, [NoCall EXCEPT !.pc = "begun", !.task = t, !.about = who])
  /\ UNCHANGED <<store, appleView>>

\* login: authenticated, the session saved; then save reads the index.
SavesSession(j) ==
  /\ call[j].pc = "begun" /\ call[j].task = "login"
  /\ \/ /\ session' = [session EXCEPT ![call[j].about] = "named"]
        /\ Becomes(j, [On(j, "mark") EXCEPT !.copy = index, !.api = call[j].about])
     \/ Returns(j) /\ UNCHANGED session
  /\ UNCHANGED <<index, appleView, rest>>

\* save: marked active if nobody is.
Marks(j) ==
  /\ call[j].pc \in {"mark", "named"}
  /\ index' = IF call[j].copy.active = Nobody THEN [call[j].copy EXCEPT !.active = call[j].about]
              ELSE index
  /\ IF call[j].pc = "mark" THEN Becomes(j, On(j, "choosing")) ELSE Returns(j)
  /\ UNCHANGED <<session, appleView, rest>>

\* set_active: only an account that is signed in; the index is read ...
Chooses(j) ==
  /\ call[j].pc = "choosing" \/ (call[j].pc = "begun" /\ call[j].task = "setActive")
  /\ IF call[j].about \in SignedIn THEN Becomes(j, [On(j, "chosen") EXCEPT !.copy = index])
     ELSE Returns(j)
  /\ UNCHANGED <<store, appleView, rest>>

\* ... and written.
Chosen(j) ==
  /\ call[j].pc = "chosen"
  /\ index' = [call[j].copy EXCEPT !.active = call[j].about]
  /\ IF call[j].task = "login" THEN Becomes(j, On(j, "listed")) ELSE Returns(j)
  /\ UNCHANGED <<session, appleView, rest>>

\* _api: the session of the account, or an error.
Api(j) ==
  /\ call[j].pc = "begun" /\ call[j].task \in {"account", "name", "delete"}
  /\ \E a \in Loads(call[j].about) :
       IF a = Nobody THEN Returns(j)
       ELSE Becomes(j, [On(j, IF call[j].task = "name" THEN "naming" ELSE "listed") EXCEPT !.api = a])
  /\ UNCHANGED <<store, appleView, rest>>

\* list_teams answers (or Apple refuses); remember_teams reads the index.
ListTeams(j) ==
  /\ call[j].pc = "listed" /\ call[j].task # "delete"
  /\ \/ Becomes(j, [On(j, "noting") EXCEPT !.copy = index])
     \/ /\ Returns(j)
        /\ viewing # j
  /\ UNCHANGED <<store, appleView, rest>>

\* MUTANT: noted for the account that is active by then.
NotedForActive(copy, c) == Noted(copy, c.api, index.active)

\* Whose the team is noted to be: the account asked about.
NotedFor(copy, c) == Noted(copy, c.api, c.about)

\* remember_teams: written if changed; _apple_view then stores what it has.
NotesTeams(j) ==
  LET c == call[j] IN
  /\ c.pc = "noting"
  /\ index' = IF c.copy.owner[c.api] = c.about THEN index ELSE NotedFor(c.copy, c)
  /\ CASE c.task = "view" -> /\ Becomes(j, [On(j, "overview") EXCEPT !.hit = TRUE])
                             /\ cache' = [cache EXCEPT ![c.about] = "teams"]
       [] c.task = "account" -> Becomes(j, On(j, "naming")) /\ UNCHANGED cache
       [] OTHER -> Returns(j) /\ UNCHANGED cache
  /\ UNCHANGED <<session, viewing, rest>>

\* remember_first_name: the session is loaded; nothing to do, or ...
LooksAtName(j) ==
  /\ call[j].pc = "naming"
  /\ \E a \in Loads(call[j].about) :
       IF a = Nobody \/ session[a] = "named" THEN Returns(j)
       ELSE Becomes(j, [On(j, "leaving") EXCEPT !.about = a])
  /\ UNCHANGED <<store, appleView, rest>>

\* ... the one that was loaded is saved with the name.
SavesName(j) ==
  /\ call[j].pc = "leaving" /\ call[j].task \in {"account", "name"}
  /\ session' = [session EXCEPT ![call[j].about] = "named"]
  /\ Becomes(j, [On(j, "named") EXCEPT !.copy = index])
  /\ UNCHANGED <<index, appleView, rest>>

\* _apple_view, under its lock: a hit that is not too old, or Apple is asked.
Views(j) ==
  /\ call[j].pc = "begun" /\ call[j].task = "view" /\ viewing = Nobody
  /\ viewing' = j
  /\ \/ /\ cache[call[j].about] # "none"
        /\ Becomes(j, [On(j, "overview") EXCEPT !.hit = TRUE])
     \/ \E a \in Loads(call[j].about) \ {Nobody} : Becomes(j, [On(j, "listed") EXCEPT !.api = a])
  /\ UNCHANGED <<store, cache, rest>>

\* The App IDs are asked for unless they are there.
AsksForIds(j) ==
  /\ call[j].pc = "overview"
  /\ Becomes(j, [On(j, "storing") EXCEPT !.ids =
                  IF call[j].hit /\ cache[call[j].about] \in {"ids", "outdated", "unreported"}
                  THEN cache[call[j].about] ELSE "ids"])
  /\ UNCHANGED <<store, appleView, rest>>

\* MUTANT: put in the cache, not in the entry that was found or made.
StoredInCache(c) == [cache EXCEPT ![c.about] = c.ids]

\* The answer goes into the entry, which may have left the cache by now.
Stored(c) == IF c.hit THEN [cache EXCEPT ![c.about] = c.ids] ELSE cache

\* ... and the lock is released.
StoresIds(j) ==
  /\ call[j].pc = "storing"
  /\ cache' = Stored(call[j])
  /\ viewing' = Nobody
  /\ Returns(j)
  /\ UNCHANGED <<store, rest>>

\* Apple refuses while the view is asked for: the lock is released.
ViewFails(j) ==
  /\ viewing = j
  /\ viewing' = Nobody
  /\ Returns(j)
  /\ UNCHANGED <<store, cache, rest>>

Aged(v, how) == IF v \in {"ids", "unreported"} THEN how ELSE v

\* What everybody has seen of the App IDs is older than a deletion; j goes on as c.
Ages(j, c, how) ==
  /\ call' = [i \in AccountJobs |-> IF i = j THEN c ELSE [call[i] EXCEPT !.ids = Aged(@, how)]]
  /\ cache' = [a \in Someone |-> Aged(cache[a], how)]

\* appids.delete: Apple refuses or cannot be reached; deletes and says so; or
\* deletes, and the answer is lost or what the adapter sends again is refused:
\* the exception passes over the clearing of the cache ...
Deletes(j) ==
  /\ call[j].pc = "listed" /\ call[j].task = "delete"
  /\ \/ Returns(j) /\ UNCHANGED cache
     \/ Ages(j, On(j, "clearing"), "outdated")
     \/ Ages(j, NoCall, "unreported")
  /\ UNCHANGED <<store, viewing, rest>>

\* ... then the cache is cleared, by the main loop; a view under way goes on
\* with an entry that is no longer in it.
ClearsCache(j) ==
  /\ call[j].pc = "clearing"
  /\ cache' = [a \in Someone |-> "none"]
  /\ call' = [i \in AccountJobs |-> IF i = j THEN NoCall ELSE [call[i] EXCEPT !.hit = FALSE]]
  /\ UNCHANGED <<store, viewing, rest>>

\* logout, clear: the index is read and the session file removed ...
Unlinks(j) ==
  /\ call[j].pc = "begun" /\ call[j].task = "logout"
  /\ IF call[j].about = Nobody THEN Returns(j) /\ UNCHANGED session
     ELSE /\ session' = [session EXCEPT ![call[j].about] = "none"]
          /\ Becomes(j, [On(j, "leaving") EXCEPT !.copy = index])
  /\ UNCHANGED <<index, appleView, rest>>

\* ... and the index written without it.
Leaves(j) ==
  /\ call[j].pc = "leaving" /\ call[j].task = "logout"
  /\ \E next \in Firsts(SignedIn) : index' = Cleared(call[j].copy, call[j].about, next)
  /\ Returns(j)
  /\ UNCHANGED <<session, appleView, rest>>

AccountStep(j) ==
  \/ SavesSession(j) \/ Marks(j) \/ Chooses(j) \/ Chosen(j) \/ Api(j) \/ ListTeams(j)
  \/ NotesTeams(j) \/ LooksAtName(j) \/ SavesName(j) \/ Views(j) \/ AsksForIds(j) \/ StoresIds(j)
  \/ ViewFails(j)
  \/ Deletes(j) \/ ClearsCache(j) \/ Unlinks(j) \/ Leaves(j)

AccountsNext ==
  \E j \in AccountJobs : AccountStep(j) \/ \E t \in Tasks, a \in Someone : Begin(j, t, a)

AccountsSpec == AccountsInit /\ [][AccountsNext]_accountVars

-----------------------------------------------------------------------------

\* A renewal signs with the account a team is noted for: that is an account
\* of the team or none, however sign-ins, sign-outs and look-ups overlap.
TeamsTrue == \A t \in People : index.owner[t] \in {t, Nobody, "absent"}

\* What the cache says of the App IDs is not older than the last deletion whose
\* handler has returned with success.  After a deletion that Apple carried out and
\* whose handler was told of an error it may be ("unreported"), until
\* APPLE_CACHE_TTL is over or something else clears the cache.
ViewFresh ==
  (\A j \in AccountJobs : call[j].pc # "clearing")
    => \A a \in Someone : cache[a] # "outdated"
=============================================================================
