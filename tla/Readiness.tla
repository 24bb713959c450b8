------------------------------ MODULE Readiness ------------------------------
(***************************************************************************)
(* The readiness checks and their fixes (modstaller/device/readiness.py;   *)
(* server.py, device.checks and device.fix).                               *)
(*                                                                         *)
(* A check asks the device one thing after another while its owner uses    *)
(* it; a fix is a conversation that needs the owner (unlock, trust, a      *)
(* restart).  The iPhone and its owner are the environment: they may act   *)
(* Interferences times on their own.                                       *)
(***************************************************************************)
EXTENDS Naturals

CONSTANTS
  Majors,         \* iOS versions that differ: below 16, 16, 17 and up, 27 and up
  UnlockPolls,    \* bound: polls that fit into UNLOCK_WAIT
  Interferences   \* bound: what the owner does between and during the jobs

ASSUME ReadinessAssumption ==
  Majors \subseteq Nat /\ UnlockPolls \in Nat /\ Interferences \in Nat

VARIABLES
  phone,      \* the iPhone, as its services would tell
  wifiOn,     \* registry: Wi-Fi is switched on for it
  work,       \* the check or fix under way
  report,     \* the last list of checks: id -> [state, fix]
  settled,    \* history: fixes that reported success, the phone left alone since
  meddled     \* how often the owner acted

readinessVars == <<phone, wifiOn, work, report, settled, meddled>>

Fixes == {"pair", "wifi", "developer-mode", "ddi", "expired-profiles"}
CheckIds == {"pairing", "wifi", "ios", "developer-mode", "ddi", "profiles"}
States == {"ok", "bad", "warn", "info", "na"}
Check == [state : States, fix : Fixes \cup {"none"}]
Phone == [major : Majors, trusts : BOOLEAN, locked : BOOLEAN, passcode : BOOLEAN,
          devmode : BOOLEAN, image : BOOLEAN, expired : BOOLEAN, full : BOOLEAN,
          link : {"usb", "wifi", "away"}]
Idle == [pc |-> "idle", fix |-> "none", polls |-> 0, dev |-> FALSE]

ReadinessTypeOK ==
  /\ phone \in Phone
  /\ wifiOn \in BOOLEAN
  /\ work \in [pc : {"idle", "asking", "pairing", "enabling", "talking", "mounting", "restarting"},
               fix : Fixes \cup {"none"}, polls : 0 .. UnlockPolls, dev : BOOLEAN]
  /\ DOMAIN report \subseteq CheckIds /\ \A c \in DOMAIN report : report[c] \in Check
  /\ settled \subseteq Fixes
  /\ meddled \in 0 .. Interferences

ReadinessInit ==
  /\ phone \in {[major |-> m, trusts |-> FALSE, locked |-> FALSE, passcode |-> p, devmode |-> FALSE,
                 image |-> FALSE, expired |-> TRUE, full |-> TRUE, link |-> "usb"] :
                m \in Majors, p \in BOOLEAN}
  /\ wifiOn = FALSE /\ work = Idle /\ report = << >>
  /\ settled = {} /\ meddled = 0

Reachable == phone.link = "usb" \/ (phone.link = "wifi" /\ wifiOn)

Says(s) == [state |-> s, fix |-> "none"]
Offers(s, f) == [state |-> s, fix |-> f]

-----------------------------------------------------------------------------
(* device.checks                                                           *)

\* run_checks, as far as connecting goes: no device, no pairing, or locked
\* end the check with what can be said; otherwise the device's own facts are
\* read first.
CheckBegins ==
  /\ work.pc = "idle"
  /\ IF Reachable /\ phone.trusts
     THEN /\ work' = [Idle EXCEPT !.pc = "asking", !.dev = phone.devmode]
          /\ UNCHANGED report
     ELSE /\ report' = CASE ~Reachable -> << >>
                         [] phone.locked /\ Reachable -> [c \in {"pairing"} |-> Says("bad")]
                         [] OTHER -> [c \in {"pairing"} |-> Offers("bad", "pair")]
          /\ UNCHANGED work
  /\ UNCHANGED <<phone, wifiOn, settled, meddled>>

\* _wifi_check
WifiCheck ==
  IF phone.link = "wifi" \/ wifiOn THEN Says("ok") ELSE Offers("info", "wifi")

NeedsDevMode == phone.major >= 16

DevModeCheck ==
  CASE ~NeedsDevMode -> Says("na")
    [] NeedsDevMode /\ work.dev -> Says("ok")
    [] OTHER -> Offers("bad", "developer-mode")

\* is_image_mounted: from iOS 27 on the image is a cryptex the image mounter
\* does not list.
MounterLists == phone.image /\ phone.major < 27

\* MUTANT: the cryptex daemon is not asked.
CryptexUnasked == FALSE

\* _ddi_cryptex_installed, asked from iOS 27 on
CryptexListed == phone.image /\ phone.major >= 27

\* _ddi_check: not before Developer Mode; a query that fails only informs.
DdiCheck ==
  CASE NeedsDevMode /\ ~work.dev -> Says("na")
    [] phone.locked \/ ~Reachable -> Says("info")
    [] ~phone.locked /\ Reachable /\ (MounterLists \/ CryptexListed) -> Says("ok")
    [] OTHER -> Offers("info", "ddi")

\* _profiles_check: slots used up, and expired profiles lying around.
ProfilesCheck ==
  CASE ~Reachable -> Says("info")
    [] Reachable /\ phone.expired -> Offers(IF phone.full THEN "warn" ELSE "ok", "expired-profiles")
    [] OTHER -> Says(IF phone.full THEN "warn" ELSE "ok")

\* _checks: the queries see the phone as it is by then.
CheckEnds ==
  /\ work.pc = "asking"
  /\ report' = [c \in CheckIds |->
                  CASE c = "wifi" -> WifiCheck
                    [] c = "ios" -> Says(IF phone.major < 12 THEN "bad" ELSE "ok")
                    [] c = "developer-mode" -> DevModeCheck
                    [] c = "ddi" -> DdiCheck
                    [] c = "profiles" -> ProfilesCheck
                    [] OTHER -> Says("ok")]
  /\ work' = Idle
  /\ UNCHANGED <<phone, wifiOn, settled, meddled>>

-----------------------------------------------------------------------------
(* device.fix                                                              *)

Offered == {report[c].fix : c \in DOMAIN report} \ {"none"}

\* run_fix: what a fix begins with - a button of the report that is shown;
\* everything but pairing connects first.
Opening(f) == CASE f = "pair" -> "pairing" [] f = "wifi" -> "enabling"
                [] f = "ddi" -> "mounting" [] OTHER -> "talking"

FixOver(how) ==
  /\ work' = Idle
  /\ report' = << >>          \* the window asks for the checks anew
  /\ settled' = IF how = "done" THEN settled \cup {work.fix} ELSE settled

FixBegins(f) ==
  /\ work.pc = "idle" /\ f \in Offered
  /\ f # "pair" => Reachable /\ phone.trusts
  /\ work' = [Idle EXCEPT !.pc = Opening(f), !.fix = f, !.polls = UnlockPolls]
  /\ UNCHANGED <<phone, wifiOn, report, settled, meddled>>

\* _pair: the owner trusts this computer, refuses, does not answer in time,
\* or the iPhone is locked.
Pair ==
  /\ work.pc = "pairing"
  /\ \/ /\ phone.link = "usb" /\ ~phone.locked
        /\ phone' = [phone EXCEPT !.trusts = TRUE]
        /\ FixOver("done")
     \/ FixOver("refused") /\ UNCHANGED phone
  /\ UNCHANGED <<wifiOn, meddled>>

\* wifi.enable: only over the cable.
EnableWifi ==
  /\ work.pc = "enabling"
  /\ \/ /\ phone.link = "usb"
        /\ wifiOn' = TRUE
        /\ FixOver("done")
     \/ FixOver("refused") /\ UNCHANGED wifiOn
  /\ UNCHANGED <<phone, meddled>>

\* _enable_developer_mode: a passcode reserves the switch for the owner and
\* it is only shown in Settings; without one the iPhone restarts.
DeveloperMode ==
  /\ work.pc = "talking" /\ work.fix = "developer-mode"
  /\ \/ phone.passcode /\ FixOver("manual") /\ UNCHANGED phone
     \/ ~phone.passcode /\ work' = [work EXCEPT !.pc = "restarting"]
        /\ phone' = [phone EXCEPT !.image = FALSE]
        /\ UNCHANGED <<report, settled>>
     \/ FixOver("refused") /\ UNCHANGED phone
  /\ UNCHANGED <<wifiOn, meddled>>

\* ... and is back with the prompt confirmed, or does not report back in time.
Restarted ==
  /\ work.pc = "restarting"
  /\ \E on \in BOOLEAN :
       /\ phone' = [phone EXCEPT !.devmode = @ \/ on]
       /\ \/ on /\ FixOver("done")
          \/ FixOver("raised")
  /\ UNCHANGED <<wifiOn, meddled>>

\* MUTANT: the deadline is set anew by every refusal.
PatientAgain == TRUE

\* mount_developer_image: the time to unlock is not over.
Patient == work.polls > 0

\* mount_developer_image: mounted or mounted already; no image for this
\* version or another refusal; locked: asked for and tried again every
\* UNLOCK_POLL until the wait is over.
Mount ==
  /\ work.pc = "mounting"
  /\ \/ /\ ~phone.locked /\ Reachable
        /\ phone' = [phone EXCEPT !.image = TRUE]
        /\ FixOver("done")
     \/ ~phone.locked /\ FixOver("refused") /\ UNCHANGED phone
     \/ /\ phone.locked /\ Patient
        /\ work' = [work EXCEPT !.polls = IF @ = 0 THEN 0 ELSE @ - 1]
        /\ UNCHANGED <<phone, report, settled>>
     \/ phone.locked /\ ~Patient /\ FixOver("refused") /\ UNCHANGED phone
  /\ UNCHANGED <<wifiOn, meddled>>

\* _remove_expired_profiles: `_, expired = ...` makes `_` a local list, so
\* the first message raises TypeError before anything is removed.
RemoveExpired ==
  /\ work.pc = "talking" /\ work.fix = "expired-profiles"
  /\ FixOver("raised")
  /\ UNCHANGED <<phone, wifiOn, meddled>>

-----------------------------------------------------------------------------

\* The owner: locks, unlocks, unplugs, plugs in, restarts, withdraws the
\* trust, flips the switch, removes or lets expire a profile.
Owner ==
  /\ meddled < Interferences /\ meddled' = meddled + 1
  /\ work.pc # "restarting"
  /\ phone' \in {[phone EXCEPT !.locked = phone.passcode /\ ~@], [phone EXCEPT !.link = "usb"],
                 [phone EXCEPT !.link = "wifi"], [phone EXCEPT !.link = "away"],
                 [phone EXCEPT !.image = FALSE], [phone EXCEPT !.trusts = FALSE],
                 [phone EXCEPT !.devmode = NeedsDevMode], [phone EXCEPT !.full = ~@]}
  /\ phone' # phone
  /\ settled' = {}
  /\ UNCHANGED <<wifiOn, work, report>>

FixStep == Pair \/ EnableWifi \/ DeveloperMode \/ Restarted \/ Mount \/ RemoveExpired

ReadinessNext ==
  \/ CheckBegins \/ CheckEnds \/ FixStep \/ Owner
  \/ \E f \in Fixes : FixBegins(f)

ReadinessSpec == ReadinessInit /\ [][ReadinessNext]_readinessVars

\* The conversation with the device goes on or times out.
ReadinessFairness == WF_readinessVars(FixStep)

-----------------------------------------------------------------------------

\* A fix that reported success has fixed its check: the next report does not
\* offer it again, as long as the owner leaves the phone alone - also when
\* the fix itself restarted the phone.
FixHelps == work.pc = "idle" => Offered \cap settled = {}

\* A fix ends, also when the iPhone stays locked and nobody answers.
FixEnds == work.pc \notin {"idle", "asking"} ~> work.pc \in {"idle", "asking"}
=============================================================================
