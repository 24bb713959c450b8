------------------------------- MODULE SignIn --------------------------------
(***************************************************************************)
(* Signing in to Apple (modstaller/apple/gsa.py, http.py, anisette.py):    *)
(* the SRP handshake, the second factor over the devices or a text         *)
(* message, the exchange for the app token - and the device identity every *)
(* request speaks for.                                                     *)
(*                                                                         *)
(* Apple is the environment: its edge refuses requests before its service  *)
(* sees them (429, 503), its answers may get lost after the service has    *)
(* acted, and it asks for a second factor as it likes.  The cryptography   *)
(* is left out: a proof that does not match is one of the errors.          *)
(***************************************************************************)
EXTENDS Progress

CONSTANTS
  GsaMaxAttempts,    \* GSA_MAX_ATTEMPTS
  TransportRetries,  \* Retry(total=3) of the adapter
  MaxIdentities      \* bound: device identities ever created

ASSUME SignInAssumption ==
  /\ GsaMaxAttempts \in Nat \ {0} /\ TransportRetries \in Nat /\ MaxIdentities \in Nat \ {0}

VARIABLES
  client,     \* the sign-in under way
  device,      \* the identity in DEVICE_FILE (0: none)
  saved,       \* the identity in PROVISIONING_FILE (0: none)
  mem,         \* the identity of the process-wide instance (0: none)
  provisioned, \* is_provisioned of that instance
  forgets,     \* what another process is discarding, between its two unlinks
  made,        \* identities created so far
  discarded,   \* history: identities somebody has discarded
  raced        \* history: another process changed the files in a way the look misses

identity == <<device, saved, mem, provisioned, forgets, made, discarded, raced>>
signInVars == <<client, identity>>

Ops == {"init", "complete", "apptokens", "trusteddevice", "validate",
        "auth", "phone", "securitycode", "trust"}
Identities == 0 .. MaxIdentities

\* Places of headers(): its look at the files, taking and saving the data, and
\* both again after the emulation broke.
Looking == {"identify", "identify again"}
Saving == {"persist", "persist again"}

SignInTypeOK ==
  /\ client \in [pc : Looking \cup Saving \cup {"idle", "send", "asking", "done", "failed"},
                 op : Ops, attempt : 1 .. GsaMaxAttempts, resend : 0 .. TransportRetries,
                 round : 1 .. 2, sms : BOOLEAN]
  /\ {device, saved, mem, made} \subseteq Identities
  /\ forgets \subseteq Identities /\ discarded \subseteq Identities
  /\ provisioned \in BOOLEAN /\ raced \in BOOLEAN

SignInInit ==
  /\ client = [pc |-> "idle", op |-> "init", attempt |-> 1, resend |-> 0, round |-> 1, sms |-> FALSE]
  /\ device = 0 /\ saved = 0 /\ mem = 0 /\ provisioned = FALSE /\ made = 0
  /\ forgets = {} /\ discarded = {} /\ raced = FALSE

\* The next request: its headers are made first.
NextRequest(c, op) == [c EXCEPT !.pc = "identify", !.op = op, !.attempt = 1, !.resend = 0]
Over(c, how) == [c EXCEPT !.pc = how, !.op = "init", !.attempt = 1, !.resend = 0]

\* The request cannot be finished: an exception, which the request to trust
\* the device (2sv/trust) swallows.
GivenUp(c) == IF c.op = "trust" THEN NextRequest(c, "apptokens") ELSE Over(c, "failed")

-----------------------------------------------------------------------------
(* LocalProvider                                                           *)

\* _load_or_create_device
LoadedOrCreated == IF device # 0 THEN device ELSE made + 1

\* _device_config: device.json is read, or written with a new identity.
MakesDevice ==
  /\ LoadedOrCreated \in Identities
  /\ device' = LoadedOrCreated
  /\ made' = IF device = 0 THEN made + 1 ELSE made

\* _shared with nothing in memory or fresh: the instance is loaded with the
\* identity it was provisioned with, or begins unprovisioned with device.json's.
Reload ==
  /\ MakesDevice
  /\ mem' = IF saved # 0 THEN saved ELSE LoadedOrCreated
  /\ provisioned' = (saved # 0)

\* Another process is between its two unlinks.
Overlaps == raced' = (raced \/ forgets # {})

\* authenticate, with a provider of its own (__init__; one that cannot be built
\* leaves a device.json at most, as MadeElsewhere does).
SignInBegins ==
  /\ client.pc \in {"idle", "done", "failed"}
  /\ IF mem = 0 THEN Reload ELSE MakesDevice /\ UNCHANGED <<mem, provisioned>>
  /\ client' = [NextRequest(client, "init") EXCEPT !.round = 1, !.sms = FALSE]
  /\ Overlaps /\ UNCHANGED <<saved, forgets, discarded>>

\* MUTANT: the files are not looked at again.
NotLookedAt == FALSE

\* _forgotten_elsewhere: the instance is provisioned and its file is gone.
ForgottenElsewhere == mem # 0 /\ provisioned /\ saved = 0

\* _headers_once: the instance in memory, or loaded again.
Identify ==
  /\ client.pc \in Looking
  /\ IF mem # 0 /\ ~ForgottenElsewhere THEN UNCHANGED <<device, mem, provisioned, made>> ELSE Reload
  /\ client' = [client EXCEPT !.pc = IF client.pc = "identify" THEN "persist" ELSE "persist again"]
  /\ Overlaps /\ UNCHANGED <<saved, forgets, discarded>>

\* get_data, _persist: an instance that is not provisioned yet is provisioned
\* with Apple, the headers are taken and the provisioning saved.
Persist ==
  /\ client.pc \in Saving
  /\ saved' = mem /\ provisioned' = TRUE
  /\ client' = [client EXCEPT !.pc = "send"]
  /\ Overlaps /\ UNCHANGED <<device, mem, forgets, made, discarded>>

\* UcError: loaded again from the files, and once more from the beginning.
EmulationBreaks ==
  /\ client.pc \in {"identify", "persist"}
  /\ Reload
  /\ client' = [client EXCEPT !.pc = "identify again"]
  /\ Overlaps /\ UNCHANGED <<saved, forgets, discarded>>

\* Any other exception - the libraries cannot be had, Apple refuses to
\* provision: what is in memory stays as it is, unprovisioned perhaps.
ProviderFails ==
  /\ client.pc \in Looking \cup Saving
  /\ UNCHANGED <<device, made>> \/ MakesDevice
  /\ client' \in {GivenUp(client), Over(client, "failed")}
  /\ Overlaps /\ UNCHANGED <<saved, mem, provisioned, forgets, discarded>>

-----------------------------------------------------------------------------
(* Others at the files.                                                    *)

InFiles == {device, saved} \ {0}

\* forget_device in this process (logout with "forget the device"), under
\* the lock that headers() holds: the copy in memory goes too.
ForgetHere ==
  /\ client.pc \notin Saving /\ InFiles # {}
  /\ device' = 0 /\ saved' = 0 /\ mem' = 0 /\ provisioned' = FALSE
  /\ discarded' = discarded \cup InFiles
  /\ UNCHANGED <<client, forgets, made, raced>>

\* ... and by the command line in another process, which has no lock in
\* common with this one: one file after the other.  What is being saved right
\* now, and an instance whose provisioning has failed so far, are not told.
ForgetElsewhere ==
  /\ forgets = {} /\ InFiles # {}
  /\ saved' = 0 /\ forgets' = InFiles
  /\ raced' = (raced \/ client.pc \in Saving \/ (mem # 0 /\ ~provisioned))
  /\ UNCHANGED <<client, device, mem, provisioned, made, discarded>>

ForgottenThere ==
  /\ forgets # {}
  /\ device' = 0 /\ forgets' = {} /\ discarded' = discarded \cup forgets
  /\ UNCHANGED <<client, saved, mem, provisioned, made, raced>>

\* A new identity is made there ...
MadeElsewhere ==
  /\ forgets = {} /\ device = 0 /\ MakesDevice
  /\ UNCHANGED <<client, saved, mem, provisioned, forgets, discarded, raced>>

\* ... and provisioned: its file hides that another one is gone.
ProvisionedElsewhere ==
  /\ forgets = {} /\ device # 0 /\ saved = 0
  /\ saved' = device
  /\ raced' = (raced \/ mem \notin {0, device})
  /\ UNCHANGED <<client, device, mem, provisioned, forgets, made, discarded>>

-----------------------------------------------------------------------------
(* gsa_request                                                             *)

\* The adapter's Retry(total=3) sends it again when no answer came, or a 429
\* told how long to wait; its status list is empty, its reads are not.
Resent(c) == IF c.resend < TransportRetries THEN [c EXCEPT !.resend = @ + 1] ELSE GivenUp(c)

\* MUTANT: attempts are not counted.
TriedForEver(c) == [c EXCEPT !.resend = 0]

\* 429 without a time to wait: a fresh connection, GSA_MAX_ATTEMPTS times.
Throttled(c) ==
  IF c.attempt < GsaMaxAttempts THEN [c EXCEPT !.attempt = @ + 1, !.resend = 0] ELSE GivenUp(c)

\* No answer of the service: refused at the edge (429, 503), not connected,
\* reset or timed out.
Unanswered ==
  /\ client.pc = "send"
  /\ client' \in {Resent(client), Throttled(client), GivenUp(client)}
  /\ UNCHANGED identity

-----------------------------------------------------------------------------
(* The flow: what follows an answer.                                       *)

Handshake(c) == [NextRequest(c, "init") EXCEPT !.round = 2]

\* _handshake, _second_factor: nothing more is asked for, or in the first
\* round a code, over the devices or by text message.  Asked for again after
\* it was given: an error.
AfterComplete(c) ==
  {NextRequest(c, "apptokens")} \cup
  IF c.round = 1 THEN {NextRequest(c, "trusteddevice"), [NextRequest(c, "auth") EXCEPT !.sms = TRUE]}
  ELSE {Over(c, "failed")}

\* A code may be sent, or was sent and still counts.
Prompt(c) == [c EXCEPT !.pc = "asking"]

\* _confirmed_session, _result: the token; after a text message Apple may
\* want the handshake again instead, unless the account is blocked.
AfterTokens(c) ==
  {Over(c, "done")} \cup (IF c.sms /\ c.round = 1 THEN {Handshake(c)} ELSE {})

AfterAnswer(c) ==
  CASE c.op = "init" -> {NextRequest(c, "complete")}
    [] c.op = "complete" -> AfterComplete(c)
    [] c.op \in {"trusteddevice", "phone"} -> {Prompt(c)}
    [] c.op = "validate" -> {Handshake(c)}
    [] c.op = "auth" -> {NextRequest(c, "phone")}
    [] c.op = "securitycode" -> {NextRequest(c, "trust")}
    [] c.op = "trust" -> {NextRequest(c, "apptokens")}
    [] OTHER -> AfterTokens(c)

\* An answer comes: as wanted, or an error (a status code, a body that is
\* not the expected one, a proof that does not match).  The sign-in page
\* (auth) and the trust are read for what they are worth.
Answer ==
  /\ client.pc = "send"
  /\ client' \in AfterAnswer(client)
               \cup (IF client.op \in {"auth", "trust"} THEN {} ELSE {Over(client, "failed")})
  /\ UNCHANGED identity

\* prompt.2fa: the person types the code, or nothing.
CodeEntered ==
  /\ client.pc = "asking"
  /\ client' \in {NextRequest(client, IF client.sms THEN "securitycode" ELSE "validate"),
                  Over(client, "failed")}
  /\ UNCHANGED identity

ClientStep ==
  \/ Identify \/ Persist \/ EmulationBreaks \/ ProviderFails
  \/ Unanswered \/ Answer \/ CodeEntered

SignInNext ==
  \/ SignInBegins \/ ClientStep \/ ForgetHere
  \/ ForgetElsewhere \/ ForgottenThere \/ MadeElsewhere \/ ProvisionedElsewhere

SignInSpec == SignInInit /\ [][SignInNext]_signInVars

\* Requests time out, and the person answers or closes the dialog.
SignInFairness == WF_signInVars(ClientStep)

-----------------------------------------------------------------------------

\* A discarded identity does not come back: neither the instance in memory nor
\* a sign-in under way writes it to a file again - except (raced) when another
\* process discards it while headers() is at work, or an instance in memory has
\* not been provisioned yet, whose file is not missed; or when that process has
\* meanwhile provisioned a new one, which hides that the old one is gone.
IdentityGone == ~raced => {device, saved} \cap discarded = {}

\* What _forgotten_elsewhere says of itself: it tells whether another process
\* discarded the identity.  With both files gone and the discarded identity still
\* in memory it must say so, or the next headers() provisions and saves it again.
ForgottenIsSeen == mem \in discarded /\ InFiles = {} => ForgottenElsewhere

\* What a sign-in has before it: rounds of the handshake, requests, attempts
\* and resends of one, phases of it.
RequestsLeft(op) ==
  CASE op = "init" -> 6 [] op = "complete" -> 5 [] op \in {"trusteddevice", "auth"} -> 4
    [] op \in {"validate", "phone"} -> 3 [] op = "securitycode" -> 2 [] op = "trust" -> 1 [] OTHER -> 0
PhasesLeft(pc) ==
  CASE pc = "identify" -> 5 [] pc = "persist" -> 4 [] pc = "identify again" -> 3
    [] pc = "persist again" -> 2 [] pc = "send" -> 1 [] OTHER -> 0
Ended(c) == c.pc \in {"idle", "done", "failed"}
SignInLeft(c) ==
  <<IF Ended(c) THEN 0 ELSE 3 - c.round, RequestsLeft(c.op), GsaMaxAttempts - c.attempt,
    TransportRetries - c.resend, PhasesLeft(c.pc)>>

\* A sign-in does not go in circles: a code is asked for in one round only, a
\* request is tried and sent so many times, and what comes back - nothing, an
\* error, "the handshake again" - takes it nearer its end.
SignInGetsOn ==
  [][client' = client \/ Ended(client) \/ Nearer(SignInLeft(client'), SignInLeft(client))]_signInVars

\* A sign-in ends, however often it is throttled, cut off or asked for a code
\* (or waits for an identity beyond the bound).
SignInEnds ==
  client.pc \notin {"idle", "done", "failed"}
    ~> client.pc \in {"idle", "done", "failed"} \/ made = MaxIdentities
=============================================================================
