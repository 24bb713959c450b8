----------------------------- MODULE RpcContract -----------------------------
(***************************************************************************)
(* What a client of `modstaller serve` may rely on, whatever threads and   *)
(* loops the server uses: a request is answered at most once, nobody is    *)
(* told "cancelled" who was not cancelled, and nothing is answered after   *)
(* the end of the input.  Server.tla implements this specification.        *)
(***************************************************************************)
CONSTANTS Ids           \* ids of requests; the client never reuses one

Answers == {"ok", "error", "cancelled"}

VARIABLES
  st,                   \* [Ids -> {"idle", "open"} \cup Answers]
  wanted,               \* requests somebody has asked to cancel
  up                    \* the server still reads its input

contract == <<st, wanted, up>>

Init ==
  /\ st = [r \in Ids |-> "idle"]
  /\ wanted = {}
  /\ up = TRUE

Call(r) ==
  /\ up /\ st[r] = "idle"
  /\ st' = [st EXCEPT ![r] = "open"]
  /\ UNCHANGED <<wanted, up>>

Answer(r, answer) ==
  /\ up /\ st[r] = "open"
  /\ answer = "cancelled" => r \in wanted
  /\ st' = [st EXCEPT ![r] = answer]
  /\ UNCHANGED <<wanted, up>>

\* The request "cancel": it is answered itself, and its target wanted gone.
Cancel(c, t) ==
  /\ up /\ st[c] = "open" /\ st[t] = "open" /\ c # t
  /\ \E answer \in {"ok", "error"} : st' = [st EXCEPT ![c] = answer]
  /\ wanted' = wanted \cup {t}
  /\ UNCHANGED up

\* End of the input: what is open is answered "cancelled", or never.
Close ==
  /\ up
  /\ up' = FALSE
  /\ \E dropped \in SUBSET {r \in Ids : st[r] = "open"} :
       st' = [r \in Ids |-> IF st[r] = "open" /\ r \notin dropped
                            THEN "cancelled" ELSE st[r]]
  /\ wanted' \in {w \in SUBSET Ids : wanted \subseteq w}

Next ==
  \/ \E r \in Ids : Call(r) \/ \E answer \in Answers : Answer(r, answer)
  \/ \E c, t \in Ids : Cancel(c, t)
  \/ Close

Spec == Init /\ [][Next]_contract
=============================================================================
