---------------------------- MODULE MCConversations ----------------------------
(* The backend's conversations, for TLC: the client's requests, the way to  *)
(* a device, the readiness fixes, the debugger and signing in.  They share  *)
(* no state, so each behaviour is about one of them (focus) and the others  *)
(* rest in an initial state: one run answers the question all of them are   *)
(* asked - does it end?                                                     *)
EXTENDS Server, Tunnel, Readiness, Debugger, SignIn, TLC

CONSTANTS r1, r2, r3

ThreeIds == {r1, r2, r3}

\* A job that runs under a loop of its own, somebody to cancel it or a second job
\* that goes on until it is cancelled, and another call.
LongJobs == [r \in Ids |-> CASE r = r1 -> {"isolated", "jit", "store.install"}
                            [] r = r2 -> {"cancel", "jit"}
                            [] OTHER -> {"quick"}]

VARIABLE focus

all == <<focus, vars, tunnelVars, readinessVars, debuggerVars, signInVars>>

ConversationsInit ==
  /\ focus \in {"server", "tunnel", "readiness", "debugger", "signing in"}
  /\ Init /\ TunnelInit /\ ReadinessInit /\ DebuggerInit /\ SignInInit
  /\ focus # "readiness" => phone.major = 17 /\ phone.passcode
  /\ focus # "debugger" => host.txm

ServerMoves == focus = "server" /\ Next /\ UNCHANGED <<tunnelVars, readinessVars, debuggerVars, signInVars>>
TunnelMoves == focus = "tunnel" /\ TunnelNext /\ UNCHANGED <<vars, readinessVars, debuggerVars, signInVars>>
ReadinessMoves == focus = "readiness" /\ ReadinessNext /\ UNCHANGED <<vars, tunnelVars, debuggerVars, signInVars>>
DebuggerMoves == focus = "debugger" /\ DebuggerNext /\ UNCHANGED <<vars, tunnelVars, readinessVars, signInVars>>
SignInMoves == focus = "signing in" /\ SignInNext /\ UNCHANGED <<vars, tunnelVars, readinessVars, debuggerVars>>

ConversationsNext ==
  UNCHANGED focus /\ (ServerMoves \/ TunnelMoves \/ ReadinessMoves \/ DebuggerMoves \/ SignInMoves)

ConversationsSpec == ConversationsInit /\ [][ConversationsNext]_all

\* The one that moves is as fair as its module says.
FairConversations ==
  /\ ConversationsSpec
  /\ \/ focus = "server" /\ Fairness
     \/ focus = "tunnel" /\ TunnelFairness
     \/ focus = "readiness" /\ ReadinessFairness
     \/ focus = "debugger" /\ DebuggerFairness
     \/ focus = "signing in" /\ SignInFairness

\* No step of a job, of the debugger's host or of a sign-in leads away from its
\* end, whatever is refused, lost, repeated or cancelled on the way.
ConversationsGetOn == TunnelJobGetsOn /\ JitGetsOn /\ SignInGetsOn

ConversationsTypeOK == TypeOK /\ TunnelTypeOK /\ ReadinessTypeOK /\ DebuggerTypeOK /\ SignInTypeOK
=============================================================================
