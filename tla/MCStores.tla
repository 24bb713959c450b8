-------------------------------- MODULE MCStores --------------------------------
(* What several actors share, for TLC: the server's jobs, the installed apps and     *)
(* their records, the signing identity, known devices, accounts, the store and its  *)
(* cache, and the app itself.  The models share no state, so each behaviour is about *)
(* one of them (focus) and the others rest in an initial state: one run answers the *)
(* question all of them are asked - do overlapping actors, failures and crashes     *)
(* leave it consistent?                                                             *)
EXTENDS Server, Install, Certificates, Discovery, Accounts, Library, SelfUpdate

CONSTANTS r1, r2, r3, p, q, e, d1

\* Two requests of any kind and somebody to cancel either.
ThreeIds == {r1, r2, r3}
TwoAndACancel == [r \in Ids |-> IF r = r3 THEN {"cancel"} ELSE AllMethods]

TwoIpas == {p, q}
OnlyPHasAnExtension == [i \in Ipas |-> IF i = p THEN {e} ELSE {}]
OneDevice == {d1}
OneChoice == {<<"chosen">>}
OneChoiceForP == [i \in Ipas |-> IF i = p THEN OneChoice ELSE {}]

\* A release and a beta of the next one.
Old == [core |-> 1, pre |-> << >>]
Beta == [core |-> 2, pre |-> <<[number |-> FALSE, rank |-> 0], [number |-> TRUE, rank |-> 1]>>]
TwoReleases == {Old, Beta}

VARIABLE focus

all == <<focus, vars, installVars, certificateVars, discoveryVars, accountVars, libraryVars, selfUpdateVars>>

StoresInit ==
  /\ focus \in {"server", "apps", "identity", "devices", "accounts", "sources", "IPAs", "itself"}
  /\ Init /\ InstallInit /\ CertificatesInit /\ DiscoveryInit /\ AccountsInit /\ LibraryInit /\ SelfUpdateInit
  /\ focus # "apps" => available = MaxQuota
  /\ focus # "accounts" => session = [a \in People |-> "none"]

ServerMoves ==
  /\ focus = "server" /\ Next
  /\ UNCHANGED <<installVars, certificateVars, discoveryVars, accountVars, libraryVars, selfUpdateVars>>
InstallMoves ==
  /\ focus = "apps" /\ InstallNext
  /\ UNCHANGED <<vars, certificateVars, discoveryVars, accountVars, libraryVars, selfUpdateVars>>
CertificatesMoves ==
  /\ focus = "identity" /\ CertificatesNext
  /\ UNCHANGED <<vars, installVars, discoveryVars, accountVars, libraryVars, selfUpdateVars>>
DiscoveryMoves ==
  /\ focus = "devices" /\ DiscoveryNext
  /\ UNCHANGED <<vars, installVars, certificateVars, accountVars, libraryVars, selfUpdateVars>>
AccountsMoves ==
  /\ focus = "accounts" /\ AccountsNext
  /\ UNCHANGED <<vars, installVars, certificateVars, discoveryVars, libraryVars, selfUpdateVars>>
LibraryMoves ==
  /\ \/ focus = "sources" /\ (SourcesNext \/ Released)
     \/ focus = "IPAs" /\ CacheNext
  /\ UNCHANGED <<vars, installVars, certificateVars, discoveryVars, accountVars, selfUpdateVars>>
SelfUpdateMoves ==
  /\ focus = "itself" /\ SelfUpdateNext
  /\ UNCHANGED <<vars, installVars, certificateVars, discoveryVars, accountVars, libraryVars>>

StoresNext ==
  /\ UNCHANGED focus
  /\ \/ ServerMoves \/ InstallMoves \/ CertificatesMoves \/ DiscoveryMoves
     \/ AccountsMoves \/ LibraryMoves \/ SelfUpdateMoves

StoresSpec == StoresInit /\ [][StoresNext]_all

\* What rests stays as it began.
StoresTypeOK ==
  CASE focus = "server" -> TypeOK
    [] focus = "apps" -> InstallTypeOK
    [] focus = "identity" -> CertificatesTypeOK
    [] focus = "devices" -> DiscoveryTypeOK
    [] focus = "accounts" -> AccountsTypeOK
    [] focus \in {"sources", "IPAs"} -> LibraryTypeOK
    [] focus = "itself" -> SelfUpdateTypeOK
=============================================================================
