----------------------------- MODULE StoresProofs -----------------------------
(***************************************************************************)
(* Theorems about what several actors share, side by side: each part is in *)
(* the run that has them all what it is alone, and none leaves its types.  *)
(***************************************************************************)
EXTENDS MCStores, ServerProofs, InstallProofs, KnownProofs, DownloadsProofs, TLAPS

LEMMA EachMovesAlone ==
  [StoresNext]_all
  => /\ [Next]_vars /\ [InstallNext]_installVars /\ [CertificatesNext]_certificateVars
     /\ [DiscoveryNext]_discoveryVars /\ [AccountsNext]_accountVars
     /\ [SourcesNext \/ Released \/ CacheNext]_libraryVars /\ [SelfUpdateNext]_selfUpdateVars
BY DEF StoresNext, all, ServerMoves, InstallMoves, CertificatesMoves, DiscoveryMoves, AccountsMoves,
       LibraryMoves, SelfUpdateMoves

\* The server's jobs, the apps and their records, the signing identity, the
\* devices, the accounts, the store and ModStaller itself share nothing but
\* the process: what is proved about each holds for the run that has them all.
THEOREM SideBySide ==
  StoresSpec => /\ Spec /\ InstallSpec /\ CertificatesSpec /\ DiscoverySpec
                /\ AccountsSpec /\ LibrarySpec /\ SelfUpdateSpec
<1>1. StoresInit => /\ Init /\ InstallInit /\ CertificatesInit /\ DiscoveryInit
                    /\ AccountsInit /\ LibraryInit /\ SelfUpdateInit
  BY DEF StoresInit
<1> QED BY <1>1, EachMovesAlone, PTL
        DEF StoresSpec, Spec, InstallSpec, CertificatesSpec, DiscoverySpec, AccountsSpec, LibrarySpec, SelfUpdateSpec

\* StoresTypeOK: for any number of requests, apps, devices, accounts, sources
\* and versions, no part leaves its types.
THEOREM StoresTypes == StoresSpec => []StoresTypeOK
<1>1. StoresInit => focus \in {"server", "apps", "identity", "devices", "accounts", "sources", "IPAs", "itself"}
  BY DEF StoresInit
<1>2. [StoresNext]_all => focus' = focus
  BY DEF StoresNext, all
<1>3. Inv => TypeOK
  BY DEF Inv
<1>4. /\ focus \in {"server", "apps", "identity", "devices", "accounts", "sources", "IPAs", "itself"}
      /\ TypeOK /\ InstallTypeOK /\ CertificatesTypeOK /\ DiscoveryTypeOK /\ AccountsTypeOK
      /\ LibraryTypeOK /\ SelfUpdateTypeOK
      => StoresTypeOK
  BY DEF StoresTypeOK
<1>5. (focus \in {"server", "apps", "identity", "devices", "accounts", "sources", "IPAs", "itself"})
      /\ focus' = focus
      => (focus \in {"server", "apps", "identity", "devices", "accounts", "sources", "IPAs", "itself"})'
  OBVIOUS
<1> QED BY <1>1, <1>2, <1>3, <1>4, <1>5, SideBySide, Invariant, InstallTypes, NoneWasted, DiscoveryTypes,
           AccountsTypes, LibraryTypes, SelfUpdateTypes, PTL DEF StoresSpec
=============================================================================
