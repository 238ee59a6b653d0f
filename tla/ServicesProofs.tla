---------------------------- MODULE ServicesProofs --------------------------
(***************************************************************************)
(* The services of MCServices side by side: each of them behaves by its    *)
(* own specification, so that what is proved of each holds of all.         *)
(***************************************************************************)
EXTENDS MCServices, IdentityProofs, CallProofs, SumProofs

LEMMA EachStarts ==
    ServicesInit => /\ KycInit /\ WalletInit /\ StakingInit /\ SecretsInit
                    /\ ApiInit /\ RouteInit /\ RiskInit /\ HoldInit /\ RelayInit
  BY DEF ServicesInit

\* A step of the active service leaves the variables of the others alone.
LEMMA EachSteps ==
    [ServicesNext]_All =>
       /\ [KycNext]_kycVars /\ [WalletNext]_walletVars
       /\ [StakingNext]_stakingVars /\ [SecretsNext]_secretsVars
       /\ [ApiNext]_apiVars /\ [RouteNext]_routeVars /\ [RiskNext]_riskVars
       /\ [HoldNext]_holdVars /\ [RelayNext]_relayVars
<1> SUFFICES ASSUME [ServicesNext]_All
             PROVE  /\ [KycNext]_kycVars /\ [WalletNext]_walletVars
                    /\ [StakingNext]_stakingVars /\ [SecretsNext]_secretsVars
                    /\ [ApiNext]_apiVars /\ [RouteNext]_routeVars
                    /\ [RiskNext]_riskVars /\ [HoldNext]_holdVars
                    /\ [RelayNext]_relayVars
  OBVIOUS
<1>1. CASE UNCHANGED All
  BY <1>1 DEF All
<1>2. CASE ServicesNext
  BY <1>2 DEF ServicesNext, Kyc, Wallet, Stakes, Secrets, Api, Route, Risk,
              Holds, Relay
<1> QED
  BY <1>1, <1>2

\* Whichever service is active, the behaviour is one of every service: the
\* active one takes its own steps and the others wait in their first states.
\* The fairness of the swap API comes with it.
THEOREM EachServiceAlone ==
    ServicesSpec => /\ KycSpec /\ WalletSpec /\ StakingSpec /\ SecretsSpec
                    /\ ApiSpec /\ RouteSpec /\ RiskSpec /\ HoldSpec /\ RelaySpec
<1> QED
  BY EachStarts, EachSteps, PTL
     DEF ServicesSpec, KycSpec, WalletSpec, StakingSpec, SecretsSpec, ApiSpec,
         RouteSpec, RiskSpec, HoldSpec, RelaySpec

\* Every service keeps its types, for all values of all constants.
THEOREM ServicesTyped == ServicesSpec => []ServicesTypeOK
<1>1. /\ KycTypeOK /\ WalletTypeOK /\ StakingTypeOK /\ SecretsTypeOK /\ ApiTypeOK
      /\ RouteTypeOK /\ RiskTypeOK /\ HoldTypeOK /\ RelayTypeOK
      => ServicesTypeOK
  BY DEF ServicesTypeOK
<1> QED
  BY <1>1, EachServiceAlone, KycTypeCorrect, WalletTyped, StakingNumbers,
     SecretsTyped, ApiTyped, RouteTyped, RiskTyped, HoldTyped, RelayTyped, PTL
=============================================================================
