----------------------------- MODULE MCServices ----------------------------
(***************************************************************************)
(* The services that share no state, each checked on its own in one run:   *)
(* active says which of them takes steps, so that their state spaces add.  *)
(***************************************************************************)
EXTENDS KycService, WalletOrders, Staking, SecretsStore, SwapApi,
        HybridRoute, RiskLimits, HoldCalls, PrivateRelay

VARIABLE active

MCListed == {<<1, "ETH">>, <<1, "USDT">>, <<56, "USDT">>}
NoUsdValue == -1
MCSwapValues == {999, 1000, NoUsdValue}

All == <<kycVars, walletVars, stakingVars, secretsVars, apiVars, routeVars,
         riskVars, holdVars, relayVars, active>>

Services == {"kyc", "wallet", "staking", "secrets", "api", "route", "risk",
             "holds", "relay"}

ServicesInit ==
    /\ active \in Services
    /\ KycInit /\ WalletInit /\ StakingInit /\ SecretsInit /\ ApiInit
    /\ RouteInit /\ RiskInit /\ HoldInit /\ RelayInit

Kyc == KycNext /\ UNCHANGED <<walletVars, stakingVars, secretsVars, apiVars,
                              routeVars, riskVars, holdVars, relayVars>>
Wallet == WalletNext /\ UNCHANGED <<kycVars, stakingVars, secretsVars, apiVars,
                                    routeVars, riskVars, holdVars, relayVars>>
Stakes == StakingNext /\ UNCHANGED <<kycVars, walletVars, secretsVars, apiVars,
                                     routeVars, riskVars, holdVars, relayVars>>
Secrets == SecretsNext /\ UNCHANGED <<kycVars, walletVars, stakingVars, apiVars,
                                      routeVars, riskVars, holdVars, relayVars>>
Api == ApiNext /\ UNCHANGED <<kycVars, walletVars, stakingVars, secretsVars,
                              routeVars, riskVars, holdVars, relayVars>>
Route == RouteNext /\ UNCHANGED <<kycVars, walletVars, stakingVars, secretsVars,
                                  apiVars, riskVars, holdVars, relayVars>>
Risk == RiskNext /\ UNCHANGED <<kycVars, walletVars, stakingVars, secretsVars,
                                apiVars, routeVars, holdVars, relayVars>>
Holds == HoldNext /\ UNCHANGED <<kycVars, walletVars, stakingVars, secretsVars,
                                 apiVars, routeVars, riskVars, relayVars>>
Relay == RelayNext /\ UNCHANGED <<kycVars, walletVars, stakingVars, secretsVars,
                                  apiVars, routeVars, riskVars, holdVars>>

ServicesNext ==
    /\ UNCHANGED active
    /\ \/ active = "kyc" /\ Kyc
       \/ active = "wallet" /\ Wallet
       \/ active = "staking" /\ Stakes
       \/ active = "secrets" /\ Secrets
       \/ active = "api" /\ Api
       \/ active = "route" /\ Route
       \/ active = "risk" /\ Risk
       \/ active = "holds" /\ Holds
       \/ active = "relay" /\ Relay

ServicesSpec == ServicesInit /\ [][ServicesNext]_All /\ ApiFairness

\* Every service keeps its types.
ServicesTypeOK ==
    /\ KycTypeOK /\ WalletTypeOK /\ StakingTypeOK /\ SecretsTypeOK /\ ApiTypeOK
    /\ RouteTypeOK /\ RiskTypeOK /\ HoldTypeOK /\ RelayTypeOK
=============================================================================
