---------------------------- MODULE LitMessages -----------------------------
(***************************************************************************)
(* The schemas of the messages of litd, package litrpc.                    *)
(***************************************************************************)
EXTENDS WireFields
-----------------------------------------------------------------------------
(* lit-sessions_pb.js *)

AddSessionRequest == Message("AddSessionRequest",
    <<F(1, "string"), F(2, "enum"), F(3, "uint64String"), F(4, "string"), F(5, "bool"),
      R(6, "MacaroonPermission"), F(7, "string")>>)
MacaroonPermission == Message("MacaroonPermission", <<F(1, "string"), F(2, "string")>>)
AddSessionResponse == Message("AddSessionResponse", <<E(1, "Session")>>)
Session == Message("Session",
    <<F(14, "bytes"), F(1, "string"), F(2, "enum"), F(3, "enum"), F(4, "uint64String"),
      F(5, "string"), F(6, "bool"), F(7, "bytes"), F(8, "string"), F(9, "bytes"), F(10, "bytes"),
      F(11, "uint64String"), E(12, "MacaroonRecipe"), F(13, "string"),
      M(15, "string", "RulesMap"), F(16, "uint64String"), F(17, "bytes"),
      M(18, "string", "string"), F(19, "uint64String")>>)
MacaroonRecipe == Message("MacaroonRecipe", <<R(1, "MacaroonPermission"), R(2, "string")>>)
ListSessionsRequest == Message("ListSessionsRequest", <<>>)
ListSessionsResponse == Message("ListSessionsResponse", <<R(1, "Session")>>)
RevokeSessionRequest == Message("RevokeSessionRequest", <<F(8, "bytes")>>)
RevokeSessionResponse == Message("RevokeSessionResponse", <<>>)
RulesMap == Message("RulesMap", <<M(1, "string", "RuleValue")>>)
RuleValue == Message("RuleValue",
    <<O(1, "RateLimit", 1), O(2, "ChannelPolicyBounds", 1), O(3, "HistoryLimit", 1),
      O(4, "OffChainBudget", 1), O(5, "OnChainBudget", 1), O(6, "SendToSelf", 1),
      O(7, "ChannelRestrict", 1), O(8, "PeerRestrict", 1), O(9, "ChannelConstraint", 1)>>)
RateLimit == Message("RateLimit", <<E(1, "Rate"), E(2, "Rate")>>)
Rate == Message("Rate", <<F(1, "uint32"), F(2, "uint32")>>)
HistoryLimit == Message("HistoryLimit", <<F(1, "uint64String"), F(2, "uint64String")>>)
ChannelPolicyBounds == Message("ChannelPolicyBounds",
    <<F(1, "uint64String"), F(2, "uint64String"), F(3, "uint32"), F(4, "uint32"), F(5, "uint32"),
      F(6, "uint32"), F(7, "uint64String"), F(8, "uint64String")>>)
OffChainBudget == Message("OffChainBudget", <<F(1, "uint64String"), F(2, "uint64String")>>)
OnChainBudget == Message("OnChainBudget", <<F(1, "uint64String"), F(2, "uint64String")>>)
SendToSelf == Message("SendToSelf", <<>>)
ChannelRestrict == Message("ChannelRestrict", <<P(1, "uint64String")>>)
PeerRestrict == Message("PeerRestrict", <<R(1, "string")>>)
ChannelConstraint == Message("ChannelConstraint",
    <<F(1, "uint64String"), F(2, "uint64String"), F(3, "uint64String"), F(4, "bool"),
      F(5, "bool")>>)
-----------------------------------------------------------------------------
(* lit-accounts_pb.js *)

CreateAccountRequest == Message("CreateAccountRequest",
    <<F(1, "uint64String"), F(2, "int64String"), F(3, "string")>>)
CreateAccountResponse == Message("CreateAccountResponse", <<E(1, "Account"), F(2, "bytes")>>)
Account == Message("Account",
    <<F(1, "string"), F(2, "uint64String"), F(3, "int64String"), F(4, "int64String"),
      F(5, "int64String"), R(6, "AccountInvoice"), R(7, "AccountPayment"), F(8, "string")>>)
AccountInvoice == Message("AccountInvoice", <<F(1, "bytes")>>)
AccountPayment == Message("AccountPayment", <<F(1, "bytes"), F(2, "string"), F(3, "int64String")>>)
UpdateAccountRequest == Message("UpdateAccountRequest",
    <<F(1, "string"), F(2, "int64String"), F(3, "int64String"), F(4, "string")>>)
CreditAccountRequest == Message("CreditAccountRequest",
    <<E(1, "AccountIdentifier"), F(2, "uint64String")>>)
CreditAccountResponse == Message("CreditAccountResponse", <<E(1, "Account")>>)
DebitAccountRequest == Message("DebitAccountRequest",
    <<E(1, "AccountIdentifier"), F(3, "uint64String")>>)
DebitAccountResponse == Message("DebitAccountResponse", <<E(1, "Account")>>)
ListAccountsRequest == Message("ListAccountsRequest", <<>>)
ListAccountsResponse == Message("ListAccountsResponse", <<R(1, "Account")>>)
AccountInfoRequest == Message("AccountInfoRequest", <<F(1, "string"), F(2, "string")>>)
RemoveAccountRequest == Message("RemoveAccountRequest", <<F(1, "string"), F(2, "string")>>)
RemoveAccountResponse == Message("RemoveAccountResponse", <<>>)
AccountIdentifier == Message("AccountIdentifier", <<O(1, "string", 1), O(2, "string", 1)>>)
-----------------------------------------------------------------------------
(* lit-autopilot_pb.js *)

AddAutopilotSessionRequest == Message("AddAutopilotSessionRequest",
    <<F(1, "string"), F(2, "uint64String"), F(3, "string"), F(4, "bool"),
      M(5, "string", "FeatureConfig"), E(6, "RulesMap"), F(7, "bool"), F(8, "bytes"),
      F(9, "uint64String"), F(10, "bool")>>)
FeatureConfig == Message("FeatureConfig", <<E(1, "RulesMap"), F(2, "bytes")>>)
ListAutopilotSessionsRequest == Message("ListAutopilotSessionsRequest", <<>>)
ListAutopilotSessionsResponse == Message("ListAutopilotSessionsResponse", <<R(1, "Session")>>)
AddAutopilotSessionResponse == Message("AddAutopilotSessionResponse", <<E(1, "Session")>>)
ListAutopilotFeaturesRequest == Message("ListAutopilotFeaturesRequest", <<>>)
ListAutopilotFeaturesResponse == Message("ListAutopilotFeaturesResponse",
    <<M(1, "string", "Feature")>>)
RevokeAutopilotSessionRequest == Message("RevokeAutopilotSessionRequest", <<F(1, "bytes")>>)
RevokeAutopilotSessionResponse == Message("RevokeAutopilotSessionResponse", <<>>)
Feature == Message("Feature",
    <<F(1, "string"), F(2, "string"), M(3, "string", "RuleValues"), R(4, "Permissions"),
      F(5, "bool"), F(6, "string"), F(7, "uint64String")>>)
RuleValues == Message("RuleValues",
    <<F(1, "bool"), E(2, "RuleValue"), E(3, "RuleValue"), E(4, "RuleValue")>>)
Permissions == Message("Permissions", <<F(1, "string"), R(2, "MacaroonPermission")>>)
-----------------------------------------------------------------------------
(* lit-status_pb.js *)

SubServerStatusReq == Message("SubServerStatusReq", <<>>)
SubServerStatusResp == Message("SubServerStatusResp", <<M(1, "string", "SubServerStatus")>>)
SubServerStatus == Message("SubServerStatus",
    <<F(1, "bool"), F(2, "bool"), F(3, "string"), F(4, "string")>>)
-----------------------------------------------------------------------------
(* proxy_pb.js *)

BakeSuperMacaroonRequest == Message("BakeSuperMacaroonRequest", <<F(1, "uint32"), F(2, "bool")>>)
BakeSuperMacaroonResponse == Message("BakeSuperMacaroonResponse", <<F(1, "string")>>)
StopDaemonRequest == Message("StopDaemonRequest", <<>>)
StopDaemonResponse == Message("StopDaemonResponse", <<>>)
GetInfoRequest == Message("GetInfoRequest", <<>>)
GetInfoResponse == Message("GetInfoResponse", <<F(1, "string"), F(2, "string")>>)
-----------------------------------------------------------------------------
(* firewall_pb.js *)

PrivacyMapConversionRequest == Message("PrivacyMapConversionRequest",
    <<F(1, "bool"), F(2, "bytes"), F(3, "string"), F(4, "bytes")>>)
PrivacyMapConversionResponse == Message("PrivacyMapConversionResponse", <<F(1, "string")>>)
ListActionsRequest == Message("ListActionsRequest",
    <<F(1, "string"), F(2, "string"), F(3, "string"), F(4, "enum"), F(5, "uint64String"),
      F(6, "uint64String"), F(7, "bool"), F(8, "bool"), F(9, "bytes"), F(10, "uint64String"),
      F(11, "uint64String"), F(12, "bytes")>>)
ListActionsResponse == Message("ListActionsResponse",
    <<R(1, "Action"), F(2, "uint64String"), F(3, "uint64String")>>)
Action == Message("Action",
    <<F(1, "string"), F(2, "string"), F(3, "string"), F(4, "string"), F(5, "string"),
      F(6, "string"), F(7, "string"), F(8, "uint64String"), F(9, "enum"), F(10, "string"),
      F(11, "bytes"), F(12, "bytes")>>)
-----------------------------------------------------------------------------
Schemas ==
    {AddSessionRequest, MacaroonPermission, AddSessionResponse, Session, MacaroonRecipe,
     ListSessionsRequest, ListSessionsResponse, RevokeSessionRequest, RevokeSessionResponse,
     RulesMap, RuleValue, RateLimit, Rate, HistoryLimit, ChannelPolicyBounds, OffChainBudget,
     OnChainBudget, SendToSelf, ChannelRestrict, PeerRestrict, ChannelConstraint,
     CreateAccountRequest, CreateAccountResponse, Account, AccountInvoice, AccountPayment,
     UpdateAccountRequest, CreditAccountRequest, CreditAccountResponse, DebitAccountRequest,
     DebitAccountResponse, ListAccountsRequest, ListAccountsResponse, AccountInfoRequest,
     RemoveAccountRequest, RemoveAccountResponse, AccountIdentifier, AddAutopilotSessionRequest,
     FeatureConfig, ListAutopilotSessionsRequest, ListAutopilotSessionsResponse,
     AddAutopilotSessionResponse, ListAutopilotFeaturesRequest, ListAutopilotFeaturesResponse,
     RevokeAutopilotSessionRequest, RevokeAutopilotSessionResponse, Feature, RuleValues,
     Permissions, SubServerStatusReq, SubServerStatusResp, SubServerStatus,
     BakeSuperMacaroonRequest, BakeSuperMacaroonResponse, StopDaemonRequest, StopDaemonResponse,
     GetInfoRequest, GetInfoResponse, PrivacyMapConversionRequest, PrivacyMapConversionResponse,
     ListActionsRequest, ListActionsResponse, Action}
=============================================================================
