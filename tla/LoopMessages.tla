--------------------------- MODULE LoopMessages -----------------------------
(***************************************************************************)
(* The schemas of the messages of Loop and its swap server, package looprpc.*)
(***************************************************************************)
EXTENDS WireFields
-----------------------------------------------------------------------------
(* loop_pb.js *)

StopDaemonRequest == Message("StopDaemonRequest", <<>>)
StopDaemonResponse == Message("StopDaemonResponse", <<>>)
LoopOutRequest == Message("LoopOutRequest",
    <<F(1, "int64String"), F(2, "string"), F(3, "int64String"), F(4, "int64String"),
      F(5, "int64String"), F(6, "int64String"), F(7, "int64String"), F(8, "uint64String"),
      P(11, "uint64String"), F(9, "int32"), F(13, "int32"), F(10, "uint64String"),
      F(12, "string"), F(14, "string"), F(15, "string"), F(16, "enum"), F(17, "bool"),
      R(18, "bytes"), F(19, "uint32"), E(20, "AssetLoopOutRequest"), E(21, "AssetRfqInfo")>>)
LoopInRequest == Message("LoopInRequest",
    <<F(1, "int64String"), F(2, "int64String"), F(3, "int64String"), F(4, "bytes"), F(5, "bool"),
      F(6, "int32"), F(7, "string"), F(8, "string"), R(9, "RouteHint"), F(10, "bool")>>)
SwapResponse == Message("SwapResponse",
    <<F(1, "string"), F(3, "bytes"), F(2, "string"), F(5, "string"), F(7, "string"),
      F(6, "string")>>)
MonitorRequest == Message("MonitorRequest", <<>>)
SwapStatus == Message("SwapStatus",
    <<F(1, "int64String"), F(2, "string"), F(11, "bytes"), F(3, "enum"), F(4, "enum"),
      F(14, "enum"), F(5, "int64String"), F(6, "int64String"), F(7, "string"), F(12, "string"),
      F(18, "string"), F(8, "int64String"), F(9, "int64String"), F(10, "int64String"),
      F(16, "bytes"), P(17, "uint64String"), F(15, "string"), E(19, "AssetLoopOutInfo")>>)
ListSwapsRequest == Message("ListSwapsRequest", <<E(1, "ListSwapsFilter"), F(2, "uint64String")>>)
ListSwapsFilter == Message("ListSwapsFilter",
    <<F(1, "enum"), F(2, "bool"), P(3, "uint64String"), F(4, "string"), F(5, "bytes"),
      F(6, "bool"), F(7, "int64String")>>)
ListSwapsResponse == Message("ListSwapsResponse", <<R(1, "SwapStatus"), F(2, "int64String")>>)
SweepHtlcRequest == Message("SweepHtlcRequest",
    <<F(1, "string"), F(2, "uint32"), F(3, "string"), F(4, "bytes"), F(5, "bool"), F(6, "string")>>)
SweepHtlcResponse == Message("SweepHtlcResponse",
    <<F(1, "bytes"), F(2, "uint64String"), O(3, "PublishNotRequested", 1),
      O(4, "PublishSucceeded", 1), O(5, "PublishFailed", 1)>>)
PublishNotRequested == Message("PublishNotRequested", <<>>)
PublishSucceeded == Message("PublishSucceeded", <<>>)
PublishFailed == Message("PublishFailed", <<F(1, "string")>>)
SwapInfoRequest == Message("SwapInfoRequest", <<F(1, "bytes")>>)
TermsRequest == Message("TermsRequest", <<>>)
InTermsResponse == Message("InTermsResponse", <<F(5, "int64String"), F(6, "int64String")>>)
OutTermsResponse == Message("OutTermsResponse",
    <<F(5, "int64String"), F(6, "int64String"), F(8, "int32"), F(9, "int32")>>)
QuoteRequest == Message("QuoteRequest",
    <<F(1, "int64String"), F(2, "int32"), F(3, "bool"), F(4, "uint64String"), F(5, "bytes"),
      R(6, "RouteHint"), F(7, "bool"), R(8, "string"), E(9, "AssetLoopOutRequest"),
      F(10, "bool"), F(11, "bool")>>)
InQuoteResponse == Message("InQuoteResponse",
    <<F(1, "int64String"), F(3, "int64String"), F(5, "int32"), F(6, "int32"), F(7, "int64String")>>)
OutQuoteResponse == Message("OutQuoteResponse",
    <<F(1, "int64String"), F(2, "int64String"), F(3, "int64String"), F(4, "bytes"),
      F(5, "int32"), F(6, "int32"), E(7, "AssetRfqInfo")>>)
ProbeRequest == Message("ProbeRequest", <<F(1, "int64String"), F(2, "bytes"), R(3, "RouteHint")>>)
ProbeResponse == Message("ProbeResponse", <<>>)
TokensRequest == Message("TokensRequest", <<>>)
TokensResponse == Message("TokensResponse", <<R(1, "L402Token")>>)
FetchL402TokenRequest == Message("FetchL402TokenRequest", <<>>)
FetchL402TokenResponse == Message("FetchL402TokenResponse", <<>>)
L402Token == Message("L402Token",
    <<F(1, "bytes"), F(2, "bytes"), F(3, "bytes"), F(4, "int64String"), F(5, "int64String"),
      F(6, "int64String"), F(7, "bool"), F(8, "string"), F(9, "string")>>)
LoopStats == Message("LoopStats",
    <<F(1, "uint64String"), F(2, "uint64String"), F(3, "uint64String"), F(4, "int64String"),
      F(5, "int64String")>>)
GetInfoRequest == Message("GetInfoRequest", <<>>)
GetInfoResponse == Message("GetInfoResponse",
    <<F(1, "string"), F(2, "string"), F(3, "string"), F(4, "string"), F(5, "string"),
      F(6, "string"), E(7, "LoopStats"), E(8, "LoopStats"), F(9, "string")>>)
GetLiquidityParamsRequest == Message("GetLiquidityParamsRequest", <<>>)
LiquidityParameters == Message("LiquidityParameters",
    <<R(1, "LiquidityRule"), F(16, "uint64String"), F(2, "uint64String"), F(3, "uint64String"),
      F(4, "uint64String"), F(5, "uint64String"), F(6, "uint64String"), F(7, "uint64String"),
      F(8, "int32"), F(9, "uint64String"), F(10, "bool"), F(11, "uint64String"),
      F(12, "uint64String"), F(13, "uint64String"), F(14, "uint64String"), F(15, "uint64String"),
      F(17, "int32"), F(18, "string"), F(19, "uint64String"), F(20, "uint64String"),
      F(21, "bool"), F(22, "uint64String"), F(23, "string"), F(24, "enum"),
      M(25, "string", "EasyAssetAutoloopParams"), F(26, "bool"), R(27, "bytes")>>)
EasyAssetAutoloopParams == Message("EasyAssetAutoloopParams",
    <<F(1, "bool"), F(2, "uint64String")>>)
LiquidityRule == Message("LiquidityRule",
    <<F(1, "uint64String"), F(6, "enum"), F(5, "bytes"), F(2, "enum"), F(3, "uint32"),
      F(4, "uint32")>>)
SetLiquidityParamsRequest == Message("SetLiquidityParamsRequest", <<E(1, "LiquidityParameters")>>)
SetLiquidityParamsResponse == Message("SetLiquidityParamsResponse", <<>>)
SuggestSwapsRequest == Message("SuggestSwapsRequest", <<>>)
Disqualified == Message("Disqualified", <<F(1, "uint64String"), F(3, "bytes"), F(2, "enum")>>)
SuggestSwapsResponse == Message("SuggestSwapsResponse",
    <<R(1, "LoopOutRequest"), R(3, "LoopInRequest"), R(2, "Disqualified")>>)
AbandonSwapRequest == Message("AbandonSwapRequest", <<F(1, "bytes"), F(2, "bool")>>)
AbandonSwapResponse == Message("AbandonSwapResponse", <<>>)
ListReservationsRequest == Message("ListReservationsRequest", <<>>)
ListReservationsResponse == Message("ListReservationsResponse", <<R(1, "ClientReservation")>>)
ClientReservation == Message("ClientReservation",
    <<F(1, "bytes"), F(2, "string"), F(3, "uint64String"), F(4, "string"), F(5, "uint32"),
      F(6, "uint32")>>)
InstantOutRequest == Message("InstantOutRequest",
    <<R(1, "bytes"), P(2, "uint64String"), F(3, "string")>>)
InstantOutResponse == Message("InstantOutResponse",
    <<F(1, "bytes"), F(2, "string"), F(3, "string")>>)
InstantOutQuoteRequest == Message("InstantOutQuoteRequest",
    <<F(1, "uint64String"), F(2, "int32"), R(3, "bytes")>>)
InstantOutQuoteResponse == Message("InstantOutQuoteResponse",
    <<F(1, "int64String"), F(2, "int64String")>>)
ListInstantOutsRequest == Message("ListInstantOutsRequest", <<>>)
ListInstantOutsResponse == Message("ListInstantOutsResponse", <<R(1, "InstantOut")>>)
InstantOut == Message("InstantOut",
    <<F(1, "bytes"), F(2, "string"), F(3, "uint64String"), R(4, "bytes"), F(5, "string")>>)
NewStaticAddressRequest == Message("NewStaticAddressRequest", <<F(1, "bytes")>>)
NewStaticAddressResponse == Message("NewStaticAddressResponse", <<F(1, "string"), F(2, "uint32")>>)
ListUnspentDepositsRequest == Message("ListUnspentDepositsRequest",
    <<F(1, "int32"), F(2, "int32")>>)
ListUnspentDepositsResponse == Message("ListUnspentDepositsResponse", <<R(1, "Utxo")>>)
Utxo == Message("Utxo",
    <<F(1, "string"), F(2, "int64String"), F(3, "string"), F(4, "int64String")>>)
WithdrawDepositsRequest == Message("WithdrawDepositsRequest",
    <<R(1, "OutPoint"), F(2, "bool"), F(3, "string"), F(4, "int64String"), F(5, "int64String")>>)
WithdrawDepositsResponse == Message("WithdrawDepositsResponse", <<F(1, "string"), F(2, "string")>>)
OutPoint == Message("OutPoint", <<F(1, "bytes"), F(2, "string"), F(3, "uint32")>>)
ListStaticAddressDepositsRequest == Message("ListStaticAddressDepositsRequest",
    <<F(1, "enum"), R(2, "string")>>)
ListStaticAddressDepositsResponse == Message("ListStaticAddressDepositsResponse",
    <<R(1, "Deposit")>>)
ListStaticAddressWithdrawalRequest == Message("ListStaticAddressWithdrawalRequest", <<>>)
ListStaticAddressWithdrawalResponse == Message("ListStaticAddressWithdrawalResponse",
    <<R(1, "StaticAddressWithdrawal")>>)
ListStaticAddressSwapsRequest == Message("ListStaticAddressSwapsRequest", <<>>)
ListStaticAddressSwapsResponse == Message("ListStaticAddressSwapsResponse",
    <<R(1, "StaticAddressLoopInSwap")>>)
StaticAddressSummaryRequest == Message("StaticAddressSummaryRequest", <<>>)
StaticAddressSummaryResponse == Message("StaticAddressSummaryResponse",
    <<F(1, "string"), F(2, "uint64String"), F(3, "uint32"), F(4, "int64String"),
      F(5, "int64String"), F(6, "int64String"), F(7, "int64String"), F(8, "int64String"),
      F(9, "int64String")>>)
Deposit == Message("Deposit",
    <<F(1, "bytes"), F(2, "enum"), F(3, "string"), F(4, "int64String"), F(5, "int64String"),
      F(6, "int64String"), F(7, "bytes")>>)
StaticAddressWithdrawal == Message("StaticAddressWithdrawal",
    <<F(1, "string"), R(2, "Deposit"), F(3, "int64String"), F(4, "int64String"),
      F(5, "int64String"), F(6, "uint32")>>)
StaticAddressLoopInSwap == Message("StaticAddressLoopInSwap",
    <<F(1, "bytes"), R(2, "string"), F(3, "enum"), F(4, "int64String"), F(5, "int64String"),
      R(6, "Deposit")>>)
StaticAddressLoopInRequest == Message("StaticAddressLoopInRequest",
    <<R(1, "string"), F(2, "int64String"), F(3, "bytes"), F(4, "string"), F(5, "string"),
      R(6, "RouteHint"), F(7, "bool"), F(8, "uint32"), F(9, "int64String"), F(10, "bool")>>)
StaticAddressLoopInResponse == Message("StaticAddressLoopInResponse",
    <<F(1, "bytes"), F(2, "string"), F(3, "uint64String"), F(4, "int32"), F(5, "int64String"),
      F(6, "int64String"), F(7, "uint32"), F(8, "string"), F(9, "string"), F(10, "string"),
      F(11, "uint32"), R(12, "Deposit"), F(13, "uint64String"), F(14, "int64String"),
      F(15, "bool")>>)
AssetLoopOutRequest == Message("AssetLoopOutRequest",
    <<F(1, "bytes"), F(2, "bytes"), F(3, "double"), F(4, "int64String")>>)
AssetRfqInfo == Message("AssetRfqInfo",
    <<F(1, "bytes"), F(2, "uint64String"), E(6, "FixedPoint"), F(3, "bytes"),
      F(4, "uint64String"), E(7, "FixedPoint"), F(5, "string")>>)
FixedPoint == Message("FixedPoint", <<F(1, "string"), F(2, "uint32")>>)
AssetLoopOutInfo == Message("AssetLoopOutInfo",
    <<F(1, "string"), F(2, "string"), F(3, "uint64String")>>)
-----------------------------------------------------------------------------
(* swapserverrpc/server_pb.js *)

ServerLoopOutRequest == Message("ServerLoopOutRequest",
    <<F(1, "bytes"), F(2, "bytes"), F(3, "uint64String"), F(4, "int64String"), F(5, "enum"),
      F(6, "int32"), F(7, "string")>>)
ServerLoopOutResponse == Message("ServerLoopOutResponse",
    <<F(1, "string"), F(2, "string"), F(3, "bytes"), F(4, "int32"), F(5, "string")>>)
ServerLoopOutQuoteRequest == Message("ServerLoopOutQuoteRequest",
    <<F(1, "uint64String"), F(2, "int64String"), F(3, "enum"), F(4, "int32"), F(5, "string")>>)
ServerLoopOutQuote == Message("ServerLoopOutQuote",
    <<F(1, "string"), F(2, "int64String"), F(3, "int64String"), F(4, "uint64String"),
      F(5, "uint64String"), F(6, "uint64String"), F(7, "int32")>>)
ServerLoopOutTermsRequest == Message("ServerLoopOutTermsRequest", <<F(1, "enum"), F(2, "string")>>)
ServerLoopOutTerms == Message("ServerLoopOutTerms",
    <<F(1, "uint64String"), F(2, "uint64String"), F(3, "int32"), F(4, "int32")>>)
ServerLoopInRequest == Message("ServerLoopInRequest",
    <<F(1, "bytes"), F(9, "bytes"), F(2, "bytes"), F(3, "uint64String"), F(4, "string"),
      F(5, "bytes"), F(6, "enum"), F(7, "string"), F(8, "string")>>)
ServerLoopInResponse == Message("ServerLoopInResponse",
    <<F(1, "bytes"), F(9, "bytes"), F(2, "int32"), F(3, "string")>>)
ServerLoopInQuoteRequest == Message("ServerLoopInQuoteRequest",
    <<F(1, "uint64String"), F(3, "bytes"), F(4, "bytes"), R(5, "RouteHint"), F(2, "enum"),
      F(6, "string"), F(7, "uint32"), F(8, "bool")>>)
ServerLoopInQuoteResponse == Message("ServerLoopInQuoteResponse",
    <<F(1, "int64String"), F(2, "int64String"), F(4, "uint64String"), F(5, "uint64String"),
      F(6, "int32")>>)
ServerLoopInTermsRequest == Message("ServerLoopInTermsRequest", <<F(1, "enum"), F(2, "string")>>)
ServerLoopInTerms == Message("ServerLoopInTerms", <<F(1, "uint64String"), F(2, "uint64String")>>)
ServerLoopOutPushPreimageRequest == Message("ServerLoopOutPushPreimageRequest",
    <<F(1, "enum"), F(2, "bytes")>>)
ServerLoopOutPushPreimageResponse == Message("ServerLoopOutPushPreimageResponse", <<>>)
SubscribeUpdatesRequest == Message("SubscribeUpdatesRequest", <<F(1, "enum"), F(2, "bytes")>>)
SubscribeLoopOutUpdatesResponse == Message("SubscribeLoopOutUpdatesResponse",
    <<F(1, "int64String"), F(2, "enum")>>)
SubscribeLoopInUpdatesResponse == Message("SubscribeLoopInUpdatesResponse",
    <<F(1, "int64String"), F(2, "enum")>>)
RouteCancel == Message("RouteCancel", <<F(1, "enum"), R(2, "HtlcAttempt"), F(3, "enum")>>)
HtlcAttempt == Message("HtlcAttempt", <<F(1, "uint32")>>)
CancelLoopOutSwapRequest == Message("CancelLoopOutSwapRequest",
    <<F(1, "enum"), F(2, "bytes"), F(3, "bytes"), O(5, "RouteCancel", 1)>>)
CancelLoopOutSwapResponse == Message("CancelLoopOutSwapResponse", <<>>)
ServerProbeRequest == Message("ServerProbeRequest",
    <<F(1, "enum"), F(2, "uint64String"), F(3, "bytes"), F(4, "bytes"), R(5, "RouteHint")>>)
ServerProbeResponse == Message("ServerProbeResponse", <<>>)
RecommendRoutingPluginReq == Message("RecommendRoutingPluginReq",
    <<F(1, "enum"), F(2, "bytes"), F(3, "bytes")>>)
RecommendRoutingPluginRes == Message("RecommendRoutingPluginRes", <<F(1, "enum")>>)
ReportRoutingResultReq == Message("ReportRoutingResultReq",
    <<F(1, "enum"), F(2, "bytes"), F(3, "bytes"), F(4, "enum"), F(5, "bool"), F(6, "int32"),
      F(7, "int64String")>>)
ReportRoutingResultRes == Message("ReportRoutingResultRes", <<>>)
MuSig2SignSweepReq == Message("MuSig2SignSweepReq",
    <<F(1, "enum"), F(2, "bytes"), F(3, "bytes"), F(4, "bytes"), F(6, "bytes"),
      R(7, "PrevoutInfo")>>)
PrevoutInfo == Message("PrevoutInfo",
    <<F(1, "uint64String"), F(2, "bytes"), F(3, "bytes"), F(4, "uint32")>>)
MuSig2SignSweepRes == Message("MuSig2SignSweepRes", <<F(1, "bytes"), F(2, "bytes")>>)
ServerPushKeyReq == Message("ServerPushKeyReq", <<F(1, "enum"), F(2, "bytes"), F(3, "bytes")>>)
ServerPushKeyRes == Message("ServerPushKeyRes", <<>>)
FetchL402Request == Message("FetchL402Request", <<>>)
FetchL402Response == Message("FetchL402Response", <<>>)
SubscribeNotificationsRequest == Message("SubscribeNotificationsRequest", <<F(1, "enum")>>)
SubscribeNotificationsResponse == Message("SubscribeNotificationsResponse",
    <<O(1, "ServerReservationNotification", 1), O(2, "ServerStaticLoopInSweepNotification", 1),
      O(3, "ServerUnfinishedSwapNotification", 1)>>)
ServerStaticLoopInSweepNotification == Message("ServerStaticLoopInSweepNotification",
    <<F(1, "bytes"), F(2, "bytes"), M(3, "string", "bytes"), R(4, "PrevoutInfo")>>)
ServerUnfinishedSwapNotification == Message("ServerUnfinishedSwapNotification",
    <<F(1, "bytes"), F(2, "bool")>>)
-----------------------------------------------------------------------------
(* swapserverrpc/common_pb.js *)

HopHint == Message("HopHint",
    <<F(1, "string"), F(2, "uint64String"), F(3, "uint32"), F(4, "uint32"), F(5, "uint32")>>)
RouteHint == Message("RouteHint", <<R(1, "HopHint")>>)
-----------------------------------------------------------------------------
(* swapserverrpc/reservation_pb.js *)

ReservationNotificationRequest == Message("ReservationNotificationRequest", <<F(1, "enum")>>)
ServerReservationNotification == Message("ServerReservationNotification",
    <<F(1, "bytes"), F(2, "uint64String"), F(3, "bytes"), F(4, "uint32"), F(5, "enum")>>)
ServerOpenReservationRequest == Message("ServerOpenReservationRequest",
    <<F(1, "bytes"), F(2, "bytes")>>)
ServerOpenReservationResponse == Message("ServerOpenReservationResponse", <<>>)
-----------------------------------------------------------------------------
Schemas ==
    {StopDaemonRequest, StopDaemonResponse, LoopOutRequest, LoopInRequest, SwapResponse,
     MonitorRequest, SwapStatus, ListSwapsRequest, ListSwapsFilter, ListSwapsResponse,
     SweepHtlcRequest, SweepHtlcResponse, PublishNotRequested, PublishSucceeded, PublishFailed,
     SwapInfoRequest, TermsRequest, InTermsResponse, OutTermsResponse, QuoteRequest,
     InQuoteResponse, OutQuoteResponse, ProbeRequest, ProbeResponse, TokensRequest,
     TokensResponse, FetchL402TokenRequest, FetchL402TokenResponse, L402Token, LoopStats,
     GetInfoRequest, GetInfoResponse, GetLiquidityParamsRequest, LiquidityParameters,
     EasyAssetAutoloopParams, LiquidityRule, SetLiquidityParamsRequest,
     SetLiquidityParamsResponse, SuggestSwapsRequest, Disqualified, SuggestSwapsResponse,
     AbandonSwapRequest, AbandonSwapResponse, ListReservationsRequest, ListReservationsResponse,
     ClientReservation, InstantOutRequest, InstantOutResponse, InstantOutQuoteRequest,
     InstantOutQuoteResponse, ListInstantOutsRequest, ListInstantOutsResponse, InstantOut,
     NewStaticAddressRequest, NewStaticAddressResponse, ListUnspentDepositsRequest,
     ListUnspentDepositsResponse, Utxo, WithdrawDepositsRequest, WithdrawDepositsResponse,
     OutPoint, ListStaticAddressDepositsRequest, ListStaticAddressDepositsResponse,
     ListStaticAddressWithdrawalRequest, ListStaticAddressWithdrawalResponse,
     ListStaticAddressSwapsRequest, ListStaticAddressSwapsResponse, StaticAddressSummaryRequest,
     StaticAddressSummaryResponse, Deposit, StaticAddressWithdrawal, StaticAddressLoopInSwap,
     StaticAddressLoopInRequest, StaticAddressLoopInResponse, AssetLoopOutRequest, AssetRfqInfo,
     FixedPoint, AssetLoopOutInfo, ServerLoopOutRequest, ServerLoopOutResponse,
     ServerLoopOutQuoteRequest, ServerLoopOutQuote, ServerLoopOutTermsRequest,
     ServerLoopOutTerms, ServerLoopInRequest, ServerLoopInResponse, ServerLoopInQuoteRequest,
     ServerLoopInQuoteResponse, ServerLoopInTermsRequest, ServerLoopInTerms,
     ServerLoopOutPushPreimageRequest, ServerLoopOutPushPreimageResponse,
     SubscribeUpdatesRequest, SubscribeLoopOutUpdatesResponse, SubscribeLoopInUpdatesResponse,
     RouteCancel, HtlcAttempt, CancelLoopOutSwapRequest, CancelLoopOutSwapResponse,
     ServerProbeRequest, ServerProbeResponse, RecommendRoutingPluginReq,
     RecommendRoutingPluginRes, ReportRoutingResultReq, ReportRoutingResultRes,
     MuSig2SignSweepReq, PrevoutInfo, MuSig2SignSweepRes, ServerPushKeyReq, ServerPushKeyRes,
     FetchL402Request, FetchL402Response, SubscribeNotificationsRequest,
     SubscribeNotificationsResponse, ServerStaticLoopInSweepNotification,
     ServerUnfinishedSwapNotification, HopHint, RouteHint, ReservationNotificationRequest,
     ServerReservationNotification, ServerOpenReservationRequest, ServerOpenReservationResponse}
=============================================================================
