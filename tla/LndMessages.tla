---------------------------- MODULE LndMessages -----------------------------
(***************************************************************************)
(* The schemas of the messages of lnd, package lnrpc: the wallet, peers,   *)
(* channels and the graph.  LndPaymentMessages has the rest of the package.*)
(***************************************************************************)
EXTENDS WireFields
-----------------------------------------------------------------------------
(* lnd_pb.js *)

LookupHtlcResolutionRequest == Message("LookupHtlcResolutionRequest",
    <<F(1, "uint64String"), F(2, "uint64String")>>)
LookupHtlcResolutionResponse == Message("LookupHtlcResolutionResponse",
    <<F(1, "bool"), F(2, "bool")>>)
SubscribeCustomMessagesRequest == Message("SubscribeCustomMessagesRequest", <<>>)
CustomMessage == Message("CustomMessage", <<F(1, "bytes"), F(2, "uint32"), F(3, "bytes")>>)
SendCustomMessageRequest == Message("SendCustomMessageRequest",
    <<F(1, "bytes"), F(2, "uint32"), F(3, "bytes")>>)
SendCustomMessageResponse == Message("SendCustomMessageResponse", <<F(1, "string")>>)
Utxo == Message("Utxo",
    <<F(1, "enum"), F(2, "string"), F(3, "int64String"), F(4, "string"), E(5, "OutPoint"),
      F(6, "int64String")>>)
OutputDetail == Message("OutputDetail",
    <<F(1, "enum"), F(2, "string"), F(3, "string"), F(4, "int64String"), F(5, "int64String"),
      F(6, "bool")>>)
Transaction == Message("Transaction",
    <<F(1, "string"), F(2, "int64String"), F(3, "int32"), F(4, "string"), F(5, "int32"),
      F(6, "int64String"), F(7, "int64String"), R(8, "string"), R(11, "OutputDetail"),
      F(9, "string"), F(10, "string"), R(12, "PreviousOutPoint")>>)
GetTransactionsRequest == Message("GetTransactionsRequest",
    <<F(1, "int32"), F(2, "int32"), F(3, "string"), F(4, "uint32"), F(5, "uint32")>>)
TransactionDetails == Message("TransactionDetails",
    <<R(1, "Transaction"), F(2, "uint64String"), F(3, "uint64String")>>)
FeeLimit == Message("FeeLimit",
    <<O(1, "int64String", 1), O(3, "int64String", 1), O(2, "int64String", 1)>>)
SendRequest == Message("SendRequest",
    <<F(1, "bytes"), F(2, "string"), F(3, "int64String"), F(12, "int64String"), F(4, "bytes"),
      F(5, "string"), F(6, "string"), F(7, "int32"), E(8, "FeeLimit"), F(9, "uint64String"),
      F(13, "bytes"), F(10, "uint32"), M(11, "uint64", "bytes"), F(14, "bool"), P(15, "enum"),
      F(16, "bytes")>>)
SendResponse == Message("SendResponse",
    <<F(1, "string"), F(2, "bytes"), E(3, "Route"), F(4, "bytes")>>)
SendToRouteRequest == Message("SendToRouteRequest",
    <<F(1, "bytes"), F(2, "string"), E(4, "Route")>>)
ChannelAcceptRequest == Message("ChannelAcceptRequest",
    <<F(1, "bytes"), F(2, "bytes"), F(3, "bytes"), F(4, "uint64String"), F(5, "uint64String"),
      F(6, "uint64String"), F(7, "uint64String"), F(8, "uint64String"), F(9, "uint64String"),
      F(10, "uint64String"), F(11, "uint32"), F(12, "uint32"), F(13, "uint32"), F(14, "enum"),
      F(15, "bool"), F(16, "bool")>>)
ChannelAcceptResponse == Message("ChannelAcceptResponse",
    <<F(1, "bool"), F(2, "bytes"), F(3, "string"), F(4, "string"), F(5, "uint32"),
      F(6, "uint64String"), F(7, "uint64String"), F(8, "uint32"), F(9, "uint64String"),
      F(10, "uint32"), F(11, "bool")>>)
ChannelPoint == Message("ChannelPoint", <<O(1, "bytes", 1), O(2, "string", 1), F(3, "uint32")>>)
OutPoint == Message("OutPoint", <<F(1, "bytes"), F(2, "string"), F(3, "uint32")>>)
PreviousOutPoint == Message("PreviousOutPoint", <<F(1, "string"), F(2, "bool")>>)
LightningAddress == Message("LightningAddress", <<F(1, "string"), F(2, "string")>>)
EstimateFeeRequest == Message("EstimateFeeRequest",
    <<M(1, "string", "int64"), F(2, "int32"), F(3, "int32"), F(4, "bool"), F(5, "enum")>>)
EstimateFeeResponse == Message("EstimateFeeResponse",
    <<F(1, "int64String"), F(2, "int64String"), F(3, "uint64String")>>)
SendManyRequest == Message("SendManyRequest",
    <<M(1, "string", "int64"), F(3, "int32"), F(4, "uint64String"), F(5, "int64String"),
      F(6, "string"), F(7, "int32"), F(8, "bool"), F(9, "enum")>>)
SendManyResponse == Message("SendManyResponse", <<F(1, "string")>>)
SendCoinsRequest == Message("SendCoinsRequest",
    <<F(1, "string"), F(2, "int64String"), F(3, "int32"), F(4, "uint64String"),
      F(5, "int64String"), F(6, "bool"), F(7, "string"), F(8, "int32"), F(9, "bool"),
      F(10, "enum"), R(11, "OutPoint")>>)
SendCoinsResponse == Message("SendCoinsResponse", <<F(1, "string")>>)
ListUnspentRequest == Message("ListUnspentRequest",
    <<F(1, "int32"), F(2, "int32"), F(3, "string")>>)
ListUnspentResponse == Message("ListUnspentResponse", <<R(1, "Utxo")>>)
NewAddressRequest == Message("NewAddressRequest", <<F(1, "enum"), F(2, "string")>>)
NewAddressResponse == Message("NewAddressResponse", <<F(1, "string")>>)
SignMessageRequest == Message("SignMessageRequest", <<F(1, "bytes"), F(2, "bool")>>)
SignMessageResponse == Message("SignMessageResponse", <<F(1, "string")>>)
VerifyMessageRequest == Message("VerifyMessageRequest", <<F(1, "bytes"), F(2, "string")>>)
VerifyMessageResponse == Message("VerifyMessageResponse", <<F(1, "bool"), F(2, "string")>>)
ConnectPeerRequest == Message("ConnectPeerRequest",
    <<E(1, "LightningAddress"), F(2, "bool"), F(3, "uint64String")>>)
ConnectPeerResponse == Message("ConnectPeerResponse", <<F(1, "string")>>)
DisconnectPeerRequest == Message("DisconnectPeerRequest", <<F(1, "string")>>)
DisconnectPeerResponse == Message("DisconnectPeerResponse", <<F(1, "string")>>)
HTLC == Message("HTLC",
    <<F(1, "bool"), F(2, "int64String"), F(3, "bytes"), F(4, "uint32"), F(5, "uint64String"),
      F(6, "uint64String"), F(7, "uint64String"), F(8, "bool")>>)
ChannelConstraints == Message("ChannelConstraints",
    <<F(1, "uint32"), F(2, "uint64String"), F(3, "uint64String"), F(4, "uint64String"),
      F(5, "uint64String"), F(6, "uint32")>>)
Channel == Message("Channel",
    <<F(1, "bool"), F(2, "string"), F(3, "string"), F(4, "uint64String"), F(5, "int64String"),
      F(6, "int64String"), F(7, "int64String"), F(8, "int64String"), F(9, "int64String"),
      F(10, "int64String"), F(11, "int64String"), F(12, "int64String"), F(13, "int64String"),
      F(14, "uint64String"), R(15, "HTLC"), F(16, "uint32"), F(17, "bool"), F(18, "bool"),
      F(19, "string"), F(20, "int64String"), F(21, "int64String"), F(22, "bool"), F(26, "enum"),
      F(23, "int64String"), F(24, "int64String"), F(25, "string"), F(27, "uint64String"),
      F(28, "uint32"), E(29, "ChannelConstraints"), E(30, "ChannelConstraints"),
      P(31, "uint64String"), F(32, "bool"), F(33, "uint64String"), F(34, "string"),
      F(35, "uint64String"), F(36, "string"), F(37, "bytes")>>)
ListChannelsRequest == Message("ListChannelsRequest",
    <<F(1, "bool"), F(2, "bool"), F(3, "bool"), F(4, "bool"), F(5, "bytes"), F(6, "bool")>>)
ListChannelsResponse == Message("ListChannelsResponse", <<R(11, "Channel")>>)
AliasMap == Message("AliasMap", <<F(1, "uint64String"), P(2, "uint64String")>>)
ListAliasesRequest == Message("ListAliasesRequest", <<>>)
ListAliasesResponse == Message("ListAliasesResponse", <<R(1, "AliasMap")>>)
ChannelCloseSummary == Message("ChannelCloseSummary",
    <<F(1, "string"), F(2, "uint64String"), F(3, "string"), F(4, "string"), F(5, "string"),
      F(6, "int64String"), F(7, "uint32"), F(8, "int64String"), F(9, "int64String"),
      F(10, "enum"), F(11, "enum"), F(12, "enum"), R(13, "Resolution"), P(14, "uint64String"),
      F(15, "uint64String"), F(16, "bytes")>>)
Resolution == Message("Resolution",
    <<F(1, "enum"), F(2, "enum"), E(3, "OutPoint"), F(4, "uint64String"), F(5, "string")>>)
ClosedChannelsRequest == Message("ClosedChannelsRequest",
    <<F(1, "bool"), F(2, "bool"), F(3, "bool"), F(4, "bool"), F(5, "bool"), F(6, "bool")>>)
ClosedChannelsResponse == Message("ClosedChannelsResponse", <<R(1, "ChannelCloseSummary")>>)
Peer == Message("Peer",
    <<F(1, "string"), F(3, "string"), F(4, "uint64String"), F(5, "uint64String"),
      F(6, "int64String"), F(7, "int64String"), F(8, "bool"), F(9, "int64String"), F(10, "enum"),
      M(11, "uint32", "Feature"), R(12, "TimestampedError"), F(13, "int32"),
      F(14, "int64String"), F(15, "bytes")>>)
TimestampedError == Message("TimestampedError", <<F(1, "uint64String"), F(2, "string")>>)
ListPeersRequest == Message("ListPeersRequest", <<F(1, "bool")>>)
ListPeersResponse == Message("ListPeersResponse", <<R(1, "Peer")>>)
PeerEventSubscription == Message("PeerEventSubscription", <<>>)
PeerEvent == Message("PeerEvent", <<F(1, "string"), F(2, "enum")>>)
GetInfoRequest == Message("GetInfoRequest", <<>>)
GetInfoResponse == Message("GetInfoResponse",
    <<F(14, "string"), F(20, "string"), F(1, "string"), F(2, "string"), F(17, "string"),
      F(3, "uint32"), F(4, "uint32"), F(15, "uint32"), F(5, "uint32"), F(6, "uint32"),
      F(8, "string"), F(13, "int64String"), F(9, "bool"), F(18, "bool"), F(10, "bool"),
      R(16, "Chain"), R(12, "string"), M(19, "uint32", "Feature"), F(21, "bool"), F(22, "bool")>>)
GetDebugInfoRequest == Message("GetDebugInfoRequest", <<>>)
GetDebugInfoResponse == Message("GetDebugInfoResponse",
    <<M(1, "string", "string"), R(2, "string")>>)
GetRecoveryInfoRequest == Message("GetRecoveryInfoRequest", <<>>)
GetRecoveryInfoResponse == Message("GetRecoveryInfoResponse",
    <<F(1, "bool"), F(2, "bool"), F(3, "double")>>)
Chain == Message("Chain", <<F(1, "string"), F(2, "string")>>)
ChannelOpenUpdate == Message("ChannelOpenUpdate", <<E(1, "ChannelPoint")>>)
CloseOutput == Message("CloseOutput",
    <<F(1, "int64String"), F(2, "bytes"), F(3, "bool"), F(4, "bytes")>>)
ChannelCloseUpdate == Message("ChannelCloseUpdate",
    <<F(1, "bytes"), F(2, "bool"), E(3, "CloseOutput"), E(4, "CloseOutput"), R(5, "CloseOutput")>>)
CloseChannelRequest == Message("CloseChannelRequest",
    <<E(1, "ChannelPoint"), F(2, "bool"), F(3, "int32"), F(4, "int64String"), F(5, "string"),
      F(6, "uint64String"), F(7, "uint64String"), F(8, "bool")>>)
CloseStatusUpdate == Message("CloseStatusUpdate",
    <<O(1, "PendingUpdate", 1), O(3, "ChannelCloseUpdate", 1), O(4, "InstantUpdate", 1)>>)
PendingUpdate == Message("PendingUpdate",
    <<F(1, "bytes"), F(2, "uint32"), F(3, "int64String"), F(4, "bool")>>)
InstantUpdate == Message("InstantUpdate", <<F(1, "int32")>>)
ReadyForPsbtFunding == Message("ReadyForPsbtFunding",
    <<F(1, "string"), F(2, "int64String"), F(3, "bytes")>>)
BatchOpenChannelRequest == Message("BatchOpenChannelRequest",
    <<R(1, "BatchOpenChannel"), F(2, "int32"), F(3, "int64String"), F(4, "int32"), F(5, "bool"),
      F(6, "string"), F(7, "enum")>>)
BatchOpenChannel == Message("BatchOpenChannel",
    <<F(1, "bytes"), F(2, "int64String"), F(3, "int64String"), F(4, "bool"), F(5, "int64String"),
      F(6, "uint32"), F(7, "string"), F(8, "bytes"), F(9, "enum"), F(10, "uint64String"),
      F(11, "uint32"), F(12, "uint32"), F(13, "bool"), F(14, "bool"), F(15, "uint64String"),
      F(16, "uint64String"), F(17, "bool"), F(18, "bool"), F(19, "uint64String"), F(20, "string")>>)
BatchOpenChannelResponse == Message("BatchOpenChannelResponse", <<R(1, "PendingUpdate")>>)
OpenChannelRequest == Message("OpenChannelRequest",
    <<F(1, "uint64String"), F(2, "bytes"), F(3, "string"), F(4, "int64String"),
      F(5, "int64String"), F(6, "int32"), F(7, "int64String"), F(8, "bool"), F(9, "int64String"),
      F(10, "uint32"), F(11, "int32"), F(12, "bool"), F(13, "string"), E(14, "FundingShim"),
      F(15, "uint64String"), F(16, "uint32"), F(17, "uint32"), F(18, "enum"), F(19, "bool"),
      F(20, "bool"), F(21, "uint64String"), F(22, "uint64String"), F(23, "bool"), F(24, "bool"),
      F(25, "uint64String"), F(26, "bool"), F(27, "string"), R(28, "OutPoint")>>)
OpenStatusUpdate == Message("OpenStatusUpdate",
    <<O(1, "PendingUpdate", 1), O(3, "ChannelOpenUpdate", 1), O(5, "ReadyForPsbtFunding", 1),
      F(4, "bytes")>>)
KeyLocator == Message("KeyLocator", <<F(1, "int32"), F(2, "int32")>>)
KeyDescriptor == Message("KeyDescriptor", <<F(1, "bytes"), E(2, "KeyLocator")>>)
ChanPointShim == Message("ChanPointShim",
    <<F(1, "int64String"), E(2, "ChannelPoint"), E(3, "KeyDescriptor"), F(4, "bytes"),
      F(5, "bytes"), F(6, "uint32"), F(7, "bool")>>)
PsbtShim == Message("PsbtShim", <<F(1, "bytes"), F(2, "bytes"), F(3, "bool")>>)
FundingShim == Message("FundingShim", <<O(1, "ChanPointShim", 1), O(2, "PsbtShim", 1)>>)
FundingShimCancel == Message("FundingShimCancel", <<F(1, "bytes")>>)
FundingPsbtVerify == Message("FundingPsbtVerify", <<F(1, "bytes"), F(2, "bytes"), F(3, "bool")>>)
FundingPsbtFinalize == Message("FundingPsbtFinalize",
    <<F(1, "bytes"), F(2, "bytes"), F(3, "bytes")>>)
FundingTransitionMsg == Message("FundingTransitionMsg",
    <<O(1, "FundingShim", 1), O(2, "FundingShimCancel", 1), O(3, "FundingPsbtVerify", 1),
      O(4, "FundingPsbtFinalize", 1)>>)
FundingStateStepResp == Message("FundingStateStepResp", <<>>)
PendingHTLC == Message("PendingHTLC",
    <<F(1, "bool"), F(2, "int64String"), F(3, "string"), F(4, "uint32"), F(5, "int32"),
      F(6, "uint32")>>)
PendingChannelsRequest == Message("PendingChannelsRequest", <<F(1, "bool")>>)
PendingChannelsResponse == Message("PendingChannelsResponse",
    <<F(1, "int64String"), R(2, "PendingChannelsResponse_PendingOpenChannel"),
      R(3, "PendingChannelsResponse_ClosedChannel"),
      R(4, "PendingChannelsResponse_ForceClosedChannel"),
      R(5, "PendingChannelsResponse_WaitingCloseChannel")>>)
PendingChannelsResponse_PendingChannel == Message("PendingChannelsResponse_PendingChannel",
    <<F(1, "string"), F(2, "string"), F(3, "int64String"), F(4, "int64String"),
      F(5, "int64String"), F(6, "int64String"), F(7, "int64String"), F(8, "enum"), F(9, "enum"),
      F(10, "int64String"), F(11, "string"), F(12, "bool"), F(13, "string"), F(34, "bytes")>>)
PendingChannelsResponse_PendingOpenChannel == Message("PendingChannelsResponse_PendingOpenChannel",
    <<E(1, "PendingChannelsResponse_PendingChannel"), F(4, "int64String"), F(5, "int64String"),
      F(6, "int64String"), F(3, "int32"), F(7, "uint32"), F(8, "uint32")>>)
PendingChannelsResponse_WaitingCloseChannel == Message("PendingChannelsResponse_WaitingCloseChannel",
    <<E(1, "PendingChannelsResponse_PendingChannel"), F(2, "int64String"),
      E(3, "PendingChannelsResponse_Commitments"), F(4, "string"), F(5, "string")>>)
PendingChannelsResponse_Commitments == Message("PendingChannelsResponse_Commitments",
    <<F(1, "string"), F(2, "string"), F(3, "string"), F(4, "uint64String"), F(5, "uint64String"),
      F(6, "uint64String")>>)
PendingChannelsResponse_ClosedChannel == Message("PendingChannelsResponse_ClosedChannel",
    <<E(1, "PendingChannelsResponse_PendingChannel"), F(2, "string")>>)
PendingChannelsResponse_ForceClosedChannel == Message("PendingChannelsResponse_ForceClosedChannel",
    <<E(1, "PendingChannelsResponse_PendingChannel"), F(2, "string"), F(3, "int64String"),
      F(4, "uint32"), F(5, "int32"), F(6, "int64String"), R(8, "PendingHTLC"), F(9, "enum")>>)
ChannelEventSubscription == Message("ChannelEventSubscription", <<>>)
ChannelEventUpdate == Message("ChannelEventUpdate",
    <<O(1, "Channel", 1), O(2, "ChannelCloseSummary", 1), O(3, "ChannelPoint", 1),
      O(4, "ChannelPoint", 1), O(6, "PendingUpdate", 1), O(7, "ChannelPoint", 1),
      O(8, "ChannelPoint", 1), F(5, "enum")>>)
WalletAccountBalance == Message("WalletAccountBalance",
    <<F(1, "int64String"), F(2, "int64String")>>)
WalletBalanceRequest == Message("WalletBalanceRequest", <<F(1, "string"), F(2, "int32")>>)
WalletBalanceResponse == Message("WalletBalanceResponse",
    <<F(1, "int64String"), F(2, "int64String"), F(3, "int64String"), F(5, "int64String"),
      F(6, "int64String"), M(4, "string", "WalletAccountBalance")>>)
Amount == Message("Amount", <<F(1, "uint64String"), F(2, "uint64String")>>)
ChannelBalanceRequest == Message("ChannelBalanceRequest", <<>>)
ChannelBalanceResponse == Message("ChannelBalanceResponse",
    <<F(1, "int64String"), F(2, "int64String"), E(3, "Amount"), E(4, "Amount"), E(5, "Amount"),
      E(6, "Amount"), E(7, "Amount"), E(8, "Amount"), F(9, "bytes")>>)
QueryRoutesRequest == Message("QueryRoutesRequest",
    <<F(1, "string"), F(2, "int64String"), F(12, "int64String"), F(4, "int32"), E(5, "FeeLimit"),
      R(6, "bytes"), R(7, "EdgeLocator"), F(8, "string"), F(9, "bool"), R(10, "NodePair"),
      F(11, "uint32"), M(13, "uint64", "bytes"), F(14, "uint64String"), F(15, "bytes"),
      R(16, "RouteHint"), R(19, "BlindedPaymentPath"), P(17, "enum"), F(18, "double"),
      P(20, "uint64String")>>)
NodePair == Message("NodePair", <<F(1, "bytes"), F(2, "bytes")>>)
EdgeLocator == Message("EdgeLocator", <<F(1, "uint64String"), F(2, "bool")>>)
QueryRoutesResponse == Message("QueryRoutesResponse", <<R(1, "Route"), F(2, "double")>>)
Hop == Message("Hop",
    <<F(1, "uint64String"), F(2, "int64String"), F(3, "int64String"), F(4, "int64String"),
      F(5, "uint32"), F(6, "int64String"), F(7, "int64String"), F(8, "string"), F(9, "bool"),
      E(10, "MPPRecord"), E(12, "AMPRecord"), M(11, "uint64", "bytes"), F(13, "bytes"),
      F(14, "bytes"), F(15, "bytes"), F(16, "uint64String")>>)
MPPRecord == Message("MPPRecord", <<F(11, "bytes"), F(10, "int64String")>>)
AMPRecord == Message("AMPRecord", <<F(1, "bytes"), F(2, "bytes"), F(3, "uint32")>>)
Route == Message("Route",
    <<F(1, "uint32"), F(2, "int64String"), F(3, "int64String"), R(4, "Hop"), F(5, "int64String"),
      F(6, "int64String"), F(7, "int64String"), F(8, "bytes")>>)
NodeInfoRequest == Message("NodeInfoRequest", <<F(1, "string"), F(2, "bool"), F(3, "bool")>>)
NodeInfo == Message("NodeInfo",
    <<E(1, "LightningNode"), F(2, "uint32"), F(3, "int64String"), R(4, "ChannelEdge")>>)
LightningNode == Message("LightningNode",
    <<F(1, "uint32"), F(2, "string"), F(3, "string"), R(4, "NodeAddress"), F(5, "string"),
      M(6, "uint32", "Feature"), M(7, "uint64", "bytes")>>)
NodeAddress == Message("NodeAddress", <<F(1, "string"), F(2, "string")>>)
RoutingPolicy == Message("RoutingPolicy",
    <<F(1, "uint32"), F(2, "int64String"), F(3, "int64String"), F(4, "int64String"),
      F(5, "bool"), F(6, "uint64String"), F(7, "uint32"), M(8, "uint64", "bytes"), F(9, "int32"),
      F(10, "int32")>>)
ChannelAuthProof == Message("ChannelAuthProof",
    <<F(1, "bytes"), F(2, "bytes"), F(3, "bytes"), F(4, "bytes")>>)
ChannelEdge == Message("ChannelEdge",
    <<F(1, "uint64String"), F(2, "string"), F(3, "uint32"), F(4, "string"), F(5, "string"),
      F(6, "int64String"), E(7, "RoutingPolicy"), E(8, "RoutingPolicy"), M(9, "uint64", "bytes"),
      E(10, "ChannelAuthProof")>>)
ChannelGraphRequest == Message("ChannelGraphRequest", <<F(1, "bool"), F(2, "bool")>>)
ChannelGraph == Message("ChannelGraph", <<R(1, "LightningNode"), R(2, "ChannelEdge")>>)
NodeMetricsRequest == Message("NodeMetricsRequest", <<P(1, "enum")>>)
NodeMetricsResponse == Message("NodeMetricsResponse", <<M(1, "string", "FloatMetric")>>)
FloatMetric == Message("FloatMetric", <<F(1, "double"), F(2, "double")>>)
ChanInfoRequest == Message("ChanInfoRequest",
    <<F(1, "uint64String"), F(2, "string"), F(3, "bool")>>)
NetworkInfoRequest == Message("NetworkInfoRequest", <<>>)
NetworkInfo == Message("NetworkInfo",
    <<F(1, "uint32"), F(2, "double"), F(3, "uint32"), F(4, "uint32"), F(5, "uint32"),
      F(6, "int64String"), F(7, "double"), F(8, "int64String"), F(9, "int64String"),
      F(10, "int64String"), F(11, "uint64String")>>)
StopRequest == Message("StopRequest", <<>>)
StopResponse == Message("StopResponse", <<F(1, "string")>>)
GraphTopologySubscription == Message("GraphTopologySubscription", <<>>)
GraphTopologyUpdate == Message("GraphTopologyUpdate",
    <<R(1, "NodeUpdate"), R(2, "ChannelEdgeUpdate"), R(3, "ClosedChannelUpdate")>>)
NodeUpdate == Message("NodeUpdate",
    <<R(1, "string"), F(2, "string"), F(3, "bytes"), F(4, "string"), F(5, "string"),
      R(7, "NodeAddress"), M(6, "uint32", "Feature")>>)
ChannelEdgeUpdate == Message("ChannelEdgeUpdate",
    <<F(1, "uint64String"), E(2, "ChannelPoint"), F(3, "int64String"), E(4, "RoutingPolicy"),
      F(5, "string"), F(6, "string")>>)
ClosedChannelUpdate == Message("ClosedChannelUpdate",
    <<F(1, "uint64String"), F(2, "int64String"), F(3, "uint32"), E(4, "ChannelPoint")>>)
-----------------------------------------------------------------------------
Schemas ==
    {LookupHtlcResolutionRequest, LookupHtlcResolutionResponse, SubscribeCustomMessagesRequest,
     CustomMessage, SendCustomMessageRequest, SendCustomMessageResponse, Utxo, OutputDetail,
     Transaction, GetTransactionsRequest, TransactionDetails, FeeLimit, SendRequest,
     SendResponse, SendToRouteRequest, ChannelAcceptRequest, ChannelAcceptResponse, ChannelPoint,
     OutPoint, PreviousOutPoint, LightningAddress, EstimateFeeRequest, EstimateFeeResponse,
     SendManyRequest, SendManyResponse, SendCoinsRequest, SendCoinsResponse, ListUnspentRequest,
     ListUnspentResponse, NewAddressRequest, NewAddressResponse, SignMessageRequest,
     SignMessageResponse, VerifyMessageRequest, VerifyMessageResponse, ConnectPeerRequest,
     ConnectPeerResponse, DisconnectPeerRequest, DisconnectPeerResponse, HTLC,
     ChannelConstraints, Channel, ListChannelsRequest, ListChannelsResponse, AliasMap,
     ListAliasesRequest, ListAliasesResponse, ChannelCloseSummary, Resolution,
     ClosedChannelsRequest, ClosedChannelsResponse, Peer, TimestampedError, ListPeersRequest,
     ListPeersResponse, PeerEventSubscription, PeerEvent, GetInfoRequest, GetInfoResponse,
     GetDebugInfoRequest, GetDebugInfoResponse, GetRecoveryInfoRequest, GetRecoveryInfoResponse,
     Chain, ChannelOpenUpdate, CloseOutput, ChannelCloseUpdate, CloseChannelRequest,
     CloseStatusUpdate, PendingUpdate, InstantUpdate, ReadyForPsbtFunding,
     BatchOpenChannelRequest, BatchOpenChannel, BatchOpenChannelResponse, OpenChannelRequest,
     OpenStatusUpdate, KeyLocator, KeyDescriptor, ChanPointShim, PsbtShim, FundingShim,
     FundingShimCancel, FundingPsbtVerify, FundingPsbtFinalize, FundingTransitionMsg,
     FundingStateStepResp, PendingHTLC, PendingChannelsRequest, PendingChannelsResponse,
     PendingChannelsResponse_PendingChannel, PendingChannelsResponse_PendingOpenChannel,
     PendingChannelsResponse_WaitingCloseChannel, PendingChannelsResponse_Commitments,
     PendingChannelsResponse_ClosedChannel, PendingChannelsResponse_ForceClosedChannel,
     ChannelEventSubscription, ChannelEventUpdate, WalletAccountBalance, WalletBalanceRequest,
     WalletBalanceResponse, Amount, ChannelBalanceRequest, ChannelBalanceResponse,
     QueryRoutesRequest, NodePair, EdgeLocator, QueryRoutesResponse, Hop, MPPRecord, AMPRecord,
     Route, NodeInfoRequest, NodeInfo, LightningNode, NodeAddress, RoutingPolicy,
     ChannelAuthProof, ChannelEdge, ChannelGraphRequest, ChannelGraph, NodeMetricsRequest,
     NodeMetricsResponse, FloatMetric, ChanInfoRequest, NetworkInfoRequest, NetworkInfo,
     StopRequest, StopResponse, GraphTopologySubscription, GraphTopologyUpdate, NodeUpdate,
     ChannelEdgeUpdate, ClosedChannelUpdate}
=============================================================================
