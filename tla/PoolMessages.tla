--------------------------- MODULE PoolMessages -----------------------------
(***************************************************************************)
(* The schemas of the messages of Pool and its auctioneer, package poolrpc.*)
(***************************************************************************)
EXTENDS WireFields
-----------------------------------------------------------------------------
(* trader_pb.js *)

InitAccountRequest == Message("InitAccountRequest",
    <<F(1, "uint64String"), O(2, "uint32", 1), O(3, "uint32", 1), O(4, "uint32", 2),
      O(6, "uint64String", 2), F(5, "string"), F(7, "enum")>>)
QuoteAccountRequest == Message("QuoteAccountRequest", <<F(1, "uint64String"), O(2, "uint32", 1)>>)
QuoteAccountResponse == Message("QuoteAccountResponse",
    <<F(1, "uint64String"), F(2, "uint64String")>>)
ListAccountsRequest == Message("ListAccountsRequest", <<F(1, "bool")>>)
ListAccountsResponse == Message("ListAccountsResponse", <<R(1, "Account")>>)
Output == Message("Output", <<F(1, "uint64String"), F(2, "string")>>)
OutputWithFee == Message("OutputWithFee",
    <<F(1, "string"), O(2, "uint32", 1), O(3, "uint64String", 1)>>)
OutputsWithImplicitFee == Message("OutputsWithImplicitFee", <<R(1, "Output")>>)
CloseAccountRequest == Message("CloseAccountRequest",
    <<F(1, "bytes"), O(2, "OutputWithFee", 1), O(3, "OutputsWithImplicitFee", 1)>>)
CloseAccountResponse == Message("CloseAccountResponse", <<F(1, "bytes")>>)
WithdrawAccountRequest == Message("WithdrawAccountRequest",
    <<F(1, "bytes"), R(2, "Output"), F(3, "uint64String"), O(4, "uint32", 1), O(5, "uint32", 1),
      F(6, "enum")>>)
WithdrawAccountResponse == Message("WithdrawAccountResponse", <<E(1, "Account"), F(2, "bytes")>>)
DepositAccountRequest == Message("DepositAccountRequest",
    <<F(1, "bytes"), F(2, "uint64String"), F(3, "uint64String"), O(4, "uint32", 1),
      O(5, "uint32", 1), F(6, "enum")>>)
DepositAccountResponse == Message("DepositAccountResponse", <<E(1, "Account"), F(2, "bytes")>>)
RenewAccountRequest == Message("RenewAccountRequest",
    <<F(1, "bytes"), O(2, "uint32", 1), O(3, "uint32", 1), F(4, "uint64String"), F(5, "enum")>>)
RenewAccountResponse == Message("RenewAccountResponse", <<E(1, "Account"), F(2, "bytes")>>)
BumpAccountFeeRequest == Message("BumpAccountFeeRequest", <<F(1, "bytes"), F(2, "uint64String")>>)
BumpAccountFeeResponse == Message("BumpAccountFeeResponse", <<>>)
Account == Message("Account",
    <<F(1, "bytes"), E(2, "OutPoint"), F(3, "uint64String"), F(4, "uint64String"),
      F(5, "uint32"), F(6, "enum"), F(7, "bytes"), F(8, "enum")>>)
SubmitOrderRequest == Message("SubmitOrderRequest",
    <<O(1, "Ask", 1), O(2, "Bid", 1), F(3, "string")>>)
SubmitOrderResponse == Message("SubmitOrderResponse",
    <<O(1, "InvalidOrder", 1), O(2, "bytes", 1), F(3, "string")>>)
ListOrdersRequest == Message("ListOrdersRequest", <<F(1, "bool"), F(2, "bool")>>)
ListOrdersResponse == Message("ListOrdersResponse", <<R(1, "Ask"), R(2, "Bid")>>)
CancelOrderRequest == Message("CancelOrderRequest", <<F(1, "bytes")>>)
CancelOrderResponse == Message("CancelOrderResponse", <<>>)
Order == Message("Order",
    <<F(1, "bytes"), F(2, "uint32"), F(3, "uint64String"), F(4, "uint64String"), F(5, "bytes"),
      F(6, "enum"), F(7, "uint32"), F(8, "uint32"), F(9, "uint64String"), F(10, "uint64String"),
      R(11, "OrderEvent"), F(12, "uint32"), F(13, "enum"), R(14, "bytes"), R(15, "bytes"),
      F(16, "enum"), F(17, "bool")>>)
Bid == Message("Bid",
    <<E(1, "Order"), F(2, "uint32"), F(3, "uint32"), F(4, "enum"), F(5, "uint64String"),
      F(6, "string"), F(7, "bool"), F(8, "bool")>>)
Ask == Message("Ask", <<E(1, "Order"), F(2, "uint32"), F(3, "uint32"), F(4, "enum"), F(5, "enum")>>)
QuoteOrderRequest == Message("QuoteOrderRequest",
    <<F(1, "uint64String"), F(2, "uint32"), F(3, "uint32"), F(4, "uint64String"), F(5, "uint32")>>)
QuoteOrderResponse == Message("QuoteOrderResponse",
    <<F(1, "uint64String"), F(2, "double"), F(3, "double"), F(4, "uint64String"),
      F(5, "uint64String")>>)
OrderEvent == Message("OrderEvent",
    <<F(1, "int64String"), F(2, "string"), O(3, "UpdatedEvent", 1), O(4, "MatchEvent", 1)>>)
UpdatedEvent == Message("UpdatedEvent", <<F(1, "enum"), F(2, "enum"), F(3, "uint32")>>)
MatchEvent == Message("MatchEvent", <<F(1, "enum"), F(2, "uint32"), F(3, "bytes"), F(4, "enum")>>)
RecoverAccountsRequest == Message("RecoverAccountsRequest",
    <<F(1, "bool"), F(2, "uint32"), F(3, "string"), F(4, "uint32"), F(5, "string"),
      F(6, "string"), F(7, "string"), F(8, "bool"), F(9, "bool"), F(10, "string")>>)
RecoverAccountsResponse == Message("RecoverAccountsResponse", <<F(1, "uint32")>>)
AccountModificationFeesRequest == Message("AccountModificationFeesRequest", <<>>)
AccountModificationFee == Message("AccountModificationFee",
    <<F(1, "string"), F(2, "string"), F(3, "int32"), F(4, "int64String"), F(5, "int64String"),
      O(6, "bool", 1), O(7, "int64String", 1)>>)
ListOfAccountModificationFees == Message("ListOfAccountModificationFees",
    <<R(1, "AccountModificationFee")>>)
AccountModificationFeesResponse == Message("AccountModificationFeesResponse",
    <<M(1, "string", "ListOfAccountModificationFees")>>)
AuctionFeeRequest == Message("AuctionFeeRequest", <<>>)
AuctionFeeResponse == Message("AuctionFeeResponse", <<E(1, "ExecutionFee")>>)
Lease == Message("Lease",
    <<E(1, "OutPoint"), F(2, "uint64String"), F(3, "uint32"), F(4, "uint32"),
      F(5, "uint64String"), F(6, "uint64String"), F(7, "uint64String"), F(8, "uint64String"),
      F(9, "uint64String"), F(10, "bytes"), F(16, "bytes"), F(11, "bool"), F(12, "bytes"),
      F(13, "enum"), F(14, "uint64String"), F(15, "bool")>>)
LeasesRequest == Message("LeasesRequest", <<R(1, "bytes"), R(2, "bytes")>>)
LeasesResponse == Message("LeasesResponse",
    <<R(1, "Lease"), F(2, "uint64String"), F(3, "uint64String")>>)
TokensRequest == Message("TokensRequest", <<>>)
TokensResponse == Message("TokensResponse", <<R(1, "LsatToken")>>)
LsatToken == Message("LsatToken",
    <<F(1, "bytes"), F(2, "bytes"), F(3, "bytes"), F(4, "int64String"), F(5, "int64String"),
      F(6, "int64String"), F(7, "bool"), F(8, "string")>>)
LeaseDurationRequest == Message("LeaseDurationRequest", <<>>)
LeaseDurationResponse == Message("LeaseDurationResponse",
    <<M(1, "uint32", "bool"), M(2, "uint32", "enum")>>)
NextBatchInfoRequest == Message("NextBatchInfoRequest", <<>>)
NextBatchInfoResponse == Message("NextBatchInfoResponse",
    <<F(5, "uint32"), F(6, "uint64String"), F(7, "uint64String"), F(8, "uint32")>>)
NodeRatingRequest == Message("NodeRatingRequest", <<R(1, "bytes")>>)
NodeRatingResponse == Message("NodeRatingResponse", <<R(1, "NodeRating")>>)
GetInfoRequest == Message("GetInfoRequest", <<>>)
GetInfoResponse == Message("GetInfoResponse",
    <<F(1, "string"), F(2, "uint32"), F(3, "uint32"), F(4, "uint32"), F(5, "uint32"),
      F(6, "uint32"), F(7, "uint32"), F(8, "uint32"), F(9, "uint32"), F(10, "uint32"),
      E(11, "NodeRating"), F(12, "uint32"), F(13, "bool"), F(14, "bool")>>)
StopDaemonRequest == Message("StopDaemonRequest", <<>>)
StopDaemonResponse == Message("StopDaemonResponse", <<>>)
OfferSidecarRequest == Message("OfferSidecarRequest", <<F(1, "bool"), E(2, "Bid")>>)
SidecarTicket == Message("SidecarTicket", <<F(1, "string")>>)
DecodedSidecarTicket == Message("DecodedSidecarTicket",
    <<F(1, "bytes"), F(2, "uint32"), F(3, "string"), F(4, "uint64String"), F(5, "uint64String"),
      F(6, "uint32"), F(7, "bytes"), F(8, "bytes"), F(9, "bool"), F(10, "bytes"), F(11, "bytes"),
      F(12, "uint32"), F(13, "bytes"), F(14, "bytes"), F(15, "bytes"), F(16, "string"),
      F(17, "bool"), F(18, "bool")>>)
RegisterSidecarRequest == Message("RegisterSidecarRequest", <<F(1, "string"), F(2, "bool")>>)
ExpectSidecarChannelRequest == Message("ExpectSidecarChannelRequest", <<F(1, "string")>>)
ExpectSidecarChannelResponse == Message("ExpectSidecarChannelResponse", <<>>)
ListSidecarsRequest == Message("ListSidecarsRequest", <<F(1, "bytes")>>)
ListSidecarsResponse == Message("ListSidecarsResponse", <<R(1, "DecodedSidecarTicket")>>)
CancelSidecarRequest == Message("CancelSidecarRequest", <<F(1, "bytes")>>)
CancelSidecarResponse == Message("CancelSidecarResponse", <<>>)
-----------------------------------------------------------------------------
(* auctioneerrpc/auctioneer_pb.js *)

ReserveAccountRequest == Message("ReserveAccountRequest",
    <<F(1, "uint64String"), F(2, "uint32"), F(3, "bytes"), F(4, "uint32")>>)
ReserveAccountResponse == Message("ReserveAccountResponse", <<F(1, "bytes"), F(2, "bytes")>>)
ServerInitAccountRequest == Message("ServerInitAccountRequest",
    <<E(1, "OutPoint"), F(2, "bytes"), F(3, "uint64String"), F(4, "uint32"), F(5, "bytes"),
      F(6, "string"), F(7, "uint32")>>)
ServerInitAccountResponse == Message("ServerInitAccountResponse", <<>>)
ServerSubmitOrderRequest == Message("ServerSubmitOrderRequest",
    <<O(1, "ServerAsk", 1), O(2, "ServerBid", 1), F(3, "string")>>)
ServerSubmitOrderResponse == Message("ServerSubmitOrderResponse",
    <<O(1, "InvalidOrder", 1), O(2, "bool", 1)>>)
ServerCancelOrderRequest == Message("ServerCancelOrderRequest", <<F(1, "bytes")>>)
ServerCancelOrderResponse == Message("ServerCancelOrderResponse", <<>>)
ClientAuctionMessage == Message("ClientAuctionMessage",
    <<O(1, "AccountCommitment", 1), O(2, "AccountSubscription", 1), O(3, "OrderMatchAccept", 1),
      O(4, "OrderMatchReject", 1), O(5, "OrderMatchSign", 1), O(6, "AccountRecovery", 1)>>)
AccountCommitment == Message("AccountCommitment", <<F(1, "bytes"), F(2, "uint32")>>)
AccountSubscription == Message("AccountSubscription",
    <<F(1, "bytes"), F(2, "bytes"), F(3, "bytes")>>)
OrderMatchAccept == Message("OrderMatchAccept", <<F(1, "bytes")>>)
OrderMatchReject == Message("OrderMatchReject",
    <<F(1, "bytes"), F(2, "string"), F(3, "enum"), M(4, "string", "OrderReject")>>)
OrderReject == Message("OrderReject", <<F(1, "string"), F(2, "enum")>>)
ChannelInfo == Message("ChannelInfo",
    <<F(1, "enum"), F(2, "bytes"), F(3, "bytes"), F(4, "bytes"), F(5, "bytes")>>)
OrderMatchSign == Message("OrderMatchSign",
    <<F(1, "bytes"), M(2, "string", "bytes"), M(3, "string", "ChannelInfo"),
      M(4, "string", "bytes")>>)
AccountRecovery == Message("AccountRecovery", <<F(1, "bytes")>>)
ServerAuctionMessage == Message("ServerAuctionMessage",
    <<O(1, "ServerChallenge", 1), O(2, "SubscribeSuccess", 1), O(3, "SubscribeError", 1),
      O(4, "OrderMatchPrepare", 1), O(5, "OrderMatchSignBegin", 1),
      O(6, "OrderMatchFinalize", 1), O(7, "AuctionAccount", 1)>>)
ServerChallenge == Message("ServerChallenge", <<F(1, "bytes"), F(2, "bytes")>>)
SubscribeSuccess == Message("SubscribeSuccess", <<F(1, "bytes")>>)
MatchedMarket == Message("MatchedMarket", <<M(1, "string", "MatchedOrder"), F(2, "uint32")>>)
OrderMatchPrepare == Message("OrderMatchPrepare",
    <<M(1, "string", "MatchedOrder"), F(2, "uint32"), R(3, "AccountDiff"), E(4, "ExecutionFee"),
      F(5, "bytes"), F(6, "uint64String"), F(7, "uint64String"), F(8, "bytes"), F(9, "uint32"),
      M(10, "uint32", "MatchedMarket"), F(11, "uint32")>>)
TxOut == Message("TxOut", <<F(1, "uint64String"), F(2, "bytes")>>)
OrderMatchSignBegin == Message("OrderMatchSignBegin",
    <<F(1, "bytes"), M(2, "string", "bytes"), R(3, "TxOut")>>)
OrderMatchFinalize == Message("OrderMatchFinalize", <<F(1, "bytes"), F(2, "bytes")>>)
SubscribeError == Message("SubscribeError",
    <<F(1, "string"), F(2, "enum"), F(3, "bytes"), E(4, "AuctionAccount")>>)
AuctionAccount == Message("AuctionAccount",
    <<F(1, "uint64String"), F(2, "uint32"), F(3, "bytes"), F(4, "bytes"), F(5, "bytes"),
      F(6, "enum"), F(7, "uint32"), E(8, "OutPoint"), F(9, "bytes"), F(10, "uint32")>>)
MatchedOrder == Message("MatchedOrder", <<R(1, "MatchedBid"), R(2, "MatchedAsk")>>)
MatchedAsk == Message("MatchedAsk", <<E(1, "ServerAsk"), F(2, "uint32")>>)
MatchedBid == Message("MatchedBid", <<E(1, "ServerBid"), F(2, "uint32")>>)
AccountDiff == Message("AccountDiff",
    <<F(1, "uint64String"), F(2, "enum"), F(3, "int32"), F(4, "bytes"), F(5, "uint32"),
      F(6, "uint32")>>)
ServerOrder == Message("ServerOrder",
    <<F(1, "bytes"), F(2, "uint32"), F(3, "uint64String"), F(4, "uint64String"), F(6, "bytes"),
      F(7, "bytes"), F(8, "bytes"), F(9, "bytes"), R(10, "NodeAddress"), F(12, "enum"),
      F(13, "uint64String"), R(14, "bytes"), R(15, "bytes"), F(16, "enum"), F(17, "bool")>>)
ServerBid == Message("ServerBid",
    <<E(1, "ServerOrder"), F(2, "uint32"), F(4, "uint32"), F(5, "enum"), F(6, "uint64String"),
      F(7, "bool"), F(8, "bool"), F(9, "bool")>>)
ServerAsk == Message("ServerAsk",
    <<E(1, "ServerOrder"), F(4, "uint32"), F(5, "uint32"), F(6, "enum"), F(7, "enum")>>)
CancelOrder == Message("CancelOrder", <<F(1, "bytes")>>)
InvalidOrder == Message("InvalidOrder", <<F(1, "bytes"), F(2, "enum"), F(3, "string")>>)
ServerInput == Message("ServerInput", <<E(1, "OutPoint"), F(2, "bytes")>>)
ServerOutput == Message("ServerOutput", <<F(1, "uint64String"), F(2, "bytes")>>)
ServerModifyAccountRequest == Message("ServerModifyAccountRequest",
    <<F(1, "bytes"), R(2, "ServerInput"), R(3, "ServerOutput"),
      E(4, "ServerModifyAccountRequest_NewAccountParameters"), F(5, "bytes"), R(6, "TxOut")>>)
ServerModifyAccountRequest_NewAccountParameters == Message("ServerModifyAccountRequest_NewAccountParameters",
    <<F(1, "uint64String"), F(2, "uint32"), F(3, "uint32")>>)
ServerModifyAccountResponse == Message("ServerModifyAccountResponse",
    <<F(1, "bytes"), F(2, "bytes")>>)
ServerOrderStateRequest == Message("ServerOrderStateRequest", <<F(1, "bytes")>>)
ServerOrderStateResponse == Message("ServerOrderStateResponse", <<F(1, "enum"), F(2, "uint32")>>)
TermsRequest == Message("TermsRequest", <<>>)
TermsResponse == Message("TermsResponse",
    <<F(1, "uint64String"), F(2, "uint32"), E(3, "ExecutionFee"), M(4, "uint32", "bool"),
      F(5, "uint32"), F(6, "uint64String"), F(7, "uint64String"), M(8, "uint32", "enum"),
      F(9, "uint32")>>)
RelevantBatchRequest == Message("RelevantBatchRequest", <<F(1, "bytes"), R(2, "bytes")>>)
RelevantBatch == Message("RelevantBatch",
    <<F(1, "uint32"), F(2, "bytes"), R(3, "AccountDiff"), M(4, "string", "MatchedOrder"),
      F(5, "uint32"), E(6, "ExecutionFee"), F(7, "bytes"), F(8, "uint64String"),
      F(9, "uint64String"), M(10, "uint32", "MatchedMarket")>>)
ExecutionFee == Message("ExecutionFee", <<F(1, "uint64String"), F(2, "uint64String")>>)
NodeAddress == Message("NodeAddress", <<F(1, "string"), F(2, "string")>>)
OutPoint == Message("OutPoint", <<F(1, "bytes"), F(2, "uint32")>>)
AskSnapshot == Message("AskSnapshot",
    <<F(1, "uint32"), F(2, "uint32"), F(3, "uint32"), F(4, "enum")>>)
BidSnapshot == Message("BidSnapshot",
    <<F(1, "uint32"), F(2, "uint32"), F(3, "uint32"), F(4, "enum")>>)
MatchedOrderSnapshot == Message("MatchedOrderSnapshot",
    <<E(1, "AskSnapshot"), E(2, "BidSnapshot"), F(3, "uint32"), F(4, "uint64String"),
      F(5, "uint32")>>)
BatchSnapshotRequest == Message("BatchSnapshotRequest", <<F(1, "bytes")>>)
MatchedMarketSnapshot == Message("MatchedMarketSnapshot",
    <<R(1, "MatchedOrderSnapshot"), F(2, "uint32")>>)
BatchSnapshotResponse == Message("BatchSnapshotResponse",
    <<F(1, "uint32"), F(2, "bytes"), F(3, "bytes"), F(4, "uint32"), R(5, "MatchedOrderSnapshot"),
      F(7, "string"), F(6, "bytes"), F(8, "uint64String"), F(9, "uint64String"),
      M(10, "uint32", "MatchedMarketSnapshot")>>)
ServerNodeRatingRequest == Message("ServerNodeRatingRequest", <<R(1, "bytes")>>)
NodeRating == Message("NodeRating", <<F(1, "bytes"), F(2, "enum")>>)
ServerNodeRatingResponse == Message("ServerNodeRatingResponse", <<R(1, "NodeRating")>>)
BatchSnapshotsRequest == Message("BatchSnapshotsRequest", <<F(1, "bytes"), F(2, "uint32")>>)
BatchSnapshotsResponse == Message("BatchSnapshotsResponse", <<R(1, "BatchSnapshotResponse")>>)
MarketInfoRequest == Message("MarketInfoRequest", <<>>)
MarketInfo == Message("MarketInfo",
    <<R(1, "MarketInfo_TierValue"), R(2, "MarketInfo_TierValue"), R(3, "MarketInfo_TierValue"),
      R(4, "MarketInfo_TierValue")>>)
MarketInfo_TierValue == Message("MarketInfo_TierValue", <<F(1, "enum"), F(2, "uint32")>>)
MarketInfoResponse == Message("MarketInfoResponse", <<M(1, "uint32", "MarketInfo")>>)
-----------------------------------------------------------------------------
Schemas ==
    {InitAccountRequest, QuoteAccountRequest, QuoteAccountResponse, ListAccountsRequest,
     ListAccountsResponse, Output, OutputWithFee, OutputsWithImplicitFee, CloseAccountRequest,
     CloseAccountResponse, WithdrawAccountRequest, WithdrawAccountResponse,
     DepositAccountRequest, DepositAccountResponse, RenewAccountRequest, RenewAccountResponse,
     BumpAccountFeeRequest, BumpAccountFeeResponse, Account, SubmitOrderRequest,
     SubmitOrderResponse, ListOrdersRequest, ListOrdersResponse, CancelOrderRequest,
     CancelOrderResponse, Order, Bid, Ask, QuoteOrderRequest, QuoteOrderResponse, OrderEvent,
     UpdatedEvent, MatchEvent, RecoverAccountsRequest, RecoverAccountsResponse,
     AccountModificationFeesRequest, AccountModificationFee, ListOfAccountModificationFees,
     AccountModificationFeesResponse, AuctionFeeRequest, AuctionFeeResponse, Lease,
     LeasesRequest, LeasesResponse, TokensRequest, TokensResponse, LsatToken,
     LeaseDurationRequest, LeaseDurationResponse, NextBatchInfoRequest, NextBatchInfoResponse,
     NodeRatingRequest, NodeRatingResponse, GetInfoRequest, GetInfoResponse, StopDaemonRequest,
     StopDaemonResponse, OfferSidecarRequest, SidecarTicket, DecodedSidecarTicket,
     RegisterSidecarRequest, ExpectSidecarChannelRequest, ExpectSidecarChannelResponse,
     ListSidecarsRequest, ListSidecarsResponse, CancelSidecarRequest, CancelSidecarResponse,
     ReserveAccountRequest, ReserveAccountResponse, ServerInitAccountRequest,
     ServerInitAccountResponse, ServerSubmitOrderRequest, ServerSubmitOrderResponse,
     ServerCancelOrderRequest, ServerCancelOrderResponse, ClientAuctionMessage,
     AccountCommitment, AccountSubscription, OrderMatchAccept, OrderMatchReject, OrderReject,
     ChannelInfo, OrderMatchSign, AccountRecovery, ServerAuctionMessage, ServerChallenge,
     SubscribeSuccess, MatchedMarket, OrderMatchPrepare, TxOut, OrderMatchSignBegin,
     OrderMatchFinalize, SubscribeError, AuctionAccount, MatchedOrder, MatchedAsk, MatchedBid,
     AccountDiff, ServerOrder, ServerBid, ServerAsk, CancelOrder, InvalidOrder, ServerInput,
     ServerOutput, ServerModifyAccountRequest, ServerModifyAccountRequest_NewAccountParameters,
     ServerModifyAccountResponse, ServerOrderStateRequest, ServerOrderStateResponse,
     TermsRequest, TermsResponse, RelevantBatchRequest, RelevantBatch, ExecutionFee, NodeAddress,
     OutPoint, AskSnapshot, BidSnapshot, MatchedOrderSnapshot, BatchSnapshotRequest,
     MatchedMarketSnapshot, BatchSnapshotResponse, ServerNodeRatingRequest, NodeRating,
     ServerNodeRatingResponse, BatchSnapshotsRequest, BatchSnapshotsResponse, MarketInfoRequest,
     MarketInfo, MarketInfo_TierValue, MarketInfoResponse}
=============================================================================
